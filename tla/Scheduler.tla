------------------------------ MODULE Scheduler ------------------------------
(***************************************************************************)
(* Who the one game serves next: crates/adapter/src/scheduler.rs.          *)
(*                                                                         *)
(* The game has many clients and one main thread.  A request waits in      *)
(* line; the highest level goes first, clients of one level take turns,    *)
(* and a lease keeps the game for one connection between its requests.     *)
(* Each action below is one method of the Scheduler, called with the       *)
(* runtime's mutex held and hence atomic.                                  *)
(*                                                                         *)
(* Two abstractions of data.  The line is a set of numbered requests: the  *)
(* Vec keeps the order of the numbers, so its first element of a           *)
(* connection is the one of least number.  An Instant is the age it has    *)
(* reached, saturated at the only bound it is ever compared with.          *)
(***************************************************************************)
EXTENDS Integers, Sequences, FiniteSets, Folds, FiniteSetsExt

CONSTANTS
  Conn,       (* connection ids; the greeter gives each one out once       *)
  NoConn,     (* Option::None of a connection id                           *)
  Client,     (* the names clients claim under                             *)
  ClientOf,   (* the name each connection claims                           *)
  LevelOf,    (* the level each connection claims                          *)
  Ops,        (* the operations the clients of this instance ask for       *)
  LeaseIdle,  (* LEASE_IDLE, in ticks of the clock                         *)
  Linger,     (* the adapter's linger time, in ticks of the clock          *)
  MaxSequence (* bound on the requests an instance puts in line            *)

MAX_LEVEL == 4

Immediate == {"status", "queue", "quit_game"}
Turn == {"record_replay_round", "record_watch_replay", "tournament", "lease"}
Leased == {"start_test", "apply_layout", "record_fight", "toggle_fight",
           "speed_up", "quit_match"}
Operation == Immediate \cup Turn \cup Leased

ASSUME SchedulerAssumption ==
  /\ NoConn \notin Conn
  /\ ClientOf \in [Conn -> Client]
  /\ LevelOf \in [Conn -> 0..MAX_LEVEL]
  /\ Ops \subseteq Operation
  /\ LeaseIdle \in Nat
  /\ Linger \in Nat
  /\ MaxSequence \in Nat

VARIABLES
  connections,  (* the open connections                                    *)
  queue,        (* the requests waiting for their turn                     *)
  running,      (* the request the game is running, or NoRun               *)
  lease,        (* the connection holding the lease, or NoConn             *)
  served,       (* the turn at which each client was last served, 0 never  *)
  turns,        (* turns given out so far                                  *)
  sequence,     (* number of the last request put in line                  *)
  tallies,      (* per client: requests done, failed and cancelled         *)
  ready,        (* whether the game has reached its main menu              *)
  sceneAge,     (* time since each connection's last scene request         *)
  idleFor       (* time since nobody wanted the game, or NotIdle           *)

schedVars == <<connections, queue, running, lease, served, turns, sequence,
               tallies, ready, sceneAge, idleFor>>

Waiting == [sequence : Nat \ {0}, conn : Conn, op : Ops, id : Nat]
NoRun == [conn |-> NoConn]
Running == [conn : Conn, op : Ops, id : Nat, level : 0..MAX_LEVEL]
Tally == [done : Nat, failed : Nat, cancelled : Nat]
NotIdle == -1

SchedTypeOK ==
  /\ connections \subseteq Conn
  /\ queue \subseteq Waiting
  /\ running \in Running \cup {NoRun}
  /\ lease \in Conn \cup {NoConn}
  /\ served \in [Client -> Nat]
  /\ turns \in Nat
  /\ sequence \in Nat
  /\ tallies \in [Client -> Tally]
  /\ ready \in BOOLEAN
  /\ sceneAge \in [Conn -> 0..LeaseIdle]
  /\ idleFor \in {NotIdle} \cup 0..Linger

-----------------------------------------------------------------------------
(* The line.                                                               *)

(* The key of order(): a request whose connection is gone ranks at level 0 *)
(* as a client never served.                                               *)
Level(w) == IF w.conn \in connections THEN LevelOf[w.conn] ELSE 0

(* Slip: first come, first served.                                         *)
NeverServed(w, when) == 0

LastServed(w, when) ==
  IF w.conn \in connections THEN when[ClientOf[w.conn]] ELSE 0

(* Whether w goes before v when clients were last served as "when" says.   *)
Before(w, v, when) ==
  \/ Level(w) > Level(v)
  \/ /\ Level(w) = Level(v)
     /\ \/ LastServed(w, when) < LastServed(v, when)
        \/ /\ LastServed(w, when) = LastServed(v, when)
           /\ w.sequence < v.sequence

IsFirst(w, line, when) ==
  w \in line /\ \A v \in line \ {w} : Before(w, v, when)

(* order(): the line as it would be served, each request served on paper   *)
(* before the next is chosen: step[n] is the line after n of them.  It does *)
(* not look at the lease.                                                  *)
NotServedOnPaper(w, when, turn) == when  (* slip: all keys are of now       *)

ServedOnPaper(w, when, turn) ==
  IF w.conn \in connections
  THEN [when EXCEPT ![ClientOf[w.conn]] = turn] ELSE when

Order ==
  LET nextLines(p, n) ==
        {[left |-> p.left \ {w},
          when |-> ServedOnPaper(w, p.when, turns + n),
          line |-> Append(p.line, w)] :
           w \in {x \in p.left : IsFirst(x, p.left, p.when)}}
      step[n \in 0..Cardinality(queue)] ==
        IF n = 0 THEN {[left |-> queue, when |-> served, line |-> <<>>]}
        ELSE UNION {nextLines(p, n) : p \in step[n - 1]}
  IN (CHOOSE p \in step[Cardinality(queue)] : TRUE).line

(* The highest level another connection waits at makes the lease fall, and *)
(* so does any other connection waiting once the lease has been idle.      *)
WaitingOthers ==
  {w \in queue : w.conn # lease /\ w.conn \in connections}

(* Slip: only a higher level takes a lease back.                           *)
RevokeForRankOnly ==
  /\ running = NoRun
  /\ lease \in connections
  /\ \E w \in WaitingOthers : LevelOf[w.conn] > LevelOf[lease]

RevokeDue ==
  /\ running = NoRun
  /\ lease \in connections
  /\ \E w \in WaitingOthers :
       LevelOf[w.conn] > LevelOf[lease] \/ sceneAge[lease] >= LeaseIdle

(* The request next() takes out of the line.  A lease whose connection has *)
(* gone counts for none.                                                   *)
Chosen(w) ==
  /\ running = NoRun
  /\ w \in queue
  /\ IF lease \in connections
     THEN /\ ~ RevokeDue
          /\ w.conn = lease
          /\ \A v \in queue : v.conn = lease => w.sequence <= v.sequence
     ELSE ready /\ IsFirst(w, queue, served)

-----------------------------------------------------------------------------
(* settle_idle(), with what the call leaves open, waiting and running.     *)
(* Slips: it does not look at what runs; it is called too early to see     *)
(* that nothing does.                                                      *)
SettleIdleRunning(open, line, run) ==
  idleFor' = IF open = {} /\ line = {} /\ idleFor = NotIdle THEN 0 ELSE idleFor

SettleIdle(open, line, run) ==
  idleFor' = IF open = {} /\ line = {} /\ run = NoRun /\ idleFor = NotIdle
             THEN 0 ELSE idleFor

(* connect(): a greeted claim becomes a connection.                        *)
Connect(c) ==
  /\ connections' = connections \cup {c}
  /\ sceneAge' = [sceneAge EXCEPT ![c] = 0]
  /\ idleFor' = NotIdle
  /\ UNCHANGED <<queue, running, lease, served, turns, sequence, tallies,
                 ready>>

(* close() of an open connection: it takes its requests out of the line    *)
(* and gives its lease back.  Its running request is left to the caller.   *)
NotOwned(c) == {}  (* slip: the requests stay in line                       *)
OwnedBy(c) == {w \in queue : w.conn = c}

DroppedUncounted(c) == 0  (* slips: not counted, or counted the wrong way    *)
DroppedSwapped(c) == Cardinality(queue \ OwnedBy(c)) - Cardinality(queue)
Dropped(c) == Cardinality(queue) - Cardinality(queue \ OwnedBy(c))

LeaseKept(c) == lease  (* slip: the lease outlives its connection            *)
LeaseLeft(c) == IF lease = c THEN NoConn ELSE lease

Close(c) ==
  /\ c \in connections
  /\ connections' = connections \ {c}
  /\ queue' = queue \ OwnedBy(c)
  /\ tallies' = [tallies EXCEPT ![ClientOf[c]].cancelled =
                   @ + Dropped(c)]
  /\ lease' = LeaseLeft(c)
  /\ SettleIdle(connections', queue', running)
  /\ UNCHANGED <<running, served, turns, sequence, ready, sceneAge>>

(* enqueue(): the request goes in line; a scene operation counts as use of *)
(* the lease.  Nothing here asks whether the connection is still open.     *)
Enqueue(c, op, id) ==
  /\ sequence' = sequence + 1
  /\ queue' = queue \cup
       {[sequence |-> sequence + 1, conn |-> c, op |-> op, id |-> id]}
  /\ sceneAge' = IF op \in Leased /\ c \in connections
                 THEN [sceneAge EXCEPT ![c] = 0] ELSE sceneAge
  /\ idleFor' = NotIdle
  /\ UNCHANGED <<connections, running, lease, served, turns, tallies, ready>>

(* outranks_running(): whether the request just queued by c stops the one  *)
(* that runs.  Slip: the holder of a lease is never stopped.               *)
OutranksNoHolder(c) ==
  /\ running # NoRun
  /\ running.conn \notin {c, lease}
  /\ c \in connections
  /\ LevelOf[c] > running.level

OutranksRunning(c) ==
  /\ running # NoRun
  /\ running.conn # c
  /\ c \in connections
  /\ LevelOf[c] > running.level

LeftInLine(w) == queue  (* slip: the request is read, not taken              *)
TakenOut(w) == queue \ {w}

(* start() of a request whose connection is open: it gets the turn, and a  *)
(* lease request the lease with it.                                        *)
Start(w) ==
  /\ Chosen(w)
  /\ w.conn \in connections
  /\ queue' = TakenOut(w)
  /\ turns' = turns + 1
  /\ served' = [served EXCEPT ![ClientOf[w.conn]] = turns + 1]
  /\ lease' = IF w.op = "lease" THEN w.conn
              ELSE IF lease \in connections THEN lease ELSE NoConn
  /\ running' = [conn |-> w.conn, op |-> w.op, id |-> w.id,
                 level |-> LevelOf[w.conn]]
  /\ UNCHANGED <<connections, sequence, tallies, ready, sceneAge, idleFor>>

(* start() of a request whose connection has gone: it is dropped, counted  *)
(* nowhere, and next() answers Wait.                                       *)
Drop(w) ==
  /\ Chosen(w)
  /\ w.conn \notin connections
  /\ queue' = TakenOut(w)
  /\ lease' = NoConn
  /\ UNCHANGED <<connections, running, served, turns, sequence, tallies,
                 ready, sceneAge, idleFor>>

(* finish(): the running request ended, well or not.                       *)
Finish(ok) ==
  /\ running # NoRun
  /\ tallies' =
       IF ok THEN [tallies EXCEPT ![ClientOf[running.conn]].done = @ + 1]
             ELSE [tallies EXCEPT ![ClientOf[running.conn]].failed = @ + 1]
  /\ running' = NoRun
  /\ SettleIdle(connections, queue, NoRun)
  /\ UNCHANGED <<connections, queue, lease, served, turns, sequence, ready,
                 sceneAge>>

(* drain(): the game is stopping and everything waiting is cancelled.      *)
Drain ==
  /\ queue' = {}
  /\ tallies' = [k \in Client |->
       [tallies[k] EXCEPT !.cancelled = @ + Cardinality(
          {w \in queue : w.conn \in connections /\ ClientOf[w.conn] = k})]]
  /\ UNCHANGED <<connections, running, lease, served, turns, sequence, ready,
                 sceneAge, idleFor>>

(* The runtime sees the main menu for the first time.                      *)
BecomeReady ==
  /\ ready' = TRUE
  /\ UNCHANGED <<connections, queue, running, lease, served, turns, sequence,
                 tallies, sceneAge, idleFor>>

(* A tick of the monotonic clock every Instant is read from.               *)
Older(age, bound) == IF age < bound THEN age + 1 ELSE age
TickSched ==
  /\ sceneAge' = [c \in Conn |-> Older(sceneAge[c], LeaseIdle)]
  /\ idleFor' = IF idleFor = NotIdle THEN NotIdle ELSE Older(idleFor, Linger)
  /\ UNCHANGED <<connections, queue, running, lease, served, turns, sequence,
                 tallies, ready>>

-----------------------------------------------------------------------------
(* The scheduler on its own, called as its contract allows: only an open   *)
(* connection asks, only the holder asks for a scene operation, and a lease *)
(* is revoked by closing its holder.  A closed id that has left nothing     *)
(* behind stands for the fresh id the greeter would give out.  Drop is not  *)
(* among the calls, since OnlyOpenWait below shows it disabled, nor is the  *)
(* Drain of a game that stops.                                              *)

SchedInit ==
  /\ connections = {}
  /\ queue = {}
  /\ running = NoRun
  /\ lease = NoConn
  /\ served = [k \in Client |-> 0]
  /\ turns = 0
  /\ sequence = 0
  /\ tallies = [k \in Client |-> [done |-> 0, failed |-> 0, cancelled |-> 0]]
  /\ ready = FALSE
  /\ sceneAge = [c \in Conn |-> 0]
  /\ idleFor = 0

Open(c) ==
  /\ c \notin connections
  /\ running.conn # c
  /\ Connect(c)

Ask(c, op) ==
  /\ sequence < MaxSequence
  /\ c \in connections
  /\ op \in Leased => lease = c
  /\ Enqueue(c, op, 0)

RevokeLease == RevokeDue /\ Close(lease)

SchedNext ==
  \/ \E c \in Conn : Open(c)
  \/ \E c \in Conn : Close(c)
  \/ \E c \in Conn, op \in Ops \ Immediate : Ask(c, op)
  \/ RevokeLease
  \/ \E w \in queue : Start(w)
  \/ \E ok \in BOOLEAN : Finish(ok)
  \/ BecomeReady
  \/ TickSched

SchedSpec == SchedInit /\ [][SchedNext]_schedVars

-----------------------------------------------------------------------------
(* Only requests of open connections wait, so next() never meets a request *)
(* nobody is there to read the answer of.                                  *)
OnlyOpenWait == \A w \in queue : w.conn \in connections

(* While a lease is held, the game runs nobody else's request: start()     *)
(* passes over everyone but the holder, and the lease is granted in the    *)
(* turn of the request that asked for it.                                  *)
LeaseExcludes ==
  lease # NoConn =>
    /\ lease \in connections
    /\ running # NoRun => running.conn = lease

(* A scene operation waits, and runs, under the lease of the connection    *)
(* that asked for it, or is running on for a connection that has gone:     *)
(* when a lease ends, its holder's scene requests leave the line with it.  *)
SceneUnderLease ==
  /\ \A w \in queue : w.op \in Leased => w.conn = lease
  /\ running # NoRun /\ running.op \in Leased /\ running.conn \in connections
       => running.conn = lease

(* Every request ever put in line is waiting, running, or counted once in  *)
(* its client's tally: nothing is lost or counted twice by a close, a      *)
(* revocation or a drain.                                                  *)
Counted(k) == tallies[k].done + tallies[k].failed + tallies[k].cancelled
AllCounted ==
  sequence = FoldSet(LAMBDA k, n : n + Counted(k), 0, Client)
             + Cardinality(queue) + (IF running = NoRun THEN 0 ELSE 1)

(* The linger clock runs exactly while nobody is connected and nothing is  *)
(* asked of the game.                                                      *)
IdleExactly ==
  (idleFor # NotIdle) <=> (connections = {} /\ queue = {} /\ running = NoRun)

(* The order clients are shown is the order they are served in: with the   *)
(* lease free, a turn goes to the head of the line, and what is left of    *)
(* the line keeps its order.                                               *)
OrderKept ==
  [][\A w \in queue : Start(w) /\ lease = NoConn
       => Order = <<w>> \o Order']_schedVars
=============================================================================
