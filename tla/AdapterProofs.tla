---------------------------- MODULE AdapterProofs ----------------------------
(***************************************************************************)
(* First the scheduler alone: it keeps its promises for every set of       *)
(* connections, clients and levels.  Its types and the safety invariants   *)
(* of Scheduler hold, the order shown is the order served, every request   *)
(* is counted, and the clients of one level share the turns.               *)
(*                                                                         *)
(* Then the adapter: with every thread running, the lease still excludes,  *)
(* the one ABANDON flag still says of the running request what is true of  *)
(* it, a turn starts at the main menu, and the adapter keeps the promise   *)
(* of OneGame, for any connections, levels, operations, pipelining and     *)
(* clocks.                                                                 *)
(***************************************************************************)
EXTENDS AdapterRefinement, SchedulerTurns, FoldFacts

(* What every operation keeps, whoever calls it: types, the exclusion of    *)
(* the lease, and scene requests under their lease.  The line is finite,    *)
(* so that what a close drops can be counted.                               *)
LeaseInv ==
  /\ SchedTypeOK
  /\ IsFiniteSet(queue)
  /\ LeaseExcludes
  /\ SceneUnderLease

(* The inductive invariant of the scheduler called as its contract allows. *)
SchedInv ==
  /\ LeaseInv
  /\ OnlyOpenWait
  /\ IdleExactly

-----------------------------------------------------------------------------
(* Facts on the line and the linger clock.                                 *)

(* What a close drops is a number of requests.                             *)
LEMMA DroppedNat ==
  ASSUME IsFiniteSet(queue), NEW c \in Conn
  PROVE  Dropped(c) \in Nat
PROOF
  <1>1. queue \ OwnedBy(c) \subseteq queue
    OBVIOUS
  <1>2. /\ Cardinality(queue) \in Nat
        /\ Cardinality(queue \ OwnedBy(c)) \in Nat
        /\ Cardinality(queue \ OwnedBy(c)) <= Cardinality(queue)
    BY <1>1, FS_Subset, FS_CardinalityType
  <1> QED
    BY <1>2 DEF Dropped

(* While a lease is held, the request next() takes is its holder's; with   *)
(* the lease free, it is no scene request.                                 *)
LEMMA ChosenUnderLease ==
  ASSUME LeaseInv, NEW w \in queue, Chosen(w)
  PROVE  /\ running = NoRun
         /\ lease # NoConn => lease \in connections /\ w.conn = lease
         /\ w.op \in Leased => w.conn = lease
PROOF
  BY DEF LeaseInv, LeaseExcludes, SceneUnderLease, Chosen

(* No open connection waits at a higher level than the request next()      *)
(* takes: under a lease, because the lease would be taken back first.      *)
LEMMA ChosenIsHighest ==
  ASSUME LeaseInv, NEW w \in queue, Chosen(w), w.conn \in connections,
         NEW v \in queue, v.conn \in connections
  PROVE  LevelOf[v.conn] <= LevelOf[w.conn]
PROOF
  <1>1. /\ w \in Waiting /\ v \in Waiting
        /\ LevelOf[w.conn] \in Nat /\ LevelOf[v.conn] \in Nat
    BY SchedulerAssumption DEF SchedulerAssumption, LeaseInv, SchedTypeOK,
       Waiting, MAX_LEVEL
  <1>2. CASE v = w
    BY <1>1, <1>2
  <1>3. CASE lease \in connections /\ v # w
    <2>1. w.conn = lease /\ ~ RevokeDue /\ running = NoRun
      BY <1>3 DEF Chosen
    <2>2. CASE v.conn = lease
      BY <1>1, <2>1, <2>2
    <2>3. CASE v.conn # lease
      <3>1. v \in WaitingOthers
        BY <2>3 DEF WaitingOthers
      <3>2. ~ (LevelOf[v.conn] > LevelOf[lease])
        BY <1>3, <2>1, <3>1 DEF RevokeDue
      <3> QED
        BY <1>1, <2>1, <3>2
    <2> QED
      BY <2>2, <2>3
  <1>4. CASE lease \notin connections /\ v # w
    <2>1. Before(w, v, served)
      BY <1>4 DEF Chosen, IsFirst
    <2> QED
      BY <1>1, <2>1 DEF Before, Level
  <1> QED
    BY <1>2, <1>3, <1>4

(* settle_idle() leaves the clock within its bounds, and running exactly   *)
(* when nobody wants the game if it was not running while somebody did.    *)
LEMMA Settled ==
  ASSUME NEW open, NEW line, NEW run,
         idleFor \in {NotIdle} \cup 0..Linger,
         SettleIdle(open, line, run)
  PROVE  /\ idleFor' \in {NotIdle} \cup 0..Linger
         /\ idleFor = NotIdle =>
              (idleFor' # NotIdle <=> open = {} /\ line = {} /\ run = NoRun)
PROOF
  BY SchedulerAssumption DEF SettleIdle, NotIdle

-----------------------------------------------------------------------------
(* The operations keep LeaseInv.                                           *)

LEMMA InitLease == SchedInit => LeaseInv
PROOF
  <1> SUFFICES ASSUME SchedInit PROVE LeaseInv
    OBVIOUS
  <1> USE DEF SchedInit
  <1>1. tallies \in [Client -> Tally]
    BY DEF Tally
  <1>2. /\ sceneAge \in [Conn -> 0..LeaseIdle]
        /\ idleFor \in {NotIdle} \cup 0..Linger
    BY SchedulerAssumption DEF NotIdle
  <1>3. SchedTypeOK
    BY <1>1, <1>2 DEF SchedTypeOK
  <1>4. IsFiniteSet(queue)
    BY FS_EmptySet
  <1> QED
    BY <1>3, <1>4 DEF LeaseInv, LeaseExcludes, SceneUnderLease

LEMMA ConnectLease ==
  ASSUME LeaseInv, NEW c \in Conn, running.conn # c, Connect(c)
  PROVE  LeaseInv'
PROOF
  <1> USE DEF Connect
  <1>1. SchedTypeOK'
    BY SchedulerAssumption DEF LeaseInv, SchedTypeOK
  <1>2. LeaseExcludes' /\ SceneUnderLease'
    BY DEF LeaseInv, LeaseExcludes, SceneUnderLease
  <1> QED
    BY <1>1, <1>2 DEF LeaseInv

LEMMA CloseLease ==
  ASSUME LeaseInv, NEW c \in Conn, Close(c)
  PROVE  LeaseInv'
PROOF
  <1> USE DEF Close
  <1>1. idleFor' \in {NotIdle} \cup 0..Linger
    BY Settled DEF LeaseInv, SchedTypeOK
  <1>2. tallies' \in [Client -> Tally]
    <2>1. Dropped(c) \in Nat
      BY DroppedNat DEF LeaseInv
    <2>2. tallies \in [Client -> Tally] /\ ClientOf[c] \in Client
      BY SchedulerAssumption DEF LeaseInv, SchedTypeOK
    <2>3. tallies[ClientOf[c]].cancelled + Dropped(c) \in Nat
      BY <2>1, <2>2 DEF Tally
    <2> QED
      BY <2>2, <2>3 DEF Tally
  <1>3. SchedTypeOK'
    <2>1. lease' \in Conn \cup {NoConn}
      BY DEF LeaseInv, SchedTypeOK, LeaseLeft
    <2> QED
      BY <1>1, <1>2, <2>1 DEF LeaseInv, SchedTypeOK
  <1>4. IsFiniteSet(queue)'
    BY FS_Subset DEF LeaseInv
  <1>5. LeaseExcludes' /\ SceneUnderLease'
    BY DEF LeaseInv, LeaseExcludes, SceneUnderLease, OwnedBy, LeaseLeft
  <1> QED
    BY <1>3, <1>4, <1>5 DEF LeaseInv

LEMMA EnqueueLease ==
  ASSUME LeaseInv, NEW c \in Conn, NEW op \in Ops, NEW id \in Nat,
         op \in Leased => lease = c, Enqueue(c, op, id)
  PROVE  LeaseInv'
PROOF
  <1> USE DEF Enqueue
  <1> DEFINE new ==
        [sequence |-> sequence + 1, conn |-> c, op |-> op, id |-> id]
  <1>1. queue' = queue \cup {new} /\ new.conn = c /\ new.op = op
    OBVIOUS
  <1>2. SchedTypeOK'
    <2>1. new \in Waiting
      BY DEF LeaseInv, SchedTypeOK, Waiting
    <2>2. sceneAge' \in [Conn -> 0..LeaseIdle]
      BY SchedulerAssumption DEF LeaseInv, SchedTypeOK
    <2> QED
      BY <1>1, <2>1, <2>2 DEF LeaseInv, SchedTypeOK
  <1>3. IsFiniteSet(queue)'
    BY <1>1, FS_AddElement DEF LeaseInv
  <1>4. LeaseExcludes' /\ SceneUnderLease'
    BY <1>1 DEF LeaseInv, LeaseExcludes, SceneUnderLease
  <1> QED
    BY <1>2, <1>3, <1>4 DEF LeaseInv

LEMMA StartLease ==
  ASSUME LeaseInv, NEW w \in queue, Start(w)
  PROVE  /\ LeaseInv'
         /\ running = NoRun /\ running' # NoRun
         /\ running'.conn = w.conn /\ running'.level = LevelOf[w.conn]
PROOF
  <1> USE DEF Start, TakenOut
  <1>1. /\ running = NoRun
        /\ lease # NoConn => lease \in connections /\ w.conn = lease
        /\ w.op \in Leased => w.conn = lease
    BY ChosenUnderLease
  <1>2. w \in Waiting /\ w.conn \in Conn /\ w.conn \in connections
    BY DEF LeaseInv, SchedTypeOK, Waiting
  <1>3. lease' = IF w.op = "lease" THEN w.conn ELSE lease
    BY <1>1
  <1>4. running' = [conn |-> w.conn, op |-> w.op, id |-> w.id,
                    level |-> LevelOf[w.conn]]
        /\ running' # NoRun
    <2>1. NoConn \notin Conn
      BY SchedulerAssumption DEF SchedulerAssumption
    <2> QED
      BY <1>2, <2>1 DEF NoRun
  <1>5. SchedTypeOK'
    <2>1. running' \in Running
      BY <1>2, SchedulerAssumption DEF Running, Waiting
    <2>2. served' \in [Client -> Nat] /\ turns' \in Nat
      BY <1>2, SchedulerAssumption DEF LeaseInv, SchedTypeOK
    <2>3. lease' \in Conn \cup {NoConn}
      BY <1>2, <1>3 DEF LeaseInv, SchedTypeOK
    <2> QED
      BY <2>1, <2>2, <2>3 DEF LeaseInv, SchedTypeOK
  <1>6. IsFiniteSet(queue)'
    BY FS_Subset DEF LeaseInv
  <1>7. LeaseExcludes'
    BY <1>1, <1>2, <1>3, <1>4 DEF LeaseExcludes
  <1>8. SceneUnderLease'
    <2>1. w.op \in Leased => w.op # "lease"
      BY DEF Leased
    <2>2. \A v \in queue : v.op \in Leased => v.conn = lease /\ v.conn # NoConn
      BY SchedulerAssumption
         DEF LeaseInv, SchedTypeOK, SceneUnderLease, Waiting
    <2> QED
      BY <1>1, <1>2, <1>3, <1>4, <2>1, <2>2 DEF SceneUnderLease
  <1> QED
    BY <1>1, <1>4, <1>5, <1>6, <1>7, <1>8 DEF LeaseInv

LEMMA DropLease ==
  ASSUME LeaseInv, NEW w \in queue, Drop(w)
  PROVE  LeaseInv'
PROOF
  <1> USE DEF Drop, TakenOut
  <1>1. lease = NoConn
    BY ChosenUnderLease
  <1>2. SchedTypeOK' /\ LeaseExcludes' /\ SceneUnderLease'
    BY <1>1 DEF LeaseInv, SchedTypeOK, LeaseExcludes, SceneUnderLease
  <1>3. IsFiniteSet(queue)'
    BY FS_Subset DEF LeaseInv
  <1> QED
    BY <1>2, <1>3 DEF LeaseInv

LEMMA FinishLease ==
  ASSUME LeaseInv, NEW ok, Finish(ok)
  PROVE  LeaseInv'
PROOF
  <1> USE DEF Finish
  <1>1. idleFor' \in {NotIdle} \cup 0..Linger
    BY Settled DEF LeaseInv, SchedTypeOK
  <1>2. tallies' \in [Client -> Tally]
    <2>1. tallies \in [Client -> Tally] /\ ClientOf[running.conn] \in Client
      BY SchedulerAssumption DEF LeaseInv, SchedTypeOK, Running
    <2>2. /\ tallies[ClientOf[running.conn]].done + 1 \in Nat
          /\ tallies[ClientOf[running.conn]].failed + 1 \in Nat
      BY <2>1 DEF Tally
    <2> QED
      BY <2>1, <2>2 DEF Tally
  <1>3. SchedTypeOK'
    BY <1>1, <1>2 DEF LeaseInv, SchedTypeOK
  <1>4. LeaseExcludes' /\ SceneUnderLease'
    BY DEF LeaseInv, LeaseExcludes, SceneUnderLease
  <1> QED
    BY <1>3, <1>4 DEF LeaseInv

LEMMA DrainLease ==
  ASSUME LeaseInv, Drain
  PROVE  LeaseInv'
PROOF
  <1> USE DEF Drain
  <1> DEFINE of(k) ==
        {w \in queue : w.conn \in connections /\ ClientOf[w.conn] = k}
  <1>1. \A k \in Client : Cardinality(of(k)) \in Nat
    <2> TAKE k \in Client
    <2>1. of(k) \subseteq queue
      OBVIOUS
    <2> QED
      BY <2>1, FS_Subset, FS_CardinalityType DEF LeaseInv
  <1>2. tallies' \in [Client -> Tally]
    <2>1. tallies \in [Client -> Tally]
      BY DEF LeaseInv, SchedTypeOK
    <2>2. \A k \in Client :
            [tallies[k] EXCEPT !.cancelled = @ + Cardinality(of(k))] \in Tally
      BY <1>1, <2>1 DEF Tally
    <2> HIDE DEF of
    <2> QED
      BY <2>2 DEF of
  <1>3. SchedTypeOK' /\ LeaseExcludes' /\ SceneUnderLease'
    BY <1>2 DEF LeaseInv, SchedTypeOK, LeaseExcludes, SceneUnderLease
  <1>4. IsFiniteSet(queue)'
    BY FS_EmptySet
  <1> QED
    BY <1>3, <1>4 DEF LeaseInv

LEMMA ReadyLease ==
  ASSUME LeaseInv, BecomeReady
  PROVE  LeaseInv'
PROOF
  BY DEF BecomeReady, LeaseInv, SchedTypeOK, LeaseExcludes, SceneUnderLease

LEMMA TickLease ==
  ASSUME LeaseInv, TickSched
  PROVE  LeaseInv' /\ (idleFor' = NotIdle <=> idleFor = NotIdle)
PROOF
  <1> USE DEF TickSched
  <1>1. sceneAge' \in [Conn -> 0..LeaseIdle]
    BY SchedulerAssumption DEF LeaseInv, SchedTypeOK, Older
  <1>2. idleFor' \in {NotIdle} \cup 0..Linger
        /\ (idleFor' = NotIdle <=> idleFor = NotIdle)
    BY SchedulerAssumption DEF LeaseInv, SchedTypeOK, Older, NotIdle
  <1>3. SchedTypeOK'
    BY <1>1, <1>2 DEF LeaseInv, SchedTypeOK
  <1>4. LeaseExcludes' /\ SceneUnderLease'
    BY DEF LeaseInv, LeaseExcludes, SceneUnderLease
  <1> QED
    BY <1>2, <1>3, <1>4 DEF LeaseInv

LEMMA StutterLease ==
  ASSUME LeaseInv, UNCHANGED schedVars
  PROVE  LeaseInv'
PROOF
  BY DEF schedVars, LeaseInv, SchedTypeOK, LeaseExcludes, SceneUnderLease

-----------------------------------------------------------------------------
(* The scheduler as its contract allows it to be called.                   *)

LEMMA InitInv == SchedInit => SchedInv
PROOF
  BY InitLease DEF SchedInit, SchedInv, OnlyOpenWait, IdleExactly, NotIdle

LEMMA StepInv == SchedInv /\ [SchedNext]_schedVars => SchedInv'
PROOF
  <1> SUFFICES ASSUME SchedInv, [SchedNext]_schedVars PROVE SchedInv'
    OBVIOUS
  <1> USE DEF SchedInv
  <1>1. ASSUME NEW c \in Conn, Open(c) PROVE SchedInv'
    <2>1. LeaseInv'
      BY <1>1, ConnectLease DEF Open
    <2>2. OnlyOpenWait' /\ IdleExactly'
      BY <1>1 DEF Open, Connect, OnlyOpenWait, IdleExactly
    <2> QED
      BY <2>1, <2>2
  <1>2. ASSUME NEW c \in Conn, Close(c) PROVE SchedInv'
    <2>1. LeaseInv'
      BY <1>2, CloseLease
    <2>2. OnlyOpenWait'
      BY <1>2 DEF Close, OnlyOpenWait, OwnedBy
    <2>3. IdleExactly'
      <3>1. idleFor = NotIdle /\ idleFor \in {NotIdle} \cup 0..Linger
        BY <1>2 DEF Close, IdleExactly
      <3>2. SettleIdle(connections', queue', running) /\ running' = running
        BY <1>2 DEF Close
      <3> QED
        BY <3>1, <3>2, Settled DEF IdleExactly
    <2> QED
      BY <2>1, <2>2, <2>3
  <1>3. ASSUME NEW c \in Conn, NEW op \in Ops \ Immediate, Ask(c, op)
        PROVE  SchedInv'
    <2>1. LeaseInv'
      BY <1>3, EnqueueLease DEF Ask
    <2>2. OnlyOpenWait' /\ IdleExactly'
      BY <1>3 DEF Ask, Enqueue, OnlyOpenWait, IdleExactly
    <2> QED
      BY <2>1, <2>2
  <1>4. CASE RevokeLease
    <2>1. lease \in Conn /\ Close(lease)
      BY <1>4 DEF RevokeLease, RevokeDue, LeaseInv, SchedTypeOK
    <2> QED
      BY <1>2, <2>1
  <1>5. ASSUME NEW w \in queue, Start(w) PROVE SchedInv'
    <2>1. LeaseInv' /\ running' # NoRun
      BY <1>5, StartLease
    <2>2. OnlyOpenWait' /\ IdleExactly'
      BY <1>5, <2>1 DEF Start, TakenOut, OnlyOpenWait, IdleExactly
    <2> QED
      BY <2>1, <2>2
  <1>6. ASSUME NEW ok \in BOOLEAN, Finish(ok) PROVE SchedInv'
    <2>1. LeaseInv'
      BY <1>6, FinishLease
    <2>2. OnlyOpenWait'
      BY <1>6 DEF Finish, OnlyOpenWait
    <2>3. IdleExactly'
      <3>1. idleFor = NotIdle /\ idleFor \in {NotIdle} \cup 0..Linger
        BY <1>6 DEF Finish, IdleExactly
      <3>2. /\ SettleIdle(connections, queue, NoRun)
            /\ connections' = connections /\ queue' = queue /\ running' = NoRun
        BY <1>6 DEF Finish
      <3> QED
        BY <3>1, <3>2, Settled DEF IdleExactly
    <2> QED
      BY <2>1, <2>2, <2>3
  <1>7. CASE BecomeReady
    BY <1>7, ReadyLease DEF BecomeReady, OnlyOpenWait, IdleExactly
  <1>8. CASE TickSched
    <2>1. LeaseInv' /\ (idleFor' = NotIdle <=> idleFor = NotIdle)
      BY <1>8, TickLease
    <2> QED
      BY <1>8, <2>1 DEF TickSched, OnlyOpenWait, IdleExactly
  <1>9. CASE UNCHANGED schedVars
    BY <1>9, StutterLease DEF schedVars, OnlyOpenWait, IdleExactly
  <1> QED
    BY <1>1, <1>2, <1>3, <1>4, <1>5, <1>6, <1>7, <1>8, <1>9 DEF SchedNext

(* The invariant holds in every state of the scheduler.                    *)
THEOREM Invariance == SchedSpec => []SchedInv
PROOF
  BY InitInv, StepInv, PTL DEF SchedSpec

(* The scheduler's variables stay of their types: no tally falls below     *)
(* zero when close() subtracts what is left in line, and the clocks stay   *)
(* within their bounds.                                                    *)
THEOREM TypeCorrect == SchedSpec => []SchedTypeOK
PROOF
  BY Invariance, PTL DEF SchedInv, LeaseInv

(* next() serves nobody but the holder of the lease, for any clients at    *)
(* any levels, and the lease is never left with a connection that closed.  *)
THEOREM LeaseIsExclusive == SchedSpec => []LeaseExcludes
PROOF
  BY Invariance, PTL DEF SchedInv, LeaseInv

(* A scene operation waits and runs only under the lease of the connection *)
(* that asked for it.                                                      *)
THEOREM SceneNeedsLease == SchedSpec => []SceneUnderLease
PROOF
  BY Invariance, PTL DEF SchedInv, LeaseInv

(* The linger clock runs exactly while nobody wants the game.              *)
THEOREM IdleIsExact == SchedSpec => []IdleExactly
PROOF
  BY Invariance, PTL DEF SchedInv, LeaseInv

(* As long as only open connections ask, next() never meets a request      *)
(* whose connection has gone.                                              *)
THEOREM OrphansNeverWait == SchedSpec => []OnlyOpenWait
PROOF
  BY Invariance, PTL DEF SchedInv, LeaseInv

-----------------------------------------------------------------------------
(* order(): the line as it is shown.                                       *)

(* Each request in line has a number of its own, and it was given out.     *)
Numbered ==
  /\ \A w \in queue : w.sequence <= sequence
  /\ \A v, w \in queue : v.sequence = w.sequence => v = w

(* With numbers the line has an order, and one only.                       *)
LineInv == SchedInv /\ Numbered

LEMMA InitLine == SchedInit => LineInv
PROOF
  BY InitInv DEF LineInv, Numbered, SchedInit

LEMMA StepLine == LineInv /\ [SchedNext]_schedVars => LineInv'
PROOF
  <1> SUFFICES ASSUME LineInv, [SchedNext]_schedVars PROVE LineInv'
    OBVIOUS
  <1>1. SchedInv /\ SchedInv'
    BY StepInv DEF LineInv
  <1>2. /\ sequence \in Nat /\ queue \subseteq Waiting
        /\ \A w \in queue : w.sequence \in Nat
    BY <1>1 DEF SchedInv, LeaseInv, SchedTypeOK, Waiting
  <1>3. ASSUME queue' \subseteq queue, sequence' = sequence PROVE Numbered'
    BY <1>3 DEF LineInv, Numbered
  <1>4. ASSUME NEW c \in Conn, NEW op \in Ops \ Immediate, Ask(c, op)
        PROVE  Numbered'
    <2> DEFINE new ==
          [sequence |-> sequence + 1, conn |-> c, op |-> op, id |-> 0]
    <2>1. queue' = queue \cup {new} /\ sequence' = sequence + 1
      BY <1>4 DEF Ask, Enqueue
    <2>2. new.sequence = sequence + 1
      OBVIOUS
    <2> HIDE DEF new
    <2>3. \A w \in queue : w.sequence < new.sequence
      BY <1>2, <2>2 DEF LineInv, Numbered
    <2>4. \A w \in queue' : w.sequence <= sequence'
      BY <1>2, <2>1, <2>2, <2>3
    <2>5. \A v, w \in queue' : v.sequence = w.sequence => v = w
      BY <1>2, <2>1, <2>2, <2>3 DEF LineInv, Numbered
    <2> QED
      BY <2>4, <2>5 DEF Numbered
  <1>5. CASE ~ \E c \in Conn, op \in Ops \ Immediate : Ask(c, op)
    <2>1. queue' \subseteq queue /\ sequence' = sequence
      BY <1>5 DEF SchedNext, Open, Connect, Close, RevokeLease, Start,
         TakenOut, Finish, BecomeReady, TickSched, schedVars
    <2> QED
      BY <1>1, <1>3, <2>1 DEF LineInv
  <1> QED
    BY <1>1, <1>4, <1>5 DEF LineInv

(* Before is a strict order on the line, whenever its clients were served. *)
LEMMA BeforeOrders ==
  ASSUME LineInv, NEW when \in [Client -> Nat]
  PROVE  /\ \A x, y \in queue :
              x # y => Before(x, y, when) \/ Before(y, x, when)
         /\ \A x, y \in queue : ~ (Before(x, y, when) /\ Before(y, x, when))
         /\ \A x, y, z \in queue :
              Before(x, y, when) /\ Before(y, z, when) => Before(x, z, when)
PROOF
  <1>1. \A x \in queue : /\ x.sequence \in Nat
                         /\ Level(x) \in Int
                         /\ LastServed(x, when) \in Int
    BY SchedulerAssumption DEF SchedulerAssumption, LineInv, SchedInv,
       LeaseInv, SchedTypeOK, Waiting, Level, LastServed, MAX_LEVEL
  <1>2. \A x, y \in queue : x.sequence = y.sequence => x = y
    BY DEF LineInv, Numbered
  <1> QED
    BY <1>1, <1>2 DEF Before

(* So any part of the line that is not empty has one first request.        *)
LEMMA FirstExists ==
  ASSUME LineInv, NEW when \in [Client -> Nat], NEW line \in SUBSET queue,
         line # {}
  PROVE  /\ \E w \in line : IsFirst(w, line, when)
         /\ \A v, w \in line :
              IsFirst(v, line, when) /\ IsFirst(w, line, when) => v = w
PROOF
  <1> DEFINE P == {s \in SUBSET queue :
                     s # {} => \E w \in s : IsFirst(w, s, when)}
  <1>1. {} \in P
    OBVIOUS
  <1>2. ASSUME NEW s \in SUBSET queue, s # {}, \A x \in s : s \ {x} \in P
        PROVE  s \in P
    <2>1. PICK x \in s : TRUE
      BY <1>2
    <2>2. CASE s = {x}
      BY <2>2 DEF IsFirst
    <2>3. CASE s \ {x} # {}
      <3>1. PICK w \in s \ {x} : IsFirst(w, s \ {x}, when)
        BY <1>2, <2>1, <2>3
      <3>2. CASE Before(w, x, when)
        <4>1. IsFirst(w, s, when)
          BY <3>1, <3>2 DEF IsFirst
        <4> QED
          BY <3>1, <4>1
      <3>3. CASE Before(x, w, when)
        <4>1. \A v \in s \ {x} : Before(x, v, when)
          BY <2>1, <3>1, <3>3, BeforeOrders DEF IsFirst
        <4>2. IsFirst(x, s, when)
          BY <2>1, <4>1 DEF IsFirst
        <4> QED
          BY <2>1, <4>2
      <3> QED
        BY <2>1, <3>1, <3>2, <3>3, BeforeOrders
    <2> QED
      BY <2>1, <2>2, <2>3
  <1>3. SUBSET queue \subseteq P
    <2> HIDE DEF P
    <2>1. IsFiniteSet(queue)
      BY DEF LineInv, SchedInv, LeaseInv
    <2> QED
      BY <1>1, <1>2, <2>1, SubsetInduction
  <1>4. \A v, w \in line :
          IsFirst(v, line, when) /\ IsFirst(w, line, when) => v = w
    BY BeforeOrders DEF IsFirst
  <1> QED
    BY <1>3, <1>4

(* A page of order(): who is left, when clients were served on paper, and  *)
(* the line so far.  q follows p when the n-th request is served on paper. *)
Page == [left : SUBSET queue, when : [Client -> Nat], line : Seq(queue)]
Blank == [left |-> queue, when |-> served, line |-> <<>>]
Turned(p, w, n) ==
  [left |-> p.left \ {w},
   when |-> ServedOnPaper(w, p.when, turns + n),
   line |-> Append(p.line, w)]
Follows(q, p, n) ==
  \E w \in p.left : IsFirst(w, p.left, p.when) /\ q = Turned(p, w, n)

(* Such pages lead from the whole line to the order that is shown.         *)
Pages(g, N) ==
  /\ g \in [0..N -> Page]
  /\ g[0] = Blank
  /\ \A n \in 1..N : Follows(g[n], g[n - 1], n)
OrderOnPages ==
  \E g : Pages(g, Cardinality(queue)) /\ Order = g[Cardinality(queue)].line

(* While somebody is left there is one page to follow, with one fewer left. *)
LEMMA PagesTurn ==
  ASSUME LineInv, NEW p \in Page, NEW n \in Nat, p.left # {}
  PROVE  /\ \E q \in Page : Follows(q, p, n)
         /\ \A q : Follows(q, p, n) =>
              /\ q \in Page
              /\ Cardinality(q.left) = Cardinality(p.left) - 1
              /\ Cardinality(p.left) \in Nat
              /\ {q} = {Turned(p, w, n) :
                          w \in {x \in p.left : IsFirst(x, p.left, p.when)}}
PROOF
  <1>1. /\ p.left \in SUBSET queue /\ p.when \in [Client -> Nat]
        /\ p.line \in Seq(queue) /\ turns \in Nat /\ IsFiniteSet(queue)
    BY DEF Page, LineInv, SchedInv, LeaseInv, SchedTypeOK
  <1>2. PICK w \in p.left : IsFirst(w, p.left, p.when)
    BY <1>1, FirstExists
  <1>3. \A v \in p.left : IsFirst(v, p.left, p.when) => v = w
    BY <1>1, <1>2, FirstExists
  <1>4. Turned(p, w, n) \in Page
    <2>1. ServedOnPaper(w, p.when, turns + n) \in [Client -> Nat]
      <3>1. w.conn \in Conn /\ turns + n \in Nat
        BY <1>1 DEF LineInv, SchedInv, LeaseInv, SchedTypeOK, Waiting
      <3> QED
        BY <1>1, <3>1, SchedulerAssumption
           DEF ServedOnPaper, SchedulerAssumption
    <2>2. Append(p.line, w) \in Seq(queue)
      BY <1>1
    <2> QED
      BY <1>1, <2>1, <2>2 DEF Turned, Page
  <1>5. /\ Cardinality(p.left) \in Nat
        /\ Cardinality(p.left \ {w}) = Cardinality(p.left) - 1
    BY <1>1, FS_Subset, FS_RemoveElement, FS_CardinalityType
  <1>6. Turned(p, w, n).left = p.left \ {w}
    BY DEF Turned
  <1>7. \A q : Follows(q, p, n) <=> q = Turned(p, w, n)
    BY <1>2, <1>3 DEF Follows
  <1>8. {Turned(p, v, n) : v \in {x \in p.left : IsFirst(x, p.left, p.when)}}
          = {Turned(p, w, n)}
    BY <1>2, <1>3
  <1> QED
    BY <1>4, <1>5, <1>6, <1>7, <1>8

(* The page order() writes after p.                                        *)
NextPage(p, n) ==
  IF p.left = {} THEN p ELSE CHOOSE q \in Page : Follows(q, p, n)

LEMMA PagesExist ==
  ASSUME LineInv
  PROVE  \E g : Pages(g, Cardinality(queue))
PROOF
  <1> DEFINE N == Cardinality(queue)
             G == [a \in Nat \X Page |-> NextPage(a[2], a[1])]
  <1>1. N \in Nat /\ IsFiniteSet(queue)
    BY FS_CardinalityType DEF LineInv, SchedInv, LeaseInv
  <1>2. Blank \in Page
    BY DEF Blank, Page, LineInv, SchedInv, LeaseInv, SchedTypeOK
  <1>3. \A n \in Nat, p \in Page :
          /\ G[<<n, p>>] \in Page
          /\ p.left # {} => Follows(G[<<n, p>>], p, n)
    <2> SUFFICES ASSUME NEW n \in Nat, NEW p \in Page
                 PROVE  /\ G[<<n, p>>] \in Page
                        /\ p.left # {} => Follows(G[<<n, p>>], p, n)
      OBVIOUS
    <2>1. G[<<n, p>>] = NextPage(p, n)
      OBVIOUS
    <2> HIDE DEF G
    <2>2. p.left # {} => \E q \in Page : Follows(q, p, n)
      BY PagesTurn
    <2> QED
      BY <2>1, <2>2 DEF NextPage
  <1>4. G \in [Nat \X Page -> Page]
    <2>1. G = [a \in Nat \X Page |-> G[a]]
      OBVIOUS
    <2>2. \A a \in Nat \X Page : G[a] \in Page
      <3> HIDE DEF G
      <3> QED
        BY <1>3
    <2> HIDE DEF G
    <2> QED
      BY <2>1, <2>2
  <1>5. PICK g : Iterates(g, N, Page, Blank, G)
    <2> HIDE DEF G, N
    <2> QED
      BY <1>1, <1>2, <1>4, PrefixExists
  <1> USE DEF Iterates
  <1> HIDE DEF G, N
  <1> DEFINE K == {n \in Nat : n <= N => Cardinality(g[n].left) = N - n}
  <1>6. 0 \in K
    BY <1>1, <1>5 DEF Blank, N
  <1>7. ASSUME NEW n \in Nat, n \in K, n + 1 <= N
        PROVE  n + 1 \in K /\ Follows(g[n + 1], g[n], n + 1)
    <2>1. /\ n \in 0..N /\ n + 1 \in 1..N /\ (n + 1) - 1 = n /\ n + 1 \in Nat
          /\ Cardinality(g[n].left) = N - n /\ N - n > 0
      BY <1>1, <1>7
    <2>2. g[n].left # {}
      <3>1. Cardinality({}) = 0
        BY FS_EmptySet, Zenon
      <3>2. g[n].left = {} => N - n = 0
        BY <2>1, <3>1
      <3> QED
        BY <2>1, <3>2
    <2>3. g[n] \in Page
      BY <1>5, <2>1
    <2>4. g[n + 1] = G[<<n + 1, g[n]>>]
      BY <1>5, <2>1
    <2>5. Follows(g[n + 1], g[n], n + 1)
      BY <1>3, <2>1, <2>2, <2>3, <2>4
    <2>6. Cardinality(g[n + 1].left) = Cardinality(g[n].left) - 1
      BY <2>1, <2>2, <2>3, <2>5, PagesTurn
    <2> QED
      BY <1>1, <2>1, <2>5, <2>6
  <1>8. Nat \subseteq K
    <2>1. \A n \in Nat : n \in K => n + 1 \in K
      BY <1>1, <1>7
    <2> HIDE DEF K
    <2> QED
      BY <1>6, <2>1, SetInduction
  <1>9. \A n \in 1..N : Follows(g[n], g[n - 1], n)
    <2> SUFFICES ASSUME NEW n \in 1..N PROVE Follows(g[n], g[n - 1], n)
      OBVIOUS
    <2>1. n - 1 \in Nat /\ (n - 1) + 1 <= N /\ (n - 1) + 1 = n
      BY <1>1
    <2> QED
      BY <1>7, <1>8, <2>1
  <1>10. Pages(g, N)
    BY <1>5, <1>9 DEF Pages
  <1> QED
    BY <1>10 DEF N

(* The order shown is that of the last page: each set that order() keeps   *)
(* has one page, and so the set it chooses from at the end.                *)
LEMMA OrderIsOnPages == LineInv => OrderOnPages
PROOF
  <1> SUFFICES ASSUME LineInv PROVE OrderOnPages
    OBVIOUS
  <1> DEFINE N == Cardinality(queue)
             Turns(p, n) == {Turned(p, w, n) :
                               w \in {x \in p.left :
                                       IsFirst(x, p.left, p.when)}}
             Eq(f) == f = [n \in 0..N |->
                             IF n = 0 THEN {Blank}
                             ELSE UNION {Turns(p, n) : p \in f[n - 1]}]
  <1>1. PICK g : Pages(g, N)
    BY PagesExist
  <1>2. N \in Nat
    BY FS_CardinalityType DEF LineInv, SchedInv, LeaseInv
  <1> DEFINE h == [n \in 0..N |-> {g[n]}]
  <1> HIDE DEF N
  <1>3. \A n \in 1..N : {g[n]} = Turns(g[n - 1], n)
    <2> SUFFICES ASSUME NEW n \in 1..N PROVE {g[n]} = Turns(g[n - 1], n)
      OBVIOUS
    <2>1. g[n - 1] \in Page /\ Follows(g[n], g[n - 1], n) /\ n \in Nat
      BY <1>1, <1>2 DEF Pages
    <2>2. g[n - 1].left # {}
      BY <2>1 DEF Follows
    <2> QED
      BY <2>1, <2>2, PagesTurn
  <1> HIDE DEF Turns
  <1>4. Eq(h)
    <2>1. \A n \in 0..N : h[n] = IF n = 0 THEN {Blank}
                                 ELSE UNION {Turns(p, n) : p \in h[n - 1]}
      <3> SUFFICES ASSUME NEW n \in 0..N
                   PROVE  h[n] = IF n = 0 THEN {Blank}
                                 ELSE UNION {Turns(p, n) : p \in h[n - 1]}
        OBVIOUS
      <3>1. CASE n = 0
        BY <1>1, <1>2, <3>1 DEF Pages
      <3>2. CASE n # 0
        <4>1. n \in 1..N /\ n - 1 \in 0..N
          BY <1>2, <3>2
        <4>2. h[n - 1] = {g[n - 1]} /\ h[n] = {g[n]}
          BY <4>1
        <4>3. h[n] = Turns(g[n - 1], n)
          BY <1>3, <4>1, <4>2
        <4> HIDE DEF h
        <4> QED
          BY <3>2, <4>2, <4>3
      <3> QED
        BY <3>1, <3>2
    <2>2. h = [n \in 0..N |-> h[n]]
      OBVIOUS
    <2> HIDE DEF h
    <2> QED
      BY <2>1, <2>2
  <1>5. ASSUME NEW f, Eq(f) PROVE f = h
    <2> DEFINE K == {n \in Nat : n <= N => f[n] = h[n]}
    <2>1. \A n \in 0..N : /\ f[n] = IF n = 0 THEN {Blank}
                                   ELSE UNION {Turns(p, n) : p \in f[n - 1]}
                          /\ h[n] = IF n = 0 THEN {Blank}
                                   ELSE UNION {Turns(p, n) : p \in h[n - 1]}
      <3> HIDE DEF h
      <3> QED
        BY <1>4, <1>5
    <2>2. f = [n \in 0..N |-> f[n]] /\ h = [n \in 0..N |-> h[n]]
      BY <1>5
    <2> HIDE DEF h, Eq
    <2>3. 0 \in K
      <3>1. 0 \in 0..N
        BY <1>2
      <3>2. f[0] = {Blank} /\ h[0] = {Blank}
        BY <2>1, <3>1
      <3> QED
        BY <3>2
    <2>4. ASSUME NEW n \in Nat, n \in K PROVE n + 1 \in K
      <3>1. (n + 1) - 1 = n /\ n + 1 # 0 /\ n + 1 \in Nat
        OBVIOUS
      <3>2. ASSUME n + 1 <= N PROVE f[n + 1] = h[n + 1]
        <4>1. n + 1 \in 0..N /\ f[n] = h[n]
          BY <1>2, <2>4, <3>2
        <4> QED
          BY <2>1, <3>1, <4>1
      <3> QED
        BY <3>1, <3>2
    <2>5. Nat \subseteq K
      <3> HIDE DEF K
      <3> QED
        BY <2>3, <2>4, SetInduction
    <2>6. \A n \in 0..N : f[n] = h[n]
      BY <1>2, <2>5
    <2> QED
      BY <2>2, <2>6
  <1>6. Order = (CHOOSE p \in h[N] : TRUE).line
    <2> HIDE DEF h
    <2>1. (CHOOSE f : Eq(f)) = h
      <3> HIDE DEF Eq
      <3> QED
        BY <1>4, <1>5
    <2> QED
      BY <2>1 DEF Order, Eq, Turns, Turned, Blank, N
  <1>7. h[N] = {g[N]}
    BY <1>2
  <1>8. Order = g[N].line
    <2> HIDE DEF h
    <2> QED
      BY <1>6, <1>7
  <1> QED
    BY <1>1, <1>8 DEF OrderOnPages, N

(* What the pages of two states have to do with each other, when w got the *)
(* turn between them: they are the same but for w at the head of the line. *)
LEMMA FollowsAgain ==
  ASSUME connections' = connections, turns' = turns + 1, turns \in Nat,
         NEW p, NEW q, NEW n \in Nat, Follows(q, p, n)'
  PROVE  \E w \in p.left :
           /\ IsFirst(w, p.left, p.when)
           /\ q = [left |-> p.left \ {w},
                   when |-> ServedOnPaper(w, p.when, turns + (n + 1)),
                   line |-> Append(p.line, w)]
PROOF
  <1>1. \A x, y, t : Before(x, y, t)' <=> Before(x, y, t)
    BY DEF Before, Level, LastServed
  <1>2. turns' + n = turns + (n + 1)
    OBVIOUS
  <1> QED
    BY <1>1, <1>2 DEF Follows, Turned, IsFirst, ServedOnPaper

LEMMA TurnKeepsOrder ==
  ASSUME LineInv, LineInv', OrderOnPages, OrderOnPages',
         NEW w \in queue, Start(w), lease = NoConn
  PROVE  Order = <<w>> \o Order'
PROOF
  <1> DEFINE N == Cardinality(queue)
  <1>1. PICK g : Pages(g, N) /\ Order = g[N].line
    BY DEF OrderOnPages
  <1>2. PICK h : /\ Pages(h, Cardinality(queue))'
                 /\ Order' = h[Cardinality(queue')].line
    BY DEF OrderOnPages
  <1>3. /\ queue' = queue \ {w} /\ turns' = turns + 1
        /\ connections' = connections /\ IsFirst(w, queue, served)
        /\ served' = ServedOnPaper(w, served, turns + 1)
    <2>1. lease \notin connections
      BY SchedulerAssumption DEF SchedulerAssumption, LineInv, SchedInv,
         LeaseInv, SchedTypeOK
    <2> QED
      BY <2>1 DEF Start, Chosen, TakenOut, ServedOnPaper
  <1>4. /\ turns \in Nat /\ N \in Nat /\ N - 1 \in Nat
        /\ Cardinality(queue') = N - 1 /\ served \in [Client -> Nat]
    <2>1. IsFiniteSet(queue) /\ turns \in Nat /\ served \in [Client -> Nat]
      BY DEF LineInv, SchedInv, LeaseInv, SchedTypeOK
    <2>2. /\ N \in Nat /\ Cardinality(queue \ {w}) = N - 1
          /\ Cardinality(queue \ {w}) \in Nat
      BY <2>1, FS_Subset, FS_RemoveElement, FS_CardinalityType
    <2> QED
      BY <1>3, <2>1, <2>2
  <1> DEFINE Same(p, q) == /\ p.left = q.left /\ p.when = q.when
                           /\ p.line = <<w>> \o q.line
             K == {m \in Nat : m <= N - 1 => Same(g[m + 1], h[m])}
  <1> HIDE DEF N
  <1>5. 0 \in K
    <2> SUFFICES ASSUME 0 <= N - 1 PROVE Same(g[0 + 1], h[0])
      BY DEF K
    <2>1. g[0] = Blank /\ Follows(g[1], g[0], 1) /\ h[0] = Blank'
      BY <1>1, <1>2, <1>4 DEF Pages
    <2>2. PICK x \in queue : /\ IsFirst(x, queue, served)
                             /\ g[1] = Turned(g[0], x, 1)
      BY <2>1 DEF Follows, Blank
    <2>3. x = w
      BY <1>3, <1>4, <2>2, FirstExists
    <2>4. /\ g[1].left = queue \ {w}
          /\ g[1].when = ServedOnPaper(w, served, turns + 1)
          /\ g[1].line = <<w>>
      BY <2>1, <2>2, <2>3 DEF Turned, Blank
    <2>5. h[0].left = queue' /\ h[0].when = served' /\ h[0].line = <<>>
      BY <2>1 DEF Blank
    <2>6. <<w>> \o <<>> = <<w>>
      OBVIOUS
    <2>7. 0 + 1 = 1
      OBVIOUS
    <2> QED
      BY <1>3, <2>4, <2>5, <2>6, <2>7
  <1>6. ASSUME NEW m \in Nat, m \in K PROVE m + 1 \in K
    <2> SUFFICES ASSUME m + 1 <= N - 1 PROVE Same(g[(m + 1) + 1], h[m + 1])
      OBVIOUS
    <2>0. PICK p, q, r : p = g[m + 1] /\ q = h[m] /\ r = h[m + 1]
      OBVIOUS
    <2>1. Same(p, q) /\ p \in Page /\ q \in Page'
      <3>1. m <= N - 1 /\ m + 1 \in 0..N /\ m \in 0..N - 1
        BY <1>4
      <3> QED
        BY <1>1, <1>2, <1>4, <1>6, <2>0, <3>1 DEF Pages
    <2>2. Follows(g[m + 2], p, m + 2)
      <3>1. m + 2 \in 1..N /\ (m + 2) - 1 = m + 1
        BY <1>4
      <3> QED
        BY <1>1, <2>0, <3>1 DEF Pages
    <2>3. Follows(r, q, m + 1)'
      <3>1. m + 1 \in 1..N - 1 /\ (m + 1) - 1 = m
        BY <1>4
      <3> QED
        BY <1>2, <1>4, <2>0, <3>1 DEF Pages
    <2>4. PICK x \in p.left : /\ IsFirst(x, p.left, p.when)
                             /\ g[m + 2] = Turned(p, x, m + 2)
      BY <2>2 DEF Follows
    <2>5. PICK y \in q.left :
            /\ IsFirst(y, q.left, q.when)
            /\ r = [left |-> q.left \ {y},
                    when |-> ServedOnPaper(y, q.when, turns + (m + 2)),
                    line |-> Append(q.line, y)]
      <3>1. (m + 1) + 1 = m + 2 /\ m + 1 \in Nat
        OBVIOUS
      <3> QED
        BY <1>3, <1>4, <2>3, <3>1, FollowsAgain
    <2>6. p.left \in SUBSET queue /\ p.when \in [Client -> Nat]
      BY <2>1 DEF Page
    <2>7. x = y
      BY <2>1, <2>4, <2>5, <2>6, FirstExists
    <2>8. Append(p.line, x) = <<w>> \o Append(q.line, y)
      <3>1. q.line \in Seq(queue) /\ y \in queue
        <4>1. q.line \in Seq(queue') /\ q.left \subseteq queue'
          BY <2>1 DEF Page
        <4> QED
          BY <1>3, <4>1
      <3>2. p.line = <<w>> \o q.line
        BY <2>1
      <3> QED
        BY <2>7, <3>1, <3>2
    <2>9. (m + 1) + 1 = m + 2
      OBVIOUS
    <2>10. Same(Turned(p, x, m + 2), r)
      BY <2>1, <2>5, <2>7, <2>8 DEF Turned
    <2> QED
      BY <2>0, <2>4, <2>9, <2>10
  <1>7. Same(g[(N - 1) + 1], h[N - 1])
    <2> HIDE DEF K
    <2>1. Nat \subseteq K
      BY <1>5, <1>6, SetInduction
    <2>2. N - 1 \in K /\ N - 1 <= N - 1
      BY <1>4, <2>1
    <2> HIDE DEF Same
    <2> QED
      BY <2>2 DEF K
  <1>8. (N - 1) + 1 = N
    BY <1>4
  <1> QED
    BY <1>1, <1>2, <1>4, <1>7, <1>8

(* The queue a client is shown is the order of the turns: with the lease   *)
(* free, the turn goes to its head, and the rest stays as it was shown.    *)
THEOREM OrderIsKept == SchedSpec => OrderKept
PROOF
  <1>1. /\ LineInv /\ LineInv' /\ OrderOnPages /\ OrderOnPages'
        => [\A w \in queue : Start(w) /\ lease = NoConn
              => Order = <<w>> \o Order']_schedVars
    BY TurnKeepsOrder
  <1> QED
    BY <1>1, InitLine, StepLine, OrderIsOnPages, PTL DEF SchedSpec, OrderKept

-----------------------------------------------------------------------------
(* The tallies.                                                            *)

(* What the tallies t have counted of client k, and of all of them.        *)
CountOf(t, k) == t[k].done + t[k].failed + t[k].cancelled
Total(t) == FoldSet(LAMBDA k, n : n + CountOf(t, k), 0, Client)

(* h adds up t, one client at a time.                                      *)
AddsUp(h, t) ==
  /\ h \in [SUBSET Client -> Nat]
  /\ h[{}] = 0
  /\ \A s \in SUBSET Client : s # {} =>
       h[s] = h[s \ {CHOOSE x \in s : TRUE}]
              + CountOf(t, CHOOSE x \in s : TRUE)

LEMMA TotalAddsUp ==
  ASSUME IsFiniteSet(Client), NEW t \in [Client -> Tally]
  PROVE  \E h : AddsUp(h, t) /\ Total(t) = h[Client]
PROOF
  <1> DEFINE next == [s \in SUBSET Client |-> CHOOSE x \in s : TRUE]
             G == [p \in Client \X Nat |-> p[2] + CountOf(t, p[1])]
             Eq(h) == h = [s \in SUBSET Client |->
                             IF s = {} THEN 0
                             ELSE h[s \ {CHOOSE x \in s : TRUE}]
                                  + CountOf(t, CHOOSE x \in s : TRUE)]
  <1>1. \A k \in Client : CountOf(t, k) \in Nat
    BY DEF CountOf, Tally
  <1>2. G \in [Client \X Nat -> Nat]
    BY <1>1
  <1>3. \A s \in SUBSET Client : s # {} => next[s] \in s
    OBVIOUS
  <1>4. PICK h : Unfolds(h, Client, Nat, next, 0, G)
    <2> HIDE DEF next, G
    <2> QED
      BY <1>2, <1>3, FoldExists
  <1>5. AddsUp(h, t)
    <2>1. ASSUME NEW s \in SUBSET Client, s # {}
          PROVE  h[s] = h[s \ {CHOOSE x \in s : TRUE}]
                        + CountOf(t, CHOOSE x \in s : TRUE)
      <3>1. h[s] = G[<<next[s], h[s \ {next[s]}]>>]
        BY <1>4, <2>1 DEF Unfolds
      <3>2. next[s] \in Client /\ h[s \ {next[s]}] \in Nat
        BY <1>3, <1>4, <2>1 DEF Unfolds
      <3>3. next[s] = CHOOSE x \in s : TRUE
        OBVIOUS
      <3>4. \A k \in Client, n \in Nat : G[<<k, n>>] = n + CountOf(t, k)
        OBVIOUS
      <3> HIDE DEF next, G
      <3> QED
        BY <3>1, <3>2, <3>3, <3>4
    <2> QED
      BY <1>4, <2>1 DEF Unfolds, AddsUp
  <1>6. Eq(h)
    BY <1>5 DEF AddsUp
  <1>7. ASSUME NEW g, Eq(g) PROVE g = h
    <2> DEFINE P == {s \in SUBSET Client : g[s] = h[s]}
    <2>1. {} \in P
      BY <1>6, <1>7
    <2>2. ASSUME NEW s \in SUBSET Client, s # {},
                 \A x \in s : s \ {x} \in P
          PROVE  s \in P
      BY <1>6, <1>7, <2>2
    <2>3. SUBSET Client \subseteq P
      <3> HIDE DEF P
      <3> QED
        BY <2>1, <2>2, SubsetInduction
    <2> QED
      BY <1>6, <1>7, <2>3
  <1>8. Total(t) = h[Client]
    <2> HIDE DEF Eq
    <2>1. (CHOOSE g : Eq(g)) = h
      BY <1>6, <1>7
    <2> QED
      BY <2>1 DEF Total, FoldSet, MapThenFoldSet, Eq
  <1> QED
    BY <1>5, <1>8

(* Counting d more of one client adds d to the total.                      *)
LEMMA TotalChanges ==
  ASSUME IsFiniteSet(Client), NEW t \in [Client -> Tally],
         NEW u \in [Client -> Tally], NEW k \in Client, NEW d \in Nat,
         CountOf(u, k) = CountOf(t, k) + d,
         \A x \in Client \ {k} : u[x] = t[x]
  PROVE  /\ Total(t) \in Nat
         /\ Total(u) = Total(t) + d
PROOF
  <1>1. PICK h : AddsUp(h, t) /\ Total(t) = h[Client]
    BY TotalAddsUp
  <1>2. PICK g : AddsUp(g, u) /\ Total(u) = g[Client]
    BY TotalAddsUp
  <1> DEFINE P == {s \in SUBSET Client :
                     g[s] = h[s] + IF k \in s THEN d ELSE 0}
  <1>3. {} \in P
    BY <1>1, <1>2 DEF AddsUp
  <1>4. ASSUME NEW s \in SUBSET Client, s # {}, \A x \in s : s \ {x} \in P
        PROVE  s \in P
    <2> DEFINE x == CHOOSE y \in s : TRUE
    <2>1. x \in s
      BY <1>4
    <2>2. /\ g[s] = g[s \ {x}] + CountOf(u, x)
          /\ h[s] = h[s \ {x}] + CountOf(t, x)
      BY <1>1, <1>2, <1>4 DEF AddsUp
    <2> HIDE DEF x
    <2>3. g[s \ {x}] = h[s \ {x}] + IF k \in s \ {x} THEN d ELSE 0
      BY <1>4, <2>1
    <2>4. /\ h[s \ {x}] \in Nat /\ h[s] \in Nat
          /\ CountOf(t, x) \in Nat /\ CountOf(t, k) \in Nat
      BY <1>1, <2>1 DEF AddsUp, CountOf, Tally
    <2>5. CountOf(u, x) = CountOf(t, x) + IF x = k THEN d ELSE 0
      BY <2>1, <2>4 DEF CountOf
    <2> QED
      BY <2>1, <2>2, <2>3, <2>4, <2>5
  <1>5. SUBSET Client \subseteq P
    <2> HIDE DEF P
    <2> QED
      BY <1>3, <1>4, SubsetInduction
  <1> QED
    BY <1>1, <1>2, <1>5 DEF AddsUp

(* Nothing counted is zero in all.                                         *)
LEMMA TotalZero ==
  ASSUME IsFiniteSet(Client), NEW t \in [Client -> Tally],
         \A k \in Client : CountOf(t, k) = 0
  PROVE  Total(t) = 0
PROOF
  <1>1. PICK h : AddsUp(h, t) /\ Total(t) = h[Client]
    BY TotalAddsUp
  <1> DEFINE P == {s \in SUBSET Client : h[s] = 0}
  <1>2. {} \in P
    BY <1>1 DEF AddsUp
  <1>3. ASSUME NEW s \in SUBSET Client, s # {}, \A x \in s : s \ {x} \in P
        PROVE  s \in P
    <2> DEFINE x == CHOOSE y \in s : TRUE
    <2>1. x \in s
      BY <1>3
    <2>2. h[s] = h[s \ {x}] + CountOf(t, x)
      BY <1>1, <1>3 DEF AddsUp
    <2> HIDE DEF x
    <2> QED
      BY <1>3, <2>1, <2>2
  <1>4. SUBSET Client \subseteq P
    <2> HIDE DEF P
    <2> QED
      BY <1>2, <1>3, SubsetInduction
  <1> QED
    BY <1>1, <1>4

(* Every request that was given a number is in line, running or counted.   *)
CountInv == LineInv /\ AllCounted

AllInLine(t, line, run, n) ==
  n = Total(t) + Cardinality(line) + (IF run = NoRun THEN 0 ELSE 1)

LEMMA AllCountedIs ==
  /\ AllCounted <=> AllInLine(tallies, queue, running, sequence)
  /\ AllCounted' <=> AllInLine(tallies', queue', running', sequence')
PROOF
  BY DEF AllCounted, AllInLine, Total, CountOf, Counted, FoldSet,
     MapThenFoldSet

LEMMA InitCount == IsFiniteSet(Client) /\ SchedInit => CountInv
PROOF
  <1> SUFFICES ASSUME IsFiniteSet(Client), SchedInit PROVE CountInv
    OBVIOUS
  <1>1. LineInv /\ SchedInv
    BY InitLine DEF LineInv
  <1>2. Total(tallies) = 0
    <2>1. \A k \in Client : CountOf(tallies, k) = 0
      BY DEF SchedInit, CountOf
    <2> QED
      BY <1>1, <2>1, TotalZero DEF SchedInv, LeaseInv, SchedTypeOK
  <1>3. Cardinality({}) = 0
    BY FS_EmptySet, Zenon
  <1> QED
    BY <1>1, <1>2, <1>3, AllCountedIs DEF CountInv, SchedInit, AllInLine

LEMMA StepCount ==
  ASSUME IsFiniteSet(Client), CountInv, [SchedNext]_schedVars
  PROVE  CountInv'
PROOF
  <1>1. LineInv /\ LineInv' /\ SchedInv
    BY StepLine DEF CountInv, LineInv
  <1>2. /\ tallies \in [Client -> Tally] /\ tallies' \in [Client -> Tally]
        /\ queue \subseteq Waiting /\ sequence \in Nat
        /\ IsFiniteSet(queue) /\ Cardinality(queue) \in Nat
        /\ \A c \in Conn : ClientOf[c] \in Client
    BY <1>1, FS_CardinalityType, SchedulerAssumption
       DEF LineInv, SchedInv, LeaseInv, SchedTypeOK, SchedulerAssumption
  <1>3. AllInLine(tallies, queue, running, sequence)
    BY AllCountedIs DEF CountInv
  <1>4. SUFFICES AllInLine(tallies', queue', running', sequence')
    BY <1>1, AllCountedIs DEF CountInv
  <1>5. Total(tallies) \in Nat
    BY <1>2, TotalAddsUp DEF AddsUp
  <1>6. ASSUME UNCHANGED <<tallies, queue, running, sequence>>
        PROVE  AllInLine(tallies', queue', running', sequence')
    BY <1>3, <1>6
  <1>7. ASSUME NEW c \in Conn, Close(c)
        PROVE  AllInLine(tallies', queue', running', sequence')
    <2>1. Dropped(c) \in Nat
      BY <1>2, DroppedNat
    <2>2. Cardinality(queue') = Cardinality(queue) - Dropped(c)
      <3>1. queue' \subseteq queue /\ Cardinality(queue') \in Nat
        BY <1>2, <1>7, FS_Subset, FS_CardinalityType DEF Close, OwnedBy
      <3> QED
        BY <1>2, <1>7, <3>1 DEF Close, Dropped
    <2>3. CountOf(tallies', ClientOf[c]) =
            CountOf(tallies, ClientOf[c]) + Dropped(c)
      BY <1>2, <1>7, <2>1 DEF Close, CountOf, Tally
    <2>4. \A k \in Client \ {ClientOf[c]} : tallies'[k] = tallies[k]
      BY <1>2, <1>7 DEF Close
    <2>5. Total(tallies') = Total(tallies) + Dropped(c)
      BY <1>2, <2>1, <2>3, <2>4, TotalChanges
    <2>6. UNCHANGED <<running, sequence>>
      BY <1>7 DEF Close
    <2> QED
      BY <1>2, <1>3, <1>5, <2>1, <2>2, <2>5, <2>6 DEF AllInLine
  <1>8. ASSUME NEW c \in Conn, NEW op \in Ops \ Immediate, Ask(c, op)
        PROVE  AllInLine(tallies', queue', running', sequence')
    <2> DEFINE new ==
          [sequence |-> sequence + 1, conn |-> c, op |-> op, id |-> 0]
    <2>1. /\ queue' = queue \cup {new} /\ sequence' = sequence + 1
          /\ UNCHANGED <<tallies, running>>
      BY <1>8 DEF Ask, Enqueue
    <2>2. new \notin queue
      BY <1>1, <1>2 DEF LineInv, Numbered
    <2>3. Cardinality(queue') = Cardinality(queue) + 1
      BY <1>2, <2>1, <2>2, FS_AddElement
    <2> QED
      BY <1>2, <1>3, <1>5, <2>1, <2>3 DEF AllInLine
  <1>9. ASSUME NEW w \in queue, Start(w)
        PROVE  AllInLine(tallies', queue', running', sequence')
    <2>1. running = NoRun /\ running' # NoRun
      BY <1>1, <1>9, StartLease DEF SchedInv
    <2>2. queue' = queue \ {w} /\ UNCHANGED <<tallies, sequence>>
      BY <1>9 DEF Start, TakenOut
    <2>3. Cardinality(queue') = Cardinality(queue) - 1
      BY <1>2, <2>2, FS_RemoveElement
    <2> QED
      BY <1>2, <1>3, <1>5, <2>1, <2>2, <2>3 DEF AllInLine
  <1>10. ASSUME NEW ok \in BOOLEAN, Finish(ok)
         PROVE  AllInLine(tallies', queue', running', sequence')
    <2> DEFINE k == ClientOf[running.conn]
    <2>1. running # NoRun /\ running' = NoRun /\ UNCHANGED <<queue, sequence>>
      BY <1>10 DEF Finish
    <2>2. k \in Client
      BY <1>1, <1>2, <2>1 DEF SchedInv, LeaseInv, SchedTypeOK, Running
    <2>3. CountOf(tallies', k) = CountOf(tallies, k) + 1
      BY <1>2, <1>10, <2>2 DEF Finish, CountOf, Tally
    <2>4. \A x \in Client \ {k} : tallies'[x] = tallies[x]
      BY <1>2, <1>10 DEF Finish
    <2>5. Total(tallies') = Total(tallies) + 1
      <3> HIDE DEF k
      <3> QED
        BY <1>2, <2>2, <2>3, <2>4, TotalChanges
    <2> QED
      BY <1>2, <1>3, <1>5, <2>1, <2>5 DEF AllInLine
  <1>11. CASE RevokeLease
    <2>1. lease \in Conn /\ Close(lease)
      BY <1>1, <1>11 DEF RevokeLease, RevokeDue, SchedInv, LeaseInv,
         SchedTypeOK
    <2> QED
      BY <1>7, <2>1
  <1>12. CASE (\E c \in Conn : Open(c)) \/ BecomeReady \/ TickSched
              \/ UNCHANGED schedVars
    BY <1>6, <1>12 DEF Open, Connect, BecomeReady, TickSched, schedVars
  <1> QED
    BY <1>7, <1>8, <1>9, <1>10, <1>11, <1>12 DEF SchedNext

(* Every request ever put in line is waiting, running, or counted once in  *)
(* its client's tally, for any number of clients.                          *)
THEOREM NothingLost ==
  ASSUME IsFiniteSet(Client)
  PROVE  SchedSpec => []AllCounted
PROOF
  <1>1. SchedInit => CountInv
    BY InitCount
  <1>2. CountInv /\ [SchedNext]_schedVars => CountInv'
    BY StepCount
  <1>3. CountInv => AllCounted
    BY DEF CountInv
  <1> QED
    BY <1>1, <1>2, <1>3, PTL DEF SchedSpec

-----------------------------------------------------------------------------
(* The turns of the clients.                                               *)

(* Whoever had a turn in front of a waiting client was served after it.    *)
TurnsInv ==
  /\ SchedInv
  /\ passed \in [Client -> [Client -> 0..1]]
  /\ \A k \in Client : served[k] <= turns
  /\ \A k, d \in Client :
       k # d /\ passed[k][d] = 1 => served[k] < served[d]

(* A client waits at no higher level than one of its requests.             *)
LEMMA SomebodyWaits ==
  ASSUME SchedInv, NEW k \in Client, NEW n \in Nat, WaitsAt(k) >= n
  PROVE  \E v \in queue : /\ v.conn \in connections
                          /\ ClientOf[v.conn] = k
                          /\ LevelOf[v.conn] >= n
PROOF
  <1> DEFINE mine == {v \in queue : v.conn \in connections
                                    /\ ClientOf[v.conn] = k}
             levels == {LevelOf[w.conn] : w \in mine}
             S == {-1} \cup levels
  <1>1. levels \subseteq 0..4
    BY SchedulerAssumption DEF SchedulerAssumption, SchedInv, LeaseInv,
       SchedTypeOK, Waiting, MAX_LEVEL
  <1>2. \E m \in S : \A y \in S : m >= y
    <2> HIDE DEF levels
    <2> QED
      BY <1>1
  <1>3. WaitsAt(k) = Max(S)
    BY DEF WaitsAt
  <1>4. WaitsAt(k) \in S
    <2> HIDE DEF S
    <2> QED
      BY <1>2, <1>3 DEF Max
  <1>5. WaitsAt(k) \in levels
    <2> HIDE DEF levels
    <2> QED
      BY <1>1, <1>4
  <1> QED
    BY <1>5

(* A turn given with the lease free goes past nobody twice: a waiting      *)
(* client it was served after comes before it.                             *)
LEMMA TurnsAreShared ==
  ASSUME TurnsInv, NEW w \in queue, Start(w), NEW k \in Client,
         k # ClientOf[w.conn], Passes(w, k, ClientOf[w.conn])
  PROVE  passed[k][ClientOf[w.conn]] = 0
PROOF
  <1> DEFINE d == ClientOf[w.conn]
  <1>1. /\ w \in Waiting /\ w.conn \in connections /\ w.conn \in Conn
        /\ LevelOf[w.conn] \in Nat /\ d \in Client
        /\ connections \subseteq Conn /\ lease \notin connections
    BY SchedulerAssumption DEF SchedulerAssumption, TurnsInv, SchedInv,
       LeaseInv, SchedTypeOK, Waiting, MAX_LEVEL, Start, Passes
  <1>2. PICK v \in queue : /\ v.conn \in connections
                           /\ ClientOf[v.conn] = k
                           /\ LevelOf[v.conn] >= LevelOf[w.conn]
    BY <1>1, SomebodyWaits DEF TurnsInv, Passes
  <1>3. Before(w, v, served)
    BY <1>1, <1>2 DEF Start, Chosen, IsFirst
  <1>4. served[d] <= served[k]
    <2>1. served[d] \in Nat /\ served[k] \in Nat
      BY <1>1 DEF TurnsInv, SchedInv, LeaseInv, SchedTypeOK
    <2>2. LevelOf[v.conn] \in Nat
      BY <1>1, <1>2, SchedulerAssumption DEF SchedulerAssumption, MAX_LEVEL
    <2> QED
      BY <1>1, <1>2, <1>3, <2>1, <2>2 DEF Before, Level, LastServed
  <1>5. served[d] \in Nat /\ served[k] \in Nat
    BY <1>1 DEF TurnsInv, SchedInv, LeaseInv, SchedTypeOK
  <1>6. passed[k][d] \in 0..1
    BY <1>1 DEF TurnsInv
  <1> QED
    BY <1>1, <1>4, <1>5, <1>6 DEF TurnsInv

LEMMA InitTurns == TurnsInit => TurnsInv
PROOF
  BY InitInv DEF TurnsInit, TurnsInv, SchedInit

LEMMA StepTurns == TurnsInv /\ [TurnsNext]_turnVars => TurnsInv'
PROOF
  <1> SUFFICES ASSUME TurnsInv, [TurnsNext]_turnVars PROVE TurnsInv'
    OBVIOUS
  <1>1. SchedInv /\ SchedInv'
    BY StepInv DEF TurnsInv, TurnsNext, turnVars, SchedNext
  <1>2. /\ served \in [Client -> Nat] /\ turns \in Nat
        /\ served' \in [Client -> Nat] /\ turns' \in Nat
    BY <1>1 DEF SchedInv, LeaseInv, SchedTypeOK
  <1>3. ASSUME NEW w \in queue, Start(w), passed' = PassedAfter(w)
        PROVE  TurnsInv'
    <2> DEFINE d == ClientOf[w.conn]
    <2>1. d \in Client
      BY <1>1, <1>3, SchedulerAssumption DEF SchedulerAssumption, SchedInv,
         LeaseInv, SchedTypeOK, Waiting
    <2>2. turns' = turns + 1 /\ served' = [served EXCEPT ![d] = turns + 1]
      BY <1>3 DEF Start
    <2>3. \A k \in Client : served'[k] <= turns'
      BY <1>2, <2>1, <2>2 DEF TurnsInv
    <2>4. ASSUME NEW k \in Client, NEW e \in Client
          PROVE  /\ passed'[k][e] \in 0..1
                 /\ k # e /\ passed'[k][e] = 1 => served'[k] < served'[e]
      <3>1. passed[k][e] \in 0..1
        BY DEF TurnsInv
      <3>2. passed'[k][e] =
              IF k = d \/ WaitsAt(k) = -1 THEN 0
              ELSE IF Passes(w, k, e) /\ passed[k][e] < 2
                   THEN passed[k][e] + 1 ELSE passed[k][e]
        BY <1>3 DEF PassedAfter
      <3>3. CASE k = d \/ WaitsAt(k) = -1
        BY <3>2, <3>3
      <3>4. CASE ~ (k = d \/ WaitsAt(k) = -1) /\ e = d
        <4>1. Passes(w, k, e) => passed[k][e] = 0
          BY <1>3, <3>4, TurnsAreShared
        <4>2. served'[k] < served'[e]
          BY <1>2, <2>1, <2>2, <3>4 DEF TurnsInv
        <4> QED
          BY <3>1, <3>2, <3>4, <4>1, <4>2
      <3>5. CASE ~ (k = d \/ WaitsAt(k) = -1) /\ e # d
        <4>1. ~ Passes(w, k, e)
          BY <3>5 DEF Passes
        <4>2. served'[k] = served[k] /\ served'[e] = served[e]
          BY <1>2, <2>1, <2>2, <3>5
        <4> QED
          BY <3>1, <3>2, <3>5, <4>1, <4>2 DEF TurnsInv
      <3> QED
        BY <3>3, <3>4, <3>5
    <2>5. passed' \in [Client -> [Client -> 0..1]]
      <3>1. passed' = [k \in Client |-> [e \in Client |-> passed'[k][e]]]
        BY <1>3 DEF PassedAfter
      <3> QED
        BY <2>4, <3>1
    <2> QED
      BY <1>1, <2>3, <2>4, <2>5 DEF TurnsInv
  <1>4. ASSUME UNCHANGED <<served, turns>>, passed' = Forget
        PROVE  TurnsInv'
    <2>1. \A k, e \in Client :
            passed'[k][e] = IF WaitsAt(k) = -1 THEN 0 ELSE passed[k][e]
      BY <1>4 DEF Forget
    <2>2. passed' = [k \in Client |-> [e \in Client |-> passed'[k][e]]]
      BY <1>4 DEF Forget
    <2>3. \A k, e \in Client : passed[k][e] \in 0..1
      BY DEF TurnsInv
    <2>4. passed' \in [Client -> [Client -> 0..1]]
      BY <2>1, <2>2, <2>3
    <2> QED
      BY <1>1, <1>4, <2>1, <2>4 DEF TurnsInv
  <1>5. CASE UNCHANGED turnVars
    BY <1>1, <1>5 DEF turnVars, schedVars, TurnsInv
  <1>6. CASE ~ \E w \in queue : Start(w) /\ passed' = PassedAfter(w)
    <2>1. CASE UNCHANGED turnVars
      BY <1>5, <2>1
    <2>2. CASE TurnsNext
      <3>1. passed' = Forget
        BY <1>6, <2>2 DEF TurnsNext
      <3>2. UNCHANGED <<served, turns>>
        BY <1>6, <2>2 DEF TurnsNext, Open, Connect, Close, Ask, Enqueue,
           RevokeLease, Finish, BecomeReady, TickSched
      <3> QED
        BY <1>4, <3>1, <3>2
    <2> QED
      BY <2>1, <2>2
  <1> QED
    BY <1>3, <1>6

(* While a client waits, no other one has two turns in front of it at its  *)
(* level or below, by however many connections it asks.                    *)
THEOREM ClientsTakeTurns == TurnsSpec => []NoneGoesTwice
PROOF
  <1>1. TurnsInv => NoneGoesTwice
    BY DEF TurnsInv, NoneGoesTwice
  <1> QED
    BY <1>1, InitTurns, StepTurns, PTL DEF TurnsSpec

-----------------------------------------------------------------------------
(* The adapter.                                                            *)

(* The worker is serving exactly while the scheduler has a running request *)
Busy == {"serve", "watching", "finish"}
WorkerRuns == (running # NoRun) <=> (worker \in Busy)

(* A claim that has not been greeted has asked for nothing.                *)
Strangers ==
  \A c \in Conn : socket[c] = "new" =>
    /\ c \notin connections
    /\ running.conn # c
    /\ \A w \in queue : w.conn # c

Shapes ==
  /\ DOMAIN socket = Conn
  /\ abandon \in {"keep", "outranked", "disconnected", "stopped"}
  /\ byLevel \in 0..MAX_LEVEL
  /\ running # NoRun => running.level = LevelOf[running.conn]

(* The inductive invariant: AbandonJustified and NoneToldTooLate are kept  *)
(* by the readers because they set the flag in the critical section that   *)
(* gives the reason, and by the worker because it clears the flag only     *)
(* where nothing runs, in the critical section that starts the next        *)
(* request, and next() never starts one that somebody waiting outranks.    *)
AdapterInv ==
  /\ LeaseInv
  /\ WorkerRuns
  /\ Strangers
  /\ Shapes
  /\ AbandonJustified
  /\ NoneToldTooLate

LEMMA AdapterInitInv == AdapterInit => AdapterInv
PROOF
  <1> SUFFICES ASSUME AdapterInit PROVE AdapterInv
    OBVIOUS
  <1>1. LeaseInv
    BY InitLease DEF AdapterInit
  <1>2. running = NoRun /\ \A c \in Conn : running.conn # c
    BY SchedulerAssumption DEF AdapterInit, SchedInit, NoRun, SchedulerAssumption
  <1>3. WorkerRuns /\ Strangers
    BY <1>2 DEF AdapterInit, SchedInit, WorkerRuns, Strangers, Busy
  <1>4. Shapes
    BY <1>2 DEF AdapterInit, Shapes, MAX_LEVEL
  <1>5. AbandonJustified /\ NoneToldTooLate
    BY <1>2 DEF AbandonJustified, NoneToldTooLate
  <1> QED
    BY <1>1, <1>3, <1>4, <1>5 DEF AdapterInv

-----------------------------------------------------------------------------
(* The greeter and the clients.                                            *)

LEMMA GreetInv ==
  ASSUME AdapterInv, NEW c \in Conn, Greet(c)
  PROVE  AdapterInv'
PROOF
  <1> USE DEF Greet, workVars, flagVars, gameVars
  <1>1. running.conn # c /\ c \notin connections /\ \A w \in queue : w.conn # c
    BY DEF AdapterInv, Strangers
  <1>2. LeaseInv'
    BY <1>1, ConnectLease DEF AdapterInv
  <1>3. connections' = connections \cup {c} /\ UNCHANGED <<queue, running>>
    BY DEF Connect
  <1>4. Shapes'
    BY <1>3 DEF AdapterInv, Shapes
  <1>5. WorkerRuns' /\ Strangers'
    BY <1>3 DEF AdapterInv, WorkerRuns, Strangers, Shapes
  <1>6. AbandonJustified'
    BY <1>1, <1>3 DEF AdapterInv, AbandonJustified
  <1>7. NoneToldTooLate'
    BY <1>1, <1>3 DEF AdapterInv, NoneToldTooLate
  <1> QED
    BY <1>2, <1>4, <1>5, <1>6, <1>7 DEF AdapterInv

(* What the scheduler, the flag and the worker do not see.                 *)
LEMMA UnseenInv ==
  ASSUME AdapterInv, UNCHANGED <<schedVars, worker, abandon, byLevel, stopping>>,
         DOMAIN socket' = Conn,
         \A c \in Conn : socket'[c] = "new" => socket[c] = "new"
  PROVE  AdapterInv'
PROOF
  <1>1. LeaseInv'
    BY StutterLease DEF AdapterInv
  <1>2. UNCHANGED <<connections, queue, running>>
    BY DEF schedVars
  <1>3. WorkerRuns' /\ Strangers' /\ Shapes'
    BY <1>2 DEF AdapterInv, WorkerRuns, Strangers, Shapes
  <1>4. AbandonJustified' /\ NoneToldTooLate'
    BY <1>2 DEF AdapterInv, AbandonJustified, NoneToldTooLate
  <1> QED
    BY <1>1, <1>3, <1>4 DEF AdapterInv

LEMMA ClientsInv ==
  ASSUME AdapterInv, NEW c \in Conn,
         TellLeaving(c) \/ Send(c) \/ HangUp(c)
  PROVE  AdapterInv'
PROOF
  <1>1. UNCHANGED <<schedVars, worker, abandon, byLevel, stopping>>
    BY DEF TellLeaving, Send, HangUp, workVars, flagVars
  <1>2. /\ DOMAIN socket' = Conn
        /\ \A d \in Conn : socket'[d] = "new" => socket[d] = "new"
    BY DEF TellLeaving, Send, HangUp, AdapterInv, Shapes
  <1> QED
    BY <1>1, <1>2, UnseenInv

-----------------------------------------------------------------------------
(* The readers.                                                            *)

LEMMA ParsesOld ==
  ASSUME AdapterInv, NEW c \in Conn, NEW i, Parses(c, i)
  PROVE  socket[c] # "new" /\ UNCHANGED <<socket, worker>>
PROOF
  BY DEF Parses, workVars

LEMMA AdmitPlainInv ==
  ASSUME AdapterInv, NEW c \in Conn, NEW op \in Ops,
         AdmitAtOnce(c, op) \/ AdmitRefused(c, op)
  PROVE  AdapterInv'
PROOF
  <1>1. UNCHANGED <<schedVars, worker, abandon, byLevel, stopping, socket>>
    BY DEF AdmitAtOnce, AdmitRefused, Parses, workVars, flagVars
  <1> QED
    BY <1>1, UnseenInv DEF AdapterInv, Shapes

LEMMA AdmitQuitInv ==
  ASSUME AdapterInv, NEW c \in Conn, NEW op \in Ops, AdmitQuit(c, op)
  PROVE  AdapterInv'
PROOF
  <1>1. /\ UNCHANGED <<schedVars, socket, worker, byLevel>>
        /\ \/ stopping' # NoStop /\ abandon' = "stopped"
           \/ UNCHANGED <<stopping, abandon>>
    BY SchedulerAssumption DEF AdmitQuit, Parses, workVars, NoStop, SchedulerAssumption
  <1>2. LeaseInv'
    BY <1>1, StutterLease DEF AdapterInv
  <1>3. UNCHANGED <<connections, queue, running>>
    BY <1>1 DEF schedVars
  <1>4. WorkerRuns' /\ Strangers' /\ Shapes'
    BY <1>1, <1>3 DEF AdapterInv, WorkerRuns, Strangers, Shapes
  <1>5. AbandonJustified' /\ NoneToldTooLate'
    BY <1>1, <1>3 DEF AdapterInv, AbandonJustified, NoneToldTooLate
  <1> QED
    BY <1>2, <1>4, <1>5 DEF AdapterInv

(* The reader that queues a request of a higher level sets the flag.       *)
LEMMA AdmitInLineInv ==
  ASSUME AdapterInv, NEW c \in Conn, NEW op \in Ops, AdmitInLine(c, op)
  PROVE  AdapterInv'
PROOF
  <1>1. PICK i \in Requests(c) :
          /\ Parses(c, i)
          /\ op \in Leased => lease = c
          /\ Enqueue(c, op, i)
          /\ IF OutranksRunning(c)
             THEN abandon' = "outranked" /\ byLevel' = LevelOf[c]
             ELSE UNCHANGED <<abandon, byLevel>>
          /\ UNCHANGED stopping
    BY DEF AdmitInLine, flagVars, Holder, Leased, Turn
  <1>2. i \in Nat
    BY AdapterAssumption DEF Requests
  <1>3. LeaseInv'
    BY <1>1, <1>2, EnqueueLease DEF AdapterInv
  <1> DEFINE new ==
        [sequence |-> sequence + 1, conn |-> c, op |-> op, id |-> i]
  <1>4. /\ UNCHANGED <<connections, running, socket, worker>>
        /\ queue' = queue \cup {new} /\ new.conn = c
        /\ socket[c] # "new"
    BY <1>1, ParsesOld DEF Enqueue
  <1>5. \A d \in Conn : LevelOf[d] \in 0..MAX_LEVEL
    BY SchedulerAssumption DEF SchedulerAssumption
  <1>6. running # NoRun => running.level \in Nat
    BY DEF AdapterInv, LeaseInv, SchedTypeOK, Running, MAX_LEVEL
  <1> HIDE DEF new
  <1>7. WorkerRuns' /\ Strangers' /\ Shapes'
    BY <1>1, <1>4, <1>5 DEF AdapterInv, WorkerRuns, Strangers, Shapes
  <1>8. AbandonJustified'
    BY <1>1, <1>4, <1>5, <1>6 DEF AdapterInv, AbandonJustified, OutranksRunning
  <1>9. NoneToldTooLate'
    <2>1. SUFFICES ASSUME running # NoRun, abandon' = "keep"
                   PROVE  /\ \A w \in queue' : w.conn \in connections
                               => LevelOf[w.conn] <= running.level
                          /\ running.conn \in connections
                          /\ stopping = NoStop
      BY <1>1, <1>4 DEF NoneToldTooLate
    <2>2. abandon = "keep" /\ ~ OutranksRunning(c)
      BY <1>1, <2>1
    <2>3. /\ \A w \in queue : w.conn \in connections
               => LevelOf[w.conn] <= running.level
          /\ running.conn \in connections
          /\ stopping = NoStop
      BY <2>1, <2>2 DEF AdapterInv, NoneToldTooLate
    <2>4. c \in connections => LevelOf[c] <= running.level
      <3>1. CASE running.conn = c
        BY <1>5, <2>1, <3>1 DEF AdapterInv, Shapes, MAX_LEVEL
      <3>2. CASE running.conn # c
        BY <1>5, <1>6, <2>1, <2>2, <3>2 DEF OutranksRunning, MAX_LEVEL
      <3> QED
        BY <3>1, <3>2
    <2> QED
      BY <1>4, <2>3, <2>4
  <1> QED
    BY <1>3, <1>7, <1>8, <1>9 DEF AdapterInv

(* A closing connection warns its own running request, and takes no reason *)
(* away from another's.                                                    *)
LEMMA StreamEndsInv ==
  ASSUME AdapterInv, NEW c \in Conn, StreamEnds(c)
  PROVE  AdapterInv'
PROOF
  <1> USE DEF StreamEnds, workVars, gameVars
  <1>1. UNCHANGED <<worker, byLevel, stopping>> /\ socket'[c] = "gone"
        /\ DOMAIN socket' = Conn
        /\ \A d \in Conn : socket'[d] = "new" => socket[d] = "new" /\ d # c
    BY DEF AdapterInv, Shapes
  <1>2. CASE c \notin connections
    <2>1. UNCHANGED <<schedVars, abandon>>
      BY <1>2
    <2> QED
      BY <1>1, <2>1, UnseenInv
  <1>3. CASE c \in connections
    <2>1. /\ Close(c)
          /\ abandon' = IF running.conn = c THEN "disconnected" ELSE abandon
      BY <1>3
    <2>2. LeaseInv'
      BY <2>1, CloseLease DEF AdapterInv
    <2>3. /\ connections' = connections \ {c}
          /\ queue' \subseteq queue
          /\ running' = running
      BY <2>1 DEF Close
    <2>4. WorkerRuns' /\ Strangers' /\ Shapes'
      BY <1>1, <2>1, <2>3 DEF AdapterInv, WorkerRuns, Strangers, Shapes
    <2>5. AbandonJustified'
      BY <1>1, <2>1, <2>3 DEF AdapterInv, AbandonJustified
    <2>6. NoneToldTooLate'
      BY <1>1, <2>1, <2>3 DEF AdapterInv, NoneToldTooLate
    <2> QED
      BY <2>2, <2>4, <2>5, <2>6 DEF AdapterInv
  <1> QED
    BY <1>2, <1>3

-----------------------------------------------------------------------------
(* The worker, with nothing running before or after.                       *)

LEMMA IdleStepInv ==
  ASSUME AdapterInv, LeaseInv', running = NoRun, running' = NoRun,
         worker' \notin Busy, Shapes', Strangers'
  PROVE  AdapterInv'
PROOF
  BY DEF AdapterInv, WorkerRuns, AbandonJustified, NoneToldTooLate

LEMMA NotBusy ==
  ASSUME AdapterInv, worker \notin Busy
  PROVE  running = NoRun
PROOF
  BY DEF AdapterInv, WorkerRuns

(* A step of the worker that leaves the scheduler alone.                   *)
LEMMA AsideInv ==
  ASSUME AdapterInv, UNCHANGED <<schedVars, byLevel>>,
         abandon' \in {"keep", abandon}, DOMAIN socket' = Conn,
         \A c \in Conn : socket'[c] = "new" => socket[c] = "new",
         worker \notin Busy, worker' \notin Busy
  PROVE  AdapterInv'
PROOF
  <1>1. running = NoRun /\ UNCHANGED <<connections, queue, running>>
    BY NotBusy DEF schedVars
  <1>2. LeaseInv'
    BY StutterLease DEF AdapterInv
  <1>3. Shapes' /\ Strangers'
    BY <1>1 DEF AdapterInv, Shapes, Strangers
  <1> QED
    BY <1>1, <1>2, <1>3, IdleStepInv

LEMMA TakeAsideInv ==
  ASSUME AdapterInv, TakeMenu \/ TakeStatus \/ TakeQuit
  PROVE  AdapterInv'
PROOF
  <1>1. /\ UNCHANGED <<schedVars, byLevel, socket>>
        /\ abandon' \in {"keep", abandon}
        /\ worker \notin Busy /\ worker' \notin Busy
    BY DEF TakeMenu, TakeStatus, TakeQuit, AsksScheduler, Free, Busy, lineVars,
           flagVars
  <1> QED
    BY <1>1, AsideInv DEF AdapterInv, Shapes

LEMMA OutsideAsideInv ==
  ASSUME AdapterInv, EndMenu \/ EndRevoke \/ BeginQuit \/ EndQuit
  PROVE  AdapterInv'
PROOF
  <1>1. /\ UNCHANGED <<schedVars, byLevel>>
        /\ abandon' \in {"keep", abandon}
        /\ worker \notin Busy /\ worker' \notin Busy
    BY DEF EndMenu, EndRevoke, BeginQuit, EndQuit, Busy, flagVars
  <1>2. /\ DOMAIN socket' = Conn
        /\ \A c \in Conn : socket'[c] = "new" => socket[c] = "new"
    BY DEF EndMenu, EndRevoke, BeginQuit, EndQuit, lineVars, AdapterInv, Shapes
  <1> QED
    BY <1>1, <1>2, AsideInv

LEMMA TakeStopInv ==
  ASSUME AdapterInv, TakeStop
  PROVE  AdapterInv'
PROOF
  <1>1. /\ Drain /\ UNCHANGED <<socket, abandon, byLevel>>
        /\ worker \notin Busy /\ worker' \notin Busy
    BY DEF TakeStop, Free, Busy, lineVars, flagVars
  <1>2. LeaseInv'
    BY <1>1, DrainLease DEF AdapterInv
  <1>3. /\ running = NoRun /\ UNCHANGED <<connections, running>>
        /\ queue' = {}
    BY <1>1, NotBusy DEF Drain
  <1>4. Shapes' /\ Strangers'
    BY <1>1, <1>3 DEF AdapterInv, Shapes, Strangers
  <1> QED
    BY <1>1, <1>2, <1>3, <1>4, IdleStepInv

LEMMA TakeNothingInv ==
  ASSUME AdapterInv, NEW w \in queue, TakeNothing(w)
  PROVE  AdapterInv'
PROOF
  <1>1. /\ Drop(w) /\ UNCHANGED <<socket, abandon, byLevel, worker>>
        /\ worker \notin Busy
    BY DEF TakeNothing, AsksScheduler, Free, Busy, adapterVars
  <1>2. LeaseInv'
    BY <1>1, DropLease DEF AdapterInv
  <1>3. /\ running = NoRun /\ UNCHANGED <<connections, running>>
        /\ queue' \subseteq queue
    BY <1>1, NotBusy DEF Drop, TakenOut
  <1>4. Shapes' /\ Strangers'
    BY <1>1, <1>3 DEF AdapterInv, Shapes, Strangers
  <1> QED
    BY <1>1, <1>2, <1>3, <1>4, IdleStepInv

LEMMA TakeLeaseBackInv ==
  ASSUME AdapterInv, TakeLeaseBack
  PROVE  AdapterInv'
PROOF
  <1>1. /\ Close(lease) /\ lease \in Conn
        /\ UNCHANGED <<socket, abandon, byLevel>>
        /\ worker \notin Busy /\ worker' \notin Busy
    BY DEF TakeLeaseBack, AsksScheduler, Free, Busy, lineVars, flagVars,
           RevokeDue, AdapterInv, LeaseInv, SchedTypeOK
  <1>2. LeaseInv'
    BY <1>1, CloseLease DEF AdapterInv
  <1>3. /\ running = NoRun /\ running' = running
        /\ connections' \subseteq connections
        /\ queue' \subseteq queue
    BY <1>1, NotBusy DEF Close
  <1>4. Shapes' /\ Strangers'
    BY <1>1, <1>3 DEF AdapterInv, Shapes, Strangers
  <1> QED
    BY <1>1, <1>2, <1>3, <1>4, IdleStepInv

(* The request that starts is the highest that waits, its client is there, *)
(* and the flag of the last one is cleared with it.                        *)
LEMMA TakeTurnInv ==
  ASSUME AdapterInv, NEW w \in queue, TakeTurn(w)
  PROVE  AdapterInv'
PROOF
  <1>1. /\ Start(w) /\ abandon' = "keep" /\ stopping = NoStop
        /\ UNCHANGED <<socket, byLevel, stopping>>
        /\ worker \notin Busy /\ worker' \in Busy
    BY DEF TakeTurn, AsksScheduler, Free, Busy, lineVars, AbandonForgotten
  <1>2. /\ LeaseInv'
        /\ running' # NoRun
        /\ running'.conn = w.conn /\ running'.level = LevelOf[w.conn]
    BY <1>1, StartLease DEF AdapterInv
  <1>3. /\ w.conn \in connections /\ connections' = connections
        /\ queue' \subseteq queue /\ Chosen(w)
    BY <1>1 DEF Start, TakenOut
  <1>4. WorkerRuns'
    BY <1>1, <1>2 DEF WorkerRuns
  <1>5. Strangers' /\ Shapes'
    BY <1>1, <1>2, <1>3 DEF AdapterInv, Strangers, Shapes
  <1>6. AbandonJustified'
    BY <1>1 DEF AbandonJustified
  <1>7. NoneToldTooLate'
    <2>1. \A v \in queue : v.conn \in connections => LevelOf[v.conn] <= LevelOf[w.conn]
      BY <1>3, ChosenIsHighest DEF AdapterInv
    <2> QED
      BY <1>1, <1>2, <1>3, <2>1 DEF NoneToldTooLate
  <1> QED
    BY <1>2, <1>4, <1>5, <1>6, <1>7 DEF AdapterInv

-----------------------------------------------------------------------------
(* The worker with a request running.                                      *)

LEMMA ServingInv ==
  ASSUME AdapterInv,
         ServeDone \/ ServeFailed \/ EnterWatch \/ LeaveWatch \/ Abandon
  PROVE  AdapterInv'
PROOF
  <1>1. /\ UNCHANGED <<schedVars, abandon, byLevel, stopping, socket>>
        /\ worker \in Busy /\ worker' \in Busy
    BY DEF ServeDone, ServeFailed, EnterWatch, LeaveWatch, Abandon, Ends, Busy,
           lineVars, flagVars
  <1>2. LeaseInv'
    BY <1>1, StutterLease DEF AdapterInv
  <1>3. UNCHANGED <<connections, queue, running>>
    BY <1>1 DEF schedVars
  <1>4. WorkerRuns' /\ Strangers' /\ Shapes'
    BY <1>1, <1>3 DEF AdapterInv, WorkerRuns, Strangers, Shapes
  <1>5. AbandonJustified' /\ NoneToldTooLate'
    BY <1>1, <1>3 DEF AdapterInv, AbandonJustified, NoneToldTooLate
  <1> QED
    BY <1>2, <1>4, <1>5 DEF AdapterInv

LEMMA EndServeInv ==
  ASSUME AdapterInv, EndServe
  PROVE  AdapterInv'
PROOF
  <1>1. /\ Finish(outcome) /\ worker' \notin Busy
        /\ UNCHANGED <<socket, abandon, byLevel, stopping>>
    BY DEF EndServe, Busy, lineVars, flagVars
  <1>2. LeaseInv'
    BY <1>1, FinishLease DEF AdapterInv
  <1>3. UNCHANGED <<connections, queue>> /\ running' = NoRun
    BY <1>1 DEF Finish
  <1>4. Strangers' /\ Shapes'
    BY <1>1, <1>3, SchedulerAssumption
    DEF AdapterInv, Strangers, Shapes, NoRun, SchedulerAssumption
  <1>5. WorkerRuns' /\ AbandonJustified' /\ NoneToldTooLate'
    BY <1>1, <1>3 DEF WorkerRuns, AbandonJustified, NoneToldTooLate
  <1> QED
    BY <1>2, <1>4, <1>5 DEF AdapterInv

-----------------------------------------------------------------------------
(* The game and the clock.                                                 *)

LEMMA EndStatusInv ==
  ASSUME AdapterInv, EndStatus
  PROVE  AdapterInv'
PROOF
  <1>1. /\ BecomeReady \/ UNCHANGED schedVars
        /\ UNCHANGED <<socket, abandon, byLevel>>
        /\ worker \notin Busy /\ worker' \notin Busy
    BY DEF EndStatus, Busy, lineVars, flagVars
  <1>2. LeaseInv'
    BY <1>1, ReadyLease, StutterLease DEF AdapterInv
  <1>3. running = NoRun /\ UNCHANGED <<connections, queue, running>>
    BY <1>1, NotBusy DEF BecomeReady, schedVars
  <1>4. Shapes' /\ Strangers'
    BY <1>1, <1>3 DEF AdapterInv, Shapes, Strangers
  <1> QED
    BY <1>1, <1>2, <1>3, <1>4, IdleStepInv

LEMMA BootInv ==
  ASSUME AdapterInv, Boot
  PROVE  AdapterInv'
PROOF
  <1>1. UNCHANGED <<schedVars, worker, abandon, byLevel, stopping, socket>>
    BY DEF Boot, lineVars, workVars, flagVars
  <1> QED
    BY <1>1, UnseenInv DEF AdapterInv, Shapes

LEMMA ClockInv ==
  ASSUME AdapterInv, Tick
  PROVE  AdapterInv'
PROOF
  <1>1. /\ TickSched
        /\ UNCHANGED <<worker, abandon, byLevel, stopping, socket>>
    BY DEF Tick, lineVars, workVars, flagVars
  <1>2. LeaseInv'
    BY <1>1, TickLease DEF AdapterInv
  <1>3. UNCHANGED <<connections, queue, running>>
    BY <1>1 DEF TickSched
  <1>4. WorkerRuns' /\ Strangers' /\ Shapes'
    BY <1>1, <1>3 DEF AdapterInv, WorkerRuns, Strangers, Shapes
  <1>5. AbandonJustified' /\ NoneToldTooLate'
    BY <1>1, <1>3 DEF AdapterInv, AbandonJustified, NoneToldTooLate
  <1> QED
    BY <1>2, <1>4, <1>5 DEF AdapterInv

-----------------------------------------------------------------------------
LEMMA AdapterStepInv == AdapterInv /\ [AdapterNext]_vars => AdapterInv'
PROOF
  <1> SUFFICES ASSUME AdapterInv, [AdapterNext]_vars PROVE AdapterInv'
    OBVIOUS
  <1>1. CASE Greeter \/ Clients
    BY <1>1, GreetInv, ClientsInv DEF Greeter, Clients
  <1>2. ASSUME NEW c \in Conn, Reader(c) PROVE AdapterInv'
    <2>1. CASE StreamEnds(c)
      BY <2>1, StreamEndsInv
    <2>2. CASE AdmitInvalid(c)
      <3>1. UNCHANGED <<schedVars, worker, abandon, byLevel, stopping, socket>>
        BY <2>2 DEF AdmitInvalid, Parses, workVars, flagVars
      <3> QED
        BY <3>1, UnseenInv DEF AdapterInv, Shapes
    <2>3. ASSUME NEW op \in Ops,
                 \/ AdmitAtOnce(c, op) \/ AdmitRefused(c, op)
                 \/ AdmitQuit(c, op) \/ AdmitInLine(c, op)
          PROVE  AdapterInv'
      BY <2>3, AdmitPlainInv, AdmitQuitInv, AdmitInLineInv
    <2> QED
      BY <1>2, <2>1, <2>2, <2>3 DEF Reader, Admit
  <1>3. CASE Take
    <2>1. CASE TakeStop
      BY <2>1, TakeStopInv
    <2>2. CASE TakeMenu \/ TakeStatus \/ TakeQuit
      BY <2>2, TakeAsideInv
    <2>3. CASE TakeLeaseBack
      BY <2>3, TakeLeaseBackInv
    <2>4. ASSUME NEW w \in queue, TakeTurn(w) \/ TakeNothing(w)
          PROVE  AdapterInv'
      BY <2>4, TakeTurnInv, TakeNothingInv
    <2> QED
      BY <1>3, <2>1, <2>2, <2>3, <2>4 DEF Take
  <1>4. CASE Outside
    <2>1. CASE EndMenu \/ EndRevoke \/ BeginQuit \/ EndQuit
      BY <2>1, OutsideAsideInv
    <2>2. CASE ServeDone \/ ServeFailed \/ EnterWatch \/ LeaveWatch \/ Abandon
      BY <2>2, ServingInv
    <2>3. CASE EndStatus
      BY <2>3, EndStatusInv
    <2>4. CASE EndServe
      BY <2>4, EndServeInv
    <2> QED
      BY <1>4, <2>1, <2>2, <2>3, <2>4 DEF Outside
  <1>5. CASE Boot
    BY <1>5, BootInv
  <1>6. CASE Tick
    BY <1>6, ClockInv
  <1>7. CASE UNCHANGED vars
    <2>1. UNCHANGED <<schedVars, worker, abandon, byLevel, stopping, socket>>
      BY <1>7 DEF vars, adapterVars
    <2> QED
      BY <2>1, UnseenInv DEF AdapterInv, Shapes
  <1> QED
    BY <1>1, <1>2, <1>3, <1>4, <1>5, <1>6, <1>7 DEF AdapterNext

(* The invariant holds in every state of the adapter.                      *)
THEOREM AdapterInvariance == AdapterSpec => []AdapterInv
PROOF
  BY AdapterInitInv, AdapterStepInv, PTL DEF AdapterSpec

(* The one ABANDON flag, written by every reader and by the worker, never  *)
(* stops a request for another's reason.                                   *)
THEOREM NoStrayAbandon == AdapterSpec => []AbandonJustified
PROOF
  BY AdapterInvariance, PTL DEF AdapterInv

(* No request runs on unwarned while a higher level waits, its client has  *)
(* gone or quit_game was asked: no interleaving of a reader with the       *)
(* worker loses the warning.                                               *)
THEOREM NoLostAbandon == AdapterSpec => []NoneToldTooLate
PROOF
  BY AdapterInvariance, PTL DEF AdapterInv

(* The lease excludes under every interleaving of greeter, readers and     *)
(* worker, evictions and pipelined requests included.                      *)
THEOREM AdapterLeaseExcludes == AdapterSpec => []LeaseExcludes
PROOF
  BY AdapterInvariance, PTL DEF AdapterInv, LeaseInv

(* A scene operation waits and runs only under its asker's lease, though   *)
(* the reader that admits it and the worker that revokes it race.          *)
THEOREM AdapterSceneUnderLease == AdapterSpec => []SceneUnderLease
PROOF
  BY AdapterInvariance, PTL DEF AdapterInv, LeaseInv

-----------------------------------------------------------------------------
(* The types of what the runtime adds, one group of variables and one      *)
(* actor at a time.                                                        *)

Streams ==
  /\ socket \in [Conn -> {"new", "open", "hung", "shut", "gone"}]
  /\ asked \in [Conn -> Nat] /\ unread \in [Conn -> Nat]
  /\ \A c \in Conn : asked[c] <= MaxAsked[c] /\ unread[c] <= asked[c]

Replies ==
  /\ reply = [c \in Conn |-> reply[c]]
  /\ \A c \in Conn :
       reply[c] \in [Requests(c) -> Announced \cup Responses]

Thread ==
  /\ worker \in {"free", "menu", "status", "revoke", "serve", "watching",
                 "finish", "stop", "quit", "over"}
  /\ evictee \in Conn \cup {NoConn}
  /\ outcome \in BOOLEAN

Flags ==
  /\ stopping \in [conn : Conn, id : Nat] \cup {NoStop}
  /\ quitting \in BOOLEAN
  /\ sceneLeft \in BOOLEAN
  /\ statusDue \in BOOLEAN
  /\ scene \in {"boot", "menu", "training", "watch"}

Typed == Streams /\ Replies /\ Thread /\ Flags

(* Whatever entry is written, a client is told one of the known things.    *)
LEMMA ToldTyped ==
  ASSUME Replies, NEW c, NEW i, NEW what \in Announced \cup Responses,
         \/ reply' = [reply EXCEPT ![c][i] = what]
         \/ reply' = Told(c, i, what)
         \/ reply' = reply
  PROVE  Replies'
PROOF
  <1>1. CASE reply' = [reply EXCEPT ![c][i] = what]
    <2> DEFINE line == [reply[c] EXCEPT ![i] = what]
    <2>1. reply' = [d \in Conn |-> IF d = c THEN line ELSE reply[d]]
      BY <1>1 DEF Replies
    <2>2. c \in Conn => line \in [Requests(c) -> Announced \cup Responses]
      BY DEF Replies
    <2> HIDE DEF line
    <2> QED
      BY <2>1, <2>2 DEF Replies
  <1>2. CASE reply' = reply
    BY <1>2 DEF Replies
  <1> QED
    BY <1>1, <1>2 DEF Told

LEMMA ClientsTyped ==
  ASSUME Typed, Greeter \/ Clients
  PROVE  Typed'
PROOF
  <1> USE DEF Greeter, Clients, Greet, TellLeaving, Send, HangUp
  <1>1. Streams'
    BY AdapterAssumption DEF Typed, Streams, AdapterAssumption
  <1>2. Replies'
    BY DEF Typed, Replies
  <1>3. Thread' /\ Flags'
    BY DEF Typed, Thread, Flags, workVars, gameVars, Connect
  <1> QED
    BY <1>1, <1>2, <1>3 DEF Typed

LEMMA ReaderTyped ==
  ASSUME Typed, NEW c \in Conn, Reader(c)
  PROVE  Typed'
PROOF
  <1> USE DEF Reader, Admit, AdmitAtOnce, AdmitInvalid, AdmitRefused,
              AdmitQuit, AdmitInLine
  <1>1. Streams'
    BY DEF Typed, Streams, Parses, StreamEnds
  <1>2. Replies'
    <2>1. \/ UNCHANGED reply
          \/ \E i \in Requests(c) :
             \E what \in {"ok", "invalid", "game_stopped", "no_lease",
                          "waiting", "queued"} :
               reply' = Told(c, i, what)
      BY DEF StreamEnds
    <2>2. {"ok", "invalid", "game_stopped", "no_lease", "waiting", "queued"}
            \subseteq Announced \cup Responses
      BY DEF Announced, Responses
    <2>3. CASE UNCHANGED reply
      BY <2>3 DEF Typed, Replies
    <2> QED
      BY <2>1, <2>2, <2>3, ToldTyped DEF Typed
  <1>3. Thread'
    BY DEF Typed, Thread, Parses, StreamEnds, workVars
  <1>4. Flags'
    <2>1. UNCHANGED <<quitting, statusDue, scene>> /\ sceneLeft' \in BOOLEAN
      BY DEF Typed, Flags, Parses, StreamEnds, LeavesScene, gameVars
    <2>2. \/ stopping' = stopping
          \/ \E i \in Requests(c) : stopping' = [conn |-> c, id |-> i]
      BY DEF StreamEnds
    <2>3. \A i \in Requests(c) : i \in Nat
      BY AdapterAssumption DEF Requests, AdapterAssumption
    <2> QED
      BY <2>1, <2>2, <2>3 DEF Typed, Flags
  <1> QED
    BY <1>1, <1>2, <1>3, <1>4 DEF Typed

LEMMA TakeTyped ==
  ASSUME Typed, Take, lease \in Conn \cup {NoConn}
  PROVE  Typed'
PROOF
  <1> USE DEF Take, TakeStop, TakeMenu, TakeStatus, TakeLeaseBack, TakeQuit,
              TakeTurn, TakeNothing, adapterVars
  <1>1. Streams'
    BY DEF Typed, Streams, lineVars
  <1>2. Replies'
    <2>1. CASE TakeStop
      BY <2>1 DEF Typed, Replies, Responses
    <2>2. CASE ~ TakeStop
      <3>1. \/ UNCHANGED reply
            \/ \E w \in queue : reply' = Told(w.conn, w.id, "started")
        BY <2>2
      <3>2. "started" \in Announced \cup Responses
        BY DEF Announced
      <3>3. CASE UNCHANGED reply
        BY <3>3 DEF Typed, Replies
      <3> QED
        BY <3>1, <3>2, <3>3, ToldTyped DEF Typed
    <2> QED
      BY <2>1, <2>2
  <1>3. Thread'
    BY DEF Typed, Thread
  <1>4. Flags'
    BY DEF Typed, Flags, gameVars
  <1> QED
    BY <1>1, <1>2, <1>3, <1>4 DEF Typed

LEMMA OutsideTyped ==
  ASSUME Typed, Outside
  PROVE  Typed'
PROOF
  <1> USE DEF Outside, EndMenu, EndStatus, EndRevoke, ServeDone, ServeFailed,
              EnterWatch, LeaveWatch, Abandon, EndServe, BeginQuit, EndQuit,
              Ends
  <1>1. Streams'
    BY DEF Typed, Streams, lineVars
  <1>2. Replies'
    <2>1. \/ UNCHANGED reply
          \/ \E c, i : \E what \in Responses :
               \/ reply' = [reply EXCEPT ![c][i] = what]
               \/ reply' = Told(c, i, what)
      BY DEF AbandonCode, Responses
    <2>2. CASE UNCHANGED reply
      BY <2>2 DEF Typed, Replies
    <2> QED
      BY <2>1, <2>2, ToldTyped DEF Typed
  <1>3. Thread'
    BY DEF Typed, Thread
  <1>4. Flags'
    BY DEF Typed, Flags, gameVars, Leaves
  <1> QED
    BY <1>1, <1>2, <1>3, <1>4 DEF Typed

LEMMA ClockTyped ==
  ASSUME Typed, Boot \/ Tick \/ UNCHANGED vars
  PROVE  Typed'
PROOF
  BY DEF Typed, Streams, Replies, Thread, Flags, Boot, Tick, vars,
         adapterVars, lineVars, workVars, gameVars

(* Every variable of the adapter keeps its type: no reader parses a line   *)
(* its client has not written, and the tallies never go negative.          *)
THEOREM AdapterTypeCorrect == AdapterSpec => []AdapterTypeOK
PROOF
  <1>1. AdapterInit => Typed
    <2> SUFFICES ASSUME AdapterInit PROVE Typed
      OBVIOUS
    <2> USE DEF AdapterInit
    <2>1. Streams
      BY AdapterAssumption DEF Streams, AdapterAssumption
    <2>2. Replies
      BY DEF Replies, Announced
    <2>3. Thread /\ Flags
      BY DEF Thread, Flags
    <2> QED
      BY <2>1, <2>2, <2>3 DEF Typed
  <1>2. AdapterInv /\ Typed /\ [AdapterNext]_vars => Typed'
    <2> SUFFICES ASSUME AdapterInv, Typed, [AdapterNext]_vars PROVE Typed'
      OBVIOUS
    <2>1. lease \in Conn \cup {NoConn}
      BY DEF AdapterInv, LeaseInv, SchedTypeOK
    <2> QED
      BY <2>1, ClientsTyped, ReaderTyped, TakeTyped, OutsideTyped, ClockTyped
      DEF AdapterNext
  <1>3. AdapterInv /\ Typed => AdapterTypeOK
    <2> SUFFICES ASSUME AdapterInv, Typed PROVE AdapterTypeOK
      OBVIOUS
    <2>1. \A c \in Conn :
            asked[c] \in 0..MaxAsked[c] /\ unread[c] \in 0..asked[c]
      BY AdapterAssumption DEF Typed, Streams, AdapterAssumption
    <2> QED
      BY <2>1 DEF Typed, Streams, Replies, Thread, Flags, AdapterInv,
                  LeaseInv, Shapes, AdapterTypeOK
  <1> QED
    BY <1>1, <1>2, <1>3, AdapterInvariance, PTL DEF AdapterSpec

-----------------------------------------------------------------------------
(* The main menu that is owed to the next turn.                            *)

(* A scene request runs on without its lease only where its lease ended,   *)
(* and then the main menu is owed; and wherever the game has left the main *)
(* menu, somebody holds the lease, or the menu is owed or on its way.      *)
SceneHeld ==
  running # NoRun /\ running.op \in Leased /\ lease # running.conn
    => sceneLeft
SceneOwed ==
  \/ scene = "menu"
  \/ scene = "boot" /\ ~ ready
  \/ scene = "training" /\ (lease # NoConn \/ sceneLeft \/ worker = "menu")

MenuInv == AdapterInv /\ SceneHeld /\ SceneOwed

LEMMA MenuInit == AdapterInit => MenuInv
PROOF
  BY AdapterInitInv DEF AdapterInit, SchedInit, MenuInv, SceneHeld, SceneOwed

(* The greeter, the clients and the readers take no lease and no debt away, *)
(* but for the stream that ends under a lease and owes the menu for it.    *)
LEMMA MenuReaders ==
  ASSUME MenuInv, \/ Greeter \/ Clients
                  \/ \E c \in Conn : Reader(c)
                  \/ Tick
                  \/ UNCHANGED vars
  PROVE  SceneHeld' /\ SceneOwed'
PROOF
  <1>1. CASE \E c \in Conn : StreamEnds(c)
    <2>1. PICK c \in Conn : StreamEnds(c)
      BY <1>1
    <2>2. /\ UNCHANGED <<scene, worker, running, ready>>
          /\ sceneLeft' = (sceneLeft \/ lease = c)
          /\ lease' \in {lease, IF lease = c THEN NoConn ELSE lease}
      BY <2>1 DEF StreamEnds, LeavesScene, Close, LeaseLeft, schedVars,
         gameVars, workVars
    <2> QED
      BY <2>2 DEF MenuInv, SceneHeld, SceneOwed
  <1>2. CASE ~ \E c \in Conn : StreamEnds(c)
    <2>1. UNCHANGED <<scene, worker, running, ready, sceneLeft, lease>>
      BY <1>2 DEF Greeter, Greet, Connect, TellLeaving, Clients, Send, HangUp,
         Reader, Admit, AdmitInvalid, AdmitAtOnce, AdmitRefused, AdmitQuit,
         AdmitInLine, Enqueue, Parses, Tick, TickSched, vars, schedVars,
         adapterVars, gameVars, workVars
    <2> QED
      BY <2>1 DEF MenuInv, SceneHeld, SceneOwed
  <1> QED
    BY <1>1, <1>2

(* The worker pays the debt before it gives out a turn, and owes one for a *)
(* lease it takes back.                                                    *)
LEMMA MenuTake ==
  ASSUME MenuInv, Take
  PROVE  SceneHeld' /\ SceneOwed'
PROOF
  <1>1. worker = "free" /\ running = NoRun /\ UNCHANGED scene
    <2>1. worker = "free" /\ UNCHANGED scene
      BY DEF Take, TakeStop, TakeMenu, TakeStatus, TakeLeaseBack, TakeQuit,
         TakeTurn, TakeNothing, AsksScheduler, Free, adapterVars, gameVars
    <2> QED
      BY <2>1, NotBusy DEF MenuInv, Busy
  <1>2. CASE TakeMenu
    BY <1>1, <1>2 DEF TakeMenu, schedVars, MenuInv, SceneHeld, SceneOwed
  <1>3. CASE TakeLeaseBack
    BY <1>1, <1>3 DEF TakeLeaseBack, Close, MenuInv, SceneHeld, SceneOwed
  <1>4. CASE TakeStop \/ TakeStatus \/ TakeQuit
    <2>1. UNCHANGED <<running, ready, lease, sceneLeft>>
      BY <1>4 DEF TakeStop, Drain, TakeStatus, TakeQuit, schedVars
    <2> QED
      BY <1>1, <2>1 DEF MenuInv, SceneHeld, SceneOwed
  <1>5. ASSUME NEW w \in queue, TakeNothing(w)
        PROVE  SceneHeld' /\ SceneOwed'
    <2>1. lease = NoConn
      BY <1>5, ChosenUnderLease DEF TakeNothing, Drop, MenuInv, AdapterInv
    <2>2. UNCHANGED <<running, ready, lease, sceneLeft, worker>>
      BY <1>5, <2>1 DEF TakeNothing, Drop, adapterVars
    <2> QED
      BY <1>1, <2>2 DEF MenuInv, SceneHeld, SceneOwed
  <1>6. ASSUME NEW w \in queue, TakeTurn(w)
        PROVE  SceneHeld' /\ SceneOwed'
    <2>1. /\ lease # NoConn => lease \in connections /\ w.conn = lease
          /\ w.op \in Leased => w.conn = lease
      BY <1>6, ChosenUnderLease DEF TakeTurn, Start, MenuInv, AdapterInv
    <2>2. /\ w.conn # NoConn /\ w.op \in Leased => w.op # "lease"
          /\ NoConn \notin connections
      BY SchedulerAssumption DEF SchedulerAssumption, MenuInv, AdapterInv,
         LeaseInv, SchedTypeOK, Waiting, Leased
    <2>3. /\ running'.conn = w.conn /\ running'.op = w.op
          /\ lease' = IF w.op = "lease" THEN w.conn ELSE lease
          /\ UNCHANGED <<ready, sceneLeft>>
      BY <1>6, <2>1 DEF TakeTurn, Start
    <2> QED
      BY <1>1, <2>1, <2>2, <2>3 DEF MenuInv, SceneHeld, SceneOwed
  <1> QED
    BY <1>2, <1>3, <1>4, <1>5, <1>6 DEF Take

(* Outside the mutex, the game leaves the main menu for a test only, whose *)
(* lease is held or has left a debt; and the menu that is owed is reached. *)
LEMMA MenuOutside ==
  ASSUME MenuInv, MenuReturns, "record_watch_replay" \notin Ops,
         Outside \/ Boot
  PROVE  SceneHeld' /\ SceneOwed'
PROOF
  <1>1. running # NoRun => running.op \in Ops /\ running.conn # NoConn
    BY SchedulerAssumption DEF SchedulerAssumption, MenuInv, AdapterInv,
       LeaseInv, SchedTypeOK, Running
  <1>2. UNCHANGED <<sceneLeft, lease>>
    BY DEF Outside, EndMenu, EndStatus, EndRevoke, ServeDone, ServeFailed,
       EnterWatch, LeaveWatch, Abandon, EndServe, BeginQuit, EndQuit, Ends,
       Finish, BecomeReady, Boot, schedVars
  <1>3. CASE EndMenu \/ EndRevoke \/ BeginQuit \/ EndQuit \/ Boot
    <2>1. /\ UNCHANGED <<running, ready>>
          /\ scene' = "menu" \/ (scene' = scene /\ worker # "menu")
      BY <1>3 DEF EndMenu, EndRevoke, BeginQuit, EndQuit, Boot, schedVars,
         gameVars
    <2> QED
      BY <1>2, <2>1 DEF MenuInv, SceneHeld, SceneOwed
  <1>4. CASE EndStatus
    BY <1>2, <1>4 DEF EndStatus, BecomeReady, schedVars, gameVars, MenuInv,
       SceneHeld, SceneOwed
  <1>5. CASE EndServe
    BY <1>2, <1>5 DEF EndServe, Finish, gameVars, MenuInv, SceneHeld,
       SceneOwed
  <1>6. CASE ServeDone \/ ServeFailed \/ EnterWatch \/ LeaveWatch \/ Abandon
    <2>1. worker \in Busy /\ running # NoRun
          /\ UNCHANGED <<running, ready>>
      <3>1. worker \in Busy /\ UNCHANGED <<running, ready>>
        BY <1>6 DEF ServeDone, ServeFailed, EnterWatch, LeaveWatch, Abandon,
           Ends, Busy, schedVars
      <3> QED
        BY <3>1 DEF MenuInv, AdapterInv, WorkerRuns
    <2>2. \/ scene' \in {"menu", scene}
          \/ scene' = "training" /\ running.op = "start_test"
      BY <1>1, <1>6, <2>1 DEF ServeDone, ServeFailed, EnterWatch, LeaveWatch,
         Abandon, Leaves
    <2>3. worker # "menu"
      BY <2>1 DEF Busy
    <2>4. running.op = "start_test" => lease # NoConn \/ sceneLeft
      BY <1>1, <2>1 DEF MenuInv, SceneHeld, Leased
    <2> QED
      BY <1>2, <2>1, <2>2, <2>3, <2>4 DEF MenuInv, SceneHeld, SceneOwed
  <1> QED
    BY <1>3, <1>4, <1>5, <1>6 DEF Outside

(* A turn given with the lease free starts at the main menu, wherever the  *)
(* holder before left the game and however it went: where the game always  *)
(* comes back to its menu, and no match is watched.                        *)
THEOREM TurnsStartAtMenu ==
  ASSUME MenuReturns, "record_watch_replay" \notin Ops
  PROVE  AdapterSpec => TurnAtMenu
PROOF
  <1>1. MenuInv /\ [AdapterNext]_vars => MenuInv'
    <2> SUFFICES ASSUME MenuInv, [AdapterNext]_vars PROVE MenuInv'
      OBVIOUS
    <2>1. AdapterInv'
      BY AdapterStepInv DEF MenuInv
    <2> QED
      BY <2>1, MenuReaders, MenuTake, MenuOutside DEF MenuInv, AdapterNext
  <1>2. MenuInv => \A w \in queue : TakeTurn(w) /\ lease = NoConn
                                      => scene = "menu"
    <2> SUFFICES ASSUME MenuInv, NEW w \in queue, TakeTurn(w), lease = NoConn
                 PROVE  scene = "menu"
      OBVIOUS
    <2>1. lease \notin connections
      BY SchedulerAssumption DEF SchedulerAssumption, MenuInv, AdapterInv,
         LeaseInv, SchedTypeOK
    <2>2. ready /\ worker = "free" /\ ~ sceneLeft
      BY <2>1 DEF TakeTurn, AsksScheduler, Free, Start, Chosen
    <2> QED
      BY <2>2 DEF MenuInv, SceneOwed
  <1>3. MenuInv => [\A w \in queue : TakeTurn(w) /\ lease = NoConn
                                       => scene = "menu"]_vars
    BY <1>2
  <1> QED
    BY <1>1, <1>3, MenuInit, PTL DEF AdapterSpec, TurnAtMenu

-----------------------------------------------------------------------------
(* The adapter keeps the promise of OneGame: its first state maps to the   *)
(* game's first one, and each of its steps to a step of the game or to     *)
(* none.                                                                   *)

(* The lines a client has written are numbers, and it is told of each.     *)
Lines ==
  /\ asked \in [Conn -> Nat] /\ unread \in [Conn -> Nat]
  /\ reply = [c \in Conn |-> [i \in Requests(c) |-> reply[c][i]]]

(* Nothing has become of line i of c.                                      *)
Is(x, c, i) == x.conn = c /\ x.id = i
Untouched(c, i) ==
  /\ reply[c][i] \notin Responses
  /\ \A w \in queue : ~ Is(w, c, i)
  /\ running # NoRun => ~ Is(running, c, i)
  /\ stopping # [conn |-> c, id |-> i]

Parsed(c) == asked[c] - unread[c]
Fresh ==
  \A c \in Conn : \A i \in Requests(c) : i > Parsed(c) => Untouched(c, i)

(* What waits has a line of its own that has had no answer; what runs is   *)
(* not in line; and a quit_game that was taken is neither.                 *)
Waiters ==
  \A w \in queue :
    /\ w.id \in Requests(w.conn)
    /\ reply[w.conn][w.id] \notin Responses
    /\ stopping # [conn |-> w.conn, id |-> w.id]
    /\ \A v \in queue : Is(v, w.conn, w.id) => v = w
Runner ==
  running # NoRun =>
    /\ running.id \in Requests(running.conn)
    /\ \A w \in queue : ~ Is(w, running.conn, running.id)
    /\ stopping # [conn |-> running.conn, id |-> running.id]
Quitter ==
  stopping # NoStop =>
    \E c \in Conn : \E i \in Requests(c) :
      /\ stopping = [conn |-> c, id |-> i]
      /\ worker # "over" => reply[c][i] \notin Responses

(* The linger clock runs only where nobody is connected, so a game that    *)
(* quits of itself has nobody waiting to be told.                          *)
Alone == idleFor # NotIdle => connections = {}

PromiseInv ==
  /\ AdapterInv
  /\ Lines
  /\ Fresh
  /\ Waiters
  /\ Runner
  /\ Quitter
  /\ Alone

-----------------------------------------------------------------------------
(* What the mapped variables are made of.                                  *)

LEMMA SameAnswers ==
  ASSUME \A c \in Conn : \A i \in Requests(c) :
           reply'[c][i] \in Responses <=> reply[c][i] \in Responses
  PROVE  AnsweredNow' = AnsweredNow
PROOF
  BY DEF AnsweredNow

LEMMA OneMoreAnswer ==
  ASSUME NEW c \in Conn, NEW i \in Requests(c),
         reply'[c][i] \in Responses,
         \A d \in Conn : \A j \in Requests(d) :
           d # c \/ j # i =>
             (reply'[d][j] \in Responses <=> reply[d][j] \in Responses)
  PROVE  AnsweredNow' = AnsweredNow \cup {<<c, i>>}
PROOF
  <1> DEFINE Told1(d, j) == reply[d][j] \in Responses
             Told2(d, j) == reply'[d][j] \in Responses
  <1>1. \A r : r \in AnsweredNow <=>
          \E d \in Conn : \E j \in Requests(d) : r = <<d, j>> /\ Told1(d, j)
    BY DEF AnsweredNow
  <1>2. \A r : r \in AnsweredNow' <=>
          \E d \in Conn : \E j \in Requests(d) : r = <<d, j>> /\ Told2(d, j)
    BY DEF AnsweredNow
  <1>3. \A d \in Conn : \A j \in Requests(d) :
          Told2(d, j) <=> Told1(d, j) \/ <<d, j>> = <<c, i>>
    OBVIOUS
  <1> HIDE DEF Told1, Told2
  <1>4. \A r : r \in AnsweredNow' <=> r \in AnsweredNow \/ r = <<c, i>>
    BY <1>1, <1>2, <1>3
  <1> QED
    BY <1>4

(* One entry of the replies is written.                                    *)
Writes(c, i, what) == reply' = [reply EXCEPT ![c][i] = what]

LEMMA ReplyWritten ==
  ASSUME Lines, NEW c \in Conn, NEW i \in Requests(c), NEW what,
         Writes(c, i, what)
  PROVE  /\ reply' = [d \in Conn |-> [j \in Requests(d) |-> reply'[d][j]]]
         /\ reply'[c][i] = what
         /\ \A d \in Conn : \A j \in Requests(d) :
              d # c \/ j # i => reply'[d][j] = reply[d][j]
PROOF
  <1> DEFINE line == [reply[c] EXCEPT ![i] = what]
  <1>1. reply = [d \in Conn |-> [j \in Requests(d) |-> reply[d][j]]]
    BY DEF Lines
  <1>2. line = [j \in Requests(c) |-> IF j = i THEN what ELSE reply[c][j]]
    BY <1>1
  <1>3. reply' = [d \in Conn |->
          IF d = c THEN line ELSE [j \in Requests(d) |-> reply[d][j]]]
    BY <1>1 DEF Writes
  <1> HIDE DEF line
  <1>4. reply'[c] = line
    BY <1>3
  <1>5. reply'[c][i] = what
    BY <1>2, <1>4
  <1>6. \A d \in Conn :
          d # c => reply'[d] = [j \in Requests(d) |-> reply[d][j]]
    BY <1>3
  <1>7. \A j \in Requests(c) : j # i => reply'[c][j] = reply[c][j]
    BY <1>2, <1>4
  <1>8. \A d \in Conn : reply'[d] = [j \in Requests(d) |-> reply'[d][j]]
    BY <1>2, <1>4, <1>6
  <1>9. reply' = [d \in Conn |-> reply'[d]]
    BY <1>3
  <1> QED
    BY <1>5, <1>6, <1>7, <1>8, <1>9

LEMMA ReplyTold ==
  ASSUME Lines, NEW c \in Conn, NEW i \in Requests(c), NEW what,
         reply' = Told(c, i, what)
  PROVE  /\ reply' = [d \in Conn |-> [j \in Requests(d) |-> reply'[d][j]]]
         /\ reply'[c][i] = IF c \in connections THEN what ELSE reply[c][i]
         /\ \A d \in Conn : \A j \in Requests(d) :
              d # c \/ j # i => reply'[d][j] = reply[d][j]
PROOF
  <1>1. CASE c \in connections
    <2>1. Writes(c, i, what)
      BY <1>1 DEF Told, Writes
    <2> QED
      BY <1>1, <2>1, ReplyWritten
  <1>2. CASE c \notin connections
    <2>1. reply' = reply
      BY <1>2 DEF Told
    <2> QED
      BY <1>2, <2>1 DEF Lines
  <1> QED
    BY <1>1, <1>2

(* The line a reader parses is one nothing has become of yet.              *)
LEMMA ParsesFresh ==
  ASSUME Lines, Fresh, NEW c \in Conn, NEW i \in Requests(c), Parses(c, i)
  PROVE  /\ Untouched(c, i)
         /\ asked' \in [Conn -> Nat] /\ unread' \in [Conn -> Nat]
         /\ \A d \in Conn : \A j \in Requests(d) :
              j > Parsed(d)' => Untouched(d, j) /\ (d # c \/ j # i)
PROOF
  <1>1. /\ asked \in [Conn -> Nat] /\ unread \in [Conn -> Nat]
        /\ unread[c] > 0 /\ i = asked[c] - unread[c] + 1
        /\ asked' = asked /\ unread' = [unread EXCEPT ![c] = @ - 1]
    BY DEF Lines, Parses
  <1>2. \A d \in Conn : \A j \in Requests(d) : j \in Nat
    BY AdapterAssumption DEF Requests, AdapterAssumption
  <1>3. i > Parsed(c)
    BY <1>1 DEF Parsed
  <1>4. asked' \in [Conn -> Nat] /\ unread' \in [Conn -> Nat]
    BY <1>1
  <1>5. Parsed(c)' = i /\ \A d \in Conn : d # c => Parsed(d)' = Parsed(d)
    BY <1>1 DEF Parsed
  <1>6. \A j \in Nat : j > i => j > Parsed(c) /\ j # i
    BY <1>1 DEF Parsed
  <1> QED
    BY <1>2, <1>3, <1>4, <1>5, <1>6 DEF Fresh

(* So it is new to the game, if its client is there.                       *)
LEMMA UntouchedIsNew ==
  ASSUME AdapterInv, NEW c \in Conn, NEW i \in Requests(c),
         Untouched(c, i), c \in connections
  PROVE  <<c, i>> \in Promise!Request /\ Promise!New(<<c, i>>)
PROOF
  <1>1. <<c, i>> \in Promise!Request
    BY DEF Promise!Request
  <1>2. <<c, i>> \notin WaitingNow
    BY DEF WaitingNow, Untouched, Is
  <1>3. <<c, i>> \notin AnsweredNow
    BY DEF AnsweredNow, Untouched
  <1>4. <<c, i>> # ServedNow
    BY SchedulerAssumption
    DEF ServedNow, Untouched, Is, AdapterInv, WorkerRuns, Busy,
        SchedulerAssumption
  <1> QED
    BY <1>1, <1>2, <1>3, <1>4 DEF Promise!New

-----------------------------------------------------------------------------
(* The game cannot tell a step that leaves all it sees alone.              *)
Kept == PromiseInv' /\ [Promise!GameNext]_(Promise!gameVars)

LEMMA NoneCanTell ==
  ASSUME UNCHANGED <<connections, WaitingNow, ServedNow, lease, AnsweredNow,
                     StoppedNow>>
  PROVE  [Promise!GameNext]_(Promise!gameVars)
PROOF
  BY DEF Promise!gameVars

(* A step aside: nothing asked, answered, given or taken.                  *)
LEMMA AsideKept ==
  ASSUME PromiseInv, AdapterInv',
         UNCHANGED <<connections, queue, running, lease, reply, stopping>>,
         asked' \in [Conn -> Nat], unread' \in [Conn -> Nat],
         \A c \in Conn : Parsed(c)' = Parsed(c),
         idleFor' # NotIdle => idleFor # NotIdle,
         ServedNow' = ServedNow, StoppedNow' = StoppedNow,
         worker' # "over" => worker # "over"
  PROVE  Kept
PROOF
  <1>1. Lines'
    BY DEF PromiseInv, Lines
  <1>2. Fresh'
    BY DEF PromiseInv, Fresh, Untouched
  <1>3. Waiters' /\ Runner' /\ Quitter' /\ Alone'
    BY DEF PromiseInv, Waiters, Runner, Quitter, Alone
  <1>4. WaitingNow' = WaitingNow /\ AnsweredNow' = AnsweredNow
    BY DEF WaitingNow, AnsweredNow
  <1> QED
    BY <1>1, <1>2, <1>3, <1>4, NoneCanTell DEF Kept, PromiseInv

(* The greeter, the clients, the worker between two turns and the clock.   *)
LEMMA ClientsKept ==
  ASSUME PromiseInv, AdapterInv', NEW c \in Conn,
         TellLeaving(c) \/ Send(c) \/ HangUp(c)
  PROVE  Kept
PROOF
  <1>1. /\ UNCHANGED <<schedVars, reply, stopping, worker>>
        /\ asked \in [Conn -> Nat] /\ unread \in [Conn -> Nat]
    BY DEF TellLeaving, Send, HangUp, workVars, PromiseInv, Lines
  <1>2. /\ asked' \in [Conn -> Nat] /\ unread' \in [Conn -> Nat]
        /\ \A d \in Conn : Parsed(d)' = Parsed(d)
    <2>1. CASE UNCHANGED <<asked, unread>>
      BY <1>1, <2>1 DEF Parsed
    <2>2. CASE Send(c)
      BY <1>1, <2>2 DEF Send, Parsed
    <2> QED
      BY <2>1, <2>2 DEF TellLeaving, HangUp
  <1>3. UNCHANGED <<connections, queue, running, lease, idleFor>>
    BY <1>1 DEF schedVars
  <1> QED
    BY <1>1, <1>2, <1>3, AsideKept DEF ServedNow, StoppedNow

LEMMA WorkerAsideKept ==
  ASSUME PromiseInv, AdapterInv',
         \/ TakeMenu \/ TakeStatus \/ EndMenu \/ EndStatus \/ EndRevoke
         \/ EnterWatch \/ BeginQuit \/ Boot \/ Tick
  PROVE  Kept
PROOF
  <1>1. UNCHANGED <<reply, stopping, asked, unread>>
    BY DEF TakeMenu, TakeStatus, EndMenu, EndStatus, EndRevoke, EnterWatch,
           BeginQuit, Boot, Tick, lineVars
  <1>2. /\ UNCHANGED <<connections, queue, running, lease>>
        /\ idleFor' # NotIdle => idleFor # NotIdle
    BY DEF TakeMenu, TakeStatus, EndMenu, EndStatus, EndRevoke, EnterWatch,
           BeginQuit, Boot, Tick, schedVars, BecomeReady, TickSched
  <1>3. /\ worker' \in {"serve", "watching"}
             <=> worker \in {"serve", "watching"}
        /\ worker' \in {"stop", "quit", "over"}
             <=> worker \in {"stop", "quit", "over"}
        /\ worker' # "over" => worker # "over"
    BY DEF TakeMenu, TakeStatus, EndMenu, EndStatus, EndRevoke, EnterWatch,
           BeginQuit, Boot, Tick, Free, workVars
  <1>4. ServedNow' = ServedNow /\ StoppedNow' = StoppedNow
    BY <1>2, <1>3 DEF ServedNow, StoppedNow
  <1>5. /\ asked' \in [Conn -> Nat] /\ unread' \in [Conn -> Nat]
        /\ \A d \in Conn : Parsed(d)' = Parsed(d)
    BY <1>1 DEF PromiseInv, Lines, Parsed
  <1> QED
    BY <1>1, <1>2, <1>3, <1>4, <1>5, AsideKept

LEMMA GreetKept ==
  ASSUME PromiseInv, AdapterInv', NEW c \in Conn, Greet(c)
  PROVE  Kept
PROOF
  <1>1. /\ UNCHANGED <<reply, stopping, asked, unread, worker>>
        /\ connections' = connections \cup {c} /\ idleFor' = NotIdle
        /\ UNCHANGED <<queue, running, lease>>
        /\ socket[c] = "new"
    BY DEF Greet, Connect, workVars
  <1>2. Lines'
    BY <1>1 DEF PromiseInv, Lines
  <1>3. Fresh'
    BY <1>1 DEF PromiseInv, Fresh, Untouched, Parsed
  <1>4. Waiters' /\ Runner' /\ Quitter' /\ Alone'
    BY <1>1 DEF PromiseInv, Waiters, Runner, Quitter, Alone
  <1>5. \A w \in queue : w.conn # c
    BY <1>1 DEF PromiseInv, AdapterInv, Strangers
  <1>6. WaitingNow' = WaitingNow
    BY <1>1, <1>5 DEF WaitingNow
  <1>7. UNCHANGED <<ServedNow, lease, AnsweredNow, StoppedNow>>
    BY <1>1 DEF ServedNow, AnsweredNow, StoppedNow
  <1>8. Promise!Join(c)
    BY <1>1, <1>6, <1>7 DEF Promise!Join
  <1> QED
    BY <1>2, <1>3, <1>4, <1>8 DEF Kept, PromiseInv, Promise!GameNext

-----------------------------------------------------------------------------
(* The readers.                                                            *)

(* A line is parsed and nothing comes of it but what it is told.           *)
LEMMA LineKept ==
  ASSUME PromiseInv, AdapterInv', NEW c \in Conn, NEW i \in Requests(c),
         NEW what, Parses(c, i), reply' = Told(c, i, what),
         UNCHANGED <<connections, queue, running, lease, idleFor>>,
         stopping' \in {stopping, [conn |-> c, id |-> i]},
         stopping' # stopping => what \notin Responses
  PROVE  Kept
PROOF
  <1>1. /\ Untouched(c, i)
        /\ asked' \in [Conn -> Nat] /\ unread' \in [Conn -> Nat]
        /\ \A d \in Conn : \A j \in Requests(d) :
             j > Parsed(d)' => Untouched(d, j) /\ (d # c \/ j # i)
    BY ParsesFresh DEF PromiseInv
  <1>2. /\ reply' = [d \in Conn |-> [j \in Requests(d) |-> reply'[d][j]]]
        /\ reply'[c][i] = IF c \in connections THEN what ELSE reply[c][i]
        /\ \A d \in Conn : \A j \in Requests(d) :
             d # c \/ j # i => reply'[d][j] = reply[d][j]
    BY ReplyTold DEF PromiseInv
  <1>3. worker' = worker /\ worker # "over"
    BY DEF Parses, workVars
  <1>4. Lines'
    BY <1>1, <1>2 DEF Lines
  <1>5. Fresh'
    <2> SUFFICES ASSUME NEW d \in Conn, NEW j \in Requests(d), j > Parsed(d)'
                 PROVE  Untouched(d, j)'
      BY DEF Fresh
    <2>1. Untouched(d, j) /\ (d # c \/ j # i)
      BY <1>1
    <2>2. [conn |-> d, id |-> j] # [conn |-> c, id |-> i]
      BY <2>1
    <2> QED
      BY <1>2, <2>1, <2>2 DEF Untouched
  <1>6. /\ Waiters'
        /\ Runner'
    <2>1. \A w \in queue : w.conn \in Conn
      BY DEF PromiseInv, AdapterInv, LeaseInv, SchedTypeOK, Waiting
    <2>2. running # NoRun => running.conn \in Conn
      BY DEF PromiseInv, AdapterInv, LeaseInv, SchedTypeOK, Running
    <2>3. Waiters'
      <3> SUFFICES ASSUME NEW w \in queue
                   PROVE  /\ w.id \in Requests(w.conn)
                          /\ reply'[w.conn][w.id] \notin Responses
                          /\ stopping' # [conn |-> w.conn, id |-> w.id]
                          /\ \A v \in queue : Is(v, w.conn, w.id) => v = w
        BY DEF Waiters, Is
      <3>1. /\ w.id \in Requests(w.conn)
            /\ reply[w.conn][w.id] \notin Responses
            /\ stopping # [conn |-> w.conn, id |-> w.id]
            /\ \A v \in queue : Is(v, w.conn, w.id) => v = w
        BY DEF PromiseInv, Waiters
      <3>2. w.conn # c \/ w.id # i
        BY <1>1 DEF Untouched, Is
      <3>3. [conn |-> w.conn, id |-> w.id] # [conn |-> c, id |-> i]
        BY <3>2
      <3> QED
        BY <1>2, <2>1, <3>1, <3>2, <3>3
    <2>4. Runner'
      <3> SUFFICES ASSUME running # NoRun
                   PROVE  stopping' # [conn |-> running.conn,
                                       id |-> running.id]
        BY DEF PromiseInv, Runner, Is
      <3>1. running.conn # c \/ running.id # i
        BY <1>1 DEF Untouched, Is
      <3>2. [conn |-> running.conn, id |-> running.id] # [conn |-> c, id |-> i]
        BY <3>1
      <3> QED
        BY <3>2 DEF PromiseInv, Runner
    <2> QED
      BY <2>3, <2>4
  <1>7. Quitter'
    <2>1. CASE stopping' = stopping
      <3> SUFFICES ASSUME stopping # NoStop PROVE Quitter'
        BY <2>1 DEF Quitter
      <3>0. PICK d \in Conn : \E j \in Requests(d) :
              stopping = [conn |-> d, id |-> j] /\ reply[d][j] \notin Responses
        BY <1>3 DEF PromiseInv, Quitter
      <3>1. PICK j \in Requests(d) :
              stopping = [conn |-> d, id |-> j] /\ reply[d][j] \notin Responses
        BY <3>0
      <3>2. d # c \/ j # i
        BY <1>1, <3>1 DEF Untouched
      <3> QED
        BY <1>2, <2>1, <3>1, <3>2 DEF Quitter
    <2>2. CASE stopping' # stopping
      <3>1. stopping' = [conn |-> c, id |-> i]
        BY <2>2
      <3>2. reply'[c][i] \notin Responses
        BY <1>1, <1>2, <2>2 DEF Untouched
      <3> QED
        BY <3>1, <3>2 DEF Quitter
    <2> QED
      BY <2>1, <2>2
  <1>8. PromiseInv'
    BY <1>4, <1>5, <1>6, <1>7 DEF PromiseInv, Alone
  <1>9. WaitingNow' = WaitingNow /\ UNCHANGED <<ServedNow, StoppedNow>>
    BY <1>3 DEF WaitingNow, ServedNow, StoppedNow
  <1>10. [Promise!GameNext]_(Promise!gameVars)
    <2>1. CASE c \in connections /\ what \in Responses
      <3>1. AnsweredNow' = AnsweredNow \cup {<<c, i>>}
        BY <1>2, <2>1, OneMoreAnswer
      <3>2. <<c, i>> \in Promise!Request /\ Promise!New(<<c, i>>)
        BY <1>1, <2>1, UntouchedIsNew DEF PromiseInv
      <3>3. Promise!AnswerAtOnce(<<c, i>>)
        BY <1>9, <3>1, <3>2 DEF Promise!AnswerAtOnce
      <3> QED
        BY <3>2, <3>3 DEF Promise!GameNext
    <2>2. CASE c \notin connections \/ what \notin Responses
      <3>1. reply'[c][i] \in Responses <=> reply[c][i] \in Responses
        BY <1>1, <1>2, <2>2 DEF Untouched
      <3>2. AnsweredNow' = AnsweredNow
        BY <1>2, <3>1, SameAnswers
      <3> QED
        BY <1>9, <3>2, NoneCanTell
    <2> QED
      BY <2>1, <2>2
  <1> QED
    BY <1>8, <1>10 DEF Kept

LEMMA AdmitPlainKept ==
  ASSUME PromiseInv, AdapterInv', NEW c \in Conn,
         \/ AdmitInvalid(c)
         \/ \E op \in Ops : AdmitAtOnce(c, op) \/ AdmitRefused(c, op)
  PROVE  Kept
PROOF
  <1>1. PICK i \in Requests(c) :
          /\ Parses(c, i)
          /\ \E what \in Responses : reply' = Told(c, i, what)
          /\ UNCHANGED <<schedVars, stopping>>
    BY DEF AdmitAtOnce, AdmitRefused, AdmitInvalid, Responses
  <1>2. PICK what \in Responses : reply' = Told(c, i, what)
    BY <1>1
  <1>3. UNCHANGED <<connections, queue, running, lease, idleFor>>
    BY <1>1 DEF schedVars
  <1> QED
    BY <1>1, <1>2, <1>3, LineKept

LEMMA AdmitQuitKept ==
  ASSUME PromiseInv, AdapterInv', NEW c \in Conn, NEW op \in Ops,
         AdmitQuit(c, op)
  PROVE  Kept
PROOF
  <1>1. PICK i \in Requests(c) :
          /\ Parses(c, i)
          /\ reply' = Told(c, i, "waiting")
          /\ stopping' \in {stopping, [conn |-> c, id |-> i]}
          /\ UNCHANGED schedVars
    BY DEF AdmitQuit
  <1>2. UNCHANGED <<connections, queue, running, lease, idleFor>>
    BY <1>1 DEF schedVars
  <1>3. "waiting" \notin Responses
    BY DEF Responses
  <1> QED
    BY <1>1, <1>2, <1>3, LineKept

(* A line goes in line: it waits for the game if its client is there, and  *)
(* what an evicted client still had in flight waits for nobody.            *)
LEMMA AdmitInLineKept ==
  ASSUME PromiseInv, AdapterInv', NEW c \in Conn, NEW op \in Ops,
         AdmitInLine(c, op)
  PROVE  Kept
PROOF
  <1>1. PICK i \in Requests(c) :
          /\ Parses(c, i)
          /\ Enqueue(c, op, i)
          /\ reply' = Told(c, i, "queued")
          /\ UNCHANGED stopping
    BY DEF AdmitInLine
  <1> DEFINE new ==
        [sequence |-> sequence + 1, conn |-> c, op |-> op, id |-> i]
  <1>2. /\ queue' = queue \cup {new} /\ new.conn = c /\ new.id = i
        /\ UNCHANGED <<connections, running, lease>> /\ idleFor' = NotIdle
    BY <1>1 DEF Enqueue
  <1> HIDE DEF new
  <1>3. /\ Untouched(c, i)
        /\ asked' \in [Conn -> Nat] /\ unread' \in [Conn -> Nat]
        /\ \A d \in Conn : \A j \in Requests(d) :
             j > Parsed(d)' => Untouched(d, j) /\ (d # c \/ j # i)
    BY <1>1, ParsesFresh DEF PromiseInv
  <1>4. /\ reply' = [d \in Conn |-> [j \in Requests(d) |-> reply'[d][j]]]
        /\ reply'[c][i] \notin Responses
        /\ \A d \in Conn : \A j \in Requests(d) :
             d # c \/ j # i => reply'[d][j] = reply[d][j]
    <2>1. "queued" \notin Responses
      BY DEF Responses
    <2>2. /\ reply' = [d \in Conn |-> [j \in Requests(d) |-> reply'[d][j]]]
          /\ reply'[c][i] = IF c \in connections THEN "queued" ELSE reply[c][i]
          /\ \A d \in Conn : \A j \in Requests(d) :
               d # c \/ j # i => reply'[d][j] = reply[d][j]
      BY <1>1, ReplyTold DEF PromiseInv
    <2> QED
      BY <1>3, <2>1, <2>2 DEF Untouched
  <1>5. worker' = worker /\ worker # "over"
    BY <1>1 DEF Parses, workVars
  <1>6. \A d \in Conn : \A j \in Requests(d) :
          reply'[d][j] \in Responses <=> reply[d][j] \in Responses
    BY <1>3, <1>4 DEF Untouched
  <1>7. Lines'
    BY <1>3, <1>4 DEF Lines
  <1>8. Fresh'
    <2> SUFFICES ASSUME NEW d \in Conn, NEW j \in Requests(d), j > Parsed(d)'
                 PROVE  Untouched(d, j)'
      BY DEF Fresh
    <2>1. Untouched(d, j) /\ (d # c \/ j # i)
      BY <1>3
    <2>2. ~ Is(new, d, j)
      BY <1>2, <2>1 DEF Is
    <2>3. \A w \in queue' : ~ Is(w, d, j)
      BY <1>2, <2>1, <2>2 DEF Untouched
    <2> QED
      BY <1>1, <1>2, <1>6, <2>1, <2>3 DEF Untouched, Is
  <1>9. Waiters'
    <2>1. \A w \in queue : w.conn \in Conn
      BY DEF PromiseInv, AdapterInv, LeaseInv, SchedTypeOK, Waiting
    <2>2. \A w \in queue :
            /\ w.id \in Requests(w.conn)
            /\ reply'[w.conn][w.id] \notin Responses
            /\ stopping # [conn |-> w.conn, id |-> w.id]
            /\ \A v \in queue : Is(v, w.conn, w.id) => v = w
      BY <1>6, <2>1 DEF PromiseInv, Waiters
    <2>3. /\ new.id \in Requests(new.conn)
          /\ reply'[new.conn][new.id] \notin Responses
          /\ stopping # [conn |-> new.conn, id |-> new.id]
          /\ \A v \in queue : ~ Is(v, new.conn, new.id)
          /\ \A w \in queue : ~ Is(new, w.conn, w.id)
      BY <1>2, <1>3, <1>4 DEF Untouched, Is
    <2>4. \A w \in queue' :
            /\ w.id \in Requests(w.conn)
            /\ reply'[w.conn][w.id] \notin Responses
            /\ stopping # [conn |-> w.conn, id |-> w.id]
            /\ \A v \in queue' : Is(v, w.conn, w.id) => v = w
      BY <1>2, <2>2, <2>3
    <2> QED
      BY <1>1, <2>4 DEF Waiters, Is
  <1>10. Runner'
    <2> SUFFICES ASSUME running # NoRun
                 PROVE  /\ running.id \in Requests(running.conn)
                        /\ \A w \in queue' :
                             ~ Is(w, running.conn, running.id)
                        /\ stopping # [conn |-> running.conn,
                                       id |-> running.id]
      BY <1>1, <1>2 DEF Runner, Is
    <2>1. ~ Is(new, running.conn, running.id)
      BY <1>2, <1>3 DEF Untouched, Is
    <2> QED
      BY <1>2, <2>1 DEF PromiseInv, Runner
  <1>11. Quitter' /\ Alone'
    BY <1>1, <1>2, <1>5, <1>6 DEF PromiseInv, Quitter, Alone
  <1>12. AnsweredNow' = AnsweredNow /\ UNCHANGED <<ServedNow, StoppedNow>>
    BY <1>2, <1>5, <1>6, SameAnswers DEF ServedNow, StoppedNow
  <1>13. [Promise!GameNext]_(Promise!gameVars)
    <2>1. CASE c \in connections
      <3>1. WaitingNow' = WaitingNow \cup {<<c, i>>}
        BY <1>2, <2>1 DEF WaitingNow
      <3>2. <<c, i>> \in Promise!Request /\ Promise!New(<<c, i>>)
        BY <1>3, <2>1, UntouchedIsNew DEF PromiseInv
      <3>3. Promise!Wait(<<c, i>>)
        BY <1>2, <1>12, <3>1, <3>2 DEF Promise!Wait
      <3> QED
        BY <3>2, <3>3 DEF Promise!GameNext
    <2>2. CASE c \notin connections
      <3>1. WaitingNow' = WaitingNow
        BY <1>2, <2>2 DEF WaitingNow
      <3> QED
        BY <1>2, <1>12, <3>1, NoneCanTell
    <2> QED
      BY <2>1, <2>2
  <1> QED
    BY <1>7, <1>8, <1>9, <1>10, <1>11, <1>13 DEF Kept, PromiseInv

-----------------------------------------------------------------------------
(* Connections that go, by themselves or because a lease is taken back.    *)

LEMMA FewerKept ==
  ASSUME PromiseInv, AdapterInv', queue' \subseteq queue,
         UNCHANGED <<running, reply, stopping, asked, unread>>,
         idleFor' # NotIdle => connections' = {},
         worker' # "over" => worker # "over"
  PROVE  PromiseInv'
PROOF
  <1>1. Lines'
    BY DEF PromiseInv, Lines
  <1>2. Fresh'
    BY DEF PromiseInv, Fresh, Untouched, Parsed, Is
  <1>3. Waiters' /\ Runner' /\ Quitter' /\ Alone'
    BY DEF PromiseInv, Waiters, Runner, Quitter, Alone, Is
  <1> QED
    BY <1>1, <1>2, <1>3 DEF PromiseInv

LEMMA CloseKept ==
  ASSUME PromiseInv, AdapterInv', NEW c \in Conn, Close(c),
         UNCHANGED <<reply, stopping, asked, unread, ServedNow, StoppedNow>>,
         worker' # "over" => worker # "over"
  PROVE  Kept
PROOF
  <1>1. /\ c \in connections /\ connections' = connections \ {c}
        /\ queue' = {w \in queue : w.conn # c}
        /\ lease' = IF lease = c THEN NoConn ELSE lease
        /\ running' = running
    BY DEF Close, OwnedBy, LeaseLeft
  <1>2. idleFor' # NotIdle => connections' = {}
    BY <1>1 DEF Close, SettleIdle, PromiseInv, Alone
  <1>3. PromiseInv'
    BY <1>1, <1>2, FewerKept
  <1>4. WaitingNow' = WaitingNow \ {r \in WaitingNow : r[1] = c}
    BY <1>1 DEF WaitingNow
  <1>5. AnsweredNow' = AnsweredNow
    BY SameAnswers
  <1>6. Promise!Leave(c)
    BY <1>1, <1>4, <1>5 DEF Promise!Leave, Promise!Of
  <1> QED
    BY <1>3, <1>6 DEF Kept, Promise!GameNext

LEMMA StreamEndsKept ==
  ASSUME PromiseInv, AdapterInv', NEW c \in Conn, StreamEnds(c)
  PROVE  Kept
PROOF
  <1>1. UNCHANGED <<reply, stopping, asked, unread, worker>>
    BY DEF StreamEnds, workVars
  <1>2. CASE c \in connections
    <2>1. Close(c) /\ running' = running
      BY <1>2 DEF StreamEnds, Close
    <2> QED
      BY <1>1, <2>1, CloseKept DEF ServedNow, StoppedNow
  <1>3. CASE c \notin connections
    <2>1. UNCHANGED <<connections, queue, running, lease, idleFor>>
      BY <1>3 DEF StreamEnds, schedVars
    <2>2. UNCHANGED <<ServedNow, StoppedNow>>
      BY <1>1, <2>1 DEF ServedNow, StoppedNow
    <2>3. /\ asked' \in [Conn -> Nat] /\ unread' \in [Conn -> Nat]
          /\ \A d \in Conn : Parsed(d)' = Parsed(d)
      BY <1>1 DEF PromiseInv, Lines, Parsed
    <2> QED
      BY <1>1, <2>1, <2>2, <2>3, AsideKept
  <1> QED
    BY <1>2, <1>3

LEMMA TakeLeaseBackKept ==
  ASSUME PromiseInv, AdapterInv', TakeLeaseBack
  PROVE  Kept
PROOF
  <1>1. /\ Close(lease) /\ lease \in Conn
        /\ UNCHANGED <<reply, stopping, asked, unread>>
        /\ worker = "free" /\ worker' = "revoke"
    BY DEF TakeLeaseBack, AsksScheduler, Free, lineVars, RevokeDue,
           PromiseInv, AdapterInv, LeaseInv, SchedTypeOK
  <1>2. UNCHANGED <<ServedNow, StoppedNow>>
    BY <1>1 DEF ServedNow, StoppedNow
  <1> QED
    BY <1>1, <1>2, CloseKept

-----------------------------------------------------------------------------
(* The worker gives out a turn, drops a request, or stops.                 *)

LEMMA TakeTurnKept ==
  ASSUME PromiseInv, AdapterInv', NEW w \in queue, TakeTurn(w)
  PROVE  Kept
PROOF
  <1>1. /\ Start(w) /\ worker = "free" /\ worker' = "serve"
        /\ reply' = Told(w.conn, w.id, "started")
        /\ UNCHANGED <<stopping, asked, unread>>
    BY DEF TakeTurn, AsksScheduler, Free, lineVars
  <1>2. /\ queue' = queue \ {w} /\ connections' = connections
        /\ running'.conn = w.conn /\ running'.id = w.id
        /\ lease' \in {lease, w.conn} \cup
             (IF lease \in connections THEN {} ELSE {NoConn})
        /\ idleFor' = idleFor /\ w.conn \in connections /\ Chosen(w)
    BY <1>1 DEF Start, TakenOut
  <1>3. /\ w.conn \in Conn
        /\ w.id \in Requests(w.conn)
        /\ reply[w.conn][w.id] \notin Responses
        /\ stopping # [conn |-> w.conn, id |-> w.id]
        /\ \A v \in queue : Is(v, w.conn, w.id) => v = w
    BY DEF PromiseInv, Waiters, AdapterInv, LeaseInv, SchedTypeOK, Waiting
  <1>4. /\ lease = NoConn \/ lease = w.conn
        /\ lease' \in {lease, w.conn}
    BY <1>2, ChosenUnderLease DEF PromiseInv, AdapterInv
  <1>5. /\ reply' = [d \in Conn |-> [j \in Requests(d) |-> reply'[d][j]]]
        /\ \A d \in Conn : \A j \in Requests(d) :
             reply'[d][j] \in Responses <=> reply[d][j] \in Responses
    <2>1. "started" \notin Responses
      BY DEF Responses
    <2>2. /\ reply' = [d \in Conn |-> [j \in Requests(d) |-> reply'[d][j]]]
          /\ reply'[w.conn][w.id] =
               IF w.conn \in connections THEN "started"
               ELSE reply[w.conn][w.id]
          /\ \A d \in Conn : \A j \in Requests(d) :
               d # w.conn \/ j # w.id => reply'[d][j] = reply[d][j]
      BY <1>1, <1>3, ReplyTold DEF PromiseInv
    <2> QED
      BY <1>3, <2>1, <2>2
  <1>6. Lines'
    BY <1>1, <1>5 DEF PromiseInv, Lines
  <1>7. Fresh'
    <2> SUFFICES ASSUME NEW d \in Conn, NEW j \in Requests(d), j > Parsed(d)
                 PROVE  Untouched(d, j)'
      BY <1>1 DEF Fresh, Parsed
    <2>1. Untouched(d, j)
      BY DEF PromiseInv, Fresh
    <2>2. ~ Is(running', d, j)
      BY <1>2, <2>1 DEF Untouched, Is
    <2> QED
      BY <1>1, <1>2, <1>5, <2>1, <2>2 DEF Untouched, Is
  <1>8. Waiters'
    <2>1. \A v \in queue : v.conn \in Conn
      BY DEF PromiseInv, AdapterInv, LeaseInv, SchedTypeOK, Waiting
    <2> QED
      BY <1>1, <1>2, <1>5, <2>1 DEF PromiseInv, Waiters, Is
  <1>9. Runner'
    BY <1>1, <1>2, <1>3 DEF Runner, Is
  <1>10. Quitter' /\ Alone'
    BY <1>1, <1>2, <1>5 DEF PromiseInv, Quitter, Alone
  <1>11. WaitingNow' = WaitingNow \ {<<w.conn, w.id>>}
    <2>1. \A v \in queue : <<v.conn, v.id>> = <<w.conn, w.id>> <=> v = w
      BY <1>3 DEF Is
    <2> QED
      BY <1>2, <2>1 DEF WaitingNow
  <1>12. /\ <<w.conn, w.id>> \in WaitingNow
         /\ <<w.conn, w.id>> \in Promise!Request
    BY <1>2, <1>3 DEF WaitingNow, Promise!Request
  <1>13. /\ AnsweredNow' = AnsweredNow
         /\ ServedNow = <<NoConn, 0>> /\ ServedNow' = <<w.conn, w.id>>
         /\ ~ StoppedNow /\ UNCHANGED StoppedNow
    BY <1>1, <1>2, <1>5, SameAnswers DEF ServedNow, StoppedNow
  <1>14. <<w.conn, w.id>>[1] = w.conn
    OBVIOUS
  <1>15. Promise!Begin(<<w.conn, w.id>>)
    BY <1>2, <1>4, <1>11, <1>12, <1>13, <1>14
    DEF Promise!Begin, Promise!NoRequest
  <1> QED
    BY <1>6, <1>7, <1>8, <1>9, <1>10, <1>12, <1>15
    DEF Kept, PromiseInv, Promise!GameNext

LEMMA TakeNothingKept ==
  ASSUME PromiseInv, AdapterInv', NEW w \in queue, TakeNothing(w)
  PROVE  Kept
PROOF
  <1>1. /\ Drop(w)
        /\ UNCHANGED <<reply, stopping, asked, unread, worker>>
    BY DEF TakeNothing, adapterVars
  <1>2. /\ queue' = queue \ {w} /\ w.conn \notin connections /\ Chosen(w)
        /\ UNCHANGED <<connections, running, idleFor>> /\ lease' = NoConn
    BY <1>1 DEF Drop, TakenOut
  <1>3. lease = NoConn
    BY <1>2, ChosenUnderLease DEF PromiseInv, AdapterInv
  <1>4. PromiseInv'
    BY <1>1, <1>2, FewerKept DEF PromiseInv, Alone
  <1>5. WaitingNow' = WaitingNow /\ AnsweredNow' = AnsweredNow
    BY <1>1, <1>2, SameAnswers DEF WaitingNow
  <1>6. UNCHANGED <<ServedNow, StoppedNow>>
    BY <1>1, <1>2 DEF ServedNow, StoppedNow
  <1> QED
    BY <1>2, <1>3, <1>4, <1>5, <1>6, NoneCanTell DEF Kept

(* A drain answers exactly those that wait.                                *)
LEMMA TakeStopKept ==
  ASSUME PromiseInv, AdapterInv', TakeStop
  PROVE  Kept
PROOF
  <1>1. /\ Drain /\ worker = "free" /\ worker' = "stop"
        /\ reply' = [c \in Conn |-> [i \in Requests(c) |->
             IF c \in connections /\ \E w \in queue : w.conn = c /\ w.id = i
             THEN "game_stopped" ELSE reply[c][i]]]
        /\ UNCHANGED <<stopping, asked, unread>>
    BY DEF TakeStop, Free, lineVars
  <1>2. /\ queue' = {}
        /\ UNCHANGED <<connections, running, lease, idleFor>>
    BY <1>1 DEF Drain
  <1>3. running = NoRun
    BY <1>1 DEF PromiseInv, AdapterInv, WorkerRuns, Busy
  <1>4. /\ reply' = [c \in Conn |-> [i \in Requests(c) |-> reply'[c][i]]]
        /\ \A c \in Conn : \A i \in Requests(c) :
             (reply'[c][i] \in Responses
               <=> reply[c][i] \in Responses
                     \/ (c \in connections /\ \E w \in queue : Is(w, c, i)))
    BY <1>1 DEF Responses, Is
  <1>5. Lines'
    BY <1>1, <1>4 DEF PromiseInv, Lines
  <1>6. Fresh'
    BY <1>1, <1>2, <1>3, <1>4 DEF PromiseInv, Fresh, Untouched, Parsed
  <1>7. Waiters' /\ Runner' /\ Alone'
    BY <1>2, <1>3 DEF PromiseInv, Waiters, Runner, Alone
  <1>8. Quitter'
    <2>1. SUFFICES ASSUME stopping # NoStop PROVE Quitter'
      BY <1>1 DEF Quitter
    <2>2. PICK c \in Conn : \E i \in Requests(c) :
            stopping = [conn |-> c, id |-> i] /\ reply[c][i] \notin Responses
      BY <1>1, <2>1 DEF PromiseInv, Quitter
    <2>3. PICK i \in Requests(c) :
            stopping = [conn |-> c, id |-> i] /\ reply[c][i] \notin Responses
      BY <2>2
    <2>4. \A w \in queue : ~ Is(w, c, i)
      BY <2>3 DEF PromiseInv, Waiters, Is
    <2> QED
      BY <1>1, <1>4, <2>3, <2>4 DEF Quitter
  <1>9. AnsweredNow' = AnsweredNow \cup WaitingNow
    <2>1. \A w \in queue : w.conn \in Conn /\ w.id \in Requests(w.conn)
      BY DEF PromiseInv, Waiters, AdapterInv, LeaseInv, SchedTypeOK, Waiting
    <2>2. \A r : r \in WaitingNow <=>
            \E c \in Conn : \E i \in Requests(c) :
              /\ r = <<c, i>>
              /\ c \in connections /\ \E w \in queue : Is(w, c, i)
      BY <2>1 DEF WaitingNow, Is
    <2>3. \A r : r \in AnsweredNow <=>
            \E c \in Conn : \E i \in Requests(c) :
              r = <<c, i>> /\ reply[c][i] \in Responses
      BY DEF AnsweredNow
    <2>4. \A r : r \in AnsweredNow' <=>
            \E c \in Conn : \E i \in Requests(c) :
              r = <<c, i>> /\ reply'[c][i] \in Responses
      BY DEF AnsweredNow
    <2>5. \A r : r \in AnsweredNow' <=> r \in AnsweredNow \/ r \in WaitingNow
      BY <1>4, <2>2, <2>3, <2>4
    <2> QED
      BY <2>5
  <1>10. /\ WaitingNow' = {}
         /\ ServedNow = <<NoConn, 0>> /\ UNCHANGED ServedNow /\ StoppedNow'
    BY <1>1, <1>2 DEF WaitingNow, ServedNow, StoppedNow
  <1>11. Promise!Stop
    BY <1>2, <1>9, <1>10 DEF Promise!Stop, Promise!NoRequest, StoppedNow
  <1> QED
    BY <1>5, <1>6, <1>7, <1>8, <1>11 DEF Kept, PromiseInv, Promise!GameNext

(* A game that lingers out stops too, with nobody to be told.              *)
LEMMA TakeQuitKept ==
  ASSUME PromiseInv, AdapterInv', TakeQuit
  PROVE  Kept
PROOF
  <1>1. /\ worker = "free" /\ worker' = "stop"
        /\ UNCHANGED <<schedVars, reply, stopping, asked, unread>>
        /\ idleFor >= Linger
    BY DEF TakeQuit, AsksScheduler, Free, lineVars
  <1>2. connections = {}
    BY <1>1, SchedulerAssumption
    DEF PromiseInv, Alone, NotIdle, SchedulerAssumption
  <1>3. UNCHANGED <<connections, queue, running, lease, idleFor>>
    BY <1>1 DEF schedVars
  <1>4. PromiseInv'
    BY <1>1, <1>2, <1>3, FewerKept
  <1>5. WaitingNow = {} /\ WaitingNow' = {}
    BY <1>2, <1>3 DEF WaitingNow
  <1>6. /\ AnsweredNow' = AnsweredNow
        /\ ServedNow = <<NoConn, 0>> /\ UNCHANGED ServedNow /\ StoppedNow'
    BY <1>1, SameAnswers DEF ServedNow, StoppedNow
  <1>7. Promise!Stop
    BY <1>3, <1>5, <1>6 DEF Promise!Stop, Promise!NoRequest, StoppedNow
  <1> QED
    BY <1>4, <1>7 DEF Kept, Promise!GameNext

-----------------------------------------------------------------------------
(* The worker answers what it serves, and quits.                           *)

LEMMA EndsKept ==
  ASSUME PromiseInv, AdapterInv', NEW ok, NEW what \in Responses,
         worker \in {"serve", "watching"}, Ends(ok, what)
  PROVE  Kept
PROOF
  <1> DEFINE c == running.conn
             i == running.id
  <1>1. /\ Writes(c, i, what)
        /\ worker' = "finish"
        /\ UNCHANGED <<schedVars, asked, unread, stopping>>
    BY DEF Ends, lineVars, Writes
  <1>2. UNCHANGED <<connections, queue, running, lease, idleFor>>
    BY <1>1 DEF schedVars
  <1>3. /\ running # NoRun
        /\ c \in Conn /\ i \in Requests(c)
        /\ \A w \in queue : ~ Is(w, c, i)
        /\ stopping # [conn |-> c, id |-> i]
    BY DEF PromiseInv, AdapterInv, WorkerRuns, Busy, Runner, LeaseInv,
           SchedTypeOK, Running
  <1> HIDE DEF c, i
  <1>4. /\ reply' = [d \in Conn |-> [j \in Requests(d) |-> reply'[d][j]]]
        /\ reply'[c][i] = what
        /\ \A d \in Conn : \A j \in Requests(d) :
             d # c \/ j # i => reply'[d][j] = reply[d][j]
    BY <1>1, <1>3, ReplyWritten DEF PromiseInv
  <1>5. Lines'
    BY <1>1, <1>4 DEF PromiseInv, Lines
  <1>6. Fresh'
    <2> SUFFICES ASSUME NEW d \in Conn, NEW j \in Requests(d), j > Parsed(d)
                 PROVE  Untouched(d, j)'
      BY <1>1 DEF Fresh, Parsed
    <2>1. Untouched(d, j)
      BY DEF PromiseInv, Fresh
    <2>2. d # c \/ j # i
      BY <1>3, <2>1 DEF Untouched, Is, c, i
    <2> QED
      BY <1>1, <1>2, <1>4, <2>1, <2>2 DEF Untouched
  <1>7. Waiters'
    <2>1. \A w \in queue : w.conn \in Conn /\ (w.conn # c \/ w.id # i)
      BY <1>3 DEF PromiseInv, AdapterInv, LeaseInv, SchedTypeOK, Waiting, Is
    <2> QED
      BY <1>1, <1>2, <1>4, <2>1 DEF PromiseInv, Waiters
  <1>8. Runner' /\ Alone'
    BY <1>1, <1>2 DEF PromiseInv, Runner, Alone
  <1>9. Quitter'
    <2>1. SUFFICES ASSUME stopping # NoStop PROVE Quitter'
      BY <1>1 DEF Quitter
    <2>2. PICK d \in Conn : \E j \in Requests(d) :
            stopping = [conn |-> d, id |-> j] /\ reply[d][j] \notin Responses
      BY <2>1 DEF PromiseInv, Quitter
    <2>3. PICK j \in Requests(d) :
            stopping = [conn |-> d, id |-> j] /\ reply[d][j] \notin Responses
      BY <2>2
    <2>4. d # c \/ j # i
      BY <1>3, <2>3
    <2> QED
      BY <1>1, <1>4, <2>3, <2>4 DEF Quitter
  <1>10. AnsweredNow' = AnsweredNow \cup {<<c, i>>}
    BY <1>3, <1>4, OneMoreAnswer
  <1>11. /\ ServedNow = <<c, i>> /\ ServedNow' = <<NoConn, 0>>
         /\ UNCHANGED <<WaitingNow, StoppedNow>>
    BY <1>1, <1>2 DEF ServedNow, WaitingNow, StoppedNow, c, i
  <1>12. ServedNow # <<NoConn, 0>>
    BY <1>3, <1>11, SchedulerAssumption DEF SchedulerAssumption
  <1>13. Promise!End
    BY <1>2, <1>10, <1>11, <1>12 DEF Promise!End, Promise!NoRequest
  <1> QED
    BY <1>5, <1>6, <1>7, <1>8, <1>9, <1>13
    DEF Kept, PromiseInv, Promise!GameNext

LEMMA ServingKept ==
  ASSUME PromiseInv, AdapterInv',
         ServeDone \/ ServeFailed \/ LeaveWatch \/ Abandon
  PROVE  Kept
PROOF
  <1>1. /\ worker \in {"serve", "watching"}
        /\ \E ok \in BOOLEAN : \E what \in Responses : Ends(ok, what)
    BY DEF ServeDone, ServeFailed, LeaveWatch, Abandon, AbandonCode, Responses
  <1> QED
    BY <1>1, EndsKept

LEMMA EndServeKept ==
  ASSUME PromiseInv, AdapterInv', EndServe
  PROVE  Kept
PROOF
  <1>1. /\ Finish(outcome) /\ worker = "finish" /\ worker' = "free"
        /\ UNCHANGED <<reply, stopping, asked, unread>>
    BY DEF EndServe, lineVars
  <1>2. /\ running' = NoRun
        /\ UNCHANGED <<connections, queue, lease>>
        /\ idleFor' # NotIdle => connections = {}
    BY <1>1 DEF Finish, SettleIdle, PromiseInv, Alone
  <1>3. Lines'
    BY <1>1 DEF PromiseInv, Lines
  <1>4. Fresh' /\ Waiters'
    BY <1>1, <1>2 DEF PromiseInv, Fresh, Untouched, Parsed, Waiters
  <1>5. Runner' /\ Quitter' /\ Alone'
    BY <1>1, <1>2 DEF PromiseInv, Runner, Quitter, Alone
  <1>6. /\ AnsweredNow' = AnsweredNow
        /\ UNCHANGED <<WaitingNow, ServedNow, StoppedNow>>
    BY <1>1, <1>2, SameAnswers DEF WaitingNow, ServedNow, StoppedNow
  <1> QED
    BY <1>2, <1>3, <1>4, <1>5, <1>6, NoneCanTell DEF Kept, PromiseInv

(* The one who asked quit_game is answered last, if it is there.           *)
LEMMA EndQuitKept ==
  ASSUME PromiseInv, AdapterInv', EndQuit
  PROVE  Kept
PROOF
  <1>1. /\ worker = "quit" /\ worker' = "over"
        /\ UNCHANGED <<schedVars, stopping, asked, unread>>
        /\ \E what \in Responses :
             reply' = IF stopping = NoStop THEN reply
                      ELSE Told(stopping.conn, stopping.id, what)
    BY DEF EndQuit, lineVars, Responses
  <1>2. /\ UNCHANGED <<connections, queue, running, lease, idleFor>>
        /\ UNCHANGED <<WaitingNow, ServedNow, StoppedNow>>
    BY <1>1 DEF schedVars, WaitingNow, ServedNow, StoppedNow
  <1>3. CASE UNCHANGED reply
    <2>1. PromiseInv'
      BY <1>1, <1>2, <1>3, FewerKept DEF PromiseInv, Alone
    <2>2. AnsweredNow' = AnsweredNow
      BY <1>3, SameAnswers
    <2> QED
      BY <1>2, <2>1, <2>2, NoneCanTell DEF Kept
  <1>4. CASE ~ UNCHANGED reply
    <2>1. stopping # NoStop
      BY <1>1, <1>4
    <2>2. PICK c \in Conn : \E i \in Requests(c) :
            stopping = [conn |-> c, id |-> i] /\ reply[c][i] \notin Responses
      BY <1>1, <2>1 DEF PromiseInv, Quitter
    <2>3. PICK i \in Requests(c) :
            stopping = [conn |-> c, id |-> i] /\ reply[c][i] \notin Responses
      BY <2>2
    <2>4. PICK what \in Responses : reply' = Told(c, i, what)
      BY <1>1, <2>1, <2>3
    <2>5. c \in connections
      BY <1>4, <2>4 DEF Told
    <2>6. /\ reply' = [d \in Conn |-> [j \in Requests(d) |-> reply'[d][j]]]
          /\ reply'[c][i] = what
          /\ \A d \in Conn : \A j \in Requests(d) :
               d # c \/ j # i => reply'[d][j] = reply[d][j]
      BY <2>4, <2>5, ReplyTold DEF PromiseInv
    <2>7. \A w \in queue : w.conn \in Conn /\ ~ Is(w, c, i)
      BY <2>3 DEF PromiseInv, Waiters, Is, AdapterInv, LeaseInv, SchedTypeOK,
                  Waiting
    <2>8. Lines'
      BY <1>1, <2>6 DEF PromiseInv, Lines
    <2>9. Fresh'
      <3> SUFFICES ASSUME NEW d \in Conn, NEW j \in Requests(d), j > Parsed(d)
                   PROVE  Untouched(d, j)'
        BY <1>1 DEF Fresh, Parsed
      <3>1. Untouched(d, j)
        BY DEF PromiseInv, Fresh
      <3>2. d # c \/ j # i
        BY <2>3, <3>1 DEF Untouched
      <3> QED
        BY <1>1, <1>2, <2>6, <3>1, <3>2 DEF Untouched
    <2>10. Waiters'
      BY <1>1, <1>2, <2>6, <2>7 DEF PromiseInv, Waiters, Is
    <2>11. Runner' /\ Alone'
      BY <1>1, <1>2 DEF PromiseInv, Runner, Alone
    <2>12. Quitter'
      <3>1. stopping' = [conn |-> c, id |-> i] /\ worker' = "over"
        BY <1>1, <2>3
      <3> QED
        BY <3>1 DEF Quitter
    <2>13. PromiseInv'
      BY <2>8, <2>9, <2>10, <2>11, <2>12 DEF PromiseInv
    <2>14. AnsweredNow' = AnsweredNow \cup {<<c, i>>}
      BY <2>6, OneMoreAnswer
    <2>15. <<c, i>> \in Promise!Request /\ Promise!New(<<c, i>>)
      <3>1. <<c, i>> \in Promise!Request
        BY DEF Promise!Request
      <3>2. <<c, i>> \notin WaitingNow /\ <<c, i>> \notin AnsweredNow
        BY <2>3, <2>7 DEF WaitingNow, AnsweredNow, Is
      <3>3. <<c, i>> # ServedNow
        BY <1>1, SchedulerAssumption DEF ServedNow, SchedulerAssumption
      <3> QED
        BY <2>5, <3>1, <3>2, <3>3 DEF Promise!New
    <2>16. Promise!AnswerAtOnce(<<c, i>>)
      BY <1>2, <2>14, <2>15 DEF Promise!AnswerAtOnce
    <2> QED
      BY <2>13, <2>15, <2>16 DEF Kept, Promise!GameNext
  <1> QED
    BY <1>3, <1>4

-----------------------------------------------------------------------------
LEMMA InitKept == AdapterInit => PromiseInv /\ Promise!GameInit
PROOF
  <1> SUFFICES ASSUME AdapterInit PROVE PromiseInv /\ Promise!GameInit
    OBVIOUS
  <1> USE DEF AdapterInit, SchedInit
  <1>1. /\ asked \in [Conn -> Nat] /\ unread \in [Conn -> Nat]
        /\ reply = [c \in Conn |-> [i \in Requests(c) |-> "none"]]
        /\ "none" \notin Responses
    BY DEF Responses
  <1>2. Lines
    BY <1>1 DEF Lines
  <1>3. Fresh
    <2> SUFFICES ASSUME NEW c \in Conn, NEW i \in Requests(c)
                 PROVE  Untouched(c, i)
      BY DEF Fresh
    <2>1. reply[c][i] = "none" /\ queue = {} /\ running = NoRun
      BY <1>1
    <2>2. stopping.conn # c
      BY SchedulerAssumption DEF NoStop, SchedulerAssumption
    <2>3. stopping # [conn |-> c, id |-> i]
      BY <2>2
    <2> QED
      BY <1>1, <2>1, <2>3 DEF Untouched
  <1>4. Waiters /\ Runner /\ Quitter /\ Alone
    BY DEF Waiters, Runner, Quitter, Alone
  <1>5. WaitingNow = {} /\ AnsweredNow = {}
    <2>1. WaitingNow = {}
      BY DEF WaitingNow
    <2>2. \A c \in Conn : \A i \in Requests(c) : reply[c][i] \notin Responses
      BY <1>1
    <2> QED
      BY <2>1, <2>2 DEF AnsweredNow
  <1>6. ServedNow = <<NoConn, 0>> /\ StoppedNow = FALSE
    BY DEF ServedNow, StoppedNow
  <1>7. Promise!GameInit
    BY <1>5, <1>6 DEF Promise!GameInit, Promise!NoRequest
  <1> QED
    BY <1>2, <1>3, <1>4, <1>7, AdapterInitInv DEF PromiseInv

LEMMA StepKept ==
  ASSUME PromiseInv, [AdapterNext]_vars
  PROVE  Kept
PROOF
  <1>1. AdapterInv'
    BY AdapterStepInv DEF PromiseInv
  <1>2. CASE Greeter \/ Clients
    BY <1>1, <1>2, GreetKept, ClientsKept DEF Greeter, Clients
  <1>3. ASSUME NEW c \in Conn, Reader(c) PROVE Kept
    <2>1. CASE StreamEnds(c)
      BY <1>1, <2>1, StreamEndsKept
    <2>2. ASSUME NEW op \in Ops,
                 \/ AdmitAtOnce(c, op) \/ AdmitRefused(c, op)
                 \/ AdmitQuit(c, op) \/ AdmitInLine(c, op)
          PROVE  Kept
      BY <1>1, <2>2, AdmitPlainKept, AdmitQuitKept, AdmitInLineKept
    <2>3. CASE AdmitInvalid(c)
      BY <1>1, <2>3, AdmitPlainKept
    <2> QED
      BY <1>3, <2>1, <2>2, <2>3 DEF Reader, Admit
  <1>4. CASE Take
    <2>1. ASSUME NEW w \in queue, TakeTurn(w) \/ TakeNothing(w) PROVE Kept
      BY <1>1, <2>1, TakeTurnKept, TakeNothingKept
    <2>2. CASE TakeMenu \/ TakeStatus
      BY <1>1, <2>2, WorkerAsideKept
    <2>3. CASE TakeStop \/ TakeLeaseBack \/ TakeQuit
      BY <1>1, <2>3, TakeStopKept, TakeLeaseBackKept, TakeQuitKept
    <2> QED
      BY <1>4, <2>1, <2>2, <2>3 DEF Take
  <1>5. CASE Outside
    <2>1. CASE EndMenu \/ EndStatus \/ EndRevoke \/ EnterWatch \/ BeginQuit
      BY <1>1, <2>1, WorkerAsideKept
    <2>2. CASE ServeDone \/ ServeFailed \/ LeaveWatch \/ Abandon
      BY <1>1, <2>2, ServingKept
    <2>3. CASE EndServe \/ EndQuit
      BY <1>1, <2>3, EndServeKept, EndQuitKept
    <2> QED
      BY <1>5, <2>1, <2>2, <2>3 DEF Outside
  <1>6. CASE Boot \/ Tick
    BY <1>1, <1>6, WorkerAsideKept
  <1>7. CASE UNCHANGED vars
    <2>1. UNCHANGED <<schedVars, reply, stopping, asked, unread, worker>>
      BY <1>7 DEF vars, adapterVars
    <2>2. UNCHANGED <<connections, queue, running, lease, idleFor>>
      BY <2>1 DEF schedVars
    <2>3. UNCHANGED <<ServedNow, StoppedNow>>
      BY <2>1, <2>2 DEF ServedNow, StoppedNow
    <2>4. /\ asked' \in [Conn -> Nat] /\ unread' \in [Conn -> Nat]
          /\ \A d \in Conn : Parsed(d)' = Parsed(d)
      BY <2>1 DEF PromiseInv, Lines, Parsed
    <2> QED
      BY <1>1, <2>1, <2>2, <2>3, <2>4, AsideKept
  <1> QED
    BY <1>2, <1>3, <1>4, <1>5, <1>6, <1>7 DEF AdapterNext

(* What a client has been told to wait for is its own line, in line once,  *)
(* running or answered, and never two of these, for any interleaving of    *)
(* the greeter, the readers and the worker.                                *)
THEOREM PromiseInvariance == AdapterSpec => []PromiseInv
PROOF
  <1>1. AdapterInit => PromiseInv
    BY InitKept
  <1>2. PromiseInv /\ [AdapterNext]_vars => PromiseInv'
    BY StepKept DEF Kept
  <1> QED
    BY <1>1, <1>2, PTL DEF AdapterSpec

(* The adapter implements the promise its document makes: one request at a *)
(* time, nobody else's under a lease, each served and answered at most     *)
(* once, and nothing started by a game that has stopped.                   *)
THEOREM PromiseKept == AdapterSpec => KeepsPromise
PROOF
  <1>1. AdapterInit => Promise!GameInit
    BY InitKept
  <1>2. PromiseInv /\ [AdapterNext]_vars
          => [Promise!GameNext]_(Promise!gameVars)
    BY StepKept DEF Kept
  <1> QED
    BY <1>1, <1>2, PromiseInvariance, PTL
    DEF AdapterSpec, KeepsPromise, Promise!GameSpec

-----------------------------------------------------------------------------
(* What a client has last been told is so: queued means in line, started   *)
(* being served; one not yet greeted has been told nothing.                *)
Heard ==
  /\ \A c \in connections : \A i \in Requests(c) :
       /\ reply[c][i] = "queued" => \E w \in queue : Is(w, c, i)
       /\ reply[c][i] = "started" => ServedNow = <<c, i>>
  /\ \A c \in Conn : socket[c] = "new" =>
       \A i \in Requests(c) : reply[c][i] = "none"

(* A game that stops has drained its line and lets only a status in it, or *)
(* has nobody connected and greets nobody more.                            *)
Late ==
  StoppedNow =>
    IF stopping = NoStop THEN connections = {} /\ quitting
    ELSE \A w \in queue : w.conn \in connections => w.op = "status"

StopInv == PromiseInv /\ Heard /\ Late

LEMMA AsideHeard ==
  ASSUME StopInv, DOMAIN socket' = Conn,
         UNCHANGED <<connections, queue, reply, ServedNow, StoppedNow,
                     stopping>>,
         \A c \in Conn : socket'[c] = "new" => socket[c] = "new",
         quitting => quitting'
  PROVE  Heard' /\ Late'
PROOF
  <1>1. Heard'
    BY DEF StopInv, Heard
  <1>2. Late'
    BY DEF StopInv, Late
  <1> QED
    BY <1>1, <1>2

LEMMA ClientsHeard ==
  ASSUME StopInv, NEW c \in Conn, TellLeaving(c) \/ Send(c) \/ HangUp(c)
  PROVE  Heard' /\ Late'
PROOF
  <1>1. UNCHANGED <<schedVars, reply, worker, stopping, quitting>>
    BY DEF TellLeaving, Send, HangUp, workVars, gameVars
  <1>2. UNCHANGED <<connections, queue, ServedNow, StoppedNow>>
    BY <1>1 DEF schedVars, ServedNow, StoppedNow
  <1>3. /\ DOMAIN socket' = Conn
        /\ \A d \in Conn : socket'[d] = "new" => socket[d] = "new"
    BY DEF TellLeaving, Send, HangUp, StopInv, PromiseInv, AdapterInv, Shapes
  <1> QED
    BY <1>1, <1>2, <1>3, AsideHeard

LEMMA WorkerAsideHeard ==
  ASSUME StopInv,
         \/ TakeMenu \/ TakeStatus \/ EndMenu \/ EndStatus \/ EndRevoke
         \/ EnterWatch \/ BeginQuit \/ Boot \/ Tick \/ EndServe
  PROVE  Heard' /\ Late'
PROOF
  <1>1. /\ UNCHANGED <<reply, stopping>>
        /\ quitting => quitting'
    BY DEF TakeMenu, TakeStatus, EndMenu, EndStatus, EndRevoke, EnterWatch,
           BeginQuit, Boot, Tick, EndServe, gameVars
  <1>2. UNCHANGED <<connections, queue>>
    BY DEF TakeMenu, TakeStatus, EndMenu, EndStatus, EndRevoke, EnterWatch,
           BeginQuit, Boot, Tick, EndServe, schedVars, BecomeReady, TickSched,
           Finish
  <1>3. \/ /\ worker' \in {"serve", "watching"}
           /\ worker \in {"serve", "watching"}
           /\ UNCHANGED running
        \/ /\ worker' \notin {"serve", "watching"}
           /\ worker \notin {"serve", "watching"}
    BY DEF TakeMenu, TakeStatus, EndMenu, EndStatus, EndRevoke, EnterWatch,
           BeginQuit, Boot, Tick, EndServe, Free, workVars, schedVars,
           TickSched
  <1>4. worker' \in {"stop", "quit", "over"}
          <=> worker \in {"stop", "quit", "over"}
    BY DEF TakeMenu, TakeStatus, EndMenu, EndStatus, EndRevoke, EnterWatch,
           BeginQuit, Boot, Tick, EndServe, Free, workVars
  <1>5. UNCHANGED <<ServedNow, StoppedNow>>
    BY <1>3, <1>4 DEF ServedNow, StoppedNow
  <1>6. /\ DOMAIN socket' = Conn
        /\ \A d \in Conn : socket'[d] = "new" => socket[d] = "new"
    BY DEF TakeMenu, TakeStatus, EndMenu, EndStatus, EndRevoke, EnterWatch,
           BeginQuit, Boot, Tick, EndServe, lineVars, StopInv, PromiseInv,
           AdapterInv, Shapes
  <1> QED
    BY <1>1, <1>2, <1>5, <1>6, AsideHeard

LEMMA GreetHeard ==
  ASSUME StopInv, NEW c \in Conn, Greet(c)
  PROVE  Heard' /\ Late'
PROOF
  <1>1. /\ UNCHANGED <<reply, stopping, worker, quitting, queue, running>>
        /\ connections' = connections \cup {c}
        /\ socket[c] = "new" /\ ~ quitting
        /\ socket' = [socket EXCEPT ![c] = "open"]
    BY DEF Greet, Connect, workVars, gameVars
  <1>2. /\ \A w \in queue : w.conn # c
        /\ DOMAIN socket = Conn
    BY <1>1 DEF StopInv, PromiseInv, AdapterInv, Strangers, Shapes
  <1>3. \A i \in Requests(c) : reply[c][i] = "none"
    BY <1>1 DEF StopInv, Heard
  <1>4. UNCHANGED <<ServedNow, StoppedNow>>
    BY <1>1 DEF ServedNow, StoppedNow
  <1>5. Heard'
    BY <1>1, <1>2, <1>3, <1>4 DEF StopInv, Heard
  <1>6. Late'
    BY <1>1, <1>2, <1>4 DEF StopInv, Late
  <1> QED
    BY <1>5, <1>6

(* One entry of the replies is written, of a client that was greeted.      *)
LEMMA WrittenHeard ==
  ASSUME StopInv, UNCHANGED <<connections, socket>>,
         NEW c \in Conn, NEW i \in Requests(c), socket[c] # "new",
         \A d \in Conn : \A j \in Requests(d) :
           d # c \/ j # i => reply'[d][j] = reply[d][j],
         \A d \in Conn : \A j \in Requests(d) :
           d # c \/ j # i =>
             /\ (\E w \in queue : Is(w, d, j)) => \E w \in queue' : Is(w, d, j)
             /\ ServedNow = <<d, j>> => ServedNow' = <<d, j>>,
         c \in connections /\ reply'[c][i] = "queued"
           => \E w \in queue' : Is(w, c, i),
         c \in connections /\ reply'[c][i] = "started"
           => ServedNow' = <<c, i>>
  PROVE  Heard'
PROOF
  <1>1. connections \subseteq Conn
    BY DEF StopInv, PromiseInv, AdapterInv, LeaseInv, SchedTypeOK
  <1> SUFFICES
        /\ \A d \in connections : \A j \in Requests(d) :
             /\ reply'[d][j] = "queued" => \E w \in queue' : Is(w, d, j)
             /\ reply'[d][j] = "started" => ServedNow' = <<d, j>>
        /\ \A d \in Conn : socket[d] = "new" =>
             \A j \in Requests(d) : reply'[d][j] = "none"
    BY DEF Heard, Is
  <1>2. \A d \in Conn : socket[d] = "new" =>
          \A j \in Requests(d) : reply'[d][j] = "none"
    BY DEF StopInv, Heard
  <1>3. ASSUME NEW d \in connections, NEW j \in Requests(d)
        PROVE  /\ reply'[d][j] = "queued" => \E w \in queue' : Is(w, d, j)
               /\ reply'[d][j] = "started" => ServedNow' = <<d, j>>
    <2>1. CASE d = c /\ j = i
      BY <2>1
    <2>2. CASE d # c \/ j # i
      <3>1. reply'[d][j] = reply[d][j]
        BY <1>1, <2>2
      <3>2. /\ reply[d][j] = "queued" => \E w \in queue : Is(w, d, j)
            /\ reply[d][j] = "started" => ServedNow = <<d, j>>
        BY DEF StopInv, Heard
      <3> QED
        BY <1>1, <2>2, <3>1, <3>2
    <2> QED
      BY <2>1, <2>2
  <1> QED
    BY <1>2, <1>3

LEMMA LineHeard ==
  ASSUME StopInv, NEW c \in Conn, NEW i \in Requests(c), NEW what,
         what \notin {"queued", "started"},
         Parses(c, i), reply' = Told(c, i, what), UNCHANGED schedVars,
         stopping' = stopping \/ stopping' = [conn |-> c, id |-> i]
  PROVE  Heard' /\ Late'
PROOF
  <1>1. /\ UNCHANGED <<connections, socket, queue, running, worker, quitting>>
        /\ socket[c] # "new"
    BY DEF Parses, schedVars, workVars, gameVars
  <1>2. UNCHANGED <<ServedNow, StoppedNow>>
    BY <1>1 DEF ServedNow, StoppedNow
  <1>3. /\ reply'[c][i] = IF c \in connections THEN what ELSE reply[c][i]
        /\ \A d \in Conn : \A j \in Requests(d) :
             d # c \/ j # i => reply'[d][j] = reply[d][j]
    BY ReplyTold DEF StopInv, PromiseInv
  <1>4. Heard'
    <2>1. \A d \in Conn : \A j \in Requests(d) :
            /\ (\E w \in queue : Is(w, d, j)) => \E w \in queue' : Is(w, d, j)
            /\ ServedNow = <<d, j>> => ServedNow' = <<d, j>>
      BY <1>1, <1>2
    <2>2. c \in connections
            => reply'[c][i] # "queued" /\ reply'[c][i] # "started"
      BY <1>3
    <2> QED
      BY <1>1, <1>3, <2>1, <2>2, WrittenHeard
  <1>5. Late'
    <2>1. CASE stopping' = stopping
      BY <1>1, <1>2, <2>1 DEF StopInv, Late
    <2>2. CASE stopping' = [conn |-> c, id |-> i]
      <3>1. stopping' # NoStop
        <4>1. stopping'.conn = c /\ NoStop.conn = NoConn
          BY <2>2 DEF NoStop
        <4> QED
          BY <4>1, SchedulerAssumption DEF SchedulerAssumption
      <3> QED
        BY <1>1, <1>2, <3>1 DEF StopInv, Late
    <2> QED
      BY <2>1, <2>2
  <1> QED
    BY <1>4, <1>5

LEMMA AdmitPlainHeard ==
  ASSUME StopInv, NEW c \in Conn,
         \/ AdmitInvalid(c)
         \/ \E op \in Ops :
              AdmitAtOnce(c, op) \/ AdmitRefused(c, op) \/ AdmitQuit(c, op)
  PROVE  Heard' /\ Late'
PROOF
  <1>1. PICK i \in Requests(c) :
          /\ Parses(c, i)
          /\ UNCHANGED schedVars
          /\ \E what \in {"ok", "invalid", "game_stopped", "no_lease",
                          "waiting"} :
               reply' = Told(c, i, what)
          /\ stopping' = stopping \/ stopping' = [conn |-> c, id |-> i]
    BY DEF AdmitInvalid, AdmitAtOnce, AdmitRefused, AdmitQuit
  <1>2. PICK what \in {"ok", "invalid", "game_stopped", "no_lease",
                       "waiting"} :
          reply' = Told(c, i, what)
    BY <1>1
  <1>3. what \notin {"queued", "started"}
    BY <1>2
  <1> QED
    BY <1>1, <1>2, <1>3, LineHeard

(* A stopping game refuses whatever goes in line but a status.             *)
LEMMA AdmitInLineHeard ==
  ASSUME StopInv, NEW c \in Conn, NEW op \in Ops, AdmitInLine(c, op)
  PROVE  Heard' /\ Late'
PROOF
  <1>1. PICK i \in Requests(c) :
          /\ Parses(c, i)
          /\ Enqueue(c, op, i)
          /\ reply' = Told(c, i, "queued")
          /\ UNCHANGED stopping
          /\ ~ Refuses(op)
          /\ op \in {"status"} \cup Leased \cup Turn
    BY DEF AdmitInLine, Turn
  <1> DEFINE new ==
        [sequence |-> sequence + 1, conn |-> c, op |-> op, id |-> i]
  <1>2. /\ queue' = queue \cup {new}
        /\ new.conn = c /\ new.id = i /\ new.op = op
        /\ UNCHANGED <<connections, running>>
    BY <1>1 DEF Enqueue
  <1> HIDE DEF new
  <1>3. /\ UNCHANGED <<socket, worker, quitting>>
        /\ socket[c] # "new"
    BY <1>1 DEF Parses, workVars, gameVars
  <1>4. UNCHANGED <<ServedNow, StoppedNow>>
    BY <1>2, <1>3 DEF ServedNow, StoppedNow
  <1>5. /\ reply'[c][i] = IF c \in connections THEN "queued"
                          ELSE reply[c][i]
        /\ \A d \in Conn : \A j \in Requests(d) :
             d # c \/ j # i => reply'[d][j] = reply[d][j]
    BY <1>1, ReplyTold DEF StopInv, PromiseInv
  <1>6. Heard'
    <2>1. \A d \in Conn : \A j \in Requests(d) :
            /\ (\E w \in queue : Is(w, d, j)) => \E w \in queue' : Is(w, d, j)
            /\ ServedNow = <<d, j>> => ServedNow' = <<d, j>>
      BY <1>2, <1>4
    <2>2. \E w \in queue' : Is(w, c, i)
      BY <1>2 DEF Is
    <2>3. c \in connections => reply'[c][i] # "started"
      BY <1>5
    <2> QED
      BY <1>2, <1>3, <1>5, <2>1, <2>2, <2>3, WrittenHeard
  <1>7. Late'
    <2>1. stopping # NoStop => op = "status"
      BY <1>1 DEF Refuses, Immediate, Turn, Leased
    <2> QED
      BY <1>1, <1>2, <1>3, <1>4, <2>1 DEF StopInv, Late
  <1> QED
    BY <1>6, <1>7

LEMMA CloseHeard ==
  ASSUME StopInv, NEW c \in Conn, Close(c), DOMAIN socket' = Conn,
         \A d \in Conn : socket'[d] = "new" => socket[d] = "new",
         UNCHANGED <<reply, stopping, quitting, ServedNow, StoppedNow>>
  PROVE  Heard' /\ Late'
PROOF
  <1>1. /\ connections' = connections \ {c}
        /\ queue' = {w \in queue : w.conn # c}
    BY DEF Close, OwnedBy
  <1>2. Heard'
    BY <1>1 DEF StopInv, Heard, Is
  <1>3. Late'
    BY <1>1 DEF StopInv, Late
  <1> QED
    BY <1>2, <1>3

LEMMA StreamEndsHeard ==
  ASSUME StopInv, NEW c \in Conn, StreamEnds(c)
  PROVE  Heard' /\ Late'
PROOF
  <1>1. /\ UNCHANGED <<reply, stopping, worker, quitting>>
        /\ DOMAIN socket' = Conn
        /\ \A d \in Conn : socket'[d] = "new" => socket[d] = "new"
    BY DEF StreamEnds, workVars, gameVars, StopInv, PromiseInv, AdapterInv,
           Shapes
  <1>2. CASE c \in connections
    <2>1. Close(c) /\ running' = running
      BY <1>2 DEF StreamEnds, Close
    <2> QED
      BY <1>1, <2>1, CloseHeard DEF ServedNow, StoppedNow
  <1>3. CASE c \notin connections
    <2>1. UNCHANGED <<connections, queue, running>>
      BY <1>3 DEF StreamEnds, schedVars
    <2> QED
      BY <1>1, <2>1, AsideHeard DEF ServedNow, StoppedNow
  <1> QED
    BY <1>2, <1>3

LEMMA TakeLeaseBackHeard ==
  ASSUME StopInv, TakeLeaseBack
  PROVE  Heard' /\ Late'
PROOF
  <1>1. /\ Close(lease) /\ lease \in Conn
        /\ UNCHANGED <<reply, stopping, quitting, socket>>
        /\ worker = "free" /\ worker' = "revoke"
    BY DEF TakeLeaseBack, AsksScheduler, Free, lineVars, gameVars, RevokeDue,
           StopInv, PromiseInv, AdapterInv, LeaseInv, SchedTypeOK
  <1>2. UNCHANGED <<ServedNow, StoppedNow>>
    BY <1>1 DEF ServedNow, StoppedNow
  <1>3. DOMAIN socket' = Conn
    BY <1>1 DEF StopInv, PromiseInv, AdapterInv, Shapes
  <1> QED
    BY <1>1, <1>2, <1>3, CloseHeard

LEMMA TakeTurnHeard ==
  ASSUME StopInv, NEW w \in queue, TakeTurn(w)
  PROVE  Heard' /\ Late'
PROOF
  <1>1. /\ Start(w) /\ worker = "free" /\ worker' = "serve"
        /\ reply' = Told(w.conn, w.id, "started")
        /\ UNCHANGED socket
    BY DEF TakeTurn, AsksScheduler, Free, lineVars
  <1>2. /\ queue' = queue \ {w} /\ UNCHANGED connections
        /\ running'.conn = w.conn /\ running'.id = w.id
    BY <1>1 DEF Start, TakenOut
  <1>3. w.conn \in Conn /\ w.id \in Requests(w.conn)
    BY DEF StopInv, PromiseInv, Waiters, AdapterInv, LeaseInv, SchedTypeOK,
           Waiting
  <1>4. socket[w.conn] # "new"
    BY <1>3 DEF StopInv, PromiseInv, AdapterInv, Strangers
  <1>5. /\ reply'[w.conn][w.id] = IF w.conn \in connections THEN "started"
                                  ELSE reply[w.conn][w.id]
        /\ \A d \in Conn : \A j \in Requests(d) :
             d # w.conn \/ j # w.id => reply'[d][j] = reply[d][j]
    BY <1>1, <1>3, ReplyTold DEF StopInv, PromiseInv
  <1>6. ServedNow = <<NoConn, 0>> /\ ServedNow' = <<w.conn, w.id>>
    BY <1>1, <1>2 DEF ServedNow
  <1>7. \A d \in Conn : \A j \in Requests(d) :
          d # w.conn \/ j # w.id =>
            /\ (\E v \in queue : Is(v, d, j)) => \E v \in queue' : Is(v, d, j)
            /\ ServedNow = <<d, j>> => ServedNow' = <<d, j>>
    BY <1>2, <1>6, SchedulerAssumption DEF Is, SchedulerAssumption
  <1>8. w.conn \in connections => reply'[w.conn][w.id] # "queued"
    BY <1>5
  <1>9. Heard'
    BY <1>1, <1>2, <1>3, <1>4, <1>5, <1>6, <1>7, <1>8, WrittenHeard
  <1>10. Late'
    BY <1>1 DEF Late, StoppedNow
  <1> QED
    BY <1>9, <1>10

LEMMA TakeNothingHeard ==
  ASSUME StopInv, NEW w \in queue, TakeNothing(w)
  PROVE  Heard' /\ Late'
PROOF
  <1>1. /\ UNCHANGED <<connections, socket, reply, running, worker>>
        /\ worker = "free"
        /\ queue' = queue \ {w} /\ w.conn \notin connections
    BY DEF TakeNothing, adapterVars, AsksScheduler, Free, Drop, TakenOut
  <1>2. ServedNow' = ServedNow
    BY <1>1 DEF ServedNow
  <1>3. Heard'
    BY <1>1, <1>2 DEF StopInv, Heard, Is
  <1>4. Late'
    BY <1>1 DEF Late, StoppedNow
  <1> QED
    BY <1>3, <1>4

(* The drain answers whoever was told to wait.                             *)
LEMMA TakeStopHeard ==
  ASSUME StopInv, TakeStop
  PROVE  Heard' /\ Late'
PROOF
  <1>1. /\ worker = "free" /\ worker' = "stop" /\ stopping # NoStop
        /\ reply' = [c \in Conn |-> [i \in Requests(c) |->
             IF c \in connections /\ \E w \in queue : w.conn = c /\ w.id = i
             THEN "game_stopped" ELSE reply[c][i]]]
        /\ UNCHANGED <<stopping, socket>>
    BY DEF TakeStop, Free, lineVars
  <1>2. queue' = {} /\ UNCHANGED connections
    BY DEF TakeStop, Drain
  <1>3. /\ connections \subseteq Conn
        /\ \A c \in Conn : socket[c] = "new" => c \notin connections
    BY DEF StopInv, PromiseInv, AdapterInv, LeaseInv, SchedTypeOK, Strangers
  <1>4. \A c \in connections : \A i \in Requests(c) :
          reply'[c][i] # "queued" /\ reply'[c][i] # "started"
    <2> SUFFICES ASSUME NEW c \in connections, NEW i \in Requests(c)
                 PROVE  reply'[c][i] # "queued" /\ reply'[c][i] # "started"
      OBVIOUS
    <2>1. reply[c][i] = "queued" => \E w \in queue : w.conn = c /\ w.id = i
      BY DEF StopInv, Heard, Is
    <2>2. reply[c][i] # "started"
      <3>1. ServedNow = <<NoConn, 0>>
        BY <1>1 DEF ServedNow
      <3>2. c # NoConn
        BY <1>3, SchedulerAssumption DEF SchedulerAssumption
      <3> QED
        BY <3>1, <3>2 DEF StopInv, Heard
    <2>3. reply'[c][i] = IF \E w \in queue : w.conn = c /\ w.id = i
                         THEN "game_stopped" ELSE reply[c][i]
      BY <1>1, <1>3
    <2> QED
      BY <2>1, <2>2, <2>3
  <1>5. \A c \in Conn : socket[c] = "new" =>
          \A i \in Requests(c) : reply'[c][i] = "none"
    BY <1>1, <1>3 DEF StopInv, Heard
  <1>6. Heard'
    BY <1>1, <1>2, <1>4, <1>5 DEF Heard
  <1>7. Late'
    BY <1>1, <1>2 DEF Late
  <1> QED
    BY <1>6, <1>7

LEMMA TakeQuitHeard ==
  ASSUME StopInv, TakeQuit
  PROVE  Heard' /\ Late'
PROOF
  <1>1. /\ worker = "free" /\ worker' = "stop" /\ quitting' = TRUE
        /\ stopping = NoStop
        /\ UNCHANGED <<schedVars, reply, stopping, socket>>
        /\ idleFor >= Linger
    BY DEF TakeQuit, AsksScheduler, Free, lineVars
  <1>2. connections = {}
    BY <1>1, SchedulerAssumption
    DEF StopInv, PromiseInv, Alone, NotIdle, SchedulerAssumption
  <1>3. UNCHANGED connections
    BY <1>1 DEF schedVars
  <1>4. Heard'
    BY <1>1, <1>2, <1>3 DEF StopInv, Heard
  <1>5. Late'
    BY <1>1, <1>2, <1>3 DEF Late
  <1> QED
    BY <1>4, <1>5

LEMMA EndsHeard ==
  ASSUME StopInv, NEW ok, NEW what \in Responses,
         worker \in {"serve", "watching"}, Ends(ok, what)
  PROVE  Heard' /\ Late'
PROOF
  <1> DEFINE c == running.conn
             i == running.id
  <1>1. /\ Writes(c, i, what)
        /\ worker' = "finish"
        /\ UNCHANGED <<schedVars, socket>>
    BY DEF Ends, lineVars, Writes
  <1>2. UNCHANGED <<connections, queue, running>>
    BY <1>1 DEF schedVars
  <1>3. running # NoRun /\ c \in Conn /\ i \in Requests(c)
    BY DEF StopInv, PromiseInv, AdapterInv, WorkerRuns, Busy, Runner,
           LeaseInv, SchedTypeOK, Running
  <1>4. socket[c] # "new" /\ ServedNow = <<c, i>>
    BY <1>3 DEF StopInv, PromiseInv, AdapterInv, Strangers, ServedNow
  <1> HIDE DEF c, i
  <1>5. /\ reply'[c][i] = what
        /\ \A d \in Conn : \A j \in Requests(d) :
             d # c \/ j # i => reply'[d][j] = reply[d][j]
    BY <1>1, <1>3, ReplyWritten DEF StopInv, PromiseInv
  <1>6. what # "queued" /\ what # "started"
    BY DEF Responses
  <1>7. \A d \in Conn : \A j \in Requests(d) :
          d # c \/ j # i =>
            /\ (\E w \in queue : Is(w, d, j)) => \E w \in queue' : Is(w, d, j)
            /\ ServedNow = <<d, j>> => ServedNow' = <<d, j>>
    BY <1>2, <1>4
  <1>8. Heard'
    BY <1>1, <1>2, <1>3, <1>4, <1>5, <1>6, <1>7, WrittenHeard
  <1>9. Late'
    BY <1>1 DEF Late, StoppedNow
  <1> QED
    BY <1>8, <1>9

LEMMA EndQuitHeard ==
  ASSUME StopInv, EndQuit
  PROVE  Heard' /\ Late'
PROOF
  <1>1. /\ worker = "quit" /\ worker' = "over"
        /\ UNCHANGED <<schedVars, stopping, socket, quitting>>
        /\ \E what \in Responses :
             reply' = IF stopping = NoStop THEN reply
                      ELSE Told(stopping.conn, stopping.id, what)
    BY DEF EndQuit, lineVars, gameVars, Responses
  <1>2. /\ UNCHANGED <<connections, queue, running>>
        /\ UNCHANGED <<ServedNow, StoppedNow>>
    BY <1>1 DEF schedVars, ServedNow, StoppedNow
  <1>3. Late'
    BY <1>1, <1>2 DEF StopInv, Late
  <1>4. CASE UNCHANGED reply
    BY <1>1, <1>2, <1>3, <1>4 DEF StopInv, Heard
  <1>5. CASE ~ UNCHANGED reply
    <2>1. stopping # NoStop
      BY <1>1, <1>5
    <2>2. PICK c \in Conn : \E i \in Requests(c) :
            stopping = [conn |-> c, id |-> i]
      BY <2>1 DEF StopInv, PromiseInv, Quitter
    <2>3. PICK i \in Requests(c) : stopping = [conn |-> c, id |-> i]
      BY <2>2
    <2>4. PICK what \in Responses : reply' = Told(c, i, what)
      BY <1>1, <2>1, <2>3
    <2>5. c \in connections
      BY <1>5, <2>4 DEF Told
    <2>6. socket[c] # "new"
      BY <2>5 DEF StopInv, PromiseInv, AdapterInv, Strangers
    <2>7. /\ reply'[c][i] = what
          /\ \A d \in Conn : \A j \in Requests(d) :
               d # c \/ j # i => reply'[d][j] = reply[d][j]
      BY <2>4, <2>5, ReplyTold DEF StopInv, PromiseInv
    <2>8. what # "queued" /\ what # "started"
      BY DEF Responses
    <2>9. \A d \in Conn : \A j \in Requests(d) :
            /\ (\E w \in queue : Is(w, d, j)) => \E w \in queue' : Is(w, d, j)
            /\ ServedNow = <<d, j>> => ServedNow' = <<d, j>>
      BY <1>2
    <2>10. Heard'
      BY <1>1, <1>2, <2>6, <2>7, <2>8, <2>9, WrittenHeard
    <2> QED
      BY <1>3, <2>10
  <1> QED
    BY <1>4, <1>5

LEMMA StepHeard ==
  ASSUME StopInv, [AdapterNext]_vars
  PROVE  Heard' /\ Late'
PROOF
  <1>1. CASE Greeter \/ Clients
    BY <1>1, GreetHeard, ClientsHeard DEF Greeter, Clients
  <1>2. ASSUME NEW c \in Conn, Reader(c) PROVE Heard' /\ Late'
    <2>1. CASE StreamEnds(c)
      BY <2>1, StreamEndsHeard
    <2>2. ASSUME NEW op \in Ops,
                 \/ AdmitAtOnce(c, op) \/ AdmitRefused(c, op)
                 \/ AdmitQuit(c, op) \/ AdmitInLine(c, op)
          PROVE  Heard' /\ Late'
      BY <2>2, AdmitPlainHeard, AdmitInLineHeard
    <2>3. CASE AdmitInvalid(c)
      BY <2>3, AdmitPlainHeard
    <2> QED
      BY <1>2, <2>1, <2>2, <2>3 DEF Reader, Admit
  <1>3. CASE Take
    <2>1. ASSUME NEW w \in queue, TakeTurn(w) \/ TakeNothing(w)
          PROVE  Heard' /\ Late'
      BY <2>1, TakeTurnHeard, TakeNothingHeard
    <2>2. CASE TakeMenu \/ TakeStatus
      BY <2>2, WorkerAsideHeard
    <2>3. CASE TakeStop \/ TakeLeaseBack \/ TakeQuit
      BY <2>3, TakeStopHeard, TakeLeaseBackHeard, TakeQuitHeard
    <2> QED
      BY <1>3, <2>1, <2>2, <2>3 DEF Take
  <1>4. CASE Outside
    <2>1. CASE \/ EndMenu \/ EndStatus \/ EndRevoke \/ EnterWatch
               \/ BeginQuit \/ EndServe
      BY <2>1, WorkerAsideHeard
    <2>2. CASE ServeDone \/ ServeFailed \/ LeaveWatch \/ Abandon
      <3>1. /\ worker \in {"serve", "watching"}
            /\ \E ok \in BOOLEAN : \E what \in Responses : Ends(ok, what)
        BY <2>2 DEF ServeDone, ServeFailed, LeaveWatch, Abandon, AbandonCode,
                    Responses
      <3> QED
        BY <3>1, EndsHeard
    <2>3. CASE EndQuit
      BY <2>3, EndQuitHeard
    <2> QED
      BY <1>4, <2>1, <2>2, <2>3 DEF Outside
  <1>5. CASE Boot \/ Tick
    BY <1>5, WorkerAsideHeard
  <1>6. CASE UNCHANGED vars
    <2>1. /\ UNCHANGED <<schedVars, reply, stopping, worker, socket, quitting>>
          /\ DOMAIN socket' = Conn
      BY <1>6 DEF vars, adapterVars, StopInv, PromiseInv, AdapterInv, Shapes
    <2>2. UNCHANGED <<connections, queue, running>>
      BY <2>1 DEF schedVars
    <2>3. UNCHANGED <<ServedNow, StoppedNow>>
      BY <2>1, <2>2 DEF ServedNow, StoppedNow
    <2> QED
      BY <2>1, <2>2, <2>3, AsideHeard
  <1> QED
    BY <1>1, <1>2, <1>3, <1>4, <1>5, <1>6 DEF AdapterNext

(* quit_game answers whoever it finds waiting: once the game has gone,     *)
(* nobody connected is still told to wait, but a status of the lease       *)
(* holder, for any connections, pipelining and interleaving.               *)
THEOREM StopIsAnswered == AdapterSpec => []StopAnswersAll
PROOF
  <1>1. AdapterInit => StopInv
    <2> SUFFICES ASSUME AdapterInit PROVE StopInv
      OBVIOUS
    <2>1. PromiseInv
      BY InitKept
    <2>2. Heard
      BY DEF AdapterInit, SchedInit, Heard
    <2>3. Late
      BY DEF AdapterInit, Late, StoppedNow
    <2> QED
      BY <2>1, <2>2, <2>3 DEF StopInv
  <1>2. StopInv /\ [AdapterNext]_vars => StopInv'
    BY StepKept, StepHeard DEF StopInv, Kept
  <1>3. StopInv => StopAnswersAll
    <2> SUFFICES ASSUME StopInv, worker = "over",
                        NEW c \in connections, NEW i \in Requests(c),
                        reply[c][i] \in {"queued", "started"}
                 PROVE  \E w \in queue :
                          w.conn = c /\ w.id = i /\ w.op = "status"
      BY DEF StopAnswersAll
    <2>1. StoppedNow /\ ServedNow = <<NoConn, 0>>
      BY DEF StoppedNow, ServedNow
    <2>2. c # NoConn
      BY SchedulerAssumption
      DEF StopInv, PromiseInv, AdapterInv, LeaseInv, SchedTypeOK,
          SchedulerAssumption
    <2>3. reply[c][i] = "queued"
      BY <2>1, <2>2 DEF StopInv, Heard
    <2>4. PICK w \in queue : w.conn = c /\ w.id = i
      BY <2>3 DEF StopInv, Heard, Is
    <2>5. w.op = "status"
      BY <2>1, <2>4 DEF StopInv, Late
    <2> QED
      BY <2>4, <2>5
  <1> QED
    BY <1>1, <1>2, <1>3, PTL DEF AdapterSpec
=============================================================================
