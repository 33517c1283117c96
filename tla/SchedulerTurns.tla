--------------------------- MODULE SchedulerTurns ---------------------------
(***************************************************************************)
(* The scheduler with a history of who went in front of whom, to state how *)
(* the clients of one level share the turns.                               *)
(***************************************************************************)
EXTENDS Scheduler

VARIABLE passed  (* passed[k][d]: turns d has had in front of k, at most 2 *)

turnVars == <<schedVars, passed>>

(* The highest level client k waits at, or -1.                             *)
WaitsAt(k) ==
  Max({-1} \cup {LevelOf[w.conn] : w \in
         {v \in queue : v.conn \in connections /\ ClientOf[v.conn] = k}})

(* A turn given with the lease free passes every client that waits at the  *)
(* level of the turn or above.  A client that gets a turn, or no longer    *)
(* waits, starts anew.                                                     *)
Passes(w, k, d) ==
  /\ lease = NoConn
  /\ ClientOf[w.conn] = d
  /\ WaitsAt(k) >= LevelOf[w.conn]

PassedAfter(w) ==
  [k \in Client |-> [d \in Client |->
     IF k = ClientOf[w.conn] \/ WaitsAt(k) = -1 THEN 0
     ELSE IF Passes(w, k, d) /\ passed[k][d] < 2 THEN passed[k][d] + 1
     ELSE passed[k][d]]]

Forget ==
  [k \in Client |-> [d \in Client |->
     IF WaitsAt(k) = -1 THEN 0 ELSE passed[k][d]]]

TurnsInit ==
  /\ SchedInit
  /\ passed = [k \in Client |-> [d \in Client |-> 0]]

TurnsNext ==
  \/ \E w \in queue : Start(w) /\ passed' = PassedAfter(w)
  \/ /\ \/ \E c \in Conn : Open(c)
        \/ \E c \in Conn : Close(c)
        \/ \E c \in Conn, op \in Ops \ Immediate : Ask(c, op)
        \/ RevokeLease
        \/ \E ok \in BOOLEAN : Finish(ok)
        \/ BecomeReady
        \/ TickSched
     /\ passed' = Forget

TurnsSpec == TurnsInit /\ [][TurnsNext]_turnVars

(* Clients of one level take turns: while a client waits with the lease    *)
(* free, no other client has two turns in front of it at its level, by     *)
(* however many connections it asks.                                       *)
NoneGoesTwice ==
  \A k, d \in Client : k # d => passed[k][d] <= 1
=============================================================================
