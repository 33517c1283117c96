-------------------------- MODULE AdapterRefinement --------------------------
(***************************************************************************)
(* The adapter keeps the promise of OneGame.                               *)
(*                                                                         *)
(* A request nobody is connected for is in line for no one, so what an     *)
(* evicted client still had in flight does not wait here.  A request is    *)
(* being served until it is answered, though the scheduler is told of its  *)
(* end only afterwards.                                                    *)
(***************************************************************************)
EXTENDS Adapter

WaitingNow ==
  {<<w.conn, w.id>> : w \in {v \in queue : v.conn \in connections}}
ServedNow ==
  IF worker \in {"serve", "watching"} THEN <<running.conn, running.id>>
  ELSE <<NoConn, 0>>
AnsweredNow ==
  UNION {{<<c, i>> : i \in {j \in Requests(c) : reply[c][j] \in Responses}} :
           c \in Conn}
StoppedNow == worker \in {"stop", "quit", "over"}

Promise == INSTANCE OneGame WITH
  Id <- UNION {Requests(c) : c \in Conn},
  open <- connections,
  waiting <- WaitingNow,
  current <- ServedNow,
  holder <- lease,
  answered <- AnsweredNow,
  stopped <- StoppedNow

(* Every step of the greeter, the readers and the worker is a step of the  *)
(* one game its clients are promised, or none that they can tell.          *)
KeepsPromise == Promise!GameSpec
=============================================================================
