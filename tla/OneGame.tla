------------------------------- MODULE OneGame -------------------------------
(***************************************************************************)
(* What the adapter promises its clients (docs/spec/adapter/adapter.md,    *)
(* "Turns"), without saying how: one game serves one request at a time;    *)
(* while somebody holds the lease it serves nobody else; a request waits   *)
(* once, is served at most once and is answered at most once; what a       *)
(* client waits for goes with its connection; and a game that has stopped  *)
(* starts nothing more.                                                    *)
(***************************************************************************)
CONSTANTS Conn, NoConn, Id

VARIABLES
  open,      (* the connections there are                                  *)
  waiting,   (* the requests that wait, as <<connection, id>>              *)
  current,   (* the one being served, or NoRequest                         *)
  holder,    (* who holds the lease, or NoConn                             *)
  answered,  (* the requests that have had their answer                    *)
  stopped    (* whether the game takes no more turns                       *)

gameVars == <<open, waiting, current, holder, answered, stopped>>

NoRequest == <<NoConn, 0>>
Request == Conn \X Id
Of(c) == {r \in waiting : r[1] = c}

GameInit ==
  /\ open = {}
  /\ waiting = {}
  /\ current = NoRequest
  /\ holder = NoConn
  /\ answered = {}
  /\ stopped = FALSE

Join(c) ==
  /\ open' = open \cup {c}
  /\ UNCHANGED <<waiting, current, holder, answered, stopped>>

(* A connection goes, by itself or because its lease is taken back.        *)
Leave(c) ==
  /\ c \in open
  /\ open' = open \ {c}
  /\ waiting' = waiting \ Of(c)
  /\ holder' = IF holder = c THEN NoConn ELSE holder
  /\ UNCHANGED <<current, answered, stopped>>

New(r) == r[1] \in open /\ r \notin waiting \cup answered \cup {current}

Wait(r) ==
  /\ New(r)
  /\ waiting' = waiting \cup {r}
  /\ UNCHANGED <<open, current, holder, answered, stopped>>

AnswerAtOnce(r) ==
  /\ New(r)
  /\ answered' = answered \cup {r}
  /\ UNCHANGED <<open, waiting, current, holder, stopped>>

Begin(r) ==
  /\ ~ stopped
  /\ current = NoRequest
  /\ r \in waiting
  /\ holder \in {NoConn, r[1]}
  /\ current' = r
  /\ waiting' = waiting \ {r}
  /\ holder' \in {holder, r[1]}
  /\ UNCHANGED <<open, answered, stopped>>

End ==
  /\ current # NoRequest
  /\ answered' = answered \cup {current}
  /\ current' = NoRequest
  /\ UNCHANGED <<open, waiting, holder, stopped>>

Stop ==
  /\ current = NoRequest
  /\ stopped' = TRUE
  /\ answered' = answered \cup waiting
  /\ waiting' = {}
  /\ UNCHANGED <<open, current, holder>>

GameNext ==
  \/ \E c \in Conn : Join(c) \/ Leave(c)
  \/ \E r \in Request : Wait(r) \/ AnswerAtOnce(r) \/ Begin(r)
  \/ End
  \/ Stop

GameSpec == GameInit /\ [][GameNext]_gameVars
=============================================================================
