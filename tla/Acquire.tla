------------------------------- MODULE Acquire -------------------------------
(***************************************************************************)
(* How the processes of mechcore come to share one game: acquire.rs, which *)
(* probes the endpoint, waits for a game that is quitting, retires one     *)
(* that cannot do the work, and launches one where none runs; against the  *)
(* life of the game's process and of the socket path that stands for it,   *)
(* which is all the claimants have in common.                              *)
(*                                                                         *)
(* Each look at the world (a connection to the path, a list of processes,  *)
(* the path's existence, a request's answer) is an action: anything may    *)
(* happen between two.  What a connected client asks of the game is        *)
(* Adapter's; here it is connected, may ask the game to quit, and leaves.  *)
(***************************************************************************)
EXTENDS Integers, FiniteSets

CONSTANTS
  Claimant,  (* the processes of mechcore                                  *)
  Asks,      (* Asks[c]: what c is run for, the verb and how to launch     *)
  MaxGames   (* bound on the games mechcore starts                         *)

How == [headless : BOOLEAN, offline : BOOLEAN, adapter : {"mine", "older"}]
Verbs == {"launch", "join", "attach"}

ASSUME AcquireAssumption ==
  /\ MaxGames \in Nat
  /\ \A c \in Claimant : Asks[c] \subseteq [verb : Verbs, how : How]

(* Game 0 is there at the start or never, the player's; mechcore starts    *)
(* the others, one after the other.                                        *)
Game == 0..MaxGames
NoGame == -1
NoAsk == [verb |-> "none"]

VARIABLES
  phase,     (* where each game stands                                     *)
  how,       (* how it was started, its Adapter included                   *)
  lingers,   (* the games that quit when nobody wants them                 *)
  endpoint,  (* the game whose socket the path names                       *)
  conns,     (* who is connected to each game                              *)
  at,        (* where each claimant stands                                 *)
  ask,       (* what it was run for                                        *)
  found,     (* what its last probe observed                               *)
  met,       (* the game it is connected to                                *)
  late,      (* the deadline of its present wait has passed                *)
  leaver     (* history: the game that told it to wait                     *)

gameVars == <<phase, how, lingers, endpoint>>
claimVars == <<conns, at, ask, found, met, late, leaver>>
acqVars == <<gameVars, claimVars>>

(* exec is a sandboxed game's process before it is the game's executable,  *)
(* boot before its Adapter has looked at the path; clear and bind are      *)
(* bind_listener's own steps; foreign is a game without an Adapter, or     *)
(* whose Adapter gave up; stop is a game about to quit, leaving one that   *)
(* says so, and exit one that has unlinked the path.                       *)
Phases == {"none", "exec", "boot", "clear", "bind", "foreign", "up", "stop",
           "leaving", "exit", "gone"}

(* The processes game_processes() lists.                                   *)
Running == {g \in Game : phase[g] \notin {"none", "exec", "gone"}}
Serving(g) == phase[g] \in {"up", "stop", "leaving"}

AcqTypeOK ==
  /\ phase \in [Game -> Phases]
  /\ how \in [Game -> How]
  /\ lingers \subseteq Game
  /\ endpoint \in Game \cup {NoGame}
  /\ conns \in [Game -> SUBSET Claimant]
  /\ at \in [Claimant -> {"idle", "probe", "wait", "waitlook", "queue", "quit",
                          "quitting", "retire", "unlinked", "look", "spawn",
                          "poll", "joined"}]
  /\ ask \in [Claimant -> [verb : Verbs, how : How] \cup {NoAsk}]
  /\ found \in [Claimant -> {"none", "idle", "leaving", "unresponsive",
                             "protocol"}]
  /\ met \in [Claimant -> Game \cup {NoGame}]
  /\ \A g \in Game : \A c \in conns[g] : met[c] = g
  /\ late \in [Claimant -> BOOLEAN]
  /\ leaver \in [Claimant -> Game \cup {NoGame}]

(* Nothing runs, the player's own game does, or one injected by hand; the  *)
(* path may be left over from a game that was killed.                      *)
AcqInit ==
  /\ \E p \in {"none", "foreign", "up", "gone"} :
       /\ phase = [g \in Game |-> IF g = 0 THEN p ELSE "none"]
       /\ endpoint = IF p \in {"up", "gone"} THEN 0 ELSE NoGame
  /\ \E h \in {a.how : a \in UNION {Asks[c] : c \in Claimant}} :
       how = [g \in Game |-> h]
  /\ lingers = {}
  /\ conns = [g \in Game |-> {}]
  /\ at = [c \in Claimant |-> "idle"]
  /\ ask = [c \in Claimant |-> NoAsk]
  /\ found = [c \in Claimant |-> "none"]
  /\ met = [c \in Claimant |-> NoGame]
  /\ late = [c \in Claimant |-> FALSE]
  /\ leaver = [c \in Claimant |-> NoGame]

-----------------------------------------------------------------------------
(* A claimant's state.                                                     *)

Goes(c, place) == at' = [at EXCEPT ![c] = place]

Disconnected(c) ==
  /\ conns' = [g \in Game |-> conns[g] \ {c}]
  /\ met' = [met EXCEPT ![c] = NoGame]

Connected(c) ==
  /\ conns' = [conns EXCEPT ![endpoint] = @ \cup {c}]
  /\ met' = [met EXCEPT ![c] = endpoint]

(* The acquisition is over.                                                *)
Ends(c, place) ==
  /\ Goes(c, place)
  /\ found' = [found EXCEPT ![c] = "none"]
  /\ late' = [late EXCEPT ![c] = FALSE]
  /\ leaver' = [leaver EXCEPT ![c] = NoGame]

Idles(c) ==
  /\ Ends(c, "idle")
  /\ ask' = [ask EXCEPT ![c] = NoAsk]
  /\ Disconnected(c)

(* The acquisition is refused: the connection, if any, is dropped.         *)
Refused(c) == Idles(c) /\ UNCHANGED gameVars

(* A wait begins: its deadline is ahead.                                   *)
Waits(c, place) == Goes(c, place) /\ late' = [late EXCEPT ![c] = FALSE]

(* probe_endpoint(): one connection attempt, and what it observed.  A      *)
(* build's protocol may or may not be an older build's.                    *)
Observed(c) ==
  IF endpoint = NoGame \/ ~ Serving(endpoint) THEN {"none"}
  ELSE {"unresponsive"}
    \cup (IF phase[endpoint] = "leaving" THEN {"leaving"} ELSE {"idle"})
    \cup (IF how[endpoint].adapter # ask[c].how.adapter THEN {"protocol"}
                                                        ELSE {})

Probes(c, p) ==
  /\ p \in Observed(c)
  /\ found' = [found EXCEPT ![c] = p]
  /\ IF p = "idle" THEN Connected(c) ELSE UNCHANGED <<conns, met>>
  /\ leaver' = [leaver EXCEPT ![c] = IF p = "leaving" THEN endpoint ELSE @]

FitsAdapterOnly(h, w) == h.adapter = w.adapter  (* slip: offline forgotten *)

(* unfit() finds nothing against the game: its Adapter is the installed    *)
(* one, it has a window where one is wanted, and the network or not.       *)
Fits(h, w) ==
  /\ h.adapter = w.adapter
  /\ h.headless => w.headless
  /\ h.offline = w.offline

Unfit(c, g) == g \in lingers /\ ~ Fits(how[g], ask[c].how)

(* Where a probe that is no longer to be waited for leads.                 *)
AfterProbe(c, p) ==
  IF p = "idle" /\ ask[c].verb = "launch" /\ Unfit(c, endpoint)
  THEN "queue" ELSE "look"

-----------------------------------------------------------------------------
(* acquire().                                                              *)

Begin(c) ==
  /\ at[c] = "idle"
  /\ Goes(c, "probe")
  /\ \E a \in Asks[c] : ask' = [ask EXCEPT ![c] = a]
  /\ UNCHANGED <<gameVars, conns, found, met, late, leaver>>

FirstProbe(c) ==
  /\ at[c] = "probe"
  /\ \E p \in Observed(c) :
       /\ Probes(c, p)
       /\ Goes(c, IF p = "leaving" THEN "wait" ELSE AfterProbe(c, p))
  /\ UNCHANGED <<gameVars, ask, late>>

NeverGivesUp(c) == FALSE  (* slip: no deadline on a game that is quitting *)

(* LEAVING_TIMEOUT has passed.                                             *)
GivesUp(c) == late[c]

(* wait_for_the_game(): the claim is made again ...                        *)
WaitProbe(c) ==
  /\ at[c] = "wait"
  /\ \E p \in Observed(c) :
       /\ Probes(c, p)
       /\ Goes(c, CASE p = "none" -> "waitlook"
                    [] p = "leaving" /\ ~ GivesUp(c) -> "wait"
                    [] OTHER -> AfterProbe(c, p))
  /\ UNCHANGED <<gameVars, ask, late>>

PathGone(c) == TRUE  (* slip: the path alone says the game has gone *)

(* ... and a path that is gone is not yet a game that is gone.             *)
GameGone(c) == Running = {}

WaitLook(c) ==
  /\ at[c] = "waitlook"
  /\ Goes(c, IF GameGone(c) \/ GivesUp(c) THEN "look" ELSE "wait")
  /\ UNCHANGED <<gameVars, conns, ask, found, met, late, leaver>>

(* retire(): adapter_busy when others are connected, of whom a question    *)
(* that fails finds none.                                                  *)
AskQueue(c) ==
  /\ at[c] = "queue"
  /\ Goes(c, "quit")
  /\ UNCHANGED <<gameVars, conns, ask, found, met, late, leaver>>

RetireRefused(c) ==
  /\ at[c] = "queue"
  /\ phase[met[c]] \in {"up", "stop"}
  /\ conns[met[c]] # {c}
  /\ Refused(c)

(* Then quit_game, which a game already stopping does not answer.          *)
AskQuit(c) ==
  /\ at[c] = "quit"
  /\ phase[met[c]] = "up"
  /\ phase' = [phase EXCEPT ![met[c]] = "stop"]
  /\ Goes(c, "quitting")
  /\ UNCHANGED <<how, lingers, endpoint, conns, ask, found, met, late, leaver>>

QuitAnswered(c) ==
  /\ at[c] = "quitting"
  /\ phase[met[c]] \in {"leaving", "exit"}
  /\ Waits(c, "retire")
  /\ Disconnected(c)
  /\ UNCHANGED <<gameVars, ask, found, leaver>>

(* The request times out, or its connection ends with the process.         *)
QuitFails(c) == at[c] \in {"quit", "quitting"} /\ Refused(c)

(* The process first, then the path, until RETIRE_TIMEOUT.                 *)
RetireLook(c) ==
  /\ at[c] = "retire"
  /\ IF Running = {}
     THEN /\ Goes(c, "unlinked")
          /\ UNCHANGED <<gameVars, conns, ask, found, met, late, leaver>>
     ELSE late[c] /\ Refused(c)

RetireEnds(c) ==
  /\ at[c] = "unlinked"
  /\ IF endpoint # NoGame /\ late[c] THEN Refused(c)
     ELSE /\ Goes(c, IF endpoint = NoGame THEN "look" ELSE "retire")
          /\ found' = [found EXCEPT ![c] = "none"]
          /\ UNCHANGED <<gameVars, conns, ask, met, late, leaver>>

PathTells(c) == TRUE  (* slip: where nothing answers nothing runs *)
NoneRuns(c) == Running = {}

(* The state matrix, over the probe and a list of processes taken after:   *)
(* adapter_unresponsive, protocol_mismatch, foreign_game and no_game.      *)
LookRefuses(c) ==
  /\ at[c] = "look"
  /\ \/ found[c] \in {"leaving", "unresponsive", "protocol"}
     \/ found[c] = "none" /\ (~ NoneRuns(c) \/ ask[c].verb = "attach")
  /\ Refused(c)

LookJoins(c) ==
  /\ at[c] = "look" /\ found[c] = "idle"
  /\ Ends(c, "joined")
  /\ UNCHANGED <<gameVars, conns, ask, met>>

LookLaunches(c) ==
  /\ at[c] = "look" /\ found[c] = "none"
  /\ NoneRuns(c) /\ ask[c].verb # "attach"
  /\ Ends(c, "spawn")
  /\ UNCHANGED <<gameVars, conns, ask, met>>

-----------------------------------------------------------------------------
(* launch().                                                               *)

(* An offline game is started through the sandbox's own executable.        *)
StartsAs(w) == IF w.offline THEN "exec" ELSE "boot"

Spawn(c) ==
  /\ at[c] = "spawn"
  /\ \E g \in Game \ {0} :
       /\ phase[g] = "none"
       /\ \A h \in 1..(g - 1) : phase[h] # "none"
       /\ phase' = [phase EXCEPT ![g] = StartsAs(ask[c].how)]
       /\ how' = [how EXCEPT ![g] = ask[c].how]
       /\ lingers' = lingers \cup {g}
  /\ Waits(c, "poll")
  /\ UNCHANGED <<endpoint, conns, ask, found, met, leaver>>

(* No Adapter, no game or no log.                                          *)
SpawnFails(c) == at[c] = "spawn" /\ Refused(c)

(* The path is probed until a game answers there, whoever started it, or   *)
(* LAUNCH_TIMEOUT.                                                         *)
PollJoins(c) ==
  /\ at[c] = "poll"
  /\ "idle" \in Observed(c)
  /\ Connected(c)
  /\ Ends(c, "joined")
  /\ UNCHANGED <<gameVars, ask>>

PollFails(c) ==
  /\ at[c] = "poll"
  /\ \/ "protocol" \in Observed(c)
     \/ late[c]
  /\ Refused(c)

(* The deadline of a wait.  The sandbox has made way for the game it was   *)
(* to start long before LAUNCH_TIMEOUT.                                    *)
Deadline(c) ==
  /\ at[c] \in {"wait", "waitlook", "retire", "unlinked", "poll"}
  /\ ~ late[c]
  /\ at[c] = "poll" => \A g \in Game : phase[g] # "exec"
  /\ late' = [late EXCEPT ![c] = TRUE]
  /\ UNCHANGED <<gameVars, conns, at, ask, found, met, leaver>>

-----------------------------------------------------------------------------
(* A session that has its game.                                            *)

Leave(c) ==
  /\ at[c] = "joined"
  /\ Idles(c)
  /\ UNCHANGED gameVars

UserQuits(c) ==
  /\ at[c] = "joined"
  /\ phase[met[c]] = "up"
  /\ phase' = [phase EXCEPT ![met[c]] = "stop"]
  /\ UNCHANGED <<how, lingers, endpoint, claimVars>>

-----------------------------------------------------------------------------
(* The game's process and its Adapter.                                     *)

Becomes(g, p) ==
  /\ phase' = [phase EXCEPT ![g] = p]
  /\ UNCHANGED <<how, lingers, claimVars>>

Exec(g) == phase[g] = "exec" /\ Becomes(g, "boot") /\ UNCHANGED endpoint

(* bind_listener(): a path that answers is left alone, and the game goes   *)
(* on without an Adapter.                                                  *)
BindLook(g) ==
  /\ phase[g] = "boot"
  /\ Becomes(g, IF endpoint = NoGame THEN "bind"
                ELSE IF Serving(endpoint) THEN "foreign" ELSE "clear")
  /\ UNCHANGED endpoint

BindClear(g) ==
  /\ phase[g] = "clear"
  /\ Becomes(g, IF endpoint = NoGame THEN "foreign" ELSE "bind")
  /\ endpoint' = NoGame

Bind(g) ==
  /\ phase[g] = "bind"
  /\ Becomes(g, IF endpoint = NoGame THEN "up" ELSE "foreign")
  /\ endpoint' = IF endpoint = NoGame THEN g ELSE endpoint

(* A lingering game nobody is connected to decides to go.                  *)
Linger(g) ==
  /\ phase[g] = "up" /\ g \in lingers /\ conns[g] = {}
  /\ Becomes(g, "stop")
  /\ UNCHANGED endpoint

UnlinksEarly(g) == NoGame   (* slip: the path goes before the process *)
PathKept(g) == endpoint

(* quit(): from here on every claim is told.  The path stays.              *)
Quit(g) ==
  /\ phase[g] = "stop"
  /\ Becomes(g, "leaving")
  /\ endpoint' = PathKept(g)

(* The exit handler unlinks the path, whatever socket it names.  Unity     *)
(* exits when it was asked to, when the player closes it, or when the      *)
(* Adapter ends it.                                                        *)
Exit(g) ==
  /\ Serving(g)
  /\ Becomes(g, "exit")
  /\ endpoint' = NoGame

(* A process goes, or is killed, which leaves the path as it is.           *)
Gone(g) ==
  /\ phase[g] \notin {"none", "gone"}
  /\ phase' = [phase EXCEPT ![g] = "gone"]
  /\ conns' = [conns EXCEPT ![g] = {}]
  /\ UNCHANGED <<how, lingers, endpoint, at, ask, found, met, late, leaver>>

Claims(c) ==
  \/ FirstProbe(c) \/ WaitProbe(c) \/ WaitLook(c)
  \/ AskQueue(c) \/ RetireRefused(c) \/ AskQuit(c) \/ QuitAnswered(c)
  \/ QuitFails(c) \/ RetireLook(c) \/ RetireEnds(c)
  \/ LookRefuses(c) \/ LookJoins(c) \/ LookLaunches(c)
  \/ Spawn(c) \/ SpawnFails(c) \/ PollJoins(c) \/ PollFails(c)
Session(c) == Begin(c) \/ Leave(c) \/ UserQuits(c)
Adapter(g) ==
  \/ Exec(g) \/ BindLook(g) \/ BindClear(g) \/ Bind(g) \/ Linger(g)
  \/ Quit(g) \/ Exit(g) \/ Gone(g)

AcqNext ==
  \/ \E c \in Claimant : Session(c) \/ Claims(c) \/ Deadline(c)
  \/ \E g \in Game : Adapter(g)

(* The claimants run and the clock does.  The sandbox starts what it was   *)
(* given.  Nothing else is asked of the game, which may stand for ever.    *)
AcqFairness ==
  /\ \A c \in Claimant : WF_acqVars(Claims(c)) /\ WF_acqVars(Deadline(c))
  /\ \A g \in Game : WF_acqVars(Exec(g))

AcqSpec == AcqInit /\ [][AcqNext]_acqVars /\ AcqFairness
-----------------------------------------------------------------------------
(* "A second instance would corrupt both": never do two games run.         *)
OneInstance ==
  Cardinality({g \in Game : phase[g] \notin {"none", "gone"}}) <= 1

(* A game with an Adapter is where a claim finds it until it exits: the    *)
(* path is its socket's, whatever earlier games left there.                *)
Reachable == \A g \in Game : Serving(g) => endpoint = g

(* A claim that was told to wait is not refused because of the game that   *)
(* told it, unless that game outstayed the wait.                           *)
WaitedOut ==
  \A c \in Claimant :
    at[c] = "look" /\ found[c] = "none" /\ leaver[c] # NoGame /\ ~ late[c]
      => phase[leaver[c]] = "gone"

(* "Offline is a promise about the whole run, so a game with the network   *)
(* does not serve an offline launch", nor a game without a window one that *)
(* wants it: what a launch is answered with, if mechcore started it, can   *)
(* do its work, whether it was found, waited for or started.               *)
ServedAsAsked ==
  \A c \in Claimant :
    at[c] = "joined" /\ ask[c].verb = "launch" /\ met[c] \in lingers =>
      LET h == how[met[c]] IN
      /\ h.offline = ask[c].how.offline
      /\ h.headless => ask[c].how.headless
      /\ h.adapter = ask[c].how.adapter

(* An acquisition comes to an end, whatever the game does or does not do.  *)
AcquireEnds ==
  \A c \in Claimant :
    at[c] \notin {"idle", "joined"} ~> at[c] \in {"idle", "joined"}
=============================================================================
