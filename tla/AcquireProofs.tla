---------------------------- MODULE AcquireProofs ----------------------------
(***************************************************************************)
(* A claim that was told to wait is never refused because of the game that *)
(* told it, for any number of claimants, whatever they were run for, and   *)
(* of games, launches that overlap included.  Where one claimant launches  *)
(* and the others attach, one game runs at a time, it is found at the path *)
(* while it serves, and the launch gets what it asked for.                 *)
(***************************************************************************)
EXTENDS Acquire, FiniteSetTheorems, TLAPS

(* A claimant whose acquisition has found no game has no connection: what  *)
(* the consistency of conns and met rests on when it connects.             *)
Unmet ==
  \A c \in Claimant :
    \/ at[c] \in {"idle", "probe", "wait", "waitlook", "retire", "unlinked",
                  "spawn", "poll"}
    \/ at[c] = "look" /\ found[c] # "idle"
    => met[c] = NoGame

(* A game that told a claim to wait can only go on to its exit.            *)
LeaverLeaves ==
  \A c \in Claimant :
    leaver[c] # NoGame => phase[leaver[c]] \in {"leaving", "exit", "gone"}

(* One that retired a game it waited for has seen every process gone.      *)
Unlinked ==
  \A c \in Claimant :
    at[c] = "unlinked" /\ leaver[c] # NoGame => phase[leaver[c]] = "gone"

(* A claimant that is not idle was run for something.                      *)
Asked ==
  \A c \in Claimant : at[c] # "idle" => ask[c] \in [verb : Verbs, how : How]

(* A claim that has just begun has been told nothing.                      *)
Fresh ==
  \A c \in Claimant : at[c] \in {"idle", "probe"} => leaver[c] = NoGame

AcqInv == AcqTypeOK /\ Unmet /\ Asked
WaitInv == AcqInv /\ Fresh /\ LeaverLeaves /\ Unlinked /\ WaitedOut

-----------------------------------------------------------------------------
LEMMA NoGameIsNone == NoGame \notin Game
PROOF
  BY AcquireAssumption DEF AcquireAssumption, NoGame, Game

(* An acquisition that ends, refused or not, keeps the types.              *)
LEMMA RefusedKeeps ==
  ASSUME AcqInv, NEW c \in Claimant, Idles(c),
         phase' = phase, how' = how, lingers' = lingers, endpoint' = endpoint
  PROVE  AcqInv'
PROOF
  <1> USE NoGameIsNone DEF AcqInv, Idles, Ends, Goes, Disconnected
  <1>1. AcqTypeOK'
    BY DEF AcqTypeOK
  <1>2. Unmet'
    BY DEF AcqTypeOK, Unmet
  <1>3. Asked'
    BY DEF AcqTypeOK, Asked
  <1> QED
    BY <1>1, <1>2, <1>3

(* A connection is made by a claimant that had none.                       *)
LEMMA ConnectedKeeps ==
  ASSUME AcqTypeOK, NEW c \in Claimant, met[c] = NoGame, endpoint \in Game,
         Connected(c)
  PROVE  /\ conns' \in [Game -> SUBSET Claimant]
         /\ met' \in [Claimant -> Game \cup {NoGame}]
         /\ \A g \in Game : \A d \in conns'[g] : met'[d] = g
PROOF
  BY NoGameIsNone DEF AcqTypeOK, Connected

LEMMA ObservedIdle ==
  ASSUME AcqTypeOK, NEW c \in Claimant, NEW p \in Observed(c)
  PROVE  /\ p \in {"none", "idle", "leaving", "unresponsive", "protocol"}
         /\ p # "none" => endpoint \in Game
         /\ p = "leaving" => phase[endpoint] = "leaving"
PROOF
  BY DEF AcqTypeOK, Observed

LEMMA ProbesKeeps ==
  ASSUME AcqTypeOK, NEW c \in Claimant, met[c] = NoGame,
         NEW p \in Observed(c), Probes(c, p)
  PROVE  /\ conns' \in [Game -> SUBSET Claimant]
         /\ met' \in [Claimant -> Game \cup {NoGame}]
         /\ \A g \in Game : \A d \in conns'[g] : met'[d] = g
         /\ found' = [found EXCEPT ![c] = p]
         /\ leaver' \in [Claimant -> Game \cup {NoGame}]
         /\ p # "idle" => met' = met
         /\ \A d \in Claimant \ {c} : met'[d] = met[d]
PROOF
  <1>1. CASE p = "idle"
    <2>1. endpoint \in Game
      BY <1>1, ObservedIdle
    <2>2. Connected(c)
      BY <1>1 DEF Probes
    <2>3. /\ conns' \in [Game -> SUBSET Claimant]
          /\ met' \in [Claimant -> Game \cup {NoGame}]
          /\ \A g \in Game : \A d \in conns'[g] : met'[d] = g
      BY <2>1, <2>2, ConnectedKeeps
    <2>4. /\ found' = [found EXCEPT ![c] = p]
          /\ leaver' \in [Claimant -> Game \cup {NoGame}]
      BY <2>1 DEF AcqTypeOK, Probes
    <2>5. \A d \in Claimant \ {c} : met'[d] = met[d]
      BY <2>2 DEF AcqTypeOK, Connected
    <2> QED
      BY <1>1, <2>3, <2>4, <2>5
  <1>2. CASE p # "idle"
    BY <1>2, ObservedIdle DEF AcqTypeOK, Probes
  <1> QED
    BY <1>1, <1>2

LEMMA AcqInitInv == AcqInit => WaitInv
PROOF
  <1> SUFFICES ASSUME AcqInit PROVE WaitInv
    OBVIOUS
  <1>1. 0 \in Game /\ phase \in [Game -> Phases]
    BY AcquireAssumption DEF AcquireAssumption, AcqInit, Game, Phases
  <1>2. how \in [Game -> How]
    BY AcquireAssumption DEF AcquireAssumption, AcqInit
  <1>3. AcqTypeOK
    BY <1>1, <1>2 DEF AcqInit, AcqTypeOK
  <1> QED
    BY <1>3 DEF AcqInit, WaitInv, AcqInv, Unmet, Asked, Fresh, LeaverLeaves,
                Unlinked, WaitedOut

-----------------------------------------------------------------------------
(* The claimants' steps keep the types.                                    *)

LEMMA ClaimKeeps ==
  ASSUME AcqInv, NEW c \in Claimant, Claims(c)
  PROVE  AcqInv'
PROOF
  <1> USE NoGameIsNone DEF AcqInv, Asked, gameVars
  <1>1. CASE FirstProbe(c)
    <2>1. PICK p \in Observed(c) :
            /\ Probes(c, p)
            /\ Goes(c, IF p = "leaving" THEN "wait" ELSE AfterProbe(c, p))
      BY <1>1 DEF FirstProbe
    <2>2. met[c] = NoGame
      BY <1>1 DEF FirstProbe, Unmet
    <2>3. AcqTypeOK'
      BY <1>1, <2>1, <2>2, ProbesKeeps, ObservedIdle
         DEF FirstProbe, AcqTypeOK, Goes, AfterProbe
    <2>4. Unmet'
      BY <1>1, <2>1, <2>2, ProbesKeeps, ObservedIdle
         DEF FirstProbe, AcqTypeOK, Goes, AfterProbe, Unmet
    <2>5. Asked'
      BY <1>1, <2>1 DEF FirstProbe, AcqTypeOK, Goes
    <2> QED
      BY <2>3, <2>4, <2>5
  <1>2. CASE WaitProbe(c)
    <2>1. PICK p \in Observed(c) :
            /\ Probes(c, p)
            /\ Goes(c, CASE p = "none" -> "waitlook"
                         [] p = "leaving" /\ ~ GivesUp(c) -> "wait"
                         [] OTHER -> AfterProbe(c, p))
      BY <1>2 DEF WaitProbe
    <2>2. met[c] = NoGame
      BY <1>2 DEF WaitProbe, Unmet
    <2>3. AcqTypeOK'
      BY <1>2, <2>1, <2>2, ProbesKeeps, ObservedIdle
         DEF WaitProbe, AcqTypeOK, Goes, AfterProbe
    <2>4. Unmet'
      BY <1>2, <2>1, <2>2, ProbesKeeps, ObservedIdle
         DEF WaitProbe, AcqTypeOK, Goes, AfterProbe, Unmet
    <2>5. Asked'
      BY <1>2, <2>1 DEF WaitProbe, AcqTypeOK, Goes
    <2> QED
      BY <2>3, <2>4, <2>5
  <1>3. CASE WaitLook(c)
    BY <1>3 DEF WaitLook, AcqTypeOK, Goes, Unmet
  <1>4. CASE AskQueue(c)
    BY <1>4 DEF AskQueue, AcqTypeOK, Goes, Unmet
  <1>5. CASE \/ RetireRefused(c) \/ QuitFails(c) \/ LookRefuses(c)
             \/ SpawnFails(c) \/ PollFails(c)
    BY <1>5, RefusedKeeps
       DEF RetireRefused, QuitFails, LookRefuses, SpawnFails, PollFails, Refused
  <1>6. CASE AskQuit(c)
    BY <1>6 DEF AskQuit, AcqTypeOK, Goes, Unmet, Phases
  <1>7. CASE QuitAnswered(c)
    BY <1>7 DEF QuitAnswered, Waits, Disconnected, AcqTypeOK, Goes, Unmet
  <1>8. CASE RetireLook(c)
    <2>1. CASE Running = {}
      BY <1>8, <2>1 DEF RetireLook, AcqTypeOK, Goes, Unmet
    <2>2. CASE Running # {}
      BY <1>8, <2>2, RefusedKeeps DEF RetireLook, Refused
    <2> QED
      BY <2>1, <2>2
  <1>9. CASE RetireEnds(c)
    <2>1. CASE endpoint # NoGame /\ late[c]
      BY <1>9, <2>1, RefusedKeeps DEF RetireEnds, Refused
    <2>2. CASE ~ (endpoint # NoGame /\ late[c])
      BY <1>9, <2>2 DEF RetireEnds, AcqTypeOK, Goes, Unmet
    <2> QED
      BY <2>1, <2>2
  <1>10. CASE LookJoins(c) \/ LookLaunches(c)
    <2>1. AcqTypeOK'
      BY <1>10 DEF LookJoins, LookLaunches, Ends, AcqTypeOK, Goes
    <2>2. Asked'
      BY <1>10 DEF LookJoins, LookLaunches, Ends, AcqTypeOK, Goes
    <2>3. ASSUME LookJoins(c) PROVE Unmet'
      BY <2>3 DEF LookJoins, Ends, AcqTypeOK, Goes, Unmet
    <2>4. ASSUME LookLaunches(c) PROVE Unmet'
      BY <2>4 DEF LookLaunches, Ends, AcqTypeOK, Goes, Unmet
    <2> QED
      BY <1>10, <2>1, <2>2, <2>3, <2>4
  <1>11. CASE Spawn(c)
    <2>1. PICK g \in Game \ {0} :
            /\ phase' = [phase EXCEPT ![g] = StartsAs(ask[c].how)]
            /\ how' = [how EXCEPT ![g] = ask[c].how]
            /\ lingers' = lingers \cup {g}
      BY <1>11 DEF Spawn
    <2>2. ask[c].how \in How
      BY <1>11 DEF Spawn
    <2>3. /\ phase' \in [Game -> Phases]
          /\ how' \in [Game -> How]
          /\ lingers' \subseteq Game
      BY <2>1, <2>2 DEF StartsAs, AcqTypeOK, Phases
    <2>4. AcqTypeOK'
      BY <1>11, <2>3 DEF Spawn, Waits, AcqTypeOK, Goes
    <2>5. Unmet' /\ Asked'
      BY <1>11 DEF Spawn, Waits, AcqTypeOK, Goes, Unmet
    <2> QED
      BY <2>4, <2>5
  <1>12. CASE PollJoins(c)
    <2>1. endpoint \in Game /\ met[c] = NoGame
      BY <1>12, ObservedIdle DEF PollJoins, Unmet
    <2>2. /\ conns' \in [Game -> SUBSET Claimant]
          /\ met' \in [Claimant -> Game \cup {NoGame}]
          /\ \A g \in Game : \A d \in conns'[g] : met'[d] = g
      BY <1>12, <2>1, ConnectedKeeps DEF PollJoins
    <2>3. AcqTypeOK'
      BY <1>12, <2>2 DEF PollJoins, Ends, AcqTypeOK, Goes
    <2>4. Unmet' /\ Asked'
      BY <1>12 DEF PollJoins, Ends, AcqTypeOK, Goes, Unmet, Connected
    <2> QED
      BY <2>3, <2>4
  <1> QED
    BY <1>1, <1>2, <1>3, <1>4, <1>5, <1>6, <1>7, <1>8, <1>9, <1>10, <1>11,
       <1>12 DEF Claims

LEMMA SessionKeeps ==
  ASSUME AcqInv, NEW c \in Claimant, Session(c) \/ Deadline(c)
  PROVE  AcqInv'
PROOF
  <1> USE DEF AcqInv, Asked, gameVars
  <1>1. CASE Begin(c)
    BY <1>1, AcquireAssumption
       DEF AcquireAssumption, Begin, AcqTypeOK, Goes, Unmet
  <1>2. CASE Leave(c)
    BY <1>2, RefusedKeeps DEF Leave
  <1>3. CASE UserQuits(c)
    BY <1>3 DEF UserQuits, claimVars, AcqTypeOK, Unmet, Phases
  <1>4. CASE Deadline(c)
    BY <1>4 DEF Deadline, AcqTypeOK, Unmet
  <1> QED
    BY <1>1, <1>2, <1>3, <1>4 DEF Session

LEMMA AdapterKeeps ==
  ASSUME AcqInv, NEW g \in Game, Adapter(g)
  PROVE  AcqInv'
PROOF
  <1> USE DEF AcqInv, Asked, claimVars, Phases
  <1>1. CASE \/ Exec(g) \/ BindLook(g) \/ BindClear(g) \/ Bind(g) \/ Linger(g)
             \/ Quit(g) \/ Exit(g)
    <2>1. PICK p \in Phases : Becomes(g, p)
      BY <1>1 DEF Exec, BindLook, BindClear, Bind, Linger, Quit, Exit
    <2>2. endpoint' \in Game \cup {NoGame}
      BY <1>1 DEF Exec, BindLook, BindClear, Bind, Linger, Quit, Exit, PathKept,
                  AcqTypeOK
    <2> QED
      BY <2>1, <2>2 DEF Becomes, AcqTypeOK, Unmet
  <1>2. CASE Gone(g)
    BY <1>2 DEF Gone, AcqTypeOK, Unmet
  <1> QED
    BY <1>1, <1>2 DEF Adapter

-----------------------------------------------------------------------------
(* The wait: no step takes a game that leaves back, or a claim past it.    *)

(* A game only goes forward from where it says that it is leaving.         *)
LEMMA LeavingGoes ==
  ASSUME AcqInv, AcqNext, NEW g \in Game
  PROVE  /\ phase[g] \in {"leaving", "exit", "gone"}
              => phase'[g] \in {"leaving", "exit", "gone"}
         /\ phase[g] = "gone" => phase'[g] = "gone"
PROOF
  <1> USE DEF AcqInv, AcqTypeOK, gameVars, claimVars
  <1>1. ASSUME NEW c \in Claimant, Claims(c) PROVE phase' = phase
          \/ \E h \in Game : /\ phase[h] \in {"up", "none"}
                            /\ \E p \in Phases : phase' = [phase EXCEPT ![h] = p]
    <2>1. CASE AskQuit(c)
      BY <2>1 DEF AskQuit, Phases
    <2>2. CASE Spawn(c)
      BY <2>2 DEF Spawn, StartsAs, Phases
    <2> QED
      BY <1>1, <2>1, <2>2
         DEF Claims, FirstProbe, WaitProbe, WaitLook, AskQueue, RetireRefused,
             QuitAnswered, QuitFails, RetireLook, RetireEnds, LookRefuses,
             LookJoins, LookLaunches, SpawnFails, PollJoins, PollFails, Refused
  <1>2. ASSUME NEW c \in Claimant, Session(c) \/ Deadline(c) PROVE phase' = phase
          \/ \E h \in Game : /\ phase[h] = "up"
                            /\ phase' = [phase EXCEPT ![h] = "stop"]
    BY <1>2 DEF Session, Begin, Leave, UserQuits, Deadline
  <1>3. ASSUME NEW h \in Game, Adapter(h)
        PROVE \E p \in Phases :
                /\ phase' = [phase EXCEPT ![h] = p]
                /\ phase[h] \in {"leaving", "exit"} => p \in {"exit", "gone"}
                /\ phase[h] = "gone" => p = "gone"
    BY <1>3 DEF Adapter, Exec, BindLook, BindClear, Bind, Linger, Quit, Exit,
                Gone, Becomes, Serving, Phases
  <1> QED
    BY <1>1, <1>2, <1>3 DEF AcqNext

(* What a claimant's step may change of a claimant: its own.               *)
LEMMA OthersStand ==
  ASSUME AcqInv, NEW c \in Claimant, NEW d \in Claimant, d # c,
         Session(d) \/ Claims(d) \/ Deadline(d)
  PROVE  /\ leaver'[c] = leaver[c] /\ at'[c] = at[c]
         /\ found'[c] = found[c] /\ late'[c] = late[c]
         /\ ask'[c] = ask[c] /\ met'[c] = met[c]
PROOF
  <1> USE DEF AcqInv, AcqTypeOK, Goes, Ends, Refused, Idles, Waits, Probes,
              Connected, Disconnected
  <1>1. CASE Session(d) \/ Deadline(d)
    BY <1>1 DEF Session, Begin, Leave, UserQuits, Deadline, claimVars
  <1>2. CASE FirstProbe(d) \/ WaitProbe(d) \/ WaitLook(d)
    BY <1>2 DEF FirstProbe, WaitProbe, WaitLook
  <1>3. CASE \/ AskQueue(d) \/ RetireRefused(d) \/ AskQuit(d)
             \/ QuitAnswered(d) \/ QuitFails(d)
    BY <1>3 DEF AskQueue, RetireRefused, AskQuit, QuitAnswered, QuitFails
  <1>4. CASE RetireLook(d) \/ RetireEnds(d)
    BY <1>4 DEF RetireLook, RetireEnds
  <1>5. CASE LookRefuses(d) \/ LookJoins(d) \/ LookLaunches(d)
    BY <1>5 DEF LookRefuses, LookJoins, LookLaunches
  <1>6. CASE Spawn(d) \/ SpawnFails(d) \/ PollJoins(d) \/ PollFails(d)
    BY <1>6 DEF Spawn, SpawnFails, PollJoins, PollFails
  <1> QED
    BY <1>1, <1>2, <1>3, <1>4, <1>5, <1>6 DEF Claims

(* Where a claimant's own step leads, as far as its wait is concerned: the *)
(* game it waits for is one that leaves, and it comes to the path or to    *)
(* the state matrix, with no game found, only from the looks at what runs. *)
Follows(c) ==
  /\ at'[c] \in {"idle", "probe"} => leaver'[c] = NoGame
  /\ \/ leaver'[c] \in {leaver[c], NoGame}
     \/ leaver'[c] \in Game /\ phase[leaver'[c]] = "leaving"
  /\ at'[c] = "unlinked" =>
       /\ leaver'[c] = leaver[c]
       /\ at[c] = "unlinked" \/ Running = {}
  /\ at'[c] = "look" /\ found'[c] = "none" =>
       \/ leaver'[c] = NoGame
       \/ /\ leaver'[c] = leaver[c]
          /\ \/ at[c] = "look" /\ found[c] = "none" /\ late'[c] = late[c]
             \/ at[c] = "unlinked"
             \/ at[c] = "waitlook" /\ (Running = {} \/ late'[c])

LEMMA OwnStepFollows ==
  ASSUME AcqInv, NEW c \in Claimant,
         at[c] \in {"idle", "probe"} => leaver[c] = NoGame,
         Session(c) \/ Claims(c) \/ Deadline(c)
  PROVE  Follows(c)
PROOF
  <1> USE DEF AcqInv, AcqTypeOK, Goes, Follows
  <1>1. CASE Session(c) \/ Deadline(c)
    BY <1>1 DEF Session, Begin, Leave, UserQuits, Deadline, claimVars, Ends, Idles
  <1>2. CASE \/ RetireRefused(c) \/ QuitFails(c) \/ LookRefuses(c)
             \/ SpawnFails(c) \/ PollFails(c)
    BY <1>2 DEF RetireRefused, QuitFails, LookRefuses, SpawnFails, PollFails,
                Refused, Idles, Ends
  <1>3. CASE FirstProbe(c) \/ WaitProbe(c)
    <2>1. PICK p \in Observed(c) :
            /\ Probes(c, p)
            /\ \/ at'[c] # "look" /\ at'[c] # "unlinked"
               \/ p # "none"
               \/ at[c] = "probe"
      BY <1>3 DEF FirstProbe, WaitProbe, AfterProbe
    <2>2. /\ found'[c] = p
          /\ leaver'[c] = IF p = "leaving" THEN endpoint ELSE leaver[c]
      BY <2>1 DEF Probes
    <2>3. at'[c] \notin {"unlinked", "idle", "probe"}
      BY <1>3 DEF FirstProbe, WaitProbe, AfterProbe
    <2> QED
      BY <2>1, <2>2, <2>3, ObservedIdle, NoGameIsNone
  <1>4. CASE WaitLook(c)
    BY <1>4 DEF WaitLook, GameGone, GivesUp
  <1>5. CASE AskQueue(c) \/ AskQuit(c) \/ QuitAnswered(c) \/ Spawn(c)
    BY <1>5 DEF AskQueue, AskQuit, QuitAnswered, Waits, Spawn
  <1>6. CASE RetireLook(c) \/ RetireEnds(c)
    BY <1>6 DEF RetireLook, RetireEnds, Refused, Idles, Ends
  <1>7. CASE LookJoins(c) \/ LookLaunches(c) \/ PollJoins(c)
    BY <1>7 DEF LookJoins, LookLaunches, PollJoins, Ends
  <1> QED
    BY <1>1, <1>2, <1>3, <1>4, <1>5, <1>6, <1>7 DEF Claims

-----------------------------------------------------------------------------
(* The invariant is kept by every step.                                    *)

LEMMA AcqStep == AcqInv /\ [AcqNext]_acqVars => AcqInv'
PROOF
  <1> SUFFICES ASSUME AcqInv, [AcqNext]_acqVars PROVE AcqInv'
    OBVIOUS
  <1>1. CASE UNCHANGED acqVars
    BY <1>1 DEF acqVars, gameVars, claimVars, AcqInv, AcqTypeOK, Unmet, Asked
  <1>2. CASE AcqNext
    BY <1>2, ClaimKeeps, SessionKeeps, AdapterKeeps DEF AcqNext
  <1> QED
    BY <1>1, <1>2

(* A step of a game changes nothing of a claimant but its connection.      *)
LEMMA ClaimantsStand ==
  ASSUME NEW g \in Game, Adapter(g)
  PROVE  UNCHANGED <<at, ask, found, met, late, leaver>>
PROOF
  BY DEF Adapter, Exec, BindLook, BindClear, Bind, Linger, Quit, Exit, Gone,
         Becomes, claimVars

LEMMA EveryoneFollows ==
  ASSUME WaitInv, AcqNext, NEW c \in Claimant
  PROVE  \/ Follows(c)
         \/ /\ leaver'[c] = leaver[c] /\ at'[c] = at[c]
            /\ found'[c] = found[c] /\ late'[c] = late[c]
PROOF
  <1>1. CASE \E g \in Game : Adapter(g)
    BY <1>1, ClaimantsStand
  <1>2. CASE \E d \in Claimant : Session(d) \/ Claims(d) \/ Deadline(d)
    BY <1>2, OthersStand, OwnStepFollows DEF WaitInv, Fresh
  <1> QED
    BY <1>1, <1>2 DEF AcqNext

(* A deadline that has passed is only forgotten with the wait, and a game  *)
(* that leaves is not running once no game runs.                           *)
LEMMA WaitStep == WaitInv /\ [AcqNext]_acqVars => WaitInv'
PROOF
  <1> SUFFICES ASSUME WaitInv, [AcqNext]_acqVars PROVE WaitInv'
    OBVIOUS
  <1>1. CASE UNCHANGED acqVars
    BY <1>1 DEF acqVars, gameVars, claimVars, WaitInv, AcqInv, AcqTypeOK, Unmet,
                Asked, Fresh, LeaverLeaves, Unlinked, WaitedOut
  <1>2. CASE AcqNext
    <2>1. AcqInv'
      BY <1>2, AcqStep DEF WaitInv
    <2>2. Fresh'
      <3>1. ASSUME NEW c \in Claimant, at'[c] \in {"idle", "probe"}
            PROVE leaver'[c] = NoGame
        BY <1>2, <3>1, EveryoneFollows DEF Follows, WaitInv, Fresh
      <3> QED
        BY <3>1 DEF Fresh
    <2>3. LeaverLeaves'
      <3> SUFFICES ASSUME NEW c \in Claimant, leaver'[c] # NoGame
                   PROVE phase'[leaver'[c]] \in {"leaving", "exit", "gone"}
        BY DEF LeaverLeaves
      <3>1. /\ leaver'[c] \in Game
            /\ phase[leaver'[c]] \in {"leaving", "exit", "gone"}
        BY <1>2, <2>1, EveryoneFollows
           DEF Follows, WaitInv, AcqInv, AcqTypeOK, LeaverLeaves
      <3> QED
        BY <1>2, <3>1, LeavingGoes DEF WaitInv
    <2>4. ASSUME NEW c \in Claimant, leaver[c] # NoGame, Running = {}
          PROVE phase[leaver[c]] = "gone"
      BY <2>4 DEF WaitInv, AcqInv, AcqTypeOK, LeaverLeaves, Running
    <2>5. Unlinked'
      <3> SUFFICES ASSUME NEW c \in Claimant, at'[c] = "unlinked",
                          leaver'[c] # NoGame
                   PROVE phase'[leaver'[c]] = "gone"
        BY DEF Unlinked
      <3>1. leaver'[c] = leaver[c] /\ (at[c] = "unlinked" \/ Running = {})
        BY <1>2, EveryoneFollows DEF Follows
      <3>2. leaver[c] \in Game /\ phase[leaver[c]] = "gone"
        BY <3>1, <2>4 DEF WaitInv, AcqInv, AcqTypeOK, Unlinked
      <3> QED
        BY <1>2, <3>1, <3>2, LeavingGoes DEF WaitInv
    <2>6. WaitedOut'
      <3> SUFFICES ASSUME NEW c \in Claimant, at'[c] = "look",
                          found'[c] = "none", leaver'[c] # NoGame, ~ late'[c]
                   PROVE phase'[leaver'[c]] = "gone"
        BY DEF WaitedOut
      <3>1. /\ leaver'[c] = leaver[c]
            /\ \/ at[c] = "look" /\ found[c] = "none" /\ ~ late[c]
               \/ at[c] = "unlinked"
               \/ Running = {}
        BY <1>2, EveryoneFollows DEF Follows
      <3>2. leaver[c] \in Game /\ phase[leaver[c]] = "gone"
        BY <3>1, <2>4 DEF WaitInv, AcqInv, AcqTypeOK, Unlinked, WaitedOut
      <3> QED
        BY <1>2, <3>1, <3>2, LeavingGoes DEF WaitInv
    <2> QED
      BY <2>1, <2>2, <2>3, <2>5, <2>6 DEF WaitInv
  <1> QED
    BY <1>1, <1>2

-----------------------------------------------------------------------------
(* The types are kept, and a claimant is connected to the one game it met. *)
THEOREM AcquireTypeCorrect == AcqSpec => []AcqTypeOK
PROOF
  <1>1. AcqInit => AcqInv
    BY AcqInitInv DEF WaitInv
  <1>2. AcqInv => AcqTypeOK
    BY DEF AcqInv
  <1> QED
    BY <1>1, <1>2, AcqStep, PTL DEF AcqSpec

(* A claim that was told to wait is never refused as one that found a      *)
(* foreign game, or none, because of the game that told it, unless that    *)
(* game outstayed the wait: for any number of claimants and games.         *)
THEOREM WaitIsWaitedOut == AcqSpec => []WaitedOut
PROOF
  <1>1. WaitInv => WaitedOut
    BY DEF WaitInv
  <1> QED
    BY <1>1, AcqInitInv, WaitStep, PTL DEF AcqSpec

-----------------------------------------------------------------------------
(* The one launcher.                                                       *)

(* Only L launches, the player's game and any that attach aside: launches  *)
(* that overlap do race, each between its look at the processes and its    *)
(* start of one.                                                           *)
LaunchesAlone(L) ==
  /\ L \in Claimant
  /\ \A c \in Claimant \ {L} : \A a \in Asks[c] : a.verb = "attach"

Live == {g \in Game : phase[g] \notin {"none", "gone"}}

(* What a claimant was run for is one of the things it is, and one that    *)
(* attaches starts nothing.                                                *)
RunFor ==
  \A c \in Claimant :
    /\ at[c] # "idle" => ask[c] \in Asks[c]
    /\ at[c] = "spawn" => ask[c].verb # "attach"

(* One game is live.  None is when L starts one, and the sandbox has one   *)
(* to start only while L waits for it.                                     *)
OneLive(L) ==
  /\ \A g, h \in Live : g = h
  /\ at[L] = "spawn" => Live = {}
  /\ \A g \in Game : phase[g] = "exec" => at[L] = "poll" /\ ~ late[L]

(* What L finds, or starts, fits what it was run for, where mechcore       *)
(* started it.                                                             *)
Suits(g, w) == g \in lingers => Fits(how[g], w)
Suited(L) ==
  /\ at[L] = "waitlook" => found[L] = "none"
  /\ at[L] = "poll" => \A g \in Live : Fits(how[g], ask[L].how)
  /\ /\ \/ at[L] = "look" /\ found[L] = "idle"
        \/ at[L] = "joined"
     /\ ask[L].verb = "launch"
     => Suits(met[L], ask[L].how)

OneInv(L) == AcqInv /\ RunFor /\ OneLive(L) /\ Reachable /\ Suited(L)

LEMMA OneInit ==
  ASSUME NEW L, LaunchesAlone(L), AcqInit
  PROVE  OneInv(L)
PROOF
  <1>1. AcqInv
    BY AcqInitInv DEF WaitInv
  <1>2. RunFor
    BY DEF AcqInit, RunFor
  <1>3. OneLive(L)
    BY DEF AcqInit, OneLive, Live, LaunchesAlone
  <1>4. Reachable
    BY DEF AcqInit, Reachable, Serving
  <1>5. Suited(L)
    BY DEF AcqInit, Suited, LaunchesAlone
  <1> QED
    BY <1>1, <1>2, <1>3, <1>4, <1>5 DEF OneInv

LEMMA OnlyLSpawns ==
  ASSUME RunFor, NEW L, LaunchesAlone(L), NEW c \in Claimant, Spawn(c)
  PROVE  c = L
PROOF
  BY DEF RunFor, LaunchesAlone, Spawn

(* Where a claimant's own step leads, as far as starting games goes.       *)
LEMMA OwnStepStarts ==
  ASSUME AcqInv, RunFor, NEW c \in Claimant,
         Session(c) \/ Claims(c) \/ Deadline(c)
  PROVE  /\ \/ at'[c] = "idle"
            \/ at[c] # "idle" /\ ask'[c] = ask[c]
            \/ at'[c] = "probe" /\ ask'[c] \in Asks[c]
         /\ at'[c] = "spawn" => LookLaunches(c)
         /\ at'[c] = "poll" => Spawn(c) \/ at[c] = "poll"
         /\ at[c] = "poll" => \/ PollJoins(c) \/ PollFails(c) \/ Deadline(c)
PROOF
  <1> USE DEF AcqInv, AcqTypeOK, Goes, Ends, Refused, Idles, Waits
  <1>1. CASE Session(c)
    BY <1>1 DEF Session, Begin, Leave, UserQuits, claimVars
  <1>2. CASE Deadline(c)
    BY <1>2 DEF Deadline
  <1>3. CASE FirstProbe(c) \/ WaitProbe(c)
    BY <1>3 DEF FirstProbe, WaitProbe, AfterProbe
  <1>4. CASE WaitLook(c) \/ AskQueue(c) \/ AskQuit(c) \/ QuitAnswered(c)
    BY <1>4 DEF WaitLook, AskQueue, AskQuit, QuitAnswered
  <1>5. CASE RetireRefused(c) \/ QuitFails(c) \/ LookRefuses(c)
             \/ SpawnFails(c)
    BY <1>5 DEF RetireRefused, QuitFails, LookRefuses, SpawnFails
  <1>6. CASE RetireLook(c) \/ RetireEnds(c)
    BY <1>6 DEF RetireLook, RetireEnds
  <1>7. CASE LookJoins(c) \/ LookLaunches(c)
    BY <1>7 DEF LookJoins, LookLaunches
  <1>8. CASE Spawn(c) \/ PollJoins(c) \/ PollFails(c)
    BY <1>8 DEF Spawn, PollJoins, PollFails
  <1> QED
    BY <1>1, <1>2, <1>3, <1>4, <1>5, <1>6, <1>7, <1>8 DEF Claims

LEMMA RunForKept ==
  ASSUME AcqInv, RunFor, [AcqNext]_acqVars
  PROVE  RunFor'
PROOF
  <1>1. CASE UNCHANGED acqVars
    BY <1>1 DEF acqVars, claimVars, RunFor
  <1>2. CASE \E g \in Game : Adapter(g)
    BY <1>2, ClaimantsStand DEF RunFor
  <1>3. ASSUME NEW d \in Claimant, Session(d) \/ Claims(d) \/ Deadline(d),
               NEW c \in Claimant
        PROVE  /\ at'[c] # "idle" => ask'[c] \in Asks[c]
               /\ at'[c] = "spawn" => ask'[c].verb # "attach"
    <2>1. CASE c = d
      BY <1>3, <2>1, OwnStepStarts DEF RunFor, LookLaunches
    <2>2. CASE c # d
      BY <1>3, <2>2, OthersStand DEF RunFor
    <2> QED
      BY <2>1, <2>2
  <1> QED
    BY <1>1, <1>2, <1>3 DEF AcqNext, RunFor

(* But for the start of a game, the live ones only go.                     *)
Fewer ==
  /\ \A g \in Game : /\ phase'[g] \notin {"none", "gone"}
                       => phase[g] \notin {"none", "gone"}
                     /\ phase'[g] = "exec" => phase[g] = "exec"
  /\ how' = how /\ lingers' = lingers

LEMMA FewerLive ==
  ASSUME AcqInv, [AcqNext]_acqVars
  PROVE  Fewer \/ \E c \in Claimant : Spawn(c)
PROOF
  <1> USE DEF AcqInv, AcqTypeOK, Fewer, gameVars, claimVars
  <1>1. CASE UNCHANGED acqVars
    BY <1>1 DEF acqVars
  <1>2. ASSUME NEW c \in Claimant, Session(c) \/ Deadline(c) PROVE Fewer
    BY <1>2 DEF Session, Begin, Leave, UserQuits, Deadline
  <1>3. ASSUME NEW c \in Claimant, Claims(c), ~ Spawn(c) PROVE Fewer
    <2>1. CASE AskQuit(c)
      BY <2>1 DEF AskQuit
    <2> QED
      BY <1>3, <2>1
         DEF Claims, FirstProbe, WaitProbe, WaitLook, AskQueue, RetireRefused,
             QuitAnswered, QuitFails, RetireLook, RetireEnds, LookRefuses,
             LookJoins, LookLaunches, SpawnFails, PollJoins, PollFails, Refused
  <1>4. ASSUME NEW g \in Game, Adapter(g) PROVE Fewer
    BY <1>4 DEF Adapter, Exec, BindLook, BindClear, Bind, Linger, Quit, Exit,
                Gone, Becomes, Serving
  <1> QED
    BY <1>1, <1>2, <1>3, <1>4 DEF AcqNext

(* The path is the one live game's to clear, to bind and to unlink.        *)
LEMMA ReachableKept ==
  ASSUME AcqInv, Reachable, [AcqNext]_acqVars, \A g, h \in Live : g = h
  PROVE  Reachable'
PROOF
  <1> USE DEF AcqInv, AcqTypeOK, Reachable, Serving, gameVars, claimVars
  <1>1. CASE UNCHANGED acqVars
    BY <1>1 DEF acqVars
  <1>2. ASSUME NEW c \in Claimant, Session(c) \/ Deadline(c)
        PROVE  Reachable'
    BY <1>2 DEF Session, Begin, Leave, UserQuits, Deadline
  <1>3. ASSUME NEW c \in Claimant, Claims(c) PROVE Reachable'
    <2>1. CASE AskQuit(c)
      BY <2>1 DEF AskQuit
    <2>2. CASE Spawn(c)
      BY <2>2 DEF Spawn, StartsAs
    <2> QED
      BY <1>3, <2>1, <2>2
         DEF Claims, FirstProbe, WaitProbe, WaitLook, AskQueue, RetireRefused,
             QuitAnswered, QuitFails, RetireLook, RetireEnds, LookRefuses,
             LookJoins, LookLaunches, SpawnFails, PollJoins, PollFails, Refused
  <1>4. ASSUME NEW g \in Game, Adapter(g) PROVE Reachable'
    <2>1. phase[g] \notin {"none", "gone"}
      BY <1>4 DEF Adapter, Exec, BindLook, BindClear, Bind, Linger, Quit, Exit,
                  Gone
    <2>2. \A h \in Game : h # g => phase[h] \in {"none", "gone"}
      BY <2>1 DEF Live
    <2>3. \A h \in Game : h # g => phase'[h] = phase[h]
      BY <1>4 DEF Adapter, Exec, BindLook, BindClear, Bind, Linger, Quit, Exit,
                  Gone, Becomes
    <2>4. phase'[g] \in {"up", "stop", "leaving"} => endpoint' = g
      BY <1>4 DEF Adapter, Exec, BindLook, BindClear, Bind, Linger, Quit, Exit,
                  Gone, Becomes, PathKept
    <2> QED
      BY <2>2, <2>3, <2>4
  <1> QED
    BY <1>1, <1>2, <1>3, <1>4 DEF AcqNext

(* Where there is one launcher, it looks at the processes and starts one   *)
(* with nobody in between.                                                 *)
LEMMA OneLiveKept ==
  ASSUME NEW L, LaunchesAlone(L), OneInv(L), [AcqNext]_acqVars
  PROVE  OneLive(L)'
PROOF
  <1> USE DEF OneInv, OneLive
  <1>1. L \in Claimant /\ phase \in [Game -> Phases] /\ late[L] \in BOOLEAN
    BY DEF LaunchesAlone, AcqInv, AcqTypeOK
  <1>2. CASE \E c \in Claimant : Spawn(c)
    <2>1. Spawn(L)
      BY <1>2, OnlyLSpawns
    <2>2. Live = {} /\ at'[L] = "poll" /\ ~ late'[L]
      BY <1>1, <2>1 DEF Spawn, Waits, Goes, AcqInv, AcqTypeOK
    <2>3. PICK g \in Game : phase' = [phase EXCEPT ![g] = StartsAs(ask[L].how)]
      BY <2>1 DEF Spawn
    <2>4. \A h \in Game : h # g => phase'[h] \in {"none", "gone"}
      BY <1>1, <2>2, <2>3 DEF Live
    <2> QED
      BY <2>2, <2>4 DEF Live
  <1>3. CASE Fewer
    <2>1. Live' \subseteq Live
      BY <1>3 DEF Fewer, Live
    <2>2. \/ at'[L] = at[L] /\ late'[L] = late[L]
          \/ Session(L) \/ Claims(L) \/ Deadline(L)
      <3>1. CASE UNCHANGED acqVars
        BY <3>1 DEF acqVars, claimVars
      <3>2. CASE \E g \in Game : Adapter(g)
        BY <3>2, ClaimantsStand
      <3>3. ASSUME NEW d \in Claimant, Session(d) \/ Claims(d) \/ Deadline(d)
            PROVE  \/ at'[L] = at[L] /\ late'[L] = late[L]
                   \/ Session(L) \/ Claims(L) \/ Deadline(L)
        BY <1>1, <3>3, OthersStand
      <3> QED
        BY <3>1, <3>2, <3>3 DEF AcqNext
    <2>3. CASE at'[L] = at[L] /\ late'[L] = late[L]
      BY <1>3, <2>1, <2>3 DEF Fewer
    <2>4. CASE Session(L) \/ Claims(L) \/ Deadline(L)
      <3>1. at'[L] = "spawn" => Live' = {}
        <4> SUFFICES ASSUME at'[L] = "spawn" PROVE Live = {}
          BY <2>1
        <4>1. LookLaunches(L)
          BY <1>1, <2>4, OwnStepStarts
        <4> QED
          BY <4>1 DEF LookLaunches, NoneRuns, Running, Live
      <3>2. ASSUME NEW g \in Game, phase'[g] = "exec"
            PROVE  at'[L] = "poll" /\ ~ late'[L]
        <4>1. phase[g] = "exec" /\ at[L] = "poll" /\ ~ late[L]
          BY <1>3, <3>2 DEF Fewer
        <4>2. \A h \in Game : ~ Serving(h)
          BY <4>1 DEF Live, Serving
        <4>3. Observed(L) = {"none"}
          BY <4>2 DEF Observed, AcqInv, AcqTypeOK
        <4>4. ~ PollJoins(L) /\ ~ PollFails(L) /\ ~ Deadline(L)
          BY <4>1, <4>3 DEF PollJoins, PollFails, Deadline
        <4> QED
          BY <1>1, <2>4, <4>1, <4>4, OwnStepStarts
      <3> QED
        BY <2>1, <3>1, <3>2
    <2> QED
      BY <2>2, <2>3, <2>4
  <1> QED
    BY <1>2, <1>3, FewerLive

(* The probe answers a launch with a game that fits or retires it.         *)
LEMMA ProbeSuits ==
  ASSUME NEW L \in Claimant, AcqInv, Suited(L), FirstProbe(L) \/ WaitProbe(L)
  PROVE  Suited(L)'
PROOF
  <1> USE DEF AcqInv, AcqTypeOK, Goes
  <1>1. PICK p \in Observed(L) :
          /\ Probes(L, p)
          /\ at'[L] = "look" /\ p = "idle" => AfterProbe(L, p) = "look"
          /\ at'[L] = "waitlook" => p = "none"
          /\ at'[L] \notin {"poll", "joined"}
    BY DEF FirstProbe, WaitProbe, AfterProbe
  <1>2. /\ found'[L] = p
        /\ p = "idle" => met'[L] = endpoint
    BY <1>1 DEF Probes, Connected
  <1>3. ask' = ask /\ how' = how /\ lingers' = lingers
    BY DEF FirstProbe, WaitProbe, gameVars
  <1>4. p = "idle" /\ ask[L].verb = "launch" /\ at'[L] = "look"
          => Suits(endpoint, ask[L].how)
    BY <1>1 DEF AfterProbe, Unfit, Suits
  <1> QED
    BY <1>1, <1>2, <1>3, <1>4 DEF Suited, Suits

LEMMA OwnStepSuits ==
  ASSUME NEW L, LaunchesAlone(L), OneInv(L), Fewer,
         Session(L) \/ Claims(L) \/ Deadline(L)
  PROVE  Suited(L)'
PROOF
  <1> USE DEF AcqInv, AcqTypeOK, Goes, Ends, Idles, Refused, Waits
  <1>1. /\ L \in Claimant /\ AcqInv /\ Suited(L)
        /\ Live' \subseteq Live /\ how' = how /\ lingers' = lingers
    BY DEF LaunchesAlone, OneInv, Fewer, Live
  <1>2. CASE Session(L)
    BY <1>1, <1>2
       DEF Session, Begin, Leave, UserQuits, claimVars, Suited, Suits
  <1>3. CASE Deadline(L)
    BY <1>1, <1>3 DEF Deadline, Suited, Suits
  <1>4. CASE FirstProbe(L) \/ WaitProbe(L)
    BY <1>1, <1>4, ProbeSuits
  <1>5. CASE WaitLook(L) \/ AskQueue(L) \/ AskQuit(L) \/ QuitAnswered(L)
    BY <1>1, <1>5
       DEF WaitLook, AskQueue, AskQuit, QuitAnswered, Suited, Suits
  <1>6. CASE \/ RetireRefused(L) \/ QuitFails(L) \/ LookRefuses(L)
             \/ SpawnFails(L) \/ PollFails(L)
    BY <1>1, <1>6 DEF RetireRefused, QuitFails, LookRefuses, SpawnFails,
                      PollFails, Suited, Suits
  <1>7. CASE RetireLook(L) \/ RetireEnds(L)
    BY <1>1, <1>7 DEF RetireLook, RetireEnds, Suited, Suits
  <1>8. CASE LookJoins(L) \/ LookLaunches(L)
    BY <1>1, <1>8 DEF LookJoins, LookLaunches, Suited, Suits
  <1>9. CASE Spawn(L)
    <2>1. PICK g \in Game : phase[g] = "none" /\ phase'[g] # "none"
                            /\ phase'[g] # "gone"
      BY <1>1, <1>9 DEF Spawn, StartsAs
    <2> QED
      BY <2>1 DEF Fewer
  <1>10. CASE PollJoins(L)
    <2>1. endpoint \in Game /\ Serving(endpoint)
      BY <1>1, <1>10 DEF PollJoins, Observed
    <2>2. endpoint \in Live
      BY <2>1 DEF Serving, Live
    <2>3. Fits(how[endpoint], ask[L].how)
      BY <1>1, <1>10, <2>2 DEF PollJoins, Suited
    <2>4. met'[L] = endpoint /\ at'[L] = "joined" /\ ask' = ask
      BY <1>1, <1>10 DEF PollJoins, Connected
    <2> QED
      BY <1>1, <2>3, <2>4 DEF Suited, Suits
  <1> QED
    BY <1>2, <1>3, <1>4, <1>5, <1>6, <1>7, <1>8, <1>9, <1>10 DEF Claims

LEMMA SuitedKept ==
  ASSUME NEW L, LaunchesAlone(L), OneInv(L), [AcqNext]_acqVars
  PROVE  Suited(L)'
PROOF
  <1>1. /\ L \in Claimant /\ AcqInv /\ RunFor /\ OneLive(L) /\ Suited(L)
    BY DEF LaunchesAlone, OneInv
  <1>2. CASE \E c \in Claimant : Spawn(c)
    <2>1. Spawn(L) /\ Live = {}
      BY <1>1, <1>2, OnlyLSpawns DEF Spawn, OneLive
    <2>2. PICK g \in Game :
            /\ phase' = [phase EXCEPT ![g] = StartsAs(ask[L].how)]
            /\ how' = [how EXCEPT ![g] = ask[L].how]
      BY <2>1 DEF Spawn
    <2>3. \A h \in Live' : h = g
      BY <1>1, <2>1, <2>2 DEF Live, AcqInv, AcqTypeOK
    <2>4. how'[g] = ask[L].how /\ ask' = ask /\ at'[L] = "poll"
      BY <1>1, <2>1, <2>2 DEF Spawn, Waits, Goes, AcqInv, AcqTypeOK
    <2>5. Fits(ask[L].how, ask[L].how)
      BY DEF Fits
    <2> QED
      BY <2>3, <2>4, <2>5 DEF Suited
  <1>3. CASE Fewer
    <2>1. Live' \subseteq Live /\ how' = how /\ lingers' = lingers
      BY <1>3 DEF Fewer, Live
    <2>2. \/ /\ at'[L] = at[L] /\ found'[L] = found[L]
             /\ ask'[L] = ask[L] /\ met'[L] = met[L]
          \/ Session(L) \/ Claims(L) \/ Deadline(L)
      <3>1. CASE UNCHANGED acqVars
        BY <3>1 DEF acqVars, claimVars
      <3>2. CASE \E g \in Game : Adapter(g)
        BY <3>2, ClaimantsStand
      <3>3. ASSUME NEW d \in Claimant, Session(d) \/ Claims(d) \/ Deadline(d)
            PROVE  \/ /\ at'[L] = at[L] /\ found'[L] = found[L]
                      /\ ask'[L] = ask[L] /\ met'[L] = met[L]
                   \/ Session(L) \/ Claims(L) \/ Deadline(L)
        BY <1>1, <3>3, OthersStand
      <3> QED
        BY <3>1, <3>2, <3>3 DEF AcqNext
    <2>3. CASE /\ at'[L] = at[L] /\ found'[L] = found[L]
               /\ ask'[L] = ask[L] /\ met'[L] = met[L]
      BY <1>1, <2>1, <2>3 DEF Suited, Suits
    <2> QED
      BY <1>3, <2>2, <2>3, OwnStepSuits
  <1> QED
    BY <1>1, <1>2, <1>3, FewerLive

LEMMA OneStep ==
  ASSUME NEW L, LaunchesAlone(L), OneInv(L), [AcqNext]_acqVars
  PROVE  OneInv(L)'
PROOF
  <1>1. AcqInv'
    BY AcqStep DEF OneInv
  <1>2. RunFor' /\ Reachable'
    BY RunForKept, ReachableKept DEF OneInv, OneLive
  <1>3. OneLive(L)' /\ Suited(L)'
    BY OneLiveKept, SuitedKept
  <1> QED
    BY <1>1, <1>2, <1>3 DEF OneInv

LEMMA OneAlways ==
  ASSUME NEW L, LaunchesAlone(L)
  PROVE  AcqSpec => []OneInv(L)
PROOF
  <1>1. AcqInit => OneInv(L)
    BY OneInit
  <1>2. OneInv(L) /\ [AcqNext]_acqVars => OneInv(L)'
    BY OneStep
  <1> QED
    BY <1>1, <1>2, PTL DEF AcqSpec

(* "A second instance would corrupt both": where one claimant launches and *)
(* the others attach, never do two games run, for any number of claimants  *)
(* and of games, started one after the other.                              *)
THEOREM OneGameRuns ==
  ASSUME NEW L, LaunchesAlone(L)
  PROVE  AcqSpec => []OneInstance
PROOF
  <1>1. OneInv(L) => OneInstance
    <2> SUFFICES ASSUME \A g, h \in Live : g = h
                 PROVE  Cardinality(Live) <= 1
      BY DEF OneInv, OneLive, OneInstance, Live
    <2>1. CASE Live = {}
      BY <2>1, FS_EmptySet
    <2>2. ASSUME NEW g \in Live PROVE Cardinality(Live) <= 1
      <3>1. Live = {g}
        BY <2>2
      <3> QED
        BY <3>1, FS_Singleton
    <2> QED
      BY <2>1, <2>2
  <1> QED
    BY <1>1, OneAlways, PTL

(* And a game whose Adapter serves is where a claim finds it until it      *)
(* exits, whatever earlier games left at the path.                         *)
THEOREM GameIsReachable ==
  ASSUME NEW L, LaunchesAlone(L)
  PROVE  AcqSpec => []Reachable
PROOF
  <1>1. OneInv(L) => Reachable
    BY DEF OneInv
  <1> QED
    BY <1>1, OneAlways, PTL

(* And what the launch is answered with, if mechcore started it, can do    *)
(* its work, whether it was found, waited for or started.                  *)
THEOREM LaunchIsServedAsAsked ==
  ASSUME NEW L, LaunchesAlone(L)
  PROVE  AcqSpec => []ServedAsAsked
PROOF
  <1>1. OneInv(L) => ServedAsAsked
    <2> SUFFICES ASSUME OneInv(L), NEW c \in Claimant, at[c] = "joined",
                        ask[c].verb = "launch", met[c] \in lingers
                 PROVE  Fits(how[met[c]], ask[c].how)
      BY DEF ServedAsAsked, Fits
    <2>1. c = L
      BY DEF OneInv, RunFor, LaunchesAlone
    <2> QED
      BY <2>1 DEF OneInv, Suited, Suits
  <1> QED
    BY <1>1, OneAlways, PTL
=============================================================================
