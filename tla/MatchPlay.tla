------------------------------ MODULE MatchPlay ------------------------------
(***************************************************************************)
(* One match played by processes that live for one operation each:         *)
(* match.rs and turn.rs.  What they share is two files, the match document,*)
(* replaced whole, and the turn file beside it, written in place under its *)
(* own advisory lock and unlinked when the match is over.                  *)
(*                                                                         *)
(* An operation opens the turn file, takes the lock, reads both files,     *)
(* decides everything in memory, and writes: one step to open, one to take *)
(* the lock and decide, one for each write, one to answer.  A process may  *)
(* die before any of them; the lock dies with it and the writes it had     *)
(* made stay.                                                              *)
(***************************************************************************)
EXTENDS Integers, Sequences, FiniteSets

CONSTANTS
  Caller,       (* the processes, one operation at a time each             *)
  Asks,         (* Asks[c]: the operations c may run                       *)
  AfterEnd,     (* bound: who begins operations on a finished match        *)
  MaxRound,     (* bound: the last round a fight may open                  *)
  MaxDecisions, (* bound on the decisions of a side in a round             *)
  MaxDeaths     (* bound on the processes that die                         *)

Kinds == {"new", "show", "wait", "act", "undo", "commit"}

ASSUME MatchAssumption ==
  /\ MaxRound \in Nat
  /\ MaxDecisions \in Nat
  /\ MaxDeaths \in Nat
  /\ IsFiniteSet(Caller)
  /\ \A c \in Caller : Asks[c] \subseteq Kinds
  /\ AfterEnd \subseteq Caller

Side == {"blue", "red"}
Other(s) == IF s = "blue" THEN "red" ELSE "blue"

(* What the phases and the deadline tell apart of a decision: the opening, *)
(* the answer to a round's reinforcement offer, giving up, and the rest.   *)
Decision == {"choose", "answer", "concede", "move"}
Decisions == UNION {[1..n -> Decision] : n \in 0..MaxDecisions}
Has(list, d) == \E i \in DOMAIN list : list[i] = d

(* One more inode than there are processes to hold one open.               *)
Inode == 0..Cardinality(Caller)
NoInode == -1

(* The document before the match is dealt, and the turn file that is       *)
(* empty, half-written or of another schema: each reads as nothing.        *)
NoDocument == [rounds |-> <<>>, stands |-> [s \in Side |-> TRUE],
               offered |-> FALSE, result |-> "none"]
NoTurn == [round |-> -1]

VARIABLES
  doc,      (* the match document                                          *)
  path,     (* the inode the turn file's path names                        *)
  file,     (* what each inode holds                                       *)
  holder,   (* the processes that hold an inode's lock                     *)
  fd,       (* the inode each process has open                             *)
  op,       (* the operation each runs                                     *)
  writes,   (* the writes it has decided and not made                      *)
  answer,   (* what it will answer then                                    *)
  seat,     (* the side each caller was given                              *)
  promised, (* history: the decisions a side was last told are sealed      *)
  deaths    (* processes that have died                                    *)

diskVars == <<doc, path, file>>
procVars == <<holder, fd, op, writes, answer>>
matchVars == <<diskVars, procVars, seat, promised, deaths>>

-----------------------------------------------------------------------------
(* The document.  Its first entry is the opening's two choices, each later *)
(* one a round's actions; the last is the round in progress.               *)

Dealt(d) == d.rounds # <<>>
Round(d) == Len(d.rounds) - 1
Recorded(d) == d.rounds[Len(d.rounds)]
Conceded(d) == {s \in Side : Has(Recorded(d)[s], "concede")}

Over(d) ==
  \/ d.result # "none"
  \/ /\ Round(d) > 0
     /\ \/ Conceded(d) # {}
        \/ \E s \in Side : ~ d.stands[s]

(* The winner of a round that left these cores standing.                   *)
FromCores(stands) ==
  CASE stands["blue"] /\ stands["red"] -> "none"
    [] stands["blue"] /\ ~ stands["red"] -> "blue"
    [] ~ stands["blue"] /\ stands["red"] -> "red"
    [] OTHER -> "draw"

DecidedTogether(d) ==  (* slip: the side the code finds conceded first loses *)
  IF d.result = "none" /\ Round(d) > 0 /\ Conceded(d) # {}
  THEN [d EXCEPT !.result = Other(CHOOSE s \in Side : s \in Conceded(d))]
  ELSE d

(* record_concession(): a result where exactly one side gave up.           *)
WithConcession(d) ==
  IF d.result = "none" /\ Round(d) > 0
     /\ \E s \in Side : Conceded(d) = {s}
  THEN [d EXCEPT !.result = Other(CHOOSE s \in Side : Conceded(d) = {s})]
  ELSE d

-----------------------------------------------------------------------------
(* The turn file: the round, whether its clock has run out, and each       *)
(* side's half.  The opening has no clock.                                 *)

Opening(r, given) ==
  [round |-> r, late |-> FALSE, given |-> given,
   committed |-> [s \in Side |-> FALSE], decisions |-> [s \in Side |-> <<>>]]

Everyone == [s \in Side |-> TRUE]

RebuiltUngiven(d) ==  (* slip: a rebuilt round hands its sides out again *)
  [Opening(Round(d), [s \in Side |-> FALSE])
     EXCEPT !.committed = [s \in Side |-> Recorded(d)[s] # <<>>]]

(* The round rebuilt from a document whose turn file is lost.              *)
Rebuilt(d) ==
  [Opening(Round(d), Everyone)
     EXCEPT !.committed = [s \in Side |-> Recorded(d)[s] # <<>>]]

Older(t) == IF t.round > 0 THEN [t EXCEPT !.late = TRUE] ELSE t

(* The game an operation holds in memory.                                  *)
Game(d, t) == [doc |-> d, turn |-> t]

Phase(g) ==
  CASE Over(g.doc) -> "over"
    [] ~ Over(g.doc) /\ \A s \in Side : g.turn.committed[s] -> "fight"
    [] OTHER -> IF Round(g.doc) = 0 THEN "opening" ELSE "deploy"

Decides(g) == Phase(g) \in {"opening", "deploy"}

(* A side's decisions: a side rebuilt as committed has the document's.     *)
DecidedBy(g, s) ==
  IF g.turn.committed[s] /\ g.turn.decisions[s] = <<>>
  THEN Recorded(g.doc)[s] ELSE g.turn.decisions[s]

(* publish_committed(): the sealed halves reach the candidate document.    *)
Published(g) ==
  [g.doc EXCEPT !.rounds[Len(g.doc.rounds)] =
     [s \in Side |-> IF g.turn.committed[s] THEN DecidedBy(g, s)
                                            ELSE Recorded(g.doc)[s]]]

RunOutDrafts(g) ==  (* slip: the clock publishes what nobody sealed *)
  WithConcession(
    [g.doc EXCEPT !.rounds[Len(g.doc.rounds)] =
       [s \in Side |-> Append(@[s], "concede")]])

(* run_out(): every side that did not commit in time gives up.             *)
RunOut(g) ==
  WithConcession(
    [Published(g) EXCEPT !.rounds[Len(g.doc.rounds)] =
       [s \in Side |-> IF g.turn.committed[s] THEN @[s]
                                              ELSE Append(@[s], "concede")]])

(* The round the fight opens, on the cores it left and with its offers.    *)
NextRound(g, stands, offered) ==
  [rounds |-> Append(Published(g).rounds, [s \in Side |-> <<>>]),
   stands |-> stands, offered |-> offered, result |-> FromCores(stands)]

(* What a fight may leave: nothing dies in the opening, and no fight opens *)
(* a round beyond the bound unless it ends the match.                      *)
Fights(g) ==
  {stands \in [Side -> BOOLEAN] :
     /\ Round(g.doc) = 0 => stands = Everyone
     /\ Round(g.doc) >= MaxRound => stands # Everyone}

-----------------------------------------------------------------------------
(* What an operation writes.  The document is replaced in one step.  The   *)
(* turn file is truncated and then written, which only a process that dies *)
(* between the two shows to anyone (Die): nobody reads it without the lock.*)

WritesDoc(d) == <<[kind |-> "doc", doc |-> d]>>
WritesTurn(t) == <<[kind |-> "turn", turn |-> t]>>
Removes == <<[kind |-> "remove"]>>

(* The document goes first, always.                                        *)
WritesBoth(g) == WritesDoc(g.doc) \o WritesTurn(g.turn)

(* Game::read(): a turn file of another round is as lost as none; one that *)
(* is found beside a match that is over is taken away.                     *)
Read(d, t) == Game(d, IF t.round = Round(d) THEN t ELSE Rebuilt(d))
ReadWrites(d, t) ==
  IF Over(d) THEN Removes
  ELSE IF t.round = Round(d) THEN <<>> ELSE WritesTurn(Rebuilt(d))

(* An operation's progress: the game as it now is, and what that wrote.    *)
Progress(g, ws) == [game |-> g, writes |-> ws]

(* fight(): the candidate document may turn out conceded, the fight may    *)
(* fail and leave the round as it was, and otherwise opens the next.       *)
Fought(g) ==
  IF Over(Published(g))
  THEN LET conceded == Game(WithConcession(Published(g)), g.turn)
       IN  {Progress(conceded, WritesBoth(conceded))}
  ELSE {Progress(g, <<>>)} \cup
       {LET next == Game(NextRound(g, n[1], n[2]),
                         Opening(Round(g.doc) + 1, g.turn.given))
        IN  Progress(next, WritesBoth(next)) : n \in Fights(g) \X BOOLEAN}

RunsOutUnsealed(g) ==  (* slip: the clock stops for a side that sealed *)
  Phase(g) = "deploy" /\ g.turn.late /\ \A s \in Side : ~ g.turn.committed[s]

(* The deadline has passed over a side that is still deciding.             *)
RunsOut(g) == Phase(g) = "deploy" /\ g.turn.late

(* settle(): the clock ends a round, a round both sides committed is       *)
(* fought, and a match that is then over takes its turn file with it.      *)
Settled(g) ==
  LET after ==
        CASE RunsOut(g) ->
               {Progress(Game(RunOut(g), g.turn), WritesDoc(RunOut(g)))}
          [] Phase(g) = "fight" -> Fought(g)
          [] OTHER -> {Progress(g, <<>>)}
  IN  {Progress(p.game, p.writes \o (IF Over(p.game.doc) THEN Removes
                                                       ELSE <<>>)) : p \in after}

-----------------------------------------------------------------------------
(* What may be decided.                                                    *)

(* editable()                                                              *)
Editable(g, s) ==
  /\ Decides(g)
  /\ ~ g.turn.committed[s]
  /\ Phase(g) = "deploy" => ~ g.turn.late

(* allowed(): the opening is round zero's decision, a round that deals an  *)
(* offer opens with its one answer, and only giving up comes before it.    *)
Allowed(g, before, d) ==
  IF Round(g.doc) = 0 THEN d = "choose"
  ELSE /\ d # "choose"
       /\ d = "answer" => g.doc.offered /\ ~ Has(before, "answer")
       /\ d = "move" /\ g.doc.offered => Has(before, "answer")

Acceptable(g, list) ==
  \A i \in DOMAIN list : Allowed(g, SubSeq(list, 1, i - 1), list[i])

(* commit()'s own conditions.                                              *)
Sealable(g, s) ==
  LET list == g.turn.decisions[s]
  IN  /\ Decides(g)
      /\ ~ g.turn.committed[s]
      /\ g.doc.offered => Has(list, "answer") \/ Has(list, "concede")
      /\ Round(g.doc) = 0 => list = <<"choose">>

Sealed(g, s) == [g EXCEPT !.turn.committed[s] = TRUE]
Decided(g, s, list) == [g EXCEPT !.turn.decisions[s] = list]

(* The clock an operation looks at again may have moved on.                *)
Later(g) ==
  {g, [g EXCEPT !.turn = Older(@)]}

(* A side's wait is over when the match waits for it, or for nobody.       *)
WaitOver(g, s) ==
  Phase(g) = "over" \/ (Decides(g) /\ ~ g.turn.committed[s])

-----------------------------------------------------------------------------
(* The processes.                                                          *)

NoOp == [kind |-> "none", side |-> "none"]
Refused == [kind |-> "refused"]
Shown == [kind |-> "shown"]
Again == [kind |-> "again"]
NoPromise == [round |-> -1, decisions |-> <<>>]

(* What a caller may run: a side is named by the player it was given to,   *)
(* and a caller without one joins or looks on.                             *)
Operations(c) ==
  IF seat[c] \in Side
  THEN [kind : Asks[c] \ {"new"}, side : {seat[c]}]
  ELSE [kind : Asks[c] \cap {"new", "show"}, side : {"none"}]

MatchInit ==
  /\ doc = NoDocument
  /\ path = NoInode
  /\ file = [i \in Inode |-> NoTurn]
  /\ holder = [i \in Inode |-> {}]
  /\ fd = [c \in Caller |-> NoInode]
  /\ op = [c \in Caller |-> NoOp]
  /\ writes = [c \in Caller |-> <<>>]
  /\ answer = [c \in Caller |-> Refused]
  /\ seat = [c \in Caller |-> "none"]
  /\ promised = [s \in Side |-> NoPromise]
  /\ deaths = 0

Unused == {i \in Inode : i # path /\ \A c \in Caller : fd[c] # i}

(* Held::take() opens the turn file, and creates it where there is none.   *)
Opens(c) ==
  IF path # NoInode
  THEN fd' = [fd EXCEPT ![c] = path] /\ UNCHANGED <<path, file>>
  ELSE \E i \in Unused :
         /\ \A j \in Unused : i <= j
         /\ path' = i
         /\ file' = [file EXCEPT ![i] = NoTurn]
         /\ fd' = [fd EXCEPT ![c] = i]

Start(c) ==
  /\ op[c] = NoOp
  /\ Dealt(doc) /\ Over(doc) => c \in AfterEnd
  /\ \E o \in Operations(c) : op' = [op EXCEPT ![c] = o]
  /\ Opens(c)
  /\ UNCHANGED <<doc, holder, writes, answer, seat, promised, deaths>>

(* A wait that was not answered looks again.                               *)
Polls(c) ==
  /\ op[c] # NoOp
  /\ fd[c] = NoInode
  /\ Opens(c)
  /\ UNCHANGED <<doc, holder, op, writes, answer, seat, promised, deaths>>

Mine(c) == fd[c] # NoInode /\ c \in holder[fd[c]]

GrantedAnyway(c) ==  (* slip: the lock is not waited for *)
  /\ fd[c] # NoInode
  /\ c \notin holder[fd[c]]

(* The lock is granted where nobody has it.                                *)
Granted(c) ==
  /\ fd[c] # NoInode
  /\ holder[fd[c]] = {}

Locks(c) ==
  /\ Granted(c)
  /\ holder' = [holder EXCEPT ![fd[c]] = @ \cup {c}]
  /\ UNCHANGED <<diskVars, fd, op, seat, promised, deaths>>

Works(c, ws, a) ==
  /\ writes' = [writes EXCEPT ![c] = ws]
  /\ answer' = [answer EXCEPT ![c] = a]

(* What it reads under the lock.                                           *)
Held(c) == Read(doc, file[fd[c]])
Rebuilds(c) == ReadWrites(doc, file[fd[c]])

(* The operation finds no document.                                        *)
TakeNothing(c) ==
  /\ op[c].kind \notin {"none", "new"}
  /\ ~ Dealt(doc)
  /\ Locks(c)
  /\ Works(c, <<>>, Refused)

(* new: deal() hands the caller blue.                                      *)
TakeDeal(c) ==
  /\ op[c].kind = "new"
  /\ ~ Dealt(doc)
  /\ Locks(c)
  /\ LET dealt == Game([NoDocument EXCEPT !.rounds =
                            <<[s \in Side |-> <<>>]>>],
                       Opening(0, [s \in Side |-> s = "blue"]))
     IN  Works(c, WritesBoth(dealt), [kind |-> "seat", side |-> "blue"])

(* new: join() hands the caller the side that is free, and a name for that *)
(* side is written with it; a third caller, or one that states another     *)
(* match, is refused.                                                      *)
TakeJoin(c) ==
  /\ op[c].kind = "new"
  /\ Dealt(doc)
  /\ Locks(c)
  /\ \/ Works(c, Rebuilds(c), Refused)
     \/ \E s \in Side :
          LET joined == [Held(c) EXCEPT !.turn.given[s] = TRUE]
          IN  /\ ~ Held(c).turn.given[s]
              /\ s = "red" => Held(c).turn.given["blue"]
              /\ \E ws \in {WritesBoth(joined), WritesTurn(joined.turn)} :
                   Works(c, Rebuilds(c) \o ws, [kind |-> "seat", side |-> s])

(* show settles what is due; a wait goes on while the match waits for      *)
(* another.                                                                *)
TakeShow(c) ==
  /\ op[c].kind \in {"show", "wait"}
  /\ Dealt(doc)
  /\ Locks(c)
  /\ \E p \in Settled(Held(c)) :
       Works(c, Rebuilds(c) \o p.writes,
             IF op[c].kind = "wait" /\ ~ WaitOver(p.game, op[c].side)
             THEN Again ELSE Shown)

(* The lists a player may draft.                                           *)
Drafts == UNION {[1..n -> Decision] : n \in 0..MaxDecisions}

(* act adds decisions to the draft or, pushed, replaces it; all of them    *)
(* are taken or none.                                                      *)
TakeAct(c) ==
  /\ op[c].kind = "act"
  /\ Dealt(doc)
  /\ Locks(c)
  /\ LET g == Held(c)
         s == op[c].side
     IN  \/ Works(c, Rebuilds(c), Refused)
         \/ /\ Editable(g, s)
            /\ \E push \in BOOLEAN, more \in Drafts :
                 LET draft == (IF push THEN <<>> ELSE g.turn.decisions[s])
                                \o more
                 IN  /\ push \/ more # <<>>
                     /\ Len(draft) <= MaxDecisions
                     /\ Acceptable(g, draft)
                     /\ Works(c, Rebuilds(c)
                                  \o WritesTurn(Decided(g, s, draft).turn),
                              Shown)

(* undo drops the draft's last decisions.                                  *)
TakeUndo(c) ==
  /\ op[c].kind = "undo"
  /\ Dealt(doc)
  /\ Locks(c)
  /\ LET g == Held(c)
         s == op[c].side
         list == g.turn.decisions[s]
     IN  \/ Works(c, Rebuilds(c), Refused)
         \/ /\ Editable(g, s)
            /\ \E n \in 1..Len(list) :
                 Works(c, Rebuilds(c)
                            \o WritesTurn(
                                 Decided(g, s, SubSeq(list, 1, Len(list) - n))
                                   .turn),
                       Shown)

SealPublishes(g, s) ==  (* slip: a commit writes the document too *)
  WritesBoth(Game(Published(Sealed(g, s)), Sealed(g, s).turn))

(* Seals a side's half: only the turn file is written.                     *)
SealWrites(g, s) == WritesTurn(Sealed(g, s).turn)

(* commit settles what is due, seals the side's half of the round that is  *)
(* then in progress, and settles again.                                    *)
TakeCommit(c) ==
  /\ op[c].kind = "commit"
  /\ Dealt(doc)
  /\ Locks(c)
  /\ \E p \in Settled(Held(c)) :
       \E g \in Later(p.game) :
         LET s == op[c].side
         IN  IF Sealable(g, s)
             THEN \E q \in Settled(Sealed(g, s)) :
                    Works(c, Rebuilds(c) \o p.writes \o SealWrites(g, s)
                               \o q.writes,
                          [kind |-> "sealed", side |-> s,
                           round |-> Round(g.doc),
                           decisions |-> DecidedBy(Sealed(g, s), s)])
             ELSE Works(c, Rebuilds(c) \o p.writes, Refused)

-----------------------------------------------------------------------------
(* The writes, in the order they were decided.                             *)

Makes(c, kind) ==
  /\ Mine(c)
  /\ writes[c] # <<>>
  /\ Head(writes[c]).kind = kind
  /\ writes' = [writes EXCEPT ![c] = Tail(@)]
  /\ UNCHANGED <<holder, fd, op, answer, seat, promised, deaths>>

WriteDocument(c) ==
  /\ Makes(c, "doc")
  /\ doc' = Head(writes[c]).doc
  /\ UNCHANGED <<path, file>>

WriteTurn(c) ==
  /\ Makes(c, "turn")
  /\ file' = [file EXCEPT ![fd[c]] = Head(writes[c]).turn]
  /\ UNCHANGED <<doc, path>>

(* The path is unlinked, whatever inode it names by now.                   *)
RemoveTurn(c) ==
  /\ Makes(c, "remove")
  /\ path' = NoInode
  /\ UNCHANGED <<doc, file>>

(* The file is closed, and its lock with it; an inode nobody has open and  *)
(* the path does not name is gone.                                         *)
Released(c) == [i \in Inode |-> holder[i] \ {c}]

Closes(c, held) ==
  /\ holder' = Released(c)
  /\ fd' = [fd EXCEPT ![c] = NoInode]
  /\ file' = [i \in Inode |->
                IF i # path /\ \A o \in Caller \ {c} : fd[o] # i
                THEN NoTurn ELSE held[i]]
  /\ UNCHANGED <<doc, path>>

Answer(c) ==
  /\ Mine(c)
  /\ writes[c] = <<>>
  /\ Closes(c, file)
  /\ op' = [op EXCEPT ![c] = IF answer[c] = Again THEN @ ELSE NoOp]
  /\ answer' = [answer EXCEPT ![c] = Refused]
  /\ seat' = IF answer[c].kind = "seat"
             THEN [seat EXCEPT ![c] = answer[c].side] ELSE seat
  /\ promised' =
       IF answer[c].kind = "sealed"
       THEN [promised EXCEPT ![answer[c].side] =
               [round |-> answer[c].round, decisions |-> answer[c].decisions]]
       ELSE promised
  /\ UNCHANGED <<writes, deaths>>

(* A process dies; the system lets go of its lock.                         *)
Dies(c, held) ==
  /\ op[c] # NoOp
  /\ deaths < MaxDeaths
  /\ deaths' = deaths + 1
  /\ op' = [op EXCEPT ![c] = NoOp]
  /\ writes' = [writes EXCEPT ![c] = <<>>]
  /\ answer' = [answer EXCEPT ![c] = Refused]
  /\ Closes(c, held)
  /\ UNCHANGED seat

Die(c) == Dies(c, file) /\ UNCHANGED promised

(* It dies between truncating the turn file and writing it: what the file  *)
(* held of the round in progress is lost, its promises included.           *)
DieWriting(c) ==
  /\ Mine(c)
  /\ writes[c] # <<>>
  /\ Head(writes[c]).kind = "turn"
  /\ Dies(c, [file EXCEPT ![fd[c]] = NoTurn])
  /\ promised' = [s \in Side |->
                    IF promised[s].round >= Round(doc) THEN NoPromise
                                                       ELSE promised[s]]

(* The clock of every round that is open moves, one that is about to be    *)
(* written included.                                                       *)
Clocks ==
  {file[i] : i \in Inode}
    \cup {w.turn : w \in {x \in UNION {{writes[c][k] : k \in DOMAIN writes[c]} :
                                     c \in Caller} : x.kind = "turn"}}

Tick ==
  /\ \E t \in Clocks : Older(t) # t
  /\ file' = [i \in Inode |-> Older(file[i])]
  /\ writes' = [c \in Caller |->
                  [k \in DOMAIN writes[c] |->
                     IF writes[c][k].kind = "turn"
                     THEN [writes[c][k] EXCEPT !.turn = Older(@)]
                     ELSE writes[c][k]]]
  /\ UNCHANGED <<doc, path, holder, fd, op, answer, seat, promised, deaths>>

Runs(c) ==
  \/ TakeNothing(c) \/ TakeDeal(c) \/ TakeJoin(c) \/ TakeShow(c)
  \/ TakeAct(c) \/ TakeUndo(c) \/ TakeCommit(c)

WritesOne(c) ==
  WriteDocument(c) \/ WriteTurn(c) \/ RemoveTurn(c)

MatchNext ==
  \/ \E c \in Caller : \/ Start(c) \/ Polls(c) \/ Runs(c)
                       \/ WritesOne(c) \/ Answer(c)
                       \/ Die(c) \/ DieWriting(c)
  \/ Tick

MatchSpec == MatchInit /\ [][MatchNext]_matchVars

(* A process that has begun goes on; one that waits for a lock gets it     *)
(* where it is let go of again and again; time passes.  No caller is made  *)
(* to begin anything.                                                      *)
MatchFairness ==
  /\ \A c \in Caller :
       /\ WF_matchVars(Polls(c))
       /\ SF_matchVars(Runs(c))
       /\ WF_matchVars(WritesOne(c))
       /\ WF_matchVars(Answer(c))
  /\ WF_matchVars(Tick)

FairMatchSpec == MatchSpec /\ MatchFairness

-----------------------------------------------------------------------------
(* Properties.                                                             *)

Lists == Seq(Decision)
Documents == [rounds : Seq([Side -> Lists]), stands : [Side -> BOOLEAN],
              offered : BOOLEAN, result : {"none", "draw"} \cup Side]
Turns == [round : Nat, late : BOOLEAN, given : [Side -> BOOLEAN],
          committed : [Side -> BOOLEAN], decisions : [Side -> Lists]]
WriteSet == [kind : {"doc"}, doc : Documents]
         \cup [kind : {"turn"}, turn : Turns]
         \cup [kind : {"remove"}]
Answers == {Refused, Shown, Again}
        \cup [kind : {"seat"}, side : Side]
        \cup [kind : {"sealed"}, side : Side, round : Nat, decisions : Lists]

(* Every variable keeps its type, and a lock is one process's at a time,   *)
(* one that has the file open: turn.rs's lock and the file that carries it.*)
MatchTypeOK ==
  /\ doc \in Documents
  /\ path \in Inode \cup {NoInode}
  /\ file \in [Inode -> Turns \cup {NoTurn}]
  /\ fd \in [Caller -> Inode \cup {NoInode}]
  /\ op \in [Caller -> [kind : Kinds, side : Side \cup {"none"}] \cup {NoOp}]
  /\ writes \in [Caller -> Seq(WriteSet)]
  /\ answer \in [Caller -> Answers]
  /\ seat \in [Caller -> Side \cup {"none"}]
  /\ promised \in [Side -> [round : Nat, decisions : Lists] \cup {NoPromise}]
  /\ deaths \in 0..MaxDeaths
  /\ holder \in [Inode -> SUBSET Caller]
  /\ \A i \in Inode : \A c \in holder[i] :
       fd[c] = i /\ holder[i] = {c} /\ op[c] # NoOp

(* The shared document shows nothing of the round in progress before the   *)
(* round is over: a committed side's decisions reach it together with the  *)
(* other's, whoever dies while they are written.                           *)
SecretUntilSettled ==
  Dealt(doc) /\ ~ Over(doc) => \A s \in Side : Recorded(doc)[s] = <<>>

(* What the match has played stays as it was: every step leaves the        *)
(* document alone, deals it, or settles the round in progress and opens at *)
(* most one more, and nothing follows the end.                             *)
Settles ==
  /\ Len(doc'.rounds) \in Len(doc.rounds)..Len(doc.rounds) + 1
  /\ \A r \in 1..Len(doc.rounds) - 1 : doc'.rounds[r] = doc.rounds[r]
  /\ Dealt(doc) => ~ Over(doc)
PlayedStays == [][doc' = doc \/ Settles]_matchVars

(* A side that was told its decisions are sealed has these decisions       *)
(* fought, and is never made to give up for being late, whichever process  *)
(* settles the round and whichever die, unless the turn file itself is     *)
(* lost with a process that was writing it.                                *)
Closed(r) == r < Round(doc) \/ Over(doc)
SealedIsFought ==
  \A s \in Side :
    promised[s] # NoPromise /\ Closed(promised[s].round) =>
      doc.rounds[promised[s].round + 1][s] = promised[s].decisions

(* new hands each side to one caller, and a third is refused, also when    *)
(* the turn file that said who had which is lost.                          *)
OneSeatEach ==
  \A c, o \in Caller : seat[c] \in Side /\ seat[c] = seat[o] => c = o

(* The result agrees with how the match ended: nobody who gave up or whose *)
(* core fell while the other's stands has won, and only a round both sides *)
(* gave up has no result.                                                  *)
ResultAgrees ==
  Dealt(doc) /\ Over(doc) =>
    /\ doc.result = "none" <=> Conceded(doc) = Side
    /\ doc.result \in Side =>
         /\ doc.result \notin Conceded(doc)
         /\ doc.stands[doc.result]
         /\ Other(doc.result) \in Conceded(doc)
              \/ ~ doc.stands[Other(doc.result)]

(* A player that waits is answered: the other decides in time, or the      *)
(* clock ends the match, which the wait itself sees to; unless the match   *)
(* is still in its opening, which has no clock, or its fight cannot be     *)
(* fought.                                                                 *)
Waits(c) == op[c].kind = "wait"
Due ==
  /\ path # NoInode
  /\ file[path] # NoTurn
  /\ \A s \in Side : file[path].committed[s]
WaitEnds ==
  \A c \in Caller : <>[]Waits(c) => <>[](Due \/ Round(doc) = 0)
=============================================================================
