--------------------------- MODULE MatchPlayProofs ---------------------------
(***************************************************************************)
(* What is proved of MatchPlay for any number of processes, rounds,        *)
(* decisions and deaths: its typing, that the lock of an inode is one      *)
(* process's at a time, that the shared document shows nothing of the      *)
(* round in progress, and that its result is the one its end calls for;    *)
(* then, from what a process still has to write, that each side is one     *)
(* caller's, that a round that was settled stays as it was, and that what  *)
(* was sealed is what is fought.                                           *)
(***************************************************************************)
EXTENDS MatchPlay, SequenceTheorems, FiniteSetTheorems, TLAPS

(* A document that keeps the round in progress to itself and whose result  *)
(* agrees with its end, and the writes of such a document.                 *)
Secret(d) == ~ Over(d) => \A s \in Side : Recorded(d)[s] = <<>>
Agrees(d) ==
  Over(d) =>
    /\ d.result = "none" <=> Conceded(d) = Side
    /\ d.result \in Side =>
         /\ d.result \notin Conceded(d)
         /\ d.stands[d.result]
         /\ \/ Other(d.result) \in Conceded(d)
            \/ ~ d.stands[Other(d.result)]
DealtDocs == {d \in Documents : Dealt(d) /\ Secret(d) /\ Agrees(d)}
Undealt == {d \in Documents : ~ Dealt(d)}
GoodWrites == [kind : {"doc"}, doc : DealtDocs]
           \cup [kind : {"turn"}, turn : Turns]
           \cup [kind : {"remove"}]
Games == [doc : DealtDocs, turn : Turns]

-----------------------------------------------------------------------------
(* The document.                                                           *)

Half == [Side -> Lists]

LEMMA Sides == Side = {"blue", "red"} /\ \A s \in Side : Other(s) \in Side
PROOF
  BY DEF Side, Other

LEMMA DealtShape ==
  ASSUME NEW d \in Documents, Dealt(d)
  PROVE  /\ d.rounds \in Seq(Half)
         /\ Len(d.rounds) \in Nat \ {0}
         /\ Round(d) \in Nat
         /\ Recorded(d) \in Half
PROOF
  <1>1. d.rounds \in Seq(Half) /\ d.rounds # <<>>
    BY DEF Documents, Dealt, Half
  <1>2. Len(d.rounds) \in Nat /\ Len(d.rounds) # 0
    BY <1>1, EmptySeq, LenProperties
  <1>3. Recorded(d) \in Half
    BY <1>1, <1>2, ElementOfSeq DEF Recorded
  <1> QED
    BY <1>1, <1>2, <1>3 DEF Round

(* The round in progress is replaced and nothing else is.                  *)
LEMMA Replaced ==
  ASSUME NEW d \in Documents, Dealt(d), NEW half \in Half
  PROVE  LET e == [d EXCEPT !.rounds[Len(d.rounds)] = half]
         IN  /\ e \in Documents /\ Dealt(e)
             /\ Round(e) = Round(d) /\ Recorded(e) = half
             /\ e.result = d.result /\ e.stands = d.stands
PROOF
  <1> DEFINE n == Len(d.rounds)
             r == [d.rounds EXCEPT ![n] = half]
             e == [d EXCEPT !.rounds[Len(d.rounds)] = half]
  <1>1. /\ d.rounds \in Seq(Half) /\ n \in 1..Len(d.rounds)
        /\ n \in Nat \ {0}
    BY DealtShape
  <1>2. r \in Seq(Half) /\ Len(r) = n /\ r[n] = half
    BY <1>1, ExceptSeq
  <1>3. e = [d EXCEPT !.rounds = r]
    OBVIOUS
  <1> HIDE DEF r, e
  <1>4. /\ e \in Documents /\ e.rounds = r
        /\ e.result = d.result /\ e.stands = d.stands
    BY <1>2, <1>3 DEF Documents, Half
  <1>5. r # <<>>
    BY <1>1, <1>2, EmptySeq
  <1>6. Dealt(e) /\ Round(e) = Round(d) /\ Recorded(e) = half
    BY <1>2, <1>4, <1>5 DEF Dealt, Round, Recorded
  <1> QED
    BY <1>4, <1>6 DEF e

(* A concession that is recorded changes the result alone, and a match     *)
(* that is over stays so.                                                  *)
LEMMA Concession ==
  ASSUME NEW d \in Documents, Dealt(d)
  PROVE  LET e == WithConcession(d)
         IN  /\ e \in Documents /\ Dealt(e)
             /\ Round(e) = Round(d) /\ Recorded(e) = Recorded(d)
             /\ Over(d) => Over(e)
PROOF
  <1> DEFINE loser == CHOOSE s \in Side : Conceded(d) = {s}
             e == [d EXCEPT !.result = Other(loser)]
  <1>1. CASE ~ (d.result = "none" /\ Round(d) > 0
                  /\ \E s \in Side : Conceded(d) = {s})
    BY <1>1 DEF WithConcession
  <1>2. CASE d.result = "none" /\ Round(d) > 0
               /\ \E s \in Side : Conceded(d) = {s}
    <2>1. loser \in Side
      BY <1>2
    <2>2. Other(loser) \in Side
      BY <2>1, Sides
    <2> HIDE DEF loser
    <2>3. /\ e \in Documents /\ e.rounds = d.rounds
          /\ e.result = Other(loser)
      BY <2>2 DEF Documents
    <2>4. e.result # "none"
      BY <2>2, <2>3, Sides
    <2>5. /\ Dealt(e) /\ Round(e) = Round(d) /\ Recorded(e) = Recorded(d)
          /\ Over(e)
      BY <2>3, <2>4 DEF Dealt, Round, Recorded, Over
    <2> QED
      BY <1>2, <2>3, <2>5 DEF WithConcession, loser
  <1> QED
    BY <1>1, <1>2

(* Recorded of a match where all still stands, it names the right winner.  *)
LEMMA ConcessionAgrees ==
  ASSUME NEW d \in Documents, d.result = "none", Round(d) > 0,
         \A s \in Side : d.stands[s], Conceded(d) # {}
  PROVE  Agrees(WithConcession(d))
PROOF
  <1>1. Conceded(d) \subseteq Side
    BY DEF Conceded
  <1>2. CASE \E s \in Side : Conceded(d) = {s}
    <2> DEFINE loser == CHOOSE s \in Side : Conceded(d) = {s}
               e == [d EXCEPT !.result = Other(loser)]
    <2>1. loser \in Side /\ Conceded(d) = {loser}
      BY <1>2
    <2>2. WithConcession(d) = e
      BY <1>2 DEF WithConcession
    <2> HIDE DEF loser
    <2>3. /\ Other(loser) \in Side /\ Other(loser) # loser
          /\ Other(Other(loser)) = loser /\ Other(loser) # "none"
          /\ loser # Other(loser)
      BY <2>1 DEF Side, Other
    <2>4. /\ e.result = Other(loser) /\ e.stands = d.stands
          /\ e.rounds = d.rounds
      BY DEF Documents
    <2>5. Conceded(e) = {loser}
      BY <2>1, <2>4 DEF Conceded, Recorded
    <2> HIDE DEF e
    <2>6. Conceded(e) # Side
      BY <2>3, <2>5
    <2> QED
      BY <2>2, <2>3, <2>4, <2>5, <2>6 DEF Agrees
  <1>3. CASE ~ \E s \in Side : Conceded(d) = {s}
    <2>1. Conceded(d) = Side
      BY <1>1, <1>3 DEF Side
    <2>2. WithConcession(d) = d
      BY <1>3 DEF WithConcession
    <2>3. "none" \notin Side
      BY DEF Side
    <2> QED
      BY <2>1, <2>2, <2>3 DEF Agrees
  <1> QED
    BY <1>2, <1>3

-----------------------------------------------------------------------------
(* The turn file.                                                          *)

LEMMA GameShape ==
  ASSUME NEW g \in Games
  PROVE  /\ g.doc \in DealtDocs
         /\ g.doc \in Documents /\ Dealt(g.doc) /\ Secret(g.doc)
         /\ g.turn \in Turns
         /\ \A s \in Side : /\ g.turn.committed[s] \in BOOLEAN
                            /\ g.turn.decisions[s] \in Lists
                            /\ Recorded(g.doc)[s] \in Lists
PROOF
  <1>1. /\ g.doc \in DealtDocs
        /\ g.doc \in Documents /\ Dealt(g.doc) /\ Secret(g.doc)
        /\ g.turn \in Turns
    BY DEF Games, DealtDocs
  <1>2. Recorded(g.doc) \in Half
    BY <1>1, DealtShape
  <1> QED
    BY <1>1, <1>2 DEF Turns, Half

LEMMA AGame ==
  ASSUME NEW d \in DealtDocs, NEW t \in Turns
  PROVE  Game(d, t) \in Games
PROOF
  BY DEF Game, Games

LEMMA OpeningTyped ==
  ASSUME NEW r \in Nat, NEW given \in [Side -> BOOLEAN]
  PROVE  Opening(r, given) \in Turns
PROOF
  <1>1. <<>> \in Lists
    BY DEF Lists
  <1> QED
    BY <1>1 DEF Opening, Turns

LEMMA RebuiltTyped ==
  ASSUME NEW d \in Documents, Dealt(d)
  PROVE  Rebuilt(d) \in Turns
PROOF
  <1>1. Round(d) \in Nat
    BY DealtShape
  <1>2. Everyone \in [Side -> BOOLEAN]
    BY DEF Everyone
  <1>3. Opening(Round(d), Everyone) \in Turns
    BY <1>1, <1>2, OpeningTyped
  <1>4. [s \in Side |-> Recorded(d)[s] # <<>>] \in [Side -> BOOLEAN]
    OBVIOUS
  <1> QED
    BY <1>3, <1>4 DEF Rebuilt, Turns

LEMMA OlderTyped ==
  ASSUME NEW t \in Turns \cup {NoTurn}
  PROVE  /\ Older(t) \in Turns \cup {NoTurn}
         /\ t \in Turns => Older(t) \in Turns
PROOF
  BY DEF Older, Turns, NoTurn

-----------------------------------------------------------------------------
(* What is written.                                                        *)

LEMMA WritesTyped ==
  /\ \A d \in DealtDocs : WritesDoc(d) \in Seq(GoodWrites)
  /\ \A t \in Turns : WritesTurn(t) \in Seq(GoodWrites)
  /\ Removes \in Seq(GoodWrites)
  /\ <<>> \in Seq(GoodWrites)
PROOF
  <1>1. ASSUME NEW d \in DealtDocs PROVE WritesDoc(d) \in Seq(GoodWrites)
    <2>1. [kind |-> "doc", doc |-> d] \in GoodWrites
      BY DEF GoodWrites
    <2> QED
      BY <2>1 DEF WritesDoc
  <1>2. ASSUME NEW t \in Turns PROVE WritesTurn(t) \in Seq(GoodWrites)
    <2>1. [kind |-> "turn", turn |-> t] \in GoodWrites
      BY DEF GoodWrites
    <2> QED
      BY <2>1 DEF WritesTurn
  <1>3. Removes \in Seq(GoodWrites)
    <2>1. [kind |-> "remove"] \in GoodWrites
      BY DEF GoodWrites
    <2> QED
      BY <2>1 DEF Removes
  <1> QED
    BY <1>1, <1>2, <1>3

LEMMA Both ==
  ASSUME NEW g \in Games
  PROVE  WritesBoth(g) \in Seq(GoodWrites)
PROOF
  <1>1. g.doc \in DealtDocs /\ g.turn \in Turns
    BY DEF Games
  <1> QED
    BY <1>1, WritesTyped, ConcatProperties DEF WritesBoth

(* What is read under the lock is a game, and what is written of it.       *)
LEMMA ReadGood ==
  ASSUME NEW d \in DealtDocs, NEW t \in Turns \cup {NoTurn}
  PROVE  Read(d, t) \in Games /\ ReadWrites(d, t) \in Seq(GoodWrites)
PROOF
  <1>1. d \in Documents /\ Dealt(d) /\ Round(d) \in Nat
    BY DealtShape DEF DealtDocs
  <1>2. Rebuilt(d) \in Turns
    BY <1>1, RebuiltTyped
  <1>3. t.round = Round(d) => t \in Turns
    BY <1>1 DEF NoTurn
  <1>4. Read(d, t) \in Games
    BY <1>1, <1>2, <1>3, AGame DEF Read
  <1>5. ReadWrites(d, t) \in Seq(GoodWrites)
    BY <1>2, WritesTyped DEF ReadWrites
  <1> QED
    BY <1>4, <1>5

-----------------------------------------------------------------------------
(* What settling a round may come to.                                      *)

LEMMA DecidedByTyped ==
  ASSUME NEW g \in Games, NEW s \in Side
  PROVE  DecidedBy(g, s) \in Lists
PROOF
  BY GameShape DEF DecidedBy

LEMMA PublishedShape ==
  ASSUME NEW g \in Games
  PROVE  /\ Published(g) \in Documents /\ Dealt(Published(g))
         /\ Round(Published(g)) = Round(g.doc)
         /\ Published(g).result = g.doc.result
         /\ Published(g).stands = g.doc.stands
PROOF
  <1> DEFINE half == [s \in Side |->
                       IF g.turn.committed[s] THEN DecidedBy(g, s)
                                              ELSE Recorded(g.doc)[s]]
  <1>1. half \in Half
    BY GameShape, DecidedByTyped DEF Half
  <1>2. g.doc \in Documents /\ Dealt(g.doc)
    BY GameShape
  <1> HIDE DEF half
  <1>3. LET e == [g.doc EXCEPT !.rounds[Len(g.doc.rounds)] = half]
        IN  /\ e \in Documents /\ Dealt(e) /\ Round(e) = Round(g.doc)
            /\ e.result = g.doc.result /\ e.stands = g.doc.stands
    BY <1>1, <1>2, Replaced
  <1> QED
    BY <1>3 DEF Published, half

(* A clock that runs out while a side decides ends the match.              *)
LEMMA RunOutEnds ==
  ASSUME NEW g \in Games, RunsOut(g)
  PROVE  /\ RunOut(g) \in DealtDocs /\ Over(RunOut(g))
PROOF
  <1> DEFINE d == Published(g)
             half == [s \in Side |-> IF g.turn.committed[s] THEN Recorded(d)[s]
                                     ELSE Append(Recorded(d)[s], "concede")]
             e == [d EXCEPT !.rounds[Len(g.doc.rounds)] = half]
  <1>1. /\ d \in Documents /\ Dealt(d) /\ Round(d) = Round(g.doc)
        /\ Recorded(d) \in Half
    BY PublishedShape, DealtShape
  <1>2. /\ Phase(g) = "deploy" /\ Round(g.doc) \in Nat
    BY GameShape, DealtShape DEF RunsOut
  <1>3. PICK s \in Side : ~ g.turn.committed[s]
    BY <1>2 DEF Phase
  <1>4. Round(g.doc) > 0
    BY <1>2 DEF Phase
  <1>5. Len(g.doc.rounds) = Len(d.rounds)
    BY <1>1, GameShape, DealtShape DEF Round
  <1>6. \A x \in Side : Append(Recorded(d)[x], "concede") \in Lists
    <2> TAKE x \in Side
    <2>1. Recorded(d)[x] \in Seq(Decision) /\ "concede" \in Decision
      BY <1>1 DEF Half, Lists, Decision
    <2> QED
      BY <2>1, AppendProperties DEF Lists
  <1>7. half \in Half
    BY <1>1, <1>6 DEF Half
  <1>8. half[s] = Append(Recorded(d)[s], "concede")
    BY <1>3
  <1>9. Has(half[s], "concede")
    <2>1. Recorded(d)[s] \in Seq(Decision) /\ "concede" \in Decision
      BY <1>1 DEF Half, Lists, Decision
    <2>2. /\ Len(Recorded(d)[s]) \in Nat
          /\ half[s] \in Seq(Decision)
          /\ Len(half[s]) = Len(Recorded(d)[s]) + 1
          /\ half[s][Len(Recorded(d)[s]) + 1] = "concede"
      BY <1>8, <2>1, AppendProperties, LenProperties
    <2> HIDE DEF half
    <2>3. Len(Recorded(d)[s]) + 1 \in DOMAIN half[s]
      BY <2>2
    <2> QED
      BY <2>2, <2>3 DEF Has
  <1> HIDE DEF half
  <1>10. /\ e \in Documents /\ Dealt(e) /\ Round(e) = Round(d)
         /\ Recorded(e) = half
         /\ e.result = d.result /\ e.stands = d.stands
    <2>1. e = [d EXCEPT !.rounds[Len(d.rounds)] = half]
      BY <1>5
    <2> QED
      BY <1>1, <1>7, <2>1, Replaced
  <1> HIDE DEF e, d
  <1>11. Over(e)
    BY <1>1, <1>4, <1>9, <1>10 DEF Over, Conceded
  <1>12. LET x == WithConcession(e) IN x \in Documents /\ Dealt(x) /\ Over(x)
    BY <1>10, <1>11, Concession
  <1>13. RunOut(g) = WithConcession(e)
    <2>1. d.rounds[Len(g.doc.rounds)] = Recorded(d)
      BY <1>5 DEF Recorded
    <2>2. half = [x \in Side |->
                    IF g.turn.committed[x] THEN d.rounds[Len(g.doc.rounds)][x]
                    ELSE Append(d.rounds[Len(g.doc.rounds)][x], "concede")]
      BY <2>1 DEF half
    <2> QED
      BY <2>2 DEF RunOut, e, d
  <1>14. Agrees(RunOut(g))
    <2>1. ~ Over(g.doc)
      BY <1>2 DEF Phase
    <2>2. /\ e.result = "none" /\ Round(e) > 0
          /\ \A x \in Side : e.stands[x]
      BY <1>1, <1>4, <1>10, <2>1, PublishedShape DEF Over, d
    <2>3. Conceded(e) # {}
      BY <1>9, <1>10 DEF Conceded
    <2> QED
      BY <1>10, <1>13, <2>2, <2>3, ConcessionAgrees
  <1> QED
    BY <1>12, <1>13, <1>14 DEF DealtDocs, Secret

(* The round a fight opens has nothing recorded.                           *)
LEMMA NextRoundSecret ==
  ASSUME NEW g \in Games, NEW stands \in [Side -> BOOLEAN],
         NEW offered \in BOOLEAN
  PROVE  NextRound(g, stands, offered) \in DealtDocs
PROOF
  <1> DEFINE fresh == [s \in Side |-> <<>>]
             d == NextRound(g, stands, offered)
             old == Published(g).rounds
  <1>1. fresh \in Half
    BY DEF Half, Lists
  <1>2. old \in Seq(Half) /\ Len(old) \in Nat
    BY PublishedShape, DealtShape
  <1> HIDE DEF fresh, old
  <1>3. /\ Append(old, fresh) \in Seq(Half)
        /\ Append(old, fresh) # <<>>
        /\ Len(Append(old, fresh)) = Len(old) + 1
        /\ Append(old, fresh)[Len(old) + 1] = fresh
    BY <1>1, <1>2, AppendProperties
  <1>4. FromCores(stands) \in {"none", "draw"} \cup Side
    BY DEF FromCores, Side
  <1>5. d = [rounds |-> Append(old, fresh), stands |-> stands,
             offered |-> offered, result |-> FromCores(stands)]
    BY DEF NextRound, fresh, old
  <1>6. d \in Documents /\ Dealt(d) /\ Recorded(d) = fresh
    BY <1>3, <1>4, <1>5 DEF Documents, Half, Dealt, Recorded
  <1>7. \A s \in Side : fresh[s] = <<>>
    BY DEF fresh
  <1>8. Agrees(d)
    <2>1. Conceded(d) = {}
      BY <1>6, <1>7 DEF Conceded, Has
    <2>2. d.stands = stands /\ d.result = FromCores(stands)
      BY <1>5
    <2>3. /\ FromCores(stands) = "none" => \A s \in Side : stands[s]
          /\ FromCores(stands) \in Side =>
               /\ stands[FromCores(stands)]
               /\ ~ stands[Other(FromCores(stands))]
      BY DEF FromCores, Side, Other
    <2>4. Side # {}
      BY DEF Side
    <2> HIDE DEF d
    <2>5. Over(d) => d.result # "none"
      BY <2>1, <2>2, <2>3 DEF Over
    <2> QED
      BY <2>1, <2>2, <2>3, <2>4, <2>5 DEF Agrees
  <1> QED
    BY <1>6, <1>7, <1>8 DEF DealtDocs, Secret

Progresses == [game : Games, writes : Seq(GoodWrites)]

LEMMA FoughtGood ==
  ASSUME NEW g \in Games, Phase(g) = "fight", NEW p \in Fought(g)
  PROVE  p \in Progresses
PROOF
  <1>1. CASE Over(Published(g))
    <2> DEFINE d == WithConcession(Published(g))
    <2>1. d \in Documents /\ Dealt(d) /\ Over(d)
      BY <1>1, PublishedShape, Concession
    <2>2. d \in DealtDocs /\ g.turn \in Turns
      <3>1. ~ Over(g.doc)
        BY DEF Phase
      <3>2. /\ Published(g).result = "none" /\ Round(Published(g)) > 0
            /\ \A s \in Side : Published(g).stands[s]
            /\ Conceded(Published(g)) # {}
        BY <1>1, <3>1, PublishedShape DEF Over
      <3>3. Agrees(d)
        BY <3>2, PublishedShape, ConcessionAgrees
      <3> QED
        BY <2>1, <3>3, GameShape DEF DealtDocs, Secret
    <2>3. Game(d, g.turn) \in Games
      BY <2>2 DEF Game, Games
    <2>4. WritesBoth(Game(d, g.turn)) \in Seq(GoodWrites)
      BY <2>3, Both
    <2>5. p = Progress(Game(d, g.turn), WritesBoth(Game(d, g.turn)))
      BY <1>1 DEF Fought
    <2> QED
      BY <2>3, <2>4, <2>5 DEF Progress, Progresses
  <1>2. CASE ~ Over(Published(g))
    <2>1. CASE p = Progress(g, <<>>)
      BY <2>1, WritesTyped DEF Progress, Progresses
    <2>2. CASE p # Progress(g, <<>>)
      <3>1. PICK n \in Fights(g) \X BOOLEAN :
              p = Progress(
                    Game(NextRound(g, n[1], n[2]),
                         Opening(Round(g.doc) + 1, g.turn.given)),
                    WritesBoth(Game(NextRound(g, n[1], n[2]),
                         Opening(Round(g.doc) + 1, g.turn.given))))
        BY <1>2, <2>2 DEF Fought
      <3>2. n[1] \in [Side -> BOOLEAN] /\ n[2] \in BOOLEAN
        BY DEF Fights
      <3>3. NextRound(g, n[1], n[2]) \in DealtDocs
        BY <3>2, NextRoundSecret
      <3>4. Opening(Round(g.doc) + 1, g.turn.given) \in Turns
        <4>1. Round(g.doc) + 1 \in Nat
          BY GameShape, DealtShape
        <4>2. g.turn.given \in [Side -> BOOLEAN]
          BY GameShape DEF Turns
        <4> QED
          BY <4>1, <4>2, OpeningTyped
      <3>5. Game(NextRound(g, n[1], n[2]),
                 Opening(Round(g.doc) + 1, g.turn.given)) \in Games
        BY <3>3, <3>4 DEF Game, Games
      <3> QED
        BY <3>1, <3>5, Both DEF Progress, Progresses
    <2> QED
      BY <2>1, <2>2
  <1> QED
    BY <1>1, <1>2

LEMMA SettledGood ==
  ASSUME NEW g \in Games, NEW p \in Settled(g)
  PROVE  p \in Progresses
PROOF
  <1> DEFINE after ==
        CASE RunsOut(g) ->
               {Progress(Game(RunOut(g), g.turn), WritesDoc(RunOut(g)))}
          [] Phase(g) = "fight" -> Fought(g)
          [] OTHER -> {Progress(g, <<>>)}
  <1>1. PICK q \in after :
          p = Progress(q.game, q.writes \o (IF Over(q.game.doc) THEN Removes
                                                               ELSE <<>>))
    BY DEF Settled
  <1>2. q \in Progresses
    <2>1. CASE RunsOut(g)
      <3>0. Phase(g) # "fight"
        BY <2>1 DEF RunsOut
      <3>1. q = Progress(Game(RunOut(g), g.turn), WritesDoc(RunOut(g)))
        BY <2>1, <3>0
      <3>2. RunOut(g) \in DealtDocs /\ g.turn \in Turns
        BY <2>1, RunOutEnds, GameShape
      <3> QED
        BY <3>1, <3>2, WritesTyped DEF Progress, Progresses, Game, Games
    <2>2. CASE Phase(g) = "fight"
      <3>1. ~ RunsOut(g)
        BY <2>2 DEF RunsOut
      <3>2. q \in Fought(g)
        BY <2>2, <3>1
      <3> QED
        BY <2>2, <3>2, FoughtGood
    <2>3. CASE ~ RunsOut(g) /\ Phase(g) # "fight"
      <3>1. q = Progress(g, <<>>)
        BY <2>3
      <3> QED
        BY <3>1, WritesTyped DEF Progress, Progresses
    <2> QED
      BY <2>1, <2>2, <2>3
  <1> HIDE DEF after
  <1>3. (IF Over(q.game.doc) THEN Removes ELSE <<>>) \in Seq(GoodWrites)
    BY WritesTyped
  <1>4. q.game \in Games /\ q.writes \in Seq(GoodWrites)
    BY <1>2 DEF Progresses
  <1>5. q.writes \o (IF Over(q.game.doc) THEN Removes ELSE <<>>)
          \in Seq(GoodWrites)
    BY <1>3, <1>4, ConcatProperties
  <1> QED
    BY <1>1, <1>4, <1>5 DEF Progress, Progresses

-----------------------------------------------------------------------------
(* The invariant.                                                          *)

(* What a caller runs: a seat goes with every operation but new and show.  *)
Ops == [kind : Kinds \ {"new"}, side : Side]
    \cup [kind : {"new", "show"}, side : {"none"}]
Promises == [round : Nat, decisions : Lists]

DiskOK ==
  /\ doc \in DealtDocs \cup Undealt
  /\ path \in Inode \cup {NoInode}
  /\ file \in [Inode -> Turns \cup {NoTurn}]

ProcOK ==
  /\ fd \in [Caller -> Inode \cup {NoInode}]
  /\ op \in [Caller -> Ops \cup {NoOp}]
  /\ writes \in [Caller -> Seq(GoodWrites)]
  /\ answer \in [Caller -> Answers]

CallersOK ==
  /\ seat \in [Caller -> Side \cup {"none"}]
  /\ promised \in [Side -> Promises \cup {NoPromise}]
  /\ deaths \in 0..MaxDeaths

LockOK ==
  /\ holder \in [Inode -> SUBSET Caller]
  /\ \A i \in Inode : \A c \in holder[i] :
       fd[c] = i /\ holder[i] = {c} /\ op[c] # NoOp

MatchInv == DiskOK /\ ProcOK /\ CallersOK /\ LockOK

LEMMA HeldGood ==
  ASSUME MatchInv, NEW c \in Caller, Granted(c), Dealt(doc)
  PROVE  /\ Held(c) \in Games
         /\ Rebuilds(c) \in Seq(GoodWrites)
PROOF
  <1>1. fd[c] \in Inode
    BY DEF MatchInv, ProcOK, Granted
  <1>2. file[fd[c]] \in Turns \cup {NoTurn} /\ doc \in DealtDocs
    BY <1>1 DEF MatchInv, DiskOK, Undealt
  <1> QED
    BY <1>2, ReadGood DEF Held, Rebuilds

LEMMA SeatedOp ==
  ASSUME MatchInv, NEW c \in Caller, op[c].kind \in {"act", "undo", "commit"}
  PROVE  op[c].side \in Side
PROOF
  <1>1. op[c] \in Ops \cup {NoOp}
    BY DEF MatchInv, ProcOK
  <1> QED
    BY <1>1 DEF Ops, NoOp

LEMMA AnswersTyped ==
  Refused \in Answers /\ Shown \in Answers /\ Again \in Answers
PROOF
  BY DEF Answers

(* What an operation decides under the lock is well formed.                *)
DecidesWell(c) ==
  \E ws \in Seq(GoodWrites), a \in Answers : Works(c, ws, a)

LEMMA DealGood ==
  ASSUME MatchInv, NEW c \in Caller, TakeDeal(c)
  PROVE  DecidesWell(c)
PROOF
  <1> DEFINE fresh == [s \in Side |-> <<>>]
             d == [NoDocument EXCEPT !.rounds = <<fresh>>]
             t == Opening(0, [s \in Side |-> s = "blue"])
  <1>1. fresh \in Half /\ \A s \in Side : fresh[s] = <<>>
    BY DEF Half, Lists
  <1>2. t \in Turns
    <2>1. [s \in Side |-> s = "blue"] \in [Side -> BOOLEAN]
      OBVIOUS
    <2> QED
      BY <2>1, OpeningTyped
  <1>3. d \in DealtDocs
    <2> HIDE DEF fresh
    <2>1. /\ <<fresh>> \in Seq(Half) /\ Len(<<fresh>>) = 1
          /\ <<fresh>>[1] = fresh /\ <<fresh>> # <<>>
      BY <1>1
    <2>2. d.rounds = <<fresh>> /\ d \in Documents
      BY <2>1 DEF NoDocument, Documents, Half
    <2> HIDE DEF d
    <2>3. Dealt(d) /\ Recorded(d) = fresh /\ Round(d) = 0
      BY <2>1, <2>2 DEF Dealt, Recorded, Round
    <2>4. d.result = "none"
      BY DEF NoDocument, d
    <2>5. ~ Over(d)
      BY <2>3, <2>4 DEF Over
    <2> QED
      BY <1>1, <2>2, <2>3, <2>5 DEF DealtDocs, Secret, Agrees
  <1>4. Game(d, t) \in Games
    BY <1>2, <1>3 DEF Game, Games
  <1>5. WritesBoth(Game(d, t)) \in Seq(GoodWrites)
    BY <1>4, Both
  <1>6. [kind |-> "seat", side |-> "blue"] \in Answers
    BY DEF Answers, Side
  <1>7. Works(c, WritesBoth(Game(d, t)), [kind |-> "seat", side |-> "blue"])
    BY DEF TakeDeal
  <1> QED
    BY <1>5, <1>6, <1>7 DEF DecidesWell

LEMMA JoinGood ==
  ASSUME MatchInv, NEW c \in Caller, TakeJoin(c)
  PROVE  DecidesWell(c)
PROOF
  <1>1. Granted(c) /\ Dealt(doc)
    BY DEF TakeJoin, Locks
  <1>2. Held(c) \in Games /\ Rebuilds(c) \in Seq(GoodWrites)
    BY <1>1, HeldGood
  <1>3. CASE Works(c, Rebuilds(c), Refused)
    BY <1>2, <1>3, AnswersTyped DEF DecidesWell
  <1>4. CASE \E s \in Side :
               LET joined == [Held(c) EXCEPT !.turn.given[s] = TRUE]
               IN  \E ws \in {WritesBoth(joined), WritesTurn(joined.turn)} :
                     Works(c, Rebuilds(c) \o ws, [kind |-> "seat", side |-> s])
    <2>1. PICK s \in Side :
            LET joined == [Held(c) EXCEPT !.turn.given[s] = TRUE]
            IN  \E ws \in {WritesBoth(joined), WritesTurn(joined.turn)} :
                  Works(c, Rebuilds(c) \o ws, [kind |-> "seat", side |-> s])
      BY <1>4
    <2> DEFINE joined == [Held(c) EXCEPT !.turn.given[s] = TRUE]
    <2>2. PICK ws \in {WritesBoth(joined), WritesTurn(joined.turn)} :
            Works(c, Rebuilds(c) \o ws, [kind |-> "seat", side |-> s])
      BY <2>1
    <2>3. joined \in Games
      BY <1>2 DEF Games, Turns
    <2>4. joined.turn \in Turns
      BY <2>3 DEF Games
    <2> HIDE DEF joined
    <2>5. ws \in Seq(GoodWrites)
      BY <2>2, <2>3, <2>4, Both, WritesTyped
    <2>6. Rebuilds(c) \o ws \in Seq(GoodWrites)
      BY <1>2, <2>5, ConcatProperties
    <2>7. [kind |-> "seat", side |-> s] \in Answers
      BY DEF Answers
    <2> QED
      BY <2>2, <2>6, <2>7 DEF DecidesWell
  <1> QED
    BY <1>3, <1>4 DEF TakeJoin

LEMMA ShowGood ==
  ASSUME MatchInv, NEW c \in Caller, TakeShow(c)
  PROVE  DecidesWell(c)
PROOF
  <1>1. Granted(c) /\ Dealt(doc)
    BY DEF TakeShow, Locks
  <1>2. Held(c) \in Games /\ Rebuilds(c) \in Seq(GoodWrites)
    BY <1>1, HeldGood
  <1>3. PICK p \in Settled(Held(c)) :
          Works(c, Rebuilds(c) \o p.writes,
                IF op[c].kind = "wait" /\ ~ WaitOver(p.game, op[c].side)
                THEN Again ELSE Shown)
    BY DEF TakeShow
  <1>4. p.writes \in Seq(GoodWrites)
    BY <1>2, SettledGood DEF Progresses
  <1>5. Rebuilds(c) \o p.writes \in Seq(GoodWrites)
    BY <1>2, <1>4, ConcatProperties
  <1> QED
    BY <1>3, <1>5, AnswersTyped DEF DecidesWell

LEMMA DraftTyped ==
  ASSUME NEW g \in Games, NEW s \in Side, NEW list \in Lists
  PROVE  Decided(g, s, list).turn \in Turns
PROOF
  BY DEF Decided, Games, Turns

LEMMA ActGood ==
  ASSUME MatchInv, NEW c \in Caller, TakeAct(c)
  PROVE  DecidesWell(c)
PROOF
  <1> DEFINE g == Held(c)
             s == op[c].side
  <1>1. Granted(c) /\ Dealt(doc) /\ s \in Side
    BY SeatedOp DEF TakeAct, Locks
  <1>2. g \in Games /\ Rebuilds(c) \in Seq(GoodWrites)
    BY <1>1, HeldGood
  <1>3. CASE Works(c, Rebuilds(c), Refused)
    BY <1>2, <1>3, AnswersTyped DEF DecidesWell
  <1>4. CASE \E push \in BOOLEAN, more \in Drafts :
               Works(c, Rebuilds(c)
                          \o WritesTurn(
                               Decided(g, s, (IF push THEN <<>>
                                              ELSE g.turn.decisions[s]) \o more)
                                 .turn),
                     Shown)
    <2> HIDE DEF g, s
    <2>1. PICK push \in BOOLEAN, more \in Drafts :
            Works(c, Rebuilds(c)
                       \o WritesTurn(
                            Decided(g, s, (IF push THEN <<>>
                                           ELSE g.turn.decisions[s]) \o more)
                              .turn),
                  Shown)
      BY <1>4
    <2> DEFINE draft == (IF push THEN <<>> ELSE g.turn.decisions[s]) \o more
    <2>2. more \in Lists
      BY DEF Drafts, Lists
    <2>3. (IF push THEN <<>> ELSE g.turn.decisions[s]) \in Lists
      BY <1>1, <1>2, GameShape DEF Lists
    <2>4. draft \in Lists
      BY <2>2, <2>3, ConcatProperties DEF Lists
    <2> HIDE DEF draft
    <2>5. WritesTurn(Decided(g, s, draft).turn) \in Seq(GoodWrites)
      BY <1>1, <1>2, <2>4, DraftTyped, WritesTyped
    <2>6. Rebuilds(c) \o WritesTurn(Decided(g, s, draft).turn)
            \in Seq(GoodWrites)
      BY <1>2, <2>5, ConcatProperties
    <2> QED
      BY <2>1, <2>6, AnswersTyped DEF DecidesWell, draft
  <1> QED
    BY <1>3, <1>4 DEF TakeAct

LEMMA UndoGood ==
  ASSUME MatchInv, NEW c \in Caller, TakeUndo(c)
  PROVE  DecidesWell(c)
PROOF
  <1> DEFINE g == Held(c)
             s == op[c].side
             list == g.turn.decisions[s]
             Left(n) == SubSeq(list, 1, Len(list) - n)
  <1>1. Granted(c) /\ Dealt(doc) /\ s \in Side
    BY SeatedOp DEF TakeUndo, Locks
  <1>2. g \in Games /\ Rebuilds(c) \in Seq(GoodWrites)
    BY <1>1, HeldGood
  <1>3. CASE Works(c, Rebuilds(c), Refused)
    BY <1>2, <1>3, AnswersTyped DEF DecidesWell
  <1>4. CASE \E n \in 1..Len(list) :
               Works(c, Rebuilds(c) \o WritesTurn(Decided(g, s, Left(n)).turn),
                     Shown)
    <2>1. PICK n \in 1..Len(list) :
            Works(c, Rebuilds(c) \o WritesTurn(Decided(g, s, Left(n)).turn),
                  Shown)
      BY <1>4
    <2>2. list \in Seq(Decision) /\ Len(list) \in Nat
      BY <1>1, <1>2, GameShape, LenProperties DEF Lists
    <2>3. Left(n) \in Lists
      <3> HIDE DEF list
      <3>1. \A i \in 1..Len(list) - n : list[i] \in Decision
        BY <2>2, ElementOfSeq
      <3> QED
        BY <2>2, <3>1, SubSeqProperties DEF Lists
    <2>4. WritesTurn(Decided(g, s, Left(n)).turn) \in Seq(GoodWrites)
      BY <1>1, <1>2, <2>3, DraftTyped, WritesTyped
    <2>5. Rebuilds(c) \o WritesTurn(Decided(g, s, Left(n)).turn)
            \in Seq(GoodWrites)
      BY <1>2, <2>4, ConcatProperties
    <2> QED
      BY <2>1, <2>5, AnswersTyped DEF DecidesWell
  <1> QED
    BY <1>3, <1>4 DEF TakeUndo

LEMMA LaterGood ==
  ASSUME NEW g \in Games, NEW h \in Later(g)
  PROVE  h \in Games
PROOF
  <1>1. Older(g.turn) \in Turns
    BY OlderTyped DEF Games
  <1> QED
    BY <1>1 DEF Later, Games

LEMMA SealedGood ==
  ASSUME NEW g \in Games, NEW s \in Side
  PROVE  /\ Sealed(g, s) \in Games
         /\ SealWrites(g, s) \in Seq(GoodWrites)
         /\ DecidedBy(Sealed(g, s), s) \in Lists
PROOF
  <1>1. Sealed(g, s) \in Games
    BY DEF Sealed, Games, Turns
  <1>2. Sealed(g, s).turn \in Turns
    BY <1>1 DEF Games
  <1> QED
    BY <1>1, <1>2, WritesTyped, DecidedByTyped DEF SealWrites

LEMMA CommitGood ==
  ASSUME MatchInv, NEW c \in Caller, TakeCommit(c)
  PROVE  DecidesWell(c)
PROOF
  <1> DEFINE s == op[c].side
  <1>1. Granted(c) /\ Dealt(doc) /\ s \in Side
    BY SeatedOp DEF TakeCommit, Locks
  <1>2. Held(c) \in Games /\ Rebuilds(c) \in Seq(GoodWrites)
    BY <1>1, HeldGood
  <1>3. PICK p \in Settled(Held(c)) : \E g \in Later(p.game) :
          IF Sealable(g, s)
          THEN \E q \in Settled(Sealed(g, s)) :
                 Works(c, Rebuilds(c) \o p.writes \o SealWrites(g, s)
                            \o q.writes,
                       [kind |-> "sealed", side |-> s,
                        round |-> Round(g.doc),
                        decisions |-> DecidedBy(Sealed(g, s), s)])
          ELSE Works(c, Rebuilds(c) \o p.writes, Refused)
    BY DEF TakeCommit
  <1>4. p.game \in Games /\ p.writes \in Seq(GoodWrites)
    BY <1>2, SettledGood DEF Progresses
  <1>5. Rebuilds(c) \o p.writes \in Seq(GoodWrites)
    BY <1>2, <1>4, ConcatProperties
  <1>6. PICK g \in Later(p.game) :
          IF Sealable(g, s)
          THEN \E q \in Settled(Sealed(g, s)) :
                 Works(c, Rebuilds(c) \o p.writes \o SealWrites(g, s)
                            \o q.writes,
                       [kind |-> "sealed", side |-> s,
                        round |-> Round(g.doc),
                        decisions |-> DecidedBy(Sealed(g, s), s)])
          ELSE Works(c, Rebuilds(c) \o p.writes, Refused)
    BY <1>3
  <1>7. g \in Games
    BY <1>4, LaterGood
  <1>8. CASE ~ Sealable(g, s)
    BY <1>5, <1>6, <1>8, AnswersTyped DEF DecidesWell
  <1>9. CASE Sealable(g, s)
    <2> DEFINE a == [kind |-> "sealed", side |-> s, round |-> Round(g.doc),
                     decisions |-> DecidedBy(Sealed(g, s), s)]
    <2>1. PICK q \in Settled(Sealed(g, s)) :
            Works(c, Rebuilds(c) \o p.writes \o SealWrites(g, s) \o q.writes, a)
      BY <1>6, <1>9
    <2>2. /\ Sealed(g, s) \in Games /\ SealWrites(g, s) \in Seq(GoodWrites)
          /\ DecidedBy(Sealed(g, s), s) \in Lists
      BY <1>1, <1>7, SealedGood
    <2>3. q.writes \in Seq(GoodWrites)
      BY <2>2, SettledGood DEF Progresses
    <2>4. Rebuilds(c) \o p.writes \o SealWrites(g, s) \in Seq(GoodWrites)
      BY <1>5, <2>2, ConcatProperties
    <2>5. Rebuilds(c) \o p.writes \o SealWrites(g, s) \o q.writes
            \in Seq(GoodWrites)
      BY <2>3, <2>4, ConcatProperties
    <2>6. Round(g.doc) \in Nat
      BY <1>7, GameShape, DealtShape
    <2>7. a \in Answers
      BY <1>1, <2>2, <2>6 DEF Answers
    <2> QED
      BY <2>1, <2>5, <2>7 DEF DecidesWell
  <1> QED
    BY <1>8, <1>9

-----------------------------------------------------------------------------
(* The steps.                                                              *)

LEMMA RunsGood ==
  ASSUME MatchInv, NEW c \in Caller, Runs(c)
  PROVE  op[c] # NoOp /\ Locks(c) /\ DecidesWell(c)
PROOF
  <1>1. CASE TakeNothing(c)
    <2>1. op[c].kind # "none" /\ Locks(c) /\ Works(c, <<>>, Refused)
      BY <1>1 DEF TakeNothing
    <2>2. DecidesWell(c)
      BY <2>1, WritesTyped, AnswersTyped DEF DecidesWell
    <2> QED
      BY <2>1, <2>2 DEF NoOp
  <1>2. CASE TakeDeal(c)
    <2>1. op[c].kind # "none" /\ Locks(c)
      BY <1>2 DEF TakeDeal
    <2>2. DecidesWell(c)
      BY <1>2, DealGood
    <2> QED
      BY <2>1, <2>2 DEF NoOp
  <1>3. CASE TakeJoin(c)
    <2>1. op[c].kind = "new" /\ Locks(c)
      BY <1>3 DEF TakeJoin
    <2> QED
      BY <1>3, <2>1, JoinGood DEF NoOp
  <1>4. CASE TakeShow(c)
    <2>1. op[c].kind # "none" /\ Locks(c)
      BY <1>4 DEF TakeShow
    <2>2. DecidesWell(c)
      BY <1>4, ShowGood
    <2> QED
      BY <2>1, <2>2 DEF NoOp
  <1>5. CASE TakeAct(c)
    <2>1. op[c].kind # "none" /\ Locks(c)
      BY <1>5 DEF TakeAct
    <2>2. DecidesWell(c)
      BY <1>5, ActGood
    <2> QED
      BY <2>1, <2>2 DEF NoOp
  <1>6. CASE TakeUndo(c)
    <2>1. op[c].kind # "none" /\ Locks(c)
      BY <1>6 DEF TakeUndo
    <2>2. DecidesWell(c)
      BY <1>6, UndoGood
    <2> QED
      BY <2>1, <2>2 DEF NoOp
  <1>7. CASE TakeCommit(c)
    <2>1. op[c].kind # "none" /\ Locks(c)
      BY <1>7 DEF TakeCommit
    <2>2. DecidesWell(c)
      BY <1>7, CommitGood
    <2> QED
      BY <2>1, <2>2 DEF NoOp
  <1> QED
    BY <1>1, <1>2, <1>3, <1>4, <1>5, <1>6, <1>7 DEF Runs

LEMMA RunsKeep ==
  ASSUME MatchInv, NEW c \in Caller, Runs(c)
  PROVE  MatchInv'
PROOF
  <1>1. op[c] # NoOp /\ Locks(c)
    BY RunsGood
  <1>2. PICK ws \in Seq(GoodWrites), a \in Answers : Works(c, ws, a)
    BY RunsGood DEF DecidesWell
  <1>3. /\ fd[c] \in Inode /\ holder[fd[c]] = {}
        /\ holder' = [holder EXCEPT ![fd[c]] = @ \cup {c}]
        /\ UNCHANGED <<doc, path, file, fd, op, seat, promised, deaths>>
    BY <1>1 DEF Locks, Granted, diskVars, MatchInv, ProcOK
  <1>4. DiskOK' /\ CallersOK'
    BY <1>3 DEF MatchInv, DiskOK, CallersOK
  <1>5. ProcOK'
    BY <1>2, <1>3 DEF Works, MatchInv, ProcOK
  <1>6. LockOK'
    <2>1. holder \in [Inode -> SUBSET Caller]
      BY DEF MatchInv, LockOK
    <2>2. /\ holder' \in [Inode -> SUBSET Caller]
          /\ holder'[fd[c]] = {c}
          /\ \A i \in Inode \ {fd[c]} : holder'[i] = holder[i]
      BY <1>3, <2>1
    <2>3. ASSUME NEW i \in Inode, NEW o \in holder'[i]
          PROVE  fd'[o] = i /\ holder'[i] = {o} /\ op'[o] # NoOp
      <3>1. CASE i = fd[c]
        BY <1>1, <1>3, <2>2, <2>3, <3>1
      <3>2. CASE i # fd[c]
        BY <1>3, <2>2, <2>3, <3>2 DEF MatchInv, LockOK
      <3> QED
        BY <3>1, <3>2
    <2> QED
      BY <2>2, <2>3 DEF LockOK
  <1> QED
    BY <1>4, <1>5, <1>6 DEF MatchInv

(* A process that opens the turn file holds no lock yet.                   *)
LEMMA OpensKeep ==
  ASSUME MatchInv, NEW c \in Caller, Opens(c),
         \A i \in Inode : c \notin holder[i],
         op' \in [Caller -> Ops \cup {NoOp}],
         \A o \in Caller \ {c} : op'[o] = op[o],
         UNCHANGED <<doc, holder, writes, answer, seat, promised, deaths>>
  PROVE  MatchInv'
PROOF
  <1>1. /\ path' \in Inode \cup {NoInode}
        /\ file' \in [Inode -> Turns \cup {NoTurn}]
        /\ fd' \in [Caller -> Inode \cup {NoInode}]
        /\ \A o \in Caller \ {c} : fd'[o] = fd[o]
    BY DEF Opens, Unused, MatchInv, DiskOK, ProcOK
  <1>2. DiskOK' /\ CallersOK'
    BY <1>1 DEF MatchInv, DiskOK, CallersOK
  <1>3. ProcOK'
    BY <1>1 DEF MatchInv, ProcOK
  <1>4. LockOK'
    <2>1. holder \in [Inode -> SUBSET Caller]
      BY DEF MatchInv, LockOK
    <2>2. ASSUME NEW i \in Inode, NEW o \in holder[i]
          PROVE  fd'[o] = i /\ holder[i] = {o} /\ op'[o] # NoOp
      <3>1. o \in Caller \ {c}
        BY <2>1, <2>2
      <3> QED
        BY <1>1, <2>2, <3>1 DEF MatchInv, LockOK
    <2> QED
      BY <2>1, <2>2 DEF LockOK
  <1> QED
    BY <1>2, <1>3, <1>4 DEF MatchInv

LEMMA StartKeeps ==
  ASSUME MatchInv, NEW c \in Caller, Start(c)
  PROVE  MatchInv'
PROOF
  <1>1. PICK o \in Operations(c) : op' = [op EXCEPT ![c] = o]
    BY DEF Start
  <1>2. o \in Ops
    <2>1. Asks[c] \subseteq Kinds
      BY MatchAssumption DEF MatchAssumption
    <2> QED
      BY <2>1 DEF Operations, Ops
  <1>3. /\ op' \in [Caller -> Ops \cup {NoOp}]
        /\ \A x \in Caller \ {c} : op'[x] = op[x]
    BY <1>1, <1>2 DEF MatchInv, ProcOK
  <1>4. \A i \in Inode : c \notin holder[i]
    BY DEF Start, MatchInv, LockOK
  <1> QED
    BY <1>3, <1>4, OpensKeep DEF Start

LEMMA PollsKeep ==
  ASSUME MatchInv, NEW c \in Caller, Polls(c)
  PROVE  MatchInv'
PROOF
  <1>1. op' \in [Caller -> Ops \cup {NoOp}] /\ op' = op
    BY DEF Polls, MatchInv, ProcOK
  <1>2. \A i \in Inode : c \notin holder[i]
    <2>1. fd[c] = NoInode
      BY DEF Polls
    <2>2. NoInode \notin Inode
      BY DEF NoInode, Inode
    <2> QED
      BY <2>1, <2>2 DEF MatchInv, LockOK
  <1> QED
    BY <1>1, <1>2, OpensKeep DEF Polls

LEMMA WritesKeep ==
  ASSUME MatchInv, NEW c \in Caller, WritesOne(c)
  PROVE  MatchInv'
PROOF
  <1>1. /\ writes[c] # <<>> /\ fd[c] \in Inode
        /\ writes' = [writes EXCEPT ![c] = Tail(@)]
        /\ UNCHANGED <<holder, fd, op, answer, seat, promised, deaths>>
    BY DEF WritesOne, WriteDocument, WriteTurn, RemoveTurn, Makes, Mine,
           MatchInv, ProcOK
  <1>2. /\ Head(writes[c]) \in GoodWrites
        /\ Tail(writes[c]) \in Seq(GoodWrites)
    BY <1>1, HeadTailProperties DEF MatchInv, ProcOK
  <1>3. ProcOK'
    BY <1>1, <1>2 DEF MatchInv, ProcOK
  <1>4. CallersOK' /\ LockOK'
    BY <1>1 DEF MatchInv, CallersOK, LockOK
  <1>5. DiskOK'
    <2>1. CASE WriteDocument(c)
      <3>1. Head(writes[c]).kind = "doc"
        BY <2>1 DEF WriteDocument, Makes
      <3>2. doc' \in DealtDocs
        BY <1>2, <2>1, <3>1 DEF GoodWrites, WriteDocument
      <3>3. path' = path /\ file' = file
        BY <2>1 DEF WriteDocument
      <3> QED
        BY <3>2, <3>3 DEF MatchInv, DiskOK
    <2>2. CASE WriteTurn(c)
      <3>1. Head(writes[c]).kind = "turn"
        BY <2>2 DEF WriteTurn, Makes
      <3>2. Head(writes[c]).turn \in Turns
        BY <1>2, <3>1 DEF GoodWrites
      <3>3. /\ file' \in [Inode -> Turns \cup {NoTurn}]
            /\ doc' = doc /\ path' = path
        BY <1>1, <2>2, <3>2 DEF WriteTurn, MatchInv, DiskOK
      <3> QED
        BY <3>3 DEF MatchInv, DiskOK
    <2>3. CASE RemoveTurn(c)
      BY <2>3 DEF RemoveTurn, MatchInv, DiskOK
    <2> QED
      BY <2>1, <2>2, <2>3 DEF WritesOne
  <1> QED
    BY <1>3, <1>4, <1>5 DEF MatchInv

(* A process that lets go of the file leaves the others' locks.            *)
LEMMA ClosesKeep ==
  ASSUME MatchInv, NEW c \in Caller,
         NEW held \in [Inode -> Turns \cup {NoTurn}], Closes(c, held),
         op' \in [Caller -> Ops \cup {NoOp}],
         \A o \in Caller \ {c} : op'[o] = op[o],
         writes' \in [Caller -> Seq(GoodWrites)],
         answer' \in [Caller -> Answers],
         CallersOK'
  PROVE  MatchInv'
PROOF
  <1>1. /\ doc' = doc /\ path' = path
        /\ file' \in [Inode -> Turns \cup {NoTurn}]
        /\ fd' = [fd EXCEPT ![c] = NoInode]
        /\ holder' = [i \in Inode |-> holder[i] \ {c}]
    BY DEF Closes, Released
  <1>2. DiskOK'
    BY <1>1 DEF MatchInv, DiskOK
  <1>3. ProcOK'
    BY <1>1 DEF MatchInv, ProcOK
  <1>4. LockOK'
    <2>1. holder \in [Inode -> SUBSET Caller] /\ DOMAIN fd = Caller
      BY DEF MatchInv, LockOK, ProcOK
    <2>2. holder' \in [Inode -> SUBSET Caller]
      BY <1>1, <2>1
    <2>3. ASSUME NEW i \in Inode, NEW o \in holder'[i]
          PROVE  fd'[o] = i /\ holder'[i] = {o} /\ op'[o] # NoOp
      <3>1. o \in holder[i] /\ o # c /\ o \in Caller
        BY <1>1, <2>1, <2>3
      <3>2. fd[o] = i /\ holder[i] = {o} /\ op[o] # NoOp
        BY <3>1 DEF MatchInv, LockOK
      <3>3. fd'[o] = fd[o] /\ op'[o] = op[o]
        BY <1>1, <2>1, <3>1
      <3>4. holder'[i] = {o}
        BY <1>1, <3>1, <3>2
      <3> QED
        BY <3>2, <3>3, <3>4
    <2> QED
      BY <2>2, <2>3 DEF LockOK
  <1> QED
    BY <1>2, <1>3, <1>4 DEF MatchInv

LEMMA AnswerKeeps ==
  ASSUME MatchInv, NEW c \in Caller, Answer(c)
  PROVE  MatchInv'
PROOF
  <1>1. answer[c] \in Answers
    BY DEF MatchInv, ProcOK
  <1>2. seat' \in [Caller -> Side \cup {"none"}]
    <2>1. CASE answer[c].kind = "seat"
      <3>1. answer[c].side \in Side
        BY <1>1, <2>1 DEF Answers, Refused, Shown, Again
      <3> QED
        BY <2>1, <3>1 DEF Answer, MatchInv, CallersOK
    <2>2. CASE answer[c].kind # "seat"
      BY <2>2 DEF Answer, MatchInv, CallersOK
    <2> QED
      BY <2>1, <2>2
  <1>3. promised' \in [Side -> Promises \cup {NoPromise}]
    <2>1. CASE answer[c].kind = "sealed"
      <3>1. /\ answer[c].round \in Nat /\ answer[c].decisions \in Lists
        BY <1>1, <2>1 DEF Answers, Refused, Shown, Again
      <3>2. [round |-> answer[c].round, decisions |-> answer[c].decisions]
              \in Promises
        BY <3>1 DEF Promises
      <3> QED
        BY <2>1, <3>2 DEF Answer, MatchInv, CallersOK
    <2>2. CASE answer[c].kind # "sealed"
      BY <2>2 DEF Answer, MatchInv, CallersOK
    <2> QED
      BY <2>1, <2>2
  <1>4. CallersOK'
    BY <1>2, <1>3 DEF Answer, MatchInv, CallersOK
  <1>5. /\ op' \in [Caller -> Ops \cup {NoOp}]
        /\ \A o \in Caller \ {c} : op'[o] = op[o]
    BY DEF Answer, MatchInv, ProcOK
  <1>6. /\ writes' \in [Caller -> Seq(GoodWrites)]
        /\ answer' \in [Caller -> Answers]
    BY AnswersTyped DEF Answer, MatchInv, ProcOK
  <1>7. Closes(c, file) /\ file \in [Inode -> Turns \cup {NoTurn}]
    BY DEF Answer, MatchInv, DiskOK
  <1> QED
    BY <1>4, <1>5, <1>6, <1>7, ClosesKeep

LEMMA DiesKeep ==
  ASSUME MatchInv, NEW c \in Caller,
         NEW held \in [Inode -> Turns \cup {NoTurn}], Dies(c, held),
         promised' \in [Side -> Promises \cup {NoPromise}]
  PROVE  MatchInv'
PROOF
  <1>1. CallersOK'
    BY MatchAssumption DEF Dies, MatchInv, CallersOK, MatchAssumption
  <1>2. /\ op' \in [Caller -> Ops \cup {NoOp}]
        /\ \A o \in Caller \ {c} : op'[o] = op[o]
    BY DEF Dies, MatchInv, ProcOK
  <1>3. /\ writes' \in [Caller -> Seq(GoodWrites)]
        /\ answer' \in [Caller -> Answers]
    BY AnswersTyped, WritesTyped DEF Dies, MatchInv, ProcOK
  <1> QED
    BY <1>1, <1>2, <1>3, ClosesKeep DEF Dies

LEMMA DeathsKeep ==
  ASSUME MatchInv, NEW c \in Caller, Die(c) \/ DieWriting(c)
  PROVE  MatchInv'
PROOF
  <1>1. file \in [Inode -> Turns \cup {NoTurn}]
    BY DEF MatchInv, DiskOK
  <1>2. CASE Die(c)
    BY <1>1, <1>2, DiesKeep DEF Die, MatchInv, CallersOK
  <1>3. CASE DieWriting(c)
    <2>1. promised' \in [Side -> Promises \cup {NoPromise}]
      BY <1>3 DEF DieWriting, MatchInv, CallersOK
    <2>2. [file EXCEPT ![fd[c]] = NoTurn] \in [Inode -> Turns \cup {NoTurn}]
      BY <1>1
    <2> QED
      BY <1>3, <2>1, <2>2, DiesKeep DEF DieWriting
  <1> QED
    BY <1>2, <1>3

LEMMA TickKeeps ==
  ASSUME MatchInv, Tick
  PROVE  MatchInv'
PROOF
  <1>1. file' \in [Inode -> Turns \cup {NoTurn}]
    BY OlderTyped DEF Tick, MatchInv, DiskOK
  <1>2. ASSUME NEW c \in Caller
        PROVE  [k \in DOMAIN writes[c] |->
                  IF writes[c][k].kind = "turn"
                  THEN [writes[c][k] EXCEPT !.turn = Older(@)]
                  ELSE writes[c][k]] \in Seq(GoodWrites)
    <2>1. writes[c] \in Seq(GoodWrites)
      BY DEF MatchInv, ProcOK
    <2>2. Len(writes[c]) \in Nat /\ DOMAIN writes[c] = 1..Len(writes[c])
      BY <2>1, LenProperties
    <2>3. ASSUME NEW k \in DOMAIN writes[c]
          PROVE  (IF writes[c][k].kind = "turn"
                  THEN [writes[c][k] EXCEPT !.turn = Older(@)]
                  ELSE writes[c][k]) \in GoodWrites
      <3>1. writes[c][k] \in GoodWrites
        BY <2>1, <2>2, ElementOfSeq
      <3>2. CASE writes[c][k].kind = "turn"
        <4>1. writes[c][k] \in [kind : {"turn"}, turn : Turns]
          BY <3>1, <3>2 DEF GoodWrites
        <4>2. Older(writes[c][k].turn) \in Turns
          BY <4>1, OlderTyped
        <4>3. [writes[c][k] EXCEPT !.turn = Older(@)]
                \in [kind : {"turn"}, turn : Turns]
          BY <4>1, <4>2
        <4> QED
          BY <3>2, <4>3 DEF GoodWrites
      <3> QED
        BY <3>1, <3>2
    <2> QED
      BY <2>2, <2>3
  <1>3. writes' \in [Caller -> Seq(GoodWrites)]
    BY <1>2 DEF Tick
  <1>4. UNCHANGED <<doc, path, holder, fd, op, answer, seat, promised, deaths>>
    BY DEF Tick
  <1>5. DiskOK' /\ CallersOK'
    BY <1>1, <1>4 DEF MatchInv, DiskOK, CallersOK
  <1>6. ProcOK' /\ LockOK'
    BY <1>3, <1>4 DEF MatchInv, ProcOK, LockOK
  <1> QED
    BY <1>5, <1>6 DEF MatchInv

LEMMA MatchStep == MatchInv /\ [MatchNext]_matchVars => MatchInv'
PROOF
  <1> SUFFICES ASSUME MatchInv, [MatchNext]_matchVars PROVE MatchInv'
    OBVIOUS
  <1>1. CASE UNCHANGED matchVars
    BY <1>1 DEF matchVars, diskVars, procVars, MatchInv, DiskOK, ProcOK,
                CallersOK, LockOK
  <1>2. ASSUME NEW c \in Caller,
               \/ Start(c) \/ Polls(c) \/ Runs(c) \/ WritesOne(c)
               \/ Answer(c) \/ Die(c) \/ DieWriting(c)
        PROVE  MatchInv'
    BY <1>2, StartKeeps, PollsKeep, RunsKeep, WritesKeep, AnswerKeeps,
       DeathsKeep
  <1> QED
    BY <1>1, <1>2, TickKeeps DEF MatchNext

LEMMA MatchInitInv == MatchInit => MatchInv
PROOF
  <1> SUFFICES ASSUME MatchInit PROVE MatchInv
    OBVIOUS
  <1>1. /\ <<>> \in Seq(Half) /\ <<>> \in Seq(GoodWrites)
        /\ ~ Dealt(NoDocument) /\ NoDocument \in Documents
    BY DEF NoDocument, Dealt, Documents, Half
  <1>2. 0 \in 0..MaxDeaths
    BY MatchAssumption DEF MatchAssumption
  <1>3. DiskOK
    BY <1>1 DEF MatchInit, DiskOK, Undealt
  <1>4. ProcOK
    BY <1>1, AnswersTyped DEF MatchInit, ProcOK
  <1>5. CallersOK /\ LockOK
    BY <1>2 DEF MatchInit, CallersOK, LockOK
  <1> QED
    BY <1>3, <1>4, <1>5 DEF MatchInv

-----------------------------------------------------------------------------
(* The inductive invariant holds always: of the file, the document and     *)
(* everything the processes have still to write.                           *)
THEOREM MatchInvariance == MatchSpec => []MatchInv
PROOF
  BY MatchInitInv, MatchStep, PTL DEF MatchSpec

(* Every variable keeps its type, and a lock is one process's at a time,   *)
(* one that has the file open, whoever dies or begins in between.          *)
THEOREM MatchTypeCorrect == MatchSpec => []MatchTypeOK
PROOF
  <1>1. MatchInv => MatchTypeOK
    <2> SUFFICES ASSUME MatchInv PROVE MatchTypeOK
      OBVIOUS
    <2>1. GoodWrites \subseteq WriteSet
      BY DEF GoodWrites, WriteSet, DealtDocs
    <2>2. writes \in [Caller -> Seq(WriteSet)]
      BY <2>1, SeqMonotonic DEF MatchInv, ProcOK
    <2>3. Ops \subseteq [kind : Kinds, side : Side \cup {"none"}]
      BY DEF Ops, Kinds
    <2>4. op \in [Caller -> [kind : Kinds, side : Side \cup {"none"}] \cup {NoOp}]
      BY <2>3 DEF MatchInv, ProcOK
    <2>5. /\ path \in Inode \cup {NoInode}
          /\ file \in [Inode -> Turns \cup {NoTurn}]
          /\ doc \in Documents
      BY DEF MatchInv, DiskOK, DealtDocs, Undealt
    <2>6. /\ seat \in [Caller -> Side \cup {"none"}]
          /\ promised \in [Side -> [round : Nat, decisions : Lists]
                                     \cup {NoPromise}]
          /\ deaths \in 0..MaxDeaths
      BY DEF MatchInv, CallersOK, Promises
    <2>7. /\ fd \in [Caller -> Inode \cup {NoInode}]
          /\ answer \in [Caller -> Answers]
      BY DEF MatchInv, ProcOK
    <2> QED
      BY <2>2, <2>4, <2>5, <2>6, <2>7 DEF MatchTypeOK, MatchInv, LockOK
  <1> QED
    BY <1>1, MatchInvariance, PTL

(* No document that is written, and none a reader finds, shows a decision  *)
(* of the round in progress: not a committed side's, not a late one's.     *)
THEOREM DecisionsStaySecret == MatchSpec => []SecretUntilSettled
PROOF
  <1>1. MatchInv => SecretUntilSettled
    BY DEF MatchInv, DiskOK, DealtDocs, Undealt, Secret, SecretUntilSettled
  <1> QED
    BY <1>1, MatchInvariance, PTL

(* A match that is over names the winner its last round has: whoever gave  *)
(* up or lost its core alone has lost, and only a round that both sides    *)
(* gave up in has no result.                                               *)
THEOREM ResultIsSound == MatchSpec => []ResultAgrees
PROOF
  <1>1. MatchInv => ResultAgrees
    BY DEF MatchInv, DiskOK, DealtDocs, Undealt, Agrees, ResultAgrees
  <1> QED
    BY <1>1, MatchInvariance, PTL

-----------------------------------------------------------------------------
(* What a process still has to write, followed to its end.                 *)

(* What the disk may hold of a match.                                      *)
Disks == [doc : DealtDocs \cup Undealt, turn : Turns \cup {NoTurn}]

(* A side's decisions of a round are sealed for good: the document has     *)
(* them, or the half the round in progress will be settled from has.       *)
Pledged(g, s, r, list) ==
  \/ /\ r < Round(g.doc) \/ (r = Round(g.doc) /\ Over(g.doc))
     /\ g.doc.rounds[r + 1][s] = list
  \/ /\ ~ Over(g.doc) /\ r = Round(g.doc) /\ g.turn.round = r
     /\ g.turn.committed[s] /\ g.turn.decisions[s] = list

(* Nothing sealed is lost from one state to the other, and no match that   *)
(* is over changes.                                                        *)
Stands(a, b) ==
  /\ Over(a.doc) => b.doc = a.doc
  /\ \A s \in Side, r \in Nat, list \in Lists :
       Pledged(a, s, r, list) => Pledged(b, s, r, list)

(* A turn file serves those who have a seat, S: they are given to, and     *)
(* nobody commits or reaches a round without being given to.               *)
Fair(S, t) ==
  \/ t = NoTurn
  \/ /\ \A s \in Side : t.committed[s] => t.given[s]
     /\ t.round > 0 => \A s \in Side : t.given[s]
     /\ \A s \in S : t.given[s]

(* Nothing ends in the opening.                                            *)
Ended(d) == Over(d) => Round(d) > 0

Follows(d, e) ==
  \/ e = d
  \/ /\ Len(e.rounds) \in Len(d.rounds)..Len(d.rounds) + 1
     /\ \A r \in 1..Len(d.rounds) - 1 : e.rounds[r] = d.rounds[r]
     /\ Dealt(d) => ~ Over(d)

(* One write, of those a process may decide.                               *)
OneWrite(S, w, a, b) ==
  /\ \/ /\ w.kind = "doc" /\ b = Game(w.doc, a.turn)
        /\ Follows(a.doc, w.doc) /\ Ended(w.doc)
     \/ /\ w.kind = "turn" /\ b = Game(a.doc, w.turn)
        /\ Dealt(a.doc) /\ Fair(S, w.turn)
     \/ w.kind = "remove" /\ b = a /\ Over(a.doc)
  /\ Stands(a, b)

(* The writes ws take the disk from a to b by way of the states gs.        *)
Traces(S, a, ws, b, gs) ==
  /\ gs \in [0..Len(ws) -> Disks]
  /\ gs[0] = a /\ gs[Len(ws)] = b
  /\ \A k \in 1..Len(ws) : OneWrite(S, ws[k], gs[k - 1], gs[k])
  /\ \A k \in 0..Len(ws) : Stands(gs[k], b)
Script(S, a, ws, b) ==
  \E gs \in [0..Len(ws) -> Disks] : Traces(S, a, ws, b, gs)

LEMMA StandsOn ==
  /\ \A a : Stands(a, a)
  /\ \A a, b, c : Stands(a, b) /\ Stands(b, c) => Stands(a, c)
PROOF
  <1>1. ASSUME NEW a PROVE Stands(a, a)
    BY DEF Stands
  <1>2. ASSUME NEW a, NEW b, NEW c, Stands(a, b), Stands(b, c)
        PROVE  Stands(a, c)
    <2>1. Over(a.doc) => c.doc = a.doc
      BY <1>2 DEF Stands
    <2>2. ASSUME NEW s \in Side, NEW r \in Nat, NEW list \in Lists,
                 Pledged(a, s, r, list)
          PROVE  Pledged(c, s, r, list)
      <3>1. Pledged(b, s, r, list)
        BY <1>2, <2>2 DEF Stands
      <3> QED
        BY <1>2, <3>1 DEF Stands
    <2> QED
      BY <2>1, <2>2 DEF Stands
  <1> QED
    BY <1>1, <1>2

LEMMA ScriptEnds ==
  ASSUME NEW S, NEW a, NEW b, NEW ws \in Seq(GoodWrites), Script(S, a, ws, b)
  PROVE  /\ a \in Disks /\ b \in Disks /\ Stands(a, b)
         /\ ws = <<>> => b = a
PROOF
  <1>1. PICK gs : Traces(S, a, ws, b, gs)
    BY DEF Script
  <1>2. Len(ws) \in Nat /\ (ws = <<>> => Len(ws) = 0)
    BY LenProperties
  <1>3. 0 \in 0..Len(ws) /\ Len(ws) \in 0..Len(ws)
    BY <1>2
  <1> QED
    BY <1>1, <1>2, <1>3 DEF Traces

LEMMA ScriptNil ==
  ASSUME NEW S, NEW a \in Disks
  PROVE  Script(S, a, <<>>, a)
PROOF
  <1> DEFINE gs == [k \in 0..0 |-> a]
  <1>1. Len(<<>>) = 0
    OBVIOUS
  <1>2. gs \in [0..0 -> Disks] /\ gs[0] = a /\ \A k \in 0..0 : gs[k] = a
    OBVIOUS
  <1>3. 1..0 = {}
    OBVIOUS
  <1> HIDE DEF gs
  <1>4. Traces(S, a, <<>>, a, gs)
    BY <1>1, <1>2, <1>3, StandsOn DEF Traces
  <1> QED
    BY <1>1, <1>2, <1>4 DEF Script

LEMMA ScriptOne ==
  ASSUME NEW S, NEW a \in Disks, NEW b \in Disks, NEW w, OneWrite(S, w, a, b)
  PROVE  Script(S, a, <<w>>, b)
PROOF
  <1> DEFINE gs == [k \in 0..1 |-> IF k = 0 THEN a ELSE b]
  <1>1. Len(<<w>>) = 1 /\ <<w>>[1] = w
    OBVIOUS
  <1>2. gs \in [0..1 -> Disks] /\ gs[0] = a /\ gs[1] = b
    OBVIOUS
  <1>3. (\A k \in 1..1 : k = 1) /\ (\A k \in 0..1 : k = 0 \/ k = 1)
    OBVIOUS
  <1> HIDE DEF gs
  <1>4. Stands(a, b) /\ Stands(b, b)
    BY StandsOn DEF OneWrite
  <1>5. \A k \in 1..1 : OneWrite(S, <<w>>[k], gs[k - 1], gs[k])
    BY <1>1, <1>2, <1>3
  <1>6. \A k \in 0..1 : Stands(gs[k], b)
    BY <1>2, <1>3, <1>4
  <1>7. Traces(S, a, <<w>>, b, gs)
    BY <1>1, <1>2, <1>5, <1>6 DEF Traces
  <1> QED
    BY <1>1, <1>2, <1>7 DEF Script

(* One script after another.                                               *)
LEMMA ScriptThen ==
  ASSUME NEW S, NEW u \in Seq(GoodWrites), NEW v \in Seq(GoodWrites),
         NEW a, NEW b, NEW c, Script(S, a, u, b), Script(S, b, v, c)
  PROVE  Script(S, a, u \o v, c)
PROOF
  <1>1. PICK fs : Traces(S, a, u, b, fs)
    BY DEF Script
  <1>2. PICK hs : Traces(S, b, v, c, hs)
    BY DEF Script
  <1> DEFINE m == Len(u)
             n == Len(v)
             gs == [k \in 0..m + n |-> IF k <= m THEN fs[k] ELSE hs[k - m]]
  <1>3. m \in Nat /\ n \in Nat /\ Len(u \o v) = m + n
    BY LenProperties, ConcatProperties
  <1>4. /\ \A k \in 1..m : (u \o v)[k] = u[k]
        /\ \A k \in m + 1..m + n : (u \o v)[k] = v[k - m]
    BY <1>3, ConcatProperties
  <1>5. fs \in [0..m -> Disks] /\ hs \in [0..n -> Disks]
    BY <1>1, <1>2 DEF Traces
  <1>6. fs[m] = b /\ hs[0] = b /\ fs[0] = a /\ hs[n] = c
    BY <1>1, <1>2 DEF Traces
  <1> HIDE DEF m, n
  <1>7. gs \in [0..m + n -> Disks]
    <2> SUFFICES ASSUME NEW k \in 0..m + n
                 PROVE  (IF k <= m THEN fs[k] ELSE hs[k - m]) \in Disks
      OBVIOUS
    <2>1. CASE k <= m
      <3>1. k \in 0..m
        BY <1>3, <2>1
      <3> QED
        BY <1>5, <2>1, <3>1
    <2>2. CASE ~ k <= m
      <3>1. k - m \in 0..n
        BY <1>3, <2>2
      <3> QED
        BY <1>5, <2>2, <3>1
    <2> QED
      BY <2>1, <2>2
  <1>8. /\ \A k \in 0..m : gs[k] = fs[k]
        /\ \A k \in m..m + n : gs[k] = hs[k - m]
    <2>1. ASSUME NEW k \in 0..m PROVE gs[k] = fs[k]
      BY <1>3
    <2>2. ASSUME NEW k \in m..m + n PROVE gs[k] = hs[k - m]
      <3>1. CASE k = m
        BY <1>3, <1>6, <3>1
      <3>2. CASE k > m
        BY <1>3, <3>2
      <3> QED
        BY <1>3, <3>1, <3>2
    <2> QED
      BY <2>1, <2>2
  <1> HIDE DEF gs
  <1>9. gs[0] = a /\ gs[m + n] = c
    <2>1. 0 \in 0..m /\ m + n \in m..m + n /\ (m + n) - m = n
      BY <1>3
    <2> QED
      BY <1>6, <1>8, <2>1
  <1>10. ASSUME NEW k \in 1..m + n
         PROVE  OneWrite(S, (u \o v)[k], gs[k - 1], gs[k])
    <2>1. CASE k \in 1..m
      <3>1. k \in 0..m /\ k - 1 \in 0..m
        BY <1>3, <2>1
      <3> QED
        BY <1>1, <1>4, <1>8, <2>1, <3>1 DEF Traces, m
    <2>2. CASE k \in m + 1..m + n
      <3>1. /\ k \in m..m + n /\ k - 1 \in m..m + n
            /\ k - m \in 1..n /\ (k - 1) - m = (k - m) - 1
        BY <1>3, <2>2
      <3>2. gs[k] = hs[k - m] /\ gs[k - 1] = hs[(k - m) - 1]
        BY <1>8, <3>1
      <3>3. OneWrite(S, v[k - m], hs[(k - m) - 1], hs[k - m])
        BY <1>2, <3>1 DEF Traces, n
      <3> QED
        BY <1>4, <2>2, <3>2, <3>3
    <2> QED
      BY <1>3, <2>1, <2>2
  <1>11. ASSUME NEW k \in 0..m + n PROVE Stands(gs[k], c)
    <2>1. CASE k \in 0..m
      <3>1. Stands(fs[k], b)
        BY <1>1, <2>1 DEF Traces, m
      <3>2. 0 \in 0..n
        BY <1>3
      <3>3. Stands(b, c)
        BY <1>2, <1>6, <3>2 DEF Traces, n
      <3> QED
        BY <1>8, <2>1, <3>1, <3>3, StandsOn
    <2>2. CASE k \in m..m + n
      <3>1. k - m \in 0..n
        BY <1>3, <2>2
      <3> QED
        BY <1>2, <1>8, <2>2, <3>1 DEF Traces, n
    <2> QED
      BY <1>3, <2>1, <2>2
  <1>12. Traces(S, a, u \o v, c, gs)
    BY <1>3, <1>7, <1>9, <1>10, <1>11 DEF Traces
  <1> QED
    BY <1>3, <1>7, <1>12 DEF Script

(* The first write made, the rest is a script.                             *)
LEMMA ScriptTail ==
  ASSUME NEW S, NEW a, NEW b, NEW ws \in Seq(GoodWrites), ws # <<>>,
         Script(S, a, ws, b)
  PROVE  \E m \in Disks : /\ OneWrite(S, Head(ws), a, m)
                          /\ Script(S, m, Tail(ws), b)
PROOF
  <1>1. PICK gs : Traces(S, a, ws, b, gs)
    BY DEF Script
  <1> DEFINE n == Len(ws)
             rest == Tail(ws)
             hs == [k \in 0..n - 1 |-> gs[k + 1]]
  <1>2. /\ n \in Nat /\ n > 0
        /\ rest \in Seq(GoodWrites) /\ Len(rest) = n - 1
        /\ Head(ws) = ws[1]
        /\ \A k \in 1..n - 1 : rest[k] = ws[k + 1]
    BY LenProperties, EmptySeq, HeadTailProperties
  <1>3. gs \in [0..n -> Disks] /\ gs[0] = a /\ gs[n] = b
    BY <1>1 DEF Traces
  <1> HIDE DEF n, rest
  <1>4. hs \in [0..n - 1 -> Disks]
    <2>1. \A k \in 0..n - 1 : k + 1 \in 0..n
      BY <1>2
    <2> QED
      BY <1>3, <2>1
  <1>5. \A k \in 0..n - 1 : hs[k] = gs[k + 1]
    OBVIOUS
  <1> HIDE DEF hs
  <1>6. gs[1] \in Disks /\ OneWrite(S, Head(ws), a, gs[1])
    <2>1. 1 \in 1..n /\ 1 \in 0..n /\ 1 - 1 = 0
      BY <1>2
    <2>2. OneWrite(S, ws[1], gs[1 - 1], gs[1])
      BY <1>1, <2>1 DEF Traces, n
    <2> QED
      BY <1>2, <1>3, <2>1, <2>2
  <1>7. ASSUME NEW k \in 1..n - 1
        PROVE  OneWrite(S, rest[k], hs[k - 1], hs[k])
    <2>1. /\ k + 1 \in 1..n /\ k \in 0..n - 1 /\ k - 1 \in 0..n - 1
          /\ (k + 1) - 1 = k /\ (k - 1) + 1 = k
      BY <1>2
    <2>2. OneWrite(S, ws[k + 1], gs[(k + 1) - 1], gs[k + 1])
      BY <1>1, <2>1 DEF Traces, n
    <2> QED
      BY <1>2, <1>5, <2>1, <2>2
  <1>8. ASSUME NEW k \in 0..n - 1 PROVE Stands(hs[k], b)
    <2>1. k + 1 \in 0..n
      BY <1>2
    <2> QED
      BY <1>1, <1>5, <2>1 DEF Traces, n
  <1>9. hs[0] = gs[1] /\ hs[n - 1] = b
    <2>1. 0 \in 0..n - 1 /\ n - 1 \in 0..n - 1 /\ (n - 1) + 1 = n /\ 0 + 1 = 1
      BY <1>2
    <2> QED
      BY <1>3, <1>5, <2>1
  <1>10. Traces(S, gs[1], rest, b, hs)
    BY <1>2, <1>4, <1>7, <1>8, <1>9 DEF Traces
  <1>11. Script(S, gs[1], rest, b)
    BY <1>2, <1>4, <1>10 DEF Script
  <1> QED
    BY <1>6, <1>11 DEF rest

-----------------------------------------------------------------------------
(* The clock moves on under everything that is still to be written.        *)

Aged(g) == Game(g.doc, Older(g.turn))
AgedWrite(w) ==
  IF w.kind = "turn" THEN [w EXCEPT !.turn = Older(@)] ELSE w
AgedList(ws) == [k \in DOMAIN ws |-> AgedWrite(ws[k])]

LEMMA OlderKeeps ==
  ASSUME NEW t \in Turns \cup {NoTurn}
  PROVE  /\ Older(t) \in Turns \cup {NoTurn} /\ Older(t).round = t.round
         /\ t = NoTurn => Older(t) = t
         /\ t \in Turns =>
              /\ Older(t) \in Turns /\ Older(t).given = t.given
              /\ Older(t).committed = t.committed
              /\ Older(t).decisions = t.decisions
         /\ \A S : Fair(S, t) => Fair(S, Older(t))
PROOF
  <1>1. t = NoTurn => Older(t) = t
    BY DEF Older, NoTurn
  <1>2. ASSUME t \in Turns
        PROVE  /\ Older(t) \in Turns /\ Older(t).round = t.round
               /\ Older(t).given = t.given
               /\ Older(t).committed = t.committed
               /\ Older(t).decisions = t.decisions
    BY <1>2 DEF Older, Turns
  <1>3. ASSUME NEW S, Fair(S, t) PROVE Fair(S, Older(t))
    <2>1. CASE t = NoTurn
      BY <1>1, <1>3, <2>1
    <2>2. CASE t \in Turns /\ t # NoTurn
      BY <1>2, <1>3, <2>2 DEF Fair
    <2> QED
      BY <2>1, <2>2
  <1> QED
    BY <1>1, <1>2, <1>3

LEMMA AgedPledged ==
  ASSUME NEW g \in Disks, NEW s \in Side, NEW r \in Nat, NEW list
  PROVE  /\ Aged(g) \in Disks /\ Aged(g).doc = g.doc
         /\ Pledged(Aged(g), s, r, list) <=> Pledged(g, s, r, list)
PROOF
  <1>1. g.turn \in Turns \cup {NoTurn} /\ g.doc \in DealtDocs \cup Undealt
    BY DEF Disks
  <1>2. /\ Aged(g).doc = g.doc /\ Aged(g).turn = Older(g.turn)
        /\ Aged(g) \in Disks
    BY <1>1, OlderKeeps DEF Aged, Game, Disks
  <1>3. CASE g.turn = NoTurn
    <2>1. Aged(g).turn = g.turn
      BY <1>1, <1>2, <1>3, OlderKeeps
    <2> QED
      BY <1>2, <2>1 DEF Pledged
  <1>4. CASE g.turn \in Turns
    <2>1. /\ Aged(g).turn.round = g.turn.round
          /\ Aged(g).turn.committed = g.turn.committed
          /\ Aged(g).turn.decisions = g.turn.decisions
      BY <1>1, <1>2, <1>4, OlderKeeps
    <2> QED
      BY <1>2, <2>1 DEF Pledged
  <1> QED
    BY <1>1, <1>2, <1>3, <1>4

LEMMA AgedStands ==
  ASSUME NEW a \in Disks, NEW b \in Disks, Stands(a, b)
  PROVE  Stands(Aged(a), Aged(b))
PROOF
  <1>1. Aged(a).doc = a.doc /\ Aged(b).doc = b.doc
    BY DEF Aged, Game
  <1>2. ASSUME NEW s \in Side, NEW r \in Nat, NEW list \in Lists,
               Pledged(Aged(a), s, r, list)
        PROVE  Pledged(Aged(b), s, r, list)
    BY <1>2, AgedPledged DEF Stands
  <1> QED
    BY <1>1, <1>2 DEF Stands

LEMMA AgedOne ==
  ASSUME NEW S, NEW w \in GoodWrites, NEW a \in Disks, NEW b \in Disks,
         OneWrite(S, w, a, b)
  PROVE  OneWrite(S, AgedWrite(w), Aged(a), Aged(b))
PROOF
  <1>1. Stands(Aged(a), Aged(b))
    BY AgedStands DEF OneWrite
  <1>2. CASE w.kind = "turn"
    <2>1. w \in [kind : {"turn"}, turn : Turns]
      BY <1>2 DEF GoodWrites
    <2>2. /\ AgedWrite(w).kind = "turn"
          /\ AgedWrite(w).turn = Older(w.turn)
      BY <1>2, <2>1 DEF AgedWrite
    <2>3. b = Game(a.doc, w.turn) /\ Dealt(a.doc) /\ Fair(S, w.turn)
      BY <1>2 DEF OneWrite
    <2>4. Fair(S, Older(w.turn))
      BY <2>1, <2>3, OlderKeeps
    <2>5. Aged(a).doc = a.doc /\ Aged(b) = Game(Aged(a).doc, AgedWrite(w).turn)
      BY <2>2, <2>3 DEF Aged, Game
    <2> QED
      BY <1>1, <2>2, <2>3, <2>4, <2>5 DEF OneWrite
  <1>3. CASE w.kind # "turn"
    <2>1. AgedWrite(w) = w
      BY <1>3 DEF AgedWrite
    <2>2. Aged(a).doc = a.doc /\ Aged(a).turn = Older(a.turn)
      BY DEF Aged, Game
    <2>3. CASE /\ w.kind = "doc" /\ b = Game(w.doc, a.turn)
               /\ Follows(a.doc, w.doc) /\ Ended(w.doc)
      <3>1. Aged(b) = Game(w.doc, Aged(a).turn)
        BY <2>2, <2>3 DEF Aged, Game
      <3> QED
        BY <1>1, <2>1, <2>2, <2>3, <3>1 DEF OneWrite
    <2>4. CASE w.kind = "remove" /\ b = a /\ Over(a.doc)
      BY <1>1, <2>1, <2>2, <2>4 DEF OneWrite
    <2> QED
      BY <1>3, <2>3, <2>4 DEF OneWrite
  <1> QED
    BY <1>2, <1>3

LEMMA ScriptAged ==
  ASSUME NEW S, NEW a, NEW b, NEW ws \in Seq(GoodWrites), Script(S, a, ws, b)
  PROVE  Script(S, Aged(a), AgedList(ws), Aged(b))
PROOF
  <1>1. PICK gs : Traces(S, a, ws, b, gs)
    BY DEF Script
  <1> DEFINE n == Len(ws)
             old == AgedList(ws)
             hs == [k \in 0..n |-> Aged(gs[k])]
  <1>2. n \in Nat /\ DOMAIN ws = 1..n /\ \A k \in 1..n : ws[k] \in GoodWrites
    BY LenProperties, ElementOfSeq
  <1>3. Len(old) = n /\ \A k \in 1..n : old[k] = AgedWrite(ws[k])
    BY <1>2 DEF AgedList
  <1>4. gs \in [0..n -> Disks] /\ gs[0] = a /\ gs[n] = b
    BY <1>1 DEF Traces
  <1>5. hs \in [0..n -> Disks] /\ \A k \in 0..n : hs[k] = Aged(gs[k])
    <2>1. \A k \in 0..n : Aged(gs[k]) \in Disks
      <3> TAKE k \in 0..n
      <3>1. gs[k] \in Disks
        BY <1>4
      <3>2. Aged(gs[k]) \in Disks
        <4>1. gs[k].turn \in Turns \cup {NoTurn}
              /\ gs[k].doc \in DealtDocs \cup Undealt
          BY <3>1 DEF Disks
        <4> QED
          BY <4>1, OlderKeeps DEF Aged, Game, Disks
      <3> QED
        BY <3>2
    <2> QED
      BY <2>1
  <1> HIDE DEF n, old, hs
  <1>6. hs[0] = Aged(a) /\ hs[n] = Aged(b)
    <2>1. 0 \in 0..n /\ n \in 0..n
      BY <1>2
    <2> QED
      BY <1>4, <1>5, <2>1
  <1>7. ASSUME NEW k \in 1..n PROVE OneWrite(S, old[k], hs[k - 1], hs[k])
    <2>1. k \in 0..n /\ k - 1 \in 0..n
      BY <1>2
    <2>2. OneWrite(S, ws[k], gs[k - 1], gs[k])
      BY <1>1 DEF Traces, n
    <2>3. gs[k] \in Disks /\ gs[k - 1] \in Disks /\ ws[k] \in GoodWrites
      BY <1>2, <1>4, <2>1
    <2>4. OneWrite(S, AgedWrite(ws[k]), Aged(gs[k - 1]), Aged(gs[k]))
      BY <2>2, <2>3, AgedOne
    <2> QED
      BY <1>3, <1>5, <2>1, <2>4
  <1>8. ASSUME NEW k \in 0..n PROVE Stands(hs[k], Aged(b))
    <2>1. Stands(gs[k], b) /\ gs[k] \in Disks /\ b \in Disks
      <3>1. n \in 0..n
        BY <1>2
      <3> QED
        BY <1>1, <1>4, <3>1 DEF Traces, n
    <2> QED
      BY <1>5, <2>1, AgedStands
  <1>9. Traces(S, Aged(a), old, Aged(b), hs)
    BY <1>3, <1>5, <1>6, <1>7, <1>8 DEF Traces
  <1> QED
    BY <1>3, <1>5, <1>9 DEF Script, old

-----------------------------------------------------------------------------
(* The writes of an operation, each by itself.                             *)

(* A game that is read and not over.                                       *)
Live(S, g) ==
  /\ g \in Games /\ ~ Over(g.doc)
  /\ Fair(S, g.turn) /\ g.turn.round = Round(g.doc)

LEMMA DiskGames ==
  /\ Games \subseteq Disks
  /\ \A d \in DealtDocs \cup Undealt, t \in Turns \cup {NoTurn} :
       Game(d, t) \in Disks
  /\ \A t \in Turns : t # NoTurn
  /\ \A g \in Games : g = Game(g.doc, g.turn)
PROOF
  <1>1. Games \subseteq Disks
    BY DEF Games, Disks
  <1>2. \A d \in DealtDocs \cup Undealt, t \in Turns \cup {NoTurn} :
          Game(d, t) \in Disks
    BY DEF Game, Disks
  <1>3. \A t \in Turns : t # NoTurn
    BY DEF Turns, NoTurn
  <1>4. \A g \in Games : g = Game(g.doc, g.turn)
    BY DEF Games, Game
  <1> QED
    BY <1>1, <1>2, <1>3, <1>4

LEMMA RemoveStep ==
  ASSUME NEW S, NEW a \in Disks, Over(a.doc)
  PROVE  Script(S, a, Removes, a)
PROOF
  <1>1. OneWrite(S, [kind |-> "remove"], a, a)
    BY StandsOn DEF OneWrite
  <1> QED
    BY <1>1, ScriptOne DEF Removes

(* A turn file keeps the halves that are sealed.                           *)
LEMMA TurnStep ==
  ASSUME NEW S, NEW a \in Disks, a.doc \in DealtDocs,
         NEW t \in Turns, Fair(S, t),
         \/ Over(a.doc) \/ a.turn = NoTurn \/ a.turn.round # Round(a.doc)
         \/ /\ t.round = a.turn.round
            /\ \A s \in Side : a.turn.committed[s] =>
                 t.committed[s] /\ t.decisions[s] = a.turn.decisions[s]
  PROVE  Script(S, a, WritesTurn(t), Game(a.doc, t))
PROOF
  <1> DEFINE b == Game(a.doc, t)
             w == [kind |-> "turn", turn |-> t]
  <1>1. a.doc \in DealtDocs \cup Undealt /\ a.turn \in Turns \cup {NoTurn}
    BY DEF Disks
  <1>2. b.doc = a.doc /\ b.turn = t /\ b \in Disks
    BY <1>1, DiskGames DEF Game
  <1>3. ASSUME NEW s \in Side, NEW r \in Nat, NEW list \in Lists,
               Pledged(a, s, r, list)
        PROVE  Pledged(b, s, r, list)
    <2>1. CASE /\ r < Round(a.doc) \/ (r = Round(a.doc) /\ Over(a.doc))
               /\ a.doc.rounds[r + 1][s] = list
      BY <1>2, <2>1 DEF Pledged
    <2>2. CASE /\ ~ Over(a.doc) /\ r = Round(a.doc) /\ a.turn.round = r
               /\ a.turn.committed[s] /\ a.turn.decisions[s] = list
      <3>1. a.turn # NoTurn
        BY <2>2 DEF NoTurn
      <3>2. /\ t.round = a.turn.round
            /\ t.committed[s] /\ t.decisions[s] = a.turn.decisions[s]
        BY <2>2, <3>1
      <3> QED
        BY <1>2, <2>2, <3>2 DEF Pledged
    <2> QED
      BY <1>3, <2>1, <2>2 DEF Pledged
  <1>4. Stands(a, b)
    BY <1>2, <1>3 DEF Stands
  <1>5. w.kind = "turn" /\ w.turn = t
    OBVIOUS
  <1>6. OneWrite(S, w, a, b)
    BY <1>4, <1>5 DEF OneWrite, DealtDocs
  <1> HIDE DEF b
  <1>7. Script(S, a, <<w>>, b)
    BY <1>2, <1>6, ScriptOne
  <1> QED
    BY <1>7 DEF WritesTurn, b

(* The same document over again.                                           *)
LEMMA SameStep ==
  ASSUME NEW S, NEW a \in Disks, Ended(a.doc)
  PROVE  Script(S, a, WritesDoc(a.doc), a)
PROOF
  <1> DEFINE w == [kind |-> "doc", doc |-> a.doc]
  <1>1. a = Game(a.doc, a.turn)
    BY DEF Disks, Game
  <1>2. w.kind = "doc" /\ w.doc = a.doc
    OBVIOUS
  <1>3. Follows(a.doc, a.doc)
    BY DEF Follows
  <1>4. OneWrite(S, w, a, a)
    BY <1>1, <1>2, <1>3, StandsOn DEF OneWrite
  <1>5. Script(S, a, <<w>>, a)
    BY <1>4, ScriptOne
  <1> QED
    BY <1>5 DEF WritesDoc

(* A document that settles the round in progress has what was sealed.      *)
LEMMA SettleStep ==
  ASSUME NEW S, NEW g, Live(S, g), NEW e \in DealtDocs, Ended(e),
         Len(e.rounds) \in {Len(g.doc.rounds), Len(g.doc.rounds) + 1},
         Len(e.rounds) = Len(g.doc.rounds) => Over(e),
         \A r \in 1..Len(g.doc.rounds) - 1 : e.rounds[r] = g.doc.rounds[r],
         \A s \in Side : g.turn.committed[s] =>
           e.rounds[Len(g.doc.rounds)][s] = DecidedBy(g, s)
  PROVE  Script(S, g, WritesDoc(e), Game(e, g.turn))
PROOF
  <1> DEFINE n == Len(g.doc.rounds)
             b == Game(e, g.turn)
             w == [kind |-> "doc", doc |-> e]
  <1>1. /\ g \in Games /\ g.doc \in DealtDocs /\ g.turn \in Turns
        /\ Secret(g.doc) /\ ~ Over(g.doc) /\ Dealt(g.doc)
        /\ g.turn.round = Round(g.doc)
    BY GameShape DEF Live
  <1>2. n \in Nat \ {0} /\ Round(g.doc) = n - 1
    BY <1>1, GameShape, DealtShape DEF Round
  <1>3. b.doc = e /\ b.turn = g.turn /\ b \in Disks /\ g \in Disks
    BY <1>1, DiskGames DEF Game
  <1>4. Round(e) \in {n - 1, n} /\ (Round(e) = n - 1 => Over(e))
    BY <1>2 DEF Round
  <1>5. Follows(g.doc, e)
    BY <1>1, <1>2 DEF Follows
  <1> HIDE DEF n, b
  <1>6. ASSUME NEW s \in Side, NEW r \in Nat, NEW list \in Lists,
               Pledged(g, s, r, list)
        PROVE  Pledged(b, s, r, list)
    <2>1. CASE r < Round(g.doc) /\ g.doc.rounds[r + 1][s] = list
      <3>1. r + 1 \in 1..n - 1 /\ r < Round(e)
        BY <1>2, <1>4, <2>1
      <3>2. e.rounds[r + 1] = g.doc.rounds[r + 1]
        BY <3>1 DEF n
      <3> QED
        BY <1>3, <2>1, <3>1, <3>2 DEF Pledged
    <2>2. CASE /\ r = Round(g.doc) /\ g.turn.committed[s]
               /\ g.turn.decisions[s] = list
      <3>1. Recorded(g.doc)[s] = <<>>
        BY <1>1 DEF Secret
      <3>2. DecidedBy(g, s) = list
        BY <2>2, <3>1 DEF DecidedBy
      <3>3. r + 1 = n /\ (r < Round(e) \/ (r = Round(e) /\ Over(e)))
        BY <1>2, <1>4, <2>2
      <3>4. e.rounds[r + 1][s] = list
        BY <2>2, <3>2, <3>3 DEF n
      <3> QED
        BY <1>3, <3>3, <3>4 DEF Pledged
    <2> QED
      BY <1>1, <1>6, <2>1, <2>2 DEF Pledged
  <1>7. Stands(g, b)
    BY <1>1, <1>6 DEF Stands
  <1>8. w.kind = "doc" /\ w.doc = e
    OBVIOUS
  <1>9. OneWrite(S, w, g, b)
    BY <1>5, <1>7, <1>8 DEF OneWrite, b
  <1>10. Script(S, g, <<w>>, b)
    BY <1>3, <1>9, ScriptOne
  <1> QED
    BY <1>10 DEF WritesDoc, b

(* The last round is replaced and the rounds before it stay.               *)
LEMMA ReplacedRounds ==
  ASSUME NEW d \in Documents, Dealt(d), NEW half \in Half
  PROVE  LET e == [d EXCEPT !.rounds[Len(d.rounds)] = half]
         IN  /\ Len(e.rounds) = Len(d.rounds)
             /\ e.rounds[Len(d.rounds)] = half
             /\ \A r \in 1..Len(d.rounds) - 1 : e.rounds[r] = d.rounds[r]
PROOF
  <1> DEFINE n == Len(d.rounds)
             q == [d.rounds EXCEPT ![n] = half]
             e == [d EXCEPT !.rounds[Len(d.rounds)] = half]
  <1>1. d.rounds \in Seq(Half) /\ n \in 1..Len(d.rounds) /\ n \in Nat \ {0}
    BY DealtShape
  <1>2. /\ Len(q) = n /\ q[n] = half
        /\ \A r \in 1..n - 1 : q[r] = d.rounds[r]
    <2>1. Len(q) = n
      BY <1>1, ExceptSeq
    <2>2. DOMAIN d.rounds = 1..n
      BY <1>1, LenProperties
    <2> QED
      BY <1>1, <2>1, <2>2
  <1>3. e.rounds = q
    <2>1. e = [d EXCEPT !.rounds = q]
      OBVIOUS
    <2> HIDE DEF e, q
    <2> QED
      BY <2>1 DEF Documents
  <1> QED
    BY <1>2, <1>3

LEMMA ConcessionRounds ==
  ASSUME NEW d \in Documents
  PROVE  /\ WithConcession(d).rounds = d.rounds
         /\ Ended(d) => Ended(WithConcession(d))
PROOF
  <1> DEFINE e == [d EXCEPT !.result =
                     Other(CHOOSE s \in Side : Conceded(d) = {s})]
  <1>1. e.rounds = d.rounds
    BY DEF Documents
  <1> HIDE DEF e
  <1>2. CASE d.result = "none" /\ Round(d) > 0
               /\ \E s \in Side : Conceded(d) = {s}
    <2>1. WithConcession(d) = e
      BY <1>2 DEF WithConcession, e
    <2>2. Round(e) > 0
      BY <1>1, <1>2 DEF Round
    <2> QED
      BY <1>1, <2>1, <2>2 DEF Ended
  <1>3. CASE ~ (d.result = "none" /\ Round(d) > 0
                  /\ \E s \in Side : Conceded(d) = {s})
    <2>1. WithConcession(d) = d
      BY <1>3 DEF WithConcession
    <2> QED
      BY <2>1
  <1> QED
    BY <1>2, <1>3

(* What is published keeps the rounds played and has the sealed halves.    *)
LEMMA PublishedRounds ==
  ASSUME NEW g \in Games
  PROVE  LET n == Len(g.doc.rounds)
         IN  /\ Len(Published(g).rounds) = n
             /\ \A r \in 1..n - 1 : Published(g).rounds[r] = g.doc.rounds[r]
             /\ \A s \in Side : g.turn.committed[s] =>
                  Published(g).rounds[n][s] = DecidedBy(g, s)
PROOF
  <1> DEFINE half == [s \in Side |->
                       IF g.turn.committed[s] THEN DecidedBy(g, s)
                                              ELSE Recorded(g.doc)[s]]
  <1>1. half \in Half
    BY GameShape, DecidedByTyped DEF Half
  <1>2. g.doc \in Documents /\ Dealt(g.doc)
    BY GameShape
  <1>3. \A s \in Side : g.turn.committed[s] => half[s] = DecidedBy(g, s)
    OBVIOUS
  <1> HIDE DEF half
  <1>4. LET e == [g.doc EXCEPT !.rounds[Len(g.doc.rounds)] = half]
        IN  /\ Len(e.rounds) = Len(g.doc.rounds)
            /\ e.rounds[Len(g.doc.rounds)] = half
            /\ \A r \in 1..Len(g.doc.rounds) - 1 :
                 e.rounds[r] = g.doc.rounds[r]
    BY <1>1, <1>2, ReplacedRounds
  <1>5. Published(g) = [g.doc EXCEPT !.rounds[Len(g.doc.rounds)] = half]
    BY DEF Published, half
  <1> QED
    BY <1>3, <1>4, <1>5

(* So does a round that the clock ended.                                   *)
LEMMA RunOutRounds ==
  ASSUME NEW g \in Games, RunsOut(g)
  PROVE  LET n == Len(g.doc.rounds)
         IN  /\ Len(RunOut(g).rounds) = n
             /\ \A r \in 1..n - 1 : RunOut(g).rounds[r] = g.doc.rounds[r]
             /\ \A s \in Side : g.turn.committed[s] =>
                  RunOut(g).rounds[n][s] = DecidedBy(g, s)
             /\ Round(g.doc) > 0
PROOF
  <1> DEFINE d == Published(g)
             n == Len(g.doc.rounds)
             half == [s \in Side |-> IF g.turn.committed[s] THEN d.rounds[n][s]
                                     ELSE Append(d.rounds[n][s], "concede")]
             e == [d EXCEPT !.rounds[n] = half]
  <1>1. /\ d \in Documents /\ Dealt(d) /\ Recorded(d) \in Half
        /\ Len(d.rounds) = n
    BY PublishedShape, PublishedRounds, DealtShape
  <1>2. Recorded(d) = d.rounds[n]
    BY <1>1 DEF Recorded
  <1>3. half \in Half
    <2>1. \A x \in Side : /\ d.rounds[n][x] \in Lists
                          /\ Append(d.rounds[n][x], "concede") \in Lists
      <3> TAKE x \in Side
      <3>1. d.rounds[n][x] \in Seq(Decision) /\ "concede" \in Decision
        BY <1>1, <1>2 DEF Half, Lists, Decision
      <3> QED
        BY <3>1, AppendProperties DEF Lists
    <2> HIDE DEF d
    <2> QED
      BY <2>1 DEF Half
  <1>4. \A s \in Side : g.turn.committed[s] => half[s] = d.rounds[n][s]
    OBVIOUS
  <1>5. RunOut(g) = WithConcession(e)
    BY DEF RunOut
  <1>6. Round(g.doc) > 0
    <2>1. Round(g.doc) # 0 /\ Round(g.doc) \in Nat
      BY GameShape, DealtShape DEF RunsOut, Phase
    <2> QED
      BY <2>1
  <1> HIDE DEF d, half, e
  <1>7. /\ e \in Documents /\ Len(e.rounds) = n /\ e.rounds[n] = half
        /\ \A r \in 1..n - 1 : e.rounds[r] = d.rounds[r]
    <2>1. e = [d EXCEPT !.rounds[Len(d.rounds)] = half]
      BY <1>1 DEF e
    <2>2. LET x == [d EXCEPT !.rounds[Len(d.rounds)] = half]
          IN  /\ x \in Documents /\ Len(x.rounds) = Len(d.rounds)
              /\ x.rounds[Len(d.rounds)] = half
              /\ \A r \in 1..Len(d.rounds) - 1 : x.rounds[r] = d.rounds[r]
      BY <1>1, <1>3, Replaced, ReplacedRounds
    <2> QED
      BY <1>1, <2>1, <2>2
  <1>8. RunOut(g).rounds = e.rounds
    BY <1>5, <1>7, ConcessionRounds
  <1> QED
    BY <1>4, <1>6, <1>7, <1>8, PublishedRounds DEF d

(* The round a fight opens comes after all that was played.                *)
LEMMA NextRounds ==
  ASSUME NEW g \in Games, NEW stands, NEW offered
  PROVE  LET n == Len(g.doc.rounds)
             e == NextRound(g, stands, offered)
         IN  /\ Len(e.rounds) = n + 1
             /\ \A r \in 1..n - 1 : e.rounds[r] = g.doc.rounds[r]
             /\ \A s \in Side : g.turn.committed[s] =>
                  e.rounds[n][s] = DecidedBy(g, s)
             /\ Round(e) = Round(g.doc) + 1
PROOF
  <1> DEFINE fresh == [s \in Side |-> <<>>]
             old == Published(g).rounds
             n == Len(g.doc.rounds)
  <1>1. fresh \in Half
    BY DEF Half, Lists
  <1>2. old \in Seq(Half) /\ n \in Nat \ {0} /\ Len(old) = n
    BY PublishedShape, PublishedRounds, DealtShape, GameShape
  <1>3. NextRound(g, stands, offered).rounds = Append(old, fresh)
    BY DEF NextRound
  <1> HIDE DEF fresh
  <1>4. /\ Len(Append(old, fresh)) = n + 1
        /\ \A r \in 1..n : Append(old, fresh)[r] = old[r]
    BY <1>1, <1>2, AppendProperties
  <1>5. n \in 1..n /\ \A r \in 1..n - 1 : r \in 1..n
    BY <1>2
  <1> QED
    BY <1>2, <1>3, <1>4, <1>5, PublishedRounds DEF Round

-----------------------------------------------------------------------------
(* The writes of an operation, put together.                               *)

LEMMA Following ==
  /\ \A d \in DealtDocs : WritesDoc(d) \in Seq(GoodWrites)
  /\ \A t \in Turns : WritesTurn(t) \in Seq(GoodWrites)
  /\ Removes \in Seq(GoodWrites) /\ <<>> \in Seq(GoodWrites)
  /\ \A u, v \in Seq(GoodWrites) : u \o v \in Seq(GoodWrites)
  /\ \A u \in Seq(GoodWrites) : u \o <<>> = u
PROOF
  <1>1. \A u, v \in Seq(GoodWrites) : u \o v \in Seq(GoodWrites)
    BY ConcatProperties
  <1>2. \A u \in Seq(GoodWrites) : u \o <<>> = u
    BY ConcatEmptySeq
  <1> QED
    BY <1>1, <1>2, WritesTyped

(* A game that goes on: the disk holds what the operation holds.           *)
Settling(S, a, ws, g) ==
  \E b \in Disks :
    /\ Script(S, a, ws, b)
    /\ ~ Over(g.doc) => b = g /\ Live(S, g)

LEMMA FoughtScript ==
  ASSUME NEW S, NEW g, Live(S, g), Phase(g) = "fight", NEW p \in Fought(g)
  PROVE  Settling(S, g,
                  p.writes \o (IF Over(p.game.doc) THEN Removes ELSE <<>>),
                  p.game)
PROOF
  <1>1. /\ g \in Games /\ g \in Disks /\ g.turn \in Turns /\ g.turn # NoTurn
        /\ ~ Over(g.doc) /\ Fair(S, g.turn) /\ Round(g.doc) \in Nat
        /\ g.turn.round = Round(g.doc)
        /\ Len(g.doc.rounds) \in Nat /\ Round(g.doc) = Len(g.doc.rounds) - 1
    BY GameShape, DiskGames, DealtShape DEF Live, Round
  <1>2. \A s \in Side : g.turn.committed[s]
    BY DEF Phase
  <1>3. CASE Over(Published(g))
    <2> DEFINE d == Published(g)
               e == WithConcession(d)
               h == Game(e, g.turn)
    <2>1. p = Progress(h, WritesBoth(h)) /\ p \in Progresses
      BY <1>1, <1>3, FoughtGood DEF Fought
    <2>2. h \in Games /\ h.doc = e /\ h.turn = g.turn
      BY <2>1 DEF Progress, Progresses, Game
    <2>3. e \in DealtDocs
      BY <2>2 DEF Games
    <2>4. /\ d \in Documents /\ Dealt(d) /\ Round(d) = Round(g.doc)
          /\ d.result = g.doc.result
      BY <1>1, PublishedShape
    <2>5. Ended(e)
      <3>1. Round(d) > 0
        BY <1>1, <1>3, <2>4 DEF Over
      <3>2. Ended(d)
        BY <3>1 DEF Ended
      <3> QED
        BY <2>4, <3>2, ConcessionRounds
    <2>6. Over(e) /\ e.rounds = d.rounds
      BY <1>3, <2>4, Concession, ConcessionRounds
    <2> HIDE DEF e, d
    <2>7. Script(S, g, WritesDoc(e), h)
      <3>1. /\ Len(e.rounds) = Len(g.doc.rounds)
            /\ \A r \in 1..Len(g.doc.rounds) - 1 :
                 e.rounds[r] = g.doc.rounds[r]
            /\ \A s \in Side : g.turn.committed[s] =>
                 e.rounds[Len(g.doc.rounds)][s] = DecidedBy(g, s)
        BY <1>1, <2>6, PublishedRounds DEF d
      <3> QED
        BY <2>3, <2>5, <2>6, <3>1, SettleStep
    <2> HIDE DEF h
    <2>8. Script(S, h, WritesTurn(g.turn), h)
      <3>1. h = Game(h.doc, g.turn) /\ h \in Disks
        BY <2>2, DiskGames
      <3> QED
        BY <1>1, <2>2, <2>3, <2>6, <3>1, TurnStep
    <2>9. Script(S, h, Removes, h)
      BY <2>2, <2>6, RemoveStep, DiskGames
    <2>10. WritesBoth(h) = WritesDoc(e) \o WritesTurn(g.turn)
      BY <2>2 DEF WritesBoth
    <2>11. Script(S, g, WritesBoth(h), h)
      BY <1>1, <2>3, <2>7, <2>8, <2>10, Following, ScriptThen
    <2>12. WritesBoth(h) \in Seq(GoodWrites)
      BY <2>2, Both
    <2>13. Script(S, g, WritesBoth(h) \o Removes, h)
      BY <2>9, <2>11, <2>12, Following, ScriptThen
    <2>14. p.game = h /\ p.writes = WritesBoth(h)
      BY <2>1 DEF Progress
    <2> QED
      BY <2>2, <2>6, <2>13, <2>14, DiskGames DEF Settling
  <1>4. CASE ~ Over(Published(g)) /\ p = Progress(g, <<>>)
    <2>1. p.game = g /\ p.writes = <<>> /\ <<>> \o <<>> = <<>>
      BY <1>4, Following DEF Progress
    <2>2. Script(S, g, <<>>, g)
      BY <1>1, ScriptNil
    <2> QED
      BY <1>1, <2>1, <2>2 DEF Settling
  <1>5. CASE ~ Over(Published(g)) /\ p # Progress(g, <<>>)
    <2>1. PICK n \in Fights(g) \X BOOLEAN :
            p = Progress(
                  Game(NextRound(g, n[1], n[2]),
                       Opening(Round(g.doc) + 1, g.turn.given)),
                  WritesBoth(Game(NextRound(g, n[1], n[2]),
                       Opening(Round(g.doc) + 1, g.turn.given))))
      BY <1>5 DEF Fought
    <2> DEFINE e == NextRound(g, n[1], n[2])
               t == Opening(Round(g.doc) + 1, g.turn.given)
               h == Game(e, t)
    <2>2. h \in Games /\ h.doc = e /\ h.turn = t
      <3>1. p \in Progresses
        BY <1>1, FoughtGood
      <3> QED
        BY <2>1, <3>1 DEF Progress, Progresses, Game
    <2>3. e \in DealtDocs /\ t \in Turns
      BY <2>2 DEF Games
    <2>4. /\ Len(e.rounds) = Len(g.doc.rounds) + 1
          /\ \A r \in 1..Len(g.doc.rounds) - 1 : e.rounds[r] = g.doc.rounds[r]
          /\ \A s \in Side : g.turn.committed[s] =>
               e.rounds[Len(g.doc.rounds)][s] = DecidedBy(g, s)
          /\ Round(e) = Round(g.doc) + 1
      BY <1>1, NextRounds
    <2>5. Ended(e)
      BY <1>1, <2>4 DEF Ended
    <2>6. t.round = Round(e) /\ Fair(S, t)
      <3>1. /\ t.round = Round(g.doc) + 1 /\ t.given = g.turn.given
            /\ \A s \in Side : ~ t.committed[s]
        BY DEF Opening
      <3>2. \A s \in Side : g.turn.given[s]
        BY <1>1, <1>2 DEF Fair
      <3>3. \A s \in S : g.turn.given[s]
        BY <1>1 DEF Fair
      <3> HIDE DEF t
      <3> QED
        BY <2>4, <3>1, <3>2, <3>3 DEF Fair
    <2> HIDE DEF e, t
    <2>7. Script(S, g, WritesDoc(e), Game(e, g.turn))
      BY <1>1, <2>3, <2>4, <2>5, SettleStep
    <2>8. Script(S, Game(e, g.turn), WritesTurn(t), h)
      <3>1. /\ Game(e, g.turn) \in Disks
            /\ Game(e, g.turn).doc = e /\ Game(e, g.turn).turn = g.turn
        BY <1>1, <2>3, DiskGames DEF Game
      <3>2. g.turn.round # Round(e)
        BY <1>1, <2>4
      <3> QED
        BY <2>3, <2>6, <3>1, <3>2, TurnStep
    <2> HIDE DEF h
    <2>9. WritesBoth(h) = WritesDoc(e) \o WritesTurn(t)
      BY <2>2 DEF WritesBoth
    <2>10. Script(S, g, WritesBoth(h), h)
      BY <2>3, <2>7, <2>8, <2>9, Following, ScriptThen
    <2>11. WritesBoth(h) \in Seq(GoodWrites)
      BY <2>2, Both
    <2>12. p.game = h /\ p.writes = WritesBoth(h)
      BY <2>1 DEF Progress, h, e, t
    <2>13. h \in Disks
      BY <2>2, DiskGames
    <2>14. CASE Over(e)
      <3>1. Script(S, h, Removes, h)
        BY <2>2, <2>13, <2>14, RemoveStep
      <3>2. Script(S, g, WritesBoth(h) \o Removes, h)
        BY <2>10, <2>11, <3>1, Following, ScriptThen
      <3> QED
        BY <2>2, <2>12, <2>13, <2>14, <3>2 DEF Settling
    <2>15. CASE ~ Over(e)
      <3>1. Live(S, h)
        BY <2>2, <2>6, <2>15 DEF Live
      <3> QED
        BY <2>2, <2>10, <2>11, <2>12, <2>13, <2>15, <3>1, Following
           DEF Settling
    <2> QED
      BY <2>14, <2>15
  <1> QED
    BY <1>3, <1>4, <1>5

(* settle() of a game that is not over.                                    *)
LEMMA SettledScript ==
  ASSUME NEW S, NEW g, Live(S, g), NEW p \in Settled(g)
  PROVE  Settling(S, g, p.writes, p.game)
PROOF
  <1> DEFINE after ==
        CASE RunsOut(g) ->
               {Progress(Game(RunOut(g), g.turn), WritesDoc(RunOut(g)))}
          [] Phase(g) = "fight" -> Fought(g)
          [] OTHER -> {Progress(g, <<>>)}
             Ends(q) == IF Over(q.game.doc) THEN Removes ELSE <<>>
  <1>1. PICK q \in after : p = Progress(q.game, q.writes \o Ends(q))
    BY DEF Settled
  <1>2. p.game = q.game /\ p.writes = q.writes \o Ends(q)
    BY <1>1 DEF Progress
  <1>3. g \in Games /\ g \in Disks /\ ~ Over(g.doc)
    BY DiskGames DEF Live
  <1>4. CASE RunsOut(g)
    <2> DEFINE e == RunOut(g)
               h == Game(e, g.turn)
    <2>1. Phase(g) # "fight"
      BY <1>4 DEF RunsOut
    <2>2. q = Progress(h, WritesDoc(e))
      BY <1>4, <2>1
    <2>3. e \in DealtDocs /\ Over(e)
      BY <1>3, <1>4, RunOutEnds
    <2>4. /\ Len(e.rounds) = Len(g.doc.rounds)
          /\ \A r \in 1..Len(g.doc.rounds) - 1 : e.rounds[r] = g.doc.rounds[r]
          /\ \A s \in Side : g.turn.committed[s] =>
               e.rounds[Len(g.doc.rounds)][s] = DecidedBy(g, s)
          /\ Round(g.doc) > 0
      BY <1>3, <1>4, RunOutRounds
    <2> HIDE DEF e
    <2>5. Ended(e)
      BY <2>4 DEF Ended, Round
    <2>6. Script(S, g, WritesDoc(e), h)
      BY <2>3, <2>4, <2>5, SettleStep
    <2>7. h.doc = e /\ h \in Disks
      BY <1>3, <2>3, DiskGames, GameShape DEF Game
    <2>8. q.game = h /\ q.writes = WritesDoc(e)
      BY <2>2 DEF Progress
    <2> HIDE DEF h
    <2>9. Script(S, h, Removes, h)
      BY <2>3, <2>7, RemoveStep
    <2>10. Script(S, g, WritesDoc(e) \o Removes, h)
      BY <2>3, <2>6, <2>9, Following, ScriptThen
    <2> QED
      BY <1>2, <2>3, <2>7, <2>8, <2>10 DEF Settling
  <1>5. CASE Phase(g) = "fight"
    <2>1. ~ RunsOut(g)
      BY <1>5 DEF RunsOut
    <2>2. q \in Fought(g)
      BY <1>5, <2>1
    <2> QED
      BY <1>2, <1>5, <2>2, FoughtScript
  <1>6. CASE ~ RunsOut(g) /\ Phase(g) # "fight"
    <2>1. q = Progress(g, <<>>)
      BY <1>6
    <2>2. q.game = g /\ q.writes = <<>> /\ Ends(q) = <<>>
      BY <1>3, <2>1 DEF Progress
    <2>3. <<>> \o <<>> = <<>>
      BY Following
    <2> QED
      BY <1>2, <1>3, <2>2, <2>3, ScriptNil DEF Settling
  <1> QED
    BY <1>4, <1>5, <1>6

(* Of one that is over: the turn file goes, and nothing else happens.      *)
LEMMA SettledOver ==
  ASSUME NEW g, Over(g.doc), NEW p \in Settled(g)
  PROVE  p.game = g /\ p.writes = Removes
PROOF
  <1> DEFINE after ==
        CASE RunsOut(g) ->
               {Progress(Game(RunOut(g), g.turn), WritesDoc(RunOut(g)))}
          [] Phase(g) = "fight" -> Fought(g)
          [] OTHER -> {Progress(g, <<>>)}
             Ends(q) == IF Over(q.game.doc) THEN Removes ELSE <<>>
  <1>1. PICK q \in after : p = Progress(q.game, q.writes \o Ends(q))
    BY DEF Settled
  <1>2. Phase(g) # "fight" /\ ~ RunsOut(g)
    BY DEF Phase, RunsOut
  <1>3. q = Progress(g, <<>>)
    BY <1>2
  <1>4. q.game = g /\ q.writes = <<>> /\ Ends(q) = Removes
    BY <1>3 DEF Progress
  <1>5. <<>> \o Removes = Removes
    BY Following, ConcatEmptySeq
  <1>6. p.game = q.game /\ p.writes = q.writes \o Ends(q)
    BY <1>1 DEF Progress
  <1> QED
    BY <1>4, <1>5, <1>6

-----------------------------------------------------------------------------
(* What play keeps.                                                        *)

Seated == {seat[c] : c \in Caller} \cap Side
Disk(c) == Game(doc, file[fd[c]])

(* What a process will answer is so once its writes are made.              *)
Told(S, b, a) ==
  /\ a.kind = "seat" => /\ Dealt(b.doc) /\ ~ Over(b.doc)
                        /\ b.turn.given[a.side] /\ a.side \notin S
  /\ a.kind = "sealed" => Pledged(b, a.side, a.round, a.decisions)

Scripted(c) ==
  \E b : Script(Seated, Disk(c), writes[c], b) /\ Told(Seated, b, answer[c])
Scripts == \A c \in Caller : Mine(c) => Scripted(c)

(* Nobody has anything to write or to answer without the lock.             *)
Busy ==
  \A c \in Caller : writes[c] # <<>> \/ answer[c] # Refused => Mine(c)

(* Until the match is over there is one turn file, the one the path names. *)
Alone ==
  /\ ~ Over(doc) =>
       /\ \A c \in Caller : fd[c] # NoInode => fd[c] = path
       /\ \A i \in Inode : i # path => file[i] = NoTurn
  /\ ~ Dealt(doc) => \A i \in Inode : file[i] = NoTurn

Seats ==
  /\ \A i \in Inode : Fair(Seated, file[i])
  /\ OneSeatEach
  /\ ~ Dealt(doc) => Seated = {}
  /\ Ended(doc)
  /\ \A c \in Caller : op[c].side \in Side => op[c].side = seat[c]

Table == Game(doc, IF path = NoInode THEN NoTurn ELSE file[path])
Pledges ==
  \A s \in Side :
    promised[s] # NoPromise =>
      Pledged(Table, s, promised[s].round, promised[s].decisions)

PlayInv == MatchInv /\ Scripts /\ Busy /\ Alone /\ Seats /\ Pledges

-----------------------------------------------------------------------------
(* What an operation decides is a script.                                  *)

DecidesScript(c) ==
  \E ws \in Seq(GoodWrites), a \in Answers, b \in Disks :
    Works(c, ws, a) /\ Script(Seated, Disk(c), ws, b) /\ Told(Seated, b, a)

LEMMA Plainly ==
  ASSUME NEW S, NEW b, NEW a \in {Refused, Shown, Again}
  PROVE  a \in Answers /\ Told(S, b, a)
PROOF
  <1>1. a.kind # "seat" /\ a.kind # "sealed"
    BY DEF Refused, Shown, Again
  <1> QED
    BY <1>1, AnswersTyped DEF Told

LEMMA DiskTyped ==
  ASSUME MatchInv, NEW c \in Caller, fd[c] # NoInode
  PROVE  /\ fd[c] \in Inode /\ file[fd[c]] \in Turns \cup {NoTurn}
         /\ Disk(c) \in Disks
         /\ Disk(c).doc = doc /\ Disk(c).turn = file[fd[c]]
         /\ Dealt(doc) => doc \in DealtDocs
PROOF
  <1>1. fd[c] \in Inode
    BY DEF MatchInv, ProcOK
  <1>2. file[fd[c]] \in Turns \cup {NoTurn} /\ doc \in DealtDocs \cup Undealt
    BY <1>1 DEF MatchInv, DiskOK
  <1> QED
    BY <1>1, <1>2, DiskGames DEF Disk, Game, Undealt

LEMMA HeldLive ==
  ASSUME PlayInv, NEW c \in Caller, Granted(c), Dealt(doc), ~ Over(doc)
  PROVE  /\ Rebuilds(c) \in Seq(GoodWrites)
         /\ Script(Seated, Disk(c), Rebuilds(c), Held(c))
         /\ Live(Seated, Held(c))
PROOF
  <1> DEFINE t == file[fd[c]]
  <1>1. MatchInv /\ fd[c] # NoInode
    BY DEF PlayInv, Granted
  <1>2. Held(c) \in Games /\ Rebuilds(c) \in Seq(GoodWrites)
    BY <1>1, HeldGood
  <1>3. /\ t \in Turns \cup {NoTurn} /\ Disk(c) \in Disks
        /\ Disk(c).doc = doc /\ Disk(c).turn = t /\ doc \in DealtDocs
        /\ fd[c] \in Inode
    BY <1>1, DiskTyped
  <1>4. Fair(Seated, t)
    BY <1>3 DEF PlayInv, Seats
  <1>5. CASE t.round = Round(doc)
    <2>1. Held(c) = Disk(c) /\ Rebuilds(c) = <<>>
      BY <1>5 DEF Held, Rebuilds, Read, ReadWrites, Disk
    <2>2. Live(Seated, Held(c))
      BY <1>2, <1>3, <1>4, <1>5, <2>1 DEF Live
    <2> QED
      BY <1>2, <1>3, <2>1, <2>2, ScriptNil
  <1>6. CASE t.round # Round(doc)
    <2> DEFINE u == Rebuilt(doc)
    <2>1. Held(c) = Game(doc, u) /\ Rebuilds(c) = WritesTurn(u)
      BY <1>6 DEF Held, Rebuilds, Read, ReadWrites
    <2>2. u \in Turns
      BY <1>3, RebuiltTyped DEF DealtDocs
    <2>3. u.round = Round(doc) /\ \A s \in Side : u.given[s]
      BY DEF Rebuilt, Opening, Everyone
    <2> HIDE DEF u
    <2>4. Fair(Seated, u)
      BY <2>3 DEF Fair, Seated
    <2>5. Script(Seated, Disk(c), WritesTurn(u), Game(doc, u))
      BY <1>3, <1>6, <2>2, <2>4, TurnStep
    <2>6. Live(Seated, Held(c))
      BY <1>2, <2>1, <2>3, <2>4 DEF Live, Game
    <2> QED
      BY <1>2, <2>1, <2>5, <2>6
  <1> QED
    BY <1>5, <1>6

LEMMA HeldOver ==
  ASSUME PlayInv, NEW c \in Caller, Granted(c), Dealt(doc), Over(doc)
  PROVE  /\ Rebuilds(c) = Removes /\ Held(c).doc = doc
         /\ Script(Seated, Disk(c), Removes, Disk(c))
         /\ Script(Seated, Disk(c), Removes \o Removes, Disk(c))
         /\ Disk(c) \in Disks
         /\ \A s \in Side : Held(c).turn.given[s]
PROOF
  <1>1. MatchInv /\ fd[c] # NoInode
    BY DEF PlayInv, Granted
  <1>2. Disk(c) \in Disks /\ Disk(c).doc = doc /\ fd[c] \in Inode
    BY <1>1, DiskTyped
  <1>3. Rebuilds(c) = Removes /\ Held(c).doc = doc
    BY DEF Rebuilds, ReadWrites, Held, Read, Game
  <1>4. Script(Seated, Disk(c), Removes, Disk(c))
    BY <1>2, RemoveStep
  <1>5. Script(Seated, Disk(c), Removes \o Removes, Disk(c))
    BY <1>4, Following, ScriptThen
  <1>6. \A s \in Side : Held(c).turn.given[s]
    <2>1. CASE file[fd[c]].round = Round(doc)
      <3>1. Held(c).turn = file[fd[c]]
        BY <2>1 DEF Held, Read, Game
      <3>2. Round(doc) > 0 /\ Fair(Seated, file[fd[c]])
        BY <1>2 DEF PlayInv, Seats, Ended
      <3>3. file[fd[c]] # NoTurn
        BY <2>1, <3>2 DEF NoTurn
      <3> QED
        BY <2>1, <3>1, <3>2, <3>3 DEF Fair
    <2>2. CASE file[fd[c]].round # Round(doc)
      <3>1. Held(c).turn = Rebuilt(doc)
        BY <2>2 DEF Held, Read, Game
      <3>2. \A s \in Side : Rebuilt(doc).given[s]
        BY DEF Rebuilt, Opening, Everyone
      <3> QED
        BY <3>1, <3>2
    <2> QED
      BY <2>1, <2>2
  <1> QED
    BY <1>2, <1>3, <1>4, <1>5, <1>6

(* A refusal after what reading wrote.                                     *)
LEMMA RefusedScript ==
  ASSUME PlayInv, NEW c \in Caller, Granted(c), Dealt(doc),
         Works(c, Rebuilds(c), Refused)
  PROVE  DecidesScript(c)
PROOF
  <1>1. CASE Over(doc)
    <2>1. Works(c, Removes, Refused)
      BY <1>1, HeldOver
    <2> QED
      BY <1>1, <2>1, HeldOver, Following, Plainly DEF DecidesScript
  <1>2. CASE ~ Over(doc)
    <2>1. Held(c) \in Disks
      BY <1>2, HeldLive, DiskGames DEF Live
    <2> QED
      BY <1>2, <2>1, HeldLive, Plainly DEF DecidesScript
  <1> QED
    BY <1>1, <1>2

LEMMA NothingScript ==
  ASSUME PlayInv, NEW c \in Caller, TakeNothing(c)
  PROVE  DecidesScript(c)
PROOF
  <1>1. MatchInv /\ fd[c] # NoInode /\ Works(c, <<>>, Refused)
    BY DEF PlayInv, TakeNothing, Locks, Granted
  <1>2. Disk(c) \in Disks
    BY <1>1, DiskTyped
  <1>3. Script(Seated, Disk(c), <<>>, Disk(c))
    BY <1>2, ScriptNil
  <1> QED
    BY <1>1, <1>2, <1>3, Following, Plainly DEF DecidesScript

LEMMA ShowScript ==
  ASSUME PlayInv, NEW c \in Caller, TakeShow(c)
  PROVE  DecidesScript(c)
PROOF
  <1>1. Granted(c) /\ Dealt(doc)
    BY DEF TakeShow, Locks
  <1>2. PICK p \in Settled(Held(c)) :
          Works(c, Rebuilds(c) \o p.writes,
                IF op[c].kind = "wait" /\ ~ WaitOver(p.game, op[c].side)
                THEN Again ELSE Shown)
    BY DEF TakeShow
  <1>3. PICK a \in {Refused, Shown, Again} :
          Works(c, Rebuilds(c) \o p.writes, a)
    BY <1>2
  <1>4. CASE Over(doc)
    <2>1. p.writes = Removes
      BY <1>1, <1>4, HeldOver, SettledOver
    <2>2. Works(c, Removes \o Removes, a)
      BY <1>1, <1>3, <1>4, <2>1, HeldOver
    <2> QED
      BY <1>1, <1>4, <2>2, HeldOver, Following, Plainly DEF DecidesScript
  <1>5. CASE ~ Over(doc)
    <2>1. /\ Rebuilds(c) \in Seq(GoodWrites)
          /\ Script(Seated, Disk(c), Rebuilds(c), Held(c))
          /\ Live(Seated, Held(c)) /\ Held(c) \in Games
      BY <1>1, <1>5, HeldLive DEF Live
    <2>2. PICK b \in Disks : Script(Seated, Held(c), p.writes, b)
      BY <2>1, SettledScript DEF Settling
    <2>3. p.writes \in Seq(GoodWrites)
      BY <2>1, SettledGood DEF Progresses
    <2>4. Script(Seated, Disk(c), Rebuilds(c) \o p.writes, b)
      BY <2>1, <2>2, <2>3, ScriptThen
    <2>5. Rebuilds(c) \o p.writes \in Seq(GoodWrites)
      BY <2>1, <2>3, Following
    <2> QED
      BY <1>3, <2>4, <2>5, Plainly DEF DecidesScript
  <1> QED
    BY <1>4, <1>5

(* A draft changes what nobody sealed.                                     *)
LEMMA DraftStep ==
  ASSUME NEW S, NEW g, Live(S, g), NEW s \in Side, ~ g.turn.committed[s],
         NEW list \in Lists
  PROVE  /\ Script(S, g, WritesTurn(Decided(g, s, list).turn),
                   Decided(g, s, list))
         /\ Decided(g, s, list) \in Disks
         /\ WritesTurn(Decided(g, s, list).turn) \in Seq(GoodWrites)
PROOF
  <1> DEFINE h == Decided(g, s, list)
             t == h.turn
  <1>1. /\ g \in Games /\ g \in Disks /\ g.turn \in Turns /\ g.turn # NoTurn
        /\ Fair(S, g.turn) /\ g.doc \in DealtDocs
    BY DiskGames, GameShape DEF Live
  <1>2. /\ h = Game(g.doc, t) /\ t \in Turns /\ t.round = g.turn.round
        /\ t.given = g.turn.given /\ t.committed = g.turn.committed
        /\ \A x \in Side \ {s} : t.decisions[x] = g.turn.decisions[x]
    <2> DEFINE u == [g.turn EXCEPT !.decisions[s] = list]
    <2>1. h = [g EXCEPT !.turn = u]
      BY DEF Decided
    <2>2. g = Game(g.doc, g.turn)
      BY <1>1, DiskGames
    <2>3. h = Game(g.doc, u) /\ t = u
      BY <2>1, <2>2 DEF Game
    <2>4. /\ u.round = g.turn.round /\ u.given = g.turn.given
          /\ u.committed = g.turn.committed
          /\ \A x \in Side \ {s} : u.decisions[x] = g.turn.decisions[x]
      BY <1>1 DEF Turns
    <2>5. t \in Turns
      BY <1>1, DraftTyped
    <2> QED
      BY <2>3, <2>4, <2>5
  <1> HIDE DEF h, t
  <1>3. Fair(S, t)
    BY <1>1, <1>2 DEF Fair
  <1>4. \A x \in Side : g.turn.committed[x] =>
          t.committed[x] /\ t.decisions[x] = g.turn.decisions[x]
    BY <1>2
  <1>5. Script(S, g, WritesTurn(t), Game(g.doc, t))
    BY <1>1, <1>2, <1>3, <1>4, TurnStep
  <1>6. h \in Disks
    BY <1>1, <1>2, DiskGames
  <1> QED
    BY <1>2, <1>5, <1>6, Following DEF t, h

LEMMA DraftScript ==
  ASSUME PlayInv, NEW c \in Caller, Granted(c), Dealt(doc), NEW s \in Side,
         Editable(Held(c), s), NEW list \in Lists,
         Works(c, Rebuilds(c) \o WritesTurn(Decided(Held(c), s, list).turn),
               Shown)
  PROVE  DecidesScript(c)
PROOF
  <1> DEFINE g == Held(c)
             h == Decided(g, s, list)
  <1>1. ~ Over(g.doc) /\ ~ g.turn.committed[s]
    BY DEF Editable, Decides, Phase
  <1>2. ~ Over(doc)
    BY <1>1, HeldOver
  <1>3. /\ Rebuilds(c) \in Seq(GoodWrites)
        /\ Script(Seated, Disk(c), Rebuilds(c), g) /\ Live(Seated, g)
    BY <1>2, HeldLive
  <1> HIDE DEF g
  <1>4. /\ Script(Seated, g, WritesTurn(h.turn), h) /\ h \in Disks
        /\ WritesTurn(h.turn) \in Seq(GoodWrites)
    BY <1>1, <1>3, DraftStep
  <1> HIDE DEF h
  <1>5. Script(Seated, Disk(c), Rebuilds(c) \o WritesTurn(h.turn), h)
    BY <1>3, <1>4, ScriptThen
  <1>6. Rebuilds(c) \o WritesTurn(h.turn) \in Seq(GoodWrites)
    BY <1>3, <1>4, Following
  <1>7. Works(c, Rebuilds(c) \o WritesTurn(h.turn), Shown)
    BY DEF h, g
  <1> QED
    BY <1>4, <1>5, <1>6, <1>7, Plainly DEF DecidesScript

LEMMA ActScript ==
  ASSUME PlayInv, NEW c \in Caller, TakeAct(c)
  PROVE  DecidesScript(c)
PROOF
  <1> DEFINE g == Held(c)
             s == op[c].side
  <1>1. MatchInv /\ Granted(c) /\ Dealt(doc)
    BY DEF TakeAct, Locks, PlayInv
  <1>2. s \in Side
    BY <1>1, SeatedOp DEF TakeAct
  <1>3. g \in Games
    BY <1>1, HeldGood
  <1>4. CASE Works(c, Rebuilds(c), Refused)
    BY <1>1, <1>4, RefusedScript
  <1>5. CASE /\ Editable(g, s)
             /\ \E push \in BOOLEAN, more \in Drafts :
                  Works(c, Rebuilds(c)
                             \o WritesTurn(
                                  Decided(g, s, (IF push THEN <<>>
                                                 ELSE g.turn.decisions[s])
                                                  \o more).turn),
                        Shown)
    <2> HIDE DEF g, s
    <2>1. PICK push \in BOOLEAN, more \in Drafts :
            Works(c, Rebuilds(c)
                       \o WritesTurn(
                            Decided(g, s, (IF push THEN <<>>
                                           ELSE g.turn.decisions[s])
                                            \o more).turn),
                  Shown)
      BY <1>5
    <2> DEFINE draft == (IF push THEN <<>> ELSE g.turn.decisions[s]) \o more
    <2>2. more \in Lists
      BY DEF Drafts, Lists
    <2>3. (IF push THEN <<>> ELSE g.turn.decisions[s]) \in Lists
      BY <1>2, <1>3, GameShape DEF Lists
    <2>4. draft \in Lists
      BY <2>2, <2>3, ConcatProperties DEF Lists
    <2>5. Works(c, Rebuilds(c) \o WritesTurn(Decided(g, s, draft).turn), Shown)
      BY <2>1
    <2> HIDE DEF draft
    <2> QED
      BY <1>1, <1>2, <1>5, <2>4, <2>5, DraftScript DEF g
  <1> QED
    BY <1>4, <1>5 DEF TakeAct

LEMMA UndoScript ==
  ASSUME PlayInv, NEW c \in Caller, TakeUndo(c)
  PROVE  DecidesScript(c)
PROOF
  <1> DEFINE g == Held(c)
             s == op[c].side
             list == g.turn.decisions[s]
             Left(n) == SubSeq(list, 1, Len(list) - n)
  <1>1. MatchInv /\ Granted(c) /\ Dealt(doc)
    BY DEF TakeUndo, Locks, PlayInv
  <1>2. s \in Side
    BY <1>1, SeatedOp DEF TakeUndo
  <1>3. g \in Games
    BY <1>1, HeldGood
  <1>4. CASE Works(c, Rebuilds(c), Refused)
    BY <1>1, <1>4, RefusedScript
  <1>5. CASE /\ Editable(g, s)
             /\ \E n \in 1..Len(list) :
                  Works(c, Rebuilds(c)
                             \o WritesTurn(Decided(g, s, Left(n)).turn), Shown)
    <2>1. PICK n \in 1..Len(list) :
            Works(c, Rebuilds(c) \o WritesTurn(Decided(g, s, Left(n)).turn),
                  Shown)
      BY <1>5
    <2>2. list \in Seq(Decision) /\ Len(list) \in Nat
      BY <1>2, <1>3, GameShape, LenProperties DEF Lists
    <2>3. Left(n) \in Lists
      <3> HIDE DEF list
      <3>1. \A i \in 1..Len(list) - n : list[i] \in Decision
        BY <2>2, ElementOfSeq
      <3> QED
        BY <2>2, <3>1, SubSeqProperties DEF Lists
    <2> HIDE DEF Left, list
    <2> QED
      BY <1>1, <1>2, <1>5, <2>1, <2>3, DraftScript
  <1> QED
    BY <1>4, <1>5 DEF TakeUndo

LEMMA JoinScript ==
  ASSUME PlayInv, NEW c \in Caller, TakeJoin(c)
  PROVE  DecidesScript(c)
PROOF
  <1>1. Granted(c) /\ Dealt(doc)
    BY DEF TakeJoin, Locks
  <1>2. CASE Works(c, Rebuilds(c), Refused)
    BY <1>1, <1>2, RefusedScript
  <1>3. CASE \E s \in Side :
               LET joined == [Held(c) EXCEPT !.turn.given[s] = TRUE]
               IN  /\ ~ Held(c).turn.given[s]
                   /\ \E ws \in {WritesBoth(joined), WritesTurn(joined.turn)} :
                        Works(c, Rebuilds(c) \o ws,
                              [kind |-> "seat", side |-> s])
    <2>1. PICK s \in Side :
            LET joined == [Held(c) EXCEPT !.turn.given[s] = TRUE]
            IN  /\ ~ Held(c).turn.given[s]
                /\ \E ws \in {WritesBoth(joined), WritesTurn(joined.turn)} :
                     Works(c, Rebuilds(c) \o ws,
                           [kind |-> "seat", side |-> s])
      BY <1>3
    <2> DEFINE g == Held(c)
               h == [g EXCEPT !.turn.given[s] = TRUE]
               t == [g.turn EXCEPT !.given[s] = TRUE]
               a == [kind |-> "seat", side |-> s]
    <2>2. PICK ws \in {WritesBoth(h), WritesTurn(h.turn)} :
            Works(c, Rebuilds(c) \o ws, a)
      BY <2>1
    <2>3. ~ Over(doc) /\ ~ g.turn.given[s]
      BY <1>1, <2>1, HeldOver
    <2>4. /\ Rebuilds(c) \in Seq(GoodWrites)
          /\ Script(Seated, Disk(c), Rebuilds(c), g) /\ Live(Seated, g)
      BY <1>1, <2>3, HeldLive
    <2> HIDE DEF g
    <2>5. /\ g \in Games /\ g \in Disks /\ g.turn \in Turns /\ g.turn # NoTurn
          /\ g.doc \in DealtDocs /\ Dealt(g.doc) /\ ~ Over(g.doc)
          /\ g = Game(g.doc, g.turn) /\ Fair(Seated, g.turn)
      BY <2>4, DiskGames, GameShape DEF Live
    <2>6. /\ t \in Turns /\ t.round = g.turn.round
          /\ t.committed = g.turn.committed /\ t.decisions = g.turn.decisions
          /\ t.given[s] /\ \A x \in Side : g.turn.given[x] => t.given[x]
      BY <2>5 DEF Turns
    <2>7. h = Game(g.doc, t) /\ h.doc = g.doc /\ h.turn = t
      <3>1. h = [g EXCEPT !.turn = t]
        OBVIOUS
      <3> HIDE DEF h, t
      <3> QED
        BY <2>5, <3>1 DEF Game
    <2> HIDE DEF h, t
    <2>8. Fair(Seated, t) /\ s \notin Seated
      BY <2>3, <2>5, <2>6 DEF Fair, Seated
    <2>9. h \in Disks
      BY <2>5, <2>6, <2>7, DiskGames
    <2>10. Script(Seated, g, WritesTurn(t), h)
      BY <2>5, <2>6, <2>7, <2>8, TurnStep
    <2>11. Script(Seated, g, ws, h) /\ ws \in Seq(GoodWrites)
      <3>1. CASE ws = WritesTurn(t)
        BY <2>6, <2>10, <3>1, Following
      <3>2. CASE ws = WritesBoth(h)
        <4>1. Script(Seated, g, WritesDoc(g.doc), g)
          BY <2>5, SameStep DEF Ended
        <4>2. ws = WritesDoc(g.doc) \o WritesTurn(t)
          BY <2>7, <3>2 DEF WritesBoth
        <4> QED
          BY <2>5, <2>6, <2>10, <4>1, <4>2, Following, ScriptThen
      <3> QED
        BY <2>2, <2>7, <3>1, <3>2
    <2>12. Script(Seated, Disk(c), Rebuilds(c) \o ws, h)
      BY <2>4, <2>11, ScriptThen
    <2>13. Rebuilds(c) \o ws \in Seq(GoodWrites)
      BY <2>4, <2>11, Following
    <2>14. Told(Seated, h, a)
      BY <2>5, <2>6, <2>7, <2>8 DEF Told
    <2>15. a \in Answers
      BY DEF Answers
    <2> HIDE DEF a
    <2> QED
      BY <2>2, <2>9, <2>12, <2>13, <2>14, <2>15 DEF DecidesScript
  <1> QED
    BY <1>2, <1>3 DEF TakeJoin

(* The match is dealt beside an empty turn file, before anybody sits.      *)
LEMMA DealScript ==
  ASSUME PlayInv, NEW c \in Caller, TakeDeal(c)
  PROVE  DecidesScript(c)
PROOF
  <1> DEFINE fresh == [s \in Side |-> <<>>]
             d == [NoDocument EXCEPT !.rounds = <<fresh>>]
             t == Opening(0, [s \in Side |-> s = "blue"])
             h == Game(d, t)
             a == [kind |-> "seat", side |-> "blue"]
             e == Game(d, Disk(c).turn)
  <1>1. /\ MatchInv /\ fd[c] # NoInode /\ ~ Dealt(doc)
        /\ Works(c, WritesBoth(h), a)
    BY DEF TakeDeal, Locks, Granted, PlayInv
  <1>2. /\ Disk(c) \in Disks /\ Disk(c).doc = doc
        /\ Disk(c).turn = NoTurn /\ Seated = {}
    <2>1. fd[c] \in Inode /\ Disk(c) \in Disks
          /\ Disk(c).doc = doc /\ Disk(c).turn = file[fd[c]]
      BY <1>1, DiskTyped
    <2> QED
      BY <1>1, <2>1 DEF PlayInv, Alone, Seats
  <1>3. t \in Turns /\ t.round = 0 /\ t.given["blue"]
        /\ \A s \in Side : ~ t.committed[s]
    <2>1. [s \in Side |-> s = "blue"] \in [Side -> BOOLEAN] /\ "blue" \in Side
      BY DEF Side
    <2>2. t \in Turns
      BY <2>1, OpeningTyped
    <2> QED
      BY <2>1, <2>2 DEF Opening
  <1>4. d \in DealtDocs /\ ~ Over(d) /\ Dealt(d) /\ Len(d.rounds) = 1
    <2>1. fresh \in Half /\ \A s \in Side : fresh[s] = <<>>
      BY DEF Half, Lists
    <2> HIDE DEF fresh
    <2>2. /\ <<fresh>> \in Seq(Half) /\ Len(<<fresh>>) = 1
          /\ <<fresh>>[1] = fresh /\ <<fresh>> # <<>>
      BY <2>1
    <2>3. d.rounds = <<fresh>> /\ d \in Documents /\ d.result = "none"
      BY <2>2 DEF NoDocument, Documents, Half
    <2> HIDE DEF d
    <2>4. Dealt(d) /\ Recorded(d) = fresh /\ Round(d) = 0
      BY <2>2, <2>3 DEF Dealt, Recorded, Round
    <2>5. ~ Over(d)
      BY <2>3, <2>4 DEF Over
    <2> QED
      BY <2>1, <2>2, <2>3, <2>4, <2>5 DEF DealtDocs, Secret, Agrees
  <1> HIDE DEF d, t
  <1>5. doc.rounds = <<>> /\ Len(doc.rounds) = 0 /\ Round(doc) = -1
        /\ ~ Over(doc)
    <2>1. doc.rounds = <<>>
      BY <1>1 DEF Dealt
    <2>2. Len(doc.rounds) = 0 /\ Round(doc) = -1
      BY <2>1 DEF Round
    <2> QED
      BY <2>1, <2>2 DEF PlayInv, Seats, Ended
  <1>6. e \in Disks /\ e.doc = d /\ e.turn = NoTurn
    BY <1>2, <1>4, DiskGames DEF Game
  <1>7. Script(Seated, Disk(c), WritesDoc(d), e)
    <2> DEFINE w == [kind |-> "doc", doc |-> d]
    <2>1. Follows(doc, d)
      BY <1>1, <1>4, <1>5 DEF Follows
    <2>2. Stands(Disk(c), e)
      BY <1>2, <1>5 DEF Stands, Pledged
    <2>3. w.kind = "doc" /\ w.doc = d
      OBVIOUS
    <2>4. OneWrite(Seated, w, Disk(c), e)
      BY <1>2, <1>4, <2>1, <2>2, <2>3 DEF OneWrite, Ended
    <2>5. Script(Seated, Disk(c), <<w>>, e)
      BY <1>2, <1>6, <2>4, ScriptOne
    <2> QED
      BY <2>5 DEF WritesDoc
  <1>8. Script(Seated, e, WritesTurn(t), h)
    <2>1. Fair(Seated, t)
      BY <1>2, <1>3 DEF Fair
    <2> QED
      BY <1>3, <1>4, <1>6, <2>1, TurnStep
  <1>9. h.doc = d /\ h.turn = t /\ h \in Disks
    BY <1>3, <1>4, DiskGames DEF Game
  <1>10. WritesBoth(h) = WritesDoc(d) \o WritesTurn(t)
    BY <1>9 DEF WritesBoth
  <1>11. /\ Script(Seated, Disk(c), WritesBoth(h), h)
         /\ WritesBoth(h) \in Seq(GoodWrites)
    BY <1>3, <1>4, <1>7, <1>8, <1>10, Following, ScriptThen
  <1>12. Told(Seated, h, a) /\ a \in Answers
    BY <1>2, <1>3, <1>4, <1>9 DEF Told, Answers, Side
  <1> HIDE DEF h, a
  <1> QED
    BY <1>1, <1>9, <1>11, <1>12 DEF DecidesScript

(* A seal keeps what is decided, whatever the clock has come to.           *)
LEMMA SealStep ==
  ASSUME NEW S, NEW g, Live(S, g), NEW h \in Later(g), NEW s \in Side,
         s \in S, ~ h.turn.committed[s]
  PROVE  /\ Script(S, g, SealWrites(h, s), Sealed(h, s))
         /\ SealWrites(h, s) \in Seq(GoodWrites)
         /\ Live(S, Sealed(h, s)) /\ Sealed(h, s).doc = g.doc
         /\ Sealed(h, s).turn.committed[s]
         /\ h.doc = g.doc
PROOF
  <1> DEFINE k == Sealed(h, s)
             t == k.turn
             u == [h.turn EXCEPT !.committed[s] = TRUE]
  <1>1. /\ g \in Games /\ g \in Disks /\ g.turn \in Turns /\ g.turn # NoTurn
        /\ Fair(S, g.turn) /\ g.doc \in DealtDocs /\ ~ Over(g.doc)
        /\ g.turn.round = Round(g.doc)
    BY DiskGames, GameShape DEF Live
  <1>2. /\ h.doc = g.doc /\ h.turn \in Turns
        /\ h.turn.round = g.turn.round /\ h.turn.given = g.turn.given
        /\ h.turn.committed = g.turn.committed
        /\ h.turn.decisions = g.turn.decisions
        /\ h = Game(h.doc, h.turn)
    <2>1. h \in Games
      BY <1>1, LaterGood
    <2>2. h = g \/ h = [g EXCEPT !.turn = Older(g.turn)]
      BY DEF Later
    <2>3. CASE h = g
      BY <1>1, <2>1, <2>3, DiskGames
    <2>4. CASE h = [g EXCEPT !.turn = Older(g.turn)]
      <3>1. h.doc = g.doc /\ h.turn = Older(g.turn)
        BY <1>1, <2>4 DEF Games
      <3> QED
        BY <1>1, <2>1, <3>1, OlderKeeps, DiskGames
    <2> QED
      BY <2>2, <2>3, <2>4
  <1>3. k = Game(g.doc, u) /\ k.doc = g.doc /\ t = u
    <2>1. k = [h EXCEPT !.turn = u]
      BY DEF Sealed
    <2> HIDE DEF k, u
    <2> QED
      BY <1>2, <2>1 DEF Game
  <1>4. /\ u \in Turns /\ u.round = g.turn.round /\ u.given = g.turn.given
        /\ u.decisions = g.turn.decisions /\ u.committed[s]
        /\ \A x \in Side \ {s} : u.committed[x] = g.turn.committed[x]
    BY <1>2 DEF Turns
  <1> HIDE DEF k, u
  <1>5. Fair(S, u)
    BY <1>1, <1>4 DEF Fair
  <1>6. \A x \in Side : g.turn.committed[x] =>
          u.committed[x] /\ u.decisions[x] = g.turn.decisions[x]
    BY <1>4
  <1>7. Script(S, g, WritesTurn(u), Game(g.doc, u))
    BY <1>1, <1>4, <1>5, <1>6, TurnStep
  <1>8. k \in Games
    BY <1>1, <1>3, <1>4, AGame
  <1>9. Live(S, k)
    BY <1>1, <1>3, <1>4, <1>5, <1>8 DEF Live
  <1> QED
    BY <1>2, <1>3, <1>4, <1>7, <1>9, Following DEF SealWrites, k

LEMMA CommitScript ==
  ASSUME PlayInv, NEW c \in Caller, TakeCommit(c)
  PROVE  DecidesScript(c)
PROOF
  <1> DEFINE s == op[c].side
             Ans(g) == [kind |-> "sealed", side |-> s, round |-> Round(g.doc),
                        decisions |-> DecidedBy(Sealed(g, s), s)]
  <1>1. Granted(c) /\ Dealt(doc) /\ MatchInv
    BY DEF TakeCommit, Locks, PlayInv
  <1>2. s \in Side /\ s \in Seated
    <2>1. s \in Side
      BY <1>1, SeatedOp DEF TakeCommit
    <2> QED
      BY <2>1 DEF PlayInv, Seats, Seated
  <1>3. PICK p \in Settled(Held(c)) : \E g \in Later(p.game) :
          IF Sealable(g, s)
          THEN \E q \in Settled(Sealed(g, s)) :
                 Works(c, Rebuilds(c) \o p.writes \o SealWrites(g, s)
                            \o q.writes, Ans(g))
          ELSE Works(c, Rebuilds(c) \o p.writes, Refused)
    BY DEF TakeCommit
  <1>4. PICK g \in Later(p.game) :
          IF Sealable(g, s)
          THEN \E q \in Settled(Sealed(g, s)) :
                 Works(c, Rebuilds(c) \o p.writes \o SealWrites(g, s)
                            \o q.writes, Ans(g))
          ELSE Works(c, Rebuilds(c) \o p.writes, Refused)
    BY <1>3
  <1>5. Sealable(g, s) => ~ Over(g.doc) /\ ~ g.turn.committed[s]
    BY DEF Sealable, Decides, Phase
  <1> HIDE DEF s
  <1>6. p.game.doc = g.doc
    <2>1. p.game \in Games
      BY <1>1, HeldGood, SettledGood DEF Progresses
    <2> QED
      BY <2>1 DEF Later, Games
  <1>7. CASE Over(doc)
    <2>1. p.game = Held(c) /\ p.writes = Removes /\ Held(c).doc = doc
      BY <1>1, <1>7, HeldOver, SettledOver
    <2>2. Works(c, Removes \o Removes, Refused)
      BY <1>1, <1>4, <1>5, <1>6, <1>7, <2>1, HeldOver
    <2> QED
      BY <1>1, <1>7, <2>2, HeldOver, Following, Plainly DEF DecidesScript
  <1>8. CASE ~ Over(doc)
    <2>1. /\ Rebuilds(c) \in Seq(GoodWrites)
          /\ Script(Seated, Disk(c), Rebuilds(c), Held(c))
          /\ Live(Seated, Held(c)) /\ Held(c) \in Games
      BY <1>1, <1>8, HeldLive DEF Live
    <2>2. PICK b \in Disks : /\ Script(Seated, Held(c), p.writes, b)
                             /\ ~ Over(p.game.doc) =>
                                  b = p.game /\ Live(Seated, p.game)
      BY <2>1, SettledScript DEF Settling
    <2>3. p.writes \in Seq(GoodWrites)
      BY <2>1, SettledGood DEF Progresses
    <2>4. /\ Script(Seated, Disk(c), Rebuilds(c) \o p.writes, b)
          /\ Rebuilds(c) \o p.writes \in Seq(GoodWrites)
      BY <2>1, <2>2, <2>3, Following, ScriptThen
    <2>5. CASE ~ Sealable(g, s)
      <3>1. Works(c, Rebuilds(c) \o p.writes, Refused)
        BY <1>4, <2>5
      <3> QED
        BY <2>4, <3>1, Plainly DEF DecidesScript
    <2>6. CASE Sealable(g, s)
      <3> DEFINE k == Sealed(g, s)
                 a == Ans(g)
                 before == Rebuilds(c) \o p.writes
      <3>1. PICK q \in Settled(k) :
              Works(c, before \o SealWrites(g, s) \o q.writes, a)
        BY <1>4, <2>6
      <3>2. ~ g.turn.committed[s] /\ b = p.game /\ Live(Seated, p.game)
        BY <1>5, <1>6, <2>2, <2>6
      <3>3. /\ Script(Seated, b, SealWrites(g, s), k)
            /\ SealWrites(g, s) \in Seq(GoodWrites)
            /\ Live(Seated, k) /\ k.turn.committed[s]
            /\ k.doc = p.game.doc
        BY <1>2, <3>2, SealStep
      <3> HIDE DEF k, before
      <3>4. PICK e \in Disks : Script(Seated, k, q.writes, e)
        BY <3>3, SettledScript DEF Settling
      <3>5. /\ q.writes \in Seq(GoodWrites)
            /\ k \in Games /\ ~ Over(k.doc) /\ k.turn.round = Round(k.doc)
            /\ k.doc = g.doc /\ Secret(k.doc) /\ Round(g.doc) \in Nat
            /\ DecidedBy(k, s) \in Lists
        <4>1. k \in Games /\ ~ Over(k.doc) /\ k.turn.round = Round(k.doc)
          BY <3>3 DEF Live
        <4>2. k.doc = g.doc
          BY <1>6, <3>3
        <4> QED
          BY <1>2, <4>1, <4>2, SettledGood, GameShape, DealtShape,
             DecidedByTyped DEF Progresses
      <3>6. /\ Script(Seated, Disk(c), before \o SealWrites(g, s), k)
            /\ before \o SealWrites(g, s) \in Seq(GoodWrites)
        BY <2>4, <3>3, Following, ScriptThen DEF before
      <3>7. /\ Script(Seated, Disk(c),
                      before \o SealWrites(g, s) \o q.writes, e)
            /\ before \o SealWrites(g, s) \o q.writes \in Seq(GoodWrites)
        BY <3>4, <3>5, <3>6, Following, ScriptThen
      <3>8. Pledged(k, s, Round(g.doc), DecidedBy(k, s))
        <4>1. DecidedBy(k, s) = k.turn.decisions[s]
          BY <1>2, <3>5 DEF DecidedBy, Secret
        <4> QED
          BY <3>3, <3>5, <4>1 DEF Pledged
      <3>9. Pledged(e, s, Round(g.doc), DecidedBy(k, s))
        <4>1. Stands(k, e)
          BY <3>4, <3>5, ScriptEnds
        <4> QED
          BY <1>2, <3>5, <3>8, <4>1 DEF Stands
      <3>10. Told(Seated, e, a) /\ a \in Answers
        BY <1>2, <3>5, <3>9 DEF Told, Answers, k
      <3> HIDE DEF a
      <3> QED
        BY <3>1, <3>7, <3>10 DEF DecidesScript
    <2> QED
      BY <2>5, <2>6
  <1> QED
    BY <1>7, <1>8

LEMMA RunsScript ==
  ASSUME PlayInv, NEW c \in Caller, Runs(c)
  PROVE  Locks(c) /\ DecidesScript(c)
PROOF
  <1>1. Locks(c)
    BY RunsGood DEF PlayInv
  <1> QED
    BY <1>1, NothingScript, DealScript, JoinScript, ShowScript, ActScript,
       UndoScript, CommitScript DEF Runs

-----------------------------------------------------------------------------
(* The steps.                                                              *)

(* Until the match is over one process at a time has a lock; after that    *)
(* nothing they do reaches the document.                                   *)
LEMMA OneAtWork ==
  ASSUME MatchInv, Alone, NEW c \in Caller, NEW o \in Caller, Mine(c), Mine(o)
  PROVE  /\ fd[c] = fd[o] => c = o
         /\ ~ Over(doc) => c = o
         /\ ~ Over(doc) => fd[c] = path /\ path \in Inode
PROOF
  <1>1. fd[c] \in Inode /\ fd[o] \in Inode
    BY DEF Mine, MatchInv, ProcOK
  <1>2. holder[fd[c]] = {c} /\ holder[fd[o]] = {o}
    BY <1>1 DEF Mine, MatchInv, LockOK
  <1>3. ~ Over(doc) => fd[c] = path /\ fd[o] = path
    BY DEF Alone, Mine
  <1> QED
    BY <1>1, <1>2, <1>3

(* What is pledged of a match that is over is in the document.             *)
LEMMA PledgedOver ==
  ASSUME NEW a, NEW b, a.doc = b.doc, Over(a.doc),
         NEW s, NEW r, NEW list, Pledged(a, s, r, list)
  PROVE  Pledged(b, s, r, list)
PROOF
  BY DEF Pledged

LEMMA OpensPlay ==
  ASSUME PlayInv, NEW c \in Caller, Opens(c),
         \A i \in Inode : c \notin holder[i],
         \A o \in Caller : op'[o].side \in Side => op'[o].side = seat[o],
         UNCHANGED <<doc, holder, writes, answer, seat, promised, deaths>>
  PROVE  Scripts' /\ Busy' /\ Alone' /\ Seats' /\ Pledges'
PROOF
  <1>0. MatchInv /\ Scripts /\ Busy /\ Alone /\ Seats /\ Pledges
    BY DEF PlayInv
  <1>1. NoInode \notin Inode
    BY DEF NoInode, Inode
  <1>2. PICK i \in Inode :
          /\ path' = i /\ fd' = [fd EXCEPT ![c] = i]
          /\ \/ i = path /\ file' = file
             \/ /\ path = NoInode /\ i \in Unused
                /\ file' = [file EXCEPT ![i] = NoTurn]
    <2>1. CASE path # NoInode
      <3>1. path \in Inode
        BY <1>0, <2>1 DEF MatchInv, DiskOK
      <3> QED
        BY <2>1, <3>1 DEF Opens
    <2>2. CASE path = NoInode
      BY <2>2 DEF Opens, Unused
    <2> QED
      BY <2>1, <2>2
  <1>3. /\ fd \in [Caller -> Inode \cup {NoInode}]
        /\ file \in [Inode -> Turns \cup {NoTurn}]
    BY <1>0 DEF MatchInv, ProcOK, DiskOK
  <1>4. /\ fd'[c] = i /\ \A o \in Caller \ {c} : fd'[o] = fd[o]
        /\ \A j \in Inode : file'[j] = file[j] \/ file'[j] = NoTurn
    BY <1>2, <1>3
  <1>5. ~ Mine(c) /\ ~ Mine(c)'
    BY <1>2, <1>3, <1>4, <1>1 DEF Mine
  <1>6. \A o \in Caller : Mine(o)' <=> Mine(o)
    BY <1>4, <1>5 DEF Mine
  <1>7. ASSUME NEW o \in Caller, Mine(o) PROVE Disk(o)' = Disk(o)
    <2>1. o # c /\ fd'[o] = fd[o] /\ fd[o] \in Inode
      BY <1>3, <1>4, <1>5, <1>7 DEF Mine
    <2>2. file'[fd[o]] = file[fd[o]]
      BY <1>2, <1>3, <2>1 DEF Unused
    <2> QED
      BY <2>1, <2>2 DEF Disk
  <1>8. Seated' = Seated
    BY DEF Seated
  <1>9. Scripts'
    <2> SUFFICES ASSUME NEW o \in Caller, Mine(o)' PROVE Scripted(o)'
      BY DEF Scripts
    <2>1. Scripted(o) /\ Disk(o)' = Disk(o)
      BY <1>0, <1>6, <1>7 DEF Scripts
    <2> QED
      BY <1>8, <2>1 DEF Scripted
  <1>10. Busy'
    BY <1>0, <1>6 DEF Busy
  <1>11. Alone'
    <2>1. ASSUME ~ Over(doc)
          PROVE  /\ \A o \in Caller : fd'[o] # NoInode => fd'[o] = path'
                 /\ \A j \in Inode : j # path' => file'[j] = NoTurn
      <3>1. CASE i = path /\ file' = file
        BY <1>0, <1>2, <1>4, <2>1, <3>1 DEF Alone
      <3>2. CASE path = NoInode /\ file' = [file EXCEPT ![i] = NoTurn]
        <4>1. \A o \in Caller : fd[o] = NoInode
          BY <1>0, <2>1, <3>2 DEF Alone
        <4>2. \A j \in Inode : file[j] = NoTurn
          BY <1>0, <1>1, <2>1, <3>2 DEF Alone
        <4> QED
          BY <1>2, <1>4, <4>1, <4>2
      <3> QED
        BY <1>2, <3>1, <3>2
    <2>2. ~ Dealt(doc) => \A j \in Inode : file'[j] = NoTurn
      BY <1>0, <1>4 DEF Alone
    <2> QED
      BY <2>1, <2>2 DEF Alone
  <1>12. Seats'
    <2>1. \A j \in Inode : Fair(Seated, file'[j])
      BY <1>0, <1>4 DEF Seats, Fair
    <2>2. OneSeatEach'
      BY <1>0 DEF Seats, OneSeatEach
    <2> QED
      BY <1>0, <1>8, <2>1, <2>2 DEF Seats
  <1>13. Table' = Table
    <2>1. CASE i = path /\ file' = file
      BY <1>2, <2>1 DEF Table
    <2>2. CASE path = NoInode /\ file' = [file EXCEPT ![i] = NoTurn]
      BY <1>1, <1>2, <1>3, <2>2 DEF Table
    <2> QED
      BY <1>2, <2>1, <2>2
  <1>14. Pledges'
    BY <1>0, <1>13 DEF Pledges
  <1> QED
    BY <1>9, <1>10, <1>11, <1>12, <1>14

LEMMA BeginsPlay ==
  ASSUME PlayInv, NEW c \in Caller, Start(c) \/ Polls(c)
  PROVE  Scripts' /\ Busy' /\ Alone' /\ Seats' /\ Pledges'
PROOF
  <1>0. MatchInv /\ Seats
    BY DEF PlayInv
  <1>1. CASE Start(c)
    <2>1. PICK x \in Operations(c) : op' = [op EXCEPT ![c] = x]
      BY <1>1 DEF Start
    <2>2. x.side \in Side => x.side = seat[c]
      BY <2>1 DEF Operations, Side
    <2>3. \A o \in Caller : op'[o].side \in Side => op'[o].side = seat[o]
      BY <1>0, <2>1, <2>2 DEF Seats, MatchInv, ProcOK
    <2>4. \A i \in Inode : c \notin holder[i]
      BY <1>0, <1>1 DEF Start, MatchInv, LockOK
    <2> QED
      BY <1>1, <2>3, <2>4, OpensPlay DEF Start
  <1>2. CASE Polls(c)
    <2>1. \A o \in Caller : op'[o].side \in Side => op'[o].side = seat[o]
      BY <1>0, <1>2 DEF Seats, Polls
    <2>2. \A i \in Inode : c \notin holder[i]
      <3>1. fd[c] = NoInode /\ NoInode \notin Inode
        BY <1>2 DEF Polls, NoInode, Inode
      <3> QED
        BY <1>0, <3>1 DEF MatchInv, LockOK
    <2> QED
      BY <1>2, <2>1, <2>2, OpensPlay DEF Polls
  <1> QED
    BY <1>1, <1>2

LEMMA RunsPlay ==
  ASSUME PlayInv, NEW c \in Caller, Runs(c)
  PROVE  Scripts' /\ Busy' /\ Alone' /\ Seats' /\ Pledges'
PROOF
  <1>0. MatchInv /\ Scripts /\ Busy /\ Alone /\ Seats /\ Pledges
    BY DEF PlayInv
  <1>1. Locks(c) /\ DecidesScript(c)
    BY RunsScript
  <1>2. PICK ws \in Seq(GoodWrites), a \in Answers, b \in Disks :
          /\ Works(c, ws, a)
          /\ Script(Seated, Disk(c), ws, b) /\ Told(Seated, b, a)
    BY <1>1 DEF DecidesScript
  <1>3. /\ fd[c] # NoInode /\ holder[fd[c]] = {} /\ fd[c] \in Inode
        /\ holder' = [holder EXCEPT ![fd[c]] = @ \cup {c}]
        /\ UNCHANGED <<doc, path, file, fd, op, seat, promised, deaths>>
    BY <1>0, <1>1 DEF Locks, Granted, diskVars, MatchInv, ProcOK
  <1>4. /\ writes' = [writes EXCEPT ![c] = ws]
        /\ answer' = [answer EXCEPT ![c] = a]
        /\ writes \in [Caller -> Seq(GoodWrites)]
        /\ answer \in [Caller -> Answers]
        /\ holder \in [Inode -> SUBSET Caller]
        /\ fd \in [Caller -> Inode \cup {NoInode}]
    BY <1>0, <1>2 DEF Works, MatchInv, ProcOK, LockOK
  <1>5. Mine(c)' /\ \A o \in Caller \ {c} : Mine(o)' <=> Mine(o)
    <2>1. Mine(c)'
      BY <1>3, <1>4 DEF Mine
    <2>2. ASSUME NEW o \in Caller \ {c} PROVE Mine(o)' <=> Mine(o)
      <3>1. CASE fd[o] = fd[c]
        BY <1>3, <1>4, <3>1 DEF Mine
      <3>2. CASE fd[o] # fd[c]
        BY <1>3, <1>4, <3>2 DEF Mine
      <3> QED
        BY <3>1, <3>2
    <2> QED
      BY <2>1, <2>2
  <1>6. Seated' = Seated /\ \A o \in Caller : Disk(o)' = Disk(o)
    BY <1>3 DEF Seated, Disk
  <1>7. Scripts'
    <2> SUFFICES ASSUME NEW o \in Caller, Mine(o)' PROVE Scripted(o)'
      BY DEF Scripts
    <2>1. CASE o = c
      <3>1. writes'[o] = ws /\ answer'[o] = a
        BY <1>4, <2>1
      <3> QED
        BY <1>2, <1>6, <2>1, <3>1 DEF Scripted
    <2>2. CASE o # c
      <3>1. writes'[o] = writes[o] /\ answer'[o] = answer[o]
        BY <1>4, <2>2
      <3>2. Scripted(o)
        BY <1>0, <1>5, <2>2 DEF Scripts
      <3> QED
        BY <1>6, <3>1, <3>2 DEF Scripted
    <2> QED
      BY <2>1, <2>2
  <1>8. Busy'
    BY <1>0, <1>4, <1>5 DEF Busy
  <1>9. Alone'
    BY <1>0, <1>3 DEF Alone
  <1>10. Seats'
    <2>1. OneSeatEach'
      BY <1>0, <1>3 DEF Seats, OneSeatEach
    <2> QED
      BY <1>0, <1>3, <1>6, <2>1 DEF Seats
  <1>11. Pledges'
    <2>1. Table' = Table
      BY <1>3 DEF Table
    <2> QED
      BY <1>0, <1>3, <2>1 DEF Pledges
  <1> QED
    BY <1>7, <1>8, <1>9, <1>10, <1>11

(* The write a process makes is the next of its script.                    *)
LEMMA MakesOne ==
  ASSUME PlayInv, NEW c \in Caller, WritesOne(c)
  PROVE  \E w \in GoodWrites, m \in Disks, b \in Disks :
           /\ w = Head(writes[c])
           /\ OneWrite(Seated, w, Disk(c), m)
           /\ Script(Seated, m, Tail(writes[c]), b)
           /\ Told(Seated, b, answer[c])
           /\ doc' = m.doc /\ file' = [file EXCEPT ![fd[c]] = m.turn]
           /\ path' = IF w.kind = "remove" THEN NoInode ELSE path
PROOF
  <1>0. MatchInv /\ Scripts
    BY DEF PlayInv
  <1>1. Mine(c) /\ writes[c] # <<>> /\ writes[c] \in Seq(GoodWrites)
    BY <1>0 DEF WritesOne, WriteDocument, WriteTurn, RemoveTurn, Makes,
                MatchInv, ProcOK
  <1>2. PICK b : /\ Script(Seated, Disk(c), writes[c], b)
                 /\ Told(Seated, b, answer[c])
    BY <1>0, <1>1 DEF Scripts, Scripted
  <1>3. b \in Disks
    BY <1>1, <1>2, ScriptEnds
  <1>4. PICK m \in Disks : /\ OneWrite(Seated, Head(writes[c]), Disk(c), m)
                           /\ Script(Seated, m, Tail(writes[c]), b)
    BY <1>1, <1>2, ScriptTail
  <1> DEFINE w == Head(writes[c])
  <1>5. w \in GoodWrites
    BY <1>1, HeadTailProperties
  <1>6. /\ Disk(c).doc = doc /\ Disk(c).turn = file[fd[c]]
        /\ fd[c] \in Inode /\ file \in [Inode -> Turns \cup {NoTurn}]
    BY <1>0, <1>1, DiskTyped DEF Mine, MatchInv, DiskOK
  <1>7. file = [file EXCEPT ![fd[c]] = file[fd[c]]]
    BY <1>6
  <1>8. CASE WriteDocument(c)
    <2>1. w.kind = "doc" /\ doc' = w.doc /\ path' = path /\ file' = file
      BY <1>8 DEF WriteDocument, Makes
    <2>2. m.doc = w.doc /\ m.turn = file[fd[c]]
      BY <1>4, <1>6, <2>1 DEF OneWrite, Game
    <2> QED
      BY <1>2, <1>4, <1>5, <1>7, <1>3, <2>1, <2>2
  <1>9. CASE WriteTurn(c)
    <2>1. /\ w.kind = "turn" /\ doc' = doc /\ path' = path
          /\ file' = [file EXCEPT ![fd[c]] = w.turn]
      BY <1>9 DEF WriteTurn, Makes
    <2>2. m.doc = doc /\ m.turn = w.turn
      BY <1>4, <1>6, <2>1 DEF OneWrite, Game
    <2> QED
      BY <1>2, <1>4, <1>5, <1>3, <2>1, <2>2
  <1>10. CASE RemoveTurn(c)
    <2>1. w.kind = "remove" /\ doc' = doc /\ path' = NoInode /\ file' = file
      BY <1>10 DEF RemoveTurn, Makes
    <2>2. m = Disk(c)
      BY <1>4, <2>1 DEF OneWrite
    <2> QED
      BY <1>2, <1>4, <1>5, <1>6, <1>7, <1>3, <2>1, <2>2
  <1> QED
    BY <1>8, <1>9, <1>10 DEF WritesOne

LEMMA WritesPlay ==
  ASSUME PlayInv, NEW c \in Caller, WritesOne(c)
  PROVE  /\ Scripts' /\ Busy' /\ Alone' /\ Seats' /\ Pledges'
         /\ doc' = doc \/ Settles
PROOF
  <1>0. MatchInv /\ Scripts /\ Busy /\ Alone /\ Seats /\ Pledges
    BY DEF PlayInv
  <1>1. /\ Mine(c) /\ writes' = [writes EXCEPT ![c] = Tail(@)]
        /\ UNCHANGED <<holder, fd, op, answer, seat, promised, deaths>>
    BY DEF WritesOne, WriteDocument, WriteTurn, RemoveTurn, Makes
  <1>2. PICK w \in GoodWrites, m \in Disks, b \in Disks :
          /\ OneWrite(Seated, w, Disk(c), m)
          /\ Script(Seated, m, Tail(writes[c]), b)
          /\ Told(Seated, b, answer[c])
          /\ doc' = m.doc /\ file' = [file EXCEPT ![fd[c]] = m.turn]
          /\ path' = IF w.kind = "remove" THEN NoInode ELSE path
    BY MakesOne
  <1>3. /\ Disk(c).doc = doc /\ Disk(c).turn = file[fd[c]]
        /\ fd[c] \in Inode /\ file \in [Inode -> Turns \cup {NoTurn}]
        /\ writes \in [Caller -> Seq(GoodWrites)]
    BY <1>0, <1>1, DiskTyped DEF Mine, MatchInv, DiskOK, ProcOK
  <1>4. /\ file'[fd[c]] = m.turn
        /\ \A i \in Inode \ {fd[c]} : file'[i] = file[i]
    BY <1>2, <1>3
  <1>5. m = Game(m.doc, m.turn)
    BY DEF Disks, Game
  <1>6. Stands(Disk(c), m) /\ (Over(doc) => doc' = doc)
    BY <1>2, <1>3 DEF OneWrite, Stands
  <1>7. /\ Follows(doc, doc') /\ (doc' = doc \/ Ended(doc'))
        /\ (~ Over(doc) => path' = path)
        /\ \/ m.turn = file[fd[c]]
           \/ Dealt(doc) /\ doc' = doc /\ Fair(Seated, m.turn)
    <2>1. CASE /\ w.kind = "doc" /\ m = Game(w.doc, Disk(c).turn)
               /\ Follows(Disk(c).doc, w.doc) /\ Ended(w.doc)
      BY <1>2, <1>3, <2>1 DEF Game
    <2>2. CASE /\ w.kind = "turn" /\ m = Game(Disk(c).doc, w.turn)
               /\ Dealt(Disk(c).doc) /\ Fair(Seated, w.turn)
      BY <1>2, <1>3, <2>2 DEF Game, Follows
    <2>3. CASE w.kind = "remove" /\ m = Disk(c) /\ Over(Disk(c).doc)
      BY <1>2, <1>3, <2>3 DEF Follows
    <2> QED
      BY <1>2, <2>1, <2>2, <2>3 DEF OneWrite
  <1>8. Dealt(doc) => Dealt(doc')
    <2> SUFFICES ASSUME Dealt(doc), doc' # doc PROVE Dealt(doc')
      OBVIOUS
    <2>1. Len(doc'.rounds) \in Len(doc.rounds)..Len(doc.rounds) + 1
      BY <1>7 DEF Follows
    <2>2. Len(doc.rounds) \in Nat \ {0}
      BY <1>0, DealtShape DEF MatchInv, DiskOK, DealtDocs, Undealt
    <2>3. Len(doc'.rounds) # 0
      BY <2>1, <2>2
    <2> QED
      BY <2>3 DEF Dealt
  <1>9. Seated' = Seated /\ \A o \in Caller : Mine(o)' <=> Mine(o)
    BY <1>1 DEF Seated, Mine
  <1>10. Disk(c)' = m
    BY <1>1, <1>2, <1>4, <1>5 DEF Disk
  <1>11. ASSUME NEW o \in Caller \ {c}, Mine(o)
         PROVE  Over(doc) /\ Disk(o)' = Disk(o)
    <2>1. fd[o] # fd[c] /\ Over(doc) /\ fd[o] \in Inode
      BY <1>0, <1>1, <1>11, OneAtWork DEF Mine, MatchInv, ProcOK
    <2> QED
      BY <1>1, <1>4, <1>6, <2>1 DEF Disk
  <1>12. Scripts'
    <2> SUFFICES ASSUME NEW o \in Caller, Mine(o)' PROVE Scripted(o)'
      BY DEF Scripts
    <2>1. CASE o = c
      <3>1. writes'[o] = Tail(writes[c]) /\ answer'[o] = answer[c]
        BY <1>1, <1>3, <2>1
      <3> QED
        BY <1>2, <1>9, <1>10, <2>1, <3>1 DEF Scripted
    <2>2. CASE o # c
      <3>1. writes'[o] = writes[o] /\ answer'[o] = answer[o]
        BY <1>1, <1>3, <2>2
      <3>2. Scripted(o) /\ Disk(o)' = Disk(o)
        BY <1>0, <1>9, <1>11, <2>2 DEF Scripts
      <3> QED
        BY <1>9, <3>1, <3>2 DEF Scripted
    <2> QED
      BY <2>1, <2>2
  <1>13. Busy'
    <2> SUFFICES ASSUME NEW o \in Caller,
                        writes'[o] # <<>> \/ answer'[o] # Refused
                 PROVE  Mine(o)'
      BY DEF Busy
    <2>1. CASE o = c
      BY <1>1, <1>9, <2>1
    <2>2. CASE o # c
      <3>1. writes'[o] = writes[o] /\ answer'[o] = answer[o]
        BY <1>1, <1>3, <2>2
      <3> QED
        BY <1>0, <1>9, <3>1 DEF Busy
    <2> QED
      BY <2>1, <2>2
  <1>14. Alone'
    <2>1. ASSUME ~ Over(doc')
          PROVE  /\ \A o \in Caller : fd'[o] # NoInode => fd'[o] = path'
                 /\ \A j \in Inode : j # path' => file'[j] = NoTurn
      <3>1. ~ Over(doc)
        BY <1>6, <2>1
      <3>2. path' = path /\ fd[c] = path
        BY <1>0, <1>1, <1>7, <3>1, OneAtWork
      <3> QED
        BY <1>0, <1>1, <1>4, <3>1, <3>2 DEF Alone
    <2>2. ASSUME ~ Dealt(doc') PROVE \A j \in Inode : file'[j] = NoTurn
      <3>1. ~ Dealt(doc)
        BY <1>8, <2>2
      <3>2. m.turn = file[fd[c]]
        BY <1>7, <3>1
      <3> QED
        BY <1>0, <1>3, <1>4, <3>1, <3>2 DEF Alone
    <2> QED
      BY <2>1, <2>2 DEF Alone
  <1>15. Seats'
    <2>1. \A i \in Inode : Fair(Seated, file'[i])
      BY <1>0, <1>3, <1>4, <1>7 DEF Seats
    <2>2. OneSeatEach'
      BY <1>0, <1>1 DEF Seats, OneSeatEach
    <2>3. ~ Dealt(doc') => Seated = {}
      BY <1>0, <1>8 DEF Seats
    <2>4. Ended(doc')
      BY <1>0, <1>7 DEF Seats
    <2> QED
      BY <1>0, <1>1, <1>9, <2>1, <2>2, <2>3, <2>4 DEF Seats
  <1>16. Pledges'
    <2> SUFFICES ASSUME NEW s \in Side, promised'[s] # NoPromise
                 PROVE  Pledged(Table', s, promised'[s].round,
                                promised'[s].decisions)
      BY DEF Pledges
    <2>1. promised' = promised
      BY <1>1
    <2>2. /\ promised[s].round \in Nat /\ promised[s].decisions \in Lists
          /\ Pledged(Table, s, promised[s].round, promised[s].decisions)
      BY <1>0, <2>1 DEF Pledges, MatchInv, CallersOK, Promises
    <2>3. CASE ~ Over(doc)
      <3>1. fd[c] = path /\ path \in Inode /\ path' = path
        BY <1>0, <1>1, <1>7, <2>3, OneAtWork
      <3>2. path # NoInode
        BY <3>1 DEF NoInode, Inode
      <3>3. Table = Disk(c) /\ Table' = m
        BY <1>2, <1>4, <1>5, <3>1, <3>2 DEF Table, Disk
      <3> QED
        BY <1>6, <2>1, <2>2, <3>3 DEF Stands
    <2>4. CASE Over(doc)
      <3>1. Table.doc = doc /\ Table'.doc = doc
        BY <1>6, <2>4 DEF Table, Game
      <3> QED
        BY <2>1, <2>2, <2>4, <3>1, PledgedOver
    <2> QED
      BY <2>3, <2>4
  <1>17. doc' = doc \/ Settles
    BY <1>7 DEF Follows, Settles
  <1> QED
    BY <1>12, <1>13, <1>14, <1>15, <1>16, <1>17

(* A process that lets go of the file leaves the others' work.             *)
LEMMA LeavesPlay ==
  ASSUME PlayInv, NEW c \in Caller,
         NEW held \in [Inode -> Turns \cup {NoTurn}], Closes(c, held),
         \A i \in Inode : held[i] \in {file[i], NoTurn},
         \A i \in Inode : i # fd[c] \/ ~ Mine(c) => held[i] = file[i],
         writes' = [writes EXCEPT ![c] = <<>>],
         answer' = [answer EXCEPT ![c] = Refused],
         \E o \in {op[c], NoOp} : op' = [op EXCEPT ![c] = o]
  PROVE  /\ Busy' /\ Alone' /\ doc' = doc /\ path' = path
         /\ \A i \in Inode : file'[i] \in {file[i], NoTurn}
         /\ path \in Inode => file'[path] = held[path]
         /\ seat' = seat => Scripts' /\ Seats'
         /\ \A o \in Caller : Mine(o)' => o # c /\ Mine(o)
PROOF
  <1>0. MatchInv /\ Scripts /\ Busy /\ Alone /\ Seats
    BY DEF PlayInv
  <1>1. /\ fd \in [Caller -> Inode \cup {NoInode}] /\ NoInode \notin Inode
        /\ holder \in [Inode -> SUBSET Caller]
        /\ writes \in [Caller -> Seq(GoodWrites)]
        /\ answer \in [Caller -> Answers]
        /\ op \in [Caller -> Ops \cup {NoOp}]
    BY <1>0 DEF MatchInv, ProcOK, LockOK, NoInode, Inode
  <1>2. /\ doc' = doc /\ path' = path
        /\ fd'[c] = NoInode /\ \A o \in Caller \ {c} : fd'[o] = fd[o]
        /\ \A i \in Inode : holder'[i] = holder[i] \ {c}
        /\ \A i \in Inode :
             \/ file'[i] = held[i]
             \/ /\ file'[i] = NoTurn /\ i # path
                /\ \A o \in Caller \ {c} : fd[o] # i
    BY <1>1 DEF Closes, Released
  <1>3. /\ ~ Mine(c)'
        /\ \A o \in Caller \ {c} : Mine(o)' <=> Mine(o)
    BY <1>1, <1>2 DEF Mine
  <1>4. \A i \in Inode : file'[i] \in {file[i], NoTurn}
    BY <1>2
  <1>5. ASSUME NEW o \in Caller \ {c}, Mine(o) PROVE Disk(o)' = Disk(o)
    <2>1. fd[o] \in Inode /\ (Mine(c) => fd[c] # fd[o])
      BY <1>0, <1>1, <1>5, OneAtWork DEF Mine
    <2>2. held[fd[o]] = file[fd[o]]
      BY <2>1
    <2>3. file'[fd[o]] = file[fd[o]] /\ fd'[o] = fd[o]
      BY <1>2, <2>1, <2>2
    <2> QED
      BY <1>2, <2>3 DEF Disk
  <1>6. \A o \in Caller \ {c} :
          writes'[o] = writes[o] /\ answer'[o] = answer[o] /\ op'[o] = op[o]
    BY <1>1
  <1>7. writes'[c] = <<>> /\ answer'[c] = Refused /\ op'[c] \in {op[c], NoOp}
    BY <1>1
  <1>8. Busy'
    <2> SUFFICES ASSUME NEW o \in Caller,
                        writes'[o] # <<>> \/ answer'[o] # Refused
                 PROVE  Mine(o)'
      BY DEF Busy
    <2>1. o # c
      BY <1>7
    <2> QED
      BY <1>0, <1>3, <1>6, <2>1 DEF Busy
  <1>9. Alone'
    BY <1>0, <1>1, <1>2, <1>4 DEF Alone
  <1>10. path \in Inode => file'[path] = held[path]
    BY <1>2
  <1>11. ASSUME seat' = seat PROVE Scripts' /\ Seats'
    <2>1. Seated' = Seated
      BY <1>11 DEF Seated
    <2>2. Scripts'
      <3> SUFFICES ASSUME NEW o \in Caller, Mine(o)' PROVE Scripted(o)'
        BY DEF Scripts
      <3>1. o \in Caller \ {c} /\ Mine(o)
        BY <1>3
      <3>2. Scripted(o) /\ Disk(o)' = Disk(o)
        BY <1>0, <1>5, <3>1 DEF Scripts
      <3> QED
        BY <1>6, <2>1, <3>1, <3>2 DEF Scripted
    <2>3. \A i \in Inode : Fair(Seated, file'[i])
      BY <1>0, <1>4 DEF Seats, Fair
    <2>4. OneSeatEach'
      BY <1>0, <1>11 DEF Seats, OneSeatEach
    <2>5. \A o \in Caller : op'[o].side \in Side => op'[o].side = seat'[o]
      <3> TAKE o \in Caller
      <3>1. NoOp.side \notin Side
        BY DEF NoOp, Side
      <3> QED
        BY <1>0, <1>6, <1>7, <1>11, <3>1 DEF Seats
    <2> QED
      BY <1>0, <1>2, <2>1, <2>2, <2>3, <2>4, <2>5 DEF Seats
  <1> QED
    BY <1>2, <1>3, <1>4, <1>8, <1>9, <1>10, <1>11

LEMMA AnswerPlay ==
  ASSUME PlayInv, NEW c \in Caller, Answer(c)
  PROVE  Scripts' /\ Busy' /\ Alone' /\ Seats' /\ Pledges' /\ doc' = doc
PROOF
  <1>0. MatchInv /\ Scripts /\ Busy /\ Alone /\ Seats /\ Pledges
    BY DEF PlayInv
  <1> DEFINE a == answer[c]
  <1>1. /\ Mine(c) /\ writes[c] = <<>> /\ Closes(c, file)
        /\ op' = [op EXCEPT ![c] = IF a = Again THEN @ ELSE NoOp]
        /\ answer' = [answer EXCEPT ![c] = Refused]
        /\ writes' = writes
    BY DEF Answer
  <1>2. /\ fd[c] \in Inode /\ Disk(c).doc = doc
        /\ Disk(c).turn = file[fd[c]]
        /\ file \in [Inode -> Turns \cup {NoTurn}]
        /\ writes \in [Caller -> Seq(GoodWrites)]
        /\ a \in Answers /\ seat \in [Caller -> Side \cup {"none"}]
        /\ op \in [Caller -> Ops \cup {NoOp}]
    BY <1>0, <1>1, DiskTyped DEF Mine, MatchInv, DiskOK, ProcOK, CallersOK
  <1>3. writes' = [writes EXCEPT ![c] = <<>>]
    BY <1>1, <1>2
  <1>4. Told(Seated, Disk(c), a)
    <2>1. PICK b : Script(Seated, Disk(c), <<>>, b) /\ Told(Seated, b, a)
      BY <1>0, <1>1 DEF Scripts, Scripted
    <2>2. b = Disk(c)
      BY <2>1, ScriptEnds, Following
    <2> QED
      BY <2>1, <2>2
  <1>5. /\ Busy' /\ Alone' /\ doc' = doc /\ path' = path
        /\ \A i \in Inode : file'[i] \in {file[i], NoTurn}
        /\ path \in Inode => file'[path] = file[path]
        /\ seat' = seat => Scripts' /\ Seats'
        /\ \A o \in Caller : Mine(o)' => o # c /\ Mine(o)
    <2>1. \E o \in {op[c], NoOp} : op' = [op EXCEPT ![c] = o]
      BY <1>1
    <2>2. /\ \A i \in Inode : file[i] \in {file[i], NoTurn}
          /\ \A i \in Inode : i # fd[c] \/ ~ Mine(c) => file[i] = file[i]
      OBVIOUS
    <2> QED
      BY <1>1, <1>2, <1>3, <2>1, <2>2, LeavesPlay
  <1> HIDE DEF a
  <1>6. ASSUME a.kind = "seat" PROVE Scripts' /\ Seats'
    <2>1. /\ ~ Over(doc) /\ Dealt(doc) /\ a.side \notin Seated
          /\ file[fd[c]].given[a.side]
      BY <1>2, <1>4, <1>6 DEF Told
    <2>2. a.side \in Side
      BY <1>2, <1>6 DEF Answers, Refused, Shown, Again
    <2>3. seat' = [seat EXCEPT ![c] = a.side]
      BY <1>6 DEF Answer, a
    <2>4. seat'[c] = a.side /\ \A o \in Caller \ {c} : seat'[o] = seat[o]
      BY <1>2, <2>3
    <2>5. Seated' \subseteq Seated \cup {a.side}
      BY <2>4 DEF Seated
    <2>6. fd[c] = path /\ path \in Inode
      BY <1>0, <1>1, <2>1, OneAtWork
    <2>7. Scripts'
      <3>1. \A o \in Caller : ~ Mine(o)'
        BY <1>0, <1>1, <1>5, <2>1, OneAtWork
      <3> QED
        BY <3>1 DEF Scripts
    <2>8. ASSUME NEW i \in Inode PROVE Fair(Seated', file'[i])
      <3>1. CASE i = path
        <4>1. file'[i] = file[path] /\ Fair(Seated, file[path])
          BY <1>0, <1>5, <2>6, <3>1 DEF Seats
        <4>2. \A s \in Seated \cup {a.side} :
                file[path] # NoTurn => file[path].given[s]
          BY <2>1, <2>6, <4>1 DEF Fair
        <4> QED
          BY <2>5, <4>1, <4>2 DEF Fair
      <3>2. CASE i # path
        <4>1. file'[i] = NoTurn
          BY <1>0, <1>5, <2>1, <3>2 DEF Alone
        <4> QED
          BY <4>1 DEF Fair
      <3> QED
        BY <3>1, <3>2
    <2>9. OneSeatEach'
      <3> SUFFICES ASSUME NEW x \in Caller, NEW y \in Caller,
                          seat'[x] \in Side, seat'[x] = seat'[y]
                   PROVE  x = y
        BY DEF OneSeatEach
      <3>1. \A o \in Caller \ {c} : seat[o] # a.side
        BY <2>1, <2>2 DEF Seated
      <3> QED
        BY <1>0, <2>4, <3>1 DEF Seats, OneSeatEach
    <2>10. \A o \in Caller : op'[o].side \in Side => op'[o].side = seat'[o]
      <3> TAKE o \in Caller
      <3>1. CASE o = c
        <4>1. a # Again
          BY <1>6 DEF Again
        <4>2. op'[c] = NoOp
          BY <1>1, <1>2, <4>1 DEF a
        <4> QED
          BY <3>1, <4>2 DEF NoOp, Side
      <3>2. CASE o # c
        BY <1>0, <1>1, <1>2, <2>4, <3>2 DEF Seats
      <3> QED
        BY <3>1, <3>2
    <2>11. Seats'
      BY <1>0, <1>5, <2>1, <2>8, <2>9, <2>10 DEF Seats
    <2> QED
      BY <2>7, <2>11
  <1>7. a.kind # "seat" => Scripts' /\ Seats'
    BY <1>5 DEF Answer, a
  <1>8. Table' = Table
    BY <1>0, <1>5 DEF Table, MatchInv, DiskOK
  <1>9. Pledges'
    <2> SUFFICES ASSUME NEW s \in Side, promised'[s] # NoPromise
                 PROVE  Pledged(Table, s, promised'[s].round,
                                promised'[s].decisions)
      BY <1>8 DEF Pledges
    <2>1. CASE promised'[s] = promised[s]
      BY <1>0, <2>1 DEF Pledges
    <2>2. CASE promised'[s] # promised[s]
      <3>1. /\ a.kind = "sealed" /\ a.side = s
            /\ promised'[s] = [round |-> a.round, decisions |-> a.decisions]
        BY <1>0, <2>2 DEF Answer, a, MatchInv, CallersOK
      <3>2. Pledged(Disk(c), s, a.round, a.decisions)
        BY <1>4, <3>1 DEF Told
      <3>3. Pledged(Table, s, a.round, a.decisions)
        <4>1. CASE ~ Over(doc)
          <5>1. fd[c] = path /\ path \in Inode /\ path # NoInode
            BY <1>0, <1>1, <4>1, OneAtWork DEF NoInode, Inode
          <5>2. Table = Disk(c)
            BY <5>1 DEF Table, Disk
          <5> QED
            BY <3>2, <5>2
        <4>2. CASE Over(doc)
          <5>1. Table.doc = doc
            BY DEF Table, Game
          <5> QED
            BY <1>2, <3>2, <4>2, <5>1, PledgedOver
        <4> QED
          BY <4>1, <4>2
      <3> QED
        BY <3>1, <3>3
    <2> QED
      BY <2>1, <2>2
  <1> QED
    BY <1>5, <1>6, <1>7, <1>9

LEMMA DeathsPlay ==
  ASSUME PlayInv, NEW c \in Caller, Die(c) \/ DieWriting(c)
  PROVE  Scripts' /\ Busy' /\ Alone' /\ Seats' /\ Pledges' /\ doc' = doc
PROOF
  <1>0. MatchInv /\ Pledges
    BY DEF PlayInv
  <1>1. file \in [Inode -> Turns \cup {NoTurn}]
    BY <1>0 DEF MatchInv, DiskOK
  <1>2. CASE Die(c)
    <2>1. /\ Closes(c, file) /\ seat' = seat /\ promised' = promised
          /\ writes' = [writes EXCEPT ![c] = <<>>]
          /\ answer' = [answer EXCEPT ![c] = Refused]
          /\ op' = [op EXCEPT ![c] = NoOp]
      BY <1>2 DEF Die, Dies
    <2>2. /\ \A i \in Inode : file[i] \in {file[i], NoTurn}
          /\ \A i \in Inode : i # fd[c] \/ ~ Mine(c) => file[i] = file[i]
      OBVIOUS
    <2>3. /\ Scripts' /\ Busy' /\ Alone' /\ Seats'
          /\ doc' = doc /\ path' = path
          /\ path \in Inode => file'[path] = file[path]
      BY <1>1, <2>1, <2>2, LeavesPlay
    <2>4. Table' = Table
      BY <1>0, <2>3 DEF Table, MatchInv, DiskOK
    <2> QED
      BY <1>0, <2>1, <2>3, <2>4 DEF Pledges
  <1>3. CASE DieWriting(c)
    <2> DEFINE held == [file EXCEPT ![fd[c]] = NoTurn]
    <2>1. /\ Mine(c) /\ Closes(c, held) /\ seat' = seat
          /\ writes' = [writes EXCEPT ![c] = <<>>]
          /\ answer' = [answer EXCEPT ![c] = Refused]
          /\ op' = [op EXCEPT ![c] = NoOp]
          /\ promised' = [s \in Side |->
                            IF promised[s].round >= Round(doc)
                            THEN NoPromise ELSE promised[s]]
      BY <1>3 DEF DieWriting, Dies
    <2>2. /\ held \in [Inode -> Turns \cup {NoTurn}]
          /\ \A i \in Inode : held[i] \in {file[i], NoTurn}
          /\ \A i \in Inode : i # fd[c] \/ ~ Mine(c) => held[i] = file[i]
      BY <1>1, <2>1
    <2> HIDE DEF held
    <2>3. Scripts' /\ Busy' /\ Alone' /\ Seats' /\ doc' = doc
      BY <2>1, <2>2, LeavesPlay
    <2>4. Pledges'
      <3> SUFFICES ASSUME NEW s \in Side, promised'[s] # NoPromise
                   PROVE  Pledged(Table', s, promised'[s].round,
                                  promised'[s].decisions)
        BY DEF Pledges
      <3>1. /\ promised'[s] = promised[s] /\ promised[s] # NoPromise
            /\ ~ promised[s].round >= Round(doc)
        BY <2>1
      <3>2. Pledged(Table, s, promised[s].round, promised[s].decisions)
        BY <1>0, <3>1 DEF Pledges
      <3>3. Table.doc = doc /\ Table'.doc = doc
        BY <2>3 DEF Table, Game
      <3>4. promised[s].round \in Nat /\ Round(doc) \in Int
        <4>1. doc.rounds \in Seq(Half)
          BY <1>0 DEF MatchInv, DiskOK, DealtDocs, Undealt, Documents, Half
        <4>2. Round(doc) \in Int
          BY <4>1, LenProperties DEF Round
        <4> QED
          BY <1>0, <3>1, <4>2 DEF MatchInv, CallersOK, Promises
      <3>5. promised[s].round < Round(doc)
        BY <3>1, <3>4
      <3> QED
        BY <3>1, <3>2, <3>3, <3>4, <3>5 DEF Pledged
    <2> QED
      BY <2>3, <2>4
  <1> QED
    BY <1>2, <1>3

LEMMA TickPlay ==
  ASSUME PlayInv, Tick
  PROVE  Scripts' /\ Busy' /\ Alone' /\ Seats' /\ Pledges' /\ doc' = doc
PROOF
  <1>0. MatchInv /\ Scripts /\ Busy /\ Alone /\ Seats /\ Pledges
    BY DEF PlayInv
  <1>1. /\ file' = [i \in Inode |-> Older(file[i])]
        /\ UNCHANGED <<doc, path, holder, fd, op, answer, seat, promised>>
    BY DEF Tick
  <1>2. \A c \in Caller : writes'[c] = AgedList(writes[c])
    BY DEF Tick, AgedList, AgedWrite
  <1>3. /\ file \in [Inode -> Turns \cup {NoTurn}]
        /\ writes \in [Caller -> Seq(GoodWrites)]
        /\ \A i \in Inode : file'[i] = Older(file[i])
    BY <1>0, <1>1 DEF MatchInv, DiskOK, ProcOK
  <1>4. Seated' = Seated /\ \A c \in Caller : Mine(c)' <=> Mine(c)
    BY <1>1 DEF Seated, Mine
  <1>5. Scripts'
    <2> SUFFICES ASSUME NEW c \in Caller, Mine(c) PROVE Scripted(c)'
      BY <1>4 DEF Scripts
    <2>1. PICK b : /\ Script(Seated, Disk(c), writes[c], b)
                   /\ Told(Seated, b, answer[c])
      BY <1>0 DEF Scripts, Scripted
    <2>2. fd[c] \in Inode /\ Disk(c).turn = file[fd[c]] /\ Disk(c).doc = doc
      BY <1>0, DiskTyped DEF Mine
    <2>3. Disk(c)' = Aged(Disk(c))
      BY <1>1, <1>3, <2>2 DEF Disk, Aged
    <2>4. Script(Seated, Aged(Disk(c)), AgedList(writes[c]), Aged(b))
      BY <1>3, <2>1, ScriptAged
    <2>5. Told(Seated, Aged(b), answer[c])
      <3>1. b \in Disks
        BY <1>3, <2>1, ScriptEnds
      <3>2. Aged(b).doc = b.doc /\ Aged(b).turn = Older(b.turn)
        BY DEF Aged, Game
      <3>3. b.turn \in Turns \cup {NoTurn}
        BY <3>1 DEF Disks
      <3>4. Older(b.turn).given = b.turn.given
        <4>1. CASE b.turn \in Turns
          BY <4>1, OlderKeeps
        <4>2. CASE b.turn = NoTurn
          BY <3>3, <4>2, OlderKeeps
        <4> QED
          BY <3>3, <4>1, <4>2
      <3>5. answer[c] \in Answers
        BY <1>0 DEF MatchInv, ProcOK
      <3>6. answer[c].kind = "sealed" =>
              Pledged(Aged(b), answer[c].side, answer[c].round,
                      answer[c].decisions)
        <4> SUFFICES ASSUME answer[c].kind = "sealed"
                     PROVE  Pledged(Aged(b), answer[c].side, answer[c].round,
                                    answer[c].decisions)
          OBVIOUS
        <4>1. answer[c].side \in Side /\ answer[c].round \in Nat
          BY <3>5 DEF Answers, Refused, Shown, Again
        <4>2. Pledged(b, answer[c].side, answer[c].round, answer[c].decisions)
          BY <2>1 DEF Told
        <4> QED
          BY <3>1, <4>1, <4>2, AgedPledged
      <3> QED
        BY <2>1, <3>2, <3>4, <3>6 DEF Told
    <2> QED
      BY <1>1, <1>2, <1>4, <2>3, <2>4, <2>5 DEF Scripted
  <1>6. Busy'
    <2> SUFFICES ASSUME NEW c \in Caller,
                        writes'[c] # <<>> \/ answer'[c] # Refused
                 PROVE  Mine(c)
      BY <1>4 DEF Busy
    <2>1. writes[c] = <<>> => writes'[c] = <<>>
      <3>1. AgedList(<<>>) = <<>>
        BY DEF AgedList
      <3> QED
        BY <1>2, <3>1
    <2> QED
      BY <1>0, <1>1, <2>1 DEF Busy
  <1>7. Alone'
    BY <1>0, <1>1, <1>3, OlderKeeps DEF Alone
  <1>8. Seats'
    <2>1. \A i \in Inode : Fair(Seated, file'[i])
      BY <1>0, <1>3, OlderKeeps DEF Seats
    <2>2. OneSeatEach'
      BY <1>0, <1>1 DEF Seats, OneSeatEach
    <2> QED
      BY <1>0, <1>1, <1>4, <2>1, <2>2 DEF Seats
  <1>9. Pledges'
    <2> SUFFICES ASSUME NEW s \in Side, promised[s] # NoPromise
                 PROVE  Pledged(Table', s, promised[s].round,
                                promised[s].decisions)
      BY <1>1 DEF Pledges
    <2>1. promised[s].round \in Nat
      BY <1>0 DEF MatchInv, CallersOK, Promises
    <2>2. Pledged(Table, s, promised[s].round, promised[s].decisions)
      BY <1>0 DEF Pledges
    <2>3. path \in Inode \cup {NoInode} /\ doc \in DealtDocs \cup Undealt
      BY <1>0 DEF MatchInv, DiskOK
    <2>4. Table \in Disks
      BY <1>3, <2>3, DiskGames DEF Table
    <2>5. Table' = Aged(Table)
      <3>1. CASE path = NoInode
        <4>1. Older(NoTurn) = NoTurn
          BY OlderKeeps
        <4> QED
          BY <1>1, <3>1, <4>1 DEF Table, Aged, Game
      <3>2. CASE path # NoInode
        BY <1>1, <1>3, <2>3, <3>2 DEF Table, Aged, Game
      <3> QED
        BY <3>1, <3>2
    <2> QED
      BY <2>1, <2>2, <2>4, <2>5, AgedPledged
  <1> QED
    BY <1>1, <1>5, <1>6, <1>7, <1>8, <1>9

LEMMA PlayStep ==
  PlayInv /\ [MatchNext]_matchVars => PlayInv' /\ (doc' = doc \/ Settles)
PROOF
  <1> SUFFICES ASSUME PlayInv, [MatchNext]_matchVars
               PROVE  PlayInv' /\ (doc' = doc \/ Settles)
    OBVIOUS
  <1>1. MatchInv'
    BY MatchStep DEF PlayInv
  <1>2. CASE UNCHANGED matchVars
    <2>1. UNCHANGED <<doc, path, file, holder, fd, op, writes, answer, seat,
                      promised, deaths>>
      BY <1>2 DEF matchVars, diskVars, procVars
    <2>2. Scripts'
      BY <2>1 DEF PlayInv, Scripts, Scripted, Mine, Disk, Seated
    <2>3. Busy' /\ Alone'
      BY <2>1 DEF PlayInv, Busy, Alone, Mine
    <2>4. Seats' /\ Pledges'
      BY <2>1 DEF PlayInv, Seats, OneSeatEach, Seated, Pledges, Table
    <2> QED
      BY <1>1, <2>1, <2>2, <2>3, <2>4 DEF PlayInv
  <1>3. ASSUME NEW c \in Caller,
               \/ Start(c) \/ Polls(c) \/ Runs(c) \/ WritesOne(c)
               \/ Answer(c) \/ Die(c) \/ DieWriting(c)
        PROVE  PlayInv' /\ (doc' = doc \/ Settles)
    <2>1. CASE Start(c) \/ Polls(c)
      <3>1. doc' = doc
        BY <2>1 DEF Start, Polls
      <3> QED
        BY <1>1, <2>1, <3>1, BeginsPlay DEF PlayInv
    <2>2. CASE Runs(c)
      <3>1. doc' = doc
        BY <2>2, RunsScript DEF Locks, diskVars
      <3> QED
        BY <1>1, <2>2, <3>1, RunsPlay DEF PlayInv
    <2>3. CASE WritesOne(c)
      BY <1>1, <2>3, WritesPlay DEF PlayInv
    <2>4. CASE Answer(c)
      BY <1>1, <2>4, AnswerPlay DEF PlayInv
    <2>5. CASE Die(c) \/ DieWriting(c)
      BY <1>1, <2>5, DeathsPlay DEF PlayInv
    <2> QED
      BY <1>3, <2>1, <2>2, <2>3, <2>4, <2>5
  <1>4. CASE Tick
    BY <1>1, <1>4, TickPlay DEF PlayInv
  <1> QED
    BY <1>2, <1>3, <1>4 DEF MatchNext

LEMMA PlayInit == MatchInit => PlayInv
PROOF
  <1> SUFFICES ASSUME MatchInit PROVE PlayInv
    OBVIOUS
  <1>1. MatchInv
    BY MatchInitInv
  <1>2. \A c \in Caller : fd[c] = NoInode
    BY DEF MatchInit
  <1>3. Scripts
    BY <1>2 DEF Scripts, Mine
  <1>4. Busy
    BY DEF MatchInit, Busy
  <1>5. Alone
    BY <1>2 DEF MatchInit, Alone
  <1>6. doc.rounds = <<>> /\ doc.result = "none"
    BY DEF MatchInit, NoDocument
  <1>7. ~ Over(doc)
    <2>1. Round(doc) = -1
      BY <1>6 DEF Round
    <2> QED
      BY <1>6, <2>1 DEF Over
  <1>8. Seats
    <2>1. Seated = {}
      BY DEF MatchInit, Seated, Side
    <2>2. OneSeatEach
      BY DEF MatchInit, OneSeatEach, Side
    <2>3. \A i \in Inode : Fair(Seated, file[i])
      BY DEF MatchInit, Fair
    <2>4. \A c \in Caller : op[c].side \notin Side
      BY DEF MatchInit, NoOp, Side
    <2> QED
      BY <1>7, <2>1, <2>2, <2>3, <2>4 DEF Seats, Ended
  <1>9. Pledges
    BY DEF MatchInit, Pledges
  <1> QED
    BY <1>1, <1>3, <1>4, <1>5, <1>8, <1>9 DEF PlayInv

-----------------------------------------------------------------------------
(* Whatever is on the disk and whatever a process has still to write, who  *)
(* holds the lock follows a script that loses no seat and no seal.         *)
THEOREM PlayInvariance == MatchSpec => []PlayInv
PROOF
  <1>1. PlayInv /\ [MatchNext]_matchVars => PlayInv'
    BY PlayStep
  <1> QED
    BY <1>1, PlayInit, PTL DEF MatchSpec

(* new gives each side to one caller, however many ask at once, whichever  *)
(* die, and also where the turn file that said who had which was lost.     *)
THEOREM SeatsAreTaken == MatchSpec => []OneSeatEach
PROOF
  <1>1. PlayInv => OneSeatEach
    BY DEF PlayInv, Seats
  <1> QED
    BY <1>1, PlayInvariance, PTL

(* Every step leaves the document alone, deals it, or settles the round in *)
(* progress: no process writes over a round that another has settled.      *)
THEOREM RoundsStay == MatchSpec => PlayedStays
PROOF
  <1>1. PlayInv /\ [MatchNext]_matchVars => [doc' = doc \/ Settles]_matchVars
    BY PlayStep
  <1> QED
    BY <1>1, PlayInvariance, PTL DEF MatchSpec, PlayedStays

(* What a side was told is sealed is what the document shows once its      *)
(* round is closed, whoever settled it.                                    *)
THEOREM SealsHold == MatchSpec => []SealedIsFought
PROOF
  <1>1. PlayInv => SealedIsFought
    <2> SUFFICES ASSUME PlayInv, NEW s \in Side, promised[s] # NoPromise,
                        Closed(promised[s].round)
                 PROVE  doc.rounds[promised[s].round + 1][s]
                          = promised[s].decisions
      BY DEF SealedIsFought
    <2>1. Pledged(Table, s, promised[s].round, promised[s].decisions)
      BY DEF PlayInv, Pledges
    <2>2. promised[s].round \in Nat
      BY DEF PlayInv, MatchInv, CallersOK, Promises
    <2>3. Table.doc = doc
      BY DEF Table, Game
    <2> QED
      BY <2>1, <2>2, <2>3 DEF Pledged, Closed
  <1> QED
    BY <1>1, PlayInvariance, PTL
=============================================================================
