--------------------------- MODULE McfrWriterProofs ---------------------------
(***************************************************************************)
(* What is proved of McfrWriter for any number of writers and ticks and    *)
(* any length of a row group: a container that is published stands, was    *)
(* published by a writer no append had broken, has the result its writer   *)
(* answered, and reads back tick for tick as it was appended.              *)
(***************************************************************************)
EXTENDS McfrWriter, FoldFacts, SequenceTheorems, TLAPS

Stages == {"none", "open", "packed", "published", "over"}

TimelineOK ==
  /\ stage \in [Writer -> Stages]
  /\ hashes \in [Writer -> Seq(Hash)]
  /\ stored \in [Writer -> Seq(Hash)]
  /\ poisoned \in [Writer -> BOOLEAN]
  /\ healed \in [Writer -> BOOLEAN]
  /\ failures \in [Writer -> Nat]
  /\ DOMAIN packed = Writer
  /\ DOMAIN answer = Writer

(* The storage's list never falls behind the writer's, and it is the       *)
(* writer's as long as no append has broken off.                           *)
InListOrder(w) ==
  /\ Len(hashes[w]) <= Len(stored[w])
  /\ ~ healed[w] /\ ~ poisoned[w] => stored[w] = hashes[w]

(* A broken append is forgotten only by one that succeeds after it.        *)
Remembers(w) == failures[w] > 0 /\ ~ healed[w] => poisoned[w]

(* What has been packed was packed by a writer in order, and has opened.   *)
Verified(w) ==
  stage[w] \in {"packed", "published"} =>
    /\ ~ poisoned[w]
    /\ packed[w].kind = "file"
    /\ Opens(packed[w])
    /\ ~ healed[w] => packed[w].ticks = hashes[w]

Stands(w) ==
  stage[w] = "published" =>
    /\ target = packed[w]
    /\ answer[w].result = packed[w].result

McfrInv ==
  /\ TimelineOK
  /\ \A w \in Stores : InListOrder(w)
  /\ \A w \in Writer : Remembers(w)
  /\ \A w \in Writer : Verified(w)
  /\ \A w \in Writer : Stands(w)

-----------------------------------------------------------------------------
(* A step of one writer before it packs: it disturbs no other writer and   *)
(* nothing that was packed.                                                *)
LEMMA Appending ==
  ASSUME McfrInv, NEW w \in Writer, stage[w] = "open",
         TimelineOK',
         UNCHANGED <<target, stage, packed, answer>>,
         \A v \in Writer \ {w} :
           /\ hashes'[v] = hashes[v] /\ stored'[v] = stored[v]
           /\ poisoned'[v] = poisoned[v] /\ healed'[v] = healed[v]
           /\ failures'[v] = failures[v],
         w \in Stores => InListOrder(w)',
         Remembers(w)'
  PROVE  McfrInv'
PROOF
  <1>1. \A v \in Stores : InListOrder(v)'
    <2> TAKE v \in Stores
    <2>1. v \in Writer
      BY McfrAssumption DEF McfrAssumption
    <2>2. CASE v = w
      BY <2>2
    <2>3. CASE v # w
      BY <2>1, <2>3 DEF McfrInv, InListOrder
    <2> QED
      BY <2>2, <2>3
  <1>2. \A v \in Writer : Remembers(v)'
    <2> TAKE v \in Writer
    <2>1. CASE v = w
      BY <2>1
    <2>2. CASE v # w
      BY <2>2 DEF McfrInv, Remembers
    <2> QED
      BY <2>1, <2>2
  <1>3. \A v \in Writer : Verified(v)'
    <2> TAKE v \in Writer
    <2>1. CASE v = w
      BY <2>1 DEF Verified
    <2>2. CASE v # w
      BY <2>2 DEF McfrInv, Verified, Opens
    <2> QED
      BY <2>1, <2>2
  <1>4. \A v \in Writer : Stands(v)'
    BY DEF McfrInv, Stands
  <1> QED
    BY <1>1, <1>2, <1>3, <1>4 DEF McfrInv

(* A step of one writer that leaves what it has counted alone.             *)
LEMMA Ending ==
  ASSUME McfrInv, NEW w \in Writer,
         TimelineOK',
         UNCHANGED <<hashes, stored, poisoned, healed, failures>>,
         \A v \in Writer \ {w} :
           /\ stage'[v] = stage[v] /\ packed'[v] = packed[v]
           /\ answer'[v] = answer[v],
         target # NoFile => target' = target,
         Verified(w)', Stands(w)'
  PROVE  McfrInv'
PROOF
  <1>1. \A v \in Stores : InListOrder(v)'
    BY DEF McfrInv, InListOrder
  <1>2. \A v \in Writer : Remembers(v)'
    BY DEF McfrInv, Remembers
  <1>3. \A v \in Writer : Verified(v)'
    <2> TAKE v \in Writer
    <2>1. CASE v = w
      BY <2>1
    <2>2. CASE v # w
      BY <2>2 DEF McfrInv, Verified, Opens
    <2> QED
      BY <2>1, <2>2
  <1>4. \A v \in Writer : Stands(v)'
    <2> TAKE v \in Writer
    <2>1. CASE v = w
      BY <2>1
    <2>2. CASE v # w
      <3> SUFFICES ASSUME stage[v] = "published"
                   PROVE  /\ target' = packed[v]
                          /\ answer[v].result = packed[v].result
        BY <2>2 DEF Stands
      <3>1. /\ target = packed[v] /\ packed[v].kind = "file"
            /\ answer[v].result = packed[v].result
        BY DEF McfrInv, Stands, Verified
      <3>2. target # NoFile
        BY <3>1 DEF NoFile
      <3> QED
        BY <3>1, <3>2
    <2> QED
      BY <2>1, <2>2
  <1> QED
    BY <1>1, <1>2, <1>3, <1>4 DEF McfrInv

-----------------------------------------------------------------------------
(* The appends.                                                            *)

LEMMA HashIsHash ==
  ASSUME McfrInv, NEW w \in Writer, NEW in \in Inputs[w]
  PROVE  HashOf(NextTick(w), in) \in Hash
PROOF
  <1>1. in \in [units : SUBSET Unit, events : Seq(Events)]
    BY McfrAssumption DEF McfrAssumption
  <1>2. NextTick(w) \in Nat
    BY LenProperties DEF McfrInv, TimelineOK, NextTick
  <1> QED
    BY <1>1, <1>2 DEF HashOf, Hash

(* What an append that succeeds, and one that breaks off, leaves.          *)
LEMMA Counted ==
  ASSUME McfrInv, NEW w \in Writer, NEW in \in Inputs[w], Counts(w, in)
  PROVE  /\ hashes' \in [Writer -> Seq(Hash)]
         /\ hashes'[w] = Append(hashes[w], HashOf(NextTick(w), in))
         /\ poisoned' \in [Writer -> BOOLEAN] /\ ~ poisoned'[w]
         /\ healed' \in [Writer -> BOOLEAN]
         /\ healed'[w] = (healed[w] \/ poisoned[w])
         /\ failures' = failures
         /\ \A v \in Writer \ {w} :
              /\ hashes'[v] = hashes[v]
              /\ poisoned'[v] = poisoned[v] /\ healed'[v] = healed[v]
PROOF
  <1>1. HashOf(NextTick(w), in) \in Hash
    BY HashIsHash
  <1>2. hashes[w] \in Seq(Hash)
    BY DEF McfrInv, TimelineOK
  <1>3. Append(hashes[w], HashOf(NextTick(w), in)) \in Seq(Hash)
    BY <1>1, <1>2, AppendProperties
  <1>4. (healed[w] \/ poisoned[w]) \in BOOLEAN
    BY DEF McfrInv, TimelineOK
  <1> QED
    BY <1>3, <1>4 DEF Counts, Succeeds, McfrInv, TimelineOK

LEMMA Broken ==
  ASSUME McfrInv, NEW w \in Writer, Breaks(w)
  PROVE  /\ poisoned' \in [Writer -> BOOLEAN] /\ poisoned'[w]
         /\ failures' \in [Writer -> Nat]
         /\ healed' = healed
         /\ \A v \in Writer \ {w} :
              poisoned'[v] = poisoned[v] /\ failures'[v] = failures[v]
PROOF
  BY DEF Breaks, McfrInv, TimelineOK

LEMMA StoredGrows ==
  ASSUME McfrInv, NEW w \in Writer, NEW in \in Inputs[w],
         stored' = [stored EXCEPT ![w] = Stored(w, in)]
  PROVE  /\ stored' \in [Writer -> Seq(Hash)]
         /\ stored'[w] = Append(stored[w], HashOf(NextTick(w), in))
         /\ \A v \in Writer \ {w} : stored'[v] = stored[v]
PROOF
  <1>1. HashOf(NextTick(w), in) \in Hash
    BY HashIsHash
  <1>2. stored[w] \in Seq(Hash)
    BY DEF McfrInv, TimelineOK
  <1>3. Append(stored[w], HashOf(NextTick(w), in)) \in Seq(Hash)
    BY <1>1, <1>2, AppendProperties
  <1> QED
    BY <1>3 DEF Stored, McfrInv, TimelineOK

LEMMA AppendHashKeeps ==
  ASSUME McfrInv, NEW w \in Writer, NEW in \in Inputs[w], AppendHash(w, in)
  PROVE  McfrInv'
PROOF
  <1>1. /\ Counts(w, in) /\ w \notin Stores /\ stage[w] = "open"
        /\ UNCHANGED <<target, stage, packed, answer, stored>>
    BY DEF AppendHash, Takes
  <1>2. TimelineOK'
    BY <1>1, Counted DEF McfrInv, TimelineOK
  <1>3. Remembers(w)'
    BY <1>1, Counted DEF McfrInv, Remembers, TimelineOK
  <1>4. \A v \in Writer \ {w} :
          /\ hashes'[v] = hashes[v] /\ stored'[v] = stored[v]
          /\ poisoned'[v] = poisoned[v] /\ healed'[v] = healed[v]
          /\ failures'[v] = failures[v]
    BY <1>1, Counted
  <1> QED
    BY <1>1, <1>2, <1>3, <1>4, Appending

LEMMA AppendRefusedKeeps ==
  ASSUME McfrInv, NEW w \in Writer, NEW in \in Inputs[w], AppendRefused(w, in)
  PROVE  McfrInv'
PROOF
  <1>1. /\ Breaks(w) /\ hashes' = hashes /\ stored' = stored
        /\ stage[w] = "open"
        /\ UNCHANGED <<target, stage, packed, answer>>
    BY DEF AppendRefused, Takes, Uncounted
  <1>2. TimelineOK'
    BY <1>1, Broken DEF McfrInv, TimelineOK
  <1>3. Remembers(w)'
    BY <1>1, Broken DEF Remembers
  <1>4. w \in Stores => InListOrder(w)'
    BY <1>1, Broken DEF McfrInv, InListOrder
  <1>5. \A v \in Writer \ {w} :
          /\ hashes'[v] = hashes[v] /\ stored'[v] = stored[v]
          /\ poisoned'[v] = poisoned[v] /\ healed'[v] = healed[v]
          /\ failures'[v] = failures[v]
    BY <1>1, Broken
  <1> QED
    BY <1>1, <1>2, <1>3, <1>4, <1>5, Appending

LEMMA AppendTickKeeps ==
  ASSUME McfrInv, NEW w \in Writer, NEW in \in Inputs[w], AppendTick(w, in)
  PROVE  McfrInv'
PROOF
  <1> DEFINE h == HashOf(NextTick(w), in)
  <1>1. /\ Counts(w, in) \/ Uncounted(w)
        /\ w \in Stores /\ stage[w] = "open"
        /\ stored' = [stored EXCEPT ![w] = Stored(w, in)]
        /\ UNCHANGED <<target, stage, packed, answer>>
    BY DEF AppendTick, Takes
  <1>2. /\ stored' \in [Writer -> Seq(Hash)]
        /\ stored'[w] = Append(stored[w], h)
        /\ \A v \in Writer \ {w} : stored'[v] = stored[v]
    BY <1>1, StoredGrows
  <1>3. /\ hashes[w] \in Seq(Hash) /\ stored[w] \in Seq(Hash) /\ h \in Hash
        /\ Len(hashes[w]) <= Len(stored[w])
    BY <1>1, HashIsHash DEF McfrInv, TimelineOK, InListOrder
  <1>4. /\ Len(hashes[w]) \in Nat /\ Len(stored[w]) \in Nat
        /\ Len(Append(stored[w], h)) = Len(stored[w]) + 1
        /\ Len(Append(hashes[w], h)) = Len(hashes[w]) + 1
    BY <1>3, LenProperties, AppendProperties
  <1>5. CASE Counts(w, in)
    <2>1. TimelineOK'
      BY <1>1, <1>2, <1>5, Counted DEF McfrInv, TimelineOK
    <2>2. Remembers(w)'
      BY <1>5, Counted DEF McfrInv, Remembers, TimelineOK
    <2>3. InListOrder(w)'
      <3>1. Len(hashes'[w]) <= Len(stored'[w])
        BY <1>2, <1>3, <1>4, <1>5, Counted
      <3>2. ~ healed'[w] => stored'[w] = hashes'[w]
        <4> SUFFICES ASSUME ~ healed'[w] PROVE stored'[w] = hashes'[w]
          OBVIOUS
        <4>1. ~ healed[w] /\ ~ poisoned[w]
          BY <1>5, Counted
        <4>2. stored[w] = hashes[w]
          BY <1>1, <4>1 DEF McfrInv, InListOrder
        <4>3. hashes'[w] = Append(hashes[w], h)
          BY <1>5, Counted
        <4> QED
          BY <1>2, <4>2, <4>3
      <3> QED
        BY <3>1, <3>2 DEF InListOrder
    <2>4. \A v \in Writer \ {w} :
            /\ hashes'[v] = hashes[v] /\ stored'[v] = stored[v]
            /\ poisoned'[v] = poisoned[v] /\ healed'[v] = healed[v]
            /\ failures'[v] = failures[v]
      BY <1>2, <1>5, Counted
    <2> QED
      BY <1>1, <2>1, <2>2, <2>3, <2>4, Appending
  <1>6. CASE Uncounted(w)
    <2>1. Breaks(w) /\ hashes' = hashes
      BY <1>6 DEF Uncounted
    <2>2. TimelineOK'
      BY <1>1, <1>2, <2>1, Broken DEF McfrInv, TimelineOK
    <2>3. Remembers(w)'
      BY <2>1, Broken DEF Remembers
    <2>4. InListOrder(w)'
      BY <1>2, <1>3, <1>4, <2>1, Broken DEF InListOrder
    <2>5. \A v \in Writer \ {w} :
            /\ hashes'[v] = hashes[v] /\ stored'[v] = stored[v]
            /\ poisoned'[v] = poisoned[v] /\ healed'[v] = healed[v]
            /\ failures'[v] = failures[v]
      BY <1>2, <2>1, Broken
    <2> QED
      BY <1>1, <2>1, <2>2, <2>3, <2>4, <2>5, Appending
  <1> QED
    BY <1>1, <1>5, <1>6

LEMMA InstrumentKeeps ==
  ASSUME McfrInv, NEW w \in Writer, AppendInstrument(w)
  PROVE  McfrInv'
PROOF
  <1>1. /\ Succeeds(w) \/ Breaks(w)
        /\ w \in Stores /\ stage[w] = "open"
        /\ UNCHANGED <<target, stage, packed, answer, hashes, stored>>
    BY McfrAssumption DEF McfrAssumption, AppendInstrument
  <1>2. CASE Succeeds(w)
    <2>1. (healed[w] \/ poisoned[w]) \in BOOLEAN
      BY DEF McfrInv, TimelineOK
    <2>2. /\ poisoned' \in [Writer -> BOOLEAN] /\ ~ poisoned'[w]
          /\ healed' \in [Writer -> BOOLEAN]
          /\ healed'[w] = (healed[w] \/ poisoned[w])
          /\ failures' = failures
          /\ \A v \in Writer \ {w} :
               poisoned'[v] = poisoned[v] /\ healed'[v] = healed[v]
      BY <1>2, <2>1 DEF Succeeds, McfrInv, TimelineOK
    <2>3. TimelineOK'
      BY <1>1, <2>2 DEF McfrInv, TimelineOK
    <2>4. Remembers(w)'
      BY <2>2 DEF McfrInv, Remembers, TimelineOK
    <2>5. InListOrder(w)'
      BY <1>1, <2>2 DEF McfrInv, InListOrder
    <2>6. \A v \in Writer \ {w} :
            /\ hashes'[v] = hashes[v] /\ stored'[v] = stored[v]
            /\ poisoned'[v] = poisoned[v] /\ healed'[v] = healed[v]
            /\ failures'[v] = failures[v]
      BY <1>1, <2>2
    <2> QED
      BY <1>1, <2>3, <2>4, <2>5, <2>6, Appending
  <1>3. CASE Breaks(w)
    <2>1. TimelineOK'
      BY <1>1, <1>3, Broken DEF McfrInv, TimelineOK
    <2>2. Remembers(w)'
      BY <1>3, Broken DEF Remembers
    <2>3. InListOrder(w)'
      BY <1>1, <1>3, Broken DEF McfrInv, InListOrder
    <2>4. \A v \in Writer \ {w} :
            /\ hashes'[v] = hashes[v] /\ stored'[v] = stored[v]
            /\ poisoned'[v] = poisoned[v] /\ healed'[v] = healed[v]
            /\ failures'[v] = failures[v]
      BY <1>1, <1>3, Broken
    <2> QED
      BY <1>1, <2>1, <2>2, <2>3, <2>4, Appending
  <1> QED
    BY <1>1, <1>2, <1>3

-----------------------------------------------------------------------------
(* The ends.                                                               *)

LEMMA Ended ==
  ASSUME McfrInv, NEW w \in Writer, NEW stg \in Stages, NEW what,
         Ends(w, stg, what)
  PROVE  /\ stage' \in [Writer -> Stages] /\ stage'[w] = stg
         /\ DOMAIN answer' = Writer /\ answer'[w] = what
         /\ UNCHANGED <<hashes, poisoned, healed, failures>>
         /\ \A v \in Writer \ {w} :
              stage'[v] = stage[v] /\ answer'[v] = answer[v]
PROOF
  BY DEF Ends, timelineVars, historyVars, McfrInv, TimelineOK

LEMMA OverKeeps ==
  ASSUME McfrInv, NEW w \in Writer, NEW what, Ends(w, "over", what),
         UNCHANGED <<target, stored, packed>>
  PROVE  McfrInv'
PROOF
  <1>0. "over" \in Stages
    BY DEF Stages
  <1>1. TimelineOK'
    BY <1>0, Ended DEF McfrInv, TimelineOK
  <1>2. stage'[w] = "over"
    BY <1>0, Ended
  <1>3. Verified(w)' /\ Stands(w)'
    BY <1>2 DEF Verified, Stands
  <1>4. /\ UNCHANGED <<hashes, stored, poisoned, healed, failures>>
        /\ \A v \in Writer \ {w} :
             /\ stage'[v] = stage[v] /\ packed'[v] = packed[v]
             /\ answer'[v] = answer[v]
    BY <1>0, Ended
  <1> QED
    BY <1>1, <1>3, <1>4, Ending

LEMMA PacksKeeps ==
  ASSUME McfrInv, NEW w \in Writer, NEW settlement, FinishPacks(w, settlement)
  PROVE  McfrInv'
PROOF
  <1>1. PICK f \in LastFlush(members[w], rows[w]) :
          LET c == Container(w, f.members, settlement)
          IN  IF f.ok /\ Opens(c)
              THEN \/ Ends(w, "packed", NoAnswer)
                      /\ packed' = [packed EXCEPT ![w] = c]
                   \/ Ends(w, "over", Failed) /\ UNCHANGED packed
              ELSE Ends(w, "over", Failed) /\ UNCHANGED packed
    BY DEF FinishPacks
  <1> DEFINE c == Container(w, f.members, settlement)
  <1>2. /\ w \in Stores /\ ~ poisoned[w]
        /\ UNCHANGED <<target, stored>>
    BY DEF FinishPacks, Finishes
  <1>3. CASE Ends(w, "over", Failed) /\ UNCHANGED packed
    BY <1>2, <1>3, OverKeeps
  <1>4. CASE /\ Opens(c) /\ Ends(w, "packed", NoAnswer)
             /\ packed' = [packed EXCEPT ![w] = c]
    <2>1. /\ DOMAIN packed' = Writer /\ packed'[w] = c
          /\ \A v \in Writer \ {w} : packed'[v] = packed[v]
      BY <1>4 DEF McfrInv, TimelineOK
    <2>2. "packed" \in Stages
      BY DEF Stages
    <2>3. TimelineOK'
      BY <1>2, <1>4, <2>1, <2>2, Ended DEF McfrInv, TimelineOK
    <2>4. /\ c.kind = "file" /\ c.ticks = stored[w]
      BY DEF Container
    <2>5. ~ healed[w] => stored[w] = hashes[w]
      BY <1>2 DEF McfrInv, InListOrder
    <2>6. /\ stage'[w] = "packed"
          /\ UNCHANGED <<hashes, poisoned, healed, failures>>
      BY <1>4, <2>2, Ended
    <2>7. Verified(w)'
      <3>1. Opens(packed[w])'
        BY <1>4, <2>1 DEF Opens
      <3> QED
        BY <1>2, <2>1, <2>4, <2>5, <2>6, <3>1 DEF Verified
    <2>8. Stands(w)'
      BY <2>6 DEF Stands
    <2>9. \A v \in Writer \ {w} :
            /\ stage'[v] = stage[v] /\ packed'[v] = packed[v]
            /\ answer'[v] = answer[v]
      BY <1>4, <2>1, <2>2, Ended
    <2> HIDE DEF c
    <2> QED
      BY <1>2, <2>3, <2>6, <2>7, <2>8, <2>9, Ending
  <1> QED
    BY <1>1, <1>3, <1>4

LEMMA PublishKeeps ==
  ASSUME McfrInv, NEW w \in Writer, Publish(w)
  PROVE  McfrInv'
PROOF
  <1>1. /\ stage[w] = "packed" /\ target = NoFile /\ target' = packed[w]
        /\ Ends(w, "published",
                [kind |-> "hashes", result |-> packed[w].result])
        /\ UNCHANGED <<stored, packed>>
    BY DEF Publish, Persists, storageVars
  <1>2. "published" \in Stages
    BY DEF Stages
  <1>3. TimelineOK'
    BY <1>1, <1>2, Ended DEF McfrInv, TimelineOK
  <1>4. /\ stage'[w] = "published" /\ answer'[w].result = packed[w].result
        /\ UNCHANGED <<hashes, stored, poisoned, healed, failures>>
        /\ \A v \in Writer \ {w} :
             /\ stage'[v] = stage[v] /\ packed'[v] = packed[v]
             /\ answer'[v] = answer[v]
    BY <1>1, <1>2, Ended
  <1>5. Verified(w)'
    BY <1>1, <1>4 DEF McfrInv, Verified, Opens
  <1>6. Stands(w)'
    BY <1>1, <1>4 DEF Stands
  <1> QED
    BY <1>1, <1>3, <1>4, <1>5, <1>6, Ending

LEMMA OpensKeeps ==
  ASSUME McfrInv, NEW w \in Writer, Create(w)
  PROVE  McfrInv'
PROOF
  <1>1. /\ stage' = [stage EXCEPT ![w] = "open"]
        /\ UNCHANGED <<target, hashes, poisoned, healed, failures, stored,
                       packed, answer>>
    BY DEF Create, timelineVars, storageVars, historyVars
  <1>2. /\ stage' \in [Writer -> Stages] /\ stage'[w] = "open"
        /\ \A v \in Writer \ {w} : stage'[v] = stage[v]
    BY <1>1 DEF McfrInv, TimelineOK, Stages
  <1>3. TimelineOK'
    BY <1>1, <1>2 DEF McfrInv, TimelineOK
  <1>4. Verified(w)' /\ Stands(w)'
    BY <1>2 DEF Verified, Stands
  <1> QED
    BY <1>1, <1>2, <1>3, <1>4, Ending

-----------------------------------------------------------------------------
LEMMA McfrStep == McfrInv /\ [McfrNext]_mcfrVars => McfrInv'
PROOF
  <1> SUFFICES ASSUME McfrInv, [McfrNext]_mcfrVars PROVE McfrInv'
    OBVIOUS
  <1>1. CASE UNCHANGED mcfrVars
    BY <1>1 DEF mcfrVars, timelineVars, storageVars, historyVars, McfrInv,
                TimelineOK, InListOrder, Remembers, Verified, Stands, Opens
  <1>2. ASSUME NEW w \in Writer, Create(w) PROVE McfrInv'
    BY <1>2, OpensKeeps
  <1>3. ASSUME NEW w \in Writer, CreateRefused(w) PROVE McfrInv'
    <2>1. Ends(w, "over", Failed)
      BY <1>3 DEF CreateRefused, Ends
    <2> QED
      BY <1>3, <2>1, OverKeeps DEF CreateRefused, storageVars
  <1>4. ASSUME NEW w \in Writer, Appends(w) PROVE McfrInv'
    BY <1>4, AppendHashKeeps, AppendRefusedKeeps, AppendTickKeeps,
       InstrumentKeeps DEF Appends
  <1>5. ASSUME NEW w \in Writer, FinishCalled(w) PROVE McfrInv'
    <2>1. PICK settlement \in Settlements(w) :
            \/ FinishRefused(w, settlement)
            \/ FinishHashes(w, settlement)
            \/ FinishPacks(w, settlement)
      BY <1>5 DEF FinishCalled
    <2>2. CASE FinishRefused(w, settlement)
      BY <2>2, OverKeeps DEF FinishRefused, storageVars
    <2>3. CASE FinishHashes(w, settlement)
      BY <2>3, OverKeeps DEF FinishHashes, storageVars
    <2>4. CASE FinishPacks(w, settlement)
      BY <2>4, PacksKeeps
    <2> QED
      BY <2>1, <2>2, <2>3, <2>4
  <1>6. ASSUME NEW w \in Writer, Publish(w) PROVE McfrInv'
    BY <1>6, PublishKeeps
  <1>7. ASSUME NEW w \in Writer, PublishFails(w) PROVE McfrInv'
    BY <1>7, OverKeeps DEF PublishFails, storageVars
  <1>8. ASSUME NEW w \in Writer, Drop(w) PROVE McfrInv'
    BY <1>8, OverKeeps DEF Drop, storageVars
  <1> QED
    BY <1>1, <1>2, <1>3, <1>4, <1>5, <1>6, <1>7, <1>8 DEF McfrNext

LEMMA McfrInitInv == McfrInit => McfrInv
PROOF
  <1> SUFFICES ASSUME McfrInit PROVE McfrInv
    OBVIOUS
  <1>1. <<>> \in Seq(Hash) /\ Len(<<>>) = 0
    OBVIOUS
  <1>2. TimelineOK
    BY <1>1 DEF McfrInit, TimelineOK, Stages
  <1>3. \A w \in Stores : InListOrder(w)
    BY <1>1, McfrAssumption DEF McfrInit, InListOrder, McfrAssumption
  <1>4. \A w \in Writer : Remembers(w) /\ Verified(w) /\ Stands(w)
    BY DEF McfrInit, Remembers, Verified, Stands
  <1> QED
    BY <1>2, <1>3, <1>4 DEF McfrInv

-----------------------------------------------------------------------------
THEOREM McfrInvariance == McfrSpec => []McfrInv
PROOF
  BY McfrInitInv, McfrStep, PTL DEF McfrSpec

(* A writer whose append broke off publishes nothing, unless a later       *)
(* append has cleared it.                                                  *)
THEOREM BrokenIsUnpublished == McfrSpec => []BrokenStaysUnpublished
PROOF
  <1>1. McfrInv => BrokenStaysUnpublished
    BY McfrAssumption
       DEF McfrInv, Remembers, Verified, BrokenStaysUnpublished, McfrAssumption
  <1> QED
    BY <1>1, McfrInvariance, PTL

(* The file at the target is never replaced, by whatever writer was        *)
(* created before it was there.                                            *)
THEOREM PublishedForGood == McfrSpec => TargetStays
PROOF
  <1>1. [McfrNext]_mcfrVars => [target # NoFile => target' = target]_mcfrVars
    BY DEF McfrNext, mcfrVars, Create, CreateRefused, Appends, AppendHash,
           AppendRefused, AppendTick, AppendInstrument, Takes, FinishCalled,
           FinishRefused, FinishHashes, FinishPacks, Publish, Persists,
           PublishFails, Drop
  <1> QED
    BY <1>1, PTL DEF McfrSpec, TargetStays

-----------------------------------------------------------------------------
(* The rows.  The reader finds a tick's rows by what they say of it, and   *)
(* open() has checked their order, so it is enough to know which there are.*)

(* The rows of a list of ticks.                                            *)
UnitsOf(hs) ==
  {x \in Nat \X Unit : x[1] \in DOMAIN hs /\ x[2] \in hs[x[1]].units}
EventsOf(hs) ==
  {x \in Nat \X Nat \X Events : /\ x[1] \in DOMAIN hs
                                /\ x[2] \in DOMAIN hs[x[1]].events
                                /\ x[3] = hs[x[1]].events[x[2]]}

RowsOK ==
  /\ rows \in [Writer -> TableRows]
  /\ members \in [Writer -> TableRows]

Numbered(w) == \A t \in DOMAIN hashes[w] : hashes[w][t].tick = t

(* What is on disk and what is buffered are the rows of the ticks that the *)
(* writer has accepted, as long as no append has broken off.               *)
Covered(w) ==
  stage[w] \in {"none", "open"} /\ ~ poisoned[w] /\ ~ healed[w] =>
    /\ Range(members[w].units) \cup Range(rows[w].units)
         = UnitsOf(hashes[w])
    /\ Range(members[w].events) \cup Range(rows[w].events)
         = EventsOf(hashes[w])

(* So are the rows that have been packed.                                  *)
Kept(w) ==
  stage[w] \in {"packed", "published"} /\ ~ healed[w] =>
    /\ Range(packed[w].units) = UnitsOf(hashes[w])
    /\ Range(packed[w].events) = EventsOf(hashes[w])

RowsInv ==
  /\ RowsOK
  /\ \A w \in Writer : Numbered(w)
  /\ \A w \in Stores : Covered(w)
  /\ \A w \in Writer : Kept(w)

(* A finite set of numbers can be listed in order.                         *)
LEMMA ByNumberExists ==
  ASSUME NEW units \in SUBSET Unit
  PROVE  \E seq \in [1..Cardinality(units) -> units] :
           \A i, j \in DOMAIN seq : i < j => seq[i] < seq[j]
PROOF
  <1> DEFINE Sorted(s) == \E seq \in [1..Cardinality(s) -> s] :
                            \A i, j \in DOMAIN seq : i < j => seq[i] < seq[j]
             P == {s \in SUBSET Unit : Sorted(s)}
  <1>1. IsFiniteSet(Unit) /\ Unit \in SUBSET Int
    BY McfrAssumption DEF McfrAssumption
  <1>2. {} \in P
    <2>1. Cardinality({}) = 0
      BY FS_EmptySet, Zenon
    <2>2. 1..Cardinality({}) = {}
      BY <2>1
    <2>3. [i \in {} |-> i] \in [1..Cardinality({}) -> {}]
      BY <2>2
    <2>4. Sorted({})
      <3>1. \A i, j \in DOMAIN [n \in {} |-> n] :
              i < j => [n \in {} |-> n][i] < [n \in {} |-> n][j]
        OBVIOUS
      <3> QED
        BY <2>3, <3>1
    <2> QED
      BY <2>4
  <1>3. ASSUME NEW s \in SUBSET Unit, s # {}, \A x \in s : s \ {x} \in P
        PROVE  s \in P
    <2>1. PICK m \in s : \A y \in s : m >= y
      BY <1>1, <1>3, MaxExists
    <2> DEFINE r == s \ {m}
               N == Cardinality(s)
    <2>2. /\ N \in Nat /\ N # 0 /\ Cardinality(r) = N - 1
      BY <1>1, <1>3, FS_Subset, FS_CardinalityType, FS_EmptySet,
         FS_RemoveElement
    <2>3. PICK e \in [1..Cardinality(r) -> r] :
            \A i, j \in DOMAIN e : i < j => e[i] < e[j]
      BY <1>3
    <2> DEFINE g == [i \in 1..N |-> IF i = N THEN m ELSE e[i]]
    <2> HIDE DEF N
    <2>4. \A i \in 1..N : i # N => i \in 1..Cardinality(r)
      BY <2>2
    <2>5. g \in [1..N -> s]
      BY <2>3, <2>4
    <2>6. ASSUME NEW i \in 1..N, NEW j \in 1..N, i < j PROVE g[i] < g[j]
      <3>0. i # N /\ i \in 1..Cardinality(r)
        <4> HIDE DEF r
        <4> QED
          BY <2>2, <2>4, <2>6
      <3>1. i # N /\ i \in 1..Cardinality(r) /\ e[i] \in r /\ g[i] = e[i]
        BY <2>3, <3>0
      <3>2. CASE j = N
        <4>1. e[i] # m /\ m >= e[i] /\ e[i] \in Int /\ m \in Int
          BY <1>1, <2>1, <3>1
        <4> QED
          BY <3>1, <3>2, <4>1
      <3>3. CASE j # N
        BY <2>3, <2>4, <2>6, <3>1, <3>3
      <3> QED
        BY <3>2, <3>3
    <2>7. Sorted(s)
      <3> HIDE DEF g
      <3> QED
        BY <2>5, <2>6 DEF N
    <2> QED
      BY <2>7
  <1> HIDE DEF P
  <1>4. units \in P
    BY <1>1, <1>2, <1>3, SubsetInduction
  <1> QED
    BY <1>4 DEF P

(* A tick's rows are of all of its units,                                  *)
LEMMA UnitRowsAre ==
  ASSUME NEW t \in Nat, NEW units \in SUBSET Unit
  PROVE  /\ UnitRows(t, units) \in Seq(Nat \X Unit)
         /\ Range(UnitRows(t, units)) = {t} \X units
PROOF
  <1> DEFINE N == Cardinality(units)
             e == ByNumber(units)
  <1>0. IsFiniteSet(Unit) /\ Unit \subseteq Int
    BY McfrAssumption DEF McfrAssumption
  <1>1. IsFiniteSet(units) /\ N \in Nat /\ units \subseteq Int
    BY <1>0, FS_Subset, FS_CardinalityType
  <1>2. e \in [1..N -> units] /\ \A i, j \in 1..N : i < j => e[i] < e[j]
    BY ByNumberExists DEF ByNumber
  <1>3. \A i, j \in 1..N : e[i] = e[j] => i = j
    <2> SUFFICES ASSUME NEW i \in 1..N, NEW j \in 1..N, e[i] = e[j], i # j
                 PROVE  FALSE
      OBVIOUS
    <2> HIDE DEF e, N
    <2>1. e[i] \in Int
      BY <1>1, <1>2
    <2>2. i < j \/ j < i
      BY <1>1
    <2>3. e[i] < e[j] \/ e[j] < e[i]
      BY <1>2, <2>2
    <2> QED
      BY <2>1, <2>3
  <1>4. \A u \in units : \E i \in 1..N : e[i] = u
    <2>1. e \in Injection(1..N, units)
      <3> HIDE DEF e, N
      <3> QED
        BY <1>2, <1>3 DEF Injection, IsInjective
    <2>2. Cardinality(1..N) = N
      BY <1>1, FS_Interval
    <2>3. e \in Surjection(1..N, units)
      <3> HIDE DEF e
      <3> QED
        BY <1>1, <2>1, <2>2, FS_Injection
    <2> HIDE DEF e, N
    <2> QED
      BY <2>3 DEF Surjection
  <1> HIDE DEF e, N
  <1>5. UnitRows(t, units) = [k \in 1..N |-> <<t, e[k]>>]
    BY DEF UnitRows, e, N
  <1>6. \A k \in 1..N : <<t, e[k]>> \in {t} \X units /\ e[k] \in Unit
    BY <1>2
  <1>7. UnitRows(t, units) \in Seq(Nat \X Unit)
    <2>1. \A k \in 1..N : <<t, e[k]>> \in Nat \X Unit
      BY <1>6
    <2> QED
      BY <1>1, <1>5, <2>1, IsASeq
  <1>8. Range(UnitRows(t, units)) = {<<t, e[k]>> : k \in 1..N}
    BY <1>5 DEF Range
  <1>9. {<<t, e[k]>> : k \in 1..N} = {t} \X units
    <2>1. \A x \in {t} \X units : \E u \in units : x = <<t, u>>
      OBVIOUS
    <2>2. \A x \in {t} \X units : x \in {<<t, e[k]>> : k \in 1..N}
      BY <1>4, <2>1
    <2> QED
      BY <1>6, <2>2
  <1> QED
    BY <1>7, <1>8, <1>9

(* and of all of its events.                                               *)
LEMMA EventRowsAre ==
  ASSUME NEW t \in Nat, NEW events \in Seq(Events)
  PROVE  /\ EventRows(t, events) \in Seq(Nat \X Nat \X Events)
         /\ Range(EventRows(t, events)) =
              {<<t, k, events[k]>> : k \in DOMAIN events}
PROOF
  <1>1. /\ EventRows(t, events) =
             [k \in 1..Len(events) |-> <<t, k, events[k]>>]
        /\ DOMAIN events = 1..Len(events) /\ Len(events) \in Nat
    BY DEF EventRows
  <1>2. \A k \in 1..Len(events) :
          <<t, k, events[k]>> \in Nat \X Nat \X Events
    BY <1>1
  <1>3. EventRows(t, events) \in Seq(Nat \X Nat \X Events)
    BY <1>1, <1>2
  <1> QED
    BY <1>1, <1>3 DEF Range
LEMMA BufferedIs ==
  ASSUME RowsOK, TimelineOK, NEW w \in Writer, NEW in \in Inputs[w]
  PROVE  /\ Buffered(w, in) \in TableRows
         /\ Range(Buffered(w, in).units) =
              Range(rows[w].units) \cup ({NextTick(w)} \X in.units)
         /\ Buffered(w, in).events = rows[w].events
PROOF
  <1>1. in.units \in SUBSET Unit
    BY McfrAssumption DEF McfrAssumption
  <1>2. NextTick(w) \in Nat
    BY LenProperties DEF TimelineOK, NextTick
  <1>3. rows[w] \in TableRows /\ rows[w].units \in Seq(Nat \X Unit)
    BY DEF RowsOK, TableRows
  <1> DEFINE new == UnitRows(NextTick(w), in.units)
  <1>4. new \in Seq(Nat \X Unit) /\ Range(new) = {NextTick(w)} \X in.units
    BY <1>1, <1>2, UnitRowsAre
  <1> HIDE DEF new
  <1>5. /\ rows[w].units \o new \in Seq(Nat \X Unit)
        /\ Range(rows[w].units \o new) = Range(rows[w].units) \cup Range(new)
    BY <1>3, <1>4, ConcatProperties, RangeConcatenation
  <1>6. Buffered(w, in) = [rows[w] EXCEPT !.units = @ \o new]
    BY DEF Buffered, new
  <1> QED
    BY <1>3, <1>4, <1>5, <1>6 DEF TableRows

(* The buffers once a tick that is taken is in them.                       *)
Filled(w, in) ==
  [Buffered(w, in) EXCEPT !.events = @ \o EventRows(NextTick(w), in.events)]

LEMMA FilledIs ==
  ASSUME RowsOK, TimelineOK, NEW w \in Writer, NEW in \in Inputs[w]
  PROVE  /\ Filled(w, in) \in TableRows
         /\ Range(Filled(w, in).units) =
              Range(rows[w].units) \cup ({NextTick(w)} \X in.units)
         /\ Range(Filled(w, in).events) =
              Range(rows[w].events) \cup
                {<<NextTick(w), k, in.events[k]>> : k \in DOMAIN in.events}
PROOF
  <1>1. in.events \in Seq(Events)
    BY McfrAssumption DEF McfrAssumption
  <1>2. NextTick(w) \in Nat
    BY LenProperties DEF TimelineOK, NextTick
  <1>3. rows[w].events \in Seq(Nat \X Nat \X Events)
    BY DEF RowsOK, TableRows
  <1> DEFINE new == EventRows(NextTick(w), in.events)
             T == Nat \X Nat \X Events
  <1>4. /\ new \in Seq(T)
        /\ Range(new) =
             {<<NextTick(w), k, in.events[k]>> : k \in DOMAIN in.events}
    BY <1>1, <1>2, EventRowsAre
  <1> HIDE DEF new
  <1>5. /\ rows[w].events \o new \in Seq(T)
        /\ Range(rows[w].events \o new) =
             Range(rows[w].events) \cup Range(new)
    <2> HIDE DEF T
    <2>1. rows[w].events \in Seq(T)
      BY <1>3 DEF T
    <2> QED
      BY <1>4, <2>1, ConcatProperties, RangeConcatenation
  <1>6. Filled(w, in) = [Buffered(w, in) EXCEPT !.events = @ \o new]
    BY DEF Filled, new
  <1> QED
    BY <1>4, <1>5, <1>6, BufferedIs DEF TableRows

(* A flush that succeeds leaves what was buffered on disk.                 *)
LEMMA FlushIs ==
  ASSUME NEW m \in TableRows, NEW r \in TableRows, NEW f \in Flushes(m, r)
  PROVE  /\ f.members \in TableRows /\ f.rows \in TableRows
         /\ f.ok =>
              /\ f.rows = Empty
              /\ Range(f.members.units) = Range(m.units) \cup Range(r.units)
              /\ Range(f.members.events) =
                   Range(m.events) \cup Range(r.events)
PROOF
  <1> DEFINE T == Nat \X Nat \X Events
             U == Nat \X Unit
  <1>1. /\ m.units \in Seq(U) /\ r.units \in Seq(U)
        /\ m.events \in Seq(T) /\ r.events \in Seq(T)
    BY DEF TableRows
  <1>2. /\ m.units \o r.units \in Seq(U)
        /\ Range(m.units \o r.units) = Range(m.units) \cup Range(r.units)
    <2> HIDE DEF U
    <2> QED
      BY <1>1, ConcatProperties, RangeConcatenation
  <1>3. /\ m.events \o r.events \in Seq(T)
        /\ Range(m.events \o r.events) = Range(m.events) \cup Range(r.events)
    <2> HIDE DEF T
    <2> QED
      BY <1>1, ConcatProperties, RangeConcatenation
  <1>4. \A n \in 0..2 : Written(m, r, n) \in TableRows
    BY <1>1, <1>2, <1>3 DEF Written, TableRows
  <1>5. Len(Tables) = 2
    BY DEF Tables
  <1>6. Empty \in TableRows
    BY EmptySeq DEF Empty, TableRows
  <1>7. Written(m, r, 2) = [units |-> m.units \o r.units,
                            events |-> m.events \o r.events]
    BY SMTT(30) DEF Written
  <1>8. CASE \E n \in 0..2 :
               f = [members |-> Written(m, r, n), rows |-> r, ok |-> FALSE]
    BY <1>4, <1>8
  <1>9. CASE f = [members |-> Written(m, r, 2), rows |-> Empty, ok |-> TRUE]
    <2>1. f.members = Written(m, r, 2) /\ f.rows = Empty
      BY <1>9
    <2> DEFINE both == [units |-> m.units \o r.units,
                        events |-> m.events \o r.events]
    <2>2. /\ both.units = m.units \o r.units
          /\ both.events = m.events \o r.events
      OBVIOUS
    <2>3. f.members = both
      BY <1>7, <2>1, Zenon
    <2> HIDE DEF both
    <2>4. f.members \in TableRows
      BY <1>4, <2>1
    <2> QED
      BY <1>2, <1>3, <1>6, <2>1, <2>2, <2>3, <2>4
  <1> QED
    BY <1>5, <1>8, <1>9 DEF Flushes

(* The rows of one tick more.                                              *)
LEMMA RowsGrow ==
  ASSUME NEW hs \in Seq(Hash), NEW h \in Hash
  PROVE  /\ UnitsOf(Append(hs, h)) =
              UnitsOf(hs) \cup ({Len(hs) + 1} \X h.units)
         /\ EventsOf(Append(hs, h)) =
              EventsOf(hs) \cup
                {<<Len(hs) + 1, k, h.events[k]>> : k \in DOMAIN h.events}
PROOF
  <1> DEFINE n == Len(hs)
             gs == Append(hs, h)
  <1>1. /\ n \in Nat /\ DOMAIN hs = 1..n /\ DOMAIN gs = 1..n + 1
        /\ \A t \in 1..n : gs[t] = hs[t]
        /\ gs[n + 1] = h
    BY AppendProperties, LenProperties
  <1>2. /\ h.units \in SUBSET Unit /\ h.events \in Seq(Events)
    BY DEF Hash
  <1>3. \A k \in DOMAIN h.events : k \in Nat /\ h.events[k] \in Events
    BY <1>2
  <1> HIDE DEF n, gs
  <1>4. \A t \in 1..n + 1 : t \in 1..n \/ t = n + 1
    BY <1>1
  <1>5. \A t \in 1..n : t \in 1..n + 1 /\ t # n + 1
    BY <1>1
  <1>6. n + 1 \in Nat /\ n + 1 \in 1..n + 1
    BY <1>1
  <1>7. UnitsOf(gs) = UnitsOf(hs) \cup ({n + 1} \X h.units)
    <2>1. \A x \in Nat \X Unit :
            x \in UnitsOf(gs) <=> x \in UnitsOf(hs) \/ x \in {n + 1} \X h.units
      BY <1>1, <1>4, <1>5, <1>6 DEF UnitsOf
    <2>2. {n + 1} \X h.units \subseteq Nat \X Unit
      BY <1>2, <1>6
    <2> QED
      BY <2>1, <2>2 DEF UnitsOf
  <1>8. EventsOf(gs) = EventsOf(hs) \cup
          {<<n + 1, k, h.events[k]>> : k \in DOMAIN h.events}
    <2> DEFINE new == {<<n + 1, k, h.events[k]>> : k \in DOMAIN h.events}
    <2>1. ASSUME NEW x \in Nat \X Nat \X Events
          PROVE  x \in EventsOf(gs) <=> x \in EventsOf(hs) \/ x \in new
      <3>1. CASE x[1] \in 1..n
        BY <1>1, <1>5, <3>1 DEF EventsOf
      <3>2. CASE x[1] = n + 1
        <4>1. x \notin EventsOf(hs)
          BY <1>1, <1>5, <3>2 DEF EventsOf
        <4>2. x \in EventsOf(gs) <=>
                x[2] \in DOMAIN h.events /\ x[3] = h.events[x[2]]
          BY <1>1, <1>6, <3>2 DEF EventsOf
        <4>3. x = <<x[1], x[2], x[3]>>
          OBVIOUS
        <4> QED
          BY <3>2, <4>1, <4>2, <4>3
      <3>3. CASE x[1] \notin 1..n + 1
        BY <1>1, <1>5, <1>6, <3>3 DEF EventsOf
      <3> QED
        BY <1>4, <3>1, <3>2, <3>3
    <2>2. new \subseteq Nat \X Nat \X Events
      BY <1>3, <1>6
    <2> QED
      BY <2>1, <2>2 DEF EventsOf
  <1> QED
    BY <1>7, <1>8 DEF n, gs
-----------------------------------------------------------------------------
(* A step of one writer disturbs the rows of no other.                     *)
LEMMA RowsElsewhere ==
  ASSUME RowsInv, NEW w \in Writer,
         RowsOK', Numbered(w)', w \in Stores => Covered(w)', Kept(w)',
         \A v \in Writer \ {w} :
           /\ stage'[v] = stage[v] /\ hashes'[v] = hashes[v]
           /\ poisoned'[v] = poisoned[v] /\ healed'[v] = healed[v]
           /\ rows'[v] = rows[v] /\ members'[v] = members[v]
           /\ packed'[v] = packed[v]
  PROVE  RowsInv'
PROOF
  <1>1. \A v \in Writer : Numbered(v)'
    <2> TAKE v \in Writer
    <2> QED
      BY DEF RowsInv, Numbered
  <1>2. \A v \in Stores : Covered(v)'
    <2> TAKE v \in Stores
    <2>1. v \in Writer
      BY McfrAssumption DEF McfrAssumption
    <2>2. CASE v # w
      BY <2>1, <2>2 DEF RowsInv, Covered
    <2> QED
      BY <2>2
  <1>3. \A v \in Writer : Kept(v)'
    <2> TAKE v \in Writer
    <2>1. CASE v # w
      BY <2>1 DEF RowsInv, Kept
    <2> QED
      BY <2>1
  <1> QED
    BY <1>1, <1>2, <1>3 DEF RowsInv

LEMMA CountedIsNumbered ==
  ASSUME McfrInv, NEW w \in Writer, Numbered(w), NEW in \in Inputs[w],
         Counts(w, in)
  PROVE  Numbered(w)'
PROOF
  <1>1. hashes'[w] = Append(hashes[w], HashOf(NextTick(w), in))
    BY Counted
  <1>2. hashes[w] \in Seq(Hash) /\ HashOf(NextTick(w), in) \in Hash
    BY HashIsHash DEF McfrInv, TimelineOK
  <1>3. HashOf(NextTick(w), in).tick = Len(hashes[w]) + 1
    BY DEF HashOf, NextTick
  <1> HIDE DEF HashOf
  <1> QED
    BY <1>1, <1>2, <1>3, AppendProperties, LenProperties DEF Numbered

LEMMA RowsAppendHash ==
  ASSUME McfrInv, RowsInv, NEW w \in Writer, NEW in \in Inputs[w],
         AppendHash(w, in)
  PROVE  RowsInv'
PROOF
  <1>1. /\ Counts(w, in) /\ w \notin Stores /\ stage[w] = "open"
        /\ UNCHANGED <<stage, packed, rows, members>>
    BY DEF AppendHash, Takes
  <1>2. Numbered(w)'
    BY <1>1, CountedIsNumbered DEF RowsInv
  <1>3. Kept(w)'
    BY <1>1 DEF Kept
  <1>4. RowsOK'
    BY <1>1 DEF RowsInv, RowsOK
  <1> QED
    BY <1>1, <1>2, <1>3, <1>4, Counted, RowsElsewhere

LEMMA RowsAppendRefused ==
  ASSUME McfrInv, RowsInv, NEW w \in Writer, NEW in \in Inputs[w],
         AppendRefused(w, in)
  PROVE  RowsInv'
PROOF
  <1>1. /\ Breaks(w) /\ hashes' = hashes /\ stage[w] = "open"
        /\ rows' = [rows EXCEPT ![w] = Buffered(w, in)]
        /\ UNCHANGED <<stage, packed, members>>
    BY DEF AppendRefused, Takes, Uncounted
  <1>2. Numbered(w)'
    BY <1>1 DEF RowsInv, Numbered
  <1>3. Covered(w)' /\ Kept(w)'
    BY <1>1, Broken DEF Covered, Kept
  <1>4. Buffered(w, in) \in TableRows
    BY BufferedIs DEF McfrInv, RowsInv
  <1>5. RowsOK' /\ \A v \in Writer \ {w} : rows'[v] = rows[v]
    BY <1>1, <1>4 DEF RowsInv, RowsOK
  <1> QED
    BY <1>1, <1>2, <1>3, <1>5, Broken, RowsElsewhere

LEMMA RowsAppendTick ==
  ASSUME McfrInv, RowsInv, NEW w \in Writer, NEW in \in Inputs[w],
         AppendTick(w, in)
  PROVE  RowsInv'
PROOF
  <1> DEFINE full == Filled(w, in)
             n == NextTick(w)
             h == HashOf(n, in)
             newUnits == {n} \X in.units
             newEvents == {<<n, k, in.events[k]>> : k \in DOMAIN in.events}
  <1>1. /\ w \in Stores /\ stage[w] = "open"
        /\ UNCHANGED <<stage, packed>>
    BY DEF AppendTick, Takes
  <1>2. \/ /\ rows' = [rows EXCEPT ![w] = full]
           /\ Counts(w, in)
           /\ UNCHANGED members
        \/ \E f \in Flushes(members[w], full) :
             /\ rows' = [rows EXCEPT ![w] = f.rows]
             /\ members' = [members EXCEPT ![w] = f.members]
             /\ IF f.ok THEN Counts(w, in) ELSE Uncounted(w)
    BY DEF AppendTick, Filled
  <1>3. /\ full \in TableRows
        /\ Range(full.units) = Range(rows[w].units) \cup newUnits
        /\ Range(full.events) = Range(rows[w].events) \cup newEvents
    BY FilledIs DEF McfrInv, RowsInv
  <1>4. /\ rows \in [Writer -> TableRows] /\ members \in [Writer -> TableRows]
    BY DEF RowsInv, RowsOK
  <1>5. /\ h \in Hash /\ h.units = in.units /\ h.events = in.events
        /\ hashes[w] \in Seq(Hash) /\ n = Len(hashes[w]) + 1
    BY HashIsHash DEF McfrInv, TimelineOK, HashOf, NextTick
  <1> HIDE DEF full, n, h
  <1>6. /\ UnitsOf(Append(hashes[w], h)) = UnitsOf(hashes[w]) \cup newUnits
        /\ EventsOf(Append(hashes[w], h)) = EventsOf(hashes[w]) \cup newEvents
    BY <1>5, RowsGrow
  <1>7. Kept(w)'
    BY <1>1 DEF Kept
  <1> HIDE DEF newUnits, newEvents
  <1>8. ASSUME Counts(w, in), RowsOK',
               \A v \in Writer \ {w} :
                 rows'[v] = rows[v] /\ members'[v] = members[v],
               Range(members'[w].units) \cup Range(rows'[w].units) =
                 Range(members[w].units) \cup Range(full.units),
               Range(members'[w].events) \cup Range(rows'[w].events) =
                 Range(members[w].events) \cup Range(full.events)
        PROVE  RowsInv'
    <2>1. hashes'[w] = Append(hashes[w], h)
      BY <1>8, Counted DEF h, n
    <2>2. ASSUME ~ healed'[w]
          PROVE  /\ Range(members[w].units) \cup Range(rows[w].units) =
                      UnitsOf(hashes[w])
                 /\ Range(members[w].events) \cup Range(rows[w].events) =
                      EventsOf(hashes[w])
      <3>1. ~ healed[w] /\ ~ poisoned[w]
        BY <1>8, <2>2, Counted
      <3> QED
        BY <1>1, <3>1 DEF RowsInv, Covered
    <2>3. Covered(w)'
      <3> SUFFICES ASSUME ~ healed'[w]
                   PROVE  /\ Range(members'[w].units) \cup
                               Range(rows'[w].units) = UnitsOf(hashes'[w])
                          /\ Range(members'[w].events) \cup
                               Range(rows'[w].events) = EventsOf(hashes'[w])
        BY DEF Covered, UnitsOf, EventsOf
      <3> QED
        BY <1>3, <1>6, <1>8, <2>1, <2>2
    <2>4. Numbered(w)'
      BY <1>8, CountedIsNumbered DEF RowsInv
    <2> QED
      BY <1>1, <1>7, <1>8, <2>3, <2>4, Counted, RowsElsewhere
  <1>9. CASE /\ rows' = [rows EXCEPT ![w] = full]
             /\ Counts(w, in)
             /\ UNCHANGED members
    <2>1. /\ rows'[w] = full
          /\ RowsOK'
          /\ \A v \in Writer \ {w} : rows'[v] = rows[v]
      BY <1>3, <1>4, <1>9 DEF RowsOK
    <2> QED
      BY <1>8, <1>9, <2>1
  <1>10. ASSUME NEW f \in Flushes(members[w], full),
                rows' = [rows EXCEPT ![w] = f.rows],
                members' = [members EXCEPT ![w] = f.members],
                IF f.ok THEN Counts(w, in) ELSE Uncounted(w)
         PROVE  RowsInv'
    <2>1. members[w] \in TableRows
      BY <1>4
    <2>2. /\ f.members \in TableRows /\ f.rows \in TableRows
          /\ f.ok =>
               /\ f.rows = Empty
               /\ Range(f.members.units) =
                    Range(members[w].units) \cup Range(full.units)
               /\ Range(f.members.events) =
                    Range(members[w].events) \cup Range(full.events)
      BY <1>3, <1>10, <2>1, FlushIs
    <2>3. /\ rows'[w] = f.rows /\ members'[w] = f.members
          /\ RowsOK'
          /\ \A v \in Writer \ {w} :
               rows'[v] = rows[v] /\ members'[v] = members[v]
      BY <1>4, <1>10, <2>2 DEF RowsOK
    <2>4. CASE f.ok
      <3>1. Range(Empty.units) = {} /\ Range(Empty.events) = {}
        BY DEF Empty, Range
      <3> QED
        BY <1>8, <1>10, <2>2, <2>3, <2>4, <3>1
    <2>5. CASE ~ f.ok
      <3>1. Breaks(w) /\ hashes' = hashes
        BY <1>10, <2>5 DEF Uncounted
      <3>2. Numbered(w)' /\ Covered(w)'
        BY <3>1, Broken DEF RowsInv, Numbered, Covered
      <3> QED
        BY <1>1, <1>7, <2>3, <3>1, <3>2, Broken, RowsElsewhere
    <2> QED
      BY <2>4, <2>5
  <1> QED
    BY <1>2, <1>9, <1>10
LEMMA RowsInstrument ==
  ASSUME McfrInv, RowsInv, NEW w \in Writer, AppendInstrument(w)
  PROVE  RowsInv'
PROOF
  <1>1. /\ Succeeds(w) \/ Breaks(w)
        /\ stage[w] = "open"
        /\ UNCHANGED <<stage, packed, hashes, rows, members>>
    BY DEF AppendInstrument
  <1>2. RowsOK' /\ Numbered(w)' /\ Kept(w)'
    BY <1>1 DEF RowsInv, RowsOK, Numbered, Kept
  <1>3. CASE Succeeds(w)
    <2>1. /\ healed'[w] = (healed[w] \/ poisoned[w])
          /\ \A v \in Writer \ {w} :
               poisoned'[v] = poisoned[v] /\ healed'[v] = healed[v]
      BY <1>3 DEF Succeeds, McfrInv, TimelineOK
    <2>2. w \in Stores => Covered(w)'
      BY <1>1, <2>1 DEF RowsInv, Covered
    <2> QED
      BY <1>1, <1>2, <2>1, <2>2, RowsElsewhere
  <1>4. CASE Breaks(w)
    <2>1. w \in Stores => Covered(w)'
      BY <1>4, Broken DEF Covered
    <2> QED
      BY <1>1, <1>2, <1>4, <2>1, Broken, RowsElsewhere
  <1> QED
    BY <1>1, <1>3, <1>4

(* A writer that has ended publishes nothing, whatever became of its rows. *)
LEMMA RowsOver ==
  ASSUME McfrInv, RowsInv, NEW w \in Writer, NEW what, Ends(w, "over", what),
         UNCHANGED packed, RowsOK',
         \A v \in Writer \ {w} :
           rows'[v] = rows[v] /\ members'[v] = members[v]
  PROVE  RowsInv'
PROOF
  <1>1. "over" \in Stages
    BY DEF Stages
  <1>2. /\ stage'[w] = "over" /\ UNCHANGED <<hashes, poisoned, healed>>
        /\ \A v \in Writer \ {w} : stage'[v] = stage[v]
    BY <1>1, Ended
  <1>3. Numbered(w)' /\ Covered(w)' /\ Kept(w)'
    BY <1>2 DEF RowsInv, Numbered, Covered, Kept
  <1> QED
    BY <1>2, <1>3, RowsElsewhere

LEMMA RowsPack ==
  ASSUME McfrInv, RowsInv, NEW w \in Writer, NEW settlement,
         FinishPacks(w, settlement)
  PROVE  RowsInv'
PROOF
  <1>1. PICK f \in Flushes(members[w], rows[w]) :
          /\ rows' = [rows EXCEPT ![w] = f.rows]
          /\ members' = [members EXCEPT ![w] = f.members]
          /\ \/ /\ f.ok /\ Ends(w, "packed", NoAnswer)
                /\ packed' = [packed EXCEPT
                                ![w] = Container(w, f.members, settlement)]
             \/ Ends(w, "over", Failed) /\ UNCHANGED packed
    BY DEF FinishPacks, LastFlush
  <1>2. /\ rows \in [Writer -> TableRows] /\ members \in [Writer -> TableRows]
    BY DEF RowsInv, RowsOK
  <1>3. /\ f.members \in TableRows /\ f.rows \in TableRows
        /\ f.ok =>
             /\ f.rows = Empty
             /\ Range(f.members.units) =
                  Range(members[w].units) \cup Range(rows[w].units)
             /\ Range(f.members.events) =
                  Range(members[w].events) \cup Range(rows[w].events)
    <2>1. members[w] \in TableRows /\ rows[w] \in TableRows
      BY <1>2
    <2> DEFINE m == members[w]
               r == rows[w]
    <2>2. m \in TableRows /\ r \in TableRows /\ f \in Flushes(m, r)
      BY <1>1, <2>1
    <2> HIDE DEF m, r
    <2>3. /\ f.members \in TableRows /\ f.rows \in TableRows
          /\ f.ok =>
               /\ f.rows = Empty
               /\ Range(f.members.units) = Range(m.units) \cup Range(r.units)
               /\ Range(f.members.events) =
                    Range(m.events) \cup Range(r.events)
      BY <2>2, FlushIs
    <2> QED
      BY <2>3 DEF m, r
  <1>4. /\ RowsOK'
        /\ \A v \in Writer \ {w} :
             rows'[v] = rows[v] /\ members'[v] = members[v]
    BY <1>1, <1>2, <1>3 DEF RowsOK
  <1>5. CASE Ends(w, "over", Failed) /\ UNCHANGED packed
    BY <1>4, <1>5, RowsOver
  <1>6. CASE /\ f.ok /\ Ends(w, "packed", NoAnswer)
             /\ packed' = [packed EXCEPT
                             ![w] = Container(w, f.members, settlement)]
    <2> DEFINE c == Container(w, f.members, settlement)
    <2>1. c.units = f.members.units /\ c.events = f.members.events
      BY DEF Container
    <2> HIDE DEF c
    <2>2. /\ packed'[w] = c
          /\ \A v \in Writer \ {w} : packed'[v] = packed[v]
      BY <1>6 DEF McfrInv, TimelineOK, c
    <2>3. "packed" \in Stages
      BY DEF Stages
    <2>4. /\ stage'[w] = "packed" /\ UNCHANGED <<hashes, poisoned, healed>>
          /\ \A v \in Writer \ {w} : stage'[v] = stage[v]
      BY <1>6, <2>3, Ended
    <2>5. w \in Stores /\ stage[w] = "open" /\ ~ poisoned[w]
      BY DEF FinishPacks, Finishes
    <2>6. Kept(w)'
      <3> SUFFICES ASSUME ~ healed[w]
                   PROVE  /\ Range(c.units) = UnitsOf(hashes[w])
                          /\ Range(c.events) = EventsOf(hashes[w])
        BY <2>2, <2>4 DEF Kept, UnitsOf, EventsOf
      <3>1. /\ Range(members[w].units) \cup Range(rows[w].units) =
                 UnitsOf(hashes[w])
            /\ Range(members[w].events) \cup Range(rows[w].events) =
                 EventsOf(hashes[w])
        BY <2>5 DEF RowsInv, Covered
      <3> QED
        BY <1>3, <1>6, <2>1, <3>1
    <2>7. Numbered(w)' /\ Covered(w)'
      BY <2>4 DEF RowsInv, Numbered, Covered
    <2> QED
      BY <1>4, <2>2, <2>4, <2>6, <2>7, RowsElsewhere
  <1> QED
    BY <1>1, <1>5, <1>6

LEMMA RowsPublish ==
  ASSUME McfrInv, RowsInv, NEW w \in Writer, Publish(w)
  PROVE  RowsInv'
PROOF
  <1>1. /\ stage[w] = "packed"
        /\ Ends(w, "published",
                [kind |-> "hashes", result |-> packed[w].result])
        /\ UNCHANGED <<rows, members, packed>>
    BY DEF Publish, storageVars
  <1>2. "published" \in Stages
    BY DEF Stages
  <1>3. /\ stage'[w] = "published" /\ UNCHANGED <<hashes, poisoned, healed>>
        /\ \A v \in Writer \ {w} : stage'[v] = stage[v]
    BY <1>1, <1>2, Ended
  <1>4. RowsOK' /\ Numbered(w)' /\ Covered(w)' /\ Kept(w)'
    BY <1>1, <1>3 DEF RowsInv, RowsOK, Numbered, Covered, Kept, UnitsOf,
                      EventsOf
  <1> QED
    BY <1>1, <1>3, <1>4, RowsElsewhere

LEMMA RowsCreate ==
  ASSUME McfrInv, RowsInv, NEW w \in Writer, Create(w)
  PROVE  RowsInv'
PROOF
  <1>1. /\ stage[w] = "none" /\ stage' = [stage EXCEPT ![w] = "open"]
        /\ UNCHANGED <<hashes, poisoned, healed, rows, members, packed>>
    BY DEF Create, timelineVars, storageVars, historyVars
  <1>2. /\ stage'[w] = "open" /\ \A v \in Writer \ {w} : stage'[v] = stage[v]
    BY <1>1 DEF McfrInv, TimelineOK
  <1>3. RowsOK' /\ Numbered(w)' /\ Kept(w)'
    BY <1>1, <1>2 DEF RowsInv, RowsOK, Numbered, Kept
  <1>4. w \in Stores => Covered(w)'
    BY <1>1, <1>2 DEF RowsInv, Covered, UnitsOf, EventsOf
  <1> QED
    BY <1>1, <1>2, <1>3, <1>4, RowsElsewhere

LEMMA RowsStep == McfrInv /\ RowsInv /\ [McfrNext]_mcfrVars => RowsInv'
PROOF
  <1> SUFFICES ASSUME McfrInv, RowsInv, [McfrNext]_mcfrVars PROVE RowsInv'
    OBVIOUS
  <1>1. CASE UNCHANGED mcfrVars
    BY <1>1 DEF mcfrVars, timelineVars, storageVars, historyVars, RowsInv,
                RowsOK, Numbered, Covered, Kept, UnitsOf, EventsOf
  <1>2. ASSUME NEW w \in Writer, NEW what, Ends(w, "over", what),
               UNCHANGED <<rows, members, packed>>
        PROVE  RowsInv'
    <2>1. RowsOK'
      BY <1>2 DEF RowsInv, RowsOK
    <2> QED
      BY <1>2, <2>1, RowsOver
  <1>3. ASSUME NEW w \in Writer, CreateRefused(w) PROVE RowsInv'
    <2>1. Ends(w, "over", Failed)
      BY <1>3 DEF CreateRefused, Ends
    <2> QED
      BY <1>2, <1>3, <2>1 DEF CreateRefused, storageVars
  <1>4. ASSUME NEW w \in Writer, Appends(w) PROVE RowsInv'
    BY <1>4, RowsAppendHash, RowsAppendRefused, RowsAppendTick, RowsInstrument
       DEF Appends
  <1>5. ASSUME NEW w \in Writer, FinishCalled(w) PROVE RowsInv'
    BY <1>2, <1>5, RowsPack
       DEF FinishCalled, FinishRefused, FinishHashes, storageVars
  <1>6. ASSUME NEW w \in Writer, PublishFails(w) \/ Drop(w) PROVE RowsInv'
    BY <1>2, <1>6 DEF PublishFails, Drop, storageVars
  <1> QED
    BY <1>1, <1>3, <1>4, <1>5, <1>6, RowsCreate, RowsPublish DEF McfrNext

LEMMA RowsInitInv == McfrInit => RowsInv
PROOF
  <1> SUFFICES ASSUME McfrInit PROVE RowsInv
    OBVIOUS
  <1>1. /\ Empty \in TableRows
        /\ Range(Empty.units) = {} /\ Range(Empty.events) = {}
    BY EmptySeq DEF Empty, TableRows, Range
  <1>2. UnitsOf(<<>>) = {} /\ EventsOf(<<>>) = {}
    BY DEF UnitsOf, EventsOf
  <1>3. Stores \subseteq Writer
    BY McfrAssumption DEF McfrAssumption
  <1>4. RowsOK /\ \A w \in Writer : Numbered(w) /\ Kept(w)
    BY <1>1 DEF McfrInit, RowsOK, Numbered, Kept
  <1>5. ASSUME NEW w \in Stores PROVE Covered(w)
    BY <1>1, <1>2, <1>3 DEF McfrInit, Covered
  <1> QED
    BY <1>4, <1>5 DEF RowsInv

LEMMA RowsInvariance == McfrSpec => []RowsInv
PROOF
  <1> USE McfrInvariance
  <1> QED
    BY RowsInitInv, RowsStep, PTL DEF McfrSpec

(* A container with the rows of its ticks reads back.                      *)
LEMMA KeptReads ==
  ASSUME NEW c, c.ticks \in Seq(Hash),
         \A t \in DOMAIN c.ticks : c.ticks[t].tick = t,
         Range(c.units) = UnitsOf(c.ticks),
         Range(c.events) = EventsOf(c.ticks),
         NEW t \in DOMAIN c.ticks
  PROVE  Reads(c, t)
PROOF
  <1> DEFINE h == c.ticks[t]
  <1>1. h \in Hash /\ h.tick = t /\ t \in Nat
    BY LenProperties
  <1>2. /\ h = [tick |-> t, units |-> h.units, events |-> h.events]
        /\ h.units \in SUBSET Unit /\ h.events \in Seq(Events)
    BY <1>1 DEF Hash
  <1>3. UnitsAt(c, t) = h.units
    <2>1. ASSUME NEW i \in DOMAIN c.units, c.units[i][1] = t
          PROVE  c.units[i][2] \in h.units
      <3>1. c.units[i] \in UnitsOf(c.ticks)
        BY DEF Range
      <3> QED
        BY <2>1, <3>1 DEF UnitsOf
    <2>2. ASSUME NEW u \in h.units
          PROVE  \E i \in DOMAIN c.units : c.units[i] = <<t, u>>
      <3>1. <<t, u>> \in UnitsOf(c.ticks)
        BY <1>1, <1>2 DEF UnitsOf
      <3> QED
        BY <3>1 DEF Range
    <2>3. ASSUME NEW u \in h.units PROVE u \in UnitsAt(c, t)
      <3>1. PICK i \in DOMAIN c.units : c.units[i] = <<t, u>>
        BY <2>2
      <3>2. c.units[i][1] = t /\ c.units[i][2] = u
        BY <3>1
      <3> QED
        BY <3>2 DEF UnitsAt
    <2>4. \A u \in UnitsAt(c, t) : u \in h.units
      BY <2>1 DEF UnitsAt
    <2> QED
      BY <2>3, <2>4
  <1>4. EventsAt(c, t) = h.events
    <2> DEFINE own == {i \in DOMAIN c.events : c.events[i][1] = t}
               D == {c.events[i][2] : i \in own}
    <2>1. ASSUME NEW i \in own
          PROVE  /\ c.events[i][2] \in DOMAIN h.events
                 /\ c.events[i][3] = h.events[c.events[i][2]]
      <3>1. c.events[i] \in EventsOf(c.ticks)
        BY DEF Range
      <3> QED
        BY <2>1, <3>1 DEF EventsOf
    <2>2. ASSUME NEW k \in DOMAIN h.events
          PROVE  \E i \in own : c.events[i][2] = k
      <3>1. k \in Nat /\ h.events[k] \in Events
        BY <1>2
      <3>2. <<t, k, h.events[k]>> \in EventsOf(c.ticks)
        BY <1>1, <3>1 DEF EventsOf
      <3> QED
        BY <3>2 DEF Range
    <2> HIDE DEF own, h
    <2>3. D = DOMAIN h.events
      BY <2>1, <2>2
    <2>4. ASSUME NEW k \in DOMAIN h.events
          PROVE  c.events[CHOOSE i \in own : c.events[i][2] = k][3] =
                   h.events[k]
      <3> DEFINE i == CHOOSE i \in own : c.events[i][2] = k
      <3>1. i \in own /\ c.events[i][2] = k
        BY <2>2
      <3> QED
        BY <2>1, <3>1
    <2>5. EventsAt(c, t) =
            [k \in D |-> c.events[CHOOSE i \in own : c.events[i][2] = k][3]]
      BY DEF EventsAt, own
    <2>6. h.events = [k \in DOMAIN h.events |-> h.events[k]]
      BY <1>2
    <2> HIDE DEF D
    <2> QED
      BY <2>3, <2>4, <2>5, <2>6
  <1> QED
    BY <1>2, <1>3, <1>4 DEF Reads

(* What a writer has published opens, has the result that it answered, and *)
(* reads back tick for tick as it was appended, the rows that were still   *)
(* buffered when finish() was called included.                             *)
THEOREM PublishedReadsBack == McfrSpec => []ReadsBack
PROOF
  <1>1. ASSUME McfrInv, RowsInv, NEW w \in Writer, stage[w] = "published"
        PROVE  /\ target = packed[w]
               /\ Opens(target)
               /\ answer[w].result = <<target.ticks, target.settlement>>
               /\ ~ healed[w] => /\ target.ticks = hashes[w]
                                 /\ \A t \in DOMAIN target.ticks :
                                      Reads(target, t)
    <2>1. /\ target = packed[w] /\ Opens(packed[w])
          /\ answer[w].result = packed[w].result
          /\ ~ healed[w] => packed[w].ticks = hashes[w]
      BY <1>1 DEF McfrInv, Verified, Stands
    <2>2. packed[w].result = <<packed[w].ticks, packed[w].settlement>>
      BY <2>1 DEF Opens
    <2>3. ASSUME ~ healed[w]
          PROVE  \A t \in DOMAIN packed[w].ticks : Reads(packed[w], t)
      <3>1. /\ Range(packed[w].units) = UnitsOf(packed[w].ticks)
            /\ Range(packed[w].events) = EventsOf(packed[w].ticks)
        BY <1>1, <2>1, <2>3 DEF RowsInv, Kept
      <3>2. /\ packed[w].ticks \in Seq(Hash)
            /\ \A t \in DOMAIN packed[w].ticks : packed[w].ticks[t].tick = t
        BY <1>1, <2>1, <2>3 DEF McfrInv, TimelineOK, RowsInv, Numbered
      <3> QED
        BY <3>1, <3>2, KeptReads
    <2> QED
      BY <2>1, <2>2, <2>3
  <1>2. McfrInv /\ RowsInv => ReadsBack
    BY <1>1 DEF ReadsBack
  <1> QED
    BY <1>2, McfrInvariance, RowsInvariance, PTL

-----------------------------------------------------------------------------
(* Types.                                                                  *)

(* What the other two invariants leave open: the files, the answers, the   *)
(* tick last taken and the channels.                                       *)
ContentsOK ==
  /\ target \in Files \cup {NoFile}
  /\ begun \in [Writer -> BOOLEAN]
  /\ last \in [Writer -> SUBSET Unit]
  /\ channel \in [Writer -> Channels]
  /\ packed \in [Writer -> Files \cup {NoFile}]
  /\ answer \in [Writer -> Answer]
  /\ failures \in [Writer -> 0..MaxFailures]

LEMMA SettlementsAre ==
  ASSUME NEW w \in Writer, NEW settlement \in Settlements(w)
  PROVE  settlement \in SUBSET Unit
PROOF
  BY McfrAssumption DEF McfrAssumption, Settlements

(* A container is made of what its writer has, and of a flush.             *)
LEMMA ContainerIs ==
  ASSUME McfrInv, RowsInv, ContentsOK, NEW w \in Writer,
         NEW f \in Flushes(members[w], rows[w]),
         NEW settlement \in SUBSET Unit
  PROVE  Container(w, f.members, settlement) \in Files
PROOF
  <1> DEFINE m == members[w]
             r == rows[w]
  <1>1. m \in TableRows /\ r \in TableRows
    BY DEF RowsInv, RowsOK
  <1>2. f \in Flushes(m, r)
    OBVIOUS
  <1> HIDE DEF m, r
  <1>3. f.members \in TableRows
    BY <1>1, <1>2, FlushIs
  <1>4. /\ f.members.units \in Seq(Nat \X Unit)
        /\ f.members.events \in Seq(Nat \X Nat \X Events)
    BY <1>3 DEF TableRows
  <1>5. channel[w] \in Channels
    BY DEF ContentsOK
  <1>6. stored[w] \in Seq(Hash) /\ hashes[w] \in Seq(Hash)
    BY DEF McfrInv, TimelineOK
  <1>7. ResultOf(w, settlement) \in Results
    BY <1>6 DEF ResultOf, Results
  <1> QED
    BY <1>4, <1>5, <1>6, <1>7 DEF Container, Files

(* A step that ends a writer, or packs for it.                             *)
LEMMA EndsTyped ==
  ASSUME ContentsOK, NEW w \in Writer, NEW stg, NEW what \in Answer,
         Ends(w, stg, what)
  PROVE  /\ begun' \in [Writer -> BOOLEAN]
         /\ last' \in [Writer -> SUBSET Unit]
         /\ answer' \in [Writer -> Answer]
         /\ failures' \in [Writer -> 0..MaxFailures]
PROOF
  BY DEF Ends, ContentsOK, timelineVars, historyVars

LEMMA Failures ==
  ASSUME ContentsOK, NEW w \in Writer, Breaks(w) \/ Succeeds(w)
  PROVE  failures' \in [Writer -> 0..MaxFailures]
PROOF
  <1>1. CASE Succeeds(w)
    BY <1>1 DEF Succeeds, ContentsOK
  <1>2. CASE Breaks(w)
    <2>1. MaxFailures \in Nat
      BY McfrAssumption DEF McfrAssumption
    <2>2. failures[w] \in 0..MaxFailures /\ failures[w] < MaxFailures
      BY <1>2 DEF Breaks, ContentsOK
    <2>3. failures[w] + 1 \in 0..MaxFailures
      BY <2>1, <2>2
    <2> QED
      BY <1>2, <2>3 DEF Breaks, ContentsOK
  <1> QED
    BY <1>1, <1>2

LEMMA TakesTyped ==
  ASSUME ContentsOK, NEW w \in Writer, NEW in \in Inputs[w], Takes(w, in),
         Breaks(w) \/ Succeeds(w)
  PROVE  ContentsOK'
PROOF
  <1>1. in.units \in SUBSET Unit
    BY McfrAssumption DEF McfrAssumption
  <1>2. begun' \in [Writer -> BOOLEAN] /\ last' \in [Writer -> SUBSET Unit]
    BY <1>1 DEF Takes, ContentsOK
  <1> QED
    BY <1>2, Failures DEF Takes, ContentsOK

LEMMA InstrumentTyped ==
  ASSUME McfrInv, ContentsOK, NEW w \in Writer, AppendInstrument(w)
  PROVE  ContentsOK'
PROOF
  <1>1. channel[w] \in Channels /\ DOMAIN channel = Writer
    BY DEF ContentsOK
  <1>2. channel[w].open \in BOOLEAN /\ channel[w].rows \in Seq(Nat)
    BY <1>1 DEF Channels
  <1>3. ASSUME NEW row \in {<<>>, <<Len(hashes[w])>>},
               channel' = [channel EXCEPT ![w] =
                             [open |-> TRUE, rows |-> @.rows \o row]]
        PROVE  channel' \in [Writer -> Channels]
    <2>1. Len(hashes[w]) \in Nat
      BY LenProperties DEF McfrInv, TimelineOK
    <2>2. row \in Seq(Nat)
      <3>1. <<>> \in Seq(Nat) /\ <<Len(hashes[w])>> \in Seq(Nat)
        BY <2>1
      <3>2. row = <<>> \/ row = <<Len(hashes[w])>>
        OBVIOUS
      <3> QED
        BY <3>1, <3>2
    <2>3. channel[w].rows \o row \in Seq(Nat)
      BY <1>2, <2>2, ConcatProperties
    <2>4. [open |-> TRUE, rows |-> channel[w].rows \o row] \in Channels
      BY <2>3 DEF Channels
    <2> QED
      BY <1>3, <2>4 DEF ContentsOK
  <1>4. ASSUME NEW opened \in {channel[w].open, TRUE},
               channel' = [channel EXCEPT ![w].open = opened]
        PROVE  channel' \in [Writer -> Channels]
    <2>1. opened \in BOOLEAN
      BY <1>2
    <2>2. [channel[w] EXCEPT !.open = opened] \in Channels
      BY <1>1, <2>1 DEF Channels
    <2>3. channel' = [channel EXCEPT ![w] =
                        [channel[w] EXCEPT !.open = opened]]
      BY <1>4
    <2> QED
      BY <2>2, <2>3 DEF ContentsOK
  <1>5. channel' \in [Writer -> Channels]
    BY <1>3, <1>4 DEF AppendInstrument
  <1> QED
    BY <1>5, Failures DEF AppendInstrument, ContentsOK

LEMMA PacksTyped ==
  ASSUME McfrInv, RowsInv, ContentsOK, NEW w \in Writer,
         NEW settlement \in Settlements(w), FinishPacks(w, settlement)
  PROVE  ContentsOK'
PROOF
  <1>1. PICK f \in Flushes(members[w], rows[w]) :
          \/ /\ Ends(w, "packed", NoAnswer)
             /\ packed' = [packed EXCEPT
                             ![w] = Container(w, f.members, settlement)]
          \/ Ends(w, "over", Failed) /\ UNCHANGED packed
    BY DEF FinishPacks, LastFlush
  <1> DEFINE c == Container(w, f.members, settlement)
  <1>2. c \in Files
    BY SettlementsAre, ContainerIs
  <1> HIDE DEF c
  <1>3. packed' \in [Writer -> Files \cup {NoFile}]
    BY <1>1, <1>2 DEF ContentsOK, c
  <1>4. NoAnswer \in Answer /\ Failed \in Answer
    BY DEF Answer
  <1>5. /\ begun' \in [Writer -> BOOLEAN]
        /\ last' \in [Writer -> SUBSET Unit]
        /\ answer' \in [Writer -> Answer]
        /\ failures' \in [Writer -> 0..MaxFailures]
    BY <1>1, <1>4, EndsTyped
  <1>6. UNCHANGED <<target, channel>>
    BY DEF FinishPacks
  <1> QED
    BY <1>3, <1>5, <1>6 DEF ContentsOK

LEMMA PublishTyped ==
  ASSUME McfrInv, ContentsOK, NEW w \in Writer, Publish(w)
  PROVE  ContentsOK'
PROOF
  <1>1. packed[w] \in Files
    <2>1. packed[w].kind = "file"
      BY DEF Publish, McfrInv, Verified
    <2>2. packed[w] # NoFile
      BY <2>1 DEF NoFile
    <2> QED
      BY <2>2 DEF ContentsOK
  <1>2. [kind |-> "hashes", result |-> packed[w].result] \in Answer
    BY <1>1 DEF Files, Answer
  <1>3. /\ begun' \in [Writer -> BOOLEAN]
        /\ last' \in [Writer -> SUBSET Unit]
        /\ answer' \in [Writer -> Answer]
        /\ failures' \in [Writer -> 0..MaxFailures]
    BY <1>2, EndsTyped DEF Publish
  <1>4. target' \in Files \cup {NoFile} /\ UNCHANGED <<channel, packed>>
    BY <1>1 DEF Publish, storageVars
  <1> QED
    BY <1>3, <1>4 DEF ContentsOK

LEMMA ContentsStep ==
  McfrInv /\ RowsInv /\ ContentsOK /\ [McfrNext]_mcfrVars => ContentsOK'
PROOF
  <1> SUFFICES ASSUME McfrInv, RowsInv, ContentsOK, [McfrNext]_mcfrVars
               PROVE  ContentsOK'
    OBVIOUS
  <1>0. NoAnswer \in Answer /\ Failed \in Answer
    BY DEF Answer
  <1>1. CASE UNCHANGED mcfrVars
    BY <1>1 DEF mcfrVars, timelineVars, storageVars, historyVars, ContentsOK
  <1>2. ASSUME NEW w \in Writer, NEW what \in Answer, Ends(w, "over", what),
               UNCHANGED <<target, channel, packed>>
        PROVE  ContentsOK'
    BY <1>2, EndsTyped DEF ContentsOK
  <1>3. ASSUME NEW w \in Writer, Create(w) PROVE ContentsOK'
    BY <1>3 DEF Create, timelineVars, storageVars, historyVars, ContentsOK
  <1>4. ASSUME NEW w \in Writer, CreateRefused(w) PROVE ContentsOK'
    <2>1. Ends(w, "over", Failed)
      BY <1>4 DEF CreateRefused, Ends
    <2> QED
      BY <1>0, <1>2, <1>4, <2>1 DEF CreateRefused, storageVars
  <1>5. ASSUME NEW w \in Writer, Appends(w) PROVE ContentsOK'
    <2>1. ASSUME NEW in \in Inputs[w],
                 \/ AppendHash(w, in) \/ AppendRefused(w, in)
                 \/ AppendTick(w, in)
          PROVE  Takes(w, in) /\ (Breaks(w) \/ Succeeds(w))
      BY <2>1 DEF AppendHash, AppendRefused, AppendTick, Counts, Uncounted
    <2> QED
      BY <1>5, <2>1, TakesTyped, InstrumentTyped DEF Appends
  <1>6. ASSUME NEW w \in Writer, FinishCalled(w) PROVE ContentsOK'
    <2>1. PICK settlement \in Settlements(w) :
            \/ FinishRefused(w, settlement)
            \/ FinishHashes(w, settlement)
            \/ FinishPacks(w, settlement)
      BY <1>6 DEF FinishCalled
    <2>2. CASE FinishRefused(w, settlement)
      BY <1>0, <1>2, <2>2 DEF FinishRefused, storageVars
    <2>3. CASE FinishHashes(w, settlement)
      <3>1. ResultOf(w, settlement) \in Results
        BY SettlementsAre DEF ResultOf, Results, McfrInv, TimelineOK
      <3>2. Answers(w, settlement) \in Answer
        BY <3>1 DEF Answers, Answer
      <3> QED
        BY <1>2, <2>3, <3>2 DEF FinishHashes, storageVars
    <2>4. CASE FinishPacks(w, settlement)
      BY <2>4, PacksTyped
    <2> QED
      BY <2>1, <2>2, <2>3, <2>4
  <1>7. ASSUME NEW w \in Writer, PublishFails(w) \/ Drop(w) PROVE ContentsOK'
    BY <1>0, <1>2, <1>7 DEF PublishFails, Drop, storageVars
  <1> QED
    BY <1>1, <1>3, <1>4, <1>5, <1>6, <1>7, PublishTyped DEF McfrNext

(* Every variable keeps its type, the files and the answers included, and  *)
(* the storage's list of ticks is never behind the writer's.               *)
THEOREM McfrTypeCorrect == McfrSpec => []McfrTypeOK
PROOF
  <1>1. McfrInit => ContentsOK
    <2> SUFFICES ASSUME McfrInit PROVE ContentsOK
      OBVIOUS
    <2>1. [open |-> FALSE, rows |-> <<>>] \in Channels
      BY DEF Channels
    <2>2. NoAnswer \in Answer
      BY DEF Answer
    <2>3. 0 \in 0..MaxFailures
      BY McfrAssumption DEF McfrAssumption
    <2> QED
      BY <2>1, <2>2, <2>3 DEF McfrInit, ContentsOK
  <1>2. McfrInv /\ RowsInv /\ ContentsOK => McfrTypeOK
    BY DEF McfrInv, TimelineOK, Stages, InListOrder, RowsInv, RowsOK,
           ContentsOK, McfrTypeOK
  <1> USE McfrInvariance, RowsInvariance
  <1> QED
    BY <1>1, <1>2, ContentsStep, PTL DEF McfrSpec
=============================================================================
