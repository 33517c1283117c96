------------------------------ MODULE McfrWriter ------------------------------
(***************************************************************************)
(* The writer of an MCFR container: writer.rs over parquet_storage.rs.     *)
(*                                                                         *)
(* Ticks are appended one at a time.  Their rows wait in buffers, one for  *)
(* each table, and go to the tables' members a row group at a time; the    *)
(* rows of an instrument channel go to its member at once.  finish writes  *)
(* the last group and the tick hashes, packs the members into one file,    *)
(* opens that file again to verify it, and renames it to the target.  Any  *)
(* write may fail, a process may be killed, and writers may share a target.*)
(*                                                                         *)
(* A hash is the value it is the hash of.  Each unit is a formation of its *)
(* own, so that a settlement names units, and "units" stands for every     *)
(* table of objects: their rows differ, what is done with them does not.   *)
(***************************************************************************)
EXTENDS Integers, Sequences, FiniteSets, SequencesExt

CONSTANTS
  Writer,     (* the writers, all with one target                          *)
  Stores,     (* those that have a file; the others keep hashes alone      *)
  Unit,       (* the numbers a unit may have                               *)
  Inputs,     (* Inputs[w]: the ticks w's caller may append                *)
  Instrumented, (* those whose caller asked for an instrument channel      *)
  GroupTicks, (* TICKS_PER_ROW_GROUP                                       *)
  MaxTicks,   (* MaxTicks[w]: bound on the ticks of w's recording            *)
  MaxFailures (* bound on the appends of a writer that fail                *)

(* An event the storage takes, and one whose references it refuses.        *)
Events == {"good", "bad"}

ASSUME McfrAssumption ==
  /\ Stores \subseteq Writer
  /\ Instrumented \subseteq Stores
  /\ Unit \subseteq Nat \ {0}
  /\ IsFiniteSet(Unit)
  /\ GroupTicks \in Nat \ {0}
  /\ \A w \in Writer : MaxTicks[w] \in Nat
  /\ MaxFailures \in Nat
  /\ \A w \in Writer : Inputs[w] \subseteq [units : SUBSET Unit,
                                            events : Seq(Events)]

Tables == <<"units", "events">>
Empty == [units |-> <<>>, events |-> <<>>]
NoFile == [kind |-> "none"]
NoAnswer == [kind |-> "none"]
Failed == [kind |-> "failed"]

VARIABLES
  target,   (* what stands at the target                                   *)
  stage,    (* how far each writer has come                                *)
  hashes,   (* the hashes of the ticks it has accepted                     *)
  begun,    (* its first snapshot has been seen to be numbered in order    *)
  poisoned, (* an append broke off                                         *)
  last,     (* the formations of the tick last taken                       *)
  rows,     (* the storage's buffers                                       *)
  members,  (* the tables' row groups on disk                              *)
  channel,  (* the ticks of the rows of an instrument channel, where open  *)
  stored,   (* the storage's own list of tick hashes                       *)
  packed,   (* the container a writer has packed and verified              *)
  answer,   (* what finish answered                                        *)
  failures, (* history: the appends that broke off                         *)
  healed    (* history: an append succeeded after one that broke off       *)

storageVars == <<rows, members, channel, stored>>
timelineVars == <<hashes, begun, poisoned, last>>
historyVars == <<failures, healed>>
mcfrVars == <<target, stage, timelineVars, storageVars, packed, answer,
              historyVars>>

McfrInit ==
  /\ target = NoFile
  /\ stage = [w \in Writer |-> "none"]
  /\ hashes = [w \in Writer |-> <<>>]
  /\ begun = [w \in Writer |-> FALSE]
  /\ poisoned = [w \in Writer |-> FALSE]
  /\ last = [w \in Writer |-> {}]
  /\ rows = [w \in Writer |-> Empty]
  /\ members = [w \in Writer |-> Empty]
  /\ channel = [w \in Writer |-> [open |-> FALSE, rows |-> <<>>]]
  /\ stored = [w \in Writer |-> <<>>]
  /\ packed = [w \in Writer |-> NoFile]
  /\ answer = [w \in Writer |-> NoAnswer]
  /\ failures = [w \in Writer |-> 0]
  /\ healed = [w \in Writer |-> FALSE]

-----------------------------------------------------------------------------
(* Rows.                                                                   *)

(* What a tick adds to the buffers: its units by number, its events by     *)
(* their place among the tick's events.                                    *)
ByNumber(units) ==
  CHOOSE seq \in [1..Cardinality(units) -> units] :
    \A i, j \in DOMAIN seq : i < j => seq[i] < seq[j]
UnitRows(t, units) ==
  [k \in 1..Cardinality(units) |-> <<t, ByNumber(units)[k]>>]
EventRows(t, events) == [k \in DOMAIN events |-> <<t, k, events[k]>>]

(* The members once the first n tables have had their row group.           *)
Written(m, r, n) ==
  [units |-> IF n >= 1 THEN m.units \o r.units ELSE m.units,
   events |-> IF n >= 2 THEN m.events \o r.events ELSE m.events]

LastGroupLost(m, r) ==  (* slip: the last group is never written *)
  {[members |-> m, rows |-> Empty, ok |-> TRUE]}

(* flush(): a row group to each table in turn, and then the channels; the  *)
(* buffers are cleared when all of it has been written.                    *)
Flushes(m, r) ==
  {[members |-> Written(m, r, n), rows |-> r, ok |-> FALSE] :
     n \in 0..Len(Tables)}
  \cup {[members |-> Written(m, r, Len(Tables)), rows |-> Empty, ok |-> TRUE]}

(* The flush that finish() begins with.                                    *)
LastFlush(m, r) == Flushes(m, r)

-----------------------------------------------------------------------------
(* The reader.                                                             *)

(* Units are strictly ordered by tick and number, events by tick and place *)
(* without a gap, and every row is of a tick the container has.            *)
Ordered(seq) ==
  \A k \in 1..Len(seq) - 1 :
    \/ seq[k][1] < seq[k + 1][1]
    \/ seq[k][1] = seq[k + 1][1] /\ seq[k][2] < seq[k + 1][2]
Gapless(seq) ==
  \A k \in DOMAIN seq :
    seq[k][2] = IF k > 1 /\ seq[k - 1][1] = seq[k][1]
                THEN seq[k - 1][2] + 1 ELSE 1
Within(seq, n) == \A k \in DOMAIN seq : seq[k][1] \in 1..n

UnitsAt(c, t) == {c.units[k][2] : k \in {i \in DOMAIN c.units : c.units[i][1] = t}}
EventsAt(c, t) ==
  LET own == {i \in DOMAIN c.events : c.events[i][1] = t}
  IN  [place \in {c.events[i][2] : i \in own} |->
         c.events[CHOOSE i \in own : c.events[i][2] = place][3]]

(* The first snapshot is numbered from one without a gap.                  *)
InOrder(units) == units = 1..Cardinality(units)

(* McfrReader::open(): the structure, and the result hash against the tick *)
(* hashes and the settlement, but not the ticks' contents.                 *)
Opens(c) ==
  /\ c.ticks # <<>>
  /\ c.result = <<c.ticks, c.settlement>>
  /\ Ordered(c.units) /\ Ordered(c.events) /\ Gapless(c.events)
  /\ Within(c.units, Len(c.ticks)) /\ Within(c.events, Len(c.ticks))
  /\ InOrder(UnitsAt(c, 1))
  /\ c.settlement = UnitsAt(c, Len(c.ticks))

(* What tick() checks besides: the hash of the content that is read.       *)
Reads(c, t) ==
  c.ticks[t] = [tick |-> t, units |-> UnitsAt(c, t), events |-> EventsAt(c, t)]

-----------------------------------------------------------------------------
(* The writers.                                                            *)

(* create(), for a target that does not exist; a writer of hashes has none.*)
Create(w) ==
  /\ stage[w] = "none"
  /\ w \in Stores => target = NoFile
  /\ stage' = [stage EXCEPT ![w] = "open"]
  /\ UNCHANGED <<target, timelineVars, storageVars, packed, answer, historyVars>>

CreateRefused(w) ==
  /\ stage[w] = "none"
  /\ w \in Stores
  /\ target # NoFile
  /\ stage' = [stage EXCEPT ![w] = "over"]
  /\ answer' = [answer EXCEPT ![w] = Failed]
  /\ UNCHANGED <<target, timelineVars, storageVars, packed, historyVars>>

Succeeds(w) ==
  /\ poisoned' = [poisoned EXCEPT ![w] = FALSE]
  /\ healed' = [healed EXCEPT ![w] = @ \/ poisoned[w]]
  /\ UNCHANGED failures

Breaks(w) ==
  /\ failures[w] < MaxFailures
  /\ failures' = [failures EXCEPT ![w] = @ + 1]
  /\ poisoned' = [poisoned EXCEPT ![w] = TRUE]
  /\ UNCHANGED healed

NextTick(w) == Len(hashes[w]) + 1
HashOf(t, in) == [tick |-> t, units |-> in.units, events |-> in.events]

(* The storage lists every tick it takes, before it flushes.               *)
Stored(w, in) == Append(stored[w], HashOf(NextTick(w), in))

(* The tick is hashed and counted once the storage has taken it.           *)
Counts(w, in) ==
  /\ hashes' = [hashes EXCEPT ![w] = Append(@, HashOf(NextTick(w), in))]
  /\ Succeeds(w)
Uncounted(w) == UNCHANGED hashes /\ Breaks(w)

(* append_tick() has taken a tick that is numbered in order.               *)
Takes(w, in) ==
  /\ stage[w] = "open"
  /\ Len(hashes[w]) < MaxTicks[w]
  /\ begun[w] \/ InOrder(in.units)
  /\ begun' = [begun EXCEPT ![w] = TRUE]
  /\ last' = [last EXCEPT ![w] = in.units]
  /\ UNCHANGED <<target, stage, channel, packed, answer>>

Buffered(w, in) ==
  [rows[w] EXCEPT !.units = @ \o UnitRows(NextTick(w), in.units)]

(* A writer of hashes has no storage to refuse anything.                   *)
AppendHash(w, in) ==
  /\ w \notin Stores
  /\ Takes(w, in)
  /\ Counts(w, in)
  /\ UNCHANGED <<rows, members, stored>>

(* The state's rows are buffered before the events are looked at.          *)
AppendRefused(w, in) ==
  /\ w \in Stores
  /\ "bad" \in Range(in.events)
  /\ Takes(w, in)
  /\ rows' = [rows EXCEPT ![w] = Buffered(w, in)]
  /\ Uncounted(w)
  /\ UNCHANGED <<members, stored>>

(* A tick that ends a row group flushes; the storage has it in its own     *)
(* list by then, whatever becomes of the flush.                            *)
AppendTick(w, in) ==
  /\ w \in Stores
  /\ "bad" \notin Range(in.events)
  /\ Takes(w, in)
  /\ stored' = [stored EXCEPT ![w] = Stored(w, in)]
  /\ LET full == [Buffered(w, in) EXCEPT
                    !.events = @ \o EventRows(NextTick(w), in.events)]
     IN  \/ /\ NextTick(w) % GroupTicks # 0
            /\ rows' = [rows EXCEPT ![w] = full]
            /\ Counts(w, in)
            /\ UNCHANGED members
         \/ /\ NextTick(w) % GroupTicks = 0
            /\ \E f \in Flushes(members[w], full) :
                 /\ rows' = [rows EXCEPT ![w] = f.rows]
                 /\ members' = [members EXCEPT ![w] = f.members]
                 /\ IF f.ok THEN Counts(w, in) ELSE Uncounted(w)

(* append_instrument(): a row for the tick last accepted, or none, which   *)
(* opens the channel all the same.  A write that fails may have come as    *)
(* far as opening it.                                                      *)
AppendInstrument(w) ==
  /\ w \in Instrumented
  /\ stage[w] = "open"
  /\ hashes[w] # <<>>
  /\ \/ \E row \in {<<>>, <<Len(hashes[w])>>} :
          /\ Len(channel[w].rows \o row) <= MaxTicks[w]
          /\ channel' = [channel EXCEPT ![w] =
                           [open |-> TRUE, rows |-> @.rows \o row]]
          /\ Succeeds(w)
     \/ /\ \E opened \in {channel[w].open, TRUE} :
             channel' = [channel EXCEPT ![w].open = opened]
        /\ Breaks(w)
  /\ UNCHANGED <<target, stage, hashes, begun, last, rows, members, stored,
                 packed, answer>>

FinishesPoisoned(w, settlement) ==  (* slip: a broken append is forgotten *)
  settlement = last[w] /\ hashes[w] # <<>>

(* The conditions finish() has of its own.                                 *)
Finishes(w, settlement) ==
  /\ settlement = last[w]
  /\ ~ poisoned[w]
  /\ hashes[w] # <<>>

Ends(w, stg, what) ==
  /\ stage' = [stage EXCEPT ![w] = stg]
  /\ answer' = [answer EXCEPT ![w] = what]
  /\ UNCHANGED <<timelineVars, historyVars>>

ResultOf(w, settlement) == <<hashes[w], settlement>>
Answers(w, settlement) ==
  [kind |-> "hashes", result |-> ResultOf(w, settlement)]

FinishRefused(w, settlement) ==
  /\ stage[w] = "open"
  /\ ~ Finishes(w, settlement)
  /\ Ends(w, "over", Failed)
  /\ UNCHANGED <<target, storageVars, packed>>

FinishHashes(w, settlement) ==
  /\ stage[w] = "open"
  /\ w \notin Stores
  /\ Finishes(w, settlement)
  /\ Ends(w, "over", Answers(w, settlement))
  /\ UNCHANGED <<target, storageVars, packed>>

(* The container of these members: its ticks are the storage's own list.   *)
Container(w, m, settlement) ==
  [kind |-> "file", units |-> m.units, events |-> m.events,
   channel |-> channel[w], ticks |-> stored[w], settlement |-> settlement,
   result |-> ResultOf(w, settlement)]

(* The last group, the tick hashes, the package, and its verification.     *)
FinishPacks(w, settlement) ==
  /\ stage[w] = "open"
  /\ w \in Stores
  /\ Finishes(w, settlement)
  /\ \E f \in LastFlush(members[w], rows[w]) :
       LET c == Container(w, f.members, settlement)
       IN  /\ rows' = [rows EXCEPT ![w] = f.rows]
           /\ members' = [members EXCEPT ![w] = f.members]
           /\ IF f.ok /\ Opens(c)
              THEN \/ Ends(w, "packed", NoAnswer)
                      /\ packed' = [packed EXCEPT ![w] = c]
                   \/ Ends(w, "over", Failed) /\ UNCHANGED packed
              ELSE Ends(w, "over", Failed) /\ UNCHANGED packed
  /\ UNCHANGED <<target, channel, stored>>

PersistsAnyway(w) == TRUE  (* slip: the target is replaced, not created *)

(* persist_noclobber() takes no name that is taken.                        *)
Persists(w) == target = NoFile

Publish(w) ==
  /\ stage[w] = "packed"
  /\ Persists(w)
  /\ target' = packed[w]
  /\ Ends(w, "published", [kind |-> "hashes", result |-> packed[w].result])
  /\ UNCHANGED <<storageVars, packed>>

PublishFails(w) ==
  /\ stage[w] = "packed"
  /\ Ends(w, "over", Failed)
  /\ UNCHANGED <<target, storageVars, packed>>

(* The caller drops the writer, or its process is killed.                  *)
Drop(w) ==
  /\ stage[w] \in {"open", "packed"}
  /\ Ends(w, "over", NoAnswer)
  /\ UNCHANGED <<target, storageVars, packed>>

(* The settlements a caller may name: that of a tick it appended.          *)
Settlements(w) == {in.units : in \in Inputs[w]}

Appends(w) ==
  \/ \E in \in Inputs[w] :
       AppendHash(w, in) \/ AppendRefused(w, in) \/ AppendTick(w, in)
  \/ AppendInstrument(w)

FinishCalled(w) ==
  \E settlement \in Settlements(w) :
    \/ FinishRefused(w, settlement)
    \/ FinishHashes(w, settlement)
    \/ FinishPacks(w, settlement)

McfrNext ==
  \E w \in Writer :
    \/ Create(w) \/ CreateRefused(w)
    \/ Appends(w)
    \/ FinishCalled(w)
    \/ Publish(w) \/ PublishFails(w)
    \/ Drop(w)

McfrSpec == McfrInit /\ [][McfrNext]_mcfrVars

-----------------------------------------------------------------------------
(* Properties.                                                             *)

Hash == [tick : Nat, units : SUBSET Unit, events : Seq(Events)]
TableRows == [units : Seq(Nat \X Unit), events : Seq(Nat \X Nat \X Events)]
Channels == [open : BOOLEAN, rows : Seq(Nat)]
Results == Seq(Hash) \X SUBSET Unit
Files == [kind : {"file"}, units : Seq(Nat \X Unit),
          events : Seq(Nat \X Nat \X Events),
          channel : Channels, ticks : Seq(Hash), settlement : SUBSET Unit,
          result : Results]
Answer == {NoAnswer, Failed} \cup [kind : {"hashes"}, result : Results]

(* Every variable keeps its type, and the storage's list of ticks is never *)
(* behind the writer's: StorageWriter::append_tick pushes first.           *)
McfrTypeOK ==
  /\ target \in Files \cup {NoFile}
  /\ stage \in [Writer -> {"none", "open", "packed", "published", "over"}]
  /\ hashes \in [Writer -> Seq(Hash)]
  /\ begun \in [Writer -> BOOLEAN]
  /\ poisoned \in [Writer -> BOOLEAN]
  /\ last \in [Writer -> SUBSET Unit]
  /\ rows \in [Writer -> TableRows]
  /\ members \in [Writer -> TableRows]
  /\ channel \in [Writer -> Channels]
  /\ stored \in [Writer -> Seq(Hash)]
  /\ packed \in [Writer -> Files \cup {NoFile}]
  /\ answer \in [Writer -> Answer]
  /\ failures \in [Writer -> 0..MaxFailures]
  /\ healed \in [Writer -> BOOLEAN]
  /\ \A w \in Stores : Len(hashes[w]) <= Len(stored[w])

(* What stands at the target stands there for good: no second writer takes *)
(* its place, whenever either was created.                                 *)
TargetStays == [][target # NoFile => target' = target]_mcfrVars

(* A published container opens, has the hash its writer answered, and      *)
(* reads back tick for tick as it was appended, the rows of the last group *)
(* included, whatever failed before it; unless its caller went on after an *)
(* append that broke off, which clears what finish() would refuse it for.  *)
ReadsBack ==
  \A w \in Writer : stage[w] = "published" =>
    /\ target = packed[w]
    /\ Opens(target)
    /\ answer[w].result = <<target.ticks, target.settlement>>
    /\ ~ healed[w] => /\ target.ticks = hashes[w]
                      /\ \A t \in DOMAIN target.ticks : Reads(target, t)

(* finish() "returns an error [...] after a partial append failure", its   *)
(* instrument channels included, and leaves nothing at the target; unless  *)
(* a later append cleared it.                                              *)
BrokenStaysUnpublished ==
  \A w \in Stores :
    failures[w] > 0 /\ ~ healed[w] =>
      stage[w] \notin {"packed", "published"}
=============================================================================
