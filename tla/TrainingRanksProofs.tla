------------------------ MODULE TrainingRanksProofs ------------------------
(***************************************************************************)
(* Proofs about the trainer: TrainingRanks, for any number of ranks, steps *)
(* and checkpoints; Fsdp, for any size of a parameter and any number of    *)
(* ranks; DatasetLoader, for any dataset, order of it, number of ranks and *)
(* size of blocks and batches.                                             *)
(***************************************************************************)
EXTENDS TrainingRanks, Fsdp, DatasetLoader, SequenceTheorems, FiniteSetTheorems,
        WellFoundedInduction, TLAPS

USE RanksAssumption

-----------------------------------------------------------------------------
(* The inductive invariant.  A collective ends for all ranks at once, so   *)
(* between two of them every rank is on its way from the last one, L, to   *)
(* the next; and the program decides the way from L alone, but for the     *)
(* clock, on which the ranks agree, and for exceptions.                    *)

InUpdate(r) == pc[r] \in {"read", "truncate", "write"}

(* A rank is in an update of the status that goes on at place then. *)
Writes(r, status, then) ==
    InUpdate(r) /\ update[r].status = status /\ update[r].then = then

(* It has raised an exception. *)
Failing(r) == Writes(r, "FAILED", "exited") \/ pc[r] = "exited"

(* It has trained nothing; it is in step b before, or after, its look at   *)
(* the clock.                                                              *)
Fresh(r) == /\ step[r] = 0 /\ ~stop[r]
            /\ judged[r].step = -1 /\ ~judged[r].late

Before(r, b) == /\ step[r] = b /\ ~stop[r]
                /\ judged[r].step < b /\ ~judged[r].late

After(r, b) == /\ step[r] = b
               /\ judged[r].step = b /\ judged[r].late = stop[r]

(* It is on the way to step b + 1. *)
GoesOn(r, b) == /\ b # MaxSteps - 1
                /\ Before(r, b + 1)
                /\ judged[r].step = b

(* After the callbacks of step b it turns to the next step or to the end. *)
Turns(r, b) ==
    \/ pc[r] = "loop" /\ After(r, b)
    \/ (pc[r] \in {"batch", "forward"} \/ Failing(r)) /\ GoesOn(r, b)
    \/ pc[r] = "last_gather" /\ After(r, b) /\ LoopEnds(r)

Due(b) == b % CheckpointEvery = 0 /\ b # 0

(* Rank r is on its way from collective L in step b; "start" is none. *)
OnItsWay(r, L, b) ==
    \/ /\ L = "start"
       /\ \/ Writes(r, "TRAINING", "loading") /\ Fresh(r)
          \/ pc[r] \in {"loading", "load"} /\ Fresh(r)
          \/ Failing(r)
    \/ /\ L = "load"
       /\ \/ pc[r] = "resume" /\ Fresh(r)
          \/ pc[r] = "dev_in" /\ Before(r, b)
          \/ Failing(r)
    \/ L = "dev_in" /\ pc[r] = "dev_out" /\ Before(r, b)
    \/ /\ L = "dev_out" /\ Before(r, b)
       /\ pc[r] \in {"batch", "forward"} \/ Failing(r)
    \/ L = "forward" /\ pc[r] = "loss" /\ Before(r, b)
    \/ L = "loss" /\ pc[r] = "backward" /\ Before(r, b)
    \/ L = "backward" /\ pc[r] = "hist_in" /\ Before(r, b)
    \/ /\ L = "hist_in" /\ Before(r, b)
       /\ \/ pc[r] = "hist_out"
          \/ r = 0 /\ Writes(r, "TRAINING", "hist_out") /\ "history" \in update[r].adds
    \/ L = "hist_out" /\ pc[r] = "info_in" /\ Before(r, b)
    \/ L = "info_in" /\ pc[r] = "info_out" /\ Before(r, b)
    \/ /\ L = "info_out"
       /\ \/ pc[r] = "judge" /\ Before(r, b)
          \/ pc[r] = "ckpt_gather" /\ After(r, b) /\ Due(b)
          \/ ~Due(b) /\ Turns(r, b)
    \/ L = "ckpt_gather" /\ pc[r] = "ckpt_in" /\ After(r, b)
    \/ /\ L = "ckpt_in" /\ After(r, b)
       /\ pc[r] = "ckpt_out" \/ (r = 0 /\ pc[r] = "save")
    \/ L = "ckpt_out" /\ Turns(r, b)
    \/ L = "last_gather" /\ pc[r] = "last_in" /\ step[r] = b
    \/ /\ L = "last_in" /\ step[r] = b
       /\ pc[r] = "last_out" \/ (r = 0 /\ pc[r] = "save_last")
    \/ L = "last_out" /\ (pc[r] = "end" \/ Writes(r, "COMPLETED", "end"))

(* It is so, or is killed; killed while the others save, it has finished   *)
(* the step that they save.                                                *)
Behind(r, L, b) ==
    \/ OnItsWay(r, L, b)
    \/ pc[r] = "killed" /\ (L \in {"ckpt_in", "last_in"} => step[r] = b)

(* Where a rank behind L can have raised. *)
RaisesAt(L) ==
    IF L = "start" THEN {"no", "loading"}
    ELSE IF L = "load" THEN {"no", "resume"}
    ELSE IF L \in {"dev_out", "info_out", "ckpt_out"} THEN {"no", "batch"}
    ELSE {"no"}

(* No other rank has raised. *)
RaisesAlone(r) == \A s \in Ranks : raised[s] # "no" => s = r

(* A rank that raises never calls a collective again, so all that raise do *)
(* it behind the same one.  What they write says FAILED; one that is alone *)
(* writes into a file that it has emptied itself.  mpirun kills when one   *)
(* of them has exited.                                                     *)
RaisedInv(L) ==
    /\ \A r \in Ranks : Failing(r) => raised[r] # "no"
    /\ \A r \in Ranks : raised[r] # "no" => Failing(r) \/ pc[r] = "killed"
    /\ \A r \in Ranks : raised[r] \in RaisesAt(L)
    /\ \A r \in Ranks : raised[r] = "batch" =>
          /\ pc[r] = "exited" => file.text # "whole" \/ file.status = "FAILED"
          /\ RaisesAlone(r) /\ pc[r] = "write" => file.text = "empty"
          /\ RaisesAlone(r) /\ pc[r] = "exited" => file.text = "whole"
    /\ ~cancelled => \A r \in Ranks : pc[r] = "killed" => \E s \in Ranks : pc[s] = "exited"

HasHistory == file.text = "whole" /\ "history" \in file.has

(* The history gets into the status between the barriers of update_history, *)
(* and stays there as long as nobody else writes.                          *)
KeepsHistory(L) ==
    /\ L = "hist_in" => /\ pc[0] = "write" => file.text = "empty"
                        /\ pc[0] = "hist_out" => HasHistory
    /\ L \in {"hist_out", "info_in", "info_out", "ckpt_gather", "ckpt_in", "ckpt_out"}
          /\ NobodyRaised => HasHistory

Segment(L, b) ==
    /\ \A r \in Ranks : Behind(r, L, b)
    /\ L = "load" => b = IF saved >= 0 THEN saved ELSE 0
    /\ RaisedInv(L)
    /\ KeepsHistory(L)

(* What holds however the ranks judge. *)
LocalInv ==
    /\ \A r \in Ranks : pc[r] \in {"truncate", "write"} =>
          /\ update[r].new.text = "whole"
          /\ update[r].new.status = update[r].status
          /\ update[r].adds \subseteq update[r].new.has
    /\ \A r \in Ranks : InUpdate(r) =>
          update[r].then \in {"loading", "hist_out", "end", "exited"}
    /\ \A r \in Ranks : pc[r] = "resume" => saved >= 0

Collectives == Sites \cup {"start"}

(* The clocks agree on the steps that several ranks have judged. *)
ClocksAgree ==
    \A r, s \in Ranks : judged[r].step = judged[s].step =>
        judged[r].late = judged[s].late

AgreeInv ==
    ~disagreed =>
        /\ ~mixed
        /\ ClocksAgree
        /\ \E L \in Collectives, b \in 0 .. MaxSteps - 1 : Segment(L, b)

RanksInv == RanksTypeOK /\ LocalInv /\ AgreeInv

-----------------------------------------------------------------------------
(* Types.                                                                  *)

(* The status updates of a rank. *)
Updates == [status: {"TRAINING", "COMPLETED", "FAILED"}, adds: SUBSET Fields,
            then: Places, new: Statuses]

(* The places from which collectives are called. *)
LEMMA SitesAre ==
    Sites = {"load", "dev_in", "dev_out", "forward", "loss", "backward",
             "hist_in", "hist_out", "info_in", "info_out", "ckpt_gather",
             "ckpt_in", "ckpt_out", "last_gather", "last_in", "last_out"}
  BY DEF Sites, Kind

(* An update that begins is an update, and so is one that has read. *)
LEMMA UpdateTypes ==
    /\ \A status \in {"TRAINING", "COMPLETED", "FAILED"}, adds \in SUBSET Fields,
          then \in Places : Update(status, adds, then) \in Updates
    /\ \A u \in Updates, n \in Statuses : [u EXCEPT !.new = n] \in Updates
  BY DEF Update, Updates, Statuses

(* Where a rank goes on from a collective. *)
LEMMA ContinueType ==
    ASSUME NEW r \in Ranks, Waiting(r)
    PROVE  Continue(r) \in Places
  BY SitesAre DEF Waiting, Continue, AfterLoad, main_rank_only, Places

(* Types and LocalInv at the start. *)
LEMMA LocalInit == RanksInit => RanksTypeOK /\ LocalInv
  <1> SUFFICES ASSUME RanksInit PROVE RanksTypeOK /\ LocalInv
    OBVIOUS
  <1>1. Update("TRAINING", {"max_steps"}, "loading") \in Updates
    BY UpdateTypes DEF Fields, Places
  <1>2. update \in [Ranks -> Updates]
    BY <1>1 DEF RanksInit
  <1>3. file \in Statuses
    BY DEF RanksInit, Statuses, Fields
  <1>4. /\ pc \in [Ranks -> Places]
        /\ stop \in [Ranks -> BOOLEAN]
        /\ judged \in [Ranks -> [step: -1 .. MaxSteps - 1, late: BOOLEAN]]
    BY DEF RanksInit, Places
  <1>5. step \in [Ranks -> 0 .. MaxSteps - 1] /\ saved \in -1 .. MaxSteps - 1
    BY DEF RanksInit
  <1>6. LocalInv
    BY DEF RanksInit, LocalInv, Update
  <1>7. QED
    BY <1>2, <1>3, <1>4, <1>5, <1>6 DEF RanksInit, RanksTypeOK, Updates

(* Every step keeps the types and LocalInv. *)
LEMMA LocalStep ==
    ASSUME RanksTypeOK, LocalInv, [RanksNext]_ranksVars
    PROVE  RanksTypeOK' /\ LocalInv'
  <1> USE DEF RanksTypeOK, Goto
  <1>0. update \in [Ranks -> Updates]
    BY DEF Updates
  <1>1. CASE UNCHANGED ranksVars
    BY <1>0, <1>1 DEF ranksVars, LocalInv, InUpdate
  <1>2. ASSUME NEW r \in Ranks, ReadStatus(r)
        PROVE  RanksTypeOK' /\ LocalInv'
    <2> DEFINE n == [text |-> "whole", status |-> update[r].status,
                     has |-> (IF file.text = "whole" THEN file.has ELSE {})
                                \cup update[r].adds]
    <2>1. n \in Statuses /\ n.text = "whole" /\ n.status = update[r].status
          /\ update[r].adds \subseteq n.has
      BY <1>0 DEF Statuses, Updates
    <2>2. update' = [update EXCEPT ![r] = [update[r] EXCEPT !.new = n]]
      BY <1>0, <1>2 DEF ReadStatus, Updates
    <2> HIDE DEF n
    <2>3. /\ [update[r] EXCEPT !.new = n] \in Updates
          /\ [update[r] EXCEPT !.new = n].new = n
          /\ [update[r] EXCEPT !.new = n].status = update[r].status
          /\ [update[r] EXCEPT !.new = n].adds = update[r].adds
          /\ [update[r] EXCEPT !.new = n].then = update[r].then
      BY <1>0, <2>1, UpdateTypes, ZenonT(60) DEF Updates
    <2>4. update' \in [Ranks -> Updates]
      BY <1>0, <2>2, <2>3
    <2>5. LocalInv'
      BY <1>0, <1>2, <2>1, <2>2, <2>3 DEF ReadStatus, LocalInv, InUpdate
    <2>6. QED
      BY <1>2, <2>4, <2>5 DEF ReadStatus, Places, Updates
  <1>3. ASSUME NEW r \in Ranks, TruncateStatus(r)
        PROVE  RanksTypeOK' /\ LocalInv'
    <2>1. file' \in Statuses
      BY <1>3 DEF TruncateStatus, Statuses
    <2>2. LocalInv'
      BY <1>3 DEF TruncateStatus, LocalInv, InUpdate
    <2>3. QED
      BY <1>3, <2>1, <2>2 DEF TruncateStatus, Places
  <1>4. ASSUME NEW r \in Ranks, WriteStatus(r)
        PROVE  RanksTypeOK' /\ LocalInv'
    <2>1. update[r].new \in Statuses /\ update[r].then \in Places
      BY <1>0 DEF Updates
    <2>2. file' \in Statuses
      BY <1>4, <2>1 DEF WriteStatus, Statuses
    <2>3. LocalInv'
      BY <1>4 DEF WriteStatus, LocalInv, InUpdate
    <2>4. QED
      BY <1>4, <2>1, <2>2, <2>3 DEF WriteStatus
  <1>5. ASSUME NEW r \in Ranks, NEW where \in {"loading", "resume", "batch"},
               Raise(r, where)
        PROVE  RanksTypeOK' /\ LocalInv'
    <2> DEFINE u == Update("FAILED", {}, "exited")
    <2>1. u \in Updates /\ u.then = "exited"
      <3>1. "exited" \in Places
        BY DEF Places, Ended
      <3>2. u \in Updates
        BY <3>1, UpdateTypes
      <3>3. QED
        BY <3>2 DEF Update
    <2> HIDE DEF u
    <2>2. update' = [update EXCEPT ![r] = u] /\ pc' = [pc EXCEPT ![r] = "read"]
      BY <1>5, <2>1 DEF Raise, BeginUpdate, u
    <2>3. update' \in [Ranks -> Updates]
      BY <1>0, <2>1, <2>2
    <2>4. LocalInv'
      BY <1>0, <1>5, <2>1, <2>2 DEF Raise, LocalInv, InUpdate
    <2>5. QED
      BY <1>5, <2>2, <2>3, <2>4 DEF Raise, Places, Updates
  <1>6. ASSUME NEW r \in Ranks, LoadModel(r) \/ NextBatch(r)
        PROVE  RanksTypeOK' /\ LocalInv'
    BY <1>6 DEF LoadModel, NextBatch, Places, Sites, Kind, LocalInv, InUpdate
  <1>7. ASSUME NEW r \in Ranks, Resume(r)
        PROVE  RanksTypeOK' /\ LocalInv'
    <2>1. saved \in 0 .. MaxSteps - 1
      <3>1. saved >= 0 /\ saved \in -1 .. MaxSteps - 1
        BY <1>7 DEF Resume, LocalInv
      <3>2. QED
        BY ONLY <3>1, RanksAssumption
    <2>2. CASE Raise(r, "resume")
      BY <1>5, <2>2
    <2>3. CASE ~Raise(r, "resume")
      <3>1. /\ step' = [step EXCEPT ![r] = saved] /\ pc' = [pc EXCEPT ![r] = "dev_in"]
            /\ UNCHANGED <<stop, update, file, saved, judged, disagreed, mixed, raised, cancelled>>
        BY <1>7, <2>3 DEF Resume
      <3>2. step' \in [Ranks -> 0 .. MaxSteps - 1] /\ pc' \in [Ranks -> Places]
        BY <2>1, <3>1, SitesAre DEF Places
      <3>3. QED
        BY <3>1, <3>2 DEF LocalInv, InUpdate
    <2>4. QED
      BY <2>2, <2>3
  <1>8. ASSUME NEW r \in Ranks, OnStepEnd(r)
        PROVE  RanksTypeOK' /\ LocalInv'
    <2>1. step[r] \in -1 .. MaxSteps - 1
      OBVIOUS
    <2>2. PICK late \in BOOLEAN :
            /\ stop' = [stop EXCEPT ![r] = stop[r] \/ late]
            /\ judged' = [judged EXCEPT ![r] = [step |-> step[r], late |-> late]]
      BY <1>8 DEF OnStepEnd
    <2>3. judged' \in [Ranks -> [step: -1 .. MaxSteps - 1, late: BOOLEAN]]
      BY <2>1, <2>2
    <2>4. stop' \in [Ranks -> BOOLEAN]
      BY <2>2
    <2>5. disagreed' \in BOOLEAN
      BY <1>8 DEF OnStepEnd
    <2>6. PICK q \in {"ckpt_gather", "loop"} :
             /\ pc' = [pc EXCEPT ![r] = q]
             /\ UNCHANGED <<update, saved>>
      BY <1>8 DEF OnStepEnd
    <2>7. pc' \in [Ranks -> Places] /\ LocalInv'
      BY <2>6, SitesAre DEF Places, LocalInv, InUpdate
    <2>8. QED
      BY <1>8, <2>3, <2>4, <2>5, <2>7 DEF OnStepEnd
  <1>9. ASSUME NEW r \in Ranks, EndOfIteration(r)
        PROVE  RanksTypeOK' /\ LocalInv'
    <2>1. ~LoopEnds(r) => step[r] + 1 \in 0 .. MaxSteps - 1
      BY DEF LoopEnds
    <2>2. step' \in [Ranks -> 0 .. MaxSteps - 1]
      BY <1>9, <2>1 DEF EndOfIteration
    <2>3. PICK q \in {"last_gather", "batch"} :
             /\ pc' = [pc EXCEPT ![r] = q]
             /\ UNCHANGED <<update, saved>>
      BY <1>9 DEF EndOfIteration
    <2>4. pc' \in [Ranks -> Places] /\ LocalInv'
      BY <2>3, SitesAre DEF Places, LocalInv, InUpdate
    <2>5. QED
      BY <1>9, <2>2, <2>4 DEF EndOfIteration
  <1>10. ASSUME NEW r \in Ranks, SaveCheckpoint(r)
         PROVE  RanksTypeOK' /\ LocalInv'
    <2>1. step[r] \in 0 .. MaxSteps - 1
      OBVIOUS
    <2>2. QED
      BY <1>10, <2>1, SitesAre DEF SaveCheckpoint, Places, LocalInv, InUpdate
  <1>11. CASE Collective
    <2>1. pc' \in [Ranks -> Places]
      BY <1>11, ContinueType DEF Collective
    <2>2. \A r \in Ranks : UpdateAfter(r) \in Updates
      <3>1. /\ Update("COMPLETED", {}, "end") \in Updates
            /\ Update("TRAINING", {"history"}, "hist_out") \in Updates
        BY UpdateTypes, SitesAre DEF Fields, Places, Ended
      <3>2. QED
        BY <1>0, <3>1 DEF UpdateAfter
    <2>3. update' \in [Ranks -> Updates]
      BY <1>11, <2>2 DEF Collective
    <2>4. LocalInv'
      <3>1. ASSUME NEW r \in Ranks
            PROVE  /\ pc'[r] \notin {"truncate", "write"}
                   /\ pc'[r] = "read" =>
                         update'[r].then \in {"loading", "hist_out", "end", "exited"}
                   /\ pc'[r] = "resume" => saved >= 0
        <4>1. pc'[r] = Continue(r) /\ update'[r] = UpdateAfter(r) /\ Waiting(r)
          BY <1>11 DEF Collective
        <4>2. QED
          BY <4>1, SitesAre
             DEF Waiting, Continue, UpdateAfter, AfterLoad, main_rank_only, Update
      <3>2. UNCHANGED saved
        BY <1>11 DEF Collective
      <3>3. QED
        BY <3>1, <3>2 DEF LocalInv, InUpdate
    <2>5. QED
      BY <1>11, <2>1, <2>3, <2>4 DEF Collective, Updates
  <1>12. ASSUME NEW r \in Ranks, MpirunKills(r) \/ SlurmKills(r)
         PROVE  RanksTypeOK' /\ LocalInv'
    <2>1. Kill(r) /\ cancelled' \in BOOLEAN
      BY <1>12 DEF MpirunKills, SlurmKills
    <2>2. QED
      BY <2>1 DEF Kill, Places, Ended, LocalInv, InUpdate
  <1>13. CASE AllEnded
    BY <1>1, <1>13 DEF AllEnded
  <1>14. ASSUME NEW r \in Ranks, RankRaises(r)
         PROVE  RanksTypeOK' /\ LocalInv'
    BY <1>5, <1>14 DEF RankRaises
  <1>15. QED
    BY <1>1, <1>2, <1>3, <1>4, <1>6, <1>7, <1>8, <1>9, <1>10, <1>11, <1>12,
       <1>13, <1>14 DEF RanksNext, Local

-----------------------------------------------------------------------------
(* One rank moves.                                                         *)

(* A rank that does not move stays behind the same collective. *)
LEMMA BehindFrame ==
    ASSUME NEW s \in Ranks, NEW L, NEW b,
           pc'[s] = pc[s], step'[s] = step[s], stop'[s] = stop[s],
           judged'[s] = judged[s], update'[s] = update[s]
    PROVE  /\ Behind(s, L, b) => Behind(s, L, b)'
           /\ (Failing(s)' <=> Failing(s))
  <1> USE DEF InUpdate, Writes, Failing
  <1>1. (Failing(s)' <=> Failing(s))
    OBVIOUS
  <1>2. /\ Fresh(s)' = Fresh(s)
        /\ \A d : Before(s, d)' = Before(s, d)
        /\ \A d : After(s, d)' = After(s, d)
        /\ \A st, th : Writes(s, st, th)' = Writes(s, st, th)
        /\ LoopEnds(s)' = LoopEnds(s)
    BY DEF Fresh, Before, After, LoopEnds
  <1> HIDE DEF InUpdate, Writes, Failing
  <1>3. Turns(s, b)' = Turns(s, b)
    BY <1>1, <1>2 DEF Turns, GoesOn
  <1>4. Behind(s, L, b) => Behind(s, L, b)'
    BY <1>1, <1>2, <1>3 DEF Behind, OnItsWay
  <1>5. QED
    BY <1>1, <1>4

(* Resume without the KeyError. *)
Resumes(r) ==
    /\ pc[r] = "resume"
    /\ step' = [step EXCEPT ![r] = saved]
    /\ Goto(r, "dev_in")
    /\ UNCHANGED <<stop, update, file, saved, judged, disagreed, mixed, raised, cancelled>>

(* Only rank r moves. *)
OnlyMoves(r) ==
    \A s \in Ranks \ {r} :
        /\ pc'[s] = pc[s] /\ step'[s] = step[s] /\ stop'[s] = stop[s]
        /\ judged'[s] = judged[s] /\ update'[s] = update[s]

(* A step that neither writes the status nor raises leaves the ranks       *)
(* behind L when it leaves the one that takes it there.                    *)
LEMMA QuietStep ==
    ASSUME NEW r \in Ranks, NEW L, NEW b, Segment(L, b), OnlyMoves(r),
           Behind(r, L, b)', (Failing(r)' <=> Failing(r)),
           UNCHANGED <<file, raised, cancelled>>, L = "load" => UNCHANGED saved,
           pc[r] \notin {"exited", "killed"},
           pc'[r] \notin {"write", "exited", "killed", "hist_out"}
    PROVE  Segment(L, b)'
  <1>1. \A s \in Ranks : (Failing(s)' <=> Failing(s)) /\ Behind(s, L, b)'
    BY BehindFrame DEF OnlyMoves, Segment
  <1>2. \A s \in Ranks \ {r} : pc'[s] = pc[s]
    BY DEF OnlyMoves
  <1>3. RaisedInv(L)'
    BY <1>1, <1>2 DEF Segment, RaisedInv, RaisesAt, RaisesAlone
  <1>4. KeepsHistory(L)'
    BY <1>2 DEF Segment, KeepsHistory, HasHistory, NobodyRaised
  <1>5. QED
    BY <1>1, <1>3, <1>4 DEF Segment

(* Reading the status, loading, resuming, training, judging and saving. *)
LEMMA LocalQuiet ==
    ASSUME RanksTypeOK, LocalInv, NEW L, NEW b \in 0 .. MaxSteps - 1, Segment(L, b),
           NEW r \in Ranks,
           \/ ReadStatus(r) \/ LoadModel(r) \/ NextBatch(r) \/ OnStepEnd(r)
           \/ EndOfIteration(r) \/ SaveCheckpoint(r)
           \/ Resumes(r)
    PROVE  Segment(L, b)'
  <1>0. /\ Behind(r, L, b)
        /\ L = "load" => b = IF saved >= 0 THEN saved ELSE 0
    BY DEF Segment
  <1>t. /\ pc \in [Ranks -> Places]
        /\ step \in [Ranks -> 0 .. MaxSteps - 1]
        /\ stop \in [Ranks -> BOOLEAN]
        /\ update \in [Ranks -> Updates]
        /\ judged \in [Ranks -> [step: -1 .. MaxSteps - 1, late: BOOLEAN]]
    BY DEF RanksTypeOK, Updates
  <1>1. CASE LoadModel(r)
    <2>1. L = "start" /\ Fresh(r)
      BY <1>0, <1>1 DEF LoadModel, Behind, OnItsWay, Writes, InUpdate, Failing, Turns
    <2>2. /\ pc' = [pc EXCEPT ![r] = "load"]
          /\ UNCHANGED <<step, stop, update, file, saved, judged, raised, cancelled>>
          /\ pc[r] = "loading"
      BY <1>1 DEF LoadModel, Goto
    <2>3. OnlyMoves(r) /\ pc'[r] = "load" /\ (Failing(r)' <=> Failing(r))
      BY <1>t, <2>2 DEF OnlyMoves, Failing, Writes, InUpdate
    <2>4. Behind(r, L, b)'
      BY <2>1, <2>2, <2>3 DEF Behind, OnItsWay, Fresh
    <2>5. QED
      BY <2>2, <2>3, <2>4, QuietStep
  <1>2. CASE ReadStatus(r)
    <2>1. /\ pc' = [pc EXCEPT ![r] = "truncate"]
          /\ UNCHANGED <<step, stop, file, saved, judged, raised, cancelled>>
          /\ pc[r] = "read"
          /\ \E n : update' = [update EXCEPT ![r].new = n]
      BY <1>2 DEF ReadStatus, Goto
    <2>2. /\ OnlyMoves(r) /\ pc'[r] = "truncate"
          /\ update'[r].status = update[r].status
          /\ update'[r].then = update[r].then
          /\ update'[r].adds = update[r].adds
      BY <1>t, <2>1 DEF OnlyMoves, Updates
    <2>3. /\ (Failing(r)' <=> Failing(r))
          /\ \A st, th : Writes(r, st, th)' = Writes(r, st, th)
      BY <2>1, <2>2 DEF Failing, Writes, InUpdate
    <2>4. /\ Fresh(r)' = Fresh(r)
          /\ \A d : Before(r, d)' = Before(r, d)
      BY <2>1 DEF Fresh, Before
    <2>5. \A d : GoesOn(r, d)' = GoesOn(r, d)
      BY <2>1, <2>4 DEF GoesOn
    <2>6. Behind(r, L, b)'
      BY <1>0, <2>1, <2>2, <2>3, <2>4, <2>5 DEF Behind, OnItsWay, Turns
    <2>7. QED
      BY <2>1, <2>2, <2>3, <2>6, QuietStep
  <1>3. CASE NextBatch(r)
    <2>1. /\ pc' = [pc EXCEPT ![r] = "forward"]
          /\ UNCHANGED <<step, stop, update, file, saved, judged, raised, cancelled>>
          /\ pc[r] = "batch"
      BY <1>3 DEF NextBatch, Goto
    <2>2. OnlyMoves(r) /\ pc'[r] = "forward" /\ ~Failing(r) /\ ~Failing(r)'
      BY <1>t, <2>1 DEF OnlyMoves, Failing, Writes, InUpdate
    <2>3. \/ L = "dev_out" /\ Before(r, b)
          \/ (L = "ckpt_out" \/ (L = "info_out" /\ ~Due(b))) /\ GoesOn(r, b)
      BY <1>0, <2>1, <2>2 DEF Behind, OnItsWay, Turns, Writes, InUpdate
    <2>4. /\ \A d : Before(r, d)' = Before(r, d)
          /\ GoesOn(r, b)' = GoesOn(r, b)
      BY <2>1 DEF Before, GoesOn
    <2>5. Behind(r, L, b)'
      BY <2>2, <2>3, <2>4 DEF Behind, OnItsWay, Turns, Due
    <2>6. QED
      BY <2>1, <2>2, <2>5, QuietStep
  <1>4. CASE Resumes(r)
    <2>1. /\ pc[r] = "resume" /\ saved >= 0
          /\ step' = [step EXCEPT ![r] = saved] /\ pc' = [pc EXCEPT ![r] = "dev_in"]
          /\ UNCHANGED <<stop, update, file, saved, judged, raised, cancelled>>
      BY <1>4 DEF Resumes, LocalInv, Goto
    <2>2. /\ OnlyMoves(r) /\ ~Failing(r) /\ ~Failing(r)'
          /\ pc'[r] = "dev_in" /\ step'[r] = saved
      BY <1>t, <2>1 DEF OnlyMoves, Failing, Writes, InUpdate
    <2>3. L = "load" /\ Fresh(r) /\ saved = b
      BY <1>0, <2>1, <2>2 DEF Behind, OnItsWay, Turns, Writes, InUpdate
    <2>4. Before(r, b)'
      BY <2>1, <2>2, <2>3 DEF Fresh, Before
    <2>5. Behind(r, L, b)'
      BY <2>2, <2>3, <2>4 DEF Behind, OnItsWay
    <2>6. QED
      BY <2>1, <2>2, <2>5, QuietStep
  <1>5. CASE OnStepEnd(r)
    <2>1. PICK late \in BOOLEAN :
             /\ stop' = [stop EXCEPT ![r] = stop[r] \/ late]
             /\ judged' = [judged EXCEPT ![r] = [step |-> step[r], late |-> late]]
      BY <1>5 DEF OnStepEnd
    <2>2. /\ pc' = [pc EXCEPT ![r] = IF CheckpointDue(r) THEN "ckpt_gather" ELSE "loop"]
          /\ UNCHANGED <<step, update, file, saved, raised, cancelled>>
          /\ pc[r] = "judge"
      BY <1>5 DEF OnStepEnd, Goto
    <2>3. /\ OnlyMoves(r) /\ ~Failing(r) /\ ~Failing(r)'
          /\ pc'[r] = IF CheckpointDue(r) THEN "ckpt_gather" ELSE "loop"
      BY <1>t, <2>1, <2>2 DEF OnlyMoves, Failing, Writes, InUpdate
    <2>4. L = "info_out" /\ Before(r, b)
      BY <1>0, <2>2, <2>3 DEF Behind, OnItsWay, Turns, Writes, InUpdate
    <2>5. After(r, b)' /\ CheckpointDue(r) = Due(b)
      BY <1>t, <2>1, <2>2, <2>4 DEF Before, After, CheckpointDue, Due
    <2>6. Behind(r, L, b)'
      BY <2>3, <2>4, <2>5 DEF Behind, OnItsWay, Turns, Due
    <2>7. QED
      BY <2>2, <2>3, <2>4, <2>6, QuietStep
  <1>6. CASE EndOfIteration(r)
    <2>1. /\ pc[r] = "loop" /\ UNCHANGED <<stop, update, file, saved, judged, raised, cancelled>>
          /\ LoopEnds(r) => pc' = [pc EXCEPT ![r] = "last_gather"] /\ UNCHANGED step
          /\ ~LoopEnds(r) => /\ pc' = [pc EXCEPT ![r] = "batch"]
                             /\ step' = [step EXCEPT ![r] = step[r] + 1]
      BY <1>6 DEF EndOfIteration, Goto
    <2>2. /\ OnlyMoves(r) /\ ~Failing(r) /\ ~Failing(r)'
          /\ pc'[r] = IF LoopEnds(r) THEN "last_gather" ELSE "batch"
          /\ step'[r] = IF LoopEnds(r) THEN step[r] ELSE step[r] + 1
      BY <1>t, <2>1 DEF OnlyMoves, Failing, Writes, InUpdate
    <2>3. (L = "ckpt_out" \/ (L = "info_out" /\ ~Due(b))) /\ After(r, b)
      BY <1>0, <2>1, <2>2 DEF Behind, OnItsWay, Turns, Writes, InUpdate
    <2>4. LoopEnds(r) => After(r, b)' /\ LoopEnds(r)'
      BY <2>1, <2>2, <2>3 DEF After, LoopEnds
    <2>5. ~LoopEnds(r) => GoesOn(r, b)'
      BY <1>t, <2>1, <2>2, <2>3 DEF After, LoopEnds, GoesOn, Before
    <2>6. Behind(r, L, b)'
      BY <2>2, <2>3, <2>4, <2>5 DEF Behind, OnItsWay, Turns, Due
    <2>7. QED
      BY <2>1, <2>2, <2>3, <2>6, QuietStep
  <1>7. CASE SaveCheckpoint(r)
    <2>1. /\ pc[r] \in {"save", "save_last"}
          /\ pc' = [pc EXCEPT ![r] = IF pc[r] = "save" THEN "ckpt_out" ELSE "last_out"]
          /\ UNCHANGED <<step, stop, update, file, judged, raised, cancelled>>
      BY <1>7 DEF SaveCheckpoint, Goto
    <2>2. /\ OnlyMoves(r) /\ ~Failing(r) /\ ~Failing(r)'
          /\ pc'[r] = IF pc[r] = "save" THEN "ckpt_out" ELSE "last_out"
      BY <1>t, <2>1 DEF OnlyMoves, Failing, Writes, InUpdate
    <2>3. \/ L = "ckpt_in" /\ pc[r] = "save" /\ After(r, b)
          \/ L = "last_in" /\ pc[r] = "save_last" /\ step[r] = b
      BY <1>0, <2>1, <2>2 DEF Behind, OnItsWay, Turns, Writes, InUpdate
    <2>4. After(r, b)' = After(r, b)
      BY <2>1 DEF After
    <2>5. Behind(r, L, b)'
      BY <2>1, <2>2, <2>3, <2>4 DEF Behind, OnItsWay
    <2>6. QED
      BY <2>1, <2>2, <2>3, <2>5, QuietStep
  <1>8. QED
    BY <1>1, <1>2, <1>3, <1>4, <1>5, <1>6, <1>7

-----------------------------------------------------------------------------
(* Updates of the status.                                                  *)

(* Where a rank can have raised. *)
RaisedBehind(r, L, b) ==
    \/ L \in {"start", "load"}
    \/ L = "dev_out" /\ Before(r, b)
    \/ (L = "ckpt_out" \/ (L = "info_out" /\ ~Due(b))) /\ GoesOn(r, b)

(* Who can be in an update behind L. *)
LEMMA UpdateCases ==
    ASSUME NEW r \in Ranks, NEW L, NEW b, Behind(r, L, b), InUpdate(r)
    PROVE  \/ L = "start" /\ Writes(r, "TRAINING", "loading") /\ Fresh(r)
           \/ /\ L = "hist_in" /\ r = 0 /\ Before(r, b)
              /\ Writes(r, "TRAINING", "hist_out") /\ "history" \in update[r].adds
           \/ L = "last_out" /\ Writes(r, "COMPLETED", "end")
           \/ Failing(r) /\ RaisedBehind(r, L, b)
  BY DEF Behind, OnItsWay, Turns, RaisedBehind, InUpdate

(* A rank that has raised is behind L. *)
LEMMA RaisedIsBehind ==
    ASSUME NEW r \in Ranks, NEW L, NEW b, RaisedBehind(r, L, b)', Failing(r)'
    PROVE  Behind(r, L, b)'
  BY DEF Behind, OnItsWay, Turns, RaisedBehind, Due

(* open(..., "w") of the status. *)
LEMMA TruncateStep ==
    ASSUME RanksTypeOK, NEW L, NEW b \in 0 .. MaxSteps - 1, Segment(L, b),
           NEW r \in Ranks, TruncateStatus(r)
    PROVE  Segment(L, b)'
  <1>1. /\ pc[r] = "truncate" /\ pc' = [pc EXCEPT ![r] = "write"]
        /\ file'.text = "empty"
        /\ UNCHANGED <<step, stop, update, saved, judged, raised, cancelled>>
    BY DEF TruncateStatus, Goto, RanksTypeOK, Statuses
  <1>2. pc'[r] = "write" /\ OnlyMoves(r)
    BY <1>1 DEF RanksTypeOK, OnlyMoves
  <1>3. /\ Failing(r)' <=> Failing(r)
        /\ \A st, th : Writes(r, st, th)' = Writes(r, st, th)
        /\ Fresh(r)' = Fresh(r)
        /\ \A d : Before(r, d)' = Before(r, d)
        /\ GoesOn(r, b)' = GoesOn(r, b)
    BY <1>1, <1>2 DEF Failing, Writes, InUpdate, Fresh, Before, GoesOn
  <1>4. \/ L = "start" /\ Writes(r, "TRAINING", "loading") /\ Fresh(r)
        \/ /\ L = "hist_in" /\ r = 0 /\ Before(r, b)
           /\ Writes(r, "TRAINING", "hist_out") /\ "history" \in update[r].adds
        \/ L = "last_out" /\ Writes(r, "COMPLETED", "end")
        \/ Failing(r) /\ RaisedBehind(r, L, b)
    <2>1. InUpdate(r) /\ Behind(r, L, b)
      BY <1>1 DEF InUpdate, Segment
    <2>2. QED
      BY <2>1, UpdateCases
  <1>5. Behind(r, L, b)'
    <2>1. CASE Failing(r) /\ RaisedBehind(r, L, b)
      <3>1. RaisedBehind(r, L, b)'
        BY <1>3, <2>1 DEF RaisedBehind, Due
      <3>2. QED
        BY <1>3, <2>1, <3>1, RaisedIsBehind
    <2>2. CASE ~(Failing(r) /\ RaisedBehind(r, L, b))
      BY <1>1, <1>3, <1>4, <2>2 DEF Behind, OnItsWay
    <2>3. QED
      BY <2>1, <2>2
  <1>6. \A s \in Ranks : (Failing(s)' <=> Failing(s)) /\ Behind(s, L, b)'
    BY <1>2, <1>3, <1>5, BehindFrame DEF OnlyMoves, Segment
  <1>7. RaisedInv(L)'
    <2>1. ASSUME NEW s \in Ranks, raised[s] = "batch", RaisesAlone(s)
          PROVE  s = r
      <3>1. Failing(r)
        BY <1>4, <2>1 DEF Segment, RaisedInv, RaisesAt
      <3>2. QED
        BY <2>1, <3>1 DEF Segment, RaisedInv, RaisesAlone
    <2>2. \A s \in Ranks : RaisesAlone(s)' <=> RaisesAlone(s)
      BY <1>1 DEF RaisesAlone
    <2>3. QED
      BY <1>1, <1>2, <1>6, <2>1, <2>2 DEF Segment, RaisedInv, RaisesAt, OnlyMoves
  <1>8. KeepsHistory(L)'
    <2>1. CASE L = "hist_in"
      <3>1. r = 0
        BY <1>4, <2>1 DEF RaisedBehind
      <3>2. QED
        BY <1>1, <1>2, <2>1, <3>1 DEF KeepsHistory
    <2>2. CASE L # "hist_in"
      <3>1. L \in {"hist_out", "info_in", "info_out", "ckpt_gather", "ckpt_in", "ckpt_out"}
              => raised[r] # "no"
        BY <1>4 DEF Segment, RaisedInv
      <3>2. QED
        BY <1>1, <2>2, <3>1 DEF KeepsHistory, NobodyRaised
    <2>3. QED
      BY <2>1, <2>2
  <1>9. QED
    BY <1>1, <1>6, <1>7, <1>8 DEF Segment

(* The text of the status: written over nothing but an empty file, except  *)
(* at the beginning and at the end, when all ranks write.                  *)
LEMMA WriteStep ==
    ASSUME RanksTypeOK, LocalInv, NEW L, NEW b \in 0 .. MaxSteps - 1, Segment(L, b),
           NEW r \in Ranks, WriteStatus(r)
    PROVE  Segment(L, b)'
  <1>1. /\ pc[r] = "write" /\ pc' = [pc EXCEPT ![r] = update[r].then]
        /\ UNCHANGED <<step, stop, update, saved, judged, raised, cancelled>>
        /\ file.text = "empty" => file' = update[r].new
        /\ file'.status = update[r].new.status
        /\ update[r].new.text = "whole"
        /\ update[r].new.status = update[r].status
        /\ update[r].adds \subseteq update[r].new.has
    BY DEF WriteStatus, MayFallShort, Goto, LocalInv, RanksTypeOK, Statuses
  <1>2. pc'[r] = update[r].then /\ OnlyMoves(r)
    BY <1>1 DEF RanksTypeOK, OnlyMoves
  <1>3. /\ Fresh(r)' = Fresh(r)
        /\ \A d : Before(r, d)' = Before(r, d)
        /\ GoesOn(r, b)' = GoesOn(r, b)
    BY <1>1 DEF Fresh, Before, GoesOn
  <1>4. \/ L = "start" /\ Writes(r, "TRAINING", "loading") /\ Fresh(r)
        \/ /\ L = "hist_in" /\ r = 0 /\ Before(r, b)
           /\ Writes(r, "TRAINING", "hist_out") /\ "history" \in update[r].adds
        \/ L = "last_out" /\ Writes(r, "COMPLETED", "end")
        \/ Failing(r) /\ RaisedBehind(r, L, b)
    <2>1. InUpdate(r) /\ Behind(r, L, b)
      BY <1>1 DEF InUpdate, Segment
    <2>2. QED
      BY <2>1, UpdateCases
  <1>5. /\ Failing(r)' <=> Failing(r)
        /\ Failing(r) => pc'[r] = "exited" /\ update[r].status = "FAILED"
    BY <1>1, <1>2, <1>4 DEF Failing, Writes, InUpdate
  <1>6. Behind(r, L, b)'
    <2>1. CASE Failing(r) /\ RaisedBehind(r, L, b)
      <3>1. RaisedBehind(r, L, b)'
        BY <1>3, <2>1 DEF RaisedBehind, Due
      <3>2. QED
        BY <1>5, <2>1, <3>1, RaisedIsBehind
    <2>2. CASE ~(Failing(r) /\ RaisedBehind(r, L, b))
      BY <1>1, <1>2, <1>3, <1>4, <2>2 DEF Behind, OnItsWay, Writes
    <2>3. QED
      BY <2>1, <2>2
  <1>7. \A s \in Ranks : (Failing(s)' <=> Failing(s)) /\ Behind(s, L, b)'
    BY <1>2, <1>5, <1>6, BehindFrame DEF OnlyMoves, Segment
  <1>8. RaisedInv(L)'
    <2>0. \A s \in Ranks : RaisesAlone(s)' <=> RaisesAlone(s)
      BY <1>1 DEF RaisesAlone
    <2>1. ASSUME NEW s \in Ranks, raised[s] = "batch"
          PROVE  /\ pc'[r] = "exited" /\ file'.status = "FAILED"
                 /\ RaisesAlone(s) => s = r /\ file'.text = "whole"
      <3>1. Failing(r)
        BY <1>4, <2>1 DEF Segment, RaisedInv, RaisesAt
      <3>2. pc'[r] = "exited" /\ file'.status = "FAILED"
        BY <1>1, <1>5, <3>1
      <3>3. RaisesAlone(s) => s = r
        BY <3>1 DEF Segment, RaisedInv, RaisesAlone
      <3>4. RaisesAlone(s) => file.text = "empty"
        BY <1>1, <2>1, <3>3 DEF Segment, RaisedInv
      <3>5. QED
        BY <1>1, <3>2, <3>3, <3>4
    <2>2. pc'[r] \notin {"killed", "write"}
      BY <1>1, <1>2 DEF LocalInv, InUpdate
    <2>3. QED
      BY <1>1, <1>2, <1>7, <2>0, <2>1, <2>2
         DEF Segment, RaisedInv, RaisesAt, OnlyMoves
  <1>9. KeepsHistory(L)'
    <2>1. CASE L = "hist_in"
      <3>1. /\ r = 0 /\ Writes(r, "TRAINING", "hist_out")
            /\ "history" \in update[r].adds
        BY <1>4, <2>1 DEF RaisedBehind
      <3>2. file.text = "empty"
        BY <1>1, <2>1, <3>1 DEF Segment, KeepsHistory
      <3>3. pc'[0] = "hist_out" /\ HasHistory'
        BY <1>1, <1>2, <3>1, <3>2 DEF Writes, HasHistory
      <3>4. QED
        BY <2>1, <3>3 DEF KeepsHistory
    <2>2. CASE L # "hist_in"
      <3>1. L \in {"hist_out", "info_in", "info_out", "ckpt_gather", "ckpt_in", "ckpt_out"}
              => raised[r] # "no"
        BY <1>4 DEF Segment, RaisedInv
      <3>2. QED
        BY <1>1, <2>2, <3>1 DEF KeepsHistory, NobodyRaised
    <2>3. QED
      BY <2>1, <2>2
  <1>10. QED
    BY <1>1, <1>7, <1>8, <1>9 DEF Segment

(* An exception takes a rank out of step, before its next collective. *)
LEMMA RaiseStep ==
    ASSUME RanksTypeOK, NEW L, NEW b \in 0 .. MaxSteps - 1, Segment(L, b),
           NEW r \in Ranks, pc[r] \in {"loading", "batch", "resume"},
           Raise(r, pc[r])
    PROVE  Segment(L, b)'
  <1>1. /\ pc' = [pc EXCEPT ![r] = "read"]
        /\ update' = [update EXCEPT ![r] = Update("FAILED", {}, "exited")]
        /\ raised' = [raised EXCEPT ![r] = pc[r]]
        /\ UNCHANGED <<step, stop, file, saved, judged, cancelled>>
    BY DEF Raise, BeginUpdate, Goto
  <1>2. /\ pc'[r] = "read" /\ OnlyMoves(r)
        /\ update'[r] = Update("FAILED", {}, "exited")
        /\ raised'[r] = pc[r] /\ \A s \in Ranks \ {r} : raised'[s] = raised[s]
    BY <1>1 DEF RanksTypeOK, OnlyMoves
  <1>3. Failing(r)' /\ ~Failing(r)
    BY <1>2 DEF Failing, Writes, InUpdate, Update
  <1>4. /\ \A d : Before(r, d)' = Before(r, d)
        /\ GoesOn(r, b)' = GoesOn(r, b)
    BY <1>1 DEF Before, GoesOn
  <1>5. /\ pc[r] = "loading" => L = "start"
        /\ pc[r] = "resume" => L = "load"
        /\ pc[r] = "batch" => L \in {"dev_out", "info_out", "ckpt_out"}
        /\ RaisedBehind(r, L, b)
    <2>1. Behind(r, L, b) /\ ~InUpdate(r) /\ pc[r] # "exited"
      BY DEF Segment, InUpdate
    <2>2. QED
      BY <2>1 DEF Behind, OnItsWay, Turns, RaisedBehind, Failing, Writes
  <1>6. Behind(r, L, b)'
    <2>1. RaisedBehind(r, L, b)'
      BY <1>4, <1>5 DEF RaisedBehind, Due
    <2>2. QED
      BY <1>3, <2>1, RaisedIsBehind
  <1>7. \A s \in Ranks : /\ s # r => (Failing(s)' <=> Failing(s))
                         /\ Behind(s, L, b)'
    BY <1>2, <1>6, BehindFrame DEF OnlyMoves, Segment
  <1>8. RaisedInv(L)'
    <2>1. raised'[r] # "no" /\ pc[r] \notin {"exited", "killed"}
      BY <1>2
    <2>2. \A s \in Ranks : RaisesAlone(s)' => s = r
      BY <2>1 DEF RaisesAlone
    <2>3. raised'[r] \in RaisesAt(L)
      BY <1>2, <1>5 DEF RaisesAt
    <2>4. QED
      BY <1>1, <1>2, <1>3, <1>7, <2>1, <2>2, <2>3
         DEF Segment, RaisedInv, RaisesAt, OnlyMoves
  <1>9. KeepsHistory(L)'
    BY <1>2, <1>5 DEF KeepsHistory, NobodyRaised
  <1>10. QED
    BY <1>1, <1>7, <1>8, <1>9 DEF Segment

-----------------------------------------------------------------------------
(* All ranks move.                                                         *)

(* What a rank that waits in collective c of step d has behind it. *)
Ready(r, c, d) ==
    /\ pc[r] = c
    /\ c = "load" => Fresh(r)
    /\ c \in {"dev_in", "dev_out", "forward", "loss", "backward", "hist_in",
              "hist_out", "info_in", "info_out"} => Before(r, d)
    /\ c \in {"ckpt_gather", "ckpt_in", "ckpt_out"} => After(r, d)
    /\ c \in {"last_gather", "last_in", "last_out"} => step[r] = d

(* Ranks that all wait do so in the same call of the same step. *)
LEMMA SameWait ==
    ASSUME RanksTypeOK, ClocksAgree, NEW L, NEW b \in 0 .. MaxSteps - 1,
           Segment(L, b), \A r \in Ranks : Waiting(r)
    PROVE  /\ NobodyRaised /\ \A r \in Ranks : ~Failing(r)
           /\ \E c \in Sites, d \in 0 .. MaxSteps - 1 :
                /\ \A r \in Ranks : Ready(r, c, d)
                /\ c \in {"hist_out", "info_in", "info_out", "ckpt_gather",
                          "ckpt_in", "ckpt_out"} => HasHistory
  <1>0. \A r \in Ranks : ~InUpdate(r) /\ pc[r] \notin {"exited", "resume", "batch", "judge",
              "loop", "save", "save_last", "end", "killed", "loading"}
    BY SitesAre DEF Waiting, InUpdate
  <1>1. \A r \in Ranks : ~Failing(r)
    BY <1>0 DEF Failing, Writes
  <1>2. NobodyRaised /\ KeepsHistory(L)
    BY <1>0, <1>1 DEF Segment, RaisedInv, NobodyRaised
  <1>3. \A r \in Ranks : Behind(r, L, b) /\ \A st, th : ~Writes(r, st, th)
    BY <1>0 DEF Segment, Writes
  <1> DEFINE Found(c, d) ==
                /\ \A r \in Ranks : Ready(r, c, d)
                /\ c \in {"hist_out", "info_in", "info_out", "ckpt_gather",
                          "ckpt_in", "ckpt_out"} => HasHistory
  <1>4. CASE L \notin {"info_out", "ckpt_out"}
    <2> DEFINE c == CASE L = "start" -> "load"
                      [] L = "load" -> "dev_in"
                      [] L = "dev_in" -> "dev_out"
                      [] L = "dev_out" -> "forward"
                      [] L = "forward" -> "loss"
                      [] L = "loss" -> "backward"
                      [] L = "backward" -> "hist_in"
                      [] L = "hist_in" -> "hist_out"
                      [] L = "hist_out" -> "info_in"
                      [] L = "info_in" -> "info_out"
                      [] L = "ckpt_gather" -> "ckpt_in"
                      [] L = "ckpt_in" -> "ckpt_out"
                      [] L = "last_gather" -> "last_in"
                      [] L = "last_in" -> "last_out"
    <2>1. L \in {"start", "load", "dev_in", "dev_out", "forward", "loss",
                 "backward", "hist_in", "hist_out", "info_in", "ckpt_gather",
                 "ckpt_in", "last_gather", "last_in"}
      <3>1. Behind(0, L, b) /\ ~Writes(0, "COMPLETED", "end")
            /\ pc[0] \notin {"end", "killed"}
        BY <1>0, <1>3
      <3>2. QED
        BY <1>4, <3>1 DEF Behind, OnItsWay
    <2>2. c \in Sites
      BY <2>1, SitesAre
    <2>3. ASSUME NEW r \in Ranks PROVE Ready(r, c, b)
      <3>0. OnItsWay(r, L, b) /\ ~Failing(r) /\ (\A st, th : ~Writes(r, st, th))
            /\ pc[r] \notin {"loading", "resume", "batch", "save", "save_last"}
        BY <1>0, <1>1, <1>3 DEF Behind
      <3>1. CASE L = "start"
        BY <3>0, <3>1 DEF OnItsWay, Ready
      <3>2. CASE L \in {"load", "dev_in", "dev_out", "forward", "loss"}
        <4>1. pc[r] = c /\ Before(r, b)
          BY <3>0, <3>2 DEF OnItsWay
        <4>2. c \in {"dev_in", "dev_out", "forward", "loss", "backward"}
          BY <3>2
        <4> HIDE DEF c
        <4>3. QED
          BY <4>1, <4>2 DEF Ready
      <3>3. CASE L \in {"backward", "hist_in", "hist_out", "info_in"}
        <4>1. pc[r] = c /\ Before(r, b)
          BY <3>0, <3>3 DEF OnItsWay
        <4>2. c \in {"hist_in", "hist_out", "info_in", "info_out"}
          BY <3>3
        <4> HIDE DEF c
        <4>3. QED
          BY <4>1, <4>2 DEF Ready
      <3>4. CASE L \in {"ckpt_gather", "ckpt_in"}
        <4>1. pc[r] = c /\ After(r, b)
          BY <3>0, <3>4 DEF OnItsWay
        <4>2. c \in {"ckpt_in", "ckpt_out"}
          BY <3>4
        <4> HIDE DEF c
        <4>3. QED
          BY <4>1, <4>2 DEF Ready
      <3>5. CASE L \in {"last_gather", "last_in"}
        <4>1. pc[r] = c /\ step[r] = b
          BY <3>0, <3>5 DEF OnItsWay
        <4>2. c \in {"last_in", "last_out"}
          BY <3>5
        <4> HIDE DEF c
        <4>3. QED
          BY <4>1, <4>2 DEF Ready
      <3>6. QED
        BY <2>1, <3>1, <3>2, <3>3, <3>4, <3>5
    <2>4. c \in {"hist_out", "info_in", "info_out", "ckpt_gather",
                 "ckpt_in", "ckpt_out"} => HasHistory
      <3>1. L = "hist_in" => pc[0] = "hist_out"
        BY <2>3 DEF Ready
      <3>2. QED
        BY <1>2, <2>1, <3>1 DEF KeepsHistory
    <2> HIDE DEF c
    <2>5. Found(c, b)
      BY <2>3, <2>4
    <2>6. QED
      BY <1>1, <1>2, <2>2, <2>5
  <1>5. CASE L \in {"info_out", "ckpt_out"}
    <2>0. HasHistory
      BY <1>2, <1>5 DEF KeepsHistory
    <2>1. CASE L = "info_out" /\ Due(b)
      <3>1. \A r \in Ranks : Ready(r, "ckpt_gather", b)
        BY <1>0, <1>1, <1>3, <2>1 DEF Behind, OnItsWay, Ready
      <3>2. "ckpt_gather" \in Sites /\ Found("ckpt_gather", b)
        BY <2>0, <3>1, SitesAre
      <3>3. QED
        BY <1>1, <1>2, <3>2
    <2>2. CASE L = "ckpt_out" \/ ~Due(b)
      <3>1. ASSUME NEW r \in Ranks
            PROVE  \/ pc[r] = "forward" /\ GoesOn(r, b)
                   \/ pc[r] = "last_gather" /\ After(r, b) /\ LoopEnds(r)
        BY <1>0, <1>1, <1>3, <1>5, <2>2 DEF Behind, OnItsWay, Turns, Due
      <3>2. CASE pc[0] = "forward"
        <4>1. GoesOn(0, b)
          BY <3>1, <3>2
        <4>2. ASSUME NEW r \in Ranks PROVE pc[r] = "forward" /\ GoesOn(r, b)
          <5>1. CASE pc[r] = "last_gather" /\ After(r, b) /\ LoopEnds(r)
            <6>1. judged[0].step = b /\ ~judged[0].late /\ b # MaxSteps - 1
              BY <4>1 DEF GoesOn, Before
            <6>2. judged[r].step = b /\ judged[r].late = stop[r] /\ step[r] = b
              BY <5>1 DEF After
            <6>3. ~stop[r]
              BY <6>1, <6>2 DEF ClocksAgree
            <6>4. QED
              BY <5>1, <6>1, <6>2, <6>3 DEF LoopEnds
          <5>2. QED
            BY <3>1, <5>1
        <4>3. b + 1 \in 0 .. MaxSteps - 1
          BY <4>1 DEF GoesOn
        <4>4. "forward" \in Sites /\ Found("forward", b + 1)
          BY <4>2, SitesAre DEF Ready, GoesOn
        <4>5. QED
          BY <1>1, <1>2, <4>3, <4>4
      <3>3. CASE pc[0] # "forward"
        <4>1. After(0, b) /\ LoopEnds(0)
          BY <3>1, <3>3
        <4>2. ASSUME NEW r \in Ranks PROVE pc[r] = "last_gather" /\ step[r] = b
          <5>1. CASE pc[r] = "forward" /\ GoesOn(r, b)
            <6>1. judged[r].step = b /\ ~judged[r].late /\ b # MaxSteps - 1
              BY <5>1 DEF GoesOn, Before
            <6>2. judged[0].step = b /\ judged[0].late = stop[0] /\ step[0] = b
              BY <4>1 DEF After
            <6>3. ~stop[0]
              BY <6>1, <6>2 DEF ClocksAgree
            <6>4. QED
              BY <4>1, <6>1, <6>2, <6>3 DEF LoopEnds
          <5>2. QED
            BY <3>1, <5>1 DEF After
        <4>3. "last_gather" \in Sites /\ Found("last_gather", b)
          BY <4>2, SitesAre DEF Ready
        <4>4. QED
          BY <1>1, <1>2, <4>3
      <3>4. QED
        BY <3>2, <3>3
    <2>3. QED
      BY <1>5, <2>1, <2>2
  <1>6. QED
    BY <1>4, <1>5

(* A collective takes all ranks behind it. *)
LEMMA CollectiveStep ==
    ASSUME RanksTypeOK, ClocksAgree, ~mixed, NEW L, NEW b \in 0 .. MaxSteps - 1,
           Segment(L, b), Collective
    PROVE  /\ ~mixed'
           /\ \E c \in Collectives, d \in 0 .. MaxSteps - 1 : Segment(c, d)'
  <1>0. \A r \in Ranks : Waiting(r)
    BY DEF Collective
  <1>1. NobodyRaised /\ \A r \in Ranks : ~Failing(r)
    BY <1>0, SameWait
  <1>2. PICK c \in Sites, d \in 0 .. MaxSteps - 1 :
                /\ \A r \in Ranks : Ready(r, c, d)
                /\ c \in {"hist_out", "info_in", "info_out", "ckpt_gather",
                          "ckpt_in", "ckpt_out"} => HasHistory
    BY <1>0, SameWait
  <1>3. ~mixed'
    BY <1>2 DEF Collective, Ready
  <1>4. PICK e \in 0 .. MaxSteps - 1 :
           e = IF c = "load" THEN IF saved >= 0 THEN saved ELSE 0 ELSE d
    BY DEF RanksTypeOK
  <1>5. UNCHANGED <<step, stop, judged, saved, file, raised, cancelled>>
    BY DEF Collective
  <1>6. ASSUME NEW r \in Ranks
        PROVE  Behind(r, c, e)' /\ ~Failing(r)' /\ pc'[r] # "write"
    <2>1. pc'[r] = Continue(r) /\ update'[r] = UpdateAfter(r) /\ pc[r] = c
          /\ Ready(r, c, d)
      BY <1>2 DEF Collective, Ready
    <2>2. /\ Fresh(r)' = Fresh(r)
          /\ Before(r, e)' = Before(r, e)
          /\ After(r, e)' = After(r, e)
      BY <1>5 DEF Fresh, Before, After
    <2>3. CASE c = "load"
      <3>1. Fresh(r) /\ pc'[r] = IF saved >= 0 THEN "resume" ELSE "dev_in"
        BY <2>1, <2>3 DEF Ready, Continue, AfterLoad
      <3>2. saved >= 0 \/ Before(r, e)
        BY <1>4, <2>3, <3>1 DEF Fresh, Before
      <3>3. QED
        BY <2>2, <2>3, <3>1, <3>2 DEF Behind, OnItsWay, Failing, Writes, InUpdate
    <2>4. CASE c = "hist_in"
      <3>1. /\ Before(r, e)
            /\ pc'[r] = IF r = 0 THEN "read" ELSE "hist_out"
            /\ r = 0 => update'[r] = Update("TRAINING", {"history"}, "hist_out")
        BY <1>4, <2>1, <2>4 DEF Ready, Continue, UpdateAfter, main_rank_only
      <3>2. QED
        BY <2>2, <2>4, <3>1 DEF Behind, OnItsWay, Failing, Writes, InUpdate, Update
    <2>5. CASE c = "last_out"
      <3>1. pc'[r] = "read" /\ update'[r] = Update("COMPLETED", {}, "end")
        BY <2>1, <2>5 DEF Continue, UpdateAfter
      <3>2. QED
        BY <2>5, <3>1 DEF Behind, OnItsWay, Failing, Writes, InUpdate, Update
    <2>6. CASE c \in {"dev_in", "dev_out", "forward", "loss", "backward",
                      "hist_out", "info_in", "info_out"}
      <3>1. Before(r, e)'
        BY <1>4, <2>1, <2>2, <2>6 DEF Ready
      <3>2. pc'[r] = CASE c = "dev_in" -> "dev_out" [] c = "dev_out" -> "batch"
                       [] c = "forward" -> "loss" [] c = "loss" -> "backward"
                       [] c = "backward" -> "hist_in" [] c = "hist_out" -> "info_in"
                       [] c = "info_in" -> "info_out" [] c = "info_out" -> "judge"
        BY <2>1, <2>6 DEF Continue
      <3>3. OnItsWay(r, c, e)'
        BY <2>6, <3>1, <3>2 DEF OnItsWay
      <3>4. QED
        BY <2>6, <3>2, <3>3 DEF Behind, Failing, Writes, InUpdate
    <2>7. CASE c \in {"ckpt_gather", "ckpt_in", "ckpt_out"}
      <3>1. After(r, e)'
        BY <1>4, <2>1, <2>2, <2>7 DEF Ready
      <3>2. pc'[r] = CASE c = "ckpt_gather" -> "ckpt_in" [] c = "ckpt_out" -> "loop"
                       [] c = "ckpt_in" -> IF r = 0 THEN "save" ELSE "ckpt_out"
        BY <2>1, <2>7 DEF Continue, main_rank_only
      <3>3. QED
        BY <2>7, <3>1, <3>2 DEF Behind, OnItsWay, Turns, Failing, Writes, InUpdate
    <2>8. CASE c \in {"last_gather", "last_in"}
      <3>1. step'[r] = e
        BY <1>4, <1>5, <2>1, <2>8 DEF Ready
      <3>2. pc'[r] = CASE c = "last_gather" -> "last_in"
                       [] c = "last_in" -> IF r = 0 THEN "save_last" ELSE "last_out"
        BY <2>1, <2>8 DEF Continue, main_rank_only
      <3>3. QED
        BY <2>8, <3>1, <3>2 DEF Behind, OnItsWay, Failing, Writes, InUpdate
    <2>9. QED
      BY <2>3, <2>4, <2>5, <2>6, <2>7, <2>8, SitesAre
  <1>7. RaisedInv(c)'
    <2>1. \A r \in Ranks : pc'[r] # "killed"
      BY <1>0, SitesAre DEF Collective, Waiting, Continue, AfterLoad, main_rank_only
    <2>2. QED
      BY <1>1, <1>5, <1>6, <2>1 DEF RaisedInv, RaisesAt, NobodyRaised
  <1>8. KeepsHistory(c)'
    <2>1. c = "hist_in" => pc'[0] = "read"
      BY <1>2 DEF Collective, Ready, Continue, main_rank_only
    <2>2. QED
      BY <1>2, <1>5, <2>1 DEF KeepsHistory, HasHistory, NobodyRaised
  <1>9. Segment(c, e)'
    BY <1>4, <1>5, <1>6, <1>7, <1>8 DEF Segment
  <1>10. QED
    BY <1>3, <1>9 DEF Collectives

(* A rank that is killed takes no other out of step.  mpirun kills none    *)
(* before one has exited or been killed.                                   *)
LEMMA KillStep ==
    ASSUME RanksTypeOK, NEW L, NEW b \in 0 .. MaxSteps - 1, Segment(L, b),
           NEW r \in Ranks, MpirunKills(r) \/ SlurmKills(r)
    PROVE  Segment(L, b)'
  <1>1. /\ pc[r] \notin {"end", "exited", "killed"}
        /\ pc' = [pc EXCEPT ![r] = "killed"]
        /\ UNCHANGED <<step, stop, update, file, saved, judged, raised>>
    BY DEF MpirunKills, SlurmKills, Kill, Goto, Ended
  <1>2. pc'[r] = "killed" /\ OnlyMoves(r)
    BY <1>1 DEF RanksTypeOK, OnlyMoves
  <1>3. ~Failing(r)'
    BY <1>2 DEF Failing, Writes, InUpdate
  <1>4. Behind(r, L, b)'
    <2>1. L \in {"ckpt_in", "last_in"} => step[r] = b
      BY <1>1 DEF Segment, Behind, OnItsWay, After
    <2>2. QED
      BY <1>1, <1>2, <2>1 DEF Behind, OnItsWay
  <1>5. \A s \in Ranks : /\ s # r => (Failing(s)' <=> Failing(s))
                         /\ Behind(s, L, b)'
    BY <1>2, <1>4, BehindFrame DEF OnlyMoves, Segment
  <1>6. RaisedInv(L)'
    <2>1. ~cancelled' => \E s \in Ranks : pc'[s] = "exited"
      <3>1. SUFFICES ASSUME ~cancelled'
                     PROVE  \E s \in Ranks : pc'[s] = "exited"
        OBVIOUS
      <3>2. ~cancelled /\ \E s \in Ranks : pc[s] \in {"exited", "killed"}
        BY <3>1 DEF MpirunKills, SlurmKills
      <3>3. PICK s \in Ranks : pc[s] = "exited"
        BY <3>2 DEF Segment, RaisedInv
      <3>4. QED
        BY <1>1, <1>2, <3>3 DEF OnlyMoves
    <2>2. \A s \in Ranks : RaisesAlone(s)' <=> RaisesAlone(s)
      BY <1>1 DEF RaisesAlone
    <2>3. QED
      BY <1>1, <1>2, <1>3, <1>5, <2>1, <2>2
         DEF Segment, RaisedInv, RaisesAt, OnlyMoves
  <1>7. KeepsHistory(L)'
    BY <1>1, <1>2 DEF Segment, KeepsHistory, HasHistory, NobodyRaised, OnlyMoves
  <1>8. QED
    BY <1>1, <1>5, <1>6, <1>7 DEF Segment

-----------------------------------------------------------------------------
(* The theorems.                                                           *)

(* As long as the ranks agree, they are behind one collective. *)
LEMMA AgreeStep ==
    ASSUME RanksInv, [RanksNext]_ranksVars
    PROVE  AgreeInv'
  <1> SUFFICES ASSUME ~disagreed'
               PROVE  /\ ~mixed' /\ ClocksAgree'
                      /\ \E L \in Collectives, b \in 0 .. MaxSteps - 1 : Segment(L, b)'
    BY DEF AgreeInv
  <1>0. RanksTypeOK /\ LocalInv
    BY DEF RanksInv
  <1>1. ~disagreed
    BY DEF ranksVars, RanksNext, Local, ReadStatus, TruncateStatus, WriteStatus,
           LoadModel, Resume, NextBatch, OnStepEnd, EndOfIteration,
           SaveCheckpoint, RankRaises, Raise, Collective, MpirunKills,
           SlurmKills, Kill, AllEnded
  <1>2. /\ ~mixed /\ ClocksAgree
        /\ \E L \in Collectives, b \in 0 .. MaxSteps - 1 : Segment(L, b)
    BY <1>1 DEF RanksInv, AgreeInv
  <1>3. CASE UNCHANGED ranksVars
    <2>1. ASSUME NEW L, NEW b, Segment(L, b) PROVE Segment(L, b)'
      <3>1. \A s \in Ranks : Behind(s, L, b)' /\ (Failing(s)' <=> Failing(s))
        BY <1>3, <2>1, BehindFrame DEF ranksVars, Segment
      <3>2. QED
        BY <1>3, <2>1, <3>1
           DEF ranksVars, Segment, RaisedInv, RaisesAt, RaisesAlone, KeepsHistory,
               HasHistory, NobodyRaised
    <2>2. QED
      BY <1>2, <1>3, <2>1 DEF ranksVars, ClocksAgree
  <1>4. CASE RanksNext
    <2>2. ASSUME NEW L \in Collectives, NEW b \in 0 .. MaxSteps - 1, Segment(L, b),
                 NEW r \in Ranks, Local(r) \/ RankRaises(r)
          PROVE  ~mixed' /\ ClocksAgree' /\ Segment(L, b)'
      <3>1. ~mixed'
        BY <1>2, <2>2
           DEF Local, ReadStatus, TruncateStatus, WriteStatus, LoadModel, Resume,
               NextBatch, OnStepEnd, EndOfIteration, SaveCheckpoint, RankRaises, Raise
      <3>2. CASE OnStepEnd(r)
        <4>1. PICK late \in BOOLEAN :
                /\ judged' = [judged EXCEPT ![r] = [step |-> step[r], late |-> late]]
                /\ disagreed' = (disagreed \/ \E s \in Ranks :
                            judged[s].step = step[r] /\ judged[s].late # late)
          BY <3>2 DEF OnStepEnd
        <4>2. /\ judged'[r].step = step[r] /\ judged'[r].late = late
              /\ \A s \in Ranks \ {r} : judged'[s] = judged[s]
          BY <1>0, <4>1 DEF RanksTypeOK
        <4>3. \A s \in Ranks : judged[s].step = step[r] => judged[s].late = late
          BY <4>1
        <4>4. ClocksAgree'
          <5>1. SUFFICES ASSUME NEW q \in Ranks, NEW s \in Ranks,
                                judged'[q].step = judged'[s].step
                         PROVE  judged'[q].late = judged'[s].late
            BY DEF ClocksAgree
          <5>2. CASE q = r
            BY <4>2, <4>3, <5>1, <5>2
          <5>3. CASE s = r
            BY <4>2, <4>3, <5>1, <5>3
          <5>4. CASE q # r /\ s # r
            BY <1>2, <4>2, <5>1, <5>4 DEF ClocksAgree
          <5>5. QED
            BY <5>2, <5>3, <5>4
        <4>5. QED
          BY <1>0, <2>2, <3>1, <3>2, <4>4, LocalQuiet
      <3>3. CASE ~OnStepEnd(r)
        <4>1. UNCHANGED judged
          BY <2>2, <3>3
             DEF Local, ReadStatus, TruncateStatus, WriteStatus, LoadModel, Resume,
                 NextBatch, EndOfIteration, SaveCheckpoint, RankRaises, Raise
        <4>2. ClocksAgree'
          BY <1>2, <4>1 DEF ClocksAgree
        <4>3. Segment(L, b)'
          <5>1. CASE RankRaises(r)
            BY <1>0, <2>2, <5>1, RaiseStep DEF RankRaises
          <5>2. CASE Resume(r)
            <6>1. \/ Resumes(r)
                  \/ pc[r] = "resume" /\ Raise(r, "resume")
              BY <5>2 DEF Resume, Resumes
            <6>2. QED
              BY <1>0, <2>2, <6>1, RaiseStep, LocalQuiet
          <5>3. QED
            BY <1>0, <2>2, <3>3, <5>1, <5>2, LocalQuiet, TruncateStep, WriteStep
               DEF Local
        <4>4. QED
          BY <3>1, <4>2, <4>3
      <3>4. QED
        BY <3>2, <3>3
    <2>3. ASSUME NEW L \in Collectives, NEW b \in 0 .. MaxSteps - 1, Segment(L, b)
          PROVE  /\ ~mixed' /\ ClocksAgree'
                 /\ \E c \in Collectives, d \in 0 .. MaxSteps - 1 : Segment(c, d)'
      <3>1. CASE Collective
        <4>1. ClocksAgree'
          BY <1>2, <3>1 DEF Collective, ClocksAgree
        <4>2. QED
          BY <1>0, <1>2, <2>3, <3>1, <4>1, CollectiveStep
      <3>2. CASE \E r \in Ranks : MpirunKills(r) \/ SlurmKills(r)
        <4>1. ~mixed' /\ ClocksAgree'
          BY <1>2, <3>2 DEF MpirunKills, SlurmKills, Kill, ClocksAgree
        <4>2. QED
          BY <1>0, <2>3, <3>2, <4>1, KillStep
      <3>3. CASE AllEnded
        BY <1>3, <3>3 DEF AllEnded
      <3>4. CASE \E r \in Ranks : Local(r) \/ RankRaises(r)
        BY <2>2, <2>3, <3>4
      <3>5. QED
        BY <1>4, <3>1, <3>2, <3>3, <3>4 DEF RanksNext
    <2>4. QED
      BY <1>2, <2>3
  <1>5. QED
    BY <1>3, <1>4

(* The invariant of the ranks, any of which may raise an exception or be   *)
(* killed: behind the last collective each is on its way to the next, or   *)
(* has raised at the place where that is possible, or is killed; only the  *)
(* kill of Slurm comes before one has exited; and what those that raised   *)
(* have written says FAILED.                                               *)
THEOREM RanksInvariance == RanksSpec => []RanksInv
  <1>1. RanksInit => RanksInv
    <2> SUFFICES ASSUME RanksInit PROVE RanksInv
      OBVIOUS
    <2>1. RanksTypeOK /\ LocalInv
      BY LocalInit
    <2>2. \A r \in Ranks : Behind(r, "start", 0) /\ ~Failing(r)
      BY DEF RanksInit, Behind, OnItsWay, Writes, InUpdate, Fresh, Failing, Update
    <2>3. Segment("start", 0)
      BY <2>2 DEF RanksInit, Segment, RaisedInv, RaisesAt, KeepsHistory
    <2>4. 0 \in 0 .. MaxSteps - 1 /\ "start" \in Collectives
      BY DEF Collectives
    <2>5. AgreeInv
      BY <2>3, <2>4 DEF RanksInit, AgreeInv, ClocksAgree
    <2>6. QED
      BY <2>1, <2>5 DEF RanksInv
  <1>2. RanksInv /\ [RanksNext]_ranksVars => RanksInv'
    BY LocalStep, AgreeStep DEF RanksInv
  <1>3. QED
    BY <1>1, <1>2, PTL DEF RanksSpec

(* For any number of ranks, any of which may raise an exception or be      *)
(* killed: as long as they judge the time alike, ranks that all wait do so *)
(* in one collective of one step and never mix two; until one raises, only *)
(* rank 0 updates the status while the job trains, and the history is in   *)
(* it after each step; and exceptions in a step that Slurm does not        *)
(* interrupt leave a status that says FAILED or, when several ranks have   *)
(* raised, one that cannot be read.                                        *)
THEOREM RanksStayInStep == RanksSpec => []RanksAgree
  <1>1. RanksInv => RanksAgree
    <2> SUFFICES ASSUME RanksInv PROVE RanksAgree
      OBVIOUS
    <2>0. RanksTypeOK
      BY DEF RanksInv
    <2>1. CASE disagreed
      BY <2>0, <2>1 DEF RanksAgree, RanksMeet, RankZeroWrites, FailureIsRecorded,
                        HistoryIsKept
    <2>2. CASE ~disagreed
      <3>1. PICK L \in Collectives, b \in 0 .. MaxSteps - 1 : Segment(L, b)
        BY <2>2 DEF RanksInv, AgreeInv
      <3>2. ~mixed /\ ClocksAgree
        BY <2>2 DEF RanksInv, AgreeInv
      <3>3. RanksMeet
        <4>1. ASSUME \A r \in Ranks : Waiting(r)
              PROVE  \A r, s \in Ranks : pc[r] = pc[s] /\ step[r] = step[s]
          <5>1. PICK c \in Sites, d \in 0 .. MaxSteps - 1 :
                   \A r \in Ranks : Ready(r, c, d)
            BY <2>0, <3>1, <3>2, <4>1, SameWait
          <5>2. QED
            BY <5>1, SitesAre DEF Ready, Fresh, Before, After
        <4>2. QED
          BY <3>2, <4>1 DEF RanksMeet
      <3>4. RankZeroWrites
        <4> SUFFICES ASSUME NEW r \in Ranks, NEW s \in Ranks, InTraining(r),
                            InUpdate(s), update[s].status = "TRAINING", s # 0
                     PROVE  FALSE
          BY DEF RankZeroWrites, InUpdate
        <4>1. ~Failing(s) /\ ~Writes(s, "COMPLETED", "end")
          BY DEF Failing, Writes, InUpdate
        <4>2. L = "start" /\ Behind(r, L, b)
          BY <3>1, <4>1, UpdateCases DEF Segment
        <4>3. QED
          BY <4>2, SitesAre DEF Behind, OnItsWay, InTraining, Failing, Writes, InUpdate
      <3>5. FailureIsRecorded
        <4> SUFFICES ASSUME NEW r \in Ranks, raised[r] = "batch", ~cancelled,
                            \A s \in Ranks : pc[s] \in Ended
                     PROVE  /\ file.text = "whole" => file.status = "FAILED"
                            /\ RaisesAlone(r) => file.text = "whole"
          BY DEF FailureIsRecorded, RaisesAlone
        <4>0. RaisedInv(L) /\ \A s \in Ranks : Failing(s) => pc[s] = "exited"
          BY <3>1 DEF Segment, Failing, Writes, InUpdate, Ended
        <4>1. PICK f \in Ranks : pc[f] = "exited"
          BY <4>0 DEF RaisedInv
        <4>2. raised[f] = "batch"
          BY <4>0, <4>1 DEF RaisedInv, RaisesAt, Failing
        <4>3. RaisesAlone(r) => r = f
          BY <4>2 DEF RaisesAlone
        <4>4. QED
          BY <4>0, <4>1, <4>2, <4>3 DEF RaisedInv
      <3>6. HistoryIsKept
        <4> SUFFICES ASSUME NobodyRaised, NEW r \in Ranks,
                            pc[r] \in {"info_in", "info_out", "judge", "loop", "ckpt_gather"}
                     PROVE  HasHistory
          BY DEF HistoryIsKept, HasHistory
        <4>1. Behind(r, L, b) /\ KeepsHistory(L)
          BY <3>1 DEF Segment
        <4>2. L \in {"hist_out", "info_in", "info_out", "ckpt_out"}
          BY <4>1 DEF Behind, OnItsWay, Writes, Failing, InUpdate, Turns
        <4>3. QED
          BY <4>1, <4>2 DEF KeepsHistory
      <3>7. QED
        BY <2>0, <3>3, <3>4, <3>5, <3>6 DEF RanksAgree
    <2>3. QED
      BY <2>1, <2>2
  <1>2. QED
    BY RanksInvariance, <1>1, PTL

(* A checkpoint that agreeing ranks save is of a step that every one of    *)
(* them has finished and none has left.                                    *)
THEOREM CheckpointsAreCommon == RanksSpec => CheckpointIsCommon
  <1>1. ASSUME RanksInv, RanksNext, saved' # saved, ~disagreed
        PROVE  \A r \in Ranks : step[r] = saved'
    <2>1. PICK r \in Ranks : SaveCheckpoint(r)
      BY <1>1 DEF RanksNext, Local, ReadStatus, TruncateStatus, WriteStatus,
           LoadModel, Resume, NextBatch, OnStepEnd, EndOfIteration,
           RankRaises, Raise, Collective, MpirunKills, SlurmKills, Kill,
           AllEnded, ranksVars
    <2>2. pc[r] \in {"save", "save_last"} /\ saved' = step[r]
      BY <2>1 DEF SaveCheckpoint
    <2>3. PICK L \in Collectives, b \in 0 .. MaxSteps - 1 : Segment(L, b)
      BY <1>1 DEF RanksInv, AgreeInv
    <2>4. L \in {"ckpt_in", "last_in"}
      BY <2>2, <2>3 DEF Segment, Behind, OnItsWay, Turns, Failing, Writes, InUpdate
    <2>5. \A s \in Ranks : step[s] = b
      BY <2>3, <2>4 DEF Segment, Behind, OnItsWay, After
    <2>6. QED
      BY <2>2, <2>5
  <1>2. RanksInv /\ [RanksNext]_ranksVars =>
          [saved' # saved /\ ~disagreed => \A r \in Ranks : step[r] = saved']_ranksVars
    BY <1>1
  <1>3. QED
    BY <1>2, RanksInvariance, PTL DEF RanksSpec, CheckpointIsCommon

-----------------------------------------------------------------------------
(* The shards of a parameter *)

(* The size of a shard covers the parameter, with less than one element    *)
(* for each rank to spare.                                                 *)
LEMMA ShardSizes ==
    ASSUME NEW n \in Nat \ {0}, NEW w \in Nat \ {0}
    PROVE  /\ Metadata(n, w).shard_size \in Nat \ {0}
           /\ Metadata(n, w).original_numel = n
           /\ Metadata(n, w).padding \in 0 .. w - 1
           /\ Metadata(n, w).shard_size * w = n + Metadata(n, w).padding
<1> DEFINE q == (n + w - 1) \div w
<1>1. q \in Int /\ q * w <= n + w - 1 /\ n + w - 1 < q * w + w
  OBVIOUS
<1>2. PaddedNumel(n, w) = q * w
  BY DEF PaddedNumel
<1> HIDE DEF q
<1>3. q * w \in Int /\ (q * w) \div w = q
  BY <1>1
<1>4. q > 0
  <2>1. q * w > 0
    BY <1>1, <1>3
  <2> QED
    BY <1>1, <2>1
<1>5. /\ Metadata(n, w).shard_size = q /\ Metadata(n, w).original_numel = n
      /\ Metadata(n, w).padding = q * w - n
  BY <1>2, <1>3 DEF Metadata
<1>6. q * w - n \in 0 .. w - 1
  BY <1>1, <1>3
<1> QED
  BY <1>1, <1>3, <1>4, <1>5, <1>6

(* A rank's shard: its elements, and zeros behind the last.                *)
Elements(n, t) == [i \in 1 .. n |-> <<i, t>>]

ShardOf(n, sz, t, r) ==
    [k \in 1 .. sz |-> IF r * sz + k <= n THEN <<r * sz + k, t>> ELSE Zero]

LEMMA ShardsCut ==
    ASSUME NEW n \in Nat \ {0}, NEW w \in Nat \ {0}, NEW t \in Nat, NEW r \in 0 .. w - 1
    PROVE  shard_tensor(Elements(n, t), w, r) = ShardOf(n, Metadata(n, w).shard_size, t, r)
<1> DEFINE sz == Metadata(n, w).shard_size
           pad == Metadata(n, w).padding
           T == Elements(n, t)
           padded == T \o Zeros(Zero, pad)
           a == r * sz
<1>1. /\ sz \in Nat \ {0} /\ pad \in Nat /\ sz * w = n + pad
  BY ShardSizes
<1>2. T \in Seq(Nat \X Nat) /\ Len(T) = n /\ \A i \in 1 .. n : T[i] = <<i, t>>
  BY DEF Elements
<1>3. /\ Zeros(Zero, pad) \in Seq(Nat \X Nat) /\ Len(Zeros(Zero, pad)) = pad
      /\ \A i \in 1 .. pad : Zeros(Zero, pad)[i] = Zero
  <2>1. Zero \in Nat \X Nat
    BY DEF Zero
  <2>2. Zeros(Zero, pad) = [i \in 1 .. pad |-> Zero]
    BY DEF Zeros
  <2> HIDE DEF pad
  <2> QED
    BY <1>1, <2>1, <2>2
<1>4. shard_tensor(T, w, r) = SubSeq(padded, r * sz + 1, (r + 1) * sz)
  BY <1>2 DEF shard_tensor
<1>5. (r + 1) * sz = a + sz /\ a \in Nat /\ a + sz <= n + pad
  <2>1. (r + 1) * sz = r * sz + sz /\ r * sz \in Nat
    BY <1>1
  <2>2. (r + 1) * sz <= w * sz
    BY <1>1
  <2>3. w * sz = sz * w
    BY <1>1
  <2> QED
    BY <1>1, <2>1, <2>2, <2>3
<1> HIDE DEF sz, pad, T
<1>6. /\ padded \in Seq(Nat \X Nat) /\ Len(padded) = n + pad
      /\ \A i \in 1 .. n + pad : padded[i] = IF i <= n THEN <<i, t>> ELSE Zero
  <2>1. padded \in Seq(Nat \X Nat) /\ Len(padded) = n + pad
    BY <1>1, <1>2, <1>3, ConcatProperties
  <2>2. \A i \in 1 .. n + pad : padded[i] = IF i <= n THEN T[i] ELSE Zeros(Zero, pad)[i - n]
    BY <1>1, <1>2, <1>3, ConcatProperties
  <2>3. \A i \in 1 .. n + pad : i > n => i - n \in 1 .. pad
    BY <1>1
  <2>4. \A i \in 1 .. n + pad : i <= n => i \in 1 .. n
    OBVIOUS
  <2> HIDE DEF padded
  <2>5. ASSUME NEW i \in 1 .. n + pad PROVE padded[i] = IF i <= n THEN <<i, t>> ELSE Zero
    <3>1. CASE i <= n
      BY <1>2, <2>2, <2>4, <3>1
    <3>2. CASE i > n
      BY <1>3, <2>2, <2>3, <3>2
    <3> QED
      BY <3>1, <3>2
  <2> QED
    BY <2>1, <2>5
<1> HIDE DEF a, padded
<1>7. SubSeq(padded, a + 1, a + sz) = [k \in 1 .. sz |-> padded[a + k]]
  <2>1. padded \in Seq(Nat \X Nat) /\ a + 1 \in Nat /\ a + sz <= Len(padded)
    BY <1>1, <1>5, <1>6
  <2>2. 1 + (a + sz) - (a + 1) = sz /\ a + sz \in Nat
    BY <1>1, <1>5
  <2>3. SubSeq(padded, a + 1, a + sz)
          = [k \in 1 .. 1 + (a + sz) - (a + 1) |-> padded[k + (a + 1) - 1]]
    BY <2>1, <2>2
  <2>4. \A k \in 1 .. sz : k + (a + 1) - 1 = a + k
    BY <1>5
  <2> QED
    BY <2>2, <2>3, <2>4
<1>8. \A k \in 1 .. sz : padded[a + k] = IF a + k <= n THEN <<a + k, t>> ELSE Zero
  <2> TAKE k \in 1 .. sz
  <2>1. a + k \in 1 .. n + pad
    BY <1>1, <1>5
  <2> QED
    BY <1>6, <2>1
<1> QED
  BY <1>4, <1>5, <1>7, <1>8 DEF ShardOf, T, sz, a, padded

(* A nonempty set of natural numbers has a least element.                  *)
LEMMA LeastIndex ==
    ASSUME NEW S \in SUBSET Nat, S # {}
    PROVE  \E n \in S : \A k \in S : n <= k
<1> DEFINE Less == {ss \in Nat \X Nat : ss[1] < ss[2]}
<1>1. IsWellFoundedOn(Less, Nat)
  BY NatLessThanWellFounded, Zenon DEF OpToRel
<1> HIDE DEF Less
<1>2. PICK n \in S : \A k \in S : ~(<<k, n>> \in Less)
  BY <1>1, WFMin, Zenon
<1>3. ASSUME NEW k \in S, k < n PROVE FALSE
  <2>1. <<k, n>> \in Nat \X Nat /\ <<k, n>>[1] < <<k, n>>[2]
    BY <1>3
  <2>2. <<k, n>> \in Less
    BY <2>1, Zenon DEF Less
  <2> QED
    BY <1>2, <2>2
<1> QED
  BY <1>2, <1>3

\* The recursion of FlattenSeq, for m sequences.
Flattens(g, seqs, m) ==
    g = [i \in 1 .. m |-> IF i = 1 THEN seqs[i] ELSE g[i - 1] \o seqs[i]]

(* FlattenSeq: what satisfies its recursion is what it computes.           *)
LEMMA Flattened ==
    ASSUME NEW seqs, NEW m \in Nat \ {0}, Len(seqs) = m,
           NEW G, Flattens(G, seqs, m)
    PROVE  FlattenSeq(seqs) = G[m]
<1> DEFINE Solves(g) == Flattens(g, seqs, m)
           F == CHOOSE g : Solves(g)
           differ == {i \in 1 .. m : F[i] # G[i]}
<1>1. Solves(G)
  OBVIOUS
<1>2. Solves(F)
  <2> HIDE DEF Solves
  <2> QED
    BY <1>1
<1>3. FlattenSeq(seqs) = F[m]
  BY SMTT(60) DEF FlattenSeq, Flattens
<1>4. /\ \A i \in 1 .. m : F[i] = IF i = 1 THEN seqs[i] ELSE F[i - 1] \o seqs[i]
      /\ \A i \in 1 .. m : G[i] = IF i = 1 THEN seqs[i] ELSE G[i - 1] \o seqs[i]
  <2> HIDE DEF F
  <2>1. \A g : Solves(g) => \A i \in 1 .. m : g[i] = IF i = 1 THEN seqs[i] ELSE g[i - 1] \o seqs[i]
    BY ZenonT(60) DEF Flattens
  <2> HIDE DEF Solves
  <2> QED
    BY <1>1, <1>2, <2>1
<1> HIDE DEF F, Solves
<1>5. differ = {}
  <2> SUFFICES ASSUME differ # {} PROVE FALSE
    OBVIOUS
  <2>0. differ \in SUBSET Nat
    OBVIOUS
  <2>1. PICK i \in 1 .. m : F[i] # G[i] /\ \A k \in 1 .. m : F[k] # G[k] => i <= k
    <3>1. \E i \in differ : \A k \in differ : i <= k
      <4> HIDE DEF differ
      <4> QED
        BY <2>0, LeastIndex
    <3> QED
      BY <3>1
  <2>2. i # 1
    BY <1>4, <2>1
  <2>3. i - 1 \in 1 .. m /\ F[i - 1] = G[i - 1]
    <3>1. i - 1 \in 1 .. m /\ ~(i <= i - 1)
      BY <2>2
    <3>2. \A k \in 1 .. m : ~(i <= k) => F[k] = G[k]
      BY <2>1
    <3> QED
      BY <3>1, <3>2
  <2>4. F[i] = F[i - 1] \o seqs[i] /\ G[i] = G[i - 1] \o seqs[i]
    BY <1>4, <2>2
  <2> QED
    BY <2>1, <2>3, <2>4
<1>6. m \in 1 .. m
  OBVIOUS
<1> QED
  BY <1>3, <1>5, <1>6

(* Where the i-th piece of the parameter ends, and the piece.              *)
Upto(n, sz, i) == IF i * sz <= n THEN i * sz ELSE n

Piece(n, sz, t, i) ==
    [k \in 1 .. Upto(n, sz, i) - (i - 1) * sz |-> <<(i - 1) * sz + k, t>>]

(* Elements behind elements.                                               *)
LEMMA ElementsJoined ==
    ASSUME NEW t \in Nat, NEW a \in Nat, NEW b \in Nat, a <= b
    PROVE  Elements(a, t) \o [k \in 1 .. b - a |-> <<a + k, t>>] = Elements(b, t)
<1> DEFINE A == Elements(a, t)
           B == [k \in 1 .. b - a |-> <<a + k, t>>]
           C == Elements(b, t)
           D == A \o B
<1>1. A \in Seq(Nat \X Nat) /\ Len(A) = a /\ \A k \in 1 .. a : A[k] = <<k, t>>
  BY DEF Elements
<1>2. B \in Seq(Nat \X Nat) /\ Len(B) = b - a /\ \A k \in 1 .. b - a : B[k] = <<a + k, t>>
  OBVIOUS
<1>3. C \in Seq(Nat \X Nat) /\ Len(C) = b /\ \A k \in 1 .. b : C[k] = <<k, t>>
  BY DEF Elements
<1> HIDE DEF A, B, C
<1>4. /\ D \in Seq(Nat \X Nat) /\ Len(D) = b
      /\ \A k \in 1 .. b : D[k] = IF k <= a THEN A[k] ELSE B[k - a]
  <2>1. /\ D \in Seq(Nat \X Nat) /\ Len(D) = Len(A) + Len(B)
        /\ \A k \in 1 .. Len(A) + Len(B) :
              D[k] = IF k <= Len(A) THEN A[k] ELSE B[k - Len(A)]
    BY <1>1, <1>2, ConcatProperties
  <2> HIDE DEF D
  <2>2. Len(A) = a /\ Len(A) + Len(B) = b
    BY <1>1, <1>2
  <2> QED
    BY <2>1, <2>2
<1> HIDE DEF D
<1>5. \A k \in 1 .. b : D[k] = C[k]
  <2> TAKE k \in 1 .. b
  <2>1. CASE k <= a
    <3>1. A[k] = <<k, t>>
      BY <1>1, <2>1
    <3>2. D[k] = A[k]
      BY <1>4, <2>1
    <3>3. C[k] = <<k, t>>
      BY <1>3
    <3> QED
      BY <3>1, <3>2, <3>3
  <2>2. CASE k > a
    <3>1. k - a \in 1 .. b - a /\ a + (k - a) = k
      BY <2>2
    <3>2. B[k - a] = <<k, t>>
      BY <1>2, <3>1
    <3>3. D[k] = B[k - a]
      BY <1>4, <2>2
    <3>4. C[k] = <<k, t>>
      BY <1>3
    <3> QED
      BY <3>2, <3>3, <3>4
  <2> QED
    BY <2>1, <2>2
<1> QED
  BY <1>3, <1>4, <1>5, SeqEqual DEF A, B, C, D

(* The pieces one behind the other are the parameter.                      *)
LEMMA PiecesJoined ==
    ASSUME NEW n \in Nat \ {0}, NEW sz \in Nat \ {0}, NEW t \in Nat, NEW m \in Nat \ {0},
           (m - 1) * sz <= n, n <= m * sz
    PROVE  FlattenSeq([i \in 1 .. m |-> Piece(n, sz, t, i)]) = Elements(n, t)
<1> DEFINE P == [i \in 1 .. m |-> Piece(n, sz, t, i)]
           G == [i \in 1 .. m |-> Elements(Upto(n, sz, i), t)]
<1>1. \A i \in 1 .. m : Piece(n, sz, t, i) = [k \in 1 .. Upto(n, sz, i) - (i - 1) * sz
                                                |-> <<(i - 1) * sz + k, t>>]
  BY DEF Piece
<1>2. ASSUME NEW i \in 1 .. m
      PROVE  /\ (i - 1) * sz \in Nat /\ (i - 1) * sz <= n
             /\ Upto(n, sz, i) \in Nat /\ (i - 1) * sz <= Upto(n, sz, i)
             /\ i > 1 => Upto(n, sz, i - 1) = (i - 1) * sz
  <2>1. (i - 1) * sz \in Nat /\ i * sz \in Nat /\ i * sz = (i - 1) * sz + sz
    OBVIOUS
  <2>2. (i - 1) * sz <= (m - 1) * sz
    OBVIOUS
  <2>3. (m - 1) * sz \in Nat
    OBVIOUS
  <2> QED
    BY <2>1, <2>2, <2>3 DEF Upto
<1>3. ASSUME NEW i \in 1 .. m
      PROVE  Elements((i - 1) * sz, t) \o Piece(n, sz, t, i) = Elements(Upto(n, sz, i), t)
  BY <1>2, ElementsJoined, ZenonT(60) DEF Piece
<1>4. Piece(n, sz, t, 1) = Elements(Upto(n, sz, 1), t)
  <2>1. (1 - 1) * sz = 0 /\ Upto(n, sz, 1) \in Nat
    BY <1>2
  <2>2. Piece(n, sz, t, 1) = [k \in 1 .. Upto(n, sz, 1) - 0 |-> <<0 + k, t>>]
    BY <2>1 DEF Piece
  <2> QED
    BY <2>1, <2>2 DEF Elements
<1>5. Flattens(G, P, m)
  <2>1. ASSUME NEW i \in 1 .. m, i # 1 PROVE G[i - 1] \o P[i] = Elements(Upto(n, sz, i), t)
    <3>1. i - 1 \in 1 .. m /\ i > 1
      BY <2>1
    <3>2. G[i - 1] = Elements((i - 1) * sz, t)
      BY <1>2, <3>1
    <3> QED
      BY <1>3, <3>2
  <2>2. \A i \in 1 .. m : G[i] = IF i = 1 THEN P[i] ELSE G[i - 1] \o P[i]
    BY <1>4, <2>1
  <2>3. G = [i \in 1 .. m |-> G[i]]
    OBVIOUS
  <2> HIDE DEF G, P
  <2> QED
    BY <2>2, <2>3 DEF Flattens
<1>6. FlattenSeq(P) = G[m]
  <2>1. Len(P) = m
    OBVIOUS
  <2> HIDE DEF P, G
  <2> QED
    BY <1>5, <2>1, Flattened
<1>7. G[m] = Elements(n, t)
  <2>1. m * sz \in Nat /\ m \in 1 .. m
    OBVIOUS
  <2> QED
    BY <2>1 DEF Upto
<1> QED
  BY <1>6, <1>7

(* A shard that is all elements is a piece, and one that is not becomes a  *)
(* piece when what is behind the last element is cut off.                  *)
LEMMA ShardIsPiece ==
    ASSUME NEW n \in Nat \ {0}, NEW sz \in Nat \ {0}, NEW t \in Nat, NEW i \in Nat \ {0}
    PROVE  /\ i * sz <= n => ShardOf(n, sz, t, i - 1) = Piece(n, sz, t, i)
           /\ ((i - 1) * sz <= n /\ n <= i * sz)
                => SubSeq(ShardOf(n, sz, t, i - 1), 1, n - (i - 1) * sz) = Piece(n, sz, t, i)
<1> DEFINE a == (i - 1) * sz
           S == ShardOf(n, sz, t, i - 1)
<1>1. a \in Nat /\ i * sz = a + sz
  OBVIOUS
<1>2. S = [k \in 1 .. sz |-> IF a + k <= n THEN <<a + k, t>> ELSE Zero]
  BY DEF ShardOf
<1>3. Piece(n, sz, t, i) = [k \in 1 .. Upto(n, sz, i) - a |-> <<a + k, t>>]
  BY DEF Piece
<1>4. Upto(n, sz, i) = IF a + sz <= n THEN a + sz ELSE n
  BY <1>1 DEF Upto
<1> HIDE DEF a, S
<1>5. ASSUME a + sz <= n PROVE S = Piece(n, sz, t, i)
  <2>1. Upto(n, sz, i) - a = sz
    BY <1>1, <1>4, <1>5
  <2>2. \A k \in 1 .. sz : a + k <= n
    BY <1>1, <1>5
  <2> QED
    BY <1>2, <1>3, <2>1, <2>2
<1>6. ASSUME a <= n, n <= a + sz PROVE SubSeq(S, 1, n - a) = Piece(n, sz, t, i)
  <2>1. Upto(n, sz, i) - a = n - a /\ n - a \in 0 .. sz
    BY <1>1, <1>4, <1>6
  <2>2. S \in Seq(Nat \X Nat) /\ Len(S) = sz
    <3>1. Zero \in Nat \X Nat
      BY DEF Zero
    <3> QED
      BY <1>1, <1>2, <3>1
  <2>3. SubSeq(S, 1, n - a) = [k \in 1 .. n - a |-> S[k]]
    BY <2>1, <2>2
  <2>4. \A k \in 1 .. n - a : S[k] = <<a + k, t>>
    BY <1>1, <1>2, <2>1
  <2> QED
    BY <1>3, <2>1, <2>3, <2>4
<1> QED
  BY <1>1, <1>5, <1>6 DEF a, S

(* A slice, counted from the front and from the end.                       *)
LEMMA Sliced ==
    ASSUME NEW s, NEW len \in Nat, Len(s) = len, NEW e \in 0 .. len
    PROVE  /\ Slice(s, e) = SubSeq(s, 1, e)
           /\ e < len => Slice(s, -(len - e)) = SubSeq(s, 1, e)
<1>1. Slice(s, e) = SubSeq(s, 1, e)
  BY DEF Slice
<1>2. ASSUME e < len PROVE Slice(s, -(len - e)) = SubSeq(s, 1, e)
  <2>1. -(len - e) < 0 /\ ~(len + -(len - e) < 0) /\ len + -(len - e) = e
    BY <1>2
  <2> QED
    BY <2>1 DEF Slice
<1> QED
  BY <1>1, <1>2

\* What a gather has of the ranks.
AllShards(n, w, t) == [i \in 1 .. w |-> ShardOf(n, Metadata(n, w).shard_size, t, i - 1)]

(* trim_padding, whether the padding fills whole shards, a part of one or  *)
(* nothing: pieces are left, and all of them.                              *)
LEMMA PaddingTrimmed ==
    ASSUME NEW n \in Nat \ {0}, NEW w \in Nat \ {0}, NEW t \in Nat
    PROVE  \E m \in Nat \ {0} :
              /\ (m - 1) * Metadata(n, w).shard_size <= n
              /\ n <= m * Metadata(n, w).shard_size
              /\ trim_padding(AllShards(n, w, t), w, Metadata(n, w))
                   = [i \in 1 .. m |-> Piece(n, Metadata(n, w).shard_size, t, i)]
<1> DEFINE meta == Metadata(n, w)
           sz == meta.shard_size
           pad == meta.padding
           all == AllShards(n, w, t)
<1>1. sz \in Nat \ {0} /\ pad \in Nat /\ w * sz = n + pad /\ meta.original_numel = n
  BY ShardSizes
<1>2. Len(all) = w /\ DOMAIN all = 1 .. w /\ \A i \in 1 .. w : all[i] = ShardOf(n, sz, t, i - 1)
  BY DEF AllShards
<1>a. meta.padding = pad /\ meta.shard_size = sz
  OBVIOUS
<1>b. all = [i \in 1 .. w |-> all[i]]
  BY DEF AllShards
<1> HIDE DEF meta, sz, pad, all
<1>3. \A i \in 1 .. w : Len(ShardOf(n, sz, t, i - 1)) = sz
  BY <1>1 DEF ShardOf
<1>4. \A i \in Nat \ {0} : i * sz \in Nat /\ (i - 1) * sz \in Nat /\ i * sz = (i - 1) * sz + sz
  BY <1>1
<1>5. ASSUME NEW m \in Nat \ {0}, m * sz <= n + sz, NEW i \in 1 .. m - 1
      PROVE  ShardOf(n, sz, t, i - 1) = Piece(n, sz, t, i)
  <2>1. i * sz <= (m - 1) * sz
    BY <1>1
  <2>2. i * sz <= n
    BY <1>1, <1>4, <1>5, <2>1
  <2> QED
    BY <1>1, <2>2, ShardIsPiece
<1>6. CASE pad = 0
  <2>1. trim_padding(all, w, meta) = all
    BY <1>a, <1>6 DEF trim_padding
  <2>2. n = w * sz /\ (w - 1) * sz <= n
    BY <1>1, <1>4, <1>6
  <2>3. \A i \in 1 .. w : all[i] = Piece(n, sz, t, i)
    <3> TAKE i \in 1 .. w
    <3>1. i * sz <= w * sz
      BY <1>1
    <3> QED
      BY <1>1, <1>2, <2>2, <3>1, ShardIsPiece
  <2>4. all = [i \in 1 .. w |-> Piece(n, sz, t, i)]
    BY <1>b, <2>3
  <2> QED
    BY <2>1, <2>2, <2>4 DEF meta, sz, all
<1>7. CASE pad > sz
  <2> DEFINE f == pad \div sz
             rest == pad % sz
             m == w - f
             kept == Slice(all, -f)
  <2>1. f \in Int /\ rest \in Nat /\ rest < sz /\ pad = f * sz + rest
    <3>1. f \in Int /\ rest \in Nat /\ rest < sz
      BY <1>1
    <3>2. pad = f * sz + rest
      BY <1>1
    <3> QED
      BY <3>1, <3>2
  <2> HIDE DEF f, rest
  <2>2. f > 0
    BY <1>1, <1>7, <2>1
  <2>3. m * sz = n + rest
    <3>1. m * sz = w * sz - f * sz
      BY <1>1, <2>1
    <3> QED
      BY <1>1, <2>1, <3>1
  <2>4. m \in Nat \ {0} /\ m <= w /\ -f = -(w - m) /\ m < w
    <3>1. m \in Int /\ m * sz > 0
      BY <1>1, <2>1, <2>3
    <3>2. m > 0
      BY <1>1, <3>1
    <3> QED
      BY <2>1, <2>2, <3>2
  <2> HIDE DEF m
  <2>5. kept = [i \in 1 .. m |-> all[i]]
    <3>1. kept = SubSeq(all, 1, m)
      <4>1. Slice(all, -(w - m)) = SubSeq(all, 1, m)
        <5>1. w \in Nat /\ m \in 0 .. w /\ m < w /\ Len(all) = w
          BY <1>2, <2>4
        <5> QED
          BY <5>1, Sliced
      <4>2. kept = Slice(all, -(w - m))
        BY <2>4
      <4> QED
        BY <4>1, <4>2
    <3>2. SubSeq(all, 1, m) = [i \in 1 .. m |-> all[i]]
      BY <1>2, <2>4
    <3> QED
      BY <3>1, <3>2
  <2> HIDE DEF kept
  <2>6. Len(kept) = m /\ Len(kept) > 0
    BY <2>4, <2>5
  <2>a. \A i \in 1 .. m : i \in 1 .. w /\ kept[i] = ShardOf(n, sz, t, i - 1)
    BY <1>2, <2>4, <2>5
  <2>b. m \in 1 .. m /\ \A i \in 1 .. m : i \in 1 .. m - 1 \/ i = m
    BY <2>4
  <2>c. kept = [i \in 1 .. m |-> kept[i]]
    BY <2>5
  <2>7. \A i \in 1 .. m - 1 : kept[i] = Piece(n, sz, t, i)
    <3>1. m * sz <= n + sz
      BY <1>1, <2>1, <2>3
    <3>2. \A i \in 1 .. m - 1 : ShardOf(n, sz, t, i - 1) = Piece(n, sz, t, i)
      BY <1>5, <2>4, <3>1
    <3>3. \A i \in 1 .. m - 1 : i \in 1 .. m
      BY <2>4
    <3> QED
      BY <2>a, <3>2, <3>3
  <2>8. (m - 1) * sz <= n /\ n <= m * sz
    BY <1>1, <1>4, <2>1, <2>3, <2>4
  <2>9. trim_padding(all, w, meta)
          = IF rest > 0 THEN [kept EXCEPT ![m] = Slice(kept[m], -rest)] ELSE kept
    <3>1. kept = Slice(all, -(meta.padding \div meta.shard_size))
      BY <1>a DEF kept, f
    <3>2. rest = meta.padding % meta.shard_size
      BY <1>a DEF rest
    <3>3. meta.padding # 0 /\ meta.padding > meta.shard_size
      BY <1>a, <1>1, <1>7
    <3>4. trim_padding(all, w, meta)
            = IF rest > 0 /\ Len(kept) > 0
              THEN [kept EXCEPT ![Len(kept)] = Slice(@, -rest)] ELSE kept
      BY <3>1, <3>2, <3>3 DEF trim_padding
    <3> QED
      BY <2>6, <3>4
  <2>10. CASE rest = 0
    <3>1. kept[m] = Piece(n, sz, t, m)
      <4>1. m * sz <= n
        BY <1>1, <2>3, <2>10
      <4>2. ShardOf(n, sz, t, m - 1) = Piece(n, sz, t, m)
        BY <1>1, <2>4, <4>1, ShardIsPiece
      <4> QED
        BY <2>a, <2>b, <4>2
    <3>2. kept = [i \in 1 .. m |-> Piece(n, sz, t, i)]
      BY <2>b, <2>c, <2>7, <3>1
    <3> QED
      BY <2>4, <2>8, <2>9, <2>10, <3>2 DEF meta, sz, all
  <2>11. CASE rest > 0
    <3>1. n - (m - 1) * sz = sz - rest
      BY <1>1, <1>4, <2>1, <2>3, <2>4
    <3>2. Slice(kept[m], -rest) = SubSeq(kept[m], 1, sz - rest)
      <4>1. Len(kept[m]) = sz
        BY <1>2, <1>3, <2>4, <2>5
      <4>2. sz - rest \in 0 .. sz /\ sz - rest < sz /\ -rest = -(sz - (sz - rest))
        BY <1>1, <2>1, <2>11
      <4> QED
        <5> DEFINE e == sz - rest
        <5>1. e \in 0 .. sz /\ e < sz /\ -rest = -(sz - e)
          BY <4>2
        <5> HIDE DEF e
        <5>2. Slice(kept[m], -(sz - e)) = SubSeq(kept[m], 1, e)
          BY <1>1, <4>1, <5>1, Sliced
        <5>3. Slice(kept[m], -rest) = SubSeq(kept[m], 1, e)
          BY <5>1, <5>2
        <5> QED
          BY <5>3 DEF e
    <3>3. SubSeq(kept[m], 1, sz - rest) = Piece(n, sz, t, m)
      <4>1. SubSeq(ShardOf(n, sz, t, m - 1), 1, n - (m - 1) * sz) = Piece(n, sz, t, m)
        BY <1>1, <2>4, <2>8, ShardIsPiece
      <4> QED
        BY <2>a, <2>b, <3>1, <4>1
    <3>4. [kept EXCEPT ![m] = Slice(kept[m], -rest)] = [i \in 1 .. m |-> Piece(n, sz, t, i)]
      <4>1. [kept EXCEPT ![m] = Slice(kept[m], -rest)]
              = [i \in 1 .. m |-> IF i = m THEN Slice(kept[m], -rest) ELSE kept[i]]
        BY <2>c
      <4>2. \A i \in 1 .. m : (IF i = m THEN Slice(kept[m], -rest) ELSE kept[i])
                                 = Piece(n, sz, t, i)
        BY <2>b, <2>7, <3>2, <3>3
      <4> QED
        BY <4>1, <4>2
    <3> QED
      BY <2>4, <2>8, <2>9, <2>11, <3>4 DEF meta, sz, all
  <2> QED
    BY <2>1, <2>10, <2>11
<1>8. CASE pad > 0 /\ pad <= sz
  <2>1. n - (w - 1) * sz = sz - pad /\ (w - 1) * sz <= n /\ n <= w * sz
    BY <1>1, <1>4, <1>8
  <2>2. trim_padding(all, w, meta) = [all EXCEPT ![w] = Slice(all[w], sz - pad)]
    <3>1. trim_padding(all, w, meta)
            = [all EXCEPT ![Len(all)] = Slice(@, n - (w - 1) * sz)]
      BY <1>a, <1>1, <1>8 DEF trim_padding
    <3> QED
      BY <1>2, <2>1, <3>1
  <2>3. Slice(all[w], sz - pad) = SubSeq(all[w], 1, sz - pad)
    <3>1. Len(all[w]) = sz /\ sz - pad \in 0 .. sz
      BY <1>1, <1>2, <1>3, <1>8
    <3> QED
      BY <1>1, <3>1, Sliced
  <2>4. SubSeq(all[w], 1, sz - pad) = Piece(n, sz, t, w)
    <3>1. SubSeq(ShardOf(n, sz, t, w - 1), 1, n - (w - 1) * sz) = Piece(n, sz, t, w)
      BY <1>1, <2>1, ShardIsPiece
    <3> QED
      BY <1>2, <2>1, <3>1
  <2>5. \A i \in 1 .. w - 1 : all[i] = Piece(n, sz, t, i)
    <3>1. w * sz <= n + sz
      BY <1>1, <1>8
    <3>2. \A i \in 1 .. w - 1 : ShardOf(n, sz, t, i - 1) = Piece(n, sz, t, i)
      BY <1>5, <3>1
    <3>3. \A i \in 1 .. w - 1 : i \in 1 .. w
      OBVIOUS
    <3> QED
      BY <1>2, <3>2, <3>3
  <2>6. [all EXCEPT ![w] = Slice(all[w], sz - pad)] = [i \in 1 .. w |-> Piece(n, sz, t, i)]
    <3>1. [all EXCEPT ![w] = Slice(all[w], sz - pad)]
            = [i \in 1 .. w |-> IF i = w THEN Slice(all[w], sz - pad) ELSE all[i]]
      BY <1>b
    <3>2. \A i \in 1 .. w : i \in 1 .. w - 1 \/ i = w
      OBVIOUS
    <3>3. \A i \in 1 .. w : (IF i = w THEN Slice(all[w], sz - pad) ELSE all[i])
                               = Piece(n, sz, t, i)
      BY <2>3, <2>4, <2>5, <3>2
    <3> QED
      BY <3>1, <3>3
  <2> QED
    BY <2>1, <2>2, <2>6 DEF meta, sz, all
<1> QED
  BY <1>1, <1>6, <1>7, <1>8

(* collectives_all_gather: the shards of all ranks are the parameter.      *)
LEMMA GatherIsWhole ==
    ASSUME NEW n \in Nat \ {0}, NEW w \in Nat \ {0}, NEW t \in Nat, NEW shards,
           \A r \in 0 .. w - 1 : shards[r] = ShardOf(n, Metadata(n, w).shard_size, t, r)
    PROVE  collectives_all_gather(shards, w, Metadata(n, w)) = Elements(n, t)
<1>1. [i \in 1 .. w |-> shards[i - 1]] = AllShards(n, w, t)
  <2>1. \A i \in 1 .. w : i - 1 \in 0 .. w - 1
    OBVIOUS
  <2>2. \A i \in 1 .. w : shards[i - 1] = ShardOf(n, Metadata(n, w).shard_size, t, i - 1)
    BY <2>1
  <2> QED
    BY <2>2 DEF AllShards
<1>2. collectives_all_gather(shards, w, Metadata(n, w))
        = FlattenSeq(trim_padding(AllShards(n, w, t), w, Metadata(n, w)))
  BY <1>1 DEF collectives_all_gather
<1>3. Metadata(n, w).shard_size \in Nat \ {0}
  BY ShardSizes
<1>4. PICK m \in Nat \ {0} :
         /\ (m - 1) * Metadata(n, w).shard_size <= n
         /\ n <= m * Metadata(n, w).shard_size
         /\ trim_padding(AllShards(n, w, t), w, Metadata(n, w))
              = [i \in 1 .. m |-> Piece(n, Metadata(n, w).shard_size, t, i)]
  BY PaddingTrimmed, ZenonT(60)
<1>5. FlattenSeq([i \in 1 .. m |-> Piece(n, Metadata(n, w).shard_size, t, i)]) = Elements(n, t)
  <2> DEFINE sz == Metadata(n, w).shard_size
  <2>1. sz \in Nat \ {0} /\ (m - 1) * sz <= n /\ n <= m * sz
    BY <1>3, <1>4
  <2> HIDE DEF sz
  <2>2. FlattenSeq([i \in 1 .. m |-> Piece(n, sz, t, i)]) = Elements(n, t)
    BY <2>1, PiecesJoined
  <2> QED
    BY <2>2 DEF sz
<1> QED
  BY <1>2, <1>4, <1>5

(* What a rank ought to get of the gradient.                               *)
GradientOf(n, w, r) ==
    [k \in 1 .. Metadata(n, w).shard_size |-> Reduced(n, w, r * Metadata(n, w).shard_size + k)]

(* With more than half as many elements as ranks, the number that the last *)
(* rank's part is cut to is no less than its size.                         *)
LEMMA EnoughElements ==
    ASSUME NEW n \in Nat \ {0}, NEW w \in Nat \ {0}, 2 * n > w
    PROVE  n - Metadata(n, w).padding >= Metadata(n, w).shard_size
<1> DEFINE sz == Metadata(n, w).shard_size
           pad == Metadata(n, w).padding
<1>1. sz \in Nat \ {0} /\ pad \in 0 .. w - 1 /\ sz * w = n + pad
  BY ShardSizes
<1> HIDE DEF sz, pad
<1>2. ASSUME sz = 1 PROVE n - pad >= sz
  <2>1. sz * w = w
    BY <1>2
  <2> QED
    BY <1>1, <1>2, <2>1
<1>3. ASSUME sz >= 2 PROVE n - pad >= sz
  <2>1. (sz - 2) * w >= sz - 2
    BY <1>1, <1>3
  <2>2. (sz - 2) * w = sz * w - 2 * w
    BY <1>1
  <2> DEFINE x == sz * w
             y == (sz - 2) * w
  <2>3. x \in Int /\ x = n + pad /\ pad <= w - 1 /\ y >= sz - 2 /\ y = x - 2 * w
    BY <1>1, <2>1, <2>2
  <2> HIDE DEF x, y
  <2> QED
    BY <1>1, <2>3
<1> QED
  BY <1>1, <1>2, <1>3 DEF sz, pad

(* collectives_reduce_scatter: what has the shape of the shard is the part *)
(* of the gradient that belongs to it.                                     *)
LEMMA GradientParts ==
    ASSUME NEW n \in Nat \ {0}, NEW w \in Nat \ {0}, NEW r \in 0 .. w - 1
    PROVE  LET g == collectives_reduce_scatter(n, w, r, Metadata(n, w))
           IN  /\ Len(g) = Metadata(n, w).shard_size => g = GradientOf(n, w, r)
               /\ 2 * n > w => Len(g) = Metadata(n, w).shard_size
<1> DEFINE meta == Metadata(n, w)
           sz == meta.shard_size
           pad == meta.padding
           local == GradientOf(n, w, r)
           e == n - pad
           g == collectives_reduce_scatter(n, w, r, Metadata(n, w))
<1>1. sz \in Nat \ {0} /\ pad \in 0 .. w - 1 /\ meta.original_numel = n
  BY ShardSizes
<1>2. Len(local) = sz /\ SubSeq(local, 1, sz) = local
  <2>1. local = [k \in 1 .. sz |-> local[k]]
    BY DEF GradientOf
  <2> HIDE DEF local, sz
  <2> QED
    BY <1>1, <2>1
<1>3. g = IF r = w - 1 THEN Slice(local, e) ELSE local
  BY <1>1 DEF collectives_reduce_scatter, GradientOf, ValidElements
<1>4. 2 * n > w => e >= sz
  BY EnoughElements
<1> HIDE DEF meta, sz, pad, local, g
<1>5. Len(Slice(local, e)) = sz => Slice(local, e) = local
  <2> SUFFICES ASSUME Len(Slice(local, e)) = sz PROVE Slice(local, e) = local
    OBVIOUS
  <2> DEFINE cut == IF e < 0 THEN IF sz + e < 0 THEN 0 ELSE sz + e
                     ELSE IF e > sz THEN sz ELSE e
  <2>1. Slice(local, e) = SubSeq(local, 1, cut)
    BY <1>2 DEF Slice
  <2>2. cut \in 0 .. sz
    BY <1>1
  <2>3. Len(SubSeq(local, 1, cut)) = cut
    <3> HIDE DEF cut
    <3> QED
      BY <1>2, <2>2
  <2> HIDE DEF cut
  <2> QED
    BY <1>2, <2>1, <2>3
<1>6. e >= sz => Slice(local, e) = local
  <2> SUFFICES ASSUME e >= sz PROVE Slice(local, e) = local
    OBVIOUS
  <2>1. Slice(local, e) = SubSeq(local, 1, sz)
    BY <1>1, <1>2 DEF Slice
  <2> QED
    BY <1>2, <2>1
<1>7. Len(g) = sz => g = local
  BY <1>3, <1>5
<1>8. 2 * n > w => Len(g) = sz
  BY <1>2, <1>3, <1>4, <1>6
<1> QED
  BY <1>7, <1>8 DEF g, sz, meta, local

-----------------------------------------------------------------------------
(* The invariant of SimpleFSDP: the shards are, with their padding, those  *)
(* of the parameter after some number of updates, no more than were taken. *)

ShardsOf(n, w, t) == [r \in 0 .. w - 1 |-> ShardOf(n, Metadata(n, w).shard_size, t, r)]

FsdpInv ==
    /\ FsdpTypeOK
    /\ \E t \in 0 .. updates : shard = ShardsOf(numel, world, t)
    /\ ckpt.key = SavedKey =>
          /\ ckpt.updates \in 0 .. MaxUpdates
          /\ \E t \in 0 .. ckpt.updates : ckpt.tensor = Elements(numel, t)
    /\ phase = "backward" => updates < MaxUpdates
    /\ phase = "backward" /\ ~error => grad = [r \in RanksOf |-> GradientOf(numel, world, r)]
    /\ phase = "restarted" => ckpt.key = SavedKey /\ shard = ShardsOf(numel, world, 0)
    /\ phase = "resumed" =>
          \E t \in 0 .. updates :
             /\ shard = ShardsOf(numel, world, t)
             /\ IF world = 1 THEN ckpt.tensor = Elements(numel, t) ELSE t = 0
    /\ GradientFitsShard

(* What is loaded is a parameter's shards.                                 *)
LEMMA LoadIsShards ==
    ASSUME world \in Nat \ {0}, numel \in Nat \ {0}, NEW t \in Nat
    PROVE  /\ Tensor(t) = Elements(numel, t)
           /\ Load(t) = ShardsOf(numel, world, t)
           /\ [r \in RanksOf |-> shard_tensor(Elements(numel, t), world, r)]
                = ShardsOf(numel, world, t)
<1>1. Tensor(t) = Elements(numel, t)
  BY DEF Tensor, Elements
<1>2. \A r \in 0 .. world - 1 : shard_tensor(Elements(numel, t), world, r)
                                  = ShardOf(numel, Metadata(numel, world).shard_size, t, r)
  BY ShardsCut
<1> QED
  BY <1>1, <1>2 DEF Load, ShardsOf, RanksOf

(* What is gathered of them is the parameter.                              *)
LEMMA GatheredIs ==
    ASSUME world \in Nat \ {0}, numel \in Nat \ {0}, NEW t \in Nat,
           shard = ShardsOf(numel, world, t)
    PROVE  Gathered = Elements(numel, t)
<1>1. \A r \in 0 .. world - 1 :
         shard[r] = ShardOf(numel, Metadata(numel, world).shard_size, t, r)
  BY DEF ShardsOf
<1> QED
  BY <1>1, GatherIsWhole DEF Gathered, Meta

(* Sizes of shards.                                                        *)
LEMMA ShardTypes ==
    ASSUME NEW n \in Nat \ {0}, NEW w \in Nat \ {0}, NEW t \in Nat
    PROVE  /\ DOMAIN ShardsOf(n, w, t) = 0 .. w - 1
           /\ \A r \in 0 .. w - 1 : Len(ShardsOf(n, w, t)[r]) = Metadata(n, w).shard_size
<1>1. Metadata(n, w).shard_size \in Nat
  BY ShardSizes
<1>2. \A r \in 0 .. w - 1 : Len(ShardOf(n, Metadata(n, w).shard_size, t, r))
                              = Metadata(n, w).shard_size
  <2> DEFINE sz == Metadata(n, w).shard_size
  <2> HIDE DEF sz
  <2>1. \A r \in 0 .. w - 1 : Len(ShardOf(n, sz, t, r)) = sz
    BY <1>1 DEF ShardOf, sz
  <2> QED
    BY <2>1 DEF sz
<1> QED
  BY <1>2 DEF ShardsOf

(* A backward pass gives each rank its gradients, or autograd refuses one. *)
LEMMA BackwardStep == FsdpInv /\ Backward => FsdpInv'
<1> SUFFICES ASSUME FsdpInv, Backward PROVE FsdpInv'
  OBVIOUS
<1>1. /\ world \in Nat \ {0} /\ numel \in Nat \ {0}
      /\ UNCHANGED <<world, numel, shard, updates, ckpt>>
      /\ phase' = "backward" /\ updates < MaxUpdates
  BY DEF FsdpInv, FsdpTypeOK, Backward
<1>2. /\ grad' = [r \in RanksOf |-> collectives_reduce_scatter(numel, world, r, Meta)]
      /\ error' = \E r \in RanksOf : Len(grad'[r]) # Len(shard[r])
  BY DEF Backward
<1>3. \A r \in RanksOf : Len(shard[r]) = Meta.shard_size
  BY DEF FsdpInv, FsdpTypeOK
<1>4. ASSUME ~error' PROVE grad' = [r \in RanksOf |-> GradientOf(numel, world, r)]
  <2>1. \A r \in RanksOf : Len(collectives_reduce_scatter(numel, world, r, Meta))
                             = Meta.shard_size
    BY <1>2, <1>3, <1>4
  <2>2. \A r \in RanksOf : collectives_reduce_scatter(numel, world, r, Meta)
                             = GradientOf(numel, world, r)
    BY <1>1, <2>1, GradientParts DEF Meta, RanksOf
  <2> QED
    BY <1>2, <2>2
<1>5. 2 * numel > world => ~error'
  <2>1. 2 * numel > world =>
           \A r \in RanksOf : Len(collectives_reduce_scatter(numel, world, r, Meta))
                                = Meta.shard_size
    BY <1>1, GradientParts DEF Meta, RanksOf
  <2> QED
    BY <1>2, <1>3, <2>1
<1>6. FsdpTypeOK'
  <2>1. error' \in BOOLEAN /\ DOMAIN grad' = RanksOf
    BY <1>2
  <2> QED
    BY <1>1, <2>1 DEF FsdpInv, FsdpTypeOK, RanksOf, Meta, SavedKey
<1>7. GradientFitsShard'
  BY <1>1, <1>5 DEF GradientFitsShard
<1> QED
  BY <1>1, <1>4, <1>6, <1>7 DEF FsdpInv, RanksOf, SavedKey

(* An optimizer step adds the same update to every element, and none to    *)
(* the padding.                                                            *)
LEMMA OptimizerKeepsShards == FsdpInv /\ OptimizerStep => FsdpInv'
<1> SUFFICES ASSUME FsdpInv, OptimizerStep PROVE FsdpInv'
  OBVIOUS
<1>1. /\ world \in Nat \ {0} /\ numel \in Nat \ {0} /\ updates \in Nat
      /\ UNCHANGED <<world, numel, grad, ckpt, error>>
      /\ phase' = "ready" /\ updates' = updates + 1 /\ updates < MaxUpdates /\ ~error
      /\ grad = [r \in RanksOf |-> GradientOf(numel, world, r)]
  BY DEF FsdpInv, FsdpTypeOK, OptimizerStep
<1>2. shard' = [r \in RanksOf |-> [k \in DOMAIN shard[r] |-> Updated(shard[r][k], grad[r][k])]]
  BY DEF OptimizerStep
<1>3. PICK t \in 0 .. updates : shard = ShardsOf(numel, world, t)
  BY DEF FsdpInv
<1> DEFINE sz == Metadata(numel, world).shard_size
<1>4. sz \in Nat \ {0} /\ 0 \in RanksOf
  BY <1>1, ShardSizes DEF RanksOf
<1>5. ASSUME NEW r \in RanksOf
      PROVE  /\ DOMAIN shard[r] = 1 .. sz
             /\ \A k \in 1 .. sz :
                   /\ shard[r][k] = IF r * sz + k <= numel THEN <<r * sz + k, t>> ELSE Zero
                   /\ grad[r][k] = Reduced(numel, world, r * sz + k)
  BY <1>1, <1>3 DEF ShardsOf, ShardOf, GradientOf, RanksOf
<1> HIDE DEF sz
<1>6. ASSUME NEW i \in Nat, i <= numel
      PROVE  Updated(<<i, t>>, Reduced(numel, world, i)) = <<i, t + 1>>
  <2>1. Reduced(numel, world, i) = {<<r, i>> : r \in RanksOf}
    BY <1>6 DEF Reduced, RanksOf
  <2>2. {<<r, i>> : r \in RanksOf} # {}
    BY <1>4
  <2>3. <<i, t>> # Wrong
    <3>1. <<i, t>> \in Nat \X Nat
      OBVIOUS
    <3> QED
      BY <3>1, FsdpAssumption
  <2> QED
    BY <2>1, <2>2, <2>3 DEF Updated
<1>7. ASSUME NEW i \in Nat, ~(i <= numel) PROVE Updated(Zero, Reduced(numel, world, i)) = Zero
  BY <1>7 DEF Updated, Reduced
<1>8. ASSUME NEW r \in RanksOf, NEW k \in 1 .. sz
      PROVE  Updated(shard[r][k], grad[r][k])
               = IF r * sz + k <= numel THEN <<r * sz + k, t + 1>> ELSE Zero
  <2>1. r * sz + k \in Nat
    BY <1>4 DEF RanksOf
  <2> QED
    BY <1>5, <1>6, <1>7, <2>1
<1>9. shard' = ShardsOf(numel, world, t + 1)
  <2>1. \A r \in RanksOf : [k \in DOMAIN shard[r] |-> Updated(shard[r][k], grad[r][k])]
                             = ShardOf(numel, sz, t + 1, r)
    BY <1>5, <1>8 DEF ShardOf
  <2> QED
    BY <1>2, <2>1 DEF ShardsOf, RanksOf, sz
<1>10. t + 1 \in 0 .. updates' /\ t + 1 \in Nat /\ updates' \in 0 .. MaxUpdates
  BY <1>1, FsdpAssumption
<1>11. FsdpTypeOK'
  <2>1. /\ DOMAIN shard' = RanksOf /\ \A r \in RanksOf : Len(shard'[r]) = Meta.shard_size
    BY <1>1, <1>9, <1>10, ShardTypes, ZenonT(60) DEF RanksOf, Meta
  <2> QED
    BY <1>1, <1>10, <2>1 DEF FsdpInv, FsdpTypeOK, RanksOf, Meta, SavedKey
<1> QED
  BY <1>1, <1>9, <1>10, <1>11 DEF FsdpInv, GradientFitsShard, SavedKey

(* A checkpoint has the parameter as it is.                                *)
LEMMA CheckpointHasWhole == FsdpInv /\ Checkpoint => FsdpInv'
<1> SUFFICES ASSUME FsdpInv, Checkpoint PROVE FsdpInv'
  OBVIOUS
<1>1. /\ world \in Nat \ {0} /\ numel \in Nat \ {0} /\ updates \in 0 .. MaxUpdates
      /\ UNCHANGED <<world, numel, shard, updates, phase, grad, error>>
      /\ phase = "ready"
      /\ ckpt' = [key |-> SavedKey, tensor |-> Gathered, updates |-> updates]
  BY DEF FsdpInv, FsdpTypeOK, Checkpoint
<1>2. PICK t \in 0 .. updates : shard = ShardsOf(numel, world, t)
  BY DEF FsdpInv
<1>3. Gathered = Elements(numel, t)
  BY <1>1, <1>2, GatheredIs
<1>4. FsdpTypeOK'
  BY <1>1 DEF FsdpInv, FsdpTypeOK, RanksOf, Meta, SavedKey
<1>5. ckpt'.updates \in 0 .. MaxUpdates /\ \E u \in 0 .. ckpt'.updates : ckpt'.tensor = Elements(numel, u)
  BY <1>1, <1>2, <1>3
<1> QED
  BY <1>1, <1>4, <1>5 DEF FsdpInv, GradientFitsShard, RanksOf

(* The pretrained weights, after a restart of the job.                     *)
LEMMA RestartLoads == FsdpInv /\ RestartJob => FsdpInv'
<1> SUFFICES ASSUME FsdpInv, RestartJob PROVE FsdpInv'
  OBVIOUS
<1>1. /\ world \in Nat \ {0} /\ numel \in Nat \ {0}
      /\ UNCHANGED <<world, numel, grad, ckpt>>
      /\ updates' = 0 /\ error' = FALSE /\ shard' = Load(0)
      /\ phase' = IF ckpt.key = "none" THEN "ready" ELSE "restarted"
      /\ ckpt.key \in {"none", SavedKey}
  BY DEF FsdpInv, FsdpTypeOK, RestartJob
<1>2. shard' = ShardsOf(numel, world, 0)
  BY <1>1, LoadIsShards
<1>3. DOMAIN shard' = RanksOf /\ \A r \in RanksOf : Len(shard'[r]) = Meta.shard_size
  <2>1. /\ DOMAIN ShardsOf(numel, world, 0) = 0 .. world - 1
        /\ \A r \in 0 .. world - 1 :
              Len(ShardsOf(numel, world, 0)[r]) = Metadata(numel, world).shard_size
    BY <1>1, ShardTypes
  <2> QED
    BY <1>2, <2>1 DEF RanksOf, Meta
<1>4. FsdpTypeOK'
  <2>1. updates' \in 0 .. MaxUpdates
    BY <1>1, FsdpAssumption
  <2>2. error' \in BOOLEAN
    BY <1>1
  <2>3. phase' \in {"ready", "backward", "resumed", "restarted"}
    BY <1>1
  <2> QED
    BY <1>1, <1>3, <2>1, <2>2, <2>3 DEF FsdpInv, FsdpTypeOK, RanksOf, Meta, SavedKey
<1>5. ckpt.key # "none" => ckpt.key = SavedKey
  BY <1>1
<1> QED
  BY <1>1, <1>2, <1>4, <1>5 DEF FsdpInv, GradientFitsShard, SavedKey

(* One rank resumes what it saved; more of them stay with what they have.  *)
LEMMA ResumeLoads == FsdpInv /\ ResumeWeights => FsdpInv'
<1> SUFFICES ASSUME FsdpInv, ResumeWeights PROVE FsdpInv'
  OBVIOUS
<1>1. /\ world \in Nat \ {0} /\ numel \in Nat \ {0}
      /\ UNCHANGED <<world, numel, grad, ckpt, error>>
      /\ phase' = "resumed" /\ updates' = ckpt.updates
      /\ ckpt.key = SavedKey /\ shard = ShardsOf(numel, world, 0)
      /\ ckpt.updates \in 0 .. MaxUpdates
  BY DEF FsdpInv, FsdpTypeOK, ResumeWeights
<1>2. shard' = IF ckpt.key = ModelKey
               THEN [r \in RanksOf |-> shard_tensor(ckpt.tensor, world, r)] ELSE shard
  BY DEF ResumeWeights
<1>3. ckpt.key = ModelKey <=> world = 1
  BY <1>1 DEF ModelKey, SavedKey
<1>4. PICK t \in 0 .. ckpt.updates : ckpt.tensor = Elements(numel, t)
  BY <1>1 DEF FsdpInv
<1>5. \E u \in 0 .. updates' : /\ shard' = ShardsOf(numel, world, u)
                               /\ IF world = 1 THEN ckpt.tensor = Elements(numel, u) ELSE u = 0
  <2>1. CASE world = 1
    <3>1. shard' = ShardsOf(numel, world, t)
      BY <1>1, <1>2, <1>3, <1>4, <2>1, LoadIsShards
    <3> QED
      BY <1>1, <1>4, <2>1, <3>1
  <2>2. CASE world # 1
    <3>1. shard' = ShardsOf(numel, world, 0) /\ 0 \in 0 .. updates'
      BY <1>1, <1>2, <1>3, <2>2
    <3> QED
      BY <2>2, <3>1
  <2> QED
    BY <2>1, <2>2
<1>6. PICK u \in 0 .. updates' : shard' = ShardsOf(numel, world, u)
  BY <1>5
<1>7. DOMAIN shard' = RanksOf /\ \A r \in RanksOf : Len(shard'[r]) = Meta.shard_size
  <2>1. u \in Nat
    BY <1>1
  <2>2. /\ DOMAIN ShardsOf(numel, world, u) = 0 .. world - 1
        /\ \A r \in 0 .. world - 1 :
              Len(ShardsOf(numel, world, u)[r]) = Metadata(numel, world).shard_size
    BY <1>1, <2>1, ShardTypes
  <2> QED
    BY <1>6, <2>2 DEF RanksOf, Meta
<1>8. FsdpTypeOK'
  BY <1>1, <1>7 DEF FsdpInv, FsdpTypeOK, RanksOf, Meta, SavedKey
<1> QED
  BY <1>1, <1>4, <1>5, <1>6, <1>8 DEF FsdpInv, GradientFitsShard, SavedKey

(* SimpleFSDP: between any two steps of the ranks their shards are those   *)
(* of the parameter after some number of updates, and a checkpoint has all *)
(* of it.                                                                  *)
THEOREM FsdpInvariance == FsdpSpec => []FsdpInv
<1>1. FsdpInit => FsdpInv
  <2> SUFFICES ASSUME FsdpInit PROVE FsdpInv
    OBVIOUS
  <2>1. /\ world \in 1 .. MaxWorld /\ numel \in 1 .. MaxNumel
        /\ world \in Nat \ {0} /\ numel \in Nat \ {0}
        /\ updates = 0 /\ phase = "ready" /\ error = FALSE /\ ckpt.key = "none"
        /\ DOMAIN grad = RanksOf
    BY FsdpAssumption DEF FsdpInit
  <2>2. shard = ShardsOf(numel, world, 0)
    BY <2>1, LoadIsShards DEF FsdpInit
  <2>3. DOMAIN shard = RanksOf /\ \A r \in RanksOf : Len(shard[r]) = Meta.shard_size
    <3>1. /\ DOMAIN ShardsOf(numel, world, 0) = 0 .. world - 1
          /\ \A r \in 0 .. world - 1 :
                Len(ShardsOf(numel, world, 0)[r]) = Metadata(numel, world).shard_size
      BY <2>1, ShardTypes
    <3> QED
      BY <2>2, <3>1 DEF RanksOf, Meta
  <2>4. FsdpTypeOK
    <3>1. updates \in 0 .. MaxUpdates
      BY <2>1, FsdpAssumption
    <3>2. error \in BOOLEAN
      BY <2>1
    <3>3. phase \in {"ready", "backward", "resumed", "restarted"}
      BY <2>1
    <3> QED
      BY <2>1, <2>3, <3>1, <3>2, <3>3 DEF FsdpTypeOK
  <2> QED
    BY <2>1, <2>2, <2>4 DEF FsdpInv, GradientFitsShard, SavedKey
<1>2. FsdpInv /\ [FsdpNext]_fsdpVars => FsdpInv'
  <2> SUFFICES ASSUME FsdpInv, [FsdpNext]_fsdpVars PROVE FsdpInv'
    OBVIOUS
  <2>1. CASE UNCHANGED fsdpVars
    BY <2>1 DEF fsdpVars, FsdpInv, FsdpTypeOK, GradientFitsShard, RanksOf, Meta, SavedKey
  <2> QED
    BY <2>1, BackwardStep, OptimizerKeepsShards, CheckpointHasWhole, RestartLoads, ResumeLoads
       DEF FsdpNext
<1> QED
  BY <1>1, <1>2, PTL DEF FsdpSpec

(* SimpleFSDP: for every size of a parameter and every number of ranks,    *)
(* whatever is trained, saved, restarted and resumed, a gather gives the   *)
(* parameter with each element in its place and updated equally often,     *)
(* padding stays zero, a gradient fits its shard when there are more than  *)
(* half as many elements as ranks, and a resume has the weights that its   *)
(* number of ranks lets it have.                                           *)
THEOREM ShardsStayRight == FsdpSpec => []ShardsAreRight
<1>1. FsdpInv => ShardsAreRight
  <2> SUFFICES ASSUME FsdpInv PROVE ShardsAreRight
    OBVIOUS
  <2>1. world \in Nat \ {0} /\ numel \in Nat \ {0} /\ FsdpTypeOK /\ GradientFitsShard
    BY DEF FsdpInv, FsdpTypeOK
  <2>2. PICK t \in 0 .. updates : shard = ShardsOf(numel, world, t)
    BY DEF FsdpInv
  <2>3. t \in Nat
    BY <2>1 DEF FsdpTypeOK
  <2>4. GatherRestores
    BY <2>1, <2>2, <2>3, GatheredIs, LoadIsShards DEF GatherRestores
  <2>5. PaddingStaysZero
    <3> SUFFICES ASSUME NEW r \in RanksOf, NEW k \in DOMAIN shard[r]
                 PROVE  /\ shard[r][k] # Wrong
                        /\ r * Meta.shard_size + k > numel => shard[r][k] = Zero
      BY DEF PaddingStaysZero
    <3> DEFINE sz == Meta.shard_size
    <3>1. shard[r] = ShardOf(numel, sz, t, r) /\ sz \in Nat /\ r \in Nat
      BY <2>1, <2>2, ShardSizes DEF ShardsOf, RanksOf, Meta
    <3> HIDE DEF sz
    <3>2. k \in 1 .. sz
      BY <3>1 DEF ShardOf
    <3>3. r * sz + k \in Nat
      BY <3>1, <3>2
    <3>4. shard[r][k] = IF r * sz + k <= numel THEN <<r * sz + k, t>> ELSE Zero
      BY <3>1, <3>2 DEF ShardOf
    <3>5. shard[r][k] \in Nat \X Nat
      BY <2>3, <3>3, <3>4 DEF Zero
    <3>6. r * sz + k > numel => shard[r][k] = Zero
      BY <2>1, <3>3, <3>4
    <3> QED
      BY <3>5, <3>6, FsdpAssumption DEF sz
  <2>6. ResumeRestoresWeights
    <3> SUFFICES ASSUME phase = "resumed"
                 PROVE  Gathered = IF world = 1 THEN ckpt.tensor ELSE Tensor(0)
      BY DEF ResumeRestoresWeights
    <3>1. PICK u \in 0 .. updates :
             /\ shard = ShardsOf(numel, world, u)
             /\ IF world = 1 THEN ckpt.tensor = Elements(numel, u) ELSE u = 0
      BY DEF FsdpInv
    <3>2. Gathered = Elements(numel, u) /\ Tensor(u) = Elements(numel, u)
      BY <2>1, <3>1, GatheredIs, LoadIsShards DEF FsdpTypeOK
    <3> QED
      BY <3>1, <3>2
  <2> QED
    BY <2>1, <2>4, <2>5, <2>6 DEF ShardsAreRight
<1> QED
  BY <1>1, FsdpInvariance, PTL

HIDE RanksAssumption

-----------------------------------------------------------------------------
(* What FlattenSeq makes of sequences of any lengths *)

(* The recursion of FlattenSeq has a solution.                             *)
LEMMA Flattenable ==
    ASSUME NEW seqs, NEW m \in Nat \ {0}
    PROVE  \E g : Flattens(g, seqs, m)
<1> DEFINE bad == {j \in 1 .. m : ~\E g : Flattens(g, seqs, j)}
<1>1. bad = {}
  <2> SUFFICES ASSUME bad # {} PROVE FALSE
    OBVIOUS
  <2>1. bad \in SUBSET Nat
    OBVIOUS
  <2>2. PICK j \in bad : \A k \in bad : j <= k
    <3> HIDE DEF bad
    <3> QED
      BY <2>1, LeastIndex
  <2>3. j \in 1 .. m /\ ~\E g : Flattens(g, seqs, j)
    BY <2>2
  <2>4. j # 1
    <3>1. Flattens([i \in 1 .. 1 |-> seqs[i]], seqs, 1)
      BY DEF Flattens
    <3> QED
      BY <2>3, <3>1
  <2>5. j - 1 \in 1 .. m /\ ~(j <= j - 1)
    BY <2>3, <2>4
  <2>6. PICK g : Flattens(g, seqs, j - 1)
    BY <2>2, <2>5
  <2> DEFINE h == [i \in 1 .. j |-> IF i = 1 THEN seqs[i] ELSE g[i - 1] \o seqs[i]]
  <2>7. \A i \in 1 .. j - 1 : h[i] = g[i]
    <3>1. \A i \in 1 .. j - 1 : g[i] = IF i = 1 THEN seqs[i] ELSE g[i - 1] \o seqs[i]
      BY <2>6, ZenonT(60) DEF Flattens
    <3>2. \A i \in 1 .. j - 1 : i \in 1 .. j
      BY <2>3
    <3> QED
      BY <3>1, <3>2, ZenonT(60)
  <2>8. \A i \in 1 .. j : i = 1 \/ i - 1 \in 1 .. j - 1
    BY <2>3
  <2>9. Flattens(h, seqs, j)
    BY <2>7, <2>8 DEF Flattens
  <2> QED
    BY <2>3, <2>9
<1>2. m \in 1 .. m
  OBVIOUS
<1> QED
  BY <1>1, <1>2

\* Where the sequences of seqs begin when they are put together.
Offsets(off, seqs) ==
    /\ off \in [0 .. Len(seqs) -> Nat] /\ off[0] = 0
    /\ \A i \in 1 .. Len(seqs) : off[i] = off[i - 1] + Len(seqs[i])

(* Offsets do not decrease.                                                *)
LEMMA OffsetsGrow ==
    ASSUME NEW S, NEW seqs \in Seq(Seq(S)), NEW off, Offsets(off, seqs),
           NEW i \in 0 .. Len(seqs), NEW j \in 0 .. Len(seqs), i <= j
    PROVE  off[i] <= off[j]
<1> DEFINE bad == {k \in 0 .. Len(seqs) : i <= k /\ ~(off[i] <= off[k])}
<1>1. bad = {}
  <2> SUFFICES ASSUME bad # {} PROVE FALSE
    OBVIOUS
  <2>1. bad \in SUBSET Nat
    OBVIOUS
  <2>2. PICK k \in bad : \A l \in bad : k <= l
    <3> HIDE DEF bad
    <3> QED
      BY <2>1, LeastIndex
  <2>3. k \in 0 .. Len(seqs) /\ i <= k /\ ~(off[i] <= off[k])
    BY <2>2
  <2>4. k # i /\ k \in 1 .. Len(seqs) /\ k - 1 \in 0 .. Len(seqs) /\ i <= k - 1
    <3>1. off[i] \in Nat
      BY DEF Offsets
    <3>2. k # i
      BY <2>3, <3>1
    <3> QED
      BY <2>3, <3>2
  <2>5. off[i] <= off[k - 1]
    <3>1. ~(k <= k - 1)
      BY <2>4
    <3>2. k - 1 \notin bad
      BY <2>2, <3>1
    <3> QED
      BY <2>4, <3>2
  <2>6. Len(seqs[k]) \in Nat
    BY <2>4
  <2>7. off[k] = off[k - 1] + Len(seqs[k])
    BY <2>4 DEF Offsets
  <2>8. off[k - 1] \in Nat /\ off[i] \in Nat
    BY <2>4 DEF Offsets
  <2> QED
    BY <2>3, <2>5, <2>6, <2>7, <2>8, SMTT(60)
<1> QED
  BY <1>1

(* Every sequence is where its offset says.                                *)
LEMMA Joined ==
    ASSUME NEW S, NEW seqs \in Seq(Seq(S))
    PROVE  \E off : /\ Offsets(off, seqs)
                    /\ FlattenSeq(seqs) \in Seq(S)
                    /\ Len(FlattenSeq(seqs)) = off[Len(seqs)]
                    /\ \A i \in 1 .. Len(seqs) : \A k \in 1 .. Len(seqs[i]) :
                            FlattenSeq(seqs)[off[i - 1] + k] = seqs[i][k]
<1> DEFINE m == Len(seqs)
<1>1. m \in Nat
  OBVIOUS
<1>4. \A a, k, l \in Nat : 0 < k /\ k <= l => a + k \in 1 .. a + l /\ ~(a + k <= a)
  OBVIOUS
<1>5. \A a, k, l, b, c \in Nat :
        0 < k /\ k <= l /\ a + l <= b => a + k \in 1 .. b + c /\ a + k <= b
  OBVIOUS
<1>2. CASE m = 0
  <2>1. FlattenSeq(seqs) = seqs
    BY <1>2 DEF FlattenSeq
  <2>2. seqs = <<>> /\ <<>> \in Seq(S) /\ Len(<<>>) = 0
    BY <1>2
  <2>3. Offsets([i \in 0 .. 0 |-> 0], seqs)
    BY <1>2 DEF Offsets
  <2>4. [i \in 0 .. 0 |-> 0][m] = 0
    BY <1>2
  <2> QED
    BY <1>2, <2>1, <2>2, <2>3, <2>4
<1>3. CASE m # 0
  <2>1. PICK G : Flattens(G, seqs, m)
    BY <1>1, <1>3, Flattenable
  <2>2. FlattenSeq(seqs) = G[m]
    BY <1>1, <1>3, <2>1, Flattened
  <2>3. \A i \in 1 .. m : G[i] = IF i = 1 THEN seqs[i] ELSE G[i - 1] \o seqs[i]
    BY <2>1, ZenonT(60) DEF Flattens
  <2>4. \A i \in 1 .. m : i = 1 \/ i - 1 \in 1 .. m
    BY <1>1
  <2>5. \A i \in 1 .. m : seqs[i] \in Seq(S)
    OBVIOUS
  <2> HIDE DEF m
  <2>6. \A i \in 1 .. m : G[i] \in Seq(S)
    <3> DEFINE bad == {i \in 1 .. m : G[i] \notin Seq(S)}
    <3>1. ASSUME bad # {} PROVE FALSE
      <4>1. bad \in SUBSET Nat
        OBVIOUS
      <4>2. PICK j \in bad : \A k \in bad : j <= k
        <5> HIDE DEF bad
        <5> QED
          BY <3>1, <4>1, LeastIndex
      <4>3. j \in 1 .. m /\ G[j] \notin Seq(S)
        BY <4>2
      <4>4. j # 1
        BY <2>3, <2>5, <4>3
      <4>5. j - 1 \in 1 .. m /\ ~(j <= j - 1)
        BY <2>4, <4>3, <4>4
      <4>6. G[j - 1] \in Seq(S)
        BY <4>2, <4>5
      <4>7. G[j] = G[j - 1] \o seqs[j] /\ seqs[j] \in Seq(S)
        BY <2>3, <2>5, <4>3, <4>4
      <4> QED
        BY <4>3, <4>6, <4>7, ConcatProperties
    <3> QED
      BY <3>1
  <2> DEFINE off == [i \in 0 .. m |-> IF i = 0 THEN 0 ELSE Len(G[i])]
  <2>7. \A i \in 1 .. m : off[i] = Len(G[i]) /\ Len(G[i]) \in Nat
    BY <1>1, <2>6
  <2>8. off \in [0 .. m -> Nat] /\ off[0] = 0
    BY <1>1, <2>6
  <2> HIDE DEF off
  <2>9. \A i \in 1 .. m : off[i] = off[i - 1] + Len(seqs[i])
    <3> SUFFICES ASSUME NEW i \in 1 .. m
                 PROVE  off[i] = off[i - 1] + Len(seqs[i])
      OBVIOUS
    <3>1. CASE i = 1
      BY <2>3, <2>5, <2>7, <2>8, <3>1
    <3>2. CASE i # 1
      <4>1. i - 1 \in 1 .. m /\ G[i] = G[i - 1] \o seqs[i]
        BY <2>3, <2>4, <3>2
      <4>2. Len(G[i]) = Len(G[i - 1]) + Len(seqs[i])
        BY <2>5, <2>6, <4>1, ConcatProperties
      <4> QED
        BY <2>7, <4>1, <4>2
    <3> QED
      BY <3>1, <3>2
  <2>10. Offsets(off, seqs)
    BY <2>8, <2>9 DEF Offsets, m
  <2>11. \A j \in 1 .. m : \A i \in 1 .. j : \A k \in 1 .. Len(seqs[i]) :
            G[j][off[i - 1] + k] = seqs[i][k]
    <3> DEFINE Right(j) == \A i \in 1 .. j : \A k \in 1 .. Len(seqs[i]) :
                              G[j][off[i - 1] + k] = seqs[i][k]
               bad == {j \in 1 .. m : ~Right(j)}
    <3>1. ASSUME bad # {} PROVE FALSE
      <4>1. bad \in SUBSET Nat
        OBVIOUS
      <4>2. PICK j \in bad : \A k \in bad : j <= k
        <5> HIDE DEF bad
        <5> QED
          BY <3>1, <4>1, LeastIndex
      <4>3. j \in 1 .. m /\ ~Right(j)
        BY <4>2
      <4>4. PICK i \in 1 .. j : \E k \in 1 .. Len(seqs[i]) : G[j][off[i - 1] + k] # seqs[i][k]
        BY <4>3
      <4>5. PICK k \in 1 .. Len(seqs[i]) : G[j][off[i - 1] + k] # seqs[i][k]
        BY <4>4
      <4>6. /\ i \in 1 .. m /\ i - 1 \in 0 .. m /\ j - 1 \in 0 .. m /\ i \in 0 .. m
            /\ j \in Nat /\ i \in Nat /\ i <= j
        BY <1>1, <4>3, SMTT(60)
      <4>7. seqs[i] \in Seq(S) /\ Len(seqs[i]) \in Nat /\ k \in Nat \ {0} /\ k <= Len(seqs[i])
        BY <2>5, <4>6, SMTT(60)
      <4>8. off[i - 1] \in Nat /\ off[j - 1] \in Nat /\ off[i] \in Nat
        BY <2>8, <4>6
      <4>9. CASE j = 1
        <5>1. i = 1 /\ G[1] = seqs[1]
          BY <2>3, <4>3, <4>6, <4>9
        <5> QED
          BY <2>8, <4>5, <4>7, <4>9, <5>1
      <4>10. CASE j # 1
        <5>1. j - 1 \in 1 .. m /\ ~(j <= j - 1) /\ G[j] = G[j - 1] \o seqs[j]
          <6>1. G[j] = G[j - 1] \o seqs[j]
            BY <2>3, <4>3, <4>10, Zenon
          <6>2. ~(j <= j - 1)
            BY <4>6
          <6> QED
            BY <2>4, <4>3, <4>10, <6>1, <6>2, Zenon
        <5>2. /\ G[j - 1] \in Seq(S) /\ seqs[j] \in Seq(S)
              /\ off[j - 1] = Len(G[j - 1])
          BY <2>5, <2>6, <2>7, <4>3, <5>1
        <5> DEFINE x == off[i - 1] + k
        <5>3. x \in Nat \ {0}
          <6> HIDE DEF bad, Right
          <6> QED
            BY <4>7, <4>8
        <5>4. CASE i = j
          <6>1. x \in 1 .. Len(G[j - 1]) + Len(seqs[j]) /\ ~(x <= Len(G[j - 1]))
            <7> HIDE DEF bad, Right
            <7>1. Len(seqs[j]) \in Nat /\ k <= Len(seqs[j])
              BY <4>7, <5>4
            <7>2. off[i - 1] = Len(G[j - 1]) /\ Len(G[j - 1]) \in Nat
              BY <4>8, <5>2, <5>4
            <7>3. k \in Nat /\ 0 < k
              BY <4>7
            <7> QED
              BY <1>4, <7>1, <7>2, <7>3, Zenon
          <6>2. (G[j - 1] \o seqs[j])[x] = seqs[j][x - Len(G[j - 1])]
            <7> HIDE DEF x
            <7> QED
              BY <5>2, <6>1, ConcatProperties
          <6>3. x - Len(G[j - 1]) = k
            BY <4>7, <4>8, <5>2, <5>4
          <6> QED
            BY <4>5, <5>1, <5>4, <6>2, <6>3
        <5>5. CASE i # j
          <6>1. i \in 1 .. j - 1 /\ i <= j - 1
            BY <4>6, <5>5
          <6>2. Right(j - 1)
            BY <4>2, <5>1
          <6>3. G[j - 1][x] = seqs[i][k]
            BY <6>1, <6>2
          <6>4. off[i] <= off[j - 1]
            BY <2>10, <4>6, <6>1, OffsetsGrow DEF m
          <6>5. off[i] = off[i - 1] + Len(seqs[i])
            BY <2>9, <4>6
          <6>6. x \in 1 .. Len(G[j - 1]) + Len(seqs[j]) /\ x <= Len(G[j - 1])
            <7>1. Len(seqs[j]) \in Nat
              BY <5>2
            <7>2. Len(G[j - 1]) \in Nat /\ off[i - 1] + Len(seqs[i]) <= Len(G[j - 1])
              BY <4>8, <5>2, <6>4, <6>5
            <7> HIDE DEF bad, Right
            <7>3. k \in Nat /\ 0 < k
              BY <4>7
            <7> QED
              BY <1>5, <4>7, <4>8, <7>1, <7>2, <7>3, Zenon
          <6>7. (G[j - 1] \o seqs[j])[x] = G[j - 1][x]
            <7> HIDE DEF x
            <7> QED
              BY <5>2, <6>6, ConcatProperties
          <6> QED
            BY <4>5, <5>1, <6>3, <6>7
        <5> QED
          BY <5>4, <5>5
      <4> QED
        BY <4>9, <4>10
    <3> QED
      BY <3>1
  <2>12. m \in 1 .. m
    BY <1>1, <1>3
  <2>13. /\ Offsets(off, seqs)
         /\ FlattenSeq(seqs) \in Seq(S)
         /\ Len(FlattenSeq(seqs)) = off[m]
         /\ \A i \in 1 .. m : \A k \in 1 .. Len(seqs[i]) :
                FlattenSeq(seqs)[off[i - 1] + k] = seqs[i][k]
    BY <2>2, <2>6, <2>7, <2>10, <2>11, <2>12
  <2> QED
    BY <2>13, ZenonT(60) DEF m
<1> QED
  BY <1>2, <1>3

\* Every element of the sequences has a place in flat, and every place of flat
\* has an element of its own.
AllPlaced(flat, seqs) ==
    \A i \in 1 .. Len(seqs) : \A k \in 1 .. Len(seqs[i]) :
        \E p \in 1 .. Len(flat) : flat[p] = seqs[i][k]

OwnPlaces(flat, seqs) ==
    \A p, q \in 1 .. Len(flat) : \E i, j \in 1 .. Len(seqs) :
        \E k \in 1 .. Len(seqs[i]) : \E l \in 1 .. Len(seqs[j]) :
            /\ flat[p] = seqs[i][k] /\ flat[q] = seqs[j][l]
            /\ i = j /\ k = l => p = q

(* What FlattenSeq makes of sequences.                                     *)
LEMMA Flattening ==
    ASSUME NEW S, NEW seqs \in Seq(Seq(S)), NEW flat, flat = FlattenSeq(seqs)
    PROVE  flat \in Seq(S) /\ AllPlaced(flat, seqs) /\ OwnPlaces(flat, seqs)
<1> DEFINE m == Len(seqs)
<1>1. PICK off : /\ Offsets(off, seqs)
                 /\ flat \in Seq(S)
                 /\ Len(flat) = off[m]
                 /\ \A i \in 1 .. m : \A k \in 1 .. Len(seqs[i]) :
                        flat[off[i - 1] + k] = seqs[i][k]
  BY Joined
<1>2. m \in Nat /\ \A i \in 1 .. m : Len(seqs[i]) \in Nat
  OBVIOUS
<1>3. /\ \A i \in 0 .. m : off[i] \in Nat
      /\ off[0] = 0
      /\ \A i \in 1 .. m : off[i] = off[i - 1] + Len(seqs[i])
  BY <1>1, <1>2 DEF Offsets
<1>4. \A i \in 1 .. m : off[i] <= off[m]
  <2> SUFFICES ASSUME NEW i \in 1 .. m PROVE off[i] <= off[m]
    OBVIOUS
  <2>1. i \in 0 .. m /\ m \in 0 .. m /\ i <= m
    BY <1>2
  <2> QED
    BY <1>1, <2>1, OffsetsGrow
<1> HIDE DEF m
<1>5. \A a, k, l, b \in Nat : 0 < k /\ k <= l /\ a + l <= b => a + k \in 1 .. b
  OBVIOUS
<1>6. ASSUME NEW i \in 1 .. m, NEW k \in 1 .. Len(seqs[i])
      PROVE  \E p \in 1 .. Len(flat) : flat[p] = seqs[i][k]
  <2>1. /\ off[i - 1] \in Nat /\ off[i] \in Nat /\ off[m] \in Nat /\ Len(seqs[i]) \in Nat
        /\ off[i] = off[i - 1] + Len(seqs[i]) /\ off[i] <= off[m]
    <3>1. i - 1 \in 0 .. m /\ i \in 0 .. m /\ m \in 0 .. m
      BY <1>2
    <3> QED
      BY <1>2, <1>3, <1>4, <3>1
  <2>2. k \in Nat /\ 0 < k /\ k <= Len(seqs[i])
    BY <2>1
  <2>3. off[i - 1] + k \in 1 .. Len(flat)
    BY <1>1, <1>5, <2>1, <2>2, Zenon
  <2> QED
    BY <1>1, <2>3
<1>7. ASSUME NEW p \in 1 .. Len(flat)
      PROVE  \E i \in 1 .. m : \E k \in 1 .. Len(seqs[i]) :
                p = off[i - 1] + k /\ flat[p] = seqs[i][k]
  <2> DEFINE reach == {i \in 1 .. m : p <= off[i]}
  <2>1. p \in Nat \ {0} /\ p <= off[m]
    <3>1. off[m] \in Nat
      BY <1>2, <1>3
    <3> QED
      BY <1>1, <3>1
  <2>2. m \in reach /\ reach \in SUBSET Nat
    <3>1. m # 0
      BY <1>3, <2>1
    <3> QED
      BY <1>2, <2>1, <3>1
  <2>3. PICK i \in reach : \A k \in reach : i <= k
    <3> HIDE DEF reach
    <3> QED
      BY <2>2, LeastIndex
  <2>4. i \in 1 .. m /\ p <= off[i]
    BY <2>3
  <2>5. i - 1 \in 0 .. m /\ i \in 0 .. m /\ ~(i <= i - 1)
    BY <1>2, <2>4
  <2>6. off[i - 1] \in Nat /\ off[i] \in Nat /\ off[i] = off[i - 1] + Len(seqs[i])
    BY <1>3, <2>4, <2>5
  <2>7. off[i - 1] < p
    <3>1. CASE i = 1
      BY <1>3, <2>1, <3>1
    <3>2. CASE i # 1
      <4>1. i - 1 \in 1 .. m
        BY <1>2, <2>4, <3>2
      <4>2. ~(p <= off[i - 1])
        BY <2>3, <2>5, <4>1, Zenon
      <4> QED
        BY <2>1, <2>6, <4>2
    <3> QED
      BY <3>1, <3>2
  <2>8. p - off[i - 1] \in 1 .. Len(seqs[i]) /\ off[i - 1] + (p - off[i - 1]) = p
    <3>1. Len(seqs[i]) \in Nat
      BY <1>2, <2>4
    <3> QED
      BY <2>1, <2>4, <2>6, <2>7, <3>1
  <2>9. flat[off[i - 1] + (p - off[i - 1])] = seqs[i][p - off[i - 1]]
    BY <1>1, <2>4, <2>8
  <2> QED
    BY <2>4, <2>8, <2>9, Zenon
<1>8. ASSUME NEW p \in 1 .. Len(flat), NEW q \in 1 .. Len(flat)
      PROVE  \E i, j \in 1 .. m :
                \E k \in 1 .. Len(seqs[i]) : \E l \in 1 .. Len(seqs[j]) :
                    /\ flat[p] = seqs[i][k] /\ flat[q] = seqs[j][l]
                    /\ i = j /\ k = l => p = q
  <2>1. PICK i \in 1 .. m : \E k \in 1 .. Len(seqs[i]) :
                p = off[i - 1] + k /\ flat[p] = seqs[i][k]
    BY <1>7, Zenon
  <2>2. PICK k \in 1 .. Len(seqs[i]) : p = off[i - 1] + k /\ flat[p] = seqs[i][k]
    BY <2>1, Zenon
  <2>3. PICK j \in 1 .. m : \E l \in 1 .. Len(seqs[j]) :
                q = off[j - 1] + l /\ flat[q] = seqs[j][l]
    BY <1>7, Zenon
  <2>4. PICK l \in 1 .. Len(seqs[j]) : q = off[j - 1] + l /\ flat[q] = seqs[j][l]
    BY <2>3, Zenon
  <2>5. i = j /\ k = l => p = q
    BY <2>2, <2>4, Zenon
  <2>6. flat[p] = seqs[i][k] /\ flat[q] = seqs[j][l]
    BY <2>2, <2>4, Zenon
  <2> QED
    BY <2>5, <2>6, ZenonT(60)
<1> QED
  BY <1>1, <1>6, <1>8, Zenon DEF m, AllPlaced, OwnPlaces

\* No element twice.
NoneTwice(seq) == \A p, q \in 1 .. Len(seq) : seq[p] = seq[q] => p = q

Apart(seqs) ==
    \A i, j \in 1 .. Len(seqs) :
        \A k \in 1 .. Len(seqs[i]) : \A l \in 1 .. Len(seqs[j]) :
            seqs[i][k] = seqs[j][l] => i = j /\ k = l

(* Sequences that have no element twice make one that has none twice.      *)
LEMMA FlatNoneTwice ==
    ASSUME NEW S, NEW seqs \in Seq(Seq(S)), Apart(seqs)
    PROVE  NoneTwice(FlattenSeq(seqs))
<1> DEFINE flat == FlattenSeq(seqs)
<1>1. flat = FlattenSeq(seqs)
  OBVIOUS
<1> HIDE DEF flat
<1>9. OwnPlaces(flat, seqs)
  BY <1>1, Flattening
<1>2. ASSUME NEW p \in 1 .. Len(flat), NEW q \in 1 .. Len(flat), flat[p] = flat[q]
      PROVE  p = q
  <2>1. PICK i, j \in 1 .. Len(seqs) :
                \E k \in 1 .. Len(seqs[i]) : \E l \in 1 .. Len(seqs[j]) :
                    /\ flat[p] = seqs[i][k] /\ flat[q] = seqs[j][l]
                    /\ i = j /\ k = l => p = q
    BY <1>9, Zenon DEF OwnPlaces
  <2>2. PICK k \in 1 .. Len(seqs[i]) : \E l \in 1 .. Len(seqs[j]) :
                    /\ flat[p] = seqs[i][k] /\ flat[q] = seqs[j][l]
                    /\ i = j /\ k = l => p = q
    BY <2>1, Zenon
  <2>3. PICK l \in 1 .. Len(seqs[j]) :
                    /\ flat[p] = seqs[i][k] /\ flat[q] = seqs[j][l]
                    /\ i = j /\ k = l => p = q
    BY <2>2, Zenon
  <2> QED
    <3>1. seqs[i][k] = seqs[j][l]
      BY <1>2, <2>3, Zenon
    <3>2. i = j /\ k = l
      BY <3>1, Zenon DEF Apart
    <3> QED
      BY <2>3, <3>2, Zenon
<1> QED
  BY <1>1, <1>2, Zenon DEF NoneTwice

-----------------------------------------------------------------------------
(* Groups, blocks and batches: a sequence in pieces of one size *)

\* The c-th piece of the first n elements of s, and how many there are.
Portion(s, size, n, c) ==
    SubSeq(s, (c - 1) * size + 1, IF c * size < n THEN c * size ELSE n)

PortionCount(n, size) == (n + size - 1) \div size

(* Each piece begins before the end, and each place is in a piece.         *)
LEMMA PieceBounds ==
    ASSUME NEW n \in Nat, NEW size \in Nat \ {0}
    PROVE  /\ PortionCount(n, size) \in Nat
           /\ \A c \in 1 .. PortionCount(n, size) :
                (c - 1) * size \in Nat /\ (c - 1) * size < n /\ c * size = (c - 1) * size + size
           /\ \A p \in 1 .. n : \E c \in 1 .. PortionCount(n, size) :
                (c - 1) * size < p /\ p <= c * size
<1> DEFINE q == PortionCount(n, size)
<1>1. q \in Int /\ q * size <= n + size - 1 /\ n + size - 1 < q * size + size
  BY DEF PortionCount
<1> HIDE DEF q
<1>2. q \in Nat
  <2>1. ASSUME q < 0 PROVE FALSE
    <3>1. q <= -1
      BY <1>1, <2>1
    <3>2. q * size <= (-1) * size
      BY <1>1, <3>1
    <3> QED
      BY <1>1, <3>2
  <2> QED
    BY <1>1, <2>1
<1>3. ASSUME NEW c \in 1 .. q
      PROVE  (c - 1) * size \in Nat /\ (c - 1) * size < n /\ c * size = (c - 1) * size + size
  <2>1. c \in Nat /\ c - 1 \in Nat /\ c <= q
    BY <1>2
  <2>2. c * size <= q * size
    BY <1>2, <2>1
  <2>3. c * size = (c - 1) * size + size /\ (c - 1) * size \in Nat /\ c * size \in Nat
    BY <2>1
  <2> QED
    BY <1>1, <2>2, <2>3
<1>4. ASSUME NEW p \in 1 .. n
      PROVE  \E c \in 1 .. q : (c - 1) * size < p /\ p <= c * size
  <2> DEFINE a == (p - 1) \div size
  <2>1. a \in Nat /\ a * size <= p - 1 /\ p - 1 < a * size + size
    OBVIOUS
  <2> HIDE DEF a
  <2>2. a + 1 <= q
    <3>1. ASSUME q <= a PROVE FALSE
      <4>1. q * size <= a * size
        BY <1>2, <2>1, <3>1
      <4>2. a * size \in Nat /\ q * size \in Nat
        BY <1>2, <2>1
      <4> QED
        BY <1>1, <2>1, <4>1, <4>2
    <3> QED
      BY <1>2, <2>1, <3>1
  <2> DEFINE d == a + 1
  <2>3. d - 1 = a /\ d * size = a * size + size /\ d \in 1 .. q
    BY <1>2, <2>1, <2>2
  <2> HIDE DEF d
  <2>4. (d - 1) * size < p /\ p <= d * size
    <3>1. a * size \in Nat
      BY <2>1
    <3> QED
      BY <2>1, <2>3, <3>1
  <2> QED
    BY <2>3, <2>4
<1> QED
  BY <1>2, <1>3, <1>4 DEF q

(* A place is in one piece only.                                           *)
LEMMA OnePiece ==
    ASSUME NEW a \in Nat, NEW b \in Nat, NEW size \in Nat \ {0},
           NEW k \in 1 .. size, NEW l \in 1 .. size, a * size + k = b * size + l
    PROVE  a = b /\ k = l
<1>1. a * size \in Nat /\ b * size \in Nat
  OBVIOUS
<1>2. ASSUME a < b PROVE FALSE
  <2>1. (a + 1) * size <= b * size
    BY <1>2
  <2>2. (a + 1) * size = a * size + size
    OBVIOUS
  <2> QED
    BY <1>1, <2>1, <2>2
<1>3. ASSUME b < a PROVE FALSE
  <2>1. (b + 1) * size <= a * size
    BY <1>3
  <2>2. (b + 1) * size = b * size + size
    OBVIOUS
  <2> QED
    BY <1>1, <2>1, <2>2
<1>4. a = b
  BY <1>2, <1>3
<1> QED
  BY <1>1, <1>4

\* pieces is the first n elements of s, size at a time.
InPieces(pieces, s, size, n) ==
    pieces = [c \in 1 .. PortionCount(n, size) |-> Portion(s, size, n, c)]

\* Where an element of a piece is in the whole, and that each of the first n is in
\* a piece.
PiecePlaces(pieces, s, size, n) ==
    \A c \in 1 .. Len(pieces) : \A k \in 1 .. Len(pieces[c]) :
        (c - 1) * size + k \in 1 .. n /\ pieces[c][k] = s[(c - 1) * size + k]

PiecesCover(pieces, s, n) ==
    \A p \in 1 .. n : \E c \in 1 .. Len(pieces) : \E k \in 1 .. Len(pieces[c]) :
        pieces[c][k] = s[p]

(* What the pieces are.                                                    *)
LEMMA PiecesAre ==
    ASSUME NEW S, NEW s \in Seq(S), NEW size \in Nat \ {0}, NEW n \in 0 .. Len(s),
           NEW pieces, InPieces(pieces, s, size, n)
    PROVE  /\ pieces \in Seq(Seq(S)) /\ Len(pieces) = PortionCount(n, size)
           /\ \A c \in 1 .. Len(pieces) : Len(pieces[c]) \in 1 .. size
           /\ PiecePlaces(pieces, s, size, n)
           /\ PiecesCover(pieces, s, n)
<1> DEFINE m == PortionCount(n, size)
<1>1. n \in Nat /\ n <= Len(s) /\ Len(s) \in Nat
  OBVIOUS
<1>2. /\ m \in Nat
      /\ \A c \in 1 .. m :
            (c - 1) * size \in Nat /\ (c - 1) * size < n /\ c * size = (c - 1) * size + size
      /\ \A p \in 1 .. n : \E c \in 1 .. m : (c - 1) * size < p /\ p <= c * size
  BY <1>1, PieceBounds
<1> HIDE DEF m
<1>3. pieces = [c \in 1 .. m |-> Portion(s, size, n, c)]
  BY DEF InPieces, m
<1>4. ASSUME NEW c \in 1 .. m
      PROVE  /\ pieces[c] \in Seq(S)
             /\ Len(pieces[c]) = IF c * size < n THEN size ELSE n - (c - 1) * size
             /\ Len(pieces[c]) \in 1 .. size
             /\ \A k \in 1 .. Len(pieces[c]) :
                    (c - 1) * size + k \in 1 .. n /\ pieces[c][k] = s[(c - 1) * size + k]
  <2> DEFINE a == (c - 1) * size
             e == IF c * size < n THEN c * size ELSE n
  <2>1. a \in Nat /\ a < n /\ c * size = a + size /\ pieces[c] = Portion(s, size, n, c)
    BY <1>2, <1>3
  <2>2. pieces[c] = SubSeq(s, a + 1, e)
    BY <2>1, Zenon DEF Portion
  <2>3. e \in Nat /\ a + 1 <= e /\ e <= n /\ e - (a + 1) + 1 \in 1 .. size
        /\ e - (a + 1) + 1 = IF c * size < n THEN size ELSE n - a
    <3> HIDE DEF a
    <3> QED
      BY <1>1, <2>1
  <2> HIDE DEF a, e
  <2>4. \A i \in a + 1 .. e : s[i] \in S
    <3>1. \A i \in a + 1 .. e : i \in 1 .. Len(s)
      BY <1>1, <2>1, <2>3
    <3> QED
      BY <3>1
  <2>5. /\ pieces[c] \in Seq(S)
        /\ Len(pieces[c]) = e - (a + 1) + 1
        /\ \A k \in 1 .. e - (a + 1) + 1 : pieces[c][k] = s[a + 1 + k - 1]
    <3>1. a + 1 \in Int /\ e \in Int
      BY <2>1, <2>3
    <3> QED
      BY <2>2, <2>3, <2>4, <3>1, SubSeqProperties, SMTT(60)
  <2>6. \A k \in 1 .. e - (a + 1) + 1 : a + 1 + k - 1 = a + k /\ a + k \in 1 .. n
    BY <1>1, <2>1, <2>3
  <2>7. \A k \in 1 .. Len(pieces[c]) : a + k \in 1 .. n /\ pieces[c][k] = s[a + k]
    BY <2>5, <2>6
  <2>8. Len(pieces[c]) = (IF c * size < n THEN size ELSE n - a) /\ Len(pieces[c]) \in 1 .. size
    BY <2>3, <2>5
  <2> QED
    BY <2>5, <2>7, <2>8, Zenon DEF a
<1>5. pieces \in Seq(Seq(S)) /\ Len(pieces) = m
  <2>1. \A c \in 1 .. m : pieces[c] \in Seq(S)
    BY <1>4
  <2>2. pieces = [c \in 1 .. m |-> pieces[c]]
    BY <1>3
  <2>3. pieces \in [1 .. m -> Seq(S)]
    BY <2>1, <2>2, Zenon
  <2> QED
    BY <1>2, <2>3
<1>6. PiecePlaces(pieces, s, size, n)
  BY <1>4, <1>5, Zenon DEF PiecePlaces
<1>7. PiecesCover(pieces, s, n)
  <2> SUFFICES ASSUME NEW p \in 1 .. n
               PROVE  \E c \in 1 .. m : \E k \in 1 .. Len(pieces[c]) : pieces[c][k] = s[p]
    BY <1>5 DEF PiecesCover
  <2>1. PICK c \in 1 .. m : (c - 1) * size < p /\ p <= c * size
    BY <1>2
  <2> DEFINE a == (c - 1) * size
  <2>2. a \in Nat /\ a < p /\ c * size = a + size /\ p <= a + size /\ p \in Nat /\ p <= n
    BY <1>1, <1>2, <2>1
  <2>3. Len(pieces[c]) = IF c * size < n THEN size ELSE n - a
    BY <1>4, Zenon
  <2>4. \A k \in 1 .. Len(pieces[c]) : pieces[c][k] = s[a + k]
    BY <1>4, Zenon
  <2> HIDE DEF a
  <2>5. p - a \in 1 .. Len(pieces[c]) /\ a + (p - a) = p
    BY <1>1, <2>2, <2>3
  <2> QED
    BY <2>4, <2>5
<1> QED
  BY <1>4, <1>5, <1>6, <1>7 DEF m

(* The pieces of what has no element twice do not overlap.                 *)
LEMMA PiecesApart ==
    ASSUME NEW S, NEW s \in Seq(S), NEW size \in Nat \ {0}, NEW n \in 0 .. Len(s),
           NEW pieces, InPieces(pieces, s, size, n), NoneTwice(s)
    PROVE  Apart(pieces)
<1>1. /\ \A c \in 1 .. Len(pieces) : Len(pieces[c]) \in 1 .. size
      /\ PiecePlaces(pieces, s, size, n)
  BY PiecesAre
<1>2. n \in Nat /\ n <= Len(s) /\ Len(s) \in Nat /\ Len(pieces) \in Nat
  <2>1. pieces \in Seq(Seq(S))
    BY PiecesAre
  <2> QED
    BY <2>1
<1>3. SUFFICES ASSUME NEW i \in 1 .. Len(pieces), NEW j \in 1 .. Len(pieces),
                      NEW k \in 1 .. Len(pieces[i]), NEW l \in 1 .. Len(pieces[j]),
                      pieces[i][k] = pieces[j][l]
               PROVE  i = j /\ k = l
  BY Zenon DEF Apart
<1>4. /\ (i - 1) * size + k \in 1 .. n /\ pieces[i][k] = s[(i - 1) * size + k]
      /\ (j - 1) * size + l \in 1 .. n /\ pieces[j][l] = s[(j - 1) * size + l]
  BY <1>1, Zenon DEF PiecePlaces
<1>5. k \in 1 .. size /\ l \in 1 .. size
  <2>1. Len(pieces[i]) \in 1 .. size /\ Len(pieces[j]) \in 1 .. size
    BY <1>1
  <2> QED
    BY <2>1
<1>6. (i - 1) * size + k = (j - 1) * size + l
  <2>1. \A x \in 1 .. n : x \in 1 .. Len(s)
    BY <1>2
  <2> QED
    BY <1>3, <1>4, <2>1, Zenon DEF NoneTwice
<1>7. i - 1 \in Nat /\ j - 1 \in Nat
  BY <1>2
<1>8. i - 1 = j - 1 /\ k = l
  BY <1>5, <1>6, <1>7, OnePiece, SMTT(60)
<1> QED
  BY <1>7, <1>8

-----------------------------------------------------------------------------
(* The share of a rank and the blocks it is packed into *)

(* Where a rank's examples are in the order of the epoch.                  *)
SharePlaces(share, s, n, r) ==
    \A k \in 1 .. Len(share) :
        (k - 1) * World + (r + 1) \in 1 .. n /\ share[k] = s[(k - 1) * World + (r + 1)]

(* A rank's share: every World-th example.                                 *)
LEMMA ShareIs ==
    ASSUME NEW n \in Nat, NEW s \in [1 .. n -> 1 .. n], NEW r \in Loaders
    PROVE  /\ Split(s, r) \in Seq(1 .. n)
           /\ SharePlaces(Split(s, r), s, n, r)
           /\ r < n => 1 <= Len(Split(s, r))
<1> DEFINE W == World
           mine == {i \in 1 .. Len(s) : (i - 1) % W = r}
           c == (n + W - 1 - r) \div W
           f == [k \in 1 .. c |-> (k - 1) * W + (r + 1)]
<1>1. W \in Nat \ {0} /\ r \in Nat /\ r < W /\ r + 1 \in 1 .. W
  BY DatasetAssumption DEF Loaders
<1>2. Len(s) = n
  OBVIOUS
<1> HIDE DEF W
<1>3. c \in Int /\ c * W <= n + W - 1 - r /\ n + W - 1 - r < c * W + W
  <2> DEFINE x == n + W - 1 - r
  <2>1. x \in Int
    BY <1>1
  <2> HIDE DEF x
  <2>2. x \div W \in Int /\ (x \div W) * W <= x /\ x < (x \div W) * W + W
    BY <1>1, <2>1
  <2> QED
    BY <2>2 DEF x
<1> HIDE DEF c
<1>4. c \in Nat
  <2>1. ASSUME c < 0 PROVE FALSE
    <3>1. c <= -1
      BY <1>3, <2>1
    <3>2. c * W <= (-1) * W
      BY <1>1, <1>3, <3>1
    <3> QED
      BY <1>1, <1>3, <3>2
  <2> QED
    BY <1>3, <2>1
<1>5. ASSUME NEW k \in 1 .. c
      PROVE  (k - 1) * W \in Nat /\ (k - 1) * W + (r + 1) \in 1 .. n
  <2>1. k \in Nat /\ k - 1 \in Nat /\ k <= c
    BY <1>4
  <2>2. k * W <= c * W
    BY <1>1, <1>4, <2>1
  <2>3. k * W = (k - 1) * W + W /\ (k - 1) * W \in Nat
    BY <1>1, <2>1
  <2>4. c * W \in Nat /\ k * W \in Nat
    BY <1>1, <1>4, <2>1
  <2> QED
    BY <1>1, <1>3, <2>2, <2>3, <2>4, SMTT(60)
<1>6. ASSUME NEW i \in Nat
      PROVE  /\ i \div W \in Nat /\ i % W \in 0 .. W - 1 /\ i = (i \div W) * W + (i % W)
             /\ (i \div W) * W \in Nat
  BY <1>1
<1>7. f \in [1 .. c -> mine]
  <2> SUFFICES ASSUME NEW k \in 1 .. c PROVE (k - 1) * W + (r + 1) \in mine
    OBVIOUS
  <2> DEFINE x == (k - 1) * W + r
  <2>1. x \in Nat /\ x + 1 \in 1 .. n /\ x + 1 = (k - 1) * W + (r + 1)
    <3>1. (k - 1) * W \in Nat /\ (k - 1) * W + (r + 1) \in 1 .. n
      BY <1>5
    <3> QED
      BY <1>1, <3>1
  <2>2. x % W = r
    <3> HIDE DEF x
    <3> DEFINE a == x \div W
               u == x % W
               b == k - 1
               t == u + 1
               v == r + 1
    <3>1. a \in Nat /\ u \in 0 .. W - 1 /\ x = a * W + u /\ a * W \in Nat
      BY <1>6, <2>1
    <3>2. b \in Nat /\ v \in 1 .. W /\ x + 1 = b * W + v
      BY <1>1, <1>4, <2>1
    <3> HIDE DEF a, u, b
    <3>3. t \in 1 .. W /\ x + 1 = a * W + t
      BY <1>1, <2>1, <3>1
    <3> HIDE DEF t, v
    <3>4. a * W + t = b * W + v
      BY <3>2, <3>3
    <3>5. t = v
      BY <1>1, <3>1, <3>2, <3>3, <3>4, OnePiece
    <3> QED
      BY <1>1, <3>1, <3>5 DEF t, u, v
  <2>3. x + 1 - 1 = x
    BY <2>1
  <2> HIDE DEF x
  <2>4. x + 1 \in mine
    BY <1>2, <2>1, <2>2, <2>3
  <2> QED
    BY <2>1, <2>4
<1>8. \A k, l \in 1 .. c : f[k] = f[l] => k = l
  <2> SUFFICES ASSUME NEW k \in 1 .. c, NEW l \in 1 .. c,
                      (k - 1) * W + (r + 1) = (l - 1) * W + (r + 1)
               PROVE  k = l
    BY Zenon
  <2>1. k - 1 \in Nat /\ l - 1 \in Nat /\ k \in Nat /\ l \in Nat
    BY <1>4
  <2>2. k - 1 = l - 1
    BY <1>1, <2>1, OnePiece
  <2> QED
    BY <2>1, <2>2
<1>9. \A i \in mine : \E k \in 1 .. c : f[k] = i
  <2> SUFFICES ASSUME NEW i \in mine PROVE \E k \in 1 .. c : (k - 1) * W + (r + 1) = i
    BY Zenon
  <2> DEFINE q == (i - 1) \div W
  <2>1. i \in Nat /\ i - 1 \in Nat /\ i <= n /\ (i - 1) % W = r
    BY <1>2
  <2>2. q \in Nat /\ q * W \in Nat /\ i - 1 = q * W + r
    BY <1>6, <2>1
  <2> HIDE DEF q
  <2>3. q < c
    <3>1. ASSUME c <= q PROVE FALSE
      <4>1. c * W <= q * W /\ c * W \in Nat
        BY <1>1, <1>4, <2>2, <3>1
      <4> QED
        BY <1>1, <1>3, <2>1, <2>2, <4>1, SMTT(60)
    <3> QED
      BY <1>4, <2>2, <3>1
  <2> DEFINE k == q + 1
  <2>4. k \in 1 .. c /\ k - 1 = q
    BY <1>4, <2>2, <2>3
  <2> HIDE DEF k
  <2>5. (k - 1) * W + (r + 1) = i
    BY <1>1, <2>1, <2>2, <2>4
  <2> QED
    BY <2>4, <2>5
<1>10. Cardinality(mine) = c
  <2>1. f \in Bijection(1 .. c, mine)
    BY <1>7, <1>8, <1>9, Zenon DEF Bijection, Injection, Surjection, IsInjective
  <2> HIDE DEF f, mine
  <2>2. ExistsBijection(1 .. c, mine)
    BY <2>1 DEF ExistsBijection
  <2> QED
    BY <1>4, <2>2, FS_CountingElements
<1>11. Split(s, r) = [k \in 1 .. c |-> s[(k - 1) * W + r + 1]]
  BY <1>10 DEF Split, W
<1>12. \A k \in 1 .. c : (k - 1) * W + r + 1 = (k - 1) * W + (r + 1)
  BY <1>1, <1>5
<1>13. \A k \in 1 .. c : Split(s, r)[k] = s[(k - 1) * W + (r + 1)]
  BY <1>11, <1>12
<1>14. \A k \in 1 .. c : s[(k - 1) * W + r + 1] \in 1 .. n
  BY <1>5, <1>12
<1>15. Split(s, r) \in Seq(1 .. n) /\ Len(Split(s, r)) = c
  <2>1. Split(s, r) \in [1 .. c -> 1 .. n]
    BY <1>11, <1>14
  <2> QED
    BY <1>4, <2>1
<1>16. SharePlaces(Split(s, r), s, n, r)
  BY <1>5, <1>13, <1>15, Zenon DEF SharePlaces, W
<1>17. r < n => 1 <= c
  <2>1. ASSUME r < n, c = 0 PROVE FALSE
    BY <1>1, <1>3, <2>1
  <2> QED
    BY <1>4, <2>1
<1> QED
  BY <1>15, <1>16, <1>17

(* No rank has an example twice, and no two ranks have the same.           *)
LEMMA SharesApart ==
    ASSUME NEW n \in Nat, NEW s \in [1 .. n -> 1 .. n], NoneTwice(s),
           NEW r \in Loaders, NEW q \in Loaders,
           NEW k \in 1 .. Len(Split(s, r)), NEW l \in 1 .. Len(Split(s, q)),
           Split(s, r)[k] = Split(s, q)[l]
    PROVE  r = q /\ k = l
<1>1. /\ Split(s, r) \in Seq(1 .. n) /\ SharePlaces(Split(s, r), s, n, r)
      /\ Split(s, q) \in Seq(1 .. n) /\ SharePlaces(Split(s, q), s, n, q)
  BY ShareIs
<1>2. Len(s) = n
  OBVIOUS
<1> DEFINE a == (k - 1) * World + (r + 1)
           b == (l - 1) * World + (q + 1)
           x == k - 1
           y == l - 1
           u == r + 1
           v == q + 1
<1>3. a \in 1 .. n /\ b \in 1 .. n /\ s[a] = s[b]
  BY <1>1, Zenon DEF SharePlaces
<1>4. a = b
  BY <1>2, <1>3, Zenon DEF NoneTwice
<1>5. k \in Nat /\ l \in Nat /\ x \in Nat /\ y \in Nat
  BY <1>1
<1>6. r \in Nat /\ q \in Nat /\ u \in 1 .. World /\ v \in 1 .. World /\ World \in Nat \ {0}
  BY DatasetAssumption DEF Loaders
<1>7. x * World + u = y * World + v
  BY <1>4
<1>8. x = y /\ u = v
  <2> HIDE DEF x, y, u, v
  <2> QED
    BY <1>5, <1>6, <1>7, OnePiece
<1> QED
  BY <1>5, <1>6, <1>8

\* The tokens of the examples in group are what text has.
TextHas(text, group) ==
    \A p \in 1 .. Len(text) : \E i \in 1 .. Len(group) : \E k \in 1 .. tokens[group[i]] :
        text[p] = <<group[i], k>>

TextCovers(text, group) ==
    \A i \in 1 .. Len(group) : \A k \in 1 .. tokens[group[i]] :
        \E p \in 1 .. Len(text) : text[p] = <<group[i], k>>

TokenCounts(n) == tokens \in [1 .. n -> Nat \ {0}]

(* The text of a group has each token of its examples once.                *)
LEMMA TextIs ==
    ASSUME NEW n \in Nat, TokenCounts(n),
           NEW group \in Seq(1 .. n), NoneTwice(group),
           NEW text, text = Tokenized(group)
    PROVE  /\ text \in Seq(Nat \X Nat) /\ NoneTwice(text)
           /\ TextHas(text, group) /\ TextCovers(text, group)
<1> DEFINE m == Len(group)
           T == Nat \X Nat
           seqs == [i \in 1 .. m |-> [k \in 1 .. tokens[group[i]] |-> <<group[i], k>>]]
<1>1. m \in Nat /\ \A i \in 1 .. m : group[i] \in 1 .. n /\ tokens[group[i]] \in Nat \ {0}
  BY DEF TokenCounts
<1>2. ASSUME NEW i \in 1 .. m
      PROVE  /\ seqs[i] \in Seq(T) /\ Len(seqs[i]) = tokens[group[i]]
             /\ \A k \in 1 .. tokens[group[i]] : seqs[i][k] = <<group[i], k>>
  <2> DEFINE c == tokens[group[i]]
             x == group[i]
  <2>1. c \in Nat /\ x \in Nat /\ seqs[i] = [k \in 1 .. c |-> <<x, k>>]
    BY <1>1
  <2> HIDE DEF c, x, seqs
  <2>2. seqs[i] \in Seq(T) /\ Len(seqs[i]) = c /\ \A k \in 1 .. c : seqs[i][k] = <<x, k>>
    BY <2>1
  <2> QED
    BY <2>2 DEF c, x
<1>3. text = FlattenSeq(seqs)
  BY Zenon DEF Tokenized
<1>4. seqs \in Seq(Seq(T)) /\ Len(seqs) = m
  <2>1. seqs \in [1 .. m -> Seq(T)]
    BY <1>2, Zenon
  <2> HIDE DEF seqs, T
  <2> QED
    BY <1>1, <2>1
<1>5. Apart(seqs)
  <2> HIDE DEF seqs, m, T
  <2> SUFFICES ASSUME NEW i \in 1 .. Len(seqs), NEW j \in 1 .. Len(seqs),
                      NEW k \in 1 .. Len(seqs[i]), NEW l \in 1 .. Len(seqs[j]),
                      seqs[i][k] = seqs[j][l]
               PROVE  i = j /\ k = l
    BY Zenon DEF Apart
  <2>0. i \in 1 .. m /\ j \in 1 .. m
    BY <1>4
  <2>1. <<group[i], k>> = <<group[j], l>>
    <3>1. seqs[i][k] = <<group[i], k>>
      BY <1>2, <2>0, Zenon
    <3>2. seqs[j][l] = <<group[j], l>>
      BY <1>2, <2>0, Zenon
    <3> QED
      BY <3>1, <3>2, Zenon
  <2>2. group[i] = group[j] /\ k = l
    BY <2>1
  <2> QED
    BY <2>0, <2>2, Zenon DEF NoneTwice, m
<1>6. text \in Seq(T) /\ AllPlaced(text, seqs) /\ OwnPlaces(text, seqs)
  <2> HIDE DEF seqs, T
  <2> QED
    BY <1>3, <1>4, Flattening
<1>7. NoneTwice(text)
  <2> HIDE DEF seqs, T
  <2> QED
    BY <1>3, <1>4, <1>5, FlatNoneTwice
<1> HIDE DEF seqs
<1>8. TextHas(text, group)
  <2> SUFFICES ASSUME NEW p \in 1 .. Len(text)
               PROVE  \E i \in 1 .. m : \E k \in 1 .. tokens[group[i]] : text[p] = <<group[i], k>>
    BY Zenon DEF TextHas
  <2>1. PICK i \in 1 .. Len(seqs) : \E k \in 1 .. Len(seqs[i]) : text[p] = seqs[i][k]
    BY <1>6, Zenon DEF OwnPlaces
  <2>2. PICK k \in 1 .. Len(seqs[i]) : text[p] = seqs[i][k]
    BY <2>1
  <2>3. i \in 1 .. m /\ k \in 1 .. tokens[group[i]] /\ seqs[i][k] = <<group[i], k>>
    BY <1>2, <1>4
  <2> QED
    BY <2>2, <2>3
<1>9. TextCovers(text, group)
  <2> SUFFICES ASSUME NEW i \in 1 .. m, NEW k \in 1 .. tokens[group[i]]
               PROVE  \E p \in 1 .. Len(text) : text[p] = <<group[i], k>>
    BY Zenon DEF TextCovers
  <2>1. i \in 1 .. Len(seqs) /\ k \in 1 .. Len(seqs[i]) /\ seqs[i][k] = <<group[i], k>>
    BY <1>2, <1>4
  <2> QED
    BY <1>6, <2>1, Zenon DEF AllPlaced
<1> QED
  BY <1>6, <1>7, <1>8, <1>9 DEF T

(* What the packing keeps: all but a rest that is shorter than a block, and *)
(* something of whatever is not empty.                                     *)
LEMMA Kept ==
    ASSUME NEW n \in Nat
    PROVE  /\ PackedLength(n) \in 0 .. n
           /\ n - PackedLength(n) <= BlockSize - 1
           /\ n > 0 => PackedLength(n) > 0
<1> DEFINE B == BlockSize
           q == n \div B
<1>1. B \in Nat \ {0}
  BY DatasetAssumption
<1> HIDE DEF B
<1>2. q \in Nat /\ q * B <= n /\ n < q * B + B /\ q * B \in Nat
  BY <1>1
<1>3. PackedLength(n) = IF n >= B THEN q * B ELSE n
  BY DEF PackedLength, B
<1> HIDE DEF q
<1>4. PackedLength(n) \in 0 .. n /\ n - PackedLength(n) <= B - 1
  BY <1>1, <1>2, <1>3
<1>5. n > 0 => PackedLength(n) > 0
  <2>1. CASE n >= B
    <3>1. q * B > 0
      BY <1>1, <1>2, <2>1
    <3> QED
      BY <1>3, <2>1, <3>1
  <2>2. CASE ~(n >= B)
    BY <1>3, <2>2
  <2> QED
    BY <2>1, <2>2
<1> QED
  BY <1>4, <1>5 DEF B

(* Groups, blocks and batches are pieces.                                  *)
LEMMA Groupings ==
    /\ \A s : InPieces(Groups(s), s, MapBatch, Len(s))
    /\ \A text : InPieces(pack(text), text, BlockSize, PackedLength(Len(text)))
<1>1. ASSUME NEW s PROVE InPieces(Groups(s), s, MapBatch, Len(s))
  BY Zenon DEF InPieces, Groups, Portion, PortionCount
<1>2. ASSUME NEW text PROVE InPieces(pack(text), text, BlockSize, PackedLength(Len(text)))
  BY Zenon DEF InPieces, pack, Portion, PortionCount
<1> QED
  BY <1>1, <1>2

(* The blocks of one text.                                                 *)
LEMMA PackIs ==
    ASSUME NEW S, NEW text \in Seq(S), NoneTwice(text), NEW blocks, blocks = pack(text)
    PROVE  /\ blocks \in Seq(Seq(S)) /\ Apart(blocks)
           /\ \A b \in 1 .. Len(blocks) : Len(blocks[b]) \in Nat \ {0}
           /\ PiecePlaces(blocks, text, BlockSize, PackedLength(Len(text)))
           /\ PiecesCover(blocks, text, PackedLength(Len(text)))
           /\ Len(text) > 0 => Len(blocks) > 0
<1> DEFINE n == PackedLength(Len(text))
<1>1. BlockSize \in Nat \ {0} /\ Len(text) \in Nat
  BY DatasetAssumption
<1>2. n \in 0 .. Len(text) /\ n \in Nat /\ (Len(text) > 0 => n > 0)
  BY <1>1, Kept
<1>3. InPieces(blocks, text, BlockSize, n)
  BY Groupings
<1> HIDE DEF n
<1>4. /\ blocks \in Seq(Seq(S))
      /\ \A c \in 1 .. Len(blocks) : Len(blocks[c]) \in 1 .. BlockSize
      /\ PiecePlaces(blocks, text, BlockSize, n)
      /\ PiecesCover(blocks, text, n)
  BY <1>1, <1>2, <1>3, PiecesAre
<1>5. Apart(blocks)
  BY <1>1, <1>2, <1>3, PiecesApart
<1>6. \A b \in 1 .. Len(blocks) : Len(blocks[b]) \in Nat \ {0}
  BY <1>1, <1>4
<1>7. Len(text) > 0 => Len(blocks) > 0
  <2>1. SUFFICES ASSUME Len(text) > 0 PROVE Len(blocks) > 0
    OBVIOUS
  <2>2. 1 \in 1 .. n
    BY <1>2, <2>1
  <2>3. \E c \in 1 .. Len(blocks) : TRUE
    BY <1>4, <2>2, Zenon DEF PiecesCover
  <2>4. Len(blocks) \in Nat
    BY <1>4
  <2> QED
    BY <2>3, <2>4
<1> QED
  BY <1>4, <1>5, <1>6, <1>7 DEF n

-----------------------------------------------------------------------------
(* The blocks of a rank in an epoch *)

TextOf(share, g) == Tokenized(Groups(share)[g])

\* What the packing drops of a group: d counts from the end of its last block.
Rest(share, g, d) == TextOf(share, g)[PackedLength(Len(TextOf(share, g))) + d]

\* The blocks have tokens of the share, and all of them but the rests.
BlocksFrom(blocks, share) ==
    \A b \in 1 .. Len(blocks) : \A k \in 1 .. Len(blocks[b]) :
        \E i \in 1 .. Len(share) : \E y \in 1 .. tokens[share[i]] :
            blocks[b][k] = <<share[i], y>>

AllButRests(blocks, share) ==
    \A i \in 1 .. Len(share) : \A y \in 1 .. tokens[share[i]] :
        \/ \E b \in 1 .. Len(blocks) : \E k \in 1 .. Len(blocks[b]) :
                blocks[b][k] = <<share[i], y>>
        \/ \E g \in 1 .. Len(Groups(share)) : \E d \in 1 .. BlockSize - 1 :
                <<share[i], y>> = Rest(share, g, d)

Blocks(share) ==
    FlattenSeq([g \in 1 .. Len(Groups(share)) |-> pack(TextOf(share, g))])

(* The groups of a share.                                                  *)
LEMMA GroupsAre ==
    ASSUME NEW n \in Nat, NEW share \in Seq(1 .. n), NoneTwice(share),
           NEW groups, groups = Groups(share)
    PROVE  /\ groups \in Seq(Seq(1 .. n)) /\ Apart(groups)
           /\ \A g \in 1 .. Len(groups) : NoneTwice(groups[g]) /\ Len(groups[g]) \in Nat \ {0}
           /\ PiecePlaces(groups, share, MapBatch, Len(share))
           /\ PiecesCover(groups, share, Len(share))
<1>1. MapBatch \in Nat \ {0} /\ Len(share) \in 0 .. Len(share)
  BY DatasetAssumption
<1>2. InPieces(groups, share, MapBatch, Len(share))
  BY Groupings
<1>3. /\ groups \in Seq(Seq(1 .. n))
      /\ \A g \in 1 .. Len(groups) : Len(groups[g]) \in 1 .. MapBatch
      /\ PiecePlaces(groups, share, MapBatch, Len(share))
      /\ PiecesCover(groups, share, Len(share))
  <2> DEFINE S == 1 .. n
  <2> HIDE DEF S
  <2>1. share \in Seq(S)
    BY DEF S
  <2>2. /\ groups \in Seq(Seq(S))
        /\ \A g \in 1 .. Len(groups) : Len(groups[g]) \in 1 .. MapBatch
        /\ PiecePlaces(groups, share, MapBatch, Len(share))
        /\ PiecesCover(groups, share, Len(share))
    BY <1>1, <1>2, <2>1, PiecesAre
  <2> QED
    BY <2>2 DEF S
<1>4. Apart(groups)
  BY <1>1, <1>2, PiecesApart
<1>5. ASSUME NEW g \in 1 .. Len(groups)
      PROVE  NoneTwice(groups[g]) /\ Len(groups[g]) \in Nat \ {0}
  <2>1. NoneTwice(groups[g])
    <3> SUFFICES ASSUME NEW p \in 1 .. Len(groups[g]), NEW q \in 1 .. Len(groups[g]),
                        groups[g][p] = groups[g][q]
                 PROVE  p = q
      BY Zenon DEF NoneTwice
    <3> QED
      BY <1>4, SMTT(30) DEF Apart
  <2>2. Len(groups[g]) \in Nat \ {0}
    BY <1>1, <1>3
  <2> QED
    BY <2>1, <2>2
<1> QED
  BY <1>3, <1>4, <1>5

(* The texts of a share's groups have no token in common.                  *)
LEMMA TextsAre ==
    ASSUME NEW n \in Nat, TokenCounts(n), NEW share \in Seq(1 .. n), NoneTwice(share)
    PROVE  /\ \A g \in 1 .. Len(Groups(share)) :
                /\ TextOf(share, g) \in Seq(Nat \X Nat) /\ NoneTwice(TextOf(share, g))
                /\ TextHas(TextOf(share, g), Groups(share)[g])
                /\ TextCovers(TextOf(share, g), Groups(share)[g])
                /\ Len(TextOf(share, g)) \in Nat \ {0}
           /\ \A g, h \in 1 .. Len(Groups(share)) :
                \A p \in 1 .. Len(TextOf(share, g)) : \A q \in 1 .. Len(TextOf(share, h)) :
                    TextOf(share, g)[p] = TextOf(share, h)[q] => g = h /\ p = q
<1> DEFINE groups == Groups(share)
<1>1. /\ groups \in Seq(Seq(1 .. n)) /\ Apart(groups)
      /\ \A g \in 1 .. Len(groups) : NoneTwice(groups[g]) /\ Len(groups[g]) \in Nat \ {0}
  BY GroupsAre
<1> HIDE DEF groups
<1>2. ASSUME NEW g \in 1 .. Len(groups)
      PROVE  /\ TextOf(share, g) \in Seq(Nat \X Nat) /\ NoneTwice(TextOf(share, g))
             /\ TextHas(TextOf(share, g), groups[g])
             /\ TextCovers(TextOf(share, g), groups[g])
             /\ Len(TextOf(share, g)) \in Nat \ {0}
  <2> DEFINE text == TextOf(share, g)
             group == groups[g]
  <2>1. text = Tokenized(group)
    BY DEF TextOf, groups
  <2>2. group \in Seq(1 .. n) /\ NoneTwice(group) /\ Len(group) \in Nat \ {0}
    BY <1>1
  <2> HIDE DEF text, group
  <2>3. /\ text \in Seq(Nat \X Nat) /\ NoneTwice(text)
        /\ TextHas(text, group) /\ TextCovers(text, group)
    BY <2>1, <2>2, TextIs
  <2>4. Len(text) \in Nat \ {0}
    <3>1. 1 \in 1 .. Len(group) /\ group[1] \in 1 .. n
      BY <2>2
    <3>2. 1 \in 1 .. tokens[group[1]]
      BY <3>1 DEF TokenCounts
    <3>3. \E p \in 1 .. Len(text) : TRUE
      BY <2>3, <3>1, <3>2, Zenon DEF TextCovers
    <3>4. Len(text) \in Nat
      BY <2>3
    <3> QED
      BY <3>3, <3>4
  <2> QED
    BY <2>3, <2>4 DEF text, group
<1>3. ASSUME NEW g \in 1 .. Len(groups), NEW h \in 1 .. Len(groups),
             NEW p \in 1 .. Len(TextOf(share, g)), NEW q \in 1 .. Len(TextOf(share, h)),
             TextOf(share, g)[p] = TextOf(share, h)[q]
      PROVE  g = h /\ p = q
  <2>1. PICK i \in 1 .. Len(groups[g]) : \E k \in 1 .. tokens[groups[g][i]] :
                TextOf(share, g)[p] = <<groups[g][i], k>>
    BY <1>2, Zenon DEF TextHas
  <2>2. PICK k \in 1 .. tokens[groups[g][i]] : TextOf(share, g)[p] = <<groups[g][i], k>>
    BY <2>1, Zenon
  <2>3. PICK j \in 1 .. Len(groups[h]) : \E l \in 1 .. tokens[groups[h][j]] :
                TextOf(share, h)[q] = <<groups[h][j], l>>
    BY <1>2, Zenon DEF TextHas
  <2>4. PICK l \in 1 .. tokens[groups[h][j]] : TextOf(share, h)[q] = <<groups[h][j], l>>
    BY <2>3, Zenon
  <2>5. <<groups[g][i], k>> = <<groups[h][j], l>>
    BY <1>3, <2>2, <2>4, Zenon
  <2>6. groups[g][i] = groups[h][j]
    BY <2>5
  <2>7. g = h
    BY <1>1, <2>6, Zenon DEF Apart
  <2>8. p = q
    BY <1>2, <1>3, <2>7, Zenon DEF NoneTwice
  <2> QED
    BY <2>7, <2>8
<1> QED
  BY <1>2, <1>3, Zenon DEF groups

(* What load_dataset makes of a share.                                     *)
LEMMA BlocksAre ==
    ASSUME NEW n \in Nat, TokenCounts(n), NEW share \in Seq(1 .. n), NoneTwice(share),
           NEW blocks, blocks = Blocks(share)
    PROVE  /\ blocks \in Seq(Seq(Nat \X Nat)) /\ Apart(blocks)
           /\ \A b \in 1 .. Len(blocks) : Len(blocks[b]) \in Nat \ {0}
           /\ BlocksFrom(blocks, share) /\ AllButRests(blocks, share)
           /\ Len(share) > 0 => Len(blocks) > 0
<1> DEFINE T == Nat \X Nat
           m == Len(Groups(share))
           packs == [g \in 1 .. m |-> pack(TextOf(share, g))]
           text(g) == TextOf(share, g)
           kept(g) == PackedLength(Len(text(g)))
<1>1. /\ Groups(share) \in Seq(Seq(1 .. n))
      /\ PiecePlaces(Groups(share), share, MapBatch, Len(share))
      /\ PiecesCover(Groups(share), share, Len(share))
  BY GroupsAre
<1>2. m \in Nat
  BY <1>1
<1>3. ASSUME NEW g \in 1 .. m
      PROVE  /\ text(g) \in Seq(T) /\ NoneTwice(text(g)) /\ Len(text(g)) \in Nat \ {0}
             /\ TextHas(text(g), Groups(share)[g])
             /\ TextCovers(text(g), Groups(share)[g])
             /\ packs[g] = pack(text(g))
  BY TextsAre
<1>4. ASSUME NEW g \in 1 .. m
      PROVE  /\ packs[g] \in Seq(Seq(T)) /\ Apart(packs[g])
             /\ \A b \in 1 .. Len(packs[g]) : Len(packs[g][b]) \in Nat \ {0}
             /\ PiecePlaces(packs[g], text(g), BlockSize, kept(g))
             /\ PiecesCover(packs[g], text(g), kept(g))
             /\ Len(packs[g]) > 0
  <2> DEFINE t == TextOf(share, g)
             p == packs[g]
  <2>1. t \in Seq(T) /\ NoneTwice(t) /\ Len(t) \in Nat \ {0} /\ p = pack(t)
    BY <1>3
  <2>2. Len(t) > 0
    BY <2>1
  <2> HIDE DEF t, p, T
  <2>3. /\ p \in Seq(Seq(T)) /\ Apart(p)
        /\ \A b \in 1 .. Len(p) : Len(p[b]) \in Nat \ {0}
        /\ PiecePlaces(p, t, BlockSize, PackedLength(Len(t)))
        /\ PiecesCover(p, t, PackedLength(Len(t)))
        /\ Len(p) > 0
    BY <2>1, <2>2, PackIs
  <2> QED
    BY <2>3 DEF t, p
<1>5. packs \in Seq(Seq(Seq(T))) /\ Len(packs) = m
  <2>1. packs \in [1 .. m -> Seq(Seq(T))]
    BY <1>4, Zenon
  <2> HIDE DEF packs, T, m
  <2> QED
    BY <1>2, <2>1
<1>6. blocks = FlattenSeq(packs)
  BY Zenon DEF Blocks
<1> HIDE DEF packs, T, m
<1>7. blocks \in Seq(Seq(T)) /\ AllPlaced(blocks, packs) /\ OwnPlaces(blocks, packs)
  <2> DEFINE S == Seq(T)
  <2>1. packs \in Seq(Seq(S))
    BY <1>5
  <2> HIDE DEF S
  <2>2. blocks \in Seq(S) /\ AllPlaced(blocks, packs) /\ OwnPlaces(blocks, packs)
    BY <1>6, <2>1, Flattening
  <2> QED
    BY <2>2 DEF S
<1>8. \A b \in 1 .. Len(blocks) : \E g \in 1 .. m : \E u \in 1 .. Len(packs[g]) :
            blocks[b] = packs[g][u]
  BY <1>5, <1>7, ZenonT(60) DEF OwnPlaces
<1>9. \A b \in 1 .. Len(blocks) : Len(blocks[b]) \in Nat \ {0}
  <2> SUFFICES ASSUME NEW b \in 1 .. Len(blocks) PROVE Len(blocks[b]) \in Nat \ {0}
    OBVIOUS
  <2>1. PICK g \in 1 .. m : \E u \in 1 .. Len(packs[g]) : blocks[b] = packs[g][u]
    BY <1>8
  <2>2. PICK u \in 1 .. Len(packs[g]) : blocks[b] = packs[g][u]
    BY <2>1
  <2> QED
    BY <1>4, <2>2, Zenon
<1>10. ASSUME NEW g \in 1 .. m, NEW u \in 1 .. Len(packs[g]), NEW k \in 1 .. Len(packs[g][u])
       PROVE  \E p \in 1 .. Len(text(g)) : packs[g][u][k] = text(g)[p]
  <2>1. kept(g) \in 0 .. Len(text(g)) /\ Len(text(g)) \in Nat
    <3>1. Len(text(g)) \in Nat
      BY <1>3, Zenon
    <3> QED
      BY <3>1, Kept
  <2> DEFINE x == (u - 1) * BlockSize + k
  <2>2. x \in 1 .. kept(g) /\ packs[g][u][k] = text(g)[x]
    BY <1>4, Zenon DEF PiecePlaces
  <2> HIDE DEF x
  <2>3. x \in 1 .. Len(text(g))
    BY <2>1, <2>2
  <2> QED
    BY <2>2, <2>3, Zenon
<1>11. Apart(blocks)
  <2> SUFFICES ASSUME NEW b \in 1 .. Len(blocks), NEW c \in 1 .. Len(blocks),
                      NEW k \in 1 .. Len(blocks[b]), NEW l \in 1 .. Len(blocks[c]),
                      blocks[b][k] = blocks[c][l]
               PROVE  b = c /\ k = l
    BY Zenon DEF Apart
  <2>1. PICK g, h \in 1 .. Len(packs) :
                \E u \in 1 .. Len(packs[g]) : \E v \in 1 .. Len(packs[h]) :
                    /\ blocks[b] = packs[g][u] /\ blocks[c] = packs[h][v]
                    /\ g = h /\ u = v => b = c
    BY <1>7, Zenon DEF OwnPlaces
  <2>2. PICK u \in 1 .. Len(packs[g]) : \E v \in 1 .. Len(packs[h]) :
                    /\ blocks[b] = packs[g][u] /\ blocks[c] = packs[h][v]
                    /\ g = h /\ u = v => b = c
    BY <2>1, Zenon
  <2>3. PICK v \in 1 .. Len(packs[h]) :
                    /\ blocks[b] = packs[g][u] /\ blocks[c] = packs[h][v]
                    /\ g = h /\ u = v => b = c
    BY <2>2, Zenon
  <2>4. g \in 1 .. m /\ h \in 1 .. m /\ k \in 1 .. Len(packs[g][u]) /\ l \in 1 .. Len(packs[h][v])
    BY <1>5, <2>3, Zenon
  <2>5. PICK p \in 1 .. Len(text(g)) : packs[g][u][k] = text(g)[p]
    BY <1>10, <2>4
  <2>6. PICK q \in 1 .. Len(text(h)) : packs[h][v][l] = text(h)[q]
    BY <1>10, <2>4
  <2>7. packs[g][u][k] = packs[h][v][l]
    BY <2>3, Zenon
  <2>8. g = h
    <3>1. text(g)[p] = text(h)[q]
      BY <2>5, <2>6, <2>7, Zenon
    <3> QED
      BY <2>4, <3>1, TextsAre DEF m
  <2>9. u = v /\ k = l
    <3>1. v \in 1 .. Len(packs[g]) /\ l \in 1 .. Len(packs[g][v]) /\ packs[g][u][k] = packs[g][v][l]
      BY <2>4, <2>7, <2>8, Zenon
    <3> DEFINE pack_g == packs[g]
    <3>2. /\ Apart(pack_g) /\ u \in 1 .. Len(pack_g) /\ k \in 1 .. Len(pack_g[u])
          /\ v \in 1 .. Len(pack_g) /\ l \in 1 .. Len(pack_g[v]) /\ pack_g[u][k] = pack_g[v][l]
      BY <1>4, <2>2, <2>4, <3>1, Zenon
    <3> HIDE DEF pack_g
    <3>3. \A x \in 1 .. Len(pack_g[u]) : \A y \in 1 .. Len(pack_g[v]) :
            pack_g[u][x] = pack_g[v][y] => u = v /\ x = y
      BY <3>2, Zenon DEF Apart
    <3> QED
      BY <3>2, <3>3, Zenon
  <2> QED
    BY <2>3, <2>8, <2>9
<1>12. ASSUME NEW g \in 1 .. m, NEW j \in 1 .. Len(Groups(share)[g])
       PROVE  \E i \in 1 .. Len(share) : Groups(share)[g][j] = share[i]
  BY Zenon, <1>1 DEF PiecePlaces, m
<1>13. BlocksFrom(blocks, share)
  <2> SUFFICES ASSUME NEW b \in 1 .. Len(blocks), NEW k \in 1 .. Len(blocks[b])
               PROVE  \E i \in 1 .. Len(share) : \E y \in 1 .. tokens[share[i]] :
                            blocks[b][k] = <<share[i], y>>
    BY Zenon DEF BlocksFrom
  <2>1. PICK g \in 1 .. m : \E u \in 1 .. Len(packs[g]) : blocks[b] = packs[g][u]
    BY <1>8
  <2>2. PICK u \in 1 .. Len(packs[g]) : blocks[b] = packs[g][u]
    BY <2>1
  <2>3. PICK p \in 1 .. Len(text(g)) : blocks[b][k] = text(g)[p]
    <3>1. k \in 1 .. Len(packs[g][u]) /\ blocks[b][k] = packs[g][u][k]
      BY <2>2, Zenon
    <3> QED
      BY <1>10, <3>1
  <2>4. PICK j \in 1 .. Len(Groups(share)[g]) : \E y \in 1 .. tokens[Groups(share)[g][j]] :
                text(g)[p] = <<Groups(share)[g][j], y>>
    BY <1>3, Zenon DEF TextHas
  <2>5. PICK i \in 1 .. Len(share) : Groups(share)[g][j] = share[i]
    BY <1>12
  <2> QED
    BY <2>3, <2>4, <2>5, Zenon
<1>14. AllButRests(blocks, share)
  <2> SUFFICES ASSUME NEW i \in 1 .. Len(share), NEW y \in 1 .. tokens[share[i]]
               PROVE  \/ \E b \in 1 .. Len(blocks) : \E k \in 1 .. Len(blocks[b]) :
                            blocks[b][k] = <<share[i], y>>
                      \/ \E g \in 1 .. m : \E d \in 1 .. BlockSize - 1 :
                            <<share[i], y>> = Rest(share, g, d)
    BY Zenon DEF AllButRests, m
  <2>1. PICK g \in 1 .. m : \E j \in 1 .. Len(Groups(share)[g]) : Groups(share)[g][j] = share[i]
    BY <1>1, Zenon DEF PiecesCover, m
  <2>2. PICK j \in 1 .. Len(Groups(share)[g]) : Groups(share)[g][j] = share[i]
    BY <2>1, Zenon
  <2>3. PICK p \in 1 .. Len(text(g)) : text(g)[p] = <<share[i], y>>
    <3>1. y \in 1 .. tokens[Groups(share)[g][j]]
      BY <2>2, Zenon
    <3>2. \E p \in 1 .. Len(text(g)) : text(g)[p] = <<Groups(share)[g][j], y>>
      BY <1>3, <3>1, Zenon DEF TextCovers
    <3> QED
      BY <2>2, <3>2, Zenon
  <2>4. /\ kept(g) \in 0 .. Len(text(g)) /\ Len(text(g)) \in Nat
        /\ Len(text(g)) - kept(g) <= BlockSize - 1
    <3>1. Len(text(g)) \in Nat
      BY <1>3, Zenon
    <3> QED
      BY <3>1, Kept
  <2>5. CASE p <= kept(g)
    <3>1. p \in 1 .. kept(g)
      BY <2>4, <2>5
    <3>2. PICK u \in 1 .. Len(packs[g]) : \E k \in 1 .. Len(packs[g][u]) :
                packs[g][u][k] = text(g)[p]
      BY <1>4, <3>1, Zenon DEF PiecesCover
    <3>3. PICK k \in 1 .. Len(packs[g][u]) : packs[g][u][k] = text(g)[p]
      BY <3>2, Zenon
    <3>4. PICK b \in 1 .. Len(blocks) : blocks[b] = packs[g][u]
      BY <1>5, <1>7, Zenon DEF AllPlaced
    <3> QED
      BY <2>3, <3>3, <3>4, Zenon
  <2>6. CASE ~(p <= kept(g))
    <3> DEFINE d == p - kept(g)
    <3>1. BlockSize \in Nat \ {0}
      BY DatasetAssumption
    <3>2. d \in 1 .. BlockSize - 1 /\ kept(g) + d = p
      BY <2>4, <2>6, <3>1, SMTT(60)
    <3> HIDE DEF d
    <3>3. <<share[i], y>> = Rest(share, g, d)
      BY <2>3, <3>2, Zenon DEF Rest
    <3> QED
      BY <3>2, <3>3, Zenon
  <2> QED
    BY <2>5, <2>6
<1>15. Len(share) > 0 => Len(blocks) > 0
  <2>1. SUFFICES ASSUME Len(share) > 0 PROVE Len(blocks) > 0
    OBVIOUS
  <2>2. 1 \in 1 .. Len(share)
    BY <2>1
  <2>3. PICK g \in 1 .. m : TRUE
    BY <1>1, <2>2, Zenon DEF PiecesCover, m
  <2>4. 1 \in 1 .. Len(packs[g])
    BY <1>4
  <2>5. \E b \in 1 .. Len(blocks) : TRUE
    BY <1>5, <1>7, <2>4, Zenon DEF AllPlaced
  <2>6. Len(blocks) \in Nat
    BY <1>7
  <2> QED
    BY <2>5, <2>6
<1> QED
  BY <1>7, <1>9, <1>11, <1>13, <1>14, <1>15 DEF T

-----------------------------------------------------------------------------
(* The batches of a rank in an epoch *)

(* The dataset and the two orders of its examples.                         *)
DataFixed ==
    \E n \in Nat \ {0} : /\ tokens \in [1 .. n -> 1 .. MaxTokens]
                         /\ order \in [{0, 1} -> Orders(n)]

Share(r, e) == Split(Shuffled(r, e), r)

(* The share of a rank in an epoch, for load_dataset.                      *)
LEMMA ShareOf ==
    ASSUME DataFixed, NEW r \in Loaders, NEW e \in Nat
    PROVE  /\ Len(tokens) \in Nat \ {0} /\ TokenCounts(Len(tokens))
           /\ Shuffled(r, e) \in [1 .. Len(tokens) -> 1 .. Len(tokens)]
           /\ NoneTwice(Shuffled(r, e))
           /\ Share(r, e) \in Seq(1 .. Len(tokens)) /\ NoneTwice(Share(r, e))
           /\ load_dataset(r, e) = Blocks(Share(r, e))
           /\ r < Len(tokens) => Len(Share(r, e)) > 0
           /\ Len(Share(r, e)) \in Nat
<1> DEFINE n == Len(tokens)
           s == Shuffled(r, e)
<1>1. PICK m \in Nat \ {0} : /\ tokens \in [1 .. m -> 1 .. MaxTokens]
                             /\ order \in [{0, 1} -> Orders(m)]
  BY DEF DataFixed
<1>2. n = m
  BY <1>1
<1>3. TokenCounts(n)
  BY <1>1, <1>2, DatasetAssumption DEF TokenCounts
<1>4. s \in Orders(n)
  <2>1. e % 2 \in {0, 1}
    OBVIOUS
  <2> QED
    BY <1>1, <1>2, <2>1 DEF Shuffled
<1> HIDE DEF n, s
<1>5. s \in [1 .. n -> 1 .. n] /\ \A i, j \in 1 .. n : s[i] = s[j] => i = j
  BY <1>4, Zenon DEF Orders
<1>6. n \in Nat /\ Len(s) = n
  BY <1>1, <1>2, <1>5
<1>7. NoneTwice(s)
  BY <1>5, <1>6, Zenon DEF NoneTwice
<1>8. /\ Split(s, r) \in Seq(1 .. n)
      /\ r < n => 1 <= Len(Split(s, r))
  BY <1>5, <1>6, ShareIs
<1>9. NoneTwice(Split(s, r))
  <2> SUFFICES ASSUME NEW k \in 1 .. Len(Split(s, r)), NEW l \in 1 .. Len(Split(s, r)),
                      Split(s, r)[k] = Split(s, r)[l]
               PROVE  k = l
    BY Zenon DEF NoneTwice
  <2> QED
    BY <1>5, <1>6, <1>7, SharesApart
<1>10. load_dataset(r, e) = Blocks(Share(r, e))
  BY Zenon DEF load_dataset, Blocks, TextOf, Share
<1>11. Len(Split(s, r)) \in Nat
  BY <1>8
<1> QED
  BY <1>1, <1>2, <1>3, <1>5, <1>7, <1>8, <1>9, <1>10, <1>11, SMTT(60) DEF n, s, Share

\* Its blocks.
LoadIs(blocks, share) ==
    /\ blocks \in Seq(Seq(Nat \X Nat)) /\ Apart(blocks)
    /\ \A b \in 1 .. Len(blocks) : Len(blocks[b]) \in Nat \ {0}
    /\ BlocksFrom(blocks, share) /\ AllButRests(blocks, share)
    /\ Len(share) > 0 => Len(blocks) > 0

(* What load_dataset loads.                                                *)
LEMMA Loaded ==
    ASSUME DataFixed, NEW r \in Loaders, NEW e \in Nat
    PROVE  LoadIs(load_dataset(r, e), Share(r, e))
<1> DEFINE n == Len(tokens)
           share == Share(r, e)
           blocks == load_dataset(r, e)
<1>1. n \in Nat /\ TokenCounts(n) /\ share \in Seq(1 .. n) /\ NoneTwice(share)
      /\ blocks = Blocks(share)
  BY ShareOf
<1> HIDE DEF n, share, blocks
<1>2. LoadIs(blocks, share)
  BY <1>1, BlocksAre DEF LoadIs
<1> QED
  BY <1>2 DEF share, blocks

(* A token of a batch is in one of its blocks.                             *)
LEMMA TokensAre ==
    ASSUME NEW batch, NEW x
    PROVE  x \in TokensOf(batch)
                <=> \E i \in 1 .. Len(batch) : \E k \in 1 .. Len(batch[i]) : x = batch[i][k]
<1> DEFINE m == 1 .. Len(batch)
           d(i) == 1 .. Len(batch[i])
<1> HIDE DEF m, d
<1>1. TokensOf(batch) = UNION {{batch[i][k] : k \in d(i)} : i \in m}
  BY Zenon DEF TokensOf, m, d
<1>2. x \in TokensOf(batch) <=> \E i \in m : \E k \in d(i) : x = batch[i][k]
  BY <1>1
<1> QED
  BY <1>2, Zenon DEF m, d

BatchTokens(blocks, k) == TokensOf(Batch(blocks, k))

(* The batches are nonempty, share no token and have all that is in the    *)
(* blocks, and nothing else.                                               *)
LEMMA BatchesAre ==
    ASSUME NEW blocks \in Seq(Seq(Nat \X Nat)), Apart(blocks),
           \A b \in 1 .. Len(blocks) : Len(blocks[b]) \in Nat \ {0}
    PROVE  /\ Batches(blocks) \in Nat /\ (Len(blocks) > 0 => Batches(blocks) > 0)
           /\ \A k \in 1 .. Batches(blocks) : Batch(blocks, k) # <<>>
           /\ \A k, l \in 1 .. Batches(blocks) :
                k # l => BatchTokens(blocks, k) \cap BatchTokens(blocks, l) = {}
           /\ \A k \in 1 .. Batches(blocks) : \A x \in BatchTokens(blocks, k) :
                \E b \in 1 .. Len(blocks) : \E i \in 1 .. Len(blocks[b]) : x = blocks[b][i]
           /\ \A b \in 1 .. Len(blocks) : \A i \in 1 .. Len(blocks[b]) :
                \E k \in 1 .. Batches(blocks) : blocks[b][i] \in BatchTokens(blocks, k)
<1> DEFINE T == Seq(Nat \X Nat)
           n == Len(blocks)
           batches == [k \in 1 .. Batches(blocks) |-> Batch(blocks, k)]
<1>1. BatchSize \in Nat \ {0} /\ n \in Nat /\ n \in 0 .. n
  BY DatasetAssumption
<1>2. InPieces(batches, blocks, BatchSize, n)
  BY Zenon DEF InPieces, Batches, Batch, Portion, PortionCount
<1>3. NoneTwice(blocks)
  <2> SUFFICES ASSUME NEW b \in 1 .. n, NEW c \in 1 .. n, blocks[b] = blocks[c]
               PROVE  b = c
    BY Zenon DEF NoneTwice
  <2>1. 1 \in 1 .. Len(blocks[b]) /\ 1 \in 1 .. Len(blocks[c]) /\ blocks[b][1] = blocks[c][1]
    OBVIOUS
  <2> QED
    BY <2>1, Zenon DEF Apart
<1>4. \A k \in 1 .. Batches(blocks) : batches[k] = Batch(blocks, k)
  OBVIOUS
<1> HIDE DEF T, batches, n
<1>5. /\ batches \in Seq(Seq(T)) /\ Len(batches) = PortionCount(n, BatchSize)
      /\ \A k \in 1 .. Len(batches) : Len(batches[k]) \in 1 .. BatchSize
      /\ PiecePlaces(batches, blocks, BatchSize, n)
      /\ PiecesCover(batches, blocks, n)
      /\ Apart(batches)
  <2>1. blocks \in Seq(T) /\ n \in 0 .. Len(blocks)
    BY <1>1 DEF T, n
  <2> QED
    BY <1>1, <1>2, <1>3, <2>1, PiecesAre, PiecesApart
<1>6. Len(batches) = Batches(blocks) /\ Batches(blocks) \in Nat
  <2>1. Batches(blocks) = PortionCount(n, BatchSize)
    BY Zenon DEF Batches, PortionCount, n
  <2>2. Len(batches) \in Nat
    BY <1>5
  <2> QED
    BY <1>5, <2>1, <2>2
<1>7. n > 0 => Batches(blocks) > 0
  <2>1. SUFFICES ASSUME n > 0 PROVE Batches(blocks) > 0
    OBVIOUS
  <2>2. 1 \in 1 .. n
    BY <1>1, <2>1
  <2>3. \E k \in 1 .. Len(batches) : TRUE
    BY <1>5, <2>2, Zenon DEF PiecesCover
  <2> QED
    BY <1>6, <2>3
<1>8. \A k \in 1 .. Batches(blocks) : Batch(blocks, k) # <<>>
  <2> SUFFICES ASSUME NEW k \in 1 .. Batches(blocks), Batch(blocks, k) = <<>> PROVE FALSE
    OBVIOUS
  <2>1. Len(batches[k]) \in 1 .. BatchSize /\ batches[k] = <<>>
    BY <1>4, <1>5, <1>6
  <2> QED
    BY <1>1, <2>1
<1>9. ASSUME NEW k \in 1 .. Batches(blocks), NEW x \in BatchTokens(blocks, k)
      PROVE  \E j \in 1 .. Len(batches[k]) : \E b \in 1 .. n : \E i \in 1 .. Len(blocks[b]) :
                batches[k][j] = blocks[b] /\ x = blocks[b][i]
  <2>1. PICK j \in 1 .. Len(batches[k]) : \E i \in 1 .. Len(batches[k][j]) : x = batches[k][j][i]
    <3> DEFINE batch == batches[k]
    <3>1. x \in TokensOf(batch)
      BY <1>4, Zenon DEF BatchTokens
    <3> HIDE DEF batch
    <3>2. \E j \in 1 .. Len(batch) : \E i \in 1 .. Len(batch[j]) : x = batch[j][i]
      BY <3>1, TokensAre
    <3> QED
      BY <3>2 DEF batch
  <2>2. \E b \in 1 .. n : batches[k][j] = blocks[b]
    BY <1>5, <1>6, Zenon DEF PiecePlaces
  <2>3. PICK b \in 1 .. n : batches[k][j] = blocks[b]
    BY <2>2
  <2> QED
    BY <2>1, <2>3, Zenon
<1>10. ASSUME NEW k \in 1 .. Batches(blocks), NEW l \in 1 .. Batches(blocks),
              NEW x, x \in BatchTokens(blocks, k), x \in BatchTokens(blocks, l)
       PROVE  k = l
  <2>1. PICK j \in 1 .. Len(batches[k]), b \in 1 .. n :
            \E i \in 1 .. Len(blocks[b]) : batches[k][j] = blocks[b] /\ x = blocks[b][i]
    BY <1>9, <1>10, Zenon
  <2>2. PICK i \in 1 .. Len(blocks[b]) : batches[k][j] = blocks[b] /\ x = blocks[b][i]
    BY <2>1
  <2>3. PICK u \in 1 .. Len(batches[l]), c \in 1 .. n :
            \E v \in 1 .. Len(blocks[c]) : batches[l][u] = blocks[c] /\ x = blocks[c][v]
    BY <1>9, <1>10, Zenon
  <2>4. PICK v \in 1 .. Len(blocks[c]) : batches[l][u] = blocks[c] /\ x = blocks[c][v]
    BY <2>3
  <2>5. b = c
    <3>1. blocks[b][i] = blocks[c][v]
      BY <2>2, <2>4, Zenon
    <3>2. \A y \in 1 .. Len(blocks[b]) : \A z \in 1 .. Len(blocks[c]) :
            blocks[b][y] = blocks[c][z] => b = c /\ y = z
      BY Zenon DEF Apart, n
    <3> QED
      BY <3>1, <3>2, Zenon
  <2>6. batches[k][j] = batches[l][u]
    BY <2>2, <2>4, <2>5, Zenon
  <2>7. \A y \in 1 .. Len(batches[k]) : \A z \in 1 .. Len(batches[l]) :
            batches[k][y] = batches[l][z] => k = l /\ y = z
    BY <1>5, <1>6, Zenon DEF Apart
  <2> QED
    BY <2>6, <2>7, Zenon
<1>11. ASSUME NEW b \in 1 .. n, NEW i \in 1 .. Len(blocks[b])
       PROVE  \E k \in 1 .. Batches(blocks) : blocks[b][i] \in BatchTokens(blocks, k)
  <2>1. PICK k \in 1 .. Batches(blocks) : \E j \in 1 .. Len(batches[k]) : batches[k][j] = blocks[b]
    BY <1>5, <1>6, Zenon DEF PiecesCover
  <2>2. PICK j \in 1 .. Len(batches[k]) : batches[k][j] = blocks[b]
    BY <2>1
  <2>3. batches[k] = Batch(blocks, k)
    BY <1>4
  <2>4. blocks[b][i] \in TokensOf(Batch(blocks, k))
    <3>1. blocks[b][i] \in TokensOf(batches[k])
      BY <2>2, TokensAre, Zenon
    <3> QED
      BY <2>3, <3>1, Zenon
  <2> QED
    BY <2>4, Zenon DEF BatchTokens
<1>12. \A k, l \in 1 .. Batches(blocks) :
            k # l => BatchTokens(blocks, k) \cap BatchTokens(blocks, l) = {}
  BY <1>10, Zenon
<1>13. \A k \in 1 .. Batches(blocks) : \A x \in BatchTokens(blocks, k) :
            \E b \in 1 .. n : \E i \in 1 .. Len(blocks[b]) : x = blocks[b][i]
  <2> SUFFICES ASSUME NEW k \in 1 .. Batches(blocks), NEW x \in BatchTokens(blocks, k)
               PROVE  \E b \in 1 .. n : \E i \in 1 .. Len(blocks[b]) : x = blocks[b][i]
    OBVIOUS
  <2>1. PICK j \in 1 .. Len(batches[k]) : \E b \in 1 .. n : \E i \in 1 .. Len(blocks[b]) :
                batches[k][j] = blocks[b] /\ x = blocks[b][i]
    BY <1>9, Zenon
  <2> QED
    BY <2>1, Zenon
<1> QED
  BY <1>6, <1>7, <1>8, <1>11, <1>12, <1>13 DEF n

-----------------------------------------------------------------------------
(* What has been trained on *)

BatchRecord(r, e, k) ==
    [rank |-> r, epoch |-> e, number |-> k, batch |-> Batch(load_dataset(r, e), k)]

\* What was trained on is batches of the ranks, and all batches up to the one that
\* each rank had last.  A rank is in no later epoch than it has taken batches, and
\* it starves only when there are fewer examples than ranks.
FromTheLoaders ==
    \A t \in trained : \E r \in Loaders : \E e \in 0 .. epoch[r] :
        \E k \in 1 .. Batches(load_dataset(r, e)) : t = BatchRecord(r, e, k)

NoneLeftOut ==
    \A r \in Loaders : \A e \in 0 .. epoch[r] : \A k \in 1 .. Batches(load_dataset(r, e)) :
        e < epoch[r] \/ k <= next[r] => BatchRecord(r, e, k) \in trained

DataInv ==
    /\ DataFixed
    /\ DataTypeOK
    /\ \A r \in Loaders : epoch[r] <= taken
    /\ failed = "stop_iteration" => Len(tokens) < World
    /\ FromTheLoaders
    /\ NoneLeftOut

(* The batches of a rank in an epoch.                                      *)
LEMMA LoadedBatches ==
    ASSUME DataFixed, NEW r \in Loaders, NEW e \in Nat
    PROVE  /\ Batches(load_dataset(r, e)) \in Nat
           /\ World <= Len(tokens) => Batches(load_dataset(r, e)) > 0
           /\ \A k \in 1 .. Batches(load_dataset(r, e)) : Batch(load_dataset(r, e), k) # <<>>
<1> DEFINE blocks == load_dataset(r, e)
           share == Share(r, e)
<1>1. LoadIs(blocks, share) /\ (r < Len(tokens) => Len(share) > 0)
  BY Loaded, ShareOf
<1> HIDE DEF blocks, share
<1>2. /\ Batches(blocks) \in Nat /\ (Len(blocks) > 0 => Batches(blocks) > 0)
      /\ \A k \in 1 .. Batches(blocks) : Batch(blocks, k) # <<>>
  BY <1>1, BatchesAre DEF LoadIs
<1>3. World <= Len(tokens) => r < Len(tokens)
  <2>1. Len(tokens) \in Nat
    BY ShareOf
  <2> QED
    BY <2>1, DatasetAssumption DEF Loaders
<1>4. World <= Len(tokens) => Batches(blocks) > 0
  BY <1>1, <1>2, <1>3 DEF LoadIs
<1> QED
  BY <1>2, <1>4 DEF blocks

(* The dataset does not change.                                            *)
LEMMA SameLoad ==
    ASSUME UNCHANGED <<tokens, order>>
    PROVE  /\ \A r, e : load_dataset(r, e)' = load_dataset(r, e)
           /\ \A r, e, k : BatchRecord(r, e, k)' = BatchRecord(r, e, k)
<1>1. \A r, e : load_dataset(r, e)' = load_dataset(r, e)
  BY DEF load_dataset, Shuffled, Tokenized
<1>2. \A r, e, k : BatchRecord(r, e, k)' = BatchRecord(r, e, k)
  BY <1>1 DEF BatchRecord
<1> QED
  BY <1>1, <1>2

(* The dataset and its orders at the start.                                *)
LEMMA DataAtFirst == DataInit => DataInv
<1> SUFFICES ASSUME DataInit PROVE DataInv
  OBVIOUS
<1>1. DataFixed
  <2>1. PICK n \in 1 .. MaxExamples :
            /\ tokens \in [1 .. n -> 1 .. MaxTokens]
            /\ order \in {[e \in {0, 1} |-> IF e = 0 THEN [i \in 1 .. n |-> i] ELSE p]
                            : p \in Orders(n)}
    BY DEF DataInit
  <2>2. [i \in 1 .. n |-> i] \in Orders(n)
    BY DEF Orders
  <2>3. order \in [{0, 1} -> Orders(n)]
    BY <2>1, <2>2
  <2>4. n \in Nat \ {0}
    BY DatasetAssumption
  <2> QED
    BY <2>1, <2>3, <2>4 DEF DataFixed
<1>2. /\ epoch = [r \in Loaders |-> 0] /\ next = [r \in Loaders |-> 0]
      /\ trained = {} /\ taken = 0 /\ failed = "no"
  BY DEF DataInit
<1>3. DataTypeOK
  <2>1. \A r \in Loaders : Batches(load_dataset(r, 0)) \in Nat
    BY <1>1, LoadedBatches
  <2>2. \A r \in Loaders : next[r] <= Batches(load_dataset(r, epoch[r]))
    BY <1>2, <2>1
  <2>3. epoch \in [Loaders -> Epochs] /\ next \in [Loaders -> Nat] /\ taken \in 0 .. MaxBatches
    BY <1>2, DatasetAssumption DEF Epochs
  <2> QED
    BY <1>2, <2>2, <2>3, Zenon DEF DataTypeOK
<1>4. FromTheLoaders
  BY <1>2, Zenon DEF FromTheLoaders
<1>5. NoneLeftOut
  <2> SUFFICES ASSUME NEW r \in Loaders, NEW e \in 0 .. epoch[r],
                      NEW k \in 1 .. Batches(load_dataset(r, e)),
                      e < epoch[r] \/ k <= next[r]
               PROVE  FALSE
    BY Zenon DEF NoneLeftOut
  <2> QED
    BY <1>2
<1>6. \A r \in Loaders : epoch[r] <= taken
  BY <1>2
<1>7. failed # "stop_iteration"
  BY <1>2
<1> QED
  BY <1>1, <1>3, <1>4, <1>5, <1>6, <1>7 DEF DataInv

(* One training step.                                                      *)
LEMMA StepKeeps == DataInv /\ Step => DataInv'
<1> SUFFICES ASSUME DataInv, Step PROVE DataInv'
  OBVIOUS
<1>1. /\ DataFixed /\ DataTypeOK /\ (\A r \in Loaders : epoch[r] <= taken)
      /\ FromTheLoaders /\ NoneLeftOut
      /\ (failed = "stop_iteration" => Len(tokens) < World)
  BY DEF DataInv
<1>2. /\ \A r \in Loaders : HasBatch(r)
      /\ trained' = trained \cup
            {[rank |-> r, epoch |-> EpochOf(r), number |-> NumberOf(r), batch |-> BatchOf(r)]
                : r \in Loaders}
      /\ epoch' = [r \in Loaders |-> EpochOf(r)]
      /\ next' = [r \in Loaders |-> NumberOf(r)]
      /\ taken < MaxBatches /\ taken' = taken + 1
      /\ tokens' = tokens /\ order' = order /\ failed' = failed
  BY DEF Step
<1>3. /\ \A r, e : load_dataset(r, e)' = load_dataset(r, e)
      /\ \A r, e, k : BatchRecord(r, e, k)' = BatchRecord(r, e, k)
  BY <1>2, SameLoad
<1>4. ASSUME NEW r \in Loaders
      PROVE  /\ epoch[r] \in Nat /\ epoch[r] <= taken /\ next[r] \in Nat
             /\ EpochOf(r) \in Nat /\ NumberOf(r) \in Nat
             /\ NumberOf(r) \in 1 .. Batches(load_dataset(r, EpochOf(r)))
             /\ \/ EpochOf(r) = epoch[r] /\ NumberOf(r) = next[r] + 1
                \/ /\ EpochOf(r) = epoch[r] + 1 /\ NumberOf(r) = 1
                   /\ Batches(load_dataset(r, epoch[r])) <= next[r]
             /\ BatchRecord(r, EpochOf(r), NumberOf(r)) \in trained'
             /\ epoch'[r] = EpochOf(r) /\ next'[r] = NumberOf(r)
             /\ BatchOf(r) # <<>>
  <2>1. epoch[r] \in Nat /\ next[r] \in Nat /\ epoch[r] <= taken
    BY <1>1 DEF DataTypeOK, Epochs
  <2>2. EpochOf(r) \in Nat
    BY <2>1 DEF EpochOf
  <2>3. Batches(load_dataset(r, epoch[r])) \in Nat /\ Batches(load_dataset(r, EpochOf(r))) \in Nat
    BY <1>1, <2>1, <2>2, LoadedBatches
  <2>4. Batches(load_dataset(r, EpochOf(r))) > 0
    BY <1>2 DEF HasBatch
  <2> DEFINE E == EpochOf(r)
             K == NumberOf(r)
  <2>5. /\ \/ E = epoch[r] /\ K = next[r] + 1
           \/ /\ E = epoch[r] + 1 /\ K = 1
              /\ Batches(load_dataset(r, epoch[r])) <= next[r]
        /\ K \in 1 .. Batches(load_dataset(r, E)) /\ K \in Nat
    <3>1. CASE next[r] < Batches(load_dataset(r, epoch[r]))
      <4>1. E = epoch[r] /\ K = next[r] + 1
        BY <3>1 DEF EpochOf, NumberOf
      <4> HIDE DEF E, K
      <4> QED
        BY <2>1, <2>3, <3>1, <4>1
    <3>2. CASE ~(next[r] < Batches(load_dataset(r, epoch[r])))
      <4>1. E = epoch[r] + 1
        BY <3>2, Zenon DEF EpochOf
      <4>2. E # epoch[r]
        BY <2>1, <4>1
      <4>3. K = 1
        BY <4>2, Zenon DEF NumberOf
      <4> HIDE DEF K
      <4> QED
        BY <2>1, <2>3, <2>4, <3>2, <4>1, <4>3
    <3> QED
      BY <3>1, <3>2
  <2>6. BatchRecord(r, E, K) \in trained'
    <3>1. BatchRecord(r, E, K)
            = [rank |-> r, epoch |-> EpochOf(r), number |-> NumberOf(r), batch |-> BatchOf(r)]
      BY Zenon DEF BatchRecord, BatchOf
    <3> QED
      BY <1>2, <3>1
  <2>7. epoch'[r] = EpochOf(r) /\ next'[r] = NumberOf(r)
    BY <1>2
  <2>8. BatchOf(r) # <<>>
    BY <1>1, <2>2, <2>5, LoadedBatches DEF BatchOf
  <2> QED
    BY <2>1, <2>2, <2>5, <2>6, <2>7, <2>8
<1>5. DataFixed'
  BY <1>1, <1>2 DEF DataFixed
<1>6. taken \in Nat /\ MaxBatches \in Nat
  BY <1>1, DatasetAssumption DEF DataTypeOK
<1>7. DataTypeOK'
  <2>1. epoch' \in [Loaders -> Epochs]
    <3>1. \A r \in Loaders : EpochOf(r) \in Epochs
      <4> SUFFICES ASSUME NEW r \in Loaders PROVE EpochOf(r) \in Epochs
        OBVIOUS
      <4> QED
        BY <1>2, <1>4, <1>6 DEF Epochs
    <3> QED
      BY <1>2, <3>1
  <2>2. next' \in [Loaders -> Nat]
    BY <1>2, <1>4
  <2>3. \A r \in Loaders : next'[r] <= Batches(load_dataset(r, epoch'[r]))
    BY <1>4
  <2>4. \A r \in Loaders : (next[r] <= Batches(load_dataset(r, epoch[r])))'
    BY <1>3, <2>3
  <2>5. taken' \in 0 .. MaxBatches
    BY <1>2, <1>6
  <2>6. failed' \in {"no", "stop_iteration", "collate"}
    BY <1>1, <1>2 DEF DataTypeOK
  <2>7. ASSUME NEW t \in trained'
        PROVE  t.rank \in Loaders /\ t.epoch \in Epochs /\ t.batch # <<>>
    <3>1. CASE t \in trained
      BY <1>1, <3>1 DEF DataTypeOK
    <3>2. CASE t \notin trained
      <4>1. PICK r \in Loaders : t = [rank |-> r, epoch |-> EpochOf(r), number |-> NumberOf(r),
                                      batch |-> BatchOf(r)]
        BY <1>2, <3>2
      <4>2. EpochOf(r) \in Epochs
        BY <1>2, <1>4, <1>6 DEF Epochs
      <4> QED
        BY <1>4, <4>1, <4>2
    <3> QED
      BY <3>1, <3>2
  <2> QED
    BY <2>1, <2>2, <2>4, <2>5, <2>6, <2>7 DEF DataTypeOK, Epochs, Loaders
<1>8. \A r \in Loaders : epoch'[r] <= taken'
  <2> SUFFICES ASSUME NEW r \in Loaders PROVE epoch'[r] <= taken'
    OBVIOUS
  <2> QED
    BY <1>2, <1>4, <1>6
<1>9. FromTheLoaders'
  <2> SUFFICES ASSUME NEW t \in trained'
               PROVE  \E r \in Loaders : \E e \in 0 .. epoch'[r] :
                        \E k \in 1 .. Batches(load_dataset(r, e)) : t = BatchRecord(r, e, k)
    BY <1>3, Zenon DEF FromTheLoaders, Loaders
  <2>1. CASE t \in trained
    <3>1. PICK r \in Loaders : \E e \in 0 .. epoch[r] :
                \E k \in 1 .. Batches(load_dataset(r, e)) : t = BatchRecord(r, e, k)
      BY <1>1, <2>1 DEF FromTheLoaders
    <3>2. \A e \in 0 .. epoch[r] : e \in 0 .. epoch'[r]
      BY <1>4
    <3> QED
      BY <3>1, <3>2, Zenon
  <2>2. CASE t \notin trained
    <3>1. PICK r \in Loaders : t = [rank |-> r, epoch |-> EpochOf(r), number |-> NumberOf(r),
                                    batch |-> BatchOf(r)]
      BY <1>2, <2>2
    <3>2. t = BatchRecord(r, EpochOf(r), NumberOf(r))
      BY <3>1, Zenon DEF BatchRecord, BatchOf
    <3>3. EpochOf(r) \in 0 .. epoch'[r]
      BY <1>4
    <3> QED
      BY <1>4, <3>2, <3>3
  <2> QED
    BY <2>1, <2>2
<1>10. NoneLeftOut'
  <2> SUFFICES ASSUME NEW r \in Loaders, NEW e \in 0 .. epoch'[r],
                      NEW k \in 1 .. Batches(load_dataset(r, e)),
                      e < epoch'[r] \/ k <= next'[r]
               PROVE  BatchRecord(r, e, k) \in trained'
    BY <1>3, Zenon DEF NoneLeftOut, Loaders
  <2>1. Batches(load_dataset(r, e)) \in Nat /\ e \in Nat
    <3>1. e \in Nat
      BY <1>4
    <3> QED
      BY <1>1, <3>1, LoadedBatches
  <2>2. \/ e \in 0 .. epoch[r] /\ (e < epoch[r] \/ k <= next[r])
        \/ e = EpochOf(r) /\ k = NumberOf(r)
    <3>1. CASE EpochOf(r) = epoch[r] /\ NumberOf(r) = next[r] + 1
      BY <1>4, <2>1, <3>1
    <3>2. CASE /\ EpochOf(r) = epoch[r] + 1 /\ NumberOf(r) = 1
               /\ Batches(load_dataset(r, epoch[r])) <= next[r]
      <4>1. CASE e = epoch[r]
        BY <1>4, <2>1, <3>2, <4>1
      <4>2. CASE e # epoch[r]
        BY <1>4, <2>1, <3>2, <4>2
      <4> QED
        BY <4>1, <4>2
    <3> QED
      BY <1>4, <3>1, <3>2
  <2>3. CASE e \in 0 .. epoch[r] /\ (e < epoch[r] \/ k <= next[r])
    <3>1. BatchRecord(r, e, k) \in trained
      BY <1>1, <2>3, Zenon DEF NoneLeftOut
    <3> QED
      BY <1>2, <3>1
  <2>4. CASE e = EpochOf(r) /\ k = NumberOf(r)
    BY <1>4, <2>4
  <2> QED
    BY <2>2, <2>3, <2>4
<1>11. (failed = "stop_iteration" => Len(tokens) < World)'
  BY <1>1, <1>2
<1> QED
  BY <1>5, <1>7, <1>8, <1>9, <1>10, <1>11 DEF DataInv, Loaders

(* What only raises.                                                       *)
LEMMA RaisingKeeps ==
    ASSUME DataInv, UNCHANGED <<tokens, order, epoch, next, trained, taken>>,
           failed' \in {"no", "stop_iteration", "collate"},
           failed' = "stop_iteration" => Len(tokens) < World
    PROVE  DataInv'
<1>1. /\ \A r, e : load_dataset(r, e)' = load_dataset(r, e)
      /\ \A r, e, k : BatchRecord(r, e, k)' = BatchRecord(r, e, k)
  BY SameLoad
<1>2. DataFixed'
  BY DEF DataInv, DataFixed
<1>3. DataTypeOK'
  BY <1>1 DEF DataInv, DataTypeOK, Loaders, Epochs
<1>4. FromTheLoaders'
  BY <1>1 DEF DataInv, FromTheLoaders, Loaders
<1>5. NoneLeftOut'
  BY <1>1 DEF DataInv, NoneLeftOut, Loaders
<1>6. (\A r \in Loaders : epoch[r] <= taken)'
  BY DEF DataInv, Loaders
<1> QED
  BY <1>2, <1>3, <1>4, <1>5, <1>6 DEF DataInv

(* A rank starves only when there are fewer examples than ranks.           *)
LEMMA StarveKeeps == DataInv /\ Starve => DataInv'
<1> SUFFICES ASSUME DataInv, Starve PROVE DataInv'
  OBVIOUS
<1>1. PICK r \in Loaders : ~HasBatch(r)
  BY DEF Starve
<1>2. DataFixed /\ epoch[r] \in Nat /\ Len(tokens) \in Nat
  <2>1. DataFixed
    BY DEF DataInv
  <2>2. epoch[r] \in Nat
    BY DEF DataInv, DataTypeOK, Epochs
  <2> QED
    BY <2>1, <2>2, ShareOf
<1>3. EpochOf(r) \in Nat
  BY <1>2 DEF EpochOf
<1>4. Len(tokens) < World
  <2>1. ~(World <= Len(tokens))
    BY <1>1, <1>2, <1>3, LoadedBatches DEF HasBatch
  <2> QED
    BY <1>2, <2>1, DatasetAssumption
<1> QED
  BY <1>4, RaisingKeeps DEF Starve

(* The loaders' invariant.                                                 *)
THEOREM DataInvariance == DataSpec => []DataInv
<1>1. DataInit => DataInv
  BY DataAtFirst
<1>2. DataInv /\ [DataNext]_dataVars => DataInv'
  <2> SUFFICES ASSUME DataInv, [DataNext]_dataVars PROVE DataInv'
    OBVIOUS
  <2>1. CASE Step
    BY <2>1, StepKeeps
  <2>2. CASE Starve
    BY <2>2, StarveKeeps
  <2>3. CASE CollateFails
    BY <2>3, RaisingKeeps DEF CollateFails
  <2>4. CASE UNCHANGED dataVars
    BY <2>4, RaisingKeeps DEF dataVars, DataInv, DataTypeOK
  <2> QED
    BY <2>1, <2>2, <2>3, <2>4 DEF DataNext
<1> QED
  BY <1>1, <1>2, PTL DEF DataSpec

(* A token of a batch is one of the rank's share.                          *)
LEMMA TokenOfShare ==
    ASSUME DataFixed, NEW r \in Loaders, NEW e \in Nat,
           NEW k \in 1 .. Batches(load_dataset(r, e)),
           NEW x \in TokensOf(Batch(load_dataset(r, e), k))
    PROVE  \E i \in 1 .. Len(Share(r, e)) : \E y : x = <<Share(r, e)[i], y>>
<1> DEFINE blocks == load_dataset(r, e)
           share == Share(r, e)
<1>1. LoadIs(blocks, share)
  BY Loaded
<1>2. k \in 1 .. Batches(blocks) /\ x \in BatchTokens(blocks, k)
  BY Zenon DEF BatchTokens
<1> HIDE DEF blocks, share
<1>3. \A j \in 1 .. Batches(blocks) : \A z \in BatchTokens(blocks, j) :
            \E b \in 1 .. Len(blocks) : \E i \in 1 .. Len(blocks[b]) : z = blocks[b][i]
  BY <1>1, BatchesAre DEF LoadIs
<1>4. PICK b \in 1 .. Len(blocks) : \E i \in 1 .. Len(blocks[b]) : x = blocks[b][i]
  BY <1>2, <1>3, Zenon
<1>5. PICK u \in 1 .. Len(blocks[b]) : x = blocks[b][u]
  BY <1>4
<1>6. \E i \in 1 .. Len(share) : \E y \in 1 .. tokens[share[i]] : blocks[b][u] = <<share[i], y>>
  BY <1>1, Zenon DEF LoadIs, BlocksFrom
<1> QED
  BY <1>5, <1>6, Zenon DEF share

(* Two batches of one epoch have no token in common.                       *)
LEMMA NoneTwiceInEpoch == DataInv => NoTokenTwice
<1> SUFFICES ASSUME DataInv, NEW s \in trained, NEW t \in trained, s.epoch = t.epoch,
                    NEW x, x \in TokensOf(s.batch), x \in TokensOf(t.batch)
             PROVE  s = t
  BY Zenon DEF NoTokenTwice
<1>1. DataFixed /\ FromTheLoaders /\ \A r \in Loaders : epoch[r] \in Nat
  BY DEF DataInv, DataTypeOK, Epochs
<1>2. PICK r \in Loaders : \E e \in 0 .. epoch[r] :
            \E k \in 1 .. Batches(load_dataset(r, e)) : s = BatchRecord(r, e, k)
  BY <1>1 DEF FromTheLoaders
<1>10. PICK e \in 0 .. epoch[r] :
            \E k \in 1 .. Batches(load_dataset(r, e)) : s = BatchRecord(r, e, k)
  BY <1>2
<1>3. PICK k \in 1 .. Batches(load_dataset(r, e)) : s = BatchRecord(r, e, k)
  BY <1>10
<1>4. PICK q \in Loaders : \E f \in 0 .. epoch[q] :
            \E l \in 1 .. Batches(load_dataset(q, f)) : t = BatchRecord(q, f, l)
  BY <1>1 DEF FromTheLoaders
<1>11. PICK f \in 0 .. epoch[q] :
            \E l \in 1 .. Batches(load_dataset(q, f)) : t = BatchRecord(q, f, l)
  BY <1>4
<1>5. PICK l \in 1 .. Batches(load_dataset(q, f)) : t = BatchRecord(q, f, l)
  BY <1>11
<1>6. e = f /\ e \in Nat
  BY <1>1, <1>3, <1>5 DEF BatchRecord
<1>7. x \in TokensOf(Batch(load_dataset(r, e), k)) /\ x \in TokensOf(Batch(load_dataset(q, e), l))
      /\ l \in 1 .. Batches(load_dataset(q, e))
  BY <1>3, <1>5, <1>6 DEF BatchRecord
<1>8. r = q
  <2>1. PICK i \in 1 .. Len(Share(r, e)) : \E y : x = <<Share(r, e)[i], y>>
    BY <1>1, <1>6, <1>7, TokenOfShare
  <2>2. PICK j \in 1 .. Len(Share(q, e)) : \E y : x = <<Share(q, e)[j], y>>
    BY <1>1, <1>6, <1>7, TokenOfShare
  <2>3. Share(r, e)[i] = Share(q, e)[j]
    BY <2>1, <2>2
  <2> DEFINE n == Len(tokens)
             order_e == Shuffled(r, e)
  <2>4. order_e \in [1 .. n -> 1 .. n] /\ NoneTwice(order_e) /\ n \in Nat
    BY <1>1, <1>6, ShareOf
  <2>5. Share(r, e) = Split(order_e, r) /\ Share(q, e) = Split(order_e, q)
    BY DEF Share, Shuffled
  <2> HIDE DEF n, order_e
  <2>6. /\ i \in 1 .. Len(Split(order_e, r)) /\ j \in 1 .. Len(Split(order_e, q))
        /\ Split(order_e, r)[i] = Split(order_e, q)[j]
    BY <2>3, <2>5, Zenon
  <2> QED
    BY <2>4, <2>6, SharesApart
<1>9. k = l
  <2> DEFINE blocks == load_dataset(r, e)
  <2>1. LoadIs(blocks, Share(r, e))
    BY <1>1, <1>6, Loaded
  <2>2. k \in 1 .. Batches(blocks) /\ l \in 1 .. Batches(blocks)
        /\ x \in BatchTokens(blocks, k) /\ x \in BatchTokens(blocks, l)
    BY <1>7, <1>8, Zenon DEF BatchTokens
  <2> HIDE DEF blocks
  <2>3. \A i, j \in 1 .. Batches(blocks) :
            i # j => BatchTokens(blocks, i) \cap BatchTokens(blocks, j) = {}
    BY <2>1, BatchesAre DEF LoadIs
  <2> QED
    BY <2>2, <2>3
<1> QED
  BY <1>3, <1>5, <1>6, <1>8, <1>9

(* What a function of T covers has no more elements than T.                *)
LEMMA NoMoreThan ==
    ASSUME NEW T, IsFiniteSet(T), NEW R, NEW S, \A x \in S : \E p \in T : R[p] = x
    PROVE  Cardinality(S) <= Cardinality(T)
<1> DEFINE f == [x \in S |-> CHOOSE p \in T : R[p] = x]
<1>1. \A x \in S : f[x] \in T /\ R[f[x]] = x
  OBVIOUS
<1>2. f \in [S -> T]
  BY <1>1
<1>3. \A x, y \in S : f[x] = f[y] => x = y
  <2> HIDE DEF f
  <2> QED
    BY <1>1
<1> HIDE DEF f
<1>4. f \in Injection(S, T)
  BY <1>2, <1>3 DEF Injection, IsInjective
<1> QED
  BY <1>4, FS_Injection

(* What is left out of a share is in the rests of its groups.              *)
LEMMA FewDropped == DataInv => DroppedAreFew
<1> SUFFICES ASSUME DataInv, NEW r \in Loaders, NEW e \in Epochs, e < epoch[r]
             PROVE  LET share == Split(Shuffled(r, e), r)
                        all == UNION {{<<share[i], k>> : k \in 1 .. tokens[share[i]]}
                                        : i \in 1 .. Len(share)}
                        used == UNION {TokensOf(t.batch) :
                                        t \in {u \in trained : u.rank = r /\ u.epoch = e}}
                    IN  Cardinality(all \ used) <= (BlockSize - 1) * Len(Groups(share))
  BY Zenon DEF DroppedAreFew
<1> DEFINE share == Share(r, e)
           all == UNION {{<<share[i], k>> : k \in 1 .. tokens[share[i]]} : i \in 1 .. Len(share)}
           used == UNION {TokensOf(t.batch) : t \in {u \in trained : u.rank = r /\ u.epoch = e}}
           blocks == load_dataset(r, e)
           G == 1 .. Len(Groups(share))
           D == 1 .. BlockSize - 1
           rests == [p \in G \X D |-> Rest(share, p[1], p[2])]
<1>1. DataFixed /\ e \in 0 .. epoch[r] /\ e \in Nat /\ NoneLeftOut
  BY DEF DataInv, DataTypeOK, Epochs
<1>2. LoadIs(blocks, share) /\ Len(share) \in Nat
  BY <1>1, Loaded, ShareOf
<1>3. /\ Len(tokens) \in Nat /\ share \in Seq(1 .. Len(tokens)) /\ NoneTwice(share)
  BY <1>1, ShareOf
<1>4. Len(Groups(share)) \in Nat
  <2> HIDE DEF share
  <2>1. Groups(share) \in Seq(Seq(1 .. Len(tokens)))
    BY <1>3, GroupsAre
  <2> QED
    BY <2>1
<1>5. BlockSize \in Nat \ {0} /\ BlockSize - 1 \in Nat
  BY DatasetAssumption
<1>6. ASSUME NEW b \in 1 .. Len(blocks), NEW i \in 1 .. Len(blocks[b])
      PROVE  blocks[b][i] \in used
  <2>1. \A c \in 1 .. Len(blocks) : \A l \in 1 .. Len(blocks[c]) :
            \E k \in 1 .. Batches(blocks) : blocks[c][l] \in BatchTokens(blocks, k)
    <3> HIDE DEF blocks
    <3> QED
      BY <1>2, BatchesAre DEF LoadIs
  <2>2. PICK k \in 1 .. Batches(blocks) : blocks[b][i] \in BatchTokens(blocks, k)
    BY <2>1
  <2>3. BatchRecord(r, e, k) \in trained
    BY <1>1, Zenon DEF NoneLeftOut
  <2>4. /\ BatchRecord(r, e, k).rank = r /\ BatchRecord(r, e, k).epoch = e
        /\ TokensOf(BatchRecord(r, e, k).batch) = BatchTokens(blocks, k)
    BY DEF BatchRecord, BatchTokens
  <2> QED
    BY <2>2, <2>3, <2>4, Zenon
<1>7. ASSUME NEW x \in all \ used
      PROVE  \E p \in G \X D : rests[p] = x
  <2> HIDE DEF blocks, used
  <2>1. PICK i \in 1 .. Len(share) : \E k \in 1 .. tokens[share[i]] : x = <<share[i], k>>
    BY Zenon
  <2>2. PICK k \in 1 .. tokens[share[i]] : x = <<share[i], k>>
    BY <2>1
  <2>3. ASSUME NEW b \in 1 .. Len(blocks), NEW l \in 1 .. Len(blocks[b]), blocks[b][l] = x
        PROVE  FALSE
    BY <1>6, <2>3, Zenon
  <2>4. PICK g \in G : \E d \in D : <<share[i], k>> = Rest(share, g, d)
    BY <1>2, <2>2, <2>3, Zenon DEF LoadIs, AllButRests
  <2>5. PICK d \in D : x = Rest(share, g, d)
    BY <2>2, <2>4
  <2> HIDE DEF share, G, D
  <2>6. <<g, d>> \in G \X D /\ rests[<<g, d>>] = x
    BY <2>5
  <2> QED
    BY <2>6, Zenon
<1>8. IsFiniteSet(G \X D) /\ Cardinality(G \X D) = Len(Groups(share)) * (BlockSize - 1)
  <2>1. IsFiniteSet(G) /\ Cardinality(G) = Len(Groups(share))
    <3> DEFINE m == Len(Groups(share))
    <3> HIDE DEF m
    <3>1. IsFiniteSet(1 .. m) /\ Cardinality(1 .. m) = m
      BY <1>4, FS_Interval, SMTT(60) DEF m
    <3> QED
      BY <3>1 DEF m
  <2>2. IsFiniteSet(D) /\ Cardinality(D) = BlockSize - 1
    BY <1>5, FS_Interval
  <2> HIDE DEF G, D
  <2> QED
    BY <2>1, <2>2, FS_Product
<1>9. Cardinality(all \ used) <= Cardinality(G \X D)
  <2> HIDE DEF all, used, G, D, rests
  <2> QED
    BY <1>7, <1>8, NoMoreThan
<1>10. Len(Groups(share)) * (BlockSize - 1) = (BlockSize - 1) * Len(Groups(share))
  BY <1>4, <1>5
<1>11. Cardinality(all \ used) <= (BlockSize - 1) * Len(Groups(share))
  <2> HIDE DEF all, used, G, D, share
  <2> QED
    BY <1>8, <1>9, <1>10
<1> QED
  BY <1>11, Zenon DEF Share

(* The ranks share the dataset, whatever its size, the lengths of its      *)
(* examples, the number of ranks and the sizes of blocks and batches: no   *)
(* token twice in an epoch, less than a block left out of each group, and  *)
(* no rank without data when there is an example for each.                 *)
THEOREM DataStaysShared == DataSpec => []DataIsShared
<1>1. DataInv => DataIsShared
  <2> SUFFICES ASSUME DataInv PROVE DataIsShared
    OBVIOUS
  <2>1. EveryRankHasData
    <3>1. DataFixed /\ (failed = "stop_iteration" => Len(tokens) < World)
      BY DEF DataInv
    <3>2. Len(tokens) \in Nat
      BY <3>1 DEF DataFixed
    <3> QED
      BY <3>1, <3>2, DatasetAssumption DEF EveryRankHasData
  <2> QED
    BY <2>1, NoneTwiceInEpoch, FewDropped DEF DataIsShared, DataInv
<1> QED
  BY <1>1, DataInvariance, PTL
=============================================================================
