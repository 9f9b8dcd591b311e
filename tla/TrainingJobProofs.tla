------------------------- MODULE TrainingJobProofs -------------------------
(***************************************************************************)
(* Proofs about TrainingJob, for every value of its constants.  OneLiveJob *)
(* and JobIsConsistent hold also with deaths between an open and its write *)
(* and with a job that starts before run_sbatch has returned; the outcome  *)
(* is final without the second, and the history is found without both, as  *)
(* long as update_status has swallowed no signal.                          *)
(***************************************************************************)
EXTENDS TrainingJob, FiniteSetTheorems, SequenceTheorems,
        WellFoundedInduction, TLAPS

USE TrainingAssumption

(* The four things that a signal can do to the trainer of slurm job j. *)
Signal(j) ==
    \/ signal_handler(j) \/ SignalEscapes(j)
    \/ SignalInGetStatus(j) \/ SignalInSaveStatus(j)

(* Where a trainer goes on after an update. *)
LEMMA UpdateEnds ==
    ASSUME NEW j \in Jobs, AfterUpdate(j)
    PROVE  \E q \in Phases :
              /\ phase' = [phase EXCEPT ![j] = q]
              /\ \/ phase[j] = "begin" /\ q = "load"
                 \/ phase[j] = "history" /\ q \in {"checkpoint", "turn"}
                 \/ phase[j] = "completed" /\ q = "done"
                 \/ phase[j] = "failed" /\ q = "exit"
              /\ \E v \in BOOLEAN : stop' = stop \/ stop' = [stop EXCEPT ![j] = v]
  <1>1. CASE phase[j] = "history"
    <2>1. PICK q \in {"checkpoint", "turn"} : phase' = [phase EXCEPT ![j] = q]
      BY <1>1 DEF AfterUpdate, EndsUpdate
    <2>2. \E v \in BOOLEAN : stop' = stop \/ stop' = [stop EXCEPT ![j] = v]
      BY <1>1 DEF AfterUpdate
    <2>3. QED
      BY <1>1, <2>1, <2>2 DEF Phases
  <1>2. CASE phase[j] # "history"
    <2>1. PICK q \in {"load", "done", "exit"} :
             /\ phase' = [phase EXCEPT ![j] = q]
             /\ \/ phase[j] = "begin" /\ q = "load"
                \/ phase[j] = "completed" /\ q = "done"
                \/ phase[j] = "failed" /\ q = "exit"
             /\ stop' = stop
      BY <1>2 DEF AfterUpdate, EndsUpdate
    <2>2. QED
      BY <2>1 DEF Phases
  <1>3. QED
    BY <1>1, <1>2

(* The trainer goes to q, and drops the copy of the status that it had. *)
SignalMoves(j, q) ==
    /\ Torn \/ sub[j] # "write"
    /\ sub' = [sub EXCEPT ![j] = "read"]
    /\ tbuf' = [tbuf EXCEPT ![j] = Blank("absent")]
    /\ phase' = [phase EXCEPT ![j] = q]
    /\ \/ q = "failed" /\ phase[j] \notin {"off", "failed", "exit"}
       \/ q = "exit" /\ phase[j] = "failed"
       \/ q = "load" /\ phase[j] = "begin"
       \/ q = "done" /\ phase[j] = "completed"
       \/ /\ q \in {"checkpoint", "turn"}
          /\ phase[j] = "history" /\ swallowed' = TRUE
    /\ swallowed' = swallowed \/ swallowed' = TRUE

(* The trainer goes on with an empty copy. *)
SignalHides(j) ==
    /\ Updating(j) /\ sub[j] = "read"
    /\ sub' = [sub EXCEPT ![j] = "open"]
    /\ tbuf' = [tbuf EXCEPT ![j] = Blank("unknown")]
    /\ phase' = phase
    /\ swallowed' = TRUE

(* A signal leaves the directory, the API process and slurm as they are. *)
LEMMA SignalActs ==
    ASSUME NEW j \in Jobs, Signal(j)
    PROVE  /\ UNCHANGED <<file, ckpt, apiVars, slurmVars, step, history>>
           /\ UNCHANGED <<api, asub, abuf, listed, submitted, slurm>>
           /\ SignalHides(j) \/ \E q \in Phases : SignalMoves(j, q)
           /\ \E v \in BOOLEAN : stop' = stop \/ stop' = [stop EXCEPT ![j] = v]
           /\ kills < MaxKills /\ kills' = kills + 1
           /\ UNCHANGED <<crashes, errors>>
           /\ phase[j] # "off"
  <1> USE DEF Signalled, apiVars, slurmVars
  <1>1. CASE signal_handler(j)
    <2>1. SignalMoves(j, "failed")
      BY <1>1 DEF signal_handler, Interrupted, SignalMoves
    <2>2. QED
      BY <1>1, <2>1 DEF signal_handler, Interrupted, Phases
  <1>2. CASE SignalEscapes(j)
    <2>1. SignalMoves(j, "exit")
      BY <1>2 DEF SignalEscapes, Interrupted, SignalMoves
    <2>2. QED
      BY <1>2, <2>1 DEF SignalEscapes, Interrupted, Phases
  <1>3. CASE SignalInGetStatus(j)
    <2>1. SignalHides(j) /\ stop' = stop
      BY <1>3 DEF SignalInGetStatus, SignalHides
    <2>2. QED
      BY <1>3, <2>1 DEF SignalInGetStatus, Updating
  <1>4. CASE SignalInSaveStatus(j)
    <2>1. PICK q \in Phases :
             /\ phase' = [phase EXCEPT ![j] = q]
             /\ \/ phase[j] = "begin" /\ q = "load"
                \/ phase[j] = "history" /\ q \in {"checkpoint", "turn"}
                \/ phase[j] = "completed" /\ q = "done"
                \/ phase[j] = "failed" /\ q = "exit"
             /\ \E v \in BOOLEAN : stop' = stop \/ stop' = [stop EXCEPT ![j] = v]
      BY <1>4, UpdateEnds DEF SignalInSaveStatus
    <2>2. SignalMoves(j, q)
      BY <1>4, <2>1 DEF SignalInSaveStatus, SignalMoves
    <2>3. QED
      BY <1>4, <2>1, <2>2 DEF SignalInSaveStatus, Updating
  <1>5. QED
    BY <1>1, <1>2, <1>3, <1>4 DEF Signal

-----------------------------------------------------------------------------
(* One live job per directory.                                             *)

(* Nothing is live, nothing is written at the start. *)
LEMMA JobInit == Init => JobInv
  BY DEF Init, JobInv, SlurmInv, SubmitInv, BufferInv, Live, Blank, NoJson,
         WritingStatus, Phases, Jobs

(* The API process: a submission is reached only from a state without a    *)
(* live job, and turns a fresh number into the one live job.               *)
LEMMA ApiStep == JobInv /\ ApiNext => JobInv'
  <1> SUFFICES ASSUME JobInv, ApiNext PROVE JobInv'
    OBVIOUS
  <1> USE DEF JobInv, SlurmInv, SubmitInv, BufferInv, Live, NoJson,
              WritingStatus, Phases, Jobs, slurmVars, trainerVars, faultVars
  <1>1. CASE launch_training_job
    BY <1>1 DEF launch_training_job
  <1>2. CASE get_slurm_jobs
    BY <1>2 DEF get_slurm_jobs
  <1>3. CASE filter_running_jobs
    BY <1>3 DEF filter_running_jobs, get_running_jobs
  <1>4. CASE create_slurm_run_command
    BY <1>4 DEF create_slurm_run_command
  <1>5. CASE CommandRaises
    BY <1>5 DEF CommandRaises
  <1>6. CASE StatusRead
    <2>1. /\ "status" \in DOMAIN Patched(file)
          /\ Patched(file).status \in {"QUEUED", "FAILED"}
      BY <1>6 DEF StatusRead, Patched
    <2>2. QED
      BY <1>6, <2>1 DEF StatusRead
  <1>7. CASE StatusOpen
    BY <1>7 DEF StatusOpen, OpenForWriting, Blank
  <1>8. CASE StatusWrite
    BY <1>8 DEF StatusWrite, WriteContents, Blank
  <1>9. CASE sbatch
    BY <1>9 DEF sbatch
  <1>10. CASE sbatchFails
    BY <1>10 DEF sbatchFails
  <1>11. CASE ApiRestart
    BY <1>11 DEF ApiRestart
  <1>12. QED
    BY <1>1, <1>2, <1>3, <1>4, <1>5, <1>6, <1>7, <1>8, <1>9, <1>10, <1>11
       DEF ApiNext

(* A trainer changes neither the number of slurm jobs nor, but by ending,  *)
(* which of them are live.                                                 *)
LEMMA TrainerStep ==
    ASSUME NEW j \in Jobs, JobInv, JobStarts(j) \/ TrainerNext(j)
    PROVE  JobInv'
  <1> USE DEF JobInv, SlurmInv, SubmitInv, BufferInv, Live, NoJson,
              WritingStatus, Phases, apiVars, slurmVars, trainerVars, faultVars
  <1>1. CASE JobStarts(j)
    BY <1>1 DEF JobStarts
  <1>2. CASE UpdateRead(j)
    BY <1>2 DEF UpdateRead, Readable, Blank
  <1>3. CASE UpdateOpen(j)
    BY <1>3 DEF UpdateOpen, OpenForWriting, Blank
  <1>4. ASSUME NEW s \in TrainingJobStatus, NEW c, UpdateWrite(j, c),
               c.status = s, "status" \in DOMAIN c,
               NEW q \in Phases \ {"off"}, phase[j] # "off",
               phase' = [phase EXCEPT ![j] = q]
        PROVE  JobInv'
    BY <1>4 DEF UpdateWrite, WriteContents, Blank, TrainingJobStatus
  <1>5. CASE TrainingBegins(j)
    BY <1>4, <1>5, UpdateEnds DEF TrainingBegins, TrainingJobStatus
  <1>6. CASE HistoryWritten(j)
    BY <1>4, <1>6, UpdateEnds DEF HistoryWritten, TrainingJobStatus
  <1>7. CASE TrainingCompletes(j)
    BY <1>4, <1>7, UpdateEnds DEF TrainingCompletes, TrainingJobStatus
  <1>8. CASE TrainingFails(j)
    BY <1>4, <1>8, UpdateEnds DEF TrainingFails, TrainingJobStatus
  <1>9. CASE Load(j)
    BY <1>9 DEF Load
  <1>10. CASE TrainStep(j)
    BY <1>10 DEF TrainStep
  <1>11. CASE Turn(j)
    BY <1>11 DEF Turn
  <1>12. CASE SaveOpen(j)
    BY <1>12 DEF SaveOpen
  <1>13. CASE SaveWrite(j)
    BY <1>13 DEF SaveWrite
  <1>14. CASE TrainerRaises(j)
    BY <1>14 DEF TrainerRaises
  <1>15. CASE delete_old_checkpoints(j)
    BY <1>15 DEF delete_old_checkpoints
  <1>16. CASE JobEnds(j)
    BY <1>16 DEF JobEnds
  <1>17. QED
    BY <1>1, <1>2, <1>3, <1>5, <1>6, <1>7, <1>8, <1>9, <1>10, <1>11, <1>12,
       <1>13, <1>14, <1>15, <1>16 DEF TrainerNext

(* Deaths only end jobs, and an API process that died submits nothing. *)
LEMMA FaultStep == JobInv /\ FaultNext => JobInv'
  <1> SUFFICES ASSUME JobInv, FaultNext PROVE JobInv'
    OBVIOUS
  <1> USE DEF JobInv, SlurmInv, SubmitInv, BufferInv, Live, NoJson,
              WritingStatus, Phases, apiVars, slurmVars, trainerVars, Blank
  <1>1. ASSUME NEW j \in Jobs, Signal(j) PROVE JobInv'
    <2>1. /\ UNCHANGED <<file, api, asub, abuf, listed, submitted, slurm>>
          /\ phase[j] # "off"
      BY <1>1, SignalActs
    <2>2. CASE SignalHides(j)
      BY <2>1, <2>2 DEF SignalHides
    <2>3. ASSUME NEW q \in Phases, SignalMoves(j, q) PROVE JobInv'
      BY <2>1, <2>3 DEF SignalMoves
    <2>4. QED
      BY <1>1, <2>2, <2>3, SignalActs
  <1>2. ASSUME NEW S, Clear(S)
        PROVE  /\ slurm' \in [Jobs -> {"none", "pending", "running", "ended"}]
               /\ \A j \in Jobs : Live(j)' => Live(j)
               /\ \A j \in Jobs : slurm[j] = "none" /\ j \notin S
                                  => slurm'[j] = "none"
               /\ phase' \in [Jobs -> Phases]
               /\ \A j \in Jobs : phase'[j] # "off" => slurm'[j] = "running"
               /\ DOMAIN tbuf' = Jobs
               /\ \A j \in Jobs : "status" \in DOMAIN tbuf'[j]
    BY <1>2 DEF Clear
  <1>3. ASSUME NEW j \in Jobs, JobKilled(j) PROVE JobInv'
    BY <1>2, <1>3 DEF JobKilled
  <1>4. CASE ApiCrash
    BY <1>4 DEF ApiCrash, ApiDies
  <1>5. CASE ContainerCrash
    BY <1>2, <1>5 DEF ContainerCrash, ApiDies
  <1>6. QED
    BY <1>1, <1>3, <1>4, <1>5 DEF FaultNext, Signal

(* The invariant of the API process, slurm and the trainers together. *)
THEOREM JobInvariance == Spec => []JobInv
  <1>1. JobInv /\ [Next]_vars => JobInv'
    <2> SUFFICES ASSUME JobInv, [Next]_vars PROVE JobInv'
      OBVIOUS
    <2>1. CASE UNCHANGED vars
      BY <2>1 DEF vars, apiVars, slurmVars, trainerVars, faultVars, JobInv,
                  SlurmInv, SubmitInv, BufferInv, Live, WritingStatus
    <2>2. QED
      BY <2>1, ApiStep, TrainerStep, FaultStep DEF Next
  <1>2. QED
    BY JobInit, <1>1, PTL DEF Spec

(* However the API process, the container and the trainers die, and at     *)
(* whatever point of their writes, no two slurm jobs of a directory live   *)
(* at once.                                                                *)
THEOREM OneTrainerPerDirectory == Spec => []OneLiveJob
  <1>1. JobInv => OneLiveJob
    BY DEF JobInv, SlurmInv, OneLiveJob
  <1>2. QED
    BY JobInvariance, <1>1, PTL

-----------------------------------------------------------------------------
(* Facts about the operators.                                              *)

(* A nonempty set of numbers has a least one. *)
LEMMA LeastNumber ==
    ASSUME NEW T \in SUBSET Nat, T # {}
    PROVE  \E n \in T : \A k \in T : n <= k
  <1> DEFINE R == {ss \in Nat \X Nat : ss[1] < ss[2]}
  <1>1. IsWellFoundedOn(R, Nat)
    BY NatLessThanWellFounded, Zenon DEF OpToRel
  <1>2. PICK n \in T : \A k \in T : ~ (<<k, n>> \in R)
    <2> HIDE DEF R
    <2>1. QED
      BY <1>1, WFMin, Zenon
  <1>3. ASSUME NEW k \in T PROVE n <= k
    <2>1. n \in Nat /\ k \in Nat
      OBVIOUS
    <2>2. ~ (k < n)
      BY <1>2, <2>1
    <2>3. QED
      BY <2>1, <2>2
  <1>4. QED
    BY <1>3

(* ... and among the steps a set has a last one: the latest checkpoint is  *)
(* well defined as soon as there is one.                                   *)
LEMMA LatestExists ==
    ASSUME NEW C \in SUBSET Steps, C # {}
    PROVE  LET m == CHOOSE s \in C : \A t \in C : t <= s
           IN  m \in C /\ \A t \in C : t <= m
  <1> DEFINE D == {MaxSteps - s : s \in C}
  <1>1. D \in SUBSET Nat /\ D # {}
    <2>1. ASSUME NEW s \in C PROVE MaxSteps - s \in Nat
      BY DEF Steps
    <2>2. QED
      BY <2>1
  <1>2. PICK n \in D : \A k \in D : n <= k
    <2> HIDE DEF D
    <2>1. QED
      BY <1>1, LeastNumber
  <1>3. PICK m \in C : n = MaxSteps - m
    BY <1>2
  <1>4. \A t \in C : t <= m
    <2> SUFFICES ASSUME NEW t \in C PROVE t <= m
      OBVIOUS
    <2>1. n <= MaxSteps - t
      BY <1>2
    <2>2. QED
      BY <1>3, <2>1 DEF Steps
  <1>5. QED
    BY <1>3, <1>4

(* An entry that remove_closest_entry may take out exists, and is neither  *)
(* the first nor the last.                                                 *)
LEMMA ClosestExists ==
    ASSUME NEW h \in Seq(Steps), Len(h) >= 3
    PROVE  Closest(h) \in 2 .. Len(h) - 1
  <1> DEFINE I == 2 .. Len(h) - 1
             V(i) == Gap(h, i) + MaxSteps
             G == {V(i) : i \in I}
  <1>1. \A i \in I : Gap(h, i) \in Int /\ V(i) \in Nat
    <2> SUFFICES ASSUME NEW i \in I PROVE Gap(h, i) \in Int /\ V(i) \in Nat
      OBVIOUS
    <2>1. i + 1 \in 1 .. Len(h) /\ i - 1 \in 1 .. Len(h)
      OBVIOUS
    <2>2. h[i + 1] \in Steps /\ h[i - 1] \in Steps
      BY <2>1
    <2>3. QED
      BY SMTT(30), <2>2 DEF Gap, Steps
  <1>2. G \in SUBSET Nat /\ G # {}
    <2>1. 2 \in I
      OBVIOUS
    <2> HIDE DEF I, V
    <2>2. QED
      BY <1>1, <2>1
  <1>3. PICK g \in G : \A k \in G : g <= k
    <2> HIDE DEF G
    <2>1. QED
      BY <1>2, LeastNumber
  <1> DEFINE J == {i \in I : V(i) = g}
  <1>4. J \in SUBSET Nat /\ J # {}
    <2>1. I \in SUBSET Nat
      OBVIOUS
    <2> HIDE DEF I, V
    <2>2. QED
      BY <1>3, <2>1
  <1>5. PICK i \in J : \A k \in J : i <= k
    <2> HIDE DEF J
    <2>1. QED
      BY <1>4, LeastNumber
  <1>6. ASSUME NEW k \in I
        PROVE  Gap(h, i) < Gap(h, k) \/ (Gap(h, i) = Gap(h, k) /\ i <= k)
    <2>1. i \in I /\ V(i) = g /\ g <= V(k)
      <3> HIDE DEF I, V
      <3>1. QED
        BY <1>3, <1>5
    <2>2. V(k) = g => i <= k
      <3> HIDE DEF I, V
      <3>1. QED
        BY <1>5
    <2>3. Gap(h, i) \in Int /\ Gap(h, k) \in Int
      BY <1>1, <2>1
    <2>4. QED
      BY <2>1, <2>2, <2>3
  <1>7. i \in I
    OBVIOUS
  <1>8. QED
    BY <1>6, <1>7 DEF Closest

(* The history after step s, as update_history leaves it. *)
Updated(h, s) ==
    LET g == Append(h, s)
    IN  IF Len(g) > HistoryLength THEN remove_closest_entry(g) ELSE g

(* Its entries are steps, the first one is kept, and the last one is s. *)
LEMMA HistoryKept ==
    ASSUME NEW h \in Seq(Steps), NEW s \in Steps
    PROVE  /\ Updated(h, s) \in Seq(Steps)
           /\ Updated(h, s) # <<>>
           /\ Updated(h, s)[Len(Updated(h, s))] = s
           /\ Updated(h, s)[1] = IF h = <<>> THEN s ELSE h[1]
  <1>0. PICK g, k : /\ g = Append(h, s) /\ k = Updated(h, s)
                    /\ k = IF Len(g) > HistoryLength
                           THEN remove_closest_entry(g) ELSE g
    BY DEF Updated
  <1>1. /\ g \in Seq(Steps) /\ Len(g) = Len(h) + 1 /\ g[Len(g)] = s
        /\ Len(h) \in Nat /\ g[1] = IF h = <<>> THEN s ELSE h[1]
    BY <1>0
  <1>4. SUFFICES k \in Seq(Steps) /\ k # <<>> /\ k[Len(k)] = s /\ k[1] = g[1]
    BY <1>0, <1>1
  <1>2. CASE ~(Len(g) > HistoryLength)
    BY <1>0, <1>1, <1>2
  <1>3. CASE Len(g) > HistoryLength
    <2>1. Len(g) \in Nat /\ Len(g) >= 3
      BY <1>1, <1>3
    <2>2. PICK c : c = Closest(g) /\ c \in 2 .. Len(g) - 1
      BY <1>1, <2>1, ClosestExists
    <2> DEFINE a == SubSeq(g, 1, c - 1)
               b == SubSeq(g, c + 1, Len(g))
    <2>3. k = a \o b
      BY <1>0, <1>3, <2>2 DEF remove_closest_entry
    <2>4. a \in Seq(Steps) /\ Len(a) = c - 1 /\ a[1] = g[1]
      BY <1>1, <2>1, <2>2
    <2>5. /\ b \in Seq(Steps) /\ Len(b) = Len(g) - c
          /\ b[Len(g) - c] = g[Len(g)]
      <3>1. c + 1 \in 1 .. Len(g) + 1 /\ Len(g) \in c + 1 - 1 .. Len(g)
        BY <2>1, <2>2
      <3>2. Len(g) - c \in 1 .. (Len(g) - (c + 1) + 1)
        BY <2>1, <2>2
      <3>3. /\ b \in Seq(Steps) /\ Len(b) = Len(g) - (c + 1) + 1
            /\ \A i \in 1 .. Len(g) - (c + 1) + 1 : b[i] = g[c + 1 + i - 1]
        BY <1>1, <3>1, SubSeqProperties
      <3>4. b[Len(g) - c] = g[c + 1 + (Len(g) - c) - 1]
        BY <3>2, <3>3
      <3>5. c + 1 + (Len(g) - c) - 1 = Len(g) /\ Len(g) - (c + 1) + 1 = Len(g) - c
        BY <2>1, <2>2
      <3>6. QED
        BY <3>3, <3>4, <3>5
    <2> HIDE DEF a, b
    <2>6. /\ k \in Seq(Steps) /\ Len(k) = Len(g) - 1
          /\ k[1] = a[1]
          /\ k[Len(g) - 1] = b[Len(g) - c]
      <3>1. /\ k \in Seq(Steps) /\ Len(k) = Len(a) + Len(b)
            /\ \A i \in 1 .. Len(a) + Len(b) :
                  k[i] = IF i <= Len(a) THEN a[i] ELSE b[i - Len(a)]
        <4>1. a \in Seq(Steps) /\ b \in Seq(Steps)
          BY <2>4, <2>5
        <4>2. QED
          BY <2>3, <4>1, ConcatProperties, Zenon
      <3>2. Len(a) + Len(b) = Len(g) - 1 /\ 1 <= Len(a) /\ 1 \in 1 .. Len(a) + Len(b)
        BY SMTT(30), <2>1, <2>2, <2>4, <2>5
      <3>3. /\ Len(g) - 1 \in 1 .. Len(a) + Len(b) /\ ~(Len(g) - 1 <= Len(a))
            /\ (Len(g) - 1) - Len(a) = Len(g) - c
        BY SMTT(30), <2>1, <2>2, <2>4, <2>5
      <3>4. QED
        BY <3>1, <3>2, <3>3
    <2>7. QED
      BY <1>1, <2>1, <2>4, <2>5, <2>6
  <1>5. QED
    BY <1>2, <1>3

-----------------------------------------------------------------------------
(* Types.                                                                  *)

(* What is written to status.json is a status document. *)
LEMMA ContentsTypes ==
    /\ \A s \in NoJson \cup {"unknown"} : Blank(s) \in Contents
    /\ \A c \in Contents, s \in TrainingJobStatus :
          [c EXCEPT !.status = s] \in Contents
    /\ \A c \in Contents, s \in TrainingJobStatus, h \in Seq(Steps) :
          [c EXCEPT !.status = s, !.history = h] \in Contents
    /\ \A c \in Contents : TypeOK /\ WritingStatus => Patched(c) \in Contents
  <1>1. <<>> \in Seq(Steps)
    OBVIOUS
  <1>2. \A s \in NoJson \cup {"unknown"} : Blank(s) \in Contents
    BY <1>1 DEF Blank, Contents
  <1>3. \A c \in Contents, s \in TrainingJobStatus :
          [c EXCEPT !.status = s] \in Contents
    BY DEF Contents
  <1>4. \A c \in Contents, s \in TrainingJobStatus, h \in Seq(Steps) :
          [c EXCEPT !.status = s, !.history = h] \in Contents
    BY DEF Contents
  <1>5. ASSUME NEW c \in Contents, TypeOK, WritingStatus
        PROVE  Patched(c) \in Contents
    BY <1>5 DEF TypeOK, WritingStatus, Patched, Contents, TrainingJobStatus
  <1>6. QED
    BY <1>2, <1>3, <1>4, <1>5

(* Types at the start. *)
LEMMA TypeInit == Init => TypeOK
  <1>1. Blank("absent") \in Contents
    BY ContentsTypes DEF NoJson
  <1>2. <<>> \in Seq(Steps) /\ 0 \in Steps
    BY DEF Steps
  <1>3. 0 \in 0 .. MaxJobs /\ 0 \in 0 .. MaxKills /\ 0 \in 0 .. MaxCrashes
        /\ 0 \in 0 .. MaxErrors
    OBVIOUS
  <1> SUFFICES ASSUME Init PROVE TypeOK
    OBVIOUS
  <1>4. file \in Contents /\ abuf \in Contents /\ tbuf \in [Jobs -> Contents]
    BY <1>1 DEF Init
  <1>5. step \in [Jobs -> Steps] /\ history \in [Jobs -> Seq(Steps)]
    BY <1>2 DEF Init
  <1>6. submitted \in 0 .. MaxJobs /\ kills \in 0 .. MaxKills
        /\ crashes \in 0 .. MaxCrashes /\ errors \in 0 .. MaxErrors
    BY <1>3 DEF Init
  <1>7. /\ ckpt \in [Steps -> {"none", "partial", "saved"}]
        /\ slurm \in [Jobs -> {"none", "pending", "running", "ended"}]
        /\ phase \in [Jobs -> Phases]
        /\ sub \in [Jobs -> {"read", "open", "write", "delete"}]
        /\ stop \in [Jobs -> BOOLEAN]
    BY DEF Init, Phases
  <1>8. QED
    BY <1>4, <1>5, <1>6, <1>7 DEF Init, TypeOK

(* The API process keeps the types. *)
LEMMA TypeApi == TypeOK /\ ApiNext => TypeOK'
  <1> SUFFICES ASSUME TypeOK, ApiNext PROVE TypeOK'
    OBVIOUS
  <1> USE DEF TypeOK, apiVars, slurmVars, trainerVars, faultVars
  <1>0. Blank("absent") \in Contents /\ Blank("empty") \in Contents
        /\ Blank("garbled") \in Contents
    BY ContentsTypes DEF NoJson
  <1>1. CASE launch_training_job
    BY <1>1 DEF launch_training_job
  <1>2. CASE get_slurm_jobs
    BY <1>2 DEF get_slurm_jobs
  <1>3. CASE filter_running_jobs
    BY <1>3 DEF filter_running_jobs
  <1>4. CASE create_slurm_run_command
    BY <1>4 DEF create_slurm_run_command
  <1>5. CASE CommandRaises
    BY <1>5 DEF CommandRaises
  <1>6. CASE StatusRead
    <2>1. Patched(file) \in Contents
      BY <1>6, ContentsTypes DEF StatusRead
    <2>2. QED
      BY <1>6, <2>1 DEF StatusRead
  <1>7. CASE StatusOpen
    BY <1>0, <1>7 DEF StatusOpen, OpenForWriting
  <1>8. CASE StatusWrite
    BY <1>0, <1>8 DEF StatusWrite, WriteContents
  <1>9. CASE sbatch
    <2>1. submitted + 1 \in 0 .. MaxJobs
      BY <1>9 DEF sbatch
    <2>2. QED
      BY <1>9, <2>1 DEF sbatch
  <1>10. CASE sbatchFails
    BY <1>10 DEF sbatchFails
  <1>11. CASE ApiRestart
    BY <1>11 DEF ApiRestart
  <1>12. QED
    BY <1>1, <1>2, <1>3, <1>4, <1>5, <1>6, <1>7, <1>8, <1>9, <1>10, <1>11
       DEF ApiNext

(* A trainer keeps the types: its step is the latest checkpoint's or a     *)
(* step of the loop, its history made of steps.                            *)
LEMMA TypeTrainer ==
    ASSUME NEW j \in Jobs, TypeOK, JobStarts(j) \/ TrainerNext(j)
    PROVE  TypeOK'
  <1> USE DEF TypeOK, apiVars, slurmVars, trainerVars, faultVars
  <1>0. /\ Blank("absent") \in Contents /\ Blank("empty") \in Contents
        /\ Blank("garbled") \in Contents /\ Blank("unknown") \in Contents
        /\ <<>> \in Seq(Steps) /\ 0 \in Steps
    <2>1. <<>> \in Seq(Steps) /\ 0 \in Steps
      BY DEF Steps
    <2>2. QED
      BY ONLY <2>1, ContentsTypes DEF NoJson
  <1>1. CASE JobStarts(j)
    BY <1>1 DEF JobStarts, Phases
  <1>2. CASE UpdateRead(j)
    BY <1>0, <1>2 DEF UpdateRead
  <1>3. CASE UpdateOpen(j)
    BY <1>0, <1>3 DEF UpdateOpen, OpenForWriting
  <1>4. ASSUME NEW c \in Contents, UpdateWrite(j, c), NEW q \in Phases,
               phase' = [phase EXCEPT ![j] = q],
               NEW v \in BOOLEAN,
               stop' = stop \/ stop' = [stop EXCEPT ![j] = v]
        PROVE  TypeOK'
    BY <1>0, <1>4 DEF UpdateWrite, WriteContents
  <1>5. CASE TrainingBegins(j)
    <2>1. [tbuf[j] EXCEPT !.status = "TRAINING"] \in Contents
      BY ContentsTypes DEF TrainingJobStatus
    <2>2. QED
      BY <1>4, <1>5, <2>1, UpdateEnds DEF TrainingBegins
  <1>6. CASE HistoryWritten(j)
    <2>1. [tbuf[j] EXCEPT !.status = "TRAINING", !.history = history[j]]
             \in Contents
      BY ContentsTypes DEF TrainingJobStatus
    <2>2. QED
      BY <1>4, <1>6, <2>1, UpdateEnds DEF HistoryWritten
  <1>7. CASE TrainingCompletes(j)
    <2>1. [tbuf[j] EXCEPT !.status = "COMPLETED"] \in Contents
      BY ContentsTypes DEF TrainingJobStatus
    <2>2. QED
      BY <1>4, <1>7, <2>1, UpdateEnds DEF TrainingCompletes
  <1>8. CASE TrainingFails(j)
    <2>1. [tbuf[j] EXCEPT !.status = "FAILED"] \in Contents
      BY ContentsTypes DEF TrainingJobStatus
    <2>2. QED
      BY <1>4, <1>8, <2>1, UpdateEnds DEF TrainingFails
  <1>9. CASE Load(j)
    <2>1. Checkpoints # {} => get_latest_checkpoint_path \in Steps
      BY LatestExists DEF Checkpoints, get_latest_checkpoint_path
    <2>2. file.history \in Seq(Steps)
      BY DEF Contents
    <2>3. QED
      BY ZenonT(90), <1>0, <1>9, <2>1, <2>2 DEF Load, Phases
  <1>10. CASE TrainStep(j)
    <2>1. Updated(history[j], step[j]) \in Seq(Steps)
      BY HistoryKept
    <2>2. history' = [history EXCEPT ![j] = Updated(history[j], step[j])]
      BY <1>10 DEF TrainStep, Updated
    <2>3. QED
      BY <1>10, <2>1, <2>2 DEF TrainStep, Phases
  <1>11. CASE Turn(j)
    <2>1. step[j] # MaxSteps - 1 => step[j] + 1 \in Steps
      BY DEF Steps
    <2>2. QED
      BY ZenonT(40), <1>11, <2>1 DEF Turn, Phases
  <1>12. CASE SaveOpen(j)
    BY <1>12 DEF SaveOpen
  <1>13. CASE SaveWrite(j)
    BY <1>13 DEF SaveWrite
  <1>14. CASE TrainerRaises(j)
    BY <1>14 DEF TrainerRaises, Phases
  <1>15. CASE delete_old_checkpoints(j)
    BY <1>15 DEF delete_old_checkpoints, Phases
  <1>16. CASE JobEnds(j)
    BY <1>0, <1>16 DEF JobEnds, Phases
  <1>17. QED
    BY <1>1, <1>2, <1>3, <1>5, <1>6, <1>7, <1>8, <1>9, <1>10, <1>11, <1>12,
       <1>13, <1>14, <1>15, <1>16 DEF TrainerNext

(* Deaths keep the types. *)
LEMMA TypeFault == TypeOK /\ FaultNext => TypeOK'
  <1> SUFFICES ASSUME TypeOK, FaultNext PROVE TypeOK'
    OBVIOUS
  <1> USE DEF TypeOK, apiVars, slurmVars, trainerVars
  <1>0. /\ Blank("absent") \in Contents /\ Blank("unknown") \in Contents
        /\ <<>> \in Seq(Steps) /\ 0 \in Steps
    <2>1. <<>> \in Seq(Steps) /\ 0 \in Steps
      BY DEF Steps
    <2>2. QED
      BY ONLY <2>1, ContentsTypes DEF NoJson
  <1>1. ASSUME NEW j \in Jobs, Signal(j) PROVE TypeOK'
    <2>0. kills' \in 0 .. MaxKills
      BY <1>1, SignalActs
    <2>1. /\ kills' \in 0 .. MaxKills /\ stop' \in [Jobs -> BOOLEAN]
          /\ UNCHANGED <<file, ckpt, api, asub, abuf, listed, submitted, slurm,
                        step, history, crashes, errors>>
      <3>1. PICK v \in BOOLEAN : stop' = stop \/ stop' = [stop EXCEPT ![j] = v]
        BY <1>1, SignalActs, Zenon
      <3>2. stop' \in [Jobs -> BOOLEAN]
        BY <3>1, Zenon
      <3>3. QED
        BY <1>1, <2>0, <3>2, SignalActs, Zenon
    <2>2. CASE SignalHides(j)
      BY <1>0, <2>1, <2>2 DEF SignalHides
    <2>3. ASSUME NEW q \in Phases, SignalMoves(j, q) PROVE TypeOK'
      <3>1. swallowed' \in BOOLEAN
        BY <2>3 DEF SignalMoves
      <3>2. QED
        BY <1>0, <2>1, <2>3, <3>1 DEF SignalMoves
    <2>4. QED
      BY <1>1, <2>2, <2>3, SignalActs
  <1>2. ASSUME NEW S, Clear(S)
        PROVE  /\ slurm' \in [Jobs -> {"none", "pending", "running", "ended"}]
               /\ phase' \in [Jobs -> Phases]
               /\ sub' \in [Jobs -> {"read", "open", "write", "delete"}]
               /\ tbuf' \in [Jobs -> Contents]
               /\ step' \in [Jobs -> Steps]
               /\ history' \in [Jobs -> Seq(Steps)]
               /\ stop' \in [Jobs -> BOOLEAN]
    <2>1. /\ slurm' \in [Jobs -> {"none", "pending", "running", "ended"}]
          /\ phase' \in [Jobs -> Phases]
          /\ sub' \in [Jobs -> {"read", "open", "write", "delete"}]
          /\ tbuf' \in [Jobs -> Contents]
      BY <1>0, <1>2 DEF Clear, Phases
    <2>2. /\ step' \in [Jobs -> Steps]
          /\ history' \in [Jobs -> Seq(Steps)]
          /\ stop' \in [Jobs -> BOOLEAN]
      BY <1>0, <1>2 DEF Clear
    <2>3. QED
      BY <2>1, <2>2
  <1>3. ASSUME NEW j \in Jobs, JobKilled(j) PROVE TypeOK'
    BY <1>2, <1>3 DEF JobKilled
  <1>4. ApiDies => crashes + 1 \in 0 .. MaxCrashes
    BY DEF ApiDies
  <1>5. CASE ApiCrash
    BY <1>0, <1>4, <1>5 DEF ApiCrash, ApiDies
  <1>6. CASE ContainerCrash
    BY <1>0, <1>2, <1>4, <1>6 DEF ContainerCrash, ApiDies
  <1>7. QED
    BY <1>1, <1>3, <1>5, <1>6 DEF FaultNext, Signal

(* The types are an invariant. *)
THEOREM JobTypes == Spec => []TypeOK
  <1>1. TypeOK /\ [Next]_vars => TypeOK'
    <2> SUFFICES ASSUME TypeOK, [Next]_vars PROVE TypeOK'
      OBVIOUS
    <2>1. CASE UNCHANGED vars
      BY <2>1 DEF vars, apiVars, slurmVars, trainerVars, faultVars, TypeOK
    <2>2. QED
      BY <2>1, TypeApi, TypeTrainer, TypeFault DEF Next
  <1>2. QED
    BY TypeInit, <1>1, PTL DEF Spec

-----------------------------------------------------------------------------
(* The outcome and the checkpoints.                                        *)

Outcomes == {"COMPLETED", "FAILED"}

(* The phases in which the trainer has a step of its own. *)
AtWork == {"train", "history", "checkpoint", "turn", "final", "completed"}

(* A submission is prepared only for a directory without an outcome and    *)
(* without a live job, and after COMPLETED a trainer writes FAILED at most. *)
LaunchInv ==
    /\ api \in {"command", "queued", "sbatch", "refused"} =>
          file.status \notin Outcomes /\ \A j \in Jobs : ~Live(j)
    /\ file.status = "COMPLETED" =>
          \A j \in Jobs : /\ slurm[j] # "pending"
                         /\ phase[j] \in {"off", "done", "failed", "exit"}
    /\ asub # "read" =>
          abuf.status = IF api = "refused" THEN "FAILED" ELSE "QUEUED"

(* A trainer is behind no checkpoint of the directory, is in the middle of *)
(* no write when it has none, and has saved its own step before it says    *)
(* COMPLETED.                                                              *)
CkptInv ==
    /\ \A j \in Jobs : phase[j] \in AtWork =>
          \A s \in Checkpoints : s <= step[j]
    /\ \A j \in Jobs :
          phase[j] \in {"checkpoint", "final"} /\ sub[j] = "delete" =>
             ckpt[step[j]] = "saved"
    /\ \A j \in Jobs :
          phase[j] \in {"off", "load", "train", "turn", "done", "exit"} =>
             sub[j] = "read"
    /\ \A j \in Jobs : phase[j] = "completed" => ckpt[step[j]] = "saved"
    /\ file.status = "COMPLETED" =>
          \E s \in Steps : ckpt[s] = "saved" /\ \A t \in Checkpoints : t <= s

(* Only one trainer has left "off", and none without a live job. *)
LEMMA OneAtATime ==
    ASSUME JobInv
    PROVE  /\ \A i, j \in Jobs : phase[i] # "off" /\ phase[j] # "off" => i = j
           /\ (\A j \in Jobs : ~Live(j)) => \A j \in Jobs : phase[j] = "off"
           /\ \A i, j \in Jobs : phase[i] # "off" /\ slurm[j] = "pending" => i = j
           /\ \A j \in Jobs : slurm[j] = "pending" => phase[j] = "off"
           /\ \A j \in Jobs : phase[j] # "off" => Live(j)
  BY DEF JobInv, SlurmInv, Live

(* Whoever prepares a submission found no outcome. *)
LEMMA LaunchApi == JobInv /\ LaunchInv /\ ApiNext => LaunchInv'
  <1> SUFFICES ASSUME JobInv, LaunchInv, ApiNext PROVE LaunchInv'
    OBVIOUS
  <1> USE OneAtATime
  <1>0. api \notin {"queued", "refused", "record"} => asub = "read"
    BY DEF JobInv, BufferInv, WritingStatus
  <1> USE <1>0 DEF LaunchInv, Live, Outcomes, slurmVars, trainerVars, faultVars
  <1>1. CASE launch_training_job
    <2>1. submitted = 0 /\ \A j \in Jobs : slurm[j] = "none"
      BY <1>1 DEF launch_training_job, JobInv, SubmitInv, SlurmInv, Jobs
    <2>2. QED
      BY <1>1, <2>1 DEF launch_training_job
  <1>2. CASE get_slurm_jobs
    BY <1>2 DEF get_slurm_jobs
  <1>3. CASE filter_running_jobs
    BY <1>3 DEF filter_running_jobs, get_running_jobs, JobInv, SubmitInv
  <1>4. CASE create_slurm_run_command
    BY <1>4 DEF create_slurm_run_command
  <1>5. CASE CommandRaises
    BY <1>5 DEF CommandRaises
  <1>6. CASE StatusRead
    <2>1. /\ WritingStatus
          /\ asub' = "open" => /\ abuf' = Patched(file)
                               /\ api' = api
      BY <1>6 DEF StatusRead
    <2>2. Patched(file).status = IF api = "refused" THEN "FAILED" ELSE "QUEUED"
      BY <2>1 DEF Patched, WritingStatus, JobInv, BufferInv
    <2>3. QED
      BY <1>6, <2>1, <2>2 DEF StatusRead
  <1>7. CASE StatusOpen
    BY <1>7 DEF StatusOpen, OpenForWriting, Blank
  <1>8. CASE StatusWrite
    BY <1>8 DEF StatusWrite, WriteContents, WritingStatus, Blank, JobInv, BufferInv
  <1>9. CASE sbatch
    BY <1>9 DEF sbatch
  <1>10. CASE sbatchFails
    BY <1>10 DEF sbatchFails
  <1>11. CASE ApiRestart
    BY <1>11 DEF ApiRestart
  <1>12. QED
    BY <1>1, <1>2, <1>3, <1>4, <1>5, <1>6, <1>7, <1>8, <1>9, <1>10, <1>11
       DEF ApiNext

(* A trainer writes COMPLETED as the one live job, and leaves. *)
LEMMA LaunchTrainer ==
    ASSUME NEW j \in Jobs, JobInv, LaunchInv, JobStarts(j) \/ TrainerNext(j)
    PROVE  LaunchInv'
  <1>0. /\ phase \in [Jobs -> Phases]
        /\ slurm \in [Jobs -> {"none", "pending", "running", "ended"}]
    BY DEF JobInv, SlurmInv
  <1> USE <1>0, OneAtATime
      DEF LaunchInv, Live, Outcomes, apiVars, slurmVars, trainerVars, faultVars
  <1>1. CASE JobStarts(j)
    BY <1>1 DEF JobStarts
  <1>2. CASE UpdateRead(j)
    BY <1>2 DEF UpdateRead
  <1>3. CASE UpdateOpen(j)
    BY <1>3 DEF UpdateOpen, OpenForWriting, Blank
  <1>4. ASSUME NEW c, UpdateWrite(j, c), phase[j] # "off",
               NEW q, phase' = [phase EXCEPT ![j] = q],
               c.status = "COMPLETED" => q = "done"
        PROVE  LaunchInv'
    <2>1. file'.status = "COMPLETED" => c.status = "COMPLETED"
      BY <1>4 DEF UpdateWrite, WriteContents, Blank
    <2>2. api \notin {"command", "queued", "sbatch", "refused"}
      BY <1>4
    <2>3. QED
      BY <1>4, <2>1, <2>2 DEF UpdateWrite
  <1>5. /\ \A s : [tbuf[j] EXCEPT !.status = s].status = s
        /\ \A s, h : [tbuf[j] EXCEPT !.status = s, !.history = h].status = s
    <2>1. "status" \in DOMAIN tbuf[j]
      BY DEF JobInv, BufferInv
    <2>2. QED
      BY <2>1
  <1>6. CASE TrainingBegins(j)
    <2> DEFINE c == [tbuf[j] EXCEPT !.status = "TRAINING"]
    <2>0. c.status = "TRAINING"
      BY <1>5
    <2> HIDE DEF c
    <2>1. UpdateWrite(j, c) /\ c.status = "TRAINING"
      BY <1>6, <2>0 DEF TrainingBegins, c
    <2>2. QED
      BY <1>4, <1>6, <2>1, UpdateEnds DEF TrainingBegins
  <1>7. CASE HistoryWritten(j)
    <2> DEFINE c == [tbuf[j] EXCEPT !.status = "TRAINING", !.history = history[j]]
    <2>0. c.status = "TRAINING"
      BY <1>5
    <2> HIDE DEF c
    <2>1. UpdateWrite(j, c) /\ c.status = "TRAINING"
      BY <1>7, <2>0 DEF HistoryWritten, c
    <2>2. QED
      BY <1>4, <1>7, <2>1, UpdateEnds DEF HistoryWritten
  <1>8. CASE TrainingCompletes(j)
    <2> DEFINE c == [tbuf[j] EXCEPT !.status = "COMPLETED"]
    <2>0. c.status = "COMPLETED"
      BY <1>5
    <2> HIDE DEF c
    <2>1. UpdateWrite(j, c) /\ c.status = "COMPLETED"
      BY <1>8, <2>0 DEF TrainingCompletes, c
    <2>2. phase[j] = "completed" /\ phase' = [phase EXCEPT ![j] = "done"]
      BY <1>8, UpdateEnds DEF TrainingCompletes
    <2>3. phase[j] # "off"
      BY <2>2
    <2>4. QED
      BY <1>4, <2>1, <2>2, <2>3
  <1>9. CASE TrainingFails(j)
    <2> DEFINE c == [tbuf[j] EXCEPT !.status = "FAILED"]
    <2>0. c.status = "FAILED"
      BY <1>5
    <2> HIDE DEF c
    <2>1. UpdateWrite(j, c) /\ c.status = "FAILED"
      BY <1>9, <2>0 DEF TrainingFails, c
    <2>2. QED
      BY <1>4, <1>9, <2>1, UpdateEnds DEF TrainingFails
  <1>10. CASE Load(j)
    BY <1>10 DEF Load
  <1>11. CASE TrainStep(j)
    BY <1>11 DEF TrainStep
  <1>12. CASE Turn(j)
    BY <1>12 DEF Turn
  <1>13. CASE SaveOpen(j)
    BY <1>13 DEF SaveOpen
  <1>14. CASE SaveWrite(j)
    BY <1>14 DEF SaveWrite
  <1>15. CASE TrainerRaises(j)
    BY <1>15 DEF TrainerRaises
  <1>16. CASE delete_old_checkpoints(j)
    BY <1>16 DEF delete_old_checkpoints
  <1>17. CASE JobEnds(j)
    BY <1>17 DEF JobEnds
  <1>18. QED
    BY <1>1, <1>2, <1>3, <1>6, <1>7, <1>8, <1>9, <1>10, <1>11, <1>12,
       <1>13, <1>14, <1>15, <1>16, <1>17 DEF TrainerNext

(* Deaths change no status and start nothing. *)
LEMMA LaunchFault == JobInv /\ LaunchInv /\ FaultNext => LaunchInv'
  <1> SUFFICES ASSUME JobInv, LaunchInv, FaultNext PROVE LaunchInv'
    OBVIOUS
  <1>0. /\ phase \in [Jobs -> Phases]
        /\ slurm \in [Jobs -> {"none", "pending", "running", "ended"}]
    BY DEF JobInv, SlurmInv
  <1> USE <1>0, OneAtATime DEF LaunchInv, Live, Outcomes, apiVars, slurmVars, trainerVars
  <1>1. ASSUME NEW j \in Jobs, Signal(j) PROVE LaunchInv'
    <2>1. UNCHANGED <<file, api, asub, abuf, slurm>>
      BY <1>1, SignalActs
    <2>2. \A i \in Jobs : phase[i] \in {"off", "done", "failed", "exit"} =>
                           phase'[i] \in {"off", "done", "failed", "exit"}
      <3>1. CASE SignalHides(j)
        BY <3>1 DEF SignalHides
      <3>2. ASSUME NEW q \in Phases, SignalMoves(j, q)
            PROVE  phase'[j] = q /\ \A i \in Jobs : i # j => phase'[i] = phase[i]
        BY <3>2 DEF SignalMoves
      <3>3. ASSUME NEW q \in Phases, SignalMoves(j, q),
                   phase[j] \in {"off", "done", "failed", "exit"}
            PROVE  q \in {"failed", "exit"}
        BY <3>3 DEF SignalMoves
      <3>4. QED
        BY <1>1, <3>1, <3>2, <3>3, SignalActs
    <2>3. QED
      BY <2>1, <2>2
  <1>2. ASSUME NEW S, Clear(S)
        PROVE  \A j \in Jobs : /\ slurm'[j] \in {slurm[j], "ended"}
                               /\ phase'[j] \in {phase[j], "off"}
    BY <1>2 DEF Clear
  <1>3. ASSUME NEW j \in Jobs, JobKilled(j) PROVE LaunchInv'
    BY <1>2, <1>3 DEF JobKilled
  <1>4. CASE ApiCrash
    BY <1>4 DEF ApiCrash, ApiDies
  <1>5. CASE ContainerCrash
    BY <1>2, <1>5 DEF ContainerCrash, ApiDies
  <1>6. QED
    BY <1>1, <1>3, <1>4, <1>5 DEF FaultNext, Signal

(* The API process touches no checkpoint and writes no COMPLETED. *)
LEMMA CkptApi == JobInv /\ LaunchInv /\ CkptInv /\ ApiNext => CkptInv'
  <1> SUFFICES ASSUME JobInv, LaunchInv, CkptInv, ApiNext PROVE CkptInv'
    OBVIOUS
  <1>1. UNCHANGED <<ckpt, phase, step, sub>>
    BY DEF ApiNext, launch_training_job, get_slurm_jobs, filter_running_jobs,
           create_slurm_run_command, CommandRaises, StatusRead, StatusOpen,
           StatusWrite, sbatch, sbatchFails, ApiRestart, trainerVars, slurmVars
  <1>2. file'.status = "COMPLETED" => file.status = "COMPLETED"
    <2>1. CASE UNCHANGED file
      BY <2>1
    <2>2. CASE StatusOpen
      BY <2>2 DEF StatusOpen, OpenForWriting, Blank
    <2>3. CASE StatusWrite
      BY <2>3 DEF StatusWrite, WriteContents, Blank, LaunchInv
    <2>4. QED
      BY <2>1, <2>2, <2>3
         DEF ApiNext, launch_training_job, get_slurm_jobs, filter_running_jobs,
             create_slurm_run_command, CommandRaises, StatusRead, sbatch,
             sbatchFails, ApiRestart
  <1>3. QED
    BY <1>1, <1>2 DEF CkptInv, Checkpoints

(* The newest checkpoint of a set outlives delete_old_checkpoints. *)
LEMMA NewestIsKept ==
    ASSUME NEW s \in Steps, \A t \in Checkpoints : t <= s
    PROVE  ~(Cardinality({t \in Checkpoints : t > s}) >= KeepCheckpoints)
  <1>1. {t \in Checkpoints : t > s} = {}
    BY DEF Checkpoints, Steps
  <1>2. Cardinality({}) = 0
    BY FS_EmptySet
  <1>3. QED
    BY <1>1, <1>2

(* A trainer saves the step it is at, and keeps the newest checkpoint. *)
LEMMA CkptTrainer ==
    ASSUME NEW j \in Jobs, JobInv, LaunchInv, TypeOK, CkptInv,
           JobStarts(j) \/ TrainerNext(j)
    PROVE  CkptInv'
  <1>0. /\ phase \in [Jobs -> Phases]
        /\ sub \in [Jobs -> {"read", "open", "write", "delete"}]
        /\ ckpt \in [Steps -> {"none", "partial", "saved"}]
        /\ step \in [Jobs -> Steps]
        /\ \A i \in Jobs : i # j /\ phase[j] # "off" => phase[i] = "off"
        /\ phase[j] \notin {"off", "done", "failed", "exit"} =>
              file.status # "COMPLETED"
    BY OneAtATime DEF TypeOK, LaunchInv
  <1> USE <1>0 DEF AtWork, apiVars, slurmVars, trainerVars, faultVars
  <1>1. CASE JobStarts(j)
    BY <1>1 DEF JobStarts, CkptInv, Checkpoints
  <1>2. CASE UpdateRead(j)
    BY <1>2 DEF UpdateRead, Updating, CkptInv, Checkpoints
  <1>3. CASE UpdateOpen(j)
    BY <1>3 DEF UpdateOpen, Updating, OpenForWriting, Blank, CkptInv, Checkpoints
  <1>4. ASSUME NEW c, UpdateWrite(j, c), phase[j] \notin {"off", "exit"},
               phase' = [phase EXCEPT ![j] = phase'[j]],
               phase'[j] # "completed",
               phase'[j] \in AtWork => phase[j] \in AtWork,
               c.status # "COMPLETED"
        PROVE  CkptInv'
    <2>1. file'.status # "COMPLETED"
      BY <1>4 DEF UpdateWrite, WriteContents, Blank
    <2>2. UNCHANGED <<ckpt, step>> /\ sub' = [sub EXCEPT ![j] = "read"]
      BY <1>4 DEF UpdateWrite
    <2>3. QED
      BY <1>4, <2>1, <2>2 DEF CkptInv, Checkpoints
  <1>5. /\ \A s : [tbuf[j] EXCEPT !.status = s].status = s
        /\ \A s, h : [tbuf[j] EXCEPT !.status = s, !.history = h].status = s
    <2>1. "status" \in DOMAIN tbuf[j]
      BY DEF JobInv, BufferInv
    <2>2. QED
      BY <2>1
  <1>6. CASE TrainingBegins(j)
    <2>1. PICK c : UpdateWrite(j, c) /\ c.status = "TRAINING"
      BY <1>5, <1>6 DEF TrainingBegins
    <2>2. PICK q \in {"load"} : phase' = [phase EXCEPT ![j] = q]
      BY <1>6, UpdateEnds DEF TrainingBegins
    <2>3. phase[j] \notin {"off", "exit"}
      BY <1>6 DEF TrainingBegins
    <2>4. QED
      BY <1>4, <2>1, <2>2, <2>3
  <1>7. CASE HistoryWritten(j)
    <2> DEFINE c == [tbuf[j] EXCEPT !.status = "TRAINING", !.history = history[j]]
    <2>0. c.status = "TRAINING"
      BY <1>5
    <2> HIDE DEF c
    <2>1. UpdateWrite(j, c) /\ c.status = "TRAINING"
      BY <1>7, <2>0 DEF HistoryWritten, c
    <2>2. PICK q \in {"checkpoint", "turn"} : phase' = [phase EXCEPT ![j] = q]
      BY <1>7, UpdateEnds DEF HistoryWritten
    <2>3. phase[j] \notin {"off", "exit"} /\ phase[j] = "history"
      BY <1>7 DEF HistoryWritten
    <2>4. QED
      BY <1>4, <2>1, <2>2, <2>3
  <1>8. CASE TrainingCompletes(j)
    <2>1. /\ phase' = [phase EXCEPT ![j] = "done"]
          /\ sub' = [sub EXCEPT ![j] = "read"]
          /\ UNCHANGED <<ckpt, step>>
      BY <1>8, UpdateEnds DEF TrainingCompletes, UpdateWrite
    <2>2. /\ step[j] \in Steps /\ ckpt[step[j]] = "saved"
          /\ \A t \in Checkpoints : t <= step[j]
      BY <1>8 DEF TrainingCompletes, CkptInv
    <2>3. QED
      BY <1>8, <2>1, <2>2 DEF TrainingCompletes, CkptInv, Checkpoints
  <1>9. CASE TrainingFails(j)
    <2>1. PICK c : UpdateWrite(j, c) /\ c.status = "FAILED"
      BY <1>5, <1>9 DEF TrainingFails
    <2>2. PICK q \in {"exit"} : phase' = [phase EXCEPT ![j] = q]
      BY <1>9, UpdateEnds DEF TrainingFails
    <2>3. phase[j] \notin {"off", "exit"}
      BY <1>9 DEF TrainingFails
    <2>4. QED
      BY <1>4, <2>1, <2>2, <2>3
  <1>10. CASE Load(j)
    <2>1. Checkpoints # {} => \A t \in Checkpoints : t <= get_latest_checkpoint_path
      BY LatestExists DEF Checkpoints, get_latest_checkpoint_path
    <2>2. UNCHANGED <<file, ckpt, sub>>
      BY <1>10 DEF Load
    <2>3. \/ phase' = [phase EXCEPT ![j] = "failed"] /\ UNCHANGED step
          \/ /\ phase' = [phase EXCEPT ![j] = "train"]
             /\ \E s : /\ step' = [step EXCEPT ![j] = s]
                       /\ \A t \in Checkpoints : t <= s
      BY <1>10, <2>1 DEF Load
    <2>4. phase[j] = "load"
      BY <1>10 DEF Load
    <2>5. QED
      BY <2>2, <2>3, <2>4 DEF CkptInv, Checkpoints
  <1>11. CASE TrainStep(j)
    BY <1>11 DEF TrainStep, CkptInv, Checkpoints
  <1>12. CASE Turn(j)
    <2>1. \A t \in Checkpoints : t <= step[j] /\ t <= step[j] + 1
      BY <1>12 DEF Turn, CkptInv, Checkpoints, Steps
    <2>2. /\ UNCHANGED <<file, ckpt, sub>> /\ phase[j] = "turn" /\ sub[j] = sub'[j]
          /\ \E q \in {"final", "train"} : phase' = [phase EXCEPT ![j] = q]
          /\ \E s \in {step[j], step[j] + 1} : step' = [step EXCEPT ![j] = s]
      BY <1>12 DEF Turn
    <2>3. QED
      BY <2>1, <2>2 DEF CkptInv, Checkpoints
  <1>13. CASE SaveOpen(j)
    <2>1. Checkpoints' = Checkpoints \cup {step[j]}
      BY <1>13 DEF SaveOpen, Checkpoints
    <2>2. \A t \in Checkpoints \cup {step[j]} : t <= step[j]
      BY <1>13 DEF SaveOpen, CkptInv, Steps
    <2>3. QED
      BY <1>13, <2>1, <2>2 DEF SaveOpen, CkptInv
  <1>14. CASE SaveWrite(j)
    <2>1. Checkpoints' = Checkpoints \cup {step[j]}
      BY <1>14 DEF SaveWrite, Checkpoints
    <2>2. \A t \in Checkpoints \cup {step[j]} : t <= step[j]
      BY <1>14 DEF SaveWrite, CkptInv, Steps
    <2>3. QED
      BY <1>14, <2>1, <2>2 DEF SaveWrite, CkptInv
  <1>15. CASE TrainerRaises(j)
    BY <1>15 DEF TrainerRaises, CkptInv, Checkpoints
  <1>16. CASE delete_old_checkpoints(j)
    <2>1. /\ phase[j] \in {"checkpoint", "final"} /\ sub[j] = "delete"
          /\ step[j] \in Steps /\ ckpt[step[j]] = "saved"
          /\ \A t \in Checkpoints : t <= step[j]
      BY <1>16 DEF delete_old_checkpoints, CkptInv
    <2>2. /\ \A s \in Steps : ckpt'[s] \in {ckpt[s], "none"}
          /\ ckpt'[step[j]] = "saved"
      BY <1>16, <2>1, NewestIsKept DEF delete_old_checkpoints
    <2>3. \A t \in Checkpoints' : t \in Checkpoints
      BY <2>2 DEF Checkpoints
    <2>4. /\ UNCHANGED <<file, step>>
          /\ sub' = [sub EXCEPT ![j] = "read"]
          /\ \E q : phase' = [phase EXCEPT ![j] = q]
      BY <1>16 DEF delete_old_checkpoints
    <2>5. QED
      BY <2>1, <2>2, <2>3, <2>4 DEF CkptInv
  <1>17. CASE JobEnds(j)
    BY <1>17 DEF JobEnds, CkptInv, Checkpoints
  <1>18. QED
    BY <1>1, <1>2, <1>3, <1>6, <1>7, <1>8, <1>9, <1>10, <1>11, <1>12,
       <1>13, <1>14, <1>15, <1>16, <1>17 DEF TrainerNext

(* Deaths leave the checkpoints as they are. *)
LEMMA CkptFault == TypeOK /\ CkptInv /\ FaultNext => CkptInv'
  <1> SUFFICES ASSUME TypeOK, CkptInv, FaultNext PROVE CkptInv'
    OBVIOUS
  <1>0. UNCHANGED <<file, ckpt>>
    BY SignalActs DEF FaultNext, Signal, JobKilled, ApiCrash, ContainerCrash, ApiDies
  <1> DEFINE Kept(j) ==
                \/ phase'[j] = phase[j] /\ step'[j] = step[j] /\ sub'[j] = sub[j]
                \/ phase'[j] \in {"off", "load", "done", "failed", "exit"} /\ sub'[j] = "read"
                \/ /\ phase[j] = "history" /\ phase'[j] \in {"checkpoint", "turn"}
                   /\ step'[j] = step[j] /\ sub'[j] = "read"
                \/ /\ phase'[j] = phase[j] /\ Updating(j)
                   /\ step'[j] = step[j] /\ sub'[j] = "open"
  <1>1. \A j \in Jobs : Kept(j)
    <2>1. ASSUME NEW i \in Jobs, Signal(i)
          PROVE  \A j \in Jobs : Kept(j)
      <3>0. SignalHides(i) \/ \E q \in Phases : SignalMoves(i, q)
        BY <2>1, SignalActs
      <3>1. CASE SignalHides(i)
        BY <2>1, <3>1, SignalActs DEF TypeOK, SignalHides
      <3>2. ASSUME NEW q \in Phases, SignalMoves(i, q)
            PROVE  \A j \in Jobs : Kept(j)
        <4>1. UNCHANGED <<step, history>>
          BY <2>1, SignalActs
        <4>2. QED
          BY <3>2, <4>1 DEF TypeOK, SignalMoves
      <3>3. QED
        BY <3>0, <3>1, <3>2
    <2>2. ASSUME NEW S, Clear(S) PROVE \A j \in Jobs : Kept(j)
      BY <2>2 DEF TypeOK, Clear
    <2>3. CASE ApiCrash
      BY <2>3 DEF ApiCrash, trainerVars
    <2>4. QED
      BY <2>1, <2>2, <2>3 DEF FaultNext, Signal, JobKilled, ContainerCrash
  <1>2. QED
    BY <1>0, <1>1 DEF CkptInv, Checkpoints, AtWork, Updating

(* JobInv, the types and the two invariants of this section together. *)
OutcomeInv == JobInv /\ TypeOK /\ LaunchInv /\ CkptInv

(* They hold at the start, and every step keeps them. *)
LEMMA OutcomeStep ==
    /\ Init => OutcomeInv
    /\ OutcomeInv /\ [Next]_vars => OutcomeInv'
  <1>1. ASSUME Init PROVE OutcomeInv
    <2>1. JobInv /\ TypeOK
      BY <1>1, JobInit, TypeInit
    <2>2. LaunchInv /\ CkptInv
      BY <1>1 DEF Init, LaunchInv, CkptInv, AtWork, Blank
    <2>3. QED
      BY <2>1, <2>2 DEF OutcomeInv
  <1>2. ASSUME OutcomeInv, UNCHANGED vars PROVE OutcomeInv'
    BY <1>2 DEF vars, apiVars, slurmVars, trainerVars, faultVars, OutcomeInv,
                JobInv, SlurmInv, SubmitInv, BufferInv, Live, WritingStatus,
                TypeOK, LaunchInv, CkptInv, Checkpoints
  <1>3. ASSUME OutcomeInv, Next PROVE OutcomeInv'
    <2> USE <1>3 DEF OutcomeInv
    <2>1. CASE ApiNext
      BY <2>1, ApiStep, TypeApi, LaunchApi, CkptApi
    <2>2. ASSUME NEW j \in Jobs, JobStarts(j) \/ TrainerNext(j)
          PROVE  OutcomeInv'
      BY <2>2, TrainerStep, TypeTrainer, LaunchTrainer, CkptTrainer
    <2>3. CASE FaultNext
      BY <2>3, FaultStep, TypeFault, LaunchFault, CkptFault
    <2>4. QED
      BY <2>1, <2>2, <2>3 DEF Next
  <1>4. QED
    BY <1>1, <1>2, <1>3

(* ... so they are invariants. *)
THEOREM OutcomeInvariance == Spec => []OutcomeInv
  BY OutcomeStep, PTL DEF Spec

(* Whatever is torn, killed and restarted, a job that says COMPLETED has a *)
(* whole checkpoint, and it is the one that get_latest_checkpoint_path     *)
(* finds.                                                                  *)
THEOREM CompletedJobIsSaved == Spec => []JobIsConsistent
  <1>1. OutcomeInv => JobIsConsistent
    <2> SUFFICES ASSUME OutcomeInv PROVE JobIsConsistent
      OBVIOUS
    <2>1. ASSUME file.status = "COMPLETED"
          PROVE  Checkpoints # {} /\ ckpt[get_latest_checkpoint_path] = "saved"
      <3>1. PICK s \in Steps : ckpt[s] = "saved" /\ \A t \in Checkpoints : t <= s
        BY <2>1 DEF OutcomeInv, CkptInv
      <3>2. s \in Checkpoints
        BY <3>1 DEF Checkpoints
      <3>3. PICK m : /\ m = get_latest_checkpoint_path
                     /\ m \in Checkpoints /\ \A t \in Checkpoints : t <= m
        BY <3>2, LatestExists DEF Checkpoints, get_latest_checkpoint_path
      <3>4. m = s
        BY <3>1, <3>2, <3>3 DEF Checkpoints, Steps
      <3>5. QED
        BY <3>1, <3>2, <3>3, <3>4
    <2>2. QED
      BY <2>1 DEF OutcomeInv, JobIsConsistent, CompletedIsSaved
  <1>2. QED
    BY OutcomeInvariance, <1>1, PTL

(* A trainer that takes a step is on, and changes neither the API process  *)
(* nor slurm's numbers nor where another trainer is.                       *)
LEMMA TrainerActs ==
    ASSUME NEW j \in Jobs, TypeOK, TrainerNext(j)
    PROVE  /\ phase[j] # "off"
           /\ UNCHANGED <<api, asub, abuf, submitted, swallowed>>
           /\ \E q : phase' = [phase EXCEPT ![j] = q]
  <1>0. phase = [phase EXCEPT ![j] = phase[j]]
    BY DEF TypeOK
  <1> USE DEF TrainerNext, UpdateRead, UpdateOpen, TrainingBegins, Load,
        TrainStep, HistoryWritten, Turn, SaveOpen, SaveWrite,
        delete_old_checkpoints, TrainingCompletes, TrainerRaises,
        TrainingFails, JobEnds
  <1>1. phase[j] # "off"
    BY DEF Updating
  <1>2. UNCHANGED <<api, asub, abuf, submitted, swallowed>>
    BY DEF UpdateWrite, apiVars, slurmVars, faultVars
  <1>3. \E q : phase' = [phase EXCEPT ![j] = q]
    BY <1>0, UpdateEnds
  <1>4. QED
    BY <1>1, <1>2, <1>3

-----------------------------------------------------------------------------
(* The last write of the API process, when run_sbatch ends before the      *)
(* job's python starts.                                                    *)

(* The job id is recorded while the job is still pending, over a status    *)
(* that is no outcome.                                                     *)
TimelyInv ==
    api = "record" =>
        /\ file.status \notin Outcomes
        /\ \A j \in Jobs : phase[j] = "off"

(* No trainer works while the API process is between its decision to       *)
(* submit and its last write.                                              *)
LEMMA ApiIsAlone ==
    ASSUME JobInv, LaunchInv, TimelyInv, NEW j \in Jobs, phase[j] # "off"
    PROVE  /\ api \notin {"command", "queued", "sbatch", "refused", "record"}
           /\ asub = "read"
           /\ \A i \in Jobs : i # j => phase[i] = "off"
           /\ file.status # "absent"
  <1>1. api \notin {"command", "queued", "sbatch", "refused", "record"}
    BY OneAtATime DEF LaunchInv, TimelyInv
  <1>2. asub = "read"
    BY <1>1 DEF JobInv, BufferInv, WritingStatus
  <1>3. file.status # "absent"
    BY DEF JobInv, SlurmInv, SubmitInv, Jobs
  <1>4. QED
    BY <1>1, <1>2, <1>3, OneAtATime

(* Every step keeps TimelyInv. *)
LEMMA TimelyStep ==
    ASSUME Timely, JobInv, TypeOK, LaunchInv, TimelyInv, [Next]_vars
    PROVE  TimelyInv'
  <1>0. phase \in [Jobs -> Phases]
    BY DEF TypeOK
  <1>1. CASE UNCHANGED vars
    BY <1>1 DEF vars, apiVars, trainerVars, TimelyInv
  <1>2. CASE ApiNext
    <2>1. UNCHANGED phase
      BY <1>2 DEF ApiNext, launch_training_job, get_slurm_jobs,
           filter_running_jobs, create_slurm_run_command, CommandRaises,
           StatusRead, StatusOpen, StatusWrite, sbatch, sbatchFails,
           ApiRestart, trainerVars
    <2>2. CASE sbatch
      BY <2>1, <2>2, OneAtATime DEF sbatch, LaunchInv, TimelyInv
    <2>3. CASE StatusOpen
      BY <2>1, <2>3 DEF StatusOpen, OpenForWriting, Blank, Outcomes, TimelyInv
    <2>4. CASE StatusWrite
      BY <2>4 DEF StatusWrite, TimelyInv
    <2>5. CASE StatusRead
      BY <2>1, <2>5 DEF StatusRead, TimelyInv
    <2>6. QED
      BY <1>2, <2>2, <2>3, <2>4, <2>5
         DEF ApiNext, launch_training_job, get_slurm_jobs, filter_running_jobs,
             create_slurm_run_command, CommandRaises, sbatchFails, ApiRestart,
             TimelyInv
  <1>3. ASSUME NEW j \in Jobs, TrainerNext(j) PROVE TimelyInv'
    <2>1. phase[j] # "off" /\ UNCHANGED api
      BY <1>3, TrainerActs
    <2>2. QED
      BY <2>1, ApiIsAlone DEF TimelyInv
  <1>4. ASSUME NEW j \in Jobs, JobStarts(j) PROVE TimelyInv'
    BY <1>4 DEF JobStarts, apiVars, TimelyInv
  <1>5. CASE FaultNext
    <2>1. ASSUME NEW j \in Jobs, Signal(j) PROVE TimelyInv'
      <3>1. phase[j] # "off" /\ UNCHANGED <<file, api>>
        BY <2>1, SignalActs
      <3>2. QED
        BY <3>1, ApiIsAlone DEF TimelyInv
    <2>2. ASSUME NEW j \in Jobs, JobKilled(j) PROVE TimelyInv'
      BY <2>2 DEF JobKilled, Clear, apiVars, TimelyInv
    <2>3. ApiDies => TimelyInv'
      BY DEF ApiDies, TimelyInv
    <2>4. QED
      BY <1>5, <2>1, <2>2, <2>3 DEF FaultNext, Signal, ApiCrash, ContainerCrash
  <1>6. QED
    BY <1>1, <1>2, <1>3, <1>4, <1>5 DEF Next

(* Once run_sbatch always ends before the job's python starts, TimelyInv   *)
(* holds too.                                                              *)
LEMMA TimelyInvariance ==
    ASSUME Timely
    PROVE  Spec => [](OutcomeInv /\ TimelyInv)
  <1>1. Init => TimelyInv
    BY DEF Init, TimelyInv
  <1>2. OutcomeInv /\ TimelyInv /\ [Next]_vars => TimelyInv'
    BY TimelyStep DEF OutcomeInv
  <1>3. QED
    BY <1>1, <1>2, OutcomeStep, PTL DEF Spec

(* COMPLETED and FAILED are final when run_sbatch ends before the job's    *)
(* python starts: with the process gone, neither the API process nor the   *)
(* restart loop nor a later trainer changes status.json or submits again,  *)
(* whatever dies in between.                                               *)
THEOREM OutcomesAreFinal ==
    ASSUME Timely
    PROVE  Spec => OutcomeIsFinal
  <1>1. ASSUME OutcomeInv, TimelyInv, [Next]_vars,
               file.status \in {"COMPLETED", "FAILED"},
               \A j \in Jobs : ~Live(j)
        PROVE  UNCHANGED <<file, submitted>>
    <2>1. \A j \in Jobs : phase[j] = "off" /\ slurm[j] # "pending"
      BY <1>1, OneAtATime DEF OutcomeInv, Live
    <2>2. api \notin {"command", "queued", "sbatch", "refused", "record"}
      BY <1>1 DEF OutcomeInv, LaunchInv, TimelyInv, Outcomes
    <2>3. CASE UNCHANGED vars
      BY <2>3 DEF vars, slurmVars
    <2>4. CASE ApiNext
      BY <1>1, <2>2, <2>4
         DEF ApiNext, launch_training_job, get_slurm_jobs, filter_running_jobs,
             create_slurm_run_command, CommandRaises, StatusRead, StatusOpen,
             StatusWrite, WritingStatus, sbatch, sbatchFails, ApiRestart, slurmVars
    <2>5. ASSUME NEW j \in Jobs, JobStarts(j) PROVE FALSE
      BY <2>1, <2>5 DEF JobStarts
    <2>6. ASSUME NEW j \in Jobs, TrainerNext(j) PROVE FALSE
      BY <1>1, <2>1, <2>6, TrainerActs DEF OutcomeInv
    <2>7. CASE FaultNext
      BY <2>7, SignalActs DEF FaultNext, Signal, JobKilled, ApiCrash,
                  ContainerCrash, ApiDies, slurmVars
    <2>8. QED
      BY <1>1, <2>3, <2>4, <2>5, <2>6, <2>7 DEF Next
  <1>2. OutcomeInv /\ TimelyInv /\ [Next]_vars =>
          [(file.status \in {"COMPLETED", "FAILED"} /\ \A j \in Jobs : ~Live(j))
              => UNCHANGED <<file, submitted>>]_vars
    BY <1>1
  <1>3. QED
    BY <1>2, TimelyInvariance, PTL DEF Spec, OutcomeIsFinal

-----------------------------------------------------------------------------
(* The history in status.json, when no process dies between an open and    *)
(* its write.                                                              *)

(* status.json is a whole document, but while one writer has it open. *)
FileInv ==
    /\ file.status # "garbled"
    /\ file.status = "empty" =>
          asub = "write" \/ \E j \in Jobs : Updating(j) /\ sub[j] = "write"
    /\ asub = "write" => file.status = "empty"
    /\ \A j \in Jobs : Updating(j) /\ sub[j] = "write" => file.status = "empty"
    /\ api \in {"refused", "record"} => file.status # "absent"
    /\ file.status = "absent" => file.history = <<>>

(* What a document must hold to resume from the checkpoints C, and what    *)
(* is left of it when an update was lost.                                  *)
Resumes(c, C, lost) ==
    /\ c.history # <<>> => c.history[1] = 0
    /\ ~lost => /\ c.start_time
                /\ C # {} => /\ c.history # <<>>
                             /\ \A s \in C : s <= c.history[Len(c.history)]

(* It holds of status.json and of every copy that is going to be written,  *)
(* and the trainer's own history begins with step 0 and ends with its step. *)
HistoryInv ==
    /\ Readable => Resumes(file, Checkpoints, swallowed)
    /\ asub # "read" => Resumes(abuf, Checkpoints, swallowed)
    /\ \A j \in Jobs : Updating(j) /\ sub[j] # "read" =>
          Resumes(tbuf[j], Checkpoints, swallowed)
    /\ \A j \in Jobs : phase[j] = "train" =>
          \/ history[j] = <<>> /\ step[j] = 0
          \/ history[j] # <<>> /\ history[j][1] = 0
    /\ \A j \in Jobs : phase[j] \in AtWork \ {"train"} =>
          /\ history[j] # <<>> /\ history[j][1] = 0
          /\ history[j][Len(history[j])] = step[j]
    /\ \A j \in Jobs :
          phase[j] \in {"checkpoint", "turn", "final"} /\ Readable /\ ~swallowed
            => file.history = history[j]
    /\ submitted = 0 => Checkpoints = {}

(* JobInv, the types and all the invariants but the ones of this section. *)
CalmInv == OutcomeInv /\ TimelyInv

(* Nobody else writes while a trainer or the API process has it open. *)
LEMMA FileStep ==
    ASSUME ~Torn, CalmInv, FileInv, [Next]_vars
    PROVE  FileInv'
  <1> USE DEF CalmInv, OutcomeInv
  <1>0. /\ phase \in [Jobs -> Phases]
        /\ sub \in [Jobs -> {"read", "open", "write", "delete"}]
    BY DEF TypeOK
  <1>1. CASE UNCHANGED vars
    BY <1>1 DEF vars, apiVars, trainerVars, FileInv, Updating
  <1>2. CASE ApiNext
    <2>1. UNCHANGED <<phase, sub>>
      BY <1>2 DEF ApiNext, launch_training_job, get_slurm_jobs,
           filter_running_jobs, create_slurm_run_command, CommandRaises,
           StatusRead, StatusOpen, StatusWrite, sbatch, sbatchFails,
           ApiRestart, trainerVars
    <2>2. CASE StatusRead
      BY <2>1, <2>2 DEF StatusRead, FileInv, Updating
    <2>3. CASE StatusOpen
      BY <2>1, <2>3 DEF StatusOpen, OpenForWriting, Blank, FileInv, Updating
    <2>4. CASE StatusWrite
      <3>1. file.status = "empty" /\ abuf.status \notin NoJson /\ file' = abuf
        BY <2>4 DEF StatusWrite, WriteContents, FileInv, JobInv, BufferInv
      <3>2. \A j \in Jobs : phase[j] = "off"
        BY <2>4, ApiIsAlone DEF StatusWrite
      <3>3. QED
        BY <2>1, <2>4, <3>1, <3>2 DEF StatusWrite, FileInv, Updating, NoJson
    <2>5. CASE sbatch \/ sbatchFails
      BY <2>1, <2>5 DEF sbatch, sbatchFails, JobInv, SubmitInv, FileInv, Updating
    <2>6. CASE launch_training_job \/ get_slurm_jobs \/ filter_running_jobs
               \/ create_slurm_run_command \/ CommandRaises \/ ApiRestart
      <3>1. UNCHANGED <<file, asub>> /\ api' \notin {"refused", "record"}
        BY <2>6 DEF launch_training_job, get_slurm_jobs, filter_running_jobs,
             create_slurm_run_command, CommandRaises, ApiRestart
      <3>2. QED
        BY <2>1, <3>1 DEF FileInv, Updating
    <2>7. QED
      BY <1>2, <2>2, <2>3, <2>4, <2>5, <2>6 DEF ApiNext
  <1>3. ASSUME NEW j \in Jobs, TrainerNext(j) PROVE FileInv'
    <2>1. phase[j] # "off" /\ UNCHANGED <<api, asub>>
      BY <1>3, TrainerActs
    <2>2. /\ asub = "read" /\ api \notin {"refused", "record"}
          /\ \A i \in Jobs : i # j => phase[i] = "off"
      BY <2>1, ApiIsAlone
    <2>3. UNCHANGED <<api, asub>>
      BY <2>1
    <2>4. \A i \in Jobs : i # j => phase'[i] = "off"
      BY <1>0, <1>3, <2>2, TrainerActs
    <2>5. CASE UpdateRead(j)
      BY <1>0, <2>2, <2>3, <2>4, <2>5 DEF UpdateRead, FileInv, Updating
    <2>6. CASE UpdateOpen(j)
      BY <1>0, <2>2, <2>3, <2>4, <2>6
         DEF UpdateOpen, OpenForWriting, Blank, FileInv, Updating
    <2>7. ASSUME NEW c, UpdateWrite(j, c), Updating(j),
                 c.status \in TrainingJobStatus
          PROVE  FileInv'
      <3>1. file.status = "empty" /\ file' = c /\ sub'[j] = "read"
        BY <1>0, <2>7 DEF UpdateWrite, WriteContents, FileInv
      <3>2. QED
        BY <2>2, <2>3, <2>4, <2>7, <3>1 DEF FileInv, Updating, TrainingJobStatus
    <2>8. /\ \A s : [tbuf[j] EXCEPT !.status = s].status = s
          /\ \A s, h : [tbuf[j] EXCEPT !.status = s, !.history = h].status = s
      <3>1. "status" \in DOMAIN tbuf[j]
        BY DEF JobInv, BufferInv
      <3>2. QED
        BY <3>1
    <2>9. CASE TrainingBegins(j)
      BY <2>7, <2>8, <2>9 DEF TrainingBegins, Updating, TrainingJobStatus
    <2>10. CASE HistoryWritten(j)
      <3> DEFINE c == [tbuf[j] EXCEPT !.status = "TRAINING",
                                      !.history = history[j]]
      <3>1. c.status = "TRAINING"
        BY <2>8
      <3> HIDE DEF c
      <3>2. UpdateWrite(j, c) /\ Updating(j)
        BY <2>10 DEF HistoryWritten, Updating, c
      <3>3. QED
        BY <2>7, <3>1, <3>2 DEF TrainingJobStatus
    <2>11. CASE TrainingCompletes(j)
      BY <2>7, <2>8, <2>11 DEF TrainingCompletes, Updating, TrainingJobStatus
    <2>12. CASE TrainingFails(j)
      BY <2>7, <2>8, <2>12 DEF TrainingFails, Updating, TrainingJobStatus
    <2>13. CASE Load(j) \/ TrainStep(j) \/ Turn(j) \/ TrainerRaises(j) \/ JobEnds(j)
      <3>1. UNCHANGED <<file, sub>> /\ ~Updating(j)
        BY <2>13 DEF Load, TrainStep, Turn, TrainerRaises, JobEnds, Updating
      <3>2. sub[j] = "read"
        BY <2>13 DEF Load, TrainStep, Turn, TrainerRaises, JobEnds, CkptInv
      <3>3. QED
        BY <2>2, <2>3, <2>4, <3>1, <3>2 DEF FileInv, Updating
    <2>14. CASE SaveOpen(j) \/ SaveWrite(j)
      <3>1. UNCHANGED <<file, phase>> /\ ~Updating(j)
        BY <2>14 DEF SaveOpen, SaveWrite, Updating
      <3>2. QED
        BY <2>2, <2>3, <2>4, <3>1 DEF FileInv, Updating
    <2>15. CASE delete_old_checkpoints(j)
      <3>1. UNCHANGED file /\ ~Updating(j) /\ sub'[j] = "read"
        BY <1>0, <2>15 DEF delete_old_checkpoints, Updating
      <3>2. QED
        BY <2>2, <2>3, <2>4, <3>1 DEF FileInv, Updating
    <2>16. QED
      BY <1>3, <2>5, <2>6, <2>9, <2>10, <2>11, <2>12, <2>13, <2>14, <2>15
         DEF TrainerNext
  <1>4. ASSUME NEW j \in Jobs, JobStarts(j) PROVE FileInv'
    <2>1. sub[j] = "read"
      BY <1>4, OneAtATime DEF JobStarts, CkptInv
    <2>2. QED
      BY <1>0, <1>4, <2>1, OneAtATime DEF JobStarts, FileInv, Updating, apiVars
  <1>5. CASE FaultNext
    <2>1. ASSUME NEW j \in Jobs, Signal(j) PROVE FileInv'
      <3>1. /\ UNCHANGED <<file, api, asub>>
            /\ sub[j] # "write" /\ sub'[j] # "write"
            /\ \A i \in Jobs : i # j => phase'[i] = phase[i] /\ sub'[i] = sub[i]
        <4>1. CASE SignalHides(j)
          BY <1>0, <2>1, <4>1, SignalActs DEF SignalHides
        <4>2. CASE \E q \in Phases : SignalMoves(j, q)
          BY <1>0, <2>1, <4>2, SignalActs DEF SignalMoves
        <4>3. QED
          BY <2>1, <4>1, <4>2, SignalActs
      <3>2. QED
        BY <3>1 DEF FileInv, Updating
    <2>2. ASSUME NEW j \in Jobs, JobKilled(j) PROVE FileInv'
      BY <1>0, <2>2 DEF JobKilled, Clear, FileInv, Updating, apiVars
    <2>3. CASE ApiCrash
      BY <2>3 DEF ApiCrash, ApiDies, FileInv, Updating, trainerVars
    <2>4. CASE ContainerCrash
      <3>1. PICK S : Clear(S)
        BY <2>4 DEF ContainerCrash
      <3>2. /\ UNCHANGED file /\ asub' = "read" /\ api' = "down"
            /\ file.status # "empty"
            /\ \A j \in Jobs : sub[j] # "write"
        BY <2>4 DEF ContainerCrash, ApiDies, FileInv
      <3>3. \A j \in Jobs : sub'[j] # "write"
        BY <3>1, <3>2 DEF Clear
      <3>4. QED
        BY <3>2, <3>3 DEF FileInv
    <2>5. QED
      BY <1>5, <2>1, <2>2, <2>3, <2>4 DEF FaultNext, Signal
  <1>6. QED
    BY <1>1, <1>2, <1>3, <1>4, <1>5 DEF Next

(* With fewer checkpoints there is less to resume from, and the history    *)
(* that matters is the one the document has.                               *)
LEMMA ResumesMonotone ==
    ASSUME NEW c, NEW d, NEW C, NEW D, NEW lost,
           Resumes(c, C, lost), D \subseteq C,
           d.start_time = c.start_time, d.history = c.history
    PROVE  Resumes(d, D, lost)
  BY DEF Resumes

(* The API process merges: what it writes resumes what the file resumed. *)
LEMMA HistoryApi ==
    ASSUME ~Torn, CalmInv, FileInv, HistoryInv, ApiNext
    PROVE  HistoryInv'
  <1> USE DEF CalmInv, OutcomeInv
  <1>1. /\ UNCHANGED <<phase, sub, tbuf, step, history>>
        /\ UNCHANGED <<ckpt, swallowed>>
        /\ submitted' = 0 => submitted = 0
    <2>1. /\ UNCHANGED <<phase, sub, tbuf, step, history>>
          /\ UNCHANGED <<ckpt, swallowed>>
      BY DEF ApiNext, launch_training_job, get_slurm_jobs, filter_running_jobs,
           create_slurm_run_command, CommandRaises, StatusRead, StatusOpen,
           StatusWrite, sbatch, sbatchFails, ApiRestart, trainerVars, faultVars
    <2>2. submitted' = 0 => submitted = 0
      <3>1. submitted \in Nat
        BY DEF TypeOK
      <3>2. submitted' \in {submitted, submitted + 1}
        BY DEF ApiNext, launch_training_job, get_slurm_jobs, filter_running_jobs,
             create_slurm_run_command, CommandRaises, StatusRead, StatusOpen,
             StatusWrite, sbatch, sbatchFails, ApiRestart, slurmVars
      <3>3. QED
        BY <3>1, <3>2
    <2>3. QED
      BY <2>1, <2>2
  <1>2. Checkpoints' = Checkpoints
    BY <1>1 DEF Checkpoints
  <1>3. CASE StatusRead
    <2>1. WritingStatus /\ UNCHANGED file
      BY <1>3 DEF StatusRead
    <2>2. CASE file.status \in {"empty", "garbled"}
      BY <1>1, <1>2, <1>3, <2>1, <2>2 DEF StatusRead, HistoryInv, Updating, Readable
    <2>3. CASE file.status \notin {"empty", "garbled"}
      <3>1. file \in Contents
        BY DEF TypeOK
      <3>2. Resumes(Patched(file), Checkpoints, swallowed)
        <4>1. CASE file.status = "absent"
          <5>1. api = "queued"
            BY <2>1, <4>1 DEF WritingStatus, FileInv
          <5>2. Checkpoints = {}
            BY <4>1 DEF JobInv, SubmitInv, HistoryInv
          <5>3. Patched(file).start_time = TRUE
            BY <3>1, <5>1 DEF Patched, Contents
          <5>4. Patched(file).history = <<>>
            BY <3>1, <4>1, <5>1 DEF Patched, Contents, FileInv
          <5>5. QED
            BY <5>2, <5>3, <5>4 DEF Resumes
        <4>2. CASE file.status # "absent"
          <5>1. Resumes(file, Checkpoints, swallowed)
            BY <2>3, <4>2 DEF HistoryInv, Readable, NoJson
          <5>2. /\ Patched(file).history = file.history
                /\ Patched(file).start_time \in {file.start_time, TRUE}
            BY <2>1, <3>1 DEF Patched, Contents, WritingStatus
          <5>3. QED
            BY <5>1, <5>2 DEF Resumes
        <4>3. QED
          BY <4>1, <4>2
      <3>3. abuf' = Patched(file)
        BY <1>3, <2>3 DEF StatusRead
      <3>4. Resumes(abuf', Checkpoints, swallowed)
        BY <3>2, <3>3
      <3>5. QED
        BY <1>1, <1>2, <2>1, <3>4 DEF HistoryInv, Updating, Readable
    <2>4. QED
      BY <2>2, <2>3
  <1>4. CASE StatusOpen
    <2>1. \A j \in Jobs : phase[j] = "off"
      BY <1>4, ApiIsAlone DEF StatusOpen
    <2>2. file'.status = "empty"
      BY <1>4 DEF StatusOpen, OpenForWriting, Blank
    <2>3. UNCHANGED abuf /\ asub # "read"
      BY <1>4 DEF StatusOpen
    <2>4. QED
      BY <1>1, <1>2, <2>1, <2>2, <2>3
         DEF HistoryInv, Updating, Readable, NoJson, AtWork
  <1>5. CASE StatusWrite
    <2>1. \A j \in Jobs : phase[j] = "off"
      BY <1>5, ApiIsAlone DEF StatusWrite
    <2>2. file' = abuf /\ asub' = "read" /\ asub # "read"
      BY <1>5 DEF StatusWrite, WriteContents, FileInv
    <2>3. QED
      BY <1>1, <1>2, <2>1, <2>2 DEF HistoryInv, Updating, AtWork
  <1>6. CASE launch_training_job \/ get_slurm_jobs \/ filter_running_jobs
             \/ create_slurm_run_command \/ CommandRaises \/ sbatch
             \/ sbatchFails \/ ApiRestart
    <2>1. UNCHANGED <<file, asub, abuf>>
      BY <1>6 DEF launch_training_job, get_slurm_jobs, filter_running_jobs,
           create_slurm_run_command, CommandRaises, sbatch, sbatchFails, ApiRestart
    <2>2. QED
      BY <1>1, <1>2, <2>1 DEF HistoryInv, Updating, Readable
  <1>7. QED
    BY <1>3, <1>4, <1>5, <1>6 DEF ApiNext

(* Deaths lose no document, since the copies go with the processes; a      *)
(* signal loses one only where it is swallowed.                            *)
LEMMA HistoryFault ==
    ASSUME TypeOK, HistoryInv, FaultNext
    PROVE  HistoryInv'
  <1>1. UNCHANGED <<file, ckpt, submitted>>
    BY SignalActs DEF FaultNext, Signal, JobKilled, ApiCrash, ContainerCrash,
           ApiDies, slurmVars
  <1>2. Checkpoints' = Checkpoints
    BY <1>1 DEF Checkpoints
  <1>3. asub' # "read" => asub' = asub /\ abuf' = abuf
    BY SignalActs DEF FaultNext, Signal, JobKilled, ApiCrash, ContainerCrash,
           ApiDies, apiVars
  <1>4. swallowed' = swallowed \/ swallowed' = TRUE
    BY SignalActs DEF FaultNext, Signal, SignalHides, SignalMoves, JobKilled,
           ApiCrash, ContainerCrash, ApiDies
  <1>5. \A c : Resumes(c, Checkpoints, swallowed) =>
               Resumes(c, Checkpoints, swallowed')
    BY <1>4 DEF Resumes
  <1>6. Resumes(Blank("unknown"), Checkpoints, TRUE)
    BY DEF Resumes, Blank
  <1> DEFINE Same(j) == phase'[j] = phase[j] /\ step'[j] = step[j]
                        /\ history'[j] = history[j]
             Moved(j) == step'[j] = step[j] /\ history'[j] = history[j]
             Kept(j) ==
                \/ Same(j) /\ sub'[j] = sub[j] /\ tbuf'[j] = tbuf[j]
                \/ phase'[j] \in {"off", "load", "done", "failed", "exit"} /\ sub'[j] = "read"
                \/ /\ phase[j] = "history" /\ phase'[j] \in {"checkpoint", "turn"}
                   /\ Moved(j) /\ sub'[j] = "read" /\ swallowed' = TRUE
                \/ Same(j) /\ tbuf'[j] = Blank("unknown") /\ swallowed' = TRUE
  <1>7. \A j \in Jobs : Kept(j)
    <2>1. ASSUME NEW i \in Jobs, Signal(i)
          PROVE  \A j \in Jobs : Kept(j)
      <3>0. SignalHides(i) \/ \E q \in Phases : SignalMoves(i, q)
        BY <2>1, SignalActs
      <3>1. CASE SignalHides(i)
        BY <2>1, <3>1, SignalActs DEF TypeOK, SignalHides
      <3>2. ASSUME NEW q \in Phases, SignalMoves(i, q)
            PROVE  \A j \in Jobs : Kept(j)
        <4>1. UNCHANGED <<step, history>>
          BY <2>1, SignalActs
        <4>2. QED
          BY <3>2, <4>1 DEF TypeOK, SignalMoves
      <3>3. QED
        BY <3>0, <3>1, <3>2
    <2>2. ASSUME NEW S, Clear(S) PROVE \A j \in Jobs : Kept(j)
      BY <2>2 DEF Clear
    <2>3. CASE ApiCrash
      BY <2>3 DEF ApiCrash, trainerVars
    <2>4. QED
      BY <2>1, <2>2, <2>3 DEF FaultNext, Signal, JobKilled, ContainerCrash
  <1>8. ASSUME NEW j \in Jobs
        PROVE  /\ Updating(j)' /\ sub'[j] # "read" =>
                     Resumes(tbuf'[j], Checkpoints, swallowed')
               /\ phase'[j] = "train" =>
                     \/ history'[j] = <<>> /\ step'[j] = 0
                     \/ history'[j] # <<>> /\ history'[j][1] = 0
               /\ phase'[j] \in AtWork \ {"train"} =>
                     /\ history'[j] # <<>> /\ history'[j][1] = 0
                     /\ history'[j][Len(history'[j])] = step'[j]
               /\ phase'[j] \in {"checkpoint", "turn", "final"} /\ Readable /\ ~swallowed'
                     => file.history = history'[j]
    <2>1. CASE Same(j) /\ sub'[j] = sub[j] /\ tbuf'[j] = tbuf[j]
      BY <1>4, <1>5, <2>1 DEF HistoryInv, Updating
    <2>2. CASE /\ phase'[j] \in {"off", "load", "done", "failed", "exit"}
               /\ sub'[j] = "read"
      BY <2>2 DEF AtWork
    <2>3. CASE /\ phase[j] = "history" /\ phase'[j] \in {"checkpoint", "turn"}
               /\ Moved(j) /\ sub'[j] = "read" /\ swallowed' = TRUE
      BY <2>3 DEF HistoryInv, AtWork
    <2>4. CASE Same(j) /\ tbuf'[j] = Blank("unknown") /\ swallowed' = TRUE
      BY <1>6, <2>4 DEF HistoryInv
    <2>5. QED
      BY <1>7, <2>1, <2>2, <2>3, <2>4
  <1>9. /\ Readable' => Resumes(file', Checkpoints', swallowed')
        /\ asub' # "read" => Resumes(abuf', Checkpoints', swallowed')
        /\ submitted' = 0 => Checkpoints' = {}
    BY <1>1, <1>2, <1>3, <1>5 DEF HistoryInv, Readable
  <1>10. QED
    BY <1>1, <1>2, <1>8, <1>9 DEF HistoryInv, Readable

(* A trainer merges as well: it resumes from the file, and writes its      *)
(* history before it saves the checkpoint of the same step.                *)
LEMMA HistoryTrainer ==
    ASSUME ~Torn, CalmInv, FileInv, HistoryInv,
           NEW j \in Jobs, JobStarts(j) \/ TrainerNext(j)
    PROVE  HistoryInv'
  <1> USE DEF CalmInv, OutcomeInv
  <1>0. /\ phase \in [Jobs -> Phases]
        /\ sub \in [Jobs -> {"read", "open", "write", "delete"}]
        /\ ckpt \in [Steps -> {"none", "partial", "saved"}]
        /\ step \in [Jobs -> Steps]
        /\ history \in [Jobs -> Seq(Steps)]
        /\ tbuf \in [Jobs -> Contents] /\ file \in Contents
    BY DEF TypeOK
  <1>1. CASE JobStarts(j)
    <2>1. UNCHANGED <<file, ckpt, asub, abuf, submitted, sub, tbuf, step, history,
                      swallowed>>
      BY <1>1 DEF JobStarts, apiVars, faultVars
    <2>2. sub[j] = "read" /\ phase' = [phase EXCEPT ![j] = "begin"]
      BY <1>1, OneAtATime DEF JobStarts, CkptInv
    <2>3. Checkpoints' = Checkpoints
      BY <2>1 DEF Checkpoints
    <2>4. QED
      BY <1>0, <2>1, <2>2, <2>3 DEF HistoryInv, Updating, Readable, AtWork
  <1>2. CASE TrainerNext(j)
    <2>1. /\ phase[j] # "off" /\ UNCHANGED <<asub, abuf, submitted, swallowed>>
          /\ \E q : phase' = [phase EXCEPT ![j] = q]
      BY <1>2, TrainerActs
    <2>2. /\ asub = "read" /\ file.status # "absent" /\ submitted # 0
          /\ \A i \in Jobs : i # j => phase[i] = "off"
      <3>1. submitted # 0
        BY <2>1 DEF JobInv, SlurmInv, Jobs
      <3>2. QED
        BY <2>1, <3>1, ApiIsAlone
    <2>3. \A i \in Jobs : i # j => phase'[i] = "off"
      BY <1>0, <2>1, <2>2
    <2>4. SUFFICES
            /\ Readable' => Resumes(file', Checkpoints', swallowed)
            /\ Updating(j)' /\ sub'[j] # "read" => Resumes(tbuf'[j], Checkpoints', swallowed)
            /\ phase'[j] = "train" =>
                  \/ history'[j] = <<>> /\ step'[j] = 0
                  \/ history'[j] # <<>> /\ history'[j][1] = 0
            /\ phase'[j] \in AtWork \ {"train"} =>
                  /\ history'[j] # <<>> /\ history'[j][1] = 0
                  /\ history'[j][Len(history'[j])] = step'[j]
            /\ phase'[j] \in {"checkpoint", "turn", "final"} /\ Readable' /\ ~swallowed
                  => file'.history = history'[j]
      BY <2>1, <2>2, <2>3 DEF HistoryInv, Updating, AtWork
    <2> DEFINE C == Checkpoints
    <2>5. /\ Readable => Resumes(file, C, swallowed)
          /\ Updating(j) /\ sub[j] # "read" => Resumes(tbuf[j], C, swallowed)
          /\ phase[j] = "train" =>
                \/ history[j] = <<>> /\ step[j] = 0
                \/ history[j] # <<>> /\ history[j][1] = 0
          /\ phase[j] \in AtWork \ {"train"} =>
                /\ history[j] # <<>> /\ history[j][1] = 0
                /\ history[j][Len(history[j])] = step[j]
          /\ phase[j] \in {"checkpoint", "turn", "final"} /\ Readable /\ ~swallowed
                => file.history = history[j]
          /\ phase[j] \in AtWork => \A s \in C : s <= step[j]
      BY DEF HistoryInv, CkptInv
    <2>6. ckpt' = ckpt => Checkpoints' = C
      BY DEF Checkpoints
    <2> HIDE DEF C
    <2>7. CASE UpdateRead(j)
      <3>1. Readable
        BY <2>2, <2>7 DEF UpdateRead, FileInv, Updating, Readable, NoJson
      <3>2. /\ tbuf'[j] = file /\ UNCHANGED <<file, ckpt, phase, step, history>>
        BY <1>0, <2>7, <3>1 DEF UpdateRead
      <3>3. phase[j] \notin {"checkpoint", "turn", "final"}
        BY <2>7 DEF UpdateRead, Updating
      <3>4. QED
        BY <2>5, <2>6, <3>1, <3>2, <3>3 DEF Readable
    <2>8. CASE UpdateOpen(j)
      <3>1. /\ file'.status = "empty" /\ UNCHANGED <<ckpt, phase, tbuf, step, history>>
            /\ Updating(j) /\ sub[j] # "read"
        BY <2>8 DEF UpdateOpen, OpenForWriting, Blank
      <3>2. phase[j] \notin {"checkpoint", "turn", "final"}
        BY <3>1 DEF Updating
      <3>3. QED
        BY <2>5, <2>6, <3>1, <3>2 DEF Readable, NoJson
    <2>9. ASSUME NEW c, UpdateWrite(j, c), Updating(j)
          PROVE  /\ file' = c /\ sub'[j] = "read"
                 /\ UNCHANGED <<ckpt, step, history>>
                 /\ Resumes(tbuf[j], C, swallowed)
      BY <1>0, <2>5, <2>9 DEF UpdateWrite, WriteContents, FileInv
    <2>10. tbuf[j] \in Contents
      BY <1>0
    <2>11. CASE TrainingBegins(j) \/ TrainingCompletes(j) \/ TrainingFails(j)
      <3>1. /\ Updating(j) /\ phase'[j] \in {"load", "done", "exit"}
            /\ \E s : UpdateWrite(j, [tbuf[j] EXCEPT !.status = s])
        BY <1>0, <2>11, UpdateEnds
           DEF TrainingBegins, TrainingCompletes, TrainingFails, Updating
      <3>2. PICK s : UpdateWrite(j, [tbuf[j] EXCEPT !.status = s])
        BY <3>1
      <3> DEFINE c == [tbuf[j] EXCEPT !.status = s]
      <3>3. c.start_time = tbuf[j].start_time /\ c.history = tbuf[j].history
        BY <2>10 DEF Contents
      <3> HIDE DEF c
      <3>4. file' = c /\ sub'[j] = "read" /\ ckpt' = ckpt /\ Resumes(tbuf[j], C, swallowed)
        BY <2>9, <3>1, <3>2 DEF c
      <3>5. Resumes(c, C, swallowed)
        BY <3>3, <3>4, ResumesMonotone
      <3>6. QED
        BY <2>6, <3>1, <3>4, <3>5 DEF Updating, AtWork
    <2>12. CASE HistoryWritten(j)
      <3> DEFINE c == [tbuf[j] EXCEPT !.status = "TRAINING", !.history = history[j]]
      <3>1. /\ c.start_time = tbuf[j].start_time /\ c.history = history[j]
            /\ c.status = "TRAINING"
        BY <2>10 DEF Contents
      <3> HIDE DEF c
      <3>2. /\ UpdateWrite(j, c) /\ phase[j] = "history"
            /\ phase'[j] \in {"checkpoint", "turn"}
        BY <1>0, <2>12, UpdateEnds DEF HistoryWritten, c
      <3>3. /\ file' = c /\ sub'[j] = "read" /\ UNCHANGED <<ckpt, step, history>>
            /\ Resumes(tbuf[j], C, swallowed)
        BY <2>9, <3>2 DEF Updating
      <3>4. /\ history[j] # <<>> /\ history[j][1] = 0
            /\ history[j][Len(history[j])] = step[j]
            /\ \A s \in C : s <= step[j]
        BY <2>5, <3>2 DEF AtWork
      <3>5. Resumes(c, C, swallowed)
        BY <3>1, <3>3, <3>4 DEF Resumes
      <3>6. Readable'
        BY <3>1, <3>3 DEF Readable, NoJson
      <3>7. QED
        BY <2>6, <3>1, <3>2, <3>3, <3>4, <3>5, <3>6 DEF Updating, AtWork
    <2>13. CASE Load(j)
      <3>1. /\ UNCHANGED <<file, ckpt, sub>> /\ sub[j] = "read"
            /\ phase'[j] \in {"train", "failed"}
        BY <1>0, <2>13 DEF Load, CkptInv
      <3>2. phase'[j] = "train" =>
               \/ history'[j] = <<>> /\ step'[j] = 0
               \/ /\ C # {} /\ Readable /\ file.history # <<>>
                  /\ history'[j] = file.history
        BY <1>0, <2>13 DEF Load, ResumeRaises, C
      <3>3. Readable /\ file.history # <<>> => file.history[1] = 0
        BY <2>5 DEF Resumes
      <3>4. QED
        BY <2>5, <2>6, <3>1, <3>2, <3>3 DEF Updating, AtWork, Readable
    <2>14. CASE TrainStep(j)
      <3>1. history[j] \in Seq(Steps) /\ step[j] \in Steps
        BY <1>0
      <3>2. history' = [history EXCEPT ![j] = Updated(history[j], step[j])]
        BY <2>14 DEF TrainStep, Updated
      <3> DEFINE k == Updated(history[j], step[j])
      <3>3. /\ history'[j] = k
            /\ k # <<>> /\ k[Len(k)] = step[j]
            /\ k[1] = IF history[j] = <<>> THEN step[j] ELSE history[j][1]
        <4>1. history'[j] = k
          BY <1>0, <3>2
        <4>2. /\ k # <<>> /\ k[Len(k)] = step[j]
              /\ k[1] = IF history[j] = <<>> THEN step[j] ELSE history[j][1]
          BY ONLY <3>1, HistoryKept, Zenon
        <4>3. QED
          BY ONLY <4>1, <4>2
      <3> HIDE DEF k
      <3>4. k[1] = 0
        BY <2>5, <2>14, <3>3 DEF TrainStep
      <3>5. /\ UNCHANGED <<file, ckpt, sub, step>> /\ sub[j] = "read"
            /\ phase'[j] = "history"
        BY <1>0, <2>14 DEF TrainStep, CkptInv
      <3>6. QED
        BY <2>5, <2>6, <3>3, <3>4, <3>5 DEF Updating, AtWork, Readable
    <2>15. CASE Turn(j)
      <3>1. /\ UNCHANGED <<file, ckpt, sub, history>> /\ sub[j] = "read"
            /\ phase[j] = "turn"
            /\ \/ phase'[j] = "train"
               \/ phase'[j] = "final" /\ step'[j] = step[j]
        BY <1>0, <2>15 DEF Turn, CkptInv
      <3>2. QED
        BY <2>5, <2>6, <3>1 DEF Updating, AtWork, Readable
    <2>16. CASE SaveOpen(j) \/ SaveWrite(j)
      <3>1. /\ UNCHANGED <<file, phase, step, history>>
            /\ phase[j] \in {"checkpoint", "final"}
            /\ Checkpoints' = C \cup {step[j]}
        BY <1>0, <2>16 DEF SaveOpen, SaveWrite, Checkpoints, C
      <3>2. /\ Readable /\ ~swallowed => file.history = history[j]
            /\ history[j] # <<>> /\ history[j][1] = 0
            /\ history[j][Len(history[j])] = step[j]
            /\ \A s \in C : s <= step[j]
        BY <2>5, <3>1 DEF AtWork
      <3>3. step[j] <= step[j]
        BY <1>0 DEF Steps
      <3>4. Readable => Resumes(file, C \cup {step[j]}, swallowed)
        BY <2>5, <3>2, <3>3 DEF Resumes
      <3>5. QED
        BY <3>1, <3>2, <3>4 DEF Updating, AtWork, Readable
    <2>17. CASE delete_old_checkpoints(j)
      <3>1. /\ UNCHANGED <<file, step, history>> /\ sub'[j] = "read"
            /\ phase[j] \in {"checkpoint", "final"}
            /\ phase'[j] \in {"completed", "turn"}
        BY <1>0, <2>17 DEF delete_old_checkpoints
      <3>2. Checkpoints' \subseteq C
        BY <1>0, <2>17 DEF delete_old_checkpoints, Checkpoints, C
      <3>3. Readable => Resumes(file, C, swallowed)
        BY <2>5, <3>1
      <3>4. Readable => Resumes(file, Checkpoints', swallowed)
        BY <3>2, <3>3, ResumesMonotone
      <3>5. QED
        BY <2>5, <3>1, <3>3, <3>4 DEF Updating, AtWork, Readable
    <2>18. CASE TrainerRaises(j) \/ JobEnds(j)
      <3>1. /\ UNCHANGED <<file, ckpt, sub>> /\ sub[j] = "read"
            /\ phase'[j] \in {"failed", "off"}
        BY <1>0, <2>18 DEF TrainerRaises, JobEnds, CkptInv
      <3>2. QED
        BY <2>5, <2>6, <3>1 DEF Updating, AtWork, Readable
    <2>19. QED
      BY <1>2, <2>7, <2>8, <2>11, <2>12, <2>13, <2>14, <2>15, <2>16, <2>17, <2>18
         DEF TrainerNext
  <1>3. QED
    BY <1>1, <1>2

(* Every step keeps what a resumed trainer needs. *)
THEOREM HistoryInvariance ==
    ASSUME Timely, ~Torn
    PROVE  Spec => [](FileInv /\ HistoryInv)
  <1>1. Init => FileInv /\ HistoryInv
    BY DEF Init, FileInv, HistoryInv, Updating, Readable, NoJson, Blank,
           AtWork, Checkpoints
  <1>2. CalmInv /\ FileInv /\ HistoryInv /\ [Next]_vars => FileInv'
    BY FileStep
  <1>3. CalmInv /\ FileInv /\ HistoryInv /\ [Next]_vars => HistoryInv'
    <2> SUFFICES ASSUME CalmInv, FileInv, HistoryInv, [Next]_vars
                 PROVE  HistoryInv'
      OBVIOUS
    <2>1. CASE UNCHANGED vars
      BY <2>1 DEF vars, apiVars, slurmVars, trainerVars, faultVars, HistoryInv,
                  Updating, Readable, Checkpoints
    <2>2. QED
      BY <2>1, HistoryApi, HistoryTrainer, HistoryFault
         DEF Next, CalmInv, OutcomeInv
  <1>4. Spec => []CalmInv
    BY TimelyInvariance DEF CalmInv
  <1>5. QED
    BY <1>1, <1>2, <1>3, <1>4, PTL DEF Spec

(* Through any number of kills, signals, restarts and resubmissions, a     *)
(* history in status.json begins with the first step; and unless a signal  *)
(* was swallowed by update_status, a checkpoint in the directory has its   *)
(* start time and history there: resume_from_checkpoint finds the history  *)
(* that it indexes, up to the checkpoint.                                  *)
THEOREM HistoryIsFound ==
    ASSUME Timely, ~Torn
    PROVE  Spec => []ResumeFindsHistory
  <1>1. HistoryInv => ResumeFindsHistory
    <2> SUFFICES ASSUME HistoryInv, Readable
                 PROVE  /\ file.history # <<>> => file.history[1] = 0
                        /\ Checkpoints # {} /\ ~swallowed =>
                              /\ file.start_time
                              /\ file.history # <<>>
                              /\ file.history[Len(file.history)]
                                    >= get_latest_checkpoint_path
      BY DEF ResumeFindsHistory
    <2>1. Checkpoints # {} => get_latest_checkpoint_path \in Checkpoints
      BY LatestExists DEF Checkpoints, get_latest_checkpoint_path
    <2>2. Resumes(file, Checkpoints, swallowed)
      BY DEF HistoryInv
    <2>3. QED
      BY <2>1, <2>2 DEF Resumes
  <1>2. QED
    BY HistoryInvariance, <1>1, PTL

=============================================================================
