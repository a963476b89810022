------------------------ MODULE HistoricalRuntimeProofs ------------------------
(* Proofs about HistoricalRuntime. *)
EXTENDS HistoricalRuntime, TLAPS

\* Where both images are known to be built.
BothBuilt == {"volume", "clear", "run", "await", "ran", "copy", "prepared box",
              "prepared volume"}

\* What the position in the source says about a job.
Placed(j) ==
    /\ j.pc \notin {"idle", "done", "dead"} => j.run \in 1..MaxRuns
    /\ j.pc = "base" => j.at = "control" /\ ~j.failed
    /\ j.pc = "build" => j.at \in Sides
    /\ j.pc = "build" /\ j.at = "candidate" /\ ~j.failed => "control" \in j.tags
    /\ j.pc \in BothBuilt => j.tags = Sides

Busy(j) == j.pc \notin {"idle", "done", "dead"}

\* A job that was alone from its start has no other one beside it.
Separate ==
    \A p, q \in Procs : p # q /\ Busy(job[p]) /\ Busy(job[q]) => ~job[p].alone

RuntimeInv ==
    /\ TypeOK
    /\ \A p \in Procs : Placed(job[p])
    /\ Separate
    /\ RerunFindsNameFree

\* What an action of a process, other than its start, does to the jobs: it moves
\* its own within the same reconstruction, and to the run only over a free name.
Moves(p) ==
    /\ Busy(job[p])
    /\ job' \in [Procs -> Jobs]
    /\ \A q \in Procs \ {p} : job'[q] = job[q]
    /\ job'[p].run = job[p].run /\ job'[p].alone = job[p].alone
    /\ Placed(job'[p])
    /\ job'[p].pc = "run" => box'[job'[p].at].state = "none"

\* The type of everything but the jobs.
WorldOK ==
    /\ recipe \in [prepares : BOOLEAN, reproduces : SUBSET Sides]
    /\ box \in [Names -> Boxes]
    /\ volume \in Inputs
    /\ images \subseteq (1..MaxRuns) \X Sides
    /\ runs \in 0..MaxRuns /\ faults \in 0..MaxFaults

LEMMA RuntimeInit == Init => RuntimeInv
<1> SUFFICES ASSUME Init PROVE RuntimeInv
    OBVIOUS
<1>1. Idle \in Jobs
  <2>1. 0 \in 0..MaxRuns /\ "control" \in Names /\ {} \in SUBSET Sides /\ "none" \in Inputs
    BY BoundsAssumption DEF Names, Sides, Inputs
  <2>2. Job(0, TRUE) \in Jobs
    BY <2>1 DEF Job, Jobs
  <2>3. QED
    BY <2>2 DEF Idle, Jobs
<1>2. NoBox \in Boxes
  BY BoundsAssumption DEF NoBox, Boxes, Inputs
<1>3. WorldOK
  BY <1>2, BoundsAssumption DEF Init, WorldOK, Inputs
<1>4. job \in [Procs -> Jobs]
  BY <1>1 DEF Init
<1>5. \A p \in Procs : job[p].pc = "idle"
  BY DEF Init, Idle, Job
<1>6. (\A p \in Procs : Placed(job[p])) /\ Separate /\ RerunFindsNameFree
  BY <1>5 DEF Placed, Separate, Busy, RerunFindsNameFree, At, BothBuilt
<1>7. QED
  BY <1>3, <1>4, <1>5, <1>6 DEF RuntimeInv, TypeOK, WorldOK, At

\* A move leads from the invariant to the invariant, if the rest has its type.
LEMMA MoveKeeps ==
    ASSUME RuntimeInv, NEW p \in Procs, Moves(p), WorldOK'
    PROVE  RuntimeInv'
<1>1. \A q \in Procs : Placed(job'[q])
  BY DEF RuntimeInv, Moves
<1>2. \A q \in Procs : job'[q].alone = job[q].alone /\ (Busy(job'[q]) => Busy(job[q]))
  BY DEF Moves
<1>3. Separate'
  BY <1>2 DEF RuntimeInv, Separate
<1>4. RerunFindsNameFree'
  <2> SUFFICES ASSUME NEW q \in Procs, job'[q].pc = "run", job'[q].alone
               PROVE  box'[job'[q].at].state = "none"
    BY DEF RerunFindsNameFree, At
  <2>1. CASE q = p
    BY <2>1 DEF Moves
  <2>2. CASE q # p
    <3>1. Busy(job[q]) /\ job[q].alone
      BY <2>2 DEF Moves, Busy
    <3>2. QED
      BY <2>2, <3>1 DEF Moves, RuntimeInv, Separate
  <2>3. QED
    BY <2>1, <2>2
<1>5. TypeOK'
  BY <1>1 DEF TypeOK, WorldOK, Moves, Placed, BothBuilt, At
<1>6. QED
  BY <1>1, <1>3, <1>4, <1>5 DEF RuntimeInv

\* A container that is forced away leaves a typed box function.
LEMMA ForcedTyped == ASSUME RuntimeInv, NEW n \in Names PROVE Forced(n) \in [Names -> Boxes]
<1>1. NoBox \in Boxes
  BY BoundsAssumption DEF NoBox, Boxes, Inputs
<1>2. QED
  BY <1>1 DEF Forced, RuntimeInv, TypeOK

-----------------------------------------------------------------------------
(* The actions up to the images *)

\* A job replaced by another of the same reconstruction.
LEMMA ReplacedMoves ==
    ASSUME RuntimeInv, NEW p \in Procs, Busy(job[p]), NEW j \in Jobs, Placed(j),
           job' = [job EXCEPT ![p] = j],
           j.run = job[p].run, j.alone = job[p].alone,
           j.pc = "run" => box'[j.at].state = "none"
    PROVE  Moves(p)
<1>1. job \in [Procs -> Jobs]
  BY DEF RuntimeInv, TypeOK
<1>2. job'[p] = j
  BY <1>1
<1>3. QED
  BY <1>1, <1>2 DEF Moves

LEMMA DiesMoves == ASSUME RuntimeInv, NEW p \in Procs, Dies(p) PROVE Moves(p) /\ WorldOK'
<1>1. job[p] \in Jobs /\ Busy(job[p])
  BY DEF RuntimeInv, TypeOK, Dies, Active, At, Busy
<1> DEFINE j == [job[p] EXCEPT !.pc = "dead"]
<1>2. j \in Jobs /\ Placed(j)
  BY <1>1 DEF Jobs, Placed, BothBuilt
<1>3. job' = [job EXCEPT ![p] = j] /\ j.run = job[p].run /\ j.alone = job[p].alone /\ j.pc = "dead"
  BY <1>1 DEF Dies, Jobs
<1>4. Moves(p)
  BY <1>1, <1>2, <1>3, ReplacedMoves
<1>5. QED
  BY <1>4 DEF Dies, WorldOK, RuntimeInv, TypeOK

LEMMA ChecksBaseMoves ==
    ASSUME RuntimeInv, NEW p \in Procs, ChecksBase(p) PROVE Moves(p) /\ WorldOK'
<1>1. job[p] \in Jobs /\ Placed(job[p]) /\ job[p].pc = "base" /\ Busy(job[p])
  BY DEF RuntimeInv, TypeOK, ChecksBase, At, Busy
<1>2. PICK j \in {[job[p] EXCEPT !.pc = "build"], [job[p] EXCEPT !.pc = "done", !.status = "BLOCKED"]} :
        job' = [job EXCEPT ![p] = j]
  BY DEF ChecksBase
<1>3. j \in Jobs /\ j.run = job[p].run /\ j.alone = job[p].alone /\ j.pc # "run"
  BY <1>1, <1>2 DEF Jobs
<1>4. Placed(j)
  <2>1. CASE j = [job[p] EXCEPT !.pc = "build"]
    <3>1. j.pc = "build" /\ j.at = job[p].at /\ j.run = job[p].run
      BY <1>1, <2>1 DEF Jobs
    <3>2. QED
      BY <1>1, <3>1 DEF Placed, BothBuilt, Sides
  <2>2. CASE j = [job[p] EXCEPT !.pc = "done", !.status = "BLOCKED"]
    <3>1. j.pc = "done"
      BY <1>1, <2>2 DEF Jobs
    <3>2. QED
      BY <3>1 DEF Placed, BothBuilt
  <2>3. QED
    BY <1>2, <2>1, <2>2
<1>5. Moves(p)
  BY <1>1, <1>2, <1>3, <1>4, ReplacedMoves
<1>6. QED
  BY <1>5 DEF ChecksBase, WorldOK, RuntimeInv, TypeOK

\* A fault is counted within its bound.
LEMMA FaultsTyped ==
    ASSUME RuntimeInv, Works \/ Fault PROVE faults' \in 0..MaxFaults
BY BoundsAssumption DEF RuntimeInv, TypeOK, Works, Fault

LEMMA BuildsMoves ==
    ASSUME RuntimeInv, NEW p \in Procs, Builds(p) PROVE Moves(p) /\ WorldOK'
<1>1. job[p] \in Jobs /\ Placed(job[p]) /\ job[p].pc = "build" /\ Busy(job[p])
  BY DEF RuntimeInv, TypeOK, Builds, At, Busy
<1>2. job[p].at \in Sides /\ job[p].run \in 1..MaxRuns
  BY <1>1 DEF Placed
<1>3. ASSUME NEW tagged \in BOOLEAN, NEW failed \in BOOLEAN, tagged \/ failed,
             Built(p, tagged, failed)
      PROVE  Moves(p)
  <2> DEFINE s == job[p].at
             next == IF s = "control" THEN <<"build", "candidate">>
                     ELSE IF job[p].failed \/ failed THEN <<"images", "candidate">>
                     ELSE IF recipe.prepares THEN <<"volume", "preparation">>
                     ELSE <<"clear", "control">>
             j == [job[p] EXCEPT !.tags = @ \cup Tags(s, tagged), !.failed = @ \/ failed,
                                 !.pc = next[1], !.at = next[2]]
  <2>1. job' = [job EXCEPT ![p] = j]
    BY <1>3 DEF Built
  <2>2. /\ next[1] \in {"build", "images", "volume", "clear"} /\ next[2] \in Names
        /\ next[1] = "build" => s = "control" /\ next[2] = "candidate"
        /\ next[1] \in {"volume", "clear"} => s = "candidate" /\ ~job[p].failed /\ ~failed
    BY <1>2 DEF Names, Sides
  <2>3. Tags(s, tagged) \in SUBSET Sides /\ (tagged => Tags(s, tagged) = {s})
    BY <1>2 DEF Tags
  <2> HIDE DEF next
  <2>4. j \in Jobs /\ j.run = job[p].run /\ j.alone = job[p].alone /\ j.pc # "run"
    BY <1>1, <2>2, <2>3 DEF Jobs
  <2>5. Placed(j)
    <3>1. /\ j.pc = next[1] /\ j.at = next[2] /\ j.run = job[p].run
          /\ j.tags = job[p].tags \cup Tags(s, tagged)
          /\ j.failed = (job[p].failed \/ failed)
      BY <1>1 DEF Jobs
    <3>2. job[p].tags \subseteq Sides
      BY <1>1 DEF Jobs
    <3>3. j.pc = "build" => j.at \in Sides /\ (~j.failed => "control" \in j.tags)
      BY <1>3, <2>2, <2>3, <3>1 DEF Sides
    <3>4. j.pc \in BothBuilt => j.tags = Sides
      <4> SUFFICES ASSUME next[1] \in {"volume", "clear"} PROVE j.tags = Sides
        BY <2>2, <3>1 DEF BothBuilt
      <4>1. s = "candidate" /\ ~job[p].failed /\ ~failed
        BY <2>2
      <4>2. "control" \in job[p].tags /\ Tags(s, tagged) = {"candidate"}
        BY <1>1, <1>3, <2>3, <4>1 DEF Placed
      <4>3. QED
        BY <3>1, <3>2, <4>2 DEF Sides
    <3>5. QED
      BY <1>2, <2>2, <3>1, <3>3, <3>4 DEF Placed
  <2>6. QED
    BY <1>1, <2>1, <2>4, <2>5, ReplacedMoves
<1>4. ASSUME Raises(p) PROVE Moves(p)
  <2> DEFINE j == [job[p] EXCEPT !.pc = "images", !.raised = TRUE]
  <2>1. job' = [job EXCEPT ![p] = j]
    BY <1>4 DEF Raises
  <2>2. j \in Jobs /\ j.run = job[p].run /\ j.alone = job[p].alone /\ j.pc # "run" /\ Placed(j)
    BY <1>1 DEF Jobs, Placed, BothBuilt
  <2>3. QED
    BY <1>1, <2>1, <2>2, ReplacedMoves
<1>5. Moves(p)
  BY <1>3, <1>4 DEF Builds
<1>6. (Works \/ Fault) /\ images' \subseteq (1..MaxRuns) \X Sides
  <2>1. images' \in {images, images \cup {<<job[p].run, job[p].at>>}} /\ (Works \/ Fault)
    BY DEF Builds
  <2>2. <<job[p].run, job[p].at>> \in (1..MaxRuns) \X Sides
    BY <1>2
  <2>3. QED
    BY <2>1, <2>2 DEF RuntimeInv, TypeOK
<1>7. QED
  BY <1>5, <1>6, FaultsTyped DEF Builds, WorldOK, RuntimeInv, TypeOK

LEMMA CreatesVolumeMoves ==
    ASSUME RuntimeInv, NEW p \in Procs, CreatesVolume(p) PROVE Moves(p) /\ WorldOK'
<1>1. job[p] \in Jobs /\ Placed(job[p]) /\ job[p].pc = "volume" /\ Busy(job[p])
  BY DEF RuntimeInv, TypeOK, CreatesVolume, At, Busy
<1>2. PICK j \in {[job[p] EXCEPT !.pc = "clear", !.failed = @ \/ FALSE],
               [job[p] EXCEPT !.pc = "images", !.failed = @ \/ TRUE]} :
        job' = [job EXCEPT ![p] = j]
  BY <1>1 DEF CreatesVolume, Proceeds
<1>3. j \in Jobs /\ j.run = job[p].run /\ j.alone = job[p].alone /\ j.pc # "run"
  BY <1>1, <1>2 DEF Jobs, Names
<1>4. Placed(j)
  <2>1. j.pc \in {"clear", "images"} /\ j.tags = job[p].tags /\ j.run = job[p].run
    BY <1>1, <1>2 DEF Jobs
  <2>2. job[p].tags = Sides /\ job[p].run \in 1..MaxRuns
    BY <1>1 DEF Placed, BothBuilt
  <2>3. QED
    BY <2>1, <2>2 DEF Placed
<1>5. Moves(p)
  BY <1>1, <1>2, <1>3, <1>4, ReplacedMoves
<1>6. (Works \/ Fault) /\ volume' \in Inputs
  BY DEF CreatesVolume, RuntimeInv, TypeOK, Inputs
<1>7. QED
  BY <1>5, <1>6, FaultsTyped DEF CreatesVolume, WorldOK, RuntimeInv, TypeOK

-----------------------------------------------------------------------------
(* Containers *)

LEMMA ForcesBoxMoves ==
    ASSUME RuntimeInv, NEW p \in Procs, ForcesBox(p) PROVE Moves(p) /\ WorldOK'
<1>1. job[p] \in Jobs /\ Placed(job[p]) /\ job[p].pc \in {"clear", "prepared box", "ran"} /\ Busy(job[p])
  BY DEF RuntimeInv, TypeOK, ForcesBox, At, Busy
<1>2. PICK j \in {[job[p] EXCEPT !.forced = TRUE]} :
        job' = [job EXCEPT ![p] = j]
  BY <1>1 DEF ForcesBox, Works
<1>3. j \in Jobs /\ j.run = job[p].run /\ j.alone = job[p].alone /\ j.pc # "run"
  BY <1>1, <1>2 DEF Jobs, Names
<1>4. Placed(j)
  BY <1>1, <1>2 DEF Jobs, Placed, BothBuilt, Sides
<1>5. Moves(p)
  BY <1>1, <1>2, <1>3, <1>4, ReplacedMoves
<1>6. Works \/ Fault
  BY DEF ForcesBox
<1>7. box' \in [Names -> Boxes]
  <2>1. job[p].at \in Names
    BY <1>1 DEF Jobs
  <2>2. Forced(job[p].at) \in [Names -> Boxes] /\ box \in [Names -> Boxes]
    BY <2>1, ForcedTyped DEF RuntimeInv, TypeOK
  <2>3. QED
    BY <2>2 DEF ForcesBox
<1>8. QED
  BY <1>5, <1>6, <1>7, FaultsTyped DEF ForcesBox, WorldOK, RuntimeInv, TypeOK

LEMMA ClearsNameMoves ==
    ASSUME RuntimeInv, NEW p \in Procs, ClearsName(p) PROVE Moves(p) /\ WorldOK'
<1>1. job[p] \in Jobs /\ Placed(job[p]) /\ job[p].pc = "clear" /\ Busy(job[p])
  BY DEF RuntimeInv, TypeOK, ClearsName, At, Busy
<1>2. PICK verified \in BOOLEAN :
        /\ Verifies(p, Absent(p), verified)
        /\ job' = [job EXCEPT
               ![p].forced = FALSE, ![p].failed = @ \/ ~verified,
               ![p].pc = IF verified THEN "run"
                         ELSE IF job[p].at = "preparation" THEN "prepared box" ELSE "images"]
  BY DEF ClearsName
<1> DEFINE j == [job[p] EXCEPT
               !.forced = FALSE, !.failed = @ \/ ~verified,
               !.pc = IF verified THEN "run"
                      ELSE IF job[p].at = "preparation" THEN "prepared box" ELSE "images"]
<1>3. j \in Jobs /\ j.run = job[p].run /\ j.alone = job[p].alone /\ j.at = job[p].at
  BY <1>1 DEF Jobs
<1>4. Placed(j)
  BY <1>1 DEF Jobs, Placed, BothBuilt
<1>5. j.pc = "run" => box'[j.at].state = "none"
  <2>1. j.pc = "run" => verified
    BY <1>1 DEF Jobs
  <2>2. verified => box'[job[p].at].state = "none"
    BY <1>2 DEF Verifies, Absent, NameFree
  <2>3. QED
    BY <2>1, <2>2, <1>3
<1>6. job' = [job EXCEPT ![p] = j]
  BY <1>2
<1>7. Moves(p)
  BY <1>1, <1>3, <1>4, <1>5, <1>6, ReplacedMoves
<1>8. (Works \/ Fault) /\ UNCHANGED <<recipe, box, volume, images, runs>>
  BY <1>2 DEF Verifies
<1>9. QED
  BY <1>7, <1>8, FaultsTyped DEF WorldOK, RuntimeInv, TypeOK

LEMMA RunsBoxMoves ==
    ASSUME RuntimeInv, NEW p \in Procs, RunsBox(p) PROVE Moves(p) /\ WorldOK'
<1>1. job[p] \in Jobs /\ Placed(job[p]) /\ job[p].pc = "run" /\ Busy(job[p])
  BY DEF RuntimeInv, TypeOK, RunsBox, At, Busy
<1>2. PICK next \in {"await", "ran"} : job' = [job EXCEPT ![p].pc = next, ![p].ok = FALSE]
  BY DEF RunsBox
<1> DEFINE j == [job[p] EXCEPT !.pc = next, !.ok = FALSE]
<1>3. j \in Jobs /\ j.run = job[p].run /\ j.alone = job[p].alone /\ j.pc # "run"
  BY <1>1, <1>2 DEF Jobs
<1>4. Placed(j)
  BY <1>1, <1>2 DEF Jobs, Placed, BothBuilt
<1>5. job' = [job EXCEPT ![p] = j]
  BY <1>2
<1>6. Moves(p)
  BY <1>1, <1>3, <1>4, <1>5, ReplacedMoves
<1>7. ASSUME NEW s \in {"running", "exited"} PROVE Box(p, s) \in [Names -> Boxes]
  <2>1. [state |-> s, run |-> job[p].run, input |-> job[p].input] \in Boxes
    BY <1>1 DEF Jobs, Boxes
  <2>2. QED
    BY <2>1 DEF Box, RuntimeInv, TypeOK
<1>8. box' \in [Names -> Boxes]
  BY <1>7 DEF RunsBox, RuntimeInv, TypeOK
<1>9. volume' \in Inputs /\ (Works \/ Fault)
  BY DEF RunsBox, RuntimeInv, TypeOK, Inputs
<1>10. QED
  BY <1>6, <1>8, <1>9, FaultsTyped DEF RunsBox, WorldOK, RuntimeInv, TypeOK

LEMMA AwaitsMoves ==
    ASSUME RuntimeInv, NEW p \in Procs, Awaits(p) PROVE Moves(p) /\ WorldOK'
<1>1. job[p] \in Jobs /\ Placed(job[p]) /\ job[p].pc = "await" /\ Busy(job[p])
  BY DEF RuntimeInv, TypeOK, Awaits, At, Busy
<1>2. PICK ok \in {FALSE, job[p].ok} : job' = [job EXCEPT ![p].pc = "ran", ![p].ok = ok]
  BY DEF Awaits
<1> DEFINE j == [job[p] EXCEPT !.pc = "ran", !.ok = ok]
<1>3. j \in Jobs /\ j.run = job[p].run /\ j.alone = job[p].alone /\ j.pc # "run"
  BY <1>1, <1>2 DEF Jobs
<1>4. Placed(j)
  BY <1>1 DEF Jobs, Placed, BothBuilt
<1>5. job' = [job EXCEPT ![p] = j]
  BY <1>2
<1>6. Moves(p)
  BY <1>1, <1>3, <1>4, <1>5, ReplacedMoves
<1>7. QED
  BY <1>6 DEF Awaits, WorldOK, RuntimeInv, TypeOK


-----------------------------------------------------------------------------
(* The preparation *)

LEMMA FinishesPreparationMoves ==
    ASSUME RuntimeInv, NEW p \in Procs, FinishesPreparation(p) PROVE Moves(p) /\ WorldOK'
<1>1. job[p] \in Jobs /\ Placed(job[p]) /\ job[p].pc = "ran" /\ Busy(job[p])
  BY DEF RuntimeInv, TypeOK, FinishesPreparation, At, Busy
<1>2. PICK j \in {[job[p] EXCEPT !.pc = "copy"],
               [job[p] EXCEPT !.pc = "prepared box", !.failed = TRUE]} :
        job' = [job EXCEPT ![p] = j]
  BY <1>1 DEF FinishesPreparation, AfterPreparation
<1>3. j \in Jobs /\ j.run = job[p].run /\ j.alone = job[p].alone /\ j.pc # "run"
  BY <1>1, <1>2 DEF Jobs, Names
<1>4. Placed(j)
  BY <1>1, <1>2 DEF Jobs, Placed, BothBuilt, Sides
<1>5. Moves(p)
  BY <1>1, <1>2, <1>3, <1>4, ReplacedMoves
<1>6. QED
  BY <1>5 DEF FinishesPreparation, WorldOK, RuntimeInv, TypeOK

LEMMA CopiesMoves ==
    ASSUME RuntimeInv, NEW p \in Procs, Copies(p) PROVE Moves(p) /\ WorldOK'
<1>1. job[p] \in Jobs /\ Placed(job[p]) /\ job[p].pc = "copy" /\ Busy(job[p]) /\ volume \in Inputs
  BY DEF RuntimeInv, TypeOK, Copies, At, Busy
<1>2. PICK j \in {[job[p] EXCEPT !.pc = "prepared box", !.input = volume],
                  [job[p] EXCEPT !.pc = "prepared box", !.failed = TRUE],
                  [job[p] EXCEPT !.pc = "images", !.raised = TRUE]} :
        job' = [job EXCEPT ![p] = j]
  BY DEF Copies, Raises, AfterPreparation
<1>3. j \in Jobs /\ j.run = job[p].run /\ j.alone = job[p].alone /\ j.pc # "run"
  BY <1>1, <1>2 DEF Jobs
<1>4. Placed(j)
  BY <1>1, <1>2 DEF Jobs, Placed, BothBuilt
<1>5. Moves(p)
  BY <1>1, <1>2, <1>3, <1>4, ReplacedMoves
<1>6. QED
  BY <1>5 DEF Copies, Works, WorldOK, RuntimeInv, TypeOK

LEMMA CleansPreparationMoves ==
    ASSUME RuntimeInv, NEW p \in Procs, CleansPreparation(p) PROVE Moves(p) /\ WorldOK'
<1>1. job[p] \in Jobs /\ Placed(job[p]) /\ job[p].pc = "prepared box" /\ Busy(job[p])
  BY DEF RuntimeInv, TypeOK, CleansPreparation, At, Busy
<1>2. PICK verified \in BOOLEAN :
        /\ Verifies(p, Absent(p), verified)
        /\ job' = [job EXCEPT
               ![p].forced = FALSE, ![p].failed = @ \/ ~verified, ![p].pc = "prepared volume"]
  BY DEF CleansPreparation
<1> DEFINE j == [job[p] EXCEPT
               !.forced = FALSE, !.failed = @ \/ ~verified, !.pc = "prepared volume"]
<1>3. j \in Jobs /\ j.run = job[p].run /\ j.alone = job[p].alone /\ j.pc # "run"
  BY <1>1 DEF Jobs, Names, Sides, CleanupNoted, ExitedWell
<1>4. Placed(j)
  BY <1>1 DEF Jobs, Placed, BothBuilt
<1>5. job' = [job EXCEPT ![p] = j]
  BY <1>2
<1>6. Moves(p)
  BY <1>1, <1>3, <1>4, <1>5, ReplacedMoves
<1>7. (Works \/ Fault) /\ UNCHANGED <<recipe, box, volume, images, runs>>
  BY <1>2 DEF Verifies
<1>8. QED
  BY <1>6, <1>7, FaultsTyped DEF WorldOK, RuntimeInv, TypeOK

LEMMA ForcesVolumeMoves ==
    ASSUME RuntimeInv, NEW p \in Procs, ForcesVolume(p) PROVE Moves(p) /\ WorldOK'
<1>1. job[p] \in Jobs /\ Placed(job[p]) /\ job[p].pc = "prepared volume" /\ Busy(job[p])
  BY DEF RuntimeInv, TypeOK, ForcesVolume, At, Busy
<1> DEFINE j == [job[p] EXCEPT !.forced = TRUE]
<1>2. j \in Jobs /\ j.run = job[p].run /\ j.alone = job[p].alone /\ j.pc # "run" /\ Placed(j)
  BY <1>1 DEF Jobs, Placed, BothBuilt
<1>3. job' = [job EXCEPT ![p] = j]
  BY DEF ForcesVolume
<1>4. Moves(p)
  BY <1>1, <1>2, <1>3, ReplacedMoves
<1>5. volume' \in Inputs /\ (Works \/ Fault)
  BY DEF ForcesVolume, RuntimeInv, TypeOK, Inputs
<1>6. QED
  BY <1>4, <1>5, FaultsTyped DEF ForcesVolume, WorldOK, RuntimeInv, TypeOK

LEMMA CleansVolumeMoves ==
    ASSUME RuntimeInv, NEW p \in Procs, CleansVolume(p) PROVE Moves(p) /\ WorldOK'
<1>1. job[p] \in Jobs /\ Placed(job[p]) /\ job[p].pc = "prepared volume" /\ Busy(job[p])
  BY DEF RuntimeInv, TypeOK, CleansVolume, At, Busy
<1>2. PICK verified \in BOOLEAN :
        /\ Verifies(p, volume = "none", verified)
        /\ job' = [job EXCEPT
               ![p].forced = FALSE, ![p].failed = @ \/ ~verified, ![p].at = "control",
               ![p].pc = IF job[p].failed \/ ~verified THEN "images" ELSE "clear"]
  BY DEF CleansVolume
<1> DEFINE j == [job[p] EXCEPT
               !.forced = FALSE, !.failed = @ \/ ~verified, !.at = "control",
               !.pc = IF job[p].failed \/ ~verified THEN "images" ELSE "clear"]
<1>3. j \in Jobs /\ j.run = job[p].run /\ j.alone = job[p].alone /\ j.pc # "run"
  BY <1>1 DEF Jobs, Names, Sides, CleanupNoted, ExitedWell
<1>4. Placed(j)
  BY <1>1 DEF Jobs, Placed, BothBuilt
<1>5. job' = [job EXCEPT ![p] = j]
  BY <1>2
<1>6. Moves(p)
  BY <1>1, <1>3, <1>4, <1>5, ReplacedMoves
<1>7. (Works \/ Fault) /\ UNCHANGED <<recipe, box, volume, images, runs>>
  BY <1>2 DEF Verifies
<1>8. QED
  BY <1>6, <1>7, FaultsTyped DEF WorldOK, RuntimeInv, TypeOK

-----------------------------------------------------------------------------
(* The images and the verdict *)

\* What the end of a side writes into a job keeps its type.
LEMMA SideTyped ==
    ASSUME NEW j \in Jobs, NEW forced \in BOOLEAN, NEW said \in BOOLEAN, NEW failed \in BOOLEAN,
           NEW pc \in {"clear", "images"}, NEW at \in Names
    PROVE  [j EXCEPT !.forced = forced, !.said = said, !.failed = failed, !.pc = pc, !.at = at]
             \in Jobs
BY DEF Jobs

LEMMA CleansSideMoves ==
    ASSUME RuntimeInv, NEW p \in Procs, CleansSide(p) PROVE Moves(p) /\ WorldOK'
<1>1. job[p] \in Jobs /\ Placed(job[p]) /\ job[p].pc = "ran" /\ Busy(job[p])
  BY DEF RuntimeInv, TypeOK, CleansSide, At, Busy
<1>2. PICK verified \in BOOLEAN :
        /\ Verifies(p, Absent(p), verified)
        /\ job' = [job EXCEPT
               ![p].forced = FALSE,
               ![p].said = @ \/ CleanupNoted(verified),
               ![p].failed = @ \/ ~ExitedWell(p),
               ![p].pc = IF ExitedWell(p) /\ job[p].at = "control" THEN "clear" ELSE "images",
               ![p].at = "candidate"]
  BY DEF CleansSide
<1> DEFINE j == [job[p] EXCEPT
               !.forced = FALSE,
               !.said = @ \/ CleanupNoted(verified),
               !.failed = @ \/ ~ExitedWell(p),
               !.pc = IF ExitedWell(p) /\ job[p].at = "control" THEN "clear" ELSE "images",
               !.at = "candidate"]
<1>3. /\ j.pc \in {"clear", "images"} /\ j.at = "candidate" /\ j.tags = job[p].tags
      /\ j.run = job[p].run /\ j.alone = job[p].alone
  BY <1>1 DEF Jobs
<1>9. j \in Jobs
  <2>1. /\ "candidate" \in Names
        /\ (IF ExitedWell(p) /\ job[p].at = "control" THEN "clear" ELSE "images") \in {"clear", "images"}
    BY DEF Names, Sides
  <2>2. (job[p].said \/ CleanupNoted(verified)) \in BOOLEAN /\ (job[p].failed \/ ~ExitedWell(p)) \in BOOLEAN
    BY <1>1 DEF Jobs, CleanupNoted, ExitedWell
  <2>3. QED
    BY <1>1, <2>1, <2>2, SideTyped
<1>4. Placed(j)
  <2>1. job[p].tags = Sides /\ job[p].run \in 1..MaxRuns
    BY <1>1 DEF Placed, BothBuilt
  <2>2. QED
    BY <1>3, <2>1 DEF Placed
<1>5. job' = [job EXCEPT ![p] = j]
  BY <1>2
<1>6. Moves(p)
  BY <1>1, <1>3, <1>4, <1>5, <1>9, ReplacedMoves
<1>7. (Works \/ Fault) /\ UNCHANGED <<recipe, box, volume, images, runs>>
  BY <1>2 DEF Verifies
<1>8. QED
  BY <1>6, <1>7, FaultsTyped DEF WorldOK, RuntimeInv, TypeOK

LEMMA RemovesImageMoves ==
    ASSUME RuntimeInv, NEW p \in Procs, RemovesImage(p) PROVE Moves(p) /\ WorldOK'
<1>1. job[p] \in Jobs /\ Placed(job[p]) /\ job[p].pc = "images" /\ Busy(job[p])
  BY DEF RuntimeInv, TypeOK, RemovesImage, At, Busy
<1>2. PICK tags \in SUBSET Sides, failed \in BOOLEAN :
        job' = [job EXCEPT ![p].tags = tags, ![p].failed = failed]
  <2>1. PICK s \in job[p].tags : \/ job' = [job EXCEPT ![p].tags = @ \ {s}]
                                 \/ job' = [job EXCEPT ![p].tags = @ \ {s}, ![p].failed = TRUE]
    BY DEF RemovesImage
  <2>2. job[p].tags \ {s} \in SUBSET Sides /\ job[p].failed \in BOOLEAN
    BY <1>1 DEF Jobs
  <2>3. [job EXCEPT ![p].tags = @ \ {s}]
          = [job EXCEPT ![p].tags = job[p].tags \ {s}, ![p].failed = job[p].failed]
    BY <1>1 DEF Jobs, RuntimeInv, TypeOK
  <2>4. QED
    BY <2>1, <2>2, <2>3
<1> DEFINE j == [job[p] EXCEPT !.tags = tags, !.failed = failed]
<1>3. j \in Jobs /\ j.run = job[p].run /\ j.alone = job[p].alone /\ j.pc # "run"
  BY <1>1, <1>2 DEF Jobs
<1>4. Placed(j)
  BY <1>1, <1>2 DEF Jobs, Placed, BothBuilt
<1>8. job' = [job EXCEPT ![p] = j]
  BY <1>2
<1>5. Moves(p)
  BY <1>1, <1>3, <1>4, <1>8, ReplacedMoves
<1>6. images' \subseteq images /\ (Works \/ Fault)
  BY DEF RemovesImage
<1>7. QED
  BY <1>5, <1>6, FaultsTyped DEF RemovesImage, WorldOK, RuntimeInv, TypeOK

LEMMA ConcludesMoves ==
    ASSUME RuntimeInv, NEW p \in Procs, Concludes(p) PROVE Moves(p) /\ WorldOK'
<1>1. job[p] \in Jobs /\ Placed(job[p]) /\ job[p].pc = "images" /\ Busy(job[p])
  BY DEF RuntimeInv, TypeOK, Concludes, At, Busy
<1> DEFINE verdict == IF job[p].raised THEN "RAISED" ELSE IF job[p].failed THEN "BLOCKED" ELSE "READY"
           j == [job[p] EXCEPT !.pc = "done", !.status = verdict]
<1>2. job' = [job EXCEPT ![p] = j]
  BY DEF Concludes
<1>7. verdict \in {"RAISED", "BLOCKED", "READY"}
  OBVIOUS
<1> HIDE DEF verdict
<1>3. j \in Jobs /\ j.run = job[p].run /\ j.alone = job[p].alone /\ j.pc = "done"
  BY <1>1, <1>7 DEF Jobs
<1>4. Placed(j)
  BY <1>3 DEF Placed, BothBuilt
<1>5. Moves(p)
  BY <1>1, <1>2, <1>3, <1>4, ReplacedMoves
<1>6. QED
  BY <1>5 DEF Concludes, WorldOK, RuntimeInv, TypeOK

-----------------------------------------------------------------------------
(* The start of a reconstruction and the end of a container *)

LEMMA StartKeeps == ASSUME RuntimeInv, NEW p \in Procs, Starts(p) PROVE RuntimeInv'
<1> DEFINE others == {q \in Procs \ {p} : Active(q)}
           new == Job(runs', others = {})
<1>1. runs' \in 1..MaxRuns /\ WorldOK'
  BY BoundsAssumption DEF Starts, RuntimeInv, TypeOK, WorldOK
<1>2. new \in Jobs
  <2>1. "control" \in Names /\ {} \in SUBSET Sides /\ "none" \in Inputs
    BY DEF Names, Sides, Inputs
  <2>2. QED
    BY <1>1, <2>1 DEF Job, Jobs
<1>3. \A q \in Procs : job'[q] = IF q = p THEN new
                                 ELSE IF q \in others THEN [job[q] EXCEPT !.alone = FALSE]
                                 ELSE job[q]
  BY DEF Starts
<1>4. job' \in [Procs -> Jobs]
  <2>1. \A q \in Procs : [job[q] EXCEPT !.alone = FALSE] \in Jobs
    <3>1. \A j \in Jobs : [j EXCEPT !.alone = FALSE] \in Jobs
      BY DEF Jobs
    <3>2. QED
      BY <3>1 DEF RuntimeInv, TypeOK
  <2>2. job' = [q \in Procs |-> IF q = p THEN new
                                ELSE IF q \in others THEN [job[q] EXCEPT !.alone = FALSE]
                                ELSE job[q]]
    BY DEF Starts
  <2>3. QED
    BY <1>2, <2>1, <2>2 DEF RuntimeInv, TypeOK
<1>5. ASSUME NEW q \in Procs \ {p}
      PROVE  /\ job'[q].pc = job[q].pc /\ job'[q].at = job[q].at /\ job'[q].run = job[q].run
             /\ job'[q].tags = job[q].tags /\ job'[q].failed = job[q].failed
             /\ job'[q].alone => job[q].alone /\ ~Busy(job[q])
  <2>1. CASE q \in others
    <3>1. job'[q] = [job[q] EXCEPT !.alone = FALSE] /\ job[q] \in Jobs
      BY <1>3, <2>1 DEF RuntimeInv, TypeOK
    <3>2. QED
      BY <3>1 DEF Jobs
  <2>2. CASE q \notin others
    BY <1>3, <2>2 DEF Active, Busy, At
  <2>3. QED
    BY <2>1, <2>2
<1>6. /\ job'[p].pc = "base" /\ job'[p].at = "control" /\ job'[p].run = runs'
      /\ job'[p].alone = (others = {}) /\ ~job'[p].failed
  <2>1. \A n, b : /\ Job(n, b).pc = "base" /\ Job(n, b).at = "control" /\ Job(n, b).run = n
                  /\ Job(n, b).alone = b /\ Job(n, b).failed = FALSE
    BY DEF Job
  <2>2. job'[p] = new
    BY <1>3
  <2>3. QED
    BY <2>1, <2>2
<1>7. \A q \in Procs : Placed(job'[q])
  <2>1. Placed(job'[p])
    BY <1>1, <1>6 DEF Placed, BothBuilt
  <2>2. \A q \in Procs \ {p} : Placed(job'[q])
    BY <1>5 DEF RuntimeInv, Placed
  <2>3. QED
    BY <2>1, <2>2
<1>8. Separate'
  <2> SUFFICES ASSUME NEW q \in Procs, NEW r \in Procs, q # r, Busy(job'[q]), Busy(job'[r])
               PROVE  ~job'[q].alone
    BY DEF Separate
  <2>1. CASE q = p
    <3>1. Busy(job[r])
      BY <1>5, <2>1 DEF Busy
    <3>2. r \in others
      BY <3>1, <2>1 DEF Busy, Active, At
    <3>3. QED
      BY <3>2, <2>1, <1>6
  <2>2. CASE q # p
    BY <1>5, <2>2 DEF Busy
  <2>3. QED
    BY <2>1, <2>2
<1>9. RerunFindsNameFree'
  BY <1>5, <1>6 DEF Starts, RuntimeInv, RerunFindsNameFree, At, Busy
<1>10. TypeOK'
  BY <1>1, <1>4, <1>7 DEF TypeOK, WorldOK, Placed, BothBuilt, At
<1>11. QED
  BY <1>7, <1>8, <1>9, <1>10 DEF RuntimeInv

LEMMA EndsKeeps == ASSUME RuntimeInv, NEW n \in Names, Ends(n) PROVE RuntimeInv'
<1>1. PICK ok \in BOOLEAN :
        /\ job' = [p \in Procs |-> IF At(p, "await") /\ job[p].at = n /\ job[p].run = box[n].run
                                   THEN [job[p] EXCEPT !.ok = ok] ELSE job[p]]
        /\ volume' = IF n = "preparation" /\ ok THEN "settled" ELSE volume
  BY DEF Ends
<1>2. job' \in [Procs -> Jobs]
  <2>1. \A p \in Procs : [job[p] EXCEPT !.ok = ok] \in Jobs
    <3>1. \A j \in Jobs : [j EXCEPT !.ok = ok] \in Jobs
      BY DEF Jobs
    <3>2. QED
      BY <3>1 DEF RuntimeInv, TypeOK
  <2>2. QED
    BY <1>1, <2>1 DEF RuntimeInv, TypeOK
<1>3. ASSUME NEW p \in Procs
      PROVE  /\ job'[p].pc = job[p].pc /\ job'[p].at = job[p].at /\ job'[p].run = job[p].run
             /\ job'[p].tags = job[p].tags /\ job'[p].failed = job[p].failed
             /\ job'[p].alone = job[p].alone
  <2>1. job'[p] \in {job[p], [job[p] EXCEPT !.ok = ok]} /\ job[p] \in Jobs
    BY <1>1 DEF RuntimeInv, TypeOK
  <2>2. QED
    BY <2>1 DEF Jobs
<1>4. (\A p \in Procs : Placed(job'[p])) /\ Separate'
  BY <1>3 DEF RuntimeInv, Placed, Separate, Busy
<1>5. box' \in [Names -> Boxes] /\ \A m \in Names : box[m].state = "none" => box'[m].state = "none"
  <2>1. [box[n] EXCEPT !.state = "exited"] \in Boxes
    BY DEF RuntimeInv, TypeOK, Boxes
  <2>2. box' = [box EXCEPT ![n] = [box[n] EXCEPT !.state = "exited"]] /\ box[n].state = "running"
    BY DEF Ends
  <2>3. QED
    BY <2>1, <2>2 DEF RuntimeInv, TypeOK
<1>6. RerunFindsNameFree'
  <2>1. \A p \in Procs : job[p].at \in Names
    BY DEF RuntimeInv, TypeOK, Jobs
  <2>2. QED
    BY <1>3, <1>5, <2>1 DEF RuntimeInv, RerunFindsNameFree, At
<1>7. WorldOK'
  BY <1>1, <1>5 DEF Ends, WorldOK, RuntimeInv, TypeOK, Inputs
<1>8. TypeOK'
  BY <1>2, <1>4, <1>7 DEF TypeOK, WorldOK, Placed, BothBuilt, At
<1>9. QED
  BY <1>4, <1>6, <1>8 DEF RuntimeInv

-----------------------------------------------------------------------------
(* The theorems *)

LEMMA RuntimeStep == RuntimeInv /\ [Next]_vars => RuntimeInv'
<1> SUFFICES ASSUME RuntimeInv, [Next]_vars PROVE RuntimeInv'
    OBVIOUS
<1>1. CASE UNCHANGED vars
  BY <1>1 DEF vars, RuntimeInv, TypeOK, Separate, RerunFindsNameFree, At
<1>2. ASSUME NEW p \in Procs, Step(p) PROVE RuntimeInv'
  <2>1. CASE Starts(p)
    BY <2>1, StartKeeps
  <2>2. CASE ~Starts(p)
    <3>1. Moves(p) /\ WorldOK'
      BY <1>2, <2>2, ChecksBaseMoves, BuildsMoves, CreatesVolumeMoves, ForcesBoxMoves,
         ClearsNameMoves, RunsBoxMoves, AwaitsMoves, FinishesPreparationMoves, CopiesMoves,
         CleansPreparationMoves, ForcesVolumeMoves, CleansVolumeMoves, CleansSideMoves,
         RemovesImageMoves, ConcludesMoves, DiesMoves DEF Step
    <3>2. QED
      BY <3>1, MoveKeeps
  <2>3. QED
    BY <2>1, <2>2
<1>3. ASSUME NEW n \in Names, Ends(n) PROVE RuntimeInv'
  BY <1>3, EndsKeeps
<1>4. QED
  BY <1>1, <1>2, <1>3 DEF Next

LEMMA RuntimeAlways == Spec => []RuntimeInv
BY RuntimeInit, RuntimeStep, PTL DEF Spec

\* However many processes reconstruct the case, each of reconstruct_historical_cases
\* keeps its types, and only sides that were built are run.
THEOREM RuntimeTypes == Spec => []TypeOK
<1>1. RuntimeInv => TypeOK
  BY DEF RuntimeInv
<1>2. QED
  BY <1>1, RuntimeAlways, PTL

\* A reconstruction that has the case for itself finds the name of its container
\* free when it calls docker run, whatever died or failed before it.
THEOREM LoneRunFindsNameFree == Spec => []RerunFindsNameFree
<1>1. RuntimeInv => RerunFindsNameFree
  BY DEF RuntimeInv
<1>2. QED
  BY <1>1, RuntimeAlways, PTL
-----------------------------------------------------------------------------
(* The verdict and what is left behind: the invariant *)

Runs == 1..runs
PrepClean == box["preparation"].state = "none" /\ volume = "none"
AllClean == PrepClean /\ \A s \in Sides : box[s].state = "none"

\* Containers and images belong to a reconstruction that was started, two processes
\* never to the same one, and the latest one, if alone, has the case for itself.
Owned ==
    /\ ~recipe.prepares => PrepClean
    /\ runs = 0 => volume = "none"
    /\ \A n \in Names : box[n] = NoBox \/ box[n].run \in Runs
    /\ images \subseteq Runs \X Sides
    /\ \A p \in Procs : /\ job[p].run <= runs
                        /\ Busy(job[p]) /\ job[p].alone => job[p].run = runs
    /\ \A p, q \in Procs : p # q =>
         /\ job[p].run = job[q].run => job[p].run = 0
         /\ LastAlone(p) => ~Busy(job[q])

\* What the position in the source says about the flags.
Flagged(j) ==
    /\ j.pc \in {"volume", "copy", "prepared box", "prepared volume"} => j.at = "preparation"
    /\ ~recipe.prepares => j.at # "preparation"
    /\ j.forced => \/ j.pc \in {"clear", "prepared box", "prepared volume", "dead"}
                   \/ j.pc = "ran" /\ j.at \in Sides
    /\ j.pc = "base" => j.tags = {} /\ ~j.raised
    /\ j.pc \notin {"idle", "done", "dead"} => j.status = "none"
    /\ j.pc = "done" => j.tags = {} /\ j.run > 0
    /\ j.pc = "done" /\ j.status = "READY" => ~j.failed
    /\ j.pc = "done" /\ j.status \in {"READY", "BLOCKED"} => ~j.raised

\* What a job with a trustworthy input has seen of the sides.
Trusted(j) ==
    j.alone \/ ~recipe.prepares =>
        /\ j.input # "partial"
        /\ j.pc \in {"await", "ran"} /\ j.at \in Sides /\ j.ok => j.at \in recipe.reproduces
        /\ j.pc \in {"clear", "run", "await", "ran"} /\ j.at = "candidate"
             => "control" \in recipe.reproduces
        /\ j.pc \in {"images", "done"} /\ ~j.failed /\ ~j.raised /\ j.status # "BLOCKED"
             => Sides \subseteq recipe.reproduces

\* A preparation that exited well has filled the volume of a job that is alone.
Filled(j) ==
    /\ j.alone /\ j.at = "preparation"
    /\ (j.pc \in {"await", "ran"} /\ j.ok) \/ j.pc = "copy"
    => volume = "settled"

\* The container a side waits for was given the input of its job.
Given(j) ==
    \A s \in Sides : j.pc = "await" /\ j.at = s /\ box[s].run = j.run => box[s].input = j.input

\* What an undisturbed cleanup has removed by now.
Swept(j) ==
    /\ j.pc = "prepared volume" /\ ~j.failed => box["preparation"].state = "none"
    /\ j.at \in Sides /\ j.pc \in {"clear", "run", "await", "ran"}
         => PrepClean /\ (j.at = "candidate" /\ ~j.said => box["control"].state = "none")
    /\ j.pc \in {"images", "done"} /\ ~j.failed /\ ~j.said /\ ~j.raised /\ j.status # "BLOCKED"
         => AllClean

\* Images without a tag, and containers out of reach of their own cleanup, take a fault.
Tagged(j) ==
    j.run > 0 /\ (~j.failed \/ faults = 0) => \A s \in Sides : <<j.run, s>> \in images => s \in j.tags
Held(j) ==
    j.run > 0 /\ faults = 0 /\ ~j.raised /\ j.pc # "dead" =>
        \A n \in Names : box[n].run = j.run =>
            /\ n = j.at
            /\ j.pc \in {"await", "copy"} \/ (j.pc \in {"ran", "prepared box"} /\ ~j.forced)
FirstVolume(j) ==
    j.run = 1 /\ faults = 0 /\ ~j.raised /\ j.pc # "dead" /\ volume # "none" =>
        /\ j.at = "preparation"
        /\ j.pc \in {"clear", "run", "await", "ran", "copy", "prepared box"}
             \/ (j.pc = "prepared volume" /\ ~j.forced)

Fine(p) ==
    /\ Flagged(job[p]) /\ Trusted(job[p]) /\ Filled(job[p]) /\ Given(job[p])
    /\ Tagged(job[p]) /\ Held(job[p])
    /\ LastAlone(p) => Swept(job[p]) /\ FirstVolume(job[p])

EndInv == RuntimeInv /\ Owned /\ \A p \in Procs : Fine(p)

JobFields == {"pc", "at", "run", "tags", "input", "ok", "forced", "failed", "said", "raised",
              "status", "alone"}
\* A process leaves the other fields of its job alone.
KeepsBut(p, changed) == \A f \in JobFields \ changed : job'[p][f] = job[p][f]

\* What an action of p may do to the rest: containers and images that come are of
\* its own reconstruction, and a case without a preparation has none to change.
Touches(p) ==
    /\ UNCHANGED <<recipe, runs>>
    /\ \A n \in Names : \/ box'[n] = box[n] \/ box'[n] = NoBox
                        \/ box'[n].run = job[p].run /\ box[n].state = "none"
    /\ images' \subseteq images \cup ({job[p].run} \X Sides)
    /\ faults' = 0 => faults = 0
    /\ ~recipe.prepares => volume' = volume /\ box'["preparation"].state = "none"

\* What a step of p does not disturb: ownership, and the jobs of the others.
LEMMA OwnedKept ==
    ASSUME EndInv, NEW p \in Procs, Moves(p), Touches(p)
    PROVE  Owned'
<1>1. /\ \A q \in Procs : /\ job'[q].run = job[q].run /\ job'[q].alone = job[q].alone
                          /\ Busy(job'[q]) => Busy(job[q])
      /\ UNCHANGED <<recipe, runs>>
  BY DEF Moves, Touches
<1>2. job[p].run \in Runs /\ runs \in Nat
  <2>1. job[p].run \in 1..MaxRuns /\ job[p].run <= runs /\ runs \in 0..MaxRuns
    BY DEF EndInv, RuntimeInv, TypeOK, Owned, Moves, Placed, Busy
  <2>2. QED
    BY <2>1, BoundsAssumption DEF Runs
<1>3. (~recipe.prepares => PrepClean)' /\ (runs = 0 => volume = "none")'
  BY <1>2 DEF EndInv, Owned, Touches, PrepClean, Runs
<1>4. (\A n \in Names : box[n] = NoBox \/ box[n].run \in Runs)'
  BY <1>2 DEF EndInv, Owned, Touches, NoBox, Runs
<1>5. (images \subseteq Runs \X Sides)'
  BY <1>2 DEF EndInv, Owned, Touches, Runs
<1>6. (\A q \in Procs : /\ job[q].run <= runs
                        /\ Busy(job[q]) /\ job[q].alone => job[q].run = runs)'
  BY <1>1 DEF EndInv, Owned
<1>7. (\A q, r \in Procs : q # r =>
         /\ job[q].run = job[r].run => job[q].run = 0
         /\ LastAlone(q) => ~Busy(job[r]))'
  BY <1>1 DEF EndInv, Owned, LastAlone
<1>8. QED
  BY <1>3, <1>4, <1>5, <1>6, <1>7 DEF Owned

\* What a process may find in the place of a container that is gone.
LEMMA NoBoxEmpty == NoBox.state = "none" /\ NoBox.run = 0
BY DEF NoBox

\* A run that has had a fault has one ever after.
LEMMA FaultCounts == RuntimeInv /\ Fault => faults' # 0
BY BoundsAssumption DEF RuntimeInv, TypeOK, Fault

\* A job at work belongs to a reconstruction that was started.
LEMMA BusyRuns == ASSUME RuntimeInv, NEW p \in Procs, Busy(job[p]) PROVE job[p].run > 0
<1>1. job[p].run \in 1..MaxRuns
  BY DEF RuntimeInv, Placed, Busy
<1>2. QED
  BY <1>1, BoundsAssumption

\* A step of p keeps the promises of every other job: it is not alone any more, and
\* nothing of its own reconstruction is touched.
LEMMA OthersFine ==
    ASSUME EndInv, NEW p \in Procs, Moves(p), Touches(p), NEW q \in Procs \ {p}
    PROVE  Fine(q)'
<1>1. /\ Busy(job[p]) /\ Fine(q) /\ job'[q] = job[q] /\ job[q] \in Jobs
      /\ UNCHANGED <<recipe, runs>> /\ runs \in Nat
  BY BoundsAssumption DEF EndInv, Moves, Touches, RuntimeInv, TypeOK
<1>2. job[q].run > 0 => job[q].run # job[p].run
  BY DEF EndInv, Owned
<1>3. Flagged(job[q])' /\ Trusted(job[q])'
  <2>1. Flagged(job[q])'
    BY <1>1 DEF Fine, Flagged
  <2>2. Trusted(job[q])'
    BY <1>1 DEF Fine, Trusted
  <2>3. QED
    BY <2>1, <2>2
<1>4. ~LastAlone(q) /\ (Busy(job[q]) => ~job[q].alone)
  BY <1>1 DEF EndInv, Owned, RuntimeInv, Separate
<1>5. Filled(job[q])'
  BY <1>1, <1>4 DEF Filled, Busy
<1>6. job[q].pc = "await" => job[q].run > 0
  BY BoundsAssumption DEF EndInv, RuntimeInv, Placed
<1>7. Given(job[q])'
  BY <1>1, <1>2, <1>6 DEF Fine, Given, Touches, NoBox, Names
<1>8. Tagged(job[q])'
  BY <1>1, <1>2 DEF Fine, Tagged, Touches
<1>9. Held(job[q])'
  <2>1. \A n \in Names : job[q].run > 0 /\ box'[n].run = job[q].run => box'[n] = box[n]
    BY <1>2 DEF Touches, NoBox
  <2>2. QED
    BY <1>1, <2>1 DEF Fine, Held, Touches
<1>10. ~LastAlone(q)'
  BY <1>1, <1>4 DEF LastAlone
<1>11. QED
  BY <1>3, <1>5, <1>7, <1>8, <1>9, <1>10 DEF Fine

-----------------------------------------------------------------------------
(* The actions up to the images, and what they leave of a job's promises *)

LEMMA BuildsFine ==
    ASSUME EndInv, NEW p \in Procs, Builds(p) PROVE Touches(p) /\ Fine(p)'
<1>1. /\ job[p] \in Jobs /\ job \in [Procs -> Jobs] /\ job[p].pc = "build"
      /\ job[p].at \in Sides /\ Fine(p) /\ Busy(job[p])
  BY DEF EndInv, RuntimeInv, TypeOK, Builds, At, Busy, Placed
<1>2. job[p].run > 0 /\ (Fault => faults' # 0)
  BY <1>1, BusyRuns, FaultCounts DEF EndInv
<1>3. ASSUME NEW tagged \in BOOLEAN, NEW failed \in BOOLEAN, Built(p, tagged, failed)
      PROVE  /\ KeepsBut(p, {"pc", "at", "tags", "failed"})
             /\ job[p].tags \subseteq job'[p].tags /\ (tagged => job[p].at \in job'[p].tags)
             /\ job'[p].failed = (job[p].failed \/ failed)
             /\ \/ job'[p].pc = "build" /\ job'[p].at = "candidate"
                \/ job'[p].pc = "images" /\ job'[p].at = "candidate" /\ job'[p].failed
                \/ job'[p].pc = "volume" /\ job'[p].at = "preparation" /\ recipe.prepares
                \/ job'[p].pc = "clear" /\ job'[p].at = "control" /\ ~recipe.prepares
  <2> DEFINE next == IF job[p].at = "control" THEN <<"build", "candidate">>
                     ELSE IF job[p].failed \/ failed THEN <<"images", "candidate">>
                     ELSE IF recipe.prepares THEN <<"volume", "preparation">>
                     ELSE <<"clear", "control">>
             j == [job[p] EXCEPT !.tags = @ \cup Tags(job[p].at, tagged), !.failed = @ \/ failed,
                                 !.pc = next[1], !.at = next[2]]
  <2>1. job'[p] = j
    BY <1>1, <1>3 DEF Built
  <2>2. \/ next[1] = "build" /\ next[2] = "candidate"
        \/ next[1] = "images" /\ next[2] = "candidate" /\ (job[p].failed \/ failed)
        \/ next[1] = "volume" /\ next[2] = "preparation" /\ recipe.prepares
        \/ next[1] = "clear" /\ next[2] = "control" /\ ~recipe.prepares
    OBVIOUS
  <2> HIDE DEF next
  <2>3. /\ job'[p].pc = next[1] /\ job'[p].at = next[2]
        /\ job'[p].tags = job[p].tags \cup Tags(job[p].at, tagged)
        /\ job'[p].failed = (job[p].failed \/ failed)
        /\ KeepsBut(p, {"pc", "at", "tags", "failed"})
    BY <1>1, <2>1 DEF Jobs, JobFields, KeepsBut
  <2>4. QED
    BY <2>2, <2>3 DEF Tags
<1>4. \/ /\ job'[p].pc = "images" /\ job'[p].raised /\ KeepsBut(p, {"pc", "raised"})
         /\ UNCHANGED <<images, faults>>
      \/ /\ KeepsBut(p, {"pc", "at", "tags", "failed"})
         /\ job[p].failed => job'[p].failed
         /\ job[p].tags \subseteq job'[p].tags
         /\ \/ UNCHANGED images
            \/ images' = images \cup {<<job[p].run, job[p].at>>} /\ job[p].at \in job'[p].tags
         /\ \/ job'[p].pc = "build" /\ job'[p].at = "candidate"
            \/ job'[p].pc = "images" /\ job'[p].at = "candidate" /\ job'[p].failed
            \/ job'[p].pc = "volume" /\ job'[p].at = "preparation" /\ recipe.prepares
            \/ job'[p].pc = "clear" /\ job'[p].at = "control" /\ ~recipe.prepares
  <2>1. CASE Raises(p) /\ Works /\ UNCHANGED images
    <3>1. job'[p] = [job[p] EXCEPT !.pc = "images", !.raised = TRUE]
      BY <1>1, <2>1 DEF Raises
    <3>2. QED
      BY <1>1, <2>1, <3>1 DEF Jobs, JobFields, KeepsBut, Works
  <2>2. ASSUME NEW failed \in BOOLEAN, Built(p, TRUE, failed),
               images' \in {images, images \cup {<<job[p].run, job[p].at>>}}
        PROVE  <1>4!2
    BY <1>3, <2>2
  <2>3. CASE Built(p, FALSE, TRUE) /\ UNCHANGED images
    BY <1>3, <2>3
  <2>4. QED
    BY <2>1, <2>2, <2>3 DEF Builds
<1>5. /\ UNCHANGED <<recipe, box, volume, runs>>
      /\ job'[p].run = job[p].run /\ job'[p].input = job[p].input /\ job'[p].ok = job[p].ok
      /\ job'[p].forced = job[p].forced /\ job'[p].said = job[p].said
      /\ job'[p].status = job[p].status /\ job'[p].alone = job[p].alone
      /\ (job[p].raised => job'[p].raised) /\ (job[p].failed => job'[p].failed)
      /\ job[p].tags \subseteq job'[p].tags
      /\ \/ job'[p].pc = "build" /\ job'[p].at \in Sides
         \/ job'[p].pc = "images" /\ job'[p].at \in Sides /\ (job'[p].failed \/ job'[p].raised)
         \/ job'[p].pc = "volume" /\ job'[p].at = "preparation" /\ recipe.prepares
         \/ job'[p].pc = "clear" /\ job'[p].at = "control" /\ ~recipe.prepares
  BY <1>1, <1>4 DEF Builds, KeepsBut, JobFields, Sides
<1>6. /\ images' \subseteq images \cup {<<job[p].run, job[p].at>>}
      /\ \A s \in Sides : <<job[p].run, s>> \in images' =>
           <<job[p].run, s>> \in images \/ s \in job'[p].tags
      /\ faults' = 0 => faults = 0
      /\ job'[p].raised => job[p].raised \/ job'[p].pc = "images"
  <2>1. faults' = 0 => faults = 0
    BY <1>2 DEF Builds, Works
  <2>2. QED
    BY <1>4, <2>1 DEF KeepsBut, JobFields
<1>7. ~recipe.prepares => PrepClean
  BY DEF EndInv, Owned
<1>8. Touches(p)
  BY <1>1, <1>5, <1>6, <1>7 DEF Touches, PrepClean
<1>9. Flagged(job[p])' /\ Trusted(job[p])' /\ Filled(job[p])' /\ Given(job[p])'
  BY <1>1, <1>5, <1>6 DEF Fine, Flagged, Trusted, Filled, Given, Sides
<1>10. Tagged(job[p])'
  <2>1. faults' = 0 \/ ~job'[p].failed => faults = 0 \/ ~job[p].failed
    BY <1>5, <1>6
  <2>2. QED
    BY <1>1, <1>2, <1>5, <1>6, <2>1 DEF Fine, Tagged
<1>11. Held(job[p])'
  <2>1. Held(job[p]) /\ UNCHANGED box /\ job[p].run > 0
    BY <1>1, <1>2, <1>5 DEF Fine
  <2>2. faults' = 0 /\ ~job'[p].raised => faults = 0 /\ ~job[p].raised
    BY <1>5, <1>6
  <2>3. QED
    BY <2>1, <2>2, <1>1, <1>5 DEF Held
<1>12. (LastAlone(p) => Swept(job[p]))'
  BY <1>1, <1>5, <1>7 DEF Swept, PrepClean
<1>13. (LastAlone(p) => FirstVolume(job[p]))'
  BY <1>1, <1>5, <1>6 DEF Fine, LastAlone, FirstVolume
<1>14. QED
  BY <1>8, <1>9, <1>10, <1>12, <1>13, <1>11 DEF Fine

LEMMA ChecksBaseFine ==
    ASSUME EndInv, NEW p \in Procs, ChecksBase(p) PROVE Touches(p) /\ Fine(p)'
<1>1. /\ job[p] \in Jobs /\ job \in [Procs -> Jobs] /\ box \in [Names -> Boxes]
      /\ job[p].pc = "base"
      /\ job[p].at \in Names /\ Fine(p) /\ Busy(job[p])
  BY DEF Jobs, EndInv, RuntimeInv, TypeOK, ChecksBase, Active, At, Busy
<1>2. job[p].run > 0 /\ (Fault => faults' # 0)
  BY <1>1, BusyRuns, FaultCounts DEF EndInv
<1>3. PICK j \in {[job[p] EXCEPT !.pc = "build"], [job[p] EXCEPT !.pc = "done", !.status = "BLOCKED"]} :
        job'[p] = j
  BY <1>1 DEF ChecksBase
<1>4. \/ job'[p].pc = "build" /\ KeepsBut(p, {"pc"})
      \/ job'[p].pc = "done" /\ job'[p].status = "BLOCKED" /\ KeepsBut(p, {"pc", "status"})
  BY <1>1, <1>3 DEF Jobs, JobFields, KeepsBut
<1>5. /\ job'[p].at = job[p].at /\ job'[p].run = job[p].run /\ job'[p].tags = job[p].tags
       /\ job'[p].input = job[p].input /\ job'[p].ok = job[p].ok /\ job'[p].forced = job[p].forced
       /\ job'[p].failed = job[p].failed /\ job'[p].said = job[p].said /\ job'[p].raised = job[p].raised
       /\ job'[p].alone = job[p].alone
  BY <1>4 DEF KeepsBut, JobFields
<1>6. UNCHANGED <<recipe, box, volume, images, runs, faults>>
  BY <1>1 DEF ChecksBase, Works
<1>7. ~recipe.prepares => PrepClean /\ job[p].at # "preparation"
  BY <1>1 DEF EndInv, Owned, Fine, Flagged
<1>8. Touches(p)
  BY <1>1, NoBoxEmpty, <1>2, <1>4, <1>5, <1>6, <1>7 DEF Touches, PrepClean, NameFree, Fine,
     Flagged, Works, Sides, Names
<1>9. Flagged(job[p])'
  BY <1>1, NoBoxEmpty, <1>2, <1>4, <1>5, <1>6 DEF Fine, Flagged, KeepsBut, JobFields, Works,
     Sides, Names
<1>10. Trusted(job[p])'
  BY <1>1, NoBoxEmpty, <1>2, <1>4, <1>5, <1>6 DEF Fine, Trusted, Filled, Flagged, KeepsBut,
     JobFields, Works, Sides, Names
<1>11. Filled(job[p])'
  BY <1>1, NoBoxEmpty, <1>2, <1>4, <1>5, <1>6 DEF Fine, Filled, Flagged, KeepsBut, JobFields,
     Works, Sides, Names
<1>12. Given(job[p])'
  BY <1>1, NoBoxEmpty, <1>2, <1>4, <1>5, <1>6 DEF Fine, Given, Flagged, NameFree, KeepsBut,
     JobFields, Works, Sides, Names
<1>13. Tagged(job[p])'
  BY <1>1, NoBoxEmpty, <1>2, <1>4, <1>5, <1>6 DEF Fine, Tagged, KeepsBut, JobFields, Works,
     Sides, Names
<1>14. Held(job[p])'
  BY <1>1, NoBoxEmpty, <1>2, <1>4, <1>5, <1>6 DEF Fine, Held, Flagged, NameFree, KeepsBut,
     JobFields, Works, Sides, Names
<1>15. (LastAlone(p) => Swept(job[p]))'
  BY <1>1, NoBoxEmpty, <1>2, <1>4, <1>5, <1>6 DEF Fine, LastAlone, Swept, Flagged, PrepClean,
     AllClean, NameFree, KeepsBut, JobFields, Works, Sides, Names
<1>16. (LastAlone(p) => FirstVolume(job[p]))'
  BY <1>1, NoBoxEmpty, <1>2, <1>4, <1>5, <1>6 DEF Fine, LastAlone, FirstVolume, Flagged,
     PrepClean, AllClean, NameFree, KeepsBut, JobFields, Works, Sides, Names
<1>17. QED
  BY <1>8, <1>9, <1>10, <1>11, <1>12, <1>13, <1>14, <1>15, <1>16 DEF Fine

LEMMA CreatesVolumeFine ==
    ASSUME EndInv, NEW p \in Procs, CreatesVolume(p) PROVE Touches(p) /\ Fine(p)'
<1>1. /\ job[p] \in Jobs /\ job \in [Procs -> Jobs] /\ box \in [Names -> Boxes]
      /\ job[p].pc = "volume"
      /\ job[p].at \in Names /\ Fine(p) /\ Busy(job[p])
  BY DEF Jobs, EndInv, RuntimeInv, TypeOK, CreatesVolume, Active, At, Busy
<1>2. job[p].run > 0 /\ (Fault => faults' # 0)
  BY <1>1, BusyRuns, FaultCounts DEF EndInv
<1>3. PICK error \in BOOLEAN :
        /\ Proceeds(p, "clear", error) \/ Proceeds(p, "images", error)
        /\ error => Fault
        /\ Proceeds(p, IF error THEN "images" ELSE "clear", error)
  BY DEF CreatesVolume
<1> DEFINE j == [job[p] EXCEPT !.pc = IF error THEN "images" ELSE "clear", !.failed = @ \/ error]
<1>4. job'[p] = j
  BY <1>1, <1>3 DEF Proceeds
<1>5. /\ KeepsBut(p, {"pc", "failed"})
      /\ \/ job'[p].pc = "clear" /\ job'[p].failed = job[p].failed
         \/ job'[p].pc = "images" /\ job'[p].failed /\ Fault
  BY <1>1, <1>3, <1>4 DEF Jobs, JobFields, KeepsBut
<1>6. /\ job'[p].at = job[p].at /\ job'[p].run = job[p].run /\ job'[p].tags = job[p].tags
       /\ job'[p].input = job[p].input /\ job'[p].ok = job[p].ok /\ job'[p].forced = job[p].forced
       /\ job'[p].said = job[p].said /\ job'[p].raised = job[p].raised /\ job'[p].status = job[p].status
       /\ job'[p].alone = job[p].alone
  BY <1>5 DEF KeepsBut, JobFields
<1>7. /\ UNCHANGED <<recipe, box, images, runs>> /\ (Works \/ Fault)
      /\ volume' = "none" => volume = "none"
  BY <1>1, <1>3 DEF CreatesVolume, Works
<1>8. ~recipe.prepares => PrepClean /\ job[p].at # "preparation"
  BY <1>1 DEF EndInv, Owned, Fine, Flagged
<1>9. Touches(p)
  BY <1>1, NoBoxEmpty, <1>2, <1>5, <1>6, <1>7, <1>8 DEF Touches, PrepClean, NameFree, Fine,
     Flagged, Works, Sides, Names
<1>10. Flagged(job[p])'
  BY <1>1, NoBoxEmpty, <1>2, <1>5, <1>6, <1>7 DEF Fine, Flagged, Works, Sides, Names
<1>11. Trusted(job[p])'
  BY <1>1, NoBoxEmpty, <1>2, <1>5, <1>6, <1>7 DEF Fine, Trusted, Filled, Flagged, Works, Sides,
     Names
<1>12. Filled(job[p])'
  BY <1>1, NoBoxEmpty, <1>2, <1>5, <1>6, <1>7 DEF Fine, Filled, Flagged, Works, Sides, Names
<1>13. Given(job[p])'
  BY <1>1, NoBoxEmpty, <1>2, <1>5, <1>6, <1>7 DEF Fine, Given, Flagged, NameFree, Works, Sides,
     Names
<1>14. Tagged(job[p])'
  BY <1>1, NoBoxEmpty, <1>2, <1>5, <1>6, <1>7 DEF Fine, Tagged, Works, Sides, Names
<1>15. Held(job[p])'
  BY <1>1, NoBoxEmpty, <1>2, <1>5, <1>6, <1>7 DEF Fine, Held, Flagged, NameFree, Works, Sides,
     Names
<1>16. (LastAlone(p) => Swept(job[p]))'
  BY <1>1, NoBoxEmpty, <1>2, <1>5, <1>6, <1>7 DEF Fine, LastAlone, Swept, Flagged, PrepClean,
     AllClean, NameFree, Works, Sides, Names
<1>17. (LastAlone(p) => FirstVolume(job[p]))'
  BY <1>1, NoBoxEmpty, <1>2, <1>5, <1>6, <1>7 DEF Fine, LastAlone, FirstVolume, Flagged,
     PrepClean, AllClean, NameFree, Works, Sides, Names
<1>18. QED
  BY <1>9, <1>10, <1>11, <1>12, <1>13, <1>14, <1>15, <1>16, <1>17 DEF Fine

-----------------------------------------------------------------------------
(* Containers *)

LEMMA ForcesBoxFine ==
    ASSUME EndInv, NEW p \in Procs, ForcesBox(p) PROVE Touches(p) /\ Fine(p)'
<1>1. /\ job[p] \in Jobs /\ job \in [Procs -> Jobs] /\ box \in [Names -> Boxes]
      /\ job[p].pc \in {"clear", "prepared box"} \/ (job[p].pc = "ran" /\ job[p].at \in Sides)
      /\ job[p].at \in Names /\ Fine(p) /\ Busy(job[p])
  BY DEF Jobs, EndInv, RuntimeInv, TypeOK, ForcesBox, Active, At, Busy
<1>2. job[p].run > 0 /\ (Fault => faults' # 0)
  BY <1>1, BusyRuns, FaultCounts DEF EndInv
<1> DEFINE j == [job[p] EXCEPT !.forced = TRUE]
<1>3. job'[p] = j
  BY <1>1 DEF ForcesBox
<1>4. job'[p].forced /\ ~job[p].forced /\ KeepsBut(p, {"forced"})
  BY <1>1, <1>3 DEF ForcesBox, Jobs, JobFields, KeepsBut
<1>5. /\ job'[p].pc = job[p].pc /\ job'[p].at = job[p].at /\ job'[p].run = job[p].run
       /\ job'[p].tags = job[p].tags /\ job'[p].input = job[p].input /\ job'[p].ok = job[p].ok
       /\ job'[p].failed = job[p].failed /\ job'[p].said = job[p].said /\ job'[p].raised = job[p].raised
       /\ job'[p].status = job[p].status /\ job'[p].alone = job[p].alone
  BY <1>4 DEF KeepsBut, JobFields
<1>6. /\ UNCHANGED <<recipe, volume, images, runs>> /\ (Works \/ Fault)
      /\ \A n \in Names : box'[n] = box[n] \/ box'[n] = NoBox
      /\ box'[job[p].at] = NoBox \/ Fault
  BY <1>1 DEF Jobs, ForcesBox, Works, Forced, At
<1>7. ~recipe.prepares => PrepClean /\ job[p].at # "preparation"
  BY <1>1 DEF EndInv, Owned, Fine, Flagged
<1>8. Touches(p)
  BY <1>1, NoBoxEmpty, <1>2, <1>4, <1>5, <1>6, <1>7 DEF Touches, PrepClean, NameFree, Fine,
     Flagged, Works, Sides, Names
<1>9. Flagged(job[p])'
  BY <1>1, NoBoxEmpty, <1>2, <1>4, <1>5, <1>6 DEF Fine, Flagged, Works, Sides, Names
<1>10. Trusted(job[p])'
  BY <1>1, NoBoxEmpty, <1>2, <1>4, <1>5, <1>6 DEF Fine, Trusted, Filled, Flagged, Works, Sides,
     Names
<1>11. Filled(job[p])'
  BY <1>1, NoBoxEmpty, <1>2, <1>4, <1>5, <1>6 DEF Fine, Filled, Flagged, Works, Sides, Names
<1>12. Given(job[p])'
  BY <1>1, NoBoxEmpty, <1>2, <1>4, <1>5, <1>6 DEF Fine, Given, Flagged, NameFree, Works, Sides,
     Names
<1>13. Tagged(job[p])'
  BY <1>1, NoBoxEmpty, <1>2, <1>4, <1>5, <1>6 DEF Fine, Tagged, Works, Sides, Names
<1>14. Held(job[p])'
  <2>1. Held(job[p]) /\ ~job[p].forced
    BY <1>1, <1>4 DEF Fine
  <2>2. ASSUME ~Fault, NEW n \in Names, box'[n].run = job[p].run
        PROVE  n # job[p].at /\ box'[n] = box[n]
    <3>1. box'[n] # NoBox /\ box'[job[p].at] = NoBox
      BY <2>2, NoBoxEmpty, <1>2, <1>6
    <3>2. QED
      BY <3>1, <1>6
  <2>3. faults' = 0 => faults = 0 /\ ~Fault
    BY <1>2, <1>6 DEF Works
  <2>4. QED
    BY <1>2, <1>4, <1>5, <2>1, <2>2, <2>3 DEF Held
<1>15. (LastAlone(p) => Swept(job[p]))'
  BY <1>1, NoBoxEmpty, <1>2, <1>4, <1>5, <1>6 DEF Fine, LastAlone, Swept, Flagged, PrepClean,
     AllClean, NameFree, Works, Sides, Names
<1>16. (LastAlone(p) => FirstVolume(job[p]))'
  BY <1>1, NoBoxEmpty, <1>2, <1>4, <1>5, <1>6 DEF Fine, LastAlone, FirstVolume, Flagged,
     PrepClean, AllClean, NameFree, Works, Sides, Names
<1>17. QED
  BY <1>8, <1>9, <1>10, <1>11, <1>12, <1>13, <1>14, <1>15, <1>16 DEF Fine

LEMMA ClearsNameFine ==
    ASSUME EndInv, NEW p \in Procs, ClearsName(p) PROVE Touches(p) /\ Fine(p)'
<1>1. /\ job[p] \in Jobs /\ job \in [Procs -> Jobs] /\ box \in [Names -> Boxes]
      /\ job[p].pc = "clear"
      /\ job[p].at \in Names /\ Fine(p) /\ Busy(job[p])
  BY DEF Jobs, EndInv, RuntimeInv, TypeOK, ClearsName, Active, At, Busy
<1>2. job[p].run > 0 /\ (Fault => faults' # 0)
  BY <1>1, BusyRuns, FaultCounts DEF EndInv
<1>3. PICK verified \in BOOLEAN :
        /\ Verifies(p, Absent(p), verified)
        /\ job' = [job EXCEPT ![p].forced = FALSE,
               ![p].failed = @ \/ ~verified,
               ![p].pc = IF verified THEN "run"
                         ELSE IF job[p].at = "preparation" THEN "prepared box" ELSE "images"]
  BY DEF ClearsName
<1> DEFINE j == [job[p] EXCEPT !.forced = FALSE,
               !.failed = @ \/ ~verified,
               !.pc = IF verified THEN "run"
                         ELSE IF job[p].at = "preparation" THEN "prepared box" ELSE "images"]
<1>4. job'[p] = j /\ job[p].forced
  BY <1>1, <1>3 DEF Verifies
<1>5. /\ job[p].forced /\ ~job'[p].forced /\ KeepsBut(p, {"forced", "failed", "pc"})
      /\ \/ job'[p].pc = "run" /\ job'[p].failed = job[p].failed
         \/ job'[p].pc = "prepared box" /\ job[p].at = "preparation" /\ job'[p].failed
         \/ job'[p].pc = "images" /\ job[p].at # "preparation" /\ job'[p].failed
  <2>1. ~job'[p].forced /\ KeepsBut(p, {"forced", "failed", "pc"})
    BY <1>1, <1>4 DEF Jobs, JobFields, KeepsBut
  <2>2. CASE verified
    BY <1>1, <1>4, <2>1, <2>2 DEF Jobs
  <2>3. CASE ~verified /\ job[p].at = "preparation"
    BY <1>1, <1>4, <2>1, <2>3 DEF Jobs
  <2>4. CASE ~verified /\ job[p].at # "preparation"
    BY <1>1, <1>4, <2>1, <2>4 DEF Jobs
  <2>5. QED
    BY <2>2, <2>3, <2>4
<1>6. /\ job'[p].at = job[p].at /\ job'[p].run = job[p].run /\ job'[p].tags = job[p].tags
       /\ job'[p].input = job[p].input /\ job'[p].ok = job[p].ok /\ job'[p].said = job[p].said
       /\ job'[p].raised = job[p].raised /\ job'[p].status = job[p].status /\ job'[p].alone = job[p].alone
  BY <1>5 DEF KeepsBut, JobFields
<1>7. UNCHANGED <<recipe, box, volume, images, runs>> /\ (Works \/ Fault)
  BY <1>1, <1>3 DEF ClearsName, Works, Verifies
<1>8. ~recipe.prepares => PrepClean /\ job[p].at # "preparation"
  BY <1>1 DEF EndInv, Owned, Fine, Flagged
<1>9. Touches(p)
  BY <1>1, NoBoxEmpty, <1>2, <1>5, <1>6, <1>7, <1>8 DEF Touches, PrepClean, NameFree, Fine,
     Flagged, Works, Sides, Names
<1>10. Flagged(job[p])'
  BY <1>1, NoBoxEmpty, <1>2, <1>5, <1>6, <1>7 DEF Fine, Flagged, Works, Sides, Names
<1>11. Trusted(job[p])'
  BY <1>1, NoBoxEmpty, <1>2, <1>5, <1>6, <1>7 DEF Fine, Trusted, Filled, Flagged, Works, Sides,
     Names
<1>12. Filled(job[p])'
  BY <1>1, NoBoxEmpty, <1>2, <1>5, <1>6, <1>7 DEF Fine, Filled, Flagged, Works, Sides, Names
<1>13. Given(job[p])'
  BY <1>1, NoBoxEmpty, <1>2, <1>5, <1>6, <1>7 DEF Fine, Given, Flagged, NameFree, Works, Sides,
     Names
<1>14. Tagged(job[p])'
  BY <1>1, NoBoxEmpty, <1>2, <1>5, <1>6, <1>7 DEF Fine, Tagged, Works, Sides, Names
<1>15. Held(job[p])'
  BY <1>1, NoBoxEmpty, <1>2, <1>5, <1>6, <1>7 DEF Fine, Held, Flagged, NameFree, Works, Sides,
     Names
<1>16. (LastAlone(p) => Swept(job[p]))'
  BY <1>1, NoBoxEmpty, <1>2, <1>5, <1>6, <1>7 DEF Fine, LastAlone, Swept, Flagged, PrepClean,
     AllClean, NameFree, Works, Sides, Names
<1>17. (LastAlone(p) => FirstVolume(job[p]))'
  BY <1>1, NoBoxEmpty, <1>2, <1>5, <1>6, <1>7 DEF Fine, LastAlone, FirstVolume, Flagged,
     PrepClean, AllClean, NameFree, Works, Sides, Names
<1>18. QED
  BY <1>9, <1>10, <1>11, <1>12, <1>13, <1>14, <1>15, <1>16, <1>17 DEF Fine

LEMMA RunsBoxFine ==
    ASSUME EndInv, NEW p \in Procs, RunsBox(p) PROVE Touches(p) /\ Fine(p)'
<1>1. /\ job[p] \in Jobs /\ job \in [Procs -> Jobs] /\ box \in [Names -> Boxes]
      /\ job[p].pc = "run"
      /\ job[p].at \in Names /\ Fine(p) /\ Busy(job[p])
  BY DEF Jobs, EndInv, RuntimeInv, TypeOK, RunsBox, Active, At, Busy
<1>2. job[p].run > 0 /\ (Fault => faults' # 0)
  BY <1>1, BusyRuns, FaultCounts DEF EndInv
<1>3. PICK next \in {"await", "ran"} :
        /\ job' = [job EXCEPT ![p].pc = next, ![p].ok = FALSE]
        /\ \/ /\ NameFree(p) /\ \E s \in {"running", "exited"} : box' = Box(p, s)
              /\ job[p].at # "preparation" => UNCHANGED volume
           \/ UNCHANGED <<box, volume>> /\ next = "ran" /\ (NameFree(p) => Fault)
  BY DEF RunsBox
<1> DEFINE j == [job[p] EXCEPT !.pc = next, !.ok = FALSE]
<1>4. job'[p] = j
  BY <1>1, <1>3
<1>5. job'[p].pc = next /\ ~job'[p].ok /\ KeepsBut(p, {"pc", "ok"})
  BY <1>1, <1>4 DEF Jobs, JobFields, KeepsBut
<1>6. \A s \in {"running", "exited"} :
         LET b == Box(p, s) IN
         /\ b[job[p].at].run = job[p].run /\ b[job[p].at].input = job[p].input
         /\ \A n \in Names \ {job[p].at} : b[n] = box[n]
  BY <1>1 DEF Box, Jobs
<1>7. /\ job'[p].pc \in {"await", "ran"} /\ ~job'[p].ok /\ KeepsBut(p, {"pc", "ok"})
      /\ \A n \in Names \ {job[p].at} : box'[n] = box[n]
      /\ \/ /\ NameFree(p) /\ box'[job[p].at].run = job[p].run
            /\ box'[job[p].at].input = job[p].input
            /\ job[p].at # "preparation" => UNCHANGED volume
         \/ UNCHANGED <<box, volume>> /\ job'[p].pc = "ran" /\ (NameFree(p) => Fault)
  BY <1>3, <1>5, <1>6
<1>8. /\ job'[p].at = job[p].at /\ job'[p].run = job[p].run /\ job'[p].tags = job[p].tags
       /\ job'[p].input = job[p].input /\ job'[p].forced = job[p].forced /\ job'[p].failed = job[p].failed
       /\ job'[p].said = job[p].said /\ job'[p].raised = job[p].raised /\ job'[p].status = job[p].status
       /\ job'[p].alone = job[p].alone
  BY <1>7 DEF KeepsBut, JobFields
<1>9. UNCHANGED <<recipe, images, runs>> /\ (Works \/ Fault)
  BY <1>1 DEF RunsBox, Works
<1>10. ~recipe.prepares => PrepClean /\ job[p].at # "preparation"
  BY <1>1 DEF EndInv, Owned, Fine, Flagged
<1>11. Touches(p)
  BY <1>1, NoBoxEmpty, <1>2, <1>7, <1>8, <1>9, <1>10 DEF Touches, PrepClean, NameFree, Fine,
     Flagged, Works, Sides, Names
<1>12. Flagged(job[p])'
  BY <1>1, NoBoxEmpty, <1>2, <1>7, <1>8, <1>9 DEF Fine, Flagged, KeepsBut, JobFields, Works,
     Sides, Names
<1>13. Trusted(job[p])'
  BY <1>1, NoBoxEmpty, <1>2, <1>7, <1>8, <1>9 DEF Fine, Trusted, Filled, Flagged, KeepsBut,
     JobFields, Works, Sides, Names
<1>14. Filled(job[p])'
  BY <1>1, NoBoxEmpty, <1>2, <1>7, <1>8, <1>9 DEF Fine, Filled, Flagged, KeepsBut, JobFields,
     Works, Sides, Names
<1>15. Given(job[p])'
  BY <1>1, NoBoxEmpty, <1>2, <1>7, <1>8, <1>9 DEF Fine, Given, Flagged, NameFree, KeepsBut,
     JobFields, Works, Sides, Names
<1>16. Tagged(job[p])'
  BY <1>1, NoBoxEmpty, <1>2, <1>7, <1>8, <1>9 DEF Fine, Tagged, KeepsBut, JobFields, Works,
     Sides, Names
<1>17. Held(job[p])'
  BY <1>1, NoBoxEmpty, <1>2, <1>7, <1>8, <1>9 DEF Fine, Held, Flagged, NameFree, KeepsBut,
     JobFields, Works, Sides, Names
<1>18. (LastAlone(p) => Swept(job[p]))'
  <2>1. LastAlone(p)' => LastAlone(p) /\ Swept(job[p])
    BY <1>1, <1>8, <1>9 DEF LastAlone, Fine
  <2>2. job[p].at \in Sides =>
          /\ box'["preparation"] = box["preparation"] /\ volume' = volume
          /\ job[p].at = "candidate" => box'["control"] = box["control"]
    BY <1>7 DEF Sides, Names
  <2>3. job'[p].pc \in {"await", "ran"} /\ job[p].pc = "run"
    BY <1>1, <1>7
  <2>4. ASSUME LastAlone(p)', job'[p].at \in Sides
        PROVE  PrepClean' /\ (job'[p].at = "candidate" /\ ~job'[p].said => box'["control"].state = "none")
    <3>1. PrepClean /\ (job[p].at = "candidate" /\ ~job[p].said => box["control"].state = "none")
      BY <2>1, <2>3, <2>4, <1>8 DEF Swept
    <3>2. QED
      BY <2>2, <2>4, <3>1, <1>8 DEF PrepClean
  <2>5. QED
    BY <2>3, <2>4 DEF Swept
<1>19. (LastAlone(p) => FirstVolume(job[p]))'
  BY <1>1, NoBoxEmpty, <1>2, <1>7, <1>8, <1>9 DEF Fine, LastAlone, FirstVolume, Flagged,
     PrepClean, AllClean, NameFree, KeepsBut, JobFields, Works, Sides, Names
<1>20. QED
  BY <1>11, <1>12, <1>13, <1>14, <1>15, <1>16, <1>17, <1>18, <1>19 DEF Fine

LEMMA AwaitsFine ==
    ASSUME EndInv, NEW p \in Procs, Awaits(p) PROVE Touches(p) /\ Fine(p)'
<1>1. /\ job[p] \in Jobs /\ job \in [Procs -> Jobs] /\ box \in [Names -> Boxes]
      /\ job[p].pc = "await"
      /\ job[p].at \in Names /\ Fine(p) /\ Busy(job[p])
  BY DEF Jobs, EndInv, RuntimeInv, TypeOK, Awaits, Active, At, Busy
<1>2. job[p].run > 0 /\ (Fault => faults' # 0)
  BY <1>1, BusyRuns, FaultCounts DEF EndInv
<1>3. PICK ok \in {FALSE, job[p].ok} : job' = [job EXCEPT ![p].pc = "ran", ![p].ok = ok]
  BY DEF Awaits
<1> DEFINE j == [job[p] EXCEPT !.pc = "ran", !.ok = ok]
<1>4. job'[p] = j
  BY <1>1, <1>3
<1>5. job'[p].pc = "ran" /\ (job'[p].ok => job[p].ok) /\ KeepsBut(p, {"pc", "ok"})
  BY <1>1, <1>3, <1>4 DEF Jobs, JobFields, KeepsBut
<1>6. /\ job'[p].at = job[p].at /\ job'[p].run = job[p].run /\ job'[p].tags = job[p].tags
       /\ job'[p].input = job[p].input /\ job'[p].forced = job[p].forced /\ job'[p].failed = job[p].failed
       /\ job'[p].said = job[p].said /\ job'[p].raised = job[p].raised /\ job'[p].status = job[p].status
       /\ job'[p].alone = job[p].alone
  BY <1>5 DEF KeepsBut, JobFields
<1>7. UNCHANGED <<recipe, box, volume, images, runs, faults>>
  BY <1>1 DEF Awaits, Works
<1>8. ~recipe.prepares => PrepClean /\ job[p].at # "preparation"
  BY <1>1 DEF EndInv, Owned, Fine, Flagged
<1>9. Touches(p)
  BY <1>1, NoBoxEmpty, <1>2, <1>5, <1>6, <1>7, <1>8 DEF Touches, PrepClean, NameFree, Fine,
     Flagged, Works, Sides, Names
<1>10. Flagged(job[p])'
  BY <1>1, NoBoxEmpty, <1>2, <1>5, <1>6, <1>7 DEF Fine, Flagged, Works, Sides, Names
<1>11. Trusted(job[p])'
  BY <1>1, NoBoxEmpty, <1>2, <1>5, <1>6, <1>7 DEF Fine, Trusted, Filled, Flagged, Works, Sides,
     Names
<1>12. Filled(job[p])'
  BY <1>1, NoBoxEmpty, <1>2, <1>5, <1>6, <1>7 DEF Fine, Filled, Flagged, Works, Sides, Names
<1>13. Given(job[p])'
  BY <1>1, NoBoxEmpty, <1>2, <1>5, <1>6, <1>7 DEF Fine, Given, Flagged, NameFree, Works, Sides,
     Names
<1>14. Tagged(job[p])'
  BY <1>1, NoBoxEmpty, <1>2, <1>5, <1>6, <1>7 DEF Fine, Tagged, Works, Sides, Names
<1>15. Held(job[p])'
  BY <1>1, NoBoxEmpty, <1>2, <1>5, <1>6, <1>7 DEF Fine, Held, Flagged, NameFree, Works, Sides,
     Names
<1>16. (LastAlone(p) => Swept(job[p]))'
  BY <1>1, NoBoxEmpty, <1>2, <1>5, <1>6, <1>7 DEF Fine, LastAlone, Swept, Flagged, PrepClean,
     AllClean, NameFree, Works, Sides, Names
<1>17. (LastAlone(p) => FirstVolume(job[p]))'
  BY <1>1, NoBoxEmpty, <1>2, <1>5, <1>6, <1>7 DEF Fine, LastAlone, FirstVolume, Flagged,
     PrepClean, AllClean, NameFree, Works, Sides, Names
<1>18. QED
  BY <1>9, <1>10, <1>11, <1>12, <1>13, <1>14, <1>15, <1>16, <1>17 DEF Fine

-----------------------------------------------------------------------------
(* The preparation *)

LEMMA FinishesPreparationFine ==
    ASSUME EndInv, NEW p \in Procs, FinishesPreparation(p) PROVE Touches(p) /\ Fine(p)'
<1>1. /\ job[p] \in Jobs /\ job \in [Procs -> Jobs] /\ box \in [Names -> Boxes]
      /\ job[p].pc = "ran" /\ job[p].at = "preparation"
      /\ job[p].at \in Names /\ Fine(p) /\ Busy(job[p])
  BY DEF Jobs, EndInv, RuntimeInv, TypeOK, FinishesPreparation, Active, At, Busy
<1>2. job[p].run > 0 /\ (Fault => faults' # 0)
  BY <1>1, BusyRuns, FaultCounts DEF EndInv
<1>3. \/ job[p].ok /\ job'[p] = [job[p] EXCEPT !.pc = "copy"]
      \/ job'[p] = [job[p] EXCEPT !.pc = "prepared box", !.failed = TRUE]
  BY <1>1 DEF FinishesPreparation, AfterPreparation, ExitedWell
<1>4. \/ job[p].ok /\ job'[p].pc = "copy" /\ KeepsBut(p, {"pc"})
      \/ job'[p].pc = "prepared box" /\ job'[p].failed /\ KeepsBut(p, {"pc", "failed"})
  BY <1>1, <1>3 DEF Jobs, JobFields, KeepsBut
<1>5. /\ job'[p].at = job[p].at /\ job'[p].run = job[p].run /\ job'[p].tags = job[p].tags
       /\ job'[p].input = job[p].input /\ job'[p].ok = job[p].ok /\ job'[p].forced = job[p].forced
       /\ job'[p].said = job[p].said /\ job'[p].raised = job[p].raised /\ job'[p].status = job[p].status
       /\ job'[p].alone = job[p].alone
  BY <1>4 DEF KeepsBut, JobFields
<1>6. UNCHANGED <<recipe, box, volume, images, runs, faults>>
  BY <1>1 DEF FinishesPreparation, Works
<1>7. ~recipe.prepares => PrepClean /\ job[p].at # "preparation"
  BY <1>1 DEF EndInv, Owned, Fine, Flagged
<1>8. Touches(p)
  BY <1>1, NoBoxEmpty, <1>2, <1>4, <1>5, <1>6, <1>7 DEF Touches, PrepClean, NameFree, Fine,
     Flagged, Works, Sides, Names
<1>9. Flagged(job[p])'
  BY <1>1, NoBoxEmpty, <1>2, <1>4, <1>5, <1>6 DEF Fine, Flagged, KeepsBut, JobFields, Works,
     Sides, Names
<1>10. Trusted(job[p])'
  BY <1>1, NoBoxEmpty, <1>2, <1>4, <1>5, <1>6 DEF Fine, Trusted, Filled, Flagged, KeepsBut,
     JobFields, Works, Sides, Names
<1>11. Filled(job[p])'
  BY <1>1, NoBoxEmpty, <1>2, <1>4, <1>5, <1>6 DEF Fine, Filled, Flagged, KeepsBut, JobFields,
     Works, Sides, Names
<1>12. Given(job[p])'
  BY <1>1, NoBoxEmpty, <1>2, <1>4, <1>5, <1>6 DEF Fine, Given, Flagged, NameFree, KeepsBut,
     JobFields, Works, Sides, Names
<1>13. Tagged(job[p])'
  BY <1>1, NoBoxEmpty, <1>2, <1>4, <1>5, <1>6 DEF Fine, Tagged, KeepsBut, JobFields, Works,
     Sides, Names
<1>14. Held(job[p])'
  BY <1>1, NoBoxEmpty, <1>2, <1>4, <1>5, <1>6 DEF Fine, Held, Flagged, NameFree, KeepsBut,
     JobFields, Works, Sides, Names
<1>15. (LastAlone(p) => Swept(job[p]))'
  BY <1>1, NoBoxEmpty, <1>2, <1>4, <1>5, <1>6 DEF Fine, LastAlone, Swept, Flagged, PrepClean,
     AllClean, NameFree, KeepsBut, JobFields, Works, Sides, Names
<1>16. (LastAlone(p) => FirstVolume(job[p]))'
  BY <1>1, NoBoxEmpty, <1>2, <1>4, <1>5, <1>6 DEF Fine, LastAlone, FirstVolume, Flagged,
     PrepClean, AllClean, NameFree, KeepsBut, JobFields, Works, Sides, Names
<1>17. QED
  BY <1>8, <1>9, <1>10, <1>11, <1>12, <1>13, <1>14, <1>15, <1>16 DEF Fine

LEMMA CopiesFine ==
    ASSUME EndInv, NEW p \in Procs, Copies(p) PROVE Touches(p) /\ Fine(p)'
<1>1. /\ job[p] \in Jobs /\ job \in [Procs -> Jobs] /\ box \in [Names -> Boxes]
      /\ job[p].pc = "copy"
      /\ job[p].at \in Names /\ Fine(p) /\ Busy(job[p])
  BY DEF Jobs, EndInv, RuntimeInv, TypeOK, Copies, Active, At, Busy
<1>2. job[p].run > 0 /\ (Fault => faults' # 0)
  BY <1>1, BusyRuns, FaultCounts DEF EndInv
<1>3. \/ job'[p] = [job[p] EXCEPT !.pc = "prepared box", !.input = volume]
      \/ job'[p] = [job[p] EXCEPT !.pc = "prepared box", !.failed = TRUE]
      \/ job'[p] = [job[p] EXCEPT !.pc = "images", !.raised = TRUE]
  BY <1>1 DEF Copies, Raises, AfterPreparation
<1>4. \/ job'[p].pc = "prepared box" /\ job'[p].input = volume /\ KeepsBut(p, {"pc", "input"})
      \/ job'[p].pc = "prepared box" /\ job'[p].failed /\ KeepsBut(p, {"pc", "failed"})
      \/ job'[p].pc = "images" /\ job'[p].raised /\ KeepsBut(p, {"pc", "raised"})
  <2>1. CASE job'[p] = [job[p] EXCEPT !.pc = "prepared box", !.input = volume]
    BY <1>1, <2>1 DEF Jobs, JobFields, KeepsBut
  <2>2. CASE job'[p] = [job[p] EXCEPT !.pc = "prepared box", !.failed = TRUE]
    BY <1>1, <2>2 DEF Jobs, JobFields, KeepsBut
  <2>3. CASE job'[p] = [job[p] EXCEPT !.pc = "images", !.raised = TRUE]
    BY <1>1, <2>3 DEF Jobs, JobFields, KeepsBut
  <2>4. QED
    BY <1>3, <2>1, <2>2, <2>3
<1>5. /\ job'[p].at = job[p].at /\ job'[p].run = job[p].run /\ job'[p].tags = job[p].tags
       /\ job'[p].ok = job[p].ok /\ job'[p].forced = job[p].forced /\ job'[p].said = job[p].said
       /\ job'[p].status = job[p].status /\ job'[p].alone = job[p].alone
  BY <1>4 DEF KeepsBut, JobFields
<1>6. UNCHANGED <<recipe, box, volume, images, runs, faults>>
  BY <1>1 DEF Copies, Works
<1>7. ~recipe.prepares => PrepClean /\ job[p].at # "preparation"
  BY <1>1 DEF EndInv, Owned, Fine, Flagged
<1>8. Touches(p)
  BY <1>1, NoBoxEmpty, <1>2, <1>4, <1>5, <1>6, <1>7 DEF Touches, PrepClean, NameFree, Fine,
     Flagged, Works, Sides, Names
<1>9. Flagged(job[p])'
  BY <1>1, NoBoxEmpty, <1>2, <1>4, <1>5, <1>6 DEF Fine, Flagged, KeepsBut, JobFields, Works,
     Sides, Names
<1>10. Trusted(job[p])'
  BY <1>1, NoBoxEmpty, <1>2, <1>4, <1>5, <1>6 DEF Fine, Trusted, Filled, Flagged, KeepsBut,
     JobFields, Works, Sides, Names
<1>11. Filled(job[p])'
  BY <1>1, NoBoxEmpty, <1>2, <1>4, <1>5, <1>6 DEF Fine, Filled, Flagged, KeepsBut, JobFields,
     Works, Sides, Names
<1>12. Given(job[p])'
  BY <1>1, NoBoxEmpty, <1>2, <1>4, <1>5, <1>6 DEF Fine, Given, Flagged, NameFree, KeepsBut,
     JobFields, Works, Sides, Names
<1>13. Tagged(job[p])'
  BY <1>1, NoBoxEmpty, <1>2, <1>4, <1>5, <1>6 DEF Fine, Tagged, KeepsBut, JobFields, Works,
     Sides, Names
<1>14. Held(job[p])'
  BY <1>1, NoBoxEmpty, <1>2, <1>4, <1>5, <1>6 DEF Fine, Held, Flagged, NameFree, KeepsBut,
     JobFields, Works, Sides, Names
<1>15. (LastAlone(p) => Swept(job[p]))'
  BY <1>1, NoBoxEmpty, <1>2, <1>4, <1>5, <1>6 DEF Fine, LastAlone, Swept, Flagged, PrepClean,
     AllClean, NameFree, KeepsBut, JobFields, Works, Sides, Names
<1>16. (LastAlone(p) => FirstVolume(job[p]))'
  BY <1>1, NoBoxEmpty, <1>2, <1>4, <1>5, <1>6 DEF Fine, LastAlone, FirstVolume, Flagged,
     PrepClean, AllClean, NameFree, KeepsBut, JobFields, Works, Sides, Names
<1>17. QED
  BY <1>8, <1>9, <1>10, <1>11, <1>12, <1>13, <1>14, <1>15, <1>16 DEF Fine

LEMMA CleansPreparationFine ==
    ASSUME EndInv, NEW p \in Procs, CleansPreparation(p) PROVE Touches(p) /\ Fine(p)'
<1>1. /\ job[p] \in Jobs /\ job \in [Procs -> Jobs] /\ box \in [Names -> Boxes]
      /\ job[p].pc = "prepared box"
      /\ job[p].at \in Names /\ Fine(p) /\ Busy(job[p])
  BY DEF Jobs, EndInv, RuntimeInv, TypeOK, CleansPreparation, Active, At, Busy
<1>2. job[p].run > 0 /\ (Fault => faults' # 0)
  BY <1>1, BusyRuns, FaultCounts DEF EndInv
<1>3. PICK verified \in BOOLEAN :
        /\ Verifies(p, Absent(p), verified)
        /\ job' = [job EXCEPT ![p].forced = FALSE,
               ![p].failed = @ \/ ~verified,
               ![p].pc = "prepared volume"]
  BY DEF CleansPreparation
<1> DEFINE j == [job[p] EXCEPT !.forced = FALSE,
               !.failed = @ \/ ~verified,
               !.pc = "prepared volume"]
<1>4. job'[p] = j /\ job[p].forced
  BY <1>1, <1>3 DEF Verifies
<1>5. /\ job'[p].pc = "prepared volume" /\ ~job'[p].forced /\ job[p].forced
      /\ KeepsBut(p, {"forced", "failed", "pc"})
      /\ job[p].failed \/ ~NameFree(p) => job'[p].failed
  BY <1>1, <1>3, <1>4 DEF Verifies, Absent, Jobs, JobFields, KeepsBut
<1>6. /\ job'[p].at = job[p].at /\ job'[p].run = job[p].run /\ job'[p].tags = job[p].tags
       /\ job'[p].input = job[p].input /\ job'[p].ok = job[p].ok /\ job'[p].said = job[p].said
       /\ job'[p].raised = job[p].raised /\ job'[p].status = job[p].status /\ job'[p].alone = job[p].alone
  BY <1>5 DEF KeepsBut, JobFields
<1>7. UNCHANGED <<recipe, box, volume, images, runs>> /\ (Works \/ Fault)
  BY <1>1, <1>3 DEF CleansPreparation, Works, Verifies
<1>8. ~recipe.prepares => PrepClean /\ job[p].at # "preparation"
  BY <1>1 DEF EndInv, Owned, Fine, Flagged
<1>9. Touches(p)
  BY <1>1, NoBoxEmpty, <1>2, <1>5, <1>6, <1>7, <1>8 DEF Touches, PrepClean, NameFree, Fine,
     Flagged, Works, Sides, Names
<1>10. Flagged(job[p])'
  BY <1>1, NoBoxEmpty, <1>2, <1>5, <1>6, <1>7 DEF Fine, Flagged, Works, Sides, Names
<1>11. Trusted(job[p])'
  BY <1>1, NoBoxEmpty, <1>2, <1>5, <1>6, <1>7 DEF Fine, Trusted, Filled, Flagged, Works, Sides,
     Names
<1>12. Filled(job[p])'
  BY <1>1, NoBoxEmpty, <1>2, <1>5, <1>6, <1>7 DEF Fine, Filled, Flagged, Works, Sides, Names
<1>13. Given(job[p])'
  BY <1>1, NoBoxEmpty, <1>2, <1>5, <1>6, <1>7 DEF Fine, Given, Flagged, NameFree, Works, Sides,
     Names
<1>14. Tagged(job[p])'
  BY <1>1, NoBoxEmpty, <1>2, <1>5, <1>6, <1>7 DEF Fine, Tagged, Works, Sides, Names
<1>15. Held(job[p])'
  BY <1>1, NoBoxEmpty, <1>2, <1>5, <1>6, <1>7 DEF Fine, Held, Flagged, NameFree, Works, Sides,
     Names
<1>16. (LastAlone(p) => Swept(job[p]))'
  BY <1>1, NoBoxEmpty, <1>2, <1>5, <1>6, <1>7 DEF Fine, LastAlone, Swept, Flagged, PrepClean,
     AllClean, NameFree, Works, Sides, Names
<1>17. (LastAlone(p) => FirstVolume(job[p]))'
  BY <1>1, NoBoxEmpty, <1>2, <1>5, <1>6, <1>7 DEF Fine, LastAlone, FirstVolume, Flagged,
     PrepClean, AllClean, NameFree, Works, Sides, Names
<1>18. QED
  BY <1>9, <1>10, <1>11, <1>12, <1>13, <1>14, <1>15, <1>16, <1>17 DEF Fine

LEMMA ForcesVolumeFine ==
    ASSUME EndInv, NEW p \in Procs, ForcesVolume(p) PROVE Touches(p) /\ Fine(p)'
<1>1. /\ job[p] \in Jobs /\ job \in [Procs -> Jobs] /\ box \in [Names -> Boxes]
      /\ job[p].pc = "prepared volume"
      /\ job[p].at \in Names /\ Fine(p) /\ Busy(job[p])
  BY DEF Jobs, EndInv, RuntimeInv, TypeOK, ForcesVolume, Active, At, Busy
<1>2. job[p].run > 0 /\ (Fault => faults' # 0)
  BY <1>1, BusyRuns, FaultCounts DEF EndInv
<1> DEFINE j == [job[p] EXCEPT !.forced = TRUE]
<1>3. job'[p] = j
  BY <1>1 DEF ForcesVolume
<1>4. job'[p].forced /\ ~job[p].forced /\ KeepsBut(p, {"forced"})
  BY <1>1, <1>3 DEF ForcesVolume, Jobs, JobFields, KeepsBut
<1>5. /\ job'[p].pc = job[p].pc /\ job'[p].at = job[p].at /\ job'[p].run = job[p].run
       /\ job'[p].tags = job[p].tags /\ job'[p].input = job[p].input /\ job'[p].ok = job[p].ok
       /\ job'[p].failed = job[p].failed /\ job'[p].said = job[p].said /\ job'[p].raised = job[p].raised
       /\ job'[p].status = job[p].status /\ job'[p].alone = job[p].alone
  BY <1>4 DEF KeepsBut, JobFields
<1>6. /\ UNCHANGED <<recipe, box, images, runs>> /\ (Works \/ Fault)
      /\ volume' \in {volume, "none"}
      /\ box["preparation"].state = "none" => volume' = "none" \/ Fault
  BY <1>1 DEF ForcesVolume, Works
<1>7. ~recipe.prepares => PrepClean /\ job[p].at # "preparation"
  BY <1>1 DEF EndInv, Owned, Fine, Flagged
<1>8. Touches(p)
  BY <1>1, NoBoxEmpty, <1>2, <1>4, <1>5, <1>6, <1>7 DEF Touches, PrepClean, NameFree, Fine,
     Flagged, Works, Sides, Names
<1>9. Flagged(job[p])'
  BY <1>1, NoBoxEmpty, <1>2, <1>4, <1>5, <1>6 DEF Fine, Flagged, Works, Sides, Names
<1>10. Trusted(job[p])'
  BY <1>1, NoBoxEmpty, <1>2, <1>4, <1>5, <1>6 DEF Fine, Trusted, Filled, Flagged, Works, Sides,
     Names
<1>11. Filled(job[p])'
  BY <1>1, NoBoxEmpty, <1>2, <1>4, <1>5, <1>6 DEF Fine, Filled, Flagged, Works, Sides, Names
<1>12. Given(job[p])'
  BY <1>1, NoBoxEmpty, <1>2, <1>4, <1>5, <1>6 DEF Fine, Given, Flagged, NameFree, Works, Sides,
     Names
<1>13. Tagged(job[p])'
  BY <1>1, NoBoxEmpty, <1>2, <1>4, <1>5, <1>6 DEF Fine, Tagged, Works, Sides, Names
<1>14. Held(job[p])'
  BY <1>1, NoBoxEmpty, <1>2, <1>4, <1>5, <1>6 DEF Fine, Held, Flagged, NameFree, Works, Sides,
     Names
<1>15. (LastAlone(p) => Swept(job[p]))'
  BY <1>1, NoBoxEmpty, <1>2, <1>4, <1>5, <1>6 DEF Fine, LastAlone, Swept, Flagged, PrepClean,
     AllClean, NameFree, Works, Sides, Names
<1>16. (LastAlone(p) => FirstVolume(job[p]))'
  <2>1. ASSUME LastAlone(p), job[p].run = 1, faults = 0, ~job[p].raised
        PROVE  box["preparation"].state = "none"
    <3>1. box["preparation"].run # 1
      <4>1. Held(job[p])
        BY <1>1 DEF Fine
      <4>2. QED
        BY <4>1, <1>1, <1>2, <2>1 DEF Held, Names, Sides
    <3>2. Runs = {1}
      BY <2>1 DEF LastAlone, Runs
    <3>3. QED
      BY <3>1, <3>2, NoBoxEmpty DEF EndInv, Owned, Names
  <2>2. faults' = 0 => faults = 0 /\ ~Fault
    BY <1>2, <1>6 DEF Works
  <2>3. LastAlone(p)' => LastAlone(p)
    BY <1>5, <1>6 DEF LastAlone
  <2>4. job'[p].run = 1 /\ faults' = 0 /\ ~job'[p].raised /\ LastAlone(p)' => volume' = "none"
    BY <1>5, <1>6, <2>1, <2>2, <2>3
  <2>5. QED
    BY <2>4 DEF FirstVolume
<1>17. QED
  BY <1>8, <1>9, <1>10, <1>11, <1>12, <1>13, <1>14, <1>15, <1>16 DEF Fine

LEMMA CleansVolumeFine ==
    ASSUME EndInv, NEW p \in Procs, CleansVolume(p) PROVE Touches(p) /\ Fine(p)'
<1>1. /\ job[p] \in Jobs /\ job \in [Procs -> Jobs] /\ box \in [Names -> Boxes]
      /\ job[p].pc = "prepared volume"
      /\ job[p].at \in Names /\ Fine(p) /\ Busy(job[p])
  BY DEF Jobs, EndInv, RuntimeInv, TypeOK, CleansVolume, Active, At, Busy
<1>2. job[p].run > 0 /\ (Fault => faults' # 0)
  BY <1>1, BusyRuns, FaultCounts DEF EndInv
<1>3. PICK verified \in BOOLEAN :
        /\ Verifies(p, volume = "none", verified)
        /\ job' = [job EXCEPT ![p].forced = FALSE,
               ![p].failed = @ \/ ~verified,
               ![p].at = "control",
               ![p].pc = IF job[p].failed \/ ~verified THEN "images" ELSE "clear"]
  BY DEF CleansVolume
<1> DEFINE j == [job[p] EXCEPT !.forced = FALSE,
               !.failed = @ \/ ~verified,
               !.at = "control",
               !.pc = IF job[p].failed \/ ~verified THEN "images" ELSE "clear"]
<1>4. job'[p] = j /\ job[p].forced
  BY <1>1, <1>3 DEF Verifies
<1>5. /\ job'[p].at = "control" /\ ~job'[p].forced /\ job[p].forced
      /\ KeepsBut(p, {"forced", "failed", "at", "pc"})
      /\ \/ job'[p].pc = "images" /\ job'[p].failed
         \/ job'[p].pc = "clear" /\ ~job[p].failed /\ ~job'[p].failed /\ volume = "none"
  BY <1>1, <1>3, <1>4 DEF Verifies, Jobs, JobFields, KeepsBut
<1>6. /\ job'[p].run = job[p].run /\ job'[p].tags = job[p].tags /\ job'[p].input = job[p].input
       /\ job'[p].ok = job[p].ok /\ job'[p].said = job[p].said /\ job'[p].raised = job[p].raised
       /\ job'[p].status = job[p].status /\ job'[p].alone = job[p].alone
  BY <1>5 DEF KeepsBut, JobFields
<1>7. UNCHANGED <<recipe, box, volume, images, runs>> /\ (Works \/ Fault)
  BY <1>1, <1>3 DEF CleansVolume, Works, Verifies
<1>8. ~recipe.prepares => PrepClean /\ job[p].at # "preparation"
  BY <1>1 DEF EndInv, Owned, Fine, Flagged
<1>9. Touches(p)
  BY <1>1, NoBoxEmpty, <1>2, <1>5, <1>6, <1>7, <1>8 DEF Touches, PrepClean, NameFree, Fine,
     Flagged, Works, Sides, Names
<1>10. Flagged(job[p])'
  BY <1>1, NoBoxEmpty, <1>2, <1>5, <1>6, <1>7 DEF Fine, Flagged, Works, Sides, Names
<1>11. Trusted(job[p])'
  BY <1>1, NoBoxEmpty, <1>2, <1>5, <1>6, <1>7 DEF Fine, Trusted, Filled, Flagged, Works, Sides,
     Names
<1>12. Filled(job[p])'
  BY <1>1, NoBoxEmpty, <1>2, <1>5, <1>6, <1>7 DEF Fine, Filled, Flagged, Works, Sides, Names
<1>13. Given(job[p])'
  BY <1>1, NoBoxEmpty, <1>2, <1>5, <1>6, <1>7 DEF Fine, Given, Flagged, NameFree, Works, Sides,
     Names
<1>14. Tagged(job[p])'
  BY <1>1, NoBoxEmpty, <1>2, <1>5, <1>6, <1>7 DEF Fine, Tagged, Works, Sides, Names
<1>15. Held(job[p])'
  BY <1>1, NoBoxEmpty, <1>2, <1>5, <1>6, <1>7 DEF Fine, Held, Flagged, NameFree, Works, Sides,
     Names
<1>16. (LastAlone(p) => Swept(job[p]))'
  BY <1>1, NoBoxEmpty, <1>2, <1>5, <1>6, <1>7 DEF Fine, LastAlone, Swept, Flagged, PrepClean,
     AllClean, NameFree, Works, Sides, Names
<1>17. (LastAlone(p) => FirstVolume(job[p]))'
  <2>1. LastAlone(p)' => LastAlone(p)
    BY <1>6, <1>7 DEF LastAlone
  <2>2. faults' = 0 => faults = 0
    BY <1>2, <1>7 DEF Works
  <2>3. job'[p].run = 1 /\ faults' = 0 /\ ~job'[p].raised /\ LastAlone(p)' => volume' = "none"
    BY <1>1, <1>5, <1>6, <1>7, <2>1, <2>2 DEF Fine, FirstVolume
  <2>4. QED
    BY <2>3 DEF FirstVolume
<1>18. QED
  BY <1>9, <1>10, <1>11, <1>12, <1>13, <1>14, <1>15, <1>16, <1>17 DEF Fine

-----------------------------------------------------------------------------
(* The sides, the images and the verdict *)

LEMMA CleansSideFine ==
    ASSUME EndInv, NEW p \in Procs, CleansSide(p) PROVE Touches(p) /\ Fine(p)'
<1>1. /\ job[p] \in Jobs /\ job \in [Procs -> Jobs] /\ box \in [Names -> Boxes]
      /\ job[p].pc = "ran" /\ job[p].at \in Sides
      /\ job[p].at \in Names /\ Fine(p) /\ Busy(job[p])
  BY DEF Jobs, EndInv, RuntimeInv, TypeOK, CleansSide, Active, At, Busy
<1>2. job[p].run > 0 /\ (Fault => faults' # 0)
  BY <1>1, BusyRuns, FaultCounts DEF EndInv
<1>3. PICK verified \in BOOLEAN :
        /\ Verifies(p, Absent(p), verified)
        /\ job' = [job EXCEPT ![p].forced = FALSE,
               ![p].said = @ \/ CleanupNoted(verified),
               ![p].failed = @ \/ ~ExitedWell(p),
               ![p].pc = IF ExitedWell(p) /\ job[p].at = "control" THEN "clear" ELSE "images",
               ![p].at = "candidate"]
  BY DEF CleansSide
<1> DEFINE next == IF ExitedWell(p) /\ job[p].at = "control" THEN "clear" ELSE "images"
           said == job[p].said \/ CleanupNoted(verified)
           failed == job[p].failed \/ ~ExitedWell(p)
           j == [job[p] EXCEPT !.forced = FALSE,
               !.said = said,
               !.failed = failed,
               !.pc = next,
               !.at = "candidate"]
<1>4. job'[p] = j /\ job[p].forced
  BY <1>1, <1>3 DEF Verifies
<1>5. /\ job'[p].at = "candidate" /\ ~job'[p].forced /\ job[p].forced
      /\ KeepsBut(p, {"forced", "said", "failed", "pc", "at"})
      /\ job[p].said \/ ~NameFree(p) => job'[p].said
      /\ \/ /\ job[p].ok /\ job[p].at = "control" /\ job'[p].pc = "clear"
            /\ job'[p].failed = job[p].failed
         \/ /\ job[p].ok /\ job[p].at = "candidate" /\ job'[p].pc = "images"
            /\ job'[p].failed = job[p].failed
         \/ job'[p].failed /\ job'[p].pc = "images"
  <2>0. /\ job'[p].said = (job[p].said \/ ~verified)
        /\ job'[p].failed = (job[p].failed \/ ~job[p].ok)
        /\ job'[p].pc = next /\ job'[p].at = "candidate" /\ job'[p].forced = FALSE
        /\ KeepsBut(p, {"forced", "said", "failed", "pc", "at"})
    <3>1. /\ job'[p].said = said /\ job'[p].failed = failed
          /\ job'[p].pc = next /\ job'[p].at = "candidate" /\ job'[p].forced = FALSE
          /\ job'[p].run = job[p].run /\ job'[p].tags = job[p].tags /\ job'[p].input = job[p].input
          /\ job'[p].ok = job[p].ok /\ job'[p].raised = job[p].raised
          /\ job'[p].status = job[p].status /\ job'[p].alone = job[p].alone
      <4> HIDE DEF next, said, failed
      <4>1. job[p] \in Jobs /\ job'[p] = j
        BY <1>1, <1>4
      <4>2. QED
        BY <4>1 DEF Jobs
    <3>2. QED
      BY <3>1 DEF CleanupNoted, ExitedWell, KeepsBut, JobFields
  <2>1. job'[p].at = "candidate" /\ ~job'[p].forced /\ KeepsBut(p, {"forced", "said", "failed", "pc", "at"})
    BY <2>0
  <2>2. job[p].said \/ ~NameFree(p) => job'[p].said
    <3>1. verified => NameFree(p)
      BY <1>3 DEF Verifies, Absent
    <3>2. QED
      BY <2>0, <3>1
  <2>3. job'[p].failed = (job[p].failed \/ ~job[p].ok)
    BY <2>0
  <2>4. job'[p].pc = IF job[p].ok /\ job[p].at = "control" THEN "clear" ELSE "images"
    BY <2>0 DEF ExitedWell
  <2>5. job[p].ok \in BOOLEAN /\ job[p].failed \in BOOLEAN /\ job'[p].failed \in BOOLEAN
    BY <1>1, <2>3 DEF Jobs
  <2>6. CASE ~job[p].ok
    BY <1>4, <2>1, <2>2, <2>3, <2>4, <2>6
  <2>7. CASE job[p].ok
    <3>1. job'[p].failed = job[p].failed
      BY <2>3, <2>5, <2>7
    <3>2. job[p].at = "control" \/ job[p].at = "candidate"
      BY <1>1 DEF Sides
    <3>3. QED
      BY <1>4, <2>1, <2>2, <2>4, <2>7, <3>1, <3>2
  <2>8. QED
    BY <2>6, <2>7
<1>6. /\ job'[p].run = job[p].run /\ job'[p].tags = job[p].tags /\ job'[p].input = job[p].input
       /\ job'[p].ok = job[p].ok /\ job'[p].raised = job[p].raised /\ job'[p].status = job[p].status
       /\ job'[p].alone = job[p].alone
  BY <1>5 DEF KeepsBut, JobFields
<1>7. UNCHANGED <<recipe, box, volume, images, runs>> /\ (Works \/ Fault)
  BY <1>1, <1>3 DEF CleansSide, Works, Verifies
<1>8. ~recipe.prepares => PrepClean /\ job[p].at # "preparation"
  BY <1>1 DEF EndInv, Owned, Fine, Flagged
<1>9. Touches(p)
  BY <1>1, NoBoxEmpty, <1>2, <1>5, <1>6, <1>7, <1>8 DEF Touches, PrepClean, NameFree, Fine,
     Flagged, Works, Sides, Names
<1>10. Flagged(job[p])'
  BY <1>1, NoBoxEmpty, <1>2, <1>5, <1>6, <1>7 DEF Fine, Flagged, Works, Sides, Names
<1>11. Trusted(job[p])'
  BY <1>1, NoBoxEmpty, <1>2, <1>5, <1>6, <1>7 DEF Fine, Trusted, Filled, Flagged, Works, Sides,
     Names
<1>12. Filled(job[p])'
  BY <1>1, NoBoxEmpty, <1>2, <1>5, <1>6, <1>7 DEF Fine, Filled, Flagged, Works, Sides, Names
<1>13. Given(job[p])'
  BY <1>1, NoBoxEmpty, <1>2, <1>5, <1>6, <1>7 DEF Fine, Given, Flagged, NameFree, Works, Sides,
     Names
<1>14. Tagged(job[p])'
  <2>1. (~job'[p].failed => ~job[p].failed) /\ (faults' = 0 => faults = 0)
    BY <1>2, <1>5, <1>7 DEF Works
  <2>2. Tagged(job[p])
    BY <1>1 DEF Fine
  <2>3. QED
    BY <1>6, <1>7, <2>1, <2>2 DEF Tagged
<1>15. Held(job[p])'
  BY <1>1, NoBoxEmpty, <1>2, <1>5, <1>6, <1>7 DEF Fine, Held, Flagged, NameFree, Works, Sides,
     Names
<1>16. (LastAlone(p) => Swept(job[p]))'
  <2>1. LastAlone(p)' => LastAlone(p)
    BY <1>6, <1>7 DEF LastAlone
  <2>2. QED
    BY <1>1, <1>5, <1>6, <1>7, <2>1 DEF Fine, Swept, Flagged, PrepClean, AllClean, NameFree, Sides,
       Names
<1>17. (LastAlone(p) => FirstVolume(job[p]))'
  BY <1>1, NoBoxEmpty, <1>2, <1>5, <1>6, <1>7 DEF Fine, LastAlone, FirstVolume, Flagged,
     PrepClean, AllClean, NameFree, Works, Sides, Names
<1>18. QED
  BY <1>9, <1>10, <1>11, <1>12, <1>13, <1>14, <1>15, <1>16, <1>17 DEF Fine

LEMMA RemovesImageFine ==
    ASSUME EndInv, NEW p \in Procs, RemovesImage(p) PROVE Touches(p) /\ Fine(p)'
<1>1. /\ job[p] \in Jobs /\ job \in [Procs -> Jobs] /\ box \in [Names -> Boxes]
      /\ job[p].pc = "images"
      /\ job[p].at \in Names /\ Fine(p) /\ Busy(job[p])
  BY DEF Jobs, EndInv, RuntimeInv, TypeOK, RemovesImage, Active, At, Busy
<1>2. job[p].run > 0 /\ (Fault => faults' # 0)
  BY <1>1, BusyRuns, FaultCounts DEF EndInv
<1>3. PICK s \in job[p].tags :
         \/ /\ Works /\ images' = images \ {<<job[p].run, s>>}
            /\ job' = [job EXCEPT ![p].tags = @ \ {s}]
         \/ /\ Fault /\ images' \in {images, images \ {<<job[p].run, s>>}}
            /\ job' = [job EXCEPT ![p].tags = @ \ {s}, ![p].failed = TRUE]
  BY DEF RemovesImage
<1>4. \/ /\ Works /\ images' = images \ {<<job[p].run, s>>}
         /\ job'[p] = [job[p] EXCEPT !.tags = @ \ {s}]
      \/ /\ Fault /\ images' \subseteq images
         /\ job'[p] = [job[p] EXCEPT !.tags = @ \ {s}, !.failed = TRUE]
  BY <1>1, <1>3
<1>5. /\ job'[p].tags = job[p].tags \ {s} /\ KeepsBut(p, {"tags", "failed"})
      /\ \/ images' = images \ {<<job[p].run, s>>} /\ Works /\ job'[p].failed = job[p].failed
         \/ images' \subseteq images /\ Fault /\ job'[p].failed
  BY <1>1, <1>4 DEF Jobs, JobFields, KeepsBut
<1>6. /\ job'[p].pc = job[p].pc /\ job'[p].at = job[p].at /\ job'[p].run = job[p].run
       /\ job'[p].input = job[p].input /\ job'[p].ok = job[p].ok /\ job'[p].forced = job[p].forced
       /\ job'[p].said = job[p].said /\ job'[p].raised = job[p].raised /\ job'[p].status = job[p].status
       /\ job'[p].alone = job[p].alone
  BY <1>5 DEF KeepsBut, JobFields
<1>7. UNCHANGED <<recipe, box, volume, runs>> /\ (Works \/ Fault)
  BY <1>1, <1>3 DEF RemovesImage, Works
<1>8. ~recipe.prepares => PrepClean /\ job[p].at # "preparation"
  BY <1>1 DEF EndInv, Owned, Fine, Flagged
<1>9. Touches(p)
  BY <1>1, NoBoxEmpty, <1>2, <1>5, <1>6, <1>7, <1>8 DEF Touches, PrepClean, NameFree, Fine,
     Flagged, Works, Sides, Names
<1>10. Flagged(job[p])'
  BY <1>1, NoBoxEmpty, <1>2, <1>5, <1>6, <1>7 DEF Fine, Flagged, Works, Sides, Names
<1>11. Trusted(job[p])'
  BY <1>1, NoBoxEmpty, <1>2, <1>5, <1>6, <1>7 DEF Fine, Trusted, Filled, Flagged, Works, Sides,
     Names
<1>12. Filled(job[p])'
  BY <1>1, NoBoxEmpty, <1>2, <1>5, <1>6, <1>7 DEF Fine, Filled, Flagged, Works, Sides, Names
<1>13. Given(job[p])'
  BY <1>1, NoBoxEmpty, <1>2, <1>5, <1>6, <1>7 DEF Fine, Given, Flagged, NameFree, Works, Sides,
     Names
<1>14. Tagged(job[p])'
  BY <1>1, NoBoxEmpty, <1>2, <1>5, <1>6, <1>7 DEF Fine, Tagged, Works, Sides, Names
<1>15. Held(job[p])'
  BY <1>1, NoBoxEmpty, <1>2, <1>5, <1>6, <1>7 DEF Fine, Held, Flagged, NameFree, Works, Sides,
     Names
<1>16. (LastAlone(p) => Swept(job[p]))'
  BY <1>1, NoBoxEmpty, <1>2, <1>5, <1>6, <1>7 DEF Fine, LastAlone, Swept, Flagged, PrepClean,
     AllClean, NameFree, Works, Sides, Names
<1>17. (LastAlone(p) => FirstVolume(job[p]))'
  BY <1>1, NoBoxEmpty, <1>2, <1>5, <1>6, <1>7 DEF Fine, LastAlone, FirstVolume, Flagged,
     PrepClean, AllClean, NameFree, Works, Sides, Names
<1>18. QED
  BY <1>9, <1>10, <1>11, <1>12, <1>13, <1>14, <1>15, <1>16, <1>17 DEF Fine

LEMMA ConcludesFine ==
    ASSUME EndInv, NEW p \in Procs, Concludes(p) PROVE Touches(p) /\ Fine(p)'
<1>1. /\ job[p] \in Jobs /\ job \in [Procs -> Jobs] /\ box \in [Names -> Boxes]
      /\ job[p].pc = "images" /\ job[p].tags = {}
      /\ job[p].at \in Names /\ Fine(p) /\ Busy(job[p])
  BY DEF Jobs, EndInv, RuntimeInv, TypeOK, Concludes, Active, At, Busy
<1>2. job[p].run > 0 /\ (Fault => faults' # 0)
  BY <1>1, BusyRuns, FaultCounts DEF EndInv
<1>3. job'[p] = [job[p] EXCEPT !.pc = "done",
                              !.status = IF job[p].raised THEN "RAISED"
                                         ELSE IF job[p].failed THEN "BLOCKED" ELSE "READY"]
  BY <1>1 DEF Concludes
<1>4. /\ job'[p].pc = "done" /\ KeepsBut(p, {"pc", "status"})
      /\ job'[p].status = "READY" => ~job[p].raised /\ ~job[p].failed
      /\ job'[p].status = "BLOCKED" => ~job[p].raised
  BY <1>1, <1>3 DEF Jobs, JobFields, KeepsBut
<1>5. /\ job'[p].at = job[p].at /\ job'[p].run = job[p].run /\ job'[p].tags = job[p].tags
       /\ job'[p].input = job[p].input /\ job'[p].ok = job[p].ok /\ job'[p].forced = job[p].forced
       /\ job'[p].failed = job[p].failed /\ job'[p].said = job[p].said /\ job'[p].raised = job[p].raised
       /\ job'[p].alone = job[p].alone
  BY <1>4 DEF KeepsBut, JobFields
<1>6. UNCHANGED <<recipe, box, volume, images, runs, faults>>
  BY <1>1 DEF Concludes, Works
<1>7. ~recipe.prepares => PrepClean /\ job[p].at # "preparation"
  BY <1>1 DEF EndInv, Owned, Fine, Flagged
<1>8. Touches(p)
  BY <1>1, NoBoxEmpty, <1>2, <1>4, <1>5, <1>6, <1>7 DEF Touches, PrepClean, NameFree, Fine,
     Flagged, Works, Sides, Names
<1>9. Flagged(job[p])'
  BY <1>1, NoBoxEmpty, <1>2, <1>4, <1>5, <1>6 DEF Fine, Flagged, Works, Sides, Names
<1>10. Trusted(job[p])'
  BY <1>1, NoBoxEmpty, <1>2, <1>4, <1>5, <1>6 DEF Fine, Trusted, Filled, Flagged, Works, Sides,
     Names
<1>11. Filled(job[p])'
  BY <1>1, NoBoxEmpty, <1>2, <1>4, <1>5, <1>6 DEF Fine, Filled, Flagged, Works, Sides, Names
<1>12. Given(job[p])'
  BY <1>1, NoBoxEmpty, <1>2, <1>4, <1>5, <1>6 DEF Fine, Given, Flagged, NameFree, Works, Sides,
     Names
<1>13. Tagged(job[p])'
  BY <1>1, NoBoxEmpty, <1>2, <1>4, <1>5, <1>6 DEF Fine, Tagged, Works, Sides, Names
<1>14. Held(job[p])'
  BY <1>1, NoBoxEmpty, <1>2, <1>4, <1>5, <1>6 DEF Fine, Held, Flagged, NameFree, Works, Sides,
     Names
<1>15. (LastAlone(p) => Swept(job[p]))'
  BY <1>1, NoBoxEmpty, <1>2, <1>4, <1>5, <1>6 DEF Fine, LastAlone, Swept, Flagged, PrepClean,
     AllClean, NameFree, Works, Sides, Names
<1>16. (LastAlone(p) => FirstVolume(job[p]))'
  BY <1>1, NoBoxEmpty, <1>2, <1>4, <1>5, <1>6 DEF Fine, LastAlone, FirstVolume, Flagged,
     PrepClean, AllClean, NameFree, Works, Sides, Names
<1>17. QED
  BY <1>8, <1>9, <1>10, <1>11, <1>12, <1>13, <1>14, <1>15, <1>16 DEF Fine

LEMMA DiesFine ==
    ASSUME EndInv, NEW p \in Procs, Dies(p) PROVE Touches(p) /\ Fine(p)'
<1>1. /\ job[p] \in Jobs /\ job \in [Procs -> Jobs] /\ box \in [Names -> Boxes]
      /\ job[p].at \in Names /\ Fine(p) /\ Busy(job[p])
  BY DEF Jobs, EndInv, RuntimeInv, TypeOK, Dies, Active, At, Busy
<1>2. job[p].run > 0 /\ (Fault => faults' # 0)
  BY <1>1, BusyRuns, FaultCounts DEF EndInv
<1> DEFINE j == [job[p] EXCEPT !.pc = "dead"]
<1>3. job'[p] = j
  BY <1>1 DEF Dies
<1>4. job'[p].pc = "dead" /\ KeepsBut(p, {"pc"})
  BY <1>1, <1>3 DEF Jobs, JobFields, KeepsBut
<1>5. /\ job'[p].at = job[p].at /\ job'[p].run = job[p].run /\ job'[p].tags = job[p].tags
       /\ job'[p].input = job[p].input /\ job'[p].ok = job[p].ok /\ job'[p].forced = job[p].forced
       /\ job'[p].failed = job[p].failed /\ job'[p].said = job[p].said /\ job'[p].raised = job[p].raised
       /\ job'[p].status = job[p].status /\ job'[p].alone = job[p].alone
  BY <1>4 DEF KeepsBut, JobFields
<1>6. UNCHANGED <<recipe, box, volume, images, runs, faults>>
  BY <1>1 DEF Dies, Works
<1>7. ~recipe.prepares => PrepClean /\ job[p].at # "preparation"
  BY <1>1 DEF EndInv, Owned, Fine, Flagged
<1>8. Touches(p)
  BY <1>1, NoBoxEmpty, <1>2, <1>4, <1>5, <1>6, <1>7 DEF Touches, PrepClean, NameFree, Fine,
     Flagged, Works, Sides, Names
<1>9. Flagged(job[p])'
  BY <1>1, NoBoxEmpty, <1>2, <1>4, <1>5, <1>6 DEF Fine, Flagged, Works, Sides, Names
<1>10. Trusted(job[p])'
  BY <1>1, NoBoxEmpty, <1>2, <1>4, <1>5, <1>6 DEF Fine, Trusted, Filled, Flagged, Works, Sides,
     Names
<1>11. Filled(job[p])'
  BY <1>1, NoBoxEmpty, <1>2, <1>4, <1>5, <1>6 DEF Fine, Filled, Flagged, Works, Sides, Names
<1>12. Given(job[p])'
  BY <1>1, NoBoxEmpty, <1>2, <1>4, <1>5, <1>6 DEF Fine, Given, Flagged, NameFree, Works, Sides,
     Names
<1>13. Tagged(job[p])'
  BY <1>1, NoBoxEmpty, <1>2, <1>4, <1>5, <1>6 DEF Fine, Tagged, Works, Sides, Names
<1>14. Held(job[p])'
  BY <1>1, NoBoxEmpty, <1>2, <1>4, <1>5, <1>6 DEF Fine, Held, Flagged, NameFree, Works, Sides,
     Names
<1>15. (LastAlone(p) => Swept(job[p]))'
  BY <1>1, NoBoxEmpty, <1>2, <1>4, <1>5, <1>6 DEF Fine, LastAlone, Swept, Flagged, PrepClean,
     AllClean, NameFree, Works, Sides, Names
<1>16. (LastAlone(p) => FirstVolume(job[p]))'
  BY <1>1, NoBoxEmpty, <1>2, <1>4, <1>5, <1>6 DEF Fine, LastAlone, FirstVolume, Flagged,
     PrepClean, AllClean, NameFree, Works, Sides, Names
<1>17. QED
  BY <1>8, <1>9, <1>10, <1>11, <1>12, <1>13, <1>14, <1>15, <1>16 DEF Fine

-----------------------------------------------------------------------------
(* The starts of the others, the ends of the containers, and the whole *)

\* A start takes the case away from whoever had it alone.
LEMMA StartsFine ==
    ASSUME EndInv, NEW p \in Procs, Starts(p) PROVE Owned' /\ \A q \in Procs : Fine(q)'
<1> DEFINE others == {q \in Procs \ {p} : Active(q)}
           new == Job(runs', others = {})
<1>1. /\ job \in [Procs -> Jobs] /\ runs \in Nat /\ runs' = runs + 1
      /\ UNCHANGED <<recipe, box, volume, images, faults>>
  BY BoundsAssumption DEF EndInv, RuntimeInv, TypeOK, Starts
<1>2. \A q \in Procs : job'[q] = IF q = p THEN new
                                 ELSE IF q \in others THEN [job[q] EXCEPT !.alone = FALSE]
                                 ELSE job[q]
  BY DEF Starts
<1>3. /\ job'[p].pc = "base" /\ job'[p].at = "control" /\ job'[p].run = runs + 1
      /\ job'[p].tags = {} /\ job'[p].input = "none" /\ ~job'[p].forced /\ ~job'[p].raised
      /\ job'[p].status = "none" /\ job'[p].alone = (others = {}) /\ ~job'[p].ok
  <2>1. job'[p] = new
    BY <1>2
  <2>2. QED
    BY <2>1, <1>1 DEF Job
<1>4. ASSUME NEW q \in Procs \ {p}
      PROVE  /\ \A f \in JobFields \ {"alone"} : job'[q][f] = job[q][f]
             /\ job'[q].alone => job[q].alone /\ ~Busy(job[q])
  <2>1. CASE q \in others
    <3>1. job'[q] = [job[q] EXCEPT !.alone = FALSE] /\ job[q] \in Jobs
      BY <1>1, <1>2, <2>1
    <3>2. QED
      BY <3>1 DEF Jobs, JobFields
  <2>2. CASE q \notin others
    BY <1>2, <2>2 DEF Active, Busy, At
  <2>3. QED
    BY <2>1, <2>2
<1>5. ASSUME NEW q \in Procs \ {p}
      PROVE  /\ job'[q].pc = job[q].pc /\ job'[q].at = job[q].at /\ job'[q].run = job[q].run
             /\ job'[q].tags = job[q].tags /\ job'[q].input = job[q].input /\ job'[q].ok = job[q].ok
             /\ job'[q].forced = job[q].forced /\ job'[q].failed = job[q].failed
             /\ job'[q].said = job[q].said /\ job'[q].raised = job[q].raised
             /\ job'[q].status = job[q].status /\ job'[q].run <= runs /\ job'[q].run \in Nat
  <2>1. job[q].run <= runs /\ job[q].run \in Nat
    <3>1. job[q] \in Jobs /\ job[q].run <= runs
      BY <1>1 DEF EndInv, Owned
    <3>2. job[q].run \in 0..MaxRuns
      BY <3>1 DEF Jobs
    <3>3. QED
      BY <3>1, <3>2, BoundsAssumption
  <2>2. QED
    BY <1>4, <2>1 DEF JobFields
<1>6. ASSUME NEW q \in Procs \ {p} PROVE Fine(q)'
  <2>1. Fine(q)
    BY DEF EndInv
  <2>2. ~LastAlone(q)'
    BY <1>1, <1>5 DEF LastAlone
  <2>3. job'[q].alone => job[q].alone
    BY <1>4
  <2>4. Flagged(job[q])' /\ Trusted(job[q])' /\ Filled(job[q])'
    <3>1. Flagged(job[q])'
      BY <2>1, <1>1, <1>5 DEF Fine, Flagged
    <3>2. Trusted(job[q])'
      <4>1. /\ job'[q].pc = job[q].pc /\ job'[q].at = job[q].at /\ job'[q].ok = job[q].ok
            /\ job'[q].failed = job[q].failed /\ job'[q].raised = job[q].raised
            /\ job'[q].status = job[q].status /\ job'[q].input = job[q].input
        BY <1>5
      <4>2. QED
        BY <2>1, <2>3, <1>1, <4>1 DEF Fine, Trusted
    <3>3. Filled(job[q])'
      <4>1. UNCHANGED volume /\ job'[q].pc = job[q].pc /\ job'[q].at = job[q].at /\ job'[q].ok = job[q].ok
        BY <1>1, <1>5
      <4>2. QED
        BY <2>1, <2>3, <4>1 DEF Fine, Filled
    <3>4. QED
      BY <3>1, <3>2, <3>3
  <2>5. Given(job[q])' /\ Tagged(job[q])' /\ Held(job[q])'
    <3>1. Given(job[q])' /\ Tagged(job[q])'
      BY <2>1, <1>1, <1>5 DEF Fine, Given, Tagged
    <3>2. Held(job[q])'
      BY <2>1, <1>1, <1>5 DEF Fine, Held
    <3>3. QED
      BY <3>1, <3>2
  <2>6. QED
    BY <2>2, <2>4, <2>5 DEF Fine
<1>7. Fine(p)'
  <2>1. Flagged(job[p])' /\ Trusted(job[p])' /\ Filled(job[p])' /\ Given(job[p])' /\ Swept(job[p])'
    <3>1. Flagged(job[p])' /\ Filled(job[p])' /\ Given(job[p])'
      BY <1>3 DEF Flagged, Filled, Given, Sides
    <3>2. Trusted(job[p])'
      BY <1>3 DEF Trusted, Sides
    <3>3. Swept(job[p])'
      BY <1>3 DEF Swept, Sides
    <3>4. QED
      BY <3>1, <3>2, <3>3
  <2>2. Tagged(job[p])'
    BY <1>1, <1>3 DEF EndInv, Owned, Tagged, Runs
  <2>3. \A n \in Names : box[n].run # runs + 1
    BY <1>1, NoBoxEmpty DEF EndInv, Owned, Runs
  <2>4. Held(job[p])'
    BY <1>1, <1>3, <2>3 DEF Held
  <2>5. FirstVolume(job[p])'
    BY <1>1, <1>3 DEF EndInv, Owned, FirstVolume
  <2>6. QED
    BY <2>1, <2>2, <2>4, <2>5 DEF Fine
<1>8. Owned'
  <2>1. (~recipe.prepares => PrepClean)' /\ (runs = 0 => volume = "none")'
    BY <1>1 DEF EndInv, Owned, PrepClean
  <2>2. (\A n \in Names : box[n] = NoBox \/ box[n].run \in Runs)' /\ (images \subseteq Runs \X Sides)'
    BY <1>1 DEF EndInv, Owned, Runs
  <2>3. (\A q \in Procs : /\ job[q].run <= runs
                          /\ Busy(job[q]) /\ job[q].alone => job[q].run = runs)'
    BY <1>1, <1>3, <1>4, <1>5 DEF Busy
  <2>4. ASSUME NEW q \in Procs, NEW r \in Procs, q # r
        PROVE  (job[q].run = job[r].run => job[q].run = 0)' /\ (LastAlone(q) => ~Busy(job[r]))'
    <3>1. CASE q = p
      <4>1. job'[q].run # job'[r].run
        BY <3>1, <2>4, <1>1, <1>3, <1>5
      <4>2. LastAlone(q)' => r \notin others
        BY <3>1, <1>3 DEF LastAlone
      <4>3. r \notin others => ~Busy(job'[r])
        BY <3>1, <2>4, <1>5 DEF Active, Busy, At
      <4>4. QED
        BY <4>1, <4>2, <4>3
    <3>2. CASE q # p
      <4>1. ~LastAlone(q)'
        BY <3>2, <1>1, <1>5 DEF LastAlone
      <4>2. CASE r = p
        BY <3>2, <4>1, <4>2, <1>1, <1>3, <1>5
      <4>3. CASE r # p
        BY <3>2, <4>1, <4>3, <2>4, <1>5 DEF EndInv, Owned
      <4>4. QED
        BY <4>2, <4>3
    <3>3. QED
      BY <3>1, <3>2
  <2>5. QED
    BY <2>1, <2>2, <2>3, <2>4 DEF Owned
<1>9. QED
  BY <1>6, <1>7, <1>8

\* A container's end reaches the job that waits for it with the input it was given.
LEMMA EndsFine ==
    ASSUME EndInv, NEW n \in Names, Ends(n) PROVE Owned' /\ \A p \in Procs : Fine(p)'
<1>1. PICK ok \in BOOLEAN :
        /\ n \in Sides /\ box[n].input # "partial" => ok = (n \in recipe.reproduces)
        /\ job' = [p \in Procs |-> IF At(p, "await") /\ job[p].at = n /\ job[p].run = box[n].run
                                   THEN [job[p] EXCEPT !.ok = ok] ELSE job[p]]
        /\ volume' = IF n = "preparation" /\ ok THEN "settled" ELSE volume
  BY DEF Ends
<1>2. /\ job \in [Procs -> Jobs] /\ box \in [Names -> Boxes]
      /\ box[n].state = "running" /\ UNCHANGED <<recipe, images, runs, faults>>
      /\ box' = [box EXCEPT ![n] = [box[n] EXCEPT !.state = "exited"]]
  BY DEF EndInv, RuntimeInv, TypeOK, Ends
<1>3. \A m \in Names : /\ box'[m].run = box[m].run /\ box'[m].input = box[m].input
                       /\ box[m].state = "none" <=> box'[m].state = "none"
                       /\ m # n => box'[m] = box[m]
  BY <1>2 DEF Boxes
<1>4. ASSUME NEW p \in Procs
      PROVE  /\ \A f \in JobFields \ {"ok"} : job'[p][f] = job[p][f]
             /\ \/ job'[p].ok = job[p].ok
                \/ /\ job[p].pc = "await" /\ job[p].at = n /\ job[p].run = box[n].run
                   /\ job'[p].ok = ok
  BY <1>1, <1>2 DEF At, Jobs, JobFields
<1>5. ASSUME NEW p \in Procs
      PROVE  /\ job'[p].pc = job[p].pc /\ job'[p].at = job[p].at /\ job'[p].run = job[p].run
             /\ job'[p].tags = job[p].tags /\ job'[p].input = job[p].input
             /\ job'[p].forced = job[p].forced /\ job'[p].failed = job[p].failed
             /\ job'[p].said = job[p].said /\ job'[p].raised = job[p].raised
             /\ job'[p].status = job[p].status /\ job'[p].alone = job[p].alone
  BY <1>4 DEF JobFields
<1>6. box[n].run \in Runs /\ (n = "preparation" => ~PrepClean /\ recipe.prepares)
  BY <1>2, NoBoxEmpty DEF EndInv, Owned, PrepClean
<1>7. PrepClean' <=> PrepClean
  BY <1>1, <1>2, <1>3 DEF PrepClean, Names
<1>8. ASSUME NEW p \in Procs PROVE Fine(p)'
  <2>1. Fine(p)
    BY DEF EndInv
  <2>2. Flagged(job[p])'
    BY <2>1, <1>2, <1>5 DEF Fine, Flagged
  <2>3. job[p].pc = "await" /\ job[p].at = n /\ job[p].run = box[n].run /\ n \in Sides
        => box[n].input = job[p].input
    BY <2>1 DEF Fine, Given
  <2>4. Trusted(job[p])'
    BY <2>1, <2>3, <1>1, <1>2, <1>4, <1>5 DEF Fine, Trusted
  <2>5. Filled(job[p])'
    BY <2>1, <1>1, <1>4, <1>5 DEF Fine, Filled
  <2>6. Given(job[p])' /\ Tagged(job[p])' /\ Held(job[p])'
    <3>1. Given(job[p])'
      BY <2>1, <1>3, <1>5 DEF Fine, Given, Names
    <3>2. Tagged(job[p])'
      BY <2>1, <1>2, <1>5 DEF Fine, Tagged
    <3>3. Held(job[p])'
      <4>1. Held(job[p]) /\ UNCHANGED faults /\ \A m \in Names : box'[m].run = box[m].run
        BY <2>1, <1>2, <1>3 DEF Fine
      <4>2. QED
        BY <4>1, <1>5 DEF Held
    <3>4. QED
      BY <3>1, <3>2, <3>3
  <2>7. LastAlone(p)' => LastAlone(p)
    BY <1>2, <1>5 DEF LastAlone
  <2>8. (LastAlone(p) => Swept(job[p]))'
    <3>1. AllClean <=> AllClean'
      BY <1>3, <1>7 DEF AllClean, Names
    <3>2. \A m \in Names : box[m].state = "none" => box'[m].state = "none"
      BY <1>3
    <3>3. LastAlone(p) => Swept(job[p])
      BY <2>1 DEF Fine
    <3>4. QED
      BY <2>7, <1>5, <1>7, <3>1, <3>2, <3>3 DEF Swept, Names, Sides
  <2>9. (LastAlone(p) => FirstVolume(job[p]))'
    <3>1. CASE n = "preparation" /\ LastAlone(p) /\ job[p].run = 1
      <4>1. box[n].run = job[p].run
        BY <3>1, <1>6 DEF LastAlone, Runs
      <4>2. Held(job[p])
        BY <2>1 DEF Fine
      <4>3. QED
        <5>1. job[p].run = 1 /\ job[p].run > 0
          BY <3>1
        <5>2. faults = 0 /\ ~job[p].raised /\ job[p].pc # "dead"
              => /\ job[p].at = "preparation"
                 /\ \/ job[p].pc \in {"await", "copy"}
                    \/ job[p].pc \in {"ran", "prepared box"} /\ ~job[p].forced
          BY <3>1, <4>1, <4>2, <5>1 DEF Held
        <5>3. QED
          BY <5>1, <5>2, <1>2, <1>5 DEF FirstVolume
    <3>2. CASE n # "preparation"
      <4>1. UNCHANGED volume /\ UNCHANGED faults
        BY <3>2, <1>1, <1>2
      <4>2. LastAlone(p) => FirstVolume(job[p])
        BY <2>1 DEF Fine
      <4>3. QED
        BY <4>1, <4>2, <2>7, <1>5 DEF FirstVolume
    <3>3. QED
      BY <3>1, <3>2, <2>7, <1>5 DEF FirstVolume
  <2>10. QED
    BY <2>2, <2>4, <2>5, <2>6, <2>8, <2>9 DEF Fine
<1>9. Owned'
  <2>1. (~recipe.prepares => PrepClean)' /\ (runs = 0 => volume = "none")'
    BY <1>1, <1>2, <1>6, <1>7 DEF EndInv, Owned, Runs
  <2>2. (\A m \in Names : box[m] = NoBox \/ box[m].run \in Runs)' /\ (images \subseteq Runs \X Sides)'
    BY <1>2, <1>3, <1>6 DEF EndInv, Owned, Runs
  <2>3. (\A p \in Procs : /\ job[p].run <= runs
                          /\ Busy(job[p]) /\ job[p].alone => job[p].run = runs)'
    BY <1>2, <1>5 DEF EndInv, Owned, Busy
  <2>4. (\A p, q \in Procs : p # q =>
           /\ job[p].run = job[q].run => job[p].run = 0
           /\ LastAlone(p) => ~Busy(job[q]))'
    BY <1>2, <1>5 DEF EndInv, Owned, Busy, LastAlone
  <2>5. QED
    BY <2>1, <2>2, <2>3, <2>4 DEF Owned
<1>10. QED
  BY <1>8, <1>9

LEMMA EndInit == Init => EndInv
<1> SUFFICES ASSUME Init PROVE EndInv
    OBVIOUS
<1>1. \A p \in Procs : /\ job[p].pc = "idle" /\ job[p].at = "control" /\ job[p].run = 0
                       /\ job[p].input = "none" /\ ~job[p].forced
  BY DEF Init, Idle, Job
<1>2. Owned
  BY <1>1, NoBoxEmpty DEF Init, Owned, PrepClean, Busy, Names, Runs, LastAlone
<1>3. ASSUME NEW p \in Procs PROVE Fine(p)
  <2>1. Flagged(job[p]) /\ Trusted(job[p]) /\ Filled(job[p]) /\ Given(job[p])
    BY <1>1 DEF Flagged, Trusted, Filled, Given
  <2>2. Tagged(job[p]) /\ Held(job[p]) /\ Swept(job[p]) /\ FirstVolume(job[p])
    <3>1. ~(job[p].run > 0) /\ job[p].run # 1 /\ job[p].pc = "idle"
      BY <1>1
    <3>2. Tagged(job[p]) /\ Held(job[p])
      BY <3>1 DEF Tagged, Held
    <3>3. Swept(job[p]) /\ FirstVolume(job[p])
      BY <3>1 DEF Swept, FirstVolume
    <3>4. QED
      BY <3>2, <3>3
  <2>3. QED
    BY <2>1, <2>2 DEF Fine
<1>4. QED
  BY <1>2, <1>3, RuntimeInit DEF EndInv

LEMMA EndStep == EndInv /\ [Next]_vars => EndInv'
<1> SUFFICES ASSUME EndInv, [Next]_vars PROVE EndInv'
    OBVIOUS
<1>1. RuntimeInv'
  BY RuntimeStep DEF EndInv
<1>2. CASE UNCHANGED vars
  <2>1. \A p \in Procs : Fine(p)'
    <3> SUFFICES ASSUME NEW p \in Procs PROVE Fine(p)'
      OBVIOUS
    <3>1. UNCHANGED <<recipe, box, volume, images, job, runs, faults>> /\ Fine(p)
      BY <1>2 DEF vars, EndInv
    <3>2. Flagged(job[p])'
      BY <3>1 DEF Fine, Flagged
    <3>3. Trusted(job[p])'
      BY <3>1 DEF Fine, Trusted
    <3>4. Filled(job[p])'
      BY <3>1 DEF Fine, Filled
    <3>5. Given(job[p])' /\ Tagged(job[p])' /\ Held(job[p])'
      BY <3>1 DEF Fine, Given, Tagged, Held
    <3>6. (LastAlone(p) => Swept(job[p]) /\ FirstVolume(job[p]))'
      BY <3>1 DEF Fine, LastAlone, Swept, FirstVolume, PrepClean, AllClean
    <3>7. QED
      BY <3>2, <3>3, <3>4, <3>5, <3>6 DEF Fine
  <2>2. Owned'
    BY <1>2 DEF vars, EndInv, Owned, Busy, LastAlone, PrepClean, Runs
  <2>3. QED
    BY <1>1, <2>1, <2>2 DEF EndInv
<1>3. ASSUME NEW p \in Procs, Step(p) PROVE EndInv'
  <2>1. CASE Starts(p)
    BY <1>1, <2>1, StartsFine DEF EndInv
  <2>2. CASE ~Starts(p)
    <3>1. Moves(p)
      BY <1>3, <2>2, ChecksBaseMoves, BuildsMoves, CreatesVolumeMoves, ForcesBoxMoves,
         ClearsNameMoves, RunsBoxMoves, AwaitsMoves, FinishesPreparationMoves, CopiesMoves,
         CleansPreparationMoves, ForcesVolumeMoves, CleansVolumeMoves, CleansSideMoves,
         RemovesImageMoves, ConcludesMoves, DiesMoves DEF Step, EndInv
    <3>2. Touches(p) /\ Fine(p)'
      BY <1>3, <2>2, ChecksBaseFine, BuildsFine, CreatesVolumeFine, ForcesBoxFine,
         ClearsNameFine, RunsBoxFine, AwaitsFine, FinishesPreparationFine, CopiesFine,
         CleansPreparationFine, ForcesVolumeFine, CleansVolumeFine, CleansSideFine,
         RemovesImageFine, ConcludesFine, DiesFine DEF Step
    <3>3. QED
      BY <1>1, <3>1, <3>2, OwnedKept, OthersFine DEF EndInv
  <2>3. QED
    BY <2>1, <2>2
<1>4. ASSUME NEW n \in Names, Ends(n) PROVE EndInv'
  BY <1>1, <1>4, EndsFine DEF EndInv
<1>5. QED
  BY <1>2, <1>3, <1>4 DEF Next

LEMMA EndAlways == Spec => []EndInv
BY EndInit, EndStep, PTL DEF Spec

\* A READY verdict of reconstruct_historical_cases means that both sides exited as
\* recorded on the input they were meant for, whatever earlier or simultaneous
\* reconstructions left; with a preparation, if no other one ran at the same time.
THEOREM ReadyReproduces == Spec => []ReadyIsReproduced
<1>1. EndInv => ReadyIsReproduced
  BY DEF EndInv, Fine, Flagged, Trusted, ReadyIsReproduced, Finished, At
<1>2. QED
  BY <1>1, EndAlways, PTL

\* What the removals of a reconstruction that ends without an exception leave behind.
THEOREM OrderlyEndCleans == Spec => []OrderlyEndIsClean
<1>1. EndInv => OrderlyEndIsClean
  <2> SUFFICES ASSUME EndInv, NEW p \in Procs, LastAlone(p)
               PROVE  /\ Finished(p, {"READY"}) /\ ~job[p].said
                         => /\ \A n \in Names : box[n].state = "none"
                            /\ volume = "none"
                            /\ \A s \in Sides : <<job[p].run, s>> \notin images
                      /\ Finished(p, {"READY", "BLOCKED"}) /\ faults = 0
                         => /\ \A n \in Names : box[n].run # job[p].run
                            /\ job[p].run = 1 => volume = "none"
                            /\ \A s \in Sides : <<job[p].run, s>> \notin images
    BY DEF OrderlyEndIsClean
  <2>1. Fine(p)
    BY DEF EndInv
  <2>2. Finished(p, {"READY"}) => job[p].pc = "done" /\ job[p].status = "READY" /\ ~job[p].failed
                                  /\ ~job[p].raised /\ job[p].run > 0 /\ job[p].tags = {}
    BY <2>1 DEF Fine, Flagged, Finished, At
  <2>3. Finished(p, {"READY", "BLOCKED"}) => job[p].pc = "done" /\ ~job[p].raised /\ job[p].run > 0
                                             /\ job[p].tags = {}
    BY <2>1 DEF Fine, Flagged, Finished, At
  <2>4. ASSUME Finished(p, {"READY"}), ~job[p].said
        PROVE  (\A n \in Names : box[n].state = "none") /\ volume = "none"
    BY <2>1, <2>2, <2>4 DEF Fine, Swept, AllClean, PrepClean, Names
  <2>5. ASSUME Finished(p, {"READY", "BLOCKED"}), faults = 0
        PROVE  (\A n \in Names : box[n].run # job[p].run) /\ (job[p].run = 1 => volume = "none")
    BY <2>1, <2>3, <2>5 DEF Fine, Held, FirstVolume
  <2>6. Finished(p, {"READY"}) \/ (Finished(p, {"READY", "BLOCKED"}) /\ faults = 0)
        => \A s \in Sides : <<job[p].run, s>> \notin images
    BY <2>1, <2>2, <2>3 DEF Fine, Tagged
  <2>7. QED
    BY <2>4, <2>5, <2>6
<1>2. QED
  BY <1>1, EndAlways, PTL
=============================================================================
