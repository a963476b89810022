--------------------------- MODULE HistoricalRuntime ---------------------------
(***************************************************************************)
(* reconstruct_historical_cases (src/radar_bench/historical_runtime.py) for *)
(* one case: build an image per side, prepare an input in a volume, copy it *)
(* out, run both sides, remove everything. Containers and the volume have   *)
(* names derived from the case alone, images have random ones. Processes    *)
(* may reconstruct the same case at the same time, die anywhere and start   *)
(* again; docker commands may fail or be killed at their limit.             *)
(***************************************************************************)
EXTENDS Naturals, FiniteSets

CONSTANTS Procs,
          MaxRuns,    \* bound: reconstructions started
          MaxFaults   \* bound: docker commands that fail

ASSUME BoundsAssumption == MaxRuns \in Nat /\ MaxFaults \in Nat

Sides == {"control", "candidate"}
Names == Sides \cup {"preparation"}

VARIABLES
    recipe,  \* whether the case has a preparation, which sides exit as expected
    box,     \* the container of each name
    volume,  \* what the volume of the case holds
    images,  \* the images that exist, by reconstruction and side
    job,     \* the state of each process
    runs, faults

vars == <<recipe, box, volume, images, job, runs, faults>>

Inputs == {"none", "partial", "settled"}
NoBox == [state |-> "none", run |-> 0, input |-> "none"]

\* ok is prep_result's or the side's return code against the one expected;
\* forced says that rm --force was run and its check was not;
\* failed stands for side_errors, said for a cleanup_error in a side's result;
\* alone is history: no other reconstruction of the case ran at the same time.
Job(r, isAlone) ==
    [pc |-> "base", at |-> "control", run |-> r, tags |-> {}, input |-> "none", ok |-> FALSE,
     forced |-> FALSE, failed |-> FALSE, said |-> FALSE, raised |-> FALSE, status |-> "none", alone |-> isAlone]

Idle == [Job(0, TRUE) EXCEPT !.pc = "idle"]
At(p, pc) == job[p].pc = pc
Active(p) == job[p].pc \notin {"idle", "done", "dead"}

Init ==
    /\ recipe \in [prepares : BOOLEAN, reproduces : SUBSET Sides]
    /\ box = [n \in Names |-> NoBox]
    /\ volume = "none" /\ images = {}
    /\ job = [p \in Procs |-> Idle]
    /\ runs = 0 /\ faults = 0

-----------------------------------------------------------------------------
(* The containers and the processes' ends *)

\* The program of a container ends: on the input it was meant for it exits as
\* recorded, on another one anyhow. The docker run of its process gets the code.
Ends(n) ==
    /\ box[n].state = "running"
    /\ \E ok \in BOOLEAN :
         /\ n \in Sides /\ box[n].input # "partial" => ok = (n \in recipe.reproduces)
         /\ job' = [p \in Procs |-> IF At(p, "await") /\ job[p].at = n /\ job[p].run = box[n].run
                                   THEN [job[p] EXCEPT !.ok = ok] ELSE job[p]]
         /\ volume' = IF n = "preparation" /\ ok THEN "settled" ELSE volume
    /\ box' = [box EXCEPT ![n].state = "exited"]
    /\ UNCHANGED <<recipe, images, runs, faults>>

Dies(p) ==
    /\ Active(p)
    /\ job' = [job EXCEPT ![p].pc = "dead"]
    /\ UNCHANGED <<recipe, box, volume, images, runs, faults>>

Fault == faults < MaxFaults /\ faults' = faults + 1
Works == UNCHANGED faults

-----------------------------------------------------------------------------
(* reconstruct_historical_cases, up to the images *)

\* What follows a step: the next one, or with an error the image cleanup.
Proceeds(p, pc, error) ==
    job' = [job EXCEPT ![p].pc = IF error THEN "images" ELSE pc,
                       ![p].failed = @ \/ error]

\* An exception passes the finally block only.
Raises(p) == job' = [job EXCEPT ![p].pc = "images", ![p].raised = TRUE]

Starts(p) ==
    /\ ~Active(p) /\ runs < MaxRuns
    /\ runs' = runs + 1
    /\ LET others == {q \in Procs \ {p} : Active(q)} IN
       job' = [q \in Procs |-> IF q = p THEN Job(runs', others = {})
                               ELSE IF q \in others THEN [job[q] EXCEPT !.alone = FALSE]
                               ELSE job[q]]
    /\ UNCHANGED <<recipe, box, volume, images, faults>>

\* Recipes, artifacts, docker, the base image and its Python.
ChecksBase(p) ==
    /\ At(p, "base")
    /\ \/ job' = [job EXCEPT ![p].pc = "build"]
       \/ job' = [job EXCEPT ![p].pc = "done", ![p].status = "BLOCKED"]
    /\ UNCHANGED <<recipe, box, volume, images, runs, faults>>

\* _build_side: a missing wheel yields no tag, a failed build yields one, with
\* or without an image. The candidate is built whatever came of the control.
Tags(s, tagged) == {t \in {s} : tagged}

Built(p, tagged, failed) ==
    LET s == job[p].at
        next == IF s = "control" THEN <<"build", "candidate">>
                ELSE IF job[p].failed \/ failed THEN <<"images", "candidate">>
                ELSE IF recipe.prepares THEN <<"volume", "preparation">>
                ELSE <<"clear", "control">> IN
    job' = [job EXCEPT ![p].tags = @ \cup Tags(s, tagged), ![p].failed = @ \/ failed,
                       ![p].pc = next[1], ![p].at = next[2]]

Builds(p) ==
    /\ At(p, "build")
    /\ \/ Works /\ Built(p, TRUE, FALSE) /\ images' = images \cup {<<job[p].run, job[p].at>>}
       \/ Works /\ Built(p, FALSE, TRUE) /\ UNCHANGED images
       \/ /\ Fault /\ Built(p, TRUE, TRUE)
          /\ images' \in {images, images \cup {<<job[p].run, job[p].at>>}}
       \/ Works /\ Raises(p) /\ UNCHANGED images
    /\ UNCHANGED <<recipe, box, volume, runs>>

CreatesVolume(p) ==
    /\ At(p, "volume")
    /\ \/ /\ Works
          /\ volume' = IF volume = "none" THEN "partial" ELSE volume
          /\ Proceeds(p, "clear", FALSE)
       \/ /\ Fault
          /\ volume' \in {volume, IF volume = "none" THEN "partial" ELSE volume}
          /\ Proceeds(p, "images", TRUE)
    /\ UNCHANGED <<recipe, box, images, runs>>

-----------------------------------------------------------------------------
(* Containers: _remove_container and _run_case_side *)

\* docker rm --force of the container of that name, whoever left it.
Forced(n) == [box EXCEPT ![n] = NoBox]

ForcesBox(p) ==
    /\ \/ At(p, "clear") \/ At(p, "prepared box")
       \/ At(p, "ran") /\ job[p].at \in Sides
    /\ ~job[p].forced
    /\ \/ Works /\ box' = Forced(job[p].at)
       \/ Fault /\ box' \in {box, Forced(job[p].at)}
    /\ job' = [job EXCEPT ![p].forced = TRUE]
    /\ UNCHANGED <<recipe, volume, images, runs>>

\* Then docker ps, or docker volume ls: whether the name is seen to be free. The
\* return code of the removal is not looked at.
Verifies(p, free, verified) ==
    /\ job[p].forced
    /\ \/ Works /\ verified = free
       \/ Fault /\ ~verified
    /\ UNCHANGED <<recipe, box, volume, images, runs>>

NameFree(p) == box[job[p].at].state = "none"
Unlisted(p) == TRUE
Absent(p) == NameFree(p)

ClearsName(p) ==
    /\ At(p, "clear")
    /\ \E verified \in BOOLEAN :
         /\ Verifies(p, Absent(p), verified)
         /\ job' = [job EXCEPT
                ![p].forced = FALSE, ![p].failed = @ \/ ~verified,
                ![p].pc = IF verified THEN "run"
                          ELSE IF job[p].at = "preparation" THEN "prepared box" ELSE "images"]

\* docker run: the name must be free; the preparation writes to the volume. A
\* container that could be created and not started stays.
Box(p, state) == [box EXCEPT ![job[p].at] =
                     [state |-> state, run |-> job[p].run, input |-> job[p].input]]
RunsBox(p) ==
    /\ At(p, "run")
    /\ LET mounts == job[p].at = "preparation" IN
       \/ /\ Works /\ NameFree(p) /\ box' = Box(p, "running")
          /\ volume' = IF mounts THEN "partial" ELSE volume
          /\ job' = [job EXCEPT ![p].pc = "await", ![p].ok = FALSE]
       \/ /\ Fault /\ NameFree(p) /\ box' = Box(p, "exited")
          /\ volume' = IF mounts /\ volume = "none" THEN "partial" ELSE volume
          /\ job' = [job EXCEPT ![p].pc = "ran", ![p].ok = FALSE]
       \/ /\ \/ Works /\ ~NameFree(p)
             \/ Fault /\ NameFree(p)
          /\ job' = [job EXCEPT ![p].pc = "ran", ![p].ok = FALSE]
          /\ UNCHANGED <<box, volume>>
    /\ UNCHANGED <<recipe, images, runs>>

\* docker run returns: with the exit code, or without one because the limit
\* killed it, which leaves the container running, or somebody removed it.
Awaits(p) ==
    /\ At(p, "await")
    /\ job' \in {[job EXCEPT ![p].pc = "ran", ![p].ok = ok] : ok \in {FALSE, job[p].ok}}
    /\ UNCHANGED <<recipe, box, volume, images, runs, faults>>

-----------------------------------------------------------------------------
(* The preparation *)

AnyEnd(p) == TRUE
ExitedWell(p) == job[p].ok

\* Both ends lead to the cleanup of the container, then of the volume.
Deferred == "prepared volume"
AfterPreparation == "prepared box"

FinishesPreparation(p) ==
    /\ At(p, "ran") /\ job[p].at = "preparation"
    /\ \/ ExitedWell(p) /\ job' = [job EXCEPT ![p].pc = "copy"]
       \/ ~ExitedWell(p) /\ job' = [job EXCEPT ![p].pc = AfterPreparation, ![p].failed = TRUE]
    /\ UNCHANGED <<recipe, box, volume, images, runs, faults>>

\* docker cp from the container of that name and _copy_declared_outputs, which
\* compares the names of the files; it may raise while it copies them.
Copies(p) ==
    /\ At(p, "copy")
    /\ \/ /\ Works /\ box["preparation"].state # "none"
          /\ job' = [job EXCEPT ![p].pc = AfterPreparation, ![p].input = volume]
       \/ Works /\ job' = [job EXCEPT ![p].pc = AfterPreparation, ![p].failed = TRUE]
       \/ Works /\ box["preparation"].state # "none" /\ Raises(p)
    /\ UNCHANGED <<recipe, box, volume, images, runs>>

CleansPreparation(p) ==
    /\ At(p, "prepared box")
    /\ \E verified \in BOOLEAN :
         /\ Verifies(p, Absent(p), verified)
         /\ job' = [job EXCEPT ![p].forced = FALSE, ![p].failed = @ \/ ~verified,
                               ![p].pc = "prepared volume"]

\* A volume stays while a container, running or not, mounts it.
ForcesVolume(p) ==
    /\ At(p, "prepared volume") /\ ~job[p].forced
    /\ LET left == IF box["preparation"].state = "none" THEN "none" ELSE volume IN
       \/ Works /\ volume' = left
       \/ Fault /\ volume' \in {volume, left}
    /\ job' = [job EXCEPT ![p].forced = TRUE]
    /\ UNCHANGED <<recipe, box, images, runs>>

CleansVolume(p) ==
    /\ At(p, "prepared volume")
    /\ \E verified \in BOOLEAN :
         /\ Verifies(p, volume = "none", verified)
         /\ job' = [job EXCEPT
                ![p].forced = FALSE, ![p].failed = @ \/ ~verified, ![p].at = "control",
                ![p].pc = IF job[p].failed \/ ~verified THEN "images" ELSE "clear"]

-----------------------------------------------------------------------------
(* The two sides, the images and the verdict *)

\* A cleanup that is not verified goes into the result of the side, not into
\* side_errors; READY is a matter of the return code alone.
CleanupNoted(verified) == ~verified

CleansSide(p) ==
    /\ At(p, "ran") /\ job[p].at \in Sides
    /\ \E verified \in BOOLEAN :
         /\ Verifies(p, Absent(p), verified)
         /\ job' = [job EXCEPT
                ![p].forced = FALSE,
                ![p].said = @ \/ CleanupNoted(verified),
                ![p].failed = @ \/ ~ExitedWell(p),
                ![p].pc = IF ExitedWell(p) /\ job[p].at = "control" THEN "clear" ELSE "images",
                ![p].at = "candidate"]

\* The finally block: _remove_image for each tag.
RemovesImage(p) ==
    /\ At(p, "images")
    /\ \E s \in job[p].tags :
         \/ /\ Works /\ images' = images \ {<<job[p].run, s>>}
            /\ job' = [job EXCEPT ![p].tags = @ \ {s}]
         \/ /\ Fault /\ images' \in {images, images \ {<<job[p].run, s>>}}
            /\ job' = [job EXCEPT ![p].tags = @ \ {s}, ![p].failed = TRUE]
    /\ UNCHANGED <<recipe, box, volume, runs>>

Concludes(p) ==
    /\ At(p, "images") /\ job[p].tags = {}
    /\ job' = [job EXCEPT ![p].pc = "done",
                          ![p].status = IF job[p].raised THEN "RAISED"
                                        ELSE IF job[p].failed THEN "BLOCKED" ELSE "READY"]
    /\ UNCHANGED <<recipe, box, volume, images, runs, faults>>

-----------------------------------------------------------------------------
Step(p) ==
    \/ Starts(p) \/ ChecksBase(p) \/ Builds(p) \/ CreatesVolume(p)
    \/ ForcesBox(p) \/ ClearsName(p) \/ RunsBox(p) \/ Awaits(p)
    \/ FinishesPreparation(p) \/ Copies(p) \/ CleansPreparation(p) \/ ForcesVolume(p) \/ CleansVolume(p)
    \/ CleansSide(p) \/ RemovesImage(p) \/ Concludes(p)
    \/ Dies(p)

Next == (\E p \in Procs : Step(p)) \/ (\E n \in Names : Ends(n))

Spec == Init /\ [][Next]_vars

-----------------------------------------------------------------------------
(* Properties *)

Finished(p, statuses) == At(p, "done") /\ job[p].status \in statuses
LastAlone(p) == job[p].alone /\ job[p].run = runs

Jobs == [pc : {"idle", "base", "build", "volume", "clear", "run", "await", "ran", "copy",
               "prepared box", "prepared volume", "images", "done", "dead"},
         at : Names, run : 0..MaxRuns, tags : SUBSET Sides, input : Inputs,
         ok : BOOLEAN, forced : BOOLEAN, failed : BOOLEAN, said : BOOLEAN, raised : BOOLEAN,
         status : {"none", "READY", "BLOCKED", "RAISED"}, alone : BOOLEAN]
Boxes == [state : {"none", "running", "exited"}, run : 0..MaxRuns, input : Inputs]

\* The values the state takes. Only sides that were built have a tag: the sides
\* and the preparation index image_tags by position, and the finally block
\* removes each entry.
TypeOK ==
    /\ recipe \in [prepares : BOOLEAN, reproduces : SUBSET Sides]
    /\ box \in [Names -> Boxes]
    /\ volume \in Inputs
    /\ images \subseteq (1..MaxRuns) \X Sides
    /\ job \in [Procs -> Jobs]
    /\ \A p \in Procs : At(p, "run") => job[p].tags = Sides
    /\ runs \in 0..MaxRuns /\ faults \in 0..MaxFaults

\* A READY case reproduces on both sides, whatever earlier reconstructions left
\* behind and whoever else reconstructs it. Only with a preparation does it need
\* the case for itself: a volume that two reconstructions share may be copied
\* while the other one still writes to it.
ReadyIsReproduced ==
    \A p \in Procs :
        /\ Finished(p, {"READY"})
        /\ job[p].alone \/ ~recipe.prepares
        => Sides \subseteq recipe.reproduces

\* Once a process has cleared a name, docker run finds it free, whatever a dead
\* or a failed reconstruction left: a rerun is never blocked by its predecessor.
RerunFindsNameFree ==
    \A p \in Procs : At(p, "run") /\ job[p].alone => box[job[p].at].state = "none"

\* What a reconstruction that ends without an exception leaves, with nobody else
\* at the case: if READY and without a cleanup error to report, no container and
\* no volume of the case, those of dead predecessors included, and no image of
\* its own; while docker does what it is asked, nothing of its own on any path.
OrderlyEndIsClean ==
    \A p \in Procs : LastAlone(p) =>
        /\ Finished(p, {"READY"}) /\ ~job[p].said
           => /\ \A n \in Names : box[n].state = "none"
              /\ volume = "none"
              /\ \A s \in Sides : <<job[p].run, s>> \notin images
        /\ Finished(p, {"READY", "BLOCKED"}) /\ faults = 0
           => /\ \A n \in Names : box[n].run # job[p].run
              /\ job[p].run = 1 => volume = "none"
              /\ \A s \in Sides : <<job[p].run, s>> \notin images
=============================================================================
