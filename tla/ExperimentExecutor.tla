-------------------------- MODULE ExperimentExecutor --------------------------
(***************************************************************************)
(* One call of V12ExperimentExecutor (src/radar_bench/v12_executor.py): the *)
(* preparation of an input volume, the control and the candidate side, each *)
(* in a container of its own with a tmpfs volume for its packages, and the  *)
(* cleanups, against a Docker daemon that may fail at any call, and whose   *)
(* client may be killed at a limit while the daemon is still at work.       *)
(*                                                                         *)
(* Names are random, so every container and volume is a new resource: the   *)
(* number of the run it belongs to makes it one.                            *)
(***************************************************************************)
EXTENDS Naturals

CONSTANTS
    Prep,       \* preparation steps of the recipe
    SitePhases, \* the phases whose side installs wheels into a site volume
    None,       \* no capture
    MaxFaults   \* bound: docker commands that fail, raise or are killed

Phases == {"prep", "copy", "control", "candidate"}

ASSUME RecipeAssumption ==
    Prep \in Nat /\ MaxFaults \in Nat /\ SitePhases \subseteq Phases \ {"copy"}

Captures == [ok : BOOLEAN, limit : BOOLEAN, dirty : BOOLEAN]

ASSUME CaptureAssumption == None \notin Captures

VARIABLES
    have,     \* containers and volumes of this call that exist
    coming,   \* what a killed client has asked for and may still be created
    pc, phase, step, run,
    cap,      \* what run_bounded and the cleanups report of the run in hand
    sited,    \* _run_side has named a site volume
    control, candidate, volumeCreated, raised, status, receipt,
    faults,
    phantom   \* history: a side ended without its container ever existing

vars == <<have, coming, pc, phase, step, run, cap, sited, control, candidate,
          volumeCreated, raised, status, receipt, faults, phantom>>

Input == [kind |-> "input", run |-> 0]
Site(n) == [kind |-> "site", run |-> n]
Box(n) == [kind |-> "box", run |-> n]
Resources == [kind : {"input", "site", "box"}, run : Nat]

\* The values the variables take.
TypeOK ==
    /\ have \subseteq Resources /\ coming \subseteq SUBSET Resources
    /\ pc \in {"gate", "volume", "side", "site", "run", "box", "boxFinally", "unsite",
               "left", "copy", "copyBox", "copied", "compose", "unvolume", "done"}
    /\ phase \in Phases
    /\ step \in 0..Prep /\ run \in Nat
    /\ {cap, control, candidate} \subseteq Captures \cup {None}
    /\ {sited, volumeCreated, raised, phantom} \subseteq BOOLEAN
    /\ status \in {"none", "UNAVAILABLE", "UNSUPPORTED_EXPERIMENT", "INVALID_REQUEST",
                   "COMPLETED", "OBSERVED_FAILURE"}
    /\ receipt \in {"none", "verified", "unverified"}
    /\ faults \in 0..MaxFaults

Init ==
    /\ have = {} /\ coming = {}
    /\ pc = "gate" /\ phase = "control" /\ step = 0 /\ run = 0
    /\ cap = None /\ control = None /\ candidate = None
    /\ sited = FALSE /\ volumeCreated = FALSE
    /\ raised = FALSE /\ phantom = FALSE
    /\ status = "none" /\ receipt = "none"
    /\ faults = 0

dockerVars == <<have, coming, faults>>
sideVars == <<cap, sited, run, phantom>>
callVars == <<phase, step, control, candidate, volumeCreated, status, receipt>>

-----------------------------------------------------------------------------
(* The Docker daemon, and run_bounded around one docker command *)

\* A container mounts the site volume of its run and the input volume.
Mounted == {v \in {Site(run), Input} : IF v = Input THEN volumeCreated ELSE sited}
InUse(v) == \E b \in have : b.kind = "box" /\ (v = Input \/ b.run = v.run)

Fault == faults < MaxFaults /\ faults' = faults + 1

\* What a docker command that creates r may leave: with it, r may bring more.
Created(r) == have' = have \cup {r} /\ UNCHANGED <<coming, faults>>
NotCreated == UNCHANGED <<have, coming>> /\ Fault
\* The client is killed at a limit; the daemon has created r, will, or will not.
Killed(r, with) ==
    /\ Fault
    /\ \/ have' = have \cup {r} /\ UNCHANGED coming
       \/ coming' = coming \cup {{r} \cup with} /\ UNCHANGED have
       \/ UNCHANGED <<have, coming>>

\* docker is not there or no process can be started: run_bounded raises.
Raises == raised' = TRUE /\ UNCHANGED <<have, coming>> /\ Fault

\* The daemon gets to it; a volume the container names is created with it.
Materializes(c) ==
    /\ c \in coming
    /\ coming' = coming \ {c}
    /\ have' = have \cup c
    /\ UNCHANGED <<faults, pc, raised, sideVars, callVars>>

\* _cleanup_container, verified or not: inspect, rm -f, inspect. One that raises
\* may have removed the container before.
BoxStopped == UNCHANGED dockerVars
BoxRemoved == have' = have \ {Box(run)} /\ UNCHANGED <<coming, faults>>
BoxDoubtful == have' \in {have, have \ {Box(run)}} /\ UNCHANGED coming /\ Fault

\* _cleanup_volume, verified or not: rm --force, which fails for a volume in use.
VolumeRemoved(v) == ~InUse(v) /\ have' = have \ {v} /\ UNCHANGED <<coming, faults>>
VolumeKept(v) == InUse(v) /\ UNCHANGED dockerVars
VolumeDoubtful(v) ==
    have' \in {have} \cup {h \in {have \ {v}} : ~InUse(v)} /\ UNCHANGED coming /\ Fault

-----------------------------------------------------------------------------
(* __call__ up to the first run *)

\* The episode, the recipe, the artifacts, docker and the request are looked at.
Declines ==
    /\ pc = "gate"
    /\ pc' = "done"
    /\ status' \in {"UNAVAILABLE", "UNSUPPORTED_EXPERIMENT", "INVALID_REQUEST"}
    /\ UNCHANGED <<dockerVars, raised, sideVars, phase, step, control, candidate,
                   volumeCreated, receipt>>

Begins ==
    /\ pc = "gate"
    /\ pc' = IF Prep > 0 THEN "volume" ELSE "side"
    /\ phase' = IF Prep > 0 THEN "prep" ELSE "control"
    /\ UNCHANGED <<dockerVars, raised, sideVars, step, control, candidate,
                   volumeCreated, status, receipt>>

\* A create that does not exit with 0 is taken for one that has created nothing.
MakesVolume ==
    /\ pc = "volume"
    /\ \/ /\ Created(Input)
          /\ volumeCreated' = TRUE /\ step' = 1
          /\ pc' = "side"
          /\ UNCHANGED <<raised, status>>
       \/ /\ NotCreated \/ Killed(Input, {})
          /\ status' = "UNAVAILABLE" /\ pc' = "unvolume"
          /\ UNCHANGED <<raised, volumeCreated, step>>
       \/ /\ Raises
          /\ pc' = "unvolume"
          /\ UNCHANGED <<status, volumeCreated, step>>
    /\ UNCHANGED <<sideVars, phase, control, candidate, receipt>>

-----------------------------------------------------------------------------
(* _run_side *)

EntersSide ==
    /\ pc = "side"
    /\ run' = run + 1
    /\ cap' = None
    /\ sited' = (phase \in SitePhases)
    /\ pc' = IF sited' THEN "site" ELSE "run"
    /\ UNCHANGED <<dockerVars, raised, phantom, callVars>>

\* A preparation step that is not well-formed ends the preparation.
RejectsStep ==
    /\ pc = "side" /\ phase = "prep"
    /\ pc' = "unvolume" /\ status' = "UNAVAILABLE"
    /\ UNCHANGED <<dockerVars, raised, sideVars, phase, step, control, candidate,
                   volumeCreated, receipt>>

MakesSite ==
    /\ pc = "site"
    /\ \/ Created(Site(run)) /\ pc' = "run" /\ UNCHANGED raised
       \/ (NotCreated \/ Killed(Site(run), {})) /\ pc' = "unsite" /\ UNCHANGED raised
       \/ Raises /\ pc' = "unsite"
    /\ UNCHANGED <<sideVars, callVars>>

\* The recipe gives no command or no arguments for this side.
HasNoCommand ==
    /\ pc = "run"
    /\ pc' = "unsite"
    /\ UNCHANGED <<dockerVars, raised, sideVars, callVars>>

\* A recipe may be raised at: its packages are no list, or it declares wheels and
\* normalize_python_command refuses the command of a preparation step, which only
\* the commands of the two sides have passed before.
RecipeRaises ==
    /\ \/ pc = "side" /\ pc' = "unvolume"
       \/ pc = "run" /\ phase = "prep" /\ sited /\ pc' = "unsite"
    /\ raised' = TRUE
    /\ UNCHANGED <<dockerVars, sideVars, callVars>>

Capture(ok, limit, dirty) == cap' = [ok |-> ok, limit |-> limit, dirty |-> dirty]

\* docker run ends by itself, with or without a limit noticed at the end; it
\* cannot create the container and exits with 125; or it is killed at a limit.
RunEnds ==
    \/ /\ Created(Box(run))
       /\ \E ok, limit \in BOOLEAN : Capture(ok, limit, FALSE)
       /\ UNCHANGED phantom
    \/ /\ UNCHANGED dockerVars
       /\ Capture(FALSE, FALSE, FALSE)
       /\ phantom' = (phantom \/ phase \in {"control", "candidate"})
    \/ /\ Killed(Box(run), Mounted)
       /\ \E dirty \in BOOLEAN : Capture(FALSE, TRUE, dirty)
       /\ UNCHANGED phantom

Runs ==
    /\ pc = "run"
    /\ \/ RunEnds /\ pc' = "box" /\ UNCHANGED raised
       \/ Raises /\ pc' = "boxFinally" /\ UNCHANGED <<cap, phantom>>
    /\ UNCHANGED <<sited, run, callVars>>

Dirty == [cap EXCEPT !.dirty = TRUE]
DirtIgnored == cap

\* A cleanup that is not verified marks the capture; one that raises is made
\* again by the finally block, which loses the capture.
CleansBox ==
    /\ pc = "box"
    /\ \/ BoxRemoved /\ pc' = "unsite" /\ UNCHANGED <<cap, raised>>
       \/ BoxDoubtful /\ cap' = Dirty /\ pc' = "unsite" /\ UNCHANGED raised
       \/ BoxDoubtful /\ raised' = TRUE /\ cap' = None /\ pc' = "boxFinally"
    /\ UNCHANGED <<sited, run, phantom, callVars>>

\* If this raises too, the site volume is not looked after.
CleansBoxFinally ==
    /\ pc = "boxFinally"
    /\ \/ (BoxRemoved \/ BoxDoubtful) /\ pc' = "unsite" /\ UNCHANGED raised
       \/ BoxDoubtful /\ raised' = TRUE /\ pc' = "left"
    /\ UNCHANGED <<sideVars, callVars>>

RemovesSite ==
    /\ pc = "unsite"
    /\ pc' = "left"
    /\ \/ ~sited /\ UNCHANGED <<dockerVars, cap, raised>>
       \/ sited /\ VolumeRemoved(Site(run)) /\ UNCHANGED <<cap, raised>>
       \/ /\ sited
          /\ VolumeKept(Site(run)) \/ VolumeDoubtful(Site(run))
          /\ cap' = IF cap = None THEN None ELSE Dirty
          /\ UNCHANGED raised
       \/ sited /\ VolumeDoubtful(Site(run)) /\ raised' = TRUE /\ UNCHANGED cap
    /\ UNCHANGED <<sited, run, phantom, callVars>>

-----------------------------------------------------------------------------
(* __call__ after a run *)

ExitCodeOnly(c) == c # None /\ c.ok
Succeeded(c) == c # None /\ c.ok /\ ~c.dirty

LimitsOnly(c) == ~c.limit
Complete(c) == ~c.limit /\ ~c.dirty

GivesUp ==
    /\ pc' = "unvolume"
    /\ status' = "UNAVAILABLE"
    /\ UNCHANGED <<step, phase, control, candidate, receipt>>

MoreSteps == step < Prep

PreparationEnds ==
    /\ pc = "left" /\ ~raised /\ phase = "prep"
    /\ \/ ~Succeeded(cap) /\ GivesUp /\ UNCHANGED sideVars
       \/ /\ Succeeded(cap) /\ MoreSteps
          /\ step' = step + 1 /\ pc' = "side"
          /\ UNCHANGED <<phase, status, control, candidate, receipt, sideVars>>
       \/ /\ Succeeded(cap) /\ ~MoreSteps
          /\ phase' = "copy" /\ pc' = "copy"
          /\ run' = run + 1 /\ cap' = None /\ sited' = FALSE
          /\ UNCHANGED <<step, status, control, candidate, receipt, phantom>>
    /\ UNCHANGED <<dockerVars, raised, volumeCreated>>

\* _copy_volume_to_staging has no finally: if it raises, its container stays.
Copies ==
    /\ pc = "copy"
    /\ \/ UNCHANGED <<dockerVars, cap, phantom, raised>> /\ pc' = "copied"
       \/ RunEnds /\ pc' = "copyBox" /\ UNCHANGED raised
       \/ Raises /\ pc' = "unvolume" /\ UNCHANGED <<cap, phantom>>
    /\ UNCHANGED <<sited, run, callVars>>

CleansCopy ==
    /\ pc = "copyBox"
    /\ \/ BoxRemoved /\ pc' = "copied" /\ UNCHANGED <<cap, raised>>
       \/ BoxDoubtful /\ cap' = Dirty /\ pc' = "copied" /\ UNCHANGED raised
       \/ BoxDoubtful /\ raised' = TRUE /\ pc' = "unvolume" /\ UNCHANGED cap
    /\ UNCHANGED <<sited, run, phantom, callVars>>

\* The copy failed, the audit of the prepared files fails, or both sides may run.
CopyEnds ==
    /\ pc = "copied"
    /\ \/ GivesUp
       \/ /\ Succeeded(cap)
          /\ phase' = "control" /\ pc' = "side"
          /\ UNCHANGED <<step, status, control, candidate, receipt>>
    /\ UNCHANGED <<dockerVars, raised, sideVars, volumeCreated>>

SideEnds ==
    /\ pc = "left" /\ ~raised
    /\ \/ /\ phase = "control"
          /\ control' = cap /\ phase' = "candidate" /\ pc' = "side"
          /\ UNCHANGED candidate
       \/ /\ phase = "candidate"
          /\ candidate' = cap /\ pc' = "compose"
          /\ UNCHANGED <<control, phase>>
    /\ UNCHANGED <<dockerVars, raised, sideVars, step, status, volumeCreated, receipt>>

Unwinds ==
    /\ pc = "left" /\ raised
    /\ pc' = "unvolume"
    /\ UNCHANGED <<dockerVars, raised, sideVars, callVars>>

RefusalIsUnavailable ==
    IF phantom THEN "UNAVAILABLE" ELSE IF candidate.ok THEN "COMPLETED" ELSE "OBSERVED_FAILURE"
\* Docker's refusal to create a container is not told from a failing program.
Observation == IF candidate.ok THEN "COMPLETED" ELSE "OBSERVED_FAILURE"

\* The result and the receipt of two captures; without both there is neither.
Composes ==
    /\ pc = "compose"
    /\ pc' = "unvolume"
    /\ IF None \in {control, candidate}
       THEN status' = "UNAVAILABLE" /\ UNCHANGED receipt
       ELSE /\ status' = Observation
            /\ receipt' = IF Complete(control) /\ Complete(candidate)
                          THEN "verified" ELSE "unverified"
    /\ UNCHANGED <<dockerVars, raised, sideVars, phase, step, control, candidate,
                   volumeCreated>>

\* The finally block of __call__. A volume that may still be there makes the
\* result UNAVAILABLE, which has no receipt.
RemovesVolume ==
    /\ pc = "unvolume"
    /\ pc' = "done"
    /\ \/ ~volumeCreated /\ UNCHANGED <<dockerVars, raised, status, receipt>>
       \/ volumeCreated /\ VolumeRemoved(Input) /\ UNCHANGED <<raised, status, receipt>>
       \/ /\ volumeCreated
          /\ VolumeKept(Input) \/ VolumeDoubtful(Input)
          /\ status' = "UNAVAILABLE" /\ receipt' = "none"
          /\ UNCHANGED raised
       \/ /\ volumeCreated /\ VolumeDoubtful(Input) /\ raised' = TRUE
          /\ UNCHANGED <<status, receipt>>
    /\ UNCHANGED <<sideVars, phase, step, control, candidate, volumeCreated>>

-----------------------------------------------------------------------------
Next ==
    \/ Declines \/ Begins \/ MakesVolume
    \/ EntersSide \/ RejectsStep \/ MakesSite \/ HasNoCommand \/ RecipeRaises \/ Runs
    \/ CleansBox \/ CleansBoxFinally \/ RemovesSite \/ PreparationEnds \/ Copies \/ CleansCopy \/ CopyEnds
    \/ SideEnds \/ Unwinds \/ Composes \/ RemovesVolume
    \/ \E c \in coming : Materializes(c)

Spec == Init /\ [][Next]_vars

-----------------------------------------------------------------------------
(* What a call guarantees *)

Returned == pc = "done" /\ ~raised

\* A receipt that claims a verified cleanup is right: no container and no volume
\* of this call exists, and none is still to come.
VerifiedIsClean ==
    Returned /\ receipt = "verified" => have = {} /\ coming = {}

\* Control and candidate see the same prepared input: while either may run, the
\* volume is there, and no container of the preparation can still write to it.
PreparedInputIsSettled ==
    pc = "run" /\ Prep > 0 /\ phase \in {"control", "candidate"} =>
        /\ Input \in have
        /\ \A n \in 1..(Prep + 1) : Box(n) \notin have \cup UNION coming

\* When docker does what it is asked, a call leaves nothing behind, whether it
\* returns a result, ends early or raises at its recipe. If docker fails once, an
\* exception still leaves no container: a cleanup that raises is made again by the
\* finally block around it. Only the copy has no such block, and a control that
\* was killed or not cleaned up may leave its own.
FailuresAreContained ==
    pc = "done" =>
        /\ faults = 0 => have = {} /\ coming = {}
        /\ (raised /\ faults = 1 /\ phase # "copy"
              /\ (phase = "candidate" => control # None /\ Complete(control)))
             => coming = {} /\ \A r \in have : r.kind # "box"

\* A side whose container docker refused to create, because its platform or its
\* image is missing, is an observation like any other: if both sides have a
\* command and neither hits a limit, the result is no UNAVAILABLE, and its
\* receipt says fresh and verified, even where the control never ran.
RefusedLooksObserved ==
    /\ Returned /\ phantom /\ faults = 0
    /\ None \notin {control, candidate} /\ ~control.limit /\ ~candidate.limit
    => status \in {"COMPLETED", "OBSERVED_FAILURE"} /\ receipt = "verified"
=============================================================================
