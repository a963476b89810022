--------------------------- MODULE HermeticExecutor ---------------------------
(***************************************************************************)
(* HermeticExecutor.execute and _run_side (src/radar_bench/execution/       *)
(* v07.py): a request for a sealed case runs its control and its candidate  *)
(* command in a container each, and the exit codes become a response.       *)
(*                                                                         *)
(* Every docker command is one action: the daemon keeps the containers, and *)
(* it serves others too. A container's name is a digest of case and side    *)
(* only, so an evaluation of the same suite started by somebody else (the   *)
(* rival) uses the same names. At most MaxFaults times does docker fail or  *)
(* the rival step in.                                                       *)
(***************************************************************************)
EXTENDS Naturals, FiniteSets, Sequences

CONSTANTS
    Twins,      \* the safety cases of the runtime manifest
    MaxFaults   \* bound: failures of docker and steps of the rival

ASSUME FaultsAssumption == MaxFaults \in Nat

Sides == {"control", "candidate"}
Nobody == "nobody"
NotRun == "not run"
Error == "EXECUTION_ERROR"

VARIABLES
    box,      \* the containers of the daemon: whose is the one of that name?
    job,      \* the twin whose request is executed
    step,     \* where _run_side stands
    side,     \* the side it runs
    capture,  \* what run_bounded returned for docker run
    verdict,  \* sides: Error, or the return code of a COMPLETED side
    fate,     \* history: sides: what became of the container
    faults    \* bound: failures so far

hermeticVars == <<box, job, step, side, capture, verdict, fate, faults>>

Names == Twins \X Sides
Name == <<job, side>>
Whole == "whole"
Cuts == {"TIMEOUT", "OUTPUT_LIMIT_EXCEEDED", "OSError"}
Codes == {"0", "1", "125", "137"}   \* the command's own, docker's refusal, SIGKILL

HermeticTypeOK ==
    /\ box \in [Names -> {"none", "ours", "rival"}]
    /\ job \in Twins \cup {Nobody}
    /\ step \in {"idle", "which", "rmBefore", "psBefore", "run", "attached", "rmAfter",
                 "psAfter", "respond", "escaped"}
    /\ side \in Sides
    /\ capture \in [code : Codes, ended : Cuts \cup {Whole}]
    /\ verdict \in [Sides -> Codes \cup {Error, NotRun}]
    /\ fate \in [Sides -> {NotRun, "ended", "refused", "removed", "cut"}]
    /\ faults \in 0..MaxFaults

NoCapture == [code |-> "0", ended |-> Whole]
EachSide(v) == [s \in Sides |-> v]

HermeticInit ==
    /\ box = [n \in Names |-> "none"]
    /\ job = Nobody /\ step = "idle" /\ side = "control"
    /\ capture = NoCapture /\ verdict = EachSide(NotRun) /\ fate = EachSide(NotRun)
    /\ faults = 0

Fails == faults < MaxFaults /\ faults' = faults + 1
Works == UNCHANGED faults

\* A valid request for a sealed case.
Executes(t) ==
    /\ step = "idle"
    /\ job' = t /\ step' = "which" /\ side' = "control"
    /\ UNCHANGED <<box, capture, verdict, fate, faults>>

\* The side is settled: the candidate's turn, or the response's.
Settles(v) ==
    /\ verdict' = [verdict EXCEPT ![side] = v]
    /\ capture' = NoCapture
    /\ IF side = "control" THEN side' = "candidate" /\ step' = "which"
                           ELSE step' = "respond" /\ UNCHANGED side

Finds ==
    /\ step = "which"
    /\ \/ step' = "rmBefore" /\ Works /\ UNCHANGED <<side, capture, verdict>>
       \/ Fails /\ Settles(Error)   \* DOCKER_NOT_FOUND
    /\ UNCHANGED <<box, job, fate>>

-----------------------------------------------------------------------------
(* _cleanup_container: rm --force, whatever it returns, then ps *)

Removes ==
    /\ step \in {"rmBefore", "rmAfter"}
    /\ step' = IF step = "rmBefore" THEN "psBefore" ELSE "psAfter"
    /\ \/ box' = [box EXCEPT ![Name] = "none"] /\ Works
       \/ Fails /\ UNCHANGED box
    /\ UNCHANGED <<job, side, capture, verdict, fate>>

\* docker cannot be started: nothing catches the OSError of a cleanup.
Escapes ==
    /\ step \in {"rmBefore", "psBefore", "rmAfter", "psAfter"} /\ Fails
    /\ step' = "escaped"
    /\ UNCHANGED <<box, job, side, capture, verdict, fate>>

Verified == box[Name] = "none" /\ Works
Unverified == (box[Name] # "none" /\ Works) \/ Fails

InspectsBefore ==
    /\ step = "psBefore"
    /\ \/ Verified /\ step' = "run" /\ UNCHANGED <<side, capture, verdict>>
       \/ Unverified /\ Settles(Error)
    /\ UNCHANGED <<box, job, fate>>

\* The order of the tests after docker run.
UnlimitedJudgement == IF capture.ended = "OSError" THEN Error ELSE capture.code
Judgement == IF capture.ended # Whole THEN Error ELSE capture.code

InspectsAfter ==
    /\ step = "psAfter"
    /\ \/ Verified /\ Settles(Judgement)
       \/ Unverified /\ Settles(Error)
    /\ UNCHANGED <<box, job, fate>>

-----------------------------------------------------------------------------
(* docker run *)

Ran(code, ended, f) ==
    /\ capture' = [code |-> code, ended |-> ended]
    /\ fate' = [fate EXCEPT ![side] = f]
    /\ step' = "rmAfter"
    /\ UNCHANGED <<job, side, verdict>>

Launches ==
    /\ step = "run" /\ box[Name] = "none"
    /\ box' = [box EXCEPT ![Name] = "ours"] /\ step' = "attached"
    /\ UNCHANGED <<job, side, capture, verdict, fate, faults>>

\* The name is taken, or the daemon has another reason: docker exits with 125.
Refuses ==
    /\ step = "run"
    /\ Ran("125", Whole, "refused")
    /\ IF box[Name] # "none" THEN Works ELSE Fails
    /\ UNCHANGED box

FailsToRun == step = "run" /\ Fails /\ Ran("0", "OSError", NotRun) /\ UNCHANGED box

\* The command ends, and --rm takes the container away unless the daemon fails.
Ends(code) ==
    /\ step = "attached" /\ box[Name] = "ours"
    /\ Ran(code, Whole, "ended")
    /\ \/ box' = [box EXCEPT ![Name] = "none"] /\ Works
       \/ Fails /\ UNCHANGED box

\* A limit: the client of docker is killed, the container goes on.
IsCut(limit) ==
    /\ step = "attached" /\ Fails
    /\ Ran("137", limit, "cut")
    /\ UNCHANGED box

\* The container was removed by force: the client reports SIGKILL.
IsRemoved ==
    /\ step = "attached" /\ box[Name] # "ours"
    /\ Ran("137", Whole, "removed")
    /\ UNCHANGED <<box, faults>>

-----------------------------------------------------------------------------
(* The rival's _cleanup_container and docker run for the side at work. *)

RivalRemoves ==
    /\ step \notin {"idle", "escaped", "respond"} /\ box[Name] # "none" /\ Fails
    /\ box' = [box EXCEPT ![Name] = "none"]
    /\ UNCHANGED <<job, step, side, capture, verdict, fate>>

RivalLaunches ==
    /\ step \notin {"idle", "escaped", "respond"} /\ box[Name] = "none" /\ Fails
    /\ box' = [box EXCEPT ![Name] = "rival"]
    /\ UNCHANGED <<job, step, side, capture, verdict, fate>>

-----------------------------------------------------------------------------
(* The response *)

NoResult == [status |-> Error, outcome |-> "none", useful |-> FALSE, induced |-> "none"]

\* Outcome of two exit codes; candidate_induced is None ("none"), True or False.
Observed(control, candidate) ==
    [status |-> "COMPLETED",
     outcome |-> IF control # "0" THEN "BASELINE_NOT_STABLE"
                 ELSE IF candidate # "0" THEN "CANDIDATE_SPECIFIC"
                 ELSE "NO_DISTINGUISHING_EFFECT",
     useful |-> (control = "0") # (candidate = "0"),
     induced |-> IF control # "0" THEN "none" ELSE IF candidate # "0" THEN "yes" ELSE "no"]

Response ==
    IF Error \in {verdict[s] : s \in Sides} THEN NoResult
    ELSE Observed(verdict["control"], verdict["candidate"])

\* All that a request may bring.
Responses == {NoResult} \cup {Observed(a, b) : a \in Codes, b \in Codes}

\* The caller has its response.
Returned ==
    /\ step = "respond"
    /\ job' = Nobody /\ step' = "idle" /\ side' = "control"
    /\ verdict' = EachSide(NotRun) /\ fate' = EachSide(NotRun)
    /\ UNCHANGED <<box, capture, faults>>

Docker ==
    \/ Finds \/ Removes \/ Escapes \/ InspectsBefore \/ InspectsAfter
    \/ Launches \/ Refuses \/ FailsToRun
    \/ \E code \in {"0", "1"} : Ends(code)
    \/ \E limit \in {"TIMEOUT", "OUTPUT_LIMIT_EXCEEDED"} : IsCut(limit)
    \/ IsRemoved

Rival == RivalRemoves \/ RivalLaunches

\* A side that counts as COMPLETED went to its own end, or docker or the rival
\* ended it and its code says so; and whatever of ours is left behind once both
\* sides are settled belongs to a side that counts as an error.
SidesAreAccounted ==
    /\ \A s \in Sides :
         verdict[s] \in Codes =>
             /\ fate[s] \in {"ended", "refused", "removed"}
             /\ verdict[s] \in {"0", "1"} <=> fate[s] = "ended"
    /\ step = "respond" =>
         \A s \in Sides : box[<<job, s>>] = "ours" => verdict[s] = Error
=============================================================================
