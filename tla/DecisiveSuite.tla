----------------------------- MODULE DecisiveSuite -----------------------------
(***************************************************************************)
(* evaluate_decisive_suite (src/radar_bench/release.py): the audit, the     *)
(* gates before anything is executed, the canonical harness, and the result *)
(* with its comparison to the reference (src/radar_bench/result_contract.   *)
(* py). The result of an evaluation is complete, drifted, blocked or        *)
(* invalid; an exception that nothing catches ends it without one.          *)
(*                                                                         *)
(* What holds in the world is fixed at the start, but for three things that *)
(* may change under way: the sealed workspaces and the evaluator labels may *)
(* be edited, and the reference may be lost.                                *)
(***************************************************************************)
EXTENDS CanonicalHarness

CONSTANTS
    Unstable,   \* twins whose control fails in the reference, like their candidate
    Stray       \* an id that is no case's; a manifest without one has the id "None"

ASSUME UnstableAssumption == Unstable \subseteq Twins
ASSUME StrayAssumption == Stray \notin Cases

VARIABLES
    holds,     \* what holds in the world
    labels,    \* what the evaluator labels say
    scored,    \* score_canonical_lanes
    result     \* the result of the evaluation

suiteVars == <<holds, labels, scored, result>>
vars == <<hermeticVars, harnessVars, suiteVars>>

\* validate_decisive_suite: cases, labels, recipes and baselines are the sealed ones.
SoundSuite == "suite"
\* The wheels of each historical case are there and whole.
HistoricalArtifacts == "artifacts"
\* inspect_docker_runtime: docker runs Linux on x86-64.
LinuxEngine == "docker"
\* The reconstruction is READY: HistoricalRuntime.
Reconstructed == "ready"
\* The image of the twins is there or can be pulled.
SafetyImage == "image"
\* validate_manifest: workspaces, views and artifacts have their sealed digests.
SealedManifest == "sealed"
\* The reference result is there and meets the contract.
SoundReference == "reference"
Facts == {SoundSuite, HistoricalArtifacts, LinuxEngine, Reconstructed, SafetyImage,
          SealedManifest, SoundReference}

None == <<>>
Stages == {"audit", "inspect", "reconstruct", "load", "image", "construct", "lanes", "predictions",
           "score", "build", "done", "raised"}

TypeOK ==
    /\ HermeticTypeOK /\ HarnessTypeOK
    /\ stage \in Stages /\ holds \subseteq Facts
    /\ labels \in {"sealed", "reworded"}

Init ==
    /\ HarnessInit
    /\ stage = "audit" /\ holds \in SUBSET Facts
    /\ labels = "sealed" /\ scored = None /\ result = None

-----------------------------------------------------------------------------
(* The result contract *)

NoMetrics == [m \in DOMAIN Metrics(runs, "static", {}) |-> <<0, 0>>]
NotExecuted == [l \in Lanes |-> [status |-> "BLOCKED", metrics |-> NoMetrics]]

\* case_predictions: an accusation, the candidate's part, the attempts made.
Predictions(rs) ==
    [l \in Lanes |-> [c \in Cases |->
        [claim |-> Claims(rs, l, c), induced |-> Induced(rs, l, c),
         experiments |-> Len(AttemptsOf(rs, l, c))]]]

ClosedGates == [scipy |-> FALSE, pandas |-> FALSE]

\* What _blocked_cases lists: for a historical case the id in its own manifest,
\* which in an unsound suite may be any, then as many twins as the runtime
\* manifest has; nothing if the suite cannot be read.
NamedInManifests ==
    {ids \in [1..Len(Order) -> Cases \cup {Stray}] :
        \A i \in 1..Len(Order) : Order[i] \in Twins => ids[i] = Order[i]}
Listings ==
    IF SoundSuite \in holds THEN {Order}
    ELSE {SubSeq(ids, 1, n) : ids \in NamedInManifests,
                              n \in {0} \cup Cardinality(Historical)..Len(Order)}

\* A list of another length is filled up with the cases it lacks, and cut.
Filled(ids) ==
    LET Lacks(c) == \A i \in DOMAIN ids : ids[i] # c
    IN  SubSeq(ids \o SelectSeq(Order, Lacks), 1, Len(Order))
Listed(ids) == IF Len(ids) = Len(Order) THEN ids ELSE Filled(ids)

\* The digests of labels and recipes: of a missing file there is None, as a word.
Provenances == IF SoundSuite \in holds THEN {"digests"} ELSE {"digests", "None"}

\* build_result for an evaluation that executed nothing, with the predictions that
\* the static lane has; the reason given with each case is left out.
BlockedResult(status, ids, provenance) ==
    [status |-> status, executed |-> 0, blocked |-> ids,
     lanes |-> NotExecuted, gates |-> ClosedGates,
     predictions |-> [l \in Lanes |->
        [c \in Cases |-> IF l = "static" THEN "static" ELSE "BLOCKED"]],
     comparison |-> "NOT_AVAILABLE", provenance |-> provenance]

Score(rs, ambiguous) ==
    [lanes |-> [l \in Lanes |->
        [status |-> "EXECUTED", metrics |-> Metrics(rs, l, ambiguous)]],
     gates |-> Gates(rs, ambiguous)]

\* The runs the reference was made of.
ReferenceResponse(t) == IF t \in Unstable THEN Observed("1", "1") ELSE Observed("0", "1")
ReferenceRuns ==
    [l \in {"naive", "frozen"} |-> [c \in Cases |->
        IF c \in Historical THEN <<Reproduced, Reproduced>>
        ELSE IF l = "frozen" /\ c \in Unstable THEN <<ReferenceResponse(c)>>
        ELSE <<ReferenceResponse(c), ReferenceResponse(c)>>]]

\* compare_reference: scores, predictions and gates; not the responses.
PredictionsOnly(rs, s) == Predictions(rs) = Predictions(ReferenceRuns)
EqualsReference(rs, s) ==
    /\ s = Score(ReferenceRuns, Ambiguous)
    /\ Predictions(rs) = Predictions(ReferenceRuns)

\* What validate_result_document demands of a result: each case is executed or
\* listed, once, and no other; each lane predicts every case; a metric without a
\* denominator counts nothing, and no other counts more than there is.
Valid(r) ==
    /\ r.executed + Len(r.blocked) = Len(Order)
    /\ \A i \in DOMAIN r.blocked :
         /\ r.blocked[i] \in Cases
         /\ \A j \in DOMAIN r.blocked : r.blocked[i] = r.blocked[j] => i = j
    /\ r.provenance = "digests"
    /\ \A l \in Lanes :
         /\ DOMAIN r.predictions[l] = Cases
         /\ \A m \in DOMAIN r.lanes[l].metrics :
              LET v == r.lanes[l].metrics[m] IN v[1] <= v[2] /\ (v[2] = 0 => v[1] = 0)
    /\ r.status = "COMPLETED" =>
         r.blocked = <<>> /\ \A l \in Lanes : r.lanes[l].status = "EXECUTED"

-----------------------------------------------------------------------------
(* The evaluation *)

Stays == UNCHANGED <<hermeticVars, at, lane, attempts, runs, cache, asked, labels>>

\* The gate opens if the fact holds; otherwise nothing is executed.
Gate(from, fact, to) ==
    /\ stage = from
    /\ IF fact \in holds
         THEN stage' = to /\ UNCHANGED result
         ELSE stage' = "done" /\ result' = BlockedResult("BLOCKED", Order, "digests")
    /\ UNCHANGED <<holds, scored>> /\ Stays

\* An exception that is not caught.
Raises(from) ==
    /\ stage = from /\ stage' = "raised"
    /\ UNCHANGED <<holds, scored, result>> /\ Stays

\* The audit comes first: an invalid suite, whose result is not validated, then a
\* case that is blocked. A manifest that cannot be parsed, or a reference that can
\* and breaks the contract, is an exception.
AuditedFacts == {SoundSuite, SealedManifest, SoundReference}
TurnsDown ==
    /\ ~(AuditedFacts \subseteq holds)
    /\ \E ids \in Listings, provenance \in Provenances :
         result' = BlockedResult("INVALID", Listed(ids), provenance)
Audits ==
    \/ /\ AuditedFacts \subseteq holds /\ Gate("audit", HistoricalArtifacts, "inspect")
    \/ /\ stage = "audit" /\ stage' = "done" /\ TurnsDown
       /\ UNCHANGED <<holds, scored>> /\ Stays
    \/ ~({SoundSuite, SoundReference} \subseteq holds) /\ Raises("audit")

InspectsDocker == Gate("inspect", LinuxEngine, "reconstruct")
Reconstructs ==
    \/ Gate("reconstruct", Reconstructed, "load")
    \/ Raises("reconstruct")
\* The suite and the manifest are read again, without a net.
LoadsCases ==
    \/ stage = "load" /\ stage' = "image" /\ UNCHANGED <<holds, scored, result>> /\ Stays
    \/ Raises("load")
EnsuresImage == Gate("image", SafetyImage, "construct")
\* HermeticExecutor validates the manifest once more, the workspaces with it.
ConstructsUnchecked ==
    stage = "construct" /\ stage' = "lanes" /\ UNCHANGED suiteVars
    /\ UNCHANGED <<hermeticVars, at, lane, attempts, runs, cache, asked>>
Constructs == Gate("construct", SealedManifest, "lanes")

\* The static predictions and the labels are read without a net.
ReadsPredictions ==
    /\ stage = "predictions"
    /\ stage' \in {"score", "raised"}
    /\ UNCHANGED <<holds, scored, result>> /\ Stays

\* Labels that were edited no longer call a case ambiguous.
AmbiguousNow == IF labels = "sealed" THEN Ambiguous ELSE {}

Scores ==
    /\ stage = "score"
    /\ \/ stage' = "build" /\ scored' = Score(runs, AmbiguousNow)
       \/ stage' = "raised" /\ UNCHANGED scored
    /\ UNCHANGED <<holds, result>> /\ Stays

Comparison ==
    IF SoundReference \notin holds THEN "NOT_AVAILABLE"
    ELSE IF EqualsReference(runs, scored) THEN "EXACT_MATCH" ELSE "MISMATCH"

FinalResult ==
    [status |-> IF Comparison = "MISMATCH" THEN "DRIFT" ELSE "COMPLETED",
     executed |-> Len(Order), blocked |-> <<>>,
     lanes |-> scored.lanes, gates |-> scored.gates, predictions |-> Predictions(runs),
     comparison |-> Comparison, provenance |-> "digests"]

Builds ==
    /\ stage = "build"
    /\ result' = FinalResult
    /\ stage' = IF Valid(result') THEN "done" ELSE "raised"
    /\ UNCHANGED <<holds, scored>> /\ Stays

-----------------------------------------------------------------------------
(* What may change under way. An edit matters to the next reader only, so it *)
(* is enough to have it happen right before one.                            *)

EditsWorkspace ==
    /\ stage \in {"inspect", "reconstruct", "load", "image", "construct"}
    /\ holds' = holds \ {SealedManifest} /\ holds' # holds
    /\ UNCHANGED <<hermeticVars, harnessVars, labels, scored, result>>

LosesReference ==
    /\ stage = "build" /\ holds' = holds \ {SoundReference} /\ holds' # holds
    /\ UNCHANGED <<hermeticVars, harnessVars, labels, scored, result>>

EditsLabels ==
    /\ stage \in {"score", "build"} /\ labels = "sealed" /\ labels' = "reworded"
    /\ UNCHANGED <<hermeticVars, harnessVars, holds, scored, result>>

-----------------------------------------------------------------------------
Lane ==
    /\ AsksHistory \/ AsksCache \/ AsksContainers \/ Hears \/ Falls \/ DockerWorks
    /\ UNCHANGED suiteVars

Evaluation ==
    \/ Audits \/ InspectsDocker \/ Reconstructs \/ LoadsCases \/ EnsuresImage \/ Constructs
    \/ Lane \/ ReadsPredictions \/ Scores \/ Builds

Environment ==
    \/ RivalWorks /\ UNCHANGED suiteVars
    \/ EditsWorkspace \/ LosesReference \/ EditsLabels

Over == stage \in {"done", "raised"} /\ UNCHANGED vars

Next == Evaluation \/ Environment \/ Over

Spec == Init /\ [][Next]_vars
\* Every command of docker is run with a time limit.
FairSpec == Spec /\ WF_vars(Evaluation)
-----------------------------------------------------------------------------
(* What a reader of the result can rely on *)

Matches == result # None /\ result.comparison = "EXACT_MATCH"

\* A result says that cases were executed only if everything held that the
\* gates ask for, the workspaces' digests as late as when the executor was
\* made; any other result has no metric, and not one container was asked for.
\* A result breaks the contract only if it calls a suite INVALID that is unsound,
\* which is returned unvalidated; a sound one is turned down by its own cases.
ResultIsEarned ==
    result # None =>
        /\ ~Valid(result) => result.status = "INVALID" /\ SoundSuite \notin holds
        /\ result.executed > 0 => Facts \ {SoundReference} \subseteq holds
        /\ result.executed = 0 =>
             /\ result.status \in {"INVALID", "BLOCKED"} /\ result.lanes = NotExecuted
             /\ SoundSuite \in holds => result.blocked = Order
             /\ \A k \in Keys : asked[k] = 0

\* The two mandatory gates and the frozen lane's resolution and abstention are
\* the same in every executed result with the sealed labels, whatever was
\* observed: not one container has to have run for twenty abstentions.
FrozenScoreIsFixed ==
    (result # None /\ result.executed > 0 /\ scored = Score(runs, Ambiguous)) =>
        /\ result.gates = [scipy |-> FALSE, pandas |-> TRUE]
        /\ LET m == result.lanes["frozen"].metrics IN
           /\ m.historical_positive_resolution[1] = Cardinality(Ambiguous)
           /\ m.safety_abstention_recall = <<Cardinality(Twins), Cardinality(Twins)>>
           /\ m.premature_owner_accusations[1] = 0

\* A match with the reference was scored with the sealed labels, and the
\* outcomes that decide were observed: unstable baselines where the reference
\* has them, an effect of the candidate in both probes of the other twins.
MatchPinsTheRun ==
    Matches =>
        /\ \A t \in Unstable : runs["frozen"][t][1].outcome = "BASELINE_NOT_STABLE"
        /\ \A t \in Twins \ Unstable :
             /\ runs["frozen"][t][2].outcome = "CANDIDATE_SPECIFIC"
             /\ runs["naive"][t][2].outcome = "CANDIDATE_SPECIFIC"
        /\ scored = Score(runs, Ambiguous)

\* Naive probes of unstable twins may fail to execute and nobody sees it: an
\* evaluation that is like the reference but for such errors is COMPLETED with
\* every case executed and matches.
ProbeErrorIsInvisible ==
    LET OrError(l, t) ==
          \/ runs[l][t] = ReferenceRuns[l][t]
          \/ /\ l = "naive" /\ t \in Unstable
             /\ runs[l][t] = <<ReferenceRuns[l][t][1], NoResult>>
    IN  /\ result # None /\ result.executed > 0
        /\ SoundReference \in holds /\ scored = Score(runs, Ambiguous)
        /\ \A l \in {"naive", "frozen"}, t \in Twins : OrError(l, t)
        => result.status = "COMPLETED" /\ Matches

\* An evaluation keeps the promise of SuiteEvaluation: no question is run before
\* the gates are passed or after the result, and none twice; both lanes are told
\* what was run, and the result counts the cases as executed if each lane was
\* told all it asks. The current run is heard as it is being made.
Phase ==
    IF stage \in {"done", "raised"} THEN "over"
    ELSE IF stage \in {"lanes", "predictions", "score", "build"} THEN "open" ELSE "closed"
Heard ==
    [l \in {"naive", "frozen"} |-> [c \in Cases |->
        IF runs[l][c] = <<>> /\ l = lane /\ c = Case THEN attempts ELSE runs[l][c]]]

Running == IF step = "idle" THEN {} ELSE {Key}
Report == IF result = None THEN "none" ELSE result.status
FailedBaselines == {r \in Responses : r.outcome = "BASELINE_NOT_STABLE"}

Suite == INSTANCE SuiteEvaluation WITH
    phase <- Phase, report <- Report, running <- Running, known <- cache, heard <- Heard,
    NoBaseline <- FailedBaselines

ImplementsSuite == Suite!Spec

\* Every evaluation ends.
Finishes == <>(stage \in {"done", "raised"})
=============================================================================
