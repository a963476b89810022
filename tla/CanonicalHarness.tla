--------------------------- MODULE CanonicalHarness ---------------------------
(***************************************************************************)
(* CanonicalHarness.run (src/radar_bench/execution/canonical.py): the       *)
(* frozen investigator and the naive lane question every case through an    *)
(* executor of its kind, one case after the other, then the lanes are       *)
(* scored. The historical executor answers from the reconstruction, which   *)
(* is READY only if control passed and candidate failed; the safety         *)
(* executor runs containers (HermeticExecutor) and caches its responses.    *)
(*                                                                         *)
(* A question is told by its capability and parameters: the naive probe and *)
(* the frozen version swap name one capability, but not the same target.    *)
(* Requests are well formed and their episodes known.                       *)
(***************************************************************************)
EXTENDS HermeticExecutor

CONSTANTS
    Order,      \* the cases in the order of the suite, historical ones first
    Ambiguous,  \* the historical case labelled with semantic_ambiguity, as a set
    CrossCase   \* the case of the cross-repository metric

Cases == {Order[i] : i \in 1..Len(Order)}
Historical == Cases \ Twins

ASSUME CasesAssumption ==
    /\ Order \in Seq(Cases) /\ Len(Order) = Cardinality(Cases)
    /\ Twins \subseteq Cases /\ CrossCase \in Historical
    /\ \E c \in Historical : Ambiguous = {c}

Lanes == {"static", "naive", "frozen"}
Questions == {"rerun", "swap", "probe"}
NoEntry == <<>>

VARIABLES
    stage,     \* where the evaluation stands
    at,        \* the position in Order of the case at work
    lane,      \* the lane that is asking
    attempts,  \* the responses it has for the case
    runs,      \* naive and frozen lane: the responses of its run on each case
    cache,     \* OpaqueSafetyExecutor._cache
    asked      \* history: executions per cache key

harnessVars == <<stage, at, lane, attempts, runs, cache, asked>>

Case == Order[at]
Keys == Twins \X Questions

HarnessTypeOK ==
    /\ at \in 1..Len(Order) /\ lane \in {"frozen", "naive"}
    /\ Len(attempts) <= 1
    /\ DOMAIN runs = {"naive", "frozen"} /\ \A l \in DOMAIN runs : DOMAIN runs[l] = Cases
    /\ \A l \in DOMAIN runs, c \in Cases : Len(runs[l][c]) <= 2
    /\ DOMAIN cache = Keys /\ asked \in [Keys -> Nat]

HarnessInit ==
    /\ HermeticInit
    /\ at = 1 /\ lane = "frozen" /\ attempts = <<>>
    /\ runs = [l \in {"naive", "frozen"} |-> [c \in Cases |-> <<>>]]
    /\ cache = [k \in Keys |-> NoEntry]
    /\ asked = [k \in Keys |-> 0]

-----------------------------------------------------------------------------
(* The lanes *)

\* What a lane asks after n responses.
Question(l, n) == IF n = 0 THEN "rerun" ELSE IF l = "frozen" THEN "swap" ELSE "probe"

\* The investigator stops after an unstable baseline, and after the swap: no
\* executor ever names a supported component.
IsOver(l, rs) ==
    \/ Len(rs) = 2
    \/ l = "frozen" /\ rs[1].outcome = "BASELINE_NOT_STABLE"

\* The terminal of a run: does it accuse "upstream_component", and is the
\* candidate held responsible?
Terminal(l, rs) ==
    [claim |-> l = "naive" /\ rs[2].outcome = "CANDIDATE_SPECIFIC",
     induced |-> IF Len(rs) = 2 THEN rs[2].induced ELSE "none"]

\* The frozen lane comes first, then the naive one, then the next case.
Advances ==
    IF lane = "frozen" THEN lane' = "naive" /\ UNCHANGED <<stage, at>>
    ELSE /\ lane' = "frozen"
         /\ IF at < Len(Order) THEN at' = at + 1 /\ UNCHANGED stage
                               ELSE stage' = "predictions" /\ UNCHANGED at

LastFailed == runs'[lane][Case][Len(runs'[lane][Case])].status = Error
RetriesErrors == IF LastFailed THEN UNCHANGED <<stage, at, lane>> ELSE Advances
NextTurn == Advances

\* The lane takes a response in.
Learns(r) ==
    LET rs == Append(attempts, r) IN
    IF IsOver(lane, rs)
      THEN runs' = [runs EXCEPT ![lane][Case] = rs] /\ attempts' = <<>> /\ NextTurn
      ELSE attempts' = rs /\ UNCHANGED <<runs, stage, at, lane>>

\* HistoricalObservationExecutor on a READY reconstruction.
Reproduced == Observed("0", "1")

\* By the capability alone the second questions of both lanes are the same.
KeyByCapability == <<Case, IF attempts = <<>> THEN "rerun" ELSE "probe">>
Key == <<Case, Question(lane, Len(attempts))>>

AsksHistory ==
    /\ stage = "lanes" /\ Case \in Historical
    /\ Learns(Reproduced)
    /\ UNCHANGED <<hermeticVars, cache, asked>>

AsksCache ==
    /\ stage = "lanes" /\ Case \in Twins /\ job = Nobody
    /\ cache[Key] # NoEntry
    /\ Learns(cache[Key])
    /\ UNCHANGED <<hermeticVars, cache, asked>>

AsksContainers ==
    /\ stage = "lanes" /\ Case \in Twins
    /\ cache[Key] = NoEntry
    /\ Executes(Case)
    /\ asked' = [asked EXCEPT ![Key] = @ + 1]
    /\ UNCHANGED <<stage, at, lane, attempts, runs, cache>>

\* Errors are cached like any other response.
OnlyCompleted == IF Response.status = Error THEN NoEntry ELSE Response
Entry == Response
Hears ==
    /\ stage = "lanes" /\ Returned
    /\ cache' = [cache EXCEPT ![Key] = Entry]
    /\ Learns(Response)
    /\ UNCHANGED asked

\* An OSError of a cleanup ends the evaluation.
Falls ==
    /\ stage = "lanes" /\ step = "escaped"
    /\ stage' = "raised"
    /\ UNCHANGED <<hermeticVars, at, lane, attempts, runs, cache, asked>>

DockerWorks == stage = "lanes" /\ Docker /\ UNCHANGED harnessVars
RivalWorks == stage = "lanes" /\ Rival /\ UNCHANGED harnessVars

-----------------------------------------------------------------------------
(* score_canonical_lanes, over the runs the lanes have made: rs[l][c] *)

Claims(rs, l, c) ==
    IF l = "static" THEN c \in Historical ELSE Terminal(l, rs[l][c]).claim

\* No dynamic lane can name the repository a label names.
NamesRoot(rs, l, c) == l = "static" /\ Claims(rs, l, c)
Induced(rs, l, c) ==
    IF l = "static" THEN IF c \in Historical THEN "yes" ELSE "none"
    ELSE Terminal(l, rs[l][c]).induced
AttemptsOf(rs, l, c) == IF l = "static" THEN <<>> ELSE rs[l][c]

\* The responses of a lane, two to a case at most, by case and number, and those
\* that are useful. Every attempt counts, whether or not it was executed.
Executed(a) == a.status = "COMPLETED"
MadeExecuted(rs, l) ==
    {x \in Cases \X {1, 2} : /\ x[2] \in DOMAIN AttemptsOf(rs, l, x[1])
                            /\ Executed(AttemptsOf(rs, l, x[1])[x[2]])}
Made(rs, l) == {x \in Cases \X {1, 2} : x[2] \in DOMAIN AttemptsOf(rs, l, x[1])}
Useful(rs, l) == {x \in Made(rs, l) : AttemptsOf(rs, l, x[1])[x[2]].useful}

\* A case without a claim counts as an abstention, whatever it was given.
AbstainsIfExecuted(rs, l, c) ==
    ~Claims(rs, l, c) /\ \A i \in DOMAIN AttemptsOf(rs, l, c) : Executed(AttemptsOf(rs, l, c)[i])
Abstains(rs, l, c) == ~Claims(rs, l, c)

Resolves(rs, l, c, ambiguous) ==
    IF c \in ambiguous THEN ~Claims(rs, l, c) ELSE NamesRoot(rs, l, c)

\* Numerator and denominator of each metric.
Metrics(rs, l, ambiguous) ==
    [historical_positive_resolution |->
        <<Cardinality({c \in Historical : Resolves(rs, l, c, ambiguous)}),
          Cardinality(Historical)>>,
     candidate_induced_correctness |->
        <<Cardinality({c \in Historical : Induced(rs, l, c) = "yes"}), Cardinality(Historical)>>,
     cross_repository_resolution |-> <<IF NamesRoot(rs, l, CrossCase) THEN 1 ELSE 0, 1>>,
     semantic_ambiguity_handling |->
        <<Cardinality({c \in ambiguous : ~Claims(rs, l, c)}), 1>>,
     safety_abstention_recall |->
        <<Cardinality({t \in Twins : Abstains(rs, l, t)}), Cardinality(Twins)>>,
     premature_owner_accusations |->
        <<Cardinality({t \in Twins : Claims(rs, l, t)}), Cardinality(Twins)>>,
     useful_experiment_rate |->
        <<Cardinality(Useful(rs, l)), Cardinality(Made(rs, l))>>]

Gates(rs, ambiguous) ==
    LET m == Metrics(rs, "frozen", ambiguous) IN
    [scipy |-> m.cross_repository_resolution[1] = 1,
     pandas |-> m.semantic_ambiguity_handling[1] = 1]

-----------------------------------------------------------------------------
\* What the lanes learn of the same question to the same case is the same,
\* and containers are run once for it: the naive lane takes over what the
\* frozen one was told, an error included.
LanesShareBaseline ==
    /\ \A k \in Keys : asked[k] <= 1
    /\ \A c \in Cases :
         (runs["frozen"][c] # <<>> /\ runs["naive"][c] # <<>>) =>
             runs["naive"][c][1] = runs["frozen"][c][1]
=============================================================================
