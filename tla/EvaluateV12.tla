------------------------------ MODULE EvaluateV12 ------------------------------
(***************************************************************************)
(* evaluate_v12 (src/radar_bench/v1_2.py): the gates in front of a candidate *)
(* session, the documents it reads twice, the session (CandidateSession),   *)
(* and the result with its cleanup accounting. Documents may be edited while *)
(* it runs, and another evaluation may use the same workspace directory.    *)
(***************************************************************************)
EXTENDS Naturals, FiniteSets, Functions

CONSTANTS
    Cases, Records, Episodes,  \* equally many of each
    RequestIds, Predictions, MaxExperiments, None,
    Bundles,       \* the candidate documents that pass their audit
    Labels,        \* the label documents that validate
    MaxEdits       \* bound: edits of documents during the evaluation

\* Other candidate documents: no file, 25 sound records with another flaw, neither.
Unfit == {"absent", "loose", "broken"}

Absent == [there |-> FALSE]
\* An evaluator document: its record-to-case mapping, its labels, or None where
\* those do not validate, and whether its other fields do.
Golds == {Absent} \cup
         [there : {TRUE}, map : Bijection(Records, Cases) \cup {None},
          labels : Labels \cup {None}, proven : BOOLEAN]

ASSUME NamesAssumption ==
    /\ IsFiniteSet(Episodes) /\ IsFiniteSet(RequestIds)
    /\ MaxExperiments \in Nat /\ MaxEdits \in Nat
    /\ None \notin Predictions \cup Labels \cup Bundles
    /\ Bundles \cap Unfit = {}

VARIABLES
    \* the repository and the evaluator's host
    bundle, gold, reference, catalog, failing, workspace, peer, edits,
    \* evaluate_v12
    pc,
    audited,     \* the candidate document candidate_audit describes
    goldAudited, \* the evaluator document evaluator_audit describes
    blockers,
    shown,       \* candidate_document
    answerKey,   \* evaluator_document
    mapping,     \* case to episode
    packets,     \* the record shown as each episode
    status, result,
    \* the candidate session and the receipts of its experiments
    outcome, settled, asked, spent, answered, clean,
    receipt

files == <<bundle, gold, reference, catalog, failing, edits>>
host == <<workspace, peer>>
session == <<outcome, settled, asked, spent, answered, clean>>
read == <<audited, goldAudited, shown, answerKey, mapping, packets>>
verdict == <<blockers, status, result>>
vars == <<files, host, pc, read, verdict, session, receipt>>

Session == INSTANCE CandidateSession

Gates == {"REPRODUCIBILITY", "BASELINE_PROVENANCE", "IMAGE_AND_ARGV"}
Blockers == Gates \cup {"INFORMATION_SUFFICIENCY", "ARTIFACT_CATALOG",
                        "BENCHMARK_INTEGRITY", "CANDIDATE_OUTPUT"}

\* What the ledger holds of a request: no call of the executor, a call without
\* a receipt, or one with a receipt, which is fresh and proves its cleanup.
Receipts == {"none", "unproved", "proved", "useful"}

Init ==
    /\ bundle \in Bundles \cup Unfit
    /\ gold \in Golds
    /\ reference \in Bundles \cup {None}
    /\ catalog \in BOOLEAN
    /\ failing \in SUBSET Gates
    /\ workspace = FALSE /\ peer = "before" /\ edits = 0
    /\ pc = "audit"
    /\ audited = None /\ goldAudited = Absent
    /\ blockers = {}
    /\ shown = None /\ answerKey = Absent
    /\ mapping = None /\ packets = None
    /\ status = "none" /\ result = None
    /\ Session!Init
    /\ receipt = [e \in Episodes |-> [i \in RequestIds |-> "none"]]

-----------------------------------------------------------------------------
(* The world around the evaluation. *)

\* Somebody edits a document that evaluate_v12 still has to read.
EditsBundle ==
    /\ edits < MaxEdits
    /\ pc \in {"audit", "sufficiency", "gates", "gold", "read"}
    /\ bundle' \in (Bundles \cup Unfit) \ {bundle}
    /\ edits' = edits + 1
    /\ UNCHANGED <<gold, reference, catalog, failing, host, pc, read, verdict, session, receipt>>

EditsGold ==
    /\ edits < MaxEdits
    /\ pc \in {"audit", "sufficiency", "gates", "gold", "read", "bind"}
    /\ gold' \in Golds \ {gold}
    /\ edits' = edits + 1
    /\ UNCHANGED <<bundle, reference, catalog, failing, host, pc, read, verdict, session, receipt>>

RemovesCatalog ==
    /\ edits < MaxEdits
    /\ pc # "done" /\ catalog
    /\ catalog' = FALSE
    /\ edits' = edits + 1
    /\ UNCHANGED <<bundle, gold, reference, failing, host, pc, read, verdict, session, receipt>>

\* Another evaluation of the same checkout makes and removes the workspace.
PeerEnters ==
    /\ peer = "before"
    /\ peer' = "inside" /\ workspace' = TRUE
    /\ UNCHANGED <<files, pc, read, verdict, session, receipt>>

PeerLeaves ==
    /\ peer = "inside"
    /\ peer' = "after" /\ workspace' = FALSE
    /\ UNCHANGED <<files, pc, read, verdict, session, receipt>>

-----------------------------------------------------------------------------
(* The gates *)

Return(s) == pc' = "done" /\ status' = s /\ UNCHANGED result

AuditsCandidate ==
    /\ pc = "audit"
    /\ audited' = bundle
    /\ pc' = "sufficiency"
    /\ UNCHANGED <<files, host, goldAudited, shown, answerKey, mapping, packets, verdict,
                   session, receipt>>

\* The candidate document is read anew and must be the one the reference names.
Sufficient == bundle \in Bundles /\ reference = bundle

AuditsSufficiency ==
    /\ pc = "sufficiency"
    /\ \/ Sufficient /\ pc' = "gates" /\ UNCHANGED verdict
       \/ /\ ~Sufficient
          /\ blockers' = blockers \cup {"INFORMATION_SUFFICIENCY"}
          /\ Return("BLOCKED")
    /\ UNCHANGED <<files, host, read, session, receipt>>

FailedGates == failing \cup {b \in {"ARTIFACT_CATALOG"} : ~catalog}

ChecksGates ==
    /\ pc = "gates"
    /\ blockers' = blockers \cup FailedGates
    /\ pc' = "gold"
    /\ UNCHANGED <<files, host, read, status, result, session, receipt>>

Sound(g) == g.there /\ g.map # None /\ g.labels # None /\ g.proven

AuditsGold ==
    /\ pc = "gold"
    /\ goldAudited' = gold
    /\ blockers' = blockers \cup {b \in {"BENCHMARK_INTEGRITY"} : ~Sound(gold)}
    /\ \/ blockers' = {} /\ pc' = "read" /\ UNCHANGED <<status, result>>
       \/ blockers' # {} /\ Return("BLOCKED")
    /\ UNCHANGED <<files, host, audited, shown, answerKey, mapping, packets, session, receipt>>

-----------------------------------------------------------------------------
(* The documents and the packets *)

ReadsBundle ==
    /\ pc = "read"
    /\ shown' = bundle
    /\ \/ bundle # "absent" /\ pc' = "bind" /\ UNCHANGED <<status, result>>
       \/ bundle = "absent" /\ Return("RAISED")
    /\ UNCHANGED <<files, host, audited, goldAudited, answerKey, mapping, packets, blockers,
                   session, receipt>>

ShuffledApart(g, m) == CHOOSE p \in Bijection(Episodes, Records) : TRUE

\* Records and cases stay together through the shuffle: the record of a case is
\* shown under the episode of that case.
Packets(g, m) == [e \in Episodes |-> CHOOSE r \in Records : m[g.map[r]] = e]

\* _read_json, generate_episode_ids, build_candidate_packets, which validates
\* records and mapping again but not the labels, and the workspace.
Bindable == gold.there /\ gold.map # None /\ shown # "broken"

Binds ==
    /\ pc = "bind"
    /\ answerKey' = gold
    /\ \/ /\ Bindable
          /\ mapping' \in Bijection(Cases, Episodes)
          /\ packets' = Packets(gold, mapping')
          /\ workspace' = TRUE
          /\ pc' = "launch"
          /\ UNCHANGED <<status, result>>
       \/ ~Bindable /\ Return("RAISED") /\ UNCHANGED <<mapping, packets, workspace>>
    /\ UNCHANGED <<files, peer, audited, goldAudited, shown, blockers, session, receipt>>

-----------------------------------------------------------------------------
(* The candidate session *)

\* The constructor raises, or run() finds the workspace gone, or the session runs.
Launches ==
    /\ pc = "launch"
    /\ \/ pc' = "tidy" /\ status' = "RAISED" /\ UNCHANGED session
       \/ ~workspace /\ pc' = "tidy" /\ Session!Fail /\ outcome' = "BLOCKED" /\ UNCHANGED status
       \/ workspace /\ pc' = "session" /\ UNCHANGED <<session, status>>
    /\ UNCHANGED <<files, host, read, blockers, result, receipt>>

Experiments ==
    /\ pc = "session"
    /\ \E e \in Episodes, i \in RequestIds :
         \/ /\ Session!Run(e, i)
            /\ \E r \in Receipts \ {"none"} : receipt' = [receipt EXCEPT ![e][i] = r]
         \/ (Session!Refuse(e, i) \/ Session!Answer(e, i)) /\ UNCHANGED receipt
    /\ UNCHANGED <<files, host, pc, read, verdict>>

Predicts ==
    /\ pc = "session"
    /\ \E e \in Episodes, p \in Predictions : Session!Settle(e, p)
    /\ UNCHANGED <<files, host, pc, read, verdict, receipt>>

Cleans ==
    /\ pc = "session"
    /\ Session!Clean
    /\ UNCHANGED <<files, host, pc, read, verdict, receipt>>

Closes ==
    /\ pc = "session"
    /\ Session!Complete \/ Session!Fail
    /\ pc' = "tidy"
    /\ UNCHANGED <<files, host, read, verdict, receipt>>

\* The finally block; an rmdir that finds nothing is ignored.
Removed == FALSE

Tidies ==
    /\ pc = "tidy"
    /\ workspace' = Removed
    /\ \/ outcome # "RAISED" /\ status = "none" /\ pc' = "score" /\ UNCHANGED <<status, result>>
       \/ (outcome = "RAISED" \/ status = "RAISED") /\ Return("RAISED")
    /\ UNCHANGED <<files, peer, read, blockers, session, receipt>>

-----------------------------------------------------------------------------
(* The result *)

With(e, S) == {i \in RequestIds : receipt[e][i] \in S}

\* ExperimentLedger.summary: totals, not the attempts themselves.
Summary(e) ==
    [requested |-> Cardinality(asked[e]),
     executor_calls |-> spent[e],
     fresh |-> Cardinality(With(e, {"proved", "useful"})),
     useful_fresh |-> Cardinality(With(e, {"useful"})),
     cleanup_verified |-> Cardinality(With(e, {"proved", "useful"}))]

AnyCleanup == \E e \in Episodes : Summary(e).cleanup_verified = Summary(e).executor_calls
CleanupVerified == \A e \in Episodes : Summary(e).cleanup_verified = Summary(e).executor_calls

Inverted(m) == Inverse(m, Cases, Episodes)

Runs == [c \in Cases |->
    LET e == CHOOSE x \in Episodes : Inverted(mapping)[x] = c IN
    [prediction |-> settled[e], ledger |-> Summary(e)]]

\* score_v12 validates the labels again before it uses them.
Scorable(g) == g.labels # None

AnyFullSession == \A e \in Episodes : settled[e] # None
Usable == outcome = "COMPLETED"

Scores ==
    /\ pc = "score"
    /\ \/ /\ ~Usable
          /\ blockers' = blockers \cup {"CANDIDATE_OUTPUT"}
          /\ Return("BLOCKED")
       \/ /\ Usable
          /\ ~Scorable(answerKey) \/ ~catalog
          /\ Return("RAISED") /\ UNCHANGED blockers
       \/ /\ Usable
          /\ Scorable(answerKey) /\ catalog
          /\ pc' = "done" /\ status' = "COMPLETED" /\ UNCHANGED blockers
          /\ result' = [runs |-> Runs,
                        labels |-> answerKey.labels,
                        bundle |-> audited, evaluator |-> goldAudited,
                        cleanup |-> CleanupVerified]
    /\ UNCHANGED <<files, host, read, session, receipt>>

-----------------------------------------------------------------------------
World == EditsBundle \/ EditsGold \/ RemovesCatalog \/ PeerEnters \/ PeerLeaves

Next ==
    \/ World
    \/ AuditsCandidate \/ AuditsSufficiency \/ ChecksGates \/ AuditsGold
    \/ ReadsBundle \/ Binds
    \/ Launches \/ Experiments \/ Predicts \/ Cleans \/ Closes \/ Tidies
    \/ Scores

Spec == Init /\ [][Next]_vars
-----------------------------------------------------------------------------
(* What the evaluation guarantees *)

\* The values each variable takes; what is read late is None until then.
TypeOK ==
    /\ bundle \in Bundles \cup Unfit /\ gold \in Golds
    /\ reference \in Bundles \cup {None}
    /\ catalog \in BOOLEAN /\ failing \in SUBSET Gates
    /\ workspace \in BOOLEAN /\ peer \in {"before", "inside", "after"}
    /\ edits \in 0..MaxEdits
    /\ pc \in {"audit", "sufficiency", "gates", "gold", "read", "bind", "launch",
               "session", "tidy", "score", "done"}
    /\ audited \in Bundles \cup Unfit \cup {None}
    /\ shown \in Bundles \cup Unfit \cup {None}
    /\ goldAudited \in Golds /\ answerKey \in Golds
    /\ blockers \in SUBSET Blockers
    /\ mapping \in Bijection(Cases, Episodes) \cup {None}
    /\ packets \in [Episodes -> Records] \cup {None}
    /\ pc \in {"launch", "session", "tidy", "score"} =>
         /\ mapping \in Bijection(Cases, Episodes) /\ packets \in [Episodes -> Records]
         /\ answerKey.there /\ answerKey.map \in Bijection(Records, Cases)
    /\ status \in {"none", "BLOCKED", "COMPLETED", "RAISED"}
    /\ status # "COMPLETED" => result = None
    /\ outcome \in {"none", "COMPLETED", "BLOCKED", "RAISED"}
    /\ settled \in [Episodes -> Predictions \cup {None}]
    /\ asked \in [Episodes -> SUBSET RequestIds]
    /\ answered \in [Episodes -> SUBSET RequestIds]
    /\ spent \in [Episodes -> 0..MaxExperiments]
    /\ clean \in BOOLEAN
    /\ receipt \in [Episodes -> [RequestIds -> Receipts]]

\* Whatever the shuffle and the episode ids, and whoever edits the documents:
\* the prediction a case is scored with is the one made on the record the
\* evaluator document assigns to that case, and the labels are the same
\* document's and validate.
Aligned ==
    status = "COMPLETED" =>
        /\ \A e \in Episodes : result.runs[answerKey.map[packets[e]]].prediction = settled[e]
        /\ result.labels = answerKey.labels /\ result.labels # None

\* A result is COMPLETED only after every gate has passed, the reference named
\* an audited document and a COMPLETED session gave a prediction for each case;
\* if nobody edits them meanwhile, the documents scored are the audited ones.
CompletedIsEarned ==
    status = "COMPLETED" =>
        /\ outcome = "COMPLETED" /\ clean
        /\ blockers = {} /\ failing = {} /\ reference \in Bundles /\ Sound(goldAudited)
        /\ edits = 0 => shown = reference /\ audited = reference /\ answerKey = goldAudited
        /\ \A c \in Cases : result.runs[c].prediction # None

\* The cleanup of the experiments is reported as verified exactly when each
\* call of the executor, for whichever episode, came back with a receipt that
\* proves it; totals per ledger must not hide a missing one.
CleanupIsAccounted ==
    status = "COMPLETED" =>
        (result.cleanup <=> \A e \in Episodes, i \in RequestIds : receipt[e][i] # "unproved")
=============================================================================
