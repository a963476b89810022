-------------------------- MODULE CandidateSession --------------------------
(***************************************************************************)
(* What ExternalCandidateProtocol.run promises the evaluator, with threads, *)
(* pipes, the process and the clock left out: every episode is settled at   *)
(* most once, an experiment is run only for an open episode and within its  *)
(* budget, requests are answered one at a time and each at most once, and a *)
(* session is COMPLETED only when all episodes are settled, no request is   *)
(* left without its answer and the candidate's container is gone.           *)
(***************************************************************************)
EXTENDS Naturals, FiniteSets

CONSTANTS Episodes,        \* the episodes of one session
          RequestIds,      \* the request ids a candidate may choose
          Predictions,     \* the terminal predictions a candidate may send
          MaxExperiments,  \* the experiment budget of an episode
          None             \* not a prediction

VARIABLES outcome,   \* "none" while the session is open, then its result
          settled,   \* the prediction accepted for each episode, or None
          asked,     \* the request ids admitted for each episode
          spent,     \* the experiments run for each episode
          answered,  \* the request ids answered, for each episode
          clean      \* the candidate's container is known to be removed

vars == <<outcome, settled, asked, spent, answered, clean>>

Open == outcome = "none"
Waiting(e) == asked[e] \ answered[e]
Quiet == \A e \in Episodes : Waiting(e) = {}
AllSettled == \A e \in Episodes : settled[e] # None

Init ==
    /\ outcome = "none"
    /\ settled = [e \in Episodes |-> None]
    /\ asked = [e \in Episodes |-> {}]
    /\ spent = [e \in Episodes |-> 0]
    /\ answered = [e \in Episodes |-> {}]
    /\ clean = FALSE

\* A new request is admitted only when no other one waits for its answer.
Admit(e, i) ==
    /\ Open /\ Quiet
    /\ i \notin asked[e]
    /\ asked' = [asked EXCEPT ![e] = @ \cup {i}]

\* The request is run: the episode is open and its budget not used up.
Run(e, i) ==
    /\ Admit(e, i)
    /\ settled[e] = None
    /\ spent[e] < MaxExperiments
    /\ spent' = [spent EXCEPT ![e] = @ + 1]
    /\ UNCHANGED <<outcome, settled, answered, clean>>

\* The request is refused without an experiment.
Refuse(e, i) ==
    /\ Admit(e, i)
    /\ UNCHANGED <<outcome, settled, spent, answered, clean>>

Answer(e, i) ==
    /\ Open
    /\ i \in Waiting(e)
    /\ answered' = [answered EXCEPT ![e] = @ \cup {i}]
    /\ UNCHANGED <<outcome, settled, asked, spent, clean>>

Settle(e, p) ==
    /\ Open /\ Quiet
    /\ settled[e] = None
    /\ settled' = [settled EXCEPT ![e] = p]
    /\ UNCHANGED <<outcome, asked, spent, answered, clean>>

\* The container disappears, which may happen after the session has closed.
Clean ==
    /\ ~clean
    /\ clean' = TRUE
    /\ UNCHANGED <<outcome, settled, asked, spent, answered>>

Complete ==
    /\ Open /\ Quiet /\ AllSettled
    /\ clean' = TRUE
    /\ outcome' = "COMPLETED"
    /\ UNCHANGED <<settled, asked, spent, answered>>

Fail ==
    /\ Open
    /\ outcome' \in {"BLOCKED", "RAISED"}
    /\ clean' \in {clean, TRUE}
    /\ UNCHANGED <<settled, asked, spent, answered>>

Next ==
    \/ \E e \in Episodes, i \in RequestIds : Run(e, i) \/ Refuse(e, i) \/ Answer(e, i)
    \/ \E e \in Episodes, p \in Predictions : Settle(e, p)
    \/ Clean
    \/ Complete
    \/ Fail

Spec == Init /\ [][Next]_vars
-----------------------------------------------------------------------------
(* What the evaluator may build on *)

\* At every moment of a session: nothing is answered that was not asked, one
\* request at most waits in all episodes together, no episode is over its budget,
\* and COMPLETED leaves nothing open behind it.
Orderly ==
    /\ \A e \in Episodes : answered[e] \subseteq asked[e]
    /\ \A e, d \in Episodes : \A i \in Waiting(e), j \in Waiting(d) : e = d /\ i = j
    /\ \A e \in Episodes : spent[e] <= MaxExperiments
    /\ outcome = "COMPLETED" => Quiet /\ AllSettled /\ clean

\* No step takes back a prediction, a request, an experiment or an answer, no
\* prediction is added while a request waits, no experiment to a settled episode,
\* and nothing at all once there is a result.
Keeps ==
    /\ \A e \in Episodes :
         /\ asked[e] \subseteq asked'[e] /\ answered[e] \subseteq answered'[e]
         /\ spent[e] <= spent'[e]
         /\ settled[e] # None => settled'[e] = settled[e] /\ spent'[e] = spent[e]
         /\ settled'[e] # settled[e] => Quiet
    /\ ~Open => UNCHANGED <<outcome, settled, asked, spent, answered>>
KeepsWhatItSays == [][Keeps]_vars
=============================================================================
