--------------------------- MODULE SuiteEvaluation ---------------------------
(***************************************************************************)
(* What evaluate_decisive_suite promises a reader of its result, with       *)
(* docker, the order of the cases, the score and the comparison left out:   *)
(* a suite is turned down before anything is run, or two lanes question     *)
(* every case. A question to a twin is run at most once, its response is    *)
(* kept, and whoever asks it later is told the kept one; a historical case  *)
(* answers from its reconstruction. A lane is told one response at a time   *)
(* until it has enough, and the suite is scored when both have enough of    *)
(* every case.                                                             *)
(***************************************************************************)
EXTENDS Naturals, Sequences

CONSTANTS Historical, Twins,  \* the cases of the suite
          Responses,          \* what a request to a twin may bring
          Reproduced,         \* what every request to a historical case brings
          NoBaseline,         \* the responses that say that the control failed
          NoEntry             \* not a response

VARIABLES phase,    \* "closed" until a question may be run, "open", then "over"
          report,   \* "none", or the status of the result
          running,  \* the question that is being run, as a set
          known,    \* the response to each question, or NoEntry
          heard     \* the responses told to each lane, by case

vars == <<phase, report, running, known, heard>>

Cases == Historical \cup Twins
Lanes == {"naive", "frozen"}
Questions == Twins \X {"rerun", "swap", "probe"}

\* The frozen lane stops at a baseline that fails, the naive one does not look.
Enough(l, c) ==
    \/ Len(heard[l][c]) = 2
    \/ l = "frozen" /\ Len(heard[l][c]) = 1 /\ heard[l][c][1] \in NoBaseline

Wants(l, c) == phase = "open" /\ ~Enough(l, c)

\* Both lanes begin with the same question.
Follows(l) == IF l = "frozen" THEN "swap" ELSE "probe"
Question(l, c) == <<c, IF heard[l][c] = <<>> THEN "rerun" ELSE Follows(l)>>

Init ==
    /\ phase = "closed" /\ report = "none"
    /\ running = {} /\ known = [k \in Questions |-> NoEntry]
    /\ heard = [l \in Lanes |-> [c \in Cases |-> <<>>]]

\* A gate is closed: nothing has been run, and nothing will be.
TurnsDown ==
    /\ phase = "closed" /\ phase' = "over"
    /\ report' \in {"INVALID", "BLOCKED"}
    /\ UNCHANGED <<running, known, heard>>

Opens ==
    /\ phase = "closed" /\ phase' = "open"
    /\ UNCHANGED <<report, running, known, heard>>

Runs(l, t) ==
    /\ running = {} /\ Wants(l, t)
    /\ known[Question(l, t)] = NoEntry
    /\ running' = {Question(l, t)}
    /\ UNCHANGED <<phase, report, known, heard>>

Tells(l, c, r) ==
    /\ heard' = [heard EXCEPT ![l][c] = Append(@, r)]
    /\ UNCHANGED <<phase, report>>

\* What was run is kept, an error like any other response.
TellsNew(l, t, r) ==
    /\ running' = {} /\ running = {Question(l, t)} /\ Wants(l, t)
    /\ known' = [known EXCEPT ![Question(l, t)] = r]
    /\ Tells(l, t, r)

TellsKnown(l, t) ==
    /\ running = {} /\ Wants(l, t)
    /\ known[Question(l, t)] # NoEntry
    /\ Tells(l, t, known[Question(l, t)])
    /\ UNCHANGED <<running, known>>

TellsReproduced(l, c) ==
    /\ running = {} /\ Wants(l, c)
    /\ Tells(l, c, Reproduced)
    /\ UNCHANGED <<running, known>>

\* There is a score only if every question has been answered.
Scores ==
    /\ phase = "open" /\ phase' = "over" /\ running = {}
    /\ \A l \in Lanes, c \in Cases : Enough(l, c)
    /\ report' \in {"COMPLETED", "DRIFT"}
    /\ UNCHANGED <<running, known, heard>>

\* An exception ends the evaluation without a result, in the midst of a run too.
Stops ==
    /\ phase # "over" /\ phase' = "over"
    /\ UNCHANGED <<report, running, known, heard>>

Next ==
    \/ TurnsDown \/ Opens \/ Scores \/ Stops
    \/ \E l \in Lanes, t \in Twins :
         Runs(l, t) \/ TellsKnown(l, t) \/ \E r \in Responses : TellsNew(l, t, r)
    \/ \E l \in Lanes, c \in Historical : TellsReproduced(l, c)

Spec == Init /\ [][Next]_vars
=============================================================================
