-------------------------- MODULE DecisiveSuiteProofs --------------------------
(***************************************************************************)
(* The theorems about an evaluation of the decisive suite, for any cases,   *)
(* twins and number of faults: SuiteInv is inductive, in three parts that   *)
(* rest on each other in this order, the executor's, the lanes' and the     *)
(* evaluation's.                                                            *)
(***************************************************************************)
EXTENDS DecisiveSuite, FiniteSetTheorems, SequenceTheorems, TLAPS

-----------------------------------------------------------------------------
(* The hermetic executor *)

\* What became of the container of a side that ends with this return code.
Fits(code, f) ==
    code \in Codes => f \in {"ended", "refused", "removed"} /\ (code \in {"0", "1"} <=> f = "ended")

Turns ==
    /\ step = "idle" => verdict = EachSide(NotRun) /\ side = "control"
    /\ step # "idle" => job \in Twins
    /\ side = "control" => verdict["candidate"] = NotRun
    /\ side = "candidate" => verdict["control"] # NotRun
    /\ step # "respond" => verdict[side] = NotRun
    /\ step = "respond" => side = "candidate" /\ verdict["candidate"] # NotRun

\* A settled side has a verdict that fits, and one that counts as COMPLETED has no
\* container of ours left.
Settled ==
    \A s \in Sides : /\ Fits(verdict[s], fate[s])
                     /\ verdict[s] \in Codes => box[<<job, s>>] # "ours"
Captured ==
    step \in {"rmAfter", "psAfter"} /\ capture.ended = Whole => Fits(capture.code, fate[side])

\* The sides are settled one after the other, each with what became of its container.
ExecutorInv == HermeticTypeOK /\ Turns /\ Settled /\ Captured

-----------------------------------------------------------------------------
(* The lanes *)

Dynamic == {"naive", "frozen"}
Early == {"audit", "inspect", "reconstruct", "load", "image", "construct"}

HarnessTypes ==
    /\ at \in 1..Len(Order) /\ lane \in Dynamic
    /\ attempts \in Seq(Responses) /\ Len(attempts) <= 1
    /\ runs \in [Dynamic -> [Cases -> Seq(Responses)]]
    /\ \A l \in Dynamic, c \in Cases : Len(runs[l][c]) <= 2
    /\ cache \in [Keys -> Responses \cup {NoEntry}]
    /\ asked \in [Keys -> Nat]

\* A container was asked for once for each entry, and for the one that is to come.
AskedOnce ==
    /\ step # "idle" => stage \in {"lanes", "raised"} /\ Case \in Twins /\ cache[Key] = NoEntry
    /\ \A k \in Keys : asked[k] = IF cache[k] # NoEntry \/ (step # "idle" /\ k = Key) THEN 1 ELSE 0

\* What the first question brings: the reproduced effect, or the entry of the cache.
Begins(c, rs) ==
    rs # <<>> => rs[1] = IF c \in Historical THEN Reproduced ELSE cache[<<c, "rerun">>]

\* A run that was made went on until the lane had no question left.
RunIsOver(l, c, rs) ==
    rs # <<>> =>
        /\ Begins(c, rs) /\ IsOver(l, rs)
        /\ Len(rs) = 2 => ~IsOver(l, <<rs[1]>>)
        /\ c \in Historical => rs = <<Reproduced, Reproduced>>

AllMade == \A l \in Dynamic, c \in Cases : runs[l][c] # <<>>

RunsMade == \A l \in Dynamic, c \in Cases : RunIsOver(l, c, runs[l][c])

\* The run that is being made has still a question.
RunBegun == Begins(Case, attempts) /\ (attempts # <<>> => ~IsOver(lane, attempts))

\* The cases are taken in order, the frozen lane first.
InOrder ==
    /\ \A l \in Dynamic, i \in 1..Len(Order) : i < at => runs[l][Order[i]] # <<>>
    /\ lane = "naive" => runs["frozen"][Case] # <<>>
    /\ stage \in {"predictions", "score", "build"} => AllMade

\* Nothing was asked for before the lanes were let in.
NotBefore == stage \in Early => step = "idle" /\ \A k \in Keys : asked[k] = 0

LanesInv == HarnessTypes /\ AskedOnce /\ RunsMade /\ RunBegun /\ InOrder /\ NotBefore

-----------------------------------------------------------------------------
(* The evaluation *)

\* The facts that the gates have found, in the order of the gates. The workspaces
\* may be edited before the last one.
Found(st) ==
    CASE st \in {"audit", "done", "raised"} -> {}
      [] st = "inspect" -> {SoundSuite, HistoricalArtifacts}
      [] st = "reconstruct" -> {SoundSuite, HistoricalArtifacts, LinuxEngine}
      [] st \in {"load", "image"} ->
           {SoundSuite, HistoricalArtifacts, LinuxEngine, Reconstructed}
      [] st = "construct" ->
           {SoundSuite, HistoricalArtifacts, LinuxEngine, Reconstructed, SafetyImage}
      [] OTHER -> Facts \ {SoundReference}

Scored == scored \in {Score(runs, Ambiguous), Score(runs, {})}

\* A result says that nothing was run, or is that of an evaluation that came to its end.
\* Only an unsound suite is turned down by anything but its own cases.
NamedRightly(status, ids, provenance) ==
    /\ status \in {"INVALID", "BLOCKED"}
    /\ \/ status = "INVALID" /\ SoundSuite \notin holds
       \/ ids = Order /\ provenance = "digests"
NothingRan ==
    /\ \E status, ids, provenance :
         /\ result = BlockedResult(status, ids, provenance)
         /\ NamedRightly(status, ids, provenance)
    /\ \A k \in Keys : asked[k] = 0
CameToEnd == result = FinalResult /\ AllMade /\ Scored /\ Facts \ {SoundReference} \subseteq holds
Ending == NothingRan \/ CameToEnd

EvaluationInv ==
    /\ stage \in Stages /\ holds \subseteq Facts /\ labels \in {"sealed", "reworded"}
    /\ Found(stage) \subseteq holds
    /\ stage = "build" => Scored
    /\ IF stage = "done" THEN Ending ELSE result = None

SuiteInv == ExecutorInv /\ LanesInv /\ EvaluationInv
-----------------------------------------------------------------------------
(* The executor: one lemma per docker command. *)

\* A command that settles nothing keeps the turns.
LEMMA TurnsStay ==
    ASSUME ExecutorInv, step \notin {"idle", "respond"}, step' \notin {"idle", "respond"},
           UNCHANGED <<job, side, verdict>>
    PROVE  Turns'
BY DEF ExecutorInv, Turns

\* A side is settled with a verdict that fits what became of its container.
LEMMA SettlesRightly ==
    ASSUME ExecutorInv, step \notin {"idle", "respond"},
           NEW v \in Codes \cup {Error}, Settles(v),
           Fits(v, fate[side]), v \in Codes => box[Name] # "ours",
           UNCHANGED <<box, job, fate>>, faults' \in 0..MaxFaults
    PROVE  ExecutorInv'
<1> USE DEF ExecutorInv
<1>1. verdict \in [Sides -> Codes \cup {Error, NotRun}] /\ side \in Sides /\ job \in Twins
    BY DEF HermeticTypeOK, Turns
<1>2. verdict' = [verdict EXCEPT ![side] = v] /\ capture' = NoCapture
    BY DEF Settles
<1>3. v # NotRun
    BY DEF Codes, Error, NotRun
<1>4. \A s \in Sides : verdict'[s] = IF s = side THEN v ELSE verdict[s]
    BY <1>1, <1>2
<1>5. \/ side = "control" /\ side' = "candidate" /\ step' = "which"
      \/ side = "candidate" /\ side' = "candidate" /\ step' = "respond"
    BY <1>1 DEF Settles, Sides
<1>6. HermeticTypeOK'
  <2>1. verdict' \in [Sides -> Codes \cup {Error, NotRun}]
    BY <1>1, <1>2
  <2>2. capture' \in [code : Codes, ended : Cuts \cup {Whole}]
    BY <1>2 DEF NoCapture, Codes, Whole
  <2>3. step' \in {"which", "respond"} /\ side' \in Sides
    BY <1>5 DEF Sides
  <2> QED BY <2>1, <2>2, <2>3 DEF HermeticTypeOK
<1>7. Turns'
    BY <1>1, <1>3, <1>4, <1>5 DEF Turns, Sides
<1>8. Settled'
    BY <1>1, <1>4 DEF Settled, Name
<1>9. Captured'
    BY <1>5 DEF Captured
<1> QED BY <1>6, <1>7, <1>8, <1>9

\* An error needs no container to fit.
LEMMA SettlesError ==
    ASSUME ExecutorInv, step \notin {"idle", "respond"}, Settles(Error),
           UNCHANGED <<box, job, fate>>, faults' \in 0..MaxFaults
    PROVE  ExecutorInv'
<1>1. Error \notin Codes
    BY DEF Error, Codes
<1>2. Fits(Error, fate[side])
    BY <1>1 DEF Fits
<1> QED BY <1>1, <1>2, SettlesRightly

\* The bound on the faults is kept.
LEMMA FaultsBounded ==
    ASSUME HermeticTypeOK, Works \/ Fails
    PROVE  faults' \in 0..MaxFaults
BY FaultsAssumption DEF HermeticTypeOK, Works, Fails

LEMMA FindsKeeps == ASSUME ExecutorInv, Finds PROVE ExecutorInv'
<1>1. faults' \in 0..MaxFaults
    BY FaultsBounded DEF ExecutorInv, Finds
<1>2. CASE step' = "rmBefore" /\ Works /\ UNCHANGED <<side, capture, verdict>>
  <2>1. Turns'
    BY <1>2, TurnsStay DEF Finds
  <2>2. HermeticTypeOK'
    BY <1>1, <1>2 DEF Finds, ExecutorInv, HermeticTypeOK
  <2>3. Settled' /\ Captured'
    BY <1>2 DEF Finds, ExecutorInv, Settled, Captured
  <2> QED BY <2>1, <2>2, <2>3 DEF ExecutorInv
<1>3. CASE Settles(Error)
    BY <1>1, <1>3, SettlesError DEF Finds
<1> QED BY <1>2, <1>3 DEF Finds

\* What a container of this side becomes concerns no settled side: its name is its own.
LEMMA OtherSidesBox ==
    ASSUME ExecutorInv, step \notin {"idle", "respond"}, NEW b \in {"none", "ours", "rival"},
           box' = [box EXCEPT ![Name] = b], UNCHANGED <<job, verdict>>,
           \A s \in Sides \ {side} : fate'[s] = fate[s]
    PROVE  Settled' /\ box' \in [Names -> {"none", "ours", "rival"}]
<1>1. /\ box \in [Names -> {"none", "ours", "rival"}] /\ job \in Twins /\ side \in Sides
      /\ verdict[side] = NotRun
    BY DEF ExecutorInv, HermeticTypeOK, Turns
<1>2. NotRun \notin Codes
    BY DEF NotRun, Codes
<1>3. ASSUME NEW s \in Sides, s # side PROVE box'[<<job, s>>] = box[<<job, s>>]
    BY <1>1, <1>3 DEF Names, Name
<1>4. Settled'
    BY <1>1, <1>2, <1>3 DEF ExecutorInv, Settled, Fits
<1> QED BY <1>1, <1>4

LEMMA RemovesKeeps == ASSUME ExecutorInv, Removes PROVE ExecutorInv'
<1>1. faults' \in 0..MaxFaults
    BY FaultsBounded DEF ExecutorInv, Removes
<1>2. Turns'
    BY TurnsStay DEF Removes
<1>3. Captured'
    BY DEF ExecutorInv, Removes, Captured
<1>4. Settled' /\ box' \in [Names -> {"none", "ours", "rival"}]
  <2>1. CASE box' = [box EXCEPT ![Name] = "none"]
    BY <2>1, OtherSidesBox DEF Removes
  <2>2. CASE UNCHANGED box
    BY <2>2 DEF Removes, ExecutorInv, Settled, HermeticTypeOK
  <2> QED BY <2>1, <2>2 DEF Removes
<1>5. HermeticTypeOK'
    BY <1>1, <1>4 DEF Removes, ExecutorInv, HermeticTypeOK
<1> QED BY <1>2, <1>3, <1>4, <1>5 DEF ExecutorInv

LEMMA EscapesKeeps == ASSUME ExecutorInv, Escapes PROVE ExecutorInv'
<1>1. faults' \in 0..MaxFaults
    BY FaultsBounded DEF ExecutorInv, Escapes
<1>2. Turns'
    BY TurnsStay DEF Escapes
<1>3. Settled' /\ Captured'
    BY DEF ExecutorInv, Escapes, Settled, Captured
<1>4. HermeticTypeOK'
    BY <1>1 DEF Escapes, ExecutorInv, HermeticTypeOK
<1> QED BY <1>2, <1>3, <1>4 DEF ExecutorInv

LEMMA InspectsBeforeKeeps == ASSUME ExecutorInv, InspectsBefore PROVE ExecutorInv'
<1>1. faults' \in 0..MaxFaults
    BY FaultsBounded DEF ExecutorInv, InspectsBefore, Verified, Unverified, Works, Fails
<1>2. CASE step' = "run" /\ UNCHANGED <<side, capture, verdict>>
  <2>1. Turns'
    BY <1>2, TurnsStay DEF InspectsBefore
  <2>2. HermeticTypeOK'
    BY <1>1, <1>2 DEF InspectsBefore, ExecutorInv, HermeticTypeOK
  <2>3. Settled' /\ Captured'
    BY <1>2 DEF InspectsBefore, ExecutorInv, Settled, Captured
  <2> QED BY <2>1, <2>2, <2>3 DEF ExecutorInv
<1>3. CASE Settles(Error)
  <2>1. UNCHANGED box
    BY DEF InspectsBefore
  <2> QED BY <1>1, <1>3, <2>1, SettlesError DEF InspectsBefore
<1> QED BY <1>2, <1>3 DEF InspectsBefore

LEMMA InspectsAfterKeeps == ASSUME ExecutorInv, InspectsAfter PROVE ExecutorInv'
<1>1. faults' \in 0..MaxFaults
    BY FaultsBounded DEF ExecutorInv, InspectsAfter, Verified, Unverified, Works, Fails
<1>2. CASE Verified /\ Settles(Judgement)
  <2>1. CASE capture.ended # Whole
    BY <1>1, <1>2, <2>1, SettlesError DEF InspectsAfter, Judgement
  <2>2. CASE capture.ended = Whole
    <3>1. Judgement = capture.code /\ capture.code \in Codes
        BY <2>2 DEF Judgement, ExecutorInv, HermeticTypeOK
    <3>2. Fits(capture.code, fate[side])
        BY <2>2 DEF InspectsAfter, ExecutorInv, Captured
    <3>3. box[Name] # "ours"
        BY <1>2 DEF Verified
    <3> QED BY <1>1, <1>2, <3>1, <3>2, <3>3, SettlesRightly DEF InspectsAfter
  <2> QED BY <2>1, <2>2
<1>3. CASE Settles(Error)
    BY <1>1, <1>3, SettlesError DEF InspectsAfter
<1> QED BY <1>2, <1>3 DEF InspectsAfter

\* docker run has returned, with a code that fits.
LEMMA RanRightly ==
    ASSUME ExecutorInv, step \in {"run", "attached"}, NEW code \in Codes,
           NEW ended \in Cuts \cup {Whole},
           NEW f \in {NotRun, "ended", "refused", "removed", "cut"}, Ran(code, ended, f),
           ended = Whole => Fits(code, f),
           \/ UNCHANGED box
           \/ box' = [box EXCEPT ![Name] = "none"],
           faults' \in 0..MaxFaults
    PROVE  ExecutorInv'
<1>1. /\ fate \in [Sides -> {NotRun, "ended", "refused", "removed", "cut"}]
      /\ side \in Sides /\ verdict[side] = NotRun /\ job \in Twins
    BY DEF ExecutorInv, HermeticTypeOK, Turns
<1>2. /\ capture' = [code |-> code, ended |-> ended] /\ fate' = [fate EXCEPT ![side] = f]
      /\ step' = "rmAfter" /\ UNCHANGED <<job, side, verdict>>
    BY DEF Ran
<1>3. \A s \in Sides : fate'[s] = IF s = side THEN f ELSE fate[s]
    BY <1>1, <1>2
<1>4. Turns'
    BY <1>2, TurnsStay
<1>5. Captured'
    BY <1>1, <1>2, <1>3 DEF Captured
<1>6. Settled' /\ box' \in [Names -> {"none", "ours", "rival"}]
  <2>1. CASE box' = [box EXCEPT ![Name] = "none"]
    BY <1>2, <1>3, <2>1, OtherSidesBox
  <2>2. CASE UNCHANGED box
    <3>1. NotRun \notin Codes
        BY DEF NotRun, Codes
    <3> QED BY <1>1, <1>2, <1>3, <2>2, <3>1 DEF ExecutorInv, Settled, HermeticTypeOK, Fits
  <2> QED BY <2>1, <2>2
<1>7. fate' \in [Sides -> {NotRun, "ended", "refused", "removed", "cut"}]
    BY <1>1, <1>2
<1>8. capture' \in [code : Codes, ended : Cuts \cup {Whole}]
    BY <1>2
<1>9. HermeticTypeOK'
    BY <1>2, <1>6, <1>7, <1>8 DEF ExecutorInv, HermeticTypeOK
<1> QED BY <1>4, <1>5, <1>6, <1>9 DEF ExecutorInv

LEMMA LaunchesKeeps == ASSUME ExecutorInv, Launches PROVE ExecutorInv'
<1>1. Turns'
    BY TurnsStay DEF Launches
<1>2. Settled' /\ box' \in [Names -> {"none", "ours", "rival"}]
    BY OtherSidesBox DEF Launches
<1>3. Captured'
    BY DEF Launches, Captured
<1>4. HermeticTypeOK'
    BY <1>2 DEF Launches, ExecutorInv, HermeticTypeOK
<1> QED BY <1>1, <1>2, <1>3, <1>4 DEF ExecutorInv

LEMMA RunEnds ==
    ASSUME ExecutorInv,
           \/ Refuses \/ FailsToRun \/ \E code \in {"0", "1"} : Ends(code)
           \/ \E limit \in {"TIMEOUT", "OUTPUT_LIMIT_EXCEEDED"} : IsCut(limit)
           \/ IsRemoved
    PROVE  ExecutorInv'
<1>1. CASE Refuses
  <2>1. faults' \in 0..MaxFaults
    BY <1>1, FaultsBounded DEF ExecutorInv, Refuses
  <2>2. "125" \in Codes /\ Fits("125", "refused") /\ Whole \in Cuts \cup {Whole}
    BY DEF Codes, Fits
  <2> QED BY <1>1, <2>1, <2>2, RanRightly DEF Refuses
<1>2. CASE FailsToRun
  <2>1. faults' \in 0..MaxFaults
    BY <1>2, FaultsBounded DEF ExecutorInv, FailsToRun
  <2>2. "0" \in Codes /\ "OSError" \in Cuts \cup {Whole} /\ "OSError" # Whole
    BY DEF Codes, Cuts, Whole
  <2> QED BY <1>2, <2>1, <2>2, RanRightly DEF FailsToRun
<1>3. ASSUME NEW code \in {"0", "1"}, Ends(code) PROVE ExecutorInv'
  <2>1. faults' \in 0..MaxFaults
    BY <1>3, FaultsBounded DEF ExecutorInv, Ends
  <2>2. code \in Codes /\ Fits(code, "ended") /\ Whole \in Cuts \cup {Whole}
    BY DEF Codes, Fits
  <2> QED BY <1>3, <2>1, <2>2, RanRightly DEF Ends
<1>4. ASSUME NEW limit \in {"TIMEOUT", "OUTPUT_LIMIT_EXCEEDED"}, IsCut(limit) PROVE ExecutorInv'
  <2>1. faults' \in 0..MaxFaults
    BY <1>4, FaultsBounded DEF ExecutorInv, IsCut
  <2>2. "137" \in Codes /\ limit \in Cuts \cup {Whole} /\ limit # Whole
    BY DEF Codes, Cuts, Whole
  <2> QED BY <1>4, <2>1, <2>2, RanRightly DEF IsCut
<1>5. CASE IsRemoved
  <2>1. faults' \in 0..MaxFaults
    BY <1>5 DEF ExecutorInv, HermeticTypeOK, IsRemoved
  <2>2. "137" \in Codes /\ Fits("137", "removed") /\ Whole \in Cuts \cup {Whole}
    BY DEF Codes, Fits
  <2> QED BY <1>5, <2>1, <2>2, RanRightly DEF IsRemoved
<1> QED BY <1>1, <1>2, <1>3, <1>4, <1>5

LEMMA RivalKeeps == ASSUME ExecutorInv, Rival PROVE ExecutorInv'
<1>1. PICK b \in {"none", "rival"} :
        /\ box' = [box EXCEPT ![Name] = b]
        /\ step \notin {"idle", "escaped", "respond"} /\ Fails
        /\ UNCHANGED <<job, step, side, capture, verdict, fate>>
    BY DEF Rival, RivalRemoves, RivalLaunches
<1>2. faults' \in 0..MaxFaults
    BY <1>1, FaultsBounded DEF ExecutorInv
<1>3. Settled' /\ box' \in [Names -> {"none", "ours", "rival"}]
    BY <1>1, OtherSidesBox
<1>4. Turns' /\ Captured'
    BY <1>1 DEF ExecutorInv, Turns, Captured
<1>5. HermeticTypeOK'
    BY <1>1, <1>2, <1>3 DEF ExecutorInv, HermeticTypeOK
<1> QED BY <1>3, <1>4, <1>5 DEF ExecutorInv

LEMMA DockerKeeps == ASSUME ExecutorInv, Docker PROVE ExecutorInv'
BY FindsKeeps, RemovesKeeps, EscapesKeeps, InspectsBeforeKeeps, InspectsAfterKeeps,
   LaunchesKeeps, RunEnds DEF Docker

\* A request comes in, and its response goes out.
LEMMA ExecutesKeeps ==
    ASSUME ExecutorInv, NEW t \in Twins, Executes(t)
    PROVE  ExecutorInv'
<1>1. verdict = EachSide(NotRun) /\ NotRun \notin Codes
    BY DEF Executes, ExecutorInv, Turns, NotRun, Codes
<1>2. HermeticTypeOK'
    BY DEF Executes, ExecutorInv, HermeticTypeOK, Sides
<1>3. Turns' /\ Captured'
    BY <1>1 DEF Executes, Turns, Captured, EachSide, Sides
<1>4. Settled'
    BY <1>1 DEF Executes, Settled, EachSide, Fits
<1> QED BY <1>2, <1>3, <1>4 DEF ExecutorInv

LEMMA ReturnedKeeps == ASSUME ExecutorInv, Returned PROVE ExecutorInv'
<1>1. verdict' = EachSide(NotRun) /\ fate' = EachSide(NotRun) /\ NotRun \notin Codes
    BY DEF Returned, NotRun, Codes
<1>2. HermeticTypeOK'
  <2>1. verdict' \in [Sides -> Codes \cup {Error, NotRun}]
    BY <1>1 DEF EachSide
  <2>2. fate' \in [Sides -> {NotRun, "ended", "refused", "removed", "cut"}]
    BY <1>1 DEF EachSide
  <2> QED BY <2>1, <2>2 DEF Returned, ExecutorInv, HermeticTypeOK, Sides
<1>3. Turns' /\ Captured'
    BY <1>1 DEF Returned, Turns, Captured, EachSide, Sides
<1>4. Settled'
    BY <1>1 DEF Settled, EachSide, Fits
<1> QED BY <1>2, <1>3, <1>4 DEF ExecutorInv

LEMMA ExecutorStarts == ASSUME HermeticInit PROVE ExecutorInv
<1>1. NotRun \notin Codes
    BY DEF NotRun, Codes
<1>2. HermeticTypeOK
    BY FaultsAssumption
    DEF HermeticInit, HermeticTypeOK, NoCapture, EachSide, Names, Sides, Codes, Cuts, Whole
<1>3. Turns /\ Captured /\ Settled
    BY <1>1 DEF HermeticInit, Turns, Captured, Settled, EachSide, Sides, Fits
<1> QED BY <1>2, <1>3 DEF ExecutorInv

LEMMA ExecutorRests == ASSUME ExecutorInv, UNCHANGED hermeticVars PROVE ExecutorInv'
BY DEF ExecutorInv, HermeticTypeOK, Turns, Settled, Captured, hermeticVars, Name, Names

LEMMA ExecutorStep == ASSUME ExecutorInv, [Next]_vars PROVE ExecutorInv'
<1>1. CASE UNCHANGED hermeticVars
    BY <1>1, ExecutorRests
<1>2. CASE \E t \in Twins : Executes(t)
    BY <1>2, ExecutesKeeps
<1>3. CASE Returned \/ Docker \/ Rival
    BY <1>3, ReturnedKeeps, DockerKeeps, RivalKeeps
<1>4. CASE Lane
    BY <1>1, <1>2, <1>3, <1>4
    DEF Lane, AsksHistory, AsksCache, AsksContainers, Hears, Falls, DockerWorks
<1>5. CASE Evaluation /\ ~Lane
    BY <1>1, <1>5
    DEF Evaluation, Audits, InspectsDocker, Reconstructs, LoadsCases, EnsuresImage, Constructs,
        ReadsPredictions, Scores, Builds, Gate, Raises, Stays
<1>6. CASE Environment
    BY <1>1, <1>3, <1>6 DEF Environment, RivalWorks, EditsWorkspace, LosesReference, EditsLabels
<1>7. CASE Over \/ UNCHANGED vars
    BY <1>1, <1>7 DEF Over, vars
<1> QED BY <1>4, <1>5, <1>6, <1>7 DEF Next

\* HermeticExecutor._run_side: no side counts as COMPLETED but one whose command
\* ended by itself with 0 or 1, or that docker or somebody else ended with a code
\* that says so; and what is left of the containers once both sides are settled
\* belongs to a side that counts as an error, for every number of twins and faults.
THEOREM SidesAccounted == Spec => []SidesAreAccounted
<1>1. Init => ExecutorInv
    BY ExecutorStarts DEF Init, HarnessInit
<1>2. ExecutorInv /\ [Next]_vars => ExecutorInv'
    BY ExecutorStep
<1>3. ExecutorInv => SidesAreAccounted
  <2> SUFFICES ASSUME ExecutorInv PROVE SidesAreAccounted
    OBVIOUS
  <2>1. \A s \in Sides : verdict[s] \in Codes =>
             /\ fate[s] \in {"ended", "refused", "removed"}
             /\ verdict[s] \in {"0", "1"} <=> fate[s] = "ended"
    BY DEF ExecutorInv, Settled, Fits
  <2>2. ASSUME step = "respond", NEW s \in Sides, box[<<job, s>>] = "ours"
        PROVE  verdict[s] = Error
    <3>1. verdict[s] # NotRun
        BY <2>2 DEF ExecutorInv, Turns, Sides
    <3> QED BY <2>2, <3>1 DEF ExecutorInv, HermeticTypeOK, Settled
  <2> QED BY <2>1, <2>2 DEF SidesAreAccounted
<1> QED BY <1>1, <1>2, <1>3, PTL DEF Spec

-----------------------------------------------------------------------------
(* The lanes *)

LEMMA CasesFacts ==
    /\ Len(Order) \in Nat \ {0} /\ \A i \in 1..Len(Order) : Order[i] \in Cases
    /\ \A c \in Cases : \E i \in 1..Len(Order) : c = Order[i]
    /\ Historical \subseteq Cases /\ Cases = Historical \cup Twins
    /\ Historical \cap Twins = {} /\ CrossCase \in Cases
<1>1. CrossCase \in Cases /\ Cases = Historical \cup Twins
    BY CasesAssumption DEF Historical
<1>2. \A c \in Cases : \E i \in 1..Len(Order) : c = Order[i]
    BY DEF Cases
<1>3. Len(Order) \in Nat /\ \A i \in 1..Len(Order) : Order[i] \in Cases
    BY CasesAssumption
<1>4. Len(Order) # 0
    BY <1>1, <1>2, <1>3
<1> QED BY <1>1, <1>2, <1>3, <1>4 DEF Historical

\* No entry of a cache is a response.
LEMMA ResponsesAreEntries ==
    /\ \A r \in Responses : r # NoEntry
    /\ Reproduced \in Responses /\ Reproduced.outcome = "CANDIDATE_SPECIFIC"
<1>1. ASSUME NEW r \in Responses PROVE r # NoEntry
  <2>1. DOMAIN r = {"status", "outcome", "useful", "induced"}
    BY <1>1 DEF Responses, NoResult, Observed
  <2>2. DOMAIN NoEntry = {}
    BY DEF NoEntry
  <2> QED BY <2>1, <2>2
<1>2. Reproduced \in Responses
    BY DEF Reproduced, Responses, Codes
<1>3. Reproduced.outcome = "CANDIDATE_SPECIFIC"
    BY DEF Reproduced, Observed
<1> QED BY <1>1, <1>2, <1>3

LEMMA ResponseIsOne ==
    ASSUME ExecutorInv, step = "respond"
    PROVE  Response \in Responses
<1>1. verdict["control"] # NotRun /\ verdict["candidate"] # NotRun
    BY DEF ExecutorInv, Turns
<1>2. ASSUME Error \notin {verdict[s] : s \in Sides}
      PROVE  verdict["control"] \in Codes /\ verdict["candidate"] \in Codes
    BY <1>1, <1>2 DEF ExecutorInv, HermeticTypeOK, Sides
<1> QED BY <1>2 DEF Response, Responses

\* A run with one more response.
LEMMA OneMore ==
    ASSUME NEW l \in Dynamic, NEW c \in Cases, NEW r \in Responses,
           NEW old \in Seq(Responses), Len(old) <= 1,
           Begins(c, old)', old # <<>> => ~IsOver(l, old),
           c \in Historical => r = Reproduced,
           old = <<>> /\ c \notin Historical => r = cache'[<<c, "rerun">>],
           NEW rs, rs = Append(old, r)
    PROVE  /\ rs \in Seq(Responses) /\ Len(rs) \in 1..2 /\ rs # <<>> /\ Begins(c, rs)'
           /\ IsOver(l, rs) => RunIsOver(l, c, rs)'
           /\ ~IsOver(l, rs) => Len(rs) = 1
<1>1. /\ rs \in Seq(Responses) /\ Len(rs) \in 1..2 /\ Len(rs) = Len(old) + 1 /\ rs # <<>>
      /\ \A i \in 1..Len(old) : rs[i] = old[i]
      /\ rs[Len(old) + 1] = r
    OBVIOUS
<1>2. CASE old = <<>>
  <2>1. Len(rs) = 1 /\ rs[1] = r
    BY <1>1, <1>2
  <2>2. Begins(c, rs)'
    BY <1>2, <2>1 DEF Begins
  <2>3. c \in Historical => ~IsOver(l, rs)
    BY <2>1, ResponsesAreEntries DEF IsOver
  <2> QED BY <1>1, <2>1, <2>2, <2>3 DEF RunIsOver
<1>3. CASE old # <<>>
  <2>1. Len(old) = 1
    <3>1. Len(old) \in Nat \ {0}
        BY <1>3, EmptySeq, Zenon
    <3>2. \A n \in Nat \ {0} : n <= 1 => n = 1
        OBVIOUS
    <3> QED BY <3>1, <3>2, Zenon
  <2>2. Len(rs) = 2 /\ rs[1] = old[1] /\ rs[2] = r /\ old[1] \in Responses
    BY <1>1, <2>1
  <2>8. rs = <<old[1], r>> /\ old = <<rs[1]>>
    <3>1. <<old[1], r>> \in Seq(Responses) /\ Len(<<old[1], r>>) = 2
        BY <2>2
    <3>2. rs = <<old[1], r>>
        <4>1. \A i \in 1..Len(rs) : rs[i] = <<old[1], r>>[i]
            BY <2>2
        <4> QED BY <1>1, <2>2, <3>1, <4>1, SeqEqual, Zenon
    <3>3. <<rs[1]>> \in Seq(Responses) /\ Len(<<rs[1]>>) = 1
        BY <2>2
    <3>4. old = <<rs[1]>>
        BY <2>1, <2>2, <3>3, SeqEqual
    <3> QED BY <3>2, <3>4
  <2>3. Begins(c, rs)'
    BY <1>3, <2>2 DEF Begins
  <2>4. c \in Historical => rs = <<Reproduced, Reproduced>>
    BY <1>3, <2>2, <2>8 DEF Begins
  <2>5. ~IsOver(l, <<rs[1]>>)
    BY <1>3, <2>8
  <2>6. RunIsOver(l, c, rs)' <=>
           (rs # <<>> => /\ Begins(c, rs)' /\ IsOver(l, rs)
                         /\ Len(rs) = 2 => ~IsOver(l, <<rs[1]>>)
                         /\ c \in Historical => rs = <<Reproduced, Reproduced>>)
    BY DEF RunIsOver
  <2>7. IsOver(l, rs)
    BY <2>2 DEF IsOver
  <2> QED BY <1>1, <2>2, <2>3, <2>4, <2>5, <2>6, <2>7
<1> QED BY <1>2, <1>3

\* The cache only grows.
Grows == \A k \in Keys : cache[k] # NoEntry => cache'[k] = cache[k]

\* What begins a run is in the cache to stay.
LEMMA BeginsStays ==
    ASSUME HarnessTypes, Grows, NEW c \in Cases, NEW rs \in Seq(Responses), Begins(c, rs)
    PROVE  Begins(c, rs)'
<1>1. ASSUME rs # <<>>, c \notin Historical
      PROVE  cache'[<<c, "rerun">>] = cache[<<c, "rerun">>]
  <2>1. rs[1] \in Responses
    BY <1>1
  <2>2. rs[1] = cache[<<c, "rerun">>]
    BY <1>1 DEF Begins
  <2>3. <<c, "rerun">> \in Keys
    BY <1>1, CasesFacts DEF Keys, Questions
  <2> QED BY <2>1, <2>2, <2>3, ResponsesAreEntries DEF Grows
<1> QED BY <1>1 DEF Begins

\* A lane takes a response in: its run goes on or is over, and the next lane or
\* the next case has its turn.
LEMMA LearnsKeeps ==
    ASSUME LanesInv, stage = "lanes", NEW r \in Responses, Learns(r), Grows,
           Case \in Historical => r = Reproduced,
           attempts = <<>> /\ Case \notin Historical => r = cache'[<<Case, "rerun">>]
    PROVE  /\ at' \in 1..Len(Order) /\ lane' \in Dynamic
           /\ attempts' \in Seq(Responses) /\ Len(attempts') <= 1
           /\ runs' \in [Dynamic -> [Cases -> Seq(Responses)]]
           /\ \A l \in Dynamic, c \in Cases : Len(runs'[l][c]) <= 2
           /\ stage' \in {"lanes", "predictions"}
           /\ RunsMade' /\ RunBegun' /\ InOrder'
<1> DEFINE here == Case
           turn == lane
           rs == Append(attempts, r)
<1>1. /\ at \in 1..Len(Order) /\ turn \in Dynamic /\ here \in Cases /\ here = Order[at]
      /\ attempts \in Seq(Responses) /\ Len(attempts) <= 1
      /\ runs \in [Dynamic -> [Cases -> Seq(Responses)]]
      /\ \A l \in Dynamic, c \in Cases : Len(runs[l][c]) <= 2
    BY CasesFacts DEF LanesInv, HarnessTypes, Case
<1>2. PICK c \in Cases : c = here
    BY <1>1
<1>3. PICK l \in Dynamic : l = turn
    BY <1>1
<1>4. Begins(c, attempts)
    BY <1>2 DEF LanesInv, RunBegun
<1>5. PICK old \in Seq(Responses) : old = attempts
    BY <1>1
<1>6. Begins(c, old)'
    BY <1>2, <1>4, <1>5, BeginsStays DEF LanesInv
<1>7. /\ rs \in Seq(Responses) /\ Len(rs) \in 1..2 /\ rs # <<>>
      /\ ~IsOver(l, rs) => Len(rs) = 1
    BY <1>1, <1>2, <1>3, <1>5, <1>6, OneMore DEF LanesInv, RunBegun
<1>8. PICK new \in Seq(Responses) : new = rs
    BY <1>7
<1>9. Begins(c, new)' /\ (IsOver(l, new) => RunIsOver(l, c, new)')
    BY <1>1, <1>2, <1>3, <1>5, <1>6, <1>8, OneMore DEF LanesInv, RunBegun
<1>10. ASSUME NEW k \in Dynamic, NEW d \in Cases PROVE RunIsOver(k, d, runs[k][d])
    BY DEF LanesInv, RunsMade
<1>11. ASSUME NEW k \in Dynamic, NEW d \in Cases, NEW x \in Seq(Responses), x = runs[k][d]
       PROVE  RunIsOver(k, d, x)'
  <2>1. Begins(d, x) => Begins(d, x)'
    BY BeginsStays DEF LanesInv
  <2> QED BY <1>10, <1>11, <2>1 DEF RunIsOver
<1>12. CASE IsOver(lane, rs)
  <2>1. /\ runs' = [runs EXCEPT ![lane][Case] = rs] /\ attempts' = <<>> /\ Advances
    BY <1>12 DEF Learns, NextTurn
  <2>2. \A k \in Dynamic, d \in Cases :
            runs'[k][d] = IF k = l /\ d = c THEN new ELSE runs[k][d]
    BY <1>1, <1>2, <1>3, <1>8, <2>1
  <2>3. runs' \in [Dynamic -> [Cases -> Seq(Responses)]]
    BY <1>1, <1>7, <2>1
  <2>4. \A k \in Dynamic, d \in Cases : Len(runs'[k][d]) <= 2
    <3>1. Len(new) <= 2
        BY <1>7, <1>8
    <3> QED BY <1>1, <2>2, <3>1
  <2>5. RunsMade'
    <3>1. ASSUME NEW k \in Dynamic, NEW d \in Cases PROVE RunIsOver(k, d, runs[k][d])'
        <4>1. PICK x \in Seq(Responses) : x = runs'[k][d]
            BY <2>3
        <4>2. RunIsOver(k, d, x)'
            BY <1>1, <1>3, <1>8, <1>9, <1>11, <1>12, <2>2, <4>1
        <4> QED BY <4>1, <4>2 DEF RunIsOver, Begins
    <3> QED BY <3>1 DEF RunsMade
  <2>6. RunBegun'
    BY <2>1 DEF RunBegun, Begins
  <2>7. \A k \in Dynamic, i \in 1..Len(Order) : i < at => runs'[k][Order[i]] # <<>>
    <3>1. ASSUME NEW k \in Dynamic, NEW i \in 1..Len(Order), i < at
          PROVE  runs'[k][Order[i]] # <<>>
        <4>1. Order[i] \in Cases /\ runs[k][Order[i]] # <<>> /\ new # <<>>
            BY <1>7, <1>8, <3>1, CasesFacts DEF LanesInv, InOrder
        <4> QED BY <2>2, <4>1
    <3> QED BY <3>1
  <2>8. runs'[l][c] # <<>>
    BY <1>7, <1>8, <2>2
  <2>9. CASE lane = "frozen"
    <3>1. lane' = "naive" /\ at' = at /\ stage' = stage
        BY <2>1, <2>9 DEF Advances
    <3>2. InOrder'
        BY <1>1, <1>2, <1>3, <2>7, <2>8, <2>9, <3>1 DEF InOrder, Case
    <3> QED BY <1>1, <2>1, <2>3, <2>4, <2>5, <2>6, <3>1, <3>2 DEF Dynamic
  <2>10. CASE lane = "naive"
    <3>1. runs'["frozen"][c] # <<>> /\ \A k \in Dynamic : runs'[k][c] # <<>>
        BY <1>2, <1>3, <2>2, <2>8, <2>10 DEF LanesInv, InOrder, Dynamic
    <3>2. lane' = "frozen"
        BY <2>1, <2>10 DEF Advances
    <3>3. \A k \in Dynamic, i \in 1..Len(Order) : i <= at => runs'[k][Order[i]] # <<>>
        BY <1>1, <1>2, <2>7, <3>1
    <3>4. CASE at < Len(Order)
        <4>1. at' = at + 1 /\ stage' = stage
            BY <2>1, <2>10, <3>4 DEF Advances
        <4>2. InOrder'
            BY <1>1, <3>2, <3>3, <4>1 DEF InOrder
        <4> QED BY <1>1, <2>1, <2>3, <2>4, <2>5, <2>6, <3>2, <3>4, <4>1, <4>2 DEF Dynamic
    <3>5. CASE ~(at < Len(Order))
        <4>1. at' = at /\ stage' = "predictions"
            BY <2>1, <2>10, <3>5 DEF Advances
        <4>2. \A k \in Dynamic, d \in Cases : runs'[k][d] # <<>>
            <5>1. ASSUME NEW k \in Dynamic, NEW d \in Cases PROVE runs'[k][d] # <<>>
                <6>1. PICK i \in 1..Len(Order) : d = Order[i]
                    BY CasesFacts
                <6>2. i <= at
                    BY <1>1, <3>5, <6>1, CasesFacts
                <6> QED BY <3>3, <6>1, <6>2
            <5> QED BY <5>1
        <4>3. InOrder'
            BY <1>1, <3>2, <3>3, <4>1, <4>2 DEF InOrder, AllMade
        <4> QED BY <1>1, <2>1, <2>3, <2>4, <2>5, <2>6, <3>2, <4>1, <4>3 DEF Dynamic
    <3> QED BY <3>4, <3>5
  <2> QED BY <1>1, <2>9, <2>10 DEF Dynamic
<1>13. CASE ~IsOver(lane, rs)
  <2>1. attempts' = rs /\ UNCHANGED <<runs, stage, at, lane>>
    BY <1>13 DEF Learns
  <2>2. RunsMade'
    <3>1. ASSUME NEW k \in Dynamic, NEW d \in Cases PROVE RunIsOver(k, d, runs[k][d])'
        <4>1. PICK x \in Seq(Responses) : x = runs[k][d]
            BY <1>1
        <4>2. RunIsOver(k, d, x)'
            BY <1>11, <4>1
        <4> QED BY <2>1, <4>1, <4>2 DEF RunIsOver, Begins
    <3> QED BY <3>1 DEF RunsMade
  <2>3. RunBegun'
    <3>1. Begins(Case, attempts)'
        BY <1>2, <1>8, <1>9, <2>1 DEF Begins, Case
    <3> QED BY <1>13, <2>1, <3>1 DEF RunBegun, IsOver
  <2>4. InOrder'
    BY <2>1 DEF LanesInv, InOrder, AllMade, Case
  <2> QED BY <1>1, <1>3, <1>7, <1>13, <2>1, <2>2, <2>3, <2>4
<1> QED BY <1>12, <1>13

-----------------------------------------------------------------------------
(* Every step keeps what the lanes rely on. *)

LEMMA LanesStart == ASSUME Init PROVE LanesInv
<1>1. /\ at = 1 /\ lane = "frozen" /\ attempts = <<>> /\ stage = "audit" /\ step = "idle"
      /\ runs = [l \in {"naive", "frozen"} |-> [c \in Cases |-> <<>>]]
      /\ cache = [k \in Keys |-> NoEntry] /\ asked = [k \in Keys |-> 0]
    BY DEF Init, HarnessInit, HermeticInit
<1>2. <<>> \in Seq(Responses) /\ Len(<<>>) = 0
    OBVIOUS
<1>3. \A l \in Dynamic, c \in Cases : runs[l][c] = <<>>
    BY <1>1 DEF Dynamic
<1>4. HarnessTypes
    BY <1>1, <1>2, <1>3, CasesFacts DEF HarnessTypes, Dynamic
<1>5. AskedOnce /\ RunBegun /\ NotBefore
    BY <1>1 DEF AskedOnce, RunBegun, NotBefore, Begins
<1>6. RunsMade
    BY <1>3 DEF RunsMade, RunIsOver
<1>7. InOrder
    BY <1>1, CasesFacts DEF InOrder
<1> QED BY <1>4, <1>5, <1>6, <1>7 DEF LanesInv

\* A step of the evaluation that is none of a lane.
LEMMA LanesRest ==
    ASSUME LanesInv, UNCHANGED <<step, at, lane, attempts, runs, cache, asked>>,
           stage' = stage \/ stage \notin {"lanes", "raised"},
           stage' \in Early => stage \in Early,
           stage' \in {"predictions", "score", "build"} =>
               stage \in {"predictions", "score", "build"}
    PROVE  LanesInv'
<1>1. HarnessTypes'
    BY DEF LanesInv, HarnessTypes
<1>2. AskedOnce'
    BY DEF LanesInv, AskedOnce, Case, Key, Question
<1>3. RunsMade' /\ RunBegun'
    BY DEF LanesInv, RunsMade, RunIsOver, RunBegun, Begins, Case
<1>4. InOrder' /\ NotBefore'
    BY DEF LanesInv, InOrder, AllMade, NotBefore, Case
<1> QED BY <1>1, <1>2, <1>3, <1>4 DEF LanesInv

LEMMA DockerStaysBusy ==
    ASSUME Docker \/ Rival
    PROVE  step # "idle" /\ step' # "idle"
BY DEF Docker, Rival, Finds, Removes, Escapes, InspectsBefore, InspectsAfter, Settles, Launches,
       Refuses, FailsToRun, Ends, IsCut, IsRemoved, Ran, RivalRemoves, RivalLaunches

\* The key of a question, and what it is when the run begins.
LEMMA KeyIsOne ==
    ASSUME LanesInv, Case \in Twins
    PROVE  Key \in Keys /\ (attempts = <<>> => Key = <<Case, "rerun">>)
BY DEF Key, Keys, Questions, Question

LEMMA AsksHistoryKeeps == ASSUME LanesInv, AsksHistory PROVE LanesInv'
<1>1. /\ stage = "lanes" /\ Case \in Historical /\ Learns(Reproduced)
      /\ UNCHANGED <<step, cache, asked>>
    BY DEF AsksHistory, hermeticVars
<1>2. step = "idle"
    BY <1>1, CasesFacts DEF LanesInv, AskedOnce
<1>3. /\ at' \in 1..Len(Order) /\ lane' \in Dynamic
      /\ attempts' \in Seq(Responses) /\ Len(attempts') <= 1
      /\ runs' \in [Dynamic -> [Cases -> Seq(Responses)]]
      /\ \A l \in Dynamic, c \in Cases : Len(runs'[l][c]) <= 2
      /\ stage' \in {"lanes", "predictions"}
      /\ RunsMade' /\ RunBegun' /\ InOrder'
    BY <1>1, LearnsKeeps, ResponsesAreEntries DEF Grows
<1>4. HarnessTypes'
    BY <1>1, <1>3 DEF LanesInv, HarnessTypes
<1>5. AskedOnce'
    BY <1>1, <1>2 DEF LanesInv, AskedOnce
<1>6. NotBefore'
    BY <1>3 DEF NotBefore, Early
<1> QED BY <1>3, <1>4, <1>5, <1>6 DEF LanesInv

LEMMA AsksCacheKeeps == ASSUME LanesInv, AsksCache PROVE LanesInv'
<1>1. /\ stage = "lanes" /\ Case \in Twins /\ cache[Key] # NoEntry /\ Learns(cache[Key])
      /\ UNCHANGED <<step, cache, asked>>
    BY DEF AsksCache, hermeticVars
<1>2. step = "idle"
    BY <1>1 DEF LanesInv, AskedOnce
<1>3. cache[Key] \in Responses /\ Case \notin Historical
      /\ (attempts = <<>> => cache[Key] = cache'[<<Case, "rerun">>])
    BY <1>1, KeyIsOne, CasesFacts DEF LanesInv, HarnessTypes
<1>4. /\ at' \in 1..Len(Order) /\ lane' \in Dynamic
      /\ attempts' \in Seq(Responses) /\ Len(attempts') <= 1
      /\ runs' \in [Dynamic -> [Cases -> Seq(Responses)]]
      /\ \A l \in Dynamic, c \in Cases : Len(runs'[l][c]) <= 2
      /\ stage' \in {"lanes", "predictions"}
      /\ RunsMade' /\ RunBegun' /\ InOrder'
    BY <1>1, <1>3, LearnsKeeps DEF Grows
<1>5. HarnessTypes'
    BY <1>1, <1>4 DEF LanesInv, HarnessTypes
<1>6. AskedOnce'
    BY <1>1, <1>2 DEF LanesInv, AskedOnce
<1>7. NotBefore'
    BY <1>4 DEF NotBefore, Early
<1> QED BY <1>4, <1>5, <1>6, <1>7 DEF LanesInv

LEMMA AsksContainersKeeps == ASSUME LanesInv, AsksContainers PROVE LanesInv'
<1>1. /\ stage = "lanes" /\ Case \in Twins /\ cache[Key] = NoEntry
      /\ step = "idle" /\ step' = "which" /\ asked' = [asked EXCEPT ![Key] = @ + 1]
      /\ UNCHANGED <<stage, at, lane, attempts, runs, cache>>
    BY DEF AsksContainers, Executes
<1>2. Key \in Keys /\ Key' = Key /\ Case' = Case
    BY <1>1, KeyIsOne DEF Key, Case, Question
<1>3. asked \in [Keys -> Nat] /\ asked[Key] = 0
    BY <1>1, <1>2 DEF LanesInv, HarnessTypes, AskedOnce
<1>4. asked' \in [Keys -> Nat] /\ \A k \in Keys : asked'[k] = IF k = Key THEN 1 ELSE asked[k]
    BY <1>1, <1>2, <1>3
<1>5. HarnessTypes'
    BY <1>1, <1>4 DEF LanesInv, HarnessTypes
<1>6. AskedOnce'
    BY <1>1, <1>2, <1>4 DEF LanesInv, AskedOnce
<1>7. RunsMade' /\ RunBegun' /\ InOrder'
    BY <1>1 DEF LanesInv, RunsMade, RunIsOver, RunBegun, Begins, InOrder, AllMade, Case
<1>8. NotBefore'
    BY <1>1 DEF NotBefore, Early
<1> QED BY <1>5, <1>6, <1>7, <1>8 DEF LanesInv

LEMMA HearsKeeps == ASSUME ExecutorInv, LanesInv, Hears PROVE LanesInv'
<1>1. /\ stage = "lanes" /\ step = "respond" /\ step' = "idle"
      /\ cache' = [cache EXCEPT ![Key] = Response] /\ Learns(Response) /\ asked' = asked
    BY DEF Hears, Returned, Entry
<1>2. Case \in Twins /\ cache[Key] = NoEntry /\ Response \in Responses
    BY <1>1, ResponseIsOne DEF LanesInv, AskedOnce
<1>3. Key \in Keys /\ (attempts = <<>> => Key = <<Case, "rerun">>) /\ Case \notin Historical
    BY <1>2, KeyIsOne, CasesFacts
<1>4. /\ cache \in [Keys -> Responses \cup {NoEntry}]
      /\ cache' \in [Keys -> Responses \cup {NoEntry}]
      /\ \A k \in Keys : cache'[k] = IF k = Key THEN Response ELSE cache[k]
    BY <1>1, <1>2, <1>3 DEF LanesInv, HarnessTypes
<1>5. Grows /\ (attempts = <<>> => Response = cache'[<<Case, "rerun">>])
    BY <1>2, <1>3, <1>4 DEF Grows
<1>6. /\ at' \in 1..Len(Order) /\ lane' \in Dynamic
      /\ attempts' \in Seq(Responses) /\ Len(attempts') <= 1
      /\ runs' \in [Dynamic -> [Cases -> Seq(Responses)]]
      /\ \A l \in Dynamic, c \in Cases : Len(runs'[l][c]) <= 2
      /\ stage' \in {"lanes", "predictions"}
      /\ RunsMade' /\ RunBegun' /\ InOrder'
    BY <1>1, <1>2, <1>3, <1>5, LearnsKeeps
<1>7. HarnessTypes'
    BY <1>1, <1>4, <1>6 DEF LanesInv, HarnessTypes
<1>8. AskedOnce'
    BY <1>1, <1>2, <1>4, ResponsesAreEntries DEF LanesInv, AskedOnce
<1>9. NotBefore'
    BY <1>6 DEF NotBefore, Early
<1> QED BY <1>6, <1>7, <1>8, <1>9 DEF LanesInv

\* Docker works, or somebody else does.
LEMMA DockerKeepsLanes ==
    ASSUME LanesInv, Docker \/ Rival, UNCHANGED harnessVars
    PROVE  LanesInv'
<1>1. step # "idle" /\ step' # "idle" /\ UNCHANGED <<stage, at, lane, attempts, runs, cache, asked>>
    BY DockerStaysBusy DEF harnessVars
<1>2. HarnessTypes'
    BY <1>1 DEF LanesInv, HarnessTypes
<1>3. AskedOnce'
    BY <1>1 DEF LanesInv, AskedOnce, Case, Key, Question
<1>4. RunsMade' /\ RunBegun' /\ InOrder'
    BY <1>1 DEF LanesInv, RunsMade, RunIsOver, RunBegun, Begins, InOrder, AllMade, Case
<1>5. NotBefore'
    BY <1>1 DEF LanesInv, NotBefore
<1> QED BY <1>2, <1>3, <1>4, <1>5 DEF LanesInv

LEMMA FallsKeepsLanes == ASSUME LanesInv, Falls PROVE LanesInv'
<1>1. /\ stage = "lanes" /\ stage' = "raised"
      /\ UNCHANGED <<step, at, lane, attempts, runs, cache, asked>>
    BY DEF Falls, hermeticVars
<1>2. HarnessTypes'
    BY <1>1 DEF LanesInv, HarnessTypes
<1>3. AskedOnce'
    BY <1>1 DEF LanesInv, AskedOnce, Case, Key, Question
<1>4. RunsMade' /\ RunBegun' /\ InOrder'
    BY <1>1 DEF LanesInv, RunsMade, RunIsOver, RunBegun, Begins, InOrder, AllMade, Case
<1>5. NotBefore'
    BY <1>1 DEF NotBefore, Early
<1> QED BY <1>2, <1>3, <1>4, <1>5 DEF LanesInv

LEMMA LanesStep == ASSUME ExecutorInv, LanesInv, [Next]_vars PROVE LanesInv'
<1>1. CASE Lane
    BY <1>1, AsksHistoryKeeps, AsksCacheKeeps, AsksContainersKeeps, HearsKeeps, FallsKeepsLanes,
       DockerKeepsLanes
    DEF Lane, DockerWorks
<1>2. CASE RivalWorks
    BY <1>2, DockerKeepsLanes DEF RivalWorks
<1>3. CASE UNCHANGED <<hermeticVars, harnessVars>>
  <2>1. UNCHANGED <<step, stage, at, lane, attempts, runs, cache, asked>>
    BY <1>3 DEF hermeticVars, harnessVars
  <2> QED BY <2>1, LanesRest
<1>4. CASE Evaluation /\ ~Lane
  <2>1. UNCHANGED <<step, at, lane, attempts, runs, cache, asked>>
    BY <1>4
    DEF Evaluation, Audits, InspectsDocker, Reconstructs, LoadsCases, EnsuresImage, Constructs,
        ReadsPredictions, Scores, Builds, Gate, Raises, Stays, hermeticVars
  <2>2. /\ stage \notin {"lanes", "raised"}
        /\ stage' \in Early => stage \in Early
        /\ stage' \in {"predictions", "score", "build"} =>
               stage \in {"predictions", "score", "build"}
    <3>1. CASE Audits
        BY <3>1 DEF Audits, Gate, Raises, Early
    <3>2. CASE InspectsDocker \/ Reconstructs \/ LoadsCases \/ EnsuresImage \/ Constructs
        BY <3>2
        DEF InspectsDocker, Reconstructs, LoadsCases, EnsuresImage, Constructs, Gate, Raises, Early
    <3>3. CASE ReadsPredictions \/ Scores
        BY <3>3 DEF ReadsPredictions, Scores, Early
    <3>4. CASE Builds
      <4>1. stage = "build" /\ stage' \in {"done", "raised"}
        BY <3>4 DEF Builds
      <4> QED BY <4>1 DEF Early
    <3> QED BY <1>4, <3>1, <3>2, <3>3, <3>4 DEF Evaluation
  <2> QED BY <2>1, <2>2, LanesRest
<1>5. CASE Environment
    BY <1>2, <1>3, <1>5 DEF Environment, EditsWorkspace, LosesReference, EditsLabels
<1>6. CASE Over \/ UNCHANGED vars
    BY <1>3, <1>6 DEF Over, vars
<1> QED BY <1>1, <1>4, <1>5, <1>6 DEF Next

\* OpaqueSafetyExecutor._cache with the order of the lanes: containers are run once
\* for each question to each case, and both lanes start from the same response, an
\* error included, for every number of cases.
THEOREM BaselineIsShared == Spec => []LanesShareBaseline
<1>1. Init => ExecutorInv /\ LanesInv
    BY ExecutorStarts, LanesStart DEF Init, HarnessInit
<1>2. ExecutorInv /\ LanesInv /\ [Next]_vars => (ExecutorInv /\ LanesInv)'
    BY ExecutorStep, LanesStep
<1>3. LanesInv => LanesShareBaseline
  <2> SUFFICES ASSUME LanesInv PROVE LanesShareBaseline
    OBVIOUS
  <2>1. \A k \in Keys : asked[k] <= 1
    BY DEF LanesInv, AskedOnce
  <2>2. ASSUME NEW c \in Cases, runs["frozen"][c] # <<>>, runs["naive"][c] # <<>>
        PROVE  runs["naive"][c][1] = runs["frozen"][c][1]
    <3>1. \A l \in Dynamic : RunIsOver(l, c, runs[l][c])
        BY DEF LanesInv, RunsMade
    <3>2. Begins(c, runs["frozen"][c]) /\ Begins(c, runs["naive"][c])
        BY <2>2, <3>1 DEF Dynamic, RunIsOver
    <3> QED BY <2>2, <3>2 DEF Begins
  <2> QED BY <2>1, <2>2 DEF LanesShareBaseline
<1> QED BY <1>1, <1>2, <1>3, PTL DEF Spec

-----------------------------------------------------------------------------
(* Counting *)

LEMMA CasesAreFinite ==
    /\ IsFiniteSet(Cases) /\ IsFiniteSet(Historical) /\ IsFiniteSet(Twins)
    /\ Cardinality(Cases) = Len(Order) /\ Len(Order) \in Nat \ {0}
    /\ IsFiniteSet(Ambiguous) /\ Cardinality(Ambiguous) = 1 /\ Ambiguous \subseteq Historical
<1>1. Order \in [1..Len(Order) -> Cases] /\ Len(Order) \in Nat
    BY CasesAssumption, LenProperties, Zenon
<1>2. Order \in Surjection(1..Len(Order), Cases)
    BY <1>1 DEF Surjection, Cases
<1>3. IsFiniteSet(1..Len(Order))
    BY <1>1, FS_Interval
<1>4. IsFiniteSet(Cases)
    BY <1>2, <1>3, FS_Surjection, Zenon
<1>5. Historical \in SUBSET Cases /\ Twins \in SUBSET Cases
    BY CasesAssumption DEF Historical
<1>6. IsFiniteSet(Historical) /\ IsFiniteSet(Twins)
    BY <1>4, <1>5, FS_Subset
<1>7. Len(Order) # 0
    BY CasesFacts
<1>8. PICK c \in Historical : Ambiguous = {c}
    BY CasesAssumption
<1> QED BY <1>1, <1>4, <1>6, <1>7, <1>8, FS_Singleton, CasesAssumption

\* No case is named twice.
LEMMA NamedOnce ==
    \A i, j \in 1..Len(Order) : Order[i] = Order[j] => i = j
<1>1. Order \in [1..Len(Order) -> Cases] /\ Len(Order) \in Nat
    BY CasesAssumption, LenProperties, Zenon
<1>2. Order \in Surjection(1..Len(Order), Cases)
    BY <1>1 DEF Surjection, Cases
<1>3. IsFiniteSet(1..Len(Order)) /\ Cardinality(1..Len(Order)) = Len(Order)
  <2>1. IsFiniteSet(1..Len(Order))
    BY <1>1, FS_Interval
  <2>2. Cardinality(1..Len(Order)) = IF 1 > Len(Order) THEN 0 ELSE Len(Order) - 1 + 1
    BY <1>1, FS_Interval
  <2> QED BY <1>1, <2>1, <2>2
<1>4. Cardinality(Cases) = Cardinality(1..Len(Order))
    BY <1>3, CasesAssumption
<1>5. Order \in Injection(1..Len(Order), Cases)
    BY <1>2, <1>3, <1>4, FS_Surjection, Zenon
<1> QED BY <1>5 DEF Injection, IsInjective

\* No part is larger than the whole.
LEMMA PartOf ==
    ASSUME NEW S, IsFiniteSet(S), NEW T, T \subseteq S
    PROVE  Cardinality(T) \in Nat /\ Cardinality(S) \in Nat /\ Cardinality(T) <= Cardinality(S)
BY FS_Subset, FS_CardinalityType

\* A metric that the contract accepts.
IsRate(n, d) == n <= d /\ (d = 0 => n = 0)

\* score_canonical_lanes: no metric counts more than there is to count.
LEMMA MetricsAreRates ==
    ASSUME NEW rs, NEW l \in Lanes, NEW ambiguous \in {Ambiguous, {}}
    PROVE  \A m \in DOMAIN Metrics(rs, l, ambiguous) :
             LET v == Metrics(rs, l, ambiguous)[m] IN v[1] <= v[2] /\ (v[2] = 0 => v[1] = 0)
<1> DEFINE Resolved == {c \in Historical : Resolves(rs, l, c, ambiguous)}
           Blamed == {c \in Historical : Induced(rs, l, c) = "yes"}
           Left == {c \in ambiguous : ~Claims(rs, l, c)}
           Abstaining == {t \in Twins : Abstains(rs, l, t)}
           Accusing == {t \in Twins : Claims(rs, l, t)}
<1>1. IsRate(Cardinality(Resolved), Cardinality(Historical))
  <2>1. Resolved \subseteq Historical
    OBVIOUS
  <2> HIDE DEF Resolved
  <2> QED BY <2>1, CasesAreFinite, PartOf DEF IsRate
<1>2. IsRate(Cardinality(Blamed), Cardinality(Historical))
  <2>1. Blamed \subseteq Historical
    OBVIOUS
  <2> HIDE DEF Blamed
  <2> QED BY <2>1, CasesAreFinite, PartOf DEF IsRate
<1>3. IsRate(Cardinality(Left), 1)
  <2>1. Left \subseteq Ambiguous
    OBVIOUS
  <2> HIDE DEF Left
  <2> QED BY <2>1, CasesAreFinite, PartOf DEF IsRate
<1>4. IsRate(Cardinality(Abstaining), Cardinality(Twins))
  <2>1. Abstaining \subseteq Twins
    OBVIOUS
  <2> HIDE DEF Abstaining
  <2> QED BY <2>1, CasesAreFinite, PartOf DEF IsRate
<1>5. IsRate(Cardinality(Accusing), Cardinality(Twins))
  <2>1. Accusing \subseteq Twins
    OBVIOUS
  <2> HIDE DEF Accusing
  <2> QED BY <2>1, CasesAreFinite, PartOf DEF IsRate
<1>6. IsRate(Cardinality(Useful(rs, l)), Cardinality(Made(rs, l)))
  <2>1. Made(rs, l) \subseteq Cases \X {1, 2} /\ Useful(rs, l) \subseteq Made(rs, l)
    BY DEF Made, Useful
  <2>2. IsFiniteSet({1, 2})
    <3>1. IsFiniteSet({1} \cup {2})
        BY FS_Singleton, FS_AddElement, Zenon
    <3>2. {1, 2} = {1} \cup {2}
        OBVIOUS
    <3> QED BY <3>1, <3>2, Zenon
  <2>3. IsFiniteSet(Cases \X {1, 2})
    BY <2>2, CasesAreFinite, FS_Product
  <2>4. IsFiniteSet(Made(rs, l))
    BY <2>1, <2>3, FS_Subset
  <2> QED BY <2>1, <2>4, PartOf DEF IsRate
<1>7. IsRate(IF NamesRoot(rs, l, CrossCase) THEN 1 ELSE 0, 1)
    BY DEF IsRate
<1>8. Metrics(rs, l, ambiguous) =
        [historical_positive_resolution |-> <<Cardinality(Resolved), Cardinality(Historical)>>,
         candidate_induced_correctness |-> <<Cardinality(Blamed), Cardinality(Historical)>>,
         cross_repository_resolution |->
            <<IF NamesRoot(rs, l, CrossCase) THEN 1 ELSE 0, 1>>,
         semantic_ambiguity_handling |-> <<Cardinality(Left), 1>>,
         safety_abstention_recall |-> <<Cardinality(Abstaining), Cardinality(Twins)>>,
         premature_owner_accusations |-> <<Cardinality(Accusing), Cardinality(Twins)>>,
         useful_experiment_rate |-> <<Cardinality(Useful(rs, l)), Cardinality(Made(rs, l))>>]
    BY DEF Metrics
<1> HIDE DEF Resolved, Blamed, Left, Abstaining, Accusing
<1> QED BY <1>1, <1>2, <1>3, <1>4, <1>5, <1>6, <1>7, <1>8 DEF IsRate

\* What the lanes have scored satisfies the contract.
LEMMA FinalIsValid == ASSUME Scored PROVE Valid(FinalResult)
<1>1. PICK amb \in {Ambiguous, {}} : scored = Score(runs, amb)
    BY DEF Scored
<1>2. /\ FinalResult.executed = Len(Order) /\ FinalResult.blocked = <<>>
      /\ FinalResult.provenance = "digests" /\ FinalResult.predictions = Predictions(runs)
      /\ \A l \in Lanes : /\ FinalResult.lanes[l].status = "EXECUTED"
                          /\ FinalResult.lanes[l].metrics = Metrics(runs, l, amb)
    BY <1>1 DEF FinalResult, Score
<1>3. /\ FinalResult.executed + Len(FinalResult.blocked) = Len(Order)
      /\ DOMAIN FinalResult.blocked = {}
    BY <1>2, CasesAreFinite
<1>4. \A l \in Lanes : \A m \in DOMAIN FinalResult.lanes[l].metrics :
        LET v == FinalResult.lanes[l].metrics[m] IN v[1] <= v[2] /\ (v[2] = 0 => v[1] = 0)
  <2>1. ASSUME NEW l \in Lanes
        PROVE  \A m \in DOMAIN Metrics(runs, l, amb) :
                 LET v == Metrics(runs, l, amb)[m] IN v[1] <= v[2] /\ (v[2] = 0 => v[1] = 0)
    BY <1>1, <2>1, MetricsAreRates, Zenon
  <2> QED BY <1>2, <2>1
<1>5. \A l \in Lanes : DOMAIN FinalResult.predictions[l] = Cases
    BY <1>2 DEF Predictions
<1>6. \A i \in DOMAIN FinalResult.blocked : FALSE
    BY <1>3
<1>7. \A l \in Lanes : FinalResult.lanes[l].status = "EXECUTED"
    BY <1>2
<1> QED BY <1>2, <1>3, <1>4, <1>5, <1>6, <1>7, Zenon DEF Valid

\* A result of nothing that was executed satisfies it too, if the suite names its cases.
LEMMA BlockedIsValid ==
    ASSUME NEW status \in {"INVALID", "BLOCKED"}
    PROVE  Valid(BlockedResult(status, Order, "digests"))
<1> DEFINE r == BlockedResult(status, Order, "digests")
<1>1. /\ r.executed = 0 /\ r.blocked = Order /\ r.status # "COMPLETED" /\ r.provenance = "digests"
      /\ \A l \in Lanes : r.lanes[l].metrics = NoMetrics /\ DOMAIN r.predictions[l] = Cases
    BY DEF BlockedResult, NotExecuted
<1>2. \A m \in DOMAIN NoMetrics : NoMetrics[m] = <<0, 0>>
    BY DEF NoMetrics
<1>3. DOMAIN Order = 1..Len(Order)
    BY CasesAssumption
<1>4. \A i \in DOMAIN Order : /\ Order[i] \in Cases
                             /\ \A j \in DOMAIN Order : Order[i] = Order[j] => i = j
    BY <1>3, CasesFacts, NamedOnce, Zenon
<1> HIDE DEF r
<1>5. r.executed + Len(r.blocked) = Len(Order)
    BY <1>1, CasesAreFinite
<1>6. \A l \in Lanes : \A m \in DOMAIN r.lanes[l].metrics :
        LET v == r.lanes[l].metrics[m] IN v[1] <= v[2] /\ (v[2] = 0 => v[1] = 0)
    BY <1>1, <1>2
<1>7. Valid(r)
    BY <1>1, <1>4, <1>5, <1>6, Zenon DEF Valid
<1> QED BY <1>7 DEF r

\* A sound suite lists its own cases, with the digests of its labels.
LEMMA SoundSuiteNames ==
    ASSUME NEW ids \in Listings, NEW provenance \in Provenances, SoundSuite \in holds
    PROVE  Listed(ids) = Order /\ provenance = "digests"
BY DEF Listings, Provenances, Listed

-----------------------------------------------------------------------------
(* The evaluation *)

\* What a result says depends on the runs, their score and the world only.
LEMMA SameResult ==
    ASSUME UNCHANGED <<runs, scored, holds>>
    PROVE  /\ FinalResult' = FinalResult
           /\ Scored' = Scored /\ AllMade' = AllMade
           /\ \A status, ids, provenance :
                BlockedResult(status, ids, provenance)' = BlockedResult(status, ids, provenance)
<1>1. FinalResult' = FinalResult
    BY DEF FinalResult, Comparison, EqualsReference
<1>2. Scored' = Scored /\ AllMade' = AllMade
    BY DEF Scored, AllMade
<1>3. NotExecuted' = NotExecuted
    BY DEF NotExecuted, NoMetrics
<1>4. ASSUME NEW status, NEW ids, NEW provenance
      PROVE  BlockedResult(status, ids, provenance)' = BlockedResult(status, ids, provenance)
    BY <1>3 DEF BlockedResult
<1> QED BY <1>1, <1>2, <1>3, <1>4

\* A step that leaves result and world alone, on the way to a stage with the facts
\* that it asks for.
LEMMA EvaluationGoesOn ==
    ASSUME EvaluationInv, stage # "done", stage' \in Stages \ {"done", "build"},
           Found(stage') \subseteq holds, UNCHANGED <<holds, labels, result>>
    PROVE  EvaluationInv'
BY DEF EvaluationInv, Found

\* A gate stays shut, or an audit finds a flaw, before anything is asked for.
LEMMA EvaluationIsBlocked ==
    ASSUME LanesInv, EvaluationInv, stage \in Early, stage' = "done",
           NEW status, NEW ids, NEW provenance,
           result' = BlockedResult(status, ids, provenance),
           NamedRightly(status, ids, provenance),
           UNCHANGED <<holds, labels, scored, runs, asked>>
    PROVE  EvaluationInv'
<1>1. \A k \in Keys : asked'[k] = 0
    BY DEF LanesInv, NotBefore
<1>2. result' = BlockedResult(status, ids, provenance)' /\ NamedRightly(status, ids, provenance)'
    BY SameResult DEF NamedRightly
<1>3. Ending'
    BY <1>1, <1>2 DEF Ending, NothingRan
<1>4. Found(stage') = {} /\ stage' \in Stages
    BY DEF Found, Stages
<1> QED BY <1>3, <1>4 DEF EvaluationInv

\* A gate opens on the fact that it asks for, or shuts.
LEMMA GateKeeps ==
    ASSUME LanesInv, EvaluationInv, NEW from \in Early, NEW fact \in Facts, NEW to,
           Gate(from, fact, to), to \in Stages \ {"done", "build"},
           Found(to) \subseteq Found(from) \cup {fact}
    PROVE  EvaluationInv'
<1>1. stage = from /\ UNCHANGED <<holds, labels, scored, runs, asked>>
    BY DEF Gate, Stays
<1>2. CASE fact \in holds
  <2>1. stage' = to /\ result' = result
    BY <1>2 DEF Gate
  <2>2. stage # "done"
    BY <1>1 DEF Early
  <2> QED BY <1>1, <1>2, <2>1, <2>2, EvaluationGoesOn DEF EvaluationInv
<1>3. CASE fact \notin holds
  <2>1. stage' = "done" /\ result' = BlockedResult("BLOCKED", Order, "digests")
    BY <1>3 DEF Gate
  <2>2. NamedRightly("BLOCKED", Order, "digests")
    BY DEF NamedRightly
  <2> QED BY <1>1, <2>1, <2>2, EvaluationIsBlocked
<1> QED BY <1>2, <1>3

LEMMA RaisesKeeps ==
    ASSUME EvaluationInv, NEW from \in Early, Raises(from)
    PROVE  EvaluationInv'
<1>1. stage # "done" /\ stage' = "raised" /\ UNCHANGED <<holds, labels, result>>
    BY DEF Raises, Stays, Early
<1>2. Found(stage') = {} /\ stage' \in Stages \ {"done", "build"}
    BY <1>1 DEF Found, Stages
<1> QED BY <1>1, <1>2, EvaluationGoesOn

LEMMA AuditsKeeps == ASSUME LanesInv, EvaluationInv, Audits PROVE EvaluationInv'
<1>1. CASE Raises("audit")
    BY <1>1, RaisesKeeps DEF Early
<1>2. CASE AuditedFacts \subseteq holds /\ Gate("audit", HistoricalArtifacts, "inspect")
  <2>1. stage = "audit" /\ UNCHANGED <<holds, labels, scored, runs, asked>>
    BY <1>2 DEF Gate, Stays
  <2>2. CASE HistoricalArtifacts \in holds
    <3>1. stage' = "inspect" /\ result' = result
        BY <1>2, <2>2 DEF Gate
    <3>2. Found(stage') \subseteq holds /\ stage # "done" /\ stage' \in Stages \ {"done", "build"}
        BY <1>2, <2>1, <2>2, <3>1 DEF Found, Stages, AuditedFacts
    <3> QED BY <2>1, <3>1, <3>2, EvaluationGoesOn
  <2>3. CASE HistoricalArtifacts \notin holds
    <3>1. stage \in Early /\ stage' = "done" /\ result' = BlockedResult("BLOCKED", Order, "digests")
        BY <1>2, <2>1, <2>3 DEF Gate, Early
    <3>2. NamedRightly("BLOCKED", Order, "digests")
        BY DEF NamedRightly
    <3> QED BY <2>1, <3>1, <3>2, EvaluationIsBlocked
  <2> QED BY <2>2, <2>3
<1>3. CASE stage = "audit" /\ stage' = "done" /\ TurnsDown /\ UNCHANGED <<holds, scored>> /\ Stays
  <2>1. PICK ids \in Listings, provenance \in Provenances :
          result' = BlockedResult("INVALID", Listed(ids), provenance)
    BY <1>3 DEF TurnsDown
  <2>2. NamedRightly("INVALID", Listed(ids), provenance)
    BY SoundSuiteNames DEF NamedRightly
  <2>3. stage \in Early /\ UNCHANGED <<labels, runs, asked>>
    BY <1>3 DEF Early, Stays
  <2> QED BY <1>3, <2>1, <2>2, <2>3, EvaluationIsBlocked
<1> QED BY <1>1, <1>2, <1>3 DEF Audits

LEMMA GatesKeep ==
    ASSUME LanesInv, EvaluationInv,
           InspectsDocker \/ Reconstructs \/ LoadsCases \/ EnsuresImage \/ Constructs
    PROVE  EvaluationInv'
<1>1. /\ "inspect" \in Early /\ "reconstruct" \in Early /\ "load" \in Early
      /\ "image" \in Early /\ "construct" \in Early
    BY DEF Early
<1>2. {"reconstruct", "load", "image", "construct", "lanes"} \subseteq Stages \ {"done", "build"}
    BY DEF Stages
<1>3. CASE InspectsDocker
  <2>1. Found("reconstruct") \subseteq Found("inspect") \cup {LinuxEngine} /\ LinuxEngine \in Facts
    BY DEF Found, Facts
  <2> QED BY <1>1, <1>2, <1>3, <2>1, GateKeeps DEF InspectsDocker
<1>4. CASE Reconstructs
  <2>1. Found("load") \subseteq Found("reconstruct") \cup {Reconstructed} /\ Reconstructed \in Facts
    BY DEF Found, Facts
  <2> QED BY <1>1, <1>2, <1>4, <2>1, GateKeeps, RaisesKeeps DEF Reconstructs
<1>5. CASE LoadsCases
  <2>1. CASE Raises("load")
    BY <1>1, <2>1, RaisesKeeps
  <2>2. CASE stage = "load" /\ stage' = "image" /\ UNCHANGED <<holds, scored, result>> /\ Stays
    <3>1. Found(stage') = Found(stage)
        BY <2>2 DEF Found
    <3> QED BY <1>2, <2>2, <3>1, EvaluationGoesOn DEF EvaluationInv, Stays
  <2> QED BY <1>5, <2>1, <2>2 DEF LoadsCases
<1>6. CASE EnsuresImage
  <2>1. Found("construct") \subseteq Found("image") \cup {SafetyImage} /\ SafetyImage \in Facts
    BY DEF Found, Facts
  <2> QED BY <1>1, <1>2, <1>6, <2>1, GateKeeps DEF EnsuresImage
<1>7. CASE Constructs
  <2>1. /\ Found("lanes") \subseteq Found("construct") \cup {SealedManifest}
        /\ SealedManifest \in Facts
    BY DEF Found, Facts
  <2> QED BY <1>1, <1>2, <1>7, <2>1, GateKeeps DEF Constructs
<1> QED BY <1>3, <1>4, <1>5, <1>6, <1>7

LEMMA LaneKeepsEvaluation == ASSUME LanesInv, EvaluationInv, Lane PROVE EvaluationInv'
<1>1. stage = "lanes" /\ stage' \in {"lanes", "predictions", "raised"}
  <2>1. ASSUME NEW r, Learns(r), stage = "lanes" PROVE stage' \in {"lanes", "predictions"}
    BY <2>1 DEF Learns, NextTurn, Advances
  <2> QED BY <2>1
      DEF Lane, AsksHistory, AsksCache, AsksContainers, Hears, Falls, DockerWorks, harnessVars
<1>2. UNCHANGED <<holds, labels, result>>
    BY DEF Lane, suiteVars
<1>3. Found(stage') \subseteq Found(stage) /\ stage' \in Stages \ {"done", "build"}
    BY <1>1 DEF Found, Stages
<1> QED BY <1>1, <1>2, <1>3, EvaluationGoesOn DEF EvaluationInv

LEMMA EndKeeps ==
    ASSUME LanesInv, EvaluationInv, ReadsPredictions \/ Scores \/ Builds
    PROVE  EvaluationInv'
<1>1. CASE ReadsPredictions
  <2>1. /\ stage = "predictions" /\ stage' \in {"score", "raised"}
        /\ UNCHANGED <<holds, labels, result>>
    BY <1>1 DEF ReadsPredictions, Stays
  <2>2. Found(stage') \subseteq Found(stage) /\ stage' \in Stages \ {"done", "build"}
    BY <2>1 DEF Found, Stages
  <2> QED BY <2>1, <2>2, EvaluationGoesOn DEF EvaluationInv
<1>2. CASE Scores
  <2>1. /\ stage = "score" /\ stage' \in {"build", "raised"}
        /\ UNCHANGED <<holds, labels, result, runs>>
        /\ stage' = "build" => scored' = Score(runs, AmbiguousNow)
    BY <1>2 DEF Scores, Stays
  <2>2. Found(stage') \subseteq Found(stage) /\ stage' \in Stages \ {"done"}
    BY <2>1 DEF Found, Stages
  <2>3. stage' = "build" => Scored'
    BY <2>1 DEF Scored, AmbiguousNow
  <2> QED BY <2>1, <2>2, <2>3 DEF EvaluationInv
<1>3. CASE Builds
  <2>1. /\ stage = "build" /\ result' = FinalResult
        /\ stage' = IF Valid(result') THEN "done" ELSE "raised"
        /\ UNCHANGED <<holds, labels, scored, runs>>
    BY <1>3 DEF Builds, Stays
  <2>2. Found("build") = Facts \ {SoundReference} /\ Found(stage') = {} /\ stage' \in Stages
    BY <2>1 DEF Found, Stages
  <2>3. CameToEnd'
    <3>1. AllMade /\ Scored /\ Facts \ {SoundReference} \subseteq holds
        BY <2>1, <2>2 DEF LanesInv, InOrder, EvaluationInv
    <3> QED BY <2>1, <3>1, SameResult DEF CameToEnd
  <2>4. stage' = "done"
    BY <2>1, FinalIsValid DEF EvaluationInv
  <2> QED BY <2>1, <2>2, <2>3, <2>4 DEF EvaluationInv, Ending
<1> QED BY <1>1, <1>2, <1>3

LEMMA EnvironmentKeeps == ASSUME EvaluationInv, Environment PROVE EvaluationInv'
<1>1. CASE RivalWorks /\ UNCHANGED suiteVars
  <2>1. stage = "lanes" /\ stage' = stage /\ UNCHANGED <<holds, labels, result>>
    BY <1>1 DEF RivalWorks, harnessVars, suiteVars
  <2>2. stage' \in Stages \ {"done", "build"}
    BY <2>1 DEF Stages
  <2> QED BY <2>1, <2>2, EvaluationGoesOn DEF EvaluationInv
<1>2. CASE EditsWorkspace
  <2>1. /\ stage \in {"inspect", "reconstruct", "load", "image", "construct"} /\ stage' = stage
        /\ holds' = holds \ {SealedManifest} /\ UNCHANGED <<labels, result>>
    BY <1>2 DEF EditsWorkspace, harnessVars
  <2>2. SealedManifest \notin Found(stage)
    BY <2>1
    DEF Found, SealedManifest, SoundSuite, HistoricalArtifacts, LinuxEngine, Reconstructed,
        SafetyImage
  <2> QED BY <2>1, <2>2 DEF EvaluationInv
<1>3. CASE LosesReference
  <2>1. /\ stage = "build" /\ holds' = holds \ {SoundReference}
        /\ UNCHANGED <<stage, labels, scored, result, runs>>
    BY <1>3 DEF LosesReference, harnessVars
  <2>2. Found(stage) = Facts \ {SoundReference}
    BY <2>1 DEF Found
  <2>3. Scored' = Scored
    BY <2>1 DEF Scored
  <2> QED BY <2>1, <2>2, <2>3 DEF EvaluationInv
<1>4. CASE EditsLabels
  <2>1. /\ stage # "done" /\ labels' = "reworded"
        /\ UNCHANGED <<stage, holds, scored, result, runs>>
    BY <1>4 DEF EditsLabels, harnessVars
  <2>2. Scored' = Scored
    BY <2>1 DEF Scored
  <2> QED BY <2>1, <2>2 DEF EvaluationInv
<1> QED BY <1>1, <1>2, <1>3, <1>4 DEF Environment

LEMMA EvaluationRests == ASSUME EvaluationInv, UNCHANGED vars PROVE EvaluationInv'
<1>1. UNCHANGED <<stage, holds, labels, scored, result, runs, asked>>
    BY DEF vars, harnessVars, suiteVars
<1>2. Scored' = Scored /\ Ending' = Ending
    BY <1>1, SameResult DEF Ending, NothingRan, NamedRightly, CameToEnd
<1> QED BY <1>1, <1>2 DEF EvaluationInv

LEMMA SuiteStep == ASSUME SuiteInv, [Next]_vars PROVE SuiteInv'
<1>1. ExecutorInv' /\ LanesInv'
    BY ExecutorStep, LanesStep DEF SuiteInv
<1>2. EvaluationInv'
    BY AuditsKeeps, GatesKeep, LaneKeepsEvaluation, EndKeeps, EnvironmentKeeps, EvaluationRests
    DEF SuiteInv, Next, Evaluation, Over
<1> QED BY <1>1, <1>2 DEF SuiteInv

LEMMA SuiteStarts == ASSUME Init PROVE SuiteInv
<1>1. ExecutorInv /\ LanesInv
    BY ExecutorStarts, LanesStart DEF Init, HarnessInit
<1>2. EvaluationInv
    BY DEF Init, EvaluationInv, Found, Stages
<1> QED BY <1>1, <1>2 DEF SuiteInv

LEMMA SuiteIsInvariant == Spec => []SuiteInv
<1>1. Init => SuiteInv
    BY SuiteStarts
<1>2. SuiteInv /\ [Next]_vars => SuiteInv'
    BY SuiteStep
<1> QED BY <1>1, <1>2, PTL DEF Spec

\* The types of the containers, the lanes and the evaluation, for every suite.
THEOREM SuiteTypes == Spec => []TypeOK
<1>1. SuiteInv => TypeOK
    BY DEF SuiteInv, ExecutorInv, LanesInv, HarnessTypes, EvaluationInv, TypeOK, HarnessTypeOK,
           Dynamic
<1> QED BY <1>1, SuiteIsInvariant, PTL

\* There is a result only at the end, and it says that nothing was run, or what was.
LEMMA ResultIsTheEnd == ASSUME SuiteInv, result # None PROVE Ending
BY DEF SuiteInv, EvaluationInv

LEMMA ExecutedOrNot ==
    ASSUME Ending
    PROVE  \/ result.executed = 0 /\ NothingRan
           \/ result.executed > 0 /\ CameToEnd
<1>1. ASSUME NothingRan PROVE result.executed = 0
  <2>1. PICK status, ids, provenance :
          result = BlockedResult(status, ids, provenance)
    BY <1>1 DEF NothingRan
  <2> QED BY <2>1 DEF BlockedResult
<1>2. ASSUME CameToEnd PROVE result.executed > 0
    BY <1>2, CasesAreFinite DEF CameToEnd, FinalResult
<1> QED BY <1>1, <1>2 DEF Ending

\* evaluate_decisive_suite and result_contract: a result that counts cases as
\* executed came out of an evaluation that found everything its gates ask for, for
\* any other nothing was executed; both satisfy the contract and name each case
\* that was not executed once, unless the suite is unsound and called INVALID.
THEOREM ResultEarned == Spec => []ResultIsEarned
<1>1. ASSUME SuiteInv PROVE ResultIsEarned
  <2> SUFFICES ASSUME result # None
      PROVE  /\ ~Valid(result) => result.status = "INVALID" /\ SoundSuite \notin holds
             /\ result.executed > 0 => Facts \ {SoundReference} \subseteq holds
             /\ result.executed = 0 =>
                  /\ result.status \in {"INVALID", "BLOCKED"} /\ result.lanes = NotExecuted
                  /\ SoundSuite \in holds => result.blocked = Order
                  /\ \A k \in Keys : asked[k] = 0
    BY DEF ResultIsEarned
  <2>1. Ending
    BY <1>1, ResultIsTheEnd
  <2>2. CASE NothingRan
    <3>1. PICK status, ids, provenance :
            /\ result = BlockedResult(status, ids, provenance)
            /\ NamedRightly(status, ids, provenance)
        BY <2>2 DEF NothingRan
    <3>2. /\ result.executed = 0 /\ result.status = status /\ result.lanes = NotExecuted
          /\ result.blocked = ids
        BY <3>1 DEF BlockedResult
    <3>3. /\ status \in {"INVALID", "BLOCKED"}
          /\ Valid(result) \/ (status = "INVALID" /\ SoundSuite \notin holds)
        BY <3>1, BlockedIsValid DEF NamedRightly
    <3>4. SoundSuite \in holds => ids = Order
        BY <3>1 DEF NamedRightly
    <3> QED BY <2>2, <3>2, <3>3, <3>4 DEF NothingRan
  <2>3. CASE CameToEnd
    <3>1. Valid(result)
        BY <2>3, FinalIsValid DEF CameToEnd
    <3>2. result.executed = Len(Order)
        BY <2>3 DEF CameToEnd, FinalResult
    <3> QED BY <2>3, <3>1, <3>2, CasesAreFinite DEF CameToEnd
  <2> QED BY <2>1, <2>2, <2>3 DEF Ending
<1> QED BY <1>1, SuiteIsInvariant, PTL

-----------------------------------------------------------------------------
(* What the score and the comparison say *)

\* The frozen lane accuses nobody: it has no repository to name.
LEMMA FrozenNeverClaims ==
    ASSUME NEW rs, NEW c
    PROVE  ~Claims(rs, "frozen", c) /\ ~NamesRoot(rs, "frozen", c)
BY DEF Claims, NamesRoot, Terminal

\* score_canonical_lanes: with the sealed labels the two mandatory gates and the
\* frozen lane's resolution and abstention are those of every other executed
\* result, whatever the containers did, for every number of cases.
THEOREM FrozenScore == Spec => []FrozenScoreIsFixed
<1>1. ASSUME SuiteInv PROVE FrozenScoreIsFixed
  <2> SUFFICES ASSUME result # None, result.executed > 0, scored = Score(runs, Ambiguous)
      PROVE  /\ result.gates = [scipy |-> FALSE, pandas |-> TRUE]
             /\ LET m == result.lanes["frozen"].metrics IN
                /\ m.historical_positive_resolution[1] = Cardinality(Ambiguous)
                /\ m.safety_abstention_recall = <<Cardinality(Twins), Cardinality(Twins)>>
                /\ m.premature_owner_accusations[1] = 0
    BY DEF FrozenScoreIsFixed
  <2>1. result = FinalResult
    <3>1. Ending
        BY <1>1, ResultIsTheEnd
    <3> QED BY <3>1, ExecutedOrNot DEF CameToEnd
  <2> DEFINE m == Metrics(runs, "frozen", Ambiguous)
  <2>2. result.lanes["frozen"].metrics = m /\ result.gates = Gates(runs, Ambiguous)
    BY <2>1 DEF FinalResult, Score, Lanes
  <2>3. m.historical_positive_resolution[1] = Cardinality(Ambiguous)
    <3>1. {c \in Historical : Resolves(runs, "frozen", c, Ambiguous)} = Ambiguous
        BY FrozenNeverClaims, CasesAreFinite DEF Resolves
    <3> QED BY <3>1 DEF Metrics
  <2>4. m.safety_abstention_recall = <<Cardinality(Twins), Cardinality(Twins)>>
    <3>1. {t \in Twins : Abstains(runs, "frozen", t)} = Twins
        BY FrozenNeverClaims DEF Abstains
    <3> QED BY <3>1 DEF Metrics
  <2>5. m.premature_owner_accusations[1] = 0
    <3>1. {t \in Twins : Claims(runs, "frozen", t)} = {}
        BY FrozenNeverClaims
    <3> QED BY <3>1, FS_EmptySet DEF Metrics
  <2>6. m.cross_repository_resolution[1] = 0 /\ m.semantic_ambiguity_handling[1] = 1
    <3>1. {c \in Ambiguous : ~Claims(runs, "frozen", c)} = Ambiguous
        BY FrozenNeverClaims
    <3> QED BY <3>1, FrozenNeverClaims, CasesAreFinite DEF Metrics
  <2>7. Gates(runs, Ambiguous) = [scipy |-> FALSE, pandas |-> TRUE]
    <3>1. Gates(runs, Ambiguous) =
            [scipy |-> m.cross_repository_resolution[1] = 1,
             pandas |-> m.semantic_ambiguity_handling[1] = 1]
        BY DEF Gates
    <3> HIDE DEF m
    <3>2. (m.cross_repository_resolution[1] = 1) = FALSE
        BY <2>6
    <3>3. (m.semantic_ambiguity_handling[1] = 1) = TRUE
        BY <2>6
    <3> QED BY <3>1, <3>2, <3>3
  <2> QED BY <2>2, <2>3, <2>4, <2>5, <2>7
<1> QED BY <1>1, SuiteIsInvariant, PTL

\* The responses that the outcome and the candidate's part tell apart.
LEMMA YesIsSpecific ==
    ASSUME NEW r \in Responses, r.induced = "yes"
    PROVE  r.outcome = "CANDIDATE_SPECIFIC"
BY DEF Responses, NoResult, Observed

LEMMA ReferenceTwins ==
    ASSUME NEW t \in Twins
    PROVE  /\ t \in Cases /\ t \notin Historical
           /\ t \in Unstable =>
                /\ ReferenceRuns["frozen"][t] = <<Observed("1", "1")>>
                /\ ReferenceRuns["naive"][t] = <<Observed("1", "1"), Observed("1", "1")>>
           /\ t \notin Unstable => \A l \in Dynamic :
                ReferenceRuns[l][t] = <<Observed("0", "1"), Observed("0", "1")>>
<1>1. t \in Cases /\ t \notin Historical
    BY CasesFacts
<1> QED BY <1>1 DEF ReferenceRuns, ReferenceResponse, Dynamic

\* Labels that call no case ambiguous shut a gate that the reference opened.
LEMMA RewordedLabelsShow ==
    ASSUME NEW rs, NEW qs
    PROVE  Score(rs, {}) # Score(qs, Ambiguous)
<1>1. Score(rs, {}).gates.pandas = FALSE
  <2>1. {c \in {} : ~Claims(rs, "frozen", c)} = {}
    OBVIOUS
  <2>2. Metrics(rs, "frozen", {}).semantic_ambiguity_handling[1] = 0
    BY <2>1, FS_EmptySet DEF Metrics
  <2>3. Score(rs, {}).gates.pandas =
          (Metrics(rs, "frozen", {}).semantic_ambiguity_handling[1] = 1)
    BY DEF Score, Gates
  <2>4. (Metrics(rs, "frozen", {}).semantic_ambiguity_handling[1] = 1) = FALSE
    BY <2>2
  <2> QED BY <2>3, <2>4
<1>2. Score(qs, Ambiguous).gates.pandas = TRUE
  <2>1. {c \in Ambiguous : ~Claims(qs, "frozen", c)} = Ambiguous
    BY FrozenNeverClaims
  <2>2. Metrics(qs, "frozen", Ambiguous).semantic_ambiguity_handling[1] = 1
    BY <2>1, CasesAreFinite DEF Metrics
  <2>3. Score(qs, Ambiguous).gates.pandas =
          (Metrics(qs, "frozen", Ambiguous).semantic_ambiguity_handling[1] = 1)
    BY DEF Score, Gates
  <2>4. (Metrics(qs, "frozen", Ambiguous).semantic_ambiguity_handling[1] = 1) = TRUE
    BY <2>2
  <2> QED BY <2>3, <2>4
<1> QED BY <1>1, <1>2

\* compare_reference: an exact match was scored with the sealed labels and stands
\* for runs in which the outcomes that decide were observed, for every suite.
THEOREM MatchPins == Spec => []MatchPinsTheRun
<1>1. ASSUME SuiteInv PROVE MatchPinsTheRun
  <2> SUFFICES ASSUME Matches
      PROVE  /\ \A t \in Unstable : runs["frozen"][t][1].outcome = "BASELINE_NOT_STABLE"
             /\ \A t \in Twins \ Unstable :
                  /\ runs["frozen"][t][2].outcome = "CANDIDATE_SPECIFIC"
                  /\ runs["naive"][t][2].outcome = "CANDIDATE_SPECIFIC"
             /\ scored = Score(runs, Ambiguous)
    BY DEF MatchPinsTheRun
  <2>1. CameToEnd
    <3>1. Ending
        BY <1>1, ResultIsTheEnd DEF Matches
    <3>2. ASSUME NothingRan PROVE FALSE
        <4>1. PICK status, ids, provenance :
                result = BlockedResult(status, ids, provenance)
            BY <3>2 DEF NothingRan
        <4> QED BY <4>1 DEF BlockedResult, Matches
    <3> QED BY <3>1, <3>2 DEF Ending
  <2>2. scored = Score(ReferenceRuns, Ambiguous) /\ Predictions(runs) = Predictions(ReferenceRuns)
    <3>1. Comparison = "EXACT_MATCH"
        BY <2>1 DEF CameToEnd, FinalResult, Matches
    <3> QED BY <3>1 DEF Comparison, EqualsReference
  <2>3. scored = Score(runs, Ambiguous)
    BY <2>1, <2>2, RewordedLabelsShow DEF CameToEnd, Scored
  <2>4. ASSUME NEW l \in Dynamic, NEW c \in Cases
        PROVE  /\ Len(runs[l][c]) = Len(ReferenceRuns[l][c])
               /\ Terminal(l, runs[l][c]).induced = Terminal(l, ReferenceRuns[l][c]).induced
               /\ runs[l][c] \in Seq(Responses) /\ IsOver(l, runs[l][c])
    <3>1. Predictions(runs)[l][c] = Predictions(ReferenceRuns)[l][c]
        BY <2>2
    <3>2. l \in Lanes /\ l # "static"
        BY DEF Dynamic, Lanes
    <3>3. ASSUME NEW rs
          PROVE  /\ Predictions(rs)[l][c].experiments = Len(rs[l][c])
                 /\ Predictions(rs)[l][c].induced = Terminal(l, rs[l][c]).induced
        BY <3>2 DEF Predictions, AttemptsOf, Induced
    <3>4. /\ Len(runs[l][c]) = Len(ReferenceRuns[l][c])
          /\ Terminal(l, runs[l][c]).induced = Terminal(l, ReferenceRuns[l][c]).induced
        BY <3>1, <3>3
    <3>5. runs[l][c] # <<>> /\ RunIsOver(l, c, runs[l][c]) /\ runs[l][c] \in Seq(Responses)
        BY <1>1, <2>1 DEF SuiteInv, LanesInv, RunsMade, HarnessTypes, CameToEnd, AllMade
    <3> QED BY <3>4, <3>5 DEF RunIsOver
  <2>5. ASSUME NEW t \in Unstable
        PROVE  runs["frozen"][t][1].outcome = "BASELINE_NOT_STABLE"
    <3>1. /\ t \in Cases /\ "frozen" \in Dynamic
          /\ ReferenceRuns["frozen"][t] = <<Observed("1", "1")>>
        BY ReferenceTwins, UnstableAssumption DEF Dynamic
    <3>2. Len(runs["frozen"][t]) = 1 /\ IsOver("frozen", runs["frozen"][t])
        BY <2>4, <3>1
    <3> QED BY <3>2 DEF IsOver
  <2>6. ASSUME NEW t \in Twins \ Unstable, NEW l \in Dynamic
        PROVE  runs[l][t][2].outcome = "CANDIDATE_SPECIFIC"
    <3>1. t \in Cases /\ ReferenceRuns[l][t] = <<Observed("0", "1"), Observed("0", "1")>>
        BY ReferenceTwins
    <3>2. Len(runs[l][t]) = 2 /\ runs[l][t] \in Seq(Responses)
        BY <2>4, <3>1
    <3>3. Terminal(l, ReferenceRuns[l][t]).induced = "yes"
        BY <3>1 DEF Terminal, Observed
    <3>4. Terminal(l, runs[l][t]).induced = runs[l][t][2].induced
        BY <3>2 DEF Terminal
    <3>5. runs[l][t][2] \in Responses /\ runs[l][t][2].induced = "yes"
        BY <2>4, <3>1, <3>2, <3>3, <3>4
    <3> QED BY <3>5, YesIsSpecific
  <2> QED BY <2>3, <2>5, <2>6 DEF Dynamic
<1> QED BY <1>1, SuiteIsInvariant, PTL

\* Two evaluations that the score cannot tell apart.
Alike(rs, qs) ==
    \A l \in Lanes, c \in Cases :
        /\ Claims(rs, l, c) = Claims(qs, l, c)
        /\ Induced(rs, l, c) = Induced(qs, l, c)
        /\ Len(AttemptsOf(rs, l, c)) = Len(AttemptsOf(qs, l, c))
        /\ DOMAIN AttemptsOf(rs, l, c) = DOMAIN AttemptsOf(qs, l, c)
        /\ \A i \in DOMAIN AttemptsOf(rs, l, c) :
             AttemptsOf(rs, l, c)[i].useful = AttemptsOf(qs, l, c)[i].useful

LEMMA AlikeMetrics ==
    ASSUME NEW rs, NEW qs, Alike(rs, qs), NEW l \in Lanes
    PROVE  Metrics(rs, l, Ambiguous) = Metrics(qs, l, Ambiguous)
<1>1. /\ Ambiguous \subseteq Historical /\ Historical \subseteq Cases /\ Twins \subseteq Cases
      /\ CrossCase \in Cases
    BY CasesAreFinite, CasesFacts
<1>2. \A c \in Cases : /\ Claims(rs, l, c) = Claims(qs, l, c)
                       /\ Induced(rs, l, c) = Induced(qs, l, c)
    BY DEF Alike
<1>3. \A c \in Cases : NamesRoot(rs, l, c) = NamesRoot(qs, l, c)
    BY <1>2 DEF NamesRoot
<1>4. {c \in Historical : Resolves(rs, l, c, Ambiguous)}
        = {c \in Historical : Resolves(qs, l, c, Ambiguous)}
    BY <1>1, <1>2, <1>3 DEF Resolves
<1>5. {c \in Historical : Induced(rs, l, c) = "yes"}
        = {c \in Historical : Induced(qs, l, c) = "yes"}
    BY <1>1, <1>2
<1>6. {c \in Ambiguous : ~Claims(rs, l, c)} = {c \in Ambiguous : ~Claims(qs, l, c)}
    BY <1>1, <1>2
<1>7. /\ {t \in Twins : Abstains(rs, l, t)} = {t \in Twins : Abstains(qs, l, t)}
      /\ {t \in Twins : Claims(rs, l, t)} = {t \in Twins : Claims(qs, l, t)}
    BY <1>1, <1>2 DEF Abstains
<1>8. Made(rs, l) = Made(qs, l)
    BY DEF Made, Alike
<1>9. Useful(rs, l) = Useful(qs, l)
  <2>1. ASSUME NEW x \in Made(rs, l)
        PROVE  AttemptsOf(rs, l, x[1])[x[2]].useful = AttemptsOf(qs, l, x[1])[x[2]].useful
    BY DEF Made, Alike
  <2> QED BY <1>8, <2>1 DEF Useful
<1>10. (IF NamesRoot(rs, l, CrossCase) THEN 1 ELSE 0)
         = (IF NamesRoot(qs, l, CrossCase) THEN 1 ELSE 0)
    BY <1>1, <1>3
<1> QED BY <1>4, <1>5, <1>6, <1>7, <1>8, <1>9, <1>10, Zenon DEF Metrics

LEMMA AlikeScores ==
    ASSUME NEW rs, NEW qs, Alike(rs, qs)
    PROVE  Score(rs, Ambiguous) = Score(qs, Ambiguous) /\ Predictions(rs) = Predictions(qs)
<1>1. \A l \in Lanes : Metrics(rs, l, Ambiguous) = Metrics(qs, l, Ambiguous)
    BY AlikeMetrics
<1>2. Gates(rs, Ambiguous) = Gates(qs, Ambiguous)
    BY <1>1 DEF Gates, Lanes
<1>3. Score(rs, Ambiguous) = Score(qs, Ambiguous)
    BY <1>1, <1>2 DEF Score
<1>4. Predictions(rs) = Predictions(qs)
    BY DEF Predictions, Alike
<1> QED BY <1>3, <1>4

\* _compare_reference and score_canonical_lanes: an evaluation that is like the
\* reference but for naive probes of unstable twins that failed to execute is
\* complete, with every case executed, and matches exactly, for every suite.
THEOREM ProbeErrorInvisible == Spec => []ProbeErrorIsInvisible
<1>1. ASSUME SuiteInv PROVE ProbeErrorIsInvisible
  <2> DEFINE OrError(l, t) ==
               \/ runs[l][t] = ReferenceRuns[l][t]
               \/ /\ l = "naive" /\ t \in Unstable
                  /\ runs[l][t] = <<ReferenceRuns[l][t][1], NoResult>>
  <2> SUFFICES ASSUME result # None, result.executed > 0,
                      SoundReference \in holds, scored = Score(runs, Ambiguous),
                      \A l \in {"naive", "frozen"}, t \in Twins : OrError(l, t)
      PROVE  result.status = "COMPLETED" /\ Matches
    BY DEF ProbeErrorIsInvisible
  <2>1. CameToEnd
    <3>1. Ending
        BY <1>1, ResultIsTheEnd
    <3> QED BY <3>1, ExecutedOrNot
  <2>2. ASSUME NEW l \in Dynamic, NEW c \in Historical
        PROVE  runs[l][c] = ReferenceRuns[l][c]
    <3>1. c \in Cases /\ runs[l][c] # <<>> /\ RunIsOver(l, c, runs[l][c])
        BY <1>1, <2>1, CasesFacts DEF SuiteInv, LanesInv, RunsMade, CameToEnd, AllMade
    <3>2. runs[l][c] = <<Reproduced, Reproduced>>
        BY <3>1 DEF RunIsOver
    <3>3. ReferenceRuns[l][c] = <<Reproduced, Reproduced>>
        BY <3>1 DEF ReferenceRuns, Dynamic
    <3> QED BY <3>2, <3>3
  <2>3. ASSUME NEW t \in Unstable, runs["naive"][t] = <<ReferenceRuns["naive"][t][1], NoResult>>
        PROVE  /\ runs["naive"][t] = <<Observed("1", "1"), NoResult>>
               /\ ReferenceRuns["naive"][t] = <<Observed("1", "1"), Observed("1", "1")>>
    <3>1. ReferenceRuns["naive"][t] = <<Observed("1", "1"), Observed("1", "1")>>
        BY ReferenceTwins, UnstableAssumption
    <3> QED BY <2>3, <3>1
  <2>4. ASSUME NEW l \in Dynamic, NEW c \in Cases, runs[l][c] # ReferenceRuns[l][c]
        PROVE  /\ l = "naive"
               /\ runs[l][c] = <<Observed("1", "1"), NoResult>>
               /\ ReferenceRuns[l][c] = <<Observed("1", "1"), Observed("1", "1")>>
    <3>1. c \in Twins
        BY <2>2, <2>4, CasesFacts
    <3>2. l = "naive" /\ c \in Unstable /\ runs[l][c] = <<ReferenceRuns[l][c][1], NoResult>>
        BY <2>4, <3>1 DEF Dynamic
    <3> QED BY <2>3, <3>2
  <2>5. Alike(runs, ReferenceRuns)
    <3>1. ASSUME NEW l \in Lanes, NEW c \in Cases
          PROVE  /\ Claims(runs, l, c) = Claims(ReferenceRuns, l, c)
                 /\ Induced(runs, l, c) = Induced(ReferenceRuns, l, c)
                 /\ Len(AttemptsOf(runs, l, c)) = Len(AttemptsOf(ReferenceRuns, l, c))
                 /\ DOMAIN AttemptsOf(runs, l, c) = DOMAIN AttemptsOf(ReferenceRuns, l, c)
                 /\ \A i \in DOMAIN AttemptsOf(runs, l, c) :
                      AttemptsOf(runs, l, c)[i].useful = AttemptsOf(ReferenceRuns, l, c)[i].useful
        <4>1. CASE l = "static"
            BY <4>1 DEF Claims, Induced, AttemptsOf
        <4>2. CASE l # "static" /\ runs[l][c] = ReferenceRuns[l][c]
            BY <4>2 DEF Claims, Induced, AttemptsOf
        <4>3. CASE l # "static" /\ runs[l][c] # ReferenceRuns[l][c]
            <5>1. /\ runs[l][c] = <<Observed("1", "1"), NoResult>>
                  /\ ReferenceRuns[l][c] = <<Observed("1", "1"), Observed("1", "1")>>
                BY <2>4, <4>3 DEF Dynamic, Lanes
            <5> DEFINE a == Observed("1", "1")
            <5>2. /\ a.outcome = "BASELINE_NOT_STABLE" /\ a.induced = "none" /\ a.useful = FALSE
                  /\ NoResult.outcome = "none" /\ NoResult.induced = "none"
                  /\ NoResult.useful = FALSE
                BY DEF Observed, NoResult
            <5> HIDE DEF a
            <5>3. /\ runs[l][c] = <<a, NoResult>> /\ ReferenceRuns[l][c] = <<a, a>>
                BY <5>1 DEF a
            <5>4. /\ AttemptsOf(runs, l, c) = <<a, NoResult>>
                  /\ AttemptsOf(ReferenceRuns, l, c) = <<a, a>>
                BY <4>3, <5>3 DEF AttemptsOf
            <5>5. /\ Claims(runs, l, c) = Claims(ReferenceRuns, l, c)
                  /\ Induced(runs, l, c) = Induced(ReferenceRuns, l, c)
                BY <4>3, <5>2, <5>3 DEF Claims, Induced, Terminal
            <5>6. /\ Len(<<a, NoResult>>) = 2 /\ Len(<<a, a>>) = 2
                  /\ DOMAIN <<a, NoResult>> = {1, 2} /\ DOMAIN <<a, a>> = {1, 2}
                  /\ <<a, NoResult>>[1] = a /\ <<a, NoResult>>[2] = NoResult
                  /\ <<a, a>>[1] = a /\ <<a, a>>[2] = a
                OBVIOUS
            <5>7. \A i \in {1, 2} : <<a, NoResult>>[i].useful = <<a, a>>[i].useful
                BY <5>2, <5>6
            <5> QED BY <5>4, <5>5, <5>6, <5>7
        <4> QED BY <4>1, <4>2, <4>3
    <3> QED BY <3>1 DEF Alike
  <2>6. EqualsReference(runs, scored)
    BY <2>5, AlikeScores DEF EqualsReference
  <2>7. Comparison = "EXACT_MATCH"
    BY <2>6 DEF Comparison
  <2> QED BY <2>1, <2>7 DEF CameToEnd, FinalResult, Matches
<1> QED BY <1>1, SuiteIsInvariant, PTL

-----------------------------------------------------------------------------
(* The promise of SuiteEvaluation *)

\* The runs that are still to be made.
Ahead ==
    stage \in Early \cup {"lanes"} =>
        /\ \A l \in Dynamic, i \in 1..Len(Order) : at < i => runs[l][Order[i]] = <<>>
        /\ runs["naive"][Case] = <<>>
        /\ lane = "frozen" => runs["frozen"][Case] = <<>>

LEMMA LearnsAhead ==
    ASSUME LanesInv, Ahead, stage = "lanes", NEW r, Learns(r)
    PROVE  Ahead'
<1>1. /\ at \in 1..Len(Order) /\ Len(Order) \in Nat /\ lane \in Dynamic /\ Case = Order[at]
      /\ Case \in Cases /\ runs \in [Dynamic -> [Cases -> Seq(Responses)]]
    BY CasesFacts DEF LanesInv, HarnessTypes, Case
<1>2. /\ \A l \in Dynamic, i \in 1..Len(Order) : at < i => runs[l][Order[i]] = <<>>
      /\ runs["naive"][Case] = <<>>
    BY DEF Ahead
<1>3. CASE ~IsOver(lane, Append(attempts, r))
  <2>1. UNCHANGED <<runs, stage, at, lane>>
    BY <1>3 DEF Learns
  <2> QED BY <2>1 DEF Ahead, Case
<1>4. CASE IsOver(lane, Append(attempts, r))
  <2>1. runs' = [runs EXCEPT ![lane][Case] = Append(attempts, r)] /\ Advances
    BY <1>4 DEF Learns, NextTurn
  <2>2. ASSUME NEW l \in Dynamic, NEW i \in 1..Len(Order), at < i
        PROVE  runs'[l][Order[i]] = <<>>
    <3>1. Order[i] # Case /\ Order[i] \in Cases
        BY <1>1, <2>2, NamedOnce, CasesFacts
    <3>2. runs'[l][Order[i]] = runs[l][Order[i]]
        BY <1>1, <2>1, <3>1
    <3> QED BY <1>2, <2>2, <3>2
  <2>3. CASE lane = "frozen"
    <3>1. lane' = "naive" /\ at' = at
        BY <2>1, <2>3 DEF Advances
    <3>2. runs'["naive"][Case] = <<>>
        BY <1>1, <1>2, <2>1, <2>3 DEF Dynamic
    <3>3. Case' = Case
        BY <3>1 DEF Case
    <3> QED BY <2>2, <3>1, <3>2, <3>3 DEF Ahead
  <2>4. CASE lane = "naive" /\ at < Len(Order)
    <3>1. at' = at + 1 /\ at + 1 \in 1..Len(Order)
        BY <1>1, <2>1, <2>4 DEF Advances
    <3>2. \A l \in Dynamic, i \in 1..Len(Order) : at' < i => runs'[l][Order[i]] = <<>>
        BY <1>1, <2>2, <3>1
    <3>3. \A l \in Dynamic : runs'[l][Order[at + 1]] = <<>>
        BY <1>1, <2>2, <3>1
    <3>4. Case' = Order[at + 1]
        BY <3>1 DEF Case
    <3> QED BY <3>2, <3>3, <3>4 DEF Ahead, Dynamic
  <2>5. CASE lane = "naive" /\ ~(at < Len(Order))
    <3>1. stage' = "predictions"
        BY <2>1, <2>5 DEF Advances
    <3> QED BY <3>1 DEF Ahead, Early
  <2> QED BY <1>1, <2>3, <2>4, <2>5 DEF Dynamic
<1> QED BY <1>3, <1>4

LEMMA AheadStarts == ASSUME Init PROVE Ahead
<1>1. at = 1 /\ runs = [l \in {"naive", "frozen"} |-> [c \in Cases |-> <<>>]]
    BY DEF Init, HarnessInit
<1>2. \A l \in Dynamic, c \in Cases : runs[l][c] = <<>>
    BY <1>1 DEF Dynamic
<1>3. Case \in Cases /\ \A i \in 1..Len(Order) : Order[i] \in Cases
    BY <1>1, CasesFacts DEF Case
<1> QED BY <1>2, <1>3 DEF Ahead, Dynamic

LEMMA AheadRests ==
    ASSUME Ahead, UNCHANGED <<at, lane, runs>>,
           stage' \in Early \cup {"lanes"} => stage \in Early \cup {"lanes"}
    PROVE  Ahead'
BY DEF Ahead, Case

\* A step of a lane takes a response in, or leaves what was heard alone.
LEMMA AheadStep == ASSUME SuiteInv, Ahead, [Next]_vars PROVE Ahead'
<1>1. LanesInv
    BY DEF SuiteInv
<1>2. CASE AsksHistory \/ AsksCache \/ Hears
    BY <1>1, <1>2, LearnsAhead DEF AsksHistory, AsksCache, Hears
<1>3. CASE AsksContainers \/ Falls \/ DockerWorks \/ RivalWorks
  <2>1. UNCHANGED <<at, lane, runs>> /\ stage = "lanes"
    BY <1>3 DEF AsksContainers, Falls, DockerWorks, RivalWorks, harnessVars
  <2> QED BY <2>1, AheadRests
<1>4. CASE Audits \/ InspectsDocker \/ Reconstructs \/ LoadsCases \/ EnsuresImage \/ Constructs
  <2>1. UNCHANGED <<at, lane, runs>> /\ stage \in Early
    BY <1>4
    DEF Audits, InspectsDocker, Reconstructs, LoadsCases, EnsuresImage, Constructs, Gate, Raises,
        Stays, Early
  <2> QED BY <2>1, AheadRests
<1>5. CASE ReadsPredictions \/ Scores
  <2>1. UNCHANGED <<at, lane, runs>> /\ stage' \in {"score", "build", "raised"}
    BY <1>5 DEF ReadsPredictions, Scores, Stays
  <2> QED BY <2>1, AheadRests DEF Early
<1>6. CASE Builds
  <2>1. UNCHANGED <<at, lane, runs>> /\ stage' \in {"done", "raised"}
    BY <1>6 DEF Builds, Stays
  <2> QED BY <2>1, AheadRests DEF Early
<1>7. CASE EditsWorkspace \/ LosesReference \/ EditsLabels \/ Over \/ UNCHANGED vars
  <2>1. UNCHANGED <<at, lane, runs, stage>>
    BY <1>7 DEF EditsWorkspace, LosesReference, EditsLabels, Over, vars, harnessVars
  <2> QED BY <2>1, AheadRests
<1> QED BY <1>2, <1>3, <1>4, <1>5, <1>6, <1>7 DEF Next, Evaluation, Environment, Lane

-----------------------------------------------------------------------------
\* The lane that asks has heard what it has of the case.
LEMMA NowHears ==
    ASSUME LanesInv, Ahead, stage = "lanes"
    PROVE  /\ lane \in Suite!Lanes /\ Case \in Suite!Cases
           /\ Heard[lane][Case] = attempts
           /\ Suite!Wants(lane, Case) /\ Suite!Question(lane, Case) = Key
           /\ Case \in Historical \/ Case \in Twins
<1>1. /\ lane \in {"naive", "frozen"} /\ Case \in Cases /\ Cases = Historical \cup Twins
      /\ attempts \in Seq(Responses) /\ Len(attempts) \in {0, 1}
  <2>1. /\ lane \in {"naive", "frozen"} /\ at \in 1..Len(Order)
        /\ attempts \in Seq(Responses) /\ Len(attempts) <= 1
    BY DEF LanesInv, HarnessTypes, Dynamic
  <2>2. Len(attempts) \in {0, 1}
    <3>1. Len(attempts) \in Nat
        BY <2>1, LenProperties
    <3>2. \A n \in Nat : n <= 1 => n \in {0, 1}
        OBVIOUS
    <3> QED BY <2>1, <3>1, <3>2, Zenon
  <2> QED BY <2>1, <2>2, CasesFacts DEF Case
<1>2. runs[lane][Case] = <<>>
    BY <1>1 DEF Ahead
<1>3. Heard[lane][Case] = attempts
    BY <1>1, <1>2 DEF Heard
<1>4. Len(attempts) = 0 <=> attempts = <<>>
    BY <1>1, EmptySeq
<1>5. attempts # <<>> => ~IsOver(lane, attempts)
    BY DEF LanesInv, RunBegun
<1>6. ~Suite!Enough(lane, Case)
    BY <1>1, <1>3, <1>4, <1>5 DEF Suite!Enough, IsOver, FailedBaselines
<1>7. Phase = "open"
    BY DEF Phase
<1>8. Suite!Question(lane, Case) = Key
    BY <1>1, <1>3, <1>4 DEF Suite!Question, Suite!Follows, Key, Question
<1> QED BY <1>1, <1>3, <1>6, <1>7, <1>8 DEF Suite!Lanes, Suite!Cases, Suite!Wants

\* What is heard changes at one place.
ChangesAt(f, g, l0, c0, v) ==
    /\ f = [l \in Dynamic |-> [c \in Cases |-> f[l][c]]]
    /\ g = [l \in Dynamic |-> [c \in Cases |-> g[l][c]]]
    /\ \A l \in Dynamic, c \in Cases : g[l][c] = IF l = l0 /\ c = c0 THEN v ELSE f[l][c]

LEMMA OneOfMany ==
    ASSUME NEW f, NEW g, NEW l0 \in Dynamic, NEW c0 \in Cases, NEW v, ChangesAt(f, g, l0, c0, v)
    PROVE  g = [f EXCEPT ![l0] = [f[l0] EXCEPT ![c0] = v]]
<1> USE DEF ChangesAt
<1> DEFINE h == [f EXCEPT ![l0] = [f[l0] EXCEPT ![c0] = v]]
<1>1. f[l0] = [c \in Cases |-> f[l0][c]]
    OBVIOUS
<1>2. [f[l0] EXCEPT ![c0] = v] = [c \in Cases |-> IF c = c0 THEN v ELSE f[l0][c]]
    BY <1>1
<1>3. h = [l \in Dynamic |->
            IF l = l0 THEN [c \in Cases |-> IF c = c0 THEN v ELSE f[l0][c]] ELSE f[l]]
    BY <1>2
<1>4. ASSUME NEW l \in Dynamic PROVE g[l] = h[l]
  <2>1. g[l] = [c \in Cases |-> IF l = l0 /\ c = c0 THEN v ELSE f[l][c]]
    OBVIOUS
  <2>2. f[l] = [c \in Cases |-> f[l][c]]
    OBVIOUS
  <2> QED BY <1>3, <2>1, <2>2
<1> HIDE DEF h
<1>5. g = h
    BY <1>3, <1>4
<1> QED BY <1>5 DEF h

\* A response that a lane takes in is told to it, and to nobody else.
LEMMA LearnsTells ==
    ASSUME LanesInv, Ahead, stage = "lanes", NEW r \in Responses, Learns(r),
           RunsMade', UNCHANGED result
    PROVE  Suite!Tells(lane, Case, r)
<1>1. /\ lane \in Dynamic /\ Case \in Cases
      /\ attempts \in Seq(Responses) /\ Append(attempts, r) # <<>>
      /\ runs \in [Dynamic -> [Cases -> Seq(Responses)]]
  <2>1. /\ lane \in Dynamic /\ at \in 1..Len(Order) /\ attempts \in Seq(Responses)
        /\ runs \in [Dynamic -> [Cases -> Seq(Responses)]]
    BY DEF LanesInv, HarnessTypes
  <2>2. Append(attempts, r) # <<>>
    <3>1. Len(Append(attempts, r)) = Len(attempts) + 1 /\ Len(attempts) \in Nat
        BY <2>1, AppendProperties, LenProperties
    <3> QED BY <3>1
  <2> QED BY <2>1, <2>2, CasesFacts DEF Case
<1>2. runs[lane][Case] = <<>>
    BY <1>1 DEF Ahead, Dynamic
<1>3. ASSUME NEW l \in Dynamic, NEW c \in Cases
      PROVE  Heard'[l][c] = IF l = lane /\ c = Case THEN Append(attempts, r) ELSE Heard[l][c]
  <2>1. CASE IsOver(lane, Append(attempts, r))
    <3>1. runs' = [runs EXCEPT ![lane][Case] = Append(attempts, r)] /\ attempts' = <<>>
        BY <2>1 DEF Learns
    <3>2. runs'[l][c] = IF l = lane /\ c = Case THEN Append(attempts, r) ELSE runs[l][c]
        BY <1>1, <1>3, <3>1 DEF Dynamic
    <3>3. Heard'[l][c] = runs'[l][c]
        BY <1>3, <3>1 DEF Heard, Dynamic
    <3> QED BY <1>3, <3>2, <3>3 DEF Heard, Dynamic
  <2>2. CASE ~IsOver(lane, Append(attempts, r))
    <3>1. attempts' = Append(attempts, r) /\ UNCHANGED <<runs, at, lane>>
        BY <2>2 DEF Learns
    <3>2. Case' = Case
        BY <3>1 DEF Case
    <3>3. /\ Heard'[l][c] = IF runs[l][c] = <<>> /\ l = lane /\ c = Case THEN attempts'
                             ELSE runs[l][c]
          /\ Heard[l][c] = IF runs[l][c] = <<>> /\ l = lane /\ c = Case THEN attempts
                            ELSE runs[l][c]
        BY <1>3, <3>1, <3>2 DEF Heard, Dynamic
    <3> QED BY <1>2, <3>1, <3>3
  <2> QED BY <2>1, <2>2
<1>4. Heard[lane][Case] = attempts
    BY NowHears
<1>5. Heard' = [Heard EXCEPT ![lane][Case] = Append(@, r)]
  <2>1. /\ Heard = [l \in Dynamic |-> [c \in Cases |-> Heard[l][c]]]
        /\ Heard' = [l \in Dynamic |-> [c \in Cases |-> Heard'[l][c]]]
    BY DEF Heard, Dynamic
  <2>2. ChangesAt(Heard, Heard', lane, Case, Append(attempts, r))
    BY <1>3, <2>1 DEF ChangesAt
  <2>3. Heard' = [Heard EXCEPT ![lane] = [Heard[lane] EXCEPT ![Case] = Append(attempts, r)]]
    BY <1>1, <2>2, OneOfMany
  <2> QED BY <1>4, <2>3
<1>6. stage' \in {"lanes", "predictions"}
    BY DEF Learns, NextTurn, Advances
<1>7. Phase' = Phase /\ Report' = Report
    BY <1>6 DEF Phase, Report
<1> QED BY <1>5, <1>7 DEF Suite!Tells

\* A lane's question and what it is told.
LEMMA HistoryMaps ==
    ASSUME SuiteInv, SuiteInv', Ahead, AsksHistory, UNCHANGED suiteVars
    PROVE  Suite!Next
<1>1. /\ stage = "lanes" /\ Case \in Historical /\ Learns(Reproduced)
      /\ UNCHANGED <<step, cache, result>>
    BY DEF AsksHistory, hermeticVars, suiteVars
<1>2. LanesInv /\ RunsMade' /\ step = "idle" /\ Reproduced \in Responses
    BY <1>1, CasesFacts, ResponsesAreEntries DEF SuiteInv, LanesInv, AskedOnce
<1>3. Running = {} /\ Running' = {} /\ lane \in Suite!Lanes /\ Suite!Wants(lane, Case)
    BY <1>1, <1>2, NowHears DEF Running
<1>4. Suite!TellsReproduced(lane, Case)
    BY <1>1, <1>2, <1>3, LearnsTells DEF Suite!TellsReproduced
<1> QED BY <1>1, <1>3, <1>4 DEF Suite!Next

LEMMA CacheMaps ==
    ASSUME SuiteInv, SuiteInv', Ahead, AsksCache, UNCHANGED suiteVars
    PROVE  Suite!Next
<1>1. /\ stage = "lanes" /\ Case \in Twins /\ cache[Key] # NoEntry /\ Learns(cache[Key])
      /\ UNCHANGED <<step, cache, result>>
    BY DEF AsksCache, hermeticVars, suiteVars
<1>2. LanesInv /\ RunsMade' /\ step = "idle" /\ cache[Key] \in Responses
    BY <1>1, KeyIsOne DEF SuiteInv, LanesInv, AskedOnce, HarnessTypes
<1>3. /\ Running = {} /\ Running' = {} /\ lane \in Suite!Lanes /\ Suite!Wants(lane, Case)
      /\ Suite!Question(lane, Case) = Key
    BY <1>1, <1>2, NowHears DEF Running
<1>4. Suite!TellsKnown(lane, Case)
    BY <1>1, <1>2, <1>3, LearnsTells DEF Suite!TellsKnown
<1> QED BY <1>1, <1>3, <1>4 DEF Suite!Next

LEMMA ContainersMap ==
    ASSUME SuiteInv, Ahead, AsksContainers, UNCHANGED suiteVars
    PROVE  Suite!Next
<1>1. /\ stage = "lanes" /\ Case \in Twins /\ cache[Key] = NoEntry
      /\ step = "idle" /\ step' = "which"
      /\ UNCHANGED <<stage, at, lane, attempts, runs, cache, result>>
    BY DEF AsksContainers, Executes, suiteVars
<1>2. Key' = Key /\ Case' = Case
    BY <1>1 DEF Key, Case, Question
<1>3. /\ Running = {} /\ Running' = {Key} /\ lane \in Suite!Lanes /\ Suite!Wants(lane, Case)
      /\ Suite!Question(lane, Case) = Key
    BY <1>1, <1>2, NowHears DEF Running, SuiteInv
<1>4. Phase' = Phase /\ Report' = Report /\ Heard' = Heard
    BY <1>1, <1>2 DEF Phase, Report, Heard
<1>5. Suite!Runs(lane, Case)
    BY <1>1, <1>3, <1>4 DEF Suite!Runs
<1> QED BY <1>1, <1>3, <1>5 DEF Suite!Next

LEMMA HearsMaps ==
    ASSUME SuiteInv, SuiteInv', Ahead, Hears, UNCHANGED suiteVars
    PROVE  Suite!Next
<1>1. /\ stage = "lanes" /\ step = "respond" /\ step' = "idle" /\ Learns(Response)
      /\ cache' = [cache EXCEPT ![Key] = Response] /\ result' = result
    BY DEF Hears, Returned, Entry, suiteVars
<1>2. LanesInv /\ RunsMade' /\ Case \in Twins /\ Response \in Responses
    BY <1>1, ResponseIsOne DEF SuiteInv, LanesInv, AskedOnce
<1>3. /\ Running = {Key} /\ Running' = {} /\ lane \in Suite!Lanes
      /\ Suite!Wants(lane, Case) /\ Suite!Question(lane, Case) = Key
    BY <1>1, <1>2, NowHears DEF Running
<1>4. Suite!TellsNew(lane, Case, Response)
    BY <1>1, <1>2, <1>3, LearnsTells DEF Suite!TellsNew
<1> QED BY <1>2, <1>3, <1>4 DEF Suite!Next

\* A step that changes nothing of what is asked, known or heard.
LEMMA NothingHeard ==
    ASSUME UNCHANGED <<step, at, lane, attempts, runs, cache>>
    PROVE  Running' = Running /\ cache' = cache /\ Heard' = Heard
<1>1. Case' = Case /\ Key' = Key
    BY DEF Case, Key, Question
<1> QED BY <1>1 DEF Running, Heard

\* Docker and the rival are none of the promise's business.
LEMMA DockerMaps ==
    ASSUME Docker \/ Rival, UNCHANGED <<harnessVars, suiteVars>>
    PROVE  UNCHANGED Suite!vars
<1>1. /\ step # "idle" /\ step' # "idle"
      /\ UNCHANGED <<stage, at, lane, attempts, runs, cache, result>>
    BY DockerStaysBusy DEF harnessVars, suiteVars
<1>2. Case' = Case /\ Key' = Key
    BY <1>1 DEF Case, Key, Question
<1>3. Running' = Running /\ Heard' = Heard /\ Phase' = Phase /\ Report' = Report
    BY <1>1, <1>2 DEF Running, Heard, Phase, Report
<1> QED BY <1>1, <1>3 DEF Suite!vars

LEMMA RaisedMaps ==
    ASSUME stage \in Stages \ {"done", "raised"}, stage' = "raised",
           UNCHANGED <<step, at, lane, attempts, runs, cache, result>>
    PROVE  Suite!Next
<1>1. Running' = Running /\ cache' = cache /\ Heard' = Heard /\ Report' = Report
    BY NothingHeard DEF Report
<1>2. Phase # "over" /\ Phase' = "over"
    BY DEF Phase
<1> QED BY <1>1, <1>2 DEF Suite!Next, Suite!Stops

\* A gate: the suite is turned down, or it is the next gate's turn, or the lanes'.
LEMMA GateMaps ==
    ASSUME stage \in Early, UNCHANGED <<step, at, lane, attempts, runs, cache>>,
           \/ /\ stage' = "done"
              /\ \E status, ids, provenance :
                    /\ status \in {"INVALID", "BLOCKED"}
                    /\ result' = BlockedResult(status, ids, provenance)
           \/ stage' \in Early \cup {"lanes"} /\ result' = result,
           result = None
    PROVE  Suite!Next \/ UNCHANGED Suite!vars
<1>1. Running' = Running /\ cache' = cache /\ Heard' = Heard /\ Phase = "closed"
    BY NothingHeard DEF Phase, Early
<1>2. ASSUME stage' = "done", NEW status \in {"INVALID", "BLOCKED"}, NEW ids, NEW provenance,
             result' = BlockedResult(status, ids, provenance)
      PROVE  Suite!Next
  <2>1. result' # None /\ result'.status = status
    <3>1. "status" \in DOMAIN result' /\ result'.status = status
        BY <1>2 DEF BlockedResult
    <3>2. DOMAIN None = {}
        BY DEF None
    <3> QED BY <3>1, <3>2
  <2>2. Report' \in {"INVALID", "BLOCKED"} /\ Phase' = "over"
    BY <1>2, <2>1 DEF Report, Phase
  <2> QED BY <1>1, <2>2 DEF Suite!Next, Suite!TurnsDown
<1>3. CASE stage' \in Early \cup {"lanes"} /\ result' = result
  <2>1. Phase' \in {"closed", "open"} /\ Report' = Report
    BY <1>3 DEF Phase, Report, Early
  <2> QED BY <1>1, <2>1 DEF Suite!Next, Suite!Opens, Suite!vars
<1> QED BY <1>2, <1>3

\* The result of an evaluation that came to its end.
LEMMA BuildMaps ==
    ASSUME SuiteInv, SuiteInv', Builds
    PROVE  Suite!Next
<1>1. /\ stage = "build" /\ stage' \in {"done", "raised"} /\ result' = FinalResult
      /\ UNCHANGED <<step, at, lane, attempts, runs, cache>>
    BY DEF Builds, Stays, hermeticVars
<1>2. result'.status \in {"COMPLETED", "DRIFT"} /\ result' # None
  <2>1. "status" \in DOMAIN result' /\ result'.status \in {"COMPLETED", "DRIFT"}
    BY <1>1 DEF FinalResult
  <2>2. DOMAIN None = {}
    BY DEF None
  <2> QED BY <2>1, <2>2
<1>3. Phase = "open" /\ Phase' = "over" /\ Report' \in {"COMPLETED", "DRIFT"}
    BY <1>1, <1>2 DEF Phase, Report
<1>4. Running = {} /\ Running' = Running /\ cache' = cache /\ Heard' = Heard
    BY <1>1, NothingHeard DEF Running, SuiteInv, LanesInv, AskedOnce
<1>5. ASSUME NEW l \in Suite!Lanes, NEW c \in Suite!Cases PROVE Suite!Enough(l, c)
  <2>1. l \in Dynamic /\ c \in Cases
    BY <1>5, CasesFacts DEF Suite!Lanes, Suite!Cases, Dynamic
  <2>2. runs[l][c] # <<>> /\ RunIsOver(l, c, runs[l][c])
    BY <1>1, <2>1 DEF SuiteInv, LanesInv, InOrder, AllMade, RunsMade
  <2>3. Heard[l][c] = runs[l][c]
    BY <2>1, <2>2 DEF Heard, Dynamic
  <2>4. runs[l][c] \in Seq(Responses) /\ Len(runs[l][c]) <= 2
    BY <2>1 DEF SuiteInv, LanesInv, HarnessTypes
  <2>5. PICK rs \in Seq(Responses) : rs = runs[l][c]
    BY <2>4
  <2>6. Len(rs) \in {1, 2} /\ rs[1] \in Responses
    <3>1. Len(rs) \in Nat \ {0} /\ Len(rs) <= 2
      <4>1. rs # <<>> /\ Len(rs) <= 2
        BY <2>2, <2>4, <2>5
      <4> QED BY <2>5, <4>1, EmptySeq, Zenon
    <3>2. \A n \in Nat \ {0} : n <= 2 => n \in {1, 2}
        OBVIOUS
    <3>3. Len(rs) \in {1, 2}
        BY <3>1, <3>2, Zenon
    <3> QED BY <3>3
  <2>7. IsOver(l, rs)
    BY <2>2, <2>5 DEF RunIsOver
  <2> QED BY <2>3, <2>5, <2>6, <2>7 DEF Suite!Enough, IsOver, FailedBaselines
<1>6. Suite!Scores
    BY <1>3, <1>4, <1>5 DEF Suite!Scores
<1> QED BY <1>6 DEF Suite!Next

LEMMA GatesMap ==
    ASSUME SuiteInv,
           \/ Audits \/ InspectsDocker \/ Reconstructs \/ LoadsCases \/ EnsuresImage \/ Constructs
    PROVE  Suite!Next \/ UNCHANGED Suite!vars
<1>1. stage \in Early /\ UNCHANGED <<step, at, lane, attempts, runs, cache>>
    BY DEF Audits, InspectsDocker, Reconstructs, LoadsCases, EnsuresImage, Constructs, Gate, Raises,
           Stays, Early, hermeticVars
<1>2. result = None /\ stage \in Stages \ {"done", "raised"}
    BY <1>1 DEF SuiteInv, EvaluationInv, Early
<1>3. ASSUME NEW from, Raises(from) PROVE Suite!Next
    BY <1>1, <1>2, <1>3, RaisedMaps DEF Raises
<1>4. ASSUME NEW from, NEW fact, NEW to \in Early \cup {"lanes"},
             Gate(from, fact, to)
      PROVE  Suite!Next \/ UNCHANGED Suite!vars
  <2>1. \/ stage' = "done" /\ result' = BlockedResult("BLOCKED", Order, "digests")
        \/ stage' \in Early \cup {"lanes"} /\ result' = result
    BY <1>4 DEF Gate
  <2> QED BY <1>1, <1>2, <1>4, <2>1, GateMaps
<1>5. Early = {"audit", "inspect", "reconstruct", "load", "image", "construct"}
    BY DEF Early
<1>6. CASE Audits
  <2>1. CASE Raises("audit")
    BY <1>3, <2>1
  <2>2. CASE Gate("audit", HistoricalArtifacts, "inspect")
    BY <1>4, <1>5, <2>2
  <2>3. CASE stage' = "done" /\ TurnsDown
    <3>1. PICK ids \in Listings, provenance \in Provenances :
            result' = BlockedResult("INVALID", Listed(ids), provenance)
        BY <2>3 DEF TurnsDown
    <3> QED BY <1>1, <1>2, <2>3, <3>1, GateMaps
  <2> QED BY <1>6, <2>1, <2>2, <2>3 DEF Audits
<1>7. CASE InspectsDocker
    BY <1>4, <1>5, <1>7 DEF InspectsDocker
<1>8. CASE Reconstructs
    BY <1>3, <1>4, <1>5, <1>8 DEF Reconstructs
<1>9. CASE LoadsCases
  <2>1. CASE Raises("load")
    BY <1>3, <2>1
  <2>2. CASE stage' = "image" /\ result' = result
    BY <1>1, <1>2, <1>5, <2>2, GateMaps
  <2> QED BY <1>9, <2>1, <2>2 DEF LoadsCases
<1>10. CASE EnsuresImage
    BY <1>4, <1>5, <1>10 DEF EnsuresImage
<1>11. CASE Constructs
    BY <1>4, <1>5, <1>11 DEF Constructs
<1> QED BY <1>6, <1>7, <1>8, <1>9, <1>10, <1>11

LEMMA StepMaps ==
    ASSUME SuiteInv, SuiteInv', Ahead, [Next]_vars
    PROVE  [Suite!Next]_(Suite!vars)
<1>1. CASE AsksHistory /\ UNCHANGED suiteVars
    BY <1>1, HistoryMaps
<1>2. CASE AsksCache /\ UNCHANGED suiteVars
    BY <1>2, CacheMaps
<1>3. CASE AsksContainers /\ UNCHANGED suiteVars
    BY <1>3, ContainersMap
<1>4. CASE Hears /\ UNCHANGED suiteVars
    BY <1>4, HearsMaps
<1>5. CASE Falls /\ UNCHANGED suiteVars
  <2>1. /\ stage \in Stages \ {"done", "raised"} /\ stage' = "raised"
        /\ UNCHANGED <<step, at, lane, attempts, runs, cache, result>>
    BY <1>5 DEF Falls, Stages, hermeticVars, suiteVars
  <2> QED BY <2>1, RaisedMaps
<1>6. CASE (DockerWorks \/ RivalWorks) /\ UNCHANGED suiteVars
    BY <1>6, DockerMaps DEF DockerWorks, RivalWorks
<1>7. CASE \/ Audits \/ InspectsDocker \/ Reconstructs \/ LoadsCases \/ EnsuresImage \/ Constructs
    BY <1>7, GatesMap
<1>8. CASE ReadsPredictions \/ Scores
  <2>1. /\ stage \in {"predictions", "score"} /\ stage' \in {"score", "build", "raised"}
        /\ UNCHANGED <<step, at, lane, attempts, runs, cache, result>>
    BY <1>8 DEF ReadsPredictions, Scores, Stays, hermeticVars
  <2>2. CASE stage' = "raised"
    BY <2>1, <2>2, RaisedMaps DEF Stages
  <2>3. CASE stage' # "raised"
    BY <2>1, <2>3, NothingHeard DEF Phase, Report, Suite!vars
  <2> QED BY <2>2, <2>3
<1>9. CASE Builds
    BY <1>9, BuildMaps
<1>10. CASE EditsWorkspace \/ LosesReference \/ EditsLabels \/ Over \/ UNCHANGED vars
  <2>1. UNCHANGED <<stage, step, at, lane, attempts, runs, cache, result>>
    BY <1>10
    DEF EditsWorkspace, LosesReference, EditsLabels, Over, vars, hermeticVars, harnessVars, suiteVars
  <2> QED BY <2>1, NothingHeard DEF Phase, Report, Suite!vars
<1> QED
  BY <1>1, <1>2, <1>3, <1>4, <1>5, <1>6, <1>7, <1>8, <1>9, <1>10
  DEF Next, Evaluation, Environment, Lane

LEMMA PromiseStarts == ASSUME Init PROVE Suite!Init
<1>1. /\ stage = "audit" /\ result = None /\ step = "idle" /\ attempts = <<>>
      /\ cache = [k \in Keys |-> NoEntry]
      /\ runs = [l \in {"naive", "frozen"} |-> [c \in Cases |-> <<>>]]
    BY DEF Init, HarnessInit, HermeticInit
<1>2. Suite!Cases = Cases /\ Suite!Questions = Keys
    BY CasesFacts DEF Suite!Cases, Suite!Questions, Keys, Questions
<1>3. Phase = "closed" /\ Report = "none" /\ Running = {}
    BY <1>1 DEF Phase, Report, Running
<1>4. \A l \in {"naive", "frozen"}, c \in Cases : runs[l][c] = <<>>
    BY <1>1
<1>5. Heard = [l \in {"naive", "frozen"} |-> [c \in Cases |-> <<>>]]
    BY <1>1, <1>4 DEF Heard
<1> QED BY <1>1, <1>2, <1>3, <1>5 DEF Suite!Init, Suite!Lanes

\* evaluate_decisive_suite keeps the promise of SuiteEvaluation, whatever docker, a rival
\* and the editors of its files do, for every suite: no question is run before the gates
\* are passed or twice, both lanes are told the response that was kept, in the midst of
\* a run too, and cases count as executed only if both lanes were told all they ask.
THEOREM SuiteIsImplemented == Spec => ImplementsSuite
<1>1. Init => SuiteInv /\ Ahead /\ Suite!Init
    BY SuiteStarts, AheadStarts, PromiseStarts
<1>2. SuiteInv /\ Ahead /\ [Next]_vars => (SuiteInv /\ Ahead)'
    BY SuiteStep, AheadStep
<1>3. SuiteInv /\ SuiteInv' /\ Ahead /\ [Next]_vars => [Suite!Next]_(Suite!vars)
    BY StepMaps
<1> QED BY <1>1, <1>2, <1>3, PTL DEF Spec, ImplementsSuite, Suite!Spec
=============================================================================
