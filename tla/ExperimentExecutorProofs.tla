----------------------- MODULE ExperimentExecutorProofs -----------------------
(***************************************************************************)
(* Proofs about ExperimentExecutor, for every number of preparation steps,  *)
(* every choice of sides with a site volume and every number of faults.     *)
(***************************************************************************)
EXTENDS ExperimentExecutor, TLAPS

-----------------------------------------------------------------------------
(* Types *)

\* A call makes an input volume only for a recipe with preparation steps, and a
\* run that has reached its cleanup has been captured.
ExecTypes ==
    /\ TypeOK
    /\ pc = "volume" => Prep > 0
    /\ pc \in {"box", "copyBox"} => cap # None

\* The names of a run are resources.
LEMMA ResourceTypes ==
    Input \in Resources /\ \A n \in Nat : Site(n) \in Resources /\ Box(n) \in Resources
BY DEF Resources, Input, Site, Box

Actions ==
    \/ Declines \/ Begins \/ MakesVolume
    \/ EntersSide \/ RejectsStep \/ MakesSite \/ HasNoCommand \/ RecipeRaises \/ Runs
    \/ CleansBox \/ CleansBoxFinally \/ RemovesSite \/ PreparationEnds \/ Copies \/ CleansCopy
    \/ CopyEnds \/ SideEnds \/ Unwinds \/ Composes \/ RemovesVolume

-----------------------------------------------------------------------------
(* What may exist *)

Mine == {v \in {Input} : volumeCreated}
MySite == {v \in {Site(run)} : sited}

\* What a call that has had no trouble may have left where it stands.
Allowed ==
    {v \in Mine : pc # "done"}
      \cup {v \in MySite : pc \in {"run", "box", "boxFinally", "unsite"}}
      \cup {b \in {Box(run)} : pc \in {"box", "boxFinally", "copyBox"}}

Tidy == coming = {} /\ have \subseteq Allowed

\* A capture that shows no trouble: a run without a limit or with exit code 0,
\* which a killed client does not have, and verified cleanups.
Ended(c) == c # None /\ (c.ok \/ ~c.limit)
Fine(c) == Ended(c) /\ ~c.dirty

\* All that the call has seen so far is in order.
Trust ==
    /\ ~raised
    /\ phase = "candidate" => control # None /\ Complete(control)
    /\ pc # "boxFinally"
    /\ pc \in {"box", "copyBox"} => Ended(cap)
    /\ pc \in {"unsite", "left", "copied"} => Fine(cap)
    /\ pc = "compose" => candidate # None /\ Complete(candidate)
    /\ pc \in {"unvolume", "done"} => receipt = "verified"

\* What is at hand at each stage, whatever has happened.
Stages ==
    /\ pc \in {"gate", "volume"} => ~volumeCreated
    /\ pc = "gate" => phase = "control"
    /\ pc = "volume" => phase = "prep"
    /\ pc = "site" => sited
    /\ pc = "boxFinally" => raised
    /\ pc \in {"site", "run"} => cap = None
    /\ pc \in {"gate", "volume", "side", "site", "run", "box", "boxFinally", "unsite", "left",
               "copy", "copyBox", "copied", "compose"} => receipt = "none"
    /\ pc \in {"copy", "copyBox", "copied"} => phase = "copy" /\ ~sited
    /\ pc \in {"side", "site", "run", "box", "boxFinally", "unsite", "left"} => phase # "copy"
    /\ pc = "compose" => phase = "candidate"
    /\ receipt = "verified" => control # None /\ Complete(control)
    /\ pc \in {"gate", "volume"} => run = 0
    /\ pc \in {"gate", "volume", "side", "site", "run", "box", "copy", "copyBox", "copied",
               "compose"} => ~raised

TrustInv == Trust => Tidy
OrderlyInv == faults = 0 => Tidy /\ pc # "boxFinally"

\* An exception on its way out, with at most one failure of docker behind it.
ControlEnded == phase = "candidate" => control # None /\ Complete(control)
OnceInv ==
    raised /\ faults <= 1 /\ phase # "copy" /\ ControlEnded =>
        /\ coming = {}
        /\ have \subseteq {Input, Site(run)} \cup {b \in {Box(run)} : pc = "boxFinally"}
\* The runs are numbered along the steps of the preparation, the copy is the next
\* one, and the sides follow.
Numbered ==
    /\ phase = "prep" /\ pc = "side" => step = run + 1
    /\ phase = "prep" /\ pc \in {"site", "run", "box", "boxFinally", "unsite", "left"} => step = run
    /\ pc \in {"copy", "copyBox", "copied"} => run = Prep + 1

\* The input volume stays until the call ends, and what the sides find of the
\* preparation is that volume alone.
AtSides == pc \in {"side", "site", "run", "box", "boxFinally", "unsite", "left"}
NoPrepBox(things) == \A n \in 1..(Prep + 1) : Box(n) \notin things

SettledInv ==
    /\ volumeCreated /\ pc # "done" => Input \in have
    /\ Prep > 0 /\ (AtSides \/ pc \in {"copy", "copyBox", "copied"}) => volumeCreated
    /\ Prep > 0 /\ phase \in {"control", "candidate"} /\ AtSides =>
         /\ run >= Prep + 1 /\ (pc # "side" => run > Prep + 1)
         /\ NoPrepBox(have) /\ \A c \in coming : NoPrepBox(c)

\* Without a fault no capture is marked, and two captures make an observation.
ShownInv ==
    faults = 0 =>
        /\ \A c \in {cap, control, candidate} : c # None => ~c.dirty
        /\ pc \notin {"compose", "unvolume", "done"} => candidate = None
        /\ (pc \in {"unvolume", "done"} /\ None \notin {control, candidate}
              /\ ~control.limit /\ ~candidate.limit)
             => status \in {"COMPLETED", "OBSERVED_FAILURE"} /\ receipt = "verified"

ExecInv == ExecTypes /\ Stages /\ TrustInv /\ OrderlyInv /\ OnceInv /\ Numbered
           /\ SettledInv /\ ShownInv
-----------------------------------------------------------------------------
(* The steps *)

\* What a docker command does to what exists keeps its type.
DockerTypes ==
    have \subseteq Resources /\ coming \subseteq SUBSET Resources /\ faults \in 0..MaxFaults

LEMMA DockerKeepsTypes ==
    ASSUME TypeOK
    PROVE  /\ \A r \in Resources : Created(r) => DockerTypes'
           /\ NotCreated => DockerTypes'
           /\ \A r \in Resources, with \in SUBSET Resources : Killed(r, with) => DockerTypes'
           /\ Raises => DockerTypes'
           /\ UNCHANGED dockerVars => DockerTypes'
           /\ BoxRemoved => DockerTypes'
           /\ BoxDoubtful => DockerTypes'
           /\ \A v \in Resources :
                VolumeRemoved(v) \/ VolumeKept(v) \/ VolumeDoubtful(v) => DockerTypes'
  <1> USE RecipeAssumption DEF DockerTypes
  <1>0. DockerTypes /\ (Fault => faults' \in 0..MaxFaults)
    BY DEF TypeOK, Fault
  <1>1. ASSUME NEW r \in Resources, Created(r) PROVE DockerTypes'
    BY <1>0, <1>1 DEF Created
  <1>2. ASSUME NotCreated PROVE DockerTypes'
    BY <1>0, <1>2 DEF NotCreated
  <1>3. ASSUME NEW r \in Resources, NEW with \in SUBSET Resources, Killed(r, with)
        PROVE  DockerTypes'
    <2>1. {r} \cup with \in SUBSET Resources
      OBVIOUS
    <2> QED
      BY <1>0, <1>3, <2>1 DEF Killed
  <1>4. ASSUME Raises PROVE DockerTypes'
    BY <1>0, <1>4 DEF Raises
  <1>5. ASSUME UNCHANGED dockerVars PROVE DockerTypes'
    BY <1>0, <1>5 DEF dockerVars
  <1>6. ASSUME BoxRemoved \/ BoxDoubtful PROVE DockerTypes'
    BY <1>0, <1>6 DEF BoxRemoved, BoxDoubtful
  <1>7. ASSUME NEW v \in Resources, VolumeRemoved(v) \/ VolumeKept(v) \/ VolumeDoubtful(v)
        PROVE  DockerTypes'
    BY <1>0, <1>7 DEF VolumeRemoved, VolumeKept, VolumeDoubtful, dockerVars
  <1> QED
    BY <1>1, <1>2, <1>3, <1>4, <1>5, <1>6, <1>7

LEMMA DockerStep == TypeOK /\ Actions => DockerTypes'
  <1> SUFFICES ASSUME TypeOK, Actions PROVE DockerTypes'
    OBVIOUS
  <1>a. /\ Input \in Resources /\ Site(run) \in Resources /\ Box(run) \in Resources
        /\ Mounted \in SUBSET Resources /\ {} \in SUBSET Resources
    BY ResourceTypes DEF TypeOK, Mounted
  <1> USE <1>a, DockerKeepsTypes
  <1>1. CASE Declines
    BY <1>1 DEF Declines
  <1>2. CASE Begins
    BY <1>2 DEF Begins
  <1>3. CASE MakesVolume
    BY <1>3 DEF MakesVolume, Raises
  <1>4. CASE EntersSide
    BY <1>4 DEF EntersSide
  <1>5. CASE RejectsStep
    BY <1>5 DEF RejectsStep
  <1>6. CASE MakesSite
    BY <1>6 DEF MakesSite, Raises
  <1>7. CASE HasNoCommand
    BY <1>7 DEF HasNoCommand
  <1>8. CASE Runs
    BY <1>8 DEF Runs, RunEnds, Raises, Capture
  <1>9. CASE CleansBox
    BY <1>9 DEF CleansBox, Dirty
  <1>10. CASE CleansBoxFinally
    BY <1>10 DEF CleansBoxFinally
  <1>11. CASE RemovesSite
    BY <1>11 DEF RemovesSite, Dirty
  <1>12. CASE PreparationEnds
    BY <1>12 DEF PreparationEnds, Succeeded, GivesUp, MoreSteps
  <1>13. CASE Copies
    BY <1>13 DEF Copies, RunEnds, Raises, Capture
  <1>14. CASE CleansCopy
    BY <1>14 DEF CleansCopy, Dirty
  <1>15. CASE CopyEnds
    BY <1>15 DEF CopyEnds, Succeeded, GivesUp
  <1>16. CASE SideEnds
    BY <1>16 DEF SideEnds
  <1>17. CASE Unwinds
    BY <1>17 DEF Unwinds
  <1>18. CASE Composes
    BY <1>18 DEF Composes, Observation
  <1>19. CASE RemovesVolume
    BY <1>19 DEF RemovesVolume
  <1>20. CASE RecipeRaises
    BY <1>20 DEF RecipeRaises
  <1> QED
    BY <1>1, <1>2, <1>3, <1>4, <1>5, <1>6, <1>7, <1>8, <1>9, <1>10,
       <1>11, <1>12, <1>13, <1>14, <1>15, <1>16, <1>17, <1>18, <1>19, <1>20 DEF Actions

\* The captures the runs and the cleanups leave.
LEMMA CaptureTypes ==
    /\ RunEnds /\ phantom \in BOOLEAN => cap' \in Captures /\ cap' # None /\ phantom' \in BOOLEAN
    /\ cap \in Captures => Dirty \in Captures /\ Dirty # None
  <1>1. ASSUME RunEnds, phantom \in BOOLEAN
        PROVE  cap' \in Captures /\ cap' # None /\ phantom' \in BOOLEAN
    <2>1. \E ok, limit, dirty \in BOOLEAN : Capture(ok, limit, dirty)
      BY <1>1 DEF RunEnds
    <2>2. cap' \in Captures
      BY <2>1 DEF Capture, Captures
    <2>3. phantom' \in BOOLEAN
      BY <1>1 DEF RunEnds
    <2> QED
      BY <2>2, <2>3, CaptureAssumption
  <1>2. ASSUME cap \in Captures PROVE Dirty \in Captures
    BY <1>2 DEF Captures, Dirty
  <1> QED
    BY <1>1, <1>2, CaptureAssumption

\* The types of the rest, with what the two extra facts need.
LEMMA TypesStep == ExecTypes /\ Actions => ExecTypes'
  <1> SUFFICES ASSUME ExecTypes, Actions PROVE ExecTypes'
    OBVIOUS
  <1>a. DockerTypes'
    BY DockerStep DEF ExecTypes
  <1> USE <1>a, RecipeAssumption, CaptureAssumption
      DEF ExecTypes, TypeOK, DockerTypes, Captures, Phases, sideVars, callVars
  <1>1. CASE Declines
    BY <1>1 DEF Declines
  <1>2. CASE Begins
    BY <1>2 DEF Begins
  <1>3. CASE MakesVolume
    <2>1. Prep \in Nat /\ Prep > 0 /\ step \in 0..Prep /\ (step' = 1 \/ step' = step)
      BY <1>3 DEF MakesVolume
    <2>2. step' \in 0..Prep
      BY <2>1
    <2>3. volumeCreated' \in BOOLEAN /\ raised' \in BOOLEAN /\ status' \in {status, "UNAVAILABLE"}
      BY <1>3 DEF MakesVolume, Raises
    <2>4. pc' \in {"side", "unvolume"} /\ UNCHANGED <<sideVars, phase, control, candidate, receipt>>
      BY <1>3 DEF MakesVolume
    <2> QED
      BY <2>2, <2>3, <2>4
  <1>4. CASE EntersSide
    BY <1>4 DEF EntersSide
  <1>5. CASE RejectsStep
    BY <1>5 DEF RejectsStep
  <1>6. CASE MakesSite
    BY <1>6 DEF MakesSite, Raises
  <1>7. CASE HasNoCommand
    BY <1>7 DEF HasNoCommand
  <1>8. CASE Runs
    <2>1. cap' \in Captures \cup {None} /\ phantom' \in BOOLEAN /\ raised' \in BOOLEAN
          /\ (pc' = "box" => cap' # None)
      BY <1>8, CaptureTypes DEF Runs, Raises
    <2>2. pc' \in {"box", "boxFinally"} /\ UNCHANGED <<sited, run, callVars>>
      BY <1>8 DEF Runs
    <2> QED
      BY <2>1, <2>2
  <1>9. CASE CleansBox
    <2>1. cap' \in Captures \cup {None} /\ raised' \in BOOLEAN
      BY <1>9, CaptureTypes DEF CleansBox
    <2>2. pc' \in {"unsite", "boxFinally"} /\ UNCHANGED <<sited, run, phantom, callVars>>
      BY <1>9 DEF CleansBox
    <2> QED
      BY <2>1, <2>2
  <1>10. CASE CleansBoxFinally
    BY <1>10 DEF CleansBoxFinally
  <1>11. CASE RemovesSite
    <2>1. cap' \in Captures \cup {None} /\ raised' \in BOOLEAN
      BY <1>11, CaptureTypes DEF RemovesSite
    <2>2. pc' = "left" /\ UNCHANGED <<sited, run, phantom, callVars>>
      BY <1>11 DEF RemovesSite
    <2> QED
      BY <2>1, <2>2
  <1>12. CASE PreparationEnds
    <2>1. step' \in 0..Prep /\ run' \in Nat
      BY <1>12 DEF PreparationEnds, GivesUp, MoreSteps
    <2> QED
      BY <1>12, <2>1 DEF PreparationEnds, GivesUp
  <1>13. CASE Copies
    <2>1. cap' \in Captures \cup {None} /\ phantom' \in BOOLEAN /\ raised' \in BOOLEAN
          /\ (pc' = "copyBox" => cap' # None)
      BY <1>13, CaptureTypes DEF Copies, Raises
    <2>2. pc' \in {"copied", "copyBox", "unvolume"} /\ UNCHANGED <<sited, run, callVars>>
      BY <1>13 DEF Copies
    <2> QED
      BY <2>1, <2>2
  <1>14. CASE CleansCopy
    <2>1. cap' \in Captures \cup {None} /\ raised' \in BOOLEAN
      BY <1>14, CaptureTypes DEF CleansCopy
    <2>2. pc' \in {"copied", "unvolume"} /\ UNCHANGED <<sited, run, phantom, callVars>>
      BY <1>14 DEF CleansCopy
    <2> QED
      BY <2>1, <2>2
  <1>15. CASE CopyEnds
    BY <1>15 DEF CopyEnds, Succeeded, GivesUp
  <1>16. CASE SideEnds
    BY <1>16 DEF SideEnds
  <1>17. CASE Unwinds
    BY <1>17 DEF Unwinds
  <1>18. CASE Composes
    BY <1>18 DEF Composes, Observation
  <1>19. CASE RemovesVolume
    BY <1>19 DEF RemovesVolume
  <1>20. CASE RecipeRaises
    BY <1>20 DEF RecipeRaises
  <1> QED
    BY <1>1, <1>2, <1>3, <1>4, <1>5, <1>6, <1>7, <1>8, <1>9, <1>10,
       <1>11, <1>12, <1>13, <1>14, <1>15, <1>16, <1>17, <1>18, <1>19, <1>20 DEF Actions

LEMMA StagesStep == ExecTypes /\ Stages /\ Actions => Stages'
  <1> SUFFICES ASSUME ExecTypes, Stages, Actions PROVE Stages'
    OBVIOUS
  <1> USE DEF Stages, Complete, sideVars, callVars
  <1>1. CASE Declines
    BY <1>1 DEF Declines
  <1>2. CASE Begins
    BY <1>2 DEF Begins
  <1>3. CASE MakesVolume
    BY <1>3 DEF MakesVolume, Raises
  <1>4. CASE EntersSide
    BY <1>4 DEF EntersSide
  <1>5. CASE RejectsStep
    BY <1>5 DEF RejectsStep
  <1>6. CASE MakesSite
    BY <1>6 DEF MakesSite, Raises
  <1>7. CASE HasNoCommand
    BY <1>7 DEF HasNoCommand
  <1>8. CASE Runs
    BY <1>8 DEF Runs, RunEnds, Raises, Capture
  <1>9. CASE CleansBox
    BY <1>9 DEF CleansBox, Dirty
  <1>10. CASE CleansBoxFinally
    BY <1>10 DEF CleansBoxFinally
  <1>11. CASE RemovesSite
    BY <1>11 DEF RemovesSite, Dirty
  <1>12. CASE PreparationEnds
    BY <1>12 DEF PreparationEnds, Succeeded, GivesUp, MoreSteps
  <1>13. CASE Copies
    BY <1>13 DEF Copies, RunEnds, Raises, Capture
  <1>14. CASE CleansCopy
    BY <1>14 DEF CleansCopy, Dirty
  <1>15. CASE CopyEnds
    BY <1>15 DEF CopyEnds, Succeeded, GivesUp
  <1>16. CASE SideEnds
    BY <1>16 DEF SideEnds
  <1>17. CASE Unwinds
    BY <1>17 DEF Unwinds
  <1>18. CASE Composes
    BY <1>18 DEF Composes, Observation
  <1>19. CASE RemovesVolume
    BY <1>19 DEF RemovesVolume
  <1>20. CASE RecipeRaises
    BY <1>20 DEF RecipeRaises
  <1> QED
    BY <1>1, <1>2, <1>3, <1>4, <1>5, <1>6, <1>7, <1>8, <1>9, <1>10,
       <1>11, <1>12, <1>13, <1>14, <1>15, <1>16, <1>17, <1>18, <1>19, <1>20 DEF Actions

LEMMA TrustStep == ExecTypes /\ Stages /\ TrustInv /\ Actions => TrustInv'
  <1> SUFFICES ASSUME ExecTypes, Stages, TrustInv, Actions, Trust' PROVE Tidy'
    BY DEF TrustInv
  <1> USE DEF ExecTypes, TypeOK, Stages, TrustInv, Trust, Tidy, Allowed, Mine, MySite, Ended, Fine,
              Complete, Captures, dockerVars, sideVars, callVars
  <1>1. CASE Declines
    BY <1>1 DEF Declines
  <1>2. CASE Begins
    BY <1>2 DEF Begins
  <1>3. CASE MakesVolume
    BY <1>3 DEF MakesVolume, Created, NotCreated, Killed, Raises, Fault
  <1>4. CASE EntersSide
    BY <1>4 DEF EntersSide
  <1>5. CASE RejectsStep
    BY <1>5 DEF RejectsStep
  <1>6. CASE MakesSite
    BY <1>6 DEF MakesSite, Created, NotCreated, Killed, Raises, Fault
  <1>7. CASE HasNoCommand
    BY <1>7 DEF HasNoCommand
  <1>8. CASE Runs
    BY <1>8 DEF Runs, RunEnds, Created, Killed, Raises, Fault, Capture
  <1>9. CASE CleansBox
    BY <1>9 DEF CleansBox, BoxRemoved, BoxDoubtful, Fault, Dirty
  <1>10. CASE CleansBoxFinally
    BY <1>10 DEF CleansBoxFinally, BoxRemoved, BoxDoubtful, Fault
  <1>11. CASE RemovesSite
    BY <1>11 DEF RemovesSite, VolumeRemoved, VolumeKept, VolumeDoubtful, Fault, Dirty
  <1>12. CASE PreparationEnds
    BY <1>12 DEF PreparationEnds, Succeeded, GivesUp, MoreSteps
  <1>13. CASE Copies
    BY <1>13 DEF Copies, RunEnds, Created, Killed, Raises, Fault, Capture
  <1>14. CASE CleansCopy
    BY <1>14 DEF CleansCopy, BoxRemoved, BoxDoubtful, Fault, Dirty
  <1>15. CASE CopyEnds
    BY <1>15 DEF CopyEnds, Succeeded, GivesUp
  <1>16. CASE SideEnds
    BY <1>16 DEF SideEnds
  <1>17. CASE Unwinds
    BY <1>17 DEF Unwinds
  <1>18. CASE Composes
    BY <1>18 DEF Composes, Observation
  <1>19. CASE RemovesVolume
    BY <1>19 DEF RemovesVolume, VolumeRemoved, VolumeKept, VolumeDoubtful, Fault
  <1>20. CASE RecipeRaises
    BY <1>20 DEF RecipeRaises
  <1> QED
    BY <1>1, <1>2, <1>3, <1>4, <1>5, <1>6, <1>7, <1>8, <1>9, <1>10,
       <1>11, <1>12, <1>13, <1>14, <1>15, <1>16, <1>17, <1>18, <1>19, <1>20 DEF Actions

\* Without a box nothing is in use.
LEMMA NothingInUse == have \subseteq {Input, Site(run)} => \A v : ~InUse(v)
BY DEF InUse, Input, Site

LEMMA FaultsCount == Actions => Fault \/ UNCHANGED faults
  <1> SUFFICES ASSUME Actions PROVE Fault \/ UNCHANGED faults
    OBVIOUS
  <1> USE DEF dockerVars
  <1>1. CASE Declines
    BY <1>1 DEF Declines
  <1>2. CASE Begins
    BY <1>2 DEF Begins
  <1>3. CASE MakesVolume
    BY <1>3 DEF MakesVolume, Created, NotCreated, Killed, Raises
  <1>4. CASE EntersSide
    BY <1>4 DEF EntersSide
  <1>5. CASE RejectsStep
    BY <1>5 DEF RejectsStep
  <1>6. CASE MakesSite
    BY <1>6 DEF MakesSite, Created, NotCreated, Killed, Raises
  <1>7. CASE HasNoCommand
    BY <1>7 DEF HasNoCommand
  <1>8. CASE Runs
    BY <1>8 DEF Runs, RunEnds, Created, Killed, Raises, Capture
  <1>9. CASE CleansBox
    BY <1>9 DEF CleansBox, BoxRemoved, BoxDoubtful, Dirty
  <1>10. CASE CleansBoxFinally
    BY <1>10 DEF CleansBoxFinally, BoxRemoved, BoxDoubtful
  <1>11. CASE RemovesSite
    BY <1>11 DEF RemovesSite, VolumeRemoved, VolumeKept, VolumeDoubtful, Dirty
  <1>12. CASE PreparationEnds
    BY <1>12 DEF PreparationEnds, Succeeded, GivesUp, MoreSteps
  <1>13. CASE Copies
    BY <1>13 DEF Copies, RunEnds, Created, Killed, Raises, Capture
  <1>14. CASE CleansCopy
    BY <1>14 DEF CleansCopy, BoxRemoved, BoxDoubtful, Dirty
  <1>15. CASE CopyEnds
    BY <1>15 DEF CopyEnds, Succeeded, GivesUp
  <1>16. CASE SideEnds
    BY <1>16 DEF SideEnds
  <1>17. CASE Unwinds
    BY <1>17 DEF Unwinds
  <1>18. CASE Composes
    BY <1>18 DEF Composes, Observation
  <1>19. CASE RemovesVolume
    BY <1>19 DEF RemovesVolume, VolumeRemoved, VolumeKept, VolumeDoubtful
  <1>20. CASE RecipeRaises
    BY <1>20 DEF RecipeRaises
  <1> QED
    BY <1>1, <1>2, <1>3, <1>4, <1>5, <1>6, <1>7, <1>8, <1>9, <1>10,
       <1>11, <1>12, <1>13, <1>14, <1>15, <1>16, <1>17, <1>18, <1>19, <1>20 DEF Actions

LEMMA OrderlyStep == ExecTypes /\ Stages /\ OrderlyInv /\ Actions => OrderlyInv'
  <1> SUFFICES ASSUME ExecTypes, Stages, OrderlyInv, Actions, faults' = 0
               PROVE  Tidy' /\ pc' # "boxFinally"
    BY DEF OrderlyInv
  <1>a. ~Fault /\ faults = 0
    <2>1. ~Fault
      BY RecipeAssumption DEF Fault, ExecTypes, TypeOK
    <2> QED
      BY <2>1, FaultsCount
  <1>b. Tidy /\ pc # "boxFinally"
    BY <1>a DEF OrderlyInv
  <1> USE <1>a, <1>b DEF Stages, Tidy, Allowed, Mine, MySite, dockerVars, sideVars, callVars
  <1>1. CASE Declines
    BY <1>1 DEF Declines
  <1>2. CASE Begins
    BY <1>2 DEF Begins
  <1>3. CASE MakesVolume
    BY <1>3 DEF MakesVolume, Created, NotCreated, Killed, Raises
  <1>4. CASE EntersSide
    BY <1>4 DEF EntersSide
  <1>5. CASE RejectsStep
    BY <1>5 DEF RejectsStep
  <1>6. CASE MakesSite
    BY <1>6 DEF MakesSite, Created, NotCreated, Killed, Raises
  <1>7. CASE HasNoCommand
    BY <1>7 DEF HasNoCommand
  <1>8. CASE Runs
    BY <1>8 DEF Runs, RunEnds, Created, Killed, Raises, Capture
  <1>9. CASE CleansBox
    BY <1>9 DEF CleansBox, BoxRemoved, BoxDoubtful, Dirty
  <1>10. CASE CleansBoxFinally
    BY <1>10 DEF CleansBoxFinally, BoxRemoved, BoxDoubtful
  <1>11. CASE RemovesSite
    <2>1. ~InUse(Site(run))
      BY <1>11, NothingInUse DEF RemovesSite
    <2> QED
      BY <1>11, <2>1 DEF RemovesSite, VolumeRemoved, VolumeKept, VolumeDoubtful
  <1>12. CASE PreparationEnds
    BY <1>12 DEF PreparationEnds, Succeeded, GivesUp, MoreSteps
  <1>13. CASE Copies
    BY <1>13 DEF Copies, RunEnds, Created, Killed, Raises, Capture
  <1>14. CASE CleansCopy
    BY <1>14 DEF CleansCopy, BoxRemoved, BoxDoubtful, Dirty
  <1>15. CASE CopyEnds
    BY <1>15 DEF CopyEnds, Succeeded, GivesUp
  <1>16. CASE SideEnds
    BY <1>16 DEF SideEnds
  <1>17. CASE Unwinds
    BY <1>17 DEF Unwinds
  <1>18. CASE Composes
    BY <1>18 DEF Composes, Observation
  <1>19. CASE RemovesVolume
    <2>1. ~InUse(Input)
      BY <1>19, NothingInUse DEF RemovesVolume
    <2> QED
      BY <1>19, <2>1 DEF RemovesVolume, VolumeRemoved, VolumeKept, VolumeDoubtful
  <1>20. CASE RecipeRaises
    BY <1>20 DEF RecipeRaises
  <1> QED
    BY <1>1, <1>2, <1>3, <1>4, <1>5, <1>6, <1>7, <1>8, <1>9, <1>10,
       <1>11, <1>12, <1>13, <1>14, <1>15, <1>16, <1>17, <1>18, <1>19, <1>20 DEF Actions

\* The first exception comes out of a call that has had no trouble, and nothing
\* is made behind it.
LEMMA OnceStep ==
    ExecTypes /\ Stages /\ TrustInv /\ OrderlyInv /\ OnceInv /\ Actions => OnceInv'
  <1> SUFFICES ASSUME ExecTypes, Stages, TrustInv, OrderlyInv, OnceInv, Actions,
                      raised', faults' <= 1, phase' # "copy", ControlEnded'
               PROVE  /\ coming' = {}
                      /\ have' \subseteq {Input, Site(run')}
                                         \cup {b \in {Box(run')} : pc' = "boxFinally"}
    BY DEF OnceInv
  <1>a. faults \in Nat /\ faults <= 1 /\ (Fault => faults = 0)
    <2>1. faults \in Nat
      BY RecipeAssumption DEF ExecTypes, TypeOK
    <2>2. (Fault => faults' = faults + 1) /\ (Fault \/ UNCHANGED faults)
      BY FaultsCount DEF Fault
    <2> QED
      BY <2>1, <2>2
  <1>b. faults = 0 => Tidy /\ pc # "boxFinally"
    BY DEF OrderlyInv
  <1>c. raised /\ phase # "copy" /\ ControlEnded =>
          /\ coming = {}
          /\ have \subseteq {Input, Site(run)} \cup {b \in {Box(run)} : pc = "boxFinally"}
    BY <1>a DEF OnceInv
  <1>d. pc \in {"side", "site", "run"} /\ ControlEnded => Tidy
    BY DEF TrustInv, Trust, Stages, ControlEnded
  <1>e. Mine \subseteq {Input} /\ MySite \subseteq {Site(run)}
    BY DEF Mine, MySite
  <1> USE <1>a, <1>b, <1>c, <1>d, <1>e DEF Stages, ControlEnded, Tidy, Allowed, dockerVars,
                                           sideVars, callVars
  <1>1. CASE Declines
    BY <1>1 DEF Declines
  <1>2. CASE Begins
    BY <1>2 DEF Begins
  <1>3. CASE MakesVolume
    BY <1>3 DEF MakesVolume, Raises
  <1>4. CASE EntersSide
    BY <1>4 DEF EntersSide
  <1>5. CASE RejectsStep
    BY <1>5 DEF RejectsStep
  <1>6. CASE MakesSite
    BY <1>6 DEF MakesSite, Raises
  <1>7. CASE HasNoCommand
    BY <1>7 DEF HasNoCommand
  <1>8. CASE Runs
    BY <1>8 DEF Runs, RunEnds, Raises
  <1>9. CASE CleansBox
    BY <1>9 DEF CleansBox, BoxDoubtful
  <1>10. CASE CleansBoxFinally
    BY <1>10 DEF CleansBoxFinally, BoxRemoved, BoxDoubtful
  <1>11. CASE RemovesSite
    BY <1>11 DEF RemovesSite, VolumeRemoved, VolumeKept, VolumeDoubtful
  <1>12. CASE PreparationEnds
    BY <1>12 DEF PreparationEnds
  <1>13. CASE Copies
    BY <1>13 DEF Copies
  <1>14. CASE CleansCopy
    BY <1>14 DEF CleansCopy
  <1>15. CASE CopyEnds
    BY <1>15 DEF CopyEnds
  <1>16. CASE SideEnds
    BY <1>16 DEF SideEnds
  <1>17. CASE Unwinds
    BY <1>17 DEF Unwinds
  <1>18. CASE Composes
    BY <1>18 DEF Composes
  <1>19. CASE RemovesVolume
    BY <1>19 DEF RemovesVolume, VolumeRemoved, VolumeKept, VolumeDoubtful
  <1>20. CASE RecipeRaises
    BY <1>20 DEF RecipeRaises
  <1> QED
    BY <1>1, <1>2, <1>3, <1>4, <1>5, <1>6, <1>7, <1>8, <1>9, <1>10,
       <1>11, <1>12, <1>13, <1>14, <1>15, <1>16, <1>17, <1>18, <1>19, <1>20 DEF Actions

LEMMA NumberedStep == ExecTypes /\ Stages /\ Numbered /\ Actions => Numbered'
  <1> SUFFICES ASSUME ExecTypes, Stages, Numbered, Actions PROVE Numbered'
    OBVIOUS
  <1>a. step \in Nat /\ run \in Nat /\ Prep \in Nat
    BY RecipeAssumption DEF ExecTypes, TypeOK
  <1>b. pc = "left" /\ phase = "prep" /\ ~MoreSteps => step = Prep
    BY RecipeAssumption DEF ExecTypes, TypeOK, MoreSteps
  <1> USE <1>a, <1>b DEF Stages, Numbered, sideVars, callVars
  <1>1. CASE Declines
    BY <1>1 DEF Declines
  <1>2. CASE Begins
    BY <1>2 DEF Begins
  <1>3. CASE MakesVolume
    BY <1>3 DEF MakesVolume, Raises
  <1>4. CASE EntersSide
    BY <1>4 DEF EntersSide
  <1>5. CASE RejectsStep
    BY <1>5 DEF RejectsStep
  <1>6. CASE MakesSite
    BY <1>6 DEF MakesSite, Raises
  <1>7. CASE HasNoCommand
    BY <1>7 DEF HasNoCommand
  <1>8. CASE Runs
    BY <1>8 DEF Runs, RunEnds, Raises, Capture
  <1>9. CASE CleansBox
    BY <1>9 DEF CleansBox, Dirty
  <1>10. CASE CleansBoxFinally
    BY <1>10 DEF CleansBoxFinally
  <1>11. CASE RemovesSite
    BY <1>11 DEF RemovesSite, Dirty
  <1>12. CASE PreparationEnds
    BY <1>12 DEF PreparationEnds, GivesUp
  <1>13. CASE Copies
    BY <1>13 DEF Copies, RunEnds, Raises, Capture
  <1>14. CASE CleansCopy
    BY <1>14 DEF CleansCopy, Dirty
  <1>15. CASE CopyEnds
    BY <1>15 DEF CopyEnds, Succeeded, GivesUp
  <1>16. CASE SideEnds
    BY <1>16 DEF SideEnds
  <1>17. CASE Unwinds
    BY <1>17 DEF Unwinds
  <1>18. CASE Composes
    BY <1>18 DEF Composes, Observation
  <1>19. CASE RemovesVolume
    BY <1>19 DEF RemovesVolume
  <1>20. CASE RecipeRaises
    BY <1>20 DEF RecipeRaises
  <1> QED
    BY <1>1, <1>2, <1>3, <1>4, <1>5, <1>6, <1>7, <1>8, <1>9, <1>10,
       <1>11, <1>12, <1>13, <1>14, <1>15, <1>16, <1>17, <1>18, <1>19, <1>20 DEF Actions

\* The names of a call are told apart.
LEMMA Names ==
    \A m, n \in Nat : Input # Box(n) /\ Site(m) # Box(n) /\ Input # Site(n)
                        /\ (Box(m) = Box(n) => m = n)
BY DEF Input, Site, Box

\* What a docker command does to a set of names, seen by one of them.
LEMMA DockerSpares ==
    ASSUME NEW b, \A c \in coming : b \notin c, b \notin have
    PROVE  /\ \A r : r # b /\ Created(r) => b \notin have' /\ \A c \in coming' : b \notin c
           /\ NotCreated \/ Raises \/ UNCHANGED dockerVars
                => b \notin have' /\ \A c \in coming' : b \notin c
           /\ \A r, with : r # b /\ b \notin with /\ Killed(r, with)
                => b \notin have' /\ \A c \in coming' : b \notin c
           /\ BoxRemoved \/ BoxDoubtful => b \notin have' /\ \A c \in coming' : b \notin c
           /\ \A v : VolumeRemoved(v) \/ VolumeKept(v) \/ VolumeDoubtful(v)
                => b \notin have' /\ \A c \in coming' : b \notin c
  <1>1. ASSUME NEW r, r # b, Created(r) PROVE b \notin have' /\ \A c \in coming' : b \notin c
    BY <1>1 DEF Created
  <1>2. ASSUME NotCreated \/ Raises \/ UNCHANGED dockerVars
        PROVE  b \notin have' /\ \A c \in coming' : b \notin c
    BY <1>2 DEF NotCreated, Raises, dockerVars
  <1>3. ASSUME NEW r, NEW with, r # b, b \notin with, Killed(r, with)
        PROVE  b \notin have' /\ \A c \in coming' : b \notin c
    BY <1>3 DEF Killed
  <1>4. ASSUME BoxRemoved \/ BoxDoubtful PROVE b \notin have' /\ \A c \in coming' : b \notin c
    BY <1>4 DEF BoxRemoved, BoxDoubtful
  <1>5. ASSUME NEW v, VolumeRemoved(v) \/ VolumeKept(v) \/ VolumeDoubtful(v)
        PROVE  b \notin have' /\ \A c \in coming' : b \notin c
    BY <1>5 DEF VolumeRemoved, VolumeKept, VolumeDoubtful, dockerVars
  <1> QED
    BY <1>1, <1>2, <1>3, <1>4, <1>5

\* Only the end of a call takes its input volume away.
LEMMA InputStays ==
    ASSUME TypeOK, Input \in have, Actions, ~RemovesVolume
    PROVE  Input \in have'
  <1>a. run \in Nat /\ Input # Box(run) /\ Input # Site(run)
    BY Names DEF TypeOK
  <1> USE <1>a DEF dockerVars
  <1>1. CASE Declines
    BY <1>1 DEF Declines
  <1>2. CASE Begins
    BY <1>2 DEF Begins
  <1>3. CASE MakesVolume
    BY <1>3 DEF MakesVolume, Created, NotCreated, Killed, Raises, Fault
  <1>4. CASE EntersSide
    BY <1>4 DEF EntersSide
  <1>5. CASE RejectsStep
    BY <1>5 DEF RejectsStep
  <1>6. CASE MakesSite
    BY <1>6 DEF MakesSite, Created, NotCreated, Killed, Raises, Fault
  <1>7. CASE HasNoCommand
    BY <1>7 DEF HasNoCommand
  <1>8. CASE Runs
    BY <1>8 DEF Runs, RunEnds, Created, Killed, Raises, Fault, Capture
  <1>9. CASE CleansBox
    BY <1>9 DEF CleansBox, BoxRemoved, BoxDoubtful
  <1>10. CASE CleansBoxFinally
    BY <1>10 DEF CleansBoxFinally, BoxRemoved, BoxDoubtful, Fault
  <1>11. CASE RemovesSite
    BY <1>11 DEF RemovesSite, VolumeRemoved, VolumeKept, VolumeDoubtful
  <1>12. CASE PreparationEnds
    BY <1>12 DEF PreparationEnds, Succeeded, GivesUp, MoreSteps
  <1>13. CASE Copies
    BY <1>13 DEF Copies, RunEnds, Created, Killed, Raises, Fault, Capture
  <1>14. CASE CleansCopy
    BY <1>14 DEF CleansCopy, BoxRemoved, BoxDoubtful
  <1>15. CASE CopyEnds
    BY <1>15 DEF CopyEnds, Succeeded, GivesUp
  <1>16. CASE SideEnds
    BY <1>16 DEF SideEnds
  <1>17. CASE Unwinds
    BY <1>17 DEF Unwinds
  <1>18. CASE Composes
    BY <1>18 DEF Composes, Observation
  <1>20. CASE RecipeRaises
    BY <1>20 DEF RecipeRaises
  <1> QED
    BY <1>1, <1>2, <1>3, <1>4, <1>5, <1>6, <1>7, <1>8, <1>9, <1>10,
       <1>11, <1>12, <1>13, <1>14, <1>15, <1>16, <1>17, <1>18, <1>20 DEF Actions

\* No step of a side brings a container of the preparation back.
LEMMA SidesSpare ==
    ASSUME TypeOK, AtSides, phase \in {"control", "candidate"}, Actions,
           run >= Prep + 1, pc # "side" => run > Prep + 1,
           NEW n \in 1..(Prep + 1), Box(n) \notin have, \A c \in coming : Box(n) \notin c
    PROVE  Box(n) \notin have' /\ \A c \in coming' : Box(n) \notin c
  <1>a. run \in Nat /\ n \in Nat /\ Prep \in Nat
    BY RecipeAssumption DEF TypeOK
  <1>b. Site(run) # Box(n) /\ Input # Box(n) /\ Box(n) \notin Mounted
    BY <1>a, Names DEF Mounted
  <1>c. pc = "run" => Box(run) # Box(n)
    BY <1>a, Names
  <1> USE <1>b, <1>c, DockerSpares DEF AtSides
  <1>1. CASE Declines
    BY <1>1 DEF Declines
  <1>2. CASE Begins
    BY <1>2 DEF Begins
  <1>3. CASE MakesVolume
    BY <1>3 DEF MakesVolume
  <1>4. CASE EntersSide
    BY <1>4 DEF EntersSide
  <1>5. CASE RejectsStep
    BY <1>5 DEF RejectsStep
  <1>6. CASE MakesSite
    BY <1>6 DEF MakesSite
  <1>7. CASE HasNoCommand
    BY <1>7 DEF HasNoCommand
  <1>8. CASE Runs
    BY <1>8 DEF Runs, RunEnds
  <1>9. CASE CleansBox
    BY <1>9 DEF CleansBox
  <1>10. CASE CleansBoxFinally
    BY <1>10 DEF CleansBoxFinally
  <1>11. CASE RemovesSite
    BY <1>11 DEF RemovesSite
  <1>12. CASE PreparationEnds
    BY <1>12 DEF PreparationEnds, Succeeded, GivesUp, MoreSteps
  <1>13. CASE Copies
    BY <1>13 DEF Copies, RunEnds
  <1>14. CASE CleansCopy
    BY <1>14 DEF CleansCopy
  <1>15. CASE CopyEnds
    BY <1>15 DEF CopyEnds, Succeeded, GivesUp
  <1>16. CASE SideEnds
    BY <1>16 DEF SideEnds
  <1>17. CASE Unwinds
    BY <1>17 DEF Unwinds
  <1>18. CASE Composes
    BY <1>18 DEF Composes, Observation
  <1>19. CASE RemovesVolume
    BY <1>19 DEF RemovesVolume
  <1>20. CASE RecipeRaises
    BY <1>20 DEF RecipeRaises
  <1> QED
    BY <1>1, <1>2, <1>3, <1>4, <1>5, <1>6, <1>7, <1>8, <1>9, <1>10,
       <1>11, <1>12, <1>13, <1>14, <1>15, <1>16, <1>17, <1>18, <1>19, <1>20 DEF Actions

LEMMA SettledStep ==
    ExecTypes /\ Stages /\ TrustInv /\ Numbered /\ SettledInv /\ Actions => SettledInv'
  <1> SUFFICES ASSUME ExecTypes, Stages, TrustInv, Numbered, SettledInv, Actions
               PROVE  SettledInv'
    OBVIOUS
  <1>a. step \in Nat /\ run \in Nat /\ Prep \in Nat
    BY RecipeAssumption DEF ExecTypes, TypeOK
  <1>1. (volumeCreated /\ pc # "done" => Input \in have)'
    <2>1. CASE MakesVolume
      BY <2>1 DEF MakesVolume, Created, SettledInv, Stages
    <2>2. CASE RemovesVolume
      BY <2>2 DEF RemovesVolume
    <2>3. CASE ~MakesVolume /\ ~RemovesVolume
      <3>1. UNCHANGED volumeCreated /\ pc # "done"
        BY <2>3 DEF Actions, Declines, Begins, EntersSide, RejectsStep, MakesSite, HasNoCommand,
                    RecipeRaises, Runs, CleansBox, CleansBoxFinally, RemovesSite, PreparationEnds,
                    Copies, CleansCopy, CopyEnds, SideEnds, Unwinds, Composes, callVars
      <3> QED
        BY <2>3, <3>1, InputStays DEF SettledInv, ExecTypes
    <2> QED
      BY <2>1, <2>2, <2>3
  <1>2. (Prep > 0 /\ (AtSides \/ pc \in {"copy", "copyBox", "copied"}) => volumeCreated)'
    <2> USE DEF SettledInv, AtSides, sideVars, callVars
    <2>1. CASE Declines
      BY <2>1 DEF Declines
    <2>2. CASE Begins
      BY <2>2 DEF Begins
    <2>3. CASE MakesVolume
      BY <2>3 DEF MakesVolume
    <2>4. CASE EntersSide
      BY <2>4 DEF EntersSide
    <2>5. CASE RejectsStep
      BY <2>5 DEF RejectsStep
    <2>6. CASE MakesSite
      BY <2>6 DEF MakesSite
    <2>7. CASE HasNoCommand
      BY <2>7 DEF HasNoCommand
    <2>8. CASE Runs
      BY <2>8 DEF Runs, RunEnds
    <2>9. CASE CleansBox
      BY <2>9 DEF CleansBox
    <2>10. CASE CleansBoxFinally
      BY <2>10 DEF CleansBoxFinally
    <2>11. CASE RemovesSite
      BY <2>11 DEF RemovesSite
    <2>12. CASE PreparationEnds
      BY <2>12 DEF PreparationEnds, Succeeded, GivesUp, MoreSteps
    <2>13. CASE Copies
      BY <2>13 DEF Copies, RunEnds
    <2>14. CASE CleansCopy
      BY <2>14 DEF CleansCopy
    <2>15. CASE CopyEnds
      BY <2>15 DEF CopyEnds, Succeeded, GivesUp
    <2>16. CASE SideEnds
      BY <2>16 DEF SideEnds
    <2>17. CASE Unwinds
      BY <2>17 DEF Unwinds
    <2>18. CASE Composes
      BY <2>18 DEF Composes, Observation
    <2>19. CASE RemovesVolume
      BY <2>19 DEF RemovesVolume
    <2>20. CASE RecipeRaises
      BY <2>20 DEF RecipeRaises
    <2> QED
      BY <2>1, <2>2, <2>3, <2>4, <2>5, <2>6, <2>7, <2>8, <2>9, <2>10,
         <2>11, <2>12, <2>13, <2>14, <2>15, <2>16, <2>17, <2>18, <2>19, <2>20 DEF Actions
  <1>3. ASSUME Prep > 0, phase' \in {"control", "candidate"}, AtSides'
        PROVE  /\ run' >= Prep + 1 /\ (pc' # "side" => run' > Prep + 1)
               /\ NoPrepBox(have') /\ \A c \in coming' : NoPrepBox(c)
    <2>1. CASE AtSides /\ phase \in {"control", "candidate"}
      <3>1. /\ run >= Prep + 1 /\ (pc # "side" => run > Prep + 1)
            /\ \A n \in 1..(Prep + 1) : Box(n) \notin have /\ \A c \in coming : Box(n) \notin c
        BY <1>3, <2>1 DEF SettledInv, NoPrepBox
      <3>2. \A n \in 1..(Prep + 1) : Box(n) \notin have' /\ \A c \in coming' : Box(n) \notin c
        BY <2>1, <3>1, SidesSpare DEF ExecTypes
      <3>3. run' >= Prep + 1 /\ (pc' # "side" => run' > Prep + 1)
        <4>1. CASE EntersSide
          BY <1>a, <3>1, <4>1 DEF EntersSide
        <4>2. CASE ~EntersSide
          <5>1. UNCHANGED run /\ (pc' # "side" => pc # "side")
            BY <1>3, <2>1, <4>2 DEF AtSides, Actions, Declines, Begins, MakesVolume, RejectsStep,
                  MakesSite, HasNoCommand, RecipeRaises, Runs, CleansBox, CleansBoxFinally,
                  RemovesSite, PreparationEnds, Copies, CleansCopy, CopyEnds, SideEnds, Unwinds,
                  Composes, RemovesVolume, sideVars
          <5> QED
            BY <3>1, <5>1
        <4> QED
          BY <4>1, <4>2
      <3> QED
        BY <3>2, <3>3 DEF NoPrepBox
    <2>2. CASE ~(AtSides /\ phase \in {"control", "candidate"})
      <3>1. CopyEnds /\ pc' = "side"
        BY <1>3, <2>2 DEF AtSides, Stages, Actions, Declines, Begins, MakesVolume, EntersSide,
              RejectsStep, MakesSite, HasNoCommand, RecipeRaises, Runs, CleansBox, CleansBoxFinally,
              RemovesSite, PreparationEnds, GivesUp, Copies, CleansCopy, CopyEnds,
              SideEnds, Unwinds, Composes, RemovesVolume, callVars
      <3>2. /\ pc = "copied" /\ Succeeded(cap) /\ UNCHANGED <<have, coming, run>>
        BY <3>1 DEF CopyEnds, GivesUp, dockerVars, sideVars
      <3>3. Trust
        BY <3>2 DEF Trust, Stages, Succeeded, Fine, Ended
      <3>4. coming = {} /\ have \subseteq {Input}
        BY <3>2, <3>3 DEF TrustInv, Tidy, Allowed, Mine, MySite
      <3>5. NoPrepBox(have) /\ run = Prep + 1
        BY <1>a, <3>2, <3>4, Names DEF NoPrepBox, Numbered
      <3> QED
        BY <1>a, <3>1, <3>2, <3>4, <3>5
    <2> QED
      BY <2>1, <2>2
  <1> QED
    BY <1>1, <1>2, <1>3 DEF SettledInv

LEMMA ShownStep ==
    ExecTypes /\ Stages /\ OrderlyInv /\ ShownInv /\ Actions => ShownInv'
  <1> SUFFICES ASSUME ExecTypes, Stages, OrderlyInv, ShownInv, Actions, faults' = 0
               PROVE  ShownInv'
    BY DEF ShownInv
  <1>a. ~Fault /\ faults = 0
    <2>1. ~Fault
      BY RecipeAssumption DEF Fault, ExecTypes, TypeOK
    <2> QED
      BY <2>1, FaultsCount
  <1>b. Tidy
    BY <1>a DEF OrderlyInv
  <1>c. /\ \A c \in {cap, control, candidate} : c # None => ~c.dirty
        /\ pc \notin {"compose", "unvolume", "done"} => candidate = None
        /\ (pc \in {"unvolume", "done"} /\ None \notin {control, candidate}
              /\ ~control.limit /\ ~candidate.limit)
             => status \in {"COMPLETED", "OBSERVED_FAILURE"} /\ receipt = "verified"
    BY <1>a DEF ShownInv
  <1>d. pc \in {"unsite", "unvolume"} => ~InUse(Site(run)) /\ ~InUse(Input)
    BY <1>b, NothingInUse DEF Tidy, Allowed, Mine, MySite
  <1> USE <1>a, <1>c, <1>d DEF ShownInv, sideVars, callVars
  <1>1. CASE Declines
    BY <1>1 DEF Declines
  <1>2. CASE Begins
    BY <1>2 DEF Begins
  <1>3. CASE MakesVolume
    BY <1>3 DEF MakesVolume, NotCreated, Killed, Raises
  <1>4. CASE EntersSide
    BY <1>4 DEF EntersSide
  <1>5. CASE RejectsStep
    BY <1>5 DEF RejectsStep
  <1>6. CASE MakesSite
    BY <1>6 DEF MakesSite
  <1>7. CASE HasNoCommand
    BY <1>7 DEF HasNoCommand
  <1>8. CASE Runs
    BY <1>8 DEF Runs, RunEnds, Capture, Killed, Raises
  <1>9. CASE CleansBox
    BY <1>9 DEF CleansBox, BoxDoubtful, Dirty
  <1>10. CASE CleansBoxFinally
    BY <1>10 DEF CleansBoxFinally, BoxDoubtful
  <1>11. CASE RemovesSite
    BY <1>11 DEF RemovesSite, Dirty, VolumeKept, VolumeDoubtful
  <1>12. CASE PreparationEnds
    BY <1>12 DEF PreparationEnds, GivesUp
  <1>13. CASE Copies
    BY <1>13 DEF Copies, RunEnds, Capture, Killed, Raises
  <1>14. CASE CleansCopy
    BY <1>14 DEF CleansCopy, BoxDoubtful, Dirty
  <1>15. CASE CopyEnds
    BY <1>15 DEF CopyEnds, GivesUp
  <1>16. CASE SideEnds
    BY <1>16 DEF SideEnds
  <1>17. CASE Unwinds
    BY <1>17 DEF Unwinds
  <1>18. CASE Composes
    BY <1>18 DEF Composes, Observation, Complete
  <1>19. CASE RemovesVolume
    BY <1>19 DEF RemovesVolume, VolumeKept, VolumeDoubtful
  <1>20. CASE RecipeRaises
    BY <1>20 DEF RecipeRaises
  <1> QED
    BY <1>1, <1>2, <1>3, <1>4, <1>5, <1>6, <1>7, <1>8, <1>9, <1>10,
       <1>11, <1>12, <1>13, <1>14, <1>15, <1>16, <1>17, <1>18, <1>19, <1>20 DEF Actions

LEMMA ExecInit == Init => ExecInv
  <1> SUFFICES ASSUME Init PROVE ExecInv
    OBVIOUS
  <1>1. ExecTypes
    <2>1. have \subseteq Resources /\ coming \subseteq SUBSET Resources
      BY DEF Init
    <2>2. step \in 0..Prep /\ run \in Nat /\ faults \in 0..MaxFaults
      BY RecipeAssumption DEF Init
    <2>3. /\ {cap, control, candidate} \subseteq Captures \cup {None}
          /\ {sited, volumeCreated, raised, phantom} \subseteq BOOLEAN
      BY DEF Init
    <2> QED
      BY <2>1, <2>2, <2>3 DEF Init, ExecTypes, TypeOK, Phases
  <1>2. Stages /\ Numbered /\ TrustInv /\ OrderlyInv /\ OnceInv
    BY DEF Init, Stages, Numbered, TrustInv, OrderlyInv, OnceInv, Tidy
  <1>3. SettledInv /\ ShownInv
    BY CaptureAssumption DEF Init, SettledInv, ShownInv, AtSides
  <1> QED
    BY <1>1, <1>2, <1>3 DEF ExecInv

\* What the daemon brings late comes to a call that has had trouble, and is no
\* container of the preparation once the sides run.
LEMMA MaterializesStep == ASSUME ExecInv, NEW c \in coming, Materializes(c) PROVE ExecInv'
  <1>a. /\ UNCHANGED <<faults, pc, raised, sideVars, callVars>>
        /\ have' = have \cup c /\ coming' = coming \ {c} /\ coming # {}
    BY DEF Materializes
  <1>1. ExecTypes'
    BY <1>a DEF ExecInv, ExecTypes, TypeOK, sideVars, callVars
  <1>2. Stages' /\ Numbered' /\ ShownInv'
    BY <1>a DEF ExecInv, Stages, Numbered, ShownInv, Complete, sideVars, callVars
  <1>3. TrustInv'
    <2>1. Trust' => Trust
      BY <1>a DEF Trust, Ended, Fine, Complete, sideVars, callVars
    <2> QED
      BY <1>a, <2>1 DEF ExecInv, TrustInv, Tidy
  <1>4. OrderlyInv' /\ OnceInv'
    BY <1>a DEF ExecInv, OrderlyInv, OnceInv, ControlEnded, Complete, Tidy, sideVars, callVars
  <1>5. SettledInv'
    BY <1>a DEF ExecInv, SettledInv, AtSides, NoPrepBox, sideVars, callVars
  <1> QED
    BY <1>1, <1>2, <1>3, <1>4, <1>5 DEF ExecInv

LEMMA ExecStep == ExecInv /\ [Next]_vars => ExecInv'
  <1> SUFFICES ASSUME ExecInv, [Next]_vars PROVE ExecInv'
    OBVIOUS
  <1>1. CASE Actions
    <2>1. ExecTypes' /\ Stages' /\ TrustInv'
      BY <1>1, TypesStep, StagesStep, TrustStep DEF ExecInv
    <2>2. OrderlyInv' /\ OnceInv' /\ Numbered' /\ SettledInv' /\ ShownInv'
      BY <1>1, OrderlyStep, OnceStep, NumberedStep, SettledStep, ShownStep DEF ExecInv
    <2> QED
      BY <2>1, <2>2 DEF ExecInv
  <1>2. CASE \E c \in coming : Materializes(c)
    BY <1>2, MaterializesStep
  <1>3. CASE UNCHANGED vars
    <2>1. /\ UNCHANGED <<have, coming, pc, phase, step, run, cap, sited>>
          /\ UNCHANGED <<control, candidate, volumeCreated, raised, status, receipt, faults, phantom>>
      BY <1>3 DEF vars
    <2>2. ExecTypes' /\ Stages' /\ Numbered'
      BY <2>1 DEF ExecInv, ExecTypes, TypeOK, Stages, Numbered, Complete
    <2>3. (Tidy' <=> Tidy) /\ (Trust' <=> Trust)
      BY <2>1 DEF Tidy, Allowed, Mine, MySite, Site, Box, Trust, Ended, Fine, Complete
    <2>4. TrustInv' /\ OrderlyInv'
      BY <2>1, <2>3 DEF ExecInv, TrustInv, OrderlyInv
    <2>5. SettledInv' /\ ShownInv'
      BY <2>1 DEF ExecInv, SettledInv, ShownInv, AtSides, NoPrepBox
    <2>6. OnceInv'
      BY <2>1 DEF ExecInv, OnceInv, ControlEnded, Complete, Site, Box
    <2> QED
      BY <2>2, <2>4, <2>5, <2>6 DEF ExecInv
  <1> QED
    BY <1>1, <1>2, <1>3 DEF Next, Actions

LEMMA ExecAlways == Spec => []ExecInv
BY ExecInit, ExecStep, PTL DEF Spec

-----------------------------------------------------------------------------
(* The theorems *)

\* Every variable keeps its type, for every recipe and every number of faults.
THEOREM ExecutorTypes == Spec => []TypeOK
  <1>1. ExecInv => TypeOK
    BY DEF ExecInv, ExecTypes
  <1> QED
    BY <1>1, ExecAlways, PTL

\* A receipt that V12ExperimentExecutor.__call__ writes as verified is right: what
\* the call made is gone, and nothing that a killed docker client asked for is
\* still to come. Such a receipt needs two sides without a limit and without a
\* mark, and then no step on the way can have left anything.
THEOREM VerifiedReceiptIsClean == Spec => []VerifiedIsClean
  <1>1. ExecInv => VerifiedIsClean
    <2> SUFFICES ASSUME ExecInv, Returned, receipt = "verified" PROVE have = {} /\ coming = {}
      BY DEF VerifiedIsClean
    <2>1. Trust
      BY DEF ExecInv, Stages, Trust, Returned
    <2> QED
      BY <2>1 DEF ExecInv, TrustInv, Tidy, Allowed, Mine, MySite, Returned
  <1> QED
    BY <1>1, ExecAlways, PTL

\* While control or candidate may run (_run_side), the input volume the preparation
\* filled is there and no container of the preparation can still write to it.
THEOREM SidesFindInput == Spec => []PreparedInputIsSettled
  <1>1. ExecInv => PreparedInputIsSettled
    BY DEF ExecInv, SettledInv, AtSides, NoPrepBox, PreparedInputIsSettled
  <1> QED
    BY <1>1, ExecAlways, PTL

\* With a docker that does what it is asked, a call of V12ExperimentExecutor leaves
\* no container and no volume on any way out, an exception at its recipe included;
\* if docker fails once, an exception leaves no container, with the exceptions of
\* the copy and of a control that did not end in order.
THEOREM CallCleansUp == Spec => []FailuresAreContained
  <1>1. ExecInv => FailuresAreContained
    <2> SUFFICES ASSUME ExecInv, pc = "done" PROVE FailuresAreContained
      BY DEF FailuresAreContained
    <2>1. faults = 0 => have = {} /\ coming = {}
      BY DEF ExecInv, OrderlyInv, Tidy, Allowed, Mine, MySite
    <2>2. ASSUME raised, faults = 1, phase # "copy", ControlEnded
          PROVE  coming = {} /\ \A r \in have : r.kind # "box"
      <3>1. coming = {} /\ have \subseteq {Input, Site(run)}
        BY <2>2 DEF ExecInv, OnceInv
      <3> QED
        BY <3>1 DEF Input, Site
    <2> QED
      BY <2>1, <2>2 DEF FailuresAreContained, ControlEnded
  <1> QED
    BY <1>1, ExecAlways, PTL

\* A side that docker refused to create always passes for an observation, with a
\* receipt that says verified: no later step of the call tells it apart.
THEOREM RefusalIsShown == Spec => []RefusedLooksObserved
  <1>1. ExecInv => RefusedLooksObserved
    BY DEF ExecInv, ShownInv, RefusedLooksObserved, Returned
  <1> QED
    BY <1>1, ExecAlways, PTL
=============================================================================
