-------------------------- MODULE EvaluateV12Proofs --------------------------
(***************************************************************************)
(* Proofs about EvaluateV12, for every number of cases, records, requests,  *)
(* documents and edits.                                                     *)
(***************************************************************************)
EXTENDS EvaluateV12, FiniteSetTheorems, TLAPS

Actions ==
    \/ EditsBundle \/ EditsGold \/ RemovesCatalog \/ PeerEnters \/ PeerLeaves
    \/ AuditsCandidate \/ AuditsSufficiency \/ ChecksGates \/ AuditsGold
    \/ ReadsBundle \/ Binds
    \/ Launches \/ Experiments \/ Predicts \/ Cleans \/ Closes \/ Tidies
    \/ Scores

-----------------------------------------------------------------------------
(* The invariant *)

\* What is bound is bound by the document that is scored.
Bound ==
    pc \in {"launch", "session", "tidy", "score"} => packets = Packets(answerKey, mapping)

\* The program counters behind all gates.
Past == {"read", "bind", "launch", "session", "tidy", "score"}

\* Every gate that has been passed had nothing to object.
Passed ==
    /\ pc \in {"gates", "gold"} \cup Past => reference \in Bundles
    /\ pc = "gold" => failing \subseteq blockers
    /\ pc \in Past => blockers = {} /\ failing = {} /\ Sound(goldAudited)

\* Without an edit every document read so far is the one that is there.
Unedited ==
    edits = 0 =>
        /\ pc # "audit" => audited = bundle
        /\ pc \in {"gates", "gold"} \cup Past => bundle = reference
        /\ pc \in Past => goldAudited = gold
        /\ pc \in Past \ {"read"} => shown = bundle
        /\ pc \in Past \ {"read", "bind"} => answerKey = gold

\* A completed session has settled every episode and removed its container.
Closed == outcome = "COMPLETED" => clean /\ \A e \in Episodes : settled[e] # None

\* An experiment is spent on each request with a receipt, proved or not.
Ran(e) == {i \in RequestIds : receipt[e][i] # "none"}
Counted == \A e \in Episodes : Ran(e) \subseteq asked[e] /\ spent[e] = Cardinality(Ran(e))

\* The result is the last thing evaluate_v12 writes.
Last == status = "COMPLETED" => pc = "done"

EvalInv ==
    /\ TypeOK /\ Bound /\ Passed /\ Unedited /\ Closed /\ Counted /\ Last
    /\ Aligned /\ CompletedIsEarned /\ CleanupIsAccounted
-----------------------------------------------------------------------------
(* Mappings, packets and ledgers *)

\* The case of an episode is the one that is mapped to it.
LEMMA Inverting ==
    ASSUME NEW m \in Bijection(Cases, Episodes), NEW x \in Episodes, NEW c \in Cases
    PROVE  Inverted(m)[x] = c <=> m[c] = x
  <1>1. /\ m \in [Cases -> Episodes]
        /\ \A a, b \in Cases : m[a] = m[b] => a = b
        /\ \E s \in Cases : m[s] = x
    BY DEF Bijection, Injection, Surjection, IsInjective
  <1>2. x \in Range(m)
    BY <1>1 DEF Range
  <1>3. Inverted(m)[x] = CHOOSE s \in Cases : x \in Range(m) => m[s] = x
    BY DEF Inverted, Inverse
  <1>4. Inverted(m)[x] \in Cases /\ m[Inverted(m)[x]] = x
    BY <1>1, <1>2, <1>3
  <1> QED
    BY <1>1, <1>4

\* A bound packet is the record whose case has the episode's name.
LEMMA PacketsFit ==
    ASSUME NEW g, g.map \in Bijection(Records, Cases), NEW m \in Bijection(Cases, Episodes),
           NEW e \in Episodes
    PROVE  /\ Packets(g, m) \in [Episodes -> Records]
           /\ g.map[Packets(g, m)[e]] \in Cases /\ m[g.map[Packets(g, m)[e]]] = e
  <1>1. /\ g.map \in [Records -> Cases] /\ \A c \in Cases : \E r \in Records : g.map[r] = c
        /\ \A x \in Episodes : \E c \in Cases : m[c] = x
    BY DEF Bijection, Injection, Surjection
  <1>2. \A x \in Episodes : \E r \in Records : m[g.map[r]] = x
    BY <1>1
  <1>3. \A x \in Episodes : /\ Packets(g, m)[x] = CHOOSE r \in Records : m[g.map[r]] = x
                            /\ Packets(g, m)[x] \in Records
                            /\ m[g.map[Packets(g, m)[x]]] = x
    BY <1>2 DEF Packets
  <1>4. Packets(g, m) = [x \in Episodes |-> Packets(g, m)[x]]
    BY DEF Packets
  <1> QED
    BY <1>1, <1>3, <1>4

\* The run of a case is that of its episode.
LEMMA RunsFit ==
    ASSUME mapping \in Bijection(Cases, Episodes), NEW c \in Cases
    PROVE  /\ mapping[c] \in Episodes
           /\ Runs[c] = [prediction |-> settled[mapping[c]], ledger |-> Summary(mapping[c])]
  <1>1. mapping[c] \in Episodes
    BY DEF Bijection, Injection
  <1>2. \A x \in Episodes : Inverted(mapping)[x] = c <=> x = mapping[c]
    BY Inverting
  <1>3. (CHOOSE x \in Episodes : Inverted(mapping)[x] = c) = mapping[c]
    BY <1>1, <1>2
  <1> QED
    BY <1>1, <1>3 DEF Runs

-----------------------------------------------------------------------------
(* The steps *)

LEMMA RanIsFinite == ASSUME NEW e PROVE IsFiniteSet(Ran(e))
BY NamesAssumption, FS_Subset DEF Ran

\* A session keeps its types.
SessionTypes ==
    /\ outcome \in {"none", "COMPLETED", "BLOCKED", "RAISED"}
    /\ settled \in [Episodes -> Predictions \cup {None}]
    /\ asked \in [Episodes -> SUBSET RequestIds]
    /\ answered \in [Episodes -> SUBSET RequestIds]
    /\ spent \in [Episodes -> 0..MaxExperiments]
    /\ clean \in BOOLEAN
    /\ receipt \in [Episodes -> [RequestIds -> Receipts]]

LEMMA SessionKeepsTypes == SessionTypes /\ Actions => SessionTypes'
  <1> SUFFICES ASSUME SessionTypes, Actions PROVE SessionTypes'
    OBVIOUS
  <1> USE DEF SessionTypes, session
  <1>1. CASE EditsBundle
    BY <1>1 DEF EditsBundle
  <1>2. CASE EditsGold
    BY <1>2 DEF EditsGold
  <1>3. CASE RemovesCatalog
    BY <1>3 DEF RemovesCatalog
  <1>4. CASE PeerEnters
    BY <1>4 DEF PeerEnters
  <1>5. CASE PeerLeaves
    BY <1>5 DEF PeerLeaves
  <1>6. CASE AuditsCandidate
    BY <1>6 DEF AuditsCandidate
  <1>7. CASE AuditsSufficiency
    BY <1>7 DEF AuditsSufficiency
  <1>8. CASE ChecksGates
    BY <1>8 DEF ChecksGates
  <1>9. CASE AuditsGold
    BY <1>9 DEF AuditsGold
  <1>10. CASE ReadsBundle
    BY <1>10 DEF ReadsBundle
  <1>11. CASE Binds
    BY <1>11 DEF Binds
  <1>12. CASE Launches
    BY <1>12 DEF Launches, Session!Fail, Session!Open
  <1>13. CASE Experiments
    <2>1. PICK e \in Episodes, i \in RequestIds :
             \/ /\ Session!Run(e, i)
                /\ \E r \in Receipts \ {"none"} : receipt' = [receipt EXCEPT ![e][i] = r]
             \/ (Session!Refuse(e, i) \/ Session!Answer(e, i)) /\ UNCHANGED receipt
      BY <1>13 DEF Experiments
    <2>2. /\ asked' \in {asked, [asked EXCEPT ![e] = asked[e] \cup {i}]}
          /\ answered' \in {answered, [answered EXCEPT ![e] = answered[e] \cup {i}]}
      BY <2>1 DEF Session!Run, Session!Refuse, Session!Answer, Session!Admit
    <2>3. \A f \in [Episodes -> SUBSET RequestIds] :
            [f EXCEPT ![e] = f[e] \cup {i}] \in [Episodes -> SUBSET RequestIds]
      <3>1. \A f \in [Episodes -> SUBSET RequestIds] : f[e] \cup {i} \in SUBSET RequestIds
        OBVIOUS
      <3> QED
        BY <3>1
    <2>5. receipt' \in [Episodes -> [RequestIds -> Receipts]]
      <3>1. \A r \in Receipts :
              [receipt EXCEPT ![e][i] = r] \in [Episodes -> [RequestIds -> Receipts]]
        OBVIOUS
      <3> QED
        BY <2>1, <3>1
    <2>4. spent' \in [Episodes -> 0..MaxExperiments]
      <3>1. spent[e] \in Nat /\ MaxExperiments \in Nat
        BY NamesAssumption
      <3>2. spent[e] < MaxExperiments => spent[e] + 1 \in 0..MaxExperiments
        BY <3>1
      <3> QED
        BY <2>1, <3>2 DEF Session!Run, Session!Refuse, Session!Answer
    <2>6. /\ asked' \in [Episodes -> SUBSET RequestIds]
          /\ answered' \in [Episodes -> SUBSET RequestIds]
      BY <2>2, <2>3
    <2>7. UNCHANGED <<outcome, settled, clean>>
      BY <2>1 DEF Session!Run, Session!Refuse, Session!Answer
    <2> QED
      BY <2>4, <2>5, <2>6, <2>7
  <1>14. CASE Predicts
    BY <1>14 DEF Predicts, Session!Settle
  <1>15. CASE Cleans
    BY <1>15 DEF Cleans, Session!Clean
  <1>16. CASE Closes
    BY <1>16 DEF Closes, Session!Complete, Session!Fail
  <1>17. CASE Tidies
    BY <1>17 DEF Tidies
  <1>18. CASE Scores
    BY <1>18 DEF Scores
  <1> QED
    BY <1>1, <1>2, <1>3, <1>4, <1>5, <1>6, <1>7, <1>8, <1>9,
       <1>10, <1>11, <1>12, <1>13, <1>14, <1>15, <1>16, <1>17, <1>18 DEF Actions

\* The other types, in parts.
FileTypes ==
    /\ bundle \in Bundles \cup Unfit /\ gold \in Golds
    /\ reference \in Bundles \cup {None}
    /\ catalog \in BOOLEAN /\ failing \in SUBSET Gates
    /\ workspace \in BOOLEAN /\ peer \in {"before", "inside", "after"}
    /\ edits \in 0..MaxEdits

ReadTypes ==
    /\ audited \in Bundles \cup Unfit \cup {None}
    /\ shown \in Bundles \cup Unfit \cup {None}
    /\ goldAudited \in Golds /\ answerKey \in Golds
    /\ mapping \in Bijection(Cases, Episodes) \cup {None}
    /\ packets \in [Episodes -> Records] \cup {None}
    /\ pc \in {"launch", "session", "tidy", "score"} =>
         /\ mapping \in Bijection(Cases, Episodes) /\ packets \in [Episodes -> Records]
         /\ answerKey.there /\ answerKey.map \in Bijection(Records, Cases)

VerdictTypes ==
    /\ pc \in {"audit", "sufficiency", "gates", "gold", "read", "bind", "launch",
               "session", "tidy", "score", "done"}
    /\ blockers \in SUBSET Blockers
    /\ status \in {"none", "BLOCKED", "COMPLETED", "RAISED"}
    /\ status # "COMPLETED" => result = None

LEMMA TypeParts == TypeOK <=> FileTypes /\ ReadTypes /\ VerdictTypes /\ SessionTypes
BY DEF TypeOK, FileTypes, ReadTypes, VerdictTypes, SessionTypes

LEMMA FilesKeepTypes == FileTypes /\ Actions => FileTypes'
  <1> SUFFICES ASSUME FileTypes, Actions PROVE FileTypes'
    OBVIOUS
  <1>a. /\ UNCHANGED <<files, host>> => FileTypes'
        /\ UNCHANGED <<files, peer>> /\ workspace' \in BOOLEAN => FileTypes'
    BY DEF FileTypes, files, host
  <1>b. edits \in Nat /\ MaxEdits \in Nat /\ (edits < MaxEdits => edits + 1 \in 0..MaxEdits)
    BY NamesAssumption DEF FileTypes
  <1> USE <1>a
  <1>1. CASE EditsBundle
    BY <1>1, <1>b DEF EditsBundle, FileTypes, host
  <1>2. CASE EditsGold
    BY <1>2, <1>b DEF EditsGold, FileTypes, host
  <1>3. CASE RemovesCatalog
    BY <1>3, <1>b DEF RemovesCatalog, FileTypes, host
  <1>4. CASE PeerEnters
    BY <1>4 DEF PeerEnters, FileTypes, files
  <1>5. CASE PeerLeaves
    BY <1>5 DEF PeerLeaves, FileTypes, files
  <1>6. CASE AuditsCandidate
    BY <1>6 DEF AuditsCandidate
  <1>7. CASE AuditsSufficiency
    BY <1>7 DEF AuditsSufficiency
  <1>8. CASE ChecksGates
    BY <1>8 DEF ChecksGates
  <1>9. CASE AuditsGold
    BY <1>9 DEF AuditsGold
  <1>10. CASE ReadsBundle
    BY <1>10 DEF ReadsBundle
  <1>11. CASE Binds
    <2>1. UNCHANGED <<files, peer>> /\ workspace' \in {TRUE, workspace}
      BY <1>11 DEF Binds
    <2> QED
      BY <2>1 DEF FileTypes
  <1>12. CASE Launches
    BY <1>12 DEF Launches
  <1>13. CASE Experiments
    BY <1>13 DEF Experiments
  <1>14. CASE Predicts
    BY <1>14 DEF Predicts
  <1>15. CASE Cleans
    BY <1>15 DEF Cleans
  <1>16. CASE Closes
    BY <1>16 DEF Closes
  <1>17. CASE Tidies
    BY <1>17 DEF Tidies, Removed
  <1>18. CASE Scores
    BY <1>18 DEF Scores
  <1> QED
    BY <1>1, <1>2, <1>3, <1>4, <1>5, <1>6, <1>7, <1>8, <1>9,
       <1>10, <1>11, <1>12, <1>13, <1>14, <1>15, <1>16, <1>17, <1>18 DEF Actions

LEMMA ReadKeepsTypes == FileTypes /\ ReadTypes /\ Actions => ReadTypes'
  <1> SUFFICES ASSUME FileTypes, ReadTypes, Actions PROVE ReadTypes'
    OBVIOUS
  <1>a. /\ UNCHANGED <<read, pc>> => ReadTypes'
        /\ UNCHANGED read /\ pc \in {"launch", "session", "tidy"} => ReadTypes'
        /\ UNCHANGED read /\ pc' \in {"done", "gates", "gold"} => ReadTypes'
    BY DEF ReadTypes, read
  <1> USE <1>a
  <1>1. CASE EditsBundle
    BY <1>1 DEF EditsBundle
  <1>2. CASE EditsGold
    BY <1>2 DEF EditsGold
  <1>3. CASE RemovesCatalog
    BY <1>3 DEF RemovesCatalog
  <1>4. CASE PeerEnters
    BY <1>4 DEF PeerEnters
  <1>5. CASE PeerLeaves
    BY <1>5 DEF PeerLeaves
  <1>6. CASE AuditsCandidate
    BY <1>6 DEF AuditsCandidate, FileTypes, ReadTypes
  <1>7. CASE AuditsSufficiency
    BY <1>7 DEF AuditsSufficiency, Return
  <1>8. CASE ChecksGates
    BY <1>8 DEF ChecksGates
  <1>9. CASE AuditsGold
    BY <1>9 DEF AuditsGold, Return, FileTypes, ReadTypes
  <1>10. CASE ReadsBundle
    BY <1>10 DEF ReadsBundle, Return, FileTypes, ReadTypes
  <1>11. CASE Binds
    <2>1. /\ gold \in Golds /\ answerKey' = gold
          /\ UNCHANGED <<audited, goldAudited, shown>>
      BY <1>11 DEF Binds, FileTypes
    <2>2. CASE ~Bindable
      BY <1>11, <2>1, <2>2 DEF Binds, Return, ReadTypes
    <2>3. CASE Bindable
      <3>1. gold.there /\ gold.map \in Bijection(Records, Cases)
        <4>1. gold.there /\ gold.map # None
          BY <2>3 DEF Bindable
        <4>2. gold # Absent
          BY <4>1 DEF Absent
        <4>3. gold.map \in Bijection(Records, Cases) \cup {None}
          BY <2>1, <4>2 DEF Golds
        <4> QED
          BY <4>1, <4>3
      <3>2. mapping' \in Bijection(Cases, Episodes) /\ packets' = Packets(gold, mapping')
        BY <1>11, <2>3 DEF Binds
      <3>3. packets' \in [Episodes -> Records]
        <4>1. CASE Episodes = {}
          BY <3>2, <4>1 DEF Packets
        <4>2. CASE Episodes # {}
          BY <3>1, <3>2, <4>2, PacketsFit
        <4> QED
          BY <4>1, <4>2
      <3> QED
        BY <2>1, <3>1, <3>2, <3>3 DEF ReadTypes
    <2> QED
      BY <2>2, <2>3
  <1>12. CASE Launches
    BY <1>12 DEF Launches
  <1>13. CASE Experiments
    BY <1>13 DEF Experiments
  <1>14. CASE Predicts
    BY <1>14 DEF Predicts
  <1>15. CASE Cleans
    BY <1>15 DEF Cleans
  <1>16. CASE Closes
    BY <1>16 DEF Closes
  <1>17. CASE Tidies
    BY <1>17 DEF Tidies
  <1>18. CASE Scores
    BY <1>18 DEF Scores, Return
  <1> QED
    BY <1>1, <1>2, <1>3, <1>4, <1>5, <1>6, <1>7, <1>8, <1>9,
       <1>10, <1>11, <1>12, <1>13, <1>14, <1>15, <1>16, <1>17, <1>18 DEF Actions

LEMMA VerdictKeepsTypes == FileTypes /\ VerdictTypes /\ Last /\ Actions => VerdictTypes'
  <1> SUFFICES ASSUME FileTypes, VerdictTypes, Last, Actions PROVE VerdictTypes'
    OBVIOUS
  <1>a. UNCHANGED <<verdict, pc>> => VerdictTypes'
    BY DEF VerdictTypes, verdict
  <1>b. \A B \in SUBSET Blockers : blockers \cup B \in SUBSET Blockers
    BY DEF VerdictTypes
  <1>c. FailedGates \in SUBSET Blockers
    BY DEF FailedGates, FileTypes, Blockers
  <1> USE <1>a, <1>b DEF VerdictTypes, Last
  <1>1. CASE EditsBundle
    BY <1>1 DEF EditsBundle
  <1>2. CASE EditsGold
    BY <1>2 DEF EditsGold
  <1>3. CASE RemovesCatalog
    BY <1>3 DEF RemovesCatalog
  <1>4. CASE PeerEnters
    BY <1>4 DEF PeerEnters
  <1>5. CASE PeerLeaves
    BY <1>5 DEF PeerLeaves
  <1>6. CASE AuditsCandidate
    BY <1>6 DEF AuditsCandidate, verdict
  <1>7. CASE AuditsSufficiency
    <2>1. blockers' \in SUBSET Blockers
      BY <1>7, <1>b DEF AuditsSufficiency, Return, Blockers, verdict
    <2> QED
      BY <1>7, <2>1 DEF AuditsSufficiency, Return, verdict
  <1>8. CASE ChecksGates
    BY <1>8, <1>c DEF ChecksGates
  <1>9. CASE AuditsGold
    <2>1. blockers' \in SUBSET Blockers
      BY <1>9, <1>b DEF AuditsGold, Return, Blockers
    <2> QED
      BY <1>9, <2>1 DEF AuditsGold, Return
  <1>10. CASE ReadsBundle
    BY <1>10 DEF ReadsBundle, Return
  <1>11. CASE Binds
    BY <1>11 DEF Binds, Return, verdict
  <1>12. CASE Launches
    BY <1>12 DEF Launches, verdict
  <1>13. CASE Experiments
    BY <1>13 DEF Experiments
  <1>14. CASE Predicts
    BY <1>14 DEF Predicts
  <1>15. CASE Cleans
    BY <1>15 DEF Cleans
  <1>16. CASE Closes
    BY <1>16 DEF Closes, verdict
  <1>17. CASE Tidies
    BY <1>17 DEF Tidies, Return
  <1>18. CASE Scores
    <2>1. blockers' \in SUBSET Blockers
      BY <1>18, <1>b DEF Scores, Return, Blockers
    <2> QED
      BY <1>18, <2>1 DEF Scores, Return
  <1> QED
    BY <1>1, <1>2, <1>3, <1>4, <1>5, <1>6, <1>7, <1>8, <1>9,
       <1>10, <1>11, <1>12, <1>13, <1>14, <1>15, <1>16, <1>17, <1>18 DEF Actions

LEMMA TypesStep == TypeOK /\ Last /\ Actions => TypeOK'
  <1> SUFFICES ASSUME TypeOK, Last, Actions PROVE TypeOK'
    OBVIOUS
  <1>1. FileTypes' /\ ReadTypes' /\ VerdictTypes' /\ SessionTypes'
    BY TypeParts, FilesKeepTypes, ReadKeepsTypes, VerdictKeepsTypes, SessionKeepsTypes
  <1> QED
    BY <1>1 DEF TypeOK, FileTypes, ReadTypes, VerdictTypes, SessionTypes

LEMMA BoundStep == TypeOK /\ Bound /\ Actions => Bound'
  <1> SUFFICES ASSUME TypeOK, Bound, Actions PROVE Bound'
    OBVIOUS
  <1> USE DEF Bound, files, host, read
  <1>1. CASE EditsBundle
    BY <1>1 DEF EditsBundle
  <1>2. CASE EditsGold
    BY <1>2 DEF EditsGold
  <1>3. CASE RemovesCatalog
    BY <1>3 DEF RemovesCatalog
  <1>4. CASE PeerEnters
    BY <1>4 DEF PeerEnters
  <1>5. CASE PeerLeaves
    BY <1>5 DEF PeerLeaves
  <1>6. CASE AuditsCandidate
    BY <1>6 DEF AuditsCandidate
  <1>7. CASE AuditsSufficiency
    BY <1>7 DEF AuditsSufficiency, Return, Sufficient
  <1>8. CASE ChecksGates
    BY <1>8 DEF ChecksGates
  <1>9. CASE AuditsGold
    BY <1>9 DEF AuditsGold, Return
  <1>10. CASE ReadsBundle
    BY <1>10 DEF ReadsBundle, Return
  <1>11. CASE Binds
    BY <1>11 DEF Binds, Return, Bindable
  <1>12. CASE Launches
    BY <1>12 DEF Launches
  <1>13. CASE Experiments
    BY <1>13 DEF Experiments
  <1>14. CASE Predicts
    BY <1>14 DEF Predicts
  <1>15. CASE Cleans
    BY <1>15 DEF Cleans
  <1>16. CASE Closes
    BY <1>16 DEF Closes
  <1>17. CASE Tidies
    BY <1>17 DEF Tidies, Return, Removed
  <1>18. CASE Scores
    BY <1>18 DEF Scores, Return
  <1> QED
    BY <1>1, <1>2, <1>3, <1>4, <1>5, <1>6, <1>7, <1>8, <1>9,
       <1>10, <1>11, <1>12, <1>13, <1>14, <1>15, <1>16, <1>17, <1>18 DEF Actions

LEMMA PassedStep == TypeOK /\ Passed /\ Actions => Passed'
  <1> SUFFICES ASSUME TypeOK, Passed, Actions PROVE Passed'
    OBVIOUS
  <1> USE DEF Passed, Past, files, host, read, verdict
  <1>1. CASE EditsBundle
    BY <1>1 DEF EditsBundle
  <1>2. CASE EditsGold
    BY <1>2 DEF EditsGold
  <1>3. CASE RemovesCatalog
    BY <1>3 DEF RemovesCatalog
  <1>4. CASE PeerEnters
    BY <1>4 DEF PeerEnters
  <1>5. CASE PeerLeaves
    BY <1>5 DEF PeerLeaves
  <1>6. CASE AuditsCandidate
    BY <1>6 DEF AuditsCandidate
  <1>7. CASE AuditsSufficiency
    BY <1>7 DEF AuditsSufficiency, Return, Sufficient
  <1>8. CASE ChecksGates
    BY <1>8 DEF ChecksGates, FailedGates
  <1>9. CASE AuditsGold
    BY <1>9 DEF AuditsGold, Return
  <1>10. CASE ReadsBundle
    BY <1>10 DEF ReadsBundle, Return
  <1>11. CASE Binds
    BY <1>11 DEF Binds, Return, Bindable
  <1>12. CASE Launches
    BY <1>12 DEF Launches
  <1>13. CASE Experiments
    BY <1>13 DEF Experiments
  <1>14. CASE Predicts
    BY <1>14 DEF Predicts
  <1>15. CASE Cleans
    BY <1>15 DEF Cleans
  <1>16. CASE Closes
    BY <1>16 DEF Closes
  <1>17. CASE Tidies
    BY <1>17 DEF Tidies, Return, Removed
  <1>18. CASE Scores
    BY <1>18 DEF Scores, Return
  <1> QED
    BY <1>1, <1>2, <1>3, <1>4, <1>5, <1>6, <1>7, <1>8, <1>9,
       <1>10, <1>11, <1>12, <1>13, <1>14, <1>15, <1>16, <1>17, <1>18 DEF Actions

LEMMA UneditedStep == TypeOK /\ Passed /\ Unedited /\ Actions => Unedited'
  <1> SUFFICES ASSUME TypeOK, Unedited, Actions, edits' = 0 PROVE Unedited'
    BY DEF Unedited
  <1>a. edits \in Nat
    BY DEF TypeOK
  <1> USE <1>a DEF Unedited, Past, files, host, read
  <1>1. CASE EditsBundle
    BY <1>1 DEF EditsBundle
  <1>2. CASE EditsGold
    BY <1>2 DEF EditsGold
  <1>3. CASE RemovesCatalog
    BY <1>3 DEF RemovesCatalog
  <1>4. CASE PeerEnters
    BY <1>4 DEF PeerEnters
  <1>5. CASE PeerLeaves
    BY <1>5 DEF PeerLeaves
  <1>6. CASE AuditsCandidate
    BY <1>6 DEF AuditsCandidate
  <1>7. CASE AuditsSufficiency
    BY <1>7 DEF AuditsSufficiency, Return, Sufficient
  <1>8. CASE ChecksGates
    BY <1>8 DEF ChecksGates
  <1>9. CASE AuditsGold
    BY <1>9 DEF AuditsGold, Return
  <1>10. CASE ReadsBundle
    BY <1>10 DEF ReadsBundle, Return
  <1>11. CASE Binds
    BY <1>11 DEF Binds, Return, Bindable
  <1>12. CASE Launches
    BY <1>12 DEF Launches
  <1>13. CASE Experiments
    BY <1>13 DEF Experiments
  <1>14. CASE Predicts
    BY <1>14 DEF Predicts
  <1>15. CASE Cleans
    BY <1>15 DEF Cleans
  <1>16. CASE Closes
    BY <1>16 DEF Closes
  <1>17. CASE Tidies
    BY <1>17 DEF Tidies, Return, Removed
  <1>18. CASE Scores
    BY <1>18 DEF Scores, Return
  <1> QED
    BY <1>1, <1>2, <1>3, <1>4, <1>5, <1>6, <1>7, <1>8, <1>9,
       <1>10, <1>11, <1>12, <1>13, <1>14, <1>15, <1>16, <1>17, <1>18 DEF Actions

LEMMA ClosedStep == TypeOK /\ Closed /\ Actions => Closed'
  <1> SUFFICES ASSUME TypeOK, Closed, Actions PROVE Closed'
    OBVIOUS
  <1> USE DEF TypeOK, Closed, session
  <1>1. CASE EditsBundle
    BY <1>1 DEF EditsBundle
  <1>2. CASE EditsGold
    BY <1>2 DEF EditsGold
  <1>3. CASE RemovesCatalog
    BY <1>3 DEF RemovesCatalog
  <1>4. CASE PeerEnters
    BY <1>4 DEF PeerEnters
  <1>5. CASE PeerLeaves
    BY <1>5 DEF PeerLeaves
  <1>6. CASE AuditsCandidate
    BY <1>6 DEF AuditsCandidate
  <1>7. CASE AuditsSufficiency
    BY <1>7 DEF AuditsSufficiency
  <1>8. CASE ChecksGates
    BY <1>8 DEF ChecksGates
  <1>9. CASE AuditsGold
    BY <1>9 DEF AuditsGold
  <1>10. CASE ReadsBundle
    BY <1>10 DEF ReadsBundle
  <1>11. CASE Binds
    BY <1>11 DEF Binds
  <1>12. CASE Launches
    BY <1>12 DEF Launches, Session!Fail
  <1>13. CASE Experiments
    BY <1>13 DEF Experiments, Session!Run, Session!Refuse, Session!Answer, Session!Admit,
                Session!Open
  <1>14. CASE Predicts
    BY <1>14 DEF Predicts, Session!Settle, Session!Open
  <1>15. CASE Cleans
    BY <1>15 DEF Cleans, Session!Clean
  <1>16. CASE Closes
    BY <1>16 DEF Closes, Session!Complete, Session!Fail, Session!AllSettled
  <1>17. CASE Tidies
    BY <1>17 DEF Tidies
  <1>18. CASE Scores
    BY <1>18 DEF Scores
  <1> QED
    BY <1>1, <1>2, <1>3, <1>4, <1>5, <1>6, <1>7, <1>8, <1>9,
       <1>10, <1>11, <1>12, <1>13, <1>14, <1>15, <1>16, <1>17, <1>18 DEF Actions

LEMMA CountedStep == TypeOK /\ Counted /\ Actions => Counted'
  <1> SUFFICES ASSUME TypeOK, Counted, Actions PROVE Counted'
    OBVIOUS
  <1>a. UNCHANGED <<receipt, asked, spent>> => Counted'
    BY DEF Counted, Ran
  <1> USE <1>a DEF session
  <1>1. CASE EditsBundle
    BY <1>1 DEF EditsBundle
  <1>2. CASE EditsGold
    BY <1>2 DEF EditsGold
  <1>3. CASE RemovesCatalog
    BY <1>3 DEF RemovesCatalog
  <1>4. CASE PeerEnters
    BY <1>4 DEF PeerEnters
  <1>5. CASE PeerLeaves
    BY <1>5 DEF PeerLeaves
  <1>6. CASE AuditsCandidate
    BY <1>6 DEF AuditsCandidate
  <1>7. CASE AuditsSufficiency
    BY <1>7 DEF AuditsSufficiency
  <1>8. CASE ChecksGates
    BY <1>8 DEF ChecksGates
  <1>9. CASE AuditsGold
    BY <1>9 DEF AuditsGold
  <1>10. CASE ReadsBundle
    BY <1>10 DEF ReadsBundle
  <1>11. CASE Binds
    BY <1>11 DEF Binds
  <1>12. CASE Launches
    BY <1>12 DEF Launches, Session!Fail
  <1>13. CASE Experiments
    <2>1. PICK e \in Episodes, i \in RequestIds :
             \/ /\ Session!Run(e, i)
                /\ \E r \in Receipts \ {"none"} : receipt' = [receipt EXCEPT ![e][i] = r]
             \/ (Session!Refuse(e, i) \/ Session!Answer(e, i)) /\ UNCHANGED receipt
      BY <1>13 DEF Experiments
    <2>2. CASE (Session!Refuse(e, i) \/ Session!Answer(e, i)) /\ UNCHANGED receipt
      <3>1. UNCHANGED spent /\ \A x \in Episodes : asked[x] \subseteq asked'[x]
        BY <2>2 DEF Session!Refuse, Session!Answer, Session!Admit, TypeOK
      <3> QED
        BY <2>2, <3>1 DEF Counted, Ran
    <2>3. ASSUME Session!Run(e, i), NEW r \in Receipts \ {"none"},
                 receipt' = [receipt EXCEPT ![e][i] = r]
          PROVE  Counted'
      <3>1. /\ asked' = [asked EXCEPT ![e] = @ \cup {i}] /\ i \notin asked[e]
            /\ spent' = [spent EXCEPT ![e] = @ + 1]
        BY <2>3 DEF Session!Run, Session!Admit
      <3>2. Ran(e)' = Ran(e) \cup {i}
        BY <2>3 DEF TypeOK, Ran
      <3>3. \A x \in Episodes \ {e} : Ran(x)' = Ran(x)
        BY <2>3 DEF TypeOK, Ran
      <3>4. i \notin Ran(e) /\ spent[e] = Cardinality(Ran(e))
        BY <3>1 DEF Counted
      <3>5. Cardinality(Ran(e)') = spent[e] + 1
        BY <3>2, <3>4, RanIsFinite, FS_AddElement
      <3>6. Ran(e)' \subseteq asked'[e] /\ spent'[e] = Cardinality(Ran(e)')
        <4>1. spent'[e] = spent[e] + 1 /\ asked'[e] = asked[e] \cup {i}
          BY <3>1 DEF TypeOK
        <4> QED
          BY <3>2, <3>5, <4>1 DEF Counted
      <3>7. \A x \in Episodes \ {e} :
              Ran(x)' \subseteq asked'[x] /\ spent'[x] = Cardinality(Ran(x)')
        BY <3>1, <3>3 DEF TypeOK, Counted
      <3> QED
        BY <3>6, <3>7 DEF Counted
    <2> QED
      BY <2>1, <2>2, <2>3
  <1>14. CASE Predicts
    BY <1>14 DEF Predicts, Session!Settle
  <1>15. CASE Cleans
    BY <1>15 DEF Cleans, Session!Clean
  <1>16. CASE Closes
    BY <1>16 DEF Closes, Session!Complete, Session!Fail
  <1>17. CASE Tidies
    BY <1>17 DEF Tidies
  <1>18. CASE Scores
    BY <1>18 DEF Scores
  <1> QED
    BY <1>1, <1>2, <1>3, <1>4, <1>5, <1>6, <1>7, <1>8, <1>9,
       <1>10, <1>11, <1>12, <1>13, <1>14, <1>15, <1>16, <1>17, <1>18 DEF Actions

\* Only Scores completes an evaluation, and nothing but peers goes on after that.
LEMMA CompletesOnce ==
    ASSUME Last, Actions, status' = "COMPLETED"
    PROVE  /\ pc' = "done"
           /\ Scores \/ UNCHANGED <<files, pc, read, verdict, session, receipt>>
  <1> USE DEF Last, verdict
  <1>1. CASE EditsBundle
    BY <1>1 DEF EditsBundle
  <1>2. CASE EditsGold
    BY <1>2 DEF EditsGold
  <1>3. CASE RemovesCatalog
    BY <1>3 DEF RemovesCatalog
  <1>4. CASE PeerEnters
    BY <1>4 DEF PeerEnters
  <1>5. CASE PeerLeaves
    BY <1>5 DEF PeerLeaves
  <1>6. CASE AuditsCandidate
    BY <1>6 DEF AuditsCandidate
  <1>7. CASE AuditsSufficiency
    BY <1>7 DEF AuditsSufficiency, Return
  <1>8. CASE ChecksGates
    BY <1>8 DEF ChecksGates
  <1>9. CASE AuditsGold
    BY <1>9 DEF AuditsGold, Return
  <1>10. CASE ReadsBundle
    BY <1>10 DEF ReadsBundle, Return
  <1>11. CASE Binds
    BY <1>11 DEF Binds, Return
  <1>12. CASE Launches
    BY <1>12 DEF Launches
  <1>13. CASE Experiments
    BY <1>13 DEF Experiments
  <1>14. CASE Predicts
    BY <1>14 DEF Predicts
  <1>15. CASE Cleans
    BY <1>15 DEF Cleans
  <1>16. CASE Closes
    BY <1>16 DEF Closes
  <1>17. CASE Tidies
    BY <1>17 DEF Tidies, Return
  <1>18. CASE Scores
    BY <1>18 DEF Scores, Return
  <1> QED
    BY <1>1, <1>2, <1>3, <1>4, <1>5, <1>6, <1>7, <1>8, <1>9,
       <1>10, <1>11, <1>12, <1>13, <1>14, <1>15, <1>16, <1>17, <1>18 DEF Actions

\* The comparison of totals tells whether a receipt is missing: the requests with a
\* proof are among those that were run.
LEMMA TotalsTell ==
    TypeOK /\ Counted =>
        (CleanupVerified <=> \A e \in Episodes, i \in RequestIds : receipt[e][i] # "unproved")
  <1> SUFFICES ASSUME TypeOK, Counted
               PROVE  CleanupVerified <=>
                        \A e \in Episodes, i \in RequestIds : receipt[e][i] # "unproved"
    OBVIOUS
  <1>1. ASSUME NEW e \in Episodes
        PROVE  Summary(e).cleanup_verified = Summary(e).executor_calls
                 <=> \A i \in RequestIds : receipt[e][i] # "unproved"
    <2> DEFINE P == With(e, {"proved", "useful"})
    <2>1. Summary(e).cleanup_verified = Cardinality(P)
          /\ Summary(e).executor_calls = Cardinality(Ran(e))
      BY DEF Summary, Counted
    <2>2. P \subseteq Ran(e)
      BY DEF With, Ran
    <2>3. Cardinality(P) = Cardinality(Ran(e)) <=> P = Ran(e)
      BY <2>2, RanIsFinite, FS_Subset
    <2>4. P = Ran(e) <=> \A i \in RequestIds : receipt[e][i] # "unproved"
      BY DEF TypeOK, With, Ran, Receipts
    <2> QED
      BY <2>1, <2>3, <2>4
  <1> QED
    BY <1>1 DEF CleanupVerified

\* What Scores composes has the three properties.
LEMMA ScoresWell ==
    ASSUME TypeOK, Bound, Passed, Unedited, Closed, Counted, Scores, status' = "COMPLETED"
    PROVE  Aligned' /\ CompletedIsEarned' /\ CleanupIsAccounted'
  <1>1. /\ pc = "score" /\ outcome = "COMPLETED" /\ answerKey.labels # None
        /\ result' = [runs |-> Runs,
                      labels |-> answerKey.labels,
                      bundle |-> audited, evaluator |-> goldAudited,
                      cleanup |-> CleanupVerified]
        /\ UNCHANGED <<files, host, read, blockers, session, receipt>>
    BY DEF Scores, Return, Usable, Scorable
  <1>2. /\ mapping \in Bijection(Cases, Episodes) /\ answerKey.map \in Bijection(Records, Cases)
        /\ packets = Packets(answerKey, mapping)
    BY <1>1 DEF TypeOK, Bound
  <1>3. /\ result'.runs = Runs /\ result'.labels = answerKey.labels
        /\ result'.cleanup = CleanupVerified
    BY <1>1
  <1>4. Aligned'
    <2>1. ASSUME NEW e \in Episodes
          PROVE  Runs[answerKey.map[packets[e]]].prediction = settled[e]
      <3>1. answerKey.map[packets[e]] \in Cases /\ mapping[answerKey.map[packets[e]]] = e
        BY <1>2, PacketsFit
      <3>2. Runs[answerKey.map[packets[e]]] = [prediction |-> settled[e], ledger |-> Summary(e)]
        BY <1>2, <3>1, RunsFit
      <3> QED
        BY <3>2
    <2> QED
      BY <1>1, <1>3, <2>1 DEF Aligned, read, session
  <1>5. CompletedIsEarned'
    <2>1. \A c \in Cases : Runs[c].prediction # None
      <3> SUFFICES ASSUME NEW c \in Cases PROVE Runs[c].prediction # None
        OBVIOUS
      <3>1. mapping[c] \in Episodes /\ Runs[c].prediction = settled[mapping[c]]
        <4>1. /\ mapping[c] \in Episodes
              /\ Runs[c] = [prediction |-> settled[mapping[c]], ledger |-> Summary(mapping[c])]
          BY <1>2, RunsFit
        <4> QED
          BY <4>1
      <3> QED
        BY <1>1, <3>1 DEF Closed
    <2>2. blockers = {} /\ failing = {} /\ reference \in Bundles /\ Sound(goldAudited)
      BY <1>1 DEF Passed, Past
    <2>3. edits = 0 => shown = reference /\ audited = reference /\ answerKey = goldAudited
      BY <1>1 DEF Unedited, Past
    <2> QED
      BY <1>1, <1>3, <2>1, <2>2, <2>3
         DEF CompletedIsEarned, Closed, Sound, files, read, session
  <1>6. CleanupIsAccounted'
    BY <1>1, <1>3, TotalsTell DEF CleanupIsAccounted
  <1> QED
    BY <1>4, <1>5, <1>6

LEMMA ResultStep == EvalInv /\ Actions =>
    Last' /\ Aligned' /\ CompletedIsEarned' /\ CleanupIsAccounted'
  <1> SUFFICES ASSUME EvalInv, Actions, status' = "COMPLETED"
               PROVE  pc' = "done" /\ Aligned' /\ CompletedIsEarned' /\ CleanupIsAccounted'
    BY DEF Last, Aligned, CompletedIsEarned, CleanupIsAccounted
  <1>1. pc' = "done" /\ (Scores \/ UNCHANGED <<files, pc, read, verdict, session, receipt>>)
    BY CompletesOnce DEF EvalInv
  <1>2. CASE Scores
    BY <1>1, <1>2, ScoresWell DEF EvalInv
  <1>3. CASE UNCHANGED <<files, pc, read, verdict, session, receipt>>
    <2>1. status = "COMPLETED"
      BY <1>3 DEF verdict
    <2> USE <1>3 DEF EvalInv, files, read, verdict, session
    <2>2. Aligned' /\ CleanupIsAccounted'
      BY DEF Aligned, CleanupIsAccounted
    <2>3. CompletedIsEarned'
      BY DEF CompletedIsEarned, Sound
    <2> QED
      BY <1>1, <2>2, <2>3
  <1> QED
    BY <1>1, <1>2, <1>3

LEMMA EvalInit == Init => EvalInv
  <1> SUFFICES ASSUME Init PROVE EvalInv
    OBVIOUS
  <1>a. Session!Init /\ receipt = [e \in Episodes |-> [i \in RequestIds |-> "none"]]
    BY DEF Init
  <1>1. SessionTypes /\ Closed
    <2>1. 0 \in 0..MaxExperiments
      BY NamesAssumption
    <2>2. receipt \in [Episodes -> [RequestIds -> Receipts]]
      BY <1>a DEF Receipts
    <2> QED
      BY <1>a, <2>1, <2>2 DEF Session!Init, SessionTypes, Closed
  <1>2. TypeOK
    <2>1. FileTypes
      <3>1. 0 \in 0..MaxEdits
        BY NamesAssumption
      <3>2. /\ bundle \in Bundles \cup Unfit /\ gold \in Golds
            /\ reference \in Bundles \cup {None} /\ catalog \in BOOLEAN /\ failing \in SUBSET Gates
            /\ workspace = FALSE /\ peer = "before" /\ edits = 0
        BY DEF Init
      <3> QED
        BY <3>1, <3>2 DEF FileTypes
    <2>2. ReadTypes
      BY DEF Init, ReadTypes, Golds
    <2>3. VerdictTypes
      BY DEF Init, VerdictTypes
    <2> QED
      BY <1>1, <2>1, <2>2, <2>3, TypeParts
  <1>3. Bound /\ Passed /\ Unedited /\ Last
    BY DEF Init, Bound, Passed, Past, Unedited, Last
  <1>4. Counted
    <2>1. \A e \in Episodes : Ran(e) = {} /\ spent[e] = 0
      BY <1>a DEF Session!Init, Ran
    <2> QED
      BY <2>1, FS_EmptySet DEF Counted
  <1>5. Aligned /\ CompletedIsEarned /\ CleanupIsAccounted
    BY DEF Init, Aligned, CompletedIsEarned, CleanupIsAccounted
  <1> QED
    BY <1>1, <1>2, <1>3, <1>4, <1>5 DEF EvalInv

LEMMA EvalStep == EvalInv /\ [Next]_vars => EvalInv'
  <1> SUFFICES ASSUME EvalInv, [Next]_vars PROVE EvalInv'
    OBVIOUS
  <1>1. CASE Actions
    <2>1. TypeOK' /\ Bound' /\ Passed' /\ Unedited'
      BY <1>1, TypesStep, BoundStep, PassedStep, UneditedStep DEF EvalInv
    <2>2. Closed' /\ Counted'
      BY <1>1, ClosedStep, CountedStep DEF EvalInv
    <2> QED
      BY <1>1, <2>1, <2>2, ResultStep DEF EvalInv
  <1>2. CASE UNCHANGED vars
    <2> USE <1>2 DEF EvalInv, vars, files, host, read, verdict, session
    <2>1. TypeOK' /\ Bound' /\ Passed' /\ Unedited'
      BY DEF TypeOK, Bound, Passed, Past, Unedited, Sound
    <2>2. Closed' /\ Counted' /\ Last'
      BY DEF Closed, Counted, Ran, Last
    <2>3. Aligned' /\ CompletedIsEarned' /\ CleanupIsAccounted'
      BY DEF Aligned, CompletedIsEarned, CleanupIsAccounted, Sound
    <2> QED
      BY <2>1, <2>2, <2>3
  <1> QED
    BY <1>1, <1>2 DEF Next, World, Actions

LEMMA EvalAlways == Spec => []EvalInv
BY EvalInit, EvalStep, PTL DEF Spec

-----------------------------------------------------------------------------
(* The theorems *)

\* Every variable keeps its type, for any documents and any session.
THEOREM EvaluationTypes == Spec => []TypeOK
  <1>1. EvalInv => TypeOK
    BY DEF EvalInv
  <1> QED
    BY <1>1, EvalAlways, PTL

\* evaluate_v12 scores the case of a record with the prediction made on that
\* record, for any number of cases, any episode ids and any shuffle, and whoever
\* edits the documents it reads twice.
THEOREM PredictionsMeetTheirCase == Spec => []Aligned
  <1>1. EvalInv => Aligned
    BY DEF EvalInv
  <1> QED
    BY <1>1, EvalAlways, PTL

\* No way leads to a COMPLETED result around a gate, the reference or a session
\* that settled every episode.
THEOREM NoGateIsPassedOver == Spec => []CompletedIsEarned
  <1>1. EvalInv => CompletedIsEarned
    BY DEF EvalInv
  <1> QED
    BY <1>1, EvalAlways, PTL

\* Comparing totals per ledger is enough to notice every experiment without proof
\* of its cleanup, however many there are.
THEOREM TotalsHideNothing == Spec => []CleanupIsAccounted
  <1>1. EvalInv => CleanupIsAccounted
    BY DEF EvalInv
  <1> QED
    BY <1>1, EvalAlways, PTL

-----------------------------------------------------------------------------
(* The session inside the evaluation *)

\* Only the session's own steps touch the session, and none after its result but
\* the removal of its container, which the evaluation no longer waits for.
LEMMA SessionMoves == Actions => Session!Next \/ UNCHANGED session
  <1> SUFFICES ASSUME Actions PROVE Session!Next \/ UNCHANGED session
    OBVIOUS
  <1>1. CASE World
    BY <1>1 DEF World, EditsBundle, EditsGold, RemovesCatalog, PeerEnters, PeerLeaves
  <1>2. CASE AuditsCandidate \/ AuditsSufficiency \/ ChecksGates \/ AuditsGold
    BY <1>2 DEF AuditsCandidate, AuditsSufficiency, ChecksGates, AuditsGold
  <1>3. CASE ReadsBundle \/ Binds
    BY <1>3 DEF ReadsBundle, Binds
  <1>4. CASE Launches
    BY <1>4 DEF Launches, Session!Next
  <1>5. CASE Experiments
    BY <1>5 DEF Experiments, Session!Next
  <1>6. CASE Predicts
    BY <1>6 DEF Predicts, Session!Next
  <1>7. CASE Cleans \/ Closes
    BY <1>7 DEF Cleans, Closes, Session!Next
  <1>8. CASE Tidies \/ Scores
    BY <1>8 DEF Tidies, Scores
  <1> QED
    BY <1>1, <1>2, <1>3, <1>4, <1>5, <1>6, <1>7, <1>8 DEF Actions, World

LEMMA SessionKnows == UNCHANGED session <=> UNCHANGED Session!vars
BY DEF session, Session!vars

LEMMA OrderlyStep == SessionTypes /\ Session!Orderly /\ Session!Next => Session!Orderly'
  <1> SUFFICES ASSUME SessionTypes, Session!Orderly, Session!Next PROVE Session!Orderly'
    OBVIOUS
  <1> USE DEF SessionTypes, Session!Orderly, Session!Waiting, Session!Quiet, Session!Open
  <1>1. ASSUME NEW e \in Episodes, NEW i \in RequestIds, Session!Admit(e, i), UNCHANGED answered
        PROVE  /\ \A d \in Episodes : answered'[d] \subseteq asked'[d]
               /\ \A d \in Episodes : asked'[d] \ answered'[d] = {j \in {i} : d = e}
    BY <1>1 DEF Session!Admit
  <1>2. ASSUME NEW e \in Episodes, NEW i \in RequestIds, Session!Run(e, i)
        PROVE  Session!Orderly'
    <2>1. Session!Admit(e, i) /\ UNCHANGED <<answered, outcome>> /\ outcome = "none"
      BY <1>2 DEF Session!Run, Session!Admit
    <2>2. \A d \in Episodes : spent'[d] <= MaxExperiments
      BY <1>2, NamesAssumption DEF Session!Run
    <2> QED
      BY <2>1, <2>2, <1>1
  <1>3. ASSUME NEW e \in Episodes, NEW i \in RequestIds, Session!Refuse(e, i)
        PROVE  Session!Orderly'
    <2>1. Session!Admit(e, i) /\ UNCHANGED <<answered, outcome, spent>> /\ outcome = "none"
      BY <1>3 DEF Session!Refuse, Session!Admit
    <2> QED
      BY <2>1, <1>1
  <1>4. ASSUME NEW e \in Episodes, NEW i \in RequestIds, Session!Answer(e, i)
        PROVE  Session!Orderly'
    BY <1>4 DEF Session!Answer
  <1>5. ASSUME NEW e \in Episodes, NEW p \in Predictions, Session!Settle(e, p)
        PROVE  Session!Orderly'
    BY <1>5 DEF Session!Settle
  <1>6. CASE Session!Clean \/ Session!Complete \/ Session!Fail
    BY <1>6 DEF Session!Clean, Session!Complete, Session!Fail, Session!AllSettled
  <1> QED
    BY <1>2, <1>3, <1>4, <1>5, <1>6 DEF Session!Next

LEMMA KeepsStep == SessionTypes /\ Session!Next => Session!Keeps
  <1> SUFFICES ASSUME SessionTypes, Session!Next PROVE Session!Keeps
    OBVIOUS
  <1> USE DEF SessionTypes, Session!Keeps, Session!Open
  <1>1. CASE \E e \in Episodes, i \in RequestIds : Session!Run(e, i)
    BY <1>1 DEF Session!Run, Session!Admit
  <1>2. CASE \E e \in Episodes, i \in RequestIds : Session!Refuse(e, i)
    BY <1>2 DEF Session!Refuse, Session!Admit
  <1>3. CASE \E e \in Episodes, i \in RequestIds : Session!Answer(e, i)
    BY <1>3 DEF Session!Answer
  <1>4. CASE \E e \in Episodes, p \in Predictions : Session!Settle(e, p)
    BY <1>4 DEF Session!Settle
  <1>5. CASE Session!Clean \/ Session!Complete \/ Session!Fail
    <2>1. /\ UNCHANGED <<settled, asked, spent, answered>>
          /\ outcome # "none" => UNCHANGED outcome
      BY <1>5 DEF Session!Clean, Session!Complete, Session!Fail
    <2>2. \A e \in Episodes : spent[e] \in 0..MaxExperiments
      OBVIOUS
    <2>3. \A e \in Episodes : spent[e] <= spent'[e]
      BY <2>1, <2>2, NamesAssumption
    <2> QED
      BY <2>1, <2>3
  <1> QED
    BY <1>1, <1>2, <1>3, <1>4, <1>5 DEF Session!Next

\* The session that is scored has one request under way at most, answers nothing
\* that was not asked, and is COMPLETED with nothing left open, however long.
THEOREM SessionOrderly == Spec => []Session!Orderly
  <1>1. Init => Session!Orderly
    BY NamesAssumption DEF Init, Session!Init, Session!Orderly, Session!Waiting
  <1>2. EvalInv /\ Session!Orderly /\ [Next]_vars => Session!Orderly'
    <2> SUFFICES ASSUME EvalInv, Session!Orderly, [Next]_vars PROVE Session!Orderly'
      OBVIOUS
    <2>1. SessionTypes
      BY TypeParts DEF EvalInv
    <2>2. Session!Next \/ UNCHANGED session
      BY SessionMoves DEF Next, World, Actions, vars
    <2>3. CASE UNCHANGED session
      BY <2>3 DEF session, Session!Orderly, Session!Waiting, Session!Quiet, Session!AllSettled
    <2> QED
      BY <2>1, <2>2, <2>3, OrderlyStep
  <1> QED
    BY <1>1, <1>2, EvalAlways, PTL DEF Spec

\* No step of the evaluation takes back a prediction, a request or an answer of
\* its session, and none adds to a session that has its result.
THEOREM SessionKept == Spec => Session!KeepsWhatItSays
  <1>1. EvalInv /\ [Next]_vars => [Session!Keeps]_(Session!vars)
    <2> SUFFICES ASSUME EvalInv, [Next]_vars
                 PROVE  Session!Keeps \/ UNCHANGED Session!vars
      OBVIOUS
    <2>1. SessionTypes
      BY TypeParts DEF EvalInv
    <2>2. Session!Next \/ UNCHANGED session
      BY SessionMoves DEF Next, World, Actions, vars
    <2> QED
      BY <2>1, <2>2, SessionKnows, KeepsStep
  <1> QED
    BY <1>1, EvalAlways, PTL DEF Spec, Session!KeepsWhatItSays
=============================================================================
