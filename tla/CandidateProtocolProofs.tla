---------------------- MODULE CandidateProtocolProofs ----------------------
(* Proofs about CandidateProtocol, for every value of its constants. *)
EXTENDS CandidateProtocol, FiniteSetTheorems, SequenceTheorems, TLAPS

-----------------------------------------------------------------------------
(* Type correctness *)

LEMMA HeadTailTypes ==
    ASSUME NEW S, NEW s \in Seq(S), s # <<>>
    PROVE  Head(s) \in S /\ Tail(s) \in Seq(S)
OBVIOUS

LEMMA AppendType ==
    ASSUME NEW S, NEW s \in Seq(S), NEW x \in S
    PROVE  Append(s, x) \in Seq(S)
OBVIOUS

LEMMA ChunkTypes ==
    ASSUME NEW S, NEW s \in Seq(S), NEW n \in 1..Len(s)
    PROVE  /\ SubSeq(s, 1, n) \in Seq(S)
           /\ SubSeq(s, n + 1, Len(s)) \in Seq(S)
BY SubSeqProperties

LEMMA FrameTypes ==
    /\ \A f \in Requests : f.ep \in Episodes /\ f.arg \in RequestIds /\ f \in Frames
    /\ \A f \in Terminals : f.ep \in Episodes /\ f.arg \in Predictions /\ f \in Frames
    /\ CandidateFrames \subseteq Frames
BY FramesAssumption DEF Requests, Terminals, Frames, Request, Terminal

LEMMA InitType == Init => TypeOK
<1> SUFFICES ASSUME Init PROVE TypeOK
  OBVIOUS
<1> USE DEF Init
<1>1. toSend \in Nat
  BY EpisodesAssumption, FS_CardinalityType
<1>2. /\ stdin \in 0..PipeCap /\ noise \in 0..MaxNoise
      /\ stderr \in Nat /\ outSeen \in Nat /\ errSeen \in Nat
  BY SizesAssumption
<1>3. /\ stdout \in Seq(Frames) /\ sent \in Seq(Frames) /\ split \in Seq(Frames)
      /\ frames \in Seq(Frames \cup {Sentinel}) /\ seen \in Seq(Frames \cup {Sentinel})
  OBVIOUS
<1>4. /\ ledger \in [Episodes -> Seq(Attempts)]
      /\ finals \in [Episodes -> Predictions \cup {None}]
      /\ calls \in [Episodes -> Nat]
      /\ answered \in [Episodes -> Seq(RequestIds)]
  OBVIOUS
<1>5. QED
  BY <1>1, <1>2, <1>3, <1>4 DEF TypeOK

LEMMA CandidateType == TypeOK /\ Candidate => TypeOK'
<1> SUFFICES ASSUME TypeOK, Candidate PROVE TypeOK'
    OBVIOUS
<1> USE DEF TypeOK, Alive, outVars, bookVars, hostVars
<1>1. CASE ContainerStarts
  BY <1>1 DEF ContainerStarts
<1>2. ASSUME NEW f \in CandidateFrames, CandidateWrites(f) PROVE TypeOK'
  BY <1>2, FrameTypes DEF CandidateWrites
<1>3. CASE CandidateComplains
  BY <1>3, SizesAssumption DEF CandidateComplains
<1>4. CASE CandidateReads
  BY <1>4, SizesAssumption DEF CandidateReads
<1>5. CASE CandidateExits
  BY <1>5 DEF CandidateExits
<1>6. CASE ClientCrashes
  BY <1>6 DEF ClientCrashes
<1>8. CASE Dies
  BY <1>8 DEF Dies
<1>7. QED
  BY <1>1, <1>2, <1>3, <1>4, <1>5, <1>6, <1>8 DEF Candidate
LEMMA DeadlineType == TypeOK /\ DeadlinePasses => TypeOK'
BY DEF TypeOK, DeadlinePasses, candVars, outVars, bookVars

LEMMA ReaderType == TypeOK /\ ReaderStep => TypeOK'
<1> SUFFICES ASSUME TypeOK, ReaderStep PROVE TypeOK'
    OBVIOUS
<1> USE DEF TypeOK, candVars, bookVars, hostVars
<1>1. CASE ReaderTop
  BY <1>1 DEF ReaderTop
<1>2. CASE ReaderSeesEOF
  BY <1>2 DEF ReaderSeesEOF
<1>3. CASE ReaderPuts
  <2>1. UNCHANGED <<candVars, drain, outSeen, errSeen, partial, bookVars, hostVars>>
    BY <1>3 DEF ReaderPuts
  <2>2. reader' \in {"top", "putting", "closing"} /\ overflow' \in BOOLEAN
    BY <1>3 DEF ReaderPuts, FindsQueueFull
  <2>3. split' \in Seq(Frames) /\ frames' \in Seq(Frames \cup {Sentinel})
    <3>1. CASE UNCHANGED <<split, frames>>
      BY <3>1
    <3>2. CASE /\ split # <<>>
               /\ frames' = Append(frames, Head(split))
               /\ split' = Tail(split)
      <4>1. Head(split) \in Frames \cup {Sentinel} /\ Tail(split) \in Seq(Frames)
        BY <3>2, HeadTailTypes
      <4>2. QED
        BY <3>2, <4>1, AppendType
    <3>3. QED
      BY <1>3, <3>1, <3>2 DEF ReaderPuts, FindsQueueFull
  <2>4. QED
    BY <2>1, <2>2, <2>3
<1>4. CASE ReaderCloses
  <2>1. UNCHANGED <<candVars, split, drain, outSeen, errSeen, partial, bookVars, hostVars>>
    BY <1>4 DEF ReaderCloses
  <2>2. reader' = "done" /\ overflow' \in BOOLEAN
    BY <1>4 DEF ReaderCloses
  <2>3. frames' \in Seq(Frames \cup {Sentinel})
    <3>1. Append(frames, Sentinel) \in Seq(Frames \cup {Sentinel})
      BY AppendType
    <3>2. QED
      BY <1>4, <3>1 DEF ReaderCloses
  <2>4. QED
    BY <2>1, <2>2, <2>3
<1>5. ASSUME NEW n \in 1..Len(stdout), ReaderReads(n) PROVE TypeOK'
  <2>1. SubSeq(stdout, 1, n) \in Seq(Frames) /\ SubSeq(stdout, n + 1, Len(stdout)) \in Seq(Frames)
    BY ChunkTypes
  <2>2. UNCHANGED <<proc, container, stdin, stderr, tail, sent, noise, drain, errSeen,
                    partial, frames, bookVars, hostVars>>
    BY <1>5 DEF ReaderReads
  <2>3. outSeen' \in Nat
    BY <1>5 DEF ReaderReads
  <2>4. overflow' \in BOOLEAN /\ reader' \in {"closing", "putting"}
    BY <1>5 DEF ReaderReads
  <2>5. split' \in Seq(Frames) /\ stdout' \in Seq(Frames)
    BY <1>5, <2>1 DEF ReaderReads
  <2>6. QED
    BY <2>2, <2>3, <2>4, <2>5
<1>6. QED
  BY <1>1, <1>2, <1>3, <1>4, <1>5 DEF ReaderStep

LEMMA DrainType == TypeOK /\ DrainStep => TypeOK'
<1> SUFFICES ASSUME TypeOK, DrainStep PROVE TypeOK'
    OBVIOUS
<1> USE DEF TypeOK, candVars, bookVars, hostVars
<1>1. CASE DrainSeesEOF
  BY <1>1 DEF DrainSeesEOF
<1>2. ASSUME NEW n \in 1..stderr, DrainReads(n) PROVE TypeOK'
  <2>1. stderr' \in Nat /\ errSeen' \in Nat
    BY <1>2 DEF DrainReads
  <2>2. overflow' \in BOOLEAN /\ drain' \in {"off", "reading", "done"}
    BY <1>2 DEF DrainReads
  <2>3. UNCHANGED <<proc, container, stdin, stdout, tail, sent, noise, reader, split,
                    outSeen, partial, frames, bookVars, hostVars>>
    BY <1>2 DEF DrainReads
  <2>4. QED
    BY <2>1, <2>2, <2>3
<1>3. QED
  BY <1>1, <1>2 DEF DrainStep

LEMMA HostType == TypeOK /\ HostStep => TypeOK'
<1> SUFFICES ASSUME TypeOK, HostStep PROVE TypeOK'
    OBVIOUS
<1> USE DEF TypeOK, candVars, outVars, bookVars
<1>1. CASE Declines
  BY <1>1 DEF Declines, ErrorCodes
<1>2. CASE Launches
  BY <1>2 DEF Launches
<1>3. CASE Inspects
  <2>1. errors' \in SUBSET ErrorCodes /\ host' \in {"send", "reap"}
    BY <1>3 DEF Inspects, ErrorCodes
  <2>2. QED
    BY <1>3, <2>1 DEF Inspects
<1>4. CASE SendsPacket
  <2>1. UNCHANGED <<proc, container, stdout, stderr, tail, sent, noise, outVars, frames,
                    ledger, finals, calls, seen, answered, current, ended, expired,
                    reaped, outcome>>
    BY <1>4 DEF SendsPacket, WriteFails
  <2>2. stdin' \in 0..PipeCap /\ toSend' \in Nat
    BY <1>4, SizesAssumption DEF SendsPacket, WriteFails
  <2>3. errors' \in SUBSET ErrorCodes /\ host' \in {"send", "reap"}
    BY <1>4 DEF SendsPacket, WriteFails, ErrorCodes
  <2>4. QED
    BY <2>1, <2>2, <2>3
<1>5. CASE ArmsDeadline
  BY <1>5 DEF ArmsDeadline
<1>6. CASE ChecksLoop
  <2>1. errors' \in SUBSET ErrorCodes /\ host' \in {"get", "tally"}
    BY <1>6 DEF ChecksLoop, ErrorCodes
  <2>2. QED
    BY <1>6, <2>1 DEF ChecksLoop
<1>7. CASE GetsNothing
  <2>1. host' \in {"loop", "tally"} /\ reaped' \in BOOLEAN /\ ended' \in BOOLEAN
    BY <1>7 DEF GetsNothing
  <2>2. QED
    BY <1>7, <2>1 DEF GetsNothing
<1>8. CASE Takes /\ (GetsSentinel \/ GetsMalformed \/ GetsUnhashable \/ GetsTerminal \/ GetsRequest)
  <2> DEFINE f == Head(frames)
  <2>1. /\ f \in Frames \cup {Sentinel}
        /\ Tail(frames) \in Seq(Frames \cup {Sentinel})
    BY <1>8, HeadTailTypes DEF Takes
  <2>2. /\ frames' \in Seq(Frames \cup {Sentinel}) /\ seen' \in Seq(Frames \cup {Sentinel})
        /\ UNCHANGED <<candVars, outVars, answered, toSend, expired, reaped>>
    BY <1>8, <2>1 DEF Takes
  <2>3. ASSUME NEW c \in ErrorCodes, Rejects(c) PROVE TypeOK'
    BY <2>2, <2>3 DEF Rejects
  <2>4. CASE GetsSentinel
    BY <2>2, <2>4 DEF GetsSentinel
  <2>5. CASE GetsMalformed
    BY <2>3, <2>5 DEF GetsMalformed, ErrorCodes
  <2>6. CASE GetsUnhashable
    BY <2>2, <2>6 DEF GetsUnhashable
  <2>7. CASE GetsTerminal /\ ~Rejects("DUPLICATE_TERMINAL_RESULT")
    <3>1. f.ep \in Episodes /\ f.arg \in Predictions
      BY <2>7, FrameTypes DEF GetsTerminal
    <3>2. finals' \in [Episodes -> Predictions \cup {None}]
      BY <2>7, <3>1 DEF GetsTerminal, Prediction
    <3>3. host' = "loop" /\ UNCHANGED <<ledger, calls, current, ended, errors, outcome>>
      BY <2>7 DEF GetsTerminal
    <3>4. QED
      BY <2>2, <3>2, <3>3
  <2>8. CASE GetsRequest /\ ~Rejects("DUPLICATE_REQUEST_ID")
    <3>1. f \in Requests /\ f.ep \in Episodes /\ f.arg \in RequestIds /\ f \in Frames
      BY <2>8, FrameTypes DEF GetsRequest
    <3>2. Append(ledger[f.ep], Refused(f.arg)) \in Seq(Attempts)
      <4>1. Refused(f.arg) \in Attempts
        BY <3>1 DEF Refused, Attempts
      <4>2. QED
        BY <3>1, <4>1, AppendType
    <3>3. ledger' \in [Episodes -> Seq(Attempts)]
      <4>1. CASE UNCHANGED ledger
        BY <4>1
      <4>2. CASE ledger' = [ledger EXCEPT ![f.ep] = Append(@, Refused(f.arg))]
        BY <3>1, <3>2, <4>2
      <4>3. QED
        BY <2>8, <4>1, <4>2 DEF GetsRequest
    <3>4. calls' \in [Episodes -> Nat]
      <4>1. CASE UNCHANGED calls
        BY <4>1
      <4>2. CASE calls' = [calls EXCEPT ![f.ep] = @ + 1]
        BY <3>1, <4>2
      <4>3. QED
        BY <2>8, <4>1, <4>2 DEF GetsRequest
    <3>5. /\ current' = f /\ host' \in {"answer", "execute"}
          /\ UNCHANGED <<finals, ended, errors, outcome>>
      BY <2>8 DEF GetsRequest
    <3>6. QED
      BY <2>2, <3>1, <3>3, <3>4, <3>5
  <2>9. QED
    BY <1>8, <2>3, <2>4, <2>5, <2>6, <2>7, <2>8 DEF ErrorCodes
<1>9. CASE ExecutorReturns
  <2>1. UNCHANGED <<candVars, outVars, frames, finals, calls, answered, seen, toSend,
                    current, ended, expired, reaped, errors, outcome>>
    BY <1>9 DEF ExecutorReturns
  <2>2. ledger' \in [Episodes -> Seq(Attempts)]
    <3>1. current.ep \in Episodes /\ current.arg \in RequestIds
      BY <1>9, FrameTypes DEF ExecutorReturns
    <3>2. PICK ok \in BOOLEAN :
            ledger' = [ledger EXCEPT ![current.ep] = Append(@, Executed(current.arg, ok))]
      BY <1>9 DEF ExecutorReturns
    <3>3. Append(ledger[current.ep], Executed(current.arg, ok)) \in Seq(Attempts)
      <4>1. Executed(current.arg, ok) \in Attempts
        BY <3>1 DEF Executed, Attempts
      <4>2. QED
        BY <3>1, <4>1, AppendType
    <3>4. QED
      BY <3>1, <3>2, <3>3
  <2>3. QED
    BY <1>9, <2>1, <2>2 DEF ExecutorReturns
<1>10. CASE ExecutorReuses
  BY <1>10 DEF ExecutorReuses
<1>11. CASE Answers
  <2>1. UNCHANGED <<proc, container, stdout, stderr, tail, sent, noise, outVars, frames,
                    ledger, finals, calls, seen, current, ended, expired, reaped,
                    outcome, toSend>>
    BY <1>11 DEF Answers, WriteFails
  <2>2. stdin' \in 0..PipeCap
    BY <1>11, SizesAssumption DEF Answers, WriteFails
  <2>3. errors' \in SUBSET ErrorCodes /\ host' \in {"loop", "reap"}
    BY <1>11 DEF Answers, WriteFails, ErrorCodes
  <2>4. answered' \in [Episodes -> Seq(RequestIds)]
    <3>1. current.ep \in Episodes /\ current.arg \in RequestIds
      BY <1>11, FrameTypes DEF Answers
    <3>2. Append(answered[current.ep], current.arg) \in Seq(RequestIds)
      BY <3>1
    <3>3. QED
      BY <1>11, <3>1, <3>2 DEF Answers, WriteFails
  <2>5. QED
    BY <2>1, <2>2, <2>3, <2>4
<1>12. CASE Tallies
  <2>1. errors' \in SUBSET ErrorCodes
    BY <1>12 DEF Tallies, ErrorCodes
  <2>2. QED
    BY <1>12, <2>1 DEF Tallies
<1>13. CASE ChecksExit
  <2>1. errors' \in SUBSET ErrorCodes
    BY <1>13 DEF ChecksExit, NonzeroExit, ErrorCodes
  <2>2. reaped' \in BOOLEAN /\ host' \in {"waitExit", "reap"}
    BY <1>13 DEF ChecksExit
  <2>3. QED
    BY <1>13, <2>1, <2>2 DEF ChecksExit
<1>14. CASE WaitsForExit
  <2>1. errors' \in SUBSET ErrorCodes /\ reaped' \in BOOLEAN
    BY <1>14 DEF WaitsForExit, NonzeroExit, ErrorCodes
  <2>2. QED
    BY <1>14, <2>1 DEF WaitsForExit
<1>15. CASE Reaps \/ WaitsForKilled
  <2>1. Kills \in {"none", "running", "doomed", "exited", "failed", "killed"}
    BY DEF Kills
  <2>2. CASE Reaps
    <3>1. reaped' \in BOOLEAN
      BY <2>2 DEF Reaps, Alive
    <3> QED
      BY <2>1, <2>2, <3>1 DEF Reaps
  <2>3. CASE WaitsForKilled
    <3>1. reaped' \in BOOLEAN /\ proc' \in {proc, Kills}
      BY <2>3 DEF WaitsForKilled
    <3> QED
      BY <2>1, <2>3, <3>1 DEF WaitsForKilled
  <2> QED
    BY <1>15, <2>2, <2>3
<1>16. CASE CleansUp
  <2>1. errors' \in SUBSET ErrorCodes
    BY <1>16 DEF CleansUp, CleanupFails, ErrorCodes
  <2>2. /\ outcome' \in {"none", "COMPLETED", "BLOCKED", "RAISED"}
        /\ container' \in {"none", "creating", "running", "gone"}
    BY <1>16 DEF CleansUp, CleanupFails
  <2>3. QED
    BY <1>16, <2>1, <2>2 DEF CleansUp
<1>17. QED
  BY <1>1, <1>2, <1>3, <1>4, <1>5, <1>6, <1>7, <1>8, <1>9, <1>10, <1>11, <1>12,
     <1>13, <1>14, <1>15, <1>16
     DEF HostStep, GetsSentinel, GetsMalformed, GetsUnhashable, GetsTerminal, GetsRequest

\* Every variable keeps its type, for any number of episodes, any ids and any ceilings.
THEOREM TypeCorrect == Spec => []TypeOK
<1>1. TypeOK /\ [Next]_vars => TypeOK'
  <2> SUFFICES ASSUME TypeOK, [Next]_vars PROVE TypeOK'
      OBVIOUS
  <2>1. CASE Rests \/ UNCHANGED vars
    BY <2>1 DEF Rests, TypeOK, vars, candVars, outVars, bookVars, hostVars
  <2>2. QED
    BY <2>1, CandidateType, DeadlineType, ReaderType, DrainType, HostType DEF Next
<1>2. QED
  BY <1>1, InitType, PTL DEF Spec
-----------------------------------------------------------------------------
(* The budget: a call of the executor is backed by an attempt of the ledger, *)
(* the one that is still running excepted.                                   *)

Serving == {"start", "inspect", "send", "loop", "get", "execute", "answer"}

CallsBacked ==
    host \in Serving =>
        \A e \in Episodes : calls[e] <= Len(ledger[e]) \/
            /\ host = "execute" /\ current.ep = e
            /\ calls[e] <= Len(ledger[e]) + 1

BudgetInv == BudgetHolds /\ CallsBacked

\* Only the host writes the books and its own variables; what the other actors
\* do to the process and the container cannot be undone.
LEMMA OthersStep ==
    ASSUME Candidate \/ DeadlinePasses \/ ReaderStep \/ DrainStep \/ Rests \/ UNCHANGED vars
    PROVE  /\ UNCHANGED <<ledger, finals, calls, answered, seen>>
           /\ UNCHANGED <<host, current, ended, reaped, errors, outcome>>
           /\ proc = "exited" => proc' = "exited"
           /\ container \in {"running", "gone"} => container' \in {"running", "gone"}
           /\ container = "gone" => container' = "gone"
<1> USE DEF candVars, outVars, bookVars, hostVars, Alive
<1>1. CASE Candidate
  BY <1>1 DEF Candidate, ContainerStarts, CandidateWrites, CandidateComplains,
              CandidateReads, CandidateExits, ClientCrashes, Dies
<1>2. CASE DeadlinePasses
  BY <1>2 DEF DeadlinePasses
<1>3. CASE ReaderStep
  BY <1>3 DEF ReaderStep, ReaderTop, ReaderSeesEOF, ReaderPuts, ReaderCloses, ReaderReads
<1>4. CASE DrainStep
  BY <1>4 DEF DrainStep, DrainSeesEOF, DrainReads
<1>5. CASE Rests \/ UNCHANGED vars
  BY <1>5 DEF Rests, vars
<1>6. QED
  BY <1>1, <1>2, <1>3, <1>4, <1>5

\* The host actions that touch neither the ledger nor the executor.
LEMMA KeepsCalls ==
    ASSUME HostStep, ~GetsRequest, ~ExecutorReturns
    PROVE  /\ UNCHANGED <<calls, ledger>>
           /\ host' # "execute"
           /\ host' \in Serving => host \in Serving \ {"execute"}
<1> USE DEF bookVars, Serving
<1>1. CASE Declines \/ Launches \/ Inspects \/ SendsPacket \/ ArmsDeadline
  BY <1>1 DEF Declines, Launches, Inspects, SendsPacket, ArmsDeadline, WriteFails
<1>2. CASE ChecksLoop \/ GetsNothing
  BY <1>2 DEF ChecksLoop, GetsNothing
<1>3. CASE GetsSentinel \/ GetsMalformed \/ GetsUnhashable \/ GetsTerminal
  BY <1>3 DEF GetsSentinel, GetsMalformed, GetsUnhashable, GetsTerminal, Takes, Rejects
<1>4. CASE ExecutorReuses \/ Answers
  BY <1>4 DEF ExecutorReuses, Answers, WriteFails
<1>5. CASE Tallies \/ ChecksExit \/ WaitsForExit \/ Reaps \/ WaitsForKilled \/ CleansUp
  BY <1>5 DEF Tallies, ChecksExit, WaitsForExit, Reaps, WaitsForKilled, CleansUp
<1>6. QED
  BY <1>1, <1>2, <1>3, <1>4, <1>5 DEF HostStep

LEMMA BudgetInit == Init => BudgetInv
BY SizesAssumption DEF Init, BudgetInv, BudgetHolds, CallsBacked

LEMMA BudgetStep == TypeOK /\ BudgetInv /\ [Next]_vars => BudgetInv'
<1> SUFFICES ASSUME TypeOK, BudgetInv, [Next]_vars PROVE BudgetInv'
    OBVIOUS
<1> USE DEF BudgetInv, BudgetHolds, CallsBacked
<1>1. CASE Candidate \/ DeadlinePasses \/ ReaderStep \/ DrainStep \/ Rests \/ UNCHANGED vars
  BY <1>1, OthersStep
<1>2. CASE HostStep /\ ~GetsRequest /\ ~ExecutorReturns
  BY <1>2, KeepsCalls
<1>3. CASE GetsRequest
  <2> DEFINE e == Head(frames).ep
             i == Head(frames).arg
  <2>1. e \in Episodes /\ host = "get"
    BY <1>3, FrameTypes DEF GetsRequest, Takes
  <2>2. \A x \in Episodes : calls[x] <= Len(ledger[x])
    BY <2>1 DEF Serving
  <2>3. CASE Rejects("DUPLICATE_REQUEST_ID")
    BY <2>2, <2>3 DEF Rejects
  <2>4. CASE /\ ledger' = [ledger EXCEPT ![e] = Append(@, Refused(i))]
             /\ UNCHANGED calls
    <3>1. \A x \in Episodes : ledger[x] \in Seq(Attempts) /\ calls[x] \in Nat
      BY DEF TypeOK
    <3>2. Refused(i) \in Attempts
      BY <1>3, FrameTypes DEF GetsRequest, Refused, Attempts
    <3>3. \A x \in Episodes : Len(ledger'[x]) >= Len(ledger[x])
      BY <2>1, <2>4, <3>1, <3>2 DEF TypeOK
    <3>4. \A x \in Episodes : Len(ledger'[x]) \in Nat
      BY <2>1, <2>4, <3>1, <3>2, AppendType DEF TypeOK
    <3>5. QED
      BY <2>2, <2>4, <3>1, <3>3, <3>4
  <2>5. CASE /\ Runnable(e)
             /\ calls' = [calls EXCEPT ![e] = @ + 1]
             /\ current' = Head(frames) /\ host' = "execute"
             /\ UNCHANGED ledger
    <3>1. \A x \in Episodes : Len(ledger[x]) \in Nat /\ calls[x] \in Nat
      BY DEF TypeOK
    <3>2. calls[e] < MaxExperiments
      BY <2>1, <2>2, <2>5, <3>1, SizesAssumption DEF Runnable
    <3>3. \A x \in Episodes : calls'[x] = IF x = e THEN calls[x] + 1 ELSE calls[x]
      BY <2>1, <2>5 DEF TypeOK
    <3>4. QED
      BY <2>1, <2>2, <2>5, <3>1, <3>2, <3>3, SizesAssumption
  <2>6. QED
    BY <1>3, <2>3, <2>4, <2>5 DEF GetsRequest
<1>4. CASE ExecutorReturns
  <2> DEFINE e == current.ep
  <2>1. e \in Episodes /\ host = "execute" /\ host' = "answer" /\ UNCHANGED calls
    BY <1>4, FrameTypes DEF ExecutorReturns, TypeOK
  <2>2. PICK ok \in BOOLEAN :
          ledger' = [ledger EXCEPT ![e] = Append(@, Executed(current.arg, ok))]
    BY <1>4 DEF ExecutorReturns
  <2>3. \A x \in Episodes : Len(ledger'[x]) = IF x = e THEN Len(ledger[x]) + 1 ELSE Len(ledger[x])
    <3>1. ledger[e] \in Seq(Attempts)
      BY <2>1 DEF TypeOK
    <3>2. Len(Append(ledger[e], Executed(current.arg, ok))) = Len(ledger[e]) + 1
      BY <3>1
    <3>3. QED
      BY <2>1, <2>2, <3>2 DEF TypeOK
  <2>4. \A x \in Episodes : Len(ledger[x]) \in Nat /\ calls[x] \in Nat
    BY DEF TypeOK
  <2>5. QED
    BY <2>1, <2>3, <2>4 DEF Serving
<1>5. QED
  BY <1>1, <1>2, <1>3, <1>4 DEF Next

\* The executor is never called more often than the budget of the episode allows,
\* for any budget, any number of episodes and whatever the candidate sends.
THEOREM BudgetIsKept == Spec => []BudgetHolds
<1>1. Spec => []BudgetInv
  BY BudgetInit, BudgetStep, TypeCorrect, PTL DEF Spec
<1>2. BudgetInv => BudgetHolds
  BY DEF BudgetInv
<1>3. QED
  BY <1>1, <1>2, PTL

-----------------------------------------------------------------------------
(* The verdict: what is known at each stage of a session in which nothing   *)
(* has gone wrong so far.                                                   *)

Clear == errors = {} /\ outcome = "none"

Stages ==
    /\ host # "done" => outcome \in {"none", "RAISED"}
    /\ outcome = "RAISED" => host \in {"reap", "waitKilled", "cleanup", "done"}
    /\ host = "get" => ~Complete
    /\ host \in {"check", "waitExit", "reap", "waitKilled", "cleanup"} /\ Clear => Complete
    /\ ended => (host = "tally" /\ ~Complete) \/ errors # {}

ContainerKnown ==
    \/ host \in {"start", "inspect", "done"}
    \/ container \in {"running", "gone"}
    \/ errors # {}

ExitKnown == host \in {"reap", "waitKilled", "cleanup"} /\ Clear => proc = "exited" /\ reaped

AnswersKnown ==
    Clear => \A e \in Episodes :
        Len(ledger[e]) = IF host = "answer" /\ current.ep = e THEN Len(answered[e]) + 1
                                                              ELSE Len(answered[e])

TerminalsSettle == \A k \in DOMAIN seen : seen[k] \in Terminals => finals[seen[k].ep] # None

OnceEach ==
    \A k, l \in DOMAIN seen :
        seen[k] \in Terminals /\ seen[l] \in Terminals /\ seen[k].ep = seen[l].ep => k = l

OnlyLegal == \A k \in DOMAIN seen : seen[k] \in Requests \cup Terminals

StoryKnown == TerminalsSettle /\ (Clear => OnceEach /\ (~ended => OnlyLegal))

VerdictInv ==
    /\ Stages /\ ContainerKnown /\ ExitKnown /\ AnswersKnown /\ StoryKnown
    /\ CompletedIsSound
LEMMA VerdictInit == Init => VerdictInv
BY DEF Init, VerdictInv, Stages, ContainerKnown, ExitKnown, AnswersKnown, StoryKnown,
       TerminalsSettle, OnceEach, OnlyLegal, CompletedIsSound, Clear

LEMMA VerdictOthers ==
    ASSUME VerdictInv,
           Candidate \/ DeadlinePasses \/ ReaderStep \/ DrainStep \/ Rests \/ UNCHANGED vars
    PROVE  VerdictInv'
<1> USE OthersStep DEF VerdictInv
<1>1. Stages'
  BY DEF Stages, Clear, Complete
<1>2. ContainerKnown' /\ ExitKnown'
  BY DEF ContainerKnown, ExitKnown, Clear
<1>3. AnswersKnown'
  BY DEF AnswersKnown, Clear
<1>4. StoryKnown'
  BY DEF StoryKnown, TerminalsSettle, OnceEach, OnlyLegal, Clear
<1>5. CompletedIsSound'
  BY DEF CompletedIsSound, Complete
<1>6. QED
  BY <1>1, <1>2, <1>3, <1>4, <1>5

\* The host actions that take no frame, record no attempt and send no result.
LEMMA VerdictBooksKept ==
    ASSUME TypeOK, VerdictInv, host # "done", host' # "answer",
           host = "answer" => ~Clear',
           UNCHANGED <<ledger, finals, answered, seen>>,
           Clear' => Clear,
           Clear' => (ended => ended')
    PROVE  AnswersKnown' /\ StoryKnown'
BY DEF VerdictInv, AnswersKnown, StoryKnown, TerminalsSettle, OnceEach, OnlyLegal

LEMMA VerdictPlain ==
    ASSUME TypeOK, VerdictInv,
           \/ Declines \/ Launches \/ Inspects \/ SendsPacket \/ ArmsDeadline
           \/ ChecksLoop \/ GetsNothing \/ ExecutorReuses \/ Tallies
           \/ ChecksExit \/ WaitsForExit \/ Reaps \/ WaitsForKilled
    PROVE  VerdictInv'
<1> USE DEF VerdictInv, bookVars, Clear
<1>1. /\ UNCHANGED <<ledger, finals, answered, seen>>
      /\ host # "done" /\ host' # "answer" /\ host # "answer"
  BY DEF Declines, Launches, Inspects, SendsPacket, ArmsDeadline, ChecksLoop, GetsNothing,
         ExecutorReuses, Tallies, ChecksExit, WaitsForExit, Reaps, WaitsForKilled, WriteFails
<1>2. /\ errors' = {} => errors = {}
      /\ outcome' \in {outcome, "RAISED", "BLOCKED"}
      /\ outcome' = "none" => outcome = "none"
  <2>1. CASE Declines \/ Launches \/ Inspects \/ SendsPacket \/ ArmsDeadline
    BY <2>1 DEF Declines, Launches, Inspects, SendsPacket, ArmsDeadline, WriteFails
  <2>2. CASE ChecksLoop \/ GetsNothing \/ ExecutorReuses \/ Tallies
    BY <2>2 DEF ChecksLoop, GetsNothing, ExecutorReuses, Tallies
  <2>3. CASE ChecksExit \/ WaitsForExit \/ Reaps \/ WaitsForKilled
    BY <2>3 DEF ChecksExit, WaitsForExit, Reaps, WaitsForKilled
  <2>4. QED
    BY <2>1, <2>2, <2>3
<1>3. Clear' => (ended => ended')
  <2>1. CASE GetsNothing
    BY <2>1 DEF GetsNothing, Stages
  <2>2. CASE ~GetsNothing
    BY <2>2 DEF Declines, Launches, Inspects, SendsPacket, ArmsDeadline, ChecksLoop,
                ExecutorReuses, Tallies, ChecksExit, WaitsForExit, Reaps, WaitsForKilled, WriteFails
  <2>3. QED
    BY <2>1, <2>2
<1>4. outcome \in {"none", "RAISED"}
  BY <1>1 DEF Stages
<1>5. AnswersKnown' /\ StoryKnown'
  BY <1>1, <1>2, <1>3, <1>4, VerdictBooksKept
<1>6. CompletedIsSound'
  BY <1>2, <1>4 DEF CompletedIsSound
<1>7. Complete' <=> Complete
  BY <1>1 DEF Complete
<1>8. Stages' /\ ContainerKnown' /\ ExitKnown'
  <2>1. CASE Declines
    BY <2>1, <1>7 DEF Declines, Stages, ContainerKnown, ExitKnown
  <2>2. CASE Launches \/ Inspects \/ SendsPacket \/ ArmsDeadline
    BY <2>2, <1>4, <1>7 DEF Launches, Inspects, SendsPacket, ArmsDeadline, WriteFails,
       candVars, Stages, ContainerKnown, ExitKnown
  <2>3. CASE ChecksLoop
    BY <2>3, <1>2, <1>4, <1>7 DEF ChecksLoop, MayLoop, candVars, Stages,
       ContainerKnown, ExitKnown
  <2>10. CASE GetsNothing
    BY <2>10, <1>4, <1>7 DEF GetsNothing, candVars, Stages, ContainerKnown, ExitKnown
  <2>4. CASE ExecutorReuses
    BY <2>4, <1>4, <1>7 DEF ExecutorReuses, candVars, Stages, ContainerKnown, ExitKnown
  <2>5. CASE Tallies
    BY <2>5, <1>4, <1>7 DEF Tallies, candVars, Stages, ContainerKnown, ExitKnown
  <2>6. CASE ChecksExit
    BY <2>6, <1>4, <1>7 DEF ChecksExit, ExitAwaited, NonzeroExit, Alive, candVars, Stages,
       ContainerKnown, ExitKnown
  <2>7. CASE WaitsForExit
    BY <2>7, <1>4, <1>7 DEF WaitsForExit, NonzeroExit, Alive, candVars, Stages,
       ContainerKnown, ExitKnown
  <2>8. CASE Reaps
    BY <2>8, <1>4, <1>7 DEF Reaps, Kills, Alive, Stages, ContainerKnown, ExitKnown
  <2>11. CASE WaitsForKilled
    BY <2>11, <1>4, <1>7 DEF WaitsForKilled, Kills, Alive, Stages, ContainerKnown, ExitKnown
  <2>9. QED
    BY <2>1, <2>2, <2>3, <2>4, <2>5, <2>6, <2>7, <2>8, <2>10, <2>11
<1>9. QED
  BY <1>5, <1>6, <1>8
LEMMA VerdictCleansUp == TypeOK /\ VerdictInv /\ CleansUp => VerdictInv'
<1> SUFFICES ASSUME TypeOK, VerdictInv, CleansUp PROVE VerdictInv'
    OBVIOUS
<1> USE DEF VerdictInv, bookVars, Clear
<1>1. /\ host = "cleanup" /\ host' = "done"
      /\ UNCHANGED <<proc, reaped, ledger, finals, answered, seen, ended>>
      /\ outcome' # "none"
  BY DEF CleansUp
<1>2. errors' = {} => errors = {} /\ container' = IF container = "running" THEN "gone" ELSE container
  BY DEF CleansUp, CleanupFails
<1>3. AnswersKnown' /\ StoryKnown'
  BY <1>1, VerdictBooksKept
<1>4. Stages' /\ ContainerKnown' /\ ExitKnown'
  BY <1>1, <1>2 DEF Stages, ContainerKnown, ExitKnown
<1>5. CompletedIsSound'
  <2> SUFFICES ASSUME outcome' = "COMPLETED" PROVE CompletedIsSound'
      BY DEF CompletedIsSound
  <2>1. errors' = {} /\ Complete /\ outcome = "none"
    BY <1>1 DEF CleansUp, Stages
  <2>2. Clear /\ ~ended
    BY <1>1, <1>2, <2>1 DEF Stages
  <2>3. proc' = "exited" /\ reaped'
    BY <1>1, <2>2 DEF ExitKnown
  <2>4. container' = "gone"
    BY <1>1, <1>2, <2>1, <2>2 DEF ContainerKnown
  <2>5. \A e \in Episodes : Len(answered[e]) = Len(ledger[e])
    BY <1>1, <2>2 DEF AnswersKnown
  <2>6. OnceEach /\ OnlyLegal
    BY <2>2 DEF StoryKnown
  <2>7. QED
    BY <1>1, <2>1, <2>3, <2>4, <2>5, <2>6 DEF CompletedIsSound, Complete, OnceEach, OnlyLegal
<1>6. QED
  BY <1>3, <1>4, <1>5

LEMMA VerdictExecutorReturns == TypeOK /\ VerdictInv /\ ExecutorReturns => VerdictInv'
<1> SUFFICES ASSUME TypeOK, VerdictInv, ExecutorReturns PROVE VerdictInv'
    OBVIOUS
<1> USE DEF VerdictInv, Clear
<1>1. /\ host = "execute" /\ host' = "answer"
      /\ UNCHANGED <<proc, container, finals, answered, seen, current, ended, errors, outcome>>
  BY DEF ExecutorReturns, candVars
<1>2. current.ep \in Episodes
  BY <1>1, FrameTypes DEF TypeOK
<1>3. \A x \in Episodes : Len(ledger'[x]) =
        IF x = current.ep THEN Len(ledger[x]) + 1 ELSE Len(ledger[x])
  <2>1. PICK ok \in BOOLEAN :
          ledger' = [ledger EXCEPT ![current.ep] = Append(@, Executed(current.arg, ok))]
    BY DEF ExecutorReturns
  <2>2. Len(Append(ledger[current.ep], Executed(current.arg, ok))) = Len(ledger[current.ep]) + 1
    BY <1>2 DEF TypeOK
  <2>3. QED
    BY <1>2, <2>1, <2>2 DEF TypeOK
<1>4. AnswersKnown'
  BY <1>1, <1>2, <1>3 DEF AnswersKnown
<1>5. Stages' /\ ContainerKnown' /\ ExitKnown'
  BY <1>1 DEF Stages, ContainerKnown, ExitKnown, Complete
<1>6. StoryKnown'
  BY <1>1 DEF StoryKnown, TerminalsSettle, OnceEach, OnlyLegal
<1>7. CompletedIsSound'
  BY <1>1 DEF CompletedIsSound, Stages
<1>8. QED
  BY <1>4, <1>5, <1>6, <1>7

LEMMA VerdictAnswers == TypeOK /\ VerdictInv /\ Answers => VerdictInv'
<1> SUFFICES ASSUME TypeOK, VerdictInv, Answers PROVE VerdictInv'
    OBVIOUS
<1> USE DEF VerdictInv, Clear
<1>1. /\ host = "answer" /\ host' \in {"loop", "reap"}
      /\ UNCHANGED <<proc, container, ledger, finals, seen, current, ended, outcome>>
      /\ errors' = {} => errors = {} /\ host' = "loop"
  BY DEF Answers, WriteFails
<1>2. AnswersKnown'
  <2> SUFFICES ASSUME Clear' PROVE AnswersKnown'
      BY DEF AnswersKnown
  <2>1. /\ Clear /\ host' = "loop"
        /\ answered' = [answered EXCEPT ![current.ep] = Append(@, current.arg)]
    BY <1>1 DEF Answers, WriteFails
  <2>2. current.ep \in Episodes
    BY <1>1, FrameTypes DEF TypeOK
  <2>3. Len(Append(answered[current.ep], current.arg)) = Len(answered[current.ep]) + 1
    BY <2>2 DEF TypeOK
  <2>4. \A x \in Episodes : Len(answered'[x]) =
          IF x = current.ep THEN Len(answered[x]) + 1 ELSE Len(answered[x])
    BY <2>1, <2>2, <2>3 DEF TypeOK
  <2>5. QED
    BY <1>1, <2>1, <2>4 DEF AnswersKnown
<1>3. Stages' /\ ContainerKnown' /\ ExitKnown'
  BY <1>1 DEF Stages, ContainerKnown, ExitKnown, Complete
<1>4. StoryKnown'
  BY <1>1 DEF StoryKnown, TerminalsSettle, OnceEach, OnlyLegal
<1>5. CompletedIsSound'
  BY <1>1 DEF CompletedIsSound, Stages
<1>6. QED
  BY <1>2, <1>3, <1>4, <1>5

LEMMA FrameKinds ==
    /\ \A f \in Requests : f \notin Terminals
    /\ Malformed \notin Terminals /\ Unhashable \notin Terminals /\ Sentinel \notin Terminals
<1>1. \A f \in Terminals : f.kind = "final"
  BY DEF Terminals, Terminal
<1>2. \A f \in Requests : f.kind = "request"
  BY DEF Requests, Request
<1>3. Malformed.kind = "malformed" /\ Unhashable.kind = "unhashable" /\ Sentinel.kind = "eof"
  BY DEF Malformed, Unhashable, Sentinel
<1>4. QED
  BY <1>1, <1>2, <1>3

LEMMA VerdictTakes ==
    ASSUME TypeOK, VerdictInv,
           GetsSentinel \/ GetsMalformed \/ GetsUnhashable \/ GetsTerminal \/ GetsRequest
    PROVE  VerdictInv'
<1> DEFINE f == Head(frames)
<1> USE DEF VerdictInv, Clear
<1>1. /\ host = "get" /\ UNCHANGED <<proc, container, answered>>
      /\ seen' = Append(seen, f)
  BY DEF GetsSentinel, GetsMalformed, GetsUnhashable, GetsTerminal, GetsRequest, Takes, candVars
<1>2. \A k \in DOMAIN seen' : \/ k \in DOMAIN seen /\ seen'[k] = seen[k]
                              \/ k = Len(seen) + 1 /\ seen'[k] = f
  BY <1>1 DEF TypeOK
<1>3. outcome = "none" /\ ~Complete
  BY <1>1 DEF Stages
<1>4. (f \in Terminals => finals'[f.ep] # None)
        /\ (\A x \in Episodes : finals[x] # None => finals'[x] # None) => TerminalsSettle'
  <2>1. \A k \in DOMAIN seen : seen[k] \in Terminals => seen[k].ep \in Episodes
    BY FrameTypes
  <2>2. QED
    BY <1>2, <2>1 DEF StoryKnown, TerminalsSettle
<1>5. ASSUME NEW c, Rejects(c), f \notin Terminals \/ Settled(f.ep) PROVE VerdictInv'
  <2>1. errors' # {} /\ host' = "loop" /\ UNCHANGED <<finals, ended, outcome>>
    BY <1>5 DEF Rejects
  <2>2. TerminalsSettle'
    BY <1>4, <1>5, <2>1 DEF Settled
  <2>3. QED
    BY <1>1, <1>3, <2>1, <2>2 DEF Stages, ContainerKnown, ExitKnown, AnswersKnown, StoryKnown,
       CompletedIsSound
<1>6. CASE GetsSentinel
  <2>1. /\ host' = "tally" /\ ended'
        /\ UNCHANGED <<ledger, finals, current, errors, outcome>>
    BY <1>6 DEF GetsSentinel
  <2>2. TerminalsSettle'
    BY <1>4, <1>6, <2>1, FrameKinds DEF GetsSentinel
  <2>3. Clear => OnceEach'
    BY <1>2, <1>6, FrameKinds DEF GetsSentinel, StoryKnown, OnceEach
  <2>4. QED
    BY <1>1, <1>3, <2>1, <2>2, <2>3 DEF Stages, ContainerKnown, ExitKnown, AnswersKnown,
       StoryKnown, CompletedIsSound, Complete
<1>7. CASE GetsMalformed
  BY <1>5, <1>7, FrameKinds DEF GetsMalformed
<1>8. CASE GetsUnhashable
  <2>1. host' = "reap" /\ outcome' = "RAISED" /\ UNCHANGED <<finals, ended, errors>>
    BY <1>8 DEF GetsUnhashable
  <2>2. TerminalsSettle'
    BY <1>4, <1>8, <2>1, FrameKinds DEF GetsUnhashable
  <2>3. QED
    BY <1>1, <2>1, <2>2 DEF Stages, ContainerKnown, ExitKnown, AnswersKnown,
       StoryKnown, CompletedIsSound, Complete
<1>9. CASE GetsTerminal /\ ~Settled(f.ep)
  <2>1. f \in Terminals /\ f.ep \in Episodes /\ f.arg \in Predictions /\ f.arg # None
    BY <1>9, FrameTypes, NoneAssumption DEF GetsTerminal
  <2>2. /\ finals' = [finals EXCEPT ![f.ep] = f.arg]
        /\ host' = "loop" /\ UNCHANGED <<ledger, calls, current, ended, errors, outcome>>
    BY <1>9 DEF GetsTerminal, Prediction
  <2>3. \A x \in Episodes : finals'[x] = IF x = f.ep THEN f.arg ELSE finals[x]
    BY <2>1, <2>2 DEF TypeOK
  <2>4. TerminalsSettle'
    BY <1>4, <2>1, <2>3
  <2>5. \A k \in DOMAIN seen : seen[k] \in Terminals => seen[k].ep # f.ep
    BY <1>9 DEF StoryKnown, TerminalsSettle, Settled
  <2>6. Clear => OnceEach'
    BY <1>2, <2>5 DEF StoryKnown, OnceEach
  <2>7. Clear /\ ~ended => OnlyLegal'
    BY <1>2, <2>1 DEF StoryKnown, OnlyLegal
  <2>8. QED
    BY <1>1, <1>3, <2>2, <2>4, <2>6, <2>7 DEF Stages, ContainerKnown, ExitKnown, AnswersKnown,
       StoryKnown, CompletedIsSound
<1>10. CASE GetsRequest /\ ~Rejects("DUPLICATE_REQUEST_ID")
  <2>1. f \in Requests /\ f \notin Terminals /\ f.ep \in Episodes /\ f.arg \in RequestIds
    BY <1>10, FrameTypes, FrameKinds DEF GetsRequest
  <2>2. UNCHANGED <<finals, ended, errors, outcome>> /\ current' = f
    BY <1>10 DEF GetsRequest
  <2>3. TerminalsSettle' /\ (Clear => OnceEach') /\ (Clear /\ ~ended => OnlyLegal')
    <3>1. TerminalsSettle'
      BY <1>4, <2>1, <2>2
    <3>2. Clear => OnceEach'
      BY <1>2, <2>1 DEF StoryKnown, OnceEach
    <3>3. Clear /\ ~ended => OnlyLegal'
      BY <1>2, <2>1 DEF StoryKnown, OnlyLegal
    <3>4. QED
      BY <3>1, <3>2, <3>3
  <2>4. CASE host' = "execute" /\ UNCHANGED ledger
    BY <1>1, <1>3, <2>2, <2>3, <2>4 DEF Stages, ContainerKnown, ExitKnown, AnswersKnown,
       StoryKnown, CompletedIsSound, Complete
  <2>5. CASE host' = "answer" /\ ledger' = [ledger EXCEPT ![f.ep] = Append(@, Refused(f.arg))]
    <3>1. Len(Append(ledger[f.ep], Refused(f.arg))) = Len(ledger[f.ep]) + 1
      BY <2>1 DEF TypeOK
    <3>2. \A x \in Episodes : Len(ledger'[x]) =
            IF x = f.ep THEN Len(ledger[x]) + 1 ELSE Len(ledger[x])
      BY <2>1, <2>5, <3>1 DEF TypeOK
    <3>3. AnswersKnown'
      BY <1>1, <2>1, <2>2, <2>5, <3>2 DEF AnswersKnown
    <3>4. QED
      BY <1>1, <1>3, <2>2, <2>3, <2>5, <3>3 DEF Stages, ContainerKnown, ExitKnown,
         StoryKnown, CompletedIsSound, Complete
  <2>6. QED
    BY <1>10, <2>4, <2>5 DEF GetsRequest
<1>11. CASE GetsTerminal /\ Settled(f.ep)
  BY <1>5, <1>11 DEF GetsTerminal
<1>12. CASE GetsRequest /\ Rejects("DUPLICATE_REQUEST_ID")
  BY <1>5, <1>12, FrameKinds DEF GetsRequest
<1>13. QED
  BY <1>6, <1>7, <1>8, <1>9, <1>10, <1>11, <1>12

LEMMA VerdictStep == TypeOK /\ VerdictInv /\ [Next]_vars => VerdictInv'
<1> SUFFICES ASSUME TypeOK, VerdictInv, [Next]_vars PROVE VerdictInv'
    OBVIOUS
<1>1. CASE Candidate \/ DeadlinePasses \/ ReaderStep \/ DrainStep \/ Rests \/ UNCHANGED vars
  BY <1>1, VerdictOthers
<1>2. CASE HostStep
  <2>1. CASE \/ Declines \/ Launches \/ Inspects \/ SendsPacket \/ ArmsDeadline
             \/ ChecksLoop \/ GetsNothing \/ ExecutorReuses \/ Tallies
             \/ ChecksExit \/ WaitsForExit \/ Reaps \/ WaitsForKilled
    BY <2>1, VerdictPlain
  <2>2. CASE GetsSentinel \/ GetsMalformed \/ GetsUnhashable \/ GetsTerminal \/ GetsRequest
    BY <2>2, VerdictTakes
  <2>3. CASE ExecutorReturns
    BY <2>3, VerdictExecutorReturns
  <2>4. CASE Answers
    BY <2>4, VerdictAnswers
  <2>5. CASE CleansUp
    BY <2>5, VerdictCleansUp
  <2>6. QED
    BY <1>2, <2>1, <2>2, <2>3, <2>4, <2>5 DEF HostStep
<1>3. QED
  BY <1>1, <1>2 DEF Next

\* Whatever the candidate, the daemon and the scheduler do, a COMPLETED session
\* ended with code 0, a removed container, all its attempts answered and exactly
\* the legal frames a session may hold.
THEOREM CompletedIsProved == Spec => []CompletedIsSound
<1>1. Spec => []VerdictInv
  BY VerdictInit, VerdictStep, TypeCorrect, PTL DEF Spec
<1>2. VerdictInv => CompletedIsSound
  BY DEF VerdictInv
<1>3. QED
  BY <1>1, <1>2, PTL

-----------------------------------------------------------------------------
(* The stream *)

Received == Seq(Frames \cup {Sentinel})

\* The sentinel is no line.
LEMMA SentinelIsNoFrame == Sentinel \notin Frames
  <1>1. Sentinel.kind = "eof"
    BY DEF Sentinel
  <1>2. \A f \in Requests \cup Terminals : f.kind # "eof"
    BY DEF Requests, Terminals, Request, Terminal
  <1>3. Malformed.kind # "eof" /\ Unhashable.kind # "eof" /\ TooLong.kind # "eof"
    BY DEF Malformed, Unhashable, TooLong
  <1> QED
    BY <1>1, <1>2, <1>3 DEF Frames

\* A concatenation, element by element.
LEMMA ConcatOf ==
    ASSUME NEW S, NEW s \in Seq(S), NEW t \in Seq(S)
    PROVE  /\ s \o t \in Seq(S) /\ Len(s \o t) = Len(s) + Len(t)
           /\ \A k \in 1..Len(s) : (s \o t)[k] = s[k]
           /\ \A k \in 1..Len(t) : (s \o t)[Len(s) + k] = t[k]
           /\ \A x \in S : s \o Append(t, x) = Append(s \o t, x)
  <1>1. /\ s \o t \in Seq(S) /\ Len(s \o t) = Len(s) + Len(t)
        /\ \A k \in 1..Len(s) : (s \o t)[k] = s[k]
        /\ \A k \in 1..Len(t) : (s \o t)[Len(s) + k] = t[k]
    OBVIOUS
  <1>2. ASSUME NEW x \in S PROVE s \o Append(t, x) = Append(s \o t, x)
    OBVIOUS
  <1> QED
    BY <1>1, <1>2

\* Taking the head of the queue leaves what the reader has delivered as it is.
LEMMA MovesOver ==
    ASSUME NEW S, NEW s \in Seq(S), NEW t \in Seq(S), t # <<>>
    PROVE  Append(s, Head(t)) \o Tail(t) = s \o t
OBVIOUS

\* How far the lines have come.
Ended == Got # <<>> /\ Got[Len(Got)] = Sentinel

\* Everything the reader has delivered is a beginning of what was sent, and what
\* it holds and what the pipe holds are the rest, until it stops; if it stops
\* without an overflow, nothing more can come.
StreamInv ==
    /\ Lines <= Len(sent)
    /\ \A k \in 1..Lines : Got[k] = sent[k]
    /\ Ended => reader = "done"
    /\ reader \in {"off", "top", "reading"} => split = <<>>
    /\ reader \in {"off", "top", "reading", "putting"} =>
         /\ Len(sent) = Lines + Len(split) + Len(stdout)
         /\ \A k \in 1..Len(split) : sent[Lines + k] = split[k]
         /\ \A k \in 1..Len(stdout) : sent[Lines + Len(split) + k] = stdout[k]
    /\ (reader \in {"closing", "done"} /\ ~overflow) => ~Alive /\ Len(sent) = Lines
    /\ host = "start" => reader = "off"

\* What has been delivered, in terms of Ended.
LEMMA LinesOf ==
    ASSUME TypeOK
    PROVE  /\ Got \in Received /\ Len(Got) \in Nat
           /\ Lines \in Nat
           /\ ~Ended => Lines = Len(Got)
           /\ Ended => Lines = Len(Got) - 1
  <1>1. Got \in Received
    BY ConcatOf DEF TypeOK, Got, Received
  <1>2. Len(Got) \in Nat /\ (Got # <<>> => Len(Got) > 0)
    BY <1>1 DEF Received
  <1> QED
    BY <1>1, <1>2 DEF Lines, Ended

LEMMA StreamInit == Init => StreamInv
  <1> SUFFICES ASSUME Init PROVE StreamInv
    OBVIOUS
  <1>1. TypeOK
    BY InitType
  <1>2. Got = <<>>
    BY DEF Init, Got
  <1>3. ~Ended /\ Lines = 0
    BY <1>2 DEF Ended, Lines
  <1> QED
    BY <1>3 DEF Init, StreamInv

\* Steps that deliver nothing.
LEMMA GotKept ==
    ASSUME TypeOK, UNCHANGED <<seen, frames>> \/ Takes
    PROVE  Got' = Got /\ Lines' = Lines /\ (Ended' <=> Ended)
  <1>1. Got' = Got
    <2>1. CASE UNCHANGED <<seen, frames>>
      BY <2>1 DEF Got
    <2>2. CASE Takes
      <3>1. seen \in Received /\ frames \in Received
        BY DEF TypeOK, Received
      <3> QED
        BY <2>2, <3>1, MovesOver DEF Takes, Got, Received
    <2> QED
      BY <2>1, <2>2
  <1> QED
    BY <1>1 DEF Lines, Ended

\* A step that delivers one item.
LEMMA GotMore ==
    ASSUME TypeOK, NEW x \in Frames \cup {Sentinel}, frames' = Append(frames, x),
           UNCHANGED seen
    PROVE  /\ Got' = Append(Got, x) /\ Len(Got') = Len(Got) + 1
           /\ \A k \in 1..Len(Got) : Got'[k] = Got[k]
           /\ Got'[Len(Got) + 1] = x
           /\ Ended' <=> x = Sentinel
           /\ Lines' = IF x = Sentinel THEN Len(Got) ELSE Len(Got) + 1
  <1>1. seen \in Received /\ frames \in Received
    BY DEF TypeOK, Received
  <1>2. Got' = Append(Got, x)
    BY <1>1, ConcatOf DEF Got, Received
  <1>3. Got \in Received
    BY LinesOf
  <1>4. /\ Append(Got, x) # <<>> /\ Len(Append(Got, x)) = Len(Got) + 1
        /\ \A k \in 1..Len(Got) : Append(Got, x)[k] = Got[k]
        /\ Append(Got, x)[Len(Got) + 1] = x /\ Len(Got) \in Nat
    BY <1>3, AppendProperties DEF Received
  <1>5. (Ended' <=> x = Sentinel) /\ Lines' = IF x = Sentinel THEN Len(Got) ELSE Len(Got) + 1
    <2>1. Got' # <<>> /\ Got'[Len(Got')] = x /\ Len(Got') = Len(Got) + 1
      BY <1>2, <1>4
    <2> QED
      BY <2>1, <1>4 DEF Ended, Lines
  <1> QED
    BY <1>2, <1>4, <1>5

LEMMA AppendOf ==
    ASSUME NEW S, NEW s \in Seq(S), NEW x \in S
    PROVE  /\ Len(Append(s, x)) = Len(s) + 1 /\ Append(s, x)[Len(s) + 1] = x
           /\ \A k \in 1..Len(s) : Append(s, x)[k] = s[k]
OBVIOUS

\* The candidate sends a line.
LEMMA StreamWrites ==
    ASSUME TypeOK, StreamInv, NEW f \in CandidateFrames, CandidateWrites(f)
    PROVE  StreamInv'
  <1>0. sent \in Seq(Frames) /\ stdout \in Seq(Frames) /\ split \in Seq(Frames)
    BY DEF TypeOK
  <1>1. /\ sent' = Append(sent, f) /\ stdout' = Append(stdout, f) /\ f \in Frames
        /\ UNCHANGED <<seen, frames, reader, split, overflow, host>> /\ Alive
    BY FramesAssumption DEF CandidateWrites, outVars, bookVars, hostVars
  <1>2. Got' = Got /\ Lines' = Lines /\ (Ended' <=> Ended) /\ Lines \in Nat
    BY <1>1, GotKept, LinesOf
  <1>3. /\ Len(sent') = Len(sent) + 1 /\ Len(stdout') = Len(stdout) + 1
        /\ \A k \in 1..Len(sent) : sent'[k] = sent[k]
        /\ \A k \in 1..Len(stdout) : stdout'[k] = stdout[k]
        /\ sent'[Len(sent) + 1] = f /\ stdout'[Len(stdout) + 1] = f
        /\ Len(sent) \in Nat /\ Len(stdout) \in Nat /\ Len(split) \in Nat
    BY <1>0, <1>1, AppendOf
  <1>4. /\ Lines' <= Len(sent') /\ (Ended' => reader' = "done")
        /\ \A k \in 1..Lines' : Got'[k] = sent'[k]
    BY <1>1, <1>2, <1>3 DEF StreamInv
  <1>5. ASSUME reader \in {"off", "top", "reading", "putting"}
        PROVE  /\ Len(sent') = Lines' + Len(split') + Len(stdout')
               /\ \A k \in 1..Len(split') : sent'[Lines' + k] = split'[k]
               /\ \A k \in 1..Len(stdout') : sent'[Lines' + Len(split') + k] = stdout'[k]
    <2>1. /\ Len(sent) = Lines + Len(split) + Len(stdout)
          /\ \A k \in 1..Len(split) : sent[Lines + k] = split[k]
          /\ \A k \in 1..Len(stdout) : sent[Lines + Len(split) + k] = stdout[k]
      BY <1>5 DEF StreamInv
    <2>2. \A k \in 1..Len(split) : Lines + k \in 1..Len(sent)
      BY <2>1, <1>2, <1>3
    <2>3. \A k \in 1..Len(stdout) : Lines + Len(split) + k \in 1..Len(sent)
      BY <2>1, <1>2, <1>3
    <2>4. ASSUME NEW k \in 1..Len(stdout') PROVE sent'[Lines' + Len(split') + k] = stdout'[k]
      <3>1. CASE k \in 1..Len(stdout)
        BY <1>1, <1>2, <1>3, <2>1, <2>3, <3>1
      <3>2. CASE k = Len(stdout) + 1
        <4>1. Lines' + Len(split') + k = Len(sent) + 1
          BY <1>1, <1>2, <1>3, <2>1, <3>2
        <4> QED
          BY <1>3, <3>2, <4>1
      <3> QED
        BY <1>3, <3>1, <3>2
    <2>5. ASSUME NEW k \in 1..Len(split') PROVE sent'[Lines' + k] = split'[k]
      <3>1. Lines + k \in 1..Len(sent) /\ k \in 1..Len(split) /\ split' = split
        BY <1>1, <2>2, <2>5
      <3> QED
        BY <1>2, <1>3, <2>1, <3>1
    <2>6. Len(sent') = Lines' + Len(split') + Len(stdout')
      BY <1>1, <1>2, <1>3, <2>1
    <2> QED
      BY <2>4, <2>5, <2>6
  <1> QED
    BY <1>1, <1>4, <1>5 DEF StreamInv


\* The two parts of a chunked stream.
LEMMA ChunkOf ==
    ASSUME NEW S, NEW s \in Seq(S), NEW n \in 1..Len(s)
    PROVE  /\ Len(SubSeq(s, 1, n)) = n /\ Len(SubSeq(s, n + 1, Len(s))) = Len(s) - n
           /\ \A k \in 1..n : SubSeq(s, 1, n)[k] = s[k]
           /\ \A k \in 1..(Len(s) - n) : SubSeq(s, n + 1, Len(s))[k] = s[n + k]
OBVIOUS

\* The reader takes lines out of the pipe.
LEMMA StreamReads ==
    ASSUME TypeOK, StreamInv, NEW n \in 1..Len(stdout), ReaderReads(n)
    PROVE  StreamInv'
  <1>0. /\ stdout \in Seq(Frames) /\ split \in Seq(Frames) /\ sent \in Seq(Frames)
        /\ Len(stdout) \in Nat /\ Len(split) \in Nat /\ Len(sent) \in Nat
    BY DEF TypeOK
  <1> USE <1>0
  <1>1. /\ UNCHANGED <<seen, frames, sent, host, proc>> /\ reader = "reading"
        /\ stdout' = SubSeq(stdout, n + 1, Len(stdout))
        /\ \/ overflow' = TRUE /\ reader' = "closing"
           \/ /\ split' = SubSeq(stdout, 1, n) /\ reader' = "putting"
    BY DEF ReaderReads, bookVars, hostVars
  <1>2. Got' = Got /\ Lines' = Lines /\ (Ended' <=> Ended) /\ Lines \in Nat
    BY <1>1, GotKept, LinesOf
  <1>3. /\ Lines <= Len(sent) /\ (\A k \in 1..Lines : Got[k] = sent[k]) /\ ~Ended
        /\ host # "start"
        /\ Len(sent) = Lines + Len(stdout)
        /\ \A k \in 1..Len(stdout) : sent[Lines + k] = stdout[k]
    <2>1. split = <<>> /\ Len(split) = 0
      BY <1>1 DEF StreamInv
    <2>2. /\ Lines <= Len(sent) /\ (\A k \in 1..Lines : Got[k] = sent[k]) /\ ~Ended
          /\ host # "start" /\ Len(sent) = Lines + Len(split) + Len(stdout)
      BY <1>1 DEF StreamInv
    <2>3. \A k \in 1..Len(stdout) : sent[Lines + Len(split) + k] = stdout[k]
      BY <1>1 DEF StreamInv
    <2>4. \A k \in 1..Len(stdout) : Lines + Len(split) + k = Lines + k
      BY <1>2, <2>1
    <2>5. Len(sent) = Lines + Len(stdout)
      BY <1>2, <2>1, <2>2
    <2> QED
      BY <2>2, <2>3, <2>4, <2>5
  <1>4. CASE overflow' = TRUE /\ reader' = "closing"
    BY <1>1, <1>2, <1>3, <1>4 DEF StreamInv
  <1>5. CASE split' = SubSeq(stdout, 1, n) /\ reader' = "putting"
    <2>1. /\ Len(split') = n /\ Len(stdout') = Len(stdout) - n
          /\ \A k \in 1..n : split'[k] = stdout[k]
          /\ \A k \in 1..(Len(stdout) - n) : stdout'[k] = stdout[n + k]
      BY <1>1, <1>5, ChunkOf
    <2>2. Len(sent') = Lines' + Len(split') + Len(stdout')
      BY <1>1, <1>2, <1>3, <2>1
    <2>3. ASSUME NEW k \in 1..Len(split') PROVE sent'[Lines' + k] = split'[k]
      <3>1. k \in 1..n /\ k \in 1..Len(stdout)
        BY <2>1
      <3>2. sent[Lines + k] = stdout[k] /\ split'[k] = stdout[k]
        BY <1>3, <2>1, <3>1
      <3> QED
        BY <1>1, <1>2, <3>2
    <2>4. ASSUME NEW k \in 1..Len(stdout')
          PROVE  sent'[Lines' + Len(split') + k] = stdout'[k]
      <3>1. n + k \in 1..Len(stdout) /\ k \in 1..(Len(stdout) - n)
        BY <2>1
      <3>2. Lines' + Len(split') + k = Lines + (n + k)
        BY <1>2, <2>1
      <3> QED
        BY <1>1, <1>3, <2>1, <3>1, <3>2
    <2> QED
      BY <1>1, <1>2, <1>3, <1>5, <2>2, <2>3, <2>4 DEF StreamInv
  <1> QED
    BY <1>1, <1>4, <1>5

\* The reader moves a line to the queue, or stops with an overflow.
LEMMA StreamPuts ==
    ASSUME TypeOK, StreamInv, ReaderPuts
    PROVE  StreamInv'
  <1>0. /\ stdout \in Seq(Frames) /\ split \in Seq(Frames) /\ sent \in Seq(Frames)
        /\ Len(stdout) \in Nat /\ Len(split) \in Nat /\ Len(sent) \in Nat
    BY DEF TypeOK
  <1> USE <1>0
  <1>1. /\ UNCHANGED <<seen, sent, host, proc, stdout>> /\ reader = "putting"
    BY DEF ReaderPuts, candVars, bookVars, hostVars
  <1>2. ~Ended /\ Lines = Len(Got) /\ Lines \in Nat /\ host # "start"
    BY <1>1, LinesOf DEF StreamInv
  <1>3. /\ Lines <= Len(sent) /\ (\A k \in 1..Lines : Got[k] = sent[k])
        /\ Len(sent) = Lines + Len(split) + Len(stdout)
        /\ \A k \in 1..Len(split) : sent[Lines + k] = split[k]
        /\ \A k \in 1..Len(stdout) : sent[Lines + Len(split) + k] = stdout[k]
    BY <1>1 DEF StreamInv
  <1>4. CASE /\ UNCHANGED <<frames, split>>
             /\ (split = <<>> /\ reader' = "top") \/ (overflow' = TRUE /\ reader' = "closing")
    <2>1. Got' = Got /\ Lines' = Lines /\ (Ended' <=> Ended)
      BY <1>1, <1>4, GotKept
    <2> QED
      BY <1>1, <1>2, <1>3, <1>4, <2>1 DEF StreamInv
  <1>5. CASE /\ split # <<>> /\ frames' = Append(frames, Head(split)) /\ split' = Tail(split)
             /\ reader' = "putting"
    <2>1. Head(split) \in Frames /\ Head(split) # Sentinel /\ Head(split) = split[1]
      BY <1>5, SentinelIsNoFrame
    <2>2. /\ \A k \in 1..Len(Got) : Got'[k] = Got[k]
          /\ Got'[Len(Got) + 1] = Head(split) /\ ~Ended' /\ Lines' = Len(Got) + 1
      BY <1>1, <1>5, <2>1, GotMore
    <2>3. /\ Len(split) > 0 /\ Len(split') = Len(split) - 1
          /\ \A k \in 1..(Len(split) - 1) : split'[k] = split[k + 1]
      BY <1>5
    <2>4. ASSUME NEW k \in 1..Lines' PROVE Got'[k] = sent'[k]
      <3>1. CASE k \in 1..Lines
        BY <1>1, <1>2, <1>3, <2>2, <3>1
      <3>2. CASE k = Lines + 1
        <4>1. 1 \in 1..Len(split)
          BY <2>3
        <4>2. sent[Lines + 1] = split[1]
          BY <1>3, <4>1
        <4> QED
          BY <1>1, <1>2, <2>1, <2>2, <3>2, <4>2
      <3>3. k \in 1..Lines \/ k = Lines + 1
        BY <1>2, <2>2
      <3> QED
        BY <3>1, <3>2, <3>3
    <2>5. \A k \in 1..Len(split') : sent'[Lines' + k] = split'[k]
      <3> SUFFICES ASSUME NEW k \in 1..Len(split') PROVE sent'[Lines' + k] = split'[k]
        OBVIOUS
      <3>1. Lines' + k = Lines + (k + 1) /\ k + 1 \in 1..Len(split)
        BY <1>2, <2>2, <2>3
      <3> QED
        BY <1>1, <1>3, <2>3, <3>1
    <2>6. \A k \in 1..Len(stdout') : sent'[Lines' + Len(split') + k] = stdout'[k]
      BY <1>1, <1>2, <1>3, <2>2, <2>3
    <2> QED
      BY <1>1, <1>2, <1>3, <1>5, <2>2, <2>3, <2>4, <2>5, <2>6 DEF StreamInv
  <1> QED
    BY <1>1, <1>4, <1>5 DEF ReaderPuts, FindsQueueFull

\* The reader stops: it leaves the sentinel, or flags that the queue is full.
LEMMA StreamCloses ==
    ASSUME TypeOK, StreamInv, ReaderCloses
    PROVE  StreamInv'
  <1>1. /\ UNCHANGED <<seen, sent, host, proc>> /\ reader = "closing" /\ reader' = "done"
    BY DEF ReaderCloses, candVars, bookVars, hostVars
  <1>2. ~Ended /\ Lines = Len(Got) /\ Lines \in Nat /\ host # "start"
    BY <1>1, LinesOf DEF StreamInv
  <1>3. /\ Lines <= Len(sent) /\ (\A k \in 1..Lines : Got[k] = sent[k])
        /\ ~overflow => ~Alive /\ Len(sent) = Lines
    BY <1>1 DEF StreamInv
  <1>4. CASE frames' = Append(frames, Sentinel) /\ UNCHANGED overflow
    <2>1. Lines' = Lines /\ \A k \in 1..Lines : Got'[k] = Got[k]
      BY <1>1, <1>2, <1>4, GotMore
    <2> QED
      BY <1>1, <1>2, <1>3, <1>4, <2>1 DEF StreamInv, Alive
  <1>5. CASE overflow' = TRUE /\ UNCHANGED frames
    <2>1. Got' = Got /\ Lines' = Lines /\ (Ended' <=> Ended)
      BY <1>1, <1>5, GotKept
    <2> QED
      BY <1>1, <1>2, <1>3, <1>5, <2>1 DEF StreamInv
  <1> QED
    BY <1>4, <1>5 DEF ReaderCloses

\* A step that neither delivers a line nor takes one out of the pipe.
Rested ==
    /\ UNCHANGED <<sent, stdout, split>>
    /\ UNCHANGED <<seen, frames>> \/ Takes
    /\ \/ reader' = reader
       \/ reader = "off" /\ reader' = "top"
       \/ reader = "top" /\ reader' = "reading"
       \/ reader = "top" /\ reader' = "closing" /\ overflow'
       \/ reader = "reading" /\ reader' = "closing" /\ stdout = <<>> /\ ~Alive
    /\ overflow => overflow'
    /\ Alive' => Alive \/ host = "start"
    /\ host' = "start" => host = "start" /\ reader' = reader

LEMMA StreamRests ==
    ASSUME TypeOK, StreamInv, Rested
    PROVE  StreamInv'
  <1> USE DEF Rested, Alive
  <1>1. Got' = Got /\ Lines' = Lines /\ (Ended' <=> Ended)
    BY GotKept
  <1>2. CASE reader' = reader
    BY <1>1, <1>2 DEF StreamInv
  <1>3. CASE reader \in {"off", "top"} /\ reader' \in {"top", "reading"}
    BY <1>1, <1>3 DEF StreamInv
  <1>4. CASE reader = "top" /\ reader' = "closing" /\ overflow'
    BY <1>1, <1>4 DEF StreamInv
  <1>5. CASE reader = "reading" /\ reader' = "closing" /\ stdout = <<>> /\ ~Alive
    <2>1. split = <<>> /\ Len(sent) = Lines + Len(split) + Len(stdout) /\ host # "start"
      BY <1>5 DEF StreamInv
    <2>2. Len(sent) = Lines
      BY <1>5, <2>1, LinesOf
    <2> QED
      BY <1>1, <1>5, <2>1, <2>2 DEF StreamInv
  <1> QED
    BY <1>2, <1>3, <1>4, <1>5

\* The candidate, the clock and the drain, unless a frame is written.
LEMMA OthersRest ==
    ASSUME TypeOK, host = "start" => reader = "off",
           \/ ContainerStarts \/ CandidateComplains \/ CandidateReads \/ CandidateExits
           \/ ClientCrashes \/ Dies \/ DeadlinePasses \/ DrainStep \/ ReaderTop
           \/ ReaderSeesEOF
           \/ Rests \/ UNCHANGED vars
    PROVE  Rested
  <1> USE DEF candVars, outVars, bookVars, hostVars, Alive, Rested
  <1>1. CASE ContainerStarts
    BY <1>1 DEF ContainerStarts
  <1>2. CASE CandidateComplains
    BY <1>2 DEF CandidateComplains
  <1>3. CASE CandidateReads
    BY <1>3 DEF CandidateReads
  <1>4. CASE CandidateExits
    BY <1>4 DEF CandidateExits
  <1>5. CASE ClientCrashes \/ Dies
    BY <1>5 DEF ClientCrashes, Dies
  <1>6. CASE DeadlinePasses
    BY <1>6 DEF DeadlinePasses
  <1>7. CASE DrainStep
    BY <1>7 DEF DrainStep, DrainSeesEOF, DrainReads
  <1>8. CASE ReaderTop
    <2>1. /\ UNCHANGED <<sent, stdout, split, seen, frames, overflow, proc, host>>
          /\ reader = "top" /\ reader' = IF overflow THEN "closing" ELSE "reading"
      BY <1>8 DEF ReaderTop
    <2>2. CASE overflow
      BY <2>1, <2>2
    <2>3. CASE ~overflow
      BY <2>1, <2>3
    <2> QED
      BY <2>2, <2>3
  <1>9. CASE ReaderSeesEOF
    <2>1. /\ UNCHANGED <<sent, stdout, split, seen, frames, overflow, proc, host>>
          /\ reader = "reading" /\ reader' = "closing" /\ stdout = <<>> /\ ~Alive
      BY <1>9 DEF ReaderSeesEOF
    <2> QED
      BY <2>1
  <1>10. CASE Rests \/ UNCHANGED vars
    BY <1>10 DEF Rests, vars
  <1> QED
    BY <1>1, <1>2, <1>3, <1>4, <1>5, <1>6, <1>7, <1>8, <1>9, <1>10

\* The host delivers nothing.
LEMMA HostRests ==
    ASSUME TypeOK, host = "start" => reader = "off", HostStep
    PROVE  Rested
  <1> USE DEF candVars, outVars, bookVars, hostVars, Alive
  <1>1. CASE Declines
    BY <1>1 DEF Declines, Rested
  <1>2. CASE Launches
    BY <1>2 DEF Launches, Rested
  <1>3. CASE Inspects
    BY <1>3 DEF Inspects, Rested
  <1>4. CASE SendsPacket
    BY <1>4 DEF SendsPacket, WriteFails, Rested
  <1>5. CASE ArmsDeadline
    BY <1>5 DEF ArmsDeadline, Rested
  <1>6. CASE ChecksLoop
    BY <1>6 DEF ChecksLoop, Rested
  <1>7. CASE GetsNothing
    BY <1>7 DEF GetsNothing, Rested
  <1>8. CASE ExecutorReturns
    BY <1>8 DEF ExecutorReturns, Rested
  <1>9. CASE ExecutorReuses
    BY <1>9 DEF ExecutorReuses, Rested
  <1>10. CASE Answers
    BY <1>10 DEF Answers, WriteFails, Rested
  <1>11. CASE Tallies
    BY <1>11 DEF Tallies, Rested
  <1>12. CASE ChecksExit
    BY <1>12 DEF ChecksExit, Rested
  <1>13. CASE WaitsForExit
    BY <1>13 DEF WaitsForExit, Rested
  <1>14. CASE Reaps \/ WaitsForKilled
    BY <1>14 DEF Reaps, WaitsForKilled, Kills, Rested
  <1>15. CASE CleansUp
    BY <1>15 DEF CleansUp, Rested
  <1>16. CASE GetsSentinel \/ GetsMalformed \/ GetsUnhashable \/ GetsTerminal \/ GetsRequest
    <2>1. Takes /\ host' # "start"
      BY <1>16 DEF GetsSentinel, GetsMalformed, GetsUnhashable, GetsTerminal, GetsRequest,
                  Rejects
    <2>2. UNCHANGED <<sent, stdout, split, reader, overflow, proc>>
      BY <2>1 DEF Takes
    <2> QED
      BY <2>1, <2>2 DEF Rested
  <1> QED
    BY <1>1, <1>2, <1>3, <1>4, <1>5, <1>6, <1>7, <1>8,
       <1>9, <1>10, <1>11, <1>12, <1>13, <1>14, <1>15, <1>16 DEF HostStep

LEMMA StreamStep == TypeOK /\ StreamInv /\ [Next]_vars => StreamInv'
  <1> SUFFICES ASSUME TypeOK, StreamInv, [Next]_vars PROVE StreamInv'
    OBVIOUS
  <1>1. host = "start" => reader = "off"
    BY DEF StreamInv
  <1>2. CASE Candidate
    BY <1>1, <1>2, StreamWrites, OthersRest, StreamRests DEF Candidate
  <1>3. CASE ReaderStep
    BY <1>1, <1>3, StreamPuts, StreamCloses, StreamReads, OthersRest, StreamRests DEF ReaderStep
  <1>4. CASE DeadlinePasses \/ DrainStep \/ Rests \/ UNCHANGED vars
    BY <1>1, <1>4, OthersRest, StreamRests
  <1>5. CASE HostStep
    BY <1>1, <1>5, HostRests, StreamRests
  <1> QED
    BY <1>2, <1>3, <1>4, <1>5 DEF Next

\* The host sees the candidate's lines in order and without a gap, and none is
\* lost without a flag, for any queue size, any chunks and any ceilings.
THEOREM StreamIsKept == Spec => []InOrder
  <1>1. TypeOK /\ StreamInv => InOrder
    <2> SUFFICES ASSUME TypeOK, StreamInv PROVE InOrder
      OBVIOUS
    <2>1. reader \in {"closing", "done"} \/ reader \in {"off", "top", "reading", "putting"}
      BY DEF TypeOK
    <2> QED
      BY <2>1, LinesOf DEF StreamInv, InOrder, TypeOK
  <1>2. TypeOK /\ StreamInv /\ [Next]_vars => StreamInv'
    BY StreamStep
  <1> QED
    BY <1>1, <1>2, StreamInit, TypeCorrect, PTL DEF Spec
-----------------------------------------------------------------------------
(* What a session leaves behind *)

\* A process exists from the launch on; a client that was seen to end is gone,
\* one that goes on behind the kill is doomed; and the container that was
\* inspected and found valid is the one that is cleaned up.
LeakInv ==
    /\ host = "start" => proc = "none" /\ ~reaped
    /\ proc = "none" => container = "none"
    /\ reaped => ~Alive
    /\ (host \in {"waitKilled", "cleanup", "done"} /\ Alive) => proc = "doomed"
    /\ (host \notin {"start", "inspect"} /\ proc # "none"
          /\ "ACTUAL_CONFIG_INVALID" \notin errors) => container \in {"running", "gone"}
    /\ (host = "done" /\ container = "running" /\ "ACTUAL_CONFIG_INVALID" \notin errors)
          => "CONTAINER_CLEANUP_FAILED" \in errors

\* A step of the host between the inspection and the kill.
Midway ==
    /\ UNCHANGED <<proc, container>>
    /\ errors \subseteq errors'
    /\ reaped' => reaped \/ ~Alive
    /\ host \notin {"start", "inspect", "waitKilled", "cleanup", "done"}
    /\ host' \notin {"start", "waitKilled", "cleanup", "done"}

LEMMA MidwayLeaks ==
    ASSUME LeakInv, Midway
    PROVE  LeakInv'
BY DEF LeakInv, Midway, Alive

LEMMA HostMidway ==
    ASSUME TypeOK, HostStep, ~Declines, ~Launches, ~Inspects, ~Reaps, ~WaitsForKilled, ~CleansUp
    PROVE  Midway
  <1> USE DEF candVars, Midway, Alive, TypeOK
  <1>1. CASE SendsPacket \/ ArmsDeadline
    BY <1>1 DEF SendsPacket, ArmsDeadline, WriteFails
  <1>2. CASE ChecksLoop \/ GetsNothing
    BY <1>2 DEF ChecksLoop, GetsNothing
  <1>3. CASE GetsSentinel \/ GetsMalformed \/ GetsUnhashable \/ GetsTerminal
    BY <1>3 DEF GetsSentinel, GetsMalformed, GetsUnhashable, GetsTerminal, Takes, Rejects
  <1>4. CASE GetsRequest
    BY <1>4 DEF GetsRequest, Takes, Rejects
  <1>5. CASE ExecutorReturns \/ ExecutorReuses \/ Answers
    BY <1>5 DEF ExecutorReturns, ExecutorReuses, Answers, WriteFails
  <1>6. CASE Tallies
    BY <1>6 DEF Tallies
  <1>7. CASE WaitsForExit
    <2>1. UNCHANGED <<proc, container>> /\ host = "waitExit" /\ host' = "reap"
      BY <1>7 DEF WaitsForExit
    <2>2. errors \subseteq errors'
      BY <1>7 DEF WaitsForExit
    <2>3. ~Alive \/ reaped' = reaped
      BY <1>7 DEF WaitsForExit
    <2>4. reaped' => reaped \/ ~Alive
      BY <2>3, Zenon
    <2> QED
      BY <2>1, <2>2, <2>4
  <1>8. CASE ChecksExit
    <2>1. reaped' = (reaped \/ ((ended \/ Complete) /\ ~Alive))
      BY <1>8 DEF ChecksExit
    <2>2. UNCHANGED <<proc, container>> /\ host = "check" /\ host' \in {"waitExit", "reap"}
      BY <1>8 DEF ChecksExit
    <2>3. errors \subseteq errors'
      BY <1>8 DEF ChecksExit
    <2>4. reaped' => reaped \/ ~Alive
      BY <2>1, Zenon
    <2> QED
      BY <2>2, <2>3, <2>4
  <1> QED
    BY <1>1, <1>2, <1>3, <1>4, <1>5, <1>6, <1>7, <1>8 DEF HostStep

LEMMA LeakInit == Init => LeakInv
BY DEF Init, LeakInv, Alive

LEMMA LeakStep == TypeOK /\ LeakInv /\ [Next]_vars => LeakInv'
  <1> SUFFICES ASSUME TypeOK, LeakInv, [Next]_vars PROVE LeakInv'
    OBVIOUS
  <1> USE DEF candVars, hostVars, Alive
  <1>1. CASE Candidate
    <2>1. UNCHANGED <<host, reaped, errors>>
      BY <1>1, OthersStep
    <2>2. CASE UNCHANGED <<proc, container>>
      BY <2>1, <2>2 DEF LeakInv
    <2>3. CASE ContainerStarts
      BY <2>1, <2>3 DEF ContainerStarts, LeakInv
    <2>4. CASE CandidateExits \/ ClientCrashes \/ Dies
      BY <2>1, <2>4 DEF CandidateExits, ClientCrashes, Dies, LeakInv
    <2> QED
      BY <1>1, <2>2, <2>3, <2>4 DEF Candidate, CandidateWrites, CandidateComplains,
                                    CandidateReads
  <1>2. CASE DeadlinePasses \/ ReaderStep \/ DrainStep \/ Rests \/ UNCHANGED vars
    <2>1. UNCHANGED <<host, reaped, errors>>
      BY <1>2, OthersStep
    <2>2. UNCHANGED <<proc, container>>
      BY <1>2 DEF DeadlinePasses, ReaderStep, ReaderTop, ReaderSeesEOF, ReaderPuts,
                  ReaderCloses, ReaderReads, DrainStep, DrainSeesEOF, DrainReads, Rests, vars
    <2> QED
      BY <2>1, <2>2 DEF LeakInv
  <1>3. CASE Declines
    BY <1>3 DEF Declines, LeakInv
  <1>4. CASE Launches
    BY <1>4 DEF Launches, LeakInv
  <1>5. CASE Inspects
    BY <1>5 DEF Inspects, LeakInv
  <1>6. CASE Reaps
    BY <1>6 DEF Reaps, Kills, LeakInv, TypeOK
  <1>9. CASE WaitsForKilled
    BY <1>9 DEF WaitsForKilled, Kills, LeakInv, TypeOK
  <1>7. CASE CleansUp
    BY <1>7 DEF CleansUp, CleanupFails, LeakInv
  <1>8. CASE HostStep /\ ~Declines /\ ~Launches /\ ~Inspects /\ ~Reaps /\ ~WaitsForKilled
             /\ ~CleansUp
    BY <1>8, HostMidway, MidwayLeaks
  <1> QED
    BY <1>1, <1>2, <1>3, <1>4, <1>5, <1>6, <1>7, <1>8, <1>9 DEF Next

\* When run() is over, a docker client that goes on has a SIGKILL pending and no
\* exit code in a result that is not COMPLETED; the container it had inspected is
\* gone, or the result says that the cleanup failed; for every schedule of the
\* daemon, the candidate and the threads.
THEOREM LeaksAreShown == Spec => []NoSilentLeak
  <1>1. Init => LeakInv
    BY LeakInit
  <1>2. LeakInv /\ CompletedIsSound => NoSilentLeak
    BY DEF LeakInv, NoSilentLeak, CompletedIsSound, Alive
  <1> QED
    BY <1>1, <1>2, LeakStep, TypeCorrect, CompletedIsProved, PTL DEF Spec

-----------------------------------------------------------------------------
(* The predictions *)

\* Where the terminals of an episode stand in what the host has taken, and what
\* its prediction must then be.
TerminalsOf(s, e) == {k \in DOMAIN s : s[k] \in Terminals /\ s[k].ep = e}

FirstWins(s, p, e) ==
    IF TerminalsOf(s, e) = {} THEN p = None
    ELSE \E k \in TerminalsOf(s, e) : (\A l \in TerminalsOf(s, e) : k <= l) /\ p = s[k].arg

\* Another frame adds at most itself, behind the others.
LEMMA TerminalsGrow ==
    ASSUME NEW s \in Received, NEW x \in Frames \cup {Sentinel}, NEW e
    PROVE  /\ \A k \in DOMAIN s : Append(s, x)[k] = s[k] /\ k <= Len(s) + 1
           /\ Append(s, x)[Len(s) + 1] = x
           /\ TerminalsOf(Append(s, x), e) = TerminalsOf(s, e) \cup
                {k \in {Len(s) + 1} : x \in Terminals /\ x.ep = e}
  <1> USE DEF Received
  <1>1. /\ DOMAIN Append(s, x) = DOMAIN s \cup {Len(s) + 1}
        /\ Append(s, x)[Len(s) + 1] = x
        /\ \A k \in DOMAIN s : Append(s, x)[k] = s[k] /\ k <= Len(s) + 1
    OBVIOUS
  <1>2. Len(s) + 1 \notin DOMAIN s
    OBVIOUS
  <1> QED
    BY <1>1, <1>2 DEF TerminalsOf

LEMMA FirstStays ==
    ASSUME NEW s \in Received, NEW x \in Frames \cup {Sentinel}, NEW e, NEW p,
           FirstWins(s, p, e), p # None \/ ~(x \in Terminals /\ x.ep = e)
    PROVE  FirstWins(Append(s, x), p, e)
  <1>1. CASE ~(x \in Terminals /\ x.ep = e)
    <2>1. TerminalsOf(Append(s, x), e) = TerminalsOf(s, e)
      <3>1. {k \in {Len(s) + 1} : x \in Terminals /\ x.ep = e} = {}
        BY <1>1
      <3>2. TerminalsOf(Append(s, x), e)
              = TerminalsOf(s, e) \cup {k \in {Len(s) + 1} : x \in Terminals /\ x.ep = e}
        BY TerminalsGrow
      <3> QED
        BY <3>1, <3>2
    <2>2. \A k \in TerminalsOf(s, e) : Append(s, x)[k] = s[k]
      BY TerminalsGrow DEF TerminalsOf
    <2> QED
      BY <2>1, <2>2 DEF FirstWins
  <1>2. CASE p # None /\ x \in Terminals /\ x.ep = e
    <2>1. PICK k \in TerminalsOf(s, e) : (\A l \in TerminalsOf(s, e) : k <= l) /\ p = s[k].arg
      BY <1>2 DEF FirstWins
    <2>2. TerminalsOf(Append(s, x), e) = TerminalsOf(s, e) \cup {Len(s) + 1}
      BY <1>2, TerminalsGrow
    <2>3. k <= Len(s) + 1 /\ Append(s, x)[k] = s[k]
      BY <2>1, TerminalsGrow DEF TerminalsOf
    <2> QED
      BY <2>1, <2>2, <2>3 DEF FirstWins
  <1> QED
    BY <1>1, <1>2

LEMMA FirstCounts ==
    ASSUME NEW s \in Received, NEW x \in Terminals, FirstWins(s, None, x.ep)
    PROVE  FirstWins(Append(s, x), x.arg, x.ep)
  <1>1. TerminalsOf(s, x.ep) = {}
    <2> SUFFICES ASSUME TerminalsOf(s, x.ep) # {} PROVE FALSE
      OBVIOUS
    <2>1. PICK k \in TerminalsOf(s, x.ep) : None = s[k].arg
      BY DEF FirstWins
    <2>2. s[k] \in Terminals
      BY <2>1 DEF TerminalsOf
    <2> QED
      BY <2>1, <2>2, FrameTypes, NoneAssumption
  <1>2. x \in Frames
    BY FrameTypes
  <1>3. /\ TerminalsOf(Append(s, x), x.ep) = {Len(s) + 1}
        /\ Append(s, x)[Len(s) + 1] = x
    BY <1>1, <1>2, TerminalsGrow
  <1>4. Len(s) + 1 <= Len(s) + 1
    BY DEF Received
  <1> QED
    BY <1>3, <1>4 DEF FirstWins

\* Only the host takes frames, and each in one of five ways.
Gets == GetsSentinel \/ GetsMalformed \/ GetsUnhashable \/ GetsTerminal \/ GetsRequest

LEMMA GetsOrNot ==
    ASSUME [Next]_vars
    PROVE  Gets \/ UNCHANGED <<seen, finals>>
  <1>1. CASE Candidate \/ DeadlinePasses \/ ReaderStep \/ DrainStep \/ Rests \/ UNCHANGED vars
    BY <1>1, OthersStep
  <1>2. CASE HostStep
    <2> USE DEF bookVars, Gets
    <2>1. CASE Declines \/ Launches \/ Inspects \/ SendsPacket \/ ArmsDeadline
      BY <2>1 DEF Declines, Launches, Inspects, SendsPacket, ArmsDeadline, WriteFails
    <2>2. CASE ChecksLoop \/ GetsNothing \/ ExecutorReturns \/ ExecutorReuses \/ Answers
      BY <2>2 DEF ChecksLoop, GetsNothing, ExecutorReturns, ExecutorReuses, Answers, WriteFails
    <2>3. CASE Tallies \/ ChecksExit \/ WaitsForExit \/ Reaps \/ WaitsForKilled \/ CleansUp
      BY <2>3 DEF Tallies, ChecksExit, WaitsForExit, Reaps, WaitsForKilled, CleansUp
    <2> QED
      BY <1>2, <2>1, <2>2, <2>3 DEF HostStep
  <1> QED
    BY <1>1, <1>2 DEF Next

LEMMA GetsTakes ==
    ASSUME Gets
    PROVE  Takes
BY DEF Gets, GetsSentinel, GetsMalformed, GetsUnhashable, GetsTerminal, GetsRequest

FirstsInv == \A e \in Episodes : FirstWins(seen, finals[e], e)

LEMMA FirstsStep == TypeOK /\ FirstsInv /\ [Next]_vars => FirstsInv'
  <1> SUFFICES ASSUME TypeOK, FirstsInv, [Next]_vars PROVE FirstsInv'
    OBVIOUS
  <1>1. CASE UNCHANGED <<seen, finals>>
    BY <1>1 DEF FirstsInv
  <1>2. CASE Gets
    <2>1. Head(frames) \in Frames \cup {Sentinel} /\ seen \in Received
      BY <1>2, GetsTakes, HeadTailTypes DEF Takes, TypeOK, Received
    <2>2. seen' = Append(seen, Head(frames))
      BY <1>2, GetsTakes DEF Takes
    <2>3. ASSUME UNCHANGED finals, NEW e \in Episodes,
                 finals[e] # None \/ ~(Head(frames) \in Terminals /\ Head(frames).ep = e)
          PROVE  FirstWins(seen', finals'[e], e)
      BY <2>1, <2>2, <2>3, FirstStays DEF FirstsInv
    <2>4. CASE GetsSentinel \/ GetsMalformed \/ GetsUnhashable \/ GetsRequest
      <3>1. UNCHANGED finals /\ Head(frames) \notin Terminals
        BY <2>4, FrameKinds DEF GetsSentinel, GetsMalformed, GetsUnhashable, GetsRequest,
                                Rejects
      <3> QED
        BY <2>3, <3>1 DEF FirstsInv
    <2>5. CASE GetsTerminal
      <3> DEFINE x == Head(frames)
      <3>1. x \in Terminals /\ x.ep \in Episodes
        BY <2>5, FrameTypes DEF GetsTerminal
      <3>2. CASE Settled(x.ep) /\ UNCHANGED finals
        BY <2>3, <3>2 DEF Settled, FirstsInv
      <3>3. CASE ~Settled(x.ep) /\ finals' = [finals EXCEPT ![x.ep] = x.arg]
        <4>1. finals[x.ep] = None
          BY <3>3 DEF Settled
        <4>2. FirstWins(seen', finals'[x.ep], x.ep)
          <5>1. FirstWins(Append(seen, x), x.arg, x.ep)
            BY <2>1, <3>1, <4>1, FirstCounts DEF FirstsInv
          <5> QED
            BY <2>2, <3>1, <3>3, <5>1 DEF TypeOK
        <4>3. ASSUME NEW e \in Episodes, e # x.ep PROVE FirstWins(seen', finals'[e], e)
          <5>1. finals'[e] = finals[e]
            BY <3>3, <4>3 DEF TypeOK
          <5> QED
            BY <2>1, <2>2, <4>3, <5>1, FirstStays DEF FirstsInv
        <4> QED
          BY <4>2, <4>3 DEF FirstsInv
      <3> QED
        BY <2>5, <3>2, <3>3 DEF GetsTerminal, Rejects, Prediction
    <2> QED
      BY <1>2, <2>4, <2>5 DEF Gets
  <1> QED
    BY <1>1, <1>2, GetsOrNot

\* The prediction of an episode is the first terminal the host took for it,
\* for any number of episodes and whatever the candidate sends later.
THEOREM FirstPredictionCounts == Spec => []FinalsFollowStream
  <1>1. Init => FirstsInv
    BY DEF Init, FirstsInv, FirstWins, TerminalsOf
  <1>2. FirstsInv => FinalsFollowStream
    BY DEF FirstsInv, FirstWins, TerminalsOf, FinalsFollowStream
  <1> QED
    BY <1>1, <1>2, FirstsStep, TypeCorrect, PTL DEF Spec
-----------------------------------------------------------------------------
(* The ledgers *)

UniqueIds(book) == \A k, l \in DOMAIN book : book[k].id = book[l].id => k = l
RunsIn(book) == {k \in DOMAIN book : book[k].executed}
AnsweredBy(given, book) ==
    Len(given) <= Len(book) /\ \A k \in DOMAIN given : given[k] = book[k].id

\* An attempt is recorded behind the others.
LEMMA BookGrows ==
    ASSUME NEW book \in Seq(Attempts), NEW x \in Attempts
    PROVE  /\ Append(book, x) \in Seq(Attempts) /\ Len(Append(book, x)) = Len(book) + 1
           /\ Append(book, x)[Len(book) + 1] = x
           /\ \A k \in DOMAIN book : Append(book, x)[k] = book[k]
           /\ DOMAIN Append(book, x) = DOMAIN book \cup {Len(book) + 1}
           /\ Len(book) + 1 \notin DOMAIN book
OBVIOUS

LEMMA IdsStayUnique ==
    ASSUME NEW book \in Seq(Attempts), NEW x \in Attempts, UniqueIds(book),
           \A k \in DOMAIN book : book[k].id # x.id
    PROVE  UniqueIds(Append(book, x))
  <1> DEFINE b == Append(book, x)
  <1>1. \A k \in DOMAIN b : (k \in DOMAIN book /\ b[k] = book[k]) \/ (k = Len(book) + 1 /\ b[k] = x)
    BY BookGrows
  <1> HIDE DEF b
  <1>2. ASSUME NEW k \in DOMAIN b, NEW l \in DOMAIN b, b[k].id = b[l].id
        PROVE  k = l
    <2>1. CASE k \in DOMAIN book /\ b[k] = book[k] /\ l \in DOMAIN book /\ b[l] = book[l]
      BY <1>2, <2>1 DEF UniqueIds
    <2>2. CASE b[k] = x /\ l \in DOMAIN book /\ b[l] = book[l]
      BY <1>2, <2>2
    <2>3. CASE b[l] = x /\ k \in DOMAIN book /\ b[k] = book[k]
      BY <1>2, <2>3
    <2> QED
      BY <1>1, <2>1, <2>2, <2>3
  <1>3. UniqueIds(b)
    BY <1>2 DEF UniqueIds
  <1> QED
    BY <1>3 DEF b

LEMMA RunsGrow ==
    ASSUME NEW book \in Seq(Attempts), NEW x \in Attempts
    PROVE  /\ Cardinality(RunsIn(book)) \in Nat
           /\ Cardinality(RunsIn(Append(book, x)))
                = IF x.executed THEN Cardinality(RunsIn(book)) + 1 ELSE Cardinality(RunsIn(book))
  <1>1. IsFiniteSet(RunsIn(book))
    <2>1. RunsIn(book) \subseteq 1..Len(book) /\ Len(book) \in Nat
      BY DEF RunsIn
    <2>2. IsFiniteSet(1..Len(book))
      BY <2>1, FS_Interval
    <2> QED
      BY <2>1, <2>2, FS_Subset
  <1>2. Cardinality(RunsIn(book)) \in Nat
    BY <1>1, FS_CardinalityType
  <1>3. CASE x.executed
    <2>1. RunsIn(Append(book, x)) = RunsIn(book) \cup {Len(book) + 1}
      BY <1>3, BookGrows DEF RunsIn
    <2>2. Len(book) + 1 \notin RunsIn(book)
      BY BookGrows DEF RunsIn
    <2>3. Cardinality(RunsIn(book) \cup {Len(book) + 1}) = Cardinality(RunsIn(book)) + 1
      BY <1>1, <2>2, FS_AddElement
    <2> QED
      BY <1>2, <1>3, <2>1, <2>3
  <1>4. CASE ~x.executed
    <2>1. RunsIn(Append(book, x)) = RunsIn(book)
      BY <1>4, BookGrows DEF RunsIn
    <2> QED
      BY <1>2, <1>4, <2>1
  <1> QED
    BY <1>3, <1>4

\* The answers given so far stay answers of the longer ledger.
LEMMA AnswersStay ==
    ASSUME NEW book \in Seq(Attempts), NEW x \in Attempts, NEW given \in Seq(RequestIds),
           AnsweredBy(given, book)
    PROVE  AnsweredBy(given, Append(book, x))
  <1>1. Len(given) <= Len(book) + 1 /\ \A k \in DOMAIN given : k \in DOMAIN book
    BY DEF AnsweredBy
  <1> QED
    BY <1>1, BookGrows DEF AnsweredBy

LEMMA AnswersGrow ==
    ASSUME NEW book \in Seq(Attempts), NEW given \in Seq(RequestIds), NEW i \in RequestIds,
           AnsweredBy(given, book), Len(book) = Len(given) + 1, book[Len(book)].id = i
    PROVE  AnsweredBy(Append(given, i), book) /\ Len(Append(given, i)) = Len(book)
BY DEF AnsweredBy

\* What the ledgers hold, with what is at hand while a request is served: its
\* id is new, its call is not recorded yet, or its attempt is not answered yet.
LedgerInv ==
    /\ \A e \in Episodes :
         /\ UniqueIds(ledger[e])
         /\ calls[e] = Cardinality(RunsIn(ledger[e])) \/
              /\ calls[e] = Cardinality(RunsIn(ledger[e])) + 1
              /\ current.ep = e
              /\ host = "execute" \/ outcome = "RAISED"
         /\ AnsweredBy(answered[e], ledger[e])
         /\ Len(ledger[e]) = Len(answered[e]) \/
              /\ Len(ledger[e]) = Len(answered[e]) + 1
              /\ current.ep = e
              /\ host = "answer" \/ "IO_ERROR" \in errors
    /\ host = "execute" =>
         /\ ~Known(current.ep, current.arg)
         /\ calls[current.ep] = Cardinality(RunsIn(ledger[current.ep])) + 1
    /\ host = "answer" =>
         /\ Len(ledger[current.ep]) = Len(answered[current.ep]) + 1
         /\ ledger[current.ep][Len(ledger[current.ep])].id = current.arg
    /\ "IO_ERROR" \in errors => host \in {"reap", "waitKilled", "cleanup", "done"}
    /\ outcome = "RAISED" => host \in {"reap", "waitKilled", "cleanup", "done"}

\* A step that leaves the ledgers and the answers as they are.
BooksRest ==
    /\ UNCHANGED <<ledger, calls, answered, current>>
    /\ \/ host' = host
       \/ {host, host'} \cap {"execute", "answer"} = {}
    /\ "IO_ERROR" \in errors =>
         "IO_ERROR" \in errors' /\ host' \in {"reap", "waitKilled", "cleanup", "done"}
    /\ "IO_ERROR" \in errors' => "IO_ERROR" \in errors \/ host' = "reap"
    /\ outcome = "RAISED" =>
         outcome' = "RAISED" /\ host' \in {"reap", "waitKilled", "cleanup", "done"}
    /\ outcome' = "RAISED" => outcome = "RAISED" \/ host' = "reap"

LEMMA LedgerRests ==
    ASSUME LedgerInv, BooksRest
    PROVE  LedgerInv'
  <1>1. \A e, i : Known(e, i)' <=> Known(e, i)
    BY DEF BooksRest, Known
  <1> QED
    BY <1>1 DEF LedgerInv, BooksRest

\* The steps of the host that record and answer nothing.
LEMMA HostRestsBooks ==
    ASSUME TypeOK, LedgerInv,
           \/ Declines \/ Launches \/ Inspects \/ SendsPacket \/ ArmsDeadline \/ ChecksLoop
           \/ GetsNothing \/ Tallies \/ ChecksExit \/ WaitsForExit
           \/ Reaps \/ WaitsForKilled \/ CleansUp \/ GetsSentinel \/ GetsMalformed \/ GetsUnhashable
           \/ GetsTerminal \/ (GetsRequest /\ Rejects("DUPLICATE_REQUEST_ID"))
    PROVE  BooksRest
  <1>1. /\ "IO_ERROR" \in errors => host \in {"reap", "waitKilled", "cleanup", "done"}
        /\ outcome = "RAISED" => host \in {"reap", "waitKilled", "cleanup", "done"}
    BY DEF LedgerInv
  <1> USE DEF bookVars, BooksRest
  <1>2. CASE Declines
    BY <1>1, <1>2 DEF Declines
  <1>3. CASE Launches
    BY <1>1, <1>3 DEF Launches
  <1>4. CASE Inspects
    BY <1>1, <1>4 DEF Inspects
  <1>5. CASE SendsPacket
    BY <1>1, <1>5 DEF SendsPacket, WriteFails
  <1>6. CASE ArmsDeadline
    BY <1>1, <1>6 DEF ArmsDeadline
  <1>7. CASE ChecksLoop
    BY <1>1, <1>7 DEF ChecksLoop
  <1>8. CASE GetsNothing
    BY <1>1, <1>8 DEF GetsNothing
  <1>9. CASE Tallies
    BY <1>1, <1>9 DEF Tallies
  <1>10. CASE ChecksExit
    BY <1>1, <1>10 DEF ChecksExit, NonzeroExit
  <1>11. CASE WaitsForExit
    BY <1>1, <1>11 DEF WaitsForExit, NonzeroExit
  <1>12. CASE Reaps \/ WaitsForKilled
    BY <1>1, <1>12 DEF Reaps, WaitsForKilled
  <1>13. CASE CleansUp
    BY <1>1, <1>13 DEF CleansUp, CleanupFails
  <1>14. CASE GetsSentinel \/ GetsMalformed \/ GetsUnhashable
    BY <1>1, <1>14 DEF GetsSentinel, GetsMalformed, GetsUnhashable, Takes, Rejects
  <1>15. CASE GetsTerminal
    BY <1>1, <1>15 DEF GetsTerminal, Takes, Rejects
  <1>16. CASE GetsRequest /\ Rejects("DUPLICATE_REQUEST_ID")
    BY <1>1, <1>16 DEF GetsRequest, Takes, Rejects
  <1> QED
    BY <1>2, <1>3, <1>4, <1>5, <1>6, <1>7, <1>8,
       <1>9, <1>10, <1>11, <1>12, <1>13, <1>14, <1>15, <1>16

\* A request is refused: its attempt is recorded and awaits its answer.
LEMMA LedgerRefuses ==
    ASSUME TypeOK, LedgerInv, GetsRequest, ~Known(Head(frames).ep, Head(frames).arg),
           ~Runnable(Head(frames).ep)
    PROVE  LedgerInv'
  <1> DEFINE e == Head(frames).ep
             i == Head(frames).arg
             x == Refused(i)
  <1>1. /\ host = "get" /\ host' = "answer" /\ e \in Episodes /\ i \in RequestIds
        /\ ledger' = [ledger EXCEPT ![e] = Append(@, x)] /\ current' = Head(frames)
        /\ UNCHANGED <<calls, answered, errors, outcome>>
    BY FrameTypes DEF GetsRequest, Takes, Rejects
  <1>2. x \in Attempts /\ x.id = i /\ ~x.executed
    BY <1>1 DEF Refused, Attempts
  <1> HIDE DEF x
  <1>3. /\ ledger[e] \in Seq(Attempts) /\ answered[e] \in Seq(RequestIds)
        /\ ledger'[e] = Append(ledger[e], x)
        /\ \A d \in Episodes : d # e => ledger'[d] = ledger[d]
    BY <1>1 DEF TypeOK
  <1>4. /\ "IO_ERROR" \notin errors /\ outcome # "RAISED"
        /\ \A d \in Episodes :
             /\ UniqueIds(ledger[d]) /\ AnsweredBy(answered[d], ledger[d])
             /\ calls[d] = Cardinality(RunsIn(ledger[d]))
             /\ Len(ledger[d]) = Len(answered[d])
    BY <1>1 DEF LedgerInv
  <1>5. UniqueIds(ledger'[e])
    <2>1. \A k \in DOMAIN ledger[e] : ledger[e][k].id # x.id
      BY <1>2 DEF Known
    <2> QED
      BY <1>1, <1>2, <1>3, <1>4, <2>1, IdsStayUnique
  <1>6. calls'[e] = Cardinality(RunsIn(ledger'[e]))
    BY <1>1, <1>2, <1>3, <1>4, RunsGrow
  <1>7. AnsweredBy(answered'[e], ledger'[e])
    BY <1>1, <1>2, <1>3, <1>4, AnswersStay
  <1>8. Len(ledger'[e]) = Len(answered'[e]) + 1 /\ ledger'[e][Len(ledger'[e])].id = i
    BY <1>1, <1>2, <1>3, <1>4, BookGrows
  <1> QED
    BY <1>1, <1>3, <1>4, <1>5, <1>6, <1>7, <1>8 DEF LedgerInv

\* A request is run: the executor is called for an id the ledger does not hold.
LEMMA LedgerCalls ==
    ASSUME TypeOK, LedgerInv, GetsRequest, ~Known(Head(frames).ep, Head(frames).arg),
           Runnable(Head(frames).ep)
    PROVE  LedgerInv'
  <1> DEFINE e == Head(frames).ep
  <1>1. /\ host = "get" /\ host' = "execute" /\ e \in Episodes
        /\ calls' = [calls EXCEPT ![e] = @ + 1] /\ current' = Head(frames)
        /\ UNCHANGED <<ledger, answered, errors, outcome>>
    BY FrameTypes DEF GetsRequest, Takes, Rejects
  <1>2. calls'[e] = calls[e] + 1 /\ \A d \in Episodes : d # e => calls'[d] = calls[d]
    BY <1>1 DEF TypeOK
  <1>3. /\ "IO_ERROR" \notin errors /\ outcome # "RAISED"
        /\ \A d \in Episodes :
             /\ UniqueIds(ledger[d]) /\ AnsweredBy(answered[d], ledger[d])
             /\ calls[d] = Cardinality(RunsIn(ledger[d]))
             /\ Len(ledger[d]) = Len(answered[d])
    BY <1>1 DEF LedgerInv
  <1>4. ~(Known(current.ep, current.arg)')
    BY <1>1 DEF Known
  <1> QED
    BY <1>1, <1>2, <1>3, <1>4 DEF LedgerInv

\* The call comes back and is recorded.
LEMMA LedgerRecords ==
    ASSUME TypeOK, LedgerInv, ExecutorReturns
    PROVE  LedgerInv'
  <1> DEFINE e == current.ep
  <1>1. PICK ok \in BOOLEAN :
          ledger' = [ledger EXCEPT ![e] = Append(@, Executed(current.arg, ok))]
    BY DEF ExecutorReturns
  <1> DEFINE x == Executed(current.arg, ok)
  <1>2. /\ host = "execute" /\ host' = "answer" /\ e \in Episodes /\ current.arg \in RequestIds
        /\ UNCHANGED <<calls, answered, current, errors, outcome>>
    BY FrameTypes DEF ExecutorReturns, TypeOK
  <1>3. x \in Attempts /\ x.id = current.arg /\ x.executed
    BY <1>2 DEF Executed, Attempts
  <1> HIDE DEF x
  <1>4. /\ ledger[e] \in Seq(Attempts) /\ answered[e] \in Seq(RequestIds)
        /\ ledger'[e] = Append(ledger[e], x)
        /\ \A d \in Episodes : d # e => ledger'[d] = ledger[d]
    BY <1>1, <1>2 DEF TypeOK, x
  <1>5. /\ "IO_ERROR" \notin errors /\ outcome # "RAISED"
        /\ calls[e] = Cardinality(RunsIn(ledger[e])) + 1
        /\ \A d \in Episodes :
             /\ UniqueIds(ledger[d]) /\ AnsweredBy(answered[d], ledger[d])
             /\ d # e => calls[d] = Cardinality(RunsIn(ledger[d]))
             /\ Len(ledger[d]) = Len(answered[d])
    BY <1>2 DEF LedgerInv
  <1>6. UniqueIds(ledger'[e])
    <2>1. \A k \in DOMAIN ledger[e] : ledger[e][k].id # x.id
      BY <1>2, <1>3 DEF LedgerInv, Known
    <2> QED
      BY <1>2, <1>3, <1>4, <1>5, <2>1, IdsStayUnique
  <1>7. calls'[e] = Cardinality(RunsIn(ledger'[e]))
    BY <1>2, <1>3, <1>4, <1>5, RunsGrow
  <1>8. AnsweredBy(answered'[e], ledger'[e])
    BY <1>2, <1>3, <1>4, <1>5, AnswersStay
  <1>9. Len(ledger'[e]) = Len(answered'[e]) + 1 /\ ledger'[e][Len(ledger'[e])].id = current.arg
    BY <1>2, <1>3, <1>4, <1>5, BookGrows
  <1> QED
    BY <1>2, <1>4, <1>5, <1>6, <1>7, <1>8, <1>9 DEF LedgerInv

\* The answer is written, or the pipe is broken.
LEMMA LedgerAnswers ==
    ASSUME TypeOK, LedgerInv, Answers
    PROVE  LedgerInv'
  <1> DEFINE e == current.ep
  <1>1. /\ host = "answer" /\ e \in Episodes /\ current.arg \in RequestIds
        /\ UNCHANGED <<ledger, calls, current, outcome>> /\ outcome # "RAISED"
        /\ "IO_ERROR" \notin errors
    BY FrameTypes DEF Answers, TypeOK, LedgerInv
  <1>2. \A d \in Episodes :
             /\ UniqueIds(ledger[d]) /\ AnsweredBy(answered[d], ledger[d])
             /\ calls[d] = Cardinality(RunsIn(ledger[d]))
             /\ d # e => Len(ledger[d]) = Len(answered[d])
    BY <1>1 DEF LedgerInv
  <1>3. Len(ledger[e]) = Len(answered[e]) + 1 /\ ledger[e][Len(ledger[e])].id = current.arg
    BY <1>1 DEF LedgerInv
  <1>4. CASE /\ host' = "reap" /\ errors' = errors \cup {"IO_ERROR"} /\ UNCHANGED answered
    BY <1>1, <1>2, <1>3, <1>4 DEF LedgerInv
  <1>5. CASE /\ answered' = [answered EXCEPT ![e] = Append(@, current.arg)]
             /\ host' = "loop" /\ UNCHANGED errors
    <2>1. /\ ledger[e] \in Seq(Attempts) /\ answered[e] \in Seq(RequestIds)
          /\ answered'[e] = Append(answered[e], current.arg)
          /\ \A d \in Episodes : d # e => answered'[d] = answered[d]
      BY <1>1, <1>5 DEF TypeOK
    <2>2. AnsweredBy(answered[e], ledger[e])
      BY <1>1, <1>2
    <2>3. /\ AnsweredBy(Append(answered[e], current.arg), ledger[e])
          /\ Len(Append(answered[e], current.arg)) = Len(ledger[e])
      BY <1>1, <1>3, <2>1, <2>2, AnswersGrow
    <2> QED
      BY <1>1, <1>2, <1>5, <2>1, <2>3 DEF LedgerInv
  <1> QED
    BY <1>4, <1>5 DEF Answers, WriteFails

LEMMA LedgerStep == TypeOK /\ LedgerInv /\ [Next]_vars => LedgerInv'
  <1> SUFFICES ASSUME TypeOK, LedgerInv, [Next]_vars PROVE LedgerInv'
    OBVIOUS
  <1>1. CASE Candidate \/ DeadlinePasses \/ ReaderStep \/ DrainStep \/ Rests \/ UNCHANGED vars
    <2>1. BooksRest
      BY <1>1, OthersStep DEF BooksRest, LedgerInv
    <2> QED
      BY <2>1, LedgerRests
  <1>2. CASE GetsRequest
    BY <1>2, LedgerRefuses, LedgerCalls, HostRestsBooks, LedgerRests DEF GetsRequest
  <1>3. CASE ExecutorReuses
    BY <1>3 DEF ExecutorReuses, bookVars, LedgerInv
  <1>4. CASE HostStep /\ ~GetsRequest /\ ~ExecutorReuses
    BY <1>4, HostRestsBooks, LedgerRests, LedgerRecords, LedgerAnswers DEF HostStep
  <1> QED
    BY <1>1, <1>2, <1>3, <1>4 DEF Next

LEMMA LedgerInit == Init => LedgerInv
  <1> SUFFICES ASSUME Init PROVE LedgerInv
    OBVIOUS
  <1>1. Cardinality(RunsIn(<<>>)) = 0
    <2>1. RunsIn(<<>>) = {}
      BY DEF RunsIn
    <2> QED
      BY <2>1, FS_EmptySet
  <1>2. UniqueIds(<<>>) /\ AnsweredBy(<<>>, <<>>)
    BY DEF UniqueIds, AnsweredBy
  <1>3. \A e \in Episodes : ledger[e] = <<>> /\ calls[e] = 0 /\ answered[e] = <<>>
    BY DEF Init
  <1>4. host = "start" /\ errors = {} /\ outcome = "none"
    BY DEF Init
  <1> QED
    BY <1>1, <1>2, <1>3, <1>4 DEF LedgerInv

\* Every call of the executor is in the ledger once, or is the one that runs or
\* has raised, and the answers follow the ledger, for any budget, any number of
\* episodes and whatever the candidate asks.
THEOREM LedgerIsKept == Spec => []LedgerIsExact
  <1>1. Init => LedgerInv
    BY LedgerInit
  <1>2. TypeOK /\ LedgerInv => LedgerIsExact
    <2> SUFFICES ASSUME TypeOK, LedgerInv PROVE LedgerIsExact
      OBVIOUS
    <2>1. ASSUME NEW e \in Episodes
          PROVE  /\ \A k, l \in DOMAIN ledger[e] : ledger[e][k].id = ledger[e][l].id => k = l
                 /\ Len(answered[e]) <= Len(ledger[e])
                 /\ \A k \in DOMAIN answered[e] : answered[e][k] = ledger[e][k].id
      BY DEF LedgerInv, UniqueIds, AnsweredBy
    <2>2. ASSUME NEW e \in Episodes
          PROVE  calls[e] = Cardinality(RunsIn(ledger[e])) \/
                   /\ calls[e] = Cardinality(RunsIn(ledger[e])) + 1
                   /\ current.ep = e
                   /\ host = "execute" \/ outcome = "RAISED"
      BY DEF LedgerInv
    <2>3. ASSUME NEW e \in Episodes, Len(answered[e]) < Len(ledger[e])
          PROVE  /\ Len(ledger[e]) = Len(answered[e]) + 1 /\ current.ep = e
                 /\ host = "answer" \/ "IO_ERROR" \in errors
      <3>1. Len(answered[e]) \in Nat /\ Len(ledger[e]) \in Nat
        BY DEF TypeOK
      <3> QED
        BY <2>3, <3>1 DEF LedgerInv
    <2> QED
      BY <2>1, <2>2, <2>3 DEF LedgerIsExact, RunsIn
  <1> QED
    BY <1>1, <1>2, LedgerStep, TypeCorrect, PTL DEF Spec

-----------------------------------------------------------------------------
(* The abstract state in terms of the detailed one *)

AskedOf(s, e) == {s[k].arg : k \in {j \in DOMAIN s : s[j] \in Requests /\ s[j].ep = e}}
GivenOf(given) == {given[k] : k \in DOMAIN given}
IdsOf(book) == {book[k].id : k \in DOMAIN book}

Asked == [e \in Episodes |-> AskedOf(seen, e)]
Given == [e \in Episodes |-> GivenOf(answered[e])]

\* A frame the host takes asks for one id at most.
LEMMA AskedGrows ==
    ASSUME NEW s \in Received, NEW x \in Frames \cup {Sentinel}, NEW e
    PROVE  /\ (x \in Requests /\ x.ep = e)
                 => AskedOf(Append(s, x), e) = AskedOf(s, e) \cup {x.arg}
           /\ ~(x \in Requests /\ x.ep = e) => AskedOf(Append(s, x), e) = AskedOf(s, e)
  <1> DEFINE t == Append(s, x)
  <1>1. /\ DOMAIN t = DOMAIN s \cup {Len(s) + 1} /\ t[Len(s) + 1] = x
        /\ \A k \in DOMAIN s : t[k] = s[k]
    BY DEF Received
  <1> HIDE DEF t
  <1>2. ASSUME x \in Requests, x.ep = e
        PROVE  AskedOf(t, e) = AskedOf(s, e) \cup {x.arg}
    BY <1>1, <1>2 DEF AskedOf
  <1>3. ASSUME ~(x \in Requests /\ x.ep = e)
        PROVE  AskedOf(t, e) = AskedOf(s, e)
    BY <1>1, <1>3 DEF AskedOf
  <1> QED
    BY <1>2, <1>3 DEF t

LEMMA GivenGrows ==
    ASSUME NEW given \in Seq(RequestIds), NEW i \in RequestIds
    PROVE  GivenOf(Append(given, i)) = GivenOf(given) \cup {i}
  <1> DEFINE t == Append(given, i)
  <1>1. /\ DOMAIN t = DOMAIN given \cup {Len(given) + 1} /\ t[Len(given) + 1] = i
        /\ \A k \in DOMAIN given : t[k] = given[k]
    OBVIOUS
  <1> HIDE DEF t
  <1>2. GivenOf(t) = GivenOf(given) \cup {i}
    BY <1>1 DEF GivenOf
  <1> QED
    BY <1>2 DEF t

LEMMA IdsGrow ==
    ASSUME NEW book \in Seq(Attempts), NEW x \in Attempts
    PROVE  IdsOf(Append(book, x)) = IdsOf(book) \cup {x.id}
  <1> DEFINE t == Append(book, x)
  <1>1. /\ DOMAIN t = DOMAIN book \cup {Len(book) + 1} /\ t[Len(book) + 1] = x
        /\ \A k \in DOMAIN book : t[k] = book[k]
    BY BookGrows
  <1> HIDE DEF t
  <1>2. IdsOf(t) = IdsOf(book) \cup {x.id}
    BY <1>1 DEF IdsOf
  <1> QED
    BY <1>2 DEF t

\* Answers that cover the ledger leave no id of it without one.
LEMMA AllGiven ==
    ASSUME NEW book \in Seq(Attempts), NEW given \in Seq(RequestIds),
           AnsweredBy(given, book), Len(given) = Len(book)
    PROVE  GivenOf(given) = IdsOf(book)
  <1>1. DOMAIN given = DOMAIN book
    OBVIOUS
  <1> QED
    BY <1>1 DEF GivenOf, IdsOf, AnsweredBy

\* The last attempt of a ledger that misses one answer has an id of its own.
LEMMA LastNotGiven ==
    ASSUME NEW book \in Seq(Attempts), NEW given \in Seq(RequestIds),
           AnsweredBy(given, book), Len(book) = Len(given) + 1, UniqueIds(book)
    PROVE  book[Len(book)].id \in IdsOf(book) \ GivenOf(given)
  <1>1. /\ Len(book) \in DOMAIN book
        /\ \A k \in DOMAIN given : k \in DOMAIN book /\ k # Len(book)
    OBVIOUS
  <1>2. \A k \in DOMAIN given : given[k] # book[Len(book)].id
    BY <1>1 DEF AnsweredBy, UniqueIds
  <1> QED
    BY <1>1, <1>2 DEF IdsOf, GivenOf

LEMMA RequestKinds ==
    /\ \A f \in Terminals : f \notin Requests
    /\ Malformed \notin Requests /\ Unhashable \notin Requests /\ Sentinel \notin Requests
  <1>1. \A f \in Requests : f.kind = "request"
    BY DEF Requests, Request
  <1>2. Malformed.kind = "malformed" /\ Unhashable.kind = "unhashable" /\ Sentinel.kind = "eof"
    BY DEF Malformed, Unhashable, Sentinel
  <1> QED
    BY <1>1, <1>2, FrameKinds

\* While a session is open the ids a candidate asked for are those of the ledger
\* and the one of the call that runs.
AskedInv ==
    outcome = "none" =>
        \A e \in Episodes :
            Asked[e] = IdsOf(ledger[e]) \cup
                         {i \in {current.arg} : host = "execute" /\ current.ep = e}

\* All that is known of a state of the detailed session.
SessionInv == TypeOK /\ VerdictInv /\ BudgetInv /\ LedgerInv /\ LeakInv /\ AskedInv

-----------------------------------------------------------------------------
(* The asked ids stay in step with the ledger *)

LEMMA AskedStep == SessionInv /\ [Next]_vars => AskedInv'
  <1> SUFFICES ASSUME SessionInv, [Next]_vars, outcome' = "none" PROVE AskedInv'
    BY DEF AskedInv
  <1> USE DEF SessionInv
  <1>1. CASE UNCHANGED <<seen, ledger, current, outcome>> /\ (host' = "execute" <=> host = "execute")
    BY <1>1 DEF AskedInv, Asked
  <1>2. CASE Candidate \/ DeadlinePasses \/ ReaderStep \/ DrainStep \/ Rests \/ UNCHANGED vars
    BY <1>1, <1>2, OthersStep
  <1>3. CASE HostStep
    <2>1. CASE \/ Declines \/ Launches \/ Inspects \/ SendsPacket \/ ArmsDeadline \/ ChecksLoop
               \/ GetsNothing \/ ExecutorReuses \/ Tallies \/ ChecksExit \/ WaitsForExit \/ Reaps \/ WaitsForKilled
               \/ CleansUp \/ Answers
      <3>1. outcome = outcome'
        BY <2>1 DEF Declines, Launches, Inspects, SendsPacket, ArmsDeadline, ChecksLoop,
                    GetsNothing, ExecutorReuses, Tallies, ChecksExit, WaitsForExit, Reaps, WaitsForKilled,
                    CleansUp, Answers
      <3>2. UNCHANGED <<seen, ledger, current>>
        BY <2>1 DEF Declines, Launches, Inspects, SendsPacket, ArmsDeadline, ChecksLoop,
                    GetsNothing, ExecutorReuses, Tallies, ChecksExit, WaitsForExit, Reaps, WaitsForKilled,
                    CleansUp, Answers, bookVars
      <3>3. host # "execute" /\ host' # "execute"
        BY <2>1 DEF Declines, Launches, Inspects, SendsPacket, ArmsDeadline, ChecksLoop,
                    GetsNothing, ExecutorReuses, Tallies, ChecksExit, WaitsForExit, Reaps, WaitsForKilled,
                    CleansUp, Answers, WriteFails
      <3> QED
        BY <1>1, <3>1, <3>2, <3>3
    <2>2. CASE Gets
      <3> DEFINE x == Head(frames)
      <3>1. /\ host = "get" /\ x \in Frames \cup {Sentinel} /\ seen \in Received
            /\ seen' = Append(seen, x)
        BY <2>2, GetsTakes, HeadTailTypes DEF Takes, TypeOK, Received
      <3>2. outcome = "none"
        BY <3>1 DEF VerdictInv, Stages
      <3>3. \A e \in Episodes : AskedOf(seen, e) = IdsOf(ledger[e])
        BY <3>1, <3>2 DEF AskedInv, Asked
      <3>4. CASE GetsSentinel \/ GetsMalformed \/ GetsUnhashable \/ GetsTerminal
        <4>1. UNCHANGED <<ledger, current>> /\ host' # "execute" /\ x \notin Requests
          BY <2>2, <3>4, RequestKinds DEF GetsSentinel, GetsMalformed, GetsUnhashable, GetsTerminal,
                                          Rejects
        <4> QED
          BY <3>1, <3>3, <4>1, AskedGrows DEF AskedInv, Asked
      <3>5. CASE GetsRequest
        <4>1. x \in Requests /\ x.ep \in Episodes /\ x.arg \in RequestIds
          BY <3>5, FrameTypes DEF GetsRequest
        <4>2. \A e \in Episodes :
                AskedOf(seen', e) = AskedOf(seen, e) \cup {i \in {x.arg} : x.ep = e}
          BY <3>1, <4>1, AskedGrows
        <4>3. CASE Known(x.ep, x.arg) /\ Rejects("DUPLICATE_REQUEST_ID")
          <5>1. x.arg \in IdsOf(ledger[x.ep])
            BY <4>3 DEF Known, IdsOf
          <5> QED
            BY <3>3, <4>2, <4>3, <5>1 DEF Rejects, AskedInv, Asked
        <4>4. CASE /\ ledger' = [ledger EXCEPT ![x.ep] = Append(@, Refused(x.arg))]
                   /\ host' = "answer"
          <5>1. Refused(x.arg) \in Attempts /\ Refused(x.arg).id = x.arg
            BY <4>1 DEF Refused, Attempts
          <5>2. /\ IdsOf(ledger'[x.ep]) = IdsOf(ledger[x.ep]) \cup {x.arg}
                /\ \A e \in Episodes : e # x.ep => ledger'[e] = ledger[e]
            BY <4>1, <4>4, <5>1, IdsGrow DEF TypeOK
          <5> QED
            BY <3>3, <4>1, <4>2, <4>4, <5>2 DEF AskedInv, Asked
        <4>5. CASE current' = x /\ host' = "execute" /\ UNCHANGED ledger
          BY <3>3, <4>1, <4>2, <4>5 DEF AskedInv, Asked
        <4> QED
          BY <3>5, <4>3, <4>4, <4>5 DEF GetsRequest
      <3> QED
        BY <2>2, <3>4, <3>5 DEF Gets
    <2>3. CASE ExecutorReturns
      <3> DEFINE e == current.ep
      <3>1. /\ host = "execute" /\ host' = "answer" /\ e \in Episodes /\ current.arg \in RequestIds
            /\ UNCHANGED <<seen, current, outcome>>
        BY <2>3, FrameTypes DEF ExecutorReturns, TypeOK
      <3>2. PICK ok \in BOOLEAN :
              ledger' = [ledger EXCEPT ![e] = Append(@, Executed(current.arg, ok))]
        BY <2>3 DEF ExecutorReturns
      <3>3. Executed(current.arg, ok) \in Attempts /\ Executed(current.arg, ok).id = current.arg
        BY <3>1 DEF Executed, Attempts
      <3>4. /\ IdsOf(ledger'[e]) = IdsOf(ledger[e]) \cup {current.arg}
            /\ \A d \in Episodes : d # e => ledger'[d] = ledger[d]
        BY <3>1, <3>2, <3>3, IdsGrow DEF TypeOK
      <3> QED
        BY <3>1, <3>4 DEF AskedInv, Asked
    <2> QED
      BY <1>3, <2>1, <2>2, <2>3 DEF HostStep, Gets
  <1> QED
    BY <1>2, <1>3 DEF Next
-----------------------------------------------------------------------------
(* Every step maps to a step of the abstract session or to none *)

\* The abstract state, as the instance sees it.
LEMMA SessionState ==
    /\ Session!vars = <<outcome, finals, Asked, calls, Given, container = "gone">>
    /\ Session!vars' = <<outcome', finals', Asked', calls', Given', container' = "gone">>
BY DEF Session!vars, Asked, AskedOf, Given, GivenOf

LEMMA SessionStart == Init => Session!Init
  <1> SUFFICES ASSUME Init PROVE Session!Init
    OBVIOUS
  <1>1. Asked = [e \in Episodes |-> {}] /\ Given = [e \in Episodes |-> {}]
    BY DEF Init, Asked, AskedOf, Given, GivenOf
  <1>2. /\ outcome = "none" /\ finals = [e \in Episodes |-> None]
        /\ calls = [e \in Episodes |-> 0] /\ container # "gone"
    BY DEF Init
  <1> QED
    BY <1>1, <1>2 DEF Session!Init, Asked, AskedOf, Given, GivenOf

\* A step that touches only the container cleans it or is none.
LEMMA MapsToRest ==
    ASSUME UNCHANGED <<outcome, finals, Asked, calls, Given>>,
           container = "gone" => container' = "gone"
    PROVE  Session!Next \/ UNCHANGED Session!vars
  <1>1. CASE (container = "gone") <=> (container' = "gone")
    <2>1. (container = "gone") = (container' = "gone")
      BY <1>1
    <2> QED
      BY <2>1, SessionState
  <1>2. CASE container # "gone" /\ container' = "gone"
    BY <1>2 DEF Session!Next, Session!Clean, Asked, AskedOf, Given, GivenOf
  <1> QED
    BY <1>1, <1>2

LEMMA MapsToFail ==
    ASSUME UNCHANGED <<finals, Asked, calls, Given>>, outcome = "none",
           outcome' \in {"BLOCKED", "RAISED"}, container = "gone" => container' = "gone"
    PROVE  Session!Next
  <1>1. (container' = "gone") \in {container = "gone", TRUE}
    OBVIOUS
  <1> QED
    BY <1>1 DEF Session!Next, Session!Fail, Session!Open, Asked, AskedOf, Given, GivenOf

LEMMA MapsToRequest ==
    ASSUME NEW e \in Episodes, NEW i \in RequestIds,
           Session!Run(e, i) \/ Session!Refuse(e, i) \/ Session!Answer(e, i)
    PROVE  Session!Next
BY DEF Session!Next

\* Nobody waits for an answer.
Still == \A e \in Episodes : Asked[e] \ Given[e] = {}

LEMMA StillIsQuiet == Still => Session!Quiet
BY DEF Still, Session!Quiet, Session!Waiting, Asked, AskedOf, Given, GivenOf

LEMMA StillBetween ==
    ASSUME SessionInv, outcome = "none", host # "execute", host # "answer",
           "IO_ERROR" \notin errors
    PROVE  Still
  <1> USE DEF SessionInv
  <1>1. ASSUME NEW e \in Episodes PROVE Asked[e] \ Given[e] = {}
    <2>1. Asked[e] = IdsOf(ledger[e])
      BY DEF AskedInv
    <2>2. AnsweredBy(answered[e], ledger[e]) /\ Len(ledger[e]) = Len(answered[e])
      BY DEF LedgerInv
    <2>3. ledger[e] \in Seq(Attempts) /\ answered[e] \in Seq(RequestIds)
      BY DEF TypeOK
    <2> QED
      BY <2>1, <2>2, <2>3, AllGiven DEF Given
  <1> QED
    BY <1>1 DEF Still

\* What the host takes from the queue.
LEMMA GetsMap ==
    ASSUME SessionInv, Gets
    PROVE  Session!Next \/ UNCHANGED Session!vars
  <1> USE DEF SessionInv
  <1> DEFINE x == Head(frames)
  <1>1. /\ host = "get" /\ x \in Frames \cup {Sentinel} /\ seen \in Received
        /\ seen' = Append(seen, x) /\ UNCHANGED <<container, answered>>
    BY GetsTakes, HeadTailTypes DEF Takes, TypeOK, Received, candVars
  <1>2. outcome = "none" /\ "IO_ERROR" \notin errors
    BY <1>1 DEF VerdictInv, Stages, LedgerInv
  <1>3. Still /\ Session!Quiet
    BY <1>1, <1>2, StillBetween, StillIsQuiet
  <1>4. Given' = Given
    BY <1>1 DEF Given
  <1>5. CASE x \notin Requests
    <2>1. Asked' = Asked
      BY <1>1, <1>5, AskedGrows DEF Asked
    <2>2. CASE GetsSentinel \/ GetsMalformed
      BY <1>1, <1>4, <2>1, <2>2, MapsToRest DEF GetsSentinel, GetsMalformed, Rejects
    <2>3. CASE GetsUnhashable
      BY <1>1, <1>2, <1>4, <2>1, <2>3, MapsToFail DEF GetsUnhashable
    <2>4. CASE GetsTerminal
      <3>1. x \in Terminals /\ x.ep \in Episodes /\ x.arg \in Predictions
        BY <2>4, FrameTypes DEF GetsTerminal
      <3>2. CASE Rejects("DUPLICATE_TERMINAL_RESULT")
        BY <1>1, <1>4, <2>1, <3>2, MapsToRest DEF Rejects
      <3>3. CASE /\ finals[x.ep] = None /\ finals' = [finals EXCEPT ![x.ep] = x.arg]
                 /\ UNCHANGED <<calls, outcome>>
        <4>1. Session!Settle(x.ep, x.arg)
          BY <1>1, <1>2, <1>3, <1>4, <2>1, <3>3
             DEF Session!Settle, Session!Open, Asked, AskedOf, Given, GivenOf
        <4> QED
          BY <3>1, <4>1 DEF Session!Next
      <3> QED
        BY <2>4, <3>2, <3>3 DEF GetsTerminal, Settled, Prediction
    <2> QED
      BY <1>5, <2>2, <2>3, <2>4 DEF Gets, GetsRequest
  <1>6. CASE x \in Requests
    <2>0. PICK e \in Episodes, i \in RequestIds : e = x.ep /\ i = x.arg
      BY <1>6, FrameTypes
    <2>1. GetsRequest
      BY <1>6, RequestKinds
         DEF Gets, GetsSentinel, GetsMalformed, GetsUnhashable, GetsTerminal
    <2>2. Asked[e] = IdsOf(ledger[e])
      BY <1>1, <1>2, <2>1 DEF AskedInv
    <2>3. \A d \in Episodes :
            Asked'[d] = IF d = e THEN Asked[d] \cup {i} ELSE Asked[d]
      BY <1>1, <1>6, <2>0, AskedGrows DEF Asked
    <2>4. CASE Known(e, i) /\ Rejects("DUPLICATE_REQUEST_ID")
      <3>1. i \in Asked[e]
        BY <2>2, <2>4 DEF Known, IdsOf
      <3>2. Asked' = Asked
        BY <2>3, <3>1 DEF Asked
      <3> QED
        BY <1>1, <1>4, <2>4, <3>2, MapsToRest DEF Rejects
    <2>5. ASSUME ~Known(e, i), UNCHANGED <<outcome, finals>>
          PROVE  Session!Admit(e, i)
      <3>1. i \notin Asked[e]
        BY <2>2, <2>5 DEF Known, IdsOf
      <3>2. Asked' = [Asked EXCEPT ![e] = @ \cup {i}]
        BY <2>1, <2>3 DEF Asked
      <3> QED
        BY <1>2, <1>3, <2>1, <3>1, <3>2 DEF Session!Admit, Session!Open, Asked, AskedOf
    <2>6. CASE ~Known(e, i) /\ UNCHANGED <<calls, finals, outcome>>
      <3>1. Session!Refuse(e, i)
        BY <1>1, <1>4, <2>5, <2>6 DEF Session!Refuse, Given, GivenOf
      <3> QED
        BY <2>1, <3>1, MapsToRequest
    <2>7. CASE /\ ~Known(e, i) /\ Runnable(e) /\ calls' = [calls EXCEPT ![e] = @ + 1]
               /\ UNCHANGED <<finals, outcome>>
      <3>1. finals[e] = None /\ calls[e] < MaxExperiments
        <4>1. calls[e] <= Len(ledger[e]) /\ calls[e] \in Nat /\ Len(ledger[e]) \in Nat
          BY <1>1, <2>1 DEF BudgetInv, CallsBacked, Serving, TypeOK
        <4> QED
          BY <2>7, <4>1, SizesAssumption DEF Runnable
      <3>2. Session!Run(e, i)
        BY <1>1, <1>4, <2>5, <2>7, <3>1 DEF Session!Run, Given, GivenOf
      <3> QED
        BY <2>1, <3>2, MapsToRequest
    <2> QED
      BY <2>0, <2>1, <2>4, <2>6, <2>7 DEF GetsRequest
  <1> QED
    BY <1>5, <1>6

LEMMA AnswersMap ==
    ASSUME SessionInv, Answers
    PROVE  Session!Next \/ UNCHANGED Session!vars
  <1> USE DEF SessionInv
  <1>0. PICK e \in Episodes, i \in RequestIds : e = current.ep /\ i = current.arg
    BY FrameTypes DEF Answers, TypeOK
  <1>1. host = "answer" /\ UNCHANGED <<container, outcome, finals, calls, seen>>
    BY DEF Answers, TypeOK
  <1>2. outcome = "none" /\ Asked' = Asked
    BY <1>1 DEF VerdictInv, Stages, Asked
  <1>3. CASE UNCHANGED answered
    <2>1. Given' = Given
      BY <1>3 DEF Given
    <2> QED
      BY <1>1, <1>2, <2>1, MapsToRest
  <1>4. CASE answered' = [answered EXCEPT ![e] = Append(@, i)]
    <2>1. answered[e] \in Seq(RequestIds) /\ ledger[e] \in Seq(Attempts)
      BY <1>1 DEF TypeOK
    <2>2. /\ AnsweredBy(answered[e], ledger[e]) /\ Len(ledger[e]) = Len(answered[e]) + 1
          /\ UniqueIds(ledger[e]) /\ ledger[e][Len(ledger[e])].id = i
      BY <1>0, <1>1 DEF LedgerInv
    <2>3. i \in IdsOf(ledger[e]) \ GivenOf(answered[e])
      BY <2>1, <2>2, LastNotGiven
    <2>4. i \in Asked[e] \ Given[e]
      BY <1>1, <1>2, <2>3 DEF AskedInv, Given
    <2>5. \A d \in Episodes :
            answered'[d] = IF d = e THEN Append(answered[e], i) ELSE answered[d]
      BY <1>1, <1>4 DEF TypeOK
    <2>6. Given' = [Given EXCEPT ![e] = @ \cup {i}]
      BY <1>1, <2>1, <2>5, GivenGrows DEF Given
    <2>7. Session!Answer(e, i)
      BY <1>1, <1>2, <2>4, <2>6 DEF Session!Answer, Session!Open, Session!Waiting,
                                    Asked, AskedOf, Given, GivenOf
    <2> QED
      BY <1>1, <2>7, MapsToRequest
  <1> QED
    BY <1>0, <1>3, <1>4 DEF Answers, WriteFails

LEMMA CleansUpMaps ==
    ASSUME SessionInv, CleansUp, CompletedIsSound'
    PROVE  Session!Next \/ UNCHANGED Session!vars
  <1> USE DEF SessionInv
  <1>1. /\ host = "cleanup" /\ outcome \in {"none", "RAISED"}
        /\ UNCHANGED <<finals, calls, answered, seen>>
        /\ container = "gone" => container' = "gone"
    BY DEF CleansUp, CleanupFails, bookVars, VerdictInv, Stages
  <1>2. Asked' = Asked /\ Given' = Given
    BY <1>1 DEF Asked, Given
  <1>3. CASE outcome = "RAISED"
    <2>1. outcome' = outcome
      BY <1>3 DEF CleansUp
    <2> QED
      BY <1>1, <1>2, <2>1, MapsToRest
  <1>4. CASE outcome = "none" /\ outcome' = "BLOCKED"
    BY <1>1, <1>2, <1>4, MapsToFail
  <1>5. CASE outcome = "none" /\ outcome' = "COMPLETED"
    <2>1. errors = {}
      BY <1>5 DEF CleansUp, CleanupFails
    <2>2. Session!Quiet
      BY <1>1, <1>5, <2>1, StillBetween, StillIsQuiet
    <2>3. container' = "gone" /\ \A e \in Episodes : finals[e] # None
      BY <1>1, <1>5 DEF CompletedIsSound, Complete
    <2> QED
      BY <1>1, <1>2, <1>5, <2>2, <2>3 DEF Session!Next, Session!Complete, Session!Open,
                           Session!AllSettled, Asked, AskedOf, Given, GivenOf
  <1> QED
    BY <1>1, <1>3, <1>4, <1>5 DEF CleansUp

\* The other steps of the host, two of which end the session.
LEMMA HostMaps ==
    ASSUME SessionInv, HostStep, ~Gets, ~Answers, ~CleansUp
    PROVE  Session!Next \/ UNCHANGED Session!vars
  <1> USE DEF SessionInv
  <1>1. UNCHANGED <<finals, calls, answered, seen>> /\ (container = "gone" => container' = "gone")
    <2>1. CASE Declines \/ Inspects \/ SendsPacket \/ ArmsDeadline \/ ChecksLoop \/ GetsNothing
      BY <2>1 DEF Declines, Inspects, SendsPacket, ArmsDeadline, ChecksLoop, GetsNothing,
                  WriteFails, bookVars, candVars
    <2>2. CASE ExecutorReturns \/ ExecutorReuses \/ Tallies \/ ChecksExit \/ WaitsForExit \/ Reaps \/ WaitsForKilled
      BY <2>2 DEF ExecutorReturns, ExecutorReuses, Tallies, ChecksExit, WaitsForExit, Reaps, WaitsForKilled,
                  bookVars, candVars
    <2>3. CASE Launches
      BY <2>3 DEF Launches, bookVars, LeakInv
    <2> QED
      BY <2>1, <2>2, <2>3 DEF HostStep, Gets
  <1>2. Asked' = Asked /\ Given' = Given
    BY <1>1 DEF Asked, Given
  <1>3. CASE Declines \/ ExecutorReuses
    <2>1. host \in {"start", "execute"} /\ outcome' \in {"BLOCKED", "RAISED"}
      BY <1>3 DEF Declines, ExecutorReuses
    <2>2. outcome = "none"
      BY <2>1 DEF VerdictInv, Stages
    <2> QED
      BY <1>1, <1>2, <2>1, <2>2, MapsToFail
  <1>4. CASE ~Declines /\ ~ExecutorReuses
    <2>1. outcome' = outcome
      BY <1>4 DEF HostStep, Gets, Launches, Inspects, SendsPacket, ArmsDeadline, ChecksLoop,
                  GetsNothing, ExecutorReturns, Tallies, ChecksExit, WaitsForExit, Reaps, WaitsForKilled
    <2> QED
      BY <1>1, <1>2, <2>1, MapsToRest
  <1> QED
    BY <1>3, <1>4

LEMMA StepMaps ==
    SessionInv /\ CompletedIsSound' /\ [Next]_vars => [Session!Next]_(Session!vars)
  <1> SUFFICES ASSUME SessionInv, CompletedIsSound', [Next]_vars
               PROVE  Session!Next \/ UNCHANGED Session!vars
    OBVIOUS
  <1>1. CASE Candidate \/ DeadlinePasses \/ ReaderStep \/ DrainStep \/ Rests \/ UNCHANGED vars
    <2>1. /\ UNCHANGED <<outcome, finals, calls, seen, answered>>
          /\ container = "gone" => container' = "gone"
      BY <1>1, OthersStep
    <2>2. Asked' = Asked /\ Given' = Given
      BY <2>1 DEF Asked, Given
    <2> QED
      BY <2>1, <2>2, MapsToRest
  <1>2. CASE HostStep
    BY <1>2, GetsMap, AnswersMap, CleansUpMaps, HostMaps
  <1> QED
    BY <1>1, <1>2 DEF Next

LEMMA TypeStep == TypeOK /\ [Next]_vars => TypeOK'
  <1> SUFFICES ASSUME TypeOK, [Next]_vars PROVE TypeOK'
    OBVIOUS
  <1>1. CASE Rests \/ UNCHANGED vars
    BY <1>1 DEF Rests, TypeOK, vars, candVars, outVars, bookVars, hostVars
  <1> QED
    BY <1>1, CandidateType, DeadlineType, ReaderType, DrainType, HostType DEF Next

LEMMA SessionInvStarts == Init => SessionInv
  <1>1. Init => AskedInv
    BY DEF Init, AskedInv, Asked, AskedOf, IdsOf
  <1> QED
    BY <1>1, InitType, VerdictInit, BudgetInit, LedgerInit, LeakInit DEF SessionInv

LEMMA SessionInvStep == SessionInv /\ [Next]_vars => SessionInv'
BY AskedStep, TypeStep, VerdictStep, BudgetStep, LedgerStep, LeakStep DEF SessionInv

LEMMA SessionInvAlways == Spec => []SessionInv
BY SessionInvStarts, SessionInvStep, PTL DEF Spec

\* Every behaviour of the detailed session is one of the abstract session, for
\* any number of episodes, any budget, queue and ceilings, and any candidate:
\* one request at a time, each answered at most once, experiments only for open
\* episodes within their budget, and COMPLETED only when all of it is in order.
THEOREM SessionIsImplemented == Spec => ImplementsSession
  <1>1. SessionInv => CompletedIsSound
    BY DEF SessionInv, VerdictInv
  <1> QED
    BY <1>1, SessionInvAlways, SessionStart, StepMaps, PTL
       DEF Spec, ImplementsSession, Session!Spec

-----------------------------------------------------------------------------
(* What the abstract session lets the evaluator build on *)

\* The steps of the abstract session, by what they do to the ids.
Admission(e, i) ==
    /\ outcome = "none" /\ outcome' = "none" /\ Still /\ i \notin Asked[e]
    /\ \A d \in Episodes : Asked'[d] = IF d = e THEN Asked[d] \cup {i} ELSE Asked[d]
    /\ Given' = Given /\ finals' = finals
    /\ \/ calls' = calls
       \/ finals[e] = None /\ calls[e] < MaxExperiments
          /\ calls' = [calls EXCEPT ![e] = @ + 1]

Reply(e, i) ==
    /\ outcome = "none" /\ i \in Asked[e] \ Given[e]
    /\ \A d \in Episodes : Given'[d] = IF d = e THEN Given[d] \cup {i} ELSE Given[d]
    /\ Asked' = Asked /\ UNCHANGED <<outcome, finals, calls>>

Settlement(e, p) ==
    /\ outcome = "none" /\ Still /\ finals[e] = None
    /\ finals' = [finals EXCEPT ![e] = p]
    /\ Asked' = Asked /\ Given' = Given /\ UNCHANGED <<outcome, calls>>

Ending ==
    /\ Asked' = Asked /\ Given' = Given /\ UNCHANGED <<finals, calls>>
    /\ container = "gone" => container' = "gone"
    /\ \/ outcome' = outcome
       \/ outcome = "none" /\ outcome' \in {"BLOCKED", "RAISED"}
       \/ outcome = "none" /\ Still /\ container' = "gone" /\ \A e \in Episodes : finals[e] # None

LEMMA SessionSteps ==
    ASSUME Session!Next
    PROVE  \/ \E e \in Episodes, i \in RequestIds : Admission(e, i) \/ Reply(e, i)
           \/ \E e \in Episodes, p \in Predictions : Settlement(e, p)
           \/ Ending
  <1>0. Session!Quiet <=> Still
    BY DEF Session!Quiet, Session!Waiting, Still, Asked, AskedOf, Given, GivenOf
  <1>a. \A e \in Episodes, i \in RequestIds : Asked' = [Asked EXCEPT ![e] = @ \cup {i}] =>
          \A d \in Episodes : Asked'[d] = IF d = e THEN Asked[d] \cup {i} ELSE Asked[d]
    BY DEF Asked
  <1>b. \A e \in Episodes, i \in RequestIds : Given' = [Given EXCEPT ![e] = @ \cup {i}] =>
          \A d \in Episodes : Given'[d] = IF d = e THEN Given[d] \cup {i} ELSE Given[d]
    BY DEF Given
  <1>1. ASSUME NEW e \in Episodes, NEW i \in RequestIds, Session!Admit(e, i)
        PROVE  /\ outcome = "none" /\ Still /\ i \notin Asked[e]
               /\ Asked' = [Asked EXCEPT ![e] = @ \cup {i}]
    BY <1>0, <1>1 DEF Session!Admit, Session!Open, Asked, AskedOf
  <1>2. ASSUME NEW e \in Episodes, NEW i \in RequestIds, Session!Run(e, i)
        PROVE  Admission(e, i)
    <2>1. /\ Given' = Given /\ finals' = finals /\ outcome' = outcome
          /\ finals[e] = None /\ calls[e] < MaxExperiments
          /\ calls' = [calls EXCEPT ![e] = @ + 1]
      BY <1>2 DEF Session!Run, Given, GivenOf
    <2> QED
      BY <1>1, <1>2, <1>a, <2>1 DEF Session!Run, Admission
  <1>3. ASSUME NEW e \in Episodes, NEW i \in RequestIds, Session!Refuse(e, i)
        PROVE  Admission(e, i)
    <2>1. /\ Given' = Given /\ finals' = finals /\ outcome' = outcome /\ calls' = calls
      BY <1>3 DEF Session!Refuse, Given, GivenOf
    <2> QED
      BY <1>1, <1>3, <1>a, <2>1 DEF Session!Refuse, Admission
  <1>4. ASSUME NEW e \in Episodes, NEW i \in RequestIds, Session!Answer(e, i)
        PROVE  Reply(e, i)
    <2>1. /\ outcome = "none" /\ i \in Asked[e] \ Given[e]
          /\ Given' = [Given EXCEPT ![e] = @ \cup {i}]
          /\ Asked' = Asked /\ UNCHANGED <<outcome, finals, calls>>
      BY <1>4 DEF Session!Answer, Session!Open, Session!Waiting, Asked, AskedOf, Given, GivenOf
    <2> QED
      BY <1>b, <2>1 DEF Reply
  <1>5. ASSUME NEW e \in Episodes, NEW p \in Predictions, Session!Settle(e, p)
        PROVE  Settlement(e, p)
    BY <1>0, <1>5 DEF Session!Settle, Session!Open, Settlement, Asked, AskedOf, Given, GivenOf
  <1>6. ASSUME Session!Clean \/ Session!Complete \/ Session!Fail PROVE Ending
    BY <1>0, <1>6 DEF Session!Clean, Session!Complete, Session!Fail, Session!Open,
                      Session!AllSettled, Ending, Asked, AskedOf, Given, GivenOf
  <1> QED
    BY <1>2, <1>3, <1>4, <1>5, <1>6 DEF Session!Next

\* Session!Orderly, with the ids by their names.
Waits(e) == Asked[e] \ Given[e]
Backed == \A e \in Episodes : Given[e] \subseteq Asked[e]
Single == \A e, d \in Episodes : \A i \in Waits(e), j \in Waits(d) : e = d /\ i = j
OrderlyInv ==
    /\ Backed /\ Single
    /\ \A e \in Episodes : calls[e] <= MaxExperiments
    /\ outcome = "COMPLETED" =>
         Still /\ container = "gone" /\ \A e \in Episodes : finals[e] # None

LEMMA OrderlyState == OrderlyInv <=> Session!Orderly
BY DEF OrderlyInv, Backed, Single, Waits, Still, Session!Orderly, Session!Quiet, Session!Waiting, Session!AllSettled,
       Asked, AskedOf, Given, GivenOf

LEMMA AdmissionIsSingle ==
    ASSUME Backed, NEW e \in Episodes, NEW i \in RequestIds, Admission(e, i)
    PROVE  Backed' /\ Single'
  <1>1. \A d \in Episodes : Given[d] \subseteq Asked[d] /\ Asked[d] \ Given[d] = {}
    BY DEF Backed, Admission, Still
  <1>2. \A d \in Episodes : Given'[d] = Given[d]
    BY DEF Admission
  <1>3. \A d \in Episodes : Asked'[d] = IF d = e THEN Asked[d] \cup {i} ELSE Asked[d]
    BY DEF Admission
  <1>4. Backed'
    BY <1>1, <1>2, <1>3 DEF Backed
  <1>5. \A d \in Episodes : \A j \in Waits(d)' : d = e /\ j = i
    BY <1>1, <1>2, <1>3 DEF Waits
  <1> QED
    BY <1>4, <1>5 DEF Single

LEMMA ReplyIsSingle ==
    ASSUME Backed, Single, NEW e \in Episodes, NEW i \in RequestIds, Reply(e, i)
    PROVE  Backed' /\ Single'
  <1>1. \A d \in Episodes : Asked'[d] = Asked[d]
    BY DEF Reply
  <1>2. i \in Asked[e] /\ \A d \in Episodes : Given'[d] = IF d = e THEN Given[d] \cup {i} ELSE Given[d]
    BY DEF Reply
  <1>3. Backed'
    BY <1>1, <1>2 DEF Backed
  <1>4. \A d \in Episodes : Waits(d)' \subseteq Waits(d)
    BY <1>1, <1>2 DEF Waits
  <1> QED
    BY <1>3, <1>4 DEF Single

LEMMA OrderlyStep == TypeOK /\ OrderlyInv /\ Session!Next => OrderlyInv'
  <1> SUFFICES ASSUME TypeOK, OrderlyInv, Session!Next PROVE OrderlyInv'
    OBVIOUS
  <1> USE DEF OrderlyInv
  <1>1. ASSUME NEW e \in Episodes, NEW i \in RequestIds, Admission(e, i)
        PROVE  OrderlyInv'
    <2>1. Backed' /\ Single'
      BY <1>1, AdmissionIsSingle
    <2>2. \A d \in Episodes : calls'[d] <= MaxExperiments
      <3>1. calls \in [Episodes -> Nat] /\ MaxExperiments \in Nat
        BY SizesAssumption DEF TypeOK
      <3> QED
        BY <1>1, <3>1 DEF Admission
    <2>3. outcome' # "COMPLETED"
      BY <1>1 DEF Admission
    <2> QED
      BY <2>1, <2>2, <2>3
  <1>2. ASSUME NEW e \in Episodes, NEW i \in RequestIds, Reply(e, i)
        PROVE  OrderlyInv'
    <2>1. Backed' /\ Single'
      BY <1>2, ReplyIsSingle
    <2>2. outcome' # "COMPLETED" /\ calls' = calls
      BY <1>2 DEF Reply
    <2> QED
      BY <2>1, <2>2
  <1>3. ASSUME NEW e \in Episodes, NEW p \in Predictions, Settlement(e, p)
        PROVE  OrderlyInv'
    BY <1>3 DEF Settlement, Backed, Single, Waits, Still
  <1>4. CASE Ending
    BY <1>4 DEF Ending, Backed, Single, Waits, Still
  <1> QED
    BY <1>1, <1>2, <1>3, <1>4, SessionSteps

LEMMA KeepsStep == TypeOK /\ Session!Next => Session!Keeps
  <1> SUFFICES ASSUME TypeOK, Session!Next PROVE Session!Keeps
    OBVIOUS
  <1> DEFINE Kept ==
        /\ \A e \in Episodes :
             /\ Asked[e] \subseteq Asked'[e] /\ Given[e] \subseteq Given'[e]
             /\ calls[e] <= calls'[e]
             /\ finals[e] # None => finals'[e] = finals[e] /\ calls'[e] = calls[e]
             /\ finals'[e] # finals[e] => Still
        /\ outcome # "none" =>
             Asked' = Asked /\ Given' = Given /\ UNCHANGED <<outcome, finals, calls>>
  <1>0. calls \in [Episodes -> Nat] /\ finals \in [Episodes -> Predictions \cup {None}]
    BY DEF TypeOK
  <1>1. ASSUME NEW e \in Episodes, NEW i \in RequestIds, Admission(e, i) PROVE Kept
    <2>1. \A d \in Episodes : Asked[d] \subseteq Asked'[d] /\ Given[d] \subseteq Given'[d]
      BY <1>1 DEF Admission
    <2>2. \A d \in Episodes :
            /\ calls[d] <= calls'[d]
            /\ finals[d] # None => finals'[d] = finals[d] /\ calls'[d] = calls[d]
      BY <1>0, <1>1 DEF Admission
    <2> QED
      BY <1>1, <2>1, <2>2 DEF Admission
  <1>2. ASSUME NEW e \in Episodes, NEW i \in RequestIds, Reply(e, i) PROVE Kept
    <2>1. \A d \in Episodes : Asked[d] \subseteq Asked'[d] /\ Given[d] \subseteq Given'[d]
      BY <1>2 DEF Reply
    <2> QED
      BY <1>0, <1>2, <2>1 DEF Reply
  <1>3. ASSUME NEW e \in Episodes, NEW p \in Predictions, Settlement(e, p) PROVE Kept
    BY <1>0, <1>3 DEF Settlement
  <1>4. ASSUME Ending PROVE Kept
    BY <1>0, <1>4 DEF Ending
  <1> HIDE DEF Kept
  <1>5. Kept
    BY <1>1, <1>2, <1>3, <1>4, SessionSteps
  <1> QED
    BY <1>5 DEF Kept, Session!Keeps, Session!Open, Session!Quiet, Session!Waiting, Still,
                Asked, AskedOf, Given, GivenOf

\* However the host, its threads and the candidate interleave, one request at
\* most is without its answer, in all episodes together, and a COMPLETED session
\* leaves none.
THEOREM SessionIsOrderly == Spec => []Session!Orderly
  <1>1. Init => OrderlyInv
    <2> SUFFICES ASSUME Init PROVE OrderlyInv
      OBVIOUS
    <2>1. \A e \in Episodes : Asked[e] = {} /\ Given[e] = {} /\ calls[e] = 0
      BY DEF Init, Asked, AskedOf, Given, GivenOf
    <2>2. outcome = "none"
      BY DEF Init
    <2> QED
      BY <2>1, <2>2, SizesAssumption DEF OrderlyInv, Backed, Single, Waits
  <1>2. SessionInv /\ SessionInv' /\ OrderlyInv /\ [Next]_vars => OrderlyInv'
    <2> SUFFICES ASSUME SessionInv, SessionInv', OrderlyInv, [Next]_vars PROVE OrderlyInv'
      OBVIOUS
    <2>1. TypeOK /\ CompletedIsSound'
      BY DEF SessionInv, VerdictInv
    <2>2. Session!Next \/ UNCHANGED Session!vars
      BY <2>1, StepMaps
    <2>3. CASE UNCHANGED Session!vars
      BY <2>3, SessionState DEF OrderlyInv, Backed, Single, Waits, Still
    <2> QED
      BY <2>1, <2>2, <2>3, OrderlyStep
  <1> QED
    BY <1>1, <1>2, SessionInvAlways, OrderlyState, PTL DEF Spec

\* No interleaving takes back a prediction, a request or an answer, settles an
\* episode while a request waits, or changes any of them after the result.
THEOREM SessionKeepsWhatItSays == Spec => Session!KeepsWhatItSays
  <1>1. SessionInv /\ SessionInv' /\ [Next]_vars => [Session!Keeps]_(Session!vars)
    <2> SUFFICES ASSUME SessionInv, SessionInv', [Next]_vars
                 PROVE  Session!Keeps \/ UNCHANGED Session!vars
      OBVIOUS
    <2>1. TypeOK /\ CompletedIsSound'
      BY DEF SessionInv, VerdictInv
    <2> QED
      BY <2>1, StepMaps, KeepsStep
  <1> QED
    BY <1>1, SessionInvAlways, PTL DEF Spec, Session!KeepsWhatItSays
=============================================================================
