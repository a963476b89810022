------------------------- MODULE CandidateProtocol -------------------------
(***************************************************************************)
(* One session of ExternalCandidateProtocol.run (src/radar_bench/v1_2.py):  *)
(* the host thread, the stdout reader and the stderr drain it starts, the   *)
(* bounded queue of frames between reader and host, the pipes of the        *)
(* `docker run` process, the candidate behind it and its container.         *)
(*                                                                         *)
(* A frame is one line of candidate output reduced to how the host treats   *)
(* it; output is counted in lines, so the byte ceilings are line ceilings.  *)
(* The candidate is arbitrary: it writes any frame at any time.             *)
(***************************************************************************)
EXTENDS Naturals, Sequences, FiniteSets

CONSTANTS
    Episodes,        \* opaque episode ids, one per packet
    RequestIds,      \* experiment request ids
    Predictions,     \* the payloads of terminal predictions
    None,            \* neither of these
    MaxExperiments,  \* budget of each ExperimentLedger
    QueueCap,        \* maxsize of the frame queue
    PipeCap,         \* lines the candidate's stdin pipe holds
    MaxStdout,       \* ceiling on stdout
    MaxStderr,       \* ceiling on stderr
    MaxTotal,        \* ceiling on both together
    CandidateFrames, \* the frames this candidate draws from
    MaxFrames,       \* bound: lines it writes to stdout
    MaxNoise         \* bound: lines it writes to stderr

ASSUME SizesAssumption ==
    /\ MaxExperiments \in Nat /\ MaxStdout \in Nat /\ MaxStderr \in Nat /\ MaxTotal \in Nat
    /\ QueueCap \in Nat \ {0} /\ PipeCap \in Nat \ {0}
    /\ MaxFrames \in Nat /\ MaxNoise \in Nat

ASSUME EpisodesAssumption == IsFiniteSet(Episodes)

ASSUME NoneAssumption == None \notin Predictions

-----------------------------------------------------------------------------
(* Frames *)

Request(e, i) == [kind |-> "request", ep |-> e, arg |-> i]
Terminal(e, p) == [kind |-> "final", ep |-> e, arg |-> p]
\* A line that is not JSON, not an object, or fails validate_protocol_message.
Malformed == [kind |-> "malformed", ep |-> None, arg |-> None]
\* A JSON object whose episode id is not hashable: the lookup raises TypeError.
Unhashable == [kind |-> "unhashable", ep |-> None, arg |-> None]
\* A line longer than max_line_bytes.
TooLong == [kind |-> "too long", ep |-> None, arg |-> None]
\* The None the reader leaves in the queue when it stops.
Sentinel == [kind |-> "eof", ep |-> None, arg |-> None]

Requests == {Request(e, i) : e \in Episodes, i \in RequestIds}
Terminals == {Terminal(e, p) : e \in Episodes, p \in Predictions}
Frames == Requests \cup Terminals \cup {Malformed, Unhashable, TooLong}

ASSUME FramesAssumption == CandidateFrames \subseteq Frames

-----------------------------------------------------------------------------
VARIABLES
    \* the candidate and the operating system
    proc,       \* the docker run process; doomed: it runs, a SIGKILL is pending
    container,  \* the container of the candidate
    stdin,      \* lines in the stdin pipe the candidate has not read
    stdout,     \* frames in the stdout pipe
    stderr,     \* lines in the stderr pipe
    tail,       \* the candidate left an unterminated line when it stopped
    sent,       \* frames written to stdout so far
    noise,      \* lines written to stderr so far
    \* the threads of the host and what they share
    reader,     \* where read_stdout stands
    split,      \* frames of the chunk it has read and not yet queued
    drain,      \* where drain_stderr stands
    outSeen,    \* output_state["stdout"]
    errSeen,    \* output_state["stderr"]
    overflow,   \* the event of that name
    partial,    \* the event partial_frame
    frames,     \* the queue
    \* the host thread
    host,       \* where run() stands
    toSend,     \* packets not yet written
    current,    \* the request being served
    ledger,     \* the attempts of each ExperimentLedger
    finals,     \* the prediction accepted for each episode, or None
    ended, expired, reaped, errors, outcome,
    \* history
    calls,      \* experiments the executor was called for
    answered,   \* request ids answered, in order
    seen        \* frames the host has taken from the queue

candVars == <<proc, container, stdin, stdout, stderr, tail, sent, noise>>
outVars == <<reader, split, drain, outSeen, errSeen, overflow, partial>>
bookVars == <<ledger, finals, calls, answered, seen>>
hostVars == <<host, toSend, current, ended, expired, reaped, errors, outcome>>
vars == <<candVars, outVars, frames, bookVars, hostVars>>

ErrorCodes == {"NOT_STARTED", "ACTUAL_CONFIG_INVALID", "IO_ERROR", "OUTPUT_LIMIT",
               "MALFORMED", "DUPLICATE_REQUEST_ID", "DUPLICATE_TERMINAL_RESULT",
               "MISSING_TERMINAL_RESULT", "PARTIAL_JSONL_FRAME", "PROTOCOL_EOF",
               "TIMEOUT", "DID_NOT_EXIT_AFTER_FINAL", "NONZERO_EXIT",
               "CONTAINER_CLEANUP_FAILED"}

Attempts == [id : RequestIds, executed : BOOLEAN, verified : BOOLEAN]

\* The values each variable takes; a request is at hand while it is served.
TypeOK ==
    /\ proc \in {"none", "running", "doomed", "exited", "failed", "killed"}
    /\ container \in {"none", "creating", "running", "gone"}
    /\ stdin \in 0..PipeCap
    /\ stdout \in Seq(Frames)
    /\ stderr \in Nat
    /\ tail \in BOOLEAN
    /\ sent \in Seq(Frames)
    /\ noise \in 0..MaxNoise
    /\ reader \in {"off", "top", "reading", "putting", "closing", "done"}
    /\ split \in Seq(Frames)
    /\ drain \in {"off", "reading", "done"}
    /\ outSeen \in Nat /\ errSeen \in Nat
    /\ overflow \in BOOLEAN /\ partial \in BOOLEAN
    /\ frames \in Seq(Frames \cup {Sentinel})
    /\ host \in {"start", "inspect", "send", "loop", "get", "execute", "answer",
                 "tally", "check", "waitExit", "reap", "waitKilled", "cleanup", "done"}
    /\ toSend \in Nat
    /\ current \in Frames \cup {Sentinel}
    /\ host \in {"execute", "answer"} => current \in Requests
    /\ ledger \in [Episodes -> Seq(Attempts)]
    /\ finals \in [Episodes -> Predictions \cup {None}]
    /\ ended \in BOOLEAN /\ expired \in BOOLEAN /\ reaped \in BOOLEAN
    /\ errors \in SUBSET ErrorCodes
    /\ outcome \in {"none", "COMPLETED", "BLOCKED", "RAISED"}
    /\ calls \in [Episodes -> Nat]
    /\ answered \in [Episodes -> Seq(RequestIds)]
    /\ seen \in Seq(Frames \cup {Sentinel})

Init ==
    /\ proc = "none" /\ container = "none"
    /\ stdin = 0 /\ stdout = <<>> /\ stderr = 0
    /\ tail = FALSE /\ sent = <<>> /\ noise = 0
    /\ reader = "off" /\ split = <<>> /\ drain = "off"
    /\ outSeen = 0 /\ errSeen = 0
    /\ overflow = FALSE /\ partial = FALSE
    /\ frames = <<>>
    /\ host = "start" /\ toSend = Cardinality(Episodes)
    /\ current = Sentinel
    /\ ledger = [e \in Episodes |-> <<>>]
    /\ finals = [e \in Episodes |-> None]
    /\ ended = FALSE /\ expired = FALSE /\ reaped = FALSE
    /\ errors = {} /\ outcome = "none"
    /\ calls = [e \in Episodes |-> 0]
    /\ answered = [e \in Episodes |-> <<>>]
    /\ seen = <<>>

Alive == proc \in {"running", "doomed"}
Complete == \A e \in Episodes : finals[e] # None

-----------------------------------------------------------------------------
(* The candidate, the Docker daemon and the clock. *)

ContainerStarts ==
    /\ container = "creating"
    /\ proc \in {"running", "doomed", "killed"}
    /\ container' = "running"
    /\ UNCHANGED <<proc, stdin, stdout, stderr, tail, sent, noise,
                   outVars, frames, bookVars, hostVars>>

CandidateWrites(f) ==
    /\ Alive /\ container = "running"
    /\ Len(sent) < MaxFrames
    /\ stdout' = Append(stdout, f)
    /\ sent' = Append(sent, f)
    /\ UNCHANGED <<proc, container, stdin, stderr, tail, noise,
                   outVars, frames, bookVars, hostVars>>

CandidateComplains ==
    /\ Alive /\ container = "running"
    /\ noise < MaxNoise
    /\ stderr' = stderr + 1
    /\ noise' = noise + 1
    /\ UNCHANGED <<proc, container, stdin, stdout, tail, sent,
                   outVars, frames, bookVars, hostVars>>

CandidateReads ==
    /\ Alive /\ container = "running"
    /\ stdin > 0
    /\ stdin' = stdin - 1
    /\ UNCHANGED <<proc, container, stdout, stderr, tail, sent, noise,
                   outVars, frames, bookVars, hostVars>>

\* The candidate exits; --rm removes its container before docker run returns.
CandidateExits ==
    /\ Alive /\ container = "running"
    /\ proc' \in {"exited", "failed"}
    /\ container' = "gone"
    /\ tail' \in BOOLEAN
    /\ UNCHANGED <<stdin, stdout, stderr, sent, noise,
                   outVars, frames, bookVars, hostVars>>

\* The docker client dies on its own and leaves the container as it is.
ClientCrashes ==
    /\ Alive
    /\ proc' = "failed"
    /\ tail' \in BOOLEAN
    /\ UNCHANGED <<container, stdin, stdout, stderr, sent, noise,
                   outVars, frames, bookVars, hostVars>>

\* SIGKILL takes effect, now or when an uninterruptible call is over. Nobody asks
\* any more whether that cuts a line short.
Dies ==
    /\ proc = "doomed"
    /\ proc' = "killed"
    /\ UNCHANGED <<container, stdin, stdout, stderr, tail, sent, noise,
                   outVars, frames, bookVars, hostVars>>

DeadlinePasses ==
    /\ ~expired
    /\ host \in {"loop", "get", "execute", "answer", "tally", "check", "waitExit"}
    /\ expired' = TRUE
    /\ UNCHANGED <<candVars, outVars, frames, bookVars, host, toSend, current,
                   ended, reaped, errors, outcome>>

-----------------------------------------------------------------------------
(* read_stdout and drain_stderr *)

ReaderTop ==
    /\ reader = "top"
    /\ reader' = IF overflow THEN "closing" ELSE "reading"
    /\ UNCHANGED <<candVars, split, drain, outSeen, errSeen, overflow, partial,
                   frames, bookVars, hostVars>>

\* The limit test of read_stdout, made with the lock held.
StdoutOver(out, err) == out > MaxStdout \/ out + err > MaxTotal

\* One os.read: any number of the lines in the pipe, counted before use.
ReaderReads(n) ==
    /\ reader = "reading"
    /\ n \in 1..Len(stdout)
    /\ stdout' = SubSeq(stdout, n + 1, Len(stdout))
    /\ outSeen' = outSeen + n
    /\ IF StdoutOver(outSeen', errSeen)
       THEN /\ overflow' = TRUE
            /\ reader' = "closing"
            /\ UNCHANGED split
       ELSE /\ split' = SubSeq(stdout, 1, n)
            /\ reader' = "putting"
            /\ UNCHANGED overflow
    /\ UNCHANGED <<proc, container, stdin, stderr, tail, sent, noise,
                   drain, errSeen, partial, frames, bookVars, hostVars>>

ReaderSeesEOF ==
    /\ reader = "reading"
    /\ stdout = <<>> /\ ~Alive
    /\ partial' = (tail /\ ~overflow)
    /\ reader' = "closing"
    /\ UNCHANGED <<candVars, split, drain, outSeen, errSeen, overflow,
                   frames, bookVars, hostVars>>

\* queue.Full: the reader flags the overflow and reads no further.
FullDropsFrame == split' = Tail(split) /\ UNCHANGED <<reader, overflow, frames>>
FindsQueueFull == reader' = "closing" /\ overflow' = TRUE /\ UNCHANGED <<split, frames>>

\* frames.put(frame, timeout=0.1), with queue.Full when no slot comes free.
ReaderPuts ==
    /\ reader = "putting"
    /\ \/ /\ split = <<>>
          /\ reader' = "top"
          /\ UNCHANGED <<split, overflow, frames>>
       \/ /\ split # <<>> /\ Head(split) = TooLong
          /\ overflow' = TRUE /\ reader' = "closing"
          /\ UNCHANGED <<split, frames>>
       \/ /\ split # <<>> /\ Head(split) # TooLong
          /\ Len(frames) < QueueCap
          /\ frames' = Append(frames, Head(split))
          /\ split' = Tail(split)
          /\ UNCHANGED <<reader, overflow>>
       \/ /\ split # <<>> /\ Head(split) # TooLong
          /\ Len(frames) = QueueCap
          /\ FindsQueueFull
    /\ UNCHANGED <<candVars, drain, outSeen, errSeen, partial, bookVars, hostVars>>

\* The finally block: leave the sentinel, or flag a queue that stays full.
ReaderCloses ==
    /\ reader = "closing"
    /\ reader' = "done"
    /\ IF Len(frames) < QueueCap
       THEN frames' = Append(frames, Sentinel) /\ UNCHANGED overflow
       ELSE overflow' = TRUE /\ UNCHANGED frames
    /\ UNCHANGED <<candVars, split, drain, outSeen, errSeen, partial,
                   bookVars, hostVars>>

DrainReads(n) ==
    /\ drain = "reading"
    /\ n \in 1..stderr
    /\ stderr' = stderr - n
    /\ errSeen' = errSeen + n
    /\ IF errSeen' > MaxStderr \/ outSeen + errSeen' > MaxTotal
       THEN overflow' = TRUE /\ drain' = "done"
       ELSE UNCHANGED <<overflow, drain>>
    /\ UNCHANGED <<proc, container, stdin, stdout, tail, sent, noise,
                   reader, split, outSeen, partial, frames, bookVars, hostVars>>

DrainSeesEOF ==
    /\ drain = "reading"
    /\ stderr = 0 /\ ~Alive
    /\ drain' = "done"
    /\ UNCHANGED <<candVars, reader, split, outSeen, errSeen, overflow, partial,
                   frames, bookVars, hostVars>>
-----------------------------------------------------------------------------
(* The host thread: run() *)

\* The workspace, isolation and case-set checks, or Popen, turn the session down.
Declines ==
    /\ host = "start"
    /\ host' = "done"
    /\ errors' = {"NOT_STARTED"}
    /\ outcome' = "BLOCKED"
    /\ UNCHANGED <<candVars, outVars, frames, bookVars, toSend, current, ended,
                   expired, reaped>>

Launches ==
    /\ host = "start"
    /\ host' = "inspect"
    /\ proc' = "running" /\ container' = "creating"
    /\ reader' = "top" /\ drain' = "reading"
    /\ UNCHANGED <<stdin, stdout, stderr, tail, sent, noise, split, outSeen,
                   errSeen, overflow, partial, frames, bookVars, toSend, current,
                   ended, expired, reaped, errors, outcome>>

\* _actual_container_config: only an existing container can pass, any can fail.
Inspects ==
    /\ host = "inspect"
    /\ \/ /\ container = "running"
          /\ host' = "send"
          /\ UNCHANGED errors
       \/ /\ host' = "reap"
          /\ errors' = errors \cup {"ACTUAL_CONFIG_INVALID"}
    /\ UNCHANGED <<candVars, outVars, frames, bookVars, toSend, current, ended,
                   expired, reaped, outcome>>


\* process.stdin.write: EPIPE once the process is gone, blocked while it is full.
WriteFails ==
    /\ ~Alive
    /\ host' = "reap"
    /\ errors' = errors \cup {"IO_ERROR"}
    /\ UNCHANGED <<stdin, toSend, answered>>

SendsPacket ==
    /\ host = "send" /\ toSend > 0
    /\ \/ WriteFails
       \/ /\ Alive /\ stdin < PipeCap
          /\ stdin' = stdin + 1
          /\ toSend' = toSend - 1
          /\ UNCHANGED <<host, errors, answered>>
    /\ UNCHANGED <<proc, container, stdout, stderr, tail, sent, noise, outVars,
                   frames, ledger, finals, calls, seen, current, ended, expired, reaped,
                   outcome>>

\* All packets are out: the deadline of the session starts to run.
ArmsDeadline ==
    /\ host = "send" /\ toSend = 0
    /\ host' = "loop"
    /\ UNCHANGED <<candVars, outVars, frames, bookVars, toSend, current, ended,
                   expired, reaped, errors, outcome>>

\* The condition of the while loop; overflow is looked at behind it.
LoopsUntilComplete == ~Complete
MayLoop == ~expired /\ ~Complete

ChecksLoop ==
    /\ host = "loop"
    /\ host' = IF MayLoop /\ ~overflow THEN "get" ELSE "tally"
    /\ errors' = errors \cup {c \in {"OUTPUT_LIMIT"} : MayLoop /\ overflow}
    /\ UNCHANGED <<candVars, outVars, frames, bookVars, toSend, current, ended,
                   expired, reaped, outcome>>

\* frames.get raises queue.Empty; the process is polled.
GetsNothing ==
    /\ host = "get" /\ frames = <<>>
    /\ host' = IF Alive THEN "loop" ELSE "tally"
    /\ reaped' = ~Alive
    /\ ended' = ~Alive
    /\ UNCHANGED <<candVars, outVars, frames, bookVars, toSend, current, expired,
                   errors, outcome>>

Takes ==
    /\ host = "get" /\ frames # <<>>
    /\ frames' = Tail(frames)
    /\ seen' = Append(seen, Head(frames))
    /\ UNCHANGED <<candVars, outVars, answered, toSend, expired, reaped>>

GetsSentinel ==
    /\ Takes /\ Head(frames) = Sentinel
    /\ ended' = TRUE /\ host' = "tally"
    /\ UNCHANGED <<ledger, finals, calls, current, errors, outcome>>

\* Each of these adds its code and goes on with the next frame.
Rejects(code) ==
    /\ host' = "loop"
    /\ errors' = errors \cup {code}
    /\ UNCHANGED <<ledger, finals, calls, current, ended, outcome>>

GetsMalformed ==
    /\ Takes /\ Head(frames) = Malformed
    /\ Rejects("MALFORMED")

\* TypeError is not among the exceptions run() handles: only finally is left.
GetsUnhashable ==
    /\ Takes /\ Head(frames) = Unhashable
    /\ host' = "reap"
    /\ outcome' = "RAISED"
    /\ UNCHANGED <<ledger, finals, calls, current, ended, errors>>

NeverSettled(e) == FALSE
Settled(e) == finals[e] # None

WholeMessage(f) == f
Prediction(f) == f.arg

GetsTerminal ==
    /\ Takes /\ Head(frames) \in Terminals
    /\ LET e == Head(frames).ep IN
       \/ Settled(e) /\ Rejects("DUPLICATE_TERMINAL_RESULT")
       \/ /\ ~Settled(e)
          /\ finals' = [finals EXCEPT ![e] = Prediction(Head(frames))]
          /\ host' = "loop"
          /\ UNCHANGED <<ledger, calls, current, ended, errors, outcome>>

NothingKnown(e, i) == FALSE
Known(e, i) == \E k \in DOMAIN ledger[e] : ledger[e][k].id = i

\* ExperimentLedger.reject and the record ExperimentLedger.run leaves.
Refused(i) == [id |-> i, executed |-> FALSE, verified |-> FALSE]
Executed(i, ok) == [id |-> i, executed |-> TRUE, verified |-> ok]

\* A request for a settled episode or beyond the budget is recorded, not run.
OffByOneBudget(e) == finals[e] = None /\ Len(ledger[e]) <= MaxExperiments
RunnableWhenSettled(e) == Len(ledger[e]) < MaxExperiments
Runnable(e) == finals[e] = None /\ Len(ledger[e]) < MaxExperiments

GetsRequest ==
    /\ Takes /\ Head(frames) \in Requests
    /\ LET e == Head(frames).ep
           i == Head(frames).arg IN
       \/ Known(e, i) /\ Rejects("DUPLICATE_REQUEST_ID")
       \/ /\ ~Known(e, i) /\ ~Runnable(e)
          /\ ledger' = [ledger EXCEPT ![e] = Append(@, Refused(i))]
          /\ current' = Head(frames)
          /\ host' = "answer"
          /\ UNCHANGED <<calls, finals, ended, errors, outcome>>
       \/ /\ ~Known(e, i) /\ Runnable(e)
          /\ calls' = [calls EXCEPT ![e] = @ + 1]
          /\ current' = Head(frames)
          /\ host' = "execute"
          /\ UNCHANGED <<ledger, finals, ended, errors, outcome>>

\* The executor returns or raises; either is an attempt, with or without a
\* receipt that proves its cleanup.
ExecutorReturns ==
    /\ host = "execute"
    /\ \E ok \in BOOLEAN :
         ledger' = [ledger EXCEPT ![current.ep] = Append(@, Executed(current.arg, ok))]
    /\ host' = "answer"
    /\ UNCHANGED <<candVars, outVars, frames, finals, calls, answered, seen, toSend,
                   current, ended, expired, reaped, errors, outcome>>

\* A receipt that claims a cached or reused result raises before it is recorded.
ExecutorReuses ==
    /\ host = "execute"
    /\ host' = "reap"
    /\ outcome' = "RAISED"
    /\ UNCHANGED <<candVars, outVars, frames, bookVars, toSend, current, ended,
                   expired, reaped, errors>>

Answers ==
    /\ host = "answer"
    /\ \/ WriteFails
       \/ /\ Alive /\ stdin < PipeCap
          /\ stdin' = stdin + 1
          /\ answered' = [answered EXCEPT ![current.ep] = Append(@, current.arg)]
          /\ host' = "loop"
          /\ UNCHANGED <<toSend, errors>>
    /\ UNCHANGED <<proc, container, stdout, stderr, tail, sent, noise, outVars,
                   frames, ledger, finals, calls, seen, current, ended, expired, reaped,
                   outcome>>

Tallies ==
    /\ host = "tally"
    /\ host' = "check"
    /\ errors' = errors \cup {c \in {"MISSING_TERMINAL_RESULT"} : ~Complete}
                        \cup {c \in {"PARTIAL_JSONL_FRAME"} : partial}
    /\ UNCHANGED <<candVars, outVars, frames, bookVars, toSend, current, ended,
                   expired, reaped, outcome>>

\* process.returncode holds what the last poll or wait has seen.
NonzeroExit(polled) == {c \in {"NONZERO_EXIT"} : polled /\ proc # "exited"}

NoExitAwaited == FALSE
ExitAwaited == Complete /\ Alive

ChecksExit ==
    /\ host = "check"
    /\ reaped' = (reaped \/ ((ended \/ Complete) /\ ~Alive))
    /\ host' = IF ExitAwaited THEN "waitExit" ELSE "reap"
    /\ errors' = errors \cup {c \in {"PROTOCOL_EOF"} : ended /\ Alive}
                        \cup {c \in {"TIMEOUT"} : expired /\ ~Complete}
                        \cup NonzeroExit(reaped')
    /\ UNCHANGED <<candVars, outVars, frames, bookVars, toSend, current, ended,
                   expired, outcome>>

\* stdin is closed and the process has two seconds to exit.
WaitsForExit ==
    /\ host = "waitExit"
    /\ host' = "reap"
    /\ \/ ~Alive /\ reaped' = TRUE /\ errors' = errors \cup NonzeroExit(TRUE)
       \/ Alive /\ UNCHANGED reaped /\ errors' = errors \cup {"DID_NOT_EXIT_AFTER_FINAL"}
    /\ UNCHANGED <<candVars, outVars, frames, bookVars, toSend, current, ended,
                   expired, outcome>>

LeavesProcess == proc
Kills == IF Alive THEN "doomed" ELSE proc

\* The finally block: poll, and kill what is left of the process.
Reaps ==
    /\ host = "reap"
    /\ host' = "waitKilled"
    /\ proc' = Kills
    /\ reaped' = (reaped \/ ~Alive)
    /\ UNCHANGED <<container, stdin, stdout, stderr, tail, sent, noise, outVars,
                   frames, bookVars, toSend, current, ended, expired, errors, outcome>>

\* It has two seconds to die. If it does not it is killed once more and left to
\* itself: no error is noted, and process.returncode stays None.
WaitsForKilled ==
    /\ host = "waitKilled"
    /\ host' = "cleanup"
    /\ \/ ~Alive /\ reaped' = TRUE /\ UNCHANGED proc
       \/ Alive /\ proc' = Kills /\ UNCHANGED reaped
    /\ UNCHANGED <<container, stdin, stdout, stderr, tail, sent, noise, outVars,
                   frames, bookVars, toSend, current, ended, expired, errors, outcome>>

CleanupFailureIgnored ==
    /\ UNCHANGED <<container, errors>>
CleanupFails ==
    /\ container' \in {container} \cup {c \in {"gone"} : container = "running"}
    /\ errors' = errors \cup {"CONTAINER_CLEANUP_FAILED"}

\* _cleanup_container, then the result. An absent container needs no removal;
\* docker may fail at any step, before or after it has removed the container.
CleansUp ==
    /\ host = "cleanup"
    /\ host' = "done"
    /\ \/ /\ container' = IF container = "running" THEN "gone" ELSE container
          /\ UNCHANGED errors
       \/ CleanupFails
    /\ outcome' = IF outcome = "RAISED" THEN "RAISED"
                  ELSE IF errors' = {} /\ Complete THEN "COMPLETED" ELSE "BLOCKED"
    /\ UNCHANGED <<proc, stdin, stdout, stderr, tail, sent, noise, outVars,
                   frames, bookVars, toSend, current, ended, expired, reaped>>

-----------------------------------------------------------------------------
Candidate ==
    \/ ContainerStarts
    \/ \E f \in CandidateFrames : CandidateWrites(f)
    \/ CandidateComplains \/ CandidateReads
    \/ CandidateExits \/ ClientCrashes \/ Dies

ReaderStep ==
    \/ ReaderTop \/ ReaderSeesEOF \/ ReaderPuts \/ ReaderCloses
    \/ \E n \in 1..Len(stdout) : ReaderReads(n)

DrainStep == DrainSeesEOF \/ \E n \in 1..stderr : DrainReads(n)

HostStep ==
    \/ Declines \/ Launches \/ Inspects \/ SendsPacket \/ ArmsDeadline
    \/ ChecksLoop \/ GetsNothing \/ GetsSentinel \/ GetsMalformed \/ GetsUnhashable
    \/ GetsTerminal \/ GetsRequest \/ ExecutorReturns \/ ExecutorReuses \/ Answers
    \/ Tallies \/ ChecksExit \/ WaitsForExit \/ Reaps \/ WaitsForKilled
    \/ CleansUp

\* Nothing is left to do: the host is done and so are its threads.
Rests ==
    /\ host = "done" /\ reader \in {"off", "done"} /\ drain \in {"off", "done"}
    /\ UNCHANGED vars

Next == Candidate \/ DeadlinePasses \/ ReaderStep \/ DrainStep \/ HostStep \/ Rests

Spec == Init /\ [][Next]_vars

\* The operating system runs every thread that can go on, time passes, a SIGKILL
\* takes effect in the end, and experiments return: their docker calls carry
\* timeouts of their own.
HostFairness ==
    /\ WF_vars(HostStep) /\ WF_vars(ReaderStep) /\ WF_vars(DrainStep)
    /\ WF_vars(DeadlinePasses) /\ WF_vars(Dies)

FairSpec == Spec /\ HostFairness

\* A candidate that keeps reading its standard input.
ReadingSpec == FairSpec /\ WF_vars(CandidateReads) /\ WF_vars(ContainerStarts)
-----------------------------------------------------------------------------
(* What the session guarantees *)

\* What left the reader, in the order the host sees it.
Got == seen \o frames

\* How many lines that is; the sentinel is none.
Lines == IF Got # <<>> /\ Got[Len(Got)] = Sentinel THEN Len(Got) - 1 ELSE Len(Got)

\* The host sees the candidate's lines in the order they were written, without
\* a gap, and the sentinel only behind all of them: a dropped line ends the
\* stream, it never lets a later one through. As long as no overflow is flagged,
\* no line is lost: each is with the host or in the queue, or else in the pipe
\* or the buffer of a reader that is still at work.
InOrder ==
    /\ Lines <= Len(sent)
    /\ \A k \in 1..Lines : Got[k] = sent[k]
    /\ ~overflow =>
         Len(sent) = Lines + IF reader \in {"closing", "done"} THEN 0
                             ELSE Len(split) + Len(stdout)

\* The prediction of an episode is the first one the candidate sent for it,
\* whatever it sends later.
FinalsFollowStream ==
    \A e \in Episodes :
        LET mine == {k \in DOMAIN seen : seen[k] \in Terminals /\ seen[k].ep = e} IN
        IF mine = {} THEN finals[e] = None
        ELSE \E k \in mine : (\A l \in mine : k <= l) /\ finals[e] = seen[k].arg

\* No request is accounted twice, and the ledger holds an executed attempt for
\* every call of the executor but the one that is running or has raised. Results
\* go back in the order of the ledger, one per attempt; the last attempt may miss
\* its result only while it is written or once the pipe broke.
LedgerIsExact ==
    \A e \in Episodes :
        /\ \A k, l \in DOMAIN ledger[e] : ledger[e][k].id = ledger[e][l].id => k = l
        /\ LET run == {k \in DOMAIN ledger[e] : ledger[e][k].executed} IN
           calls[e] = Cardinality(run) \/
             /\ calls[e] = Cardinality(run) + 1
             /\ current.ep = e
             /\ host = "execute" \/ outcome = "RAISED"
        /\ Len(answered[e]) <= Len(ledger[e])
        /\ \A k \in DOMAIN answered[e] : answered[e][k] = ledger[e][k].id
        /\ Len(answered[e]) < Len(ledger[e]) =>
             /\ Len(ledger[e]) = Len(answered[e]) + 1 /\ current.ep = e
             /\ host = "answer" \/ "IO_ERROR" \in errors

\* The executor is called at most max_experiments times for an episode.
BudgetHolds == \A e \in Episodes : calls[e] <= MaxExperiments

\* A COMPLETED session ended well on every side: the process was seen to end with
\* code 0 and its container is gone, all attempts were answered, and the host
\* took nothing but requests and one terminal per episode.
CompletedIsSound ==
    outcome = "COMPLETED" =>
        /\ proc = "exited" /\ reaped /\ container = "gone"
        /\ Complete
        /\ \A e \in Episodes : Len(answered[e]) = Len(ledger[e])
        /\ \A k \in DOMAIN seen : seen[k] \in Requests \cup Terminals
        /\ \A k, l \in DOMAIN seen :
             seen[k] \in Terminals /\ seen[l] \in Terminals /\ seen[k].ep = seen[l].ep => k = l

\* What run() leaves behind shows. A docker client that outlives it has a SIGKILL
\* pending, and the result has no exit code and is not COMPLETED; a container it
\* has inspected is gone, or the result says that its cleanup failed.
NoSilentLeak ==
    host = "done" =>
        /\ Alive => proc = "doomed" /\ ~reaped /\ outcome # "COMPLETED"
        /\ (outcome # "RAISED" /\ container = "running" /\ "ACTUAL_CONFIG_INVALID" \notin errors)
             => "CONTAINER_CLEANUP_FAILED" \in errors

Session == INSTANCE CandidateSession WITH
    settled <- finals,
    spent <- calls,
    asked <- [e \in Episodes |->
        {seen[k].arg : k \in {j \in DOMAIN seen : seen[j] \in Requests /\ seen[j].ep = e}}],
    answered <- [e \in Episodes |-> {answered[e][k] : k \in DOMAIN answered[e]}],
    clean <- container = "gone"

\* The host, its threads and the candidate together keep the session's promise.
ImplementsSession == Session!Spec

\* run() comes to an end.
Terminates == <>(host = "done")

\* The daemon threads do not outlive the session for long.
ThreadsStop == host = "done" ~> reader \in {"off", "done"} /\ drain \in {"off", "done"}
=============================================================================
