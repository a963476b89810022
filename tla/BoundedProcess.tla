--------------------------- MODULE BoundedProcess ---------------------------
(***************************************************************************)
(* One call of run_bounded (src/radar_bench/execution/process.py): the      *)
(* caller's thread with its poll loop, the two threads that read the pipes, *)
(* the thread that feeds standard input, the process it starts (the leader  *)
(* of a new group) and one descendant of it, which inherits the pipes and   *)
(* may leave the group or let go of the pipes.                              *)
(*                                                                         *)
(* Output is counted in units; Chunk of them are one CHUNK_BYTES. The read  *)
(* of a thread returns a whole chunk or what there is at the end of the     *)
(* stream: Popen hands out buffered readers. The ten seconds of a join are  *)
(* enough for a thread whose pipe nobody holds any more.                    *)
(***************************************************************************)
EXTENDS Naturals, FiniteSets

CONSTANTS
    Chunk,       \* CHUNK_BYTES
    MaxOutput,   \* max_output_bytes
    HasInput,    \* is there input_data to write?
    MaxWritten   \* bound: units written to each stream

ASSUME LimitsAssumption ==
    Chunk \in Nat \ {0} /\ MaxOutput \in Nat \ {0} /\ MaxWritten \in Nat
ASSUME InputAssumption == HasInput \in BOOLEAN

Streams == {"stdout", "stderr"}
Leader == "leader"
Kid == "descendant"
Procs == {Leader, Kid}
None == "none"

VARIABLES
    \* the processes and their pipes
    alive,      \* processes that run
    group,      \* members of the leader's process group
    holders,    \* processes that hold the write ends of the pipes
    doomed,     \* processes a SIGKILL has been sent to
    exit,       \* how the leader ended
    written,    \* units written to each stream
    pipe,       \* units of them no thread has read
    \* the threads
    feeder,     \* where write_input stands
    at,         \* where each read_stream stands
    chunk,      \* the units it has read last
    hashed,     \* units in stream_hashers
    streamBytes,
    kept,       \* streams: units of each stream that are kept
    observed, overflow,
    \* the caller
    host,       \* where run_bounded stands
    expired,    \* the deadline has passed
    timedOut, cleanupError,
    capture,    \* the BoundedCapture, field by field
    late        \* history: threads whose join has timed out

procVars == <<alive, group, holders, doomed, exit>>
dataVars == <<written, pipe>>
readVars == <<at, chunk, hashed, streamBytes, kept, observed, overflow>>
hostVars == <<host, expired, timedOut, cleanupError, capture, late>>
vars == <<procVars, dataVars, feeder, readVars, hostVars>>

Total(f) == f["stdout"] + f["stderr"]
Least(m, n) == IF m <= n THEN m ELSE n
NoUnits == [s \in Streams |-> 0]

Hosts == {"start", "poll", "check", "wait", "waitAgain", "joinOut", "joinErr", "copy",
          "bytesOut", "digestOut", "bytesErr", "digestErr", "observe", "flag", "done", "raised"}
Places == {"off", "reading", "hashing", "counting", "adding", "keeping", "flagging", "done"}

TypeOK ==
    /\ alive \subseteq Procs /\ group \subseteq Procs
    /\ holders \subseteq alive /\ doomed \subseteq group
    /\ exit \in {None, "exited", "killed"}
    /\ written \in [Streams -> 0..MaxWritten] /\ pipe \in [Streams -> 0..MaxWritten]
    /\ feeder \in {"off", "writing", "done"}
    /\ at \in [Streams -> Places]
    /\ chunk \in [Streams -> Nat] /\ hashed \in [Streams -> Nat]
    /\ streamBytes \in [Streams -> Nat] /\ kept \in [Streams -> Nat]
    /\ observed \in Nat /\ overflow \in BOOLEAN
    /\ host \in Hosts /\ expired \in BOOLEAN /\ timedOut \in BOOLEAN
    /\ cleanupError \in {None, "TERMINATION_FAILED", "PROCESS_CLEANUP_TIMEOUT"}
    /\ capture \in [payload : [Streams -> Nat], bytes : [Streams -> Nat],
                    digest : [Streams -> Nat], observed : Nat, overflow : BOOLEAN,
                    returncode : {None, "exited", "killed"}]
    /\ late \subseteq Streams

NoCapture == [payload |-> NoUnits, bytes |-> NoUnits, digest |-> NoUnits, observed |-> 0,
              overflow |-> FALSE, returncode |-> None]

Init ==
    /\ alive = {} /\ group = {} /\ holders = {} /\ doomed = {} /\ exit = None
    /\ written = NoUnits /\ pipe = NoUnits
    /\ feeder = "off"
    /\ at = [s \in Streams |-> "off"] /\ chunk = NoUnits /\ hashed = NoUnits
    /\ streamBytes = NoUnits /\ kept = NoUnits /\ observed = 0 /\ overflow = FALSE
    /\ host = "start" /\ expired = FALSE /\ timedOut = FALSE /\ cleanupError = None
    /\ capture = NoCapture /\ late = {}

-----------------------------------------------------------------------------
(* The processes. Nothing is assumed of them but what the system enforces. *)

Writes(p, s) ==
    /\ p \in holders
    /\ written[s] < MaxWritten
    /\ written' = [written EXCEPT ![s] = @ + 1]
    /\ pipe' = [pipe EXCEPT ![s] = @ + 1]
    /\ UNCHANGED <<procVars, feeder, readVars, hostVars>>

\* A process ends; the descriptors it holds are closed with it.
Ends(p, how) ==
    /\ alive' = alive \ {p} /\ holders' = holders \ {p}
    /\ exit' = IF p = Leader THEN how ELSE exit
    /\ UNCHANGED <<group, doomed, dataVars, feeder, readVars, hostVars>>

Exits(p) == p \in alive /\ Ends(p, "exited")
\* SIGKILL takes effect, now or when an uninterruptible call is over.
Dies(p) == p \in alive \cap doomed /\ Ends(p, "killed")

\* Kids born after killpg are not signalled; one descendant is enough.
Spawns ==
    /\ Leader \in alive \ doomed /\ Kid \notin alive \cup group
    /\ alive' = alive \cup {Kid} /\ group' = group \cup {Kid} /\ holders' = holders \cup {Kid}
    /\ UNCHANGED <<doomed, exit, dataVars, feeder, readVars, hostVars>>

\* The descendant calls setsid, or redirects its output.
LeavesGroup ==
    /\ Kid \in (alive \cap group) \ doomed
    /\ group' = group \ {Kid}
    /\ UNCHANGED <<alive, holders, doomed, exit, dataVars, feeder, readVars, hostVars>>

LetsGo ==
    /\ Kid \in holders
    /\ holders' = holders \ {Kid}
    /\ UNCHANGED <<alive, group, doomed, exit, dataVars, feeder, readVars, hostVars>>

Expires ==
    /\ host \in {"poll", "check"} /\ ~expired
    /\ expired' = TRUE
    /\ UNCHANGED <<procVars, dataVars, feeder, readVars, host, timedOut, cleanupError, capture,
                   late>>
-----------------------------------------------------------------------------
(* read_stream and write_input *)

\* How much read(CHUNK_BYTES) waits for.
Readable(s) == pipe[s] >= Chunk \/ (pipe[s] > 0 /\ holders = {})

Reads(s) ==
    /\ at[s] = "reading" /\ Readable(s)
    /\ chunk' = [chunk EXCEPT ![s] = Least(pipe[s], Chunk)]
    /\ pipe' = [pipe EXCEPT ![s] = @ - Least(@, Chunk)]
    /\ at' = [at EXCEPT ![s] = "hashing"]
    /\ UNCHANGED <<procVars, written, feeder, hashed, streamBytes, kept, observed, overflow,
                   hostVars>>

SeesEnd(s) ==
    /\ at[s] = "reading" /\ pipe[s] = 0 /\ holders = {}
    /\ at' = [at EXCEPT ![s] = "done"]
    /\ UNCHANGED <<procVars, dataVars, feeder, chunk, hashed, streamBytes, kept, observed,
                   overflow, hostVars>>

Hashes(s) ==
    /\ at[s] = "hashing"
    /\ hashed' = [hashed EXCEPT ![s] = @ + chunk[s]]
    /\ at' = [at EXCEPT ![s] = "counting"]
    /\ UNCHANGED <<procVars, dataVars, feeder, chunk, streamBytes, kept, observed, overflow,
                   hostVars>>

Counts(s) ==
    /\ at[s] = "counting"
    /\ streamBytes' = [streamBytes EXCEPT ![s] = @ + chunk[s]]
    /\ at' = [at EXCEPT ![s] = "adding"]
    /\ UNCHANGED <<procVars, dataVars, feeder, chunk, hashed, kept, observed, overflow,
                   hostVars>>

\* What may still be kept of a stream, both streams taken together.
RemainingOfOne(s) == IF kept[s] < MaxOutput THEN MaxOutput - kept[s] ELSE 0
Remaining(s) == IF Total(kept) < MaxOutput THEN MaxOutput - Total(kept) ELSE 0

ReachesLimit(n) == n >= MaxOutput
PassesLimit(n) == n > MaxOutput

\* The block under the lock, a step for each thing the caller can see of it: it
\* reads observed, the payload and the flag without taking the lock.
LockFree == \A s \in Streams : at[s] \notin {"keeping", "flagging"}

Observes(s) ==
    /\ at[s] = "adding" /\ LockFree
    /\ observed' = observed + chunk[s]
    /\ at' = [at EXCEPT ![s] = "keeping"]
    /\ UNCHANGED <<procVars, dataVars, feeder, chunk, hashed, streamBytes, kept, overflow,
                   hostVars>>

Keeps(s) ==
    /\ at[s] = "keeping"
    /\ kept' = [kept EXCEPT ![s] = @ + Least(chunk[s], Remaining(s))]
    /\ at' = [at EXCEPT ![s] = "flagging"]
    /\ UNCHANGED <<procVars, dataVars, feeder, chunk, hashed, streamBytes, observed, overflow,
                   hostVars>>

Flags(s) ==
    /\ at[s] = "flagging"
    /\ overflow' = (overflow \/ PassesLimit(observed))
    /\ at' = [at EXCEPT ![s] = "reading"]
    /\ UNCHANGED <<procVars, dataVars, feeder, chunk, hashed, streamBytes, kept, observed,
                   hostVars>>

\* The input is taken in full, or the pipe breaks; nobody waits for either.
Feeds ==
    /\ feeder = "writing" /\ feeder' = "done"
    /\ UNCHANGED <<procVars, dataVars, readVars, hostVars>>
-----------------------------------------------------------------------------
(* run_bounded *)

FailsToStart ==
    /\ host = "start" /\ host' = "raised"
    /\ UNCHANGED <<procVars, dataVars, feeder, readVars, expired, timedOut, cleanupError,
                   capture, late>>

Starts ==
    /\ host = "start" /\ host' = "poll"
    /\ alive' = {Leader} /\ group' = {Leader} /\ holders' = {Leader}
    /\ at' = [s \in Streams |-> "reading"]
    /\ feeder' = IF HasInput THEN "writing" ELSE "off"
    /\ UNCHANGED <<doomed, exit, dataVars, chunk, hashed, streamBytes, kept, observed,
                   overflow, expired, timedOut, cleanupError, capture, late>>

Polls ==
    /\ host = "poll"
    /\ host' = IF Leader \in alive THEN "check" ELSE "wait"
    /\ UNCHANGED <<procVars, dataVars, feeder, readVars, expired, timedOut, cleanupError,
                   capture, late>>

\* _terminate_tree: SIGKILL to the group, or an error and no signal.
LeaderOnly == {Leader}
Group == group
Terminates ==
    \/ doomed' = doomed \cup Group /\ UNCHANGED cleanupError
    \/ cleanupError' = "TERMINATION_FAILED" /\ UNCHANGED doomed

ChecksLimits ==
    /\ host = "check"
    /\ \/ /\ overflow \/ expired
          /\ Terminates
          /\ timedOut' = ~overflow
          /\ host' = "wait"
       \/ /\ ~overflow /\ ~expired
          /\ host' = "poll"
          /\ UNCHANGED <<doomed, timedOut, cleanupError>>
    /\ UNCHANGED <<alive, group, holders, exit, dataVars, feeder, readVars, expired, capture,
                   late>>

\* process.returncode is what a wait has seen, not what becomes of it later.
Waits ==
    /\ host \in {"wait", "waitAgain"} /\ Leader \notin alive
    /\ host' = "joinOut"
    /\ capture' = [capture EXCEPT !.returncode = exit]
    /\ UNCHANGED <<procVars, dataVars, feeder, readVars, expired, timedOut, cleanupError,
                   late>>

\* TimeoutExpired: a second attempt, but only if the first one raised no error.
WaitTimesOut ==
    /\ host = "wait" /\ Leader \in alive
    /\ host' = "waitAgain"
    /\ IF cleanupError = None THEN Terminates ELSE UNCHANGED <<doomed, cleanupError>>
    /\ UNCHANGED <<alive, group, holders, exit, dataVars, feeder, readVars, expired, timedOut,
                   capture, late>>

NoErrorOnTimeout == cleanupError
ErrorOnTimeout == IF cleanupError = None THEN "PROCESS_CLEANUP_TIMEOUT" ELSE cleanupError

WaitTimesOutAgain ==
    /\ host = "waitAgain" /\ Leader \in alive
    /\ host' = "joinOut"
    /\ cleanupError' = ErrorOnTimeout
    /\ UNCHANGED <<procVars, dataVars, feeder, readVars, expired, timedOut, capture, late>>

Joining(s) == host = IF s = "stdout" THEN "joinOut" ELSE "joinErr"
Joined(s) == host' = IF s = "stdout" THEN "joinErr" ELSE "copy"

Joins(s) ==
    /\ Joining(s) /\ Joined(s)
    /\ at[s] = "done"
    /\ UNCHANGED <<procVars, dataVars, feeder, readVars, expired, timedOut, cleanupError,
                   capture, late>>

\* The thread is left to itself if somebody still holds its pipe.
NeverGivesUp == FALSE
GivesUp == holders # {}

JoinTimesOut(s) ==
    /\ Joining(s) /\ Joined(s)
    /\ at[s] # "done" /\ GivesUp
    /\ late' = late \cup {s}
    /\ UNCHANGED <<procVars, dataVars, feeder, readVars, expired, timedOut, cleanupError,
                   capture>>

\* The fields of the capture are read one after the other, without the lock.
Composes ==
    /\ \/ /\ host = "copy" /\ host' = "bytesOut"
          /\ capture' = [capture EXCEPT !.payload = kept]
       \/ /\ host = "bytesOut" /\ host' = "digestOut"
          /\ capture' = [capture EXCEPT !.bytes["stdout"] = streamBytes["stdout"]]
       \/ /\ host = "digestOut" /\ host' = "bytesErr"
          /\ capture' = [capture EXCEPT !.digest["stdout"] = hashed["stdout"]]
       \/ /\ host = "bytesErr" /\ host' = "digestErr"
          /\ capture' = [capture EXCEPT !.bytes["stderr"] = streamBytes["stderr"]]
       \/ /\ host = "digestErr" /\ host' = "observe"
          /\ capture' = [capture EXCEPT !.digest["stderr"] = hashed["stderr"]]
       \/ /\ host = "observe" /\ host' = "flag"
          /\ capture' = [capture EXCEPT !.observed = observed]
       \/ /\ host = "flag" /\ host' = "done"
          /\ capture' = [capture EXCEPT !.overflow = overflow]
    /\ UNCHANGED <<procVars, dataVars, feeder, readVars, expired, timedOut, cleanupError, late>>

-----------------------------------------------------------------------------
Processes ==
    \/ \E p \in Procs, s \in Streams : Writes(p, s)
    \/ \E p \in Procs : Exits(p) \/ Dies(p)
    \/ Spawns \/ LeavesGroup \/ LetsGo

Reader ==
    \E s \in Streams :
        \/ Reads(s) \/ SeesEnd(s) \/ Hashes(s) \/ Counts(s)
        \/ Observes(s) \/ Keeps(s) \/ Flags(s)

Host ==
    \/ FailsToStart \/ Starts \/ Polls \/ ChecksLimits
    \/ Waits \/ WaitTimesOut \/ WaitTimesOutAgain
    \/ \E s \in Streams : Joins(s) \/ JoinTimesOut(s)
    \/ Composes

\* The call is over; the threads and processes it may have left go on.
Rests == host \in {"done", "raised"} /\ UNCHANGED vars

Next == Processes \/ Expires \/ Reader \/ Feeds \/ Host \/ Rests

Spec == Init /\ [][Next]_vars

\* Threads that can go on do, and time passes. Nothing is asked of the
\* processes: not even SIGKILL has to take effect.
FairSpec == Spec /\ WF_vars(Host) /\ WF_vars(Reader) /\ WF_vars(Expires)
-----------------------------------------------------------------------------
(* What a caller can rely on *)

\* The fields of a capture are read one after the other, without the lock, while
\* a thread nobody waits for any more may be adding to them. What is left true:
\* the payload is part of the output the byte counts cover, these are part of
\* what the digests cover, which are part of what was written; the payload never
\* exceeds the limit or what is reported as observed; and output_bytes passes
\* the limit with output_limit_exceeded unset only if a thread was given up, and
\* then by no more than the chunk that thread has at hand.
CaptureIsConsistent ==
    host = "done" =>
        /\ \A s \in Streams :
             /\ capture.payload[s] <= capture.bytes[s]
             /\ capture.bytes[s] <= capture.digest[s]
             /\ capture.digest[s] <= written[s]
        /\ Total(capture.payload) <= Least(capture.observed, MaxOutput)
        /\ (capture.observed > MaxOutput /\ ~capture.overflow) =>
               late # {} /\ capture.observed <= MaxOutput + Chunk

\* A call whose threads were joined reports all there was: the digests cover
\* every unit written, the payload is cut at the limit only, and the limit is
\* flagged exactly if it was passed. Only a process that outlives the leader
\* with the pipes open can make a capture fall short of that, and no field of
\* the capture tells: not the leader's own output of less than a chunk is safe.
JoinedIsComplete ==
    (host = "done" /\ late = {}) =>
        /\ capture.digest = written /\ capture.bytes = written
        /\ capture.observed = Total(written)
        /\ Total(capture.payload) = Least(Total(written), MaxOutput)
        /\ capture.overflow = (Total(written) > MaxOutput)

\* A call that reports no cleanup error has seen its process end, and once it
\* has killed for a limit no member of the process group runs on unsignalled.
NothingRunsOn ==
    (host = "done" /\ cleanupError = None) =>
        /\ Leader \notin alive /\ capture.returncode # None
        /\ timedOut => alive \cap group \subseteq doomed

\* Every call comes back, whatever its processes do.
Returns == <>(host \in {"done", "raised"})
=============================================================================
