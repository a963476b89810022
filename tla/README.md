# RADAR-Bench: TLA+ models, checks and proofs

RADAR-Bench evaluates programs ("candidates") that diagnose regressions. A
candidate runs in a container without network, is asked about opaque episodes
over JSON lines, may ask for experiments within a budget, and sends one
terminal prediction per episode. Everything it says is untrusted, everything it
starts must be gone afterwards, and a result may claim only what was observed.
This directory models the parts of `src/src/radar_bench` whose correctness
depends on order, failure or concurrency.

Paths below are relative to `src/radar_bench/` of the repository.

## 1. Inventory

| Component | State | Operations | Talks to |
|---|---|---|---|
| **Candidate protocol**, `v1_2.py` `ExternalCandidateProtocol.run` | docker client, frame queue (32), output counters, events `overflow` and `partial_frame`, deadline, `finals`, `errors` | launch, inspect, send packets, loop over frames, answer, check exit, kill, clean up; reader and drain threads | candidate (pipes), ledgers, executor, Docker |
| **Experiment ledger**, `v1_2.py` `ExperimentLedger` | attempts per episode, result cache | `run`, `reject`, `summary` | executor |
| **Experiment executor**, `v12_executor.py` | volumes and containers of one call | prepare, run control and candidate, copy and audit, clean up, receipt | `run_bounded`, Docker |
| **Bounded subprocess**, `execution/process.py` `run_bounded` | two buffers under a lock, overflow event, byte counts and hashers without one, deadline | poll loop, kill of the process group, join; reader and feeder threads | operating system |
| **Resource cache**, `config.py` `package_resource_root` | cache directory, lock files, staging directories | hash, lock, stage, publish, verify, tidy up | file system, other processes |
| **Decisive evaluation**, `v1_2.py` `evaluate_v12` | gates passed, ledgers, cleanup accounting | a chain of gates, one candidate session, scoring | most of the others |
| **Artifact store**, `artifacts.py` | wheels, `.part` files, provenance | fetch with retries, verify, publish | network, file system |
| **Historical reconstruction**, `historical_runtime.py` | images, volumes, containers with fixed names | build a side, run it, copy outputs, classify | `run_bounded`, Docker |
| **Canonical harness, investigation**, `execution/canonical.py`, `investigation/v01.py` | runs of two lanes, cache of safety responses | run a case through a lane, answer from reconstruction or cache, score the lanes | both executors |
| **Hermetic executor v0.7**, `execution/v07.py`, `docker_runtime.py` | containers named by case and side | validate the manifest; per side: remove, run, remove, judge | `run_bounded`, Docker |
| **Scoring and results**, `score_v12`, `result_contract.py` | none | count, build, validate and compare results | |
| **Release gate**, `release.py` `evaluate_decisive_suite` | none beyond files | audit, inspect Docker, reconstruct, harness, result, comparison with the reference | harness, reconstruction |
| **Release scripts**, `scripts/`, archived evaluation | none beyond files | sequential checks of files | |
| **CLI, schemas, providers, URLs** | none | pure | |

What makes them correct:

- *Candidate protocol*: lines reach the host in order and without gaps, or the
  loss is flagged; the first terminal of an episode stands; the executor is
  called within budget and for open episodes only; requests are accounted and
  answered once; `COMPLETED` means that all sides ended well; what is left behind
  shows in the result (a client by its missing exit code only); `run` ends.
- *Resource cache*: one process materializes a digest at a time; what a call
  returned stays what it hashed; published directories are never touched;
  calls leave neither lock nor staging behind, and end.
- *Experiment executor*: a receipt that claims a verified cleanup is right; both
  sides see one settled input; nothing is left behind when Docker works, and no
  container by an exception after one failure, with two exceptions (section 3).
- *Bounded subprocess*: the call comes back whatever the process and its
  descendants do; its fields agree but for one unflagged chunk; if its threads were
  joined, they cover everything that was written; nothing of the process group
  runs on unsignalled behind a result without an error.
- *Hermetic executor*: a side counts as completed only if a container ran or
  docker's code says why it did not; what stays behind belongs to an error.
- *Harness, result, release gate*: nothing is executed before every gate has been
  passed; the lanes are told the same of the same question; a result satisfies
  its contract unless it calls the suite itself INVALID; a match with the reference means that what decides was observed.
- *Evaluation*: no score without a sound session behind every gate, each prediction
  scored with its own case and label, cleanup accounted for every episode.
- *Artifact store*: READY only for the recorded bytes; what an earlier fetch left
  behind is healed, and a whole wheel is never damaged.
- *Historical reconstruction*: READY only for a reproduced difference; a rerun is
  not blocked by what its predecessor left; nothing stays.

Hard behaviour: three threads and a foreign process around one queue; pipes that
fill up; a deadline far shorter than one experiment; a docker client that can be
killed while the daemon goes on; cleanups that fail or raise inside cleanups;
processes dying with a lock; files that change between two reads; a second
evaluation that uses the same container names; failures that score like
abstentions. `PROJECT.json`
lists each hazard at its line with the properties that would catch it.

## 2. Modules

| Module | What it is |
|---|---|
| `CandidateSession` | abstract: what a session promises the evaluator, without threads, pipes, process or clock |
| `CandidateProtocol` | `ExternalCandidateProtocol.run` with its threads and `ExperimentLedger`; refines `CandidateSession` |
| `CandidateProtocolMC` | the frames candidates draw from in the runs |
| `CandidateProtocolProofs` | theorems about `CandidateProtocol`: types, budget, verdict, then the stream, the ledgers, the predictions and what is left behind, then that it implements `CandidateSession` and what follows from that |
| `ResourceCache` | `package_resource_root` in several processes |
| `ResourceCacheProofs` | theorems about `ResourceCache` |
| `ExperimentExecutor` | one call of `V12ExperimentExecutor` and its Docker daemon |
| `ExperimentExecutorProofs` | theorems about `ExperimentExecutor` |
| `EvaluateV12` | `evaluate_v12` with its gates, ledgers and scoring, over a candidate session |
| `EvaluateV12Proofs` | theorems about `EvaluateV12`, and about the session inside it |
| `HistoricalRuntime`, `HistoricalRuntimeMC` | `reconstruct_historical_cases` for one case in several processes |
| `HistoricalRuntimeProofs` | theorems about `HistoricalRuntime`: types and names, then the verdict and what stays |
| `ArtifactStore`, `ArtifactStoreMC` | `fetch_artifacts` and `verify_artifacts` on one root in several processes |
| `ArtifactStoreProofs` | theorems about `ArtifactStore` |
| `BoundedProcess` | one call of `run_bounded`, its threads, its process and a descendant |
| `BoundedProcessProofs` | theorems about `BoundedProcess` |
| `SuiteEvaluation` | abstract: what the evaluation of a suite promises the reader of its result, without docker, order of the cases and score |
| `HermeticExecutor` | one request for a safety case, its containers and a rival on the same names |
| `CanonicalHarness` | the two lanes, the cache and the scoring; extends `HermeticExecutor` |
| `DecisiveSuite`, `DecisiveSuiteMC` | `evaluate_decisive_suite` from audit to comparison; extends `CanonicalHarness`, refines `SuiteEvaluation` |
| `DecisiveSuiteProofs` | theorems about the three: containers, lanes, result, then that they implement `SuiteEvaluation` |

`CandidateProtocol` implements `CandidateSession` and `DecisiveSuite` implements `SuiteEvaluation`; `EvaluateV12` stands on what
that session promises, and counts on the receipts whose meaning
`ExperimentExecutor` establishes. `DecisiveSuite` composes the release gate, the
harness and the hermetic executor into one state machine; `HistoricalRuntime`
tells when a reconstruction is READY, `ArtifactStore` when its wheels are there.
`BoundedProcess` justifies what the executors assume of a docker command: it
returns within its limits, and its return code is known or an error is.

### CandidateProtocol

`host` is the program counter of the host thread; one action is one stretch of
`run` between two points where another thread, the candidate or the clock can
matter. `reader` and `drain` do the same for the nested functions `read_stdout`
and `drain_stderr`. The variables `frames`, `overflow`, `partial`, `outSeen`,
`errSeen`, `finals`, `ledger`, `errors` are the ones of the source.

| Source | Actions |
|---|---|
| `read_stdout` | `ReaderTop`, `ReaderReads`, `ReaderSeesEOF`, `ReaderPuts`, `ReaderCloses` |
| `drain_stderr` | `DrainReads`, `DrainSeesEOF` |
| before the loop | `Declines`, `Launches`, `Inspects`, `SendsPacket`, `ArmsDeadline` |
| the loop | `ChecksLoop`, `GetsNothing`, `GetsSentinel`, `GetsMalformed`, `GetsUnhashable`, `GetsTerminal`, `GetsRequest`, `ExecutorReturns`, `ExecutorReuses`, `Answers` |
| after it | `Tallies`, `ChecksExit`, `WaitsForExit`, `Reaps`, `WaitsForKilled`, `CleansUp` |
| the world | `ContainerStarts`, `CandidateWrites`, `CandidateComplains`, `CandidateReads`, `CandidateExits`, `ClientCrashes`, `Dies`, `DeadlinePasses` |

A frame is a line reduced to how the host treats it: request, terminal,
malformed, with an unhashable episode id, overlong, or the reader's sentinel.
Bytes are counted in lines, so a ceiling is a number of lines. The candidate may
write any frame of `CandidateFrames` at any time, read or not, exit with any
code, and its docker client may die on its own. `Kills` is part of the action that
decides to kill; the client it leaves is `doomed` until `Dies`. `Reaps` finds it
dead, `WaitsForKilled` gives up after two seconds (`v1_2.py:1111`), kills again and
goes on without an exit code and without an error.

Left out: digests and text of messages; the moment between a closed pipe and the
exit of its process (the model ends both at once); the
distinction of which docker command of the inspection failed.

### CandidateSession

Episodes are settled at most once, requests are admitted one at a time and
answered at most once, experiments run only for open episodes within budget,
and the session closes as `COMPLETED` only when everything is settled, answered
and cleaned. `CandidateProtocol!ImplementsSession` is the refinement, with
`finals`, `calls`, `seen`, `answered` and `container` as the mapping. `Orderly` and
`KeepsWhatItSays` say what follows from the promise for whoever builds on it;
`EvaluateV12` composes the same session with the gates around it. No run lists the
two: they follow from `ImplementsSession`, and are proved of both (section 4).

### SuiteEvaluation

What a reader of a decisive result may take from it, without docker, the order of
the cases or the score: a suite is turned down before anything is run (`TurnsDown`)
or two lanes question every case; a question to a twin is run at most once (`Runs`,
`TellsNew`), later ones are told the kept response (`TellsKnown`), errors included;
`Scores` needs every case answered to both lanes. `DecisiveSuite!ImplementsSuite` is
the refinement: `stage` and `report` of the abstract state are read off `stage`
and `result`, `heard` off `runs` and `attempts`, `known` is the cache, and
`running` is the question whose containers are at work. Facts found by the gates,
edits under way, the steps of the rival, and every docker command are stutters of it.

### ResourceCache

A digest *is* its manifest (what each file held when it was hashed), so
`Valid(m)` is `cache[m] = m`. `pc` follows a process through `hash`, `check`,
`lock`, `recheck`, `copy`, `clean`, `verify`, `unlock`; each file is hashed and
copied in a step of its own. `Crashes` kills a process anywhere and leaves what
it has on disk. `Upgrades` changes a packaged file, `Damages` a published
directory (what the code's `valid_destination` guards against). Left out: a
failing removal inside the `finally` blocks.

### ExperimentExecutor

`have` is the set of containers and volumes that exist, `coming` what a killed
docker client has asked the daemon for and what may still appear. Every docker
command may work, fail, be killed at a limit, or make `run_bounded` raise;
`Fault` counts the last three, up to `MaxFaults`. A recipe can raise without
Docker (`RecipeRaises`): its packages are no list, or wheels are declared for a
preparation command that `normalize_python_command` refuses (`v12_executor.py:251`);
that `ValueError` leaves `_run_side` and `__call__`. `pc` follows `__call__`,
`_run_side`, `_copy_volume_to_staging` and the `finally` blocks; `cap` is what
`_capture_is_complete` looks at. Random names are a run number. The containers'
output is left out: the exit code is free.

### EvaluateV12

`pc` follows the gates of `evaluate_v12` in their order. The documents (candidate
bundle, evaluator bundle) are variables that are read twice, as the code does:
once by the audits and once by the run, with an edit possible in between. A
document is reduced to what the audits tell apart and to which record, case and
label it names; packets are bound to random episode ids by a bijection. The
session is reduced to the outcomes `CandidateSession` allows: which episodes have
a prediction, which attempts the ledgers hold, how it closed. `Removed` is the
`finally` block; a second evaluation of the same checkout shares its workspace.

### HistoricalRuntime

Containers and the volume are named after the case, so `box` and `volume` are
shared by all processes; images are not. `job` follows each process: `base`,
`build`, `volume`, then `clear` (`_remove_container` before the run), `run`,
`await`, `ran`, the preparation's `copy`, `prepared box` and `prepared volume`, and
`images` (the `finally` block). `rm --force` and the `docker ps` that checks it
are two steps (`forced` in between). `Raises` leaves through the `finally` block
only, `Dies` without it. `alone`, `said` are history for the properties. Left
out: a container that a killed client's daemon creates later (modelled in
`ExperimentExecutor`), limits on output, inventory of the copied files.

### ArtifactStore

`disk` holds, per wheel, the file at its destination and the partial file, each
with the blocks it contains and the processes that have it open. Writing goes to
every entry that carries the process as a writer, so a file that was renamed
while another process writes to it keeps changing, and one that was unlinked
takes its writes with it: the semantics of `os.replace` and `unlink` on an open
file. `list`, `read`, `sum` are the three passes of `_verify_bundle`; `open`,
`stream`, `validate`, `publish` are `_download`. A process that finds a listed file
gone, or nothing to rename, ends `RAISED`: nothing catches that. `alone`, `spoiled`
and `disturbed` are history: two processes lose `alone` when they meet, also one
that has ended and whose files the two may now spoil. Left out:
symbolic links and directories in place of files, redirects as distinct from
other network failures.

### BoundedProcess

`host` is the position of `run_bounded`, `at` that of each `read_stream` thread,
`feeder` that of `write_input`. A reader goes through `Reads`, `Hashes`, `Counts`
and, under the lock, `Observes`, `Keeps` and `Flags` (three steps, because the
caller reads without the lock); the call through `Starts`, `Polls`, `ChecksLimits`,
`Waits` or `WaitTimesOut` and `WaitTimesOutAgain`, `Joins` or `JoinTimesOut`, and
`Composes`, which reads one field of the capture per step. `Terminates` is
`_terminate_tree`: it signals the group or notes an error. The process may write,
fork once, exit, and need not die of a SIGKILL; its descendant may leave the group
(`LeavesGroup`) or close its pipes (`LetsGo`). Output is counted in units, `Chunk`
of which are one `CHUNK_BYTES`; a read blocks until a chunk or the end of the
stream is there, as it does on the buffered pipes of `Popen`. Left out: `taskkill`
on Windows; the content of the output; the feeder's own join, which does not exist.

### HermeticExecutor, CanonicalHarness, DecisiveSuite

`HermeticExecutor` has one action per docker command of `_run_side`: `Finds`,
`Removes`, `InspectsBefore`, then `Launches`, `Refuses` or `FailsToRun`, then
`Ends`, `IsCut` or `IsRemoved`, then `Removes` and `InspectsAfter`; `Settles` takes
the next side or the response. `box` is the daemon, `fate` history for the
property. The rival is another evaluation of the same suite: names are digests of
case and side, so it removes or occupies ours.

`CanonicalHarness` runs the lanes: `AsksHistory` and `AsksCache` answer at once,
`AsksContainers` starts an execution and `Hears` takes its response into the cache
and to the lane. `Learns` is the loop of `_run_frozen` and `_run_naive`, `Metrics`
and `Gates` are `score_canonical_lanes`: numerator and denominator of each metric.
`CasesAssumption` says of the suite what the code relies on: each case is listed once,
and one historical label is `semantic_ambiguity`, which is why the denominator of that
metric is the constant 1 in `score_canonical_lanes`.

The result of a suite that is turned down lists the case ids of the manifests, not
of the suite (`NamedInManifests`, `Listings`, `Filled`): in an unsound suite they may
repeat, be unknown (`Stray`) or be too few, and a file that is missing has the digest
`"None"` (`Provenances`). `Valid` is the result contract: cases named once and known, digests,
denominators, predictions for every case, gates.

`DecisiveSuite` adds the chain around them: `Audits`, `InspectsDocker`,
`Reconstructs`, `LoadsCases`, `EnsuresImage`, `Constructs`, the lanes,
`ReadsPredictions`, `Scores`, `Builds`. What a gate looks at is one fact of
`Facts`, true or not at the start; `EditsWorkspace`, `LosesReference` and
`EditsLabels` change the world under way. Exceptions nothing catches lead to
`raised`: among them a reference result that breaks the contract
(`release.py:406`, whose `ValidationError` is no `ReleaseValidationError`), and an
`OSError` of a cleanup (`v07.py:457`).

Left out: workspace edits while the lanes run; the owner, median and advantage
metrics; `PROCESS_CLEANUP_FAILED`, which `_run_side` cannot reach for a container
whose removal was verified; malformed requests and unknown cases, which the
harness never sends; suites that list a case twice; the reasons given with blocked
cases; that a metric's value is its quotient (`_metric` divides nothing else);
a docker client that dies by itself without a limit flag (`v07.py:486`), and a
container the daemon creates after its client was cut off; `ReplayOracle`.

## 3. Runs

| Run | Checks | Bounds |
|---|---|---|
| `CandidateProtocolDialogue` | `TypeOK`, `CompletedIsSound`, `NoSilentLeak`, `ImplementsSession` | two episodes, one request id, one experiment, three lines, queue of 3, stdin of 1 |
| `CandidateProtocolStream` | `FinalsFollowStream`, `LedgerIsExact`, `BudgetHolds`, `InOrder` | two episodes, two request ids, two predictions, an overlong line, one experiment, three lines and one on stderr, ceilings 3, 1 and 3, queue of 1 |
| `CandidateProtocolLiveness` | `Terminates`, `ThreadsStop` | one episode, two lines (request, terminal, malformed, unhashable id), ceiling 1, queue of 1 |
| `CandidateProtocolUnreadStdin` | violates `Terminates` | as before, without the candidate's fairness |
| `ResourceCache` | `MutualExclusion`, `NothingLeftBehind`, `ReturnedStaysIntact`, `PublishedIsFinal`, `CallsEnd` | two processes, three calls, two files, two contents, one upgrade or damage |
| `ResourceCacheUnchecked` | violates `PublishedIsChecked` | the same |
| `ExperimentExecutor` | `VerifiedIsClean`, `PreparedInputIsSettled`, `FailuresAreContained`, `RefusedLooksObserved` | two preparation steps, site volumes everywhere, three faults |
| `EvaluateV12` | `Aligned`, `CompletedIsEarned`, `CleanupIsAccounted` | two cases, records and episodes, one request id, two predictions, one experiment, one passing candidate document, two label documents, one edit, one other evaluation |
| `HistoricalRuntime` | `ReadyIsReproduced`, `RerunFindsNameFree`, `OrderlyEndIsClean` | two processes, two reconstructions, two faults, any recipe |
| `ArtifactStore` | `ReadyIsWhole`, `LoneFetchHeals`, `WholeStaysWhole` | two processes, two fetches or verifications, two wheels of two blocks in one or two bundles, any wheels and torn partial files on disk at first |
| `BoundedProcess` | `CaptureIsConsistent`, `JoinedIsComplete`, `NothingRunsOn`, `Returns` | a chunk of two units, a limit of two, two units written to each stream, one descendant |
| `DecisiveSuite` | `SidesAreAccounted`, `ResultIsEarned`, `FrozenScoreIsFixed`, `MatchPinsTheRun`, `ProbeErrorIsInvisible`, `ImplementsSuite`, `Finishes` | two historical cases, one of them ambiguous, two twins, one of them unstable, two failures of docker or steps of a rival, any facts at first, any ids in the historical manifests of an unsound suite, one unknown id among them |

Type invariants: `CandidateProtocol!TypeOK` is a property of a run; it and those of
the other modules are proved (section 4; that of `ResourceCache` as a part of `CacheInv`).

Why the bounds are enough. Two episodes are the least with one settled and one
open. Three lines suffice for a request repeated, refused and answered, for a
terminal between or after requests, and for one line beyond completion; a budget
of one makes the second request the one too many. A queue shorter than the
number of lines makes `queue.Full` happen, for lines and for the sentinel. In the
cache two processes on two digests and a third call let one process publish,
another find it, and a later one come back after a crash; one upgrade splits a
hash from its copy. In the executor three faults let a killed run, a failing
cleanup and a failing cleanup of that cleanup coincide.

In `CandidateProtocolStream` the second episode keeps the session open after the
first one's terminal, so that a second terminal for it can be taken; request ids
and predictions are interchangeable there, which makes the symmetry sound. Two
cases are the least that can be swapped in `EvaluateV12`, and one edit separates
the two readings. In `HistoricalRuntime` and `ArtifactStore` two starts are either
two processes at once, or one after the other's death; processes are
interchangeable. In `BoundedProcess` a unit less than a chunk is what a reader
waits for in vain, and two streams of two units pass a limit of two while each
alone stays within it. In `DecisiveSuite` the unstable twin makes the frozen lane
stop early and the other one does not, the historical cases differ in being
ambiguous, and two faults let a run be cut and its cleanup fail. Two faults let a removal and its check fail together. Two blocks
make a torn file, and the initial contents of the disk stand for all the fetches
that went before.

`CHECK_DEADLOCK FALSE` stands where the modelled work ends: all calls of the
cache are used up, the one call of the executor or of the evaluation has
returned, the reconstructions and fetches have been made. `BoundedProcess` and
`DecisiveSuite` have a last step that changes nothing instead.

Fairness. `HostFairness` is weak fairness of each thread's next step (the
operating system runs threads that can run; docker commands carry timeouts, so
experiments return), of the clock, and of `Dies`: a SIGKILL takes effect in the
end, though perhaps after the host has stopped waiting for it. Nothing is assumed of the candidate except
in `ReadingSpec`, where it keeps reading its input and its container starts;
`CandidateProtocolUnreadStdin` shows why that is needed. In `ResourceCache` a
process in a call takes its steps until it ends or dies. In `BoundedProcess` the
host thread, the readers and the clock go on; nothing is asked of the processes,
not even that a SIGKILL takes effect, since every wait and join has a limit. In
`DecisiveSuite` the evaluation goes on because every docker command runs under a
limit of `run_bounded` (`BoundedProcess!Returns`); nothing is asked of the rival.

### Where code and documents disagree

Two runs end with a counterexample:

- `Terminates` without a reading candidate: writes to stdin block and no deadline
  applies to them, while `docs/THREAT_MODEL.md` says that timeouts terminate the
  process group.
- `PublishedIsChecked`: the docstring of `package_resource_root` says that a
  directory is published only after every file has been checked; it is checked
  after the rename, and a source changed in between leaves a wrong directory
  under a digest.

Three properties hold and say what the code does where a document says otherwise:

- `RefusedLooksObserved`: the docstring of `v12_executor.py` says that a missing
  platform is an explicit unavailable observation; a `docker run` that could not
  create its container counts as an observed failure with a valid receipt.
- `FrozenScoreIsFixed`: `docs/SCORING.md` says that a blocked lane is never scored
  as an abstention; executions that all fail leave the frozen lane with the gates,
  the resolution and the perfect abstention recall of the reference.
- `ProbeErrorIsInvisible`: the same document counts executed attempts only; a naive
  probe of an unstable twin that fails to execute counts like one that had no
  effect, and the result is still an exact match.

Two more show in the code, and no property is about them alone:

- `docs/SCORING.md:7` says that the useful experiment rate counts executed attempts.
  `score_v12` looks for them under `attempts` in each ledger (`v1_2.py:577`), and
  `ExperimentLedger.summary` (407-429) has no such entry, so the rate of an
  evaluation is 0 of 0.
- The docstring of `evaluate_decisive_suite` says that only the strict result
  contract is returned. A suite that is INVALID is returned without validation
  (`release.py:621`): the result may omit a case, name an unknown one or one twice,
  or carry the digest `"None"`. `ResultIsEarned` says that no other result breaks it.

`docs/SCORING.md` also puts the gold records after the candidate's output, but
`evaluate_v12` reads them before (`v1_2.py:1396`): it needs the mapping of records
to cases that is in the same file. No run checks an order that no evaluation has;
`Aligned` and `CompletedIsEarned` are about what the early reading can do.

### What holds only under a condition

The conditions in these properties are where the code promises less than one
might expect, and TLC finds a counterexample without them:

- `ReadyIsReproduced` needs the case for itself if it has a preparation: two
  reconstructions share the input volume, and one may copy what the other one's
  preparation is still writing.
- `OrderlyEndIsClean` excludes exceptions and sides that report a cleanup error:
  the preparation's container and volume are not removed in a `finally` block, and
  READY is decided by the return codes alone. `RerunFindsNameFree` shows that the
  next reconstruction copes.
- `NoSilentLeak` lets a docker client outlive `run` when the wait after the kill times
  out (`v1_2.py:1111`): a SIGKILL is pending and the result has no exit code, but
  no error is noted. It also lets pass a container whose inspection turned the session
  down.
- `FailuresAreContained` has two parts. Without faults nothing is left, whether the
  call returns or raises. With one fault an exception leaves no container, but
  volumes may stay, and containers too where the copy raises
  (it has no `finally` block) or where the candidate raises after a control
  that was killed or not cleaned up.
- `CaptureIsConsistent` allows `output_bytes` to pass the limit with
  `output_limit_exceeded` unset, by one chunk of a thread whose join timed out:
  `observed` is set at `process.py:99`, the flag at 104, and lines 156-158 read both
  without the lock. TLC reaches such a capture in this run.
- `JoinedIsComplete` needs threads that were joined: a descendant that keeps the
  pipes open makes a join time out, and the capture of a process that exited with 0
  may lack output without any field saying so.
- `MatchPinsTheRun` says less than one might expect: sums are compared, so it pins
  the baseline of the unstable twins and both probes of the others only.
- `ResultIsEarned` asks for the workspaces' digests when the executor is made, not
  when a container mounts them; it asks for the contract except of an INVALID result
  about an unsound suite. A BLOCKED result is not validated either (`release.py:630-655`),
  but it does satisfy the contract.
- `Finishes` counts an evaluation that ends in an exception: that a failing cleanup
  ends it so says `SidesAreAccounted`, not this property.
- `CleanupIsAccounted` is run with one request per episode; its theorem has no bound.
- `ReadyIsWhole` promises whole wheels only until two processes meet at the root.
  After that, and only while no download fails and nobody dies, it promises that
  what is not there yet is being written. The weaker half is needed with three
  processes: one reads a whole wheel and goes on to READY while a second renames
  over it the shared partial file, which a third has just unlinked and opened anew.
  With two, TLC finds no state in which a READY wheel is not whole by then; the gap
  showed when the invariant would not close for any number of processes (TLC then
  found the run above with three processes, one wheel and one block).

## 4. Proofs

All theorems hold for every value of the constants allowed by the named
assumptions of the modules (finite `Episodes`, natural sizes, at least one slot
in queue and pipe, a chunk and a limit of at least one unit, `None`, `Absent`
and `Stray` no data).

| Theorem | Property | Argument |
|---|---|---|
| `TypeCorrect` | `CandidateProtocol!TypeOK` | inductive on its own; the request at hand must be part of it so that ledger updates are typed |
| `BudgetIsKept` | `BudgetHolds` | `BudgetInv`: calls are bounded by the attempts executed, plus one while the executor runs or has raised, and a running one has room in its ledger |
| `CompletedIsProved` | `CompletedIsSound` | `VerdictInv`: what each error code stands for, which program counters have polled the process, that the frames taken are requests and unique terminals as long as no error is noted, and that answers lag behind the ledger only while one is written |
| `StreamIsKept` | `InOrder` | `StreamInv`: what was delivered is a beginning of what was written, and the rest is with the reader and in the pipe until the reader stops; a reader that stops without a flag has seen the process end and the pipe empty |
| `LeaksAreShown` | `NoSilentLeak` | `LeakInv`: the container behind a valid inspection exists until it is removed, only the cleanup ends a session that was launched, and a client alive at that place has been killed and not reaped |
| `FirstPredictionCounts` | `FinalsFollowStream` | inductive on its own; `FirstStays` and `FirstCounts` say what one more frame does to the first terminal of an episode |
| `LedgerIsKept` | `LedgerIsExact` | `LedgerInv`: the id of a running call is not in the ledger, an attempt to be answered is the last one, and a broken pipe leaves no way back to the loop |
| `SessionIsImplemented` | `ImplementsSession` | `SessionInv` joins the invariants above with `AskedInv`: the ids asked for are those of the ledger and the one of the running call; `StepMaps` maps every step to one of `CandidateSession` or to none |
| `OneMaterializes` | `MutualExclusion` | `CacheInv`: a process between `recheck` and `unlock` is the creator recorded in its digest's lock |
| `CallsCleanUp` | `NothingLeftBehind` | part of `CacheInv` |
| `ReturnedIsKept` | `ReturnedStaysIntact` | part of `CacheInv`; needs that a result is written only after the destination was found valid |
| `PublishedIsNeverReplaced` | `PublishedIsFinal` | only `Publishes` and `Damages` write `cache`, the first only where there is nothing |
| `RuntimeTypes` | `HistoricalRuntime!TypeOK` | `RuntimeInv`: which images are built at which position, and that two busy processes are never alone |
| `LoneRunFindsNameFree` | `RerunFindsNameFree` | part of `RuntimeInv`; `MoveKeeps` reduces every action but a start to one fact: it leads to `run` only over a name seen free |
| `ReadyReproduces` | `ReadyIsReproduced` | `EndInv`: what a return code says is tied to the container that gave it (`Trusted`, `Given`), and that to the volume it was started with (`Filled`); another reconstruction can only remove a container or create one under its own run number |
| `OrderlyEndCleans` | `OrderlyEndIsClean` | also `EndInv`: `Swept` lists what is gone by each position of a reconstruction without noted error, `Held` and `FirstVolume` where something of its own can still be as long as docker works, `Tagged` which images the last cleanup knows of |
| `CallTypes` | `BoundedProcess!TypeOK` | `CallInv`; that a pipe holds no more than was written needs the accounting |
| `CaptureErrsByAChunk` | `CaptureIsConsistent` | `Accounting` follows each unit from pipe to buffer, with those observed and not yet kept (`Offered`) or held against the limit (`Judged`) of the one thread inside the lock; `Composing` bounds each field by its source; sources only grow (`Grows`) |
| `JoinedReportsAll` | `JoinedIsComplete` | a stream whose thread has ended has no holder and stays as it is (`Aside`), so the fields equal their sources |
| `CleanCallLeavesNothing` | `NothingRunsOn` | `Processing`: the group grows only while its leader runs unsignalled |
| `ExecutorTypes` | `ExperimentExecutor!TypeOK` | `ExecTypes`: a run that has come to its cleanup has a capture |
| `VerifiedReceiptIsClean` | `VerifiedIsClean` | `TrustInv`: as long as the call has seen nothing wrong (`Trust`), nothing is still to come and only what `Allowed` names at that place exists; a verified receipt implies `Trust` at the end |
| `CallCleansUp` | `FailuresAreContained` | `OrderlyInv`: the same without faults, whatever the exit codes are and wherever the recipe raises; `OnceInv`: where one fault was the exception under way, the `finally` block ahead is made without any |
| `SidesFindInput` | `PreparedInputIsSettled` | `SettledInv`: run numbers only grow past those of the preparation, and at the copy's end `TrustInv` leaves the volume alone |
| `RefusalIsShown` | `RefusedLooksObserved` | `ShownInv`: without faults no capture is ever marked |
| `EvaluationTypes` | `EvaluateV12!TypeOK` | part of `EvalInv`; a bound packet exists for every episode because mapping and record map are onto (`PacketsFit`) |
| `PredictionsMeetTheirCase` | `Aligned` | `Bound` keeps the packets those of the document that is scored; `Inverting` and `RunsFit` take the shuffle back, which needs both maps one to one |
| `NoGateIsPassedOver` | `CompletedIsEarned` | `Passed` says what each gate left, `Unedited` which document was read where, `Closed` what a completed session implies |
| `TotalsHideNothing` | `CleanupIsAccounted` | `Counted`: an experiment is spent for each request with a receipt; the proved ones are among them, and a part of a finite set with as many members is the set |
| `StoreTypes` | `ArtifactStore!TypeOK` | part of `StoreInv` |
| `ReadyStaysWhole` | `ReadyIsWhole` | `StoreInv`: `Checked` carries the files seen sound through both loops, `GoodPartial` says that a partial file in work would be whole were it renamed now (`InGoodHands`), `Separate` that a process without company is the only one at work |
| `LoneFetchIsReady` | `LoneFetchHeals` | `Heals` in `StoreInv`: what a lone fetch has been through is in order (`Ordered`), partial files included, so the second verification finds nothing to complain of |
| `LoneKeepsWheels` | `WholeStaysWhole` | from `StoreInv`: a lone writer writes to its partial file only (`OwnPartial`), and renames it when it is whole |
| `SessionIsOrderly` | `Session!Orderly` in `CandidateProtocol` | `SessionSteps` reads a step of the abstract session back as what it does to the ids (`Admission`, `Reply`, `Settlement`, `Ending`); `AdmissionIsSingle`: who is admitted finds nobody waiting |
| `SessionKeepsWhatItSays` | `Session!KeepsWhatItSays` in `CandidateProtocol` | from `SessionInv` and `StepMaps`, by the same reading |
| `SessionOrderly`, `SessionKept` | `Session!Orderly`, `Session!KeepsWhatItSays` in `EvaluateV12` | from the session's types in `EvalInv`, and `SessionMoves`: each action is a step of the session or leaves its variables alone |
| `SuiteTypes` | `DecisiveSuite!TypeOK` | part of `SuiteInv`, which is `ExecutorInv`, `LanesInv` and `EvaluationInv` |
| `SidesAccounted` | `SidesAreAccounted` | `ExecutorInv`, inductive on its own: a side's code fits what became of its container (`Fits`), also while only the capture holds it, and a verified removal stands because the other side has another name |
| `BaselineIsShared` | `LanesShareBaseline` (in no run: `ImplementsSuite` says the same of the cache and of what the lanes are told) | `LanesInv`: a container was asked for exactly for the entries of the cache and the one to come (`AskedOnce`); entries never change (`Grows`), and each run begins with one or with the reproduced effect (`Begins`) |
| `SuiteIsImplemented` | `ImplementsSuite` | `StepMaps`: each action is a step of `SuiteEvaluation` or none; `Ahead` says that the runs still to be made are empty, which tells a lane's turn that is over from one that has not begun; each case is named once in `Order` (`NamedOnce`), so a response is told to one lane and one case only |
| `ResultEarned` | `ResultIsEarned` | `EvaluationInv`: each stage stands for the facts its gates have found (`Found`); a sound suite is turned down by its own cases (`NamedRightly`), each of them once (`NamedOnce`), and no metric counts more than there is (`MetricsAreRates`), so only an INVALID result of an unsound one can break the contract |
| `FrozenScore` | `FrozenScoreIsFixed` | the frozen lane never claims (`FrozenNeverClaims`); the rest is counting |
| `MatchPins` | `MatchPinsTheRun` | a lane's run goes on until it has no question left (`RunIsOver`), so its length and last response follow from equal predictions; labels that were edited shut a gate (`RewordedLabelsShow`) |
| `ProbeErrorInvisible` | `ProbeErrorIsInvisible` | `Alike`: runs that agree in claims, parts, numbers and usefulness have the same score and the same predictions |

The invariants were checked by TLC on the runs' instances before they were proved.
What a new invariant asked of the models was little: `ArtifactStore` gave up `alone`
too late, and its `ReadyIsWhole` said too much (section 3); `CanonicalHarness` counts
attempts as the cardinality of a set of positions rather than with a fold, which
computes the same and can be reasoned about.

Only model-checked: liveness (`Terminates`, `ThreadsStop`, `CallsEnd`, `Returns`,
`Finishes`), which is outside the prover's reach. Every other property of a passing
run is a theorem.

## 5. Order of work and what is left

The modules were written in the order of what depends on them: the candidate
session with its ledger, the resource cache, the executor, the evaluation, the
historical reconstruction, the artifact store, the bounded subprocess, the release
gate with harness and hermetic executor.

Both abstract specifications that were planned are implemented, the candidate
session (`CandidateSession`) and the suite (`SuiteEvaluation`), and the first is also
composed with the evaluation around it. Left: action properties of the executors
(what a docker command may never do to the containers of another call), and an
abstract specification of a reconstruction.

Not modelled: the rates of `score_v12` (arithmetic on counts), the v0.7 pilot's
audits and metrics and the archived evaluation (nothing of the current evaluation
calls them), the release scripts and the CLI (sequential, no state beyond files),
`ReplayOracle`, schemas, providers and URLs (pure functions, or one call of
`run_bounded`).
