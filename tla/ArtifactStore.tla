----------------------------- MODULE ArtifactStore -----------------------------
(***************************************************************************)
(* fetch_artifacts and verify_artifacts (src/radar_bench/artifacts.py) on   *)
(* one artifact root. A wheel is downloaded into a file beside its          *)
(* destination, whose name all fetches share, and renamed when its stream   *)
(* had the recorded size and digest. Processes run at the same time, die    *)
(* anywhere and start again; the network fails or delivers other bytes.     *)
(***************************************************************************)
EXTENDS Naturals, Sequences

CONSTANTS Procs, Files,
          Catalogs,   \* the catalogs there may be
          Blocks,     \* read() calls that a wheel takes
          MaxStarts   \* bound: fetches and verifications started

ASSUME CatalogAssumption ==
    /\ \A c \in Catalogs : c.bundles \in Seq(Seq(Files) \ {<<>>}) \ {<<>>}
                           /\ c.valid \in BOOLEAN /\ c.unclear \in SUBSET Nat
    /\ Blocks \in Nat \ {0} /\ MaxStarts \in Nat

VARIABLES
    catalog,    \* what _load_bundles makes of the catalog files
    disk,       \* the wheels and the partial files beside them
    job,        \* the state of each process
    provenance, \* whether provenance.json was written
    starts,
    disturbed   \* history: a download went wrong or a process died

vars == <<catalog, disk, job, provenance, starts, disturbed>>

Final(f) == <<f, "wheel">>
Shared(f) == <<f, "partial">>
Entries == Files \X {"wheel", "partial"}

\* A file with the processes that have it open for writing. They keep on writing
\* to it when it is renamed, and to nowhere once it is replaced or unlinked.
Contents == [1..Blocks -> {"absent", "right", "wrong"}]
Nothing == [b \in 1..Blocks |-> "absent"]
FileStates == [exists : BOOLEAN, content : Contents, writers : SUBSET Procs]
File(c) == [exists |-> TRUE, content |-> [b \in 1..Blocks |-> c], writers |-> {}]
NoFile == [exists |-> FALSE, content |-> Nothing, writers |-> {}]

Whole(x) == disk[x].exists /\ \A b \in 1..Blocks : disk[x].content[b] = "right"

\* listed is actual_files of the bundle being verified and flawed its errors;
\* got and pure stand for size and digest of the stream.
\* alone and spoiled are history: no two processes were at the root at the same
\* time since this one started, a download of its own failed.
NewJob(isFetch, isAlone) ==
    [pc |-> "list", fetch |-> isFetch, last |-> ~isFetch, bundle |-> 1, file |-> 1,
     listed |-> {}, flawed |-> FALSE, errors |-> FALSE, got |-> 0, pure |-> TRUE,
     status |-> "none", alone |-> isAlone, spoiled |-> FALSE]

At(p, pc) == job[p].pc = pc
Active(p) == job[p].pc \notin {"idle", "end", "dead"}
Bundle(j) == catalog.bundles[j.bundle]
Current(p) == Bundle(job[p])[job[p].file]

Init ==
    /\ catalog \in Catalogs
    /\ \E wheels \in [Files -> {NoFile, File("wrong"), File("right")}],
          leftovers \in [Files -> {NoFile, File("absent")}] :
         disk = [x \in Entries |-> IF x = Final(x[1]) THEN wheels[x[1]] ELSE leftovers[x[1]]]
    /\ job = [p \in Procs |-> [NewJob(TRUE, TRUE) EXCEPT !.pc = "idle"]]
    /\ provenance = FALSE /\ starts = 0 /\ disturbed = FALSE

Goes(p, j) == job' = [job EXCEPT ![p] = j]
StaysOnDisk == UNCHANGED <<catalog, disk, provenance, starts>>

-----------------------------------------------------------------------------
(* The loops over bundles and files *)

NextBundle(j) ==
    IF j.bundle < Len(catalog.bundles) THEN [j EXCEPT !.bundle = @ + 1, !.pc = "list"]
    ELSE IF j.last THEN [j EXCEPT !.pc = "conclude"]
    ELSE [j EXCEPT !.last = TRUE, !.bundle = 1, !.pc = "list"]

NextFile(j) ==
    IF j.file < Len(Bundle(j)) THEN [j EXCEPT !.file = @ + 1, !.pc = "file"] ELSE NextBundle(j)

\* An ArtifactContractError ends the bundle.
Breaks(j) == NextBundle([j EXCEPT !.errors = TRUE])

Starts(p) ==
    /\ ~Active(p) /\ starts < MaxStarts
    /\ starts' = starts + 1
    /\ \E isFetch \in BOOLEAN :
         LET others == {q \in Procs \ {p} : Active(q)}
             new == NewJob(isFetch, others = {}) IN
         job' = [q \in Procs |->
                   IF q = p THEN IF catalog.valid THEN new
                                 ELSE [new EXCEPT !.pc = "end", !.status = "INVALID"]
                   ELSE [job[q] EXCEPT !.alone = @ /\ others = {}]]
    /\ UNCHANGED <<catalog, disk, provenance, disturbed>>

-----------------------------------------------------------------------------
(* _verify_bundle: once per bundle before its downloads, once for all at last *)

\* A bundle whose redistribution status is unclear is not fetched.
SkipsUnclear(p) ==
    /\ At(p, "list") /\ ~job[p].last /\ job[p].bundle \in catalog.unclear
    /\ Goes(p, Breaks(job[p]))
    /\ StaysOnDisk /\ UNCHANGED disturbed

Lists(p) ==
    /\ At(p, "list") /\ (job[p].last \/ job[p].bundle \notin catalog.unclear)
    /\ LET names == {Bundle(job[p])[k] : k \in 1..Len(Bundle(job[p]))}
           listed == {x \in names \X {"wheel", "partial"} : disk[x].exists} IN
       Goes(p, [job[p] EXCEPT !.listed = listed, !.pc = "read", !.file = 1,
                              !.flawed = \E f \in names : Shared(f) \in listed])
    /\ StaysOnDisk /\ UNCHANGED disturbed

\* Size, digest and archive of a listed wheel.
HasSize(x) == disk[x].exists
Sound(x) == Whole(x)

Reads(p) ==
    /\ At(p, "read")
    /\ LET sound == Final(Current(p)) \in job[p].listed /\ Sound(Final(Current(p)))
           j == [job[p] EXCEPT !.flawed = @ \/ ~sound] IN
       Goes(p, IF j.file < Len(Bundle(j)) THEN [j EXCEPT !.file = @ + 1]
               ELSE [j EXCEPT !.pc = "sum"])
    /\ StaysOnDisk /\ UNCHANGED disturbed

\* total_bytes asks for the size of every listed file: one that is gone raises.
Sums(p) ==
    /\ At(p, "sum")
    /\ LET j == job[p] IN
       \/ /\ \A x \in j.listed : disk[x].exists
          /\ Goes(p, IF j.last THEN NextBundle([j EXCEPT !.errors = @ \/ j.flawed])
                     ELSE [j EXCEPT !.pc = "file", !.file = 1])
       \/ /\ \E x \in j.listed : ~disk[x].exists
          /\ Goes(p, [j EXCEPT !.pc = "end", !.status = "RAISED"])
    /\ StaysOnDisk /\ UNCHANGED disturbed

-----------------------------------------------------------------------------
(* _download *)

InPlace(f) == Final(f)
Partial(f) == Shared(f)

Closed(p, d) == [x \in Entries |-> [d[x] EXCEPT !.writers = @ \ {p}]]
Unlinked(f) == [disk EXCEPT ![Partial(f)] = NoFile]

Fails(p, new) ==
    /\ disk' = Closed(p, new)
    /\ disturbed' = TRUE
    /\ Goes(p, Breaks([job[p] EXCEPT !.spoiled = TRUE]))

Present(p) == disk[Final(Current(p))].exists
Kept(p) == disk[Final(Current(p))].exists /\ ~job[p].flawed

\* _source_url finds no URL, or the old partial file goes.
Fetches(p) ==
    /\ At(p, "file")
    /\ \/ /\ Kept(p) /\ Goes(p, NextFile(job[p]))
          /\ UNCHANGED <<disk, disturbed>>
       \/ /\ ~Kept(p) /\ Fails(p, disk)
       \/ /\ ~Kept(p) /\ disk' = Unlinked(Current(p))
          /\ Goes(p, [job[p] EXCEPT !.pc = "open"])
          /\ UNCHANGED disturbed
    /\ UNCHANGED <<catalog, provenance, starts>>

\* No answer, or the file is truncated and opened, with whoever has it open.
Opens(p) ==
    /\ At(p, "open")
    /\ LET x == Partial(Current(p)) IN
       \/ Fails(p, Unlinked(Current(p)))
       \/ /\ disk' = [disk EXCEPT ![x] = [exists |-> TRUE, content |-> Nothing,
                                          writers |-> disk[x].writers \cup {p}]]
          /\ Goes(p, [job[p] EXCEPT !.pc = "stream", !.got = 0, !.pure = TRUE])
          /\ UNCHANGED disturbed
    /\ UNCHANGED <<catalog, provenance, starts>>

Receives(p) ==
    /\ At(p, "stream") /\ job[p].got < Blocks
    /\ \E bytes \in {"right", "wrong"} :
         /\ disk' = [x \in Entries |-> IF p \in disk[x].writers
                        THEN [disk[x] EXCEPT !.content[job[p].got + 1] = bytes] ELSE disk[x]]
         /\ Goes(p, [job[p] EXCEPT !.got = @ + 1, !.pure = @ /\ bytes = "right",
                                   !.spoiled = @ \/ bytes = "wrong"])
         /\ disturbed' = (disturbed \/ bytes = "wrong")
    /\ UNCHANGED <<catalog, provenance, starts>>

\* The stream ends, breaks off or goes on past the recorded size.
StreamEnds(p) ==
    /\ At(p, "stream")
    /\ \/ /\ job[p].got = Blocks /\ job[p].pure
          /\ disk' = Closed(p, disk)
          /\ Goes(p, [job[p] EXCEPT !.pc = "validate"])
          /\ UNCHANGED disturbed
       \/ Fails(p, Unlinked(Current(p)))
    /\ UNCHANGED <<catalog, provenance, starts>>

\* _validate_archive opens the partial file by its name. A file with a hole is no
\* archive, one with other bytes may be another wheel.
Validates(p) ==
    /\ At(p, "validate")
    /\ LET x == Partial(Current(p))
           torn == \E b \in 1..Blocks : disk[x].content[b] = "absent" IN
       \/ /\ disk[x].exists /\ ~torn
          /\ Goes(p, [job[p] EXCEPT !.pc = "publish"])
          /\ UNCHANGED disk
       \/ /\ ~Whole(x)
          /\ disk' = Unlinked(Current(p))
          /\ Goes(p, Breaks(job[p]))
    /\ UNCHANGED <<catalog, provenance, starts, disturbed>>

\* os.replace: the partial file may be gone by now, which nothing catches.
Publishes(p) ==
    /\ At(p, "publish")
    /\ LET f == Current(p) IN
       \/ /\ disk[Partial(f)].exists
          /\ disk' = [Unlinked(f) EXCEPT ![Final(f)] = disk[Partial(f)]]
          /\ Goes(p, NextFile(job[p]))
       \/ /\ ~disk[Partial(f)].exists
          /\ Goes(p, [job[p] EXCEPT !.pc = "end", !.status = "RAISED"])
          /\ UNCHANGED disk
    /\ UNCHANGED <<catalog, provenance, starts, disturbed>>

Concludes(p) ==
    /\ At(p, "conclude")
    /\ Goes(p, [job[p] EXCEPT !.pc = "end",
                              !.status = IF job[p].errors THEN "BLOCKED" ELSE "READY"])
    /\ provenance' = (provenance \/ (job[p].fetch /\ ~job[p].errors))
    /\ UNCHANGED <<catalog, disk, starts, disturbed>>

Dies(p) ==
    /\ Active(p)
    /\ Goes(p, [job[p] EXCEPT !.pc = "dead"])
    /\ disk' = Closed(p, disk)
    /\ disturbed' = TRUE
    /\ UNCHANGED <<catalog, provenance, starts>>

-----------------------------------------------------------------------------
Step(p) ==
    \/ Starts(p) \/ SkipsUnclear(p) \/ Lists(p) \/ Reads(p) \/ Sums(p)
    \/ Fetches(p) \/ Opens(p) \/ Receives(p) \/ StreamEnds(p)
    \/ Validates(p) \/ Publishes(p) \/ Concludes(p) \/ Dies(p)

Next == \E p \in Procs : Step(p)

Spec == Init /\ [][Next]_vars

-----------------------------------------------------------------------------
(* Properties *)

Wheels == UNION {{catalog.bundles[b][k] : k \in 1..Len(catalog.bundles[b])} :
                    b \in 1..Len(catalog.bundles)}
Ended(p, status) == At(p, "end") /\ job[p].status = status

\* The values the state takes; the loops stay inside their lists, and a download
\* writes no more than the recorded size.
TypeOK ==
    /\ catalog \in Catalogs
    /\ disk \in [Entries -> FileStates]
    /\ \A p \in Procs :
         /\ job[p].bundle \in 1..Len(catalog.bundles)
         /\ At(p, "file") => job[p].file \in 1..Len(Bundle(job[p]))
         /\ job[p].listed \subseteq Entries
         /\ job[p].got \in 0..Blocks
         /\ job[p].status \in {"none", "INVALID", "READY", "BLOCKED", "RAISED"}
    /\ provenance \in BOOLEAN /\ disturbed \in BOOLEAN /\ starts \in 0..MaxStarts

\* Every block of the file is right, or one that has it open is still to write it.
InGoodHands(x) ==
    disk[x].exists /\ \A b \in 1..Blocks :
        disk[x].content[b] = "right" \/ \E q \in disk[x].writers : job[q].got < b

\* READY from fetch or verify means that every wheel of the catalog has the
\* recorded bytes and keeps them, whatever was there before, until two processes
\* are at the root at the same time. Even then, while no download fails and nobody
\* dies, what is not there yet is being written: a wheel that was read may have
\* been replaced by a file that another process has just truncated.
ReadyIsWhole ==
    \A p \in Procs : Ended(p, "READY") =>
        \A f \in Wheels : /\ job[p].alone => Whole(Final(f))
                         /\ ~disturbed => InGoodHands(Final(f))

\* A fetch that is alone with a working network ends READY, whatever damaged
\* wheels and partial files earlier fetches have left: nothing needs a cleanup.
LoneFetchHeals ==
    \A p \in Procs :
        /\ At(p, "end") /\ job[p].fetch /\ job[p].alone /\ ~job[p].spoiled
        /\ catalog.valid /\ catalog.unclear = {}
        => job[p].status = "READY" /\ provenance

\* A lone process never damages a wheel that has the recorded bytes, whatever the
\* network delivers and wherever it dies.
WholeStaysWhole ==
    [][(\A p \in Procs : Active(p) => job[p].alone)
        => \A f \in Files : Whole(Final(f)) => Whole(Final(f))']_vars
=============================================================================
