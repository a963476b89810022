-------------------------- MODULE ArtifactStoreProofs --------------------------
(* Proofs about ArtifactStore, for any processes, wheels, blocks and starts. *)
EXTENDS ArtifactStore, TLAPS

\* The files of a bundle, and of the bundles before one.
BundleFiles(b) == {catalog.bundles[b][k] : k \in 1..Len(catalog.bundles[b])}
Earlier(b) == UNION {BundleFiles(c) : c \in {d \in 1..Len(catalog.bundles) : d < b}}
FirstFiles(j, n) == {Bundle(j)[k] : k \in {i \in 1..Len(Bundle(j)) : i < n}}

\* _download is at work on a file, and the loops are.
Fetching == {"open", "stream", "validate", "publish"}
InFiles == {"read", "file"} \cup Fetching

Jobs == [pc : {"idle", "list", "read", "sum", "file", "conclude", "end", "dead"} \cup Fetching,
         fetch : BOOLEAN, last : BOOLEAN, bundle : Nat, file : Nat, listed : SUBSET Entries,
         flawed : BOOLEAN, errors : BOOLEAN, got : 0..Blocks, pure : BOOLEAN,
         status : {"none", "INVALID", "READY", "BLOCKED", "RAISED"},
         alone : BOOLEAN, spoiled : BOOLEAN]

Placed(j) ==
    /\ j.bundle \in 1..Len(catalog.bundles)
    /\ j.pc \in InFiles => j.file \in 1..Len(Bundle(j))

Typed ==
    /\ catalog \in Catalogs
    /\ disk \in [Entries -> FileStates]
    /\ job \in [Procs -> Jobs] /\ \A p \in Procs : Placed(job[p])
    /\ provenance \in BOOLEAN /\ disturbed \in BOOLEAN /\ starts \in 0..MaxStarts

\* Only who is streaming has a file open.
Writing == \A x \in Entries : \A p \in disk[x].writers : At(p, "stream")

\* Where no two processes have met, the one at work is alone.
Separate ==
    /\ \A p, q \in Procs : job[p].alone /\ Active(q) => job[q].alone
    /\ \A p, q \in Procs : p # q /\ Active(p) /\ job[p].alone => ~Active(q)

\* What a lone process finds in its partial file.
OwnPartial(p) ==
    LET x == Shared(Current(p)) IN
    job[p].alone =>
        /\ At(p, "open") => ~disk[x].exists
        /\ At(p, "stream") =>
             /\ \A y \in Entries : p \in disk[y].writers => y = x
             /\ disk[x].exists /\ p \in disk[x].writers
             /\ job[p].pure => \A b \in 1..Blocks :
                                    b <= job[p].got => disk[x].content[b] = "right"
        /\ job[p].pc \in {"validate", "publish"} => Whole(x)

\* The partial file of a download, were it renamed now, would become whole.
Handed(x) == disk[x].exists => InGoodHands(x)
GoodPartial(p) == ~disturbed /\ job[p].pc \in Fetching => Handed(Shared(Current(p)))

\* The files that a process has read to the end and found sound.
Sighted(j) ==
    IF j.flawed THEN {}
    ELSE IF j.pc = "read" THEN FirstFiles(j, j.file)
    ELSE IF j.pc = "sum" THEN BundleFiles(j.bundle) ELSE {}
Passed(j) ==
    IF ~j.last \/ j.errors THEN {}
    ELSE IF j.pc = "conclude" \/ (j.pc = "end" /\ j.status = "READY") THEN Wheels
    ELSE IF j.pc \in {"list", "read", "sum"} THEN Earlier(j.bundle) ELSE {}
Holds(j, f) == (j.alone => Whole(Final(f))) /\ (~disturbed => InGoodHands(Final(f)))
Checked(p) ==
    /\ \A f \in Sighted(job[p]) \cup Passed(job[p]) : Holds(job[p], f)
    /\ job[p].status = "READY" => At(p, "end") /\ job[p].last /\ ~job[p].errors
    /\ At(p, "conclude") => job[p].last
    /\ job[p].pc \in {"file"} \cup Fetching => ~job[p].last

\* A lone fetch with a working network has put in order what it has been through.
Clean(f) == Whole(Final(f)) /\ ~disk[Shared(f)].exists
Ordered(j) ==
    IF j.last THEN Wheels
    ELSE Earlier(j.bundle) \cup
         IF j.pc \notin {"file"} \cup Fetching THEN {}
         ELSE IF j.flawed THEN FirstFiles(j, j.file) ELSE BundleFiles(j.bundle)
Healing(j) == j.fetch /\ j.alone /\ ~j.spoiled /\ catalog.valid /\ catalog.unclear = {}
Heals(p) ==
    LET j == job[p] IN
    Healing(j) =>
        /\ Active(p) =>
             /\ ~j.errors
             /\ \A f \in Ordered(j) : Clean(f) \/ (j.pc \in Fetching /\ f = Current(p))
             /\ j.pc \in {"read", "sum"} =>
                  /\ j.listed =
                       {x \in BundleFiles(j.bundle) \X {"wheel", "partial"} : disk[x].exists}
                  /\ ~j.flawed => \A f \in BundleFiles(j.bundle) : ~disk[Shared(f)].exists
                  /\ j.last => ~j.flawed
             /\ At(p, "stream") => j.pure
        /\ At(p, "end") => j.status = "READY" /\ provenance

StoreInv ==
    /\ Typed /\ Writing /\ Separate
    /\ \A p \in Procs : OwnPartial(p) /\ GoodPartial(p) /\ Checked(p) /\ Heals(p)

Fine(p) == OwnPartial(p) /\ GoodPartial(p) /\ Checked(p) /\ Heals(p)

-----------------------------------------------------------------------------
(* The loops *)

\* Every bundle has files, and there is one.
LEMMA CatalogHas ==
    ASSUME catalog \in Catalogs
    PROVE  /\ Len(catalog.bundles) \in Nat \ {0} /\ catalog.valid \in BOOLEAN
           /\ \A b \in 1..Len(catalog.bundles) :
                /\ Len(catalog.bundles[b]) \in Nat \ {0}
                /\ \A k \in 1..Len(catalog.bundles[b]) : catalog.bundles[b][k] \in Files
<1>1. /\ catalog.bundles \in Seq(Seq(Files) \ {<<>>}) /\ catalog.bundles # <<>>
      /\ catalog.valid \in BOOLEAN
  BY CatalogAssumption
<1>2. Len(catalog.bundles) \in Nat \ {0}
  BY <1>1
<1>3. ASSUME NEW b \in 1..Len(catalog.bundles)
      PROVE  /\ Len(catalog.bundles[b]) \in Nat \ {0}
             /\ \A k \in 1..Len(catalog.bundles[b]) : catalog.bundles[b][k] \in Files
  <2>1. catalog.bundles[b] \in Seq(Files) /\ catalog.bundles[b] # <<>>
    BY <1>1
  <2>2. QED
    BY <2>1
<1>4. QED
  BY <1>1, <1>2, <1>3

\* What comes before a bundle, and what all bundles have.
LEMMA WheelsAre ==
    ASSUME catalog \in Catalogs
    PROVE  /\ Wheels \subseteq Files /\ Earlier(1) = {}
           /\ Wheels = Earlier(Len(catalog.bundles)) \cup BundleFiles(Len(catalog.bundles))
           /\ \A b \in 1..Len(catalog.bundles) :
                Earlier(b + 1) = Earlier(b) \cup BundleFiles(b) /\ Earlier(b) \subseteq Wheels
                /\ BundleFiles(b) \subseteq Wheels
<1>1. Wheels = UNION {BundleFiles(b) : b \in 1..Len(catalog.bundles)}
  BY DEF Wheels, BundleFiles
<1>2. \A b \in 1..Len(catalog.bundles) : BundleFiles(b) \subseteq Files
  BY CatalogHas DEF BundleFiles
<1>3. Len(catalog.bundles) \in Nat \ {0}
  BY CatalogHas
<1>4. ASSUME NEW n \in Nat
      PROVE  Earlier(n) = UNION {BundleFiles(c) : c \in {d \in 1..Len(catalog.bundles) : d < n}}
  BY DEF Earlier
<1>5. \A f, n : n \in Nat =>
        (f \in Earlier(n) <=> \E c \in 1..Len(catalog.bundles) : c < n /\ f \in BundleFiles(c))
  BY <1>4
<1>6. \A f : f \in Wheels <=> \E c \in 1..Len(catalog.bundles) : f \in BundleFiles(c)
  BY <1>1
<1>7. Wheels \subseteq Files /\ Earlier(1) = {}
  BY <1>2, <1>3, <1>5, <1>6
<1>8. Wheels = Earlier(Len(catalog.bundles)) \cup BundleFiles(Len(catalog.bundles))
  BY <1>3, <1>5, <1>6
<1>9. ASSUME NEW b \in 1..Len(catalog.bundles)
      PROVE  /\ Earlier(b + 1) = Earlier(b) \cup BundleFiles(b)
             /\ Earlier(b) \subseteq Wheels /\ BundleFiles(b) \subseteq Wheels
  BY <1>3, <1>5, <1>6
<1>10. QED
  BY <1>7, <1>8, <1>9

\* What comes before a file of a bundle.
LEMMA FirstFilesAre ==
    ASSUME Typed, NEW j \in Jobs, j.bundle \in 1..Len(catalog.bundles)
    PROVE  /\ FirstFiles(j, 1) = {}
           /\ \A n \in 1..Len(Bundle(j)) :
                /\ Bundle(j)[n] \in BundleFiles(j.bundle) /\ Bundle(j)[n] \in Files
                /\ FirstFiles(j, n + 1) = FirstFiles(j, n) \cup {Bundle(j)[n]}
                /\ FirstFiles(j, n) \subseteq BundleFiles(j.bundle)
           /\ BundleFiles(j.bundle) =
                FirstFiles(j, Len(Bundle(j))) \cup {Bundle(j)[Len(Bundle(j))]}
<1>1. /\ Len(Bundle(j)) \in Nat \ {0} /\ \A k \in 1..Len(Bundle(j)) : Bundle(j)[k] \in Files
      /\ BundleFiles(j.bundle) = {Bundle(j)[k] : k \in 1..Len(Bundle(j))}
  BY CatalogHas DEF Typed, Bundle, BundleFiles
<1>2. \A f, n : n \in Nat =>
        (f \in FirstFiles(j, n) <=> \E k \in 1..Len(Bundle(j)) : k < n /\ f = Bundle(j)[k])
  BY DEF FirstFiles
<1>3. \A f : f \in BundleFiles(j.bundle) <=> \E k \in 1..Len(Bundle(j)) : f = Bundle(j)[k]
  BY <1>1
<1>4. FirstFiles(j, 1) = {}
  BY <1>1, <1>2
<1>5. ASSUME NEW n \in 1..Len(Bundle(j))
      PROVE  /\ Bundle(j)[n] \in BundleFiles(j.bundle) /\ Bundle(j)[n] \in Files
             /\ FirstFiles(j, n + 1) = FirstFiles(j, n) \cup {Bundle(j)[n]}
             /\ FirstFiles(j, n) \subseteq BundleFiles(j.bundle)
  BY <1>1, <1>2, <1>3
<1>6. BundleFiles(j.bundle) = FirstFiles(j, Len(Bundle(j))) \cup {Bundle(j)[Len(Bundle(j))]}
  BY <1>1, <1>2, <1>3
<1>7. QED
  BY <1>4, <1>5, <1>6

JobFields == {"pc", "fetch", "last", "bundle", "file", "listed", "flawed", "errors", "got",
              "pure", "status", "alone", "spoiled"}
Alike(j, k, changed) == \A f \in JobFields \ changed : k[f] = j[f]

\* What the end of a bundle leads to.
Onward(j, k) ==
    /\ k \in Jobs /\ Placed(k) /\ Alike(j, k, {"pc", "bundle", "last"})
    /\ \/ /\ k.pc = "list" /\ k.last = j.last
          /\ j.bundle + 1 \in 1..Len(catalog.bundles) /\ k.bundle = j.bundle + 1
       \/ k.pc = "conclude" /\ j.last /\ k.last /\ j.bundle = Len(catalog.bundles)
       \/ k.pc = "list" /\ ~j.last /\ k.last /\ k.bundle = 1 /\ j.bundle = Len(catalog.bundles)

\* NextBundle keeps the job within the catalog.
LEMMA NextBundleIs ==
    ASSUME Typed, NEW j \in Jobs, j.bundle \in 1..Len(catalog.bundles)
    PROVE  Onward(j, NextBundle(j))
<1>1. Len(catalog.bundles) \in Nat \ {0}
  BY CatalogHas DEF Typed
<1>2. CASE j.bundle < Len(catalog.bundles)
  <2> DEFINE k == [j EXCEPT !.bundle = j.bundle + 1, !.pc = "list"]
  <2>1. NextBundle(j) = k
    BY <1>2 DEF NextBundle
  <2>2. k.pc = "list" /\ k.bundle = j.bundle + 1 /\ j.bundle + 1 \in 1..Len(catalog.bundles)
    BY <1>1, <1>2 DEF Jobs
  <2>3. k \in Jobs /\ Alike(j, k, {"pc", "bundle", "last"}) /\ k.last = j.last
    <3>1. k \in Jobs
      <4>1. \A n \in Nat : [j EXCEPT !.bundle = n, !.pc = "list"] \in Jobs
        BY DEF Jobs
      <4>2. j.bundle + 1 \in Nat
        BY <1>1, <2>2
      <4>3. QED
        BY <4>1, <4>2
    <3>2. Alike(j, k, {"pc", "bundle"})
      BY DEF Jobs, Alike, JobFields
    <3>3. QED
      BY <3>1, <3>2 DEF Alike, JobFields
  <2>4. Placed(k)
    BY <2>2 DEF Placed, InFiles, Fetching
  <2>5. QED
    BY <2>1, <2>2, <2>3, <2>4 DEF Onward
<1>3. CASE j.bundle = Len(catalog.bundles) /\ j.last
  <2>1. NextBundle(j) = [j EXCEPT !.pc = "conclude"]
    BY <1>1, <1>3 DEF NextBundle
  <2>2. QED
    BY <1>1, <1>3, <2>1 DEF Onward, Jobs, Alike, JobFields, Placed, InFiles, Fetching
<1>4. CASE j.bundle = Len(catalog.bundles) /\ ~j.last
  <2> DEFINE k == [j EXCEPT !.last = TRUE, !.bundle = 1, !.pc = "list"]
  <2>1. NextBundle(j) = k
    BY <1>1, <1>4 DEF NextBundle
  <2>2. k.pc = "list" /\ k.bundle = 1 /\ k.last
    BY DEF Jobs
  <2>3. k \in Jobs /\ Alike(j, k, {"pc", "bundle", "last"})
    BY DEF Jobs, Alike, JobFields
  <2>4. Placed(k)
    BY <1>1, <2>2 DEF Placed, InFiles, Fetching
  <2>5. QED
    BY <1>4, <2>1, <2>2, <2>3, <2>4 DEF Onward
<1>5. QED
  BY <1>1, <1>2, <1>3, <1>4

-----------------------------------------------------------------------------
(* What a step may do to the files and to the other processes *)

\* Every action but a start: the process replaces its own job.
Moves(p) ==
    /\ Active(p) /\ UNCHANGED <<catalog, starts>>
    /\ job' = [job EXCEPT ![p] = job'[p]]
    /\ job'[p] \in Jobs /\ Placed(job'[p])
    /\ job'[p].alone = job[p].alone /\ job'[p].fetch = job[p].fetch
    /\ disturbed => disturbed'
    /\ provenance => provenance'

\* Whole wheels stay whole if p is alone, and files in good hands stay in them
\* while nothing fails.
Careful(p) ==
    /\ job[p].alone => \A f \in Files : Whole(Final(f)) => Whole(Final(f))'
    /\ ~disturbed' => \A f \in Files : /\ InGoodHands(Final(f)) => InGoodHands(Final(f))'
                                       /\ Handed(Shared(f)) => Handed(Shared(f))'

TypedFiles ==
    disk \in [Entries -> FileStates] /\ provenance \in BOOLEAN /\ disturbed \in BOOLEAN

\* A wheel and its partial file are two, and those of another wheel two others.
LEMMA EntriesAre ==
    \A f \in Files : /\ Final(f) \in Entries /\ Shared(f) \in Entries
                     /\ \A g \in Files : Final(f) # Shared(g) /\ (Final(f) = Final(g) => f = g)
                                         /\ (Shared(f) = Shared(g) => f = g)
BY DEF Final, Shared, Entries

\* The file that the loop is at is one of the catalog.
LEMMA CurrentIs ==
    ASSUME Typed, NEW p \in Procs, job[p].pc \in InFiles
    PROVE  /\ Current(p) \in Files /\ Final(Current(p)) \in Entries
           /\ Shared(Current(p)) \in Entries
<1>1. job[p].file \in 1..Len(Bundle(job[p])) /\ job[p].bundle \in 1..Len(catalog.bundles)
  BY DEF Typed, Placed
<1>2. Current(p) \in Files
  BY <1>1, CatalogHas DEF Typed, Current, Bundle
<1>3. QED
  BY <1>2, EntriesAre

\* What a step of one process leaves to the others.
LEMMA MovesOn ==
    ASSUME Typed, NEW p \in Procs, Moves(p)
    PROVE  /\ job' \in [Procs -> Jobs] /\ \A q \in Procs : Placed(job[q])'
           /\ \A q \in Procs \ {p} : job'[q] = job[q]
           /\ \A q \in Procs : Current(q)' = Bundle(job'[q])[job'[q].file]
           /\ \A q \in Procs \ {p} : Current(q)' = Current(q)
<1>1. \A q \in Procs \ {p} : job'[q] = job[q]
  BY DEF Typed, Moves
<1>2. job' \in [Procs -> Jobs]
  BY DEF Typed, Moves
<1>3. UNCHANGED catalog
  BY DEF Moves
<1>4. \A q \in Procs : Placed(job[q])'
  BY <1>1, <1>3 DEF Typed, Moves, Placed, Bundle
<1>5. \A q \in Procs : Current(q)' = Bundle(job'[q])[job'[q].file]
  BY <1>3 DEF Current, Bundle
<1>6. QED
  BY <1>1, <1>2, <1>3, <1>4, <1>5 DEF Current, Bundle

\* Who has a file open is not p, unless p is streaming.
LEMMA WritersElse ==
    ASSUME StoreInv, NEW p \in Procs, Moves(p), ~At(p, "stream"), NEW x \in Entries
    PROVE  \A q \in disk[x].writers : q \in Procs /\ q # p /\ job'[q] = job[q]
<1>1. disk[x].writers \subseteq Procs
  BY DEF StoreInv, Typed, FileStates
<1>2. \A q \in disk[x].writers : At(q, "stream")
  BY DEF StoreInv, Writing
<1>3. QED
  BY <1>1, <1>2, MovesOn DEF StoreInv

\* A file that is left alone by p stays in good hands.
LEMMA LeftAlone ==
    ASSUME StoreInv, NEW p \in Procs, Moves(p), ~At(p, "stream"),
           NEW x \in Entries, disk'[x] = disk[x]
    PROVE  /\ Whole(x) => Whole(x)'
           /\ InGoodHands(x) => InGoodHands(x)'
           /\ Handed(x) => Handed(x)'
<1>1. \A q \in disk[x].writers : job'[q] = job[q]
  BY WritersElse
<1>2. Whole(x) => Whole(x)'
  BY DEF Whole
<1>3. InGoodHands(x) => InGoodHands(x)'
  BY <1>1 DEF InGoodHands
<1>4. QED
  BY <1>2, <1>3 DEF Handed

\* A step that leaves the disk alone.
LEMMA StaysCareful ==
    ASSUME StoreInv, NEW p \in Procs, Moves(p), ~At(p, "stream"), UNCHANGED disk
    PROVE  Careful(p)
BY LeftAlone, EntriesAre DEF Careful

\* A file that is not there.
LEMMA NoFileTyped == NoFile \in FileStates /\ NoFile.exists = FALSE /\ NoFile.writers = {}
BY DEF NoFile, FileStates, Nothing, Contents

\* A partial file goes.
LEMMA UnlinkedCareful ==
    ASSUME StoreInv, NEW p \in Procs, Moves(p), ~At(p, "stream"), NEW f \in Files,
           disk' = Unlinked(f)
    PROVE  Careful(p) /\ disk' \in [Entries -> FileStates] /\ ~disk'[Shared(f)].exists
<1>1. /\ disk' \in [Entries -> FileStates] /\ disk'[Shared(f)] = NoFile
      /\ \A x \in Entries \ {Shared(f)} : disk'[x] = disk[x]
  BY NoFileTyped, EntriesAre DEF StoreInv, Typed, Unlinked, Partial
<1>2. \A g \in Files : (Whole(Final(g)) => Whole(Final(g))')
                       /\ (InGoodHands(Final(g)) => InGoodHands(Final(g))')
  BY <1>1, LeftAlone, EntriesAre
<1>3. \A g \in Files \ {f} : Handed(Shared(g)) => Handed(Shared(g))'
  BY <1>1, LeftAlone, EntriesAre
<1>4. Handed(Shared(f))'
  BY <1>1, NoFileTyped DEF Handed
<1>5. QED
  BY <1>1, <1>2, <1>3, <1>4, NoFileTyped DEF Careful

\* A process closes what it has open: nothing else is changed.
LEMMA ClosedIs ==
    ASSUME NEW p \in Procs, NEW d \in [Entries -> FileStates]
    PROVE  /\ Closed(p, d) \in [Entries -> FileStates]
           /\ \A x \in Entries : /\ Closed(p, d)[x].exists = d[x].exists
                                 /\ Closed(p, d)[x].content = d[x].content
                                 /\ Closed(p, d)[x].writers = d[x].writers \ {p}
BY DEF Closed, FileStates

\* A failed download, or the end of a process.
LEMMA FailureCareful ==
    ASSUME StoreInv, NEW p \in Procs, Moves(p), disturbed', NEW f \in Files,
           NEW d \in {disk, Unlinked(f)}, disk' = Closed(p, d)
    PROVE  Careful(p) /\ disk' \in [Entries -> FileStates]
<1>1. d \in [Entries -> FileStates] /\ \A x \in Entries \ {Shared(f)} : d[x] = disk[x]
  BY NoFileTyped, EntriesAre DEF StoreInv, Typed, Unlinked, Partial
<1>2. \A g \in Files : Whole(Final(g)) => Whole(Final(g))'
  BY <1>1, ClosedIs, EntriesAre DEF Whole
<1>3. QED
  BY <1>1, <1>2, ClosedIs DEF Careful

\* Nobody but a streaming process keeps a file open.
LEMMA WritingKept ==
    ASSUME StoreInv, NEW p \in Procs, Moves(p),
           \A x \in Entries : \A q \in disk'[x].writers :
               (q = p /\ At(p, "stream")') \/ (q # p /\ q \in disk[x].writers)
    PROVE  Writing'
<1> SUFFICES ASSUME NEW x \in Entries, NEW q \in disk'[x].writers PROVE At(q, "stream")'
    BY DEF Writing
<1>1. CASE q # p
  <2>1. q \in Procs /\ At(q, "stream")
    BY <1>1 DEF StoreInv, Typed, FileStates, Writing
  <2>2. QED
    BY <1>1, <2>1, MovesOn DEF StoreInv, At
<1>2. CASE q = p
  BY <1>2
<1>3. QED
  BY <1>1, <1>2

\* A process answers for files of the catalog only.
LEMMA SightedFiles ==
    ASSUME Typed, NEW p \in Procs PROVE Sighted(job[p]) \cup Passed(job[p]) \subseteq Files
<1>1. job[p] \in Jobs /\ job[p].bundle \in 1..Len(catalog.bundles) /\ catalog \in Catalogs
  BY DEF Typed, Placed
<1>2. Wheels \subseteq Files /\ Earlier(job[p].bundle) \subseteq Wheels
      /\ BundleFiles(job[p].bundle) \subseteq Wheels
  BY <1>1, WheelsAre
<1>3. job[p].pc = "read" => FirstFiles(job[p], job[p].file) \subseteq Wheels
  <2>1. job[p].pc = "read" => job[p].file \in 1..Len(Bundle(job[p]))
    BY DEF Typed, Placed, InFiles
  <2>2. QED
    BY <1>1, <1>2, <2>1, FirstFilesAre
<1>4. QED
  BY <1>2, <1>3 DEF Sighted, Passed

\* It is enough to look at the process that takes the step.
LEMMA OthersFollow ==
    ASSUME StoreInv, NEW p \in Procs, Moves(p), Careful(p), TypedFiles', Writing', Fine(p)'
    PROVE  StoreInv'
<1>1. Typed'
  BY MovesOn DEF StoreInv, Typed, TypedFiles, Moves
<1>2. /\ \A q \in Procs : job'[q].alone = job[q].alone
      /\ \A q \in Procs : Active(q)' => Active(q)
  BY MovesOn DEF StoreInv, Moves, Active
<1>3. Separate'
  BY <1>2 DEF StoreInv, Separate
<1>4. ASSUME NEW q \in Procs \ {p} PROVE Fine(q)'
  <2>1. /\ job'[q] = job[q] /\ Current(q)' = Current(q) /\ Bundle(job[q])' = Bundle(job[q])
        /\ UNCHANGED catalog /\ Fine(q)
    BY MovesOn DEF StoreInv, Moves, Fine, Bundle
  <2>2. job[q].alone => ~Active(q) /\ job[p].alone
    BY DEF StoreInv, Separate, Moves
  <2>3. OwnPartial(q)'
    BY <2>1, <2>2 DEF OwnPartial, Active, At
  <2>4. GoodPartial(q)'
    <3>1. ASSUME GoodPartial(q)!1' PROVE Handed(Shared(Current(q)))'
      <4>1. ~disturbed /\ job[q].pc \in Fetching /\ Current(q) \in Files
        BY <2>1, <3>1, CurrentIs DEF Moves, InFiles, StoreInv
      <4>2. Handed(Shared(Current(q)))
        BY <2>1, <4>1 DEF Fine, GoodPartial
      <4>3. ASSUME NEW f \in Files, f = Current(q) PROVE Handed(Shared(f))'
        BY <3>1, <4>1, <4>2, <4>3 DEF Careful
      <4>4. QED
        BY <2>1, <4>1, <4>3
    <3>2. QED
      BY <3>1 DEF GoodPartial
  <2>5. Checked(q)'
    <3>1. Sighted(job[q])' = Sighted(job[q]) /\ Passed(job[q])' = Passed(job[q])
      BY <2>1 DEF Sighted, Passed, FirstFiles, BundleFiles, Earlier, Wheels
    <3>2. Sighted(job[q]) \cup Passed(job[q]) \subseteq Files
      BY SightedFiles DEF StoreInv
    <3>3. ASSUME NEW f \in Files, Holds(job[q], f) PROVE Holds(job[q], f)'
      BY <2>1, <2>2, <3>3 DEF Holds, Careful, Moves
    <3>4. \A f \in Sighted(job[q]) \cup Passed(job[q]) : Holds(job[q], f)
      BY <2>1 DEF Fine, Checked
    <3>5. QED
      BY <2>1, <3>1, <3>2, <3>3, <3>4 DEF Fine, Checked, At
  <2>6. Heals(q)'
    BY <2>1, <2>2 DEF Fine, Heals, Healing, Active, At, Moves
  <2>7. QED
    BY <2>3, <2>4, <2>5, <2>6 DEF Fine
<1>5. QED
  BY <1>1, <1>3, <1>4 DEF StoreInv, Fine

-----------------------------------------------------------------------------
(* What a process keeps to where its loops go on *)

\* A bundle that is given up: it is not READY, and no lone fetch with a working
\* network comes here.
LEMMA BreakFine ==
    ASSUME StoreInv, NEW p \in Procs, Moves(p), NEW j \in Jobs, Onward(j, job'[p]),
           j.errors, j.status # "READY", ~Healing(j), j.fetch = job[p].fetch
    PROVE  Fine(p)'
<1>1. /\ job'[p].pc \in {"list", "conclude"} /\ job'[p].errors /\ job'[p].status # "READY"
      /\ job'[p].pc = "conclude" => job'[p].last
      /\ job'[p].fetch = j.fetch /\ job'[p].alone = j.alone /\ job'[p].spoiled = j.spoiled
      /\ UNCHANGED catalog
  BY DEF Onward, Alike, JobFields, Moves
<1>2. OwnPartial(p)' /\ GoodPartial(p)'
  BY <1>1 DEF OwnPartial, GoodPartial, At, Fetching
<1>3. Checked(p)'
  <2>1. (Sighted(job[p]) \cup Passed(job[p]))' = {}
    BY <1>1 DEF Sighted, Passed
  <2>2. QED
    BY <1>1, <2>1 DEF Checked, At, Fetching
<1>4. Heals(p)'
  BY <1>1 DEF Heals, Healing
<1>5. QED
  BY <1>2, <1>3, <1>4 DEF Fine

\* A process that is gone or has ended without a READY.
LEMMA EndFine ==
    ASSUME StoreInv, NEW p \in Procs, Moves(p), job'[p].pc \in {"end", "dead"},
           job'[p].status # "READY", job'[p].pc = "end" => ~Healing(job[p])',
           UNCHANGED catalog
    PROVE  Fine(p)'
<1>1. OwnPartial(p)' /\ GoodPartial(p)'
  BY DEF OwnPartial, GoodPartial, At, Fetching
<1>2. Checked(p)'
  BY DEF Checked, Sighted, Passed, At, Fetching
<1>3. Heals(p)'
  BY DEF Heals, Active, At
<1>4. QED
  BY <1>1, <1>2, <1>3 DEF Fine

\* A process at work is not READY yet.
LEMMA NotYet == ASSUME StoreInv, NEW p \in Procs, Active(p) PROVE job[p].status # "READY"
BY DEF StoreInv, Checked, Active, At

\* The next file, once this one is in place.
LEMMA NextFileFine ==
    ASSUME StoreInv, NEW p \in Procs, Moves(p), job[p].pc \in {"file", "publish"},
           job'[p] = NextFile(job[p]), NEW c \in Files, c = Current(p),
           Healing(job[p]) => /\ Clean(c)'
                              /\ \A f \in Files : Clean(f) => Clean(f)'
    PROVE  Fine(p)'
<1> DEFINE j == job[p]
           k == job'[p]
<1>1. /\ j \in Jobs /\ Typed /\ j.bundle \in 1..Len(catalog.bundles) /\ catalog \in Catalogs
      /\ j.file \in 1..Len(Bundle(j)) /\ Len(Bundle(j)) \in Nat \ {0} /\ ~j.last
      /\ UNCHANGED catalog /\ Fine(p) /\ Active(p) /\ j.status # "READY"
      /\ c = Bundle(j)[j.file]
  <2>1. j.bundle \in 1..Len(catalog.bundles) /\ catalog \in Catalogs
        /\ j.file \in 1..Len(Bundle(j)) /\ j \in Jobs
    BY DEF StoreInv, Typed, Placed, InFiles, Fetching
  <2>2. Len(Bundle(j)) \in Nat \ {0}
    BY <2>1, CatalogHas DEF Bundle
  <2>3. Fine(p) /\ ~j.last
    BY DEF StoreInv, Fine, Checked, Fetching
  <2>4. QED
    BY <2>1, <2>2, <2>3, NotYet DEF StoreInv, Moves, Current
<1>2. \/ /\ k = [j EXCEPT !.file = @ + 1, !.pc = "file"] /\ j.file < Len(Bundle(j))
      \/ Onward(j, k) /\ j.file = Len(Bundle(j))
  BY <1>1, NextBundleIs DEF NextFile
<1>3. /\ k.pc \in {"file", "list"} /\ k.status = j.status /\ k.errors = j.errors
      /\ k.fetch = j.fetch
      /\ k.alone = j.alone /\ k.spoiled = j.spoiled /\ k.flawed = j.flawed
      /\ \/ k.pc = "file" /\ k.file = j.file + 1 /\ k.bundle = j.bundle /\ ~k.last
            /\ j.file < Len(Bundle(j))
         \/ k.pc = "list" /\ ~k.last /\ k.bundle = j.bundle + 1 /\ j.file = Len(Bundle(j))
         \/ k.pc = "list" /\ k.last /\ k.bundle = 1 /\ j.file = Len(Bundle(j))
            /\ j.bundle = Len(catalog.bundles)
  <2>1. CASE k = [j EXCEPT !.file = @ + 1, !.pc = "file"] /\ j.file < Len(Bundle(j))
    BY <1>1, <2>1 DEF Jobs
  <2>2. CASE Onward(j, k) /\ j.file = Len(Bundle(j))
    BY <1>1, <2>2 DEF Onward, Alike, JobFields
  <2>3. QED
    BY <1>2, <2>1, <2>2
<1>4. OwnPartial(p)' /\ GoodPartial(p)'
  BY <1>3 DEF OwnPartial, GoodPartial, At, Fetching
<1>5. Checked(p)'
  <2>1. (Sighted(job[p]) \cup Passed(job[p]))' = {}
    <3>1. Earlier(1)' = {}
      BY <1>1, WheelsAre DEF Earlier, BundleFiles
    <3>2. QED
      BY <1>3, <3>1 DEF Sighted, Passed
  <2>2. QED
    BY <2>1, <1>1, <1>3 DEF Checked, At, Fetching
<1>6. ASSUME Healing(j)
      PROVE  /\ ~k.errors
             /\ \A f \in Ordered(j) \cup {c} : Clean(f)'
             /\ Ordered(job[p])' \subseteq Ordered(j) \cup {c}
  <2>1. ~j.errors /\ \A f \in Ordered(j) : Clean(f) \/ f = c
    BY <1>1, <1>6 DEF Fine, Heals
  <2>2. Ordered(j) \subseteq Files
    <3>1. Ordered(j) \subseteq Earlier(j.bundle) \cup FirstFiles(j, j.file)
                              \cup BundleFiles(j.bundle)
      BY <1>1 DEF Ordered
    <3>2. QED
      BY <1>1, <3>1, WheelsAre, FirstFilesAre
  <2>3. \A f \in Ordered(j) \cup {c} : Clean(f)'
    BY <1>6, <2>1, <2>2
  <2>4. Ordered(j) = Earlier(j.bundle) \cup
          (IF j.flawed THEN FirstFiles(j, j.file) ELSE BundleFiles(j.bundle))
    BY <1>1 DEF Ordered, Fetching
  <2>5. /\ BundleFiles(j.bundle) = FirstFiles(j, Len(Bundle(j))) \cup {Bundle(j)[Len(Bundle(j))]}
        /\ FirstFiles(j, j.file + 1) = FirstFiles(j, j.file) \cup {c}
    <3>1. \A n \in 1..Len(Bundle(j)) : FirstFiles(j, n + 1) = FirstFiles(j, n) \cup {Bundle(j)[n]}
      BY <1>1, FirstFilesAre
    <3>2. QED
      BY <1>1, <3>1, FirstFilesAre
  <2>6. /\ Earlier(j.bundle + 1) = Earlier(j.bundle) \cup BundleFiles(j.bundle)
        /\ Wheels = Earlier(Len(catalog.bundles)) \cup BundleFiles(Len(catalog.bundles))
    BY <1>1, WheelsAre
  <2>7. Ordered(job[p])' = Ordered(k)
    BY <1>1 DEF Ordered, Earlier, BundleFiles, FirstFiles, Bundle, Wheels
  <2>8. Ordered(k) \subseteq Ordered(j) \cup {c}
    <3>1. CASE k.pc = "file"
      <4>1. k.file = j.file + 1 /\ k.bundle = j.bundle /\ ~k.last
        BY <1>3, <3>1
      <4>2. FirstFiles(k, k.file) = FirstFiles(j, j.file + 1)
        BY <4>1 DEF FirstFiles, Bundle
      <4>3. QED
        BY <3>1, <4>1, <4>2, <2>4, <2>5, <1>3 DEF Ordered
    <3>2. CASE k.pc = "list"
      <4>1. BundleFiles(j.bundle) \subseteq Ordered(j) \cup {c}
        BY <1>1, <1>3, <2>4, <2>5, <3>2
      <4>2. Earlier(j.bundle) \subseteq Ordered(j)
        BY <2>4
      <4>3. QED
        BY <1>3, <2>6, <3>2, <4>1, <4>2 DEF Ordered, Fetching
    <3>3. QED
      BY <1>3, <3>1, <3>2
  <2>9. QED
    BY <1>3, <2>1, <2>3, <2>7, <2>8
<1>7. Heals(p)'
  <2>1. Healing(job[p])' => Healing(j)
    BY <1>1, <1>3 DEF Healing
  <2>2. Healing(job[p])' => ~job'[p].errors /\ \A f \in Ordered(job[p])' : Clean(f)'
    BY <2>1, <1>6
  <2>3. QED
    BY <2>2, <1>3 DEF Heals, At
<1>8. QED
  BY <1>4, <1>5, <1>7 DEF Fine

-----------------------------------------------------------------------------
(* _verify_bundle and the verdict *)

\* A step that leaves the disk alone keeps the invariant if the process keeps its part.
LEMMA QuietFollow ==
    ASSUME StoreInv, NEW p \in Procs, Moves(p), ~At(p, "stream"), UNCHANGED <<disk, disturbed>>,
           provenance' \in BOOLEAN, Fine(p)'
    PROVE  StoreInv'
<1>1. Careful(p)
  BY StaysCareful
<1>2. Writing'
  BY WritersElse, WritingKept
<1>3. QED
  BY <1>1, <1>2, OthersFollow DEF TypedFiles, StoreInv, Typed

\* What a process answered for, it still does after a careful step of its own.
LEMMA HoldsOn ==
    ASSUME StoreInv, NEW p \in Procs, Moves(p), Careful(p), NEW f \in Files, Holds(job[p], f)
    PROVE  Holds(job[p], f)'
BY DEF Moves, Careful, Holds

\* What the invariant says of a job at once.
LEMMA JobIs ==
    ASSUME StoreInv, NEW p \in Procs
    PROVE  /\ Typed /\ job \in [Procs -> Jobs] /\ job[p] \in Jobs /\ catalog \in Catalogs
           /\ Fine(p)
           /\ job[p].bundle \in 1..Len(catalog.bundles)
           /\ Len(Bundle(job[p])) \in Nat \ {0}
           /\ job[p].pc \in InFiles => job[p].file \in 1..Len(Bundle(job[p]))
<1>1. /\ Typed /\ job \in [Procs -> Jobs] /\ job[p] \in Jobs /\ catalog \in Catalogs /\ Fine(p)
      /\ job[p].bundle \in 1..Len(catalog.bundles)
      /\ job[p].pc \in InFiles => job[p].file \in 1..Len(Bundle(job[p]))
  BY DEF StoreInv, Typed, Placed, Fine
<1>2. QED
  BY <1>1, CatalogHas DEF Bundle

\* A skipped bundle keeps the invariant.
LEMMA SkipsUnclearFollows ==
    ASSUME StoreInv, NEW p \in Procs, SkipsUnclear(p) PROVE StoreInv'
<1> DEFINE j == [job[p] EXCEPT !.errors = TRUE]
<1>1. j \in Jobs /\ j.bundle = job[p].bundle /\ j.errors /\ j.status = job[p].status
      /\ j.fetch = job[p].fetch /\ j.alone = job[p].alone
  <2>1. job[p] \in Jobs
    BY JobIs
  <2>2. QED
    BY <2>1 DEF Jobs
<1>2. Onward(j, NextBundle(j))
  BY <1>1, JobIs, NextBundleIs
<1>3. /\ job' = [job EXCEPT ![p] = NextBundle(j)] /\ job[p].pc = "list"
      /\ catalog.unclear # {} /\ UNCHANGED <<catalog, disk, provenance, starts, disturbed>>
  BY DEF SkipsUnclear, Goes, Breaks, StaysOnDisk, At
<1>4. job'[p] = NextBundle(j)
  BY <1>3, JobIs
<1>5. Moves(p) /\ ~At(p, "stream")
  BY <1>1, <1>2, <1>3, <1>4 DEF Moves, Onward, Alike, JobFields, Active, At, Placed, Bundle
<1>6. Fine(p)'
  BY <1>1, <1>2, <1>3, <1>4, <1>5, NotYet, BreakFine DEF Moves, Healing
<1>7. QED
  BY <1>3, <1>5, <1>6, QuietFollow DEF StoreInv, Typed

\* actual_files keeps the invariant.
LEMMA ListsFollows == ASSUME StoreInv, NEW p \in Procs, Lists(p) PROVE StoreInv'
<1> DEFINE j == job[p]
           names == BundleFiles(j.bundle)
           listed == {x \in names \X {"wheel", "partial"} : disk[x].exists}
           flawed == \E f \in names : Shared(f) \in listed
           k == [j EXCEPT !.listed = listed, !.pc = "read", !.file = 1, !.flawed = flawed]
<1>1. /\ job' = [job EXCEPT ![p] = k] /\ j.pc = "list"
      /\ UNCHANGED <<catalog, disk, provenance, starts, disturbed>>
  BY DEF Lists, Goes, StaysOnDisk, At, BundleFiles, Bundle
<1>2. job'[p] = k
  BY <1>1, JobIs
<1>3. names \subseteq Wheels /\ Wheels \subseteq Files
  BY JobIs, WheelsAre
<1>4. listed \in SUBSET Entries /\ flawed \in BOOLEAN
  BY <1>3 DEF Entries
<1> HIDE DEF listed, flawed
<1>5. /\ k \in Jobs /\ k.listed = listed /\ k.pc = "read" /\ k.file = 1 /\ k.flawed = flawed
      /\ k.fetch = j.fetch /\ k.last = j.last /\ k.bundle = j.bundle /\ k.errors = j.errors
      /\ k.status = j.status /\ k.alone = j.alone /\ k.spoiled = j.spoiled
  <2>1. j \in Jobs
    BY JobIs
  <2>2. QED
    BY <1>4, <2>1 DEF Jobs
<1> HIDE DEF k
<1>6. Placed(job'[p])
  BY <1>2, <1>5, JobIs DEF Placed, Bundle
<1>7. Moves(p) /\ ~At(p, "stream")
  BY <1>1, <1>2, <1>5, <1>6 DEF Moves, Active, At
<1>8. OwnPartial(p)' /\ GoodPartial(p)'
  BY <1>2, <1>5 DEF OwnPartial, GoodPartial, At, Fetching
<1>9. Checked(p)'
  <2>1. Sighted(job[p])' = {}
    <3>1. FirstFiles(k, 1) = {}
      BY <1>5, JobIs, FirstFilesAre
    <3>2. FirstFiles(job[p], 1)' = FirstFiles(k, 1)
      BY <1>1, <1>2 DEF FirstFiles, Bundle
    <3>3. QED
      BY <1>2, <1>5, <3>1, <3>2 DEF Sighted
  <2>2. Passed(job[p])' = Passed(job[p])
    <3>1. /\ UNCHANGED catalog /\ job'[p].pc = "read" /\ job[p].pc = "list"
          /\ job'[p].last = job[p].last /\ job'[p].errors = job[p].errors
          /\ job'[p].bundle = job[p].bundle
      BY <1>1, <1>2, <1>5
    <3>2. QED
      BY <3>1 DEF Passed, Earlier, BundleFiles
  <2>3. \A f \in Passed(job[p]) : f \in Files /\ Holds(job[p], f)'
    BY <1>7, JobIs, SightedFiles, StaysCareful, <1>1, HoldsOn DEF Fine, Checked
  <2>4. QED
    BY <1>2, <1>5, <1>7, <2>1, <2>2, <2>3, NotYet DEF Checked, At, Fetching, Moves
<1>10. Heals(p)'
  <2> SUFFICES ASSUME Healing(job[p])' PROVE Heals(p)'
    BY DEF Heals
  <2>1. Healing(j)
    BY <1>1, <1>2, <1>5 DEF Healing
  <2>2. ~j.errors /\ \A f \in Ordered(j) : Clean(f)
    BY <1>1, <2>1, JobIs DEF Fine, Heals, Active, At, Fetching
  <2>3. Ordered(job[p])' = Ordered(j) /\ \A f : Clean(f)' = Clean(f)
    <3>1. UNCHANGED <<catalog, disk>> /\ job'[p] = k /\ j.pc = "list"
      BY <1>1, <1>2
    <3>2. Ordered(job[p])' = Ordered(j)
      BY <3>1, <1>5 DEF Ordered, Earlier, BundleFiles, Wheels, Fetching
    <3>3. \A f : Clean(f)' = Clean(f)
      BY <3>1 DEF Clean, Whole
    <3>4. QED
      BY <3>2, <3>3
  <2>4. ~flawed => \A f \in names : ~disk[Shared(f)].exists
    BY DEF flawed, listed, Shared
  <2>5. j.last => ~flawed
    BY <1>3, <2>2 DEF flawed, listed, Shared, Ordered, Clean
  <2>6. BundleFiles(job[p].bundle)' = names
    BY <1>1, <1>2, <1>5 DEF BundleFiles
  <2>7. (job[p].listed =
          {x \in BundleFiles(job[p].bundle) \X {"wheel", "partial"} : disk[x].exists})'
    BY <1>1, <1>2, <1>5, <2>6 DEF listed
  <2>8. (~job[p].flawed => \A f \in BundleFiles(job[p].bundle) : ~disk[Shared(f)].exists)'
    BY <1>1, <1>2, <1>5, <2>4, <2>6
  <2>9. QED
    BY <1>2, <1>5, <2>2, <2>3, <2>5, <2>7, <2>8 DEF Heals, At, Fetching
<1>11. QED
  BY <1>1, <1>7, <1>8, <1>9, <1>10, QuietFollow DEF Fine, StoreInv, Typed

\* A wheel that is read keeps the invariant.
LEMMA ReadsFollows == ASSUME StoreInv, NEW p \in Procs, Reads(p) PROVE StoreInv'
<1> DEFINE j == job[p]
           n == Len(Bundle(j))
           k == job'[p]
<1>1. /\ j.pc = "read" /\ j.file \in 1..n /\ n \in Nat \ {0} /\ j \in Jobs /\ Fine(p)
      /\ UNCHANGED <<catalog, disk, provenance, starts, disturbed>>
  BY JobIs DEF Reads, StaysOnDisk, At, InFiles
<1>2. PICK c \in Files : c = Bundle(j)[j.file] /\ c = Current(p) /\ c \in BundleFiles(j.bundle)
  BY <1>1, JobIs, FirstFilesAre DEF Current
<1>3. PICK sound \in BOOLEAN : sound = (Final(c) \in j.listed /\ Whole(Final(c)))
  OBVIOUS
<1> DEFINE i == [j EXCEPT !.flawed = @ \/ ~sound]
<1>4. /\ job' = [job EXCEPT ![p] = IF i.file < Len(Bundle(i)) THEN [i EXCEPT !.file = @ + 1]
                                   ELSE [i EXCEPT !.pc = "sum"]]
      /\ i \in Jobs /\ i.file = j.file /\ Bundle(i) = Bundle(j)
  BY <1>1, <1>2, <1>3 DEF Reads, Goes, Sound, Jobs, Bundle
<1>5. /\ i.flawed = (j.flawed \/ ~sound) /\ i.fetch = j.fetch /\ i.last = j.last
      /\ i.bundle = j.bundle /\ i.errors = j.errors /\ i.status = j.status /\ i.alone = j.alone
      /\ i.spoiled = j.spoiled /\ i.listed = j.listed /\ i.pc = j.pc
  BY <1>1 DEF Jobs
<1> HIDE DEF i
<1>6. k = IF j.file < n THEN [i EXCEPT !.file = j.file + 1] ELSE [i EXCEPT !.pc = "sum"]
  BY <1>4, JobIs
<1>7. \A m \in Nat : /\ [i EXCEPT !.file = m] \in Jobs
                      /\ Alike(i, [i EXCEPT !.file = m], {"file"})
                      /\ [i EXCEPT !.file = m].file = m
  BY <1>4 DEF Jobs, Alike, JobFields
<1>8. /\ [i EXCEPT !.pc = "sum"] \in Jobs /\ Alike(i, [i EXCEPT !.pc = "sum"], {"pc"})
       /\ [i EXCEPT !.pc = "sum"].pc = "sum"
  BY <1>4 DEF Jobs, Alike, JobFields
<1> HIDE DEF n, k
<1>9. /\ k \in Jobs /\ k.flawed = (j.flawed \/ ~sound)
      /\ k.fetch = j.fetch /\ k.last = j.last /\ k.bundle = j.bundle /\ k.errors = j.errors
      /\ k.status = j.status /\ k.alone = j.alone /\ k.spoiled = j.spoiled /\ k.listed = j.listed
      /\ \/ k.pc = "read" /\ k.file = j.file + 1 /\ j.file < n
         \/ k.pc = "sum" /\ j.file = n
  <2>1. CASE j.file < n
    <3>1. j.file + 1 \in Nat
      BY <1>1
    <3>2. k \in Jobs /\ Alike(i, k, {"file"}) /\ k.file = j.file + 1
      BY <1>6, <1>7, <2>1, <3>1
    <3>3. QED
      BY <1>1, <1>5, <2>1, <3>2 DEF Alike, JobFields
  <2>2. CASE j.file = n
    <3>1. k \in Jobs /\ Alike(i, k, {"pc"}) /\ k.pc = "sum"
      BY <1>1, <1>6, <1>8, <2>2
    <3>2. QED
      BY <1>1, <1>5, <2>2, <3>1 DEF Alike, JobFields
  <2>3. QED
    BY <1>1, <2>1, <2>2
<1> USE DEF n, k
<1>10. Placed(k)
  BY <1>1, <1>9, JobIs DEF Placed, Bundle, InFiles, Fetching
<1>11. Moves(p) /\ ~At(p, "stream")
  <2>1. job' = [job EXCEPT ![p] = job'[p]]
    BY <1>4, JobIs
  <2>2. QED
    BY <2>1, <1>1, <1>9, <1>10 DEF Moves, Active, At
<1>12. OwnPartial(p)' /\ GoodPartial(p)'
  BY <1>9 DEF OwnPartial, GoodPartial, At, Fetching
<1>13. Careful(p)
  BY <1>1, <1>11, StaysCareful
<1>14. Checked(p)'
  <2>1. Sighted(job[p])' \subseteq IF k.flawed THEN {} ELSE Sighted(j) \cup {c}
    <3>1. /\ FirstFiles(j, j.file + 1) = FirstFiles(j, j.file) \cup {c}
          /\ j.file = n => BundleFiles(j.bundle) = FirstFiles(j, n) \cup {c}
      <4>1. /\ \A m \in 1..Len(Bundle(j)) :
                 FirstFiles(j, m + 1) = FirstFiles(j, m) \cup {Bundle(j)[m]}
            /\ BundleFiles(j.bundle) = FirstFiles(j, n) \cup {Bundle(j)[n]}
        BY JobIs, FirstFilesAre
      <4>2. QED
        BY <1>1, <1>2, <4>1
    <3>2. k.pc = "read" => FirstFiles(job[p], job[p].file)' = FirstFiles(j, j.file + 1)
      BY <1>1, <1>9 DEF FirstFiles, Bundle
    <3>3. k.pc = "sum" => BundleFiles(job[p].bundle)' = BundleFiles(j.bundle)
      BY <1>1, <1>9 DEF BundleFiles
    <3>4. QED
      BY <1>1, <1>9, <3>1, <3>2, <3>3 DEF Sighted
  <2>2. Passed(job[p])' = Passed(j)
    <3>1. /\ UNCHANGED catalog /\ job'[p].pc \in {"read", "sum"} /\ job[p].pc = "read"
          /\ job'[p].last = job[p].last /\ job'[p].errors = job[p].errors
          /\ job'[p].bundle = job[p].bundle
      BY <1>1, <1>9
    <3>2. QED
      BY <3>1 DEF Passed, Earlier, BundleFiles
  <2>3. \A f \in Sighted(j) \cup Passed(j) : f \in Files /\ Holds(job[p], f)'
    BY <1>1, <1>11, <1>13, JobIs, SightedFiles, HoldsOn DEF Fine, Checked
  <2>4. ~k.flawed => Holds(job[p], c)'
    <3>1. ~k.flawed => Whole(Final(c))'
      BY <1>1, <1>3, <1>9 DEF Whole
    <3>2. Whole(Final(c))' => InGoodHands(Final(c))'
      BY DEF Whole, InGoodHands
    <3>3. QED
      BY <3>1, <3>2 DEF Holds
  <2>5. \A f \in (Sighted(job[p]) \cup Passed(job[p]))' : Holds(job[p], f)'
    BY <2>1, <2>2, <2>3, <2>4
  <2>6. QED
    BY <1>9, <1>11, <2>5, NotYet DEF Checked, At, Fetching, Moves
<1>15. Heals(p)'
  <2> SUFFICES ASSUME Healing(job[p])' PROVE Heals(p)'
    BY DEF Heals
  <2>1. Healing(j) /\ Active(p) /\ j.pc \notin {"file"} \cup Fetching
    BY <1>1, <1>9 DEF Healing, Active, At, Fetching
  <2>2. /\ ~j.errors /\ \A f \in Ordered(j) : Clean(f)
        /\ j.listed = {x \in BundleFiles(j.bundle) \X {"wheel", "partial"} : disk[x].exists}
        /\ ~j.flawed => \A f \in BundleFiles(j.bundle) : ~disk[Shared(f)].exists
        /\ j.last => ~j.flawed
    BY <1>1, <2>1 DEF Fine, Heals
  <2>3. Ordered(job[p])' = Ordered(j)
    <3>1. /\ UNCHANGED catalog /\ k.pc \in {"read", "sum"} /\ j.pc = "read"
          /\ k.last = j.last /\ k.bundle = j.bundle
      BY <1>1, <1>9
    <3>2. Ordered(j) = IF j.last THEN Wheels ELSE Earlier(j.bundle)
      BY <3>1 DEF Ordered, Fetching
    <3>3. Ordered(job[p])' = (IF j.last THEN Wheels' ELSE Earlier(job[p].bundle)')
      BY <3>1 DEF Ordered, Fetching
    <3>4. Wheels' = Wheels /\ Earlier(job[p].bundle)' = Earlier(j.bundle)
      BY <3>1 DEF Wheels, Earlier, BundleFiles
    <3>5. QED
      BY <3>2, <3>3, <3>4
  <2>4. \A f : Clean(f)' = Clean(f)
    BY <1>1 DEF Clean, Whole
  <2>5. j.last => sound
    <3>1. j.last => Clean(c)
      BY <1>2, <2>2, JobIs, WheelsAre DEF Ordered
    <3>2. Clean(c) => Final(c) \in j.listed
      BY <1>2, <2>2 DEF Clean, Whole, Final
    <3>3. QED
      BY <1>3, <3>1, <3>2 DEF Clean
  <2>6. BundleFiles(job[p].bundle)' = BundleFiles(j.bundle)
    BY <1>1, <1>9 DEF BundleFiles
  <2>7. (job[p].listed =
          {x \in BundleFiles(job[p].bundle) \X {"wheel", "partial"} : disk[x].exists})'
    BY <1>1, <1>9, <2>2, <2>6
  <2>8. (~job[p].flawed => \A f \in BundleFiles(job[p].bundle) : ~disk[Shared(f)].exists)'
    BY <1>1, <1>9, <2>2, <2>6
  <2>9. QED
    BY <1>9, <2>2, <2>3, <2>4, <2>5, <2>7, <2>8 DEF Heals, At, Fetching
<1>16. QED
  BY <1>1, <1>11, <1>12, <1>14, <1>15, QuietFollow DEF Fine, StoreInv, Typed

\* total_bytes keeps the invariant.
LEMMA SumsFollows == ASSUME StoreInv, NEW p \in Procs, Sums(p) PROVE StoreInv'
<1> DEFINE j == job[p]
           k == job'[p]
           i == [j EXCEPT !.errors = @ \/ j.flawed]
<1>1. /\ j.pc = "sum" /\ j \in Jobs /\ Fine(p) /\ j.status # "READY" /\ Active(p)
      /\ UNCHANGED <<catalog, disk, provenance, starts, disturbed>>
  BY JobIs, NotYet DEF Sums, StaysOnDisk, At, Active
<1>2. /\ i \in Jobs /\ Onward(i, NextBundle(i)) /\ i.errors = (j.errors \/ j.flawed)
      /\ i.bundle = j.bundle /\ i.last = j.last /\ i.status = j.status /\ i.fetch = j.fetch
      /\ i.alone = j.alone /\ i.spoiled = j.spoiled
  <2>1. /\ i \in Jobs /\ i.errors = (j.errors \/ j.flawed)
        /\ i.bundle = j.bundle /\ i.last = j.last /\ i.status = j.status /\ i.fetch = j.fetch
        /\ i.alone = j.alone /\ i.spoiled = j.spoiled
    BY <1>1 DEF Jobs
  <2>2. QED
    BY <2>1, JobIs, NextBundleIs
<1> HIDE DEF i
<1>3. /\ NextBundle(i) \in Jobs /\ [j EXCEPT !.pc = "file", !.file = 1] \in Jobs
      /\ [j EXCEPT !.pc = "end", !.status = "RAISED"] \in Jobs
  <2>1. NextBundle(i) \in Jobs
    BY <1>2 DEF Onward
  <2>2. QED
    BY <1>1, <2>1 DEF Jobs
<1>4. /\ job' = [job EXCEPT ![p] = k]
      /\ \/ j.last /\ k = NextBundle(i) /\ \A x \in j.listed : disk[x].exists
         \/ ~j.last /\ k = [j EXCEPT !.pc = "file", !.file = 1]
         \/ /\ k = [j EXCEPT !.pc = "end", !.status = "RAISED"]
            /\ \E x \in j.listed : ~disk[x].exists
  <2>1. \E m \in Jobs :
          /\ job' = [job EXCEPT ![p] = m]
          /\ \/ j.last /\ m = NextBundle(i) /\ \A x \in j.listed : disk[x].exists
             \/ ~j.last /\ m = [j EXCEPT !.pc = "file", !.file = 1]
             \/ /\ m = [j EXCEPT !.pc = "end", !.status = "RAISED"]
                /\ \E x \in j.listed : ~disk[x].exists
    BY <1>3 DEF Sums, Goes, i
  <2>2. QED
    BY <2>1, JobIs
<1>5. /\ k \in Jobs /\ k.fetch = j.fetch /\ k.alone = j.alone /\ k.spoiled = j.spoiled
      /\ \/ j.last /\ Onward(i, k) /\ k.status = j.status /\ k.errors = (j.errors \/ j.flawed)
         \/ /\ ~j.last /\ ~k.last /\ k.pc = "file" /\ k.file = 1 /\ k.bundle = j.bundle
            /\ k.flawed = j.flawed /\ k.errors = j.errors /\ k.status = j.status
         \/ /\ k.pc = "end" /\ k.status = "RAISED" /\ k.bundle = j.bundle
            /\ \E x \in j.listed : ~disk[x].exists
  <2>1. CASE j.last /\ k = NextBundle(i)
    <3>1. Onward(i, k)
      BY <1>2, <2>1
    <3>2. k \in Jobs /\ k.fetch = i.fetch /\ k.alone = i.alone /\ k.spoiled = i.spoiled
          /\ k.status = i.status /\ k.errors = i.errors
      BY <3>1 DEF Onward, Alike, JobFields
    <3>3. QED
      BY <1>2, <2>1, <3>1, <3>2
  <2>2. CASE ~j.last /\ k = [j EXCEPT !.pc = "file", !.file = 1]
    BY <1>1, <1>3, <2>2 DEF Jobs
  <2>3. CASE /\ k = [j EXCEPT !.pc = "end", !.status = "RAISED"]
             /\ \E x \in j.listed : ~disk[x].exists
    BY <1>1, <1>3, <2>3 DEF Jobs
  <2>4. QED
    BY <1>4, <2>1, <2>2, <2>3
<1>6. Placed(k)
  BY <1>1, <1>5, JobIs DEF Onward, Placed, Bundle, InFiles, Fetching
<1>7. Moves(p) /\ ~At(p, "stream") /\ Careful(p)
  <2>1. Moves(p) /\ ~At(p, "stream")
    BY <1>1, <1>4, <1>5, <1>6 DEF Moves, At
  <2>2. QED
    BY <1>1, <2>1, StaysCareful
<1>8. \A f \in Sighted(j) \cup Passed(j) : f \in Files /\ Holds(job[p], f)'
  BY <1>1, <1>7, JobIs, SightedFiles, HoldsOn DEF Fine, Checked
<1>9. ASSUME j.last, Onward(i, k), k.status = j.status, k.errors = (j.errors \/ j.flawed)
      PROVE  Fine(p)'
  <2>1. /\ k.pc \in {"list", "conclude"} /\ k.last
        /\ k.pc = "list" => k.bundle = j.bundle + 1
        /\ k.pc = "conclude" => j.bundle = Len(catalog.bundles)
    BY <1>2, <1>9 DEF Onward
  <2>2. OwnPartial(p)' /\ GoodPartial(p)'
    BY <2>1 DEF OwnPartial, GoodPartial, At, Fetching
  <2>3. (Sighted(job[p]) \cup Passed(job[p]))' \subseteq Sighted(j) \cup Passed(j)
    <3>1. Sighted(job[p])' = {}
      BY <2>1 DEF Sighted
    <3>2. CASE ~k.errors
      <4>1. Sighted(j) = BundleFiles(j.bundle) /\ Passed(j) = Earlier(j.bundle)
        BY <1>1, <1>9, <3>2 DEF Sighted, Passed
      <4>2. /\ Earlier(j.bundle + 1) = Earlier(j.bundle) \cup BundleFiles(j.bundle)
            /\ Wheels = Earlier(Len(catalog.bundles)) \cup BundleFiles(Len(catalog.bundles))
        BY JobIs, WheelsAre
      <4>3. Wheels' = Wheels /\ (k.pc = "list" => Earlier(job[p].bundle)' = Earlier(j.bundle + 1))
        <5>1. UNCHANGED catalog /\ (k.pc = "list" => job'[p].bundle = j.bundle + 1)
          BY <1>1, <2>1
        <5>2. QED
          BY <5>1 DEF Wheels, Earlier, BundleFiles
      <4>4. Passed(job[p])' = (IF k.pc = "conclude" THEN Wheels' ELSE Earlier(job[p].bundle)')
        BY <2>1, <3>2 DEF Passed
      <4>5. QED
        BY <2>1, <3>1, <4>1, <4>2, <4>3, <4>4
    <3>3. CASE k.errors
      <4>1. Passed(job[p])' = {}
        BY <3>3 DEF Passed
      <4>2. QED
        BY <3>1, <4>1
    <3>4. QED
      BY <3>2, <3>3
  <2>4. Checked(p)'
    BY <1>1, <1>8, <1>9, <2>1, <2>3 DEF Checked, At, Fetching
  <2>5. Heals(p)'
    <3> SUFFICES ASSUME Healing(job[p])' PROVE Heals(p)'
      BY DEF Heals
    <3>1. Healing(j)
      BY <1>1, <1>5 DEF Healing
    <3>2. ~j.errors /\ ~j.flawed /\ \A f \in Wheels : Clean(f)
      BY <1>1, <1>9, <3>1 DEF Fine, Heals, Ordered, Fetching
    <3>3. Ordered(job[p])' = Wheels /\ \A f : Clean(f)' = Clean(f)
      BY <1>1, <2>1 DEF Ordered, Wheels, Clean, Whole
    <3>4. QED
      BY <1>9, <2>1, <3>2, <3>3 DEF Heals, At, Fetching
  <2>6. QED
    BY <2>2, <2>4, <2>5 DEF Fine
<1>10. ASSUME ~j.last, ~k.last, k.pc = "file", k.file = 1, k.bundle = j.bundle,
              k.flawed = j.flawed, k.errors = j.errors, k.status = j.status
       PROVE  Fine(p)'
  <2>1. OwnPartial(p)' /\ GoodPartial(p)'
    BY <1>10 DEF OwnPartial, GoodPartial, At, Fetching
  <2>2. (Sighted(job[p]) \cup Passed(job[p]))' = {}
    BY <1>10 DEF Sighted, Passed
  <2>3. Checked(p)'
    BY <1>1, <1>10, <2>2 DEF Checked, At, Fetching
  <2>4. Heals(p)'
    <3> SUFFICES ASSUME Healing(job[p])' PROVE Heals(p)'
      BY DEF Heals
    <3>1. Healing(j)
      BY <1>1, <1>5 DEF Healing
    <3>2. /\ ~j.errors /\ \A f \in Earlier(j.bundle) : Clean(f)
          /\ ~j.flawed => \A f \in BundleFiles(j.bundle) : ~disk[Shared(f)].exists
      BY <1>1, <1>10, <3>1 DEF Fine, Heals, Ordered, Fetching
    <3>3. ~j.flawed => \A f \in BundleFiles(j.bundle) : Whole(Final(f))
      BY <1>1, <3>1 DEF Fine, Checked, Sighted, Holds, Healing
    <3>4. Ordered(job[p])' \subseteq
            Earlier(j.bundle) \cup IF j.flawed THEN {} ELSE BundleFiles(j.bundle)
      <4>1. FirstFiles(j, 1) = {}
        BY JobIs, FirstFilesAre
      <4>2. FirstFiles(job[p], 1)' = FirstFiles(j, 1)
        BY <1>1, <1>10 DEF FirstFiles, Bundle
      <4>3. /\ Earlier(job[p].bundle)' = Earlier(j.bundle)
            /\ BundleFiles(job[p].bundle)' = BundleFiles(j.bundle)
        BY <1>1, <1>10 DEF Earlier, BundleFiles
      <4>4. QED
        BY <1>10, <4>1, <4>2, <4>3 DEF Ordered
    <3>5. \A f : Clean(f)' = Clean(f)
      BY <1>1 DEF Clean, Whole
    <3>6. \A f \in Ordered(job[p])' : Clean(f)'
      BY <3>2, <3>3, <3>4, <3>5 DEF Clean
    <3>7. QED
      BY <1>10, <3>2, <3>6 DEF Heals, At, Fetching
  <2>5. QED
    BY <2>1, <2>3, <2>4 DEF Fine
<1>11. ASSUME k.pc = "end", k.status = "RAISED", \E x \in j.listed : ~disk[x].exists
       PROVE  Fine(p)'
  <2>1. ~Healing(j)
    BY <1>1, <1>11 DEF Fine, Heals
  <2>2. ~Healing(job[p])'
    BY <1>1, <1>5, <2>1 DEF Healing
  <2>3. QED
    BY <1>1, <1>7, <1>11, <2>2, EndFine
<1>12. QED
  BY <1>1, <1>5, <1>7, <1>9, <1>10, <1>11, QuietFollow DEF StoreInv, Typed

\* The verdict keeps the invariant.
LEMMA ConcludesFollows == ASSUME StoreInv, NEW p \in Procs, Concludes(p) PROVE StoreInv'
<1> DEFINE j == job[p]
           k == job'[p]
<1>1. /\ j.pc = "conclude" /\ j \in Jobs /\ Fine(p) /\ Active(p) /\ j.last
      /\ UNCHANGED <<catalog, disk, starts, disturbed>>
      /\ provenance' = (provenance \/ (j.fetch /\ ~j.errors))
  BY JobIs DEF Concludes, At, Active, Fine, Checked
<1>2. job' = [job EXCEPT ![p] = [j EXCEPT !.pc = "end",
                                          !.status = IF j.errors THEN "BLOCKED" ELSE "READY"]]
  BY DEF Concludes, Goes
<1>3. /\ k \in Jobs /\ k.pc = "end" /\ k.status = (IF j.errors THEN "BLOCKED" ELSE "READY")
      /\ k.fetch = j.fetch /\ k.alone = j.alone /\ k.spoiled = j.spoiled /\ k.last = j.last
      /\ k.errors = j.errors /\ k.bundle = j.bundle
  <2>1. k = [j EXCEPT !.pc = "end", !.status = IF j.errors THEN "BLOCKED" ELSE "READY"]
    BY <1>2, JobIs
  <2>2. QED
    BY <1>1, <2>1 DEF Jobs
<1>4. Placed(k)
  BY <1>3, JobIs DEF Placed, InFiles, Fetching
<1>5. Moves(p) /\ ~At(p, "stream") /\ Careful(p)
  <2>1. Moves(p) /\ ~At(p, "stream")
    <3>1. job' = [job EXCEPT ![p] = job'[p]]
      BY <1>2, JobIs
    <3>2. QED
      BY <3>1, <1>1, <1>3, <1>4 DEF Moves, At
  <2>2. QED
    BY <1>1, <2>1, StaysCareful
<1>6. \A f \in Passed(j) : f \in Files /\ Holds(job[p], f)'
  BY <1>1, <1>5, JobIs, SightedFiles, HoldsOn DEF Fine, Checked
<1>7. OwnPartial(p)' /\ GoodPartial(p)'
  BY <1>3 DEF OwnPartial, GoodPartial, At, Fetching
<1>8. Checked(p)'
  <2>1. Sighted(job[p])' = {}
    BY <1>3 DEF Sighted
  <2>2. Passed(job[p])' \subseteq Passed(j)
    <3>1. Wheels' = Wheels
      BY <1>1 DEF Wheels
    <3>2. QED
      BY <1>1, <1>3, <3>1 DEF Passed
  <2>3. QED
    BY <1>1, <1>3, <1>6, <2>1, <2>2 DEF Checked, At, Fetching
<1>9. Heals(p)'
  <2> SUFFICES ASSUME Healing(job[p])' PROVE Heals(p)'
    BY DEF Heals
  <2>1. Healing(j) /\ j.fetch
    BY <1>1, <1>3 DEF Healing
  <2>2. ~j.errors
    BY <1>1, <2>1 DEF Fine, Heals
  <2>3. QED
    BY <1>1, <1>3, <2>1, <2>2 DEF Heals, Active, At
<1>10. QED
  BY <1>1, <1>5, <1>7, <1>8, <1>9, QuietFollow DEF Fine, StoreInv, Typed

-----------------------------------------------------------------------------
(* _download *)

\* A step of a download that goes on: the same file, nothing passed or given up.
GoesOn(p) ==
    /\ job[p].pc \in {"file"} \cup Fetching /\ job'[p].pc \in Fetching
    /\ Alike(job[p], job'[p], {"pc", "got", "pure", "spoiled"})
    /\ job[p].spoiled => job'[p].spoiled

\* What the invariant says of a job that is at a file to download.
LEMMA DownloadIs ==
    ASSUME StoreInv, NEW p \in Procs, job[p].pc \in {"file"} \cup Fetching
    PROVE  /\ Current(p) \in Files /\ Active(p) /\ ~job[p].last /\ job[p].status # "READY"
           /\ Current(p) = Bundle(job[p])[job[p].file] /\ Current(p) \in BundleFiles(job[p].bundle)
<1>1. Typed /\ job[p].pc \in InFiles /\ Active(p)
  BY DEF StoreInv, InFiles, Active, Fetching
<1>2. Current(p) \in Files
  BY <1>1, CurrentIs
<1>3. ~job[p].last /\ job[p].status # "READY"
  BY <1>1, NotYet DEF StoreInv, Checked, Fetching
<1>4. Current(p) \in BundleFiles(job[p].bundle)
  BY <1>1, JobIs, FirstFilesAre DEF Current
<1>5. QED
  BY <1>1, <1>2, <1>3, <1>4 DEF Current

\* A download that goes on is answerable for no file, and has only its own in disorder.
LEMMA GoesOnFine ==
    ASSUME StoreInv, NEW p \in Procs, Moves(p), GoesOn(p), NEW c \in Files, c = Current(p),
           Healing(job[p])' => /\ At(p, "stream")' => job'[p].pure
                               /\ \A f \in Files \ {c} : Clean(f) => Clean(f)'
    PROVE  Checked(p)' /\ Heals(p)' /\ Current(p)' = c
<1> DEFINE j == job[p]
           k == job'[p]
<1>1. /\ k.pc \in Fetching /\ j.pc \in {"file"} \cup Fetching /\ k.last = j.last /\ ~j.last
      /\ k.bundle = j.bundle /\ k.file = j.file /\ k.flawed = j.flawed /\ k.errors = j.errors
      /\ k.fetch = j.fetch /\ k.alone = j.alone /\ k.status = j.status /\ j.status # "READY"
      /\ j.spoiled => k.spoiled
      /\ UNCHANGED catalog /\ Active(p)
  BY DownloadIs DEF GoesOn, Alike, JobFields, Moves
<1> HIDE DEF j, k
<1>2. Current(p)' = c
  BY <1>1 DEF Current, Bundle, j, k
<1>3. Checked(p)'
  <2>1. (Sighted(job[p]) \cup Passed(job[p]))' = {}
    BY <1>1 DEF Sighted, Passed, Fetching, k
  <2>2. QED
    BY <2>1, <1>1 DEF Checked, At, Fetching, k
<1>4. Heals(p)'
  <2> SUFFICES ASSUME Healing(job[p])' PROVE Heals(p)'
    BY DEF Heals
  <2>1. Healing(job[p])
    BY <1>1 DEF Healing, j, k
  <2>2. ~j.errors /\ \A f \in Ordered(job[p]) : Clean(f) \/ f = c
    BY <1>1, <2>1, JobIs DEF Fine, Heals, j
  <2>3. Ordered(job[p])' = Ordered(job[p])
    <3>1. Earlier(job[p].bundle)' = Earlier(job[p].bundle)
          /\ BundleFiles(job[p].bundle)' = BundleFiles(job[p].bundle)
      BY <1>1 DEF Earlier, BundleFiles, j, k
    <3>2. FirstFiles(job[p], job[p].file)' = FirstFiles(job[p], job[p].file)
      BY <1>1 DEF FirstFiles, Bundle, j, k
    <3>3. QED
      BY <1>1, <3>1, <3>2 DEF Ordered, j, k
  <2>4. Ordered(job[p]) \subseteq Files
    <3>1. Ordered(job[p]) \subseteq
            Earlier(j.bundle) \cup FirstFiles(job[p], j.file) \cup BundleFiles(j.bundle)
      BY <1>1 DEF Ordered, j
    <3>2. FirstFiles(job[p], j.file) \subseteq BundleFiles(j.bundle)
      BY <1>1, JobIs, FirstFilesAre DEF InFiles, Fetching, j
    <3>3. QED
      BY <1>1, <3>1, <3>2, JobIs, WheelsAre DEF j
  <2>5. \A f \in Ordered(job[p])' : Clean(f)' \/ f = c
    BY <2>2, <2>3, <2>4
  <2>6. At(p, "stream")' => job'[p].pure
    OBVIOUS
  <2>7. QED
    BY <1>1, <1>2, <2>2, <2>5, <2>6 DEF Heals, At, Fetching, k
<1>5. QED
  BY <1>2, <1>3, <1>4

\* The handler of a failed download keeps the invariant.
LEMMA FailsFollows ==
    ASSUME StoreInv, NEW p \in Procs, job[p].pc \in {"file"} \cup Fetching,
           NEW d \in {disk, Unlinked(Current(p))}, Fails(p, d),
           UNCHANGED <<catalog, provenance, starts>>
    PROVE  StoreInv' /\ Careful(p)
<1> DEFINE j == [job[p] EXCEPT !.spoiled = TRUE, !.errors = TRUE]
<1>1. j \in Jobs /\ j.bundle = job[p].bundle /\ j.errors /\ j.spoiled /\ j.status = job[p].status
      /\ j.fetch = job[p].fetch /\ j.alone = job[p].alone
  <2>1. job[p] \in Jobs
    BY JobIs
  <2>2. QED
    BY <2>1 DEF Jobs
<1>2. /\ job' = [job EXCEPT ![p] = NextBundle(j)] /\ disk' = Closed(p, d) /\ disturbed'
      /\ disturbed' \in BOOLEAN
  BY DEF Fails, Goes, Breaks
<1> HIDE DEF j
<1>3. job'[p] = NextBundle(j) /\ Onward(j, job'[p])
  BY <1>1, <1>2, JobIs, NextBundleIs
<1>4. Moves(p)
  <2>1. /\ job' = [job EXCEPT ![p] = job'[p]] /\ job'[p] \in Jobs
        /\ job'[p].alone = job[p].alone /\ job'[p].fetch = job[p].fetch
    BY <1>1, <1>2, <1>3 DEF Onward, Alike, JobFields
  <2>2. Placed(job'[p])
    BY <1>3 DEF Onward
  <2>3. QED
    BY <2>1, <2>2, <1>2, DownloadIs DEF Moves
<1>5. Careful(p) /\ disk' \in [Entries -> FileStates]
  BY <1>2, <1>4, FailureCareful, DownloadIs
<1>6. Fine(p)'
  BY <1>1, <1>3, <1>4, DownloadIs, BreakFine DEF Healing
<1>7. Writing'
  <2>1. d \in [Entries -> FileStates] /\ \A x \in Entries : d[x].writers \subseteq disk[x].writers
    BY DownloadIs, EntriesAre, NoFileTyped DEF StoreInv, Typed, Unlinked, Partial
  <2>2. \A x \in Entries : \A q \in disk'[x].writers : q # p /\ q \in disk[x].writers
    BY <1>2, <2>1, ClosedIs
  <2>3. QED
    BY <1>4, <2>2, WritingKept
<1>8. QED
  BY <1>2, <1>4, <1>5, <1>6, <1>7, OthersFollow DEF TypedFiles, StoreInv, Typed

\* What the loop over the files makes of a job.
LEMMA NextFileIs ==
    ASSUME StoreInv, NEW p \in Procs, job[p].pc \in {"file", "publish"}
    PROVE  LET k == NextFile(job[p]) IN
           k \in Jobs /\ Placed(k) /\ k.alone = job[p].alone /\ k.fetch = job[p].fetch
<1> DEFINE j == job[p]
           k == NextFile(j)
<1>1. /\ j \in Jobs /\ Typed /\ j.bundle \in 1..Len(catalog.bundles)
      /\ j.file \in 1..Len(Bundle(j)) /\ Len(Bundle(j)) \in Nat \ {0}
  BY JobIs DEF InFiles, Fetching
<1>2. CASE j.file < Len(Bundle(j))
  <2>1. k = [j EXCEPT !.file = j.file + 1, !.pc = "file"]
    BY <1>2 DEF NextFile
  <2>2. j.file + 1 \in 1..Len(Bundle(j)) /\ j.file + 1 \in Nat
    BY <1>1, <1>2
  <2>3. \A n \in Nat : LET i == [j EXCEPT !.file = n, !.pc = "file"] IN
            /\ i \in Jobs /\ i.alone = j.alone /\ i.fetch = j.fetch
            /\ i.file = n /\ i.bundle = j.bundle
    BY <1>1 DEF Jobs
  <2> HIDE DEF k
  <2>4. k \in Jobs /\ k.alone = j.alone /\ k.fetch = j.fetch /\ k.file = j.file + 1
        /\ k.bundle = j.bundle
    BY <2>1, <2>2, <2>3
  <2>5. Placed(k)
    BY <1>1, <2>2, <2>4 DEF Placed, Bundle
  <2>6. QED
    BY <2>4, <2>5 DEF k
<1>3. CASE j.file = Len(Bundle(j))
  <2>1. Onward(j, k)
    BY <1>1, <1>3, NextBundleIs DEF NextFile
  <2> HIDE DEF k
  <2>2. k \in Jobs /\ k.alone = j.alone /\ k.fetch = j.fetch /\ Placed(k)
    BY <2>1 DEF Onward, Alike, JobFields
  <2>3. QED
    BY <2>2 DEF k
<1>4. QED
  BY <1>1, <1>2, <1>3

\* The choice whether to download keeps the invariant.
LEMMA FetchesFollows ==
    ASSUME StoreInv, NEW p \in Procs, Fetches(p) PROVE StoreInv' /\ Careful(p)
<1> DEFINE j == job[p]
<1>1. /\ j.pc = "file" /\ j \in Jobs /\ Fine(p) /\ Active(p) /\ ~j.last
      /\ UNCHANGED <<catalog, provenance, starts>> /\ job \in [Procs -> Jobs] /\ Placed(j)
  BY JobIs, DownloadIs DEF Fetches, At, StoreInv, Typed
<1>2. PICK c \in Files : c = Current(p) /\ c \in BundleFiles(j.bundle)
  BY <1>1, DownloadIs
<1>3. CASE Kept(p) /\ Goes(p, NextFile(j)) /\ UNCHANGED <<disk, disturbed>>
  <2>1. /\ job' = [job EXCEPT ![p] = job'[p]] /\ job'[p] = NextFile(j)
    BY <1>1, <1>3 DEF Goes
  <2>2. Moves(p) /\ ~At(p, "stream")
    BY <1>1, <1>3, <2>1, NextFileIs DEF Moves, At
  <2>3. ASSUME Healing(j) PROVE Clean(c)' /\ \A f \in Files : Clean(f) => Clean(f)'
    <3>1. \A f : Clean(f)' = Clean(f)
      BY <1>3 DEF Clean, Whole
    <3>2. ~j.flawed
      BY <1>3 DEF Kept
    <3>3. c \in Ordered(j)
      BY <1>1, <1>2, <3>2 DEF Ordered
    <3>4. Clean(c)
      BY <1>1, <2>3, <3>3 DEF Fine, Heals, Fetching
    <3>5. QED
      BY <3>1, <3>4
  <2>4. Fine(p)'
    BY <1>1, <1>2, <2>1, <2>2, <2>3, NextFileFine
  <2>5. QED
    BY <1>1, <1>3, <2>2, <2>4, QuietFollow, StaysCareful DEF StoreInv, Typed
<1>4. CASE Fails(p, disk)
  BY <1>1, <1>4, FailsFollows
<1>5. CASE /\ disk' = Unlinked(Current(p)) /\ Goes(p, [j EXCEPT !.pc = "open"])
           /\ UNCHANGED disturbed
  <2>1. /\ job' = [job EXCEPT ![p] = job'[p]] /\ job'[p] = [j EXCEPT !.pc = "open"]
    BY <1>1, <1>5 DEF Goes
  <2>2. job'[p] \in Jobs /\ Alike(j, job'[p], {"pc"}) /\ job'[p].pc = "open"
    BY <1>1, <2>1 DEF Jobs, Alike, JobFields, Fetching
  <2>3. /\ Placed(job'[p]) /\ GoesOn(p) /\ job'[p].alone = j.alone /\ job'[p].fetch = j.fetch
    BY <1>1, <2>2 DEF Placed, Alike, JobFields, Bundle, InFiles, Fetching, GoesOn
  <2>4. Moves(p) /\ ~At(p, "stream")
    BY <1>1, <1>5, <2>1, <2>2, <2>3 DEF Moves, At
  <2>5. Careful(p) /\ disk' \in [Entries -> FileStates] /\ ~disk'[Shared(c)].exists
    BY <1>2, <1>5, <2>4, UnlinkedCareful
  <2>6. \A x \in Entries \ {Shared(c)} : disk'[x] = disk[x]
    BY <1>2, <1>5 DEF Unlinked, Partial, StoreInv, Typed
  <2>7. \A f \in Files \ {c} : Clean(f) => Clean(f)'
    BY <2>6, EntriesAre DEF Clean, Whole
  <2>8. Checked(p)' /\ Heals(p)' /\ Current(p)' = c
    BY <1>2, <2>2, <2>3, <2>4, <2>7, GoesOnFine DEF At
  <2>9. OwnPartial(p)' /\ GoodPartial(p)'
    <3>1. ~disk'[Shared(Current(p))'].exists
      BY <2>5, <2>8 DEF Shared
    <3>2. QED
      BY <2>2, <3>1 DEF OwnPartial, GoodPartial, Handed, At
  <2>10. Writing'
    <3>1. \A x \in Entries : disk'[x].writers \subseteq disk[x].writers
      BY <1>2, <1>5, <2>6, NoFileTyped, EntriesAre DEF Unlinked, Partial, StoreInv, Typed
    <3>2. QED
      BY <2>4, <3>1, WritersElse, WritingKept
  <2>11. QED
    BY <1>1, <1>5, <2>4, <2>5, <2>8, <2>9, <2>10, OthersFollow
    DEF Fine, TypedFiles, StoreInv, Typed
<1>6. QED
  BY <1>1, <1>3, <1>4, <1>5 DEF Fetches

\* The open for writing keeps the invariant.
LEMMA OpensFollows ==
    ASSUME StoreInv, NEW p \in Procs, Opens(p) PROVE StoreInv' /\ Careful(p)
<1> DEFINE j == job[p]
<1>1. /\ j.pc = "open" /\ j \in Jobs /\ Fine(p) /\ Active(p) /\ ~j.last
      /\ UNCHANGED <<catalog, provenance, starts>> /\ job \in [Procs -> Jobs] /\ Placed(j)
  BY JobIs, DownloadIs DEF Opens, At, StoreInv, Typed, Fetching
<1>2. PICK c \in Files : c = Current(p)
  BY <1>1, DownloadIs DEF Fetching
<1> DEFINE x == Shared(c)
           opened == [exists |-> TRUE, content |-> Nothing, writers |-> disk[x].writers \cup {p}]
<1>3. CASE Fails(p, Unlinked(Current(p)))
  BY <1>1, <1>3, FailsFollows DEF Fetching
<1>4. CASE /\ disk' = [disk EXCEPT ![x] = opened] /\ UNCHANGED disturbed
           /\ Goes(p, [j EXCEPT !.pc = "stream", !.got = 0, !.pure = TRUE])
  <2>1. /\ job' = [job EXCEPT ![p] = job'[p]]
        /\ job'[p] = [j EXCEPT !.pc = "stream", !.got = 0, !.pure = TRUE]
    BY <1>1, <1>4 DEF Goes
  <2>2. /\ job'[p] \in Jobs /\ Alike(j, job'[p], {"pc", "got", "pure"})
        /\ job'[p].pc = "stream" /\ job'[p].got = 0 /\ job'[p].pure
    <3>1. 0 \in 0..Blocks
      BY CatalogAssumption
    <3>2. QED
      BY <1>1, <2>1, <3>1 DEF Jobs, Alike, JobFields, Fetching
  <2>3. /\ Placed(job'[p]) /\ GoesOn(p) /\ job'[p].alone = j.alone /\ job'[p].fetch = j.fetch
    BY <1>1, <2>2 DEF Placed, Alike, JobFields, Bundle, InFiles, Fetching, GoesOn
  <2>4. Moves(p) /\ ~At(p, "stream")
    BY <1>1, <1>4, <2>1, <2>2, <2>3 DEF Moves, At
  <2>5. /\ x \in Entries /\ disk \in [Entries -> FileStates] /\ opened \in FileStates
        /\ disk'[x] = opened /\ \A y \in Entries \ {x} : disk'[y] = disk[y]
        /\ disk' \in [Entries -> FileStates]
    BY <1>4, EntriesAre DEF StoreInv, Typed, FileStates, Nothing, Contents
  <2>6. \A f \in Files \ {c} : Clean(f) => Clean(f)'
    BY <2>5, EntriesAre DEF Clean, Whole
  <2>7. Checked(p)' /\ Heals(p)' /\ Current(p)' = c
    BY <1>2, <2>2, <2>3, <2>4, <2>6, GoesOnFine
  <2>8. Handed(x)'
    <3>1. \A b \in 1..Blocks : job'[p].got < b
      BY <2>2, CatalogAssumption
    <3>2. QED
      BY <2>5, <3>1 DEF Handed, InGoodHands
  <2>9. Careful(p)
    BY <2>4, <2>5, <2>8, LeftAlone, EntriesAre DEF Careful
  <2>10. \A y \in Entries : p \notin disk[y].writers
    BY <1>1 DEF StoreInv, Writing, At
  <2>11. OwnPartial(p)'
    <3>1. /\ \A y \in Entries : p \in disk'[y].writers => y = x
          /\ disk'[x].exists /\ p \in disk'[x].writers
      BY <2>5, <2>10
    <3>2. \A b \in 1..Blocks : ~(b <= job'[p].got)
      BY <2>2, CatalogAssumption
    <3>3. QED
      BY <2>2, <2>7, <3>1, <3>2 DEF OwnPartial, At
  <2>12. GoodPartial(p)'
    BY <2>7, <2>8 DEF GoodPartial
  <2>13. Writing'
    <3>1. \A y \in Entries : \A q \in disk'[y].writers :
            (q = p /\ At(p, "stream")') \/ (q # p /\ q \in disk[y].writers)
      <4>1. \A y \in Entries : \A q \in disk'[y].writers : q = p \/ q \in disk[y].writers
        BY <2>5
      <4>2. At(p, "stream")'
        BY <2>2 DEF At
      <4>3. QED
        BY <2>10, <4>1, <4>2
    <3>2. QED
      BY <2>4, <3>1, WritingKept
  <2>14. QED
    BY <1>1, <1>4, <2>4, <2>5, <2>7, <2>9, <2>11, <2>12, <2>13, OthersFollow
    DEF Fine, TypedFiles, StoreInv, Typed
<1>5. QED
  BY <1>1, <1>2, <1>3, <1>4 DEF Opens, Partial

\* A block that is written, to every file the process has open, keeps the invariant.
LEMMA ReceivesFollows ==
    ASSUME StoreInv, NEW p \in Procs, Receives(p) PROVE StoreInv' /\ Careful(p)
<1> DEFINE j == job[p]
           n == j.got + 1
<1>1. /\ j.pc = "stream" /\ j \in Jobs /\ Fine(p) /\ Active(p) /\ ~j.last /\ j.got < Blocks
      /\ UNCHANGED <<catalog, provenance, starts>> /\ job \in [Procs -> Jobs] /\ Placed(j)
      /\ disk \in [Entries -> FileStates]
  BY JobIs, DownloadIs DEF Receives, At, StoreInv, Typed, Fetching
<1>2. PICK c \in Files : c = Current(p) /\ Shared(c) \in Entries
  BY <1>1, DownloadIs, EntriesAre DEF Fetching
<1>3. PICK bytes \in {"right", "wrong"} :
        /\ disk' = [x \in Entries |-> IF p \in disk[x].writers
                       THEN [disk[x] EXCEPT !.content[n] = bytes] ELSE disk[x]]
        /\ Goes(p, [j EXCEPT !.got = @ + 1, !.pure = @ /\ bytes = "right",
                             !.spoiled = @ \/ bytes = "wrong"])
        /\ disturbed' = (disturbed \/ bytes = "wrong")
  BY DEF Receives
<1>4. n \in 1..Blocks /\ n \in 0..Blocks /\ j.got \in 0..Blocks
  <2>1. j.got \in 0..Blocks /\ Blocks \in Nat
    BY <1>1, CatalogAssumption DEF Jobs
  <2>2. QED
    BY <1>1, <2>1
<1> HIDE DEF n
<1>5. PICK pure \in BOOLEAN, spoiled \in BOOLEAN :
        pure = (j.pure /\ bytes = "right") /\ spoiled = (j.spoiled \/ bytes = "wrong")
  OBVIOUS
<1>6. /\ job' = [job EXCEPT ![p] = job'[p]]
      /\ job'[p] = [j EXCEPT !.got = n, !.pure = pure, !.spoiled = spoiled]
  BY <1>1, <1>3, <1>5 DEF Goes, n
<1>7. /\ job'[p] \in Jobs /\ Alike(j, job'[p], {"got", "pure", "spoiled"})
      /\ job'[p].pc = "stream" /\ job'[p].got = n /\ job'[p].pure = pure
      /\ job'[p].spoiled = spoiled
  BY <1>1, <1>4, <1>6 DEF Jobs, Alike, JobFields, Fetching
<1>8. /\ Placed(job'[p]) /\ GoesOn(p) /\ job'[p].alone = j.alone /\ job'[p].fetch = j.fetch
  BY <1>1, <1>5, <1>7 DEF Placed, Alike, JobFields, Bundle, InFiles, Fetching, GoesOn
<1>9. Moves(p)
  BY <1>1, <1>3, <1>6, <1>7, <1>8 DEF Moves
<1>10. disk' \in [Entries -> FileStates]
  BY <1>1, <1>3, <1>4 DEF FileStates, Contents
<1>11. \A x \in Entries : /\ disk'[x].exists = disk[x].exists
                          /\ disk'[x].writers = disk[x].writers
                          /\ p \notin disk[x].writers => disk'[x] = disk[x]
                          /\ p \in disk[x].writers =>
                               \A b \in 1..Blocks : disk'[x].content[b] =
                                    IF b = n THEN bytes ELSE disk[x].content[b]
  BY <1>1, <1>3, <1>4 DEF FileStates, Contents
<1>12. j.alone => \A x \in Entries : p \in disk[x].writers <=> x = Shared(c)
  BY <1>1, <1>2 DEF Fine, OwnPartial, At
<1>13. ASSUME NEW x \in Entries, ~disturbed', InGoodHands(x) PROVE InGoodHands(x)'
  <2>1. bytes = "right" /\ disk'[x].exists
    BY <1>3, <1>11, <1>13 DEF InGoodHands
  <2>2. ASSUME NEW b \in 1..Blocks
        PROVE  disk'[x].content[b] = "right" \/ \E q \in disk'[x].writers : job'[q].got < b
    <3>1. disk[x].writers \subseteq Procs
      BY <1>1 DEF FileStates
    <3>2. CASE disk[x].content[b] = "right"
      BY <1>11, <2>1, <3>2
    <3>3. CASE \E q \in disk[x].writers : q # p /\ job[q].got < b
      BY <1>9, <1>11, <3>1, <3>3, MovesOn DEF StoreInv
    <3>4. CASE p \in disk[x].writers /\ j.got < b
      <4>1. b = n \/ n < b
        BY <1>4, <3>4 DEF n
      <4>2. QED
        BY <1>7, <1>11, <2>1, <3>4, <4>1
    <3>5. QED
      BY <1>13, <3>2, <3>3, <3>4 DEF InGoodHands
  <2>3. QED
    BY <2>1, <2>2 DEF InGoodHands
<1>14. Careful(p)
  <2>1. j.alone => \A f \in Files : Whole(Final(f)) => Whole(Final(f))'
    <3>1. j.alone => \A f \in Files : disk'[Final(f)] = disk[Final(f)]
      BY <1>2, <1>11, <1>12, EntriesAre
    <3>2. QED
      BY <3>1 DEF Whole
  <2>2. ASSUME ~disturbed', NEW f \in Files, Handed(Shared(f)) PROVE Handed(Shared(f))'
    <3>1. Shared(f) \in Entries
      BY EntriesAre
    <3>2. QED
      BY <1>11, <1>13, <2>2, <3>1 DEF Handed
  <2>3. QED
    BY <1>13, <2>1, <2>2, EntriesAre DEF Careful
<1>15. Writing'
  BY <1>7, <1>9, <1>11, WritingKept DEF At
<1>16. Checked(p)' /\ Heals(p)' /\ Current(p)' = c
  <2>1. ASSUME Healing(job[p])'
        PROVE  job'[p].pure /\ \A f \in Files \ {c} : Clean(f) => Clean(f)'
    <3>1. /\ ~spoiled /\ j.alone /\ Healing(j)
      BY <1>1, <1>5, <1>7, <1>8, <2>1 DEF Healing
    <3>2. pure
      BY <1>1, <1>5, <3>1 DEF Fine, Heals, At
    <3>3. \A f \in Files \ {c} : /\ disk'[Final(f)] = disk[Final(f)]
                                 /\ disk'[Shared(f)] = disk[Shared(f)]
      BY <1>2, <1>11, <1>12, <3>1, EntriesAre
    <3>4. QED
      BY <1>7, <3>2, <3>3 DEF Clean, Whole
  <2>2. QED
    BY <1>2, <1>8, <1>9, <2>1, GoesOnFine
<1>17. OwnPartial(p)'
  <2> SUFFICES ASSUME j.alone
               PROVE  /\ \A y \in Entries : p \in disk'[y].writers => y = Shared(c)
                      /\ disk'[Shared(c)].exists /\ p \in disk'[Shared(c)].writers
                      /\ pure => \A b \in 1..Blocks :
                                    b <= n => disk'[Shared(c)].content[b] = "right"
    BY <1>7, <1>8, <1>16 DEF OwnPartial, At
  <2>1. /\ \A y \in Entries : p \in disk[y].writers <=> y = Shared(c)
        /\ disk[Shared(c)].exists /\ p \in disk[Shared(c)].writers
        /\ j.pure => \A b \in 1..Blocks : b <= j.got => disk[Shared(c)].content[b] = "right"
    BY <1>1, <1>2, <1>12 DEF Fine, OwnPartial, At
  <2>2. ASSUME pure, NEW b \in 1..Blocks, b <= n PROVE disk'[Shared(c)].content[b] = "right"
    <3>1. b = n \/ b <= j.got
      BY <1>4, <2>2 DEF n
    <3>2. QED
      BY <1>2, <1>5, <1>11, <2>1, <2>2, <3>1
  <2>3. QED
    BY <1>2, <1>11, <2>1, <2>2
<1>18. GoodPartial(p)'
  <2>1. ~disturbed' => ~disturbed
    BY <1>3
  <2>2. ~disturbed' => Handed(Shared(c))
    BY <1>1, <1>2, <2>1 DEF Fine, GoodPartial, Fetching
  <2>3. ~disturbed' => Handed(Shared(c))'
    BY <1>14, <2>2 DEF Careful
  <2>4. QED
    BY <1>16, <2>3 DEF GoodPartial
<1>19. QED
  BY <1>1, <1>3, <1>9, <1>10, <1>14, <1>15, <1>16, <1>17, <1>18, OthersFollow
  DEF Fine, TypedFiles, StoreInv, Typed

\* The end of a stream keeps the invariant.
LEMMA StreamEndsFollows ==
    ASSUME StoreInv, NEW p \in Procs, StreamEnds(p) PROVE StoreInv' /\ Careful(p)
<1> DEFINE j == job[p]
<1>1. /\ j.pc = "stream" /\ j \in Jobs /\ Fine(p) /\ Active(p) /\ ~j.last
      /\ UNCHANGED <<catalog, provenance, starts>> /\ job \in [Procs -> Jobs] /\ Placed(j)
      /\ disk \in [Entries -> FileStates]
  BY JobIs, DownloadIs DEF StreamEnds, At, StoreInv, Typed, Fetching
<1>2. PICK c \in Files : c = Current(p) /\ Shared(c) \in Entries
  BY <1>1, DownloadIs, EntriesAre DEF Fetching
<1>3. CASE Fails(p, Unlinked(Current(p)))
  BY <1>1, <1>3, FailsFollows DEF Fetching
<1>4. CASE /\ j.got = Blocks /\ j.pure /\ disk' = Closed(p, disk) /\ UNCHANGED disturbed
           /\ Goes(p, [j EXCEPT !.pc = "validate"])
  <2>1. /\ job' = [job EXCEPT ![p] = job'[p]] /\ job'[p] = [j EXCEPT !.pc = "validate"]
    BY <1>1, <1>4 DEF Goes
  <2>2. job'[p] \in Jobs /\ Alike(j, job'[p], {"pc"}) /\ job'[p].pc = "validate"
    BY <1>1, <2>1 DEF Jobs, Alike, JobFields, Fetching
  <2>3. /\ Placed(job'[p]) /\ GoesOn(p) /\ job'[p].alone = j.alone /\ job'[p].fetch = j.fetch
    BY <1>1, <2>2 DEF Placed, Alike, JobFields, Bundle, InFiles, Fetching, GoesOn
  <2>4. Moves(p)
    BY <1>1, <1>4, <2>1, <2>2, <2>3 DEF Moves
  <2>5. /\ disk' \in [Entries -> FileStates]
        /\ \A x \in Entries : /\ disk'[x].exists = disk[x].exists
                              /\ disk'[x].content = disk[x].content
                              /\ disk'[x].writers = disk[x].writers \ {p}
    BY <1>1, <1>4, ClosedIs
  <2>6. ASSUME NEW x \in Entries, InGoodHands(x) PROVE InGoodHands(x)'
    <3>1. disk[x].writers \subseteq Procs
      BY <1>1 DEF FileStates
    <3>2. \A b \in 1..Blocks : ~(j.got < b)
      BY <1>4, CatalogAssumption
    <3>3. \A q \in disk[x].writers : q # p => q \in disk'[x].writers /\ job'[q].got = job[q].got
      BY <2>4, <2>5, <3>1, MovesOn DEF StoreInv
    <3>4. QED
      BY <2>5, <2>6, <3>2, <3>3 DEF InGoodHands
  <2>7. Careful(p)
    BY <2>5, <2>6, EntriesAre DEF Careful, Handed, Whole
  <2>8. \A f \in Files : Clean(f) => Clean(f)'
    BY <2>5, EntriesAre DEF Clean, Whole
  <2>9. Checked(p)' /\ Heals(p)' /\ Current(p)' = c
    BY <1>2, <2>2, <2>3, <2>4, <2>8, GoesOnFine DEF At
  <2>10. OwnPartial(p)'
    <3>1. ASSUME j.alone PROVE Whole(Shared(c))'
      <4>1. /\ disk[Shared(c)].exists
            /\ \A b \in 1..Blocks : b <= j.got => disk[Shared(c)].content[b] = "right"
        BY <1>1, <1>2, <1>4, <3>1 DEF Fine, OwnPartial, At
      <4>2. \A b \in 1..Blocks : b <= j.got
        BY <1>4, CatalogAssumption
      <4>3. QED
        BY <1>2, <2>5, <4>1, <4>2 DEF Whole
    <3>2. QED
      BY <2>2, <2>3, <2>9, <3>1 DEF OwnPartial, At
  <2>11. GoodPartial(p)'
    <3>1. ~disturbed => Handed(Shared(c))
      BY <1>1, <1>2 DEF Fine, GoodPartial, Fetching
    <3>2. ~disturbed' => Handed(Shared(c))'
      BY <1>4, <2>7, <3>1 DEF Careful
    <3>3. QED
      BY <2>9, <3>2 DEF GoodPartial
  <2>12. Writing'
    BY <2>4, <2>5, WritingKept
  <2>13. QED
    BY <1>1, <1>4, <2>4, <2>5, <2>7, <2>9, <2>10, <2>11, <2>12, OthersFollow
    DEF Fine, TypedFiles, StoreInv, Typed
<1>5. QED
  BY <1>1, <1>3, <1>4 DEF StreamEnds

\* The archive check keeps the invariant.
LEMMA ValidatesFollows ==
    ASSUME StoreInv, NEW p \in Procs, Validates(p) PROVE StoreInv' /\ Careful(p)
<1> DEFINE j == job[p]
<1>1. /\ j.pc = "validate" /\ j \in Jobs /\ Fine(p) /\ Active(p) /\ ~j.last /\ j.status # "READY"
      /\ UNCHANGED <<catalog, provenance, starts, disturbed>> /\ job \in [Procs -> Jobs]
      /\ Placed(j)
  BY JobIs, DownloadIs DEF Validates, At, StoreInv, Typed, Fetching
<1>2. PICK c \in Files : c = Current(p) /\ Shared(c) \in Entries
  BY <1>1, DownloadIs, EntriesAre DEF Fetching
<1>3. CASE UNCHANGED disk /\ Goes(p, [j EXCEPT !.pc = "publish"])
  <2>1. /\ job' = [job EXCEPT ![p] = job'[p]] /\ job'[p] = [j EXCEPT !.pc = "publish"]
    BY <1>1, <1>3 DEF Goes
  <2>2. job'[p] \in Jobs /\ Alike(j, job'[p], {"pc"}) /\ job'[p].pc = "publish"
    BY <1>1, <2>1 DEF Jobs, Alike, JobFields, Fetching
  <2>3. /\ Placed(job'[p]) /\ GoesOn(p) /\ job'[p].alone = j.alone /\ job'[p].fetch = j.fetch
    BY <1>1, <2>2 DEF Placed, Alike, JobFields, Bundle, InFiles, Fetching, GoesOn
  <2>4. Moves(p) /\ ~At(p, "stream") /\ Careful(p)
    <3>1. Moves(p) /\ ~At(p, "stream")
      BY <1>1, <1>3, <2>1, <2>2, <2>3 DEF Moves, At
    <3>2. QED
      BY <1>3, <3>1, StaysCareful
  <2>5. \A f : Clean(f)' = Clean(f)
    BY <1>3 DEF Clean, Whole
  <2>6. Checked(p)' /\ Heals(p)' /\ Current(p)' = c
    BY <1>2, <2>2, <2>3, <2>4, <2>5, GoesOnFine DEF At
  <2>7. OwnPartial(p)'
    <3>1. j.alone => Whole(Shared(c))
      BY <1>1, <1>2 DEF Fine, OwnPartial
    <3>2. j.alone => Whole(Shared(c))'
      BY <1>3, <3>1 DEF Whole
    <3>3. QED
      BY <2>2, <2>3, <2>6, <3>2 DEF OwnPartial, At
  <2>8. GoodPartial(p)'
    <3>1. ~disturbed => Handed(Shared(c))
      BY <1>1, <1>2 DEF Fine, GoodPartial, Fetching
    <3>2. ~disturbed' => Handed(Shared(c))'
      BY <1>1, <2>4, <3>1 DEF Careful
    <3>3. QED
      BY <2>6, <3>2 DEF GoodPartial
  <2>9. QED
    BY <1>1, <1>3, <2>4, <2>6, <2>7, <2>8, QuietFollow DEF Fine, StoreInv, Typed
<1>4. CASE ~Whole(Shared(c)) /\ disk' = Unlinked(c) /\ Goes(p, Breaks(j))
  <2> DEFINE i == [j EXCEPT !.errors = TRUE]
  <2>1. /\ i \in Jobs /\ i.bundle = j.bundle /\ i.errors /\ i.spoiled = j.spoiled
        /\ i.status = j.status /\ i.fetch = j.fetch /\ i.alone = j.alone
    BY <1>1 DEF Jobs
  <2>2. job' = [job EXCEPT ![p] = NextBundle(i)]
    BY <1>4 DEF Goes, Breaks
  <2> HIDE DEF i
  <2>3. job'[p] = NextBundle(i) /\ Onward(i, job'[p])
    BY <2>1, <2>2, JobIs, NextBundleIs
  <2>4. job' = [job EXCEPT ![p] = job'[p]] /\ job'[p] \in Jobs /\ Placed(job'[p])
        /\ job'[p].alone = j.alone /\ job'[p].fetch = j.fetch
    BY <2>1, <2>2, <2>3 DEF Onward, Alike, JobFields
  <2>5. Moves(p) /\ ~At(p, "stream")
    BY <1>1, <2>4 DEF Moves, At
  <2>6. Careful(p) /\ disk' \in [Entries -> FileStates]
    BY <1>4, <2>5, UnlinkedCareful
  <2>7. ~Healing(i)
    BY <1>1, <1>2, <1>4, <2>1 DEF Fine, OwnPartial, Healing
  <2>8. Fine(p)'
    BY <1>1, <2>1, <2>3, <2>5, <2>7, BreakFine
  <2>9. Writing'
    <3>1. \A x \in Entries : disk'[x].writers \subseteq disk[x].writers
      BY <1>2, <1>4, NoFileTyped DEF Unlinked, Partial, StoreInv, Typed
    <3>2. QED
      BY <2>5, <3>1, WritersElse, WritingKept
  <2>10. QED
    BY <1>1, <2>5, <2>6, <2>8, <2>9, OthersFollow DEF TypedFiles, StoreInv, Typed
<1>5. QED
  BY <1>1, <1>2, <1>3, <1>4 DEF Validates, Partial

\* The rename keeps the invariant.
LEMMA PublishesFollows ==
    ASSUME StoreInv, NEW p \in Procs, Publishes(p) PROVE StoreInv' /\ Careful(p)
<1> DEFINE j == job[p]
<1>1. /\ j.pc = "publish" /\ j \in Jobs /\ Fine(p) /\ Active(p) /\ ~j.last /\ j.status # "READY"
      /\ UNCHANGED <<catalog, provenance, starts, disturbed>> /\ job \in [Procs -> Jobs]
      /\ Placed(j) /\ disk \in [Entries -> FileStates]
  BY JobIs, DownloadIs DEF Publishes, At, StoreInv, Typed, Fetching
<1>2. PICK c \in Files : c = Current(p) /\ Shared(c) \in Entries /\ Final(c) \in Entries
                         /\ Shared(c) # Final(c)
  BY <1>1, DownloadIs, EntriesAre DEF Fetching
<1>3. CASE /\ disk[Shared(c)].exists /\ Goes(p, NextFile(j))
           /\ disk' = [Unlinked(c) EXCEPT ![Final(c)] = disk[Shared(c)]]
  <2>1. /\ job' = [job EXCEPT ![p] = job'[p]] /\ job'[p] = NextFile(j)
    BY <1>1, <1>3 DEF Goes
  <2>2. Moves(p) /\ ~At(p, "stream")
    BY <1>1, <1>3, <2>1, NextFileIs DEF Moves, At
  <2>3. /\ disk'[Final(c)] = disk[Shared(c)] /\ disk'[Shared(c)] = NoFile
        /\ \A x \in Entries \ {Final(c), Shared(c)} : disk'[x] = disk[x]
        /\ disk' \in [Entries -> FileStates]
    BY <1>1, <1>2, <1>3, NoFileTyped DEF Unlinked, Partial
  <2>4. j.alone => Whole(Final(c))'
    <3>1. j.alone => Whole(Shared(c))
      BY <1>1, <1>2 DEF Fine, OwnPartial
    <3>2. QED
      BY <2>3, <3>1 DEF Whole
  <2>5. \A f \in Files \ {c} : /\ disk'[Final(f)] = disk[Final(f)]
                               /\ disk'[Shared(f)] = disk[Shared(f)]
    BY <1>2, <2>3, EntriesAre
  <2>6. ASSUME ~disturbed' PROVE InGoodHands(Final(c))'
    <3>1. InGoodHands(Shared(c))
      BY <1>1, <1>2, <1>3, <2>6 DEF Fine, GoodPartial, Handed, Fetching
    <3>2. \A q \in disk[Shared(c)].writers : job'[q] = job[q]
      BY <1>2, <2>2, WritersElse
    <3>3. QED
      BY <2>3, <3>1, <3>2 DEF InGoodHands
  <2>7. Careful(p)
    <3>1. \A f \in Files \ {c} : /\ Whole(Final(f)) => Whole(Final(f))'
                                 /\ InGoodHands(Final(f)) => InGoodHands(Final(f))'
                                 /\ Handed(Shared(f)) => Handed(Shared(f))'
      BY <2>2, <2>5, LeftAlone, EntriesAre
    <3>2. Handed(Shared(c))'
      BY <2>3, NoFileTyped DEF Handed
    <3>3. QED
      BY <2>4, <2>6, <3>1, <3>2 DEF Careful
  <2>8. Healing(j) => Clean(c)' /\ \A f \in Files : Clean(f) => Clean(f)'
    BY <2>3, <2>4, <2>5, NoFileTyped DEF Healing, Clean, Whole
  <2>9. Fine(p)'
    BY <1>1, <1>2, <2>1, <2>2, <2>8, NextFileFine
  <2>10. Writing'
    <3>1. \A x \in Entries : \A q \in disk'[x].writers : \E y \in Entries : q \in disk[y].writers
      BY <1>2, <2>3, NoFileTyped
    <3>2. \A y \in Entries : \A q \in disk[y].writers : At(q, "stream")'
      BY <2>2, WritersElse DEF StoreInv, Writing, At
    <3>3. QED
      BY <3>1, <3>2 DEF Writing
  <2>11. QED
    BY <1>1, <2>2, <2>3, <2>7, <2>9, <2>10, OthersFollow DEF TypedFiles, StoreInv, Typed
<1>4. CASE /\ ~disk[Shared(c)].exists /\ UNCHANGED disk
           /\ Goes(p, [j EXCEPT !.pc = "end", !.status = "RAISED"])
  <2>1. /\ job' = [job EXCEPT ![p] = job'[p]]
        /\ job'[p] = [j EXCEPT !.pc = "end", !.status = "RAISED"]
    BY <1>1, <1>4 DEF Goes
  <2>2. job'[p] \in Jobs /\ Alike(j, job'[p], {"pc", "status"}) /\ job'[p].pc = "end"
        /\ job'[p].status = "RAISED"
    BY <1>1, <2>1 DEF Jobs, Alike, JobFields
  <2>3. /\ Placed(job'[p]) /\ job'[p].alone = j.alone /\ job'[p].fetch = j.fetch
        /\ job'[p].spoiled = j.spoiled
    BY <1>1, <2>2 DEF Placed, Alike, JobFields, InFiles, Fetching
  <2>4. Moves(p) /\ ~At(p, "stream")
    BY <1>1, <1>4, <2>1, <2>2, <2>3 DEF Moves, At
  <2>5. ~Healing(job[p])'
    BY <1>1, <1>2, <1>4, <2>3 DEF Fine, OwnPartial, Healing, Whole
  <2>6. Fine(p)'
    BY <1>1, <2>2, <2>4, <2>5, EndFine
  <2>7. QED
    BY <1>1, <1>4, <2>4, <2>6, QuietFollow, StaysCareful DEF StoreInv, Typed
<1>5. QED
  BY <1>1, <1>2, <1>3, <1>4 DEF Publishes, Partial

\* A death keeps the invariant.
LEMMA DiesFollows ==
    ASSUME StoreInv, NEW p \in Procs, Dies(p) PROVE StoreInv' /\ Careful(p)
<1> DEFINE j == job[p]
<1>1. /\ Active(p) /\ disk' = Closed(p, disk) /\ disturbed' /\ disturbed' \in BOOLEAN
      /\ UNCHANGED <<catalog, provenance, starts>>
      /\ j \in Jobs /\ job \in [Procs -> Jobs] /\ Placed(j) /\ catalog \in Catalogs
      /\ disk \in [Entries -> FileStates] /\ j.status # "READY"
  BY JobIs, NotYet DEF Dies, StoreInv, Typed
<1>2. job' = [job EXCEPT ![p] = job'[p]] /\ job'[p] = [j EXCEPT !.pc = "dead"]
  BY <1>1 DEF Dies, Goes
<1>3. job'[p] \in Jobs /\ Alike(j, job'[p], {"pc"}) /\ job'[p].pc = "dead"
  BY <1>1, <1>2 DEF Jobs, Alike, JobFields
<1>4. Moves(p)
  BY <1>1, <1>2, <1>3 DEF Moves, Placed, Alike, JobFields, InFiles, Fetching
<1>5. catalog.bundles[1][1] \in Files
  <2>1. 1 \in 1..Len(catalog.bundles)
    BY <1>1, CatalogHas
  <2>2. 1 \in 1..Len(catalog.bundles[1])
    BY <1>1, <2>1, CatalogHas
  <2>3. QED
    BY <1>1, <2>1, <2>2, CatalogHas
<1>6. Careful(p) /\ disk' \in [Entries -> FileStates]
  BY <1>1, <1>4, <1>5, FailureCareful
<1>7. Fine(p)'
  BY <1>1, <1>3, <1>4, EndFine DEF Alike, JobFields
<1>8. Writing'
  <2>1. \A x \in Entries : disk'[x].writers = disk[x].writers \ {p}
    BY <1>1, ClosedIs
  <2>2. QED
    BY <1>4, <2>1, WritingKept
<1>9. QED
  BY <1>1, <1>4, <1>6, <1>7, <1>8, OthersFollow DEF TypedFiles, StoreInv, Typed
-----------------------------------------------------------------------------
(* The start of a process *)

\* The job of a process that starts.
LEMMA NewJobIs ==
    ASSUME NEW isFetch \in BOOLEAN, NEW lone \in BOOLEAN
    PROVE  LET j == NewJob(isFetch, lone) IN
           /\ j \in Jobs /\ j.pc = "list" /\ j.fetch = isFetch /\ j.last = ~isFetch /\ j.bundle = 1
           /\ j.errors = FALSE /\ j.status = "none" /\ j.alone = lone
<1>1. 0 \in 0..Blocks
  BY CatalogAssumption
<1>2. QED
  BY <1>1 DEF NewJob, Jobs

\* A start keeps the invariant: a process that meets others clears their claim to be
\* alone, and what they answer for with it.
LEMMA StartsFollows == ASSUME StoreInv, NEW p \in Procs, Starts(p) PROVE StoreInv'
<1> DEFINE others == {q \in Procs \ {p} : Active(q)}
<1>1. /\ ~Active(p) /\ starts < MaxStarts /\ starts' = starts + 1
      /\ UNCHANGED <<catalog, disk, provenance, disturbed>>
      /\ Typed /\ Writing /\ Separate /\ catalog \in Catalogs /\ job \in [Procs -> Jobs]
  BY DEF Starts, StoreInv, Typed
<1>2. PICK isFetch \in BOOLEAN :
        job' = [q \in Procs |->
                  IF q = p THEN IF catalog.valid THEN NewJob(isFetch, others = {})
                                ELSE [NewJob(isFetch, others = {})
                                        EXCEPT !.pc = "end", !.status = "INVALID"]
                  ELSE [job[q] EXCEPT !.alone = @ /\ others = {}]]
  BY DEF Starts
<1>3. PICK lone \in BOOLEAN : lone = (others = {})
  OBVIOUS
<1> DEFINE k == job'[p]
<1>4. /\ k \in Jobs /\ k.bundle = 1 /\ k.errors = FALSE /\ k.status # "READY" /\ k.alone = lone
      /\ k.last = ~isFetch /\ k.fetch = isFetch
      /\ IF catalog.valid THEN k.pc = "list" ELSE k.pc = "end"
  <2> DEFINE new == NewJob(isFetch, lone)
  <2>1. k = IF catalog.valid THEN new ELSE [new EXCEPT !.pc = "end", !.status = "INVALID"]
    BY <1>2, <1>3
  <2>2. /\ new \in Jobs /\ new.pc = "list" /\ new.fetch = isFetch /\ new.last = ~isFetch
        /\ new.bundle = 1 /\ new.errors = FALSE /\ new.status = "none" /\ new.alone = lone
    BY NewJobIs
  <2> HIDE DEF new, k
  <2>3. CASE catalog.valid
    BY <2>1, <2>2, <2>3
  <2>4. CASE ~catalog.valid
    BY <2>1, <2>2, <2>4 DEF Jobs
  <2>5. QED
    BY <2>3, <2>4
<1>5. ASSUME NEW q \in Procs \ {p}
      PROVE  /\ job'[q] \in Jobs /\ Alike(job[q], job'[q], {"alone"})
             /\ job'[q].alone = (job[q].alone /\ lone)
  <2>1. job'[q] = [job[q] EXCEPT !.alone = job[q].alone /\ lone] /\ job[q] \in Jobs
    BY <1>1, <1>2, <1>3
  <2>2. \A a \in BOOLEAN : /\ [job[q] EXCEPT !.alone = a] \in Jobs
                           /\ Alike(job[q], [job[q] EXCEPT !.alone = a], {"alone"})
                           /\ [job[q] EXCEPT !.alone = a].alone = a
    BY <2>1 DEF Jobs, Alike, JobFields
  <2>3. QED
    BY <2>1, <2>2
<1>6. DOMAIN job' = Procs /\ job' = [q \in Procs |-> job'[q]]
  BY <1>2
<1> HIDE DEF k
<1>7. ASSUME NEW q \in Procs \ {p}
      PROVE  /\ job'[q].pc = job[q].pc /\ job'[q].last = job[q].last
             /\ job'[q].fetch = job[q].fetch /\ job'[q].bundle = job[q].bundle
             /\ job'[q].file = job[q].file
             /\ job'[q].flawed = job[q].flawed /\ job'[q].errors = job[q].errors
             /\ job'[q].listed = job[q].listed /\ job'[q].got = job[q].got
             /\ job'[q].pure = job[q].pure /\ job'[q].status = job[q].status
             /\ job'[q].spoiled = job[q].spoiled /\ (job'[q].alone => job[q].alone /\ lone)
  BY <1>5 DEF Alike, JobFields
<1>8. Typed'
  <2>1. job' \in [Procs -> Jobs]
    BY <1>4, <1>5, <1>6 DEF k
  <2>2. \A q \in Procs : Placed(job[q])'
    <3>1. 1 \in 1..Len(catalog.bundles)
      BY <1>1, CatalogHas
    <3>2. Placed(job[p])'
      BY <1>1, <1>4, <3>1 DEF Placed, InFiles, Fetching, k
    <3>3. \A q \in Procs \ {p} : Placed(job[q])'
      BY <1>1, <1>7 DEF Typed, Placed, Bundle
    <3>4. QED
      BY <3>2, <3>3
  <2>3. starts' \in 0..MaxStarts
    BY <1>1, CatalogAssumption DEF Typed
  <2>4. QED
    BY <1>1, <2>1, <2>2, <2>3 DEF Typed
<1>9. \A x \in Entries : \A q \in disk[x].writers : q \in Procs \ {p} /\ job'[q].got = job[q].got
  <2>1. \A x \in Entries : disk[x].writers \subseteq Procs
    BY <1>1 DEF Typed, FileStates
  <2>2. \A x \in Entries : p \notin disk[x].writers
    BY <1>1 DEF Writing, Active, At
  <2>3. QED
    BY <1>7, <2>1, <2>2
<1>10. Writing'
  BY <1>1, <1>7, <1>9 DEF Writing, At
<1>11. /\ \A x : Whole(x)' = Whole(x)
       /\ \A x \in Entries : InGoodHands(x) => InGoodHands(x)'
  BY <1>1, <1>9 DEF Whole, InGoodHands
<1>12. Separate'
  <2>1. \A q \in Procs \ {p} : Active(q)' = Active(q)
    BY <1>7 DEF Active
  <2>2. CASE lone
    <3>1. \A q \in Procs \ {p} : ~Active(q)
      BY <1>3, <2>2
    <3>2. QED
      BY <1>4, <2>1, <2>2, <3>1 DEF Separate, k
  <2>3. CASE ~lone
    <3>1. \A q \in Procs : ~job'[q].alone
      BY <1>4, <1>7, <2>3 DEF k
    <3>2. QED
      BY <3>1 DEF Separate
  <2>4. QED
    BY <2>2, <2>3
<1>13. Fine(p)'
  <2>1. OwnPartial(p)' /\ GoodPartial(p)'
    BY <1>4 DEF OwnPartial, GoodPartial, At, Fetching, k
  <2>2. Earlier(job[p].bundle)' = {}
    <3>1. Earlier(1) = {}
      BY <1>1, WheelsAre
    <3>2. Earlier(job[p].bundle)' = Earlier(1)
      BY <1>1, <1>4 DEF Earlier, BundleFiles, k
    <3>3. QED
      BY <3>1, <3>2
  <2>3. (Sighted(job[p]) \cup Passed(job[p]))' = {}
    BY <1>4, <2>2 DEF Sighted, Passed, k
  <2>4. Checked(p)'
    BY <1>4, <2>3 DEF Checked, At, Fetching, k
  <2>5. Heals(p)'
    <3> SUFFICES ASSUME Healing(job[p])' PROVE Heals(p)'
      BY DEF Heals
    <3>1. k.pc = "list" /\ ~k.last
      BY <1>1, <1>4 DEF Healing, k
    <3>2. Ordered(job[p])' = {}
      BY <2>2, <3>1 DEF Ordered, Fetching, k
    <3>3. QED
      BY <1>4, <3>1, <3>2 DEF Heals, At, Fetching, k
  <2>6. QED
    BY <2>1, <2>4, <2>5 DEF Fine
<1>14. ASSUME NEW q \in Procs \ {p} PROVE Fine(q)'
  <2>1. /\ Fine(q) /\ UNCHANGED <<catalog, disk, provenance, disturbed>>
        /\ Bundle(job[q])' = Bundle(job[q]) /\ Current(q)' = Current(q)
    BY <1>1, <1>7 DEF StoreInv, Fine, Bundle, Current
  <2>2. OwnPartial(q)'
    BY <1>7, <2>1 DEF Fine, OwnPartial, At, Whole
  <2>3. GoodPartial(q)'
    <3>1. job[q].pc \in Fetching => Current(q) \in Files
      BY <1>1, CurrentIs DEF InFiles
    <3>2. \A f \in Files : Handed(Shared(f)) => Handed(Shared(f))'
      BY <1>1, <1>11, EntriesAre DEF Handed
    <3>3. QED
      BY <1>7, <2>1, <3>1, <3>2 DEF Fine, GoodPartial
  <2>4. Checked(q)'
    <3>1. /\ Wheels' = Wheels /\ BundleFiles(job[q].bundle)' = BundleFiles(job[q].bundle)
          /\ Earlier(job[q].bundle)' = Earlier(job[q].bundle)
          /\ FirstFiles(job[q], job[q].file)' = FirstFiles(job[q], job[q].file)
      BY <1>1, <1>7 DEF Wheels, BundleFiles, Earlier, FirstFiles, Bundle
    <3>2. Sighted(job[q])' = Sighted(job[q]) /\ Passed(job[q])' = Passed(job[q])
      BY <1>7, <3>1 DEF Sighted, Passed
    <3>3. Sighted(job[q]) \cup Passed(job[q]) \subseteq Files
      BY <1>1, SightedFiles
    <3>4. ASSUME NEW f \in Files, Holds(job[q], f) PROVE Holds(job[q], f)'
      BY <1>1, <1>7, <1>11, <3>4, EntriesAre DEF Holds
    <3>5. \A f \in Sighted(job[q]) \cup Passed(job[q]) : Holds(job[q], f)
      BY <2>1 DEF Fine, Checked
    <3>6. QED
      BY <1>7, <2>1, <3>2, <3>3, <3>4, <3>5 DEF Fine, Checked, At
  <2>5. Heals(q)'
    <3> SUFFICES ASSUME Healing(job[q])' PROVE Heals(q)'
      BY DEF Heals
    <3>1. Healing(job[q])
      BY <1>1, <1>7 DEF Healing
    <3>2. /\ Ordered(job[q])' = Ordered(job[q])
          /\ BundleFiles(job[q].bundle)' = BundleFiles(job[q].bundle)
      <4>1. /\ Wheels' = Wheels /\ BundleFiles(job[q].bundle)' = BundleFiles(job[q].bundle)
            /\ Earlier(job[q].bundle)' = Earlier(job[q].bundle)
            /\ FirstFiles(job[q], job[q].file)' = FirstFiles(job[q], job[q].file)
        BY <1>1, <1>7 DEF Wheels, BundleFiles, Earlier, FirstFiles, Bundle
      <4>2. QED
        BY <1>7, <4>1 DEF Ordered
    <3>3. \A f : Clean(f)' = Clean(f)
      BY <1>1 DEF Clean, Whole
    <3>4. QED
      BY <1>7, <2>1, <3>1, <3>2, <3>3 DEF Fine, Heals, Active, At
  <2>6. QED
    BY <2>2, <2>3, <2>4, <2>5 DEF Fine
<1>15. QED
  BY <1>8, <1>10, <1>12, <1>13, <1>14 DEF StoreInv, Fine

-----------------------------------------------------------------------------
(* The invariant *)

\* The invariant holds at first,
LEMMA StoreInit == Init => StoreInv
<1> SUFFICES ASSUME Init PROVE StoreInv
  OBVIOUS
<1>1. /\ catalog \in Catalogs /\ provenance = FALSE /\ starts = 0 /\ disturbed = FALSE
      /\ job = [p \in Procs |-> [NewJob(TRUE, TRUE) EXCEPT !.pc = "idle"]]
  BY DEF Init
<1>2. ASSUME NEW p \in Procs
      PROVE  /\ job[p] \in Jobs /\ job[p].pc = "idle" /\ job[p].bundle = 1
             /\ job[p].status = "none" /\ ~job[p].last
  <2>1. job[p] = [NewJob(TRUE, TRUE) EXCEPT !.pc = "idle"]
    BY <1>1
  <2> DEFINE new == NewJob(TRUE, TRUE)
  <2>2. /\ new \in Jobs /\ new.last = FALSE /\ new.bundle = 1 /\ new.status = "none"
    BY NewJobIs
  <2> HIDE DEF new
  <2>3. QED
    BY <2>1, <2>2 DEF Jobs, new
<1>3. disk \in [Entries -> FileStates] /\ \A x \in Entries : disk[x].writers = {}
  <2>1. PICK wheels \in [Files -> {NoFile, File("wrong"), File("right")}],
             leftovers \in [Files -> {NoFile, File("absent")}] :
           disk = [x \in Entries |-> IF x = Final(x[1]) THEN wheels[x[1]] ELSE leftovers[x[1]]]
    BY DEF Init
  <2>2. \A y \in {NoFile, File("wrong"), File("right"), File("absent")} :
          y \in FileStates /\ y.writers = {}
    <3>1. \A c \in {"absent", "right", "wrong"} : [b \in 1..Blocks |-> c] \in Contents
      BY DEF Contents
    <3>2. \A c \in {"absent", "right", "wrong"} : File(c) \in FileStates /\ File(c).writers = {}
      BY <3>1 DEF File, FileStates
    <3>3. QED
      BY <3>2, NoFileTyped
  <2>3. \A x \in Entries : x[1] \in Files
    BY DEF Entries
  <2>4. \A x \in Entries : disk[x] \in {NoFile, File("wrong"), File("right"), File("absent")}
    BY <2>1, <2>3
  <2>5. QED
    BY <2>1, <2>2, <2>4
<1>4. Typed
  <2>1. job \in [Procs -> Jobs]
    BY <1>1, <1>2
  <2>2. 1 \in 1..Len(catalog.bundles) /\ 0 \in 0..MaxStarts
    BY <1>1, CatalogHas, CatalogAssumption
  <2>3. \A p \in Procs : Placed(job[p])
    BY <1>2, <2>2 DEF Placed, InFiles, Fetching
  <2>4. QED
    BY <1>1, <1>3, <2>1, <2>2, <2>3 DEF Typed
<1>5. Writing /\ Separate
  BY <1>2, <1>3 DEF Writing, Separate, Active
<1>6. ASSUME NEW p \in Procs PROVE Fine(p)
  <2>1. OwnPartial(p) /\ GoodPartial(p) /\ Heals(p)
    BY <1>2 DEF OwnPartial, GoodPartial, Heals, Active, At, Fetching
  <2>2. Sighted(job[p]) \cup Passed(job[p]) = {}
    BY <1>2 DEF Sighted, Passed
  <2>3. QED
    BY <1>2, <2>1, <2>2 DEF Fine, Checked, At, Fetching
<1>7. QED
  BY <1>4, <1>5, <1>6 DEF StoreInv, Fine

\* What a step does to the wheels, from a state of the invariant.
WheelsKept == (\A p \in Procs : Active(p) => job[p].alone)
              => \A f \in Files : Whole(Final(f)) => Whole(Final(f))'

\* every step keeps it,
LEMMA StoreStep == ASSUME StoreInv, [Next]_vars PROVE StoreInv' /\ WheelsKept
<1>1. CASE UNCHANGED vars
  <2>1. /\ catalog' = catalog /\ disk' = disk /\ job' = job /\ provenance' = provenance
        /\ starts' = starts /\ disturbed' = disturbed
    BY <1>1 DEF vars
  <2>2. StoreInv'
    <3>1. Typed' /\ Writing' /\ Separate'
      BY <2>1 DEF StoreInv, Typed, Placed, Bundle, Writing, Separate, At, Active
    <3>2. ASSUME NEW p \in Procs PROVE Fine(p)'
      <4>1. Fine(p) /\ Current(p)' = Current(p)
        BY <2>1 DEF StoreInv, Fine, Current, Bundle
      <4>2. OwnPartial(p)' /\ GoodPartial(p)'
        BY <2>1, <4>1 DEF Fine, OwnPartial, GoodPartial, Handed, InGoodHands, Whole, At
      <4>3. Checked(p)'
        BY <2>1, <4>1 DEF Fine, Checked, Sighted, Passed, FirstFiles, BundleFiles, Earlier, Wheels,
           Holds, InGoodHands, Whole, Bundle, At
      <4>4. Heals(p)'
        BY <2>1, <4>1 DEF Fine, Heals, Healing, Ordered, Clean, Whole, FirstFiles, BundleFiles,
           Earlier, Wheels, Bundle, Active, At
      <4>5. QED
        BY <4>2, <4>3, <4>4 DEF Fine
    <3>3. QED
      BY <3>1, <3>2 DEF StoreInv, Fine
  <2>3. QED
    BY <2>1, <2>2 DEF WheelsKept, Whole
<1>2. ASSUME NEW p \in Procs, Step(p) PROVE StoreInv' /\ WheelsKept
  <2>1. CASE Starts(p) \/ SkipsUnclear(p) \/ Lists(p) \/ Reads(p) \/ Sums(p) \/ Concludes(p)
    <3>1. StoreInv'
      BY <2>1, StartsFollows, SkipsUnclearFollows, ListsFollows, ReadsFollows, SumsFollows,
         ConcludesFollows
    <3>2. UNCHANGED disk
      BY <2>1 DEF Starts, SkipsUnclear, Lists, Reads, Sums, Concludes, StaysOnDisk
    <3>3. QED
      BY <3>1, <3>2 DEF WheelsKept, Whole
  <2>2. CASE Fetches(p) \/ Opens(p) \/ Receives(p) \/ StreamEnds(p) \/ Validates(p)
             \/ Publishes(p) \/ Dies(p)
    <3>1. StoreInv' /\ Careful(p)
      BY <2>2, FetchesFollows, OpensFollows, ReceivesFollows, StreamEndsFollows, ValidatesFollows,
         PublishesFollows, DiesFollows
    <3>2. Active(p)
      BY <2>2 DEF Fetches, Opens, Receives, StreamEnds, Validates, Publishes, Dies, Active, At
    <3>3. QED
      BY <3>1, <3>2 DEF WheelsKept, Careful
  <2>3. QED
    BY <1>2, <2>1, <2>2 DEF Step
<1>3. QED
  BY <1>1, <1>2 DEF Next

\* and so it always holds.
LEMMA StoreAlways == Spec => []StoreInv
<1>1. StoreInv /\ [Next]_vars => StoreInv'
  BY StoreStep
<1>2. QED
  BY StoreInit, <1>1, PTL DEF Spec

-----------------------------------------------------------------------------
(* Theorems *)

\* The loops of fetch_artifacts and _verify_bundle stay inside their lists, and a download
\* writes no more blocks than the recorded size has, for any number of processes.
THEOREM StoreTypes == Spec => []TypeOK
<1>1. StoreInv => TypeOK
  <2> SUFFICES ASSUME StoreInv PROVE TypeOK
    OBVIOUS
  <2>1. ASSUME NEW p \in Procs
        PROVE  /\ job[p].bundle \in 1..Len(catalog.bundles)
               /\ At(p, "file") => job[p].file \in 1..Len(Bundle(job[p]))
               /\ job[p].listed \subseteq Entries
               /\ job[p].got \in 0..Blocks
               /\ job[p].status \in {"none", "INVALID", "READY", "BLOCKED", "RAISED"}
    BY JobIs DEF Jobs, At, InFiles
  <2>2. QED
    BY <2>1 DEF StoreInv, Typed, TypeOK
<1>2. QED
  BY StoreAlways, <1>1, PTL

\* A READY of fetch_artifacts or verify_artifacts stands for wheels that have the
\* recorded bytes and keep them until two processes are at the root at the same time, and
\* then for wheels that are at least being written, while nothing fails.
THEOREM ReadyStaysWhole == Spec => []ReadyIsWhole
<1>1. StoreInv => ReadyIsWhole
  <2> SUFFICES ASSUME StoreInv, NEW p \in Procs, Ended(p, "READY"), NEW f \in Wheels
               PROVE  Holds(job[p], f)
    BY DEF ReadyIsWhole, Holds
  <2>1. Checked(p)
    BY DEF StoreInv
  <2>2. job[p].pc = "end" /\ job[p].status = "READY" /\ job[p].last /\ ~job[p].errors
    BY <2>1 DEF Checked, Ended, At
  <2>3. f \in Passed(job[p])
    BY <2>2 DEF Passed
  <2>4. QED
    BY <2>1, <2>3 DEF Checked
<1>2. QED
  BY StoreAlways, <1>1, PTL

\* fetch_artifacts alone at the root, with a working network, ends READY from whatever
\* wheels and partial files it finds: the rename in _download leaves nothing to clean up.
THEOREM LoneFetchIsReady == Spec => []LoneFetchHeals
<1>1. StoreInv => LoneFetchHeals
  BY DEF StoreInv, Heals, Healing, LoneFetchHeals
<1>2. QED
  BY StoreAlways, <1>1, PTL

\* The partial file and os.replace in _download: no step of a lone process damages a
\* wheel that is right.
THEOREM LoneKeepsWheels == Spec => WholeStaysWhole
<1>1. StoreInv /\ [Next]_vars => [WheelsKept]_vars
  BY StoreStep
<1>2. Spec => [][WheelsKept]_vars
  BY StoreAlways, <1>1, PTL DEF Spec
<1>3. QED
  BY <1>2 DEF WholeStaysWhole, WheelsKept
=============================================================================
