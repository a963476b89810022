---------------------------- MODULE ResourceCache ----------------------------
(***************************************************************************)
(* package_resource_root (src/radar_bench/config.py): processes that hash   *)
(* the packaged resources, and materialize them in a directory named after  *)
(* the digest unless a valid one is there.  A lock file per digest, created *)
(* with O_EXCL, keeps all but one of them out; a destination is filled in a *)
(* staging directory and put in place by one rename.                        *)
(*                                                                         *)
(* A digest is its manifest: what each file held when it was hashed.        *)
(***************************************************************************)
EXTENDS Naturals

CONSTANTS
    Procs,      \* processes that share the user's cache
    Files,      \* packaged files
    Versions,   \* what a file may hold
    Gone,       \* the file does not exist
    None,       \* not read yet; nobody
    Absent,     \* the directory does not exist
    MaxCalls,   \* bound: calls of all processes together
    MaxEvents   \* bound: upgrades of the package and damages to the cache

ASSUME ValuesAssumption ==
    /\ Gone \notin Versions /\ None \notin Versions \cup {Gone}
    /\ None \notin Procs
    /\ MaxCalls \in Nat /\ MaxEvents \in Nat

Held == Versions \cup {Gone}
Trees == [Files -> Held]
Unfinished == [Files -> Held \cup {None}]

ASSUME AbsentAssumption == Absent \notin Unfinished

VARIABLES
    source,   \* the packaged resources
    cache,    \* the destination of each digest
    lock,     \* the lock file of each digest: its creator or None
    pc,       \* where each process stands in its call
    read,     \* the files it has hashed; its manifest when all are
    staging,  \* its staging directory
    result,   \* how its last call ended
    calls, events,
    damaged   \* history: digests whose destination was changed from outside

vars == <<source, cache, lock, pc, read, staging, result, calls, events, damaged>>

\* Between the creation of the lock file and its removal.
Locked == {"recheck", "copy", "clean", "verify", "unlock"}

\* The values the variables of the cache, its locks and its callers take.
TypeOK ==
    /\ source \in Trees
    /\ cache \in [Trees -> Trees \cup {Absent}]
    /\ lock \in [Trees -> Procs \cup {None}]
    /\ pc \in [Procs -> {"idle", "hash", "check", "lock", "dead"} \cup Locked]
    /\ read \in [Procs -> Unfinished]
    /\ staging \in [Procs -> Unfinished \cup {Absent}]
    /\ result \in [Procs -> {"none", "returned", "raised", "timeout"}]
    /\ calls \in Nat /\ events \in Nat
    /\ damaged \in SUBSET Trees

Init ==
    /\ source \in [Files -> Versions]
    /\ cache = [m \in Trees |-> Absent]
    /\ lock = [m \in Trees |-> None]
    /\ pc = [p \in Procs |-> "idle"]
    /\ read = [p \in Procs |-> [f \in Files |-> None]]
    /\ staging = [p \in Procs |-> Absent]
    /\ result = [p \in Procs |-> "none"]
    /\ calls = 0 /\ events = 0
    /\ damaged = {}

Hashed(p) == \A f \in Files : read[p][f] # None

\* valid_destination: the directory holds exactly the files of the manifest.
Valid(m) == cache[m] = m

Goes(p, to) == pc' = [pc EXCEPT ![p] = to]
Ends(p, how) == result' = [result EXCEPT ![p] = how]

-----------------------------------------------------------------------------
(* One call of package_resource_root *)

Calls(p) ==
    /\ pc[p] = "idle" /\ calls < MaxCalls
    /\ calls' = calls + 1
    /\ Goes(p, "hash")
    /\ Ends(p, "none")
    /\ read' = [read EXCEPT ![p] = [f \in Files |-> None]]
    /\ UNCHANGED <<source, cache, lock, staging, events, damaged>>

\* One file is hashed; one that is gone does not appear in the manifest.
Hashes(p, f) ==
    /\ pc[p] = "hash" /\ read[p][f] = None
    /\ read' = [read EXCEPT ![p][f] = source[f]]
    /\ UNCHANGED <<source, cache, lock, pc, staging, result, calls, events, damaged>>

\* The digest is known, and the destination is looked at without the lock.
Digests(p) ==
    /\ pc[p] = "hash" /\ Hashed(p)
    /\ Goes(p, "check")
    /\ UNCHANGED <<source, cache, lock, read, staging, result, calls, events, damaged>>

Checks(p) ==
    /\ pc[p] = "check"
    /\ IF Valid(read[p])
       THEN Goes(p, "idle") /\ Ends(p, "returned")
       ELSE Goes(p, "lock") /\ UNCHANGED result
    /\ UNCHANGED <<source, cache, lock, read, staging, calls, events, damaged>>

\* os.open with O_CREAT | O_EXCL
LockIgnored(p) == TRUE
LockFree(p) == lock[read[p]] = None

Locks(p) ==
    /\ pc[p] = "lock" /\ LockFree(p)
    /\ lock' = [lock EXCEPT ![read[p]] = p]
    /\ Goes(p, "recheck")
    /\ UNCHANGED <<source, cache, read, staging, result, calls, events, damaged>>

\* The lock file is still there when 15 seconds are over.
NeverOverdue(p) == FALSE
Overdue(p) == lock[read[p]] # None

TimesOut(p) ==
    /\ pc[p] = "lock" /\ Overdue(p)
    /\ Goes(p, "idle")
    /\ Ends(p, "timeout")
    /\ UNCHANGED <<source, cache, lock, read, staging, calls, events, damaged>>

\* Another process may have published meanwhile; else a new staging directory.
Rechecks(p) ==
    /\ pc[p] = "recheck"
    /\ \/ /\ Valid(read[p])
          /\ Goes(p, "unlock") /\ Ends(p, "returned")
          /\ UNCHANGED staging
       \/ /\ ~Valid(read[p])
          /\ Goes(p, "copy")
          /\ staging' = [staging EXCEPT ![p] =
                [f \in Files |-> IF read[p][f] = Gone THEN Gone ELSE None]]
          /\ UNCHANGED result
       \/ /\ ~Valid(read[p])  \* mkdir fails
          /\ Goes(p, "unlock") /\ Ends(p, "raised")
          /\ UNCHANGED staging
    /\ UNCHANGED <<source, cache, lock, read, calls, events, damaged>>

\* An exception in the copying: the file is gone, or the disk is full.
Fails(p) ==
    /\ pc[p] = "copy"
    /\ Goes(p, "clean") /\ Ends(p, "raised")
    /\ UNCHANGED <<source, cache, lock, read, staging, calls, events, damaged>>

\* The bytes are those of this moment; they are not hashed again.
Copies(p, f) ==
    /\ pc[p] = "copy" /\ staging[p][f] = None
    /\ source[f] # Gone
    /\ staging' = [staging EXCEPT ![p][f] = source[f]]
    /\ UNCHANGED <<source, cache, lock, pc, read, result, calls, events, damaged>>

\* root.exists(): a conflicting destination is reported, a valid one kept.
Replaceable(m) == ~Valid(m)
Vacant(m) == cache[m] = Absent

AllCopied(p) == \A f \in Files : staging[p][f] # None

Publishes(p) ==
    /\ pc[p] = "copy" /\ AllCopied(p)
    /\ LET m == read[p] IN
       \/ /\ Vacant(m)
          /\ cache' = [cache EXCEPT ![m] = staging[p]]
          /\ staging' = [staging EXCEPT ![p] = Absent]
          /\ Goes(p, "verify")
          /\ UNCHANGED result
       \/ /\ ~Vacant(m)
          /\ Goes(p, "clean")
          /\ IF Valid(m) THEN UNCHANGED result ELSE Ends(p, "raised")
          /\ UNCHANGED <<cache, staging>>
    /\ UNCHANGED <<source, lock, read, calls, events, damaged>>

\* The inner finally: the staging directory is emptied and removed.
LeavesStaging(p) == UNCHANGED staging
RemovesStaging(p) == staging' = [staging EXCEPT ![p] = Absent]

Cleans(p) ==
    /\ pc[p] = "clean"
    /\ RemovesStaging(p)
    /\ Goes(p, IF result[p] = "raised" THEN "unlock" ELSE "verify")
    /\ UNCHANGED <<source, cache, lock, read, result, calls, events, damaged>>

\* Only now is what has been published compared with the manifest.
NothingVerified(p) == TRUE
Verified(p) == Valid(read[p])

Verifies(p) ==
    /\ pc[p] = "verify"
    /\ Ends(p, IF Verified(p) THEN "returned" ELSE "raised")
    /\ Goes(p, "unlock")
    /\ UNCHANGED <<source, cache, lock, read, staging, calls, events, damaged>>

\* The outer finally, on every way out.
KeepsLockWhenRaising(p) ==
    IF result[p] = "raised" THEN UNCHANGED lock ELSE lock' = [lock EXCEPT ![read[p]] = None]
RemovesLock(p) == lock' = [lock EXCEPT ![read[p]] = None]

Unlocks(p) ==
    /\ pc[p] = "unlock"
    /\ RemovesLock(p)
    /\ Goes(p, "idle")
    /\ UNCHANGED <<source, cache, read, staging, result, calls, events, damaged>>

-----------------------------------------------------------------------------
(* What may happen around the calls *)

\* The process dies; what it has on disk stays.
Crashes(p) ==
    /\ pc[p] \notin {"idle", "dead"}
    /\ Goes(p, "dead")
    /\ UNCHANGED <<source, cache, lock, read, staging, result, calls, events, damaged>>

\* The package is upgraded or removed, file by file.
Upgrades(f, v) ==
    /\ events < MaxEvents /\ v # source[f]
    /\ events' = events + 1
    /\ source' = [source EXCEPT ![f] = v]
    /\ UNCHANGED <<cache, lock, pc, read, staging, result, calls, damaged>>

\* Something other than this code changes or removes a destination.
Damages(m, content) ==
    /\ events < MaxEvents /\ cache[m] # Absent /\ content # cache[m]
    /\ events' = events + 1
    /\ cache' = [cache EXCEPT ![m] = content]
    /\ damaged' = damaged \cup {m}
    /\ UNCHANGED <<source, lock, pc, read, staging, result, calls>>

-----------------------------------------------------------------------------
Step(p) ==
    \/ Digests(p) \/ Checks(p) \/ Locks(p) \/ TimesOut(p) \/ Rechecks(p)
    \/ Fails(p) \/ Publishes(p) \/ Cleans(p) \/ Verifies(p) \/ Unlocks(p)
    \/ \E f \in Files : Hashes(p, f) \/ Copies(p, f)

Outside ==
    \/ \E f \in Files, v \in Held : Upgrades(f, v)
    \/ \E m \in Trees, content \in Trees \cup {Absent} : Damages(m, content)

Next ==
    \/ \E p \in Procs : Calls(p) \/ Step(p) \/ Crashes(p)
    \/ Outside

Spec == Init /\ [][Next]_vars

\* A process that is in a call is scheduled until it ends or dies.
FairSpec == Spec /\ \A p \in Procs : WF_vars(Step(p))

-----------------------------------------------------------------------------
(* What the cache guarantees *)

\* The lock keeps two processes from materializing the same digest at once.
MutualExclusion ==
    \A p, q \in Procs :
        pc[p] \in Locked /\ pc[q] \in Locked /\ read[p] = read[q] => p = q

\* Whatever way a call ends, it takes its lock file and its staging directory
\* with it: one that is left belongs to a call under way or a process that died.
NothingLeftBehind ==
    /\ \A m \in Trees : lock[m] # None =>
         pc[lock[m]] \in Locked \cup {"dead"} /\ read[lock[m]] = m
    /\ \A p \in Procs : staging[p] # Absent => pc[p] \in {"copy", "clean", "dead"}

\* The directory a call returned still holds exactly what the call has hashed,
\* unless something other than this code has changed it.
ReturnedStaysIntact ==
    \A p \in Procs :
        result[p] = "returned" /\ read[p] \notin damaged => Valid(read[p])

\* A destination, once published, is never changed by this code: readers that
\* hold its path can go on using it.
PublishedIsFinal ==
    [][\A m \in Trees : cache[m] # Absent /\ events' = events => cache'[m] = cache[m]]_vars

\* Every call comes to an end, even behind the lock of a process that died.
CallsEnd == \A p \in Procs : pc[p] = "hash" ~> pc[p] \in {"idle", "dead"}

\* The docstring's promise: what is published has been checked, so that no
\* destination ever differs from its digest.
PublishedIsChecked ==
    \A m \in Trees : cache[m] # Absent /\ m \notin damaged => Valid(m)
=============================================================================
