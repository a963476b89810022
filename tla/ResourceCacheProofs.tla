------------------------- MODULE ResourceCacheProofs -------------------------
(* Proofs about ResourceCache. *)
EXTENDS ResourceCache, TLAPS

\* A digest exists once all files are hashed, and a call has no result before.
Manifests ==
    \A p \in Procs :
        /\ pc[p] \in {"check", "lock"} \cup Locked => read[p] \in Trees
        /\ result[p] = "returned" => read[p] \in Trees
        /\ pc[p] = "hash" => result[p] = "none"

\* Whoever stands behind the lock is the creator of its lock file.
LockHeld == \A p \in Procs : pc[p] \in Locked => lock[read[p]] = p

\* The directory a process copies into is its own, and exists.
StagingReady == \A p \in Procs : pc[p] = "copy" => staging[p] \in Unfinished

CacheInv ==
    /\ TypeOK
    /\ Manifests /\ LockHeld /\ StagingReady
    /\ NothingLeftBehind /\ ReturnedStaysIntact

LEMMA Constants ==
    /\ None \notin Procs /\ None \notin Held /\ Gone \in Held
    /\ Trees \subseteq Unfinished /\ Absent \notin Trees
BY ValuesAssumption, AbsentAssumption DEF Held, Trees, Unfinished

LEMMA AllHashed == ASSUME TypeOK, NEW p \in Procs, Hashed(p) PROVE read[p] \in Trees
BY DEF TypeOK, Hashed, Trees, Unfinished

LEMMA CacheInit == Init => CacheInv
<1> SUFFICES ASSUME Init PROVE CacheInv
    OBVIOUS
<1>1. TypeOK
  BY Constants DEF Init, TypeOK, Trees, Unfinished, Held
<1>2. Manifests /\ LockHeld /\ StagingReady /\ NothingLeftBehind /\ ReturnedStaysIntact
  BY DEF Init, Manifests, LockHeld, StagingReady, NothingLeftBehind, ReturnedStaysIntact, Locked
<1>3. QED
  BY <1>1, <1>2 DEF CacheInv

-----------------------------------------------------------------------------
(* Types *)

LEMMA TypeStep == CacheInv /\ [Next]_vars => TypeOK'
<1> SUFFICES ASSUME CacheInv, [Next]_vars PROVE TypeOK'
    OBVIOUS
<1> USE DEF CacheInv, TypeOK, Goes, Ends, Locked
<1>1. CASE UNCHANGED vars
  BY <1>1 DEF vars
<1>2. ASSUME NEW p \in Procs, Calls(p) PROVE TypeOK'
  <2>1. [f \in Files |-> None] \in Unfinished
    BY DEF Unfinished
  <2>2. QED
    BY <1>2, <2>1 DEF Calls
<1>3. ASSUME NEW p \in Procs, NEW f \in Files, Hashes(p, f) PROVE TypeOK'
  <2>1. [read[p] EXCEPT ![f] = source[f]] \in Unfinished
    BY DEF Unfinished, Trees
  <2>2. QED
    BY <1>3, <2>1 DEF Hashes
<1>4. ASSUME NEW p \in Procs, NEW f \in Files, Copies(p, f) PROVE TypeOK'
  <2>1. [staging[p] EXCEPT ![f] = source[f]] \in Unfinished
    BY <1>4 DEF Copies, StagingReady, Unfinished, Trees
  <2>2. QED
    BY <1>4, <2>1 DEF Copies
<1>5. ASSUME NEW p \in Procs,
             Digests(p) \/ Checks(p) \/ TimesOut(p) \/ Fails(p) \/ Verifies(p) \/ Crashes(p)
      PROVE  TypeOK'
  BY <1>5 DEF Digests, Checks, TimesOut, Fails, Verifies, Crashes
<1>6. ASSUME NEW p \in Procs, Locks(p) \/ Unlocks(p) PROVE TypeOK'
  BY <1>6 DEF Locks, Unlocks, RemovesLock
<1>7. ASSUME NEW p \in Procs, Rechecks(p) PROVE TypeOK'
  <2>1. [f \in Files |-> IF read[p][f] = Gone THEN Gone ELSE None] \in Unfinished
    BY Constants DEF Unfinished
  <2>2. QED
    BY <1>7, <2>1 DEF Rechecks
<1>8. ASSUME NEW p \in Procs, Publishes(p) PROVE TypeOK'
  <2>1. staging[p] \in Trees
    BY <1>8 DEF Publishes, AllCopied, StagingReady, Unfinished, Trees
  <2>2. QED
    BY <1>8, <2>1 DEF Publishes
<1>9. ASSUME NEW p \in Procs, Cleans(p) PROVE TypeOK'
  BY <1>9 DEF Cleans, RemovesStaging
<1>10. ASSUME NEW f \in Files, NEW v \in Held, Upgrades(f, v) PROVE TypeOK'
  BY <1>10 DEF Upgrades, Trees
<1>11. ASSUME NEW m \in Trees, NEW content \in Trees \cup {Absent}, Damages(m, content)
       PROVE  TypeOK'
  BY <1>11 DEF Damages
<1>12. QED
  BY <1>1, <1>2, <1>3, <1>4, <1>5, <1>6, <1>7, <1>8, <1>9, <1>10, <1>11 DEF Next, Step, Outside

-----------------------------------------------------------------------------
(* The lock *)

LEMMA LockStep ==
    CacheInv /\ [Next]_vars =>
        Manifests' /\ LockHeld' /\ StagingReady' /\ NothingLeftBehind'
<1> DEFINE Goal == Manifests /\ LockHeld /\ StagingReady /\ NothingLeftBehind
<1> SUFFICES ASSUME CacheInv, [Next]_vars PROVE Goal'
    OBVIOUS
<1> USE DEF CacheInv, TypeOK, Goes, Ends, Locked,
        Manifests, LockHeld, StagingReady, NothingLeftBehind
<1>1. CASE UNCHANGED vars
  BY <1>1 DEF vars
<1>2. ASSUME NEW p \in Procs, Calls(p) PROVE Goal'
  BY <1>2 DEF Calls
<1>3. ASSUME NEW p \in Procs, NEW f \in Files, Hashes(p, f) PROVE Goal'
  BY <1>3 DEF Hashes
<1>4. ASSUME NEW p \in Procs, NEW f \in Files, Copies(p, f) PROVE Goal'
  <2>1. [staging[p] EXCEPT ![f] = source[f]] \in Unfinished
    BY <1>4 DEF Copies, Unfinished, Trees
  <2>2. QED
    BY <1>4, <2>1 DEF Copies
<1>5. ASSUME NEW p \in Procs, Digests(p) PROVE Goal'
  BY <1>5, AllHashed DEF Digests
<1>6. ASSUME NEW p \in Procs,
             Checks(p) \/ TimesOut(p) \/ Fails(p) \/ Verifies(p) \/ Crashes(p)
      PROVE  Goal'
  BY <1>6 DEF Checks, TimesOut, Fails, Verifies, Crashes
<1>7. ASSUME NEW p \in Procs, Locks(p) PROVE Goal'
  BY <1>7, Constants DEF Locks, LockFree
<1>8. ASSUME NEW p \in Procs, Unlocks(p) PROVE Goal'
  BY <1>8, Constants DEF Unlocks, RemovesLock
<1>9. ASSUME NEW p \in Procs, Rechecks(p) PROVE Goal'
  <2>1. [f \in Files |-> IF read[p][f] = Gone THEN Gone ELSE None] \in Unfinished
    BY Constants DEF Unfinished
  <2>2. QED
    BY <1>9, <2>1 DEF Rechecks
<1>10. ASSUME NEW p \in Procs, Publishes(p) PROVE Goal'
  BY <1>10 DEF Publishes
<1>11. ASSUME NEW p \in Procs, Cleans(p) PROVE Goal'
  BY <1>11 DEF Cleans, RemovesStaging
<1>12. CASE Outside
  BY <1>12 DEF Outside, Upgrades, Damages
<1>13. QED
  BY <1>1, <1>2, <1>3, <1>4, <1>5, <1>6, <1>7, <1>8, <1>9, <1>10, <1>11, <1>12 DEF Next, Step

-----------------------------------------------------------------------------
(* The destinations *)

\* Only an empty place is filled; whoever fills it has read that digest.
LEMMA CacheKept ==
    ASSUME CacheInv, [Next]_vars, NEW m \in Trees, cache[m] # Absent, m \notin damaged'
    PROVE  cache'[m] = cache[m]
<1> USE DEF CacheInv, TypeOK
<1>1. ASSUME NEW p \in Procs, Publishes(p) PROVE cache'[m] = cache[m]
  BY <1>1 DEF Publishes, Vacant
<1>2. ASSUME NEW n \in Trees, NEW content \in Trees \cup {Absent}, Damages(n, content)
      PROVE  cache'[m] = cache[m]
  BY <1>2 DEF Damages
<1>3. QED
  BY <1>1, <1>2 DEF Next, Step, Outside, Calls, Hashes, Copies, Digests, Checks, TimesOut, Fails,
     Verifies, Crashes, Locks, Unlocks, Rechecks, Cleans, Upgrades, vars

LEMMA ReturnStep == CacheInv /\ [Next]_vars => ReturnedStaysIntact'
<1> SUFFICES ASSUME CacheInv, [Next]_vars, NEW q \in Procs,
                    result'[q] = "returned", read'[q] \notin damaged'
             PROVE  Valid(read[q])' 
    BY DEF ReturnedStaysIntact
<1> USE DEF CacheInv, TypeOK, Goes, Ends, Valid
<1>1. damaged \subseteq damaged'
  BY DEF Next, Step, Outside, Calls, Hashes, Copies, Digests, Checks, TimesOut, Fails,
     Verifies, Crashes, Locks, Unlocks, Rechecks, Publishes, Cleans, Upgrades, Damages, vars
<1>2. ASSUME read[q] \in Trees, read'[q] = read[q], Valid(read[q]) PROVE Valid(read[q])'
  BY <1>2, CacheKept, Constants
<1>3. CASE result[q] = "returned"
  <2>1. read'[q] = read[q]
    BY <1>3 DEF Manifests, Next, Step, Outside, Calls, Hashes, Copies, Digests, Checks, TimesOut,
       Fails, Verifies, Crashes, Locks, Unlocks, Rechecks, Publishes, Cleans, Upgrades, Damages,
       vars
  <2>2. QED
    BY <1>1, <1>2, <1>3, <2>1 DEF ReturnedStaysIntact, Manifests
<1>4. CASE result[q] # "returned"
  <2>1. /\ read'[q] = read[q] /\ Valid(read[q])
        /\ pc[q] \in {"check"} \cup Locked
    BY <1>4 DEF Next, Step, Outside, Calls, Hashes, Copies, Digests, Checks, TimesOut,
       Fails, Verifies, Verified, Crashes, Locks, Unlocks, Rechecks, Publishes, Cleans, Upgrades,
       Damages, vars, Locked
  <2>2. QED
    BY <1>2, <2>1 DEF Manifests
<1>5. QED
  BY <1>3, <1>4

-----------------------------------------------------------------------------
LEMMA CacheInvariant == Spec => []CacheInv
<1>1. CacheInv /\ [Next]_vars => CacheInv'
  BY TypeStep, LockStep, ReturnStep DEF CacheInv
<1>2. QED
  BY CacheInit, <1>1, PTL DEF Spec

\* However many processes materialize the resources, and whichever of them die,
\* no two hold the lock of one digest: the lock file has one creator, and only
\* its creator removes it.
THEOREM OneMaterializes == Spec => []MutualExclusion
<1>1. CacheInv => MutualExclusion
  BY DEF CacheInv, LockHeld, MutualExclusion
<1>2. QED
  BY <1>1, CacheInvariant, PTL

\* Every lock file and every staging directory belongs to a call under way or to
\* a process that died in its call.
THEOREM CallsCleanUp == Spec => []NothingLeftBehind
<1>1. CacheInv => NothingLeftBehind
  BY DEF CacheInv
<1>2. QED
  BY <1>1, CacheInvariant, PTL

\* A directory handed to a caller keeps the content the caller has hashed, as
\* long as nothing else touches the cache.
THEOREM ReturnedIsKept == Spec => []ReturnedStaysIntact
<1>1. CacheInv => ReturnedStaysIntact
  BY DEF CacheInv
<1>2. QED
  BY <1>1, CacheInvariant, PTL

\* A destination that exists is never replaced or changed by a process.
THEOREM PublishedIsNeverReplaced == Spec => PublishedIsFinal
<1>1. ASSUME CacheInv, [Next]_vars, NEW m \in Trees, cache[m] # Absent, events' = events
      PROVE  cache'[m] = cache[m]
  <2> USE DEF CacheInv, TypeOK
  <2>1. ASSUME NEW p \in Procs, Publishes(p) PROVE cache'[m] = cache[m]
    BY <1>1, <2>1 DEF Publishes, Vacant
  <2>2. ASSUME NEW n \in Trees, NEW content \in Trees \cup {Absent}, Damages(n, content)
        PROVE  cache'[m] = cache[m]
    BY <1>1, <2>2 DEF Damages
  <2>3. QED
    BY <1>1, <2>1, <2>2 DEF Next, Step, Outside, Calls, Hashes, Copies, Digests, Checks,
       TimesOut, Fails, Verifies, Crashes, Locks, Unlocks, Rechecks, Cleans, Upgrades, vars
<1>2. CacheInv /\ [Next]_vars =>
        [\A m \in Trees : cache[m] # Absent /\ events' = events => cache'[m] = cache[m]]_vars
  BY <1>1
<1>3. QED
  BY <1>2, CacheInvariant, PTL DEF Spec, PublishedIsFinal
=============================================================================
