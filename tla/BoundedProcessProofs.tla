------------------------- MODULE BoundedProcessProofs -------------------------
(***************************************************************************)
(* Theorems about BoundedProcess, for every chunk size, output limit and    *)
(* amount of output.  The invariant has three parts: who runs and who holds *)
(* the pipes (Processing), where each unit of output is (Accounting), and   *)
(* what each field of a capture under way is bounded by (Composing).        *)
(***************************************************************************)
EXTENDS BoundedProcess, TLAPS

USE LimitsAssumption, InputAssumption

\* The leader holds its pipes as long as it runs and never leaves its group;
\* a call that timed out without an error has signalled the whole group; and a
\* call past its wait has seen the leader end or notes an error.
Processing ==
    /\ host \in {"start", "raised"} => alive = {} /\ doomed = {} /\ ~timedOut
    /\ Leader \in alive => Leader \in holders
    /\ host \notin {"start", "raised"} => Leader \in group
    /\ (host \notin {"start", "raised"} /\ Leader \notin alive) => exit # None
    /\ (timedOut /\ cleanupError = None) => group \subseteq doomed
    /\ (host \in {"joinOut", "joinErr", "copy", "bytesOut", "digestOut", "bytesErr", "digestErr",
                  "observe", "flag", "done"} /\ cleanupError = None)
           => (Leader \notin alive /\ capture.returncode # None)

\* The chunk a thread has at hand, if it stands at the given place.
Held(s, place) == IF at[s] = place THEN chunk[s] ELSE 0

\* Of the units observed, those a thread has offered to the buffers, and those
\* it has held against the limit.
Offered == observed - Held("stdout", "keeping") - Held("stderr", "keeping")
Judged == Offered - Held("stdout", "flagging") - Held("stderr", "flagging")

\* Every unit written is in the pipe, at hand, or hashed; every unit hashed is
\* about to be counted or counted; and so on to the units that are kept. One
\* thread at most is between its count and its flag: it holds the lock.
Accounting ==
    /\ host = "start" => \A s \in Streams : at[s] = "off"
    /\ \A s \in Streams :
         /\ written[s] = pipe[s] + Held(s, "hashing") + hashed[s]
         /\ hashed[s] = streamBytes[s] + Held(s, "counting")
         /\ kept[s] + Held(s, "adding") + Held(s, "keeping") <= streamBytes[s]
         /\ at[s] = "done" => holders = {} /\ pipe[s] = 0
         /\ chunk[s] <= Chunk
    /\ at["stdout"] \in {"keeping", "flagging"} => at["stderr"] \notin {"keeping", "flagging"}
    /\ Total(streamBytes) = observed + Held("stdout", "adding") + Held("stderr", "adding")
    /\ Judged \in Nat
    /\ Total(kept) = Least(Offered, MaxOutput)
    /\ overflow <=> Judged > MaxOutput

\* Where the fields of the capture have been read.
HasPayload ==
    host \in {"bytesOut", "digestOut", "bytesErr", "digestErr", "observe", "flag", "done"}
HasBytes(s) ==
    \/ host \in {"digestErr", "observe", "flag", "done"}
    \/ s = "stdout" /\ host \in {"digestOut", "bytesErr"}
HasDigest(s) ==
    \/ host \in {"observe", "flag", "done"}
    \/ s = "stdout" /\ host \in {"bytesErr", "digestErr"}
HasObserved == host \in {"flag", "done"}
HasJoined(s) == HasPayload \/ host = "copy" \/ (s = "stdout" /\ host = "joinErr")

\* A thread whose join returned has ended.
ThreadsJoined == \A s \in Streams : (HasJoined(s) /\ s \notin late) => at[s] = "done"

\* A field is bounded by what it was read from, which only grows, and equals it
\* if the threads had ended.
PayloadRead ==
    HasPayload =>
        /\ Total(capture.payload) <= Least(observed, MaxOutput)
        /\ \A s \in Streams : /\ capture.payload[s] <= kept[s]
                              /\ late = {} => capture.payload[s] = kept[s]
BytesRead(s) ==
    HasBytes(s) =>
        /\ capture.payload[s] <= capture.bytes[s]
        /\ capture.bytes[s] <= streamBytes[s]
        /\ late = {} => capture.bytes[s] = streamBytes[s]
DigestRead(s) ==
    HasDigest(s) =>
        /\ capture.bytes[s] <= capture.digest[s]
        /\ capture.digest[s] <= hashed[s]
        /\ late = {} => capture.digest[s] = hashed[s]
ObservedRead ==
    HasObserved =>
        /\ Total(capture.payload) <= capture.observed
        /\ capture.observed <= observed
        /\ late = {} => capture.observed = observed
FlagRead ==
    host = "done" =>
        /\ ~capture.overflow => capture.observed <= MaxOutput + Chunk
        /\ late = {} => (capture.overflow <=> overflow)

Composing ==
    /\ ThreadsJoined /\ PayloadRead /\ ObservedRead /\ FlagRead
    /\ \A s \in Streams : BytesRead(s) /\ DigestRead(s)

CallInv == TypeOK /\ Processing /\ Accounting /\ Composing

-----------------------------------------------------------------------------
\* The initial state is typed and nothing has been written, read or captured.
LEMMA CallInvInit == Init => CallInv
  <1> SUFFICES ASSUME Init PROVE CallInv
    OBVIOUS
  <1>1. TypeOK
    <2>1. NoUnits \in [Streams -> Nat] /\ NoUnits \in [Streams -> 0..MaxWritten]
      BY DEF NoUnits
    <2>2. NoCapture \in [payload : [Streams -> Nat], bytes : [Streams -> Nat],
                         digest : [Streams -> Nat], observed : Nat, overflow : BOOLEAN,
                         returncode : {None, "exited", "killed"}]
      BY <2>1 DEF NoCapture
    <2>3. at \in [Streams -> Places]
      BY DEF Init, Places
    <2> QED
      BY <2>1, <2>2, <2>3 DEF Init, TypeOK, Hosts, Procs
  <1>2. Processing
    BY DEF Init, Processing, Leader, None
  <1>3. Accounting
    <2>1. \A s \in Streams : /\ at[s] = "off" /\ written[s] = 0 /\ pipe[s] = 0 /\ hashed[s] = 0
                             /\ streamBytes[s] = 0 /\ kept[s] = 0 /\ chunk[s] = 0
      BY DEF Init, NoUnits
    <2>2. \A s \in Streams : \A p : Held(s, p) = 0
      BY <2>1 DEF Held
    <2>3. observed = 0 /\ ~overflow /\ host = "start" /\ ~(0 > MaxOutput)
      BY DEF Init
    <2>4. Total(kept) = 0 /\ Total(streamBytes) = 0 /\ Least(0, MaxOutput) = 0
      BY <2>1 DEF Total, Streams, Least
    <2>5. \A p : Held("stdout", p) = 0 /\ Held("stderr", p) = 0
      BY <2>2 DEF Streams
    <2>6. Offered = 0 /\ Judged = 0
      BY <2>3, <2>5 DEF Offered, Judged
    <2>7. at["stdout"] = "off" /\ \A s \in Streams : chunk[s] <= Chunk
      BY <2>1 DEF Streams
    <2> QED
      BY <2>1, <2>2, <2>3, <2>4, <2>5, <2>6, <2>7 DEF Accounting
  <1>4. Composing
    BY DEF Init, Composing, ThreadsJoined, PayloadRead, BytesRead, DigestRead, ObservedRead,
           FlagRead, HasJoined, HasPayload, HasBytes, HasDigest, HasObserved
  <1> QED
    BY <1>1, <1>2, <1>3, <1>4 DEF CallInv

-----------------------------------------------------------------------------
Captures == [payload : [Streams -> Nat], bytes : [Streams -> Nat], digest : [Streams -> Nat],
             observed : Nat, overflow : BOOLEAN, returncode : {None, "exited", "killed"}]

\* What the composition of a capture reads, field by field.
LEMMA FieldsRead ==
    ASSUME TypeOK, Composes
    PROVE  /\ capture' \in Captures
           /\ capture'.returncode = capture.returncode
           /\ capture'.payload = IF host = "copy" THEN kept ELSE capture.payload
           /\ \A s \in Streams :
                /\ capture'.bytes[s] = IF host = (IF s = "stdout" THEN "bytesOut" ELSE "bytesErr")
                                       THEN streamBytes[s] ELSE capture.bytes[s]
                /\ capture'.digest[s] = IF host = (IF s = "stdout" THEN "digestOut"
                                                                   ELSE "digestErr")
                                        THEN hashed[s] ELSE capture.digest[s]
           /\ capture'.observed = IF host = "observe" THEN observed ELSE capture.observed
           /\ capture'.overflow = IF host = "flag" THEN overflow ELSE capture.overflow
  <1> USE DEF TypeOK, Composes, Captures
  <1>1. CASE host = "copy"
    BY <1>1
  <1>2. CASE host = "bytesOut"
    <2>1. capture' = [capture EXCEPT !.bytes["stdout"] = streamBytes["stdout"]]
      BY <1>2
    <2>2. capture' = [capture EXCEPT
                        !.bytes = [capture.bytes EXCEPT !["stdout"] = streamBytes["stdout"]]]
      BY <2>1
    <2>3. /\ capture'.bytes = [capture.bytes EXCEPT !["stdout"] = streamBytes["stdout"]]
          /\ capture'.digest = capture.digest
          /\ capture'.payload = capture.payload /\ capture'.observed = capture.observed
          /\ capture'.overflow = capture.overflow
          /\ capture'.returncode = capture.returncode
      BY <2>2
    <2>4. capture'.bytes \in [Streams -> Nat] /\ "stdout" \in Streams
      BY <2>3 DEF Streams
    <2>5. capture' \in Captures
      BY <2>2, <2>3, <2>4
    <2> QED
      BY <1>2, <2>3, <2>4, <2>5 DEF Streams
  <1>3. CASE host = "digestOut"
    <2>1. capture' = [capture EXCEPT !.digest["stdout"] = hashed["stdout"]]
      BY <1>3
    <2>2. capture' = [capture EXCEPT
                        !.digest = [capture.digest EXCEPT !["stdout"] = hashed["stdout"]]]
      BY <2>1
    <2>3. /\ capture'.digest = [capture.digest EXCEPT !["stdout"] = hashed["stdout"]]
          /\ capture'.bytes = capture.bytes
          /\ capture'.payload = capture.payload /\ capture'.observed = capture.observed
          /\ capture'.overflow = capture.overflow
          /\ capture'.returncode = capture.returncode
      BY <2>2
    <2>4. capture'.digest \in [Streams -> Nat] /\ "stdout" \in Streams
      BY <2>3 DEF Streams
    <2>5. capture' \in Captures
      BY <2>2, <2>3, <2>4
    <2> QED
      BY <1>3, <2>3, <2>4, <2>5 DEF Streams
  <1>4. CASE host = "bytesErr"
    <2>1. capture' = [capture EXCEPT !.bytes["stderr"] = streamBytes["stderr"]]
      BY <1>4
    <2>2. capture' = [capture EXCEPT
                        !.bytes = [capture.bytes EXCEPT !["stderr"] = streamBytes["stderr"]]]
      BY <2>1
    <2>3. /\ capture'.bytes = [capture.bytes EXCEPT !["stderr"] = streamBytes["stderr"]]
          /\ capture'.digest = capture.digest
          /\ capture'.payload = capture.payload /\ capture'.observed = capture.observed
          /\ capture'.overflow = capture.overflow
          /\ capture'.returncode = capture.returncode
      BY <2>2
    <2>4. capture'.bytes \in [Streams -> Nat] /\ "stderr" \in Streams
      BY <2>3 DEF Streams
    <2>5. capture' \in Captures
      BY <2>2, <2>3, <2>4
    <2> QED
      BY <1>4, <2>3, <2>4, <2>5 DEF Streams
  <1>5. CASE host = "digestErr"
    <2>1. capture' = [capture EXCEPT !.digest["stderr"] = hashed["stderr"]]
      BY <1>5
    <2>2. capture' = [capture EXCEPT
                        !.digest = [capture.digest EXCEPT !["stderr"] = hashed["stderr"]]]
      BY <2>1
    <2>3. /\ capture'.digest = [capture.digest EXCEPT !["stderr"] = hashed["stderr"]]
          /\ capture'.bytes = capture.bytes
          /\ capture'.payload = capture.payload /\ capture'.observed = capture.observed
          /\ capture'.overflow = capture.overflow
          /\ capture'.returncode = capture.returncode
      BY <2>2
    <2>4. capture'.digest \in [Streams -> Nat] /\ "stderr" \in Streams
      BY <2>3 DEF Streams
    <2>5. capture' \in Captures
      BY <2>2, <2>3, <2>4
    <2> QED
      BY <1>5, <2>3, <2>4, <2>5 DEF Streams
  <1>6. CASE host = "observe"
    BY <1>6
  <1>7. CASE host = "flag"
    BY <1>7
  <1> QED
    BY <1>1, <1>2, <1>3, <1>4, <1>5, <1>6, <1>7

\* Every step keeps the types; what is in a pipe has been written to it.
LEMMA TypeStep == CallInv /\ [Next]_vars => TypeOK'
  <1> SUFFICES ASSUME CallInv, [Next]_vars PROVE TypeOK'
    OBVIOUS
  <1> USE DEF CallInv, TypeOK, procVars, dataVars, readVars, hostVars
  <1>0. CASE UNCHANGED vars
    BY <1>0 DEF vars
  <1>1. ASSUME NEW p \in Procs, NEW s \in Streams, Writes(p, s) PROVE TypeOK'
    <2>1. pipe[s] <= written[s] /\ written[s] + 1 \in 0..MaxWritten
      BY <1>1 DEF Writes, Accounting, Held
    <2> QED
      BY <1>1, <2>1 DEF Writes
  <1>2. ASSUME NEW p \in Procs, Exits(p) PROVE TypeOK'
    BY <1>2 DEF Exits, Ends
  <1>3. ASSUME NEW p \in Procs, Dies(p) PROVE TypeOK'
    BY <1>3 DEF Dies, Ends
  <1>4. CASE Spawns
    BY <1>4 DEF Spawns, Procs
  <1>5. CASE LeavesGroup
    BY <1>5 DEF LeavesGroup
  <1>6. CASE LetsGo
    BY <1>6 DEF LetsGo
  <1>7. CASE Expires
    BY <1>7 DEF Expires
  <1>8. CASE Feeds
    BY <1>8 DEF Feeds
  <1>9. ASSUME NEW s \in Streams, Reads(s) PROVE TypeOK'
    BY <1>9 DEF Reads, Least, Places
  <1>10. ASSUME NEW s \in Streams, SeesEnd(s) PROVE TypeOK'
    BY <1>10 DEF SeesEnd, Places
  <1>11. ASSUME NEW s \in Streams, Hashes(s) PROVE TypeOK'
    BY <1>11 DEF Hashes, Places
  <1>12. ASSUME NEW s \in Streams, Counts(s) PROVE TypeOK'
    BY <1>12 DEF Counts, Places
  <1>13. ASSUME NEW s \in Streams, Observes(s) \/ Flags(s) PROVE TypeOK'
    <2>1. CASE Observes(s)
      BY <2>1 DEF Observes, Places
    <2>2. CASE Flags(s)
      <3>1. overflow' \in BOOLEAN
        BY <2>2 DEF Flags, PassesLimit
      <3> QED
        BY <2>2, <3>1 DEF Flags, Places
    <2> QED
      BY <1>13, <2>1, <2>2
  <1>27. ASSUME NEW s \in Streams, Keeps(s) PROVE TypeOK'
    BY <1>27 DEF Keeps, Least, Remaining, Total, Streams, Places
  <1>14. ASSUME NEW s \in Streams, Joins(s) PROVE TypeOK'
    BY <1>14 DEF Joins, Joined, Hosts
  <1>15. ASSUME NEW s \in Streams, JoinTimesOut(s) PROVE TypeOK'
    BY <1>15 DEF JoinTimesOut, Joined, Hosts
  <1>16. CASE FailsToStart
    BY <1>16 DEF FailsToStart, Hosts
  <1>17. CASE Starts
    BY <1>17 DEF Starts, Hosts, Procs, Processing, Places
  <1>18. CASE Polls
    BY <1>18 DEF Polls, Hosts
  <1>19. CASE ChecksLimits
    <2>1. doomed' \subseteq group /\ cleanupError' \in {None, "TERMINATION_FAILED", "PROCESS_CLEANUP_TIMEOUT"}
      BY <1>19 DEF ChecksLimits, Terminates, Group
    <2>2. timedOut' \in BOOLEAN /\ host' \in Hosts
      BY <1>19 DEF ChecksLimits, Hosts
    <2> QED
      BY <1>19, <2>1, <2>2 DEF ChecksLimits
  <1>20. CASE Waits
    BY <1>20 DEF Waits, Hosts
  <1>21. CASE WaitTimesOut
    BY <1>21 DEF WaitTimesOut, Terminates, Group, Hosts
  <1>22. CASE WaitTimesOutAgain
    BY <1>22 DEF WaitTimesOutAgain, ErrorOnTimeout, Hosts
  <1>23. CASE Composes
    <2>1. capture' \in Captures
      BY <1>23, FieldsRead
    <2>2. host' \in Hosts
      BY <1>23 DEF Composes, Hosts
    <2> QED
      BY <1>23, <2>1, <2>2 DEF Composes, Captures
  <1>24. CASE Processes
    BY <1>1, <1>2, <1>3, <1>4, <1>5, <1>6, <1>24, Zenon DEF Processes
  <1>25. CASE Reader
    BY <1>9, <1>10, <1>11, <1>12, <1>13, <1>27, <1>25, Zenon DEF Reader
  <1>26. CASE Host
    <2>1. (\E s \in Streams : Joins(s) \/ JoinTimesOut(s)) => TypeOK'
      BY <1>14, <1>15, Zenon
    <2> QED
      BY <1>16, <1>17, <1>18, <1>19, <1>20, <1>21, <1>22, <1>23, <1>26, <2>1, Zenon DEF Host
  <1> QED
    BY <1>0, <1>7, <1>8, <1>24, <1>25, <1>26, Zenon DEF Next, Rests

-----------------------------------------------------------------------------
\* Every step keeps what is known of the processes: the group only grows while
\* its leader runs unsignalled, and a call that noted an error keeps it.
LEMMA ProcessingStep == CallInv /\ [Next]_vars => Processing'
  <1> SUFFICES ASSUME CallInv, [Next]_vars PROVE Processing'
    OBVIOUS
  <1> USE DEF CallInv, Processing, procVars, dataVars, readVars, hostVars
  <1>0. CASE UNCHANGED vars
    BY <1>0 DEF vars
  <1>1. ASSUME NEW p \in Procs, NEW s \in Streams, Writes(p, s) PROVE Processing'
    BY <1>1 DEF Writes
  <1>2. ASSUME NEW p \in Procs, NEW how \in {"exited", "killed"}, p \in alive, Ends(p, how)
        PROVE  Processing'
    BY <1>2 DEF Ends, None
  <1>3. ASSUME NEW p \in Procs, Exits(p) \/ Dies(p) PROVE Processing'
    BY <1>2, <1>3 DEF Exits, Dies
  <1>4. CASE Spawns
    <2>1. host \notin {"start", "raised"} /\ ~(timedOut /\ cleanupError = None)
      BY <1>4 DEF Spawns
    <2> QED
      BY <1>4, <2>1 DEF Spawns, Leader, Kid, TypeOK
  <1>5. CASE LeavesGroup
    BY <1>5 DEF LeavesGroup, Leader, Kid
  <1>6. CASE LetsGo
    BY <1>6 DEF LetsGo, Leader, Kid
  <1>7. CASE Expires \/ Feeds
    BY <1>7 DEF Expires, Feeds
  <1>8. ASSUME NEW s \in Streams,
               \/ Reads(s) \/ SeesEnd(s) \/ Hashes(s) \/ Counts(s)
               \/ Observes(s) \/ Keeps(s) \/ Flags(s)
        PROVE  Processing'
    BY <1>8 DEF Reads, SeesEnd, Hashes, Counts, Observes, Keeps, Flags
  <1>9. ASSUME NEW s \in Streams, Joins(s) \/ JoinTimesOut(s) PROVE Processing'
    BY <1>9 DEF Joins, JoinTimesOut, Joining, Joined
  <1>10. CASE FailsToStart
    BY <1>10 DEF FailsToStart
  <1>11. CASE Starts
    BY <1>11 DEF Starts
  <1>12. CASE Polls
    BY <1>12 DEF Polls
  <1>13. CASE ChecksLimits
    BY <1>13 DEF ChecksLimits, Terminates, Group, None
  <1>14. CASE Waits
    BY <1>14 DEF Waits, TypeOK
  <1>15. CASE WaitTimesOut
    BY <1>15 DEF WaitTimesOut, Terminates, Group, None
  <1>16. CASE WaitTimesOutAgain
    BY <1>16 DEF WaitTimesOutAgain, ErrorOnTimeout, None
  <1>17. CASE Composes
    BY <1>17, FieldsRead DEF Composes
  <1>18. CASE Processes
    BY <1>1, <1>3, <1>4, <1>5, <1>6, <1>18, Zenon DEF Processes
  <1>19. CASE Reader
    BY <1>8, <1>19, Zenon DEF Reader
  <1>20. CASE Host
    <2>1. (\E s \in Streams : Joins(s) \/ JoinTimesOut(s)) => Processing'
      BY <1>9, Zenon
    <2> QED
      BY <1>10, <1>11, <1>12, <1>13, <1>14, <1>15, <1>16, <1>17, <1>20, <2>1, Zenon DEF Host
  <1> QED
    BY <1>0, <1>7, <1>18, <1>19, <1>20, Zenon DEF Next, Rests

\* The books of the locked block stand as long as nobody inside it moves.
LEMMA LockUntouched ==
    ASSUME observed' = observed,
           \A s \in Streams : /\ Held(s, "keeping")' = Held(s, "keeping")
                             /\ Held(s, "flagging")' = Held(s, "flagging")
    PROVE  Offered' = Offered /\ Judged' = Judged
  BY DEF Offered, Judged, Streams

\* They stand, too, while the threads do: what happens to the processes and to
\* the call cannot reopen a pipe, and nobody starts the call twice.
LEMMA BooksUntouched ==
    ASSUME CallInv, UNCHANGED <<dataVars, readVars>>,
           host' = "start" => host = "start", holders = {} => holders' = {}
    PROVE  Accounting'
  <1>1. \A s \in Streams : \A p : Held(s, p)' = Held(s, p)
    BY DEF Held, readVars
  <1>2. Offered' = Offered /\ Judged' = Judged
    BY <1>1, LockUntouched DEF readVars
  <1> QED
    BY <1>1, <1>2 DEF CallInv, Accounting, Total, Streams, dataVars, readVars

\* Every step keeps the books: a unit moves from one place to the next, and a
\* stream that has ended stays at its end because nobody can write to it.
LEMMA AccountingStep == CallInv /\ [Next]_vars => Accounting'
  <1> SUFFICES ASSUME CallInv, [Next]_vars PROVE Accounting'
    OBVIOUS
  <1> USE DEF CallInv, procVars, hostVars
  <1>0. CASE UNCHANGED vars
    BY <1>0, BooksUntouched DEF vars
  <1>1. ASSUME NEW p \in Procs, NEW s \in Streams, Writes(p, s) PROVE Accounting'
    <2>1. \A u \in Streams : \A q : Held(u, q)' = Held(u, q)
      BY <1>1 DEF Writes, Held, readVars
    <2>2. Offered' = Offered /\ Judged' = Judged
      BY <1>1, <2>1, LockUntouched DEF Writes, readVars
    <2>3. ASSUME NEW u \in Streams
          PROVE  (/\ written[u] = pipe[u] + Held(u, "hashing") + hashed[u]
                  /\ hashed[u] = streamBytes[u] + Held(u, "counting")
                  /\ kept[u] + Held(u, "adding") + Held(u, "keeping") <= streamBytes[u]
                  /\ at[u] = "done" => holders = {} /\ pipe[u] = 0
                  /\ chunk[u] <= Chunk)'
      <3>1. /\ UNCHANGED <<at, chunk, hashed, streamBytes, kept, holders>> /\ holders # {}
            /\ written'[u] - pipe'[u] = written[u] - pipe[u]
            /\ written'[u] \in Nat /\ pipe'[u] \in Nat
        BY <1>1 DEF Writes, TypeOK, readVars
      <3>2. written[u] \in Nat /\ pipe[u] \in Nat /\ hashed[u] \in Nat
            /\ Held(u, "hashing") \in Nat
        BY DEF TypeOK, Held
      <3> QED
        BY <2>1, <3>1, <3>2 DEF Accounting
    <2>4. (Total(streamBytes) = observed + Held("stdout", "adding") + Held("stderr", "adding"))'
      BY <1>1, <2>1 DEF Writes, Accounting, Total, Streams, readVars
    <2>5. (Judged \in Nat /\ Total(kept) = Least(Offered, MaxOutput)
            /\ (overflow <=> Judged > MaxOutput))'
      BY <1>1, <2>2 DEF Writes, Accounting, Total, readVars
    <2>6. /\ (host = "start" => \A u \in Streams : at[u] = "off")'
          /\ (at["stdout"] \in {"keeping", "flagging"}
                => at["stderr"] \notin {"keeping", "flagging"})'
      BY <1>1 DEF Writes, Accounting, readVars
    <2> QED
      BY <2>3, <2>4, <2>5, <2>6 DEF Accounting
  <1>2. ASSUME NEW p \in Procs, NEW how, Ends(p, how) PROVE Accounting'
    BY <1>2, BooksUntouched DEF Ends
  <1>3. ASSUME NEW p \in Procs, Exits(p) \/ Dies(p) PROVE Accounting'
    BY <1>2, <1>3 DEF Exits, Dies
  <1>4. CASE Spawns
    <2>1. holders # {} /\ host # "start"
      BY <1>4 DEF Spawns, Processing
    <2> QED
      BY <1>4, <2>1, BooksUntouched DEF Spawns
  <1>5. CASE LeavesGroup \/ LetsGo
    BY <1>5, BooksUntouched DEF LeavesGroup, LetsGo
  <1>6. CASE Expires \/ Feeds
    BY <1>6, BooksUntouched DEF Expires, Feeds
  <1>7. ASSUME NEW s \in Streams, Reads(s) \/ SeesEnd(s) \/ Hashes(s) \/ Counts(s)
        PROVE  Accounting'
    <2>1. \A u \in Streams : /\ Held(u, "keeping")' = Held(u, "keeping")
                             /\ Held(u, "flagging")' = Held(u, "flagging")
      BY <1>7 DEF Reads, SeesEnd, Hashes, Counts, TypeOK, Held
    <2>2. observed' = observed /\ kept' = kept /\ overflow' = overflow
      BY <1>7 DEF Reads, SeesEnd, Hashes, Counts
    <2>3. Offered' = Offered /\ Judged' = Judged
      BY <2>1, <2>2, LockUntouched
    <2>4. (Judged \in Nat /\ Total(kept) = Least(Offered, MaxOutput)
            /\ (overflow <=> Judged > MaxOutput))'
      BY <2>2, <2>3 DEF Accounting, Total
    <2>5. (at["stdout"] \in {"keeping", "flagging"}
             => at["stderr"] \notin {"keeping", "flagging"})'
      BY <1>7 DEF Reads, SeesEnd, Hashes, Counts, Accounting, TypeOK, Streams
    <2>6. ASSUME NEW u \in Streams
          PROVE  (/\ written[u] = pipe[u] + Held(u, "hashing") + hashed[u]
                  /\ hashed[u] = streamBytes[u] + Held(u, "counting")
                  /\ kept[u] + Held(u, "adding") + Held(u, "keeping") <= streamBytes[u]
                  /\ at[u] = "done" => holders = {} /\ pipe[u] = 0
                  /\ chunk[u] <= Chunk)'
      <3>1. CASE Reads(s)
        BY <3>1 DEF Reads, Accounting, TypeOK, Held, Least
      <3>2. CASE SeesEnd(s)
        BY <3>2 DEF SeesEnd, Accounting, TypeOK, Held, dataVars
      <3>3. CASE Hashes(s)
        BY <3>3 DEF Hashes, Accounting, TypeOK, Held, dataVars
      <3>4. CASE Counts(s)
        BY <3>4 DEF Counts, Accounting, TypeOK, Held, dataVars
      <3> QED
        BY <1>7, <3>1, <3>2, <3>3, <3>4
    <2>7. (Total(streamBytes) = observed + Held("stdout", "adding") + Held("stderr", "adding"))'
      <3>1. CASE Counts(s)
        BY <3>1 DEF Counts, Accounting, TypeOK, Held, Total, Streams
      <3>2. CASE Reads(s) \/ SeesEnd(s) \/ Hashes(s)
        <4>1. \A u \in Streams : Held(u, "adding")' = Held(u, "adding")
          BY <3>2 DEF Reads, SeesEnd, Hashes, TypeOK, Held
        <4> QED
          BY <2>2, <3>2, <4>1 DEF Reads, SeesEnd, Hashes, Accounting, Total, Streams
      <3> QED
        BY <1>7, <3>1, <3>2
    <2>8. (host = "start" => \A u \in Streams : at[u] = "off")'
      BY <1>7 DEF Reads, SeesEnd, Hashes, Counts, Accounting
    <2> QED
      BY <2>4, <2>5, <2>6, <2>7, <2>8 DEF Accounting
  <1>8. ASSUME NEW s \in Streams, Observes(s) PROVE Accounting'
    <2>1. /\ observed' = observed + chunk[s] /\ chunk[s] \in Nat
          /\ at' = [at EXCEPT ![s] = "keeping"] /\ at[s] = "adding"
          /\ UNCHANGED <<written, pipe, chunk, hashed, streamBytes, kept, overflow, holders, host>>
          /\ \A u \in Streams : at[u] \notin {"keeping", "flagging"}
      BY <1>8 DEF Observes, LockFree, TypeOK, dataVars
    <2>2. \A u \in Streams :
            /\ Held(u, "keeping") = 0 /\ Held(u, "flagging") = 0
            /\ Held(u, "keeping")' = (IF u = s THEN chunk[s] ELSE 0)
            /\ Held(u, "flagging")' = 0
            /\ Held(u, "adding")' = (IF u = s THEN 0 ELSE Held(u, "adding"))
            /\ Held(s, "adding") = chunk[s]
            /\ Held(u, "hashing")' = Held(u, "hashing")
            /\ Held(u, "counting")' = Held(u, "counting")
      BY <2>1 DEF TypeOK, Held
    <2>3. observed \in Nat /\ \A u \in Streams : Held(u, "adding") \in Nat
      BY DEF TypeOK, Held
    <2>4. Offered' = Offered /\ Judged' = Judged
      BY <2>1, <2>2, <2>3 DEF Offered, Judged, Streams
    <2>5. (Total(streamBytes) = observed + Held("stdout", "adding") + Held("stderr", "adding"))'
      BY <2>1, <2>2, <2>3 DEF Accounting, Total, Streams
    <2>6. (Judged \in Nat /\ Total(kept) = Least(Offered, MaxOutput)
            /\ (overflow <=> Judged > MaxOutput))'
      BY <2>1, <2>4 DEF Accounting, Total
    <2>7. (at["stdout"] \in {"keeping", "flagging"}
             => at["stderr"] \notin {"keeping", "flagging"})'
      BY <2>1 DEF TypeOK, Streams
    <2>8. ASSUME NEW u \in Streams
          PROVE  (/\ written[u] = pipe[u] + Held(u, "hashing") + hashed[u]
                  /\ hashed[u] = streamBytes[u] + Held(u, "counting")
                  /\ kept[u] + Held(u, "adding") + Held(u, "keeping") <= streamBytes[u]
                  /\ at[u] = "done" => holders = {} /\ pipe[u] = 0
                  /\ chunk[u] <= Chunk)'
      BY <2>1, <2>2, <2>3 DEF Accounting, TypeOK
    <2>9. (host = "start" => \A u \in Streams : at[u] = "off")'
      BY <2>1 DEF Accounting
    <2> QED
      BY <2>5, <2>6, <2>7, <2>8, <2>9 DEF Accounting
  <1>9. ASSUME NEW s \in Streams, Keeps(s) PROVE Accounting'
    <2> DEFINE taken == Least(chunk[s], Remaining(s))
    <2>1. /\ kept' = [kept EXCEPT ![s] = @ + taken]
          /\ at' = [at EXCEPT ![s] = "flagging"] /\ at[s] = "keeping"
          /\ UNCHANGED <<written, pipe, chunk, hashed, streamBytes, observed, overflow, holders,
                         host>>
      BY <1>9 DEF Keeps, dataVars
    <2>2. chunk[s] \in Nat /\ taken \in Nat /\ taken <= chunk[s]
      BY DEF TypeOK, Total, Least, Remaining, Streams
    <2>3. \A u \in Streams :
            /\ Held(u, "keeping")' = (IF u = s THEN 0 ELSE Held(u, "keeping"))
            /\ Held(u, "flagging")' = (IF u = s THEN chunk[s] ELSE Held(u, "flagging"))
            /\ Held(s, "keeping") = chunk[s] /\ Held(s, "flagging") = 0
            /\ Held(u, "adding")' = Held(u, "adding")
            /\ Held(u, "hashing")' = Held(u, "hashing")
            /\ Held(u, "counting")' = Held(u, "counting")
      BY <2>1 DEF TypeOK, Held
    <2>4. /\ observed \in Nat
          /\ \A u \in Streams : Held(u, "keeping") \in Nat /\ Held(u, "flagging") \in Nat
      BY DEF TypeOK, Held
    <2>5. Offered' = Offered + chunk[s] /\ Judged' = Judged
      BY <2>1, <2>2, <2>3, <2>4 DEF Offered, Judged, Streams
    <2>6. Offered \in Nat
      BY <2>4 DEF Accounting, Offered, Judged, Streams
    <2>7. Least(Offered, MaxOutput) + taken = Least(Offered + chunk[s], MaxOutput)
      BY <2>2, <2>6 DEF Accounting, Least, Remaining
    <2> HIDE DEF taken
    <2>8. Total(kept') = Total(kept) + taken
      BY <2>1, <2>2 DEF Total, TypeOK, Streams
    <2>9. (Judged \in Nat /\ Total(kept) = Least(Offered, MaxOutput)
            /\ (overflow <=> Judged > MaxOutput))'
      <3>1. Total(kept') = Least(Offered', MaxOutput)
        BY <2>5, <2>7, <2>8 DEF Accounting
      <3> QED
        BY <2>1, <2>5, <3>1 DEF Accounting, Total, Least
    <2>10. (Total(streamBytes) = observed + Held("stdout", "adding") + Held("stderr", "adding"))'
      BY <2>1, <2>3 DEF Accounting, Total, Streams
    <2>11. (at["stdout"] \in {"keeping", "flagging"}
              => at["stderr"] \notin {"keeping", "flagging"})'
      BY <2>1 DEF Accounting, TypeOK, Streams
    <2>12. ASSUME NEW u \in Streams
           PROVE  (/\ written[u] = pipe[u] + Held(u, "hashing") + hashed[u]
                   /\ hashed[u] = streamBytes[u] + Held(u, "counting")
                   /\ kept[u] + Held(u, "adding") + Held(u, "keeping") <= streamBytes[u]
                   /\ at[u] = "done" => holders = {} /\ pipe[u] = 0
                   /\ chunk[u] <= Chunk)'
      <3>1. CASE u = s
        BY <2>1, <2>2, <2>3, <3>1 DEF Accounting, TypeOK, Held
      <3>2. CASE u # s
        BY <2>1, <2>3, <3>2 DEF Accounting, TypeOK
      <3> QED
        BY <3>1, <3>2
    <2>13. (host = "start" => \A u \in Streams : at[u] = "off")'
      BY <2>1 DEF Accounting
    <2> QED
      BY <2>9, <2>10, <2>11, <2>12, <2>13 DEF Accounting
  <1>10. ASSUME NEW s \in Streams, Flags(s) PROVE Accounting'
    <2>1. /\ overflow' <=> (overflow \/ observed > MaxOutput)
          /\ at' = [at EXCEPT ![s] = "reading"] /\ at[s] = "flagging"
          /\ UNCHANGED <<written, pipe, chunk, hashed, streamBytes, kept, observed, holders, host>>
      BY <1>10 DEF Flags, PassesLimit, dataVars
    <2>2. \A u \in Streams :
            /\ Held(u, "keeping") = 0 /\ Held(u, "keeping")' = 0 /\ Held(u, "flagging")' = 0
            /\ Held(u, "flagging") = (IF u = s THEN chunk[s] ELSE 0)
            /\ Held(u, "adding")' = Held(u, "adding")
            /\ Held(u, "hashing")' = Held(u, "hashing")
            /\ Held(u, "counting")' = Held(u, "counting")
      BY <2>1 DEF Accounting, TypeOK, Held, Streams
    <2>3. observed \in Nat /\ chunk[s] \in Nat
      BY DEF TypeOK
    <2>4. /\ Offered = observed /\ Offered' = observed
          /\ Judged = observed - chunk[s] /\ Judged' = observed
      BY <2>1, <2>2, <2>3 DEF Offered, Judged, Streams
    <2>5. (Judged \in Nat /\ Total(kept) = Least(Offered, MaxOutput)
            /\ (overflow <=> Judged > MaxOutput))'
      BY <2>1, <2>3, <2>4 DEF Accounting, Total, Least
    <2>6. (Total(streamBytes) = observed + Held("stdout", "adding") + Held("stderr", "adding"))'
      BY <2>1, <2>2 DEF Accounting, Total, Streams
    <2>7. (at["stdout"] \in {"keeping", "flagging"}
             => at["stderr"] \notin {"keeping", "flagging"})'
      BY <2>1 DEF Accounting, TypeOK, Streams
    <2>8. ASSUME NEW u \in Streams
          PROVE  (/\ written[u] = pipe[u] + Held(u, "hashing") + hashed[u]
                  /\ hashed[u] = streamBytes[u] + Held(u, "counting")
                  /\ kept[u] + Held(u, "adding") + Held(u, "keeping") <= streamBytes[u]
                  /\ at[u] = "done" => holders = {} /\ pipe[u] = 0
                  /\ chunk[u] <= Chunk)'
      BY <2>1, <2>2 DEF Accounting, TypeOK
    <2>9. (host = "start" => \A u \in Streams : at[u] = "off")'
      BY <2>1 DEF Accounting
    <2> QED
      BY <2>5, <2>6, <2>7, <2>8, <2>9 DEF Accounting
  <1>11. ASSUME NEW s \in Streams, Joins(s) \/ JoinTimesOut(s) PROVE Accounting'
    BY <1>11, BooksUntouched DEF Joins, JoinTimesOut, Joining, Joined
  <1>12. CASE Starts
    <2>1. \A u \in Streams : at[u] = "off" /\ at'[u] = "reading"
      BY <1>12 DEF Starts, Accounting
    <2>2. \A u \in Streams, q \in {"hashing", "counting", "adding", "keeping", "flagging"} :
            Held(u, q)' = Held(u, q)
      BY <2>1 DEF Held
    <2>3. Offered' = Offered /\ Judged' = Judged
      BY <1>12, <2>2, LockUntouched DEF Starts
    <2> QED
      BY <1>12, <2>1, <2>2, <2>3 DEF Starts, Accounting, Total, Streams, dataVars
  <1>13. CASE \/ FailsToStart \/ Polls \/ ChecksLimits \/ Waits
              \/ WaitTimesOut \/ WaitTimesOutAgain \/ Composes
    BY <1>13, BooksUntouched DEF FailsToStart, Polls, ChecksLimits, Waits, WaitTimesOut,
                                 WaitTimesOutAgain, Composes
  <1>14. CASE Processes
    BY <1>1, <1>3, <1>4, <1>5, <1>14, Zenon DEF Processes
  <1>15. CASE Reader
    BY <1>7, <1>8, <1>9, <1>10, <1>15, Zenon DEF Reader
  <1>16. CASE Host
    BY <1>11, <1>12, <1>13, <1>16, Zenon DEF Host
  <1> QED
    BY <1>0, <1>6, <1>14, <1>15, <1>16, Zenon DEF Next, Rests

-----------------------------------------------------------------------------
\* What a capture is read from only grows, and no longer does in a stream whose
\* thread has ended.
LEMMA Grows ==
    ASSUME CallInv, [Next]_vars, TypeOK', Accounting'
    PROVE  /\ \A s \in Streams : /\ kept[s] <= kept'[s] /\ streamBytes[s] <= streamBytes'[s]
                                 /\ hashed[s] <= hashed'[s]
           /\ observed <= observed'
  <1> USE DEF CallInv, TypeOK, procVars, dataVars, readVars, hostVars
  <1> DEFINE G == /\ \A s \in Streams : /\ kept[s] <= kept'[s]
                                        /\ streamBytes[s] <= streamBytes'[s]
                                        /\ hashed[s] <= hashed'[s]
                  /\ observed <= observed'
  <1>1. UNCHANGED <<kept, streamBytes, hashed, observed>> => G
    OBVIOUS
  <1>2. ASSUME NEW s \in Streams, Hashes(s) PROVE G
    BY <1>2 DEF Hashes
  <1>3. ASSUME NEW s \in Streams, Counts(s) PROVE G
    BY <1>3 DEF Counts
  <1>4. ASSUME NEW s \in Streams, Observes(s) \/ Keeps(s) PROVE G
    <2>1. Least(chunk[s], Remaining(s)) \in Nat
      BY DEF Least, Remaining, Total, Streams
    <2> QED
      BY <1>4, <2>1 DEF Observes, Keeps
  <1>5. ASSUME NEW s \in Streams, Reads(s) \/ SeesEnd(s) \/ Flags(s) PROVE G
    BY <1>1, <1>5 DEF Reads, SeesEnd, Flags
  <1>6. CASE Reader
    BY <1>2, <1>3, <1>4, <1>5, <1>6, Zenon DEF Reader
  <1>7. CASE Processes
    BY <1>1, <1>7 DEF Processes, Writes, Exits, Dies, Ends, Spawns, LeavesGroup, LetsGo
  <1>8. CASE Host
    BY <1>1, <1>8 DEF Host, FailsToStart, Starts, Polls, ChecksLimits, Waits, WaitTimesOut,
                      WaitTimesOutAgain, Joins, JoinTimesOut, Composes
  <1>9. CASE UNCHANGED vars \/ Expires \/ Feeds \/ Rests
    BY <1>1, <1>9 DEF vars, Expires, Feeds, Rests
  <1> QED
    BY <1>6, <1>7, <1>8, <1>9, Zenon DEF Next

\* The threads, the processes and the clock leave a capture and the position of
\* the call alone; a stream that has ended is not touched.
LEMMA Aside ==
    ASSUME CallInv, Processes \/ Reader \/ Expires \/ Feeds \/ UNCHANGED vars
    PROVE  /\ UNCHANGED <<host, capture, late>>
           /\ \A s \in Streams : at[s] = "done" =>
                 /\ at'[s] = "done" /\ kept'[s] = kept[s]
                 /\ streamBytes'[s] = streamBytes[s] /\ hashed'[s] = hashed[s]
           /\ (\A s \in Streams : at[s] = "done") => UNCHANGED <<observed, overflow>>
  <1> USE DEF CallInv, TypeOK, procVars, dataVars, readVars, hostVars
  <1>1. CASE Processes
    BY <1>1 DEF Processes, Writes, Exits, Dies, Ends, Spawns, LeavesGroup, LetsGo
  <1>2. CASE Reader
    <2> PICK s \in Streams : \/ Reads(s) \/ SeesEnd(s) \/ Hashes(s) \/ Counts(s)
                             \/ Observes(s) \/ Keeps(s) \/ Flags(s)
      BY <1>2 DEF Reader
    <2>1. CASE Reads(s) \/ SeesEnd(s)
      BY <2>1 DEF Reads, SeesEnd
    <2>2. CASE Hashes(s) \/ Counts(s)
      BY <2>2 DEF Hashes, Counts
    <2>3. CASE Observes(s) \/ Keeps(s) \/ Flags(s)
      BY <2>3 DEF Observes, Keeps, Flags
    <2> QED
      BY <2>1, <2>2, <2>3
  <1>3. CASE Expires \/ Feeds \/ UNCHANGED vars
    BY <1>3 DEF Expires, Feeds, vars
  <1> QED
    BY <1>1, <1>2, <1>3

\* No more is offered than was observed.
LEMMA OfferedIsObserved == CallInv => Offered \in Nat /\ Offered <= observed
  <1> SUFFICES ASSUME CallInv PROVE Offered \in Nat /\ Offered <= observed
    OBVIOUS
  <1>1. observed \in Nat /\ Judged \in Nat
    BY DEF CallInv, TypeOK, Accounting
  <1>2. \A s \in Streams : Held(s, "keeping") \in Nat /\ Held(s, "flagging") \in Nat
    BY DEF CallInv, TypeOK, Held
  <1> QED
    BY <1>1, <1>2 DEF Offered, Judged, Streams

\* What has been observed and not yet held against the limit is one chunk: that
\* of the thread inside the lock.
LEMMA JudgedIsClose == CallInv => Judged \in Nat /\ observed <= Judged + Chunk
  <1> SUFFICES ASSUME CallInv PROVE Judged \in Nat /\ observed <= Judged + Chunk
    OBVIOUS
  <1>1. observed \in Nat /\ Judged \in Nat
    BY DEF CallInv, TypeOK, Accounting
  <1>2. \A s \in Streams : chunk[s] \in Nat /\ chunk[s] <= Chunk
    BY DEF CallInv, TypeOK, Accounting
  <1>3. at["stdout"] \in {"keeping", "flagging"} => at["stderr"] \notin {"keeping", "flagging"}
    BY DEF CallInv, Accounting
  <1>4. Held("stdout", "keeping") + Held("stderr", "keeping")
          + Held("stdout", "flagging") + Held("stderr", "flagging") <= Chunk
    BY <1>2, <1>3 DEF Held, Streams
  <1>5. \A s \in Streams : Held(s, "keeping") \in Nat /\ Held(s, "flagging") \in Nat
    BY <1>2 DEF Held
  <1> QED
    BY <1>1, <1>4, <1>5 DEF Offered, Judged, Streams

\* Once the payload has been read, all threads have been joined or given up.
LEMMA AllJoined ==
    ASSUME CallInv, HasPayload, late = {}
    PROVE  \A s \in Streams : at[s] = "done"
  BY DEF CallInv, Composing, ThreadsJoined, HasJoined

\* And if none was given up, none has a chunk at hand.
LEMMA NothingAtHand ==
    ASSUME CallInv, HasPayload, late = {}
    PROVE  Offered = observed /\ Judged = observed
  <1>1. \A s \in Streams, p \in {"keeping", "flagging"} : Held(s, p) = 0
    BY AllJoined DEF Held
  <1> QED
    BY <1>1 DEF CallInv, TypeOK, Offered, Judged, Streams

\* The world around the call keeps what has been read of the capture.
LEMMA ComposingAside ==
    ASSUME CallInv, [Next]_vars, TypeOK', Accounting',
           Processes \/ Reader \/ Expires \/ Feeds \/ UNCHANGED vars
    PROVE  Composing'
  <1> USE DEF CallInv, TypeOK
  <1>1. /\ UNCHANGED <<host, capture, late>>
        /\ \A s \in Streams : at[s] = "done" =>
              /\ at'[s] = "done" /\ kept'[s] = kept[s]
              /\ streamBytes'[s] = streamBytes[s] /\ hashed'[s] = hashed[s]
        /\ (\A s \in Streams : at[s] = "done") => UNCHANGED <<observed, overflow>>
    BY Aside
  <1>2. /\ \A s \in Streams : /\ kept[s] <= kept'[s] /\ streamBytes[s] <= streamBytes'[s]
                              /\ hashed[s] <= hashed'[s]
        /\ observed <= observed'
    BY Grows
  <1>3. ThreadsJoined'
    BY <1>1 DEF Composing, ThreadsJoined, HasJoined, HasPayload
  <1>4. PayloadRead'
    <2> SUFFICES ASSUME HasPayload'
                 PROVE  (/\ Total(capture.payload) <= Least(observed, MaxOutput)
                         /\ \A s \in Streams : /\ capture.payload[s] <= kept[s]
                                               /\ late = {} => capture.payload[s] = kept[s])'
      BY DEF PayloadRead
    <2>1. HasPayload /\ PayloadRead
      BY <1>1 DEF Composing, HasPayload
    <2>2. (Total(capture.payload) <= Least(observed, MaxOutput))'
      BY <1>1, <1>2, <2>1 DEF PayloadRead, Total, Least, Streams
    <2>3. ASSUME NEW s \in Streams PROVE (capture.payload[s] <= kept[s])'
      BY <1>1, <1>2, <2>1 DEF PayloadRead
    <2>4. ASSUME NEW s \in Streams PROVE (late = {} => capture.payload[s] = kept[s])'
      BY <1>1, <2>1, AllJoined DEF PayloadRead
    <2> QED
      BY <2>2, <2>3, <2>4
  <1>5. ASSUME NEW s \in Streams PROVE (BytesRead(s) /\ DigestRead(s))'
    <2>1. /\ HasBytes(s)' => HasBytes(s) /\ HasPayload
          /\ HasDigest(s)' => HasDigest(s) /\ HasPayload
      BY <1>1 DEF HasBytes, HasDigest, HasPayload
    <2>2. HasPayload /\ late' = {} => streamBytes'[s] = streamBytes[s] /\ hashed'[s] = hashed[s]
      BY <1>1, AllJoined
    <2>3. BytesRead(s) /\ DigestRead(s)
      BY DEF Composing
    <2> QED
      BY <1>1, <1>2, <2>1, <2>2, <2>3 DEF BytesRead, DigestRead
  <1>6. ObservedRead'
    <2>1. HasObserved' => HasObserved /\ HasPayload
      BY <1>1 DEF HasObserved, HasPayload
    <2>2. HasPayload /\ late' = {} => observed' = observed
      BY <1>1, AllJoined
    <2> QED
      BY <1>1, <1>2, <2>1, <2>2 DEF Composing, ObservedRead, Total
  <1>7. FlagRead'
    <2>1. host' = "done" => HasPayload
      BY <1>1 DEF HasPayload
    <2>2. HasPayload /\ late' = {} => overflow' = overflow
      BY <1>1, AllJoined
    <2> QED
      BY <1>1, <2>1, <2>2 DEF Composing, FlagRead
  <1> QED
    BY <1>3, <1>4, <1>5, <1>6, <1>7 DEF Composing

\* A step of the call moves one field further, from what is known of its source.
LEMMA ComposingHost == CallInv /\ Host => Composing'
  <1> SUFFICES ASSUME CallInv, Host PROVE Composing'
    OBVIOUS
  <1> USE DEF CallInv, TypeOK, procVars, dataVars, readVars, hostVars
  <1> DEFINE Nothing == host' \notin {"joinErr", "copy", "bytesOut", "digestOut", "bytesErr",
                                     "digestErr", "observe", "flag", "done"}
  <1>1. Nothing => Composing'
    BY DEF Composing, ThreadsJoined, PayloadRead, BytesRead, DigestRead, ObservedRead, FlagRead,
           HasJoined, HasPayload, HasBytes, HasDigest, HasObserved
  <1>2. CASE FailsToStart \/ Starts \/ Polls \/ ChecksLimits \/ Waits \/ WaitTimesOut
             \/ WaitTimesOutAgain
    <2>1. Nothing
      BY <1>2 DEF FailsToStart, Starts, Polls, ChecksLimits, Waits, WaitTimesOut,
                  WaitTimesOutAgain
    <2> QED
      BY <1>1, <2>1
  <1>3. ASSUME NEW s \in Streams, Joins(s) \/ JoinTimesOut(s) PROVE Composing'
    <2>1. /\ host = (IF s = "stdout" THEN "joinOut" ELSE "joinErr")
          /\ host' = (IF s = "stdout" THEN "joinErr" ELSE "copy")
          /\ at' = at /\ late \subseteq late' /\ (s \in late' \/ at[s] = "done")
      BY <1>3 DEF Joins, JoinTimesOut, Joining, Joined
    <2>2. ThreadsJoined'
      BY <2>1 DEF Composing, ThreadsJoined, HasJoined, HasPayload, Streams
    <2> QED
      BY <2>1, <2>2 DEF Composing, PayloadRead, BytesRead, DigestRead, ObservedRead, FlagRead,
                        HasPayload, HasBytes, HasDigest, HasObserved
  <1>4. CASE Composes
    <2>1. /\ UNCHANGED <<at, kept, hashed, streamBytes, observed, overflow, late>>
          /\ <<host, host'>> \in {<<"copy", "bytesOut">>, <<"bytesOut", "digestOut">>,
                                 <<"digestOut", "bytesErr">>, <<"bytesErr", "digestErr">>,
                                 <<"digestErr", "observe">>, <<"observe", "flag">>,
                                 <<"flag", "done">>}
      BY <1>4 DEF Composes
    <2>2. /\ capture'.payload = IF host = "copy" THEN kept ELSE capture.payload
          /\ \A s \in Streams :
               /\ capture'.bytes[s] = IF host = (IF s = "stdout" THEN "bytesOut" ELSE "bytesErr")
                                      THEN streamBytes[s] ELSE capture.bytes[s]
               /\ capture'.digest[s] = IF host = (IF s = "stdout" THEN "digestOut"
                                                                  ELSE "digestErr")
                                       THEN hashed[s] ELSE capture.digest[s]
          /\ capture'.observed = IF host = "observe" THEN observed ELSE capture.observed
          /\ capture'.overflow = IF host = "flag" THEN overflow ELSE capture.overflow
      BY <1>4, FieldsRead
    <2>3. ThreadsJoined'
      BY <2>1 DEF Composing, ThreadsJoined, HasJoined, HasPayload
    <2>4. PayloadRead'
      <3>1. CASE host = "copy"
        <4>1. capture'.payload = kept /\ UNCHANGED <<observed, kept>>
          BY <2>1, <2>2, <3>1
        <4>2. Total(kept) <= Least(observed, MaxOutput)
          BY OfferedIsObserved DEF Accounting, Least
        <4>4. (Total(capture.payload) <= Least(observed, MaxOutput))'
          BY <4>1, <4>2 DEF Total, Least
        <4>3. (\A s \in Streams : /\ capture.payload[s] <= kept[s]
                                  /\ late = {} => capture.payload[s] = kept[s])'
          BY <4>1
        <4> QED
          BY <4>3, <4>4 DEF PayloadRead
      <3>2. CASE host # "copy"
        BY <2>1, <2>2, <3>2 DEF PayloadRead, Composing, HasPayload
      <3> QED
        BY <3>1, <3>2
    <2>5. ASSUME NEW s \in Streams PROVE BytesRead(s)'
      <3>1. CASE host = IF s = "stdout" THEN "bytesOut" ELSE "bytesErr"
        <4>1. capture.payload[s] <= kept[s]
          BY <3>1 DEF Composing, PayloadRead, HasPayload
        <4>2. kept[s] <= streamBytes[s]
          BY DEF Accounting, Held
        <4> QED
          BY <2>1, <2>2, <3>1, <4>1, <4>2 DEF BytesRead
      <3>2. CASE host # IF s = "stdout" THEN "bytesOut" ELSE "bytesErr"
        <4>1. HasBytes(s)' => HasBytes(s) /\ host # "copy"
          BY <2>1, <3>2 DEF HasBytes, Streams
        <4> QED
          BY <2>1, <2>2, <3>2, <4>1 DEF BytesRead, Composing
      <3> QED
        BY <3>1, <3>2
    <2>8. ASSUME NEW s \in Streams PROVE DigestRead(s)'
      <3>1. CASE host = IF s = "stdout" THEN "digestOut" ELSE "digestErr"
        <4>1. capture.bytes[s] <= streamBytes[s]
          BY <3>1 DEF Composing, BytesRead, HasBytes, Streams
        <4>2. streamBytes[s] <= hashed[s]
          BY DEF Accounting, Held
        <4> QED
          BY <2>1, <2>2, <3>1, <4>1, <4>2 DEF DigestRead, Streams
      <3>2. CASE host # IF s = "stdout" THEN "digestOut" ELSE "digestErr"
        <4>1. HasDigest(s)' => HasDigest(s)
          BY <2>1, <3>2 DEF HasDigest, Streams
        <4>2. HasDigest(s)' => host # IF s = "stdout" THEN "bytesOut" ELSE "bytesErr"
          BY <4>1 DEF HasDigest, Streams
        <4> QED
          BY <2>1, <2>2, <3>2, <4>1, <4>2 DEF DigestRead, Composing
      <3> QED
        BY <3>1, <3>2
    <2>6. ObservedRead'
      <3>1. CASE host = "observe"
        <4>1. Total(capture.payload) <= Least(observed, MaxOutput)
          BY <3>1 DEF Composing, PayloadRead, HasPayload
        <4> QED
          BY <2>1, <2>2, <3>1, <4>1 DEF ObservedRead, Total, Least, Streams
      <3>2. CASE host # "observe"
        BY <2>1, <2>2, <3>2 DEF ObservedRead, Composing, HasObserved
      <3> QED
        BY <3>1, <3>2
    <2>7. FlagRead'
      <3>1. CASE host = "flag"
        <4>1. capture.observed <= observed
          BY <3>1 DEF Composing, ObservedRead, HasObserved
        <4>2. ~overflow => observed <= MaxOutput + Chunk
          BY JudgedIsClose DEF Accounting
        <4> QED
          BY <2>1, <2>2, <3>1, <4>1, <4>2 DEF FlagRead
      <3>2. CASE host # "flag"
        BY <2>1, <3>2 DEF FlagRead
      <3> QED
        BY <3>1, <3>2
    <2> QED
      BY <2>3, <2>4, <2>5, <2>6, <2>7, <2>8 DEF Composing
  <1> QED
    BY <1>2, <1>3, <1>4, Zenon DEF Host

-----------------------------------------------------------------------------
\* The invariant holds in every state of every call of run_bounded.
THEOREM CallInvHolds == Spec => []CallInv
  <1>1. Init => CallInv
    BY CallInvInit
  <1>2. CallInv /\ [Next]_vars => CallInv'
    <2> SUFFICES ASSUME CallInv, [Next]_vars PROVE CallInv'
      OBVIOUS
    <2>1. TypeOK' /\ Processing' /\ Accounting'
      BY TypeStep, ProcessingStep, AccountingStep
    <2>2. Composing'
      <3>1. Processes \/ Reader \/ Expires \/ Feeds \/ Host \/ UNCHANGED vars
        BY Zenon DEF Next, Rests
      <3> QED
        BY <2>1, <3>1, ComposingAside, ComposingHost
    <2> QED
      BY <2>1, <2>2 DEF CallInv
  <1> QED
    BY <1>1, <1>2, PTL DEF Spec

\* Every variable of run_bounded keeps its type.
THEOREM CallTypes == Spec => []TypeOK
  BY CallInvHolds, PTL DEF CallInv

\* The fields of a BoundedCapture are read one after the other, without the
\* lock: payload, byte counts and digests stay within each other in this order,
\* and a passed limit goes unflagged by one chunk at most, of a thread given up.
THEOREM CaptureErrsByAChunk == Spec => []CaptureIsConsistent
  <1>1. CallInv => CaptureIsConsistent
    <2> SUFFICES ASSUME CallInv, host = "done" PROVE CaptureIsConsistent
      BY DEF CaptureIsConsistent
    <2> USE DEF CallInv, TypeOK
    <2>1. ASSUME NEW s \in Streams
          PROVE  /\ capture.payload[s] <= capture.bytes[s]
                 /\ capture.bytes[s] <= capture.digest[s]
                 /\ capture.digest[s] <= written[s]
      <3>1. BytesRead(s) /\ HasBytes(s) /\ DigestRead(s) /\ HasDigest(s)
        BY DEF Composing, HasBytes, HasDigest
      <3>2. hashed[s] <= written[s]
        BY DEF Accounting, Held
      <3> QED
        BY <3>1, <3>2 DEF BytesRead, DigestRead
    <2>2. Total(capture.payload) <= capture.observed
      BY DEF Composing, ObservedRead, HasObserved
    <2>3. Total(capture.payload) <= MaxOutput
      BY DEF Composing, PayloadRead, HasPayload, Least, Total, Streams
    <2>4. ~capture.overflow => capture.observed <= MaxOutput + Chunk
      BY DEF Composing, FlagRead
    <2>5. late = {} => (capture.observed > MaxOutput => capture.overflow)
      <3>1. late = {} => capture.observed = observed /\ (capture.overflow <=> overflow)
        BY DEF Composing, ObservedRead, HasObserved, FlagRead
      <3>2. late = {} => Judged = observed
        BY NothingAtHand DEF HasPayload
      <3> QED
        BY <3>1, <3>2 DEF Accounting
    <2> QED
      BY <2>1, <2>2, <2>3, <2>4, <2>5 DEF CaptureIsConsistent, Least
  <1> QED
    BY <1>1, CallInvHolds, PTL

\* A call that joined its threads reports everything its process wrote.
THEOREM JoinedReportsAll == Spec => []JoinedIsComplete
  <1>1. CallInv => JoinedIsComplete
    <2> SUFFICES ASSUME CallInv, host = "done", late = {} PROVE JoinedIsComplete
      BY DEF JoinedIsComplete
    <2> USE DEF CallInv, TypeOK
    <2>1. (\A s \in Streams : at[s] = "done") /\ Offered = observed /\ Judged = observed
      BY AllJoined, NothingAtHand DEF HasPayload
    <2>2. \A s \in Streams : /\ hashed[s] = written[s] /\ streamBytes[s] = written[s]
                             /\ Held(s, "adding") = 0
      BY <2>1 DEF Accounting, Held
    <2>3. observed = Total(written)
      BY <2>2 DEF Accounting, Total, Streams
    <2>4. \A s \in Streams : /\ capture.bytes[s] = streamBytes[s]
                             /\ capture.digest[s] = hashed[s]
                             /\ capture.payload[s] = kept[s]
      BY DEF Composing, BytesRead, HasBytes, DigestRead, HasDigest, PayloadRead, HasPayload
    <2>5. capture.digest = written /\ capture.bytes = written
      BY <2>2, <2>4
    <2>6. Total(capture.payload) = Least(Total(written), MaxOutput)
      BY <2>1, <2>3, <2>4 DEF Accounting, Total, Streams
    <2>7. capture.observed = observed /\ (capture.overflow <=> observed > MaxOutput)
      BY <2>1 DEF Composing, ObservedRead, HasObserved, FlagRead, Accounting
    <2>8. capture.overflow \in BOOLEAN
      OBVIOUS
    <2> QED
      BY <2>3, <2>5, <2>6, <2>7, <2>8 DEF JoinedIsComplete
  <1> QED
    BY <1>1, CallInvHolds, PTL

\* A call without a cleanup error has seen its process end, and after a timeout
\* no member of the process group goes on unsignalled.
THEOREM CleanCallLeavesNothing == Spec => []NothingRunsOn
  <1>1. CallInv => NothingRunsOn
    BY DEF CallInv, Processing, NothingRunsOn
  <1> QED
    BY <1>1, CallInvHolds, PTL
=============================================================================
