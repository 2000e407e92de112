---------------------------- MODULE FlakeHistory ----------------------------
(***************************************************************************)
(* Concurrent resQ runs that share one flake-history file                  *)
(* (lib/quarantine.q): the load at the start of a run, the directory lock  *)
(* around read, merge and publication at its end, reclaiming the lock of a *)
(* dead owner, and the archive of a history of another identity            *)
(* generation.  A history is what it holds of one test: the runs that      *)
(* observed it, and for how many complete runs it has not been seen.       *)
(* File-system operations are the atomic steps; the shell loop of          *)
(* acquireFlakeHistoryLock is several of them.  The runs may belong to     *)
(* several users of one directory, who can rename each other's files there *)
(* but not remove what is inside each other's directories.                 *)
(***************************************************************************)
EXTENDS Naturals, FiniteSets

CONSTANTS
  Runs,        \* q processes, identified by their process ids
  NoRun,       \* no process id
  MaxTries,    \* tries of the bounded wait (100 in the code)
  MaxCrashes,  \* bound on the number of runs that are killed
  Shapes,      \* what may be in the file before the runs
  Users,       \* the accounts the runs may belong to
  Window,      \* observations kept of a test (20 in the code)
  UnseenLimit  \* complete runs without a test before it is dropped (20)

ASSUME FlakeAssumption ==
  /\ NoRun \notin Runs /\ MaxTries \in Nat \ {0} /\ MaxCrashes \in Nat
  /\ Shapes \subseteq {"missing", "ok", "invalid", "unsupported"}
  /\ Window \in Nat \ {0} /\ UnseenLimit \in Nat

Statuses == {"missing", "ok", "invalid", "unsupported"}

\* An observation, by its run (NoRun: an earlier one) and the later ones there are.
Observations == [run : Runs \union {NoRun}, age : 0 .. Window - 1]
History  == [status : Statuses, seen : SUBSET Observations, missed : 0 .. UnseenLimit]
Missing  == [status |-> "missing", seen |-> {}, missed |-> 0]

\* Only a valid history is read.
Usable(h) == IF h.status = "ok" THEN h ELSE Missing

\* What a run can say of the test: it ran it; it is complete and has no such test;
\* it is no complete run; or the history has more tests than it may keep.
Scopes == {"tested", "missing", "partial", "crowded"}

Stages == {"load", "archiveAtLoad", "mkdir", "owner", "probe", "unlink", "rmdir", "pid",
           "read", "archive", "write", "publish", "release", "rmdirOwn", "late",
           "exited", "killed"}
Writing == {"read", "archive", "write", "publish"}

VARIABLES
  pc,         \* the next step of each run
  file,       \* the history file
  archives,   \* the .identity-mismatch siblings
  lockDir,    \* does <path>.lock exist?
  lockPid,    \* what <path>.lock/pid holds, or NoRun
  owner,      \* the owner a waiting shell has read
  tries,      \* the shell's counter i
  latest,     \* the history a writer has read
  user,       \* whose process each run is
  maker,      \* the run that made the directory <path>.lock, or NoRun
  serial,     \* what the publications since the last archive, one after the
              \* other, make of the history
  past,       \* the observations serial had at each archive
  crashes

lock  == <<lockDir, lockPid, maker>>
store == <<file, archives>>
wait  == <<owner, tries>>
due   == <<serial, past>>
vars  == <<pc, store, lock, wait, latest, user, due, crashes>>

TypeOK ==
  /\ pc \in [Runs -> Stages]
  /\ file \in History /\ archives \subseteq History
  /\ lockDir \in BOOLEAN /\ lockPid \in Runs \union {NoRun}
  /\ ~lockDir => lockPid = NoRun
  /\ user \in [Runs -> Users]
  /\ maker \in Runs \union {NoRun} /\ (lockDir => maker \in Runs)
  /\ owner \in [Runs -> Runs \union {NoRun}]
  /\ tries \in [Runs -> 0 .. MaxTries]
  /\ latest \in [Runs -> History]
  /\ serial \in History /\ past \subseteq SUBSET Observations
  /\ crashes \in 0 .. MaxCrashes

Init ==
  /\ pc = [r \in Runs |-> "load"]
  /\ \E s \in Shapes :
       file = [status |-> s, missed |-> 0,
               seen |-> IF s = "ok" THEN {[run |-> NoRun, age |-> 0]} ELSE {}]
  /\ archives = {} /\ lockDir = FALSE /\ lockPid = NoRun
  /\ owner = [r \in Runs |-> NoRun] /\ tries = [r \in Runs |-> 0]
  /\ latest = [r \in Runs |-> Missing]
  /\ user \in [Runs -> Users] /\ maker = NoRun
  /\ serial = Usable(file) /\ past = {} /\ crashes = 0

-----------------------------------------------------------------------------
Goto(r, from, to) == pc[r] = from /\ pc' = [pc EXCEPT ![r] = to]

Alive(r) == pc[r] \notin {"exited", "killed"}

\* What every step but a publication or an archive leaves alone.
Kept == UNCHANGED <<store, due>>

\* loadFlakeState: a history of another generation is archived before the
\* tests run; the tests themselves touch nothing here.
LoadHistory(r) ==
  /\ Goto(r, "load", IF file.status = "unsupported" THEN "archiveAtLoad" ELSE "mkdir")
  /\ Kept /\ UNCHANGED <<lock, wait, latest, crashes, user>>

\* archiveIdentityState: whatever is at the path now is moved aside; the move
\* may fail.  The writer goes on only if something was archived.
Archived ==
  /\ file.status # "missing" /\ archives' = archives \union {file} /\ file' = Missing
  /\ serial' = Missing /\ past' = past \union {serial.seen}

ArchiveAtLoad(r) ==
  /\ Goto(r, "archiveAtLoad", "mkdir")
  /\ Archived \/ Kept
  /\ UNCHANGED <<lock, wait, latest, crashes, user>>

\* acquireFlakeHistoryLock: while ! mkdir lock.  It fails when the lock is there,
\* and may fail for another reason.
MakeLock(r) ==
  /\ \/ Goto(r, "mkdir", "owner") /\ UNCHANGED lock
     \/ ~lockDir /\ Goto(r, "mkdir", "pid") /\ lockDir' = TRUE /\ lockPid' = NoRun /\ maker' = r
  /\ Kept /\ UNCHANGED <<wait, latest, crashes, user>>

ReadOwner(r) ==
  /\ Goto(r, "owner", "probe") /\ owner' = [owner EXCEPT ![r] = lockPid]
  /\ Kept /\ UNCHANGED <<lock, tries, latest, crashes, user>>

\* Fault: the owner's process is not probed.
Reclaimable_AnyOwner(r) == owner[r] # NoRun

\* kill -0 of the owner that was read fails when the process is gone, and also
\* when it is another user's
Reclaimable(r) == owner[r] # NoRun /\ (~Alive(owner[r]) \/ user[owner[r]] # user[r])

\* Fault: a wait that is not counted.
ProbeOwner_NotCounted(r) ==
  /\ Goto(r, "probe", IF Reclaimable(r) THEN "unlink" ELSE "mkdir")
  /\ Kept /\ UNCHANGED <<lock, wait, latest, crashes, user>>

ProbeOwner(r) ==
  /\ IF Reclaimable(r)
     THEN Goto(r, "probe", "unlink") /\ UNCHANGED tries
     ELSE /\ tries' = [tries EXCEPT ![r] = @ + 1]
          /\ Goto(r, "probe", IF tries'[r] >= MaxTries THEN "late" ELSE "mkdir")
  /\ Kept /\ UNCHANGED <<lock, owner, latest, crashes, user>>

\* A lock that is not empty, in the directory of another user
Barred(r) == lockDir /\ lockPid # NoRun /\ user[maker] # user[r]

\* rm -rf lock: the entries, then the directory if it is still empty.  The loop
\* goes on from the top, without counting or sleeping, also when it failed.
UnlinkStale(r) ==
  /\ \/ Barred(r) /\ Goto(r, "unlink", "mkdir") /\ UNCHANGED lockPid
     \/ ~Barred(r) /\ Goto(r, "unlink", "rmdir") /\ lockPid' = NoRun
  /\ Kept /\ UNCHANGED <<lockDir, maker, wait, latest, crashes, user>>

RemoveStale(r) ==
  /\ Goto(r, "rmdir", "mkdir") /\ lockDir' = (lockPid # NoRun)
  /\ Kept /\ UNCHANGED <<lockPid, maker, wait, latest, crashes, user>>

\* echo pid > lock/pid; the shell reports success whether or not the directory
\* is still there and its own
WritePid(r) ==
  /\ Goto(r, "pid", "read")
  /\ lockPid' = IF ~lockDir THEN NoRun ELSE IF user[maker] = user[r] THEN r ELSE lockPid
  /\ Kept /\ UNCHANGED <<lockDir, maker, wait, latest, crashes, user>>

\* persistFlakeState under the lock
ReadLatest(r) ==
  /\ Goto(r, "read", IF file.status = "unsupported" THEN "archive" ELSE "write")
  /\ latest' = [latest EXCEPT ![r] = file]
  /\ Kept /\ UNCHANGED <<lock, wait, crashes, user>>

\* Fault: a failed archive does not stop the writer.
ArchiveLocked_IgnoresFailure(r) ==
  /\ Goto(r, "archive", "write")
  /\ Archived \/ Kept
  /\ UNCHANGED <<lock, wait, latest, crashes, user>>

ArchiveLocked(r) ==
  /\ \/ Goto(r, "archive", "write") /\ Archived
     \/ Goto(r, "archive", "release") /\ Kept
  /\ UNCHANGED <<lock, wait, latest, crashes, user>>

\* atomicWriteJson: the temporary file, then the rename; either may fail
WriteTemp(r) ==
  /\ Goto(r, "write", "publish") \/ Goto(r, "write", "release")
  /\ Kept /\ UNCHANGED <<lock, wait, latest, crashes, user>>

Older(seen) == {[o EXCEPT !.age = @ + 1] : o \in {x \in seen : x.age + 1 < Window}}

\* appendFlakeObservations: the observation of this run before those the window
\* keeps; a test that complete runs no longer have goes in the end
Merge(h, r, scope) ==
  LET prior == Usable(h) IN
  CASE scope = "tested" ->
         [status |-> "ok", seen |-> {[run |-> r, age |-> 0]} \union Older(prior.seen), missed |-> 0]
    [] scope = "missing" /\ prior.missed < UnseenLimit ->
         [status |-> "ok", seen |-> prior.seen,
          missed |-> IF prior.seen = {} THEN 0 ELSE prior.missed + 1]
    [] scope = "partial" -> [status |-> "ok", seen |-> prior.seen, missed |-> prior.missed]
    [] OTHER -> [status |-> "ok", seen |-> {}, missed |-> 0]

\* Fault: the history is rebuilt from this run alone.
Merged_Forgets(r, scope) == Merge(Missing, r, scope)

Merged(r, scope) == Merge(latest[r], r, scope)

Publish(r) ==
  /\ Goto(r, "publish", "release")
  /\ \/ \E scope \in Scopes :
          /\ file' = Merged(r, scope) /\ serial' = Merge(serial, r, scope)
          /\ UNCHANGED <<archives, past>>
     \/ Kept
  /\ UNCHANGED <<lock, wait, latest, crashes, user>>

\* Fault: the lock is left to the next run to reclaim.
Release_Nothing(r) ==
  Goto(r, "release", "late") /\ Kept /\ UNCHANGED <<lock, wait, latest, crashes, user>>

\* releaseFlakeHistoryLock: only a lock that names this run, in two steps
Release(r) ==
  /\ IF lockPid = r
     THEN Goto(r, "release", "rmdirOwn") /\ lockPid' = NoRun
     ELSE Goto(r, "release", "late") /\ UNCHANGED lockPid
  /\ Kept /\ UNCHANGED <<lockDir, maker, wait, latest, crashes, user>>

RemoveOwn(r) ==
  /\ Goto(r, "rmdirOwn", "late") /\ lockDir' = (lockDir /\ lockPid # NoRun)
  /\ Kept /\ UNCHANGED <<lockPid, maker, wait, latest, crashes, user>>

\* The rest of the run, and its end.
Exit(r) ==
  Goto(r, "late", "exited") /\ Kept /\ UNCHANGED <<lock, wait, latest, crashes, user>>

Crash(r) ==
  /\ Alive(r) /\ crashes < MaxCrashes
  /\ pc' = [pc EXCEPT ![r] = "killed"] /\ crashes' = crashes + 1
  /\ Kept /\ UNCHANGED <<lock, wait, latest, user>>

Step(r) ==
  \/ LoadHistory(r) \/ ArchiveAtLoad(r)
  \/ MakeLock(r) \/ ReadOwner(r) \/ ProbeOwner(r) \/ UnlinkStale(r) \/ RemoveStale(r)
  \/ WritePid(r)
  \/ ReadLatest(r) \/ ArchiveLocked(r) \/ WriteTemp(r) \/ Publish(r)
  \/ Release(r) \/ RemoveOwn(r) \/ Exit(r)

AllOver == (\A r \in Runs : ~Alive(r)) /\ UNCHANGED vars

Next == (\E r \in Runs : Step(r) \/ Crash(r)) \/ AllOver

\* Every process the operating system runs keeps running.
Spec == Init /\ [][Next]_vars /\ \A r \in Runs : WF_vars(Step(r))

-----------------------------------------------------------------------------
\* The read, the merge and the publication are one writer's at a time.
SingleWriter == \A r, s \in Runs : pc[r] \in Writing /\ pc[s] \in Writing => r = s

\* The history holds at least what the published runs make of it one after the
\* other: nothing goes but what the window, the limit of unseen runs and the limit
\* of tests would take from it anyway.  What was there when it was archived is in
\* an archive.
EvidenceKept ==
  /\ serial.seen \subseteq Usable(file).seen
  /\ \A seen \in past : \E a \in archives : seen \subseteq a.seen

\* A history of another identity generation is never overwritten: it leaves the
\* path only into an archive.
RefusesToOverwrite ==
  [][file.status = "unsupported" /\ file' # file => file \in archives']_vars

\* Unless a run was killed, none leaves the lock behind.
LockFreed == (\A r \in Runs : pc[r] = "exited") => ~lockDir

\* The lock is one that r may not remove, and its owner was killed: the loop of
\* quarantine.q:543-551 judges it stale and tries again for ever.
Stuck(r) == Barred(r) /\ pc[lockPid] = "killed"

\* No run waits for ever, whoever holds the lock or died holding it, but in that case.
RunsEnd == \A r \in Runs : <>~Alive(r) \/ <>[]Stuck(r)
=============================================================================
