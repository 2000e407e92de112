--------------------------- MODULE KeptState_proof ---------------------------
(***************************************************************************)
(* What runs and tools keep from one run to the next.  First the flake     *)
(* history that concurrent runs share (FlakeHistory): one of another       *)
(* identity generation is never overwritten, for any number of runs, of    *)
(* crashes and of tries, and although the lock does not exclude every      *)
(* second writer (MCFlakeRace.cfg).  The argument therefore cannot rest on *)
(* the lock: the file never becomes unsupported again, so a run that has   *)
(* once read, or archived, past it may write whenever it likes.  Then the  *)
(* snapshots, the quarantine and the baseline that tools change (Upkeep).  *)
(***************************************************************************)
EXTENDS FlakeHistory, Upkeep, TLAPS

\* A run that is past its check has a file it may replace.
PastCheck == \A r \in Runs : pc[r] \in {"write", "publish"} => file.status # "unsupported"

IInv == pc \in [Runs -> Stages] /\ PastCheck

LEMMA InitStep == ASSUME Init PROVE IInv
BY DEF Init, IInv, PastCheck, Stages

\* The control of one run moves along its program and nowhere else.
LEMMA GotoType ==
  ASSUME NEW r \in Runs, NEW from, NEW to \in Stages, pc \in [Runs -> Stages],
         Goto(r, from, to)
  PROVE  /\ pc' \in [Runs -> Stages] /\ pc[r] = from /\ pc'[r] = to
         /\ \A s \in Runs \ {r} : pc'[s] = pc[s]
BY DEF Goto

\* Steps that neither touch the file nor reach the writing stages.
LEMMA QuietStep ==
  ASSUME NEW r \in Runs, IInv, UNCHANGED file,
         NEW from, NEW to \in Stages, Goto(r, from, to),
         to = "write" => file.status # "unsupported",
         to = "publish" => from = "write"
  PROVE  IInv'
BY GotoType DEF IInv, PastCheck

LEMMA ArchivedStep ==
  ASSUME Archived
  PROVE  file'.status # "unsupported" /\ file \in archives'
BY DEF Archived, Missing

LEMMA RunStep ==
  ASSUME NEW r \in Runs, IInv, Step(r)
  PROVE  IInv' /\ (file.status = "unsupported" /\ file' # file => file \in archives')
<1>1. CASE LoadHistory(r)
  <2>1. UNCHANGED file
    BY <1>1 DEF LoadHistory, Kept, store
  <2>2. \/ Goto(r, "load", "archiveAtLoad") \/ Goto(r, "load", "mkdir")
    BY <1>1 DEF LoadHistory
  <2> QED BY <2>1, <2>2, QuietStep DEF Stages
<1>2. CASE ArchiveAtLoad(r)
  <2>1. Goto(r, "archiveAtLoad", "mkdir") /\ (Archived \/ UNCHANGED file)
    BY <1>2 DEF ArchiveAtLoad, Kept, store
  <2>2. CASE UNCHANGED file
    BY <2>1, <2>2, QuietStep DEF Stages
  <2>3. CASE Archived
    BY <2>1, <2>3, ArchivedStep, GotoType DEF IInv, PastCheck, Stages
  <2> QED BY <2>1, <2>2, <2>3
<1>3. CASE \/ MakeLock(r) \/ ReadOwner(r) \/ ProbeOwner(r) \/ UnlinkStale(r)
           \/ RemoveStale(r) \/ WritePid(r) \/ Release(r) \/ RemoveOwn(r) \/ Exit(r)
  <2>1. UNCHANGED file
    BY <1>3 DEF MakeLock, ReadOwner, ProbeOwner, UnlinkStale, RemoveStale, WritePid, Release,
         RemoveOwn, Exit, Kept, store
  <2>2. \E from, to \in {"mkdir", "owner", "probe", "unlink", "rmdir", "pid", "read",
                         "release", "rmdirOwn", "late", "exited"} : Goto(r, from, to)
    BY <1>3 DEF MakeLock, ReadOwner, ProbeOwner, UnlinkStale, RemoveStale, WritePid, Release,
         RemoveOwn, Exit
  <2> QED BY <2>1, <2>2, QuietStep DEF Stages
<1>4. CASE ReadLatest(r)
  <2>1. UNCHANGED file
    BY <1>4 DEF ReadLatest, Kept, store
  <2>2. \/ Goto(r, "read", "archive")
        \/ Goto(r, "read", "write") /\ file.status # "unsupported"
    BY <1>4 DEF ReadLatest
  <2> QED BY <2>1, <2>2, QuietStep DEF Stages
<1>5. CASE ArchiveLocked(r)
  <2>1. CASE Goto(r, "archive", "write") /\ Archived
    BY <2>1, ArchivedStep, GotoType DEF IInv, PastCheck, Stages
  <2>2. CASE Goto(r, "archive", "release") /\ Kept
    BY <2>2, QuietStep DEF Stages, Kept, store
  <2> QED BY <1>5, <2>1, <2>2 DEF ArchiveLocked
<1>6. CASE WriteTemp(r)
  <2>1. UNCHANGED file
    BY <1>6 DEF WriteTemp, Kept, store
  <2>2. Goto(r, "write", "publish") \/ Goto(r, "write", "release")
    BY <1>6 DEF WriteTemp
  <2> QED BY <2>1, <2>2, QuietStep DEF Stages
<1>7. CASE Publish(r)
  <2>1. Goto(r, "publish", "release") /\ ((\E scope \in Scopes : file' = Merged(r, scope)) \/ UNCHANGED file)
    BY <1>7 DEF Publish, Kept, store
  <2>2. pc[r] = "publish" /\ file.status # "unsupported"
    BY <2>1 DEF Goto, IInv, PastCheck
  <2>3. CASE \E scope \in Scopes : file' = Merged(r, scope)
    <3>1. file'.status # "unsupported"
      BY <2>3 DEF Merged, Merge
    <3> QED BY <2>1, <2>2, <3>1, GotoType DEF IInv, PastCheck, Stages
  <2>4. CASE UNCHANGED file
    BY <2>1, <2>4, QuietStep DEF Stages
  <2> QED BY <2>1, <2>3, <2>4
<1> QED BY <1>1, <1>2, <1>3, <1>4, <1>5, <1>6, <1>7 DEF Step

LEMMA CrashStep ==
  ASSUME NEW r \in Runs, IInv, Crash(r)
  PROVE  IInv' /\ file' = file
<1>1. pc' = [pc EXCEPT ![r] = "killed"] /\ file' = file
  BY DEF Crash, Kept, store
<1> QED BY <1>1 DEF IInv, PastCheck, Stages

LEMMA NextStep ==
  ASSUME IInv, [Next]_vars
  PROVE  IInv' /\ (file.status = "unsupported" /\ file' # file => file \in archives')
<1>1. CASE \E r \in Runs : Step(r) \/ Crash(r)
  BY <1>1, RunStep, CrashStep
<1>2. CASE AllOver \/ UNCHANGED vars
  BY <1>2 DEF AllOver, vars, Kept, store, IInv, PastCheck
<1> QED BY <1>1, <1>2 DEF Next

\* Whatever the runs and their crashes, and with no help from the lock, a
\* history of another identity generation leaves its path only for an archive.
THEOREM NeverOverwrites == Spec => RefusesToOverwrite
<1>1. Init => IInv
  BY InitStep
<1>2. IInv /\ [Next]_vars => IInv'
  BY NextStep
<1>3. IInv /\ [Next]_vars =>
        [file.status = "unsupported" /\ file' # file => file \in archives']_vars
  BY NextStep
<1> QED BY <1>1, <1>2, <1>3, PTL DEF Spec, RefusesToOverwrite

-----------------------------------------------------------------------------
\* The archive and the publication keep files and archives histories.
LEMMA ArchivedType ==
  ASSUME TypeOK, Archived
  PROVE  file' \in History /\ archives' \subseteq History /\ serial' \in History
         /\ past' \subseteq SUBSET Observations
<1> USE FlakeAssumption
<1>1. Missing \in History
  BY DEF Missing, History, Statuses
<1>2. serial.seen \in SUBSET Observations
  BY DEF TypeOK, History
<1> QED BY <1>1, <1>2 DEF TypeOK, Archived

LEMMA MergeType ==
  ASSUME NEW h \in History, NEW r \in Runs, NEW scope
  PROVE  Merge(h, r, scope) \in History
<1> USE FlakeAssumption
<1> DEFINE prior == Usable(h)
<1>1. prior \in History
  BY DEF Usable, Missing, History, Statuses
<1>2. [run |-> r, age |-> 0] \in Observations
  BY DEF Observations
<1>3. Older(prior.seen) \subseteq Observations
  <2> SUFFICES ASSUME NEW o \in prior.seen, o.age + 1 < Window
               PROVE  [o EXCEPT !.age = @ + 1] \in Observations
    BY DEF Older
  <2>1. o \in Observations
    BY <1>1 DEF History
  <2>2. o = [run |-> o.run, age |-> o.age] /\ o.run \in Runs \union {NoRun} /\ o.age \in 0 .. Window - 1
    BY <2>1 DEF Observations
  <2>3. [o EXCEPT !.age = @ + 1] = [run |-> o.run, age |-> o.age + 1]
    BY <2>2
  <2>4. o.age + 1 \in 0 .. Window - 1
    BY <2>2
  <2> QED BY <2>2, <2>3, <2>4 DEF Observations
<1>4. /\ prior.seen \subseteq Observations /\ prior.missed \in 0 .. UnseenLimit
      /\ "ok" \in Statuses /\ 0 \in 0 .. UnseenLimit
      /\ prior.missed < UnseenLimit => prior.missed + 1 \in 0 .. UnseenLimit
  BY <1>1 DEF History, Statuses
<1>5. {[run |-> r, age |-> 0]} \union Older(prior.seen) \subseteq Observations
  BY <1>2, <1>3
<1> HIDE DEF prior
<1>6. /\ [status |-> "ok", seen |-> {[run |-> r, age |-> 0]} \union Older(prior.seen), missed |-> 0] \in History
      /\ \A m \in 0 .. UnseenLimit : [status |-> "ok", seen |-> prior.seen, missed |-> m] \in History
      /\ [status |-> "ok", seen |-> {}, missed |-> 0] \in History
  BY <1>4, <1>5 DEF History
<1> QED BY <1>4, <1>6 DEF Merge, prior

\* Whoever waits has tries left.
CountInv == \A r \in Runs : pc[r] \in {"load", "archiveAtLoad", "mkdir", "owner", "probe",
                                       "unlink", "rmdir"} => tries[r] < MaxTries

LEMMA TypeStep ==
  ASSUME TypeOK, CountInv, NEW r \in Runs, Step(r)
  PROVE  TypeOK'
<1> USE FlakeAssumption
<1>1. CASE LoadHistory(r) \/ WriteTemp(r) \/ Exit(r)
  BY <1>1 DEF LoadHistory, WriteTemp, Exit, Goto, TypeOK, Stages, Kept, store, due, lock, wait
<1>2. CASE ArchiveAtLoad(r) \/ ArchiveLocked(r)
  <2>1. Archived \/ Kept
    BY <1>2 DEF ArchiveAtLoad, ArchiveLocked
  <2>2. /\ file' \in History /\ archives' \subseteq History
        /\ serial' \in History /\ past' \subseteq SUBSET Observations
    BY <2>1, ArchivedType DEF TypeOK, Kept, store, due
  <2>3. pc' \in [Runs -> Stages]
    BY <1>2 DEF ArchiveAtLoad, ArchiveLocked, Goto, TypeOK, Stages
  <2> QED BY <1>2, <2>2, <2>3 DEF ArchiveAtLoad, ArchiveLocked, TypeOK, lock, wait
<1>3. CASE MakeLock(r) \/ UnlinkStale(r) \/ RemoveStale(r) \/ WritePid(r) \/ Release(r)
           \/ RemoveOwn(r)
  <2>1. pc' \in [Runs -> Stages]
    BY <1>3 DEF MakeLock, UnlinkStale, RemoveStale, WritePid, Release, RemoveOwn, Goto, TypeOK,
       Stages
  <2>2. /\ lockDir' \in BOOLEAN /\ lockPid' \in Runs \union {NoRun}
        /\ ~lockDir' => lockPid' = NoRun
        /\ maker' \in Runs \union {NoRun} /\ (lockDir' => maker' \in Runs)
    <3>1. maker' = r \/ (maker' = maker /\ (lockDir' => lockDir))
      BY <1>3 DEF MakeLock, UnlinkStale, RemoveStale, WritePid, Release, RemoveOwn, TypeOK, lock
    <3>2. /\ lockDir' \in BOOLEAN /\ lockPid' \in Runs \union {NoRun}
          /\ ~lockDir' => lockPid' = NoRun
      BY <1>3 DEF MakeLock, UnlinkStale, RemoveStale, WritePid, Release, RemoveOwn, TypeOK, lock
    <3>3. maker \in Runs \union {NoRun} /\ (lockDir => maker \in Runs)
      BY DEF TypeOK
    <3> QED BY <3>1, <3>2, <3>3
  <2> QED BY <1>3, <2>1, <2>2 DEF MakeLock, UnlinkStale, RemoveStale, WritePid, Release,
             RemoveOwn, TypeOK, Kept, store, due, wait
<1>4. CASE ReadOwner(r)
  BY <1>4 DEF ReadOwner, Goto, TypeOK, Stages, Kept, store, due, lock
<1>5. CASE ProbeOwner(r)
  <2>1. CASE Reclaimable(r)
    BY <1>5, <2>1 DEF ProbeOwner, Goto, TypeOK, Stages, Kept, store, due, lock
  <2>2. CASE ~Reclaimable(r)
    <3>1. tries' = [tries EXCEPT ![r] = tries[r] + 1] /\ pc[r] = "probe"
      BY <1>5, <2>2 DEF ProbeOwner, Goto
    <3>2. tries[r] < MaxTries
      BY <3>1 DEF CountInv
    <3>3. tries' \in [Runs -> 0 .. MaxTries]
      BY <3>1, <3>2 DEF TypeOK
    <3> QED BY <1>5, <2>2, <3>3 DEF ProbeOwner, Goto, TypeOK, Stages, Kept, store, due, lock
  <2> QED BY <2>1, <2>2
<1>6. CASE ReadLatest(r)
  BY <1>6 DEF ReadLatest, Goto, TypeOK, Stages, Kept, store, due, lock, wait
<1>7. CASE Publish(r)
  <2>1. file' \in History /\ serial' \in History
    <3>1. latest[r] \in History /\ serial \in History /\ file \in History
      BY DEF TypeOK
    <3> QED BY <1>7, <3>1, MergeType DEF Publish, Merged, Kept, store, due
  <2>2. /\ pc' \in [Runs -> Stages]
        /\ UNCHANGED <<archives, past, lock, wait, latest, crashes, user>>
    BY <1>7 DEF Publish, Goto, TypeOK, Stages, Kept, store, due
  <2> QED BY <2>1, <2>2 DEF TypeOK, lock, wait
<1> QED BY <1>1, <1>2, <1>3, <1>4, <1>5, <1>6, <1>7 DEF Step

\* What can be left of a lock has somebody who will remove it, or was left by a
\* run that was killed: its directory with a pid in it is that of the run between
\* its writing of the pid and its release, and an empty one is about to be filled
\* by its maker or removed by the run that emptied it.
Holding == {"read", "archive", "write", "publish", "release"}

Attended(r) ==
  \/ pc[r] = "killed"
  \/ lockPid = r /\ pc[r] \in Holding
  \/ lockPid = NoRun /\ pc[r] \in {"rmdir", "rmdirOwn"}
  \/ lockPid = NoRun /\ pc[r] = "pid" /\ r = maker

LockInv == lockDir => \E r \in Runs : Attended(r)

\* A step that leaves the lock alone, of a run that does not leave the stages in
\* which it attends to it, or that did not attend to it.
LEMMA QuietLock ==
  ASSUME NEW r \in Runs, pc \in [Runs -> Stages], LockInv, UNCHANGED lock,
         NEW from, NEW to \in Stages, Goto(r, from, to),
         from \notin {"killed", "pid", "rmdir", "rmdirOwn"},
         from \in Holding => to \in Holding \/ lockPid # r
  PROVE  LockInv'
BY GotoType DEF LockInv, Attended, Holding, lock

LEMMA LockStep ==
  ASSUME TypeOK, LockInv, NEW r \in Runs, Step(r)
  PROVE  LockInv'
<1> USE FlakeAssumption
<1>0. pc \in [Runs -> Stages]
  BY DEF TypeOK
<1>1. CASE LoadHistory(r) \/ ArchiveAtLoad(r) \/ ReadOwner(r) \/ ProbeOwner(r) \/ ReadLatest(r)
           \/ ArchiveLocked(r) \/ WriteTemp(r) \/ Publish(r) \/ Exit(r)
  <2>1. UNCHANGED lock
    BY <1>1 DEF LoadHistory, ArchiveAtLoad, ReadOwner, ProbeOwner, ReadLatest, ArchiveLocked,
       WriteTemp, Publish, Exit
  <2>2. \E from \in {"load", "archiveAtLoad", "owner", "probe", "late"} \union Holding,
           to \in Stages :
          Goto(r, from, to) /\ (from \in Holding => to \in Holding)
    BY <1>1 DEF LoadHistory, ArchiveAtLoad, ReadOwner, ProbeOwner, ReadLatest, ArchiveLocked,
       WriteTemp, Publish, Exit, Holding, Stages
  <2> QED BY <1>0, <2>1, <2>2, QuietLock DEF Holding
<1>2. CASE MakeLock(r)
  <2>1. CASE lockDir
    BY <1>0, <1>2, <2>1, QuietLock DEF MakeLock, Holding, Stages
  <2>2. CASE Goto(r, "mkdir", "owner") /\ UNCHANGED lock
    BY <1>0, <2>2, QuietLock DEF Holding, Stages
  <2>3. CASE Goto(r, "mkdir", "pid") /\ lockPid' = NoRun /\ maker' = r
    BY <1>0, <2>3, GotoType DEF LockInv, Attended, Stages
  <2> QED BY <1>2, <2>1, <2>2, <2>3 DEF MakeLock
<1>3. CASE UnlinkStale(r)
  <2>1. CASE Goto(r, "unlink", "rmdir") /\ lockPid' = NoRun
    <3>1. pc'[r] = "rmdir"
      BY <1>0, <2>1, GotoType DEF Stages
    <3>2. Attended(r)'
      BY <2>1, <3>1 DEF Attended
    <3> QED BY <3>2 DEF LockInv
  <2>2. CASE Goto(r, "unlink", "mkdir") /\ UNCHANGED lock
    BY <1>0, <2>2, QuietLock DEF Holding, Stages
  <2> QED BY <1>3, <2>1, <2>2 DEF UnlinkStale, lock
<1>4. CASE RemoveStale(r) \/ RemoveOwn(r)
  <2>1. /\ pc[r] \in {"rmdir", "rmdirOwn"} /\ lockPid' = lockPid
        /\ lockDir' => lockDir /\ lockPid # NoRun
        /\ \A s \in Runs \ {r} : pc'[s] = pc[s]
    BY <1>0, <1>4, GotoType DEF RemoveStale, RemoveOwn, Stages, Goto, TypeOK
  <2> QED BY <2>1 DEF LockInv, Attended, Holding
<1>5. CASE WritePid(r)
  <2>1. /\ pc[r] = "pid" /\ pc'[r] = "read" /\ lockDir' = lockDir /\ maker' = maker
        /\ lockPid' = IF ~lockDir THEN NoRun ELSE IF user[maker] = user[r] THEN r ELSE lockPid
        /\ \A s \in Runs \ {r} : pc'[s] = pc[s]
    BY <1>0, <1>5, GotoType DEF WritePid, Stages
  <2>2. CASE lockDir /\ user[maker] = user[r]
    BY <2>1, <2>2 DEF LockInv, Attended, Holding
  <2>3. CASE lockDir /\ user[maker] # user[r]
    <3>1. lockPid' = lockPid /\ maker # r
      BY <2>1, <2>3
    <3>2. PICK s \in Runs : Attended(s)
      BY <2>3 DEF LockInv
    <3>3. s # r
      BY <2>1, <3>1, <3>2 DEF Attended, Holding
    <3>4. Attended(s)'
      BY <2>1, <3>1, <3>2, <3>3 DEF Attended
    <3> QED BY <3>4 DEF LockInv
  <2>4. CASE ~lockDir
    BY <2>1, <2>4 DEF LockInv
  <2> QED BY <2>2, <2>3, <2>4
<1>6. CASE Release(r)
  <2>1. CASE lockPid = r
    <3>1. pc'[r] = "rmdirOwn" /\ lockPid' = NoRun
      BY <1>0, <1>6, <2>1, GotoType DEF Release, Stages
    <3>2. Attended(r)'
      BY <2>1, <3>1 DEF Attended
    <3> QED BY <3>2 DEF LockInv
  <2>2. CASE lockPid # r
    BY <1>0, <1>6, <2>2, QuietLock DEF Release, Holding, Stages, lock
  <2> QED BY <2>1, <2>2
<1> QED BY <1>1, <1>2, <1>3, <1>4, <1>5, <1>6 DEF Step

LEMMA CountStep ==
  ASSUME TypeOK, CountInv, NEW r \in Runs, Step(r)
  PROVE  CountInv'
<1> DEFINE Waiting == {"load", "archiveAtLoad", "mkdir", "owner", "probe", "unlink", "rmdir"}
<1>0. pc \in [Runs -> Stages] /\ tries \in [Runs -> 0 .. MaxTries]
  BY DEF TypeOK
<1>1. CASE ProbeOwner(r) /\ ~Reclaimable(r)
  <2>1. tries' = [tries EXCEPT ![r] = tries[r] + 1]
    BY <1>1 DEF ProbeOwner
  <2>2. Goto(r, "probe", IF tries'[r] >= MaxTries THEN "late" ELSE "mkdir")
    BY <1>1 DEF ProbeOwner
  <2>3. /\ \A s \in Runs \ {r} : pc'[s] = pc[s] /\ tries'[s] = tries[s]
        /\ pc'[r] = (IF tries'[r] >= MaxTries THEN "late" ELSE "mkdir")
        /\ tries'[r] \in Nat
    BY <1>0, <2>1, <2>2 DEF Goto
  <2> QED BY <2>3, FlakeAssumption DEF CountInv
<1>2. CASE ~(ProbeOwner(r) /\ ~Reclaimable(r))
  <2>1. UNCHANGED tries
    BY <1>2 DEF Step, LoadHistory, ArchiveAtLoad, MakeLock, ReadOwner, ProbeOwner, UnlinkStale,
       RemoveStale, WritePid, ReadLatest, ArchiveLocked, WriteTemp, Publish, Release, RemoveOwn,
       Exit, wait
  <2>2. \E from, to \in Stages :
          Goto(r, from, to) /\ (to \in Waiting => from \in Waiting)
    BY <1>2 DEF Step, LoadHistory, ArchiveAtLoad, MakeLock, ReadOwner, ProbeOwner, UnlinkStale,
       RemoveStale, WritePid, ReadLatest, ArchiveLocked, WriteTemp, Publish, Release, RemoveOwn,
       Exit, Stages
  <2> QED BY <1>0, <2>1, <2>2, GotoType DEF CountInv
<1> QED BY <1>1, <1>2

LockIInv == TypeOK /\ CountInv /\ LockInv

LEMMA LockInductive == ASSUME LockIInv, [Next]_vars PROVE LockIInv'
<1> USE FlakeAssumption
<1>1. ASSUME NEW r \in Runs, Step(r) PROVE LockIInv'
  BY <1>1, TypeStep, CountStep, LockStep DEF LockIInv
<1>2. ASSUME NEW r \in Runs, Crash(r) PROVE LockIInv'
  <2>1. /\ pc' = [pc EXCEPT ![r] = "killed"] /\ Kept /\ UNCHANGED <<lock, wait, latest, user>>
        /\ crashes < MaxCrashes /\ crashes' = crashes + 1
    BY <1>2 DEF Crash
  <2>2. TypeOK'
    BY <2>1 DEF LockIInv, TypeOK, Stages, Kept, store, due, lock, wait
  <2>3. /\ pc'[r] = "killed" /\ \A s \in Runs \ {r} : pc'[s] = pc[s]
    BY <2>1 DEF LockIInv, TypeOK
  <2>4. CountInv'
    BY <2>1, <2>3 DEF LockIInv, CountInv, wait
  <2>5. LockInv'
    BY <2>1, <2>3 DEF LockInv, Attended
  <2> QED BY <2>2, <2>4, <2>5 DEF LockIInv
<1>3. CASE AllOver \/ UNCHANGED vars
  BY <1>3 DEF AllOver, vars, Kept, store, due, lock, wait, LockIInv, TypeOK, CountInv, LockInv, Attended
<1> QED BY <1>1, <1>2, <1>3 DEF Next

LEMMA LockInit == ASSUME Init PROVE LockIInv
<1> USE FlakeAssumption
<1>1. file \in History /\ Missing \in History
  <2>1. PICK s \in Shapes :
          file = [status |-> s, missed |-> 0,
                  seen |-> IF s = "ok" THEN {[run |-> NoRun, age |-> 0]} ELSE {}]
    BY DEF Init
  <2>2. s \in Statuses /\ [run |-> NoRun, age |-> 0] \in Observations
    BY DEF Statuses, Observations
  <2>3. 0 \in 0 .. UnseenLimit
    OBVIOUS
  <2>4. (IF s = "ok" THEN {[run |-> NoRun, age |-> 0]} ELSE {}) \in SUBSET Observations
    BY <2>2
  <2> QED BY <2>1, <2>2, <2>3, <2>4 DEF History, Missing, Statuses
<1>2. /\ pc = [r \in Runs |-> "load"] /\ archives = {} /\ lockDir = FALSE /\ lockPid = NoRun
      /\ owner = [r \in Runs |-> NoRun] /\ tries = [r \in Runs |-> 0]
      /\ latest = [r \in Runs |-> Missing] /\ user \in [Runs -> Users] /\ maker = NoRun
      /\ serial = Usable(file) /\ past = {} /\ crashes = 0
  BY DEF Init
<1>3. pc \in [Runs -> Stages] /\ latest \in [Runs -> History]
  BY <1>1, <1>2 DEF Stages
<1>4. 0 \in 0 .. MaxTries /\ 0 \in 0 .. MaxCrashes
  OBVIOUS
<1>5. tries \in [Runs -> 0 .. MaxTries] /\ crashes \in 0 .. MaxCrashes
  BY <1>2, <1>4
<1>6. serial \in History
  BY <1>1, <1>2 DEF Usable
<1>7. TypeOK
  BY <1>1, <1>2, <1>3, <1>5, <1>6 DEF TypeOK
<1>8. CountInv /\ LockInv
  BY <1>2 DEF CountInv, LockInv
<1> QED BY <1>7, <1>8 DEF LockIInv

LEMMA LockAlways == Spec => []LockIInv
<1>1. Init => LockIInv
  BY LockInit
<1>2. LockIInv /\ [Next]_vars => LockIInv'
  BY LockInductive
<1> QED BY <1>1, <1>2, PTL DEF Spec

\* The state of the runs, the file and the lock is of the shape TypeOK says; in
\* particular no run waits longer than MaxTries.
THEOREM TypeCorrect == Spec => []TypeOK
<1>1. LockIInv => TypeOK
  BY DEF LockIInv
<1> QED BY <1>1, LockAlways, PTL

\* When every run has ended by itself no lock is left, for any number of runs and
\* although they may remove each other's: whoever empties a lock removes it,
\* unless somebody has put a pid into it, and then that run releases it.
THEOREM LockIsFreed == Spec => []LockFreed
<1>1. LockIInv => LockFreed
  BY DEF LockIInv, LockInv, LockFreed, Attended, Holding
<1> QED BY <1>1, LockAlways, PTL

-----------------------------------------------------------------------------
(* What the lock excludes, and what is lost without it                     *)

\* Of three runs two are the same.
TwoRuns == \A r, s, t \in Runs : r = s \/ s = t \/ r = t

\* The run with the lock, from its mkdir to its release.
Owning == {"pid", "release"} \union Writing
\* A pid in the lock, or read from it, is of a run that has come this far.
Past   == Writing \union {"release", "rmdirOwn", "late", "exited", "killed"}
Closed == {"late", "exited", "killed"}
Dead   == {"exited", "killed"}

\* Whoever has made the lock is alone with it.  Its lock is taken away only when
\* nobody else is left, and its pid stays in it until it is released: of two runs,
\* the other waits for one that is dead, or another user's, whose lock it may empty
\* only when the owner already has.
ExclusionInv ==
  /\ \A r, s \in Runs : pc[r] \in Owning /\ pc[s] \in Owning => r = s
  /\ \A r, s \in Runs : pc[r] \in Owning /\ r # s => lockDir \/ pc[s] \in Closed
  /\ \A r \in Runs : pc[r] \in Owning => maker = r
  /\ \A r \in Runs : pc[r] \in Owning \ {"pid"} /\ lockDir => lockPid = r
  /\ lockPid # NoRun => pc[lockPid] \in Past
  /\ \A r \in Runs : pc[r] = "probe" /\ owner[r] # NoRun => pc[owner[r]] \in Past
  /\ \A r, s \in Runs : pc[r] = "unlink" /\ r # s =>
       pc[s] \in Dead \/ (user[s] # user[r] /\ pc[s] \in Past)
  /\ \A r, s \in Runs : pc[r] = "rmdir" /\ r # s => pc[s] = "rmdirOwn" \/ pc[s] \in Closed

LEMMA ExclusionStep ==
  ASSUME TwoRuns, TypeOK, ExclusionInv, NEW r \in Runs, Step(r)
  PROVE  ExclusionInv'
<1> USE FlakeAssumption
<1>0. pc \in [Runs -> Stages] /\ lockPid \in Runs \union {NoRun} /\ lockDir \in BOOLEAN
      /\ owner \in [Runs -> Runs \union {NoRun}] /\ (~lockDir => lockPid = NoRun)
  BY DEF TypeOK
\* The lock and the owners stay, and a run moves within or out of its ownership.
<1>1. ASSUME UNCHANGED <<lock, owner, user>>, NEW from, NEW to \in Stages, Goto(r, from, to),
             to \notin {"unlink", "rmdir", "probe"},
             to \in Owning => from \in Owning, to \in Owning \ {"pid"} => from \in Owning \ {"pid"},
             from \in Past => to \in Past, to # "rmdirOwn",
             from # "exited", from # "killed", from \in {"rmdirOwn", "late"} => to \in {"late", "exited"}
      PROVE  ExclusionInv'
  <2>1. /\ pc[r] = from /\ pc'[r] = to /\ pc' \in [Runs -> Stages]
        /\ \A s \in Runs \ {r} : pc'[s] = pc[s]
        /\ lockDir' = lockDir /\ lockPid' = lockPid /\ maker' = maker /\ owner' = owner /\ user' = user
    BY <1>0, <1>1, GotoType DEF lock
  <2>2. \A s \in Runs : pc[s] \in Past => pc'[s] \in Past
    BY <1>1, <2>1
  <2>3. \A s \in Runs : pc[s] \in Closed => pc'[s] \in Closed
    BY <1>1, <2>1 DEF Closed
  <2>4. \A s \in Runs : pc[s] \in Dead => pc'[s] \in Dead
    BY <1>1, <2>1 DEF Dead
  <2>5. \A s \in Runs : /\ pc'[s] \in Owning => pc[s] \in Owning
                        /\ pc'[s] \in Owning \ {"pid"} => pc[s] \in Owning \ {"pid"}
                        /\ pc'[s] \in {"unlink", "rmdir", "probe"} => pc'[s] = pc[s]
                        /\ pc[s] = "rmdirOwn" => pc'[s] = "rmdirOwn" \/ pc'[s] \in Closed
    BY <1>1, <2>1 DEF Closed
  <2>6. lockPid # NoRun => pc'[lockPid] \in Past
    BY <1>0, <2>2 DEF ExclusionInv
  <2>7. \A x \in Runs : pc'[x] = "probe" /\ owner[x] # NoRun => pc'[owner[x]] \in Past
    <3> SUFFICES ASSUME NEW x \in Runs, pc'[x] = "probe", owner[x] # NoRun PROVE pc'[owner[x]] \in Past
      OBVIOUS
    <3>1. pc[x] = "probe" /\ owner[x] \in Runs
      BY <1>0, <2>5
    <3>2. pc[owner[x]] \in Past
      BY <3>1 DEF ExclusionInv
    <3> QED BY <2>2, <3>1, <3>2
  <2>8. \A x, s \in Runs : pc'[x] \in Owning /\ x # s => lockDir' \/ pc'[s] \in Closed
    BY <2>1, <2>3, <2>5 DEF ExclusionInv
  <2>9. \A x, s \in Runs : pc'[x] = "unlink" /\ x # s =>
          pc'[s] \in Dead \/ (user'[s] # user'[x] /\ pc'[s] \in Past)
    BY <2>1, <2>2, <2>4, <2>5 DEF ExclusionInv
  <2>10. \A x, s \in Runs : pc'[x] = "rmdir" /\ x # s => pc'[s] = "rmdirOwn" \/ pc'[s] \in Closed
    BY <2>3, <2>5 DEF ExclusionInv
  <2>11. /\ \A x, s \in Runs : pc'[x] \in Owning /\ pc'[s] \in Owning => x = s
         /\ \A x \in Runs : pc'[x] \in Owning => maker' = x
         /\ \A x \in Runs : pc'[x] \in Owning \ {"pid"} /\ lockDir' => lockPid' = x
    BY <2>1, <2>5 DEF ExclusionInv
  <2> QED BY <2>1, <2>6, <2>7, <2>8, <2>9, <2>10, <2>11 DEF ExclusionInv
<1>2. CASE \/ LoadHistory(r) \/ ArchiveAtLoad(r) \/ ReadLatest(r) \/ ArchiveLocked(r)
           \/ WriteTemp(r) \/ Publish(r) \/ Exit(r)
           \/ MakeLock(r) /\ Goto(r, "mkdir", "owner") /\ UNCHANGED lock
           \/ ProbeOwner(r) /\ ~Reclaimable(r)
           \/ UnlinkStale(r) /\ Barred(r)
           \/ Release(r) /\ lockPid # r
  <2>1. UNCHANGED <<lock, owner, user>>
    BY <1>2 DEF LoadHistory, ArchiveAtLoad, ReadLatest, ArchiveLocked, WriteTemp, Publish, Exit,
       MakeLock, ProbeOwner, UnlinkStale, Release, lock, wait
  <2>2. \E from, to \in {"load", "archiveAtLoad", "mkdir", "owner", "probe", "unlink", "read",
                          "archive", "write", "publish", "release", "late", "exited"} :
          /\ Goto(r, from, to)
          /\ to \in Owning => from \in Owning \ {"pid"}
          /\ from \in Past => to \in Past
          /\ to \notin {"unlink", "probe"} /\ from # "exited" /\ (from = "late" => to = "exited")
    BY <1>2 DEF LoadHistory, ArchiveAtLoad, ReadLatest, ArchiveLocked, WriteTemp, Publish, Exit,
       MakeLock, ProbeOwner, UnlinkStale, Release, Owning, Past, Writing
  <2> QED BY <1>1, <2>1, <2>2 DEF Stages
<1>3. CASE MakeLock(r) /\ ~(Goto(r, "mkdir", "owner") /\ UNCHANGED lock)
  <2>1. /\ ~lockDir /\ lockDir' /\ lockPid' = NoRun /\ maker' = r /\ owner' = owner /\ user' = user
        /\ pc[r] = "mkdir" /\ pc'[r] = "pid" /\ pc' \in [Runs -> Stages]
        /\ \A s \in Runs \ {r} : pc'[s] = pc[s]
    BY <1>0, <1>3, GotoType DEF MakeLock, Stages, wait
  <2>2. \A s \in Runs : pc[s] \notin Owning
    BY <2>1 DEF ExclusionInv, Closed, Owning, Writing
  <2>3. \A s \in Runs : pc[s] \notin {"unlink", "rmdir"}
    BY <2>1 DEF ExclusionInv, Dead, Past, Closed, Writing
  <2>4. \A x \in Runs : pc'[x] = "probe" /\ owner[x] # NoRun => pc'[owner[x]] \in Past
    BY <1>0, <2>1 DEF ExclusionInv, Past, Writing
  <2>5. \A s \in Runs : pc'[s] \in Owning => s = r
    BY <2>1, <2>2
  <2>6. \A s \in Runs : pc'[s] \notin {"unlink", "rmdir"}
    BY <2>1, <2>3
  <2> QED BY <2>1, <2>4, <2>5, <2>6 DEF ExclusionInv
<1>4. CASE ReadOwner(r)
  <2>1. /\ pc[r] = "owner" /\ pc'[r] = "probe" /\ pc' \in [Runs -> Stages]
        /\ \A s \in Runs \ {r} : pc'[s] = pc[s]
        /\ owner' = [owner EXCEPT ![r] = lockPid] /\ UNCHANGED <<lockDir, lockPid, maker, user>>
    BY <1>0, <1>4, GotoType DEF ReadOwner, Stages, lock
  <2>2. lockPid # NoRun => pc'[lockPid] \in Past /\ lockPid # r
    BY <1>0, <2>1 DEF ExclusionInv, Past, Writing
  <2>3. \A x \in Runs : pc'[x] = "probe" /\ owner'[x] # NoRun => pc'[owner'[x]] \in Past
    <3> SUFFICES ASSUME NEW x \in Runs, pc'[x] = "probe", owner'[x] # NoRun
                 PROVE  pc'[owner'[x]] \in Past
      OBVIOUS
    <3>1. CASE x = r
      BY <1>0, <2>1, <2>2, <3>1
    <3>2. CASE x # r
      <4>1. owner'[x] = owner[x] /\ pc[x] = "probe" /\ owner[x] \in Runs
        BY <1>0, <2>1, <3>2
      <4>2. pc[owner[x]] \in Past
        BY <4>1 DEF ExclusionInv
      <4> QED BY <2>1, <4>1, <4>2 DEF Past, Writing
    <3> QED BY <3>1, <3>2
  <2>4. \A s \in Runs : pc[s] # "probe" /\ pc[s] # "owner" => pc'[s] = pc[s]
    BY <2>1
  <2>5. \A s \in Runs : pc'[s] # "probe" => pc'[s] = pc[s]
    BY <2>1
  <2>6. \A s \in Runs : pc[s] \in Past \union {"rmdirOwn"} \/ pc[s] \in Closed \/ pc[s] \in Dead => pc'[s] = pc[s]
    BY <2>1 DEF Past, Writing, Closed, Dead
  <2> QED BY <2>1, <2>2, <2>3, <2>5, <2>6 DEF ExclusionInv, Closed, Dead, Owning, Writing
<1>5. CASE ProbeOwner(r) /\ Reclaimable(r)
  <2>1. /\ UNCHANGED <<lockDir, lockPid, maker, owner, user>> /\ pc[r] = "probe" /\ pc'[r] = "unlink"
        /\ pc' \in [Runs -> Stages] /\ \A s \in Runs \ {r} : pc'[s] = pc[s]
    BY <1>0, <1>5, GotoType DEF ProbeOwner, Stages, lock
  <2>2. owner[r] \in Runs /\ pc[owner[r]] \in Past /\ owner[r] # r
    BY <1>0, <1>5, <2>1 DEF Reclaimable, ExclusionInv, Past, Writing
  <2>3. \A s \in Runs \ {r} : s = owner[r]
    BY <2>2 DEF TwoRuns
  <2>4. \A s \in Runs \ {r} : pc[s] \in Dead \/ (user[s] # user[r] /\ pc[s] \in Past)
    BY <1>5, <2>2, <2>3 DEF Reclaimable, Alive, Dead
  <2>5. \A s \in Runs : pc'[s] # "unlink" => pc'[s] = pc[s]
    BY <2>1
  <2>6. \A s \in Runs : pc[s] \in Past \union {"rmdirOwn"} \/ pc[s] \in Closed \/ pc[s] \in Dead => pc'[s] = pc[s]
    BY <2>1 DEF Past, Writing, Closed, Dead
  <2>7. pc[r] \notin Closed /\ pc[r] \notin Dead
    BY <2>1 DEF Closed, Dead
  <2>8. \A x \in Runs \ {r} : pc[x] # "unlink" /\ pc[x] # "rmdir"
    BY <2>1, <2>7 DEF ExclusionInv, Past, Writing, Closed
  <2>9. lockPid # NoRun => pc'[lockPid] \in Past
    BY <1>0, <2>1, <2>6 DEF ExclusionInv
  <2>10. \A x \in Runs : pc'[x] = "probe" /\ owner[x] # NoRun => pc'[owner[x]] \in Past
    BY <1>0, <2>1, <2>6 DEF ExclusionInv
  <2>11. \A s \in Runs \ {r} : pc'[s] \in Dead \/ (user[s] # user[r] /\ pc'[s] \in Past)
    BY <2>1, <2>4 DEF Dead
  <2> QED BY <2>1, <2>5, <2>6, <2>8, <2>9, <2>10, <2>11 DEF ExclusionInv, Closed, Owning, Writing
<1>6. CASE UnlinkStale(r) /\ ~Barred(r)
  <2>1. /\ UNCHANGED <<lockDir, maker, owner, user>> /\ lockPid' = NoRun
        /\ pc[r] = "unlink" /\ pc'[r] = "rmdir"
        /\ pc' \in [Runs -> Stages] /\ \A s \in Runs \ {r} : pc'[s] = pc[s]
    BY <1>0, <1>6, GotoType DEF UnlinkStale, Stages, wait
  <2>2. ASSUME NEW s \in Runs \ {r} PROVE pc[s] = "rmdirOwn" \/ pc[s] \in Closed
    <3>1. CASE pc[s] \in Dead
      BY <3>1 DEF Dead, Closed
    <3>2. CASE user[s] # user[r] /\ pc[s] \in Past
      <4>1. CASE pc[s] \in Owning \ {"pid"}
        <5>1. lockDir
          BY <2>1, <4>1 DEF ExclusionInv, Closed
        <5>2. maker = s /\ lockPid = s
          BY <4>1, <5>1 DEF ExclusionInv
        <5> QED BY <1>6, <3>2, <5>1, <5>2 DEF Barred
      <4>2. CASE pc[s] \notin Owning \ {"pid"}
        BY <3>2, <4>2 DEF Past, Owning, Writing, Closed
      <4> QED BY <4>1, <4>2
    <3> QED BY <2>1, <3>1, <3>2 DEF ExclusionInv
  <2>3. \A s \in Runs : pc'[s] \notin Owning /\ pc'[s] # "unlink"
    BY <2>1, <2>2 DEF Owning, Writing, Closed
  <2>4. \A s \in Runs \ {r} : pc'[s] = "rmdirOwn" \/ pc'[s] \in Closed
    BY <2>1, <2>2 DEF Closed
  <2>5. \A x \in Runs : pc'[x] = "rmdir" => x = r
    BY <2>1, <2>2 DEF Closed
  <2>6. \A x \in Runs : pc'[x] # "probe"
    BY <2>1, <2>2 DEF Closed
  <2> QED BY <2>1, <2>3, <2>4, <2>5, <2>6 DEF ExclusionInv
<1>7. CASE RemoveStale(r)
  <2>1. /\ UNCHANGED <<lockPid, maker, owner, user>> /\ pc[r] = "rmdir" /\ pc'[r] = "mkdir"
        /\ pc' \in [Runs -> Stages] /\ \A s \in Runs \ {r} : pc'[s] = pc[s]
    BY <1>0, <1>7, GotoType DEF RemoveStale, Stages, wait
  <2>2. \A s \in Runs \ {r} : pc'[s] = "rmdirOwn" \/ pc'[s] \in Closed
    BY <2>1 DEF ExclusionInv, Closed
  <2>3. \A s \in Runs : pc'[s] \notin Owning \union {"unlink", "rmdir", "probe"}
    BY <2>1, <2>2 DEF Owning, Writing, Closed
  <2>4. lockPid # NoRun => pc'[lockPid] \in Past
    BY <1>0, <2>1 DEF ExclusionInv, Past, Writing
  <2> QED BY <2>1, <2>3, <2>4 DEF ExclusionInv
<1>8. CASE WritePid(r)
  <2>1. /\ UNCHANGED <<lockDir, maker, owner, user>> /\ pc[r] = "pid" /\ pc'[r] = "read"
        /\ lockPid' = (IF ~lockDir THEN NoRun ELSE IF user[maker] = user[r] THEN r ELSE lockPid)
        /\ pc' \in [Runs -> Stages] /\ \A s \in Runs \ {r} : pc'[s] = pc[s]
    BY <1>0, <1>8, GotoType DEF WritePid, Stages, wait
  <2>2. maker = r
    BY <2>1 DEF ExclusionInv, Owning
  <2>3. lockPid' = IF lockDir THEN r ELSE NoRun
    BY <2>1, <2>2
  <2>4. \A s \in Runs : pc[s] \in Past => pc'[s] \in Past
    BY <2>1 DEF Past, Writing
  <2>5. lockPid' # NoRun => pc'[lockPid'] \in Past
    BY <2>1, <2>3 DEF Past, Writing
  <2>6. \A x \in Runs : pc'[x] = "probe" /\ owner[x] # NoRun => pc'[owner[x]] \in Past
    BY <1>0, <2>1, <2>4 DEF ExclusionInv
  <2>7. \A s \in Runs : pc'[s] \in Owning => s = r
    BY <2>1 DEF ExclusionInv, Owning
  <2>8. \A s \in Runs \ {r} : pc[s] \notin {"unlink", "rmdir"}
    BY <2>1 DEF ExclusionInv, Dead, Past, Closed, Writing
  <2>9. \A s \in Runs : pc'[s] \notin {"unlink", "rmdir"}
    BY <2>1, <2>8
  <2>10. \A s \in Runs \ {r} : lockDir \/ pc'[s] \in Closed
    BY <2>1 DEF ExclusionInv, Closed, Owning
  <2> QED BY <2>1, <2>2, <2>3, <2>5, <2>6, <2>7, <2>9, <2>10 DEF ExclusionInv
<1>9. CASE Release(r) /\ lockPid = r
  <2>1. /\ UNCHANGED <<lockDir, maker, owner, user>> /\ lockPid' = NoRun
        /\ pc[r] = "release" /\ pc'[r] = "rmdirOwn"
        /\ pc' \in [Runs -> Stages] /\ \A s \in Runs \ {r} : pc'[s] = pc[s]
    BY <1>0, <1>9, GotoType DEF Release, Stages, wait
  <2>2. \A s \in Runs : pc[s] \in Past => pc'[s] \in Past
    BY <2>1 DEF Past
  <2>3. \A x \in Runs : pc'[x] = "probe" /\ owner[x] # NoRun => pc'[owner[x]] \in Past
    BY <1>0, <2>1, <2>2 DEF ExclusionInv
  <2>4. \A s \in Runs : pc'[s] \notin Owning
    BY <2>1 DEF ExclusionInv, Owning, Writing
  <2>5. \A s \in Runs \ {r} : pc'[s] # "rmdir"
    BY <2>1 DEF ExclusionInv, Closed
  <2>6. \A s \in Runs : pc[s] \in Dead => pc'[s] \in Dead
    BY <2>1 DEF Dead
  <2> QED BY <2>1, <2>2, <2>3, <2>4, <2>5, <2>6 DEF ExclusionInv
<1>10. CASE RemoveOwn(r)
  <2>1. /\ UNCHANGED <<lockPid, maker, owner, user>> /\ lockDir' = (lockDir /\ lockPid # NoRun)
        /\ pc[r] = "rmdirOwn" /\ pc'[r] = "late"
        /\ pc' \in [Runs -> Stages] /\ \A s \in Runs \ {r} : pc'[s] = pc[s]
    BY <1>0, <1>10, GotoType DEF RemoveOwn, Stages, wait
  <2>2. \A s \in Runs : pc[s] \in Past => pc'[s] \in Past
    BY <2>1 DEF Past
  <2>3. \A x \in Runs : pc'[x] = "probe" /\ owner[x] # NoRun => pc'[owner[x]] \in Past
    BY <1>0, <2>1, <2>2 DEF ExclusionInv
  <2>4. lockPid # NoRun => pc'[lockPid] \in Past
    BY <1>0, <2>2 DEF ExclusionInv
  <2>5. \A s \in Runs : /\ pc[s] \in Closed => pc'[s] \in Closed
                        /\ pc[s] \in Dead => pc'[s] \in Dead
                        /\ pc'[s] \in Owning \union {"unlink", "rmdir"} => s # r /\ pc'[s] = pc[s]
    BY <2>1 DEF Closed, Dead, Owning, Writing
  <2>6. pc'[r] \in Closed /\ \A x, s \in Runs : x # r /\ x # s => s = r
    BY <2>1 DEF Closed, TwoRuns
  <2>7. \A x, s \in Runs : pc'[x] \in Owning /\ x # s => lockDir' \/ pc'[s] \in Closed
    BY <2>5, <2>6
  <2>8. \A x, s \in Runs : pc'[x] = "unlink" /\ x # s =>
          pc'[s] \in Dead \/ (user'[s] # user'[x] /\ pc'[s] \in Past)
    BY <2>1, <2>2, <2>5 DEF ExclusionInv
  <2>9. \A x, s \in Runs : pc'[x] = "rmdir" /\ x # s => pc'[s] = "rmdirOwn" \/ pc'[s] \in Closed
    BY <2>5, <2>6
  <2>10. /\ \A x, s \in Runs : pc'[x] \in Owning /\ pc'[s] \in Owning => x = s
         /\ \A x \in Runs : pc'[x] \in Owning => maker' = x
         /\ \A x \in Runs : pc'[x] \in Owning \ {"pid"} /\ lockDir' => lockPid' = x
    BY <2>1, <2>5 DEF ExclusionInv
  <2> QED BY <2>1, <2>3, <2>4, <2>7, <2>8, <2>9, <2>10 DEF ExclusionInv
<1> QED BY <1>2, <1>3, <1>4, <1>5, <1>6, <1>7, <1>8, <1>9, <1>10
       DEF Step, MakeLock, UnlinkStale

\* Of two runs at most one reads, merges and publishes at a time, wherever one
\* of them is killed and however long the other waits.  A third run breaks it
\* (MCFlakeRace.cfg): it may take the lock that the second is about to remove.
THEOREM TwoRunsExclude == TwoRuns => (Spec => []SingleWriter)
<1> SUFFICES ASSUME TwoRuns PROVE Spec => []SingleWriter
  OBVIOUS
<1>1. Init => ExclusionInv
  BY FlakeAssumption DEF Init, ExclusionInv, Owning, Writing
<1>2. LockIInv /\ ExclusionInv /\ [Next]_vars => ExclusionInv'
  <2> SUFFICES ASSUME LockIInv, ExclusionInv, [Next]_vars PROVE ExclusionInv'
    OBVIOUS
  <2>1. ASSUME NEW r \in Runs, Step(r) PROVE ExclusionInv'
    BY <2>1, ExclusionStep DEF LockIInv
  <2>2. ASSUME NEW r \in Runs, Crash(r) PROVE ExclusionInv'
    <3>1. pc' = [pc EXCEPT ![r] = "killed"] /\ UNCHANGED <<lockDir, lockPid, maker, owner, user>>
      BY <2>2 DEF Crash, lock, wait
    <3>2. /\ pc \in [Runs -> Stages] /\ lockPid \in Runs \union {NoRun}
          /\ owner \in [Runs -> Runs \union {NoRun}]
      BY DEF LockIInv, TypeOK
    <3>3. pc'[r] = "killed" /\ \A s \in Runs \ {r} : pc'[s] = pc[s]
      BY <3>1, <3>2
    <3>4. \A s \in Runs : /\ pc[s] \in Past => pc'[s] \in Past
                          /\ pc[s] \in Closed => pc'[s] \in Closed
                          /\ pc[s] \in Dead => pc'[s] \in Dead
                          /\ pc'[s] # "killed" => pc'[s] = pc[s]
                          /\ pc[s] = "rmdirOwn" => pc'[s] = "rmdirOwn" \/ pc'[s] \in Closed
      BY <3>3 DEF Past, Closed, Dead
    <3>5. lockPid # NoRun => pc'[lockPid] \in Past
      <4>1. lockPid # NoRun => lockPid \in Runs /\ pc[lockPid] \in Past
        BY <3>2 DEF ExclusionInv
      <4> QED BY <3>4, <4>1
    <3>6. ASSUME NEW x \in Runs, pc'[x] = "probe", owner[x] # NoRun PROVE pc'[owner[x]] \in Past
      <4>1. pc[x] = "probe" /\ owner[x] \in Runs
        BY <3>2, <3>4, <3>6
      <4>2. pc[owner[x]] \in Past
        BY <3>6, <4>1 DEF ExclusionInv
      <4> QED BY <3>4, <4>1, <4>2
    <3>7. \A x \in Runs : pc'[x] \in Owning \union {"unlink", "rmdir"} => pc'[x] = pc[x]
      BY <3>4 DEF Owning, Writing
    <3>8. \A x, s \in Runs : pc'[x] \in Owning /\ x # s => lockDir' \/ pc'[s] \in Closed
      BY <3>1, <3>4, <3>7 DEF ExclusionInv
    <3>9. \A x, s \in Runs : pc'[x] = "unlink" /\ x # s =>
            pc'[s] \in Dead \/ (user'[s] # user'[x] /\ pc'[s] \in Past)
      BY <3>1, <3>4, <3>7 DEF ExclusionInv
    <3>10. \A x, s \in Runs : pc'[x] = "rmdir" /\ x # s => pc'[s] = "rmdirOwn" \/ pc'[s] \in Closed
      BY <3>4, <3>7 DEF ExclusionInv
    <3>11. /\ \A x, s \in Runs : pc'[x] \in Owning /\ pc'[s] \in Owning => x = s
           /\ \A x \in Runs : pc'[x] \in Owning => maker' = x
           /\ \A x \in Runs : pc'[x] \in Owning \ {"pid"} /\ lockDir' => lockPid' = x
      BY <3>1, <3>7 DEF ExclusionInv
    <3> QED BY <3>1, <3>5, <3>6, <3>8, <3>9, <3>10, <3>11 DEF ExclusionInv
  <2>3. CASE AllOver \/ UNCHANGED vars
    BY <2>3 DEF AllOver, vars, lock, wait, ExclusionInv, Dead, Closed
  <2> QED BY <2>1, <2>2, <2>3 DEF Next
<1>3. ExclusionInv => SingleWriter
  BY DEF ExclusionInv, SingleWriter, Owning
<1> QED BY <1>1, <1>2, <1>3, LockAlways, PTL DEF Spec

\* h holds what s does: its observations, and, if there are any, their absence.
Covers(h, s) == s.seen \subseteq h.seen /\ (s.seen # {} => s.missed = h.missed)

\* A publication takes from the one what it takes from the other.
LEMMA MergeHolds ==
  ASSUME NEW h, NEW s, NEW r, NEW scope, Covers(Usable(h), Usable(s))
  PROVE  Covers(Usable(Merge(h, r, scope)), Usable(Merge(s, r, scope)))
<1> DEFINE p == Usable(h)
           q == Usable(s)
<1>1. q.seen \subseteq p.seen /\ (q.seen # {} => q.missed = p.missed)
  BY DEF Covers
<1>2. Older(q.seen) \subseteq Older(p.seen)
  BY <1>1 DEF Older
<1> HIDE DEF p, q
<1>3. CASE scope = "tested"
  <2>1. /\ Merge(h, r, scope) = [status |-> "ok", missed |-> 0,
                                 seen |-> {[run |-> r, age |-> 0]} \union Older(p.seen)]
        /\ Merge(s, r, scope) = [status |-> "ok", missed |-> 0,
                                 seen |-> {[run |-> r, age |-> 0]} \union Older(q.seen)]
    BY <1>3 DEF Merge, p, q
  <2> QED BY <1>2, <2>1 DEF Covers, Usable
<1>4. CASE scope = "missing"
  <2>1. q.seen = {} => Usable(Merge(s, r, scope)).seen = {}
    BY <1>4 DEF Merge, Usable, q
  <2>2. CASE q.seen = {}
    BY <2>1, <2>2 DEF Covers
  <2>3. CASE q.seen # {} /\ q.missed < UnseenLimit
    <3>1. /\ Merge(h, r, scope) = [status |-> "ok", seen |-> p.seen, missed |-> p.missed + 1]
          /\ Merge(s, r, scope) = [status |-> "ok", seen |-> q.seen, missed |-> q.missed + 1]
      BY <1>1, <1>4, <2>3 DEF Merge, p, q
    <3> QED BY <1>1, <2>3, <3>1 DEF Covers, Usable
  <2>4. CASE ~(q.missed < UnseenLimit)
    BY <1>4, <2>4 DEF Merge, Covers, Usable, q
  <2> QED BY <2>2, <2>3, <2>4
<1>5. CASE scope = "partial"
  <2>1. /\ Merge(h, r, scope) = [status |-> "ok", seen |-> p.seen, missed |-> p.missed]
        /\ Merge(s, r, scope) = [status |-> "ok", seen |-> q.seen, missed |-> q.missed]
    BY <1>5 DEF Merge, p, q
  <2> QED BY <1>1, <2>1 DEF Covers, Usable
<1>6. CASE scope \notin {"tested", "missing", "partial"}
  BY <1>6 DEF Merge, Covers, Usable
<1> QED BY <1>3, <1>4, <1>5, <1>6

\* What a writer has read, with the archives, is all there is to be kept.
EvidenceInv ==
  /\ Usable(serial) = serial /\ Covers(Usable(file), serial)
  /\ \A seen \in past : \E a \in archives : seen \subseteq a.seen
  /\ \A r \in Runs : pc[r] \in {"archive", "write", "publish"} => Covers(Usable(latest[r]), serial)

LEMMA EvidenceStep ==
  ASSUME TypeOK, SingleWriter, EvidenceInv, NEW r \in Runs, Step(r)
  PROVE  EvidenceInv'
<1>0. pc \in [Runs -> Stages] /\ latest \in [Runs -> History]
  BY DEF TypeOK
\* Nothing is published, and nothing leaves the file but for an archive.
<1>1. ASSUME UNCHANGED latest, Archived \/ Kept,
             NEW from, NEW to \in Stages, Goto(r, from, to),
             to \in {"archive", "write", "publish"} => from \in {"archive", "write", "publish"}
      PROVE  EvidenceInv'
  <2>1. \A s \in Runs : pc'[s] \in {"archive", "write", "publish"}
                          => pc[s] \in {"archive", "write", "publish"}
    BY <1>0, <1>1, GotoType
  <2>2. CASE Archived
    <3>1. /\ file' = Missing /\ serial' = Missing /\ archives' = archives \union {file}
          /\ past' = past \union {serial.seen}
      BY <2>2 DEF Archived
    <3>2. \A h : Covers(h, Missing)
      BY DEF Covers, Missing
    <3>3. Usable(Missing) = Missing
      BY DEF Usable, Missing
    <3>4. serial.seen \subseteq file.seen
      BY DEF EvidenceInv, Covers, Usable, Missing
    <3>5. \A seen \in past' : \E a \in archives' : seen \subseteq a.seen
      BY <3>1, <3>4 DEF EvidenceInv
    <3> QED BY <3>1, <3>2, <3>3, <3>5 DEF EvidenceInv
  <2>3. CASE Kept
    BY <1>1, <2>1, <2>3 DEF EvidenceInv, Kept, store, due
  <2> QED BY <1>1, <2>2, <2>3
<1>2. CASE \/ LoadHistory(r) \/ ArchiveAtLoad(r) \/ MakeLock(r) \/ ReadOwner(r) \/ ProbeOwner(r)
           \/ UnlinkStale(r) \/ RemoveStale(r) \/ WritePid(r) \/ ArchiveLocked(r) \/ WriteTemp(r)
           \/ Release(r) \/ RemoveOwn(r) \/ Exit(r)
  <2>1. UNCHANGED latest /\ (Archived \/ Kept)
    BY <1>2 DEF LoadHistory, ArchiveAtLoad, MakeLock, ReadOwner, ProbeOwner, UnlinkStale,
       RemoveStale, WritePid, ArchiveLocked, WriteTemp, Release, RemoveOwn, Exit
  <2>2. \E from, to \in Stages :
          /\ Goto(r, from, to)
          /\ to \in {"archive", "write", "publish"} => from \in {"archive", "write", "publish"}
    BY <1>2 DEF LoadHistory, ArchiveAtLoad, MakeLock, ReadOwner, ProbeOwner, UnlinkStale,
       RemoveStale, WritePid, ArchiveLocked, WriteTemp, Release, RemoveOwn, Exit, Stages
  <2> QED BY <1>1, <2>1, <2>2
<1>3. CASE ReadLatest(r)
  <2>1. /\ latest' = [latest EXCEPT ![r] = file] /\ UNCHANGED <<file, archives, serial, past>>
        /\ \A s \in Runs \ {r} : pc'[s] = pc[s]
    BY <1>0, <1>3, GotoType DEF ReadLatest, Stages, Kept, store, due
  <2>2. ASSUME NEW s \in Runs, pc'[s] \in {"archive", "write", "publish"}
        PROVE  Covers(Usable(latest'[s]), serial)
    <3>1. CASE s = r
      BY <1>0, <2>1, <3>1 DEF EvidenceInv
    <3>2. CASE s # r
      BY <1>0, <2>1, <2>2, <3>2 DEF EvidenceInv
    <3> QED BY <3>1, <3>2
  <2> QED BY <2>1, <2>2 DEF EvidenceInv
<1>4. CASE Publish(r)
  <2>1. /\ pc[r] = "publish" /\ pc'[r] = "release" /\ UNCHANGED <<latest, archives, past>>
        /\ \A s \in Runs \ {r} : pc'[s] = pc[s]
    BY <1>0, <1>4, GotoType DEF Publish, Stages, Kept, store, due
  <2>2. \A s \in Runs : pc'[s] \notin {"archive", "write", "publish"}
    BY <2>1 DEF SingleWriter, Writing
  <2>3. ASSUME NEW scope \in Scopes, file' = Merged(r, scope), serial' = Merge(serial, r, scope)
        PROVE  EvidenceInv'
    <3>1. Covers(Usable(latest[r]), Usable(serial))
      BY <2>1 DEF EvidenceInv
    <3>2. Usable(serial') = serial'
      BY <2>3 DEF Merge, Usable
    <3>3. Covers(Usable(file'), serial')
      BY <2>3, <3>1, <3>2, MergeHolds DEF Merged
    <3> QED BY <2>1, <2>2, <3>2, <3>3 DEF EvidenceInv
  <2>4. CASE Kept
    BY <2>1, <2>2, <2>4 DEF EvidenceInv, Kept, store, due
  <2> QED BY <1>4, <2>3, <2>4 DEF Publish
<1> QED BY <1>2, <1>3, <1>4 DEF Step

\* As long as the lock excludes a second writer, the history is, for any number of
\* runs and crashes, at least what the runs that published make of it one after the
\* other: it loses what the window, the limit of unseen runs and the limit of tests
\* take, and what archiveIdentityState, at the start of a run and without the lock,
\* moves away under a writer is in a recovery archive.
THEOREM ExclusionKeepsEvidence == Spec /\ []SingleWriter => []EvidenceKept
<1>1. Init => EvidenceInv
  BY DEF Init, EvidenceInv, Covers, Usable, Missing
<1>2. TypeOK /\ SingleWriter /\ EvidenceInv /\ [Next]_vars => EvidenceInv'
  <2> SUFFICES ASSUME TypeOK, SingleWriter, EvidenceInv, [Next]_vars PROVE EvidenceInv'
    OBVIOUS
  <2>1. ASSUME NEW r \in Runs, Step(r) PROVE EvidenceInv'
    BY <2>1, EvidenceStep
  <2>2. ASSUME NEW r \in Runs, Crash(r) PROVE EvidenceInv'
    <3>1. pc' = [pc EXCEPT ![r] = "killed"] /\ UNCHANGED <<file, archives, latest, serial, past>>
      BY <2>2 DEF Crash, Kept, store, due
    <3>2. \A s \in Runs : pc'[s] \in {"archive", "write", "publish"} => pc'[s] = pc[s]
      BY <3>1 DEF TypeOK
    <3> QED BY <3>1, <3>2 DEF EvidenceInv
  <2>3. CASE AllOver \/ UNCHANGED vars
    BY <2>3 DEF AllOver, vars, store, due, EvidenceInv
  <2> QED BY <2>1, <2>2, <2>3 DEF Next
<1>3. EvidenceInv => EvidenceKept
  BY DEF EvidenceInv, Covers, EvidenceKept
<1> QED BY <1>1, <1>2, <1>3, TypeCorrect, PTL DEF Spec

\* So two runs that share a history keep what both of them published, as far as
\* the retention rules do.
THEOREM TwoRunsKeepEvidence == TwoRuns => (Spec => []EvidenceKept)
<1> SUFFICES ASSUME TwoRuns PROVE Spec => []EvidenceKept
  OBVIOUS
<1> QED BY TwoRunsExclude, ExclusionKeepsEvidence, PTL

-----------------------------------------------------------------------------
(* The tools that change what a project keeps                              *)

ToolStages == {"idle", "read", "move", "place", "temp", "flushed", "create", "fill", "ended"}
AllKinds == {"none", "prune", "baseline", "quarantine", "migrate"}

\* A tool's memory has the shape that Fresh gives it.
Shaped(t) ==
  /\ t.kind \in AllKinds /\ t.at \in ToolStages
  /\ t = [kind |-> t.kind, at |-> t.at, write |-> t.write, stamp |-> t.stamp,
          needed |-> t.needed, planned |-> t.planned, moving |-> t.moving, moved |-> t.moved,
          doc |-> t.doc, found |-> t.found]

ToolsTypeOK ==
  /\ family \in Families /\ scheme \in Schemes
  /\ generation \in {1, 2} /\ tests \subseteq Tests /\ runs \in Nat /\ now \in Nat
  /\ saved \in [Snapshots -> Nat]
  /\ DOMAIN reports = {1, 2} /\ DOMAIN tool = Tools
  /\ \A p \in Tools : Shaped(tool[p])

\* A report knows tests of the project only.
ReportsInv ==
  \A g \in {1, 2} : reports[g].whole => reports[g].known \subseteq Tests /\ reports[g].generation = g

Owned(stamp) == stamp # Unnamed /\ \E p \in Tools : tool[p].stamp = stamp
Batch(stamp) == {<<x.of, x.bytes>> : x \in {y \in trash : y.stamp = stamp}}

\* What a pruner that has its batch for itself knows of it: what it has moved is
\* what lies there, nothing lies where it is about to move, and no audit is there.
Alone(p) ==
  /\ tool[p].moved = Batch(tool[p].stamp)
  /\ tool[p].stamp \notin DOMAIN audits
  /\ tool[p].at = "place" => ~Taken(p, tool[p].moving)

PrunerInv(p) ==
  /\ tool[p].at \in {"idle", "read"} => tool[p].stamp = Unnamed /\ tool[p].moved = {}
  /\ tool[p].at \in {"move", "place"} =>
       tool[p].stamp # Unnamed /\ (Crowded(tool[p].stamp) \/ Alone(p))

PrunersInv ==
  /\ \A x \in trash : Owned(x.stamp)
  /\ \A b \in DOMAIN audits : Owned(b)
  /\ \A p \in Tools : PrunerInv(p)

\* A quarantine is whole, and its ids are of its generation.
Sound(doc) ==
  /\ doc.whole /\ doc.generation \in {1, 2}
  /\ DOMAIN doc.entries \subseteq IdsOf(doc.generation)

\* A quarantine that continues another one of the same generation.
Continues(doc, old) ==
  /\ old = None \/ (Sound(old) /\ old.generation = doc.generation)
  /\ \A i \in DOMAIN Entries(old) : i \in DOMAIN doc.entries /\ doc.entries[i] = old.entries[i]

\* A quarantine that says the same as another one, in ids of generation 2.
Translates(doc, old) ==
  /\ Sound(doc) /\ Sound(old) /\ doc.generation = 2 /\ doc.over \subseteq Names
  /\ \A n \in doc.over :
       /\ n \in Quarantined(doc) <=> n \in Quarantined(old)
       /\ n \in Quarantined(old) => doc.entries[Id(2, n)] = old.entries[Id(old.generation, n)]

Earned(doc) ==
  /\ doc.whole /\ doc.measured.benches # {} /\ RequireComplete(doc)

\* What a tool holds between reading and writing.
HoldsSound(t) ==
  /\ t.at \in {"temp", "flushed"} =>
       \/ t.kind = "quarantine" /\ Sound(t.doc) /\ Continues(t.doc, t.found)
       \/ t.kind = "baseline" /\ Earned(t.doc)
  /\ t.at \in {"create", "fill"} => Translates(t.doc, t.found)

HeldInv == \A p \in Tools : HoldsSound(tool[p])

FilesInv ==
  /\ quarantine # None => Sound(quarantine)
  /\ baseline # None => Earned(baseline)
  /\ output.whole => Translates(output.doc, output.source)

ToolsInv == ToolsTypeOK /\ ReportsInv /\ PrunersInv /\ AuditRestores /\ HeldInv /\ FilesInv
-----------------------------------------------------------------------------
(* Operators                                                               *)

LEMMA FreshShaped ==
  ASSUME NEW kind \in AllKinds, NEW at \in ToolStages, NEW write, NEW stamp
  PROVE  LET t == Fresh(kind, at, write, stamp)
         IN Shaped(t) /\ t.at = at /\ t.kind = kind /\ t.moved = {} /\ t.stamp = stamp
BY DEF Shaped, Fresh

\* What an update writes continues what it read.
LEMMA UpdatedContinues ==
  ASSUME NEW doc, doc = None \/ Sound(doc), NEW g \in {1, 2}, Readable(doc, g),
         NEW chosen \in SUBSET Names
  PROVE  Sound(Updated(doc, g, chosen)) /\ Continues(Updated(doc, g, chosen), doc)
<1> DEFINE new == Updated(doc, g, chosen)
<1>1. /\ new.whole /\ new.generation = g
      /\ DOMAIN new.entries = DOMAIN Entries(doc) \union {Id(g, n) : n \in chosen}
      /\ \A i \in DOMAIN Entries(doc) : new.entries[i] = Entries(doc)[i]
  BY DEF Updated
<1>3. {Id(g, n) : n \in chosen} \subseteq IdsOf(g)
  BY DEF IdsOf
<1>4. CASE doc = None
  <2>1. Entries(doc) = << >>
    BY <1>4 DEF Entries, None
  <2>2. DOMAIN Entries(doc) = {}
    BY <2>1
  <2> QED BY <1>1, <1>3, <2>2, <1>4 DEF Sound, Continues
<1>5. CASE doc # None
  <2>1. Sound(doc) /\ doc.generation = g /\ Entries(doc) = doc.entries
    BY <1>5 DEF Readable, Sound, Entries
  <2>2. DOMAIN Entries(doc) \subseteq IdsOf(g)
    BY <2>1 DEF Sound
  <2> HIDE DEF new
  <2>3. DOMAIN new.entries \subseteq IdsOf(new.generation)
    BY <1>1, <1>3, <2>2
  <2>4. Sound(new)
    BY <1>1, <2>3 DEF Sound
  <2>5. \A i \in DOMAIN Entries(doc) : i \in DOMAIN new.entries /\ new.entries[i] = doc.entries[i]
    BY <1>1, <2>1
  <2>6. Continues(new, doc)
    BY <1>1, <2>1, <2>5 DEF Continues
  <2> QED BY <2>4, <2>6 DEF new
<1> QED BY <1>4, <1>5

\* A manifest all of whose ids have a partner has the old id of a name exactly
\* if it has the name's id of its own generation, and then the two are one.
LEMMA OldIdDecides ==
  ASSUME NEW doc, Sound(doc), scheme \in Schemes, NEW known \in SUBSET Names,
         DOMAIN doc.entries \subseteq {Id(1, n) : n \in known}, NEW n \in known
  PROVE  /\ Id(1, n) \in DOMAIN doc.entries <=> Id(doc.generation, n) \in DOMAIN doc.entries
         /\ Id(1, n) \in DOMAIN doc.entries => Id(1, n) = Id(doc.generation, n)
<1>1. CASE doc.generation = 1
  BY <1>1
<1>2. CASE doc.generation = 2
  <2>1. \A k, m \in Names : Id(1, k) = Id(2, m) => Id(1, m) = Id(1, k) /\ Id(2, k) = Id(2, m)
    BY UpkeepAssumption DEF Id
  <2>2. ASSUME Id(2, n) \in DOMAIN doc.entries PROVE Id(1, n) = Id(2, n)
    <3>1. PICK k \in known : Id(2, n) = Id(1, k)
      BY <2>2
    <3> QED BY <3>1, <2>1
  <2>3. ASSUME Id(1, n) \in DOMAIN doc.entries PROVE Id(1, n) = Id(2, n)
    <3>1. PICK m \in Names : Id(1, n) = Id(2, m)
      BY <2>3, <1>2 DEF Sound, IdsOf
    <3> QED BY <3>1, <2>1
  <2> QED BY <1>2, <2>2, <2>3
<1> QED BY <1>1, <1>2 DEF Sound

\* The output of a migration quarantines what its source does.
LEMMA MappedTranslates ==
  ASSUME ToolsInv, Migratable
  PROVE  Translates(Mapped(quarantine, PairMaps), quarantine)
<1> DEFINE known == UNION {NamesOf[t] : t \in reports[1].known}
           old == quarantine
           new == Mapped(quarantine, PairMaps)
<1>1. known \subseteq Names
  BY DEF ToolsInv, ReportsInv, Migratable, SameInventory, Names
<1>2. PairMaps = {<<Id(1, n), Id(2, n)>> : n \in known}
  BY DEF PairMaps
<1>3. Sound(old) /\ scheme \in Schemes
  BY DEF ToolsInv, FilesInv, ToolsTypeOK, Migratable, None
<1>4. DOMAIN old.entries \subseteq {Id(1, n) : n \in known}
  <2>1. \A x \in PairMaps : x[1] \in {Id(1, n) : n \in known}
    BY <1>2
  <2> QED BY <2>1 DEF Migratable
<1>5. \A n, k \in known : (Id(1, n) = Id(1, k)) <=> (Id(2, n) = Id(2, k))
  <2> SUFFICES ASSUME NEW n \in known, NEW k \in known
               PROVE  (Id(1, n) = Id(1, k)) <=> (Id(2, n) = Id(2, k))
    OBVIOUS
  <2>1. <<Id(1, n), Id(2, n)>> \in PairMaps /\ <<Id(1, k), Id(2, k)>> \in PairMaps
    BY <1>2
  <2> HIDE DEF known
  <2> QED BY <2>1 DEF Migratable, Unambiguous
<1>6. /\ new.whole /\ new.generation = 2 /\ new.over = known
      /\ DOMAIN new.entries = {x[2] : x \in {y \in PairMaps : y[1] \in DOMAIN old.entries}}
      /\ \A i \in DOMAIN new.entries :
           new.entries[i] = old.entries[CHOOSE j \in DOMAIN old.entries : <<j, i>> \in PairMaps]
  BY DEF Mapped
<1> HIDE DEF known, new, old
<1>7. \A i : i \in DOMAIN new.entries
             <=> \E k \in known : i = Id(2, k) /\ Id(1, k) \in DOMAIN old.entries
  <2>1. ASSUME NEW i \in DOMAIN new.entries
        PROVE  \E k \in known : i = Id(2, k) /\ Id(1, k) \in DOMAIN old.entries
    <3>1. PICK x \in PairMaps : x[1] \in DOMAIN old.entries /\ i = x[2]
      BY <1>6
    <3>2. PICK k \in known : x = <<Id(1, k), Id(2, k)>>
      BY <1>2
    <3> QED BY <3>1, <3>2
  <2>2. ASSUME NEW k \in known, Id(1, k) \in DOMAIN old.entries
        PROVE  Id(2, k) \in DOMAIN new.entries
    <3>1. <<Id(1, k), Id(2, k)>> \in PairMaps
      BY <1>2
    <3> QED BY <1>6, <2>2, <3>1
  <2> QED BY <2>1, <2>2
<1>8. Sound(new)
  BY <1>1, <1>6, <1>7 DEF Sound, IdsOf
<1>9. ASSUME NEW n \in known
      PROVE  /\ n \in Quarantined(new) <=> n \in Quarantined(old)
             /\ n \in Quarantined(old) => new.entries[Id(2, n)] = old.entries[Id(old.generation, n)]
  <2>1. /\ Id(1, n) \in DOMAIN old.entries <=> Id(old.generation, n) \in DOMAIN old.entries
        /\ Id(1, n) \in DOMAIN old.entries => Id(1, n) = Id(old.generation, n)
    BY <1>1, <1>3, <1>4, OldIdDecides
  <2>2. Id(2, n) \in DOMAIN new.entries <=> Id(1, n) \in DOMAIN old.entries
    BY <1>5, <1>7
  <2>3. n \in Quarantined(new) <=> Id(2, n) \in DOMAIN new.entries
    BY <1>1, <1>6 DEF Quarantined
  <2>4. n \in Quarantined(old) <=> Id(old.generation, n) \in DOMAIN old.entries
    BY <1>1, <1>3 DEF Quarantined, Sound
  <2>5. ASSUME Id(1, n) \in DOMAIN old.entries
        PROVE  new.entries[Id(2, n)] = old.entries[Id(1, n)]
    <3>1. <<Id(1, n), Id(2, n)>> \in PairMaps
      BY <1>2
    <3>2. \A j : <<j, Id(2, n)>> \in PairMaps => j = Id(1, n)
      BY <1>2, <1>5
    <3>3. (CHOOSE j \in DOMAIN old.entries : <<j, Id(2, n)>> \in PairMaps) = Id(1, n)
      BY <2>5, <3>1, <3>2
    <3> QED BY <1>6, <2>2, <2>5, <3>3
  <2> QED BY <2>1, <2>2, <2>3, <2>4, <2>5
<1> QED BY <1>1, <1>3, <1>6, <1>8, <1>9 DEF Translates, new, old
-----------------------------------------------------------------------------
(* What a step does to the tool that takes it                              *)

\* Only p's memory changes, and it keeps its shape.
Only(p) ==
  /\ DOMAIN tool' = Tools /\ Shaped(tool'[p])
  /\ \A q \in Tools \ {p} : tool'[q] = tool[q]

LEMMA EndsGives ==
  ASSUME ToolsTypeOK, NEW p \in Tools, NEW status, Ends(p, status)
  PROVE  Only(p) /\ tool'[p].at = "ended" /\ tool'[p].stamp = tool[p].stamp
<1> DEFINE w == tool[p].write
           k == tool[p].kind
           b == tool[p].stamp
<1>1. tool' = [tool EXCEPT ![p] = Fresh(k, "ended", w, b)]
  BY DEF Ends
<1>2. k \in AllKinds
  BY DEF ToolsTypeOK, Shaped
<1>3. LET t == Fresh(k, "ended", w, b) IN Shaped(t) /\ t.at = "ended" /\ t.stamp = b
  <2> HIDE DEF k, w, b
  <2> QED BY <1>2, FreshShaped DEF ToolStages
<1> HIDE DEF w, k
<1> QED BY <1>1, <1>3 DEF Only, ToolsTypeOK

LEMMA GoesGives ==
  ASSUME ToolsTypeOK, NEW p \in Tools, NEW stage \in ToolStages, Goes(p, stage)
  PROVE  /\ Only(p) /\ tool'[p].at = stage /\ tool'[p].kind = tool[p].kind
         /\ tool'[p].doc = tool[p].doc /\ tool'[p].found = tool[p].found
         /\ tool'[p].stamp = tool[p].stamp
BY DEF Goes, Only, ToolsTypeOK, Shaped

LEMMA HoldsGives ==
  ASSUME ToolsTypeOK, NEW p \in Tools, NEW stage \in ToolStages, NEW doc, NEW found,
         Holds(p, stage, doc, found)
  PROVE  /\ Only(p) /\ tool'[p].at = stage /\ tool'[p].kind = tool[p].kind
         /\ tool'[p].doc = doc /\ tool'[p].found = found /\ tool'[p].stamp = tool[p].stamp
<1>1. /\ tool[p].kind \in AllKinds
      /\ tool[p] = [kind |-> tool[p].kind, at |-> tool[p].at, write |-> tool[p].write,
                    stamp |-> tool[p].stamp, needed |-> tool[p].needed,
                    planned |-> tool[p].planned, moving |-> tool[p].moving,
                    moved |-> tool[p].moved, doc |-> tool[p].doc, found |-> tool[p].found]
  BY DEF ToolsTypeOK, Shaped
<1>2. tool' = [tool EXCEPT ![p].at = stage, ![p].doc = doc, ![p].found = found]
  BY DEF Holds
<1>3. tool'[p] = [kind |-> tool[p].kind, at |-> stage, write |-> tool[p].write,
                  stamp |-> tool[p].stamp, needed |-> tool[p].needed,
                  planned |-> tool[p].planned, moving |-> tool[p].moving,
                  moved |-> tool[p].moved, doc |-> doc, found |-> found]
  BY <1>1, <1>2 DEF ToolsTypeOK
<1>4. /\ Shaped(tool'[p]) /\ tool'[p].at = stage /\ tool'[p].kind = tool[p].kind
      /\ tool'[p].doc = doc /\ tool'[p].found = found /\ tool'[p].stamp = tool[p].stamp
  BY <1>1, <1>3 DEF Shaped
<1> QED BY <1>2, <1>4 DEF Only, ToolsTypeOK

LEMMA BeginGives ==
  ASSUME ToolsTypeOK, NEW p \in Tools, Begin(p)
  PROVE  Only(p) /\ tool'[p].at = "read" /\ tool'[p].moved = {} /\ tool'[p].stamp = Unnamed
<1>1. PICK kind \in Kinds, write \in BOOLEAN :
        tool' = [tool EXCEPT ![p] = Fresh(kind, "read", write, Unnamed)]
  BY DEF Begin
<1>2. Kinds \subseteq AllKinds
  BY DEF Kinds, AllKinds
<1>3. LET t == Fresh(kind, "read", write, Unnamed)
      IN Shaped(t) /\ t.at = "read" /\ t.moved = {} /\ t.stamp = Unnamed
  BY <1>2, FreshShaped DEF ToolStages
<1> QED BY <1>1, <1>3 DEF Only, ToolsTypeOK

\* The steps of a pruner change a few fields of its memory.
LEMMA PrunerGives ==
  ASSUME ToolsTypeOK, NEW p \in Tools, NEW at \in ToolStages, NEW stamp, NEW needed, NEW planned,
         NEW moving, NEW moved,
         DOMAIN tool' = Tools, \A q \in Tools \ {p} : tool'[q] = tool[q],
         tool'[p] = [kind |-> tool[p].kind, at |-> at, write |-> tool[p].write,
                     stamp |-> stamp, needed |-> needed, planned |-> planned,
                     moving |-> moving, moved |-> moved,
                     doc |-> tool[p].doc, found |-> tool[p].found]
  PROVE  /\ Only(p) /\ tool'[p].at = at /\ tool'[p].stamp = stamp
         /\ tool'[p].moving = moving /\ tool'[p].moved = moved
<1>1. tool[p].kind \in AllKinds
  BY DEF ToolsTypeOK, Shaped
<1>2. /\ tool'[p].kind = tool[p].kind /\ tool'[p].at = at /\ tool'[p].stamp = stamp
      /\ tool'[p].moving = moving /\ tool'[p].moved = moved
      /\ tool'[p] = [kind |-> tool'[p].kind, at |-> tool'[p].at, write |-> tool'[p].write,
                     stamp |-> tool'[p].stamp, needed |-> tool'[p].needed,
                     planned |-> tool'[p].planned, moving |-> tool'[p].moving,
                     moved |-> tool'[p].moved, doc |-> tool'[p].doc, found |-> tool'[p].found]
  OBVIOUS
<1> QED BY <1>1, <1>2 DEF Only, Shaped

LEMMA ToolShape ==
  ASSUME ToolsTypeOK, NEW p \in Tools
  PROVE  tool[p] = [kind |-> tool[p].kind, at |-> tool[p].at, write |-> tool[p].write,
                    stamp |-> tool[p].stamp, needed |-> tool[p].needed,
                    planned |-> tool[p].planned, moving |-> tool[p].moving,
                    moved |-> tool[p].moved, doc |-> tool[p].doc, found |-> tool[p].found]
BY DEF ToolsTypeOK, Shaped

LEMMA PlanGives ==
  ASSUME ToolsTypeOK, NEW p \in Tools, PlanPrune(p)
  PROVE  Only(p) /\ \/ tool'[p].at = "ended" /\ tool'[p].stamp = tool[p].stamp
                    \/ /\ tool'[p].at = "move" /\ tool'[p].stamp = now
                       /\ tool'[p].moved = tool[p].moved
<1> DEFINE needed == inventory.needed
           planned == inventory.obsolete \intersect Stored(saved)
<1>1. CASE tool' = [tool EXCEPT ![p].at = "move", ![p].stamp = now, ![p].needed = needed,
                               ![p].planned = planned]
  <2> HIDE DEF needed, planned
  <2>0. tool[p] = [kind |-> tool[p].kind, at |-> tool[p].at, write |-> tool[p].write,
                   stamp |-> tool[p].stamp, needed |-> tool[p].needed,
                   planned |-> tool[p].planned, moving |-> tool[p].moving,
                   moved |-> tool[p].moved, doc |-> tool[p].doc, found |-> tool[p].found]
    BY ToolShape
  <2>1. tool'[p] = [kind |-> tool[p].kind, at |-> "move", write |-> tool[p].write,
                    stamp |-> now, needed |-> needed, planned |-> planned,
                    moving |-> tool[p].moving, moved |-> tool[p].moved,
                    doc |-> tool[p].doc, found |-> tool[p].found]
    BY <1>1, <2>0 DEF ToolsTypeOK
  <2>2. "move" \in ToolStages /\ DOMAIN tool' = Tools /\ \A q \in Tools \ {p} : tool'[q] = tool[q]
    BY <1>1 DEF ToolStages, ToolsTypeOK
  <2> QED BY <2>1, <2>2, PrunerGives
<1>2. CASE \E status : Ends(p, status)
  BY <1>2, EndsGives
<1> QED BY <1>1, <1>2 DEF PlanPrune

LEMMA CheckGives ==
  ASSUME ToolsTypeOK, NEW p \in Tools, CheckDestination(p)
  PROVE  Only(p) /\ tool'[p].stamp = tool[p].stamp
                 /\ \/ tool'[p].at = "ended"
                    \/ /\ tool'[p].at = "place" /\ tool'[p].moved = tool[p].moved
                       /\ ~Taken(p, tool'[p].moving)
<1>1. ASSUME NEW s, ~Taken(p, s), tool' = [tool EXCEPT ![p].at = "place", ![p].moving = s]
      PROVE  /\ Only(p) /\ tool'[p].stamp = tool[p].stamp
             /\ tool'[p].at = "place" /\ tool'[p].moved = tool[p].moved /\ tool'[p].moving = s
  <2>0. tool[p] = [kind |-> tool[p].kind, at |-> tool[p].at, write |-> tool[p].write,
                   stamp |-> tool[p].stamp, needed |-> tool[p].needed,
                   planned |-> tool[p].planned, moving |-> tool[p].moving,
                   moved |-> tool[p].moved, doc |-> tool[p].doc, found |-> tool[p].found]
    BY ToolShape
  <2>1. tool'[p] = [kind |-> tool[p].kind, at |-> "place", write |-> tool[p].write,
                    stamp |-> tool[p].stamp, needed |-> tool[p].needed,
                    planned |-> tool[p].planned, moving |-> s, moved |-> tool[p].moved,
                    doc |-> tool[p].doc, found |-> tool[p].found]
    BY <1>1, <2>0 DEF ToolsTypeOK
  <2>2. "place" \in ToolStages /\ DOMAIN tool' = Tools /\ \A q \in Tools \ {p} : tool'[q] = tool[q]
    BY <1>1 DEF ToolStages, ToolsTypeOK
  <2> QED BY <1>1, <2>1, <2>2, PrunerGives
<1>2. (\E status : Ends(p, status)) \/
      \E s : ~Taken(p, s) /\ tool' = [tool EXCEPT ![p].at = "place", ![p].moving = s]
  BY DEF CheckDestination
<1> QED BY <1>1, <1>2, EndsGives

LEMMA MovesGives ==
  ASSUME ToolsTypeOK, NEW p \in Tools, NEW s, Moves(p, s)
  PROVE  /\ Only(p) /\ tool'[p].at = "move" /\ tool'[p].stamp = tool[p].stamp
         /\ tool'[p].moved = tool[p].moved \union {<<s, saved[s]>>}
<1> DEFINE moved == tool[p].moved \union {<<s, saved[s]>>}
           planned == tool[p].planned \ {tool[p].moving}
<1>1. tool' = [tool EXCEPT ![p].at = "move", ![p].planned = planned, ![p].moved = moved]
  BY DEF Moves, Moved
<1> HIDE DEF moved, planned
<1>0. tool[p] = [kind |-> tool[p].kind, at |-> tool[p].at, write |-> tool[p].write,
                 stamp |-> tool[p].stamp, needed |-> tool[p].needed,
                 planned |-> tool[p].planned, moving |-> tool[p].moving,
                 moved |-> tool[p].moved, doc |-> tool[p].doc, found |-> tool[p].found]
  BY ToolShape
<1>2. tool'[p] = [kind |-> tool[p].kind, at |-> "move", write |-> tool[p].write,
                  stamp |-> tool[p].stamp, needed |-> tool[p].needed,
                  planned |-> planned, moving |-> tool[p].moving, moved |-> moved,
                  doc |-> tool[p].doc, found |-> tool[p].found]
  BY <1>1, <1>0 DEF ToolsTypeOK
<1>3. "move" \in ToolStages /\ DOMAIN tool' = Tools /\ \A q \in Tools \ {p} : tool'[q] = tool[q]
  BY <1>1 DEF ToolStages, ToolsTypeOK
<1> QED BY <1>2, <1>3, PrunerGives DEF moved

-----------------------------------------------------------------------------
(* The parts of the invariant, one by one                                  *)

Entry(p, s) == [stamp |-> tool[p].stamp, of |-> s, bytes |-> saved[s], needed |-> s \in tool[p].needed]

\* A move adds to the trash, and takes out of it only what lay in its place.
LEMMA MoveAdds ==
  ASSUME NEW p \in Tools, NEW s, Moves(p, s)
  PROVE  /\ Entry(p, s) \in trash' /\ trash' \subseteq trash \union {Entry(p, s)}
         /\ \A x \in trash \ trash' : x.stamp = tool[p].stamp /\ Taken(p, s)
         /\ saved' = [saved EXCEPT ![s] = 0]
BY DEF Moves, Trashed, Taken, Entry

\* What a step of a tool leaves alone in the trash and does to its own memory.
PrunerStep(p) ==
  \/ /\ UNCHANGED <<saved, trash>>
     /\ \/ tool'[p].at \notin {"idle", "read", "move", "place"}
        \/ tool'[p].at = "read" /\ tool'[p].moved = {} /\ tool'[p].stamp = Unnamed
        \/ /\ At(p, "prune", "read") /\ tool'[p].at = "move"
           /\ tool'[p].stamp = now /\ tool'[p].moved = tool[p].moved
        \/ /\ At(p, "prune", "move") /\ tool'[p].at = "place" /\ tool'[p].moved = tool[p].moved
           /\ tool'[p].stamp = tool[p].stamp /\ ~Taken(p, tool'[p].moving)
  \/ At(p, "prune", "place") /\ Moves(p, tool[p].moving)

\* Once a tool has a batch it keeps it.
KeepsStamp(p) == tool[p].at \in {"idle", "read"} \/ tool'[p].stamp = tool[p].stamp

LEMMA StepOnly ==
  ASSUME ToolsTypeOK, NEW p \in Tools, ToolStep(p)
  PROVE  Only(p) /\ UNCHANGED <<now, tree, left>> /\ KeepsStamp(p) /\ PrunerStep(p)
<1> USE DEF PrunerStep, KeepsStamp
<1>1. CASE Begin(p)
  BY <1>1, BeginGives DEF Begin, World, bin
<1>2. CASE Kill(p)
  BY <1>2, EndsGives DEF Kill, bin
<1>3. CASE PlanPrune(p)
  BY <1>3, PlanGives DEF PlanPrune, Prune, World, bin, At
<1>4. CASE CheckDestination(p)
  BY <1>4, CheckGives DEF CheckDestination, Prune, World, bin
<1>5. CASE MoveSnapshot(p)
  <2>1. \/ Ends(p, 2) /\ UNCHANGED <<saved, trash>>
        \/ Moves(p, tool[p].moving)
    BY <1>5 DEF MoveSnapshot
  <2> QED BY <1>5, <2>1, EndsGives, MovesGives DEF MoveSnapshot, Prune, World
<1>6. CASE WriteAudit(p)
  BY <1>6, EndsGives DEF WriteAudit, Prune, World
<1>7. CASE BuildManifest(p) \/ BuildBaseline(p)
  <2>1. (\E status : Ends(p, status)) \/ (\E doc, found : Holds(p, "temp", doc, found))
    BY <1>7 DEF BuildManifest, BuildBaseline, Prepared
  <2> QED BY <1>7, <2>1, EndsGives, HoldsGives DEF BuildManifest, BuildBaseline, Update, World, bin, ToolStages
<1>8. CASE Flush(p)
  BY <1>8, GoesGives DEF Flush, Update, World, bin, ToolStages
<1>9. CASE Replace(p)
  BY <1>9, EndsGives DEF Replace, Replaces, Update, World, bin
<1>10. CASE MigrateState(p)
  BY <1>10, EndsGives, HoldsGives DEF MigrateState, Migrate, World, bin, ToolStages
<1>11. CASE CreateOutput(p)
  BY <1>11, EndsGives, GoesGives DEF CreateOutput, Migrate, World, bin, ToolStages
<1>12. CASE FillOutput(p)
  BY <1>12, EndsGives DEF FillOutput, Migrate, World, bin
<1> QED
  BY <1>1, <1>2, <1>3, <1>4, <1>5, <1>6, <1>7, <1>8, <1>9, <1>10, <1>11, <1>12 DEF ToolStep

\* Everything else leaves the tools, the trash and the audits alone.
LEMMA WorldOnly ==
  ASSUME Tick \/ Edit \/ Upgrade \/ RunTests \/ Adopt \/ UNCHANGED upkeepVars
  PROVE  UNCHANGED <<tool, trash, audits, scheme, family>>
BY DEF Tick, Edit, Upgrade, RunTests, Adopt, upkeepVars, tree, left, bin

LEMMA SplitNext ==
  ASSUME [UpkeepNext]_upkeepVars
  PROVE  \/ Tick \/ Edit \/ Upgrade \/ RunTests \/ Adopt \/ UNCHANGED upkeepVars
         \/ \E p \in Tools : ToolStep(p)
BY DEF UpkeepNext, Done

LEMMA SchemeStays ==
  ASSUME ToolsTypeOK, [UpkeepNext]_upkeepVars
  PROVE  scheme' = scheme
BY SplitNext, WorldOnly, StepOnly DEF tree

LEMMA ToolsInit == UpkeepInit => ToolsInv
<1> SUFFICES ASSUME UpkeepInit PROVE ToolsInv
  OBVIOUS
<1>1. ToolsTypeOK
  <2>1. Shaped(Fresh("none", "idle", FALSE, Unnamed))
    <3>1. "none" \in AllKinds /\ "idle" \in ToolStages
      BY DEF AllKinds, ToolStages
    <3> QED BY <3>1, FreshShaped
  <2>2. scheme \in Schemes
    BY UpkeepAssumption DEF UpkeepInit
  <2> QED BY <2>1, <2>2, UpkeepAssumption DEF UpkeepInit, ToolsTypeOK
<1>2. ReportsInv
  BY DEF UpkeepInit, ReportsInv, None
<1>3. PrunersInv /\ HeldInv
  <2>1. \A p \in Tools : tool[p].at = "idle" /\ tool[p].moved = {} /\ tool[p].stamp = Unnamed
    <3>1. LET t == Fresh("none", "idle", FALSE, Unnamed)
          IN t.at = "idle" /\ t.moved = {} /\ t.stamp = Unnamed
      BY DEF Fresh
    <3> QED BY <3>1 DEF UpkeepInit
  <2>2. trash = {} /\ DOMAIN audits = {}
    BY DEF UpkeepInit
  <2> QED BY <2>1, <2>2 DEF PrunersInv, PrunerInv, HeldInv, HoldsSound
<1>4. AuditRestores
  BY DEF UpkeepInit, AuditRestores
<1>5. FilesInv
  BY DEF UpkeepInit, FilesInv, None
<1> QED BY <1>1, <1>2, <1>3, <1>4, <1>5 DEF ToolsInv

\* The shapes are kept by every step.
LEMMA ShapesStep ==
  ASSUME ToolsTypeOK, [UpkeepNext]_upkeepVars
  PROVE  ToolsTypeOK'
<1>1. CASE Tick \/ Edit \/ Upgrade \/ Adopt \/ UNCHANGED upkeepVars
  BY <1>1 DEF Tick, Edit, Upgrade, Adopt, upkeepVars, tree, left, ToolsTypeOK
<1>2. CASE RunTests
  <2>1. runs' = runs + 1 /\ UNCHANGED <<now, family, scheme, generation, tests, tool>>
    BY <1>2 DEF RunTests
  <2>2. saved' \in [Snapshots -> Nat] /\ DOMAIN reports' = {1, 2}
    <3>1. \A ran, update : Recorded(ran, update) \in [Snapshots -> Nat]
      BY DEF Recorded, ToolsTypeOK
    <3> QED BY <1>2, <3>1 DEF RunTests, ToolsTypeOK
  <2> QED BY <2>1, <2>2 DEF ToolsTypeOK
<1>3. ASSUME NEW p \in Tools, ToolStep(p) PROVE ToolsTypeOK'
  <2>1. Only(p) /\ UNCHANGED <<now, tree, left>>
    BY <1>3, StepOnly
  <2>2. \A q \in Tools : Shaped(tool'[q])
    BY <2>1 DEF Only, ToolsTypeOK
  <2>3. saved' \in [Snapshots -> Nat]
    <3>1. UNCHANGED saved \/ \E s : saved' = [saved EXCEPT ![s] = 0]
      BY <1>3, StepOnly DEF PrunerStep, Moves
    <3> QED BY <3>1 DEF ToolsTypeOK
  <2> QED BY <2>1, <2>2, <2>3 DEF Only, ToolsTypeOK, tree, left, Shaped
<1> QED BY <1>1, <1>2, <1>3, SplitNext

LEMMA ReportsStep ==
  ASSUME ToolsTypeOK, ReportsInv, [UpkeepNext]_upkeepVars
  PROVE  ReportsInv'
<1>1. CASE UNCHANGED reports
  BY <1>1 DEF ReportsInv
<1>2. CASE RunTests /\ reports' # reports
  <2>1. PICK selection \in Selections, end \in Endings, seen \in (SUBSET tests) \ {{}} :
          \E ran \in (SUBSET seen) \ {{}} :
            \/ UNCHANGED reports
            \/ reports' = [reports EXCEPT ![generation] = Report(selection, end, seen, ran)]
    <3> HIDE DEF ToolsTypeOK, ReportsInv
    <3>1. PICK selection \in Selections, end \in Endings, seen \in (SUBSET tests) \ {{}} :
            \E ran \in (SUBSET seen) \ {{}} :
              family # "snapshots" =>
                reports' = [reports EXCEPT ![generation] = Report(selection, end, seen, ran)]
      BY <1>2, Zenon DEF RunTests
    <3>2. family # "snapshots"
      BY <1>2 DEF RunTests
    <3> QED BY <3>1, <3>2, Zenon
  <2>2. PICK ran : reports' = [reports EXCEPT ![generation] = Report(selection, end, seen, ran)]
    BY <1>2, <2>1
  <2>3. /\ Report(selection, end, seen, ran).known \subseteq Tests
        /\ Report(selection, end, seen, ran).generation = generation
    BY DEF Report, Known, ToolsTypeOK
  <2> QED BY <2>2, <2>3 DEF ReportsInv, ToolsTypeOK
<1>3. RunTests \/ UNCHANGED reports
  BY SplitNext, StepOnly DEF Tick, Edit, Upgrade, Adopt, upkeepVars, left
<1> QED BY <1>1, <1>2, <1>3

\* Stamps stay, so a batch that two pruners share stays shared, and an owner an
\* owner.
LEMMA StampsStay ==
  ASSUME ToolsTypeOK, PrunersInv, [UpkeepNext]_upkeepVars
  PROVE  /\ \A q \in Tools : tool[q].stamp # Unnamed => tool'[q].stamp = tool[q].stamp
         /\ \A b : b # Unnamed /\ Crowded(b) => Crowded(b)'
         /\ \A b : Owned(b) => Owned(b)'
<1>1. ASSUME NEW q \in Tools, tool[q].stamp # Unnamed PROVE tool'[q].stamp = tool[q].stamp
  <2>1. CASE UNCHANGED tool
    BY <2>1
  <2>2. ASSUME NEW p \in Tools, ToolStep(p) PROVE tool'[q].stamp = tool[q].stamp
    <3>1. Only(p) /\ KeepsStamp(p)
      BY <2>2, StepOnly
    <3>2. q = p => tool[p].at \notin {"idle", "read"}
      BY <1>1 DEF PrunersInv, PrunerInv
    <3> QED BY <3>1, <3>2 DEF Only, KeepsStamp
  <2> QED BY <2>1, <2>2, SplitNext, WorldOnly
<1> QED BY <1>1 DEF Crowded, Owned

\* An audit is written by a pruner about its own batch.
LEMMA AuditsChange ==
  ASSUME NEW p \in Tools, ToolStep(p)
  PROVE  \/ UNCHANGED audits
         \/ /\ tool[p].at = "move" /\ DOMAIN audits' = DOMAIN audits \union {tool[p].stamp}
            /\ audits'[tool[p].stamp] = tool[p].moved
            /\ \A b \in DOMAIN audits \ {tool[p].stamp} : audits'[b] = audits[b]
            /\ UNCHANGED trash /\ \E status : Ends(p, status)
<1>1. CASE WriteAudit(p)
  BY <1>1 DEF WriteAudit, At
<1>2. CASE ~WriteAudit(p)
  BY <1>2 DEF ToolStep, Begin, Kill, PlanPrune, CheckDestination, MoveSnapshot, BuildManifest,
              BuildBaseline, Flush, Replace, MigrateState, CreateOutput, FillOutput, Prune, Update,
              Migrate, bin
<1> QED BY <1>1, <1>2

\* What a tool does, other than a move into it or an audit of it, leaves a batch.
LEMMA OthersBatch ==
  ASSUME ToolsTypeOK, NEW p \in Tools, ToolStep(p), NEW b, tool[p].stamp # b
  PROVE  /\ \A x : x.stamp = b => (x \in trash <=> x \in trash')
         /\ Batch(b)' = Batch(b) /\ (b \in DOMAIN audits' <=> b \in DOMAIN audits)
<1>1. \A x : x.stamp = b => (x \in trash <=> x \in trash')
  <2>1. CASE UNCHANGED trash
    BY <2>1
  <2>2. CASE Moves(p, tool[p].moving)
    <3>1. Entry(p, tool[p].moving).stamp = tool[p].stamp
      BY DEF Entry
    <3> QED BY <2>2, <3>1, MoveAdds
  <2> QED BY <2>1, <2>2, StepOnly DEF PrunerStep
<1>2. Batch(b)' = Batch(b)
  BY <1>1 DEF Batch
<1>3. b \in DOMAIN audits' <=> b \in DOMAIN audits
  BY AuditsChange
<1> QED BY <1>1, <1>2, <1>3

\* A pruner that stays alone in its batch while another tool takes a step.
LEMMA OtherStep ==
  ASSUME ToolsTypeOK, PrunersInv, NEW p \in Tools, ToolStep(p), NEW q \in Tools \ {p}
  PROVE  PrunerInv(q)'
<1>1. tool'[q] = tool[q] /\ PrunerInv(q)
  BY StepOnly DEF Only, PrunersInv
<1>2. CASE tool[q].at \notin {"move", "place"}
  BY <1>1, <1>2 DEF PrunerInv
<1>3. CASE tool[q].at \in {"move", "place"}
  <2>0. PICK b : b = tool[q].stamp /\ b = tool'[q].stamp
    BY <1>1
  <2>1. b # Unnamed /\ (Crowded(b) \/ Alone(q))
    BY <1>1, <1>3, <2>0 DEF PrunerInv
  <2>2. CASE Crowded(b)
    <3>1. Crowded(b)'
      BY <2>1, <2>2, StampsStay DEF UpkeepNext
    <3> QED BY <1>1, <1>3, <2>0, <2>1, <3>1 DEF PrunerInv, Crowded
  <2>3. CASE Alone(q) /\ ~Crowded(b)
    <3>1. tool[p].stamp # b
      BY <2>0, <2>3 DEF Crowded
    <3>2. \A x : x.stamp = b => (x \in trash <=> x \in trash')
      BY <3>1, OthersBatch
    <3>3. Batch(b)' = Batch(b) /\ (b \in DOMAIN audits' <=> b \in DOMAIN audits)
      BY <3>1, OthersBatch
    <3>4. Taken(q, tool[q].moving)' <=> Taken(q, tool[q].moving)
      BY <1>1, <2>0, <3>2 DEF Taken
    <3>5. Alone(q)'
      BY <1>1, <2>0, <2>3, <3>3, <3>4 DEF Alone, Batch
    <3> QED BY <1>1, <1>3, <2>0, <2>1, <3>5 DEF PrunerInv
  <2> QED BY <2>1, <2>2, <2>3
<1> QED BY <1>2, <1>3

\* A pruner that is alone in its batch learns nothing wrong by its own steps.
LEMMA OwnStep ==
  ASSUME ToolsTypeOK, PrunersInv, NEW p \in Tools, ToolStep(p)
  PROVE  PrunerInv(p)'
<1> USE DEF PrunerInv
<1>1. PrunerInv(p) /\ PrunerStep(p) /\ Only(p)
  BY StepOnly DEF PrunersInv
<1>2. CASE tool'[p].at \notin {"idle", "read", "move", "place"}
  BY <1>2
<1>3. CASE tool'[p].at = "read" /\ tool'[p].moved = {} /\ tool'[p].stamp = Unnamed
  BY <1>3
<1>4. CASE /\ UNCHANGED trash /\ At(p, "prune", "read") /\ tool'[p].at = "move"
           /\ tool'[p].stamp = now /\ tool'[p].moved = tool[p].moved
  <2>1. now # Unnamed /\ tool[p].stamp = Unnamed /\ tool[p].moved = {} /\ now' = now
    BY <1>1, <1>4, StepOnly DEF At, ToolsTypeOK, Unnamed
  <2>2. UNCHANGED audits
    BY <1>4, AuditsChange DEF At
  <2>3. CASE \E q \in Tools : tool[q].stamp = now
    <3>1. PICK q \in Tools : tool[q].stamp = now
      BY <2>3
    <3>2. q # p /\ tool'[q] = tool[q]
      BY <1>1, <2>1, <3>1 DEF Only
    <3> QED BY <1>4, <2>1, <3>1, <3>2 DEF Crowded
  <2>4. CASE ~\E q \in Tools : tool[q].stamp = now
    <3>1. (\A x \in trash : x.stamp # now) /\ now \notin DOMAIN audits
      BY <2>4 DEF PrunersInv, Owned
    <3>2. Batch(now)' = {}
      BY <1>4, <2>1, <3>1 DEF Batch
    <3>3. Alone(p)'
      BY <1>4, <2>1, <2>2, <3>1, <3>2 DEF Alone, Batch
    <3> QED BY <1>4, <2>1, <3>3
  <2> QED BY <2>3, <2>4
<1>5. CASE /\ UNCHANGED trash
           /\ At(p, "prune", "move") /\ tool'[p].at = "place" /\ tool'[p].moved = tool[p].moved
           /\ tool'[p].stamp = tool[p].stamp /\ ~Taken(p, tool'[p].moving)
  <2>1. tool[p].stamp # Unnamed /\ (Crowded(tool[p].stamp) \/ Alone(p))
    BY <1>1, <1>5 DEF At
  <2>2. UNCHANGED audits
    <3>1. \A status : Ends(p, status) => tool'[p].at = "ended"
      BY EndsGives
    <3> QED BY <1>5, <3>1, AuditsChange
  <2>3. Alone(p) => Alone(p)'
    BY <1>5, <2>2 DEF Alone, Batch, Taken
  <2>4. Crowded(tool[p].stamp) => Crowded(tool[p].stamp)'
    BY <1>5, <2>1, StampsStay DEF UpkeepNext
  <2> QED BY <1>5, <2>1, <2>3, <2>4
<1>6. CASE At(p, "prune", "place") /\ Moves(p, tool[p].moving)
  <2> DEFINE m == tool[p].moving
             b == tool[p].stamp
  <2>1. /\ tool'[p].at = "move" /\ tool'[p].stamp = b
        /\ tool'[p].moved = tool[p].moved \union {<<m, saved[m]>>}
    BY <1>6, MovesGives
  <2>2. b # Unnamed /\ (Crowded(b) \/ Alone(p))
    BY <1>1, <1>6 DEF At
  <2>3. CASE Crowded(b)
    <3>1. Crowded(b)'
      BY <2>2, <2>3, StampsStay DEF UpkeepNext
    <3> QED BY <2>1, <2>2, <3>1
  <2>4. CASE Alone(p)
    <3>1. UNCHANGED audits
      BY <1>6, AuditsChange DEF At
    <3>2. ~Taken(p, m) /\ tool[p].moved = Batch(b) /\ b \notin DOMAIN audits
      BY <1>6, <2>4 DEF Alone, At
    <3>3. trash' = trash \union {Entry(p, m)}
      BY <1>6, <3>2, MoveAdds
    <3>4. Entry(p, m).stamp = b /\ Entry(p, m).of = m /\ Entry(p, m).bytes = saved[m]
      BY DEF Entry
    <3>5. Batch(b)' = Batch(b) \union {<<m, saved[m]>>}
      <4> HIDE DEF m, b
      <4>1. Batch(b)' = {<<x.of, x.bytes>> : x \in {y \in trash' : y.stamp = b'}}
        BY DEF Batch
      <4> QED BY <2>1, <3>3, <3>4, <4>1 DEF Batch, b
    <3>6. Alone(p)'
      BY <2>1, <3>1, <3>2, <3>5 DEF Alone, Batch
    <3> QED BY <2>1, <2>2, <3>6
  <2> QED BY <2>2, <2>3, <2>4
<1> QED BY <1>1, <1>2, <1>3, <1>4, <1>5, <1>6 DEF PrunerStep

LEMMA PrunersStep ==
  ASSUME ToolsInv, [UpkeepNext]_upkeepVars
  PROVE  PrunersInv'
<1> USE DEF ToolsInv
<1>1. CASE UNCHANGED <<tool, trash, audits>>
  BY <1>1 DEF PrunersInv, PrunerInv, Alone, Owned, Crowded, Batch, Taken
<1>2. ASSUME NEW p \in Tools, ToolStep(p) PROVE PrunersInv'
  <2>1. \A q \in Tools : PrunerInv(q)'
    BY <1>2, OwnStep, OtherStep
  <2>2. Owned(tool[p].stamp) \/ UNCHANGED <<trash, audits>>
    <3>1. tool[p].at \in {"move", "place"} => Owned(tool[p].stamp)
      BY DEF PrunersInv, PrunerInv, Owned
    <3>2. UNCHANGED trash \/ tool[p].at = "place"
      BY <1>2, StepOnly DEF PrunerStep, At
    <3>3. UNCHANGED audits \/ tool[p].at = "move"
      BY <1>2, AuditsChange
    <3> QED BY <3>1, <3>2, <3>3
  <2>3. \A x \in trash' : x \in trash \/ x.stamp = tool[p].stamp
    <3>1. CASE UNCHANGED trash
      BY <3>1
    <3>2. CASE Moves(p, tool[p].moving)
      <4>1. Entry(p, tool[p].moving).stamp = tool[p].stamp
        BY DEF Entry
      <4> QED BY <3>2, <4>1, MoveAdds
    <3> QED BY <1>2, <3>1, <3>2, StepOnly DEF PrunerStep
  <2>4. \A b \in DOMAIN audits' : b \in DOMAIN audits \/ b = tool[p].stamp
    BY <1>2, AuditsChange
  <2>5. \A x \in trash' : Owned(x.stamp)
    BY <2>2, <2>3 DEF PrunersInv
  <2>6. \A b \in DOMAIN audits' : Owned(b)
    BY <2>2, <2>4 DEF PrunersInv
  <2>7. \A b : Owned(b) => Owned(b)'
    BY StampsStay
  <2> QED BY <2>1, <2>5, <2>6, <2>7 DEF PrunersInv
<1> QED BY <1>1, <1>2, SplitNext, WorldOnly

LEMMA AuditStep ==
  ASSUME ToolsInv, [UpkeepNext]_upkeepVars
  PROVE  AuditRestores'
<1> USE DEF ToolsInv
<1>0. ASSUME NEW b \in DOMAIN audits PROVE Crowded(b) => Crowded(b)'
  BY StampsStay DEF PrunersInv, Owned
<1>1. CASE UNCHANGED <<tool, trash, audits>>
  BY <1>1 DEF AuditRestores, Crowded
<1>2. ASSUME NEW p \in Tools, ToolStep(p), NEW b \in DOMAIN audits'
      PROVE  Crowded(b)' \/ audits'[b] = Batch(b)'
  <2>1. CASE b # tool[p].stamp
    <3>1. b \in DOMAIN audits /\ Batch(b)' = Batch(b)
      BY <1>2, <2>1, OthersBatch
    <3>2. audits'[b] = audits[b]
      BY <1>2, <2>1, <3>1, AuditsChange
    <3> QED BY <1>0, <3>1, <3>2 DEF AuditRestores, Batch
  <2>2. CASE b = tool[p].stamp /\ UNCHANGED audits
    <3>1. CASE UNCHANGED trash
      BY <1>0, <1>2, <2>2, <3>1 DEF AuditRestores, Batch
    <3>2. CASE At(p, "prune", "place")
      <4>1. Crowded(b) \/ b \notin DOMAIN audits
        BY <2>2, <3>2 DEF At, PrunersInv, PrunerInv, Alone
      <4> QED BY <1>0, <1>2, <2>2, <4>1
    <3> QED BY <1>2, <3>1, <3>2, StepOnly DEF PrunerStep
  <2>3. CASE /\ b = tool[p].stamp /\ tool[p].at = "move" /\ audits'[b] = tool[p].moved
             /\ UNCHANGED trash
    <3>1. Owned(b) /\ (Crowded(b) \/ tool[p].moved = Batch(b))
      BY <2>3 DEF PrunersInv, PrunerInv, Alone, Owned
    <3>2. Crowded(b) => Crowded(b)'
      BY <3>1, StampsStay DEF Owned
    <3> QED BY <2>3, <3>1, <3>2 DEF Batch
  <2> QED BY <1>2, <2>1, <2>2, <2>3, AuditsChange
<1>3. CASE \E p \in Tools : ToolStep(p)
  BY <1>2, <1>3 DEF AuditRestores, Batch
<1> QED BY <1>1, <1>3, SplitNext, WorldOnly

\* The ids do not change, so neither does what a document says.
LEMMA SameMeaning ==
  ASSUME scheme' = scheme
  PROVE  /\ \A p \in Tools : HoldsSound(tool'[p]) => HoldsSound(tool[p])'
         /\ Sound(quarantine') => Sound(quarantine)'
         /\ Translates(output'.doc, output'.source) => Translates(output.doc, output.source)'
<1>1. Sound(quarantine') => Sound(quarantine)'
  BY DEF Sound, Id, IdsOf
<1>2. Translates(output'.doc, output'.source) => Translates(output.doc, output.source)'
  BY DEF Translates, Sound, Quarantined, Id, IdsOf
<1>3. ASSUME NEW p \in Tools, HoldsSound(tool'[p])
      PROVE  HoldsSound(tool[p])'
  BY <1>3 DEF HoldsSound, Sound, Continues, Translates, Earned, RequireComplete, Entries, Quarantined,
              Id, IdsOf
<1> QED BY <1>1, <1>2, <1>3

LEMMA LatestIs ==
  ASSUME ReportsInv, Latest.whole
  PROVE  Latest.generation \in {1, 2}
BY DEF ReportsInv, Latest

\* A tool that reads only what is sound holds what is sound.
LEMMA StepHolds ==
  ASSUME ToolsInv, NEW p \in Tools, ToolStep(p)
  PROVE  HoldsSound(tool'[p])
<1> USE DEF ToolsInv
<1>1. ASSUME tool'[p].at \in {"ended", "read", "move", "place"} PROVE HoldsSound(tool'[p])
  BY <1>1 DEF HoldsSound
<1>2. CASE BuildManifest(p)
  <2>1. CASE \E status : Ends(p, status)
    BY <1>1, <2>1, EndsGives
  <2>2. ASSUME Latest.whole, Readable(quarantine, Latest.generation),
               NEW chosen \in SUBSET Flaky,
               Holds(p, "temp", Updated(quarantine, Latest.generation, chosen), quarantine)
        PROVE  HoldsSound(tool'[p])
    <3> DEFINE new == Updated(quarantine, Latest.generation, chosen)
    <3>1. chosen \in SUBSET Names /\ Latest.generation \in {1, 2}
      BY <2>2, LatestIs, UpkeepAssumption
    <3>2. quarantine = None \/ Sound(quarantine)
      BY DEF FilesInv
    <3>3. Sound(new) /\ Continues(new, quarantine)
      BY <2>2, <3>1, <3>2, UpdatedContinues
    <3>4. tool'[p].at = "temp" /\ tool'[p].kind = "quarantine" /\ tool'[p].doc = new
          /\ tool'[p].found = quarantine
      BY <1>2, <2>2, HoldsGives DEF BuildManifest, At, ToolStages
    <3> QED BY <3>3, <3>4 DEF HoldsSound
  <2> QED BY <1>2, <2>1, <2>2 DEF BuildManifest, Prepared
<1>3. CASE BuildBaseline(p)
  <2>1. CASE \E status : Ends(p, status)
    BY <1>1, <2>1, EndsGives
  <2>2. ASSUME Latest.whole, RequireComplete(Latest), Latest.measured.benches # {},
               Holds(p, "temp", Latest, baseline)
        PROVE  HoldsSound(tool'[p])
    <3>1. tool'[p].at = "temp" /\ tool'[p].kind = "baseline" /\ tool'[p].doc = Latest
      BY <1>3, <2>2, HoldsGives DEF BuildBaseline, At, ToolStages
    <3> QED BY <2>2, <3>1 DEF HoldsSound, Earned
  <2> QED BY <1>3, <2>1, <2>2 DEF BuildBaseline, Prepared
<1>4. CASE Flush(p)
  <2>1. /\ tool'[p].at = "flushed" /\ tool'[p].kind = tool[p].kind
        /\ tool'[p].doc = tool[p].doc /\ tool'[p].found = tool[p].found
    BY <1>4, GoesGives DEF Flush, ToolStages
  <2> QED BY <1>4, <2>1 DEF Flush, HeldInv, HoldsSound
<1>5. CASE MigrateState(p)
  <2>1. CASE Ends(p, 2)
    BY <1>1, <2>1, EndsGives
  <2>2. CASE Migratable /\ Holds(p, "create", Mapped(quarantine, PairMaps), quarantine)
    <3>1. Translates(Mapped(quarantine, PairMaps), quarantine)
      BY <2>2, MappedTranslates
    <3>2. /\ tool'[p].at = "create" /\ tool'[p].doc = Mapped(quarantine, PairMaps)
          /\ tool'[p].found = quarantine
      BY <2>2, HoldsGives DEF ToolStages
    <3> QED BY <3>1, <3>2 DEF HoldsSound
  <2> QED BY <1>5, <2>1, <2>2 DEF MigrateState
<1>6. CASE CreateOutput(p)
  <2>1. CASE Ends(p, 2)
    BY <1>1, <2>1, EndsGives
  <2>2. CASE Goes(p, "fill")
    <3>1. /\ tool'[p].at = "fill" /\ tool[p].at = "create"
          /\ tool'[p].doc = tool[p].doc /\ tool'[p].found = tool[p].found
      BY <1>6, <2>2, GoesGives DEF CreateOutput, At, ToolStages
    <3> QED BY <3>1 DEF HeldInv, HoldsSound
  <2> QED BY <1>6, <2>1, <2>2 DEF CreateOutput
<1>7. CASE Begin(p) \/ Kill(p) \/ PlanPrune(p) \/ WriteAudit(p) \/ Replace(p) \/ FillOutput(p)
  BY <1>1, <1>7, EndsGives, BeginGives, PlanGives DEF Kill, WriteAudit, Replace, Replaces, FillOutput
<1>8. CASE MoveSnapshot(p) \/ CheckDestination(p)
  <2>1. (\E s : Moves(p, s)) \/ Ends(p, 2) \/ CheckDestination(p)
    BY <1>8 DEF MoveSnapshot
  <2> QED BY <1>1, <2>1, EndsGives, MovesGives, CheckGives
<1> QED BY <1>2, <1>3, <1>4, <1>5, <1>6, <1>7, <1>8 DEF ToolStep

LEMMA HeldStep ==
  ASSUME ToolsInv, [UpkeepNext]_upkeepVars
  PROVE  HeldInv'
<1>1. \A p \in Tools : HoldsSound(tool'[p])
  <2>1. CASE UNCHANGED tool
    BY <2>1 DEF ToolsInv, HeldInv
  <2>2. ASSUME NEW p \in Tools, ToolStep(p) PROVE \A q \in Tools : HoldsSound(tool'[q])
    <3>1. \A q \in Tools \ {p} : tool'[q] = tool[q]
      BY <2>2, StepOnly DEF Only, ToolsInv
    <3>2. \A q \in Tools \ {p} : HoldsSound(tool'[q])
      BY <3>1 DEF ToolsInv, HeldInv
    <3> QED BY <2>2, <3>2, StepHolds
  <2> QED BY <2>1, <2>2, SplitNext, WorldOnly
<1> QED BY <1>1, SchemeStays, SameMeaning DEF ToolsInv, HeldInv

LEMMA FilesStep ==
  ASSUME ToolsInv, [UpkeepNext]_upkeepVars
  PROVE  FilesInv'
<1> USE DEF ToolsInv
<1> DEFINE Good == /\ quarantine' # None => Sound(quarantine')
                   /\ baseline' # None => Earned(baseline')
                   /\ output'.whole => Translates(output'.doc, output'.source)
<1>1. ASSUME UNCHANGED <<quarantine, baseline, output>> PROVE Good
  BY <1>1 DEF FilesInv
<1>2. ASSUME Adopt PROVE Good
  <2>1. UNCHANGED baseline /\ output' = None
    BY <1>2 DEF Adopt
  <2>2. quarantine' = quarantine \/ (output.whole /\ quarantine' = output.doc)
    BY <1>2 DEF Adopt
  <2> QED BY <2>1, <2>2 DEF FilesInv, Translates, None
<1>3. ASSUME NEW p \in Tools, Replace(p) PROVE Good
  <2>1. HoldsSound(tool[p])
    BY DEF HeldInv
  <2>2. /\ quarantine' = IF tool[p].kind = "quarantine" THEN tool[p].doc ELSE quarantine
        /\ baseline' = IF tool[p].kind = "baseline" THEN tool[p].doc ELSE baseline
        /\ UNCHANGED output /\ tool[p].at = "flushed"
    BY <1>3 DEF Replace, Replaces, Update
  <2> QED BY <2>1, <2>2 DEF FilesInv, HoldsSound
<1>4. ASSUME NEW p \in Tools, CreateOutput(p) PROVE Good
  <2>1. UNCHANGED <<quarantine, baseline>> /\ (UNCHANGED output \/ output' = Torn)
    BY <1>4 DEF CreateOutput, Migrate
  <2> QED BY <2>1 DEF FilesInv, Torn
<1>5. ASSUME NEW p \in Tools, FillOutput(p) PROVE Good
  <2>1. Translates(tool[p].doc, tool[p].found)
    BY <1>5 DEF FillOutput, At, HeldInv, HoldsSound
  <2>2. UNCHANGED <<quarantine, baseline>>
        /\ output' = [whole |-> TRUE, doc |-> tool[p].doc, source |-> tool[p].found]
    BY <1>5 DEF FillOutput, Migrate
  <2>3. output'.doc = tool[p].doc /\ output'.source = tool[p].found
    BY <2>2
  <2> QED BY <2>1, <2>2, <2>3 DEF FilesInv
<1>6. ASSUME NEW p \in Tools, ToolStep(p)
      PROVE  Replace(p) \/ CreateOutput(p) \/ FillOutput(p) \/ UNCHANGED <<quarantine, baseline, output>>
  BY <1>6 DEF ToolStep, Begin, Kill, PlanPrune, CheckDestination, MoveSnapshot, WriteAudit, BuildManifest,
              BuildBaseline, Flush, MigrateState, Prune, Update, Migrate
<1>7. Adopt \/ (\E p \in Tools : ToolStep(p)) \/ UNCHANGED <<quarantine, baseline, output>>
  BY SplitNext DEF Tick, Edit, Upgrade, RunTests, upkeepVars
<1>8. Good
  BY <1>1, <1>2, <1>3, <1>4, <1>5, <1>6, <1>7
<1>9. Earned(baseline') => Earned(baseline)'
  BY DEF Earned, RequireComplete
<1> QED BY <1>8, <1>9, SchemeStays, SameMeaning DEF FilesInv, None

\* Every step keeps the invariant.
LEMMA ToolsStep == ToolsInv /\ [UpkeepNext]_upkeepVars => ToolsInv'
BY ShapesStep, ReportsStep, PrunersStep, AuditStep, HeldStep, FilesStep DEF ToolsInv

LEMMA ToolsAlways == UpkeepSpec => []ToolsInv
BY ToolsInit, ToolsStep, PTL DEF UpkeepSpec
-----------------------------------------------------------------------------
(* Theorems about the tools that change what a project keeps               *)

\* Every variable a step reads has the values its actions assume, and a tool's
\* memory keeps one shape from its beginning to its end.
THEOREM ToolsTypeCorrect == UpkeepSpec => []ToolsTypeOK
BY ToolsAlways, PTL DEF ToolsInv

\* Whatever pruners stop or overtake each other, the audit of a batch that one
\* pruner had for itself lists exactly what was moved there, and with which bytes:
\* between its check and its rename nobody else comes to its destination.
THEOREM AuditsRestore == UpkeepSpec => []AuditRestores
BY ToolsAlways, PTL DEF ToolsInv

\* Whoever is killed, and whatever two tools do to one file, quarantine and
\* baseline are whole, and the report a baseline was made of covers all files and
\* has no blocking row and no failed snapshot or benchmark gate.
THEOREM DocumentsEarned == UpkeepSpec => []DocumentsAreEarned
<1>1. ToolsInv => DocumentsAreEarned
  BY DEF ToolsInv, FilesInv, Sound, Earned, RequireComplete, DocumentsAreEarned
<1> QED BY <1>1, ToolsAlways, PTL

\* A manifest holds ids of its own generation only, and the output of
\* migrate_identity_state.py quarantines exactly the tests its source does:
\* pair_maps needs both directions for it.
THEOREM IdsKeepTheirMeaning == UpkeepSpec => []IdsMeanTests
<1>1. ASSUME ToolsInv PROVE IdsMeanTests
  <2>1. DOMAIN Entries(quarantine) # {} =>
          DOMAIN Entries(quarantine) \subseteq IdsOf(quarantine.generation)
    <3>1. CASE quarantine = None
      <4>1. Entries(quarantine) = << >>
        BY <3>1 DEF Entries, None
      <4> QED BY <4>1
    <3>2. CASE Sound(quarantine)
      BY <3>2 DEF Sound, Entries
    <3> QED BY <1>1, <3>1, <3>2 DEF ToolsInv, FilesInv
  <2>2. ASSUME output.whole
        PROVE  Quarantined(output.doc) \intersect output.doc.over
                 = Quarantined(output.source) \intersect output.doc.over
    BY <1>1, <2>2 DEF ToolsInv, FilesInv, Translates
  <2> QED BY <2>1, <2>2 DEF IdsMeanTests
<1> QED BY <1>1, ToolsAlways, PTL

\* No step of a tool destroys the bytes of a snapshot, unless a second pruner has
\* the same batch: only then does anything come to a destination between the check
\* and the rename.
THEOREM PruningLosesNothing == UpkeepSpec => NothingLost
<1>1. ASSUME ToolsInv, [UpkeepNext]_upkeepVars, runs' = runs, NEW b \in Bytes \ Bytes'
      PROVE  \E x \in trash : b = <<x.of, x.bytes>> /\ Crowded(x.stamp)
  <2>1. ASSUME NEW p \in Tools, At(p, "prune", "place"), Moves(p, tool[p].moving)
        PROVE  \E x \in trash : b = <<x.of, x.bytes>> /\ Crowded(x.stamp)
    <3> DEFINE m == tool[p].moving
    <3>1. CASE \E s \in Stored(saved) : b = <<s, saved[s]>>
      <4>1. PICK s \in Stored(saved) : b = <<s, saved[s]>>
        BY <3>1
      <4>2. saved' = [saved EXCEPT ![m] = 0] /\ Entry(p, m) \in trash'
        BY <2>1, MoveAdds
      <4>3. s \in Snapshots /\ saved \in [Snapshots -> Nat] /\ saved[s] # 0
        BY <1>1 DEF Stored, ToolsInv, ToolsTypeOK
      <4>4. CASE s = m
        <5>1. Entry(p, m).of = s /\ Entry(p, m).bytes = saved[s]
          BY <4>4 DEF Entry
        <5>2. b \in Bytes'
          BY <4>1, <4>2, <5>1 DEF Bytes
        <5> QED BY <1>1, <5>2
      <4>5. CASE s # m
        <5>1. s \in Stored(saved') /\ saved'[s] = saved[s]
          BY <4>2, <4>3, <4>5 DEF Stored
        <5>2. b \in Bytes'
          BY <4>1, <5>1 DEF Bytes, Stored
        <5> QED BY <1>1, <5>2
      <4> QED BY <4>4, <4>5
    <3>2. CASE \E x \in trash : b = <<x.of, x.bytes>>
      <4>1. PICK x \in trash : b = <<x.of, x.bytes>>
        BY <3>2
      <4>2. x \notin trash'
        BY <1>1, <4>1 DEF Bytes
      <4>3. x.stamp = tool[p].stamp /\ Taken(p, m)
        BY <2>1, <4>2, MoveAdds
      <4>4. Crowded(tool[p].stamp)
        BY <1>1, <2>1, <4>3 DEF ToolsInv, PrunersInv, PrunerInv, Alone, At
      <4> QED BY <4>1, <4>3, <4>4
    <3> QED BY <1>1, <3>1, <3>2 DEF Bytes
  <2>2. CASE UNCHANGED <<saved, trash>>
    BY <1>1, <2>2 DEF Bytes, Stored
  <2>3. \/ UNCHANGED <<saved, trash>>
        \/ \E p \in Tools : At(p, "prune", "place") /\ Moves(p, tool[p].moving)
    <3>1. ~RunTests
      BY <1>1 DEF RunTests, ToolsInv, ToolsTypeOK
    <3> QED BY <1>1, <3>1, SplitNext, StepOnly DEF PrunerStep, ToolsInv, Tick, Edit, Upgrade, Adopt,
               upkeepVars, bin
  <2> QED BY <2>1, <2>2, <2>3
<1>2. ASSUME ToolsInv, [UpkeepNext]_upkeepVars
      PROVE  runs' = runs =>
               \A b \in Bytes \ Bytes' : \E x \in trash : b = <<x.of, x.bytes>> /\ Crowded(x.stamp)
  BY <1>1, <1>2
<1> QED BY <1>2, ToolsAlways, PTL DEF UpkeepSpec, NothingLost

\* A change of the quarantine keeps the entries that were there, with their
\* dates, unless what is written was made from an older state of the file.
THEOREM QuarantineAccumulates == UpkeepSpec => UpdatesAccumulate
<1> DEFINE Late == \/ \E p \in Tools : /\ tool[p].at = "flushed" /\ tool[p].doc = quarantine'
                                        /\ tool[p].found # quarantine
                   \/ output.whole /\ output.doc = quarantine' /\ output.source # quarantine
           Keeps == \A n \in Quarantined(quarantine) \intersect quarantine'.over :
                      /\ n \in Quarantined(quarantine')
                      /\ quarantine'.entries[Id(quarantine'.generation, n)]
                           = quarantine.entries[Id(quarantine.generation, n)]
<1>1. ASSUME NEW doc, Sound(doc), Continues(doc, quarantine), quarantine' = doc PROVE Keeps
  <2>1. CASE quarantine = None
    BY <2>1 DEF Quarantined, None
  <2>2. CASE Sound(quarantine) /\ quarantine.generation = doc.generation
    <3>1. Entries(quarantine) = quarantine.entries
      BY <2>2 DEF Sound, Entries
    <3> QED BY <1>1, <2>2, <3>1 DEF Continues, Quarantined, Sound
  <2> QED BY <1>1, <2>1, <2>2 DEF Continues
<1>2. ASSUME NEW doc, Translates(doc, quarantine), quarantine' = doc PROVE Keeps
  BY <1>2 DEF Translates
<1>3. ASSUME ToolsInv, [UpkeepNext]_upkeepVars, quarantine' # quarantine PROVE Keeps \/ Late
  <2>1. ASSUME NEW p \in Tools, Replace(p), tool[p].found = quarantine PROVE Keeps
    <3>1. tool[p].kind = "quarantine" /\ quarantine' = tool[p].doc /\ tool[p].at = "flushed"
      BY <1>3, <2>1 DEF Replace, Replaces
    <3>2. Sound(tool[p].doc) /\ Continues(tool[p].doc, quarantine)
      BY <1>3, <2>1, <3>1 DEF ToolsInv, HeldInv, HoldsSound
    <3> QED BY <1>1, <3>1, <3>2
  <2>2. CASE Adopt
    <3>1. output.whole /\ quarantine' = output.doc
      BY <1>3, <2>2 DEF Adopt
    <3>2. Translates(output.doc, output.source)
      BY <1>3, <3>1 DEF ToolsInv, FilesInv
    <3> QED BY <1>2, <3>1, <3>2
  <2>3. Adopt \/ \E p \in Tools : Replace(p)
    BY <1>3, SplitNext DEF Tick, Edit, Upgrade, RunTests, upkeepVars, ToolStep, Begin, Kill, PlanPrune,
       CheckDestination, MoveSnapshot, WriteAudit, BuildManifest, BuildBaseline, Flush, MigrateState,
       CreateOutput, FillOutput, Prune, Update, Migrate
  <2>4. ASSUME NEW p \in Tools, Replace(p), tool[p].found # quarantine PROVE Late
    BY <1>3, <2>4 DEF Replace, Replaces
  <2> QED BY <2>1, <2>2, <2>3, <2>4
<1> QED BY <1>3, ToolsAlways, PTL DEF UpkeepSpec, UpdatesAccumulate
=============================================================================
