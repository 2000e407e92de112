---------------------------- MODULE Isolate_proof ----------------------------
(***************************************************************************)
(* An isolated run earns its green exit status, reruns no verdict and      *)
(* keeps the promise of IsolatedVerdict, for any number of files, workers  *)
(* and tries.  IInv follows a child's artefacts from its end to the rows:  *)
(* a directory holds nothing but what the last child of its file left, so  *)
(* rows that look green were left by a child that ended well.              *)
(***************************************************************************)
EXTENDS Isolate, TLAPS

\* The exit status is not decided.
Undecided == InGroup \union {"discover", "setup", "wait", "merge"}

\* Where the parent is in its loops.
LoopInv ==
  /\ pc \in InGroup => cur <= GroupEnd
  /\ pc \in {"setup", "wait"} => accounted < total
  /\ pc \in {"interpret", "clean", "again"} => attempt = 0
  /\ pc = "serial" => attempt < MaxTries
  /\ pc \in {"serial", "serialWait"} => scratch[cur]
  /\ pc = "discover" => accounted = 0 /\ extra = {}
  /\ pc = "merge" => accounted = total \/ "unavailable" \in extra

\* What is known of the run before its rows are merged.
UndecidedInv ==
  pc \in Undecided =>
    /\ status = NoStatus /\ extra \subseteq {"load", "unavailable"}
    /\ total = 0 => "unavailable" \notin extra
    /\ emptyShard => total = 0

\* A child runs only while it is waited for, in an empty directory.
RunningInv ==
  \A f \in Files : child[f] = "running" =>
    /\ art[f] = Nothing /\ scratch[f]
    /\ (pc = "wait" /\ f \in Group) \/ (pc = "serialWait" /\ f = cur)

\* Only files of the group that are still to be read have artefacts, and these
\* are what their last child left.
LeftByChild(f) ==
  art[f] \in Endings /\ child[f] = "ended" /\ good[f] = EndedWell(f, art[f])

ArtInv ==
  \A f \in Files : art[f] # Nothing =>
    /\ LeftByChild(f) /\ f \in Group /\ scratch[f]
    /\ pc = "wait" \/ (pc \in InGroup /\ f >= cur)
    /\ pc = "again" => f > cur

\* The rows of the file are those of its last child.
Settled(f) ==
  \/ f <= accounted
  \/ pc \in InGroup /\ f < cur
  \/ pc \in {"clean", "again", "serialClean"} /\ f = cur

RowsInv ==
  \A f \in Files :
    /\ verdict[f] # {} => f <= accounted \/ (pc \in InGroup /\ f <= cur)
    /\ Settled(f) /\ verdict[f] \ {"strict"} \subseteq Harmless(f) => good[f]

RetryInv ==
  /\ quoted => pc \in {"clean", "again"}
  /\ quoted \/ pc = "serial" => ~Judged(verdict[cur])

\* No child of a later group has been started.
StartedInv ==
  \A f \in Files : child[f] # "idle" =>
    f <= accounted \/ (f <= GroupEnd /\ pc \in InGroup \union {"wait"})

GreenInv == pc \in {"plugins", "gates", "done"} /\ status = Pass => Green

IInv ==
  /\ TypeOK /\ LoopInv /\ UndecidedInv /\ RunningInv /\ ArtInv /\ RowsInv /\ RetryInv
  /\ StartedInv /\ GreenInv
-----------------------------------------------------------------------------
LEMMA Sizes ==
  ASSUME TypeOK
  PROVE  /\ conf.workers \in Nat \ {0} /\ NumFiles \in Nat /\ total <= NumFiles
         /\ accounted \in Nat /\ total \in Nat /\ GroupEnd \in Nat /\ cur \in Nat
         /\ attempt \in Nat /\ MaxTries \in Nat \ {0}
         /\ accounted <= GroupEnd /\ GroupEnd <= total
         /\ accounted < total => accounted < GroupEnd
BY IsolateAssumption DEF TypeOK, GroupEnd

LEMMA NothingTyped == Nothing \in Artefacts
BY DEF Nothing, Artefacts, Unrecorded

\* The two ways to end: the child completes, or something comes between.
LEMMA EndingsSplit ==
  ASSUME NEW o \in Endings
  PROVE  /\ o \in Artefacts
         /\ o.report = "none" => o.rows = {}
         /\ o.report = "valid" /\ o.code \in {Pass, Fail} => <<o.rows, o.code>> \in Completed
<1>1. \A c \in Completed : /\ c = <<c[1], c[2]>> /\ c[1] \in SUBSET ChildRows
                           /\ c[2] \in {Pass, Fail, LoadError}
  BY DEF Completed, ChildRows
<1>2. Rows \subseteq SUBSET ChildRows
  BY <1>1 DEF Rows
<1>3. CASE \E c \in Completed :
             o \in [report : {"valid"}, rows : {c[1]}, code : {c[2]}, late : {FALSE},
                    quotes : BOOLEAN]
  <2>1. PICK c \in Completed :
          o \in [report : {"valid"}, rows : {c[1]}, code : {c[2]}, late : {FALSE},
                 quotes : BOOLEAN]
    BY <1>3
  <2> QED BY <1>1, <2>1 DEF Artefacts
<1>4. CASE o \in [report : {"valid"}, rows : Rows, code : {Killed, Other, Unrecorded},
                  late : BOOLEAN, quotes : BOOLEAN]
  BY <1>2, <1>4 DEF Artefacts, Pass, Fail, Killed, Other, Unrecorded
<1>5. CASE o \in [report : {"none", "malformed"}, rows : {{}},
                  code : {Killed, Other, Unrecorded}, late : BOOLEAN, quotes : BOOLEAN]
  BY <1>5 DEF Artefacts
<1>6. CASE o \in [report : {"none", "malformed"}, rows : {{}},
                  code : {Pass, Fail, LoadError}, late : {FALSE}, quotes : BOOLEAN]
  BY <1>6 DEF Artefacts
<1> QED BY <1>3, <1>4, <1>5, <1>6 DEF Endings

\* In an empty directory a child's artefacts are its own.
LEMMA LeftByItself ==
  ASSUME NEW o \in Endings
  PROVE  LeftBehind(Nothing, o) = o
<1>1. o \in Artefacts /\ (o.report = "none" => o.rows = {})
  BY EndingsSplit
<1>3. o = [report |-> o.report, rows |-> o.rows, code |-> o.code, late |-> o.late,
           quotes |-> o.quotes]
  BY <1>1 DEF Artefacts
<1> QED BY <1>1, <1>3 DEF LeftBehind, Nothing

LEMMA ClassifiedTyped ==
  ASSUME NEW a \in Artefacts
  PROVE  Classified(a) \subseteq RowKinds
BY DEF Artefacts, Classified, RowKinds, ChildRows, ErrorRows

\* Rows that look green come from a child that ended well.
LEMMA ClassifiedGreen ==
  ASSUME NEW f \in Files, NEW o \in Endings,
         Classified(o) \ {"strict"} \subseteq Harmless(f)
  PROVE  EndedWell(f, o)
<1>1. ~o.late /\ o.code # LoadError /\ o.report = "valid"
  BY DEF Classified, Harmless
<1>2. o.code = Pass \/ o.code = Fail
  BY <1>1 DEF Classified, Harmless
<1>3. <<o.rows, o.code>> \in Completed
  BY <1>1, <1>2, EndingsSplit
<1>4. o.rows \ {"strict"} \subseteq Harmless(f)
  BY <1>1 DEF Classified
<1> QED BY <1>1, <1>3, <1>4 DEF EndedWell

LEMMA ClassifiedNothing ==
  ASSUME NEW f \in Files
  PROVE  ~(Classified(Nothing) \ {"strict"} \subseteq Harmless(f))
BY DEF Classified, Nothing, Harmless, Unrecorded, LoadError, Killed

\* What is tried again holds no verdict of a test.
LEMMA RetriedUnjudged ==
  ASSUME NEW a \in Artefacts, Retryable(a)
  PROVE  ~Judged(Classified(a))
BY DEF Retryable, Classified, Judged, ErrorRows, Artefacts, Pass, Fail, LoadError, Killed,
       Other, Unrecorded

-----------------------------------------------------------------------------
\* The step from one file to the next.
LEMMA NextFileFacts ==
  ASSUME TypeOK, LoopInv, pc \in InGroup, NextFile, UNCHANGED <<conf, total>>
  PROVE  /\ attempt' = 0 /\ pc' \in {"interpret", "merge", "setup"}
         /\ pc' = "interpret" => cur' = cur + 1 /\ cur' <= GroupEnd /\ accounted' = accounted
         /\ pc' # "interpret" => cur' = 0 /\ cur = GroupEnd /\ accounted' = cur
         /\ pc' = "setup" => accounted' < total
         /\ pc' = "merge" => accounted' = total
BY Sizes DEF NextFile, LoopInv

LEMMA CleanedTyped ==
  ASSUME TypeOK, Cleaned
  PROVE  /\ verdict' \in [Files -> SUBSET RowKinds] /\ scratch' \in [Files -> BOOLEAN]
         /\ art' \in [Files -> Artefacts]
<1>1. PICK left \in SUBSET {"cleanup"} :
        verdict' = [verdict EXCEPT ![cur] = @ \union left]
  BY DEF Cleaned
<1>2. left \subseteq RowKinds
  BY DEF RowKinds, ErrorRows
<1>3. verdict' \in [Files -> SUBSET RowKinds]
  BY <1>1, <1>2 DEF TypeOK
<1> QED BY <1>3, NothingTyped DEF Cleaned, TypeOK

LEMMA TypeStep ==
  ASSUME IInv, [Next]_vars
  PROVE  TypeOK'
<1> USE DEF IInv
<1>1. CASE Discover
  BY <1>1 DEF Discover, TypeOK, Stages, InGroup, RunRows, files
<1>2. CASE SetUpGroup
  <2>1. PICK made \in SUBSET Group : \E prepared \in SUBSET made :
          /\ scratch' = [f \in Files |-> f \in made]
          /\ child' = [f \in Files |-> IF f \in prepared THEN "running" ELSE child[f]]
    BY <1>2, Zenon DEF SetUpGroup
  <2>2. scratch' \in [Files -> BOOLEAN]
    BY <2>1
  <2>3. child' \in [Files -> {"idle", "running", "ended"}]
    BY <2>1 DEF TypeOK
  <2> QED BY <1>2, <2>2, <2>3 DEF SetUpGroup, TypeOK, Stages, InGroup, tail
<1>3. CASE GroupEnded
  <2>1. cur' \in Files /\ cur' \in 0 .. total /\ cur' > accounted
    BY <1>3, Sizes DEF GroupEnded, LoopInv, Files
  <2> QED BY <1>3, <2>1, IsolateAssumption DEF GroupEnded, TypeOK, Stages, InGroup, files, tail
<1>4. CASE InterpretFile
  <2>1. Classified(art[cur]) \subseteq RowKinds
    BY <1>4, ClassifiedTyped DEF InterpretFile, TypeOK, InGroup
  <2>2. {"helper"} \subseteq RowKinds /\ {"setup"} \subseteq RowKinds
    BY DEF RowKinds, ErrorRows
  <2>3. Retryable(art[cur]) \in BOOLEAN
    BY <1>4 DEF InterpretFile, TypeOK, InGroup, Retryable, Artefacts
  <2> QED BY <1>4, <2>1, <2>2, <2>3 DEF InterpretFile, TypeOK, Stages, InGroup, files, tail
<1>5. CASE CleanFile
  BY <1>5, CleanedTyped DEF CleanFile, TypeOK, Stages, InGroup, tail
<1>6. CASE Proceed
  <2>1. pc \in InGroup
    BY <1>6 DEF Proceed, InGroup
  <2> QED BY <1>6, <2>1, NextFileFacts, Sizes
          DEF Proceed, TypeOK, Stages, InGroup, Files, files, tail
<1>7. CASE RunAgain
  <2>1. pc \in InGroup /\ {"setup"} \subseteq RowKinds
    BY <1>7 DEF RunAgain, InGroup, RowKinds, ErrorRows
  <2>2. CASE pc' = "serial"
    BY <1>7, <2>1, <2>2, NextFileFacts DEF RunAgain, TypeOK, Stages, InGroup, tail
  <2>3. CASE pc' # "serial"
    <3>1. NextFile /\ verdict' = [verdict EXCEPT ![cur] = {"setup"}] /\ scratch' = scratch
      BY <1>7, <2>3 DEF RunAgain
    <3>2. verdict' \in [Files -> SUBSET RowKinds]
      BY <2>1, <3>1 DEF TypeOK
    <3>3. UNCHANGED <<conf, total, child, art, good, tail>> /\ quoted' = FALSE
      BY <1>7 DEF RunAgain
    <3>4. /\ attempt' \in 0 .. MaxTries /\ pc' \in Stages
          /\ accounted' \in 0 .. total /\ cur' \in 0 .. total
          /\ pc' \in InGroup => cur' \in Files /\ cur' > accounted'
      BY <2>1, <3>1, <3>3, NextFileFacts, Sizes DEF TypeOK, InGroup, Files, Stages
    <3> QED BY <3>1, <3>2, <3>3, <3>4 DEF TypeOK, tail
  <2> QED BY <2>2, <2>3
<1>8. CASE SerialTry
  <2>1. attempt' \in 0 .. MaxTries
    BY <1>8, Sizes DEF SerialTry, Counted, LoopInv
  <2>2. {"helper"} \subseteq RowKinds
    BY DEF RowKinds, ErrorRows
  <2> QED BY <1>8, <2>1, <2>2, NothingTyped
          DEF SerialTry, ResetScratch, TypeOK, Stages, InGroup, tail
<1>9. CASE SerialInterpret
  <2>1. Classified(art[cur]) \subseteq RowKinds
    BY <1>9, ClassifiedTyped DEF SerialInterpret, TypeOK, InGroup
  <2>2. {"helper"} \subseteq RowKinds
    BY DEF RowKinds, ErrorRows
  <2> QED BY <1>9, <2>1, <2>2 DEF SerialInterpret, TypeOK, Stages, InGroup, files, tail
<1>10. CASE SerialClean
  <2>1. pc \in InGroup
    BY <1>10 DEF SerialClean, InGroup
  <2> QED BY <1>10, <2>1, CleanedTyped, NextFileFacts, Sizes
          DEF SerialClean, TypeOK, Stages, InGroup, Files, tail
<1>11. CASE Merge
  <2>1. status' \in Statuses
    BY <1>11 DEF Merge, ExitCode, Statuses
  <2>2. verdict' \in [Files -> SUBSET RowKinds]
    BY <1>11 DEF Merge, TypeOK
  <2>3. emptyShard' \in BOOLEAN /\ extra' \subseteq RunRows
    BY <1>11 DEF Merge, TypeOK, RunRows
  <2> QED BY <1>11, <2>1, <2>2, <2>3 DEF Merge, TypeOK, Stages, InGroup, files
<1>12. CASE RunPlugins
  BY <1>12 DEF RunPlugins, TurnRed, TypeOK, Stages, InGroup, RunRows, Statuses, files
<1>13. CASE Gates
  BY <1>13 DEF Gates, TurnRed, TypeOK, Stages, InGroup, RunRows, Statuses, files
<1>14. ASSUME NEW f \in Files, ChildEnds(f) PROVE TypeOK'
  <2>1. PICK o \in Endings : art' = [art EXCEPT ![f] = LeftBehind(@, o)]
                             /\ good' = [good EXCEPT ![f] = EndedWell(f, o)]
    BY <1>14 DEF ChildEnds
  <2>2. art[f] = Nothing
    BY <1>14 DEF ChildEnds, RunningInv
  <2>3. LeftBehind(art[f], o) \in Artefacts
    BY <2>2, EndingsSplit, LeftByItself
  <2>4. EndedWell(f, o) \in BOOLEAN
    BY DEF EndedWell
  <2> QED BY <1>14, <2>1, <2>3, <2>4 DEF ChildEnds, TypeOK, tail
<1>15. CASE Abort
  BY <1>15 DEF Abort, TypeOK, Stages, InGroup, files, tail
<1>16. CASE UNCHANGED vars
  BY <1>16 DEF TypeOK, vars, files, tail
<1> QED BY <1>1, <1>2, <1>3, <1>4, <1>5, <1>6, <1>7, <1>8, <1>9, <1>10, <1>11, <1>12, <1>13,
           <1>14, <1>15, <1>16 DEF Next, Parent, Over

-----------------------------------------------------------------------------
LEMMA LoopStep ==
  ASSUME IInv, [Next]_vars
  PROVE  LoopInv'
<1> USE Sizes DEF IInv
<1>1. CASE Discover
  <2>1. PICK missing \in SUBSET {"load"}, lacking \in SUBSET {"unavailable"} :
          /\ extra' = missing \union lacking
          /\ pc' = IF total = 0 \/ lacking # {} THEN "merge" ELSE "setup"
    BY <1>1, Zenon DEF Discover
  <2>2. accounted' = accounted /\ total' = total /\ accounted = 0
    BY <1>1 DEF Discover, LoopInv
  <2>3. lacking # {} => "unavailable" \in extra'
    BY <2>1
  <2> QED BY <2>1, <2>2, <2>3 DEF LoopInv, InGroup
<1>2. CASE SetUpGroup
  BY <1>2 DEF SetUpGroup, LoopInv, InGroup, tail
<1>3. CASE GroupEnded
  BY <1>3 DEF GroupEnded, LoopInv, GroupEnd, InGroup, tail
<1>4. CASE InterpretFile
  BY <1>4 DEF InterpretFile, LoopInv, GroupEnd, InGroup, tail
<1>5. CASE CleanFile
  BY <1>5 DEF CleanFile, LoopInv, GroupEnd, InGroup, tail
<1>6. CASE Proceed
  <2>1. pc \in InGroup /\ NextFile /\ UNCHANGED <<conf, total, tail>>
    BY <1>6 DEF Proceed, InGroup
  <2> QED BY <2>1, NextFileFacts DEF LoopInv, GroupEnd, InGroup, tail
<1>7. CASE RunAgain
  <2>1. pc \in InGroup /\ UNCHANGED <<conf, total, tail>>
    BY <1>7 DEF RunAgain, InGroup
  <2>2. CASE pc' = "serial" /\ UNCHANGED <<accounted, cur, attempt>>
    <3>1. pc' = "serial" /\ scratch' = [scratch EXCEPT ![cur] = TRUE] /\ cur \in Files
      BY <1>7, <2>1, <2>2 DEF RunAgain, NextFile, TypeOK
    <3> QED BY <1>7, <2>1, <2>2, <3>1 DEF RunAgain, LoopInv, GroupEnd, InGroup, TypeOK, tail
  <2>3. CASE NextFile
    BY <2>1, <2>3, NextFileFacts DEF LoopInv, GroupEnd, InGroup, tail
  <2> QED BY <1>7, <2>2, <2>3 DEF RunAgain
<1>8. CASE SerialTry
  BY <1>8 DEF SerialTry, LoopInv, GroupEnd, InGroup, tail
<1>9. CASE SerialInterpret
  BY <1>9 DEF SerialInterpret, LoopInv, GroupEnd, InGroup, files, tail
<1>10. CASE SerialClean
  <2>1. pc \in InGroup /\ NextFile /\ UNCHANGED <<conf, total, tail>>
    BY <1>10 DEF SerialClean, InGroup
  <2> QED BY <2>1, NextFileFacts DEF LoopInv, GroupEnd, InGroup, tail
<1>11. CASE Merge
  BY <1>11 DEF Merge, LoopInv, InGroup
<1>12. CASE RunPlugins
  BY <1>12 DEF RunPlugins, LoopInv, InGroup
<1>13. CASE Gates
  BY <1>13 DEF Gates, LoopInv, InGroup
<1>14. CASE \E f \in Files : ChildEnds(f)
  BY <1>14 DEF ChildEnds, LoopInv, GroupEnd, InGroup, tail
<1>15. CASE Abort
  BY <1>15 DEF Abort, LoopInv, InGroup
<1>16. CASE UNCHANGED vars
  BY <1>16 DEF LoopInv, GroupEnd, InGroup, vars, files, tail
<1> QED BY <1>1, <1>2, <1>3, <1>4, <1>5, <1>6, <1>7, <1>8, <1>9, <1>10, <1>11, <1>12, <1>13,
           <1>14, <1>15, <1>16 DEF Next, Parent, Over

LEMMA UndecidedStep ==
  ASSUME IInv, [Next]_vars
  PROVE  UndecidedInv'
<1> USE DEF IInv
<1>1. CASE Discover
  BY <1>1 DEF Discover, LoopInv, UndecidedInv, Undecided
<1>2. CASE pc \in Undecided /\ pc' \in Undecided /\ UNCHANGED <<total, tail>>
  BY <1>2 DEF UndecidedInv, tail
<1>3. CASE pc' \notin Undecided
  BY <1>3 DEF UndecidedInv
<1>4. CASE pc' = pc /\ UNCHANGED <<total, tail>>
  BY <1>4 DEF UndecidedInv, tail
<1>5. ASSUME Proceed \/ RunAgain \/ SerialClean
      PROVE  pc \in Undecided /\ pc' \in Undecided /\ UNCHANGED <<total, tail>>
  <2>1. pc \in InGroup /\ UNCHANGED <<conf, total, tail>> /\ (NextFile \/ pc' = "serial")
    BY <1>5 DEF Proceed, RunAgain, SerialClean, InGroup
  <2> QED BY <2>1, NextFileFacts DEF Undecided, InGroup
<1>6. ASSUME SetUpGroup \/ GroupEnded \/ InterpretFile \/ CleanFile \/ SerialTry \/ SerialInterpret
      PROVE  pc \in Undecided /\ pc' \in Undecided /\ UNCHANGED <<total, tail>>
  BY <1>6 DEF SetUpGroup, GroupEnded, InterpretFile, CleanFile, SerialTry, SerialInterpret,
              Undecided, InGroup
<1>7. ASSUME Merge \/ RunPlugins \/ Gates \/ Abort
      PROVE  pc' \notin Undecided
  BY <1>7 DEF Merge, RunPlugins, Gates, Abort, Undecided, InGroup
<1>8. ASSUME (\E f \in Files : ChildEnds(f)) \/ UNCHANGED vars
      PROVE  pc' = pc /\ UNCHANGED <<total, tail>>
  BY <1>8 DEF ChildEnds, vars
<1> QED BY <1>1, <1>2, <1>3, <1>4, <1>5, <1>6, <1>7, <1>8 DEF Next, Parent, Over

\* Children and artefacts change only when a child is started or ends, when its
\* directory is cleaned, or when it is prepared for another try.
Directories == <<child, art, good, scratch>>

LEMMA RunningStep ==
  ASSUME IInv, [Next]_vars
  PROVE  RunningInv'
<1> USE Sizes DEF IInv
<1>1. CASE pc \notin {"wait", "serialWait"} /\ child' = child
  BY <1>1 DEF RunningInv
<1>2. CASE SetUpGroup
  <2>1. PICK made \in SUBSET Group : \E prepared \in SUBSET made :
          /\ scratch' = [f \in Files |-> f \in made]
          /\ child' = [f \in Files |-> IF f \in prepared THEN "running" ELSE child[f]]
    BY <1>2, Zenon DEF SetUpGroup
  <2>2. art' = art /\ Group' = Group /\ pc = "setup" /\ pc' = "wait"
    BY <1>2 DEF SetUpGroup, Group, GroupEnd
  <2>3. \A f \in Files : art[f] = Nothing /\ child[f] # "running"
    BY <2>2 DEF ArtInv, RunningInv, InGroup
  <2> QED BY <2>1, <2>2, <2>3 DEF RunningInv
<1>3. CASE GroupEnded
  <2>1. child' = child /\ (\A f \in Group : child[f] # "running") /\ pc = "wait"
    BY <1>3 DEF GroupEnded, files
  <2> QED BY <2>1 DEF RunningInv
<1>4. CASE SerialTry
  <2>1. cur \in Files /\ pc = "serial" /\ cur' = cur /\ scratch' = scratch /\ scratch[cur]
    BY <1>4 DEF SerialTry, TypeOK, LoopInv, InGroup
  <2>2. \A f \in Files : child[f] # "running"
    BY <2>1 DEF RunningInv
  <2>3. \A f \in Files : child'[f] = "running" => f = cur /\ pc' = "serialWait"
    BY <1>4, <2>1, <2>2 DEF SerialTry, TypeOK
  <2>4. art'[cur] = Nothing
    BY <1>4, <2>1 DEF SerialTry, ResetScratch, TypeOK
  <2> QED BY <2>1, <2>3, <2>4 DEF RunningInv
<1>5. CASE SerialInterpret
  <2>1. child' = child /\ child[cur] = "ended" /\ pc = "serialWait"
    BY <1>5 DEF SerialInterpret, files
  <2> QED BY <2>1 DEF RunningInv
<1>6. ASSUME NEW g \in Files, ChildEnds(g) PROVE RunningInv'
  <2>1. /\ child' = [child EXCEPT ![g] = "ended"] /\ UNCHANGED <<pc, cur, scratch>>
        /\ Group' = Group /\ \A f \in Files \ {g} : art'[f] = art[f]
    BY <1>6 DEF ChildEnds, Group, GroupEnd, TypeOK
  <2> QED BY <2>1 DEF RunningInv, TypeOK
<1>7. CASE UNCHANGED vars
  <2>1. UNCHANGED <<pc, child, art, cur, scratch>> /\ Group' = Group
    BY <1>7 DEF vars, files, Group, GroupEnd
  <2> QED BY <2>1 DEF RunningInv
<1>8. ASSUME Discover \/ Merge \/ RunPlugins \/ Gates \/ Abort
      PROVE  pc \notin {"wait", "serialWait"} /\ child' = child
  BY <1>8 DEF Discover, Merge, RunPlugins, Gates, Abort, files
<1>9. ASSUME InterpretFile \/ CleanFile \/ Proceed \/ RunAgain \/ SerialClean
      PROVE  pc \notin {"wait", "serialWait"} /\ child' = child
  BY <1>9 DEF InterpretFile, CleanFile, Proceed, RunAgain, SerialClean, InGroup, files
<1> QED BY <1>1, <1>2, <1>3, <1>4, <1>5, <1>6, <1>7, <1>8, <1>9 DEF Next, Parent, Over

LEMMA StillLeft ==
  ASSUME NEW f \in Files, LeftByChild(f), conf' = conf,
         art'[f] = art[f], child'[f] = child[f], good'[f] = good[f]
  PROVE  LeftByChild(f)'
<1>1. Completed' = Completed /\ Harmless(f)' = Harmless(f)
  BY DEF Completed, Harmless
<1>2. Endings' = Endings
  BY <1>1 DEF Endings, Rows
<1>3. EndedWell(f, art[f])' = EndedWell(f, art[f])
  BY <1>1 DEF EndedWell
<1> QED BY <1>2, <1>3 DEF LeftByChild

LEMMA ArtStep ==
  ASSUME IInv, [Next]_vars
  PROVE  ArtInv'
<1> USE Sizes DEF IInv
<1>1. CASE Discover \/ SetUpGroup \/ Merge \/ RunPlugins \/ Gates \/ Abort
  <2>1. \A f \in Files : art[f] = Nothing
    BY <1>1 DEF Discover, SetUpGroup, Merge, RunPlugins, Gates, Abort, ArtInv, InGroup
  <2>2. art' = art
    BY <1>1 DEF Discover, SetUpGroup, Merge, RunPlugins, Gates, Abort, files
  <2> QED BY <2>1, <2>2 DEF ArtInv
<1>2. CASE GroupEnded
  <2>1. Directories' = Directories /\ Group' = Group /\ pc = "wait" /\ conf' = conf
    BY <1>2 DEF GroupEnded, Directories, files, Group, GroupEnd
  <2>2. pc' = "interpret" /\ cur' = accounted + 1
    BY <1>2 DEF GroupEnded
  <2>3. \A f \in Group : f >= cur'
    BY <2>2 DEF Group
  <2> QED BY <2>1, <2>2, <2>3, StillLeft DEF ArtInv, Directories, InGroup
<1>3. CASE InterpretFile
  <2>1. Directories' = Directories /\ Group' = Group /\ pc = "interpret" /\ conf' = conf
        /\ cur' = cur /\ pc' \in InGroup
    BY <1>3 DEF InterpretFile, Directories, files, Group, GroupEnd, InGroup
  <2>2. pc' = "again" => art[cur] = Nothing
    BY <1>3 DEF InterpretFile, ArtInv, TypeOK, InGroup
  <2> QED BY <2>1, <2>2, StillLeft DEF ArtInv, Directories, InGroup, TypeOK, Files
<1>4. CASE CleanFile
  <2>1. /\ pc = "clean" /\ cur \in Files /\ conf' = conf /\ cur' = cur /\ pc' = "again"
        /\ Group' = Group /\ child' = child /\ good' = good
        /\ art' = [art EXCEPT ![cur] = Nothing] /\ scratch' = [scratch EXCEPT ![cur] = FALSE]
    BY <1>4 DEF CleanFile, Cleaned, Group, GroupEnd, TypeOK, InGroup
  <2>2. \A f \in Files : art'[f] # Nothing => f # cur /\ art'[f] = art[f] /\ scratch'[f] = scratch[f]
    BY <2>1 DEF TypeOK
  <2> QED BY <2>1, <2>2, StillLeft DEF ArtInv, InGroup, TypeOK, Files
<1>5. CASE SerialClean
  <2>1. /\ pc = "serialClean" /\ cur \in Files /\ conf' = conf /\ NextFile /\ total' = total
        /\ child' = child /\ good' = good
        /\ art' = [art EXCEPT ![cur] = Nothing] /\ scratch' = [scratch EXCEPT ![cur] = FALSE]
    BY <1>5 DEF SerialClean, Cleaned, TypeOK, InGroup
  <2>2. \A f \in Files : art'[f] # Nothing =>
          /\ art'[f] = art[f] /\ scratch'[f] = scratch[f] /\ f \in Group /\ f > cur
    <3> SUFFICES ASSUME NEW f \in Files, art'[f] # Nothing
                 PROVE  /\ art'[f] = art[f] /\ scratch'[f] = scratch[f]
                        /\ f \in Group /\ f > cur
      OBVIOUS
    <3>1. f # cur /\ art'[f] = art[f] /\ scratch'[f] = scratch[f]
      BY <2>1 DEF TypeOK
    <3>2. f \in Group /\ f >= cur
      BY <2>1, <3>1 DEF ArtInv, InGroup
    <3> QED BY <3>1, <3>2 DEF Files
  <2>3. CASE pc' = "interpret"
    <3>1. cur' = cur + 1 /\ Group' = Group
      BY <2>1, <2>3, NextFileFacts DEF Group, GroupEnd, InGroup
    <3>2. \A f \in Files : art'[f] # Nothing => f >= cur'
      <4>1. cur \in Nat /\ Files \subseteq Nat
        BY DEF Files
      <4> QED BY <2>2, <3>1, <4>1
    <3>3. \A f \in Files : art'[f] # Nothing => LeftByChild(f)'
      BY <2>1, <2>2, StillLeft DEF ArtInv
    <3> QED BY <2>2, <2>3, <3>1, <3>2, <3>3 DEF ArtInv, InGroup
  <2>4. CASE pc' # "interpret"
    <3>1. cur = GroupEnd
      BY <2>1, <2>4, NextFileFacts DEF InGroup
    <3> QED BY <2>2, <3>1 DEF ArtInv, Group
  <2> QED BY <2>3, <2>4
<1>6. CASE Proceed \/ (RunAgain /\ NextFile)
  <2>1. /\ pc = "again" /\ cur \in Files /\ conf' = conf /\ NextFile /\ total' = total
        /\ Directories' = Directories
    BY <1>6 DEF Proceed, RunAgain, NextFile, TypeOK, InGroup, files, Directories
  <2>2. \A f \in Files : art'[f] # Nothing => /\ art'[f] = art[f] /\ scratch'[f] = scratch[f]
                                              /\ f \in Group /\ f > cur
    BY <2>1 DEF ArtInv, TypeOK, Files, InGroup, Directories
  <2>3. CASE pc' = "interpret"
    <3>1. cur' = cur + 1 /\ Group' = Group
      BY <2>1, <2>3, NextFileFacts DEF Group, GroupEnd, InGroup
    <3> QED BY <2>1, <2>2, <2>3, <3>1, StillLeft DEF ArtInv, InGroup, Files, Directories
  <2>4. CASE pc' # "interpret"
    <3>1. cur = GroupEnd
      BY <2>1, <2>4, NextFileFacts DEF InGroup
    <3> QED BY <2>2, <3>1 DEF ArtInv, Group
  <2> QED BY <2>3, <2>4
<1>7. CASE RunAgain /\ ~NextFile
  <2>1. /\ pc = "again" /\ pc' = "serial" /\ conf' = conf /\ cur' = cur /\ Group' = Group
        /\ child' = child /\ art' = art /\ good' = good
        /\ scratch' = [scratch EXCEPT ![cur] = TRUE]
    BY <1>7 DEF RunAgain, Group, GroupEnd
  <2> QED BY <2>1, StillLeft DEF ArtInv, InGroup, TypeOK, Files
<1>8. CASE SerialTry
  <2>1. /\ pc = "serial" /\ pc' \in {"serialWait", "serialClean"} /\ conf' = conf /\ cur' = cur
        /\ Group' = Group /\ scratch' = scratch /\ art'[cur] = Nothing
        /\ \A f \in Files \ {cur} : art'[f] = art[f] /\ good'[f] = good[f] /\ child'[f] = child[f]
    BY <1>8 DEF SerialTry, ResetScratch, Group, GroupEnd, TypeOK, InGroup
  <2> QED BY <2>1, StillLeft DEF ArtInv, InGroup
<1>9. CASE SerialInterpret
  <2>1. Directories' = Directories /\ Group' = Group /\ pc = "serialWait" /\ conf' = conf
        /\ cur' = cur /\ pc' \in {"serial", "serialClean"}
    BY <1>9 DEF SerialInterpret, Directories, files, Group, GroupEnd
  <2> QED BY <2>1, StillLeft DEF ArtInv, Directories, InGroup
<1>10. ASSUME NEW g \in Files, ChildEnds(g) PROVE ArtInv'
  <2>1. PICK o \in Endings : art' = [art EXCEPT ![g] = LeftBehind(@, o)]
                             /\ good' = [good EXCEPT ![g] = EndedWell(g, o)]
    BY <1>10 DEF ChildEnds
  <2>2. art[g] = Nothing /\ scratch[g] /\ child[g] = "running"
        /\ ((pc = "wait" /\ g \in Group) \/ (pc = "serialWait" /\ g = cur))
    BY <1>10 DEF ChildEnds, RunningInv
  <2>3. UNCHANGED <<conf, pc, cur, scratch>> /\ Group' = Group
    BY <1>10 DEF ChildEnds, Group, GroupEnd
  <2>4. art'[g] = o /\ good'[g] = EndedWell(g, o) /\ child'[g] = "ended"
    BY <1>10, <2>1, <2>2, LeftByItself DEF ChildEnds, TypeOK
  <2>5. \A f \in Files \ {g} : art'[f] = art[f] /\ good'[f] = good[f] /\ child'[f] = child[f]
    BY <1>10, <2>1 DEF ChildEnds, TypeOK
  <2>6. Completed' = Completed /\ Harmless(g)' = Harmless(g)
    BY <2>3 DEF Completed, Harmless
  <2>7. LeftByChild(g)'
    BY <2>4, <2>6 DEF LeftByChild, EndedWell, Endings, Rows
  <2>8. g \in Group
    BY <2>2, <1>10 DEF LoopInv, Group, TypeOK, InGroup, Files
  <2> QED BY <2>2, <2>3, <2>5, <2>7, <2>8, StillLeft DEF ArtInv, InGroup, Files
<1>11. CASE UNCHANGED vars
  <2>1. UNCHANGED <<conf, pc, cur>> /\ Directories' = Directories /\ Group' = Group
    BY <1>11 DEF vars, files, Group, GroupEnd, Directories
  <2> QED BY <2>1, StillLeft DEF ArtInv, Directories
<1> QED BY <1>1, <1>2, <1>3, <1>4, <1>5, <1>6, <1>7, <1>8, <1>9, <1>10, <1>11
        DEF Next, Parent, Over

-----------------------------------------------------------------------------
\* Rows read from a directory that look green are those of a child that ended
\* well.
LEMMA ReadGreen ==
  ASSUME IInv, cur \in Files, Classified(art[cur]) \ {"strict"} \subseteq Harmless(cur)
  PROVE  good[cur]
<1>1. art[cur] # Nothing
  BY ClassifiedNothing
<1>2. art[cur] \in Endings /\ good[cur] = EndedWell(cur, art[cur])
  BY <1>1 DEF IInv, ArtInv, LeftByChild
<1>3. EndedWell(cur, art[cur])
  BY <1>2, ClassifiedGreen
<1> QED BY <1>2, <1>3

\* Rows of the parent's own are never harmless.
LEMMA OwnRowsRed ==
  ASSUME NEW f \in Files, NEW k \in ErrorRows
  PROVE  ~({k} \ {"strict"} \subseteq Harmless(f))
BY DEF ErrorRows, Harmless

LEMMA RowsStep ==
  ASSUME IInv, [Next]_vars
  PROVE  RowsInv'
<1> USE Sizes DEF IInv
<1>0. Files \subseteq Nat
  BY IsolateAssumption DEF Files
<1>1. CASE /\ pc \notin InGroup /\ pc' \notin InGroup
           /\ UNCHANGED <<conf, accounted, good>>
           /\ \A f \in Files : verdict'[f] \in {verdict[f], verdict[f] \ {"strict"}}
  <2> SUFFICES ASSUME NEW f \in Files
               PROVE  /\ verdict'[f] # {} => f <= accounted'
                      /\ f <= accounted' /\ verdict'[f] \ {"strict"} \subseteq Harmless(f)'
                           => good'[f]
    BY <1>1 DEF RowsInv, Settled, InGroup
  <2>1. Harmless(f)' = Harmless(f) /\ verdict'[f] \ {"strict"} = verdict[f] \ {"strict"}
        /\ (verdict'[f] # {} => verdict[f] # {})
    BY <1>1 DEF Harmless
  <2> QED BY <1>1, <2>1 DEF RowsInv, Settled
<1>2. CASE GroupEnded
  <2>1. pc = "wait" /\ pc' = "interpret" /\ cur' = accounted + 1
        /\ UNCHANGED <<conf, accounted, verdict, good>>
    BY <1>2 DEF GroupEnded, files
  <2> SUFFICES ASSUME NEW f \in Files
               PROVE  /\ verdict[f] # {} => f <= accounted
                      /\ f < accounted + 1 /\ verdict[f] \ {"strict"} \subseteq Harmless(f)'
                           => good[f]
    BY <2>1, <1>0 DEF RowsInv, Settled, InGroup
  <2>2. Harmless(f)' = Harmless(f)
    BY <2>1 DEF Harmless
  <2> QED BY <1>0, <2>1, <2>2 DEF RowsInv, Settled, InGroup
<1>3. ASSUME pc \in InGroup, pc' \in InGroup, cur' = cur, accounted' = accounted, conf' = conf,
             \A f \in Files \ {cur} : verdict'[f] = verdict[f] /\ good'[f] = good[f],
             Settled(cur)' /\ verdict'[cur] \ {"strict"} \subseteq Harmless(cur) => good'[cur]
      PROVE  RowsInv'
  <2> SUFFICES ASSUME NEW f \in Files
               PROVE  /\ verdict'[f] # {} => f <= accounted \/ f <= cur
                      /\ Settled(f)' /\ verdict'[f] \ {"strict"} \subseteq Harmless(f)
                           => good'[f]
    <3>1. \A f \in Files : Harmless(f)' = Harmless(f)
      BY <1>3 DEF Harmless
    <3> QED BY <1>3, <3>1 DEF RowsInv
  <2>1. CASE f = cur
    BY <1>0, <1>3, <2>1
  <2>2. CASE f # cur
    <3>1. Settled(f)' => Settled(f)
      BY <1>3, <2>2 DEF Settled
    <3> QED BY <1>3, <2>2, <3>1 DEF RowsInv
  <2> QED BY <2>1, <2>2
<1>4. CASE InterpretFile
  <2>1. pc \in InGroup /\ pc' \in InGroup /\ UNCHANGED <<cur, accounted, conf, good>> /\ cur \in Files
    BY <1>4 DEF InterpretFile, InGroup, TypeOK, files
  <2>2. \E rows \in {Classified(art[cur]), {"helper"}, {"setup"}} :
          verdict' = [verdict EXCEPT ![cur] = rows]
    BY <1>4 DEF InterpretFile
  <2>3. verdict'[cur] \ {"strict"} \subseteq Harmless(cur) => good[cur]
    BY <2>1, <2>2, ReadGreen, OwnRowsRed DEF TypeOK, ErrorRows
  <2> QED BY <1>3, <2>1, <2>2, <2>3 DEF TypeOK
<1>5. CASE CleanFile
  <2>1. pc = "clean" /\ pc' = "again" /\ UNCHANGED <<cur, accounted, conf, good>> /\ cur \in Files
    BY <1>5 DEF CleanFile, InGroup, TypeOK
  <2>2. PICK left \in SUBSET {"cleanup"} : verdict' = [verdict EXCEPT ![cur] = @ \union left]
    BY <1>5 DEF CleanFile, Cleaned
  <2>3. verdict[cur] \ {"strict"} \subseteq Harmless(cur) => good[cur]
    BY <2>1 DEF RowsInv, Settled
  <2>4. verdict[cur] \subseteq verdict'[cur] /\ \A f \in Files \ {cur} : verdict'[f] = verdict[f]
    BY <2>1, <2>2 DEF TypeOK
  <2> QED BY <1>3, <2>1, <2>3, <2>4 DEF InGroup
<1>6. ASSUME pc \in {"again", "serialClean"}, NextFile, UNCHANGED <<conf, total, good>>,
             \A f \in Files : \/ f # cur /\ verdict'[f] = verdict[f]
                              \/ f = cur /\ verdict[f] \subseteq verdict'[f]
                              \/ f = cur /\ verdict'[f] = {"setup"}
      PROVE  RowsInv'
  <2>1. pc \in InGroup /\ cur \in Files
    BY <1>6 DEF InGroup, TypeOK
  <2>2. \A f \in Files : Settled(f)' => f <= cur
    BY <1>0, <1>6, <2>1, NextFileFacts DEF Settled, InGroup, TypeOK
  <2>3. \A f \in Files : f <= cur => Settled(f)
    BY <1>0, <1>6, <2>1 DEF Settled
  <2>4. \A f \in Files : f <= cur => f <= accounted' \/ (pc' \in InGroup /\ f <= cur')
    BY <1>0, <1>6, <2>1, NextFileFacts DEF InGroup
  <2>5. accounted <= cur
    BY <2>1 DEF TypeOK
  <2> SUFFICES ASSUME NEW f \in Files
               PROVE  /\ verdict'[f] # {} => f <= cur
                      /\ f <= cur /\ verdict'[f] \ {"strict"} \subseteq Harmless(f) => good[f]
    <3>1. \A f \in Files : Harmless(f)' = Harmless(f)
      BY <1>6 DEF Harmless
    <3> QED BY <1>6, <2>2, <2>4, <3>1 DEF RowsInv
  <2>6. f # cur => verdict'[f] = verdict[f]
    BY <1>6
  <2>7. f = cur => verdict[f] \subseteq verdict'[f] \/ verdict'[f] = {"setup"}
    BY <1>6
  <2>8. ~({"setup"} \ {"strict"} \subseteq Harmless(f))
    BY OwnRowsRed DEF ErrorRows
  <2>9. verdict[f] # {} => f <= cur
    BY <1>0, <2>1, <2>5 DEF RowsInv
  <2>10. f <= cur /\ verdict[f] \ {"strict"} \subseteq Harmless(f) => good[f]
    BY <2>3 DEF RowsInv
  <2> QED BY <1>0, <2>6, <2>7, <2>8, <2>9, <2>10
<1>7. CASE Proceed \/ SerialClean \/ (RunAgain /\ NextFile)
  <2>1. pc \in {"again", "serialClean"} /\ NextFile /\ UNCHANGED <<conf, total, good>>
        /\ cur \in Files
    BY <1>7 DEF Proceed, SerialClean, RunAgain, TypeOK, InGroup, files
  <2>2. \/ verdict' = verdict
        \/ \E left \in SUBSET {"cleanup"} : verdict' = [verdict EXCEPT ![cur] = @ \union left]
        \/ verdict' = [verdict EXCEPT ![cur] = {"setup"}]
    BY <1>7 DEF Proceed, SerialClean, RunAgain, Cleaned
  <2>3. \A f \in Files : \/ f # cur /\ verdict'[f] = verdict[f]
                         \/ f = cur /\ verdict[f] \subseteq verdict'[f]
                         \/ f = cur /\ verdict'[f] = {"setup"}
    BY <2>1, <2>2 DEF TypeOK
  <2> QED BY <1>6, <2>1, <2>3
<1>8. CASE RunAgain /\ ~NextFile
  <2>1. pc \in InGroup /\ pc' = "serial" /\ UNCHANGED <<cur, accounted, conf, good, verdict>>
        /\ cur \in Files
    BY <1>8 DEF RunAgain, InGroup, TypeOK
  <2>2. ~Settled(cur)'
    BY <2>1 DEF Settled, TypeOK
  <2> QED BY <1>3, <2>1, <2>2 DEF InGroup
<1>9. CASE SerialTry
  <2>1. pc \in InGroup /\ UNCHANGED <<cur, accounted, conf>> /\ cur \in Files
        /\ pc' \in {"serialWait", "serialClean"}
    BY <1>9 DEF SerialTry, InGroup, TypeOK
  <2>2. \A f \in Files \ {cur} : verdict'[f] = verdict[f] /\ good'[f] = good[f]
    BY <1>9 DEF SerialTry, TypeOK
  <2>3. pc' = "serialClean" => verdict'[cur] = {"helper"}
    BY <1>9, <2>1 DEF SerialTry, TypeOK
  <2>4. pc' # "serialClean" => ~Settled(cur)'
    BY <2>1 DEF Settled, TypeOK
  <2>5. ~({"helper"} \ {"strict"} \subseteq Harmless(cur))
    BY <2>1, OwnRowsRed DEF ErrorRows
  <2> QED BY <1>3, <2>1, <2>2, <2>3, <2>4, <2>5 DEF InGroup
<1>10. CASE SerialInterpret
  <2>1. pc \in InGroup /\ pc' \in InGroup /\ UNCHANGED <<cur, accounted, conf, good>> /\ cur \in Files
    BY <1>10 DEF SerialInterpret, InGroup, TypeOK, files
  <2>2. \E rows \in {Classified(art[cur]), {"helper"}} :
          verdict' = [verdict EXCEPT ![cur] = rows]
    BY <1>10 DEF SerialInterpret
  <2>3. verdict'[cur] \ {"strict"} \subseteq Harmless(cur) => good[cur]
    BY <2>1, <2>2, ReadGreen, OwnRowsRed DEF TypeOK, ErrorRows
  <2> QED BY <1>3, <2>1, <2>2, <2>3 DEF TypeOK
<1>11. ASSUME NEW g \in Files, ChildEnds(g) PROVE RowsInv'
  <2>1. UNCHANGED <<conf, pc, cur, accounted, verdict>>
        /\ \A f \in Files \ {g} : good'[f] = good[f]
    BY <1>11 DEF ChildEnds, TypeOK
  <2>2. (pc = "wait" /\ g \in Group) \/ (pc = "serialWait" /\ g = cur)
    BY <1>11 DEF ChildEnds, RunningInv
  <2>3. ~Settled(g)
    BY <1>0, <2>2 DEF Settled, Group, TypeOK, InGroup
  <2>4. \A f \in Files : Harmless(f)' = Harmless(f) /\ Settled(f)' = Settled(f)
    BY <2>1 DEF Harmless, Settled
  <2> QED BY <2>1, <2>3, <2>4 DEF RowsInv
<1>12. CASE UNCHANGED vars
  BY <1>12 DEF RowsInv, Settled, Harmless, vars, files
<1>13. ASSUME Discover \/ SetUpGroup \/ RunPlugins \/ Gates \/ Abort
       PROVE  /\ pc \notin InGroup /\ pc' \notin InGroup
              /\ UNCHANGED <<conf, accounted, good, verdict>>
  BY <1>13 DEF Discover, SetUpGroup, RunPlugins, Gates, Abort, InGroup, files
<1>14. ASSUME Merge
       PROVE  /\ pc \notin InGroup /\ pc' \notin InGroup
              /\ UNCHANGED <<conf, accounted, good>>
              /\ \A f \in Files : verdict'[f] = verdict[f] \ {"strict"}
  BY <1>14 DEF Merge, InGroup, files
<1> QED BY <1>1, <1>2, <1>4, <1>5, <1>7, <1>8, <1>9, <1>10, <1>11, <1>12, <1>13, <1>14
        DEF Next, Parent, Over

LEMMA RetryStep ==
  ASSUME IInv, [Next]_vars
  PROVE  RetryInv'
<1> USE DEF IInv
<1>1. CASE Discover \/ SetUpGroup \/ GroupEnded \/ Merge \/ RunPlugins \/ Gates \/ Abort
  <2>1. ~quoted /\ quoted' = quoted
    BY <1>1 DEF Discover, SetUpGroup, GroupEnded, Merge, RunPlugins, Gates, Abort, RetryInv
  <2>2. pc' # "serial"
    BY <1>1 DEF Discover, SetUpGroup, GroupEnded, Merge, RunPlugins, Gates, Abort
  <2> QED BY <2>1, <2>2 DEF RetryInv
<1>2. CASE InterpretFile
  <2>1. cur \in Files /\ art[cur] \in Artefacts /\ ~quoted /\ cur' = cur
    BY <1>2 DEF InterpretFile, TypeOK, InGroup, RetryInv
  <2>2. CASE quoted' = Retryable(art[cur]) /\ pc' = "clean"
             /\ verdict' = [verdict EXCEPT ![cur] = Classified(art[cur])]
    <3>1. verdict'[cur] = Classified(art[cur])
      BY <2>1, <2>2 DEF TypeOK
    <3> QED BY <2>1, <2>2, <3>1, RetriedUnjudged DEF RetryInv
  <2>3. CASE ~quoted' /\ pc' # "serial"
    BY <2>3 DEF RetryInv
  <2> QED BY <1>2, <2>1, <2>2, <2>3 DEF InterpretFile
<1>3. CASE CleanFile
  <2>1. PICK left \in SUBSET {"cleanup"} : verdict' = [verdict EXCEPT ![cur] = @ \union left]
    BY <1>3 DEF CleanFile, Cleaned
  <2>2. cur \in Files /\ cur' = cur /\ quoted' = quoted /\ pc' = "again"
    BY <1>3 DEF CleanFile, TypeOK, InGroup
  <2>3. verdict'[cur] = verdict[cur] \union left
    BY <2>1, <2>2 DEF TypeOK
  <2>4. Judged(verdict'[cur]) => Judged(verdict[cur])
    BY <2>3 DEF Judged, ErrorRows
  <2> QED BY <2>2, <2>4 DEF RetryInv
<1>4. CASE Proceed \/ SerialClean \/ (RunAgain /\ NextFile)
  <2>1. ~quoted' /\ NextFile /\ pc \in InGroup /\ UNCHANGED <<conf, total>>
    BY <1>4 DEF Proceed, SerialClean, RunAgain, InGroup, RetryInv, TypeOK
  <2>2. pc' # "serial"
    BY <2>1, NextFileFacts
  <2> QED BY <2>1, <2>2 DEF RetryInv
<1>5. CASE RunAgain /\ ~NextFile
  BY <1>5 DEF RunAgain, RetryInv
<1>6. CASE SerialTry
  BY <1>6 DEF SerialTry, RetryInv
<1>7. CASE SerialInterpret
  <2>1. cur \in Files /\ art[cur] \in Artefacts /\ ~quoted' /\ cur' = cur
    BY <1>7 DEF SerialInterpret, TypeOK, InGroup, RetryInv
  <2>2. pc' = "serial" => Retryable(art[cur]) /\ verdict'[cur] = Classified(art[cur])
    BY <1>7, <2>1 DEF SerialInterpret, TypeOK
  <2> QED BY <2>1, <2>2, RetriedUnjudged DEF RetryInv
<1>8. CASE \E f \in Files : ChildEnds(f)
  BY <1>8 DEF ChildEnds, RetryInv
<1>9. CASE UNCHANGED vars
  BY <1>9 DEF RetryInv, vars
<1> QED BY <1>1, <1>2, <1>3, <1>4, <1>5, <1>6, <1>7, <1>8, <1>9 DEF Next, Parent, Over

LEMMA StartedStep ==
  ASSUME IInv, [Next]_vars
  PROVE  StartedInv'
<1> USE Sizes DEF IInv
<1>0. Files \subseteq Nat
  BY IsolateAssumption DEF Files
<1>1. CASE Discover \/ Merge \/ RunPlugins \/ Gates \/ Abort
  <2>1. UNCHANGED <<child, accounted>> /\ pc \notin InGroup \union {"wait"}
    BY <1>1 DEF Discover, Merge, RunPlugins, Gates, Abort, InGroup, files
  <2> QED BY <2>1 DEF StartedInv
<1>2. CASE SetUpGroup
  <2>1. PICK made \in SUBSET Group : \E prepared \in SUBSET made :
          child' = [f \in Files |-> IF f \in prepared THEN "running" ELSE child[f]]
    BY <1>2, Zenon DEF SetUpGroup
  <2>2. accounted' = accounted /\ GroupEnd' = GroupEnd /\ pc = "setup" /\ pc' = "wait"
    BY <1>2 DEF SetUpGroup, GroupEnd
  <2>3. \A f \in Files : child'[f] # "idle" => f \in Group \/ child[f] # "idle"
    BY <2>1
  <2> QED BY <2>2, <2>3 DEF StartedInv, Group, InGroup
<1>3. CASE /\ UNCHANGED <<conf, total, accounted>>
           /\ \A f \in Files : child'[f] # "idle" => child[f] # "idle" \/ (pc \in InGroup /\ f = cur)
           /\ pc \in InGroup \union {"wait"} => pc' \in InGroup \union {"wait"}
  <2>1. GroupEnd' = GroupEnd
    BY <1>3 DEF GroupEnd
  <2> QED BY <1>3, <2>1 DEF StartedInv, LoopInv
<1>4. CASE GroupEnded \/ InterpretFile \/ CleanFile \/ SerialInterpret \/ (RunAgain /\ ~NextFile)
  <2>1. UNCHANGED <<conf, total, accounted, child>> /\ pc' \in InGroup
    BY <1>4 DEF GroupEnded, InterpretFile, CleanFile, SerialInterpret, RunAgain, InGroup, files
  <2> QED BY <1>3, <2>1
<1>5. CASE SerialTry
  <2>1. UNCHANGED <<conf, total, accounted>> /\ pc \in InGroup /\ pc' \in InGroup
        /\ \A f \in Files \ {cur} : child'[f] = child[f]
    BY <1>5 DEF SerialTry, InGroup, TypeOK
  <2> QED BY <1>3, <2>1
<1>6. CASE Proceed \/ SerialClean \/ (RunAgain /\ NextFile)
  <2>1. NextFile /\ pc \in InGroup /\ UNCHANGED <<conf, total, child>>
    BY <1>6 DEF Proceed, SerialClean, RunAgain, InGroup, files
  <2>2. CASE pc' = "interpret"
    <3>1. UNCHANGED <<conf, total, accounted, child>>
      BY <2>1, <2>2, NextFileFacts
    <3> QED BY <1>3, <2>2, <3>1 DEF InGroup
  <2>3. CASE pc' # "interpret"
    <3>1. accounted' = GroupEnd
      BY <2>1, <2>3, NextFileFacts
    <3>2. \A f \in Files : f <= accounted => f <= GroupEnd
      BY <1>0
    <3> QED BY <2>1, <3>1, <3>2 DEF StartedInv
  <2> QED BY <2>2, <2>3
<1>7. ASSUME NEW g \in Files, ChildEnds(g) PROVE StartedInv'
  <2>1. UNCHANGED <<conf, total, accounted, pc>>
        /\ \A f \in Files : child'[f] # "idle" => child[f] # "idle"
    BY <1>7 DEF ChildEnds, TypeOK
  <2> QED BY <1>3, <2>1
<1>8. CASE UNCHANGED vars
  <2>1. UNCHANGED <<conf, total, accounted, pc, child>>
    BY <1>8 DEF vars, files
  <2> QED BY <1>3, <2>1
<1> QED BY <1>1, <1>2, <1>4, <1>5, <1>6, <1>7, <1>8 DEF Next, Parent, Over

\* A green merge: nothing but harmless rows, and some.
LEMMA MergedGreen ==
  ASSUME IInv, Merge, status' = Pass
  PROVE  /\ Green'
         /\ accounted = total /\ \A f \in Files : verdict[f] \ {"strict"} \subseteq Harmless(f)
<1> USE Sizes DEF IInv
<1>1. /\ verdict' = [f \in Files |-> verdict[f] \ {"strict"}]
      /\ UNCHANGED <<conf, total, accounted, good>> /\ pc = "merge"
      /\ status' = ExitCode(verdict', extra', emptyShard')
  BY DEF Merge, files
<1>2. extra' = extra \/ extra' = extra \union {"strict"}
  BY DEF Merge
<1>3. Files \subseteq Nat /\ 1 .. total \subseteq Files
  BY IsolateAssumption DEF Files
<1>4. \A f \in Files : Harmless(f)' = Harmless(f)
  BY <1>1 DEF Harmless
<1>5. "load" \notin extra'
  BY <1>1 DEF ExitCode, Pass, LoadError
<1>6. \A f \in Files : f > accounted => verdict[f] = {}
  BY <1>1, <1>3 DEF RowsInv, InGroup
<1>7. CASE total = 0
  <2>1. emptyShard'
    BY <1>1, <1>5, <1>7 DEF ExitCode, Pass, LoadError, NoTests
  <2>2. extra' = extra
    BY <2>1 DEF Merge
  <2>3. extra' = {}
    BY <1>1, <1>5, <1>7, <2>2 DEF UndecidedInv, Undecided, InGroup
  <2>4. \A f \in Files : verdict[f] = {}
    BY <1>3, <1>6, <1>7 DEF Files
  <2> QED BY <1>1, <1>7, <2>1, <2>3, <2>4 DEF Green
<1>8. CASE total > 0
  <2>1. extra' = {} /\ RowsOf(verdict') # {} /\ \A f \in Files : verdict'[f] \subseteq Harmless(f)
    <3>1. ~(\/ RowsOf(verdict') \union extra' = {} \/ extra' # {}
            \/ \E f \in Files : verdict'[f] \ Harmless(f) # {})
      BY <1>1, <1>8 DEF ExitCode, Pass, Fail, LoadError, NoTests
    <3> QED BY <3>1
  <2>2. accounted = total
    BY <1>1, <1>2, <2>1 DEF LoopInv
  <2>3. \A f \in 1 .. total : good[f]
    BY <1>1, <1>3, <2>1, <2>2 DEF RowsInv, Settled
  <2>4. PICK f \in Files : verdict'[f] # {}
    BY <2>1 DEF RowsOf
  <2>5. \A g \in Files : verdict'[g] # {} => g \in 1 .. total
    BY <1>1, <1>3, <1>6, <2>2 DEF Files
  <2>6. ASSUME conf.strict
        PROVE  \E g \in 1 .. total : verdict'[g] \intersect {"pass", "fail"} # {}
    <3>1. ~emptyShard'
      <4>1. emptyShard' = IF conf.caseShard
                          THEN total > 0 /\ RowsOf(verdict') \union extra = {} ELSE emptyShard
        BY DEF Merge
      <4>2. ~emptyShard
        BY <1>1, <1>8 DEF UndecidedInv, Undecided
      <4> QED BY <2>1, <4>1, <4>2
    <3>2. RowsOf(verdict') \intersect ExecutedRows # {}
      <4>1. extra' = extra \union
              (IF conf.strict /\ ~emptyShard' /\ RowsOf(verdict') \intersect ExecutedRows = {}
               THEN {"strict"} ELSE {})
        BY DEF Merge
      <4> QED BY <2>1, <2>6, <3>1, <4>1
    <3>3. PICK g \in Files : verdict'[g] \intersect ExecutedRows # {}
      BY <3>2 DEF RowsOf
    <3>4. verdict'[g] \intersect {"pass", "fail"} # {}
      BY <2>1, <3>3 DEF ExecutedRows, Harmless
    <3> QED BY <2>5, <3>3, <3>4
  <2>7. \E g \in 1 .. total :
          verdict'[g] # {} /\ (conf.strict => verdict'[g] \intersect {"pass", "fail"} # {})
    BY <2>4, <2>5, <2>6
  <2>8. Green'
    BY <1>1, <1>3, <1>4, <2>1, <2>3, <2>7 DEF Green
  <2> QED BY <1>1, <2>1, <2>2, <2>8
<1> QED BY <1>7, <1>8

LEMMA GreenStep ==
  ASSUME IInv, [Next]_vars
  PROVE  GreenInv'
<1> USE DEF IInv
<1>1. CASE Merge
  BY <1>1, MergedGreen DEF GreenInv
<1>2. CASE RunPlugins \/ Gates
  <2>1. /\ UNCHANGED <<conf, total, good, verdict, emptyShard>>
        /\ pc \in {"plugins", "gates"}
        /\ status' = Pass => status = Pass /\ extra' = extra
    BY <1>2 DEF RunPlugins, Gates, TurnRed, Pass, Fail, files
  <2>2. \A f \in 1 .. total : Harmless(f)' = Harmless(f)
    BY <2>1 DEF Harmless
  <2> QED BY <2>1, <2>2 DEF GreenInv, Green
<1>3. CASE pc' \notin {"plugins", "gates", "done"}
  BY <1>3 DEF GreenInv
<1>4. CASE UNCHANGED vars
  BY <1>4 DEF GreenInv, Green, Harmless, vars, files, tail
<1>5. ASSUME NEW g \in Files, ChildEnds(g)
      PROVE  pc' \notin {"plugins", "gates", "done"}
  BY <1>5 DEF ChildEnds, RunningInv
<1>6. ASSUME Proceed \/ SerialClean \/ RunAgain
      PROVE  pc' \notin {"plugins", "gates", "done"}
  <2>1. pc' = "serial" \/ (NextFile /\ pc \in InGroup /\ UNCHANGED <<conf, total>>)
    BY <1>6 DEF Proceed, SerialClean, RunAgain, InGroup
  <2> QED BY <2>1, NextFileFacts
<1>7. ASSUME Discover \/ SetUpGroup \/ GroupEnded \/ InterpretFile \/ CleanFile \/ SerialTry
             \/ SerialInterpret \/ Abort
      PROVE  pc' \notin {"plugins", "gates", "done"}
  BY <1>7 DEF Discover, SetUpGroup, GroupEnded, InterpretFile, CleanFile, SerialTry,
              SerialInterpret, Abort
<1> QED BY <1>1, <1>2, <1>3, <1>4, <1>5, <1>6, <1>7 DEF Next, Parent, Over

-----------------------------------------------------------------------------
LEMMA InvariantInit == Init => IInv
<1> SUFFICES ASSUME Init PROVE IInv
  OBVIOUS
<1>1. TypeOK
  <2>1. /\ child \in [Files -> {"idle", "running", "ended"}] /\ scratch \in [Files -> BOOLEAN]
        /\ good \in [Files -> BOOLEAN]
    BY DEF Init
  <2>2. verdict \in [Files -> SUBSET RowKinds]
    BY DEF Init
  <2>3. art \in [Files -> Artefacts]
    BY NothingTyped DEF Init
  <2>4. conf \in Configs /\ pc \in Stages /\ pc \notin InGroup /\ extra \subseteq RunRows
    BY DEF Init, Stages, InGroup
  <2>5. /\ total \in 0 .. NumFiles /\ accounted \in 0 .. total /\ cur \in 0 .. total
        /\ attempt \in 0 .. MaxTries
    BY IsolateAssumption DEF Init
  <2>6. quoted \in BOOLEAN /\ emptyShard \in BOOLEAN /\ status \in Statuses \union {NoStatus}
    BY DEF Init
  <2> QED BY <2>1, <2>2, <2>3, <2>4, <2>5, <2>6 DEF TypeOK
<1>2. LoopInv /\ UndecidedInv /\ StartedInv /\ RetryInv /\ GreenInv
  BY DEF Init, LoopInv, UndecidedInv, Undecided, StartedInv, RetryInv, GreenInv, InGroup
<1>3. RunningInv /\ ArtInv
  BY DEF Init, RunningInv, ArtInv
<1>4. RowsInv
  BY IsolateAssumption DEF Init, RowsInv, Settled, InGroup, Files
<1> QED BY <1>1, <1>2, <1>3, <1>4 DEF IInv

LEMMA Invariant == Spec => []IInv
<1>1. IInv /\ [Next]_vars => IInv'
  BY TypeStep, LoopStep, UndecidedStep, RunningStep, ArtStep, RowsStep, RetryStep, StartedStep,
     GreenStep DEF IInv
<1> QED BY InvariantInit, <1>1, PTL DEF Spec

\* A step that starts a child again tries the file at hand, which holds no
\* verdict of a test, within the bound.
LEMMA RerollStep ==
  ASSUME IInv, [Next]_vars, NEW f \in Files, child[f] = "ended", child'[f] = "running"
  PROVE  f = cur /\ attempt' = attempt + 1 /\ attempt' <= MaxTries /\ ~Judged(verdict[f])
<1> USE Sizes DEF IInv
<1>1. CASE SetUpGroup
  <2>1. PICK made \in SUBSET Group : \E prepared \in SUBSET made :
          child' = [g \in Files |-> IF g \in prepared THEN "running" ELSE child[g]]
    BY <1>1, Zenon DEF SetUpGroup
  <2>2. f \in Group
    BY <2>1
  <2>3. f > accounted /\ pc = "setup"
    BY <1>1, <2>2 DEF Group, SetUpGroup
  <2>4. f <= accounted
    BY <2>3 DEF StartedInv, InGroup
  <2> QED BY <2>3, <2>4, IsolateAssumption DEF Files
<1>2. CASE SerialTry
  <2>1. f = cur
    BY <1>2 DEF SerialTry, TypeOK
  <2>2. attempt' = attempt + 1 /\ attempt < MaxTries /\ ~Judged(verdict[cur])
    BY <1>2 DEF SerialTry, Counted, LoopInv, RetryInv
  <2> QED BY <2>1, <2>2
<1>3. CASE \E g \in Files : ChildEnds(g)
  BY <1>3 DEF ChildEnds, TypeOK
<1>4. ASSUME ~SetUpGroup, ~SerialTry, ~\E g \in Files : ChildEnds(g)
      PROVE  child' = child
  BY <1>4 DEF Next, Parent, Over, Discover, GroupEnded, InterpretFile, CleanFile, Proceed, RunAgain,
              SerialInterpret, SerialClean, Merge, RunPlugins, Gates, Abort, vars, files
<1> QED BY <1>1, <1>2, <1>3, <1>4

\* Rows in the table do not change before the merge.
LEMMA RedSettled ==
  ASSUME IInv, NextFile, pc \in InGroup, UNCHANGED <<conf, total, status>>,
         \A f \in Files \ {cur} : verdict'[f] = verdict[f]
  PROVE  Promise!Account \/ UNCHANGED Promise!vars
<1> USE Sizes DEF IInv
<1>1. 1 .. total \subseteq Files /\ cur \in Files /\ cur > accounted
  BY IsolateAssumption DEF Files, TypeOK
<1>2. \A f \in 1 .. accounted : verdict'[f] = verdict[f] /\ Harmless(f)' = Harmless(f)
  BY <1>1 DEF Harmless
<1>3. CASE pc' = "interpret"
  <2>1. accounted' = accounted
    BY <1>3, NextFileFacts
  <2>2. Red' = Red
    BY <1>2, <2>1 DEF Red
  <2> QED BY <2>1, <2>2 DEF Promise!vars
<1>4. CASE pc' # "interpret"
  <2>1. accounted' = cur /\ cur \in accounted + 1 .. total
    BY <1>1, <1>4, NextFileFacts
  <2>2. Red' \in SUBSET (1 .. accounted')
    BY DEF Red
  <2>3. Red' \intersect 1 .. accounted = Red
    BY <1>2, <2>1 DEF Red
  <2>4. status = NoStatus
    BY DEF UndecidedInv, Undecided
  <2> QED BY <2>1, <2>2, <2>3, <2>4 DEF Promise!Account
<1> QED BY <1>3, <1>4

\* Every step of an isolated run is a step of the promise, or none.
LEMMA PromiseStep ==
  ASSUME IInv, [Next]_vars
  PROVE  [Promise!Next]_(Promise!vars)
<1> USE Sizes DEF IInv
<1>0. 1 .. total \subseteq Files
  BY IsolateAssumption DEF Files
<1>1. CASE /\ UNCHANGED <<conf, total, accounted, status>>
           /\ \A f \in 1 .. accounted : verdict'[f] = verdict[f]
  <2>1. Red' = Red
    BY <1>1 DEF Red, Harmless
  <2> QED BY <1>1, <2>1 DEF Promise!vars
<1>2. CASE Discover \/ SetUpGroup \/ GroupEnded \/ CleanFile \/ Abort \/ UNCHANGED vars
           \/ InterpretFile \/ SerialTry \/ SerialInterpret \/ (RunAgain /\ ~NextFile)
           \/ \E f \in Files : ChildEnds(f)
  <2>1. UNCHANGED <<conf, total, accounted, status>>
    BY <1>2 DEF Discover, SetUpGroup, GroupEnded, CleanFile, Abort, InterpretFile, SerialTry,
                SerialInterpret, RunAgain, ChildEnds, vars, tail
  <2>2. verdict' = verdict \/ (pc \in InGroup /\ \A f \in Files \ {cur} : verdict'[f] = verdict[f])
    BY <1>2 DEF Discover, SetUpGroup, GroupEnded, CleanFile, Abort, InterpretFile, SerialTry,
                SerialInterpret, RunAgain, ChildEnds, Cleaned, InGroup, TypeOK, vars, files, tail
  <2>3. \A f \in 1 .. accounted : verdict'[f] = verdict[f]
    BY <1>0, <2>2 DEF TypeOK
  <2> QED BY <1>1, <2>1, <2>3
<1>3. CASE Proceed \/ SerialClean \/ (RunAgain /\ NextFile)
  <2>1. NextFile /\ pc \in InGroup /\ UNCHANGED <<conf, total, status>>
    BY <1>3 DEF Proceed, SerialClean, RunAgain, InGroup, tail
  <2>2. \A f \in Files \ {cur} : verdict'[f] = verdict[f]
    BY <1>3 DEF Proceed, SerialClean, RunAgain, Cleaned, TypeOK, tail
  <2> QED BY <2>1, <2>2, RedSettled DEF Promise!Next
<1>4. CASE Merge
  <2>1. /\ verdict' = [f \in Files |-> verdict[f] \ {"strict"}]
        /\ UNCHANGED <<conf, total, accounted>> /\ status = NoStatus
    BY <1>4 DEF Merge, UndecidedInv, Undecided
  <2>2. status' \in Statuses
    BY <1>4 DEF Merge, ExitCode, Statuses
  <2>3. Red' = Red
    BY <1>0, <2>1 DEF Red, Harmless
  <2>4. status' = Pass => accounted = total /\ Red = {}
    <3>1. ASSUME status' = Pass, NEW f \in 1 .. accounted
          PROVE  verdict[f] \ ({"strict"} \union Harmless(f)) = {}
      BY <1>0, <1>4, <3>1, MergedGreen
    <3> QED BY <1>4, <3>1, MergedGreen DEF Red
  <2> QED BY <2>1, <2>2, <2>3, <2>4 DEF Promise!Next, Promise!Conclude
<1>5. CASE RunPlugins \/ Gates
  <2>1. UNCHANGED <<conf, total, accounted, verdict>>
    BY <1>5 DEF RunPlugins, Gates, files
  <2>2. status' = status \/ (status = Pass /\ status' = Fail)
    BY <1>5 DEF RunPlugins, Gates, TurnRed
  <2>3. Red' = Red
    BY <2>1 DEF Red, Harmless
  <2> QED BY <2>1, <2>2, <2>3 DEF Promise!Next, Promise!TurnRed, Promise!vars
<1> QED BY <1>2, <1>3, <1>4, <1>5 DEF Next, Parent, Over

-----------------------------------------------------------------------------
\* Every variable of the parent keeps its type.
THEOREM TypeCorrect == Spec => []TypeOK
<1>1. IInv => TypeOK
  BY DEF IInv
<1> QED BY Invariant, <1>1, PTL

\* An isolated run that exits green had every file end well in its last child,
\* for any number of files, workers and tries and every set of options.
THEOREM GreenEarned == Spec => []GreenIsEarned
<1>1. IInv => GreenIsEarned
  BY DEF IInv, GreenInv, GreenIsEarned
<1> QED BY Invariant, <1>1, PTL

\* No file is started again over a verdict of its tests, or without end.
THEOREM VerdictsKept == Spec => NeverRerolled
<1> DEFINE Kept ==
      \A f \in Files : child[f] = "ended" /\ child'[f] = "running" =>
        /\ f = cur /\ attempt' = attempt + 1 /\ attempt' <= MaxTries
        /\ ~Judged(verdict[f])
<1>1. IInv /\ [Next]_vars => [Kept]_vars
  BY RerollStep
<1>2. Spec => [][Kept]_vars
  BY Invariant, <1>1, PTL DEF Spec
<1> QED BY <1>2 DEF NeverRerolled

\* The isolated run implements IsolatedVerdict: its files are accounted for in
\* order, and the exit status never forgets a red one.
THEOREM KeepsPromise == Spec => AccountsInOrder
<1>1. Init => Promise!Init
  BY IsolateAssumption DEF Init, Promise!Init, Red
<1>2. IInv /\ [Next]_vars => [Promise!Next]_(Promise!vars)
  BY PromiseStep
<1> QED BY Invariant, <1>1, <1>2, PTL DEF Spec, AccountsInOrder, Promise!Spec
=============================================================================
