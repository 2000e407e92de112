---------------------------- MODULE MockRegistry ----------------------------
(***************************************************************************)
(* The mock, spy and mock-sequence registry of lib/mock.q.  `env` is the   *)
(* part of the q process' global name space that tests substitute; the     *)
(* registry is what the framework remembers in order to undo it.  Names    *)
(* are fully qualified (the qualification of a relative name by            *)
(* .tst.context is done before the first line modelled here), and calls of *)
(* wrappers go through Call.                                               *)
(***************************************************************************)
EXTENDS Naturals

CONSTANTS
  Names,        \* fully qualified q names that tests substitute
  Lambdas,      \* plain function values
  Wide,         \* those of them with eight parameters, q's limit
  Dicts,        \* dictionary values, the only ones partialMock accepts
  Absent,       \* the name is not defined
  Unsaved,      \* mockState.store has no entry for the name
  NoImpl,       \* spyLog.impls has no entry for the name
  MaxLen        \* bound: length of a mock sequence, and of a call log

Plain      == Lambdas \union Dicts
\* A wrapper has as many parameters as what it wraps.  One of eight (wide) cannot
\* be the projection of a template: .tst.spy8Wrapper makes a lambda of it.
SpyOf(n, wide) == <<"spy", n, wide>>
SeqOf(n, wide) == <<"seq", n, wide>>
Spies(n)   == {SpyOf(n, wide) : wide \in BOOLEAN}
Sequences  == {SeqOf(n, wide) : n \in Names, wide \in BOOLEAN}
Wrappers   == (UNION {Spies(n) : n \in Names}) \union Sequences
Values     == Plain \union Wrappers
IsWide(v)  == v \in Wide \/ (v \in Wrappers /\ v[3])
IsLambda(v) == v \in Lambdas \union Sequences \/ (v \in Wrappers /\ v[3])

ASSUME ValuesAssumption ==
  /\ Absent \notin Values
  /\ Unsaved \notin Values \union {Absent}
  /\ NoImpl \notin Values
  /\ Plain \intersect Wrappers = {} /\ Wide \subseteq Lambdas
ASSUME BoundsAssumption == MaxLen \in Nat

VARIABLES
  env,            \* value of each name, or Absent
  store,          \* .tst.mockState.store: original of each mocked name
  removeList,     \* .tst.mockState.removeList: names that did not exist
  impls,          \* .tst.spyLog.impls
  calls,          \* .tst.spyLog.calls, as the number of recorded calls
  seqs,           \* .tst.seqs, as the number of values left
  cleanupErrors   \* names .tst.restore reported to recordCleanupError

registry == <<store, removeList>>
logs     == <<impls, calls, seqs>>
vars     == <<env, store, removeList, impls, calls, seqs, cleanupErrors>>

TypeOK ==
  /\ env \in [Names -> Values \union {Absent}]
  /\ store \in [Names -> Values \union {Unsaved}]
  /\ removeList \subseteq Names
  /\ impls \in [Names -> Values \union {NoImpl}]
  /\ calls \in [Names -> 0 .. MaxLen]
  /\ seqs \in [Names -> 0 .. MaxLen]
  /\ cleanupErrors \subseteq Names

\* A fresh process: nothing substituted, application names hold plain values.
Init ==
  /\ env \in [Names -> Plain \union {Absent}]
  /\ store = [n \in Names |-> Unsaved]
  /\ removeList = {}
  /\ impls = [n \in Names |-> NoImpl]
  /\ calls = [n \in Names |-> 0]
  /\ seqs = [n \in Names |-> 0]
  /\ cleanupErrors = {}

-----------------------------------------------------------------------------
\* Fault of .tst.mock: every substitution, not only the first, is taken for the
\* original.
Substitute_SavesLatest(n, v) ==
  /\ env' = [env EXCEPT ![n] = v]
  /\ removeList' = IF env[n] = Absent THEN removeList \union {n} ELSE removeList
  /\ store' = IF n \in removeList \/ env[n] = Absent
              THEN store ELSE [store EXCEPT ![n] = env[n]]
  /\ UNCHANGED cleanupErrors

\* .tst.mock: remember how to undo the first substitution, then assign.
Substitute(n, v) ==
  /\ env' = [env EXCEPT ![n] = v]
  /\ removeList' = IF env[n] = Absent THEN removeList \union {n} ELSE removeList
  /\ store' = IF n \in removeList \/ env[n] = Absent \/ store[n] # Unsaved
              THEN store ELSE [store EXCEPT ![n] = env[n]]
  /\ UNCHANGED cleanupErrors

Mock(n, v) == Substitute(n, v) /\ UNCHANGED logs

\* .tst.partialMock: the merged dictionary d replaces a dictionary.
PartialMock(n, d) == env[n] \in Dicts /\ Mock(n, d)

\* .tst.spy accepts lambdas: not a spy wrapper, which is a projection, unless it
\* is a wide one, and a sequence wrapper always.  impl (::) is what the name
\* holds, which for a wide spy is the wrapper itself.
Spy(n, impl) ==
  /\ IsLambda(env[n])
  /\ impl \in Lambdas \union {env[n]}
  /\ impls' = [impls EXCEPT ![n] = impl]
  /\ calls' = [calls EXCEPT ![n] = 0]
  /\ Substitute(n, SpyOf(n, IsWide(env[n])))
  /\ UNCHANGED seqs

\* .tst.mockSequence stores the values before it looks the target up, so a
\* missing target leaves the values behind and substitutes nothing.
MockSequence(n, k) ==
  /\ seqs' = [seqs EXCEPT ![n] = k]
  /\ UNCHANGED <<impls, calls>>
  /\ \/ env[n] = Absent /\ UNCHANGED <<env, registry, cleanupErrors>>
     \/ env[n] # Absent /\ Substitute(n, SeqOf(n, IsWide(env[n])))

\* .tst.nextSeq: an exhausted sequence signals and changes nothing.
NextSeq(n) == seqs' = [seqs EXCEPT ![n] = IF @ = 0 THEN 0 ELSE @ - 1]

\* The code under test calls a wrapper: the spy logs, then runs its impl.  One
\* that is its own impl logs until q's stack is full.
Call(n) ==
  /\ UNCHANGED <<env, registry, impls, cleanupErrors>>
  /\ \/ /\ env[n] \in Spies(n) /\ impls[n] # NoImpl /\ calls[n] < MaxLen
        /\ calls' = [calls EXCEPT ![n] = IF impls[n] = env[n] THEN MaxLen ELSE @ + 1]
        /\ IF impls[n] \in Sequences THEN NextSeq(n) ELSE UNCHANGED seqs
     \/ env[n] \in Sequences /\ NextSeq(n) /\ UNCHANGED calls

\* Fault: the whole spy log is reset, implementations included.
ClearSpyLogs_Resets ==
  /\ calls' = [n \in Names |-> 0]
  /\ impls' = [n \in Names |-> NoImpl]
  /\ UNCHANGED <<env, registry, seqs, cleanupErrors>>

ClearSpyLogs ==
  /\ calls' = [n \in Names |-> 0]
  /\ UNCHANGED <<env, registry, impls, seqs, cleanupErrors>>

\* .tst.restore: originals first, then removals, so of a name on both lists the
\* removal wins; `failing` are the names whose assignment signalled.  Everything
\* remembered is dropped either way.
Saved == {n \in Names : store[n] # Unsaved}

Restore(failing) ==
  /\ env' = [n \in Names |-> IF n \in removeList THEN Absent
                             ELSE IF n \in Saved \ failing THEN store[n] ELSE env[n]]
  /\ store' = [n \in Names |-> Unsaved]
  /\ removeList' = {}
  /\ impls' = [n \in Names |-> NoImpl]
  /\ calls' = [n \in Names |-> 0]
  /\ seqs' = [n \in Names |-> 0]
  /\ cleanupErrors' = cleanupErrors \union failing

\* The code under test, or a test body, writes or deletes a name directly.
CodeAssigns(n, v) ==
  /\ env' = [env EXCEPT ![n] = v]
  /\ UNCHANGED <<registry, logs, cleanupErrors>>

CodeDeletes(n) ==
  /\ env[n] # Absent
  /\ env' = [env EXCEPT ![n] = Absent]
  /\ UNCHANGED <<registry, logs, cleanupErrors>>

Next ==
  \/ \E n \in Names, v \in Plain : Mock(n, v)
  \/ \E n \in Names, d \in Dicts : PartialMock(n, d)
  \/ \E n \in Names, impl \in Lambdas \union Wrappers : Spy(n, impl)
  \/ \E n \in Names, k \in 1 .. MaxLen : MockSequence(n, k)
  \/ \E n \in Names : Call(n)
  \/ ClearSpyLogs
  \/ \E failing \in SUBSET Saved : Restore(failing)
  \/ \E n \in Names, v \in Plain : CodeAssigns(n, v)
  \/ \E n \in Names : CodeDeletes(n)

Spec == Init /\ [][Next]_vars

-----------------------------------------------------------------------------
\* The value a name had before its first substitution, and the names that will
\* not get it back, read off the two lists.
Origin == [n \in Names |-> IF store[n] # Unsaved THEN store[n]
                           ELSE IF n \in removeList THEN Absent ELSE Unsaved]
Lost == {n \in removeList : store[n] # Unsaved}

Scope == INSTANCE MockScope WITH
           origin <- Origin, Untouched <- Unsaved, lost <- Lost, reported <- cleanupErrors

\* The registry implements the promise: whatever sequence of mocks, partial
\* mocks, spies, sequences, direct writes and deletions a test makes, .tst.restore
\* puts back the value each name had before its first substitution, and only
\* that, but for a name that was deleted while it was mocked and mocked again.
RestoresOriginals == Scope!Spec

\* "Restore all mocked values to originals" (docs/API_REFERENCE.md:967): a value
\* that was saved is put back unless its assignment signals.
RestoresAll ==
  [][\A failing \in SUBSET Saved :
       Restore(failing) => \A n \in Saved \ failing : env'[n] = store[n]]_vars

\* A spy wrapper that code can still reach always has an implementation to
\* forward to; only a name whose restoration was reported as failed can keep a
\* wrapper whose implementation restore has dropped.
WrappersBacked ==
  \A n \in Names : env[n] \in Spies(n) => impls[n] # NoImpl \/ n \in cleanupErrors
=============================================================================
