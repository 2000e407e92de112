------------------------- MODULE MockRegistry_proof -------------------------
(***************************************************************************)
(* The registry of lib/mock.q implements MockScope for every set of names  *)
(* and values, whatever the code under test assigns and deletes.           *)
(***************************************************************************)
EXTENDS MockRegistry, TLAPS

\* Wrappers are values of their own, of a name each.
LEMMA WrapperValues ==
  ASSUME NEW n \in Names, NEW wide \in BOOLEAN
  PROVE  /\ SpyOf(n, wide) \in Spies(n) /\ SpyOf(n, wide) \in Values
         /\ SeqOf(n, wide) \in Sequences /\ SeqOf(n, wide) \in Values
<1>1. SpyOf(n, wide) \in Spies(n) /\ SeqOf(n, wide) \in Sequences
  BY DEF Spies, Sequences
<1> QED BY <1>1 DEF Values, Wrappers

LEMMA WidthIsBoolean ==
  ASSUME NEW v PROVE IsWide(v) \in BOOLEAN
<1>1. CASE v \in Wide
  BY <1>1 DEF IsWide
<1>2. CASE v \notin Wide
  <2>1. v \in Wrappers => v[3] \in BOOLEAN
    BY DEF Wrappers, Spies, Sequences, SpyOf, SeqOf
  <2> QED BY <1>2, <2>1 DEF IsWide
<1> QED BY <1>1, <1>2

\* The step every substitution shares.
LEMMA SubstituteStep ==
  ASSUME TypeOK, NEW n \in Names, NEW v \in Values, Substitute(n, v)
  PROVE  /\ env' \in [Names -> Values \union {Absent}]
         /\ store' \in [Names -> Values \union {Unsaved}]
         /\ removeList' \subseteq Names
         /\ cleanupErrors' \subseteq Names
  BY ValuesAssumption DEF TypeOK, Substitute

\* .tst.mock, .tst.spy, .tst.mockSequence and .tst.restore keep the registry
\* well formed.
LEMMA InvariantStep ==
  ASSUME TypeOK, [Next]_vars
  PROVE  TypeOK'
<1> USE ValuesAssumption, BoundsAssumption
<1>1. ASSUME NEW n \in Names, NEW v \in Plain, Mock(n, v)
      PROVE  TypeOK'
  <2>1. v \in Values /\ Substitute(n, v)
    BY <1>1 DEF Mock, Values
  <2>2. impls' = impls /\ calls' = calls /\ seqs' = seqs
    BY <1>1 DEF Mock, logs
  <2>3. QED
    BY <2>1, <2>2, SubstituteStep DEF TypeOK
<1>2. ASSUME NEW n \in Names, NEW d \in Dicts, PartialMock(n, d)
      PROVE  TypeOK'
  BY <1>1, <1>2 DEF PartialMock, Plain
<1>3. ASSUME NEW n \in Names, NEW impl \in Lambdas \union Wrappers, Spy(n, impl)
      PROVE  TypeOK'
  <2>1. SpyOf(n, IsWide(env[n])) \in Values /\ impl \in Values
    BY WidthIsBoolean, WrapperValues DEF Values, Plain
  <2>2. /\ impls' \in [Names -> Values \union {NoImpl}]
        /\ calls' \in [Names -> 0 .. MaxLen]
        /\ seqs' = seqs
    BY <1>3, <2>1 DEF Spy, TypeOK
  <2>3. Substitute(n, SpyOf(n, IsWide(env[n])))
    BY <1>3 DEF Spy
  <2>4. QED
    BY <2>1, <2>2, <2>3, SubstituteStep DEF TypeOK
<1>4. ASSUME NEW n \in Names, NEW k \in 1 .. MaxLen, MockSequence(n, k)
      PROVE  TypeOK'
  <2>1. SeqOf(n, IsWide(env[n])) \in Values
    BY WidthIsBoolean, WrapperValues
  <2>2. /\ seqs' \in [Names -> 0 .. MaxLen]
        /\ impls' = impls /\ calls' = calls
    BY <1>4 DEF MockSequence, TypeOK
  <2>3. CASE env[n] = Absent /\ UNCHANGED <<env, registry, cleanupErrors>>
    BY <2>2, <2>3 DEF TypeOK, registry
  <2>4. CASE Substitute(n, SeqOf(n, IsWide(env[n])))
    BY <2>1, <2>2, <2>4, SubstituteStep DEF TypeOK
  <2>5. QED
    BY <1>4, <2>3, <2>4 DEF MockSequence
<1>5. ASSUME NEW n \in Names, Call(n)
      PROVE  TypeOK'
  <2>1. /\ env' = env /\ store' = store /\ removeList' = removeList
        /\ impls' = impls /\ cleanupErrors' = cleanupErrors
    BY <1>5 DEF Call, registry
  <2>2. calls' \in [Names -> 0 .. MaxLen] /\ seqs' \in [Names -> 0 .. MaxLen]
    BY <1>5 DEF Call, NextSeq, TypeOK
  <2>3. QED
    BY <2>1, <2>2 DEF TypeOK
<1>6. ASSUME ClearSpyLogs
      PROVE  TypeOK'
  BY <1>6 DEF ClearSpyLogs, registry, TypeOK
<1>7. ASSUME NEW failing \in SUBSET Saved, Restore(failing)
      PROVE  TypeOK'
  <2>1. failing \subseteq Names
    BY DEF Saved
  <2>2. QED
    BY <1>7, <2>1 DEF Restore, Saved, TypeOK
<1>8. ASSUME NEW n \in Names, NEW v \in Plain, CodeAssigns(n, v)
      PROVE  TypeOK'
  BY <1>8 DEF CodeAssigns, Values, registry, logs,
              TypeOK
<1>9. ASSUME NEW n \in Names, CodeDeletes(n)
      PROVE  TypeOK'
  BY <1>9 DEF CodeDeletes, registry, logs,
              TypeOK
<1>10. CASE UNCHANGED vars
  BY <1>10 DEF vars, TypeOK
<1>11. QED
  BY <1>1, <1>2, <1>3, <1>4, <1>5, <1>6, <1>7, <1>8, <1>9, <1>10 DEF Next

LEMMA InvariantInit == Init => TypeOK
  BY ValuesAssumption, BoundsAssumption
  DEF Init, TypeOK, Values

\* The values of lib/mock.q's registries keep their types whatever the tests do.
THEOREM TypeCorrect == Spec => []TypeOK
<1>1. TypeOK /\ [Next]_vars => TypeOK'
  BY InvariantStep
<1>2. QED
  BY InvariantInit, <1>1, PTL DEF Spec


-----------------------------------------------------------------------------
\* A first substitution fixes the origin, a later one leaves it, and one that
\* finds the name deleted loses it.
LEMMA SubstituteRefines ==
  ASSUME TypeOK, NEW n \in Names, NEW v \in Values, Substitute(n, v)
  PROVE  Scope!Substitute(n, v)
<1> USE ValuesAssumption DEF TypeOK, Substitute
<1>1. ASSUME NEW m \in Names
      PROVE  Origin'[m] = IF m = n /\ Origin[m] = Unsaved THEN env[m] ELSE Origin[m]
  <2>1. CASE m # n
    BY <2>1 DEF Origin
  <2>2. CASE m = n /\ env[n] = Absent
    BY <2>2 DEF Origin
  <2>3. CASE m = n /\ env[n] # Absent
    BY <2>3 DEF Origin
  <2>4. QED
    BY <2>1, <2>2, <2>3
<1>2. Origin' = [Origin EXCEPT ![n] = IF @ = Unsaved THEN env[n] ELSE @]
  BY <1>1 DEF Origin
<1>3. Lost' = IF env[n] = Absent /\ Origin[n] \notin {Unsaved, Absent}
              THEN Lost \union {n} ELSE Lost
  <2>1. CASE env[n] = Absent
    BY <2>1 DEF Lost, Origin
  <2>2. CASE env[n] # Absent
    BY <2>2 DEF Lost, Origin
  <2>3. QED
    BY <2>1, <2>2
<1>4. QED
  BY <1>2, <1>3 DEF Scope!Substitute

LEMMA RestoreRefines ==
  ASSUME TypeOK, NEW failing \in SUBSET Saved, Restore(failing)
  PROVE  /\ failing \in SUBSET {n \in Names : Origin[n] \notin {Unsaved, Absent}}
         /\ Scope!Restore(failing)
<1> USE ValuesAssumption DEF TypeOK, Saved
<1>1. ASSUME NEW n \in failing
      PROVE  n \in Names /\ Origin[n] \notin {Unsaved, Absent}
  BY DEF Origin
<1>2. ASSUME NEW n \in Names
      PROVE  env'[n] = IF n \in Lost THEN Absent
                       ELSE IF Origin[n] = Unsaved \/ n \in failing THEN env[n] ELSE Origin[n]
  <2>1. CASE n \in removeList
    BY <2>1 DEF Restore, Origin, Lost
  <2>2. CASE n \notin removeList
    BY <2>2 DEF Restore, Origin, Lost
  <2>3. QED
    BY <2>1, <2>2
<1>3. env' = [n \in Names |-> IF n \in Lost THEN Absent
                              ELSE IF Origin[n] = Unsaved \/ n \in failing THEN env[n]
                              ELSE Origin[n]]
  BY <1>2 DEF Restore
<1>4. Origin' = [n \in Names |-> Unsaved] /\ Lost' = {}
  BY DEF Restore, Origin, Lost
<1>5. QED
  BY <1>1, <1>3, <1>4 DEF Restore, Scope!Restore

\* A step that touches neither the environment nor the two lists stutters.
LEMMA UnseenStutters ==
  ASSUME UNCHANGED <<env, registry, cleanupErrors>>
  PROVE  UNCHANGED Scope!vars
  BY DEF registry, Origin, Lost, Scope!vars

LEMMA RefinementStep ==
  ASSUME TypeOK, [Next]_vars
  PROVE  [Scope!Next]_Scope!vars
<1>1. ASSUME NEW n \in Names, NEW v \in Plain, Mock(n, v)
      PROVE  Scope!Next
  <2>1. v \in Values /\ Substitute(n, v)
    BY <1>1 DEF Mock, Values
  <2>2. QED
    BY <2>1, SubstituteRefines DEF Scope!Next
<1>2. ASSUME NEW n \in Names, NEW d \in Dicts, PartialMock(n, d)
      PROVE  Scope!Next
  BY <1>1, <1>2 DEF PartialMock, Plain
<1>3. ASSUME NEW n \in Names, NEW impl \in Lambdas \union Wrappers, Spy(n, impl)
      PROVE  Scope!Next
  <2>1. SpyOf(n, IsWide(env[n])) \in Values /\ Substitute(n, SpyOf(n, IsWide(env[n])))
    BY <1>3, WidthIsBoolean, WrapperValues DEF Spy
  <2>2. QED
    BY <2>1, SubstituteRefines DEF Scope!Next
<1>4. ASSUME NEW n \in Names, NEW k \in 1 .. MaxLen, MockSequence(n, k)
      PROVE  [Scope!Next]_Scope!vars
  <2>1. SeqOf(n, IsWide(env[n])) \in Values
    BY WidthIsBoolean, WrapperValues
  <2>2. CASE Substitute(n, SeqOf(n, IsWide(env[n])))
    BY <2>1, <2>2, SubstituteRefines DEF Scope!Next
  <2>3. CASE UNCHANGED <<env, registry, cleanupErrors>>
    BY <2>3, UnseenStutters
  <2>4. QED
    BY <1>4, <2>2, <2>3 DEF MockSequence
<1>5. ASSUME NEW n \in Names, Call(n)
      PROVE  [Scope!Next]_Scope!vars
  BY <1>5, UnseenStutters DEF Call
<1>6. CASE ClearSpyLogs
  BY <1>6, UnseenStutters DEF ClearSpyLogs
<1>7. ASSUME NEW failing \in SUBSET Saved, Restore(failing)
      PROVE  Scope!Next
  BY <1>7, RestoreRefines DEF Scope!Next
<1>8. ASSUME NEW n \in Names, NEW v \in Plain, CodeAssigns(n, v)
      PROVE  Scope!Next
  <2>1. Scope!CodeWrites(n, v) /\ v \in Values
    BY <1>8 DEF CodeAssigns, registry, Origin, Lost, Scope!CodeWrites, Values
  <2>2. QED
    BY <2>1 DEF Scope!Next
<1>9. ASSUME NEW n \in Names, CodeDeletes(n)
      PROVE  Scope!Next
  <2>1. Scope!CodeWrites(n, Absent)
    BY <1>9 DEF CodeDeletes, registry, Origin, Lost, Scope!CodeWrites
  <2>2. QED
    BY <2>1 DEF Scope!Next
<1>10. CASE UNCHANGED vars
  BY <1>10, UnseenStutters DEF vars, registry
<1>11. QED
  BY <1>1, <1>2, <1>3, <1>4, <1>5, <1>6, <1>7, <1>8, <1>9, <1>10 DEF Next

\* lib/mock.q keeps the promise of MockScope: .tst.restore puts back exactly the
\* values names had before their first substitution, however mocks, spies,
\* sequences, direct writes and deletions were laid over one another; the only
\* original it loses is that of a name mocked again after it was deleted.
THEOREM Restores == Spec => RestoresOriginals
<1>1. Init => Scope!Init
  BY ValuesAssumption DEF Init, Scope!Init, Origin, Lost, Values
<1>2. TypeOK /\ [Next]_vars => [Scope!Next]_Scope!vars
  BY RefinementStep
<1>3. QED
  BY TypeCorrect, <1>1, <1>2, PTL DEF Spec, Scope!Spec, RestoresOriginals

-----------------------------------------------------------------------------
\* A spy wrapper still installed is one restore will undo, or one it reported.
WrappersKnown ==
  \A n \in Names :
    /\ store[n] \in Spies(n) => n \in cleanupErrors
    /\ env[n] \in Spies(n) => n \in removeList \union Saved \union cleanupErrors

WInv == TypeOK /\ WrappersKnown /\ WrappersBacked

\* A spy wrapper is no plain value, no sequence and not Absent.
LEMMA SpyDistinct ==
  ASSUME NEW n \in Names, NEW s \in Spies(n)
  PROVE  /\ s \in Values /\ s \notin Plain /\ s \notin Sequences
         /\ s # Absent /\ s # Unsaved
         /\ \A m \in Names : s \in Spies(m) => n = m
<1>1. s \in Wrappers
  BY DEF Wrappers
<1>2. PICK wide \in BOOLEAN : s = <<"spy", n, wide>>
  BY DEF Spies, SpyOf
<1>3. s \notin Sequences
  BY <1>2 DEF Sequences, SeqOf
<1>4. \A m \in Names : s \in Spies(m) => n = m
  BY <1>2 DEF Spies, SpyOf
<1> QED BY <1>1, <1>3, <1>4, ValuesAssumption DEF Values

\* Substituting anything but a spy of the same name keeps both facts.
LEMMA SubstituteWrappers ==
  ASSUME WInv, NEW n \in Names, NEW v \in Values, Substitute(n, v),
         v \in Spies(n) => impls'[n] # NoImpl,
         \A m \in Names : m # n \/ v \notin Spies(n) => impls'[m] = impls[m]
  PROVE  WrappersKnown' /\ WrappersBacked'
<1> USE SpyDistinct DEF WInv, TypeOK, Substitute, Saved
<1>1. ASSUME NEW m \in Names
      PROVE  /\ store'[m] \in Spies(m) => m \in cleanupErrors'
             /\ env'[m] \in Spies(m) => m \in removeList' \union Saved' \union cleanupErrors'
             /\ env'[m] \in Spies(m) => impls'[m] # NoImpl \/ m \in cleanupErrors'
  <2>1. CASE m # n
    BY <2>1 DEF WrappersKnown, WrappersBacked
  <2>2. CASE m = n /\ env[n] = Absent
    BY <2>2 DEF WrappersKnown, WrappersBacked
  <2>3. CASE m = n /\ env[n] # Absent
    <3>1. store'[n] \in Spies(n) => n \in cleanupErrors
      BY <2>3 DEF WrappersKnown
    <3>2. n \in removeList' \union Saved'
      BY <2>3, ValuesAssumption
    <3>3. env'[n] \in Spies(n) => impls'[n] # NoImpl
      BY <2>3
    <3>4. QED
      BY <2>3, <3>1, <3>2, <3>3
  <2>4. QED
    BY <2>1, <2>2, <2>3
<1>2. QED
  BY <1>1 DEF WrappersKnown, WrappersBacked

LEMMA WrappersUnseen ==
  ASSUME WInv, UNCHANGED <<env, store, removeList, impls, cleanupErrors>>
  PROVE  WrappersKnown' /\ WrappersBacked'
  BY DEF WInv, WrappersKnown, WrappersBacked, Saved

LEMMA WrappersStep ==
  ASSUME WInv, [Next]_vars
  PROVE  WInv'
<1>0. TypeOK'
  BY InvariantStep DEF WInv
<1> USE ValuesAssumption, SpyDistinct
<1>1. ASSUME NEW n \in Names, NEW v \in Plain, Mock(n, v)
      PROVE  WrappersKnown' /\ WrappersBacked'
  <2>1. v \in Values /\ v \notin Spies(n)
    BY DEF Values
  <2>2. Substitute(n, v) /\ impls' = impls
    BY <1>1 DEF Mock, logs
  <2>3. QED
    BY <2>1, <2>2, SubstituteWrappers
<1>2. ASSUME NEW n \in Names, NEW d \in Dicts, PartialMock(n, d)
      PROVE  WrappersKnown' /\ WrappersBacked'
  BY <1>1, <1>2 DEF PartialMock, Plain
<1>3. ASSUME NEW n \in Names, NEW impl \in Lambdas \union Wrappers, Spy(n, impl)
      PROVE  WrappersKnown' /\ WrappersBacked'
  <2>1. impl # NoImpl
    BY DEF Values, Plain
  <2>2. impls' = [impls EXCEPT ![n] = impl] /\ Substitute(n, SpyOf(n, IsWide(env[n])))
    BY <1>3 DEF Spy
  <2>3. /\ impls'[n] # NoImpl
        /\ \A m \in Names : m # n => impls'[m] = impls[m]
    BY <2>1, <2>2 DEF WInv, TypeOK
  <2>4. SpyOf(n, IsWide(env[n])) \in Values /\ SpyOf(n, IsWide(env[n])) \in Spies(n)
    BY WidthIsBoolean, WrapperValues DEF Spies
  <2>5. QED
    BY <2>2, <2>3, <2>4, SubstituteWrappers
<1>4. ASSUME NEW n \in Names, NEW k \in 1 .. MaxLen, MockSequence(n, k)
      PROVE  WrappersKnown' /\ WrappersBacked'
  <2>1. SeqOf(n, IsWide(env[n])) \in Values /\ SeqOf(n, IsWide(env[n])) \notin Spies(n)
    BY WidthIsBoolean, WrapperValues
  <2>2. impls' = impls
    BY <1>4 DEF MockSequence
  <2>3. CASE Substitute(n, SeqOf(n, IsWide(env[n])))
    BY <2>1, <2>2, <2>3, SubstituteWrappers
  <2>4. CASE UNCHANGED <<env, registry, cleanupErrors>>
    BY <2>2, <2>4 DEF WInv, WrappersKnown, WrappersBacked, registry, Saved
  <2>5. QED
    BY <1>4, <2>3, <2>4 DEF MockSequence
<1>5. ASSUME NEW n \in Names, Call(n)
      PROVE  WrappersKnown' /\ WrappersBacked'
  BY <1>5 DEF Call, registry, WInv, WrappersKnown, WrappersBacked, Saved
<1>6. ASSUME ClearSpyLogs
      PROVE  WrappersKnown' /\ WrappersBacked'
  <2>1. UNCHANGED <<env, store, removeList, impls, cleanupErrors>>
    BY <1>6 DEF ClearSpyLogs, registry
  <2>2. QED
    BY ONLY <2>1, WInv, WrappersUnseen
<1>7. ASSUME NEW failing \in SUBSET Saved, Restore(failing)
      PROVE  WrappersKnown' /\ WrappersBacked'
  <2>1. ASSUME NEW n \in Names
        PROVE  /\ store'[n] = Unsaved
               /\ env'[n] \in Spies(n) => n \in cleanupErrors'
    BY <1>7 DEF Restore, Saved, WInv, WrappersKnown
  <2>2. QED
    BY <2>1 DEF WrappersKnown, WrappersBacked
<1>8. ASSUME NEW n \in Names, NEW v \in Plain, CodeAssigns(n, v)
      PROVE  WrappersKnown' /\ WrappersBacked'
  BY <1>8 DEF CodeAssigns, registry, logs, WInv, TypeOK, WrappersKnown,
              WrappersBacked, Saved
<1>9. ASSUME NEW n \in Names, CodeDeletes(n)
      PROVE  WrappersKnown' /\ WrappersBacked'
  BY <1>9 DEF CodeDeletes, registry, logs, WInv, TypeOK, WrappersKnown,
              WrappersBacked, Saved
<1>10. ASSUME UNCHANGED vars
      PROVE  WrappersKnown' /\ WrappersBacked'
  <2>1. UNCHANGED <<env, store, removeList, impls, cleanupErrors>>
    BY <1>10 DEF vars
  <2>2. QED
    BY ONLY <2>1, WInv, WrappersUnseen
<1>11. QED
  BY <1>0, <1>1, <1>2, <1>3, <1>4, <1>5, <1>6, <1>7, <1>8, <1>9, <1>10, [Next]_vars
  DEF Next, WInv, vars

\* A spy wrapper that code can still reach forwards to an implementation, or its
\* name was reported as not restored.
THEOREM WrappersForward == Spec => []WrappersBacked
<1>1. Init => WInv
  BY InvariantInit, SpyDistinct
  DEF Init, WInv, WrappersKnown, WrappersBacked
<1>2. WInv /\ [Next]_vars => WInv'
  BY WrappersStep
<1>3. WInv => WrappersBacked
  BY DEF WInv
<1>4. QED
  BY <1>1, <1>2, <1>3, PTL DEF Spec

=============================================================================
