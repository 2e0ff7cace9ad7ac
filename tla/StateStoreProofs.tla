-------------------------- MODULE StateStoreProofs --------------------------
(***************************************************************************)
(* Proofs about StateStore for any set of keys, with writes that may fail  *)
(* at every step and a process that may die at every step.                 *)
(***************************************************************************)
EXTENDS StateStore, TLAPS

\* A write changes the file in one step: before it the file is what it was at
\* the call, after it all of the memory.
DiskFollowsStep ==
    /\ step \in {"check_path", "dump", "replace"} => disk = before
    /\ step = "chmod" => disk = memory

\* RestartKeepsSettings is not inductive: a write replaces the whole file by
\* the memory, so the memory must hold every acknowledged setting as well,
\* also the ones that the present call and earlier failed ones are not about.
SettledEverywhere ==
    \A k \in settled : disk[k] = acked[k] /\ memory[k] = acked[k]

IInv == TypeOK /\ TempIsRemoved /\ DiskFollowsStep /\ SettledEverywhere

-----------------------------------------------------------------------------

LEMMA InitIInv == Init => IInv
BY DEF Init, IInv, TypeOK, TempIsRemoved, DiskFollowsStep, SettledEverywhere,
       Empty, Values

\* A new value for one key leaves a function from Keys to Values.
LEMMA SetKey ==
    ASSUME NEW f \in [Keys -> Values], NEW k \in Keys, NEW v \in Values
    PROVE  /\ [f EXCEPT ![k] = v] \in [Keys -> Values]
           /\ [f EXCEPT ![k] = v][k] = v
           /\ \A j \in Keys \ {k} : [f EXCEPT ![k] = v][j] = f[j]
OBVIOUS

LEMMA SetStep ==
    ASSUME IInv, NEW k \in Keys, NEW v \in Values, Set(k, v)
    PROVE  IInv'
<1>1. TypeOK'
  BY SetKey DEF IInv, TypeOK, Set
<1>2. TempIsRemoved' /\ DiskFollowsStep'
  BY DEF IInv, TempIsRemoved, DiskFollowsStep, Set
<1>3. SettledEverywhere'
  BY SetKey DEF IInv, TypeOK, SettledEverywhere, Set
<1> QED BY <1>1, <1>2, <1>3 DEF IInv

\* The acknowledgement: what was set is in the file.
LEMMA SetReturnsStep == IInv /\ SetReturns => IInv'
<1> SUFFICES ASSUME IInv, SetReturns PROVE IInv'
  OBVIOUS
<1>1. memory[key] \in Values /\ disk = memory
  BY DEF IInv, TypeOK, DiskFollowsStep, SetReturns
<1>2. TypeOK'
  BY <1>1, SetKey DEF IInv, TypeOK, SetReturns
<1>3. TempIsRemoved' /\ DiskFollowsStep'
  BY DEF IInv, TempIsRemoved, DiskFollowsStep, SetReturns
<1>4. SettledEverywhere'
  BY <1>1, SetKey DEF IInv, TypeOK, SettledEverywhere, SetReturns
<1> QED BY <1>2, <1>3, <1>4 DEF IInv

\* A new process takes the file for its memory, or starts without settings.
LEMMA RestartStep == IInv /\ Restart => IInv'
<1> SUFFICES ASSUME IInv, Restart PROVE IInv'
  OBVIOUS
<1>1. Empty \in [Keys -> Values]
  BY DEF Empty, Values
<1>2. TypeOK'
  BY <1>1 DEF IInv, TypeOK, Restart
<1>3. TempIsRemoved' /\ DiskFollowsStep'
  BY DEF TempIsRemoved, DiskFollowsStep, Restart
<1>4. SettledEverywhere'
  BY DEF IInv, TypeOK, SettledEverywhere, Restart
<1> QED BY <1>2, <1>3, <1>4 DEF IInv

\* The steps of a write and the symlink that appears under it.
LEMMA WriteStep ==
    ASSUME IInv,
           \/ RefuseSymlink \/ MakeTemp \/ MakeTempFails \/ Dump \/ Replace
           \/ WriteFails \/ WriteAndUnlinkFail \/ FlipSymlink
    PROVE  IInv'
<1>1. CASE RefuseSymlink
  BY <1>1 DEF IInv, TypeOK, TempIsRemoved, DiskFollowsStep, SettledEverywhere,
              RefuseSymlink, Raise, history
<1>2. CASE MakeTemp
  BY <1>2 DEF IInv, TypeOK, TempIsRemoved, DiskFollowsStep, SettledEverywhere,
              MakeTemp, history
<1>3. CASE MakeTempFails
  BY <1>3 DEF IInv, TypeOK, TempIsRemoved, DiskFollowsStep, SettledEverywhere,
              MakeTempFails, Raise, history
<1>4. CASE Dump
  BY <1>4 DEF IInv, TypeOK, TempIsRemoved, DiskFollowsStep, SettledEverywhere,
              Dump, history
<1>5. CASE Replace
  BY <1>5 DEF IInv, TypeOK, TempIsRemoved, DiskFollowsStep, SettledEverywhere,
              Replace, history
<1>6. CASE WriteFails
  BY <1>6 DEF IInv, TypeOK, TempIsRemoved, DiskFollowsStep, SettledEverywhere,
              WriteFails, Raise, history
<1>7. CASE WriteAndUnlinkFail
  BY <1>7 DEF IInv, TypeOK, TempIsRemoved, DiskFollowsStep, SettledEverywhere,
              WriteAndUnlinkFail, Raise, history
<1>8. CASE FlipSymlink
  BY <1>8 DEF IInv, TypeOK, TempIsRemoved, DiskFollowsStep, SettledEverywhere,
              FlipSymlink, history
<1> QED BY <1>1, <1>2, <1>3, <1>4, <1>5, <1>6, <1>7, <1>8

LEMMA IInvStep == IInv /\ [Next]_vars => IInv'
<1> SUFFICES ASSUME IInv, [Next]_vars PROVE IInv'
  OBVIOUS
<1>1. ASSUME UNCHANGED vars PROVE IInv'
  BY <1>1 DEF IInv, TypeOK, TempIsRemoved, DiskFollowsStep, SettledEverywhere, vars
<1> QED BY <1>1, SetStep, SetReturnsStep, RestartStep, WriteStep DEF Next

LEMMA Invariance == Spec => []IInv
BY InitIInv, IInvStep, PTL DEF Spec

-----------------------------------------------------------------------------

\* Memory, file and histories keep their types through every failure.
THEOREM StoreTypeCorrect == Spec => []TypeOK
<1>1. IInv => TypeOK
  BY DEF IInv
<1> QED BY <1>1, Invariance, PTL

\* Wherever a write stops, the file holds what it held at the call or all of
\* the memory.
THEOREM AtomicWrites == Spec => []WritesAreAtomic
<1>1. IInv => WritesAreAtomic
  BY DEF IInv, TypeOK, DiskFollowsStep, WritesAreAtomic
<1> QED BY <1>1, Invariance, PTL

\* No setter that returns or raises leaves its temporary file behind, unless the
\* unlink is refused.
THEOREM NoTempLeft == Spec => []TempIsRemoved
<1>1. IInv => TempIsRemoved
  BY DEF IInv
<1> QED BY <1>1, Invariance, PTL

\* A restart at any moment brings back every acknowledged setting.
THEOREM SettingsSurvive == Spec => []RestartKeepsSettings
<1>1. IInv => RestartKeepsSettings
  BY DEF IInv, SettledEverywhere, RestartKeepsSettings
<1> QED BY <1>1, Invariance, PTL
=============================================================================
