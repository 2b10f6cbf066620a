------------------------- MODULE DeleteTuplesProofs -------------------------
(***************************************************************************)
(* DeleteTuples keeps its promise for every number of tuples and every      *)
(* limit: the safety half of TupleDeletion, by a refinement proof.          *)
(***************************************************************************)
EXTENDS DeleteTuples, TLAPS

(* The batch about to be written is a non-empty part of the list behind      *)
(* start, so the next start is within the list, and half of a batch of more  *)
(* than one is a legal size (DeleteTuples' slice bounds). *)
LEMMA BatchBounds ==
    ASSUME TypeOK, pc = "write"
    PROVE  /\ length \in 1..batchSize
           /\ BatchEnd = start + length /\ BatchEnd \in 1..N
           /\ batch \in SUBSET Asked
           /\ 1..BatchEnd = seenGone \cup batch
           /\ length > 1 => length \div 2 \in 1..MaxTuplesPerWrite
  <1>1. N \in Nat /\ MaxTuplesPerWrite \in Nat \ {0} /\ start \in 0..N
        /\ batchSize \in 1..MaxTuplesPerWrite /\ start < N
    BY CountTypes DEF TypeOK
  <1>2. length \in 1..batchSize /\ BatchEnd = start + length /\ BatchEnd \in 1..N
    BY <1>1 DEF length, BatchEnd
  <1>3. batch \in SUBSET Asked
    BY <1>1, <1>2 DEF batch, Asked
  <1>4. 1..BatchEnd = seenGone \cup batch
    BY <1>1, <1>2 DEF batch, seenGone
  <1>5. ASSUME length > 1 PROVE length \div 2 \in 1..MaxTuplesPerWrite
    BY <1>1, <1>2, <1>5
  <1>. QED BY <1>2, <1>3, <1>4, <1>5

(* A delete need not be seen. *)
LEMMA NothingSeen ==
    ASSUME NEW g, NEW S
    PROVE  g \in {g \cup R : R \in SUBSET S}
  <1>1. {} \in SUBSET S /\ g = g \cup {}
    OBVIOUS
  <1>. QED BY <1>1

(* Every step keeps the types, the batch size among them (DeleteTuples). *)
LEMMA TypeStep == TypeOK /\ [Next]_vars => TypeOK'
  <1>. SUFFICES ASSUME TypeOK, [Next]_vars PROVE TypeOK'
    OBVIOUS
  <1>1. CASE Loop
    BY <1>1, CountTypes DEF TypeOK, Loop
  <1>2. CASE WriteSucceeds
    <2>1. start' \in 0..N
      BY <1>2, BatchBounds, CountTypes DEF WriteSucceeds, TypeOK
    <2>. QED BY <1>2, <2>1 DEF TypeOK, WriteSucceeds
  <1>3. CASE WriteTimesOut
    <2>1. batchSize' \in 1..MaxTuplesPerWrite
      BY <1>3, BatchBounds DEF WriteTimesOut, TypeOK
    <2>2. late' \subseteq SUBSET Asked /\ stored' \subseteq Asked \cup Foreign
      BY <1>3, BatchBounds DEF WriteTimesOut, TypeOK
    <2>. QED BY <1>3, <2>1, <2>2 DEF TypeOK, WriteTimesOut
  <1>4. CASE WriteFails
    BY <1>4 DEF TypeOK, WriteFails
  <1>5. CASE ContextEnds
    BY <1>5 DEF TypeOK, ContextEnds
  <1>6. CASE LateDeleteLands
    BY <1>6 DEF TypeOK, LateDeleteLands
  <1>7. CASE OtherWrites
    BY <1>7 DEF TypeOK, OtherWrites
  <1>8. CASE OtherDeletes
    BY <1>8 DEF TypeOK, OtherDeletes
  <1>9. CASE UNCHANGED vars
    BY <1>9 DEF TypeOK, vars
  <1>. QED BY <1>1, <1>2, <1>3, <1>4, <1>5, <1>6, <1>7, <1>8, <1>9 DEF Next, Call

(* However often batches time out, the size of the next one is at least one   *)
(* and within OpenFGA's limit, and the loop never runs past the list          *)
(* (DeleteTuples). *)
THEOREM TypeCorrect == Spec => []TypeOK
  <1>1. Init => TypeOK
    BY CountTypes DEF Init, TypeOK
  <1>. QED BY <1>1, TypeStep, PTL DEF Spec

(* DeleteTuples' steps are steps of the promise: a batch that is deleted is   *)
(* seen gone, one that is not only may be gone. *)
LEMMA StepAsPromised == TypeOK /\ [Next]_vars => [Promise!Next]_(Promise!vars)
  <1>. SUFFICES ASSUME TypeOK, [Next]_vars PROVE [Promise!Next]_(Promise!vars)
    OBVIOUS
  <1>. USE DEF Promise!Next, Promise!vars, Promise!Remove, Promise!Return, Promise!Others
  <1>1. CASE Loop
    <2>1. CASE start >= N
      <3>1. start = N
        BY <2>1, CountTypes DEF TypeOK
      <3>2. seenGone = Asked
        BY <3>1 DEF seenGone, Asked
      <3>. QED BY <1>1, <2>1, <3>2 DEF Loop, outcome, seenGone
    <2>2. CASE ~(start >= N)
      BY <1>1, <2>2 DEF Loop, outcome, seenGone
    <2>. QED BY <2>1, <2>2
  <1>2. CASE WriteSucceeds
    <2>1. batch \in SUBSET Asked /\ stored' = stored \ batch
      BY <1>2, BatchBounds DEF WriteSucceeds
    <2>2. seenGone' = seenGone \cup batch
      BY <1>2, BatchBounds DEF WriteSucceeds, seenGone
    <2>3. outcome' = outcome
      BY <1>2 DEF WriteSucceeds, outcome
    <2>. QED BY <2>1, <2>2, <2>3
  <1>3. CASE WriteTimesOut
    <2>1. batch \in SUBSET Asked /\ stored' \in {stored, stored \ batch}
      BY <1>3, BatchBounds DEF WriteTimesOut
    <2>2. \E S \in SUBSET Asked : stored' = stored \ S
      BY <2>1, stored \ {} = stored, {} \in SUBSET Asked
    <2>3. seenGone' = seenGone
      BY <1>3 DEF WriteTimesOut, seenGone
    <2>4. CASE pc' = "failed"
      BY <1>3, <2>2, <2>3, <2>4 DEF WriteTimesOut, outcome
    <2>5. CASE pc' = "loop"
      <3>1. outcome' = outcome
        BY <1>3, <2>5 DEF WriteTimesOut, outcome
      <3>. QED BY <2>2, <2>3, <3>1, NothingSeen
    <2>. QED BY <1>3, <2>4, <2>5 DEF WriteTimesOut
  <1>4. CASE WriteFails
    <2>1. batch \in SUBSET Asked /\ stored' \in {stored, stored \ batch}
      BY <1>4, BatchBounds DEF WriteFails
    <2>2. \E S \in SUBSET Asked : stored' = stored \ S
      BY <2>1, stored \ {} = stored, {} \in SUBSET Asked
    <2>. QED BY <1>4, <2>2 DEF WriteFails, outcome, seenGone
  <1>5. CASE ContextEnds
    BY <1>5 DEF ContextEnds, outcome, seenGone
  <1>6. CASE LateDeleteLands
    <2>1. \E S \in SUBSET Asked : stored' = stored \ S
      BY <1>6 DEF LateDeleteLands, TypeOK
    <2>2. seenGone' = seenGone /\ outcome' = outcome
      BY <1>6 DEF LateDeleteLands, seenGone, outcome
    <2>. QED BY <2>1, <2>2, NothingSeen
  <1>7. CASE OtherWrites
    BY <1>7 DEF OtherWrites, seenGone, outcome
  <1>8. CASE OtherDeletes
    <2>1. \E S \in SUBSET Asked : stored' = stored \ S
      BY <1>8 DEF OtherDeletes
    <2>2. seenGone' = seenGone /\ outcome' = outcome
      BY <1>8 DEF OtherDeletes, seenGone, outcome
    <2>. QED BY <2>1, <2>2, NothingSeen
  <1>9. CASE UNCHANGED vars
    BY <1>9 DEF vars, seenGone, outcome
  <1>. QED BY <1>1, <1>2, <1>3, <1>4, <1>5, <1>6, <1>7, <1>8, <1>9 DEF Next, Call

(* For every list and every limit, DeleteTuples deletes nothing but what it   *)
(* was given and reports success only when each tuple has been gone since the *)
(* call, whatever times out, lands late or is written by others               *)
(* (DeleteTuples, as objectTuples.clear relies on it). *)
THEOREM Refinement == Spec => DeletesOnlyAsPromised
  <1>1. Init => Promise!Init
    BY CountTypes DEF Init, Promise!Init, seenGone, outcome
  <1>. QED BY <1>1, StepAsPromised, TypeCorrect, PTL DEF Spec, DeletesOnlyAsPromised, Promise!Spec
=============================================================================
