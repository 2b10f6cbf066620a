---------------------------- MODULE DeleteTuples ----------------------------
(***************************************************************************)
(* DeleteTuples of internal/openfga/tuples.go: tuples are deleted in        *)
(* batches, a batch that times out is tried again in halves, and the size   *)
(* that got through is kept. The tuple at position i of the list is i: the  *)
(* list names none twice (objectTuples.childTypes).                         *)
(***************************************************************************)
EXTENDS Integers

CONSTANTS
    N,                  \* how many tuples to delete
    MaxTuplesPerWrite,  \* OpenFGA's limit
    Foreign             \* tuples of other objects

ASSUME CountTypes == N \in Nat /\ MaxTuplesPerWrite \in Nat \ {0}
ASSUME ForeignType == Foreign \cap (1..N) = {}

VARIABLES
    stored,         \* the tuples in OpenFGA
    start,          \* how many the loop has behind it
    batchSize,
    pc,             \* "loop", "write", "done" or "failed"
    ctxEnded,       \* the context is cancelled, or past its deadline
    late            \* batches that timed out and may still be applied

vars == <<stored, start, batchSize, pc, ctxEnded, late>>

Asked == 1..N

(* The batch stays within what a write may hold and is never empty, as the    *)
(* halving and the limit have it. *)
TypeOK ==
    /\ stored \subseteq Asked \cup Foreign
    /\ start \in 0..N /\ batchSize \in 1..MaxTuplesPerWrite
    /\ pc \in {"loop", "write", "done", "failed"}
    /\ pc = "write" => start < N
    /\ pc = "done" => start = N
    /\ ctxEnded \in BOOLEAN
    /\ late \subseteq SUBSET Asked

-----------------------------------------------------------------------------
(* tuples[start:min(start+batchSize, len(tuples))] *)
BatchEnd == IF start + batchSize < N THEN start + batchSize ELSE N

batch == (start + 1)..BatchEnd
length == BatchEnd - start

Loop ==
    /\ pc = "loop"
    /\ pc' = IF start >= N THEN "done" ELSE IF ctxEnded THEN "failed" ELSE "write"
    /\ UNCHANGED <<stored, start, batchSize, ctxEnded, late>>

(* onMissingIgnore: tuples that are gone already do not matter. *)
WriteSucceeds ==
    /\ pc = "write"
    /\ stored' = stored \ batch
    /\ start' = start + length
    /\ pc' = "loop"
    /\ UNCHANGED <<batchSize, ctxEnded, late>>

(* Goes on behind a batch that timed out. *)
WriteTimesOutSkipping ==
    /\ pc = "write"
    /\ \/ stored' \in {stored, stored \ batch} /\ UNCHANGED late
       \/ late' = late \cup {batch} /\ UNCHANGED stored
    /\ IF ~ctxEnded /\ length > 1
       THEN pc' = "loop" /\ batchSize' = length \div 2 /\ start' = start + length
       ELSE pc' = "failed" /\ UNCHANGED <<batchSize, start>>
    /\ UNCHANGED ctxEnded

(* A batch of one is halved as well. *)
WriteTimesOutHalving ==
    /\ pc = "write"
    /\ \/ stored' \in {stored, stored \ batch} /\ UNCHANGED late
       \/ late' = late \cup {batch} /\ UNCHANGED stored
    /\ IF ~ctxEnded
       THEN pc' = "loop" /\ batchSize' = length \div 2
       ELSE pc' = "failed" /\ UNCHANGED batchSize
    /\ UNCHANGED <<start, ctxEnded>>

(* A deadline leaves the outcome open: the batch is not deleted, is, or will  *)
(* be. Half of it is next, unless the context is over or nothing is left to   *)
(* halve. *)
WriteTimesOut ==
    /\ pc = "write"
    /\ \/ stored' \in {stored, stored \ batch} /\ UNCHANGED late
       \/ late' = late \cup {batch} /\ UNCHANGED stored
    /\ IF ~ctxEnded /\ length > 1
       THEN pc' = "loop" /\ batchSize' = length \div 2
       ELSE pc' = "failed" /\ UNCHANGED batchSize
    /\ UNCHANGED <<start, ctxEnded>>

(* Any other error ends it, whether or not the batch was deleted. *)
WriteFails ==
    /\ pc = "write"
    /\ stored' \in {stored, stored \ batch}
    /\ pc' = "failed"
    /\ UNCHANGED <<start, batchSize, ctxEnded, late>>

-----------------------------------------------------------------------------
(* The surroundings.                                                         *)

ContextEnds ==
    /\ ~ctxEnded /\ pc \in {"loop", "write"}
    /\ ctxEnded' = TRUE
    /\ UNCHANGED <<stored, start, batchSize, pc, late>>

LateDeleteLands ==
    /\ \E b \in late : stored' = stored \ b /\ late' = late \ {b}
    /\ UNCHANGED <<start, batchSize, pc, ctxEnded>>

OtherWrites ==
    /\ \E t \in Asked \cup Foreign : stored' = stored \cup {t}
    /\ UNCHANGED <<start, batchSize, pc, ctxEnded, late>>

OtherDeletes ==
    /\ \E t \in Asked : stored' = stored \ {t}
    /\ UNCHANGED <<start, batchSize, pc, ctxEnded, late>>

-----------------------------------------------------------------------------
Init ==
    /\ stored \in SUBSET (Asked \cup Foreign)
    /\ start = 0 /\ batchSize = MaxTuplesPerWrite
    /\ pc = "loop" /\ ctxEnded \in BOOLEAN /\ late = {}

Call == Loop \/ WriteSucceeds \/ WriteTimesOut \/ WriteFails

Next == Call \/ ContextEnds \/ LateDeleteLands \/ OtherWrites \/ OtherDeletes

Spec == Init /\ [][Next]_vars

(* The loop runs on and every Write comes back, with whatever answer. *)
FairSpec == Spec /\ WF_vars(Call)

-----------------------------------------------------------------------------
(* What the call has seen gone is the part of the list behind it. *)
seenGone == 1..start
outcome == IF pc \in {"done", "failed"} THEN pc ELSE "running"

Promise == INSTANCE TupleDeletion WITH gone <- seenGone, result <- outcome

(* Whatever times out, lands late, is written or deleted by others in         *)
(* between, DeleteTuples deletes nothing but what it was given, reports       *)
(* success only when each tuple has been gone since the call, and returns     *)
(* after finitely many halvings: what a clear relies on (TupleDeletion). *)
DeletesAsPromised == Promise!FairSpec

(* The safety half of it. *)
DeletesOnlyAsPromised == Promise!Spec

=============================================================================
