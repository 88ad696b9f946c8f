---------------------------- MODULE PublisherRun ----------------------------
(***************************************************************************)
(* What the two modes of the publisher share: the rows of deposit_buffer   *)
(* as it queries them, and the outer loop of Publisher.Run (dial, drain,   *)
(* reconnect), shut down, crashed and started again.                       *)
(***************************************************************************)
EXTENDS AdapterLink

CONSTANT MaxBatchSize   \* Config.MaxBatchSize

ASSUME BatchAssumption == MaxBatchSize \in Nat \ {0}

VARIABLES
  buffer,     \* rows of deposit_buffer
  recorded,   \* history: deposits that were ever given a row
  pc,         \* where Run is; "exited" when there is no process
  ctxDone     \* the process has been told to shut down

runVars == <<buffer, recorded, pc, ctxDone>>
rows == <<buffer, recorded, delivered, dups>>

RunInit ==
  /\ LinkInit
  /\ buffer = {}
  /\ recorded = {}
  /\ pc = "exited"
  /\ ctxDone = FALSE

RunTypeOK ==
  /\ LinkTypeOK
  /\ buffer \in SUBSET Deposit
  /\ recorded \in SUBSET Deposit
  /\ ctxDone \in BOOLEAN
-----------------------------------------------------------------------------
(* deposit_buffer.                                                         *)

\* A scan loop commits rows of a block.  Only a repeated scan records a deposit again.
Insert(S) ==
  /\ S # {} /\ S \cap buffer = {}
  /\ buffer' = buffer \cup S
  /\ recorded' = recorded \cup S
  /\ IF S \cap recorded # {} THEN Fault ELSE UNCHANGED faults
  /\ UNCHANGED <<link, delivered, dups, pc, ctxDone>>

\* BufferRepo.PendingAll: the first limit rows by id.
PendingAll(limit) ==
  {d \in buffer : Cardinality({e \in buffer : e < d}) < limit}

First(S) == CHOOSE d \in S : \A e \in S : d <= e

\* BufferRepo.Ack.  It fails on a cancelled context and through a fault; an
\* error reported for a DELETE that was done is a success here.
DeleteRow(d) == buffer' = buffer \ {d} /\ UNCHANGED faults

DeleteFails(cancelled) ==
  /\ UNCHANGED buffer
  /\ IF cancelled THEN UNCHANGED faults ELSE Fault
-----------------------------------------------------------------------------
(* Run.                                                                    *)

\* The dial succeeds, and the drain function is entered at label.  A failed
\* dial waits and tries again.
Dial(label) ==
  /\ pc = "dial"
  /\ ~ctxDone
  /\ Open
  /\ pc' = label
  /\ UNCHANGED <<rows, ctxDone, faults>>

\* SIGTERM, or another component of the process has failed.
Shutdown ==
  /\ pc # "exited"
  /\ ~ctxDone
  /\ ctxDone' = TRUE
  /\ Fault
  /\ UNCHANGED <<link, rows, pc>>

Restart ==
  /\ pc = "exited"
  /\ pc' = "dial"
  /\ ctxDone' = FALSE
  /\ UNCHANGED <<link, rows, faults>>
=============================================================================
