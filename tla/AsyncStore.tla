----------------------------- MODULE AsyncStore -----------------------------
(***************************************************************************)
(* The write queue between the hot path and SQLite.  Producers put rows on  *)
(* a bounded channel and never wait; one writer thread drains the channel    *)
(* in batches, commits each batch in one transaction, and notes the rows     *)
(* that did not fit as a qualification incident.                            *)
(*                                                                         *)
(* The module holds the store's half of a system: StateComparisons and       *)
(* Qualification add who sends and who reads.                               *)
(***************************************************************************)
EXTENDS Naturals, Sequences, SequencesExt

CONSTANTS
    Capacity,       \* write_queue_capacity
    BatchMax,       \* BATCH_MAX
    Faults          \* subset of {"write", "incident", "read", "rpc"}

ASSUME StoreAssumption ==
    /\ Capacity \in Nat \ {0}
    /\ BatchMax \in Nat \ {0}
    /\ Faults \subseteq {"write", "incident", "read", "rpc"}

VARIABLES
    (* durable *)
    table,          \* the rows written
    incidents,      \* qualification_incidents has a row
    (* memory *)
    queue,          \* the channel
    batch,          \* rows the writer has drained
    writer,         \* "idle", "loaded", "noting"
    dropped,        \* AsyncStore.dropped is not zero
    incident,       \* AsyncStore.incident_at_ms is not zero
    (* history *)
    lost            \* rows dropped, or drained and not written

storeVars == <<table, incidents, queue, batch, writer, dropped, incident, lost>>

(* The writer holds the connection from the transaction to the incident. *)
ConnectionFree == writer # "noting"

-----------------------------------------------------------------------------
(* Producers: AsyncStore::send *)

Fits == Len(queue) < Capacity

Enqueue(op) ==
    /\ Fits
    /\ queue' = Append(queue, op)
    /\ UNCHANGED <<dropped, incident, lost>>

(* A full queue sheds the row, counts it and marks the incident. *)
Drop(op) ==
    /\ ~Fits
    /\ dropped' = TRUE /\ incident' = TRUE
    /\ lost' = lost \cup {op}
    /\ UNCHANGED queue

Send(op) ==
    /\ Enqueue(op) \/ Drop(op)
    /\ UNCHANGED <<table, incidents, batch, writer>>

-----------------------------------------------------------------------------
(* The writer thread of AsyncStore::spawn *)

TakeBatch ==
    /\ writer = "idle" /\ queue # <<>>
    /\ LET n == IF Len(queue) < BatchMax THEN Len(queue) ELSE BatchMax IN
          /\ batch' = SubSeq(queue, 1, n)
          /\ queue' = SubSeq(queue, n + 1, Len(queue))
    /\ writer' = "loaded"
    /\ UNCHANGED <<table, incidents, dropped, incident, lost>>

(* One transaction.  A row that fails, or the commit, is only logged. *)
Commit ==
    /\ writer = "loaded"
    /\ \E written \in SUBSET ToSet(batch) :
          /\ "write" \notin Faults => written = ToSet(batch)
          /\ table' = table \cup written
          /\ lost' = lost \cup (ToSet(batch) \ written)
    /\ writer' = "noting"
    /\ UNCHANGED <<incidents, queue, batch, dropped, incident>>

MutantForgetIncident == incident' = FALSE /\ UNCHANGED incidents

(* The mark is put back when the insert fails. *)
IncidentFails == UNCHANGED <<incident, incidents>>

NoteIncident ==
    /\ writer = "noting"
    /\ \/ incident /\ incidents' = TRUE /\ incident' = FALSE
       \/ incident /\ "incident" \in Faults /\ IncidentFails
       \/ ~incident /\ UNCHANGED <<incident, incidents>>
    /\ batch' = <<>>
    /\ writer' = "idle"
    /\ UNCHANGED <<table, queue, dropped, lost>>

Writer == TakeBatch \/ Commit \/ NoteIncident

-----------------------------------------------------------------------------
StoreInit ==
    /\ table = {} /\ incidents = FALSE
    /\ queue = <<>> /\ batch = <<>> /\ writer = "idle"
    /\ dropped = FALSE /\ incident = FALSE
    /\ lost = {}

(* The queue, the batch and both counters die with the process. *)
StoreCrash ==
    /\ queue' = <<>> /\ batch' = <<>> /\ writer' = "idle"
    /\ dropped' = FALSE /\ incident' = FALSE
    /\ lost' = lost \cup ToSet(queue) \cup (ToSet(batch) \ table)
    /\ UNCHANGED <<table, incidents>>
=============================================================================
