--------------------------- MODULE MCTxRecycling ---------------------------
(***************************************************************************)
(* Model-checking module of the outbox and of recycling: one operator, one *)
(* transaction from its checkout to the deletion of its directories, with  *)
(* a fault between any two writes.                                         *)
(***************************************************************************)
EXTENDS TxRecycling

(* A saved event that its document, row and checkpoint do not show yet is  *)
(* covered by a marker or a write-ahead intent: the next checkout of any   *)
(* transaction is refused and a reconcile has something to find.           *)
ObligationCovered ==
    rec.log # <<>> /\ ~Projected =>
        marker # NoEvent \/ \E i \in intents : Cur(i.target) = Cur(rec)

(* A transaction is reviewed once: no crash, retry or edit of the          *)
(* candidate leads to decisions about two different candidates.            *)
OneReview ==
    Cardinality(ReviewOf(rec) \cup UNION {ReviewOf(i.target) : i \in Intents("review")}) <= 1

(* A directory is deleted only when its slot was freed, a decision about   *)
(* the transaction is recorded and the archive its plan names is in the    *)
(* vault.  If nobody edited the candidate after the compaction made that   *)
(* archive, then the deleted bytes are the archived and the reviewed ones, *)
(* whatever was edited before.  The exception is the code's: from the      *)
(* snapshot to the moves nothing compares the directory with the archive   *)
(* (tx_retention.py:275-334), and assert_reviewed (413) does not see an    *)
(* edit made before the snapshot and taken back after it.                  *)
DeletedBytesAreArchived ==
    \A d \in Dir : tree[d] = "gone" =>
        /\ slot /\ plan \in vault /\ ReviewOf(rec) # {}
        /\ touched \/ (body = plan /\ <<"review", body>> \in rec.facts)

(* No directory leaves its place before a complete plan names its archive: *)
(* a crash among the moves is always resumable.                            *)
NothingMovedUnplanned == \A d \in Dir : tree[d] # "live" => plan \in vault

(* A checkout of another transaction finds the last event of this one      *)
(* acknowledged: the workshop never goes on over an unpublished state.     *)
CheckoutFindsAcknowledged ==
    [][lease = "free" /\ lease' = "other" /\ rec.log # <<>> => Projected]_rvars

-----------------------------------------------------------------------------
(* The six files of an event are one append-only log with a published      *)
(* prefix: the checkpoint names the last event readers may rely on.        *)
Shown ==
    IF ckpt = NoEvent THEN 0 ELSE CHOOSE n \in 1 .. Len(rec.log) : rec.log[n] = ckpt

Log == INSTANCE EventLog WITH log <- rec.log, shown <- Shown

\* No crash, replay, retry or foreign heartbeat loses, reorders or forks a committed
\* event, or moves the checkpoint back (assert_projection_lineage, validate_event_chain).
KeepsOneLog == Log!EventLogSpec

-----------------------------------------------------------------------------
(* A started command runs on until it dies; the operator runs reconcile    *)
(* again and again (what a refused checkout asks for), and a disk does not *)
(* refuse for ever.                                                        *)
Runs(p) == ~At(p, "idle") /\ faults' = faults /\ (OutboxStep \/ RecyclingStep(p))

Fairness ==
    \A p \in Proc :
        /\ WF_rvars(Runs(p))
        /\ SF_rvars(ReconcileStart(p, Reconcile) /\ UNCHANGED store)
        /\ SF_rvars(Stage(p) /\ UNCHANGED store)

FairSpec == RecyclingSpec /\ Fairness

(* Without the Guardian an interrupted save is always completed: its       *)
(* intent is retired, unless a manual reseal invalidated what it recorded. *)
OutboxDrains ==
    ~guarded /\ Intents("event") # {}
        ~> Intents("event") = {} \/ seal = "other" \/ minted = MaxEvents
=============================================================================
