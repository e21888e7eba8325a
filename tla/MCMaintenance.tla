---------------------------- MODULE MCMaintenance ----------------------------
(***************************************************************************)
(* Properties of the five maintenance transactions and their instance for  *)
(* TLC.                                                                    *)
(***************************************************************************)
EXTENDS MaintenanceTxn

CONSTANTS t, nobody

(* Candidate bytes are live only while the transaction owns the lease, or  *)
(* once it is POSTCHECK_VERIFIED: no path of apply, of its except clauses  *)
(* or of recover gives the lease back over a half-undone candidate.        *)
CandidateIsOwned ==
    (\E u \in Unit : live[u] \in Version) => lease \/ rec.st = "POSTCHECK_VERIFIED"

(* A seal written by a policy, auxiliary or repair transaction, and one a  *)
(* recovery of any kind writes, names the verified candidate in every      *)
(* target; the first three also name the baseline everywhere else.  Work   *)
(* edited after verify, foreign edits during apply, and recover after a    *)
(* kill are where this could break.                                        *)
SealedIsVerified ==
    seal.by = "tx" =>
        /\ kind \in {"policy", "auxiliary", "repair"} => seal.pkg = Result(rec.verified)
        /\ seal.recovered => \A u \in Target : seal.pkg[u] = rec.verified

(* Once a heartbeat has run on candidate bytes, KAIROS has projected them: *)
(* no command writes a live file any more, neither the except clause of    *)
(* apply nor recover; recovery only goes forward or refuses.  Of policy    *)
(* this holds while its boundary is recorded, which recover does not do    *)
(* when it runs the heartbeat itself (engine.py:1262).                     *)
OnlyForwardAfterHeartbeat ==
    [][hb /\ edits' = edits /\ (kind = "policy" => rec.crossed) => live' = live]_vars

(* "recover" ends an interrupted apply that nobody else touched, whatever  *)
(* was killed before: with all files written, for every kind (repair once  *)
(* its failure is recorded); policy also with some of them written, before *)
(* it recorded the heartbeat boundary.                                     *)
Untouched == edits = 0 /\ seals = 0

Recoverable ==
    /\ Untouched /\ pc = "idle" /\ lease /\ rec.st \in InApply
    /\ kind = "repair" => rec.st = "RECOVERY_REQUIRED"
    /\ Holds(rec.verified) \/ (kind = "policy" /\ ~rec.crossed)

InterruptedApplyEnds ==
    Recoverable ~> (~Untouched \/ rec.receipt \/ rec.st = "ROLLED_BACK")

(* Every kind implements the serial change of the corpus that the source   *)
(* transaction implements: the lease is held from the first live write to  *)
(* the acknowledged seal or the complete undo.  A checkout that was never  *)
(* completed is still new; policy opens with its staging state.            *)
Phase ==
    CASE rec.st \in PreApply \/ (rec.st = "CHECKOUT_STAGING" /\ kind = "policy") -> "open"
      [] rec.st \in {"none", "ABORTED_ORPHANED_CHECKOUT", "CHECKOUT_FAILED"}     -> "new"
      [] rec.st = "CHECKOUT_STAGING" /\ kind # "policy"   -> "new"
      [] rec.st \in InApply                              -> "mutating"
      [] rec.st = "POSTCHECK_VERIFIED" /\ ~rec.receipt   -> "proved"
      [] OTHER                                           -> "closed"

Serial == INSTANCE SerialChange WITH
    Txn <- {t}, NoTxn <- nobody,
    holder <- IF lease THEN t ELSE nobody,
    phase <- [x \in {t} |-> Phase]

ImplementsSerialChange == Serial!Spec
=============================================================================
