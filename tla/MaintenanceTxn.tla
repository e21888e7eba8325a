--------------------------- MODULE MaintenanceTxn ---------------------------
(***************************************************************************)
(* The five maintenance transactions of the Workshop, each with its own    *)
(* file protocol beside the source transaction:                            *)
(*   policy     RuntimePolicyTransaction          (engine.py)              *)
(*   auxiliary  AuxiliaryDocumentTransaction      (auxiliary.py)           *)
(*   repair     BootstrapRepair                   (repair.py)              *)
(*   universal  UniversalSourceSetMigration       (universal_migration.py) *)
(*   migration  AuthorityMigration                (migration.py)           *)
(* They share one skeleton: checkout under the lease, a verified candidate *)
(* in work/, preimages, live writes file by file, a heartbeat, a seal, a   *)
(* receipt.  They differ in what they check, in what they undo and in what *)
(* "recover" accepts, which is what this module spells out.                *)
(*                                                                         *)
(* One behaviour is one transaction of one kind, run by one process.  The  *)
(* process may be killed, and any save, copy or check may fail.  Live      *)
(* files and work/ are ordinary files that anybody can edit, and the seal  *)
(* can be rewritten by hand.  Bytes are abstract: "base" is what checkout  *)
(* found, v1 and v2 are versions of work/, "alien" is a foreign edit that    *)
(* leaves a consistent corpus.  The outbox of a save is in TxOutbox.       *)
(***************************************************************************)
EXTENDS Naturals, FiniteSets

CONSTANTS
    Unit,      \* live files (a unit is a source with its documents and row)
    Target,    \* the units the candidate changes
    MaxFaults, \* bound: kills and failing steps
    MaxEdits,  \* bound: foreign edits of live files and of work/
    MaxSeals   \* bound: manual reseals

ASSUME MaintenanceConstants ==
    Target \subseteq Unit /\ Target # {} /\ {MaxFaults, MaxEdits, MaxSeals} \subseteq Nat

Kind    == {"policy", "auxiliary", "repair", "universal", "migration"}
Version == {"v1", "v2"}
Bytes   == Version \cup {"base", "alien"}
Package == [Unit -> Bytes]
None    == [u \in Unit |-> "none"]    \* no package, no preimage
Baseline == [u \in Unit |-> "base"]

Staging    == {"CHECKOUT_STAGING", "CHECKOUT_FAILED"}
PreApply   == {"CHECKED_OUT", "AWAITING_METADATA_REVIEW", "PREPARED", "SHADOW_VERIFIED"}
InApply    == {"APPLYING", "RECOVERY_REQUIRED"}
Ended      == {"ROLLED_BACK", "ABORTED", "ABORTED_ORPHANED_CHECKOUT"}
State      == {"none", "POSTCHECK_VERIFIED"} \cup Staging \cup PreApply \cup InApply \cup Ended

VARIABLES
    kind,
    rec,     \* state.json: st, prepared, verified, crossed, post, receipt
    live,    \* the governed files
    work,    \* the version work/ holds now
    pre,     \* rollback/: the captured preimages
    seal,    \* seal.json: who wrote it, the package it names, "recovered"
    lease,   \* the transaction owns lease.json
    permit,  \* its KAIROS external-edit permit
    hb,      \* a heartbeat has run on candidate bytes
    pc, mode, todo, found,  \* the running command: step, files left, package read
    born, faults, edits, seals

persistent == <<kind, rec, live, work, pre, seal, lease, permit, hb, born>>
local      == <<pc, mode, todo, found>>
vars       == <<persistent, local, faults, edits, seals>>

Step == {"idle", "stage", "copy", "open", "verified", "capture", "permit", "begin", "write",
         "heartbeat", "postcheck", "seal", "post", "receipt", "release",
         "restore", "undo", "rolled", "require", "reread"}

TypeOK ==
    /\ kind \in Kind
    /\ rec \in [st : State, prepared : Version \cup {"none"}, verified : Version \cup {"none"}, crossed : BOOLEAN,
                post : Package \cup {None}, receipt : BOOLEAN]
    /\ live \in Package /\ work \in Version
    /\ pre \in Package \cup {None}
    /\ seal \in [by : {"base", "tx", "other"}, pkg : Package, recovered : BOOLEAN]
    /\ lease \in BOOLEAN /\ permit \in {"none", "active", "gone"}
    /\ hb \in BOOLEAN /\ born \in BOOLEAN
    /\ pc \in Step /\ mode \in {"apply", "recover", "incomplete"}
    /\ todo \subseteq Target /\ (todo # {} => pc \in {"write", "undo"})
    /\ found \in Package \cup {None}
    /\ faults \in 0 .. MaxFaults /\ edits \in 0 .. MaxEdits /\ seals \in 0 .. MaxSeals

NoRecord == [st |-> "none", prepared |-> "none", verified |-> "none", crossed |-> FALSE,
             post |-> None, receipt |-> FALSE]

Init ==
    /\ kind \in Kind
    /\ rec = NoRecord /\ live = Baseline /\ work = "v1" /\ pre = None
    /\ seal = [by |-> "base", pkg |-> Baseline, recovered |-> FALSE]
    /\ lease = FALSE /\ permit = "none" /\ hb = FALSE /\ born = FALSE
    /\ pc = "idle" /\ mode = "apply" /\ todo = {} /\ found = None
    /\ faults = 0 /\ edits = 0 /\ seals = 0

-----------------------------------------------------------------------------
(* What the commands read.                                                 *)

\* The corpus the verified candidate v should leave: its targets, nothing else.
Result(v) == [u \in Unit |-> IF u \in Target THEN v ELSE "base"]

\* _assert_live_baseline; the policy kind also pins the seal and the lease.
AtBaseline == live = Baseline /\ (kind = "policy" => lease /\ seal.by = "base")

\* The targets hold version v.
Holds(v) == \A u \in Target : live[u] = v

\* work/ is still what was verified (repair does not look before it applies).
WorkIsVerified ==
    /\ kind # "repair" => work = rec.verified
    /\ kind \in {"policy", "migration"} => rec.prepared = rec.verified

\* mutant: auxiliary and repair compare the live bytes with work/ only
PostcheckAgainstWork ==
    CASE kind = "policy"    -> live = Result(rec.verified)
      [] kind = "migration" -> TRUE
      [] OTHER              -> Holds(work)

\* What apply demands of the live corpus after its heartbeat: policy proves the
\* whole result again, auxiliary and repair also compare the live copies with
\* work/, universal only its sources, migration only the topology.
PolicyResultHolds    == live = Result(rec.verified)
AuxiliaryResultHolds == live = Result(rec.verified) /\ Holds(work)
RepairResultHolds    == live = Result(rec.verified) /\ Holds(work)
UniversalResultHolds == Holds(work)

PostcheckHolds ==
    CASE kind = "policy"    -> PolicyResultHolds
      [] kind = "auxiliary" -> AuxiliaryResultHolds
      [] kind = "repair"    -> RepairResultHolds
      [] kind = "universal" -> UniversalResultHolds
      [] kind = "migration" -> TRUE

\* The states abort accepts.
AbortableFrom ==
    CASE kind = "policy"    -> {"CHECKOUT_STAGING", "CHECKED_OUT", "PREPARED", "SHADOW_VERIFIED"}
      [] kind = "auxiliary" -> {"CHECKED_OUT", "SHADOW_VERIFIED"}
      [] kind = "repair"    -> {"SHADOW_VERIFIED"}
      [] kind = "universal" -> {"CHECKED_OUT", "PREPARED", "SHADOW_VERIFIED"}
      [] kind = "migration" -> PreApply

-----------------------------------------------------------------------------
(* How a command moves on.                                                 *)

Idle == pc' = "idle" /\ mode' = "apply" /\ todo' = {} /\ found' = None

Go(p) == IF p = "idle" THEN Idle ELSE pc' = p /\ UNCHANGED <<mode, todo, found>>

\* Something fails here: a copy, a check, a save, a heartbeat, or the process.
Fault == faults < MaxFaults /\ faults' = faults + 1

\* _save_transaction(r): on success the command goes on; it may also fail,
\* before or after state.json is replaced, and the command ends there.
Save(r, next) ==
    \/ rec' = r /\ Go(next) /\ UNCHANGED faults
    \/ Fault /\ rec' \in {rec, r} /\ Idle

To(st) == [rec EXCEPT !.st = st]

StartUndo == pc' = "undo" /\ todo' = Target /\ UNCHANGED <<mode, found>>

\* The except clauses of apply.  Policy restores what failed while it wrote.
RaisePolicy ==
    IF pc = "write" THEN pc' = "restore" /\ todo' = {} /\ UNCHANGED <<mode, found>> ELSE Idle

\* Auxiliary has no heartbeat and undoes everything it has not sealed.
RaiseAuxiliary == StartUndo

\* The others undo until their heartbeat started, and then keep the transaction open.
RaisePastBoundary == IF hb THEN Go("require") ELSE StartUndo

\* mutant: the except clause forgets that the heartbeat has started
RaiseUndoes ==
    CASE mode = "recover"  -> Idle
      [] mode # "recover" /\ kind = "policy" -> RaisePolicy
      [] OTHER             -> StartUndo

\* The command raises once the live files may have been touched.
Raise ==
    CASE mode = "recover" -> Idle
      [] mode # "recover" /\ kind = "policy"    -> RaisePolicy
      [] mode # "recover" /\ kind = "auxiliary" -> RaiseAuxiliary
      [] OTHER                                  -> RaisePastBoundary

OnlyPc == UNCHANGED <<persistent, edits, seals>>
OnlyRec == UNCHANGED <<kind, live, work, pre, seal, lease, permit, hb, born, edits, seals>>

-----------------------------------------------------------------------------
(* Checkout (repair: stage).                                               *)

Checkout ==
    /\ pc = "idle" /\ ~born /\ ~lease
    /\ lease' = TRUE /\ born' = TRUE
    /\ Go(IF kind \in {"policy", "universal"} THEN "stage" ELSE "copy")
    /\ UNCHANGED <<kind, rec, live, work, pre, seal, permit, hb, faults, edits, seals>>

SaveStaging ==
    /\ pc = "stage"
    /\ Save(To("CHECKOUT_STAGING"), "copy")
    /\ OnlyRec

(* The checkout fails with state.json at r.  Policy keeps the lease; repair *)
(* keeps it once a state is durable; the others give it back, universal    *)
(* after it tried to record the failure (a kill in between leaves it).     *)
PolicyCheckoutFails(r)    == kind = "policy" /\ rec' = r /\ UNCHANGED lease
AuxiliaryCheckoutFails(r) == kind = "auxiliary" /\ rec' = r /\ lease' = FALSE
RepairStageFails(r)       == kind = "repair" /\ rec' = r /\ lease' = (r.st # "none")
UniversalCheckoutFails(r) ==
    /\ kind = "universal" /\ lease' \in BOOLEAN
    /\ rec' \in {r, [r EXCEPT !.st = "CHECKOUT_FAILED"]}
MigrationCheckoutFails(r) == kind = "migration" /\ rec' = r /\ lease' = FALSE

FailCheckout(r) ==
    /\ \/ PolicyCheckoutFails(r) \/ AuxiliaryCheckoutFails(r) \/ RepairStageFails(r)
       \/ UniversalCheckoutFails(r) \/ MigrationCheckoutFails(r)
    /\ Idle

CopyBaseline ==
    /\ pc = "copy"
    /\ \/ /\ kind = "policy" => AtBaseline
          /\ Go("open") /\ UNCHANGED <<rec, lease, faults>>
       \/ Fault /\ FailCheckout(rec)
       \/ kind = "policy" /\ ~AtBaseline /\ FailCheckout(rec) /\ UNCHANGED faults
    /\ UNCHANGED <<kind, live, work, pre, seal, permit, hb, born, edits, seals>>

\* The checkout's last save.  What repair stages is its verified candidate.
RepairCandidate == [rec EXCEPT !.st = "SHADOW_VERIFIED", !.verified = work]
Opened == IF kind = "repair" THEN RepairCandidate ELSE To("CHECKED_OUT")

Open ==
    /\ pc = "open"
    /\ \/ /\ kind = "policy" => AtBaseline
          /\ rec' = Opened /\ Idle /\ UNCHANGED <<lease, faults>>
       \/ Fault /\ FailCheckout(rec)
       \/ Fault /\ FailCheckout(Opened)
       \/ kind = "policy" /\ ~AtBaseline /\ FailCheckout(rec) /\ UNCHANGED faults
    /\ UNCHANGED <<kind, live, work, pre, seal, permit, hb, born, edits, seals>>

\* recover_orphan_checkout: universal, or a lease without any state.json.
RecoverOrphan ==
    /\ pc = "idle" /\ lease
    /\ rec.st = "none" \/ (kind = "universal" /\ rec.st \in Staging)
    /\ pre = None /\ live = seal.pkg
    /\ Save(To("ABORTED_ORPHANED_CHECKOUT"), "release")
    /\ OnlyRec

-----------------------------------------------------------------------------
(* Prepare, verify, abort.                                                 *)

PreparePolicy ==
    /\ kind = "policy" /\ rec.st \in {"CHECKED_OUT", "PREPARED", "SHADOW_VERIFIED"}
    /\ AtBaseline
    /\ Save([rec EXCEPT !.st = "PREPARED", !.prepared = work, !.verified = "none"], "idle")

PrepareUniversal ==
    /\ kind = "universal" /\ rec.st \in {"CHECKED_OUT", "PREPARED"}
    /\ AtBaseline
    /\ Save(To("PREPARED"), "idle")

\* Migration first drops what was prepared, verified and checked.
ReopenMigration ==
    /\ kind = "migration" /\ rec.st \in {"PREPARED", "SHADOW_VERIFIED"}
    /\ Save([rec EXCEPT !.st = "CHECKED_OUT", !.prepared = "none", !.verified = "none"], "idle")

MigrationReview == {"CHECKED_OUT", "AWAITING_METADATA_REVIEW"}

\* The metadata review is incomplete, or the regenerated documents changed it.
AwaitReview ==
    /\ kind = "migration" /\ rec.st \in MigrationReview
    /\ AtBaseline
    /\ Save(To("AWAITING_METADATA_REVIEW"), "idle")

PrepareMigration ==
    /\ kind = "migration" /\ rec.st \in MigrationReview
    /\ AtBaseline
    /\ Save([rec EXCEPT !.st = "PREPARED", !.prepared = work], "idle")

Prepare ==
    /\ pc = "idle" /\ lease
    /\ PreparePolicy \/ PrepareUniversal \/ ReopenMigration \/ AwaitReview \/ PrepareMigration
    /\ OnlyRec

\* Verify reads work/ twice: it is checked first, and hashed at the end.
Verifiable == {"PREPARED", "SHADOW_VERIFIED"}
MayVerifyPolicy    == kind = "policy" /\ rec.st \in Verifiable /\ work = rec.prepared
MayVerifyAuxiliary == kind = "auxiliary" /\ rec.st \in {"CHECKED_OUT", "SHADOW_VERIFIED"}
MayVerifyUniversal == kind = "universal" /\ rec.st \in Verifiable
MayVerifyMigration == kind = "migration" /\ rec.st \in Verifiable /\ work = rec.prepared

Verify ==
    /\ pc = "idle" /\ lease /\ AtBaseline
    /\ MayVerifyPolicy \/ MayVerifyAuxiliary \/ MayVerifyUniversal \/ MayVerifyMigration
    /\ pc' = "verified" /\ UNCHANGED <<mode, todo, found, faults>>
    /\ OnlyPc

SaveVerified ==
    /\ pc = "verified"
    /\ IF kind \in {"policy", "migration"} /\ work # rec.prepared
       THEN Idle /\ UNCHANGED <<rec, faults>>
       ELSE Save([rec EXCEPT !.st = "SHADOW_VERIFIED", !.verified = work], "idle")
    /\ OnlyRec

Abort ==
    /\ pc = "idle" /\ lease /\ rec.st \in AbortableFrom
    /\ AtBaseline
    /\ Save(To("ABORTED"), "release")
    /\ OnlyRec

-----------------------------------------------------------------------------
(* Apply.                                                                  *)

Apply ==
    /\ pc = "idle" /\ lease /\ rec.st = "SHADOW_VERIFIED"
    /\ AtBaseline /\ WorkIsVerified
    /\ pc' = (IF kind = "repair" THEN "permit" ELSE "capture")
    /\ UNCHANGED <<mode, todo, found, faults>>
    /\ OnlyPc

\* The preimages.  A foreign edit since the baseline check becomes one, except
\* that policy compares them.  Repair, which holds its permit, gives it back.
Capture ==
    /\ pc = "capture"
    /\ \/ /\ pre' = live /\ UNCHANGED <<faults, permit>>
          /\ Go(CASE kind = "policy" /\ \E u \in Target : live[u] # "base" -> "idle"
                  [] kind \in {"universal", "migration"}                   -> "permit"
                  [] OTHER                                                 -> "begin")
       \/ /\ Fault /\ Idle /\ UNCHANGED pre
          /\ permit' \in (IF kind = "repair" THEN {permit, "gone"} ELSE {permit})
    /\ UNCHANGED <<kind, rec, live, work, seal, lease, hb, born, edits, seals>>

IssuePermit ==
    /\ pc = "permit"
    /\ \/ permit' = "active" /\ Go(IF kind = "repair" THEN "capture" ELSE "begin") /\ UNCHANGED faults
       \/ Fault /\ Idle /\ UNCHANGED permit
    /\ UNCHANGED <<kind, rec, live, work, pre, seal, lease, hb, born, edits, seals>>

\* APPLYING is durable before the first live byte changes.
Begin ==
    /\ pc = "begin"
    /\ \/ /\ rec' = [rec EXCEPT !.st = "APPLYING", !.crossed = FALSE]
          /\ pc' = "write" /\ todo' = Target /\ UNCHANGED <<mode, found, faults>>
       \/ /\ Fault /\ Idle
          /\ rec' \in {rec, [rec EXCEPT !.st = "APPLYING", !.crossed = FALSE]}
    /\ OnlyRec

\* One file goes live.  Policy writes the bytes it verified over exactly the
\* preimage (the comparison and the rename are one step here); the others copy
\* what work/ holds by now.
WriteTarget ==
    /\ pc = "write" /\ todo # {}
    /\ \/ \E u \in todo :
             /\ kind = "policy" => live[u] = pre[u]
             /\ live' = [live EXCEPT ![u] = IF kind = "policy" THEN rec.verified ELSE work]
             /\ todo' = todo \ {u}
             /\ UNCHANGED <<pc, mode, found, faults>>
       \/ /\ UNCHANGED live
          /\ \/ kind = "policy" /\ (\E u \in todo : live[u] # pre[u]) /\ Raise /\ UNCHANGED faults
             \/ Fault /\ Raise
    /\ UNCHANGED <<kind, rec, work, pre, seal, lease, permit, hb, born, edits, seals>>

\* All files are written.  Policy proves them and records that it crosses the
\* heartbeat boundary; auxiliary has no heartbeat; the others only remember.
WrittenPolicy ==
    /\ kind = "policy"
    /\ IF live # Result(rec.verified) THEN Raise /\ UNCHANGED <<rec, faults>>
       ELSE \/ rec' = [rec EXCEPT !.crossed = TRUE] /\ Go("heartbeat") /\ UNCHANGED faults
            \/ Fault /\ rec' \in {rec, [rec EXCEPT !.crossed = TRUE]} /\ Raise

WrittenAuxiliary == kind = "auxiliary" /\ Go("postcheck") /\ UNCHANGED <<rec, faults>>

WrittenOther ==
    /\ kind \in {"repair", "universal", "migration"} /\ UNCHANGED rec
    /\ \/ Go("heartbeat") /\ UNCHANGED faults
       \/ Fault /\ Raise

Written ==
    /\ pc = "write" /\ todo = {}
    /\ WrittenPolicy \/ WrittenAuxiliary \/ WrittenOther
    /\ OnlyRec

\* The heartbeat retires the permit once it reconciled the edit.
Heartbeat ==
    /\ pc = "heartbeat"
    /\ hb' = TRUE
    /\ \/ /\ permit' = (IF permit = "active" THEN "gone" ELSE permit)
          /\ Go(IF mode = "recover" /\ kind # "policy" THEN "reread" ELSE "postcheck")
          /\ UNCHANGED faults
       \/ /\ Fault /\ UNCHANGED permit
          /\ IF mode = "recover" \/ kind = "policy" THEN Idle ELSE Go("require")
    /\ UNCHANGED <<kind, rec, live, work, pre, seal, lease, born, edits, seals>>

\* build_corpus_manifest after the write, and what the kind compares it with.
Postcheck ==
    /\ pc = "postcheck"
    /\ \/ /\ PostcheckHolds /\ UNCHANGED faults
          /\ pc' = "seal" /\ found' = live /\ UNCHANGED <<mode, todo>>
       \/ ~PostcheckHolds /\ UNCHANGED faults /\ Raise
       \/ Fault /\ Raise
    /\ OnlyPc

WriteSeal ==
    /\ pc = "seal"
    /\ \/ /\ seal' = [by |-> "tx", pkg |-> found, recovered |-> mode = "recover"]
          /\ Go("post") /\ UNCHANGED faults
       \/ Fault /\ Raise /\ UNCHANGED seal
    /\ UNCHANGED <<kind, rec, live, work, pre, lease, permit, hb, born, edits, seals>>

\* POSTCHECK_VERIFIED.  A failed save leaves policy and auxiliary as they are;
\* the others then save RECOVERY_REQUIRED, which may fail as well.
Posted == [rec EXCEPT !.st = "POSTCHECK_VERIFIED", !.post = found]

SavePostcheck ==
    /\ pc = "post"
    /\ \/ rec' = Posted /\ Go("receipt") /\ UNCHANGED faults
       \/ /\ Fault /\ Idle
          /\ rec' \in {rec, Posted} \cup
                (IF mode = "apply" /\ kind \notin {"policy", "auxiliary"}
                 THEN {To("RECOVERY_REQUIRED"), [Posted EXCEPT !.st = "RECOVERY_REQUIRED"]} ELSE {})
    /\ OnlyRec

\* _finish_transaction_receipt: the corpus must still be the sealed result.
OwnsResult == seal.by = "tx" /\ live = seal.pkg /\ live = rec.post

Receipt ==
    /\ pc = "receipt"
    /\ IF OwnsResult
       THEN Save([rec EXCEPT !.receipt = TRUE], "release")
       ELSE Idle /\ UNCHANGED <<rec, faults>>
    /\ OnlyRec

Release ==
    /\ pc = "release"
    /\ \/ lease' = FALSE /\ UNCHANGED faults
       \/ Fault /\ UNCHANGED lease
    /\ Idle
    /\ UNCHANGED <<kind, rec, live, work, pre, seal, permit, hb, born, edits, seals>>

-----------------------------------------------------------------------------
(* Undoing: _restore (policy), the rollback loops (the others).            *)

\* Policy looks at every target and preimage before it writes the first one.
CheckRestore ==
    /\ pc = "restore"
    /\ IF \A u \in Target : pre[u] = "base" /\ live[u] \in {pre[u], rec.verified}
       THEN pc' = "undo" /\ todo' = Target /\ UNCHANGED <<mode, found>>
       ELSE Idle
    /\ OnlyPc /\ UNCHANGED faults

\* A target gets its preimage back, whatever it holds by now.  A restore that
\* fails ends policy; the others go on and remember that one is missing.
UndoTarget ==
    /\ pc = "undo" /\ todo # {}
    /\ \/ \E u \in todo :
             /\ live' = [live EXCEPT ![u] = pre[u]]
             /\ todo' = todo \ {u}
             /\ UNCHANGED <<pc, mode, found, faults>>
       \/ /\ Fault /\ UNCHANGED live
          /\ IF kind = "policy" THEN Idle
             ELSE \E u \in todo : /\ todo' = todo \ {u} /\ mode' = "incomplete"
                                  /\ UNCHANGED <<pc, found>>
    /\ UNCHANGED <<kind, rec, work, pre, seal, lease, permit, hb, born, edits, seals>>

\* mutant: one restored row is enough
RestoredAny == TRUE

\* Every row got its preimage back.
Restored == mode # "incomplete"

\* Policy proves its whole baseline again, or stops.
PolicyUndone ==
    /\ kind = "policy"
    /\ IF Restored /\ AtBaseline THEN Go("rolled") ELSE Idle
    /\ UNCHANGED <<seal, permit, faults>>

\* Auxiliary and repair also compare the Runtime tree, which a unit outside the
\* targets may belong to.
RuntimeMayDiffer == \E u \in Unit \ Target : live[u] = "alien"

\* Auxiliary writes the seal of its checkout again.
AuxiliaryUndone ==
    /\ kind = "auxiliary" /\ UNCHANGED <<permit, faults>>
    /\ \/ /\ Restored /\ Go("rolled")
          /\ seal' = [by |-> "base", pkg |-> Baseline, recovered |-> FALSE]
       \/ (~Restored \/ RuntimeMayDiffer) /\ Go("require") /\ UNCHANGED seal

\* Repair revokes its permit, which may fail as well.
RepairUndone ==
    /\ kind = "repair" /\ UNCHANGED seal
    /\ \/ Restored /\ Go("rolled") /\ permit' = "gone" /\ UNCHANGED faults
       \/ (~Restored \/ RuntimeMayDiffer) /\ Go("require") /\ permit' = "gone" /\ UNCHANGED faults
       \/ Fault /\ Go("require") /\ UNCHANGED permit

MigrationUndone ==
    /\ kind \in {"universal", "migration"}
    /\ Go(IF Restored THEN "rolled" ELSE "require")
    /\ UNCHANGED <<seal, permit, faults>>

Undone ==
    /\ pc = "undo" /\ todo = {}
    /\ PolicyUndone \/ AuxiliaryUndone \/ RepairUndone \/ MigrationUndone
    /\ UNCHANGED <<kind, rec, live, work, pre, lease, hb, born, edits, seals>>

\* mutant: the lease is released whether or not ROLLED_BACK was saved
SaveRolledBackOrNot ==
    /\ pc = "rolled"
    /\ \/ rec' = To("ROLLED_BACK") /\ UNCHANGED faults
       \/ Fault /\ UNCHANGED rec
    /\ Go("release")
    /\ OnlyRec

SaveRolledBack ==
    /\ pc = "rolled"
    /\ Save(To("ROLLED_BACK"), "release")
    /\ OnlyRec

SaveRequired ==
    /\ pc = "require"
    /\ Save(To("RECOVERY_REQUIRED"), "idle")
    /\ OnlyRec

-----------------------------------------------------------------------------
(* Recover (WorkshopEngine.recover routes by kind).                        *)

Resume(p, package) == pc' = p /\ mode' = "recover" /\ found' = package /\ UNCHANGED <<todo, faults>>

\* A committed receipt is history; a lease still held is released.
RecoverCommitted ==
    /\ rec.st = "POSTCHECK_VERIFIED" /\ rec.receipt
    /\ OwnsResult
    /\ Resume("release", None)
    /\ OnlyPc

RecoverReceipt ==
    /\ rec.st = "POSTCHECK_VERIFIED" /\ ~rec.receipt
    /\ \/ kind = "policy" /\ WorkIsVerified /\ live = Result(rec.verified) /\ seal.pkg = live
       \/ kind \in {"repair", "universal"}
    /\ Resume("receipt", None)
    /\ OnlyPc

\* mutant: policy refuses a half-written apply, as the migrations do
RecoverPolicyWhole ==
    /\ kind = "policy" /\ rec.st = "APPLYING"
    /\ WorkIsVerified /\ seal.by # "other"
    /\ \/ AtBaseline /\ Resume("rolled", None)
       \/ live = Result(rec.verified) /\ Resume("heartbeat", None)
    /\ OnlyPc

\* Nothing was written, or all of it was, or policy can restore what was.
RecoverPolicy ==
    /\ kind = "policy" /\ rec.st = "APPLYING"
    /\ WorkIsVerified /\ seal.by # "other"
    /\ LET untouched == Holds("base") /\ seal.by = "base" IN
       \/ untouched /\ AtBaseline /\ Resume("rolled", None)
       \/ ~untouched /\ live = Result(rec.verified) /\ Resume("heartbeat", None)
       \/ /\ ~untouched /\ ~Holds(rec.verified) /\ ~rec.crossed /\ seal.by = "base"
          /\ Resume("restore", None)
    /\ OnlyPc

\* Only forward: the live files must already be the verified candidate.
RecoverAuxiliary ==
    /\ kind = "auxiliary"
    /\ rec.st \in InApply \/ (rec.st = "POSTCHECK_VERIFIED" /\ ~rec.receipt)
    /\ work = rec.verified /\ live = Result(rec.verified)
    /\ Resume("seal", live)
    /\ OnlyPc

\* Only forward, and only once the failed apply was recorded.
RecoverRepair ==
    /\ kind = "repair" /\ rec.st = "RECOVERY_REQUIRED"
    /\ live = Result(rec.verified) /\ Holds(work)
    /\ Resume("seal", live)
    /\ OnlyPc

\* Universal and migration: back if the exact sealed baseline is live (the
\* permit must still be ACTIVE to be revoked), forward if the candidate is.
MigrationRecovers ==
    /\ kind \in {"universal", "migration"}
    /\ rec.st \in InApply \/ (kind = "migration" /\ rec.st = "POSTCHECK_VERIFIED" /\ ~rec.receipt)
    /\ seal.by # "other"

RecoverBaseline ==
    /\ MigrationRecovers /\ (kind = "migration" => WorkIsVerified)
    /\ seal.by = "base" /\ live = Baseline
    /\ permit = "active" /\ permit' = "gone"
    /\ Resume("rolled", None)
    /\ UNCHANGED <<kind, rec, live, work, pre, seal, lease, hb, born, edits, seals>>

RecoverMigration ==
    /\ MigrationRecovers /\ WorkIsVerified
    /\ ~(seal.by = "base" /\ live = Baseline)
    /\ Holds(work)
    /\ seal.by = "tx" => live = seal.pkg /\ rec.post \in {None, seal.pkg}
    /\ Resume("heartbeat", live)
    /\ OnlyPc

\* After its heartbeat: corpus, seal, work and targets are what they were.
\* A result that is not sealed yet is sealed now.
Reread ==
    /\ pc = "reread"
    /\ IF live = found /\ seal.by # "other" /\ work = rec.verified /\ Holds(work)
       THEN Go(IF seal.by = "tx" THEN "post" ELSE "seal")
       ELSE Idle
    /\ OnlyPc /\ UNCHANGED faults

Recover ==
    /\ pc = "idle" /\ lease
    /\ \/ RecoverCommitted \/ RecoverReceipt \/ RecoverPolicy \/ RecoverAuxiliary
       \/ RecoverRepair \/ RecoverBaseline \/ RecoverMigration

-----------------------------------------------------------------------------
(* What happens beside the command.                                        *)

Kill ==
    /\ pc # "idle" /\ Fault /\ Idle
    /\ OnlyPc

\* Somebody edits a governed file, or puts the checkout's bytes back by hand.
Edit(u) ==
    /\ born /\ edits < MaxEdits /\ edits' = edits + 1
    /\ \E b \in {"alien", "base"} \ {live[u]} : live' = [live EXCEPT ![u] = b]
    /\ UNCHANGED <<kind, rec, work, pre, seal, lease, permit, hb, born, local, faults, seals>>

EditWork ==
    /\ born /\ edits < MaxEdits /\ edits' = edits + 1
    /\ work' \in Version \ {work}
    /\ UNCHANGED <<kind, rec, live, pre, seal, lease, permit, hb, born, local, faults, seals>>

\* The seal command takes no lease.
Reseal ==
    /\ born /\ seals < MaxSeals /\ seals' = seals + 1
    /\ seal' = [by |-> "other", pkg |-> live, recovered |-> FALSE]
    /\ UNCHANGED <<kind, rec, live, work, pre, lease, permit, hb, born, local, faults, edits>>

-----------------------------------------------------------------------------
Command == Checkout \/ RecoverOrphan \/ Prepare \/ Verify \/ Abort \/ Apply

\* The next step of the command that runs.
Run ==
    \/ SaveStaging \/ CopyBaseline \/ Open \/ SaveVerified
    \/ Capture \/ IssuePermit \/ Begin \/ WriteTarget \/ Written \/ Heartbeat
    \/ Postcheck \/ WriteSeal \/ SavePostcheck \/ Receipt \/ Release
    \/ CheckRestore \/ UndoTarget \/ Undone \/ SaveRolledBack \/ SaveRequired \/ Reread

Next ==
    \/ Command \/ Run \/ Recover \/ Kill
    \/ \E u \in Unit : Edit(u)
    \/ EditWork \/ Reseal

MaintenanceSpec == Init /\ [][Next]_vars

\* A started command goes on, and the operator repeats "recover" where it is
\* accepted.
FairMaintenance == MaintenanceSpec /\ WF_vars(Run) /\ WF_vars(Recover)
=============================================================================
