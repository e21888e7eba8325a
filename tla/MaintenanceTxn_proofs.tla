------------------------ MODULE MaintenanceTxn_proofs ------------------------
(***************************************************************************)
(* What holds of every maintenance transaction, for any governed files,    *)
(* any targets and any number of failures, foreign edits and reseals.      *)
(*                                                                         *)
(* The safety properties are not inductive: what a step may do follows     *)
(* from where its command is and from what state.json says by then.  Steps *)
(* ties the three together, and the other parts of Inv say what holds of   *)
(* the lease, the bytes and the seal on the way.                           *)
(***************************************************************************)
EXTENDS MCMaintenance, TLAPS

Record == [st : State, prepared : Version \cup {"none"}, verified : Version \cup {"none"},
           crossed : BOOLEAN, post : Package \cup {None}, receipt : BOOLEAN]
Seal   == [by : {"base", "tx", "other"}, pkg : Package, recovered : BOOLEAN]

Fresh   == {"none"} \cup Staging \cup PreApply    \* nothing was applied yet
Touched == InApply \cup {"POSTCHECK_VERIFIED"}    \* something was

\* The state saved when the command is at p.
SavedAt(p) ==
    CASE p \in {"stage"}                         -> {"none"}
      [] p \in {"copy", "open"}                  -> {"none", "CHECKOUT_STAGING"}
      [] p = "verified"                          -> PreApply
      [] p \in {"capture", "permit", "begin"}    -> {"SHADOW_VERIFIED"}
      [] p \in {"write", "restore", "undo", "require"} -> {"APPLYING"}
      [] p \in {"heartbeat", "postcheck", "seal", "post", "reread", "rolled"} -> Touched
      [] p = "receipt"                           -> {"POSTCHECK_VERIFIED"}
      [] p = "release"                           -> {"POSTCHECK_VERIFIED"} \cup Ended
      [] OTHER                                   -> State

Steps ==
    /\ rec.st \in SavedAt(pc)
    /\ pc \in {"idle", "stage", "copy", "open", "verified", "capture", "permit", "begin", "write"} => mode = "apply"
    /\ pc = "require" => mode # "recover"
    /\ pc \in {"heartbeat", "postcheck", "seal", "post"} => mode # "incomplete"
    /\ pc = "reread" => mode = "recover" /\ kind \in {"universal", "migration"}
    /\ pc = "heartbeat" => kind # "auxiliary" /\ (mode = "recover" => kind # "repair")
    /\ pc = "heartbeat" /\ (mode = "apply" \/ kind = "policy") => rec.st = "APPLYING"
    /\ pc = "postcheck" => rec.st = "APPLYING" /\ (mode = "recover" => kind = "policy")
    /\ pc \in {"seal", "post"} /\ mode = "apply" => rec.st = "APPLYING"
    /\ rec.receipt => rec.st = "POSTCHECK_VERIFIED" /\ pc \in {"idle", "release"}
    /\ pc = "release" /\ rec.st = "POSTCHECK_VERIFIED" => rec.receipt
    /\ pc = "restore" => kind = "policy"
    /\ pc = "undo" /\ kind # "policy" => mode # "recover"

Leased ==
    /\ pc # "idle" \/ rec.st \in InApply => lease
    /\ ~born => ~lease /\ rec.st = "none" /\ pc = "idle"

\* Which preimage, which verified candidate and which package a step can count on.
Provided ==
    /\ rec.st \in Touched \cup {"SHADOW_VERIFIED"} => rec.verified \in Version
    /\ rec.st \in Touched \/ pc = "begin" \/ (pc = "permit" /\ kind # "repair") => pre \in Package
    /\ pc \in {"seal", "post", "reread"} \/ (pc = "heartbeat" /\ mode = "recover" /\ kind # "policy")
          => found \in Package

\* After a heartbeat nothing is written, nor undone.
Boundary ==
    /\ hb => rec.st \notin Fresh /\ kind # "auxiliary" /\ pc # "write"
    /\ pc \in {"restore", "undo"} => ~hb \/ (kind = "policy" /\ ~rec.crossed)

\* Candidate bytes are in targets only, and in no preimage; what is undone is gone.
Cleaned(U) == \A u \in U : live[u] \notin Version
Owned ==
    /\ rec.st \notin Touched \/ pc = "rolled" => Cleaned(Unit)
    /\ pc = "undo" /\ mode # "incomplete" => Cleaned(Unit \ todo)
    /\ Cleaned(Unit \ Target)
    /\ \A u \in Unit : pre[u] \notin Version

\* A package about to be sealed, and one that was.
Compares == {"policy", "auxiliary", "repair"}
Sealing ==
    /\ pc = "seal" => /\ kind \in Compares => found = Result(rec.verified)
                      /\ mode = "recover" => \A u \in Target : found[u] = rec.verified
    /\ seal.by = "tx" => rec.st \notin Fresh
    /\ SealedIsVerified

Control == Steps /\ Leased /\ Provided /\ Boundary
Inv     == TypeOK /\ Control /\ Owned /\ Sealing

LEMMA Packages == Baseline \in Package
BY DEF Baseline, Package, Bytes

LEMMA SomeUnit == Unit # {} /\ None \notin Package
BY MaintenanceConstants DEF None, Package, Bytes, Version

LEMMA Updates ==
    ASSUME NEW r \in Record
    PROVE  /\ \A s \in State : [r EXCEPT !.st = s] \in Record
           /\ \A s \in State, c \in BOOLEAN : [r EXCEPT !.st = s, !.crossed = c] \in Record
           /\ \A c \in BOOLEAN : [r EXCEPT !.crossed = c] \in Record
           /\ \A c \in BOOLEAN : [r EXCEPT !.receipt = c] \in Record
           /\ \A s \in State, v \in Version \cup {"none"} : [r EXCEPT !.st = s, !.verified = v] \in Record
           /\ \A s \in State, v \in Version \cup {"none"} : [r EXCEPT !.st = s, !.prepared = v] \in Record
           /\ \A s \in State, v, w \in Version \cup {"none"} :
                 [r EXCEPT !.st = s, !.prepared = v, !.verified = w] \in Record
           /\ \A s \in State, q \in Package \cup {None} : [r EXCEPT !.st = s, !.post = q] \in Record
BY DEF Record

-----------------------------------------------------------------------------
(* Types.                                                                  *)

LocalOK == pc \in Step /\ mode \in {"apply", "recover", "incomplete"} /\ todo \subseteq Target
           /\ (todo # {} => pc \in {"write", "undo"}) /\ found \in Package \cup {None}

LEMMA GoType ==
    ASSUME TypeOK, NEW p \in Step, Go(p), todo = {} PROVE LocalOK'
BY DEF TypeOK, LocalOK, Go, Idle, Step

LEMMA IdleType == ASSUME Idle PROVE LocalOK'
BY DEF LocalOK, Idle, Step

LEMMA RaiseType == ASSUME TypeOK, Control, Raise, todo = {} \/ pc = "write" PROVE LocalOK'
BY DEF TypeOK, Control, Steps, Boundary, LocalOK, Raise, RaisePolicy, RaiseAuxiliary, RaisePastBoundary, StartUndo,
       Go, Idle, Step

LEMMA FaultType == ASSUME TypeOK, Fault \/ UNCHANGED faults PROVE faults' \in 0 .. MaxFaults
BY MaintenanceConstants DEF TypeOK, Fault

LEMMA FailType == ASSUME NEW r \in Record, FailCheckout(r) PROVE rec' \in Record
BY Updates DEF FailCheckout, PolicyCheckoutFails, AuxiliaryCheckoutFails, RepairStageFails, UniversalCheckoutFails,
       MigrationCheckoutFails, State, Staging

LEMMA SaveType ==
    ASSUME TypeOK, NEW r \in Record, NEW p \in Step, Save(r, p), todo = {}
    PROVE  rec' \in Record /\ LocalOK' /\ faults' \in 0 .. MaxFaults
BY GoType, IdleType, FaultType DEF Save, TypeOK, Record

LEMMA TypeInit == ASSUME Init PROVE TypeOK
<1>1. rec \in Record BY DEF Init, NoRecord, Record, State, Version
<1>2. faults \in 0 .. MaxFaults /\ edits \in 0 .. MaxEdits /\ seals \in 0 .. MaxSeals
  BY MaintenanceConstants DEF Init
<1>3. kind \in Kind /\ live \in Package /\ work \in Version /\ pre \in Package \cup {None} /\ seal \in Seal
  BY Packages DEF Init, Version, Seal
<1> QED BY <1>1, <1>2, <1>3 DEF TypeOK, Init, Step, Record, Seal

LEMMA TypeStep ==
    ASSUME TypeOK, Control, [Next]_vars PROVE TypeOK'
<1> USE DEF OnlyPc, OnlyRec, persistent, local
<1>0. rec \in Record /\ seal \in Seal /\ work \in Version /\ (todo # {} => pc \in {"write", "undo"})
  BY DEF TypeOK, Record, Seal
<1> DEFINE Rest == /\ kind' \in Kind /\ live' \in Package /\ work' \in Version /\ pre' \in Package \cup {None}
                   /\ seal' \in Seal /\ lease' \in BOOLEAN /\ permit' \in {"none", "active", "gone"}
                   /\ hb' \in BOOLEAN /\ born' \in BOOLEAN /\ edits' \in 0 .. MaxEdits /\ seals' \in 0 .. MaxSeals
<1>q. ASSUME Rest, rec' \in Record, LocalOK', faults' \in 0 .. MaxFaults PROVE TypeOK'
  BY <1>q DEF TypeOK, LocalOK, Record, Seal
<1>1. CASE SaveStaging
  <2>1. Rest BY <1>1 DEF TypeOK, Seal, SaveStaging
  <2>2. rec' \in Record /\ LocalOK' /\ faults' \in 0 .. MaxFaults
    BY <1>0, <1>1, Updates, SaveType, IdleType, FaultType, GoType
         DEF SaveStaging, To, Step, State, Staging
  <2> QED BY <1>q, <2>1, <2>2
<1>2. CASE RecoverOrphan
  <2>1. Rest BY <1>2 DEF TypeOK, Seal, RecoverOrphan
  <2>2. rec' \in Record /\ LocalOK' /\ faults' \in 0 .. MaxFaults
    BY <1>0, <1>2, Updates, SaveType, IdleType, FaultType, GoType
         DEF RecoverOrphan, To, Step, State, Staging, Ended
  <2> QED BY <1>q, <2>1, <2>2
<1>3. CASE Abort
  <2>1. Rest BY <1>3 DEF TypeOK, Seal, Abort
  <2>2. rec' \in Record /\ LocalOK' /\ faults' \in 0 .. MaxFaults
    BY <1>0, <1>3, Updates, SaveType, IdleType, FaultType, GoType DEF Abort, To, Step, State, Ended
  <2> QED BY <1>q, <2>1, <2>2
<1>4. CASE SaveRolledBack
  <2>1. Rest BY <1>4 DEF TypeOK, Seal, SaveRolledBack
  <2>2. rec' \in Record /\ LocalOK' /\ faults' \in 0 .. MaxFaults
    BY <1>0, <1>4, Updates, SaveType, IdleType, FaultType, GoType
         DEF SaveRolledBack, To, Step, State, Ended
  <2> QED BY <1>q, <2>1, <2>2
<1>5. CASE SaveRequired
  <2>1. Rest BY <1>5 DEF TypeOK, Seal, SaveRequired
  <2>2. rec' \in Record /\ LocalOK' /\ faults' \in 0 .. MaxFaults
    BY <1>0, <1>5, Updates, SaveType, IdleType, FaultType, GoType
         DEF SaveRequired, To, Step, State, InApply
  <2> QED BY <1>q, <2>1, <2>2
<1>6. CASE SaveVerified
  <2>1. Rest BY <1>6 DEF TypeOK, Seal, SaveVerified
  <2>2. rec' \in Record /\ LocalOK' /\ faults' \in 0 .. MaxFaults
    BY <1>0, <1>6, Updates, SaveType, IdleType, FaultType, GoType
         DEF SaveVerified, To, Step, State, PreApply, TypeOK
  <2> QED BY <1>q, <2>1, <2>2
<1>7. CASE Receipt
  <2>1. Rest BY <1>7 DEF TypeOK, Seal, Receipt
  <2>2. rec' \in Record /\ LocalOK' /\ faults' \in 0 .. MaxFaults
    BY <1>0, <1>7, Updates, SaveType, IdleType, FaultType, GoType
         DEF Receipt, To, Step, State, TypeOK
  <2> QED BY <1>q, <2>1, <2>2
<1>8. CASE Prepare
  <2>1. Rest BY <1>8 DEF TypeOK, Seal, Prepare
  <2>2. rec' \in Record /\ LocalOK' /\ faults' \in 0 .. MaxFaults
    BY <1>0, <1>8, Updates, SaveType
       DEF Prepare, PreparePolicy, PrepareUniversal, ReopenMigration, AwaitReview, PrepareMigration,
           To, Step, State, PreApply
  <2> QED BY <1>q, <2>1, <2>2
<1>9. CASE Checkout
  <2>1. Rest BY <1>0, <1>9 DEF TypeOK, Seal, Checkout
  <2>2. rec' \in Record BY <1>0, <1>9, Updates DEF Checkout, State
  <2>3. LocalOK' BY <1>0, <1>9, GoType, IdleType, RaiseType DEF Checkout, TypeOK, LocalOK, Step
  <2>4. faults' \in 0 .. MaxFaults BY <1>9, FaultType DEF Checkout
  <2> QED BY <1>q, <2>1, <2>2, <2>3, <2>4
<1>10. CASE CopyBaseline
  <2>1. Rest BY ZenonT(30), <1>0, <1>10 DEF TypeOK, Seal, CopyBaseline,
            FailCheckout, PolicyCheckoutFails, AuxiliaryCheckoutFails, RepairStageFails,
            UniversalCheckoutFails, MigrationCheckoutFails
  <2>2. rec' \in Record BY <1>0, <1>10, Updates DEF CopyBaseline, State,
            FailCheckout, PolicyCheckoutFails, AuxiliaryCheckoutFails, RepairStageFails,
            UniversalCheckoutFails, MigrationCheckoutFails, Staging
  <2>3. LocalOK' BY <1>0, <1>10, GoType, IdleType, RaiseType
       DEF CopyBaseline, TypeOK, LocalOK, Step,
            FailCheckout, PolicyCheckoutFails, AuxiliaryCheckoutFails, RepairStageFails,
            UniversalCheckoutFails, MigrationCheckoutFails
  <2>4. faults' \in 0 .. MaxFaults BY <1>10, FaultType DEF CopyBaseline,
            FailCheckout, PolicyCheckoutFails, AuxiliaryCheckoutFails, RepairStageFails,
            UniversalCheckoutFails, MigrationCheckoutFails
  <2> QED BY <1>q, <2>1, <2>2, <2>3, <2>4
<1>11. CASE Open
  <2>1. Rest BY <1>0, <1>11 DEF TypeOK, Seal, Open,
            FailCheckout, PolicyCheckoutFails, AuxiliaryCheckoutFails, RepairStageFails,
            UniversalCheckoutFails, MigrationCheckoutFails
  <2>2. Opened \in Record
    <3>1. RepairCandidate \in Record BY <1>0, Updates DEF RepairCandidate, State, PreApply
    <3>2. To("CHECKED_OUT") \in Record BY <1>0, Updates DEF To, State, PreApply
    <3> QED BY <3>1, <3>2 DEF Opened
  <2>3. rec' \in Record BY <1>0, <2>2, <1>11, FailType DEF Open
  <2>4. LocalOK' BY <1>0, <1>11, GoType, IdleType, RaiseType DEF Open, TypeOK, LocalOK, Step,
            FailCheckout, PolicyCheckoutFails, AuxiliaryCheckoutFails, RepairStageFails,
            UniversalCheckoutFails, MigrationCheckoutFails
  <2>5. faults' \in 0 .. MaxFaults BY <1>11, FaultType DEF Open,
            FailCheckout, PolicyCheckoutFails, AuxiliaryCheckoutFails, RepairStageFails,
            UniversalCheckoutFails, MigrationCheckoutFails
  <2> QED BY <1>q, <2>1, <2>3, <2>4, <2>5
<1>12. CASE Verify
  <2>1. Rest BY <1>0, <1>12 DEF TypeOK, Seal, Verify
  <2>2. rec' \in Record BY <1>0, <1>12, Updates DEF Verify, State
  <2>3. LocalOK' BY <1>0, <1>12, GoType, IdleType, RaiseType DEF Verify, TypeOK, LocalOK, Step
  <2>4. faults' \in 0 .. MaxFaults BY <1>12, FaultType DEF Verify
  <2> QED BY <1>q, <2>1, <2>2, <2>3, <2>4
<1>13. CASE Apply
  <2>1. Rest BY <1>0, <1>13 DEF TypeOK, Seal, Apply
  <2>2. rec' \in Record BY <1>0, <1>13, Updates DEF Apply, State
  <2>3. LocalOK' BY <1>0, <1>13, GoType, IdleType, RaiseType DEF Apply, TypeOK, LocalOK, Step
  <2>4. faults' \in 0 .. MaxFaults BY <1>13, FaultType DEF Apply
  <2> QED BY <1>q, <2>1, <2>2, <2>3, <2>4
<1>14. CASE Capture
  <2>1. Rest BY <1>0, <1>14 DEF TypeOK, Seal, Capture
  <2>2. rec' \in Record BY <1>0, <1>14, Updates DEF Capture, State
  <2>3. LocalOK' BY <1>0, <1>14, GoType, IdleType, RaiseType DEF Capture, TypeOK, LocalOK, Step
  <2>4. faults' \in 0 .. MaxFaults BY <1>14, FaultType DEF Capture
  <2> QED BY <1>q, <2>1, <2>2, <2>3, <2>4
<1>15. CASE IssuePermit
  <2>1. Rest BY <1>0, <1>15 DEF TypeOK, Seal, IssuePermit
  <2>2. rec' \in Record BY <1>0, <1>15, Updates DEF IssuePermit, State
  <2>3. LocalOK' BY <1>0, <1>15, GoType, IdleType, RaiseType DEF IssuePermit, TypeOK, LocalOK, Step
  <2>4. faults' \in 0 .. MaxFaults BY <1>15, FaultType DEF IssuePermit
  <2> QED BY <1>q, <2>1, <2>2, <2>3, <2>4
<1>16. CASE Begin
  <2>1. Rest BY <1>0, <1>16 DEF TypeOK, Seal, Begin
  <2>2. rec' \in Record BY ZenonT(30), <1>0, <1>16, Updates DEF Begin, State, InApply
  <2>3. LocalOK' BY <1>0, <1>16, GoType, IdleType, RaiseType DEF Begin, TypeOK, LocalOK, Step
  <2>4. faults' \in 0 .. MaxFaults BY <1>16, FaultType DEF Begin
  <2> QED BY <1>q, <2>1, <2>2, <2>3, <2>4
<1>17. CASE WriteTarget
  <2>1. Rest BY <1>0, <1>17 DEF TypeOK, Seal, WriteTarget,
            Package, Bytes, Control, Steps, SavedAt, Provided, Touched, InApply
  <2>2. rec' \in Record BY <1>0, <1>17, Updates DEF WriteTarget, State
  <2>3. LocalOK' BY <1>0, <1>17, GoType, IdleType, RaiseType DEF WriteTarget, TypeOK, LocalOK, Step
  <2>4. faults' \in 0 .. MaxFaults BY <1>17, FaultType DEF WriteTarget
  <2> QED BY <1>q, <2>1, <2>2, <2>3, <2>4
<1>18. CASE Written
  <2>1. Rest BY <1>0, <1>18 DEF TypeOK, Seal, Written
  <2>2. rec' \in Record BY <1>0, <1>18, Updates
       DEF Written, State, WrittenPolicy, WrittenAuxiliary, WrittenOther
  <2>3. LocalOK' BY <1>0, <1>18, GoType, IdleType, RaiseType
       DEF Written, TypeOK, LocalOK, Step, WrittenPolicy, WrittenAuxiliary, WrittenOther
  <2>4. faults' \in 0 .. MaxFaults BY <1>18, FaultType
       DEF Written, WrittenPolicy, WrittenAuxiliary, WrittenOther
  <2> QED BY <1>q, <2>1, <2>2, <2>3, <2>4
<1>19. CASE Heartbeat
  <2>1. Rest BY <1>0, <1>19 DEF TypeOK, Seal, Heartbeat
  <2>2. rec' \in Record BY <1>0, <1>19, Updates DEF Heartbeat, State
  <2>3. LocalOK' BY <1>0, <1>19, GoType, IdleType, RaiseType DEF Heartbeat, TypeOK, LocalOK, Step
  <2>4. faults' \in 0 .. MaxFaults BY <1>19, FaultType DEF Heartbeat
  <2> QED BY <1>q, <2>1, <2>2, <2>3, <2>4
<1>20. CASE Postcheck
  <2>1. Rest BY <1>0, <1>20 DEF TypeOK, Seal, Postcheck
  <2>2. rec' \in Record BY <1>0, <1>20, Updates DEF Postcheck, State
  <2>3. LocalOK' BY <1>0, <1>20, GoType, IdleType, RaiseType DEF Postcheck, TypeOK, LocalOK, Step
  <2>4. faults' \in 0 .. MaxFaults BY <1>20, FaultType DEF Postcheck
  <2> QED BY <1>q, <2>1, <2>2, <2>3, <2>4
<1>21. CASE WriteSeal
  <2>1. found \in Package BY <1>21 DEF WriteSeal, Control, Provided
  <2>2. [by |-> "tx", pkg |-> found, recovered |-> mode = "recover"] \in Seal BY <2>1 DEF Seal
  <2>3. Rest BY <1>0, <2>2, <1>21 DEF TypeOK, WriteSeal
  <2>4. rec' \in Record BY <1>0, <1>21 DEF WriteSeal
  <2>5. LocalOK' BY <1>0, <1>21, GoType, IdleType, RaiseType DEF WriteSeal, TypeOK, LocalOK, Step
  <2>6. faults' \in 0 .. MaxFaults BY <1>21, FaultType DEF WriteSeal
  <2> QED BY <1>q, <2>3, <2>4, <2>5, <2>6
<1>22. CASE SavePostcheck
  <2>1. Rest BY <1>0, <1>22 DEF TypeOK, Seal, SavePostcheck
  <2>2. Posted \in Record BY <1>0, Updates DEF TypeOK, Posted, State
  <2>3. [Posted EXCEPT !.st = "RECOVERY_REQUIRED"] \in Record /\ To("RECOVERY_REQUIRED") \in Record
    BY <1>0, <2>2, Updates DEF To, State, InApply
  <2> HIDE DEF Posted
  <2>6. rec' \in Record BY <1>0, <2>2, <2>3, <1>22 DEF SavePostcheck
  <2>4. LocalOK' BY <1>0, <1>22, GoType, IdleType DEF SavePostcheck, TypeOK, LocalOK, Step
  <2>5. faults' \in 0 .. MaxFaults BY <1>22, FaultType DEF SavePostcheck
  <2> QED BY <1>q, <2>1, <2>4, <2>5, <2>6
<1>23. CASE Release
  <2>1. Rest BY <1>0, <1>23 DEF TypeOK, Seal, Release
  <2>2. rec' \in Record BY <1>0, <1>23, Updates DEF Release, State
  <2>3. LocalOK' BY <1>0, <1>23, GoType, IdleType, RaiseType DEF Release, TypeOK, LocalOK, Step
  <2>4. faults' \in 0 .. MaxFaults BY <1>23, FaultType DEF Release
  <2> QED BY <1>q, <2>1, <2>2, <2>3, <2>4
<1>24. CASE CheckRestore
  <2>1. Rest BY <1>0, <1>24 DEF TypeOK, Seal, CheckRestore
  <2>2. rec' \in Record BY <1>0, <1>24, Updates DEF CheckRestore, State
  <2>3. LocalOK' BY <1>0, <1>24, GoType, IdleType, RaiseType DEF CheckRestore, TypeOK, LocalOK, Step
  <2>4. faults' \in 0 .. MaxFaults BY <1>24, FaultType DEF CheckRestore
  <2> QED BY <1>q, <2>1, <2>2, <2>3, <2>4
<1>25. CASE UndoTarget
  <2>1. Rest BY <1>0, <1>25 DEF TypeOK, Seal, UndoTarget,
            Package, Control, Steps, SavedAt, Provided, Touched, InApply
  <2>2. rec' \in Record BY <1>0, <1>25, Updates DEF UndoTarget, State
  <2>3. LocalOK' BY <1>0, <1>25, GoType, IdleType, RaiseType DEF UndoTarget, TypeOK, LocalOK, Step
  <2>4. faults' \in 0 .. MaxFaults BY <1>25, FaultType DEF UndoTarget
  <2> QED BY <1>q, <2>1, <2>2, <2>3, <2>4
<1>26. CASE Undone
  <2>1. [by |-> "base", pkg |-> Baseline, recovered |-> FALSE] \in Seal BY Packages DEF Seal
  <2>2. Rest BY <1>0, <2>1, <1>26 DEF TypeOK, Undone,
            PolicyUndone, AuxiliaryUndone, RepairUndone, MigrationUndone
  <2>3. rec' \in Record BY <1>0, <1>26 DEF Undone
  <2>4. LocalOK' BY <1>0, <1>26, GoType, IdleType DEF Undone, TypeOK, LocalOK, Step,
            PolicyUndone, AuxiliaryUndone, RepairUndone, MigrationUndone
  <2>5. faults' \in 0 .. MaxFaults BY <1>26, FaultType DEF Undone,
            PolicyUndone, AuxiliaryUndone, RepairUndone, MigrationUndone
  <2> QED BY <1>q, <2>2, <2>3, <2>4, <2>5
<1>27. CASE Reread
  <2>1. Rest BY <1>0, <1>27 DEF TypeOK, Seal, Reread
  <2>2. rec' \in Record BY <1>0, <1>27, Updates DEF Reread, State
  <2>3. LocalOK' BY <1>0, <1>27, GoType, IdleType, RaiseType DEF Reread, TypeOK, LocalOK, Step
  <2>4. faults' \in 0 .. MaxFaults BY <1>27, FaultType DEF Reread
  <2> QED BY <1>q, <2>1, <2>2, <2>3, <2>4
<1>28. CASE Recover
  <2>1. Rest BY <1>0, <1>28 DEF TypeOK, Seal, Recover,
            RecoverCommitted, RecoverReceipt, RecoverPolicy, RecoverAuxiliary, RecoverRepair,
            RecoverBaseline, RecoverMigration, Resume
  <2>2. rec' \in Record BY <1>0, <1>28, Updates DEF Recover, State,
            RecoverCommitted, RecoverReceipt, RecoverPolicy, RecoverAuxiliary, RecoverRepair,
            RecoverBaseline, RecoverMigration, Resume
  <2>3. LocalOK' BY <1>0, <1>28, GoType, IdleType, RaiseType DEF Recover, TypeOK, LocalOK, Step,
            RecoverCommitted, RecoverReceipt, RecoverPolicy, RecoverAuxiliary, RecoverRepair,
            RecoverBaseline, RecoverMigration, Resume
  <2>4. faults' \in 0 .. MaxFaults BY <1>28, FaultType DEF Recover,
            RecoverCommitted, RecoverReceipt, RecoverPolicy, RecoverAuxiliary, RecoverRepair,
            RecoverBaseline, RecoverMigration, Resume
  <2> QED BY <1>q, <2>1, <2>2, <2>3, <2>4
<1>29. CASE Kill
  <2>1. Rest BY <1>0, <1>29 DEF TypeOK, Seal, Kill
  <2>2. rec' \in Record BY <1>0, <1>29, Updates DEF Kill, State
  <2>3. LocalOK' BY <1>0, <1>29, GoType, IdleType, RaiseType DEF Kill, TypeOK, LocalOK, Step
  <2>4. faults' \in 0 .. MaxFaults BY <1>29, FaultType DEF Kill
  <2> QED BY <1>q, <2>1, <2>2, <2>3, <2>4
<1>30. CASE \E u \in Unit : Edit(u)
  <2>1. Rest BY <1>0, <1>30, MaintenanceConstants DEF TypeOK, Seal, Package, Bytes, Edit
  <2>2. rec' \in Record /\ LocalOK' /\ faults' \in 0 .. MaxFaults BY <1>0, <1>30
       DEF Edit, TypeOK, LocalOK
  <2> QED BY <1>q, <2>1, <2>2
<1>31. CASE EditWork
  <2>1. Rest BY <1>0, <1>31, MaintenanceConstants DEF TypeOK, Seal, Package, Bytes, EditWork
  <2>2. rec' \in Record /\ LocalOK' /\ faults' \in 0 .. MaxFaults BY <1>0, <1>31
       DEF EditWork, TypeOK, LocalOK
  <2> QED BY <1>q, <2>1, <2>2
<1>32. CASE Reseal
  <2>1. Rest BY <1>0, <1>32, MaintenanceConstants DEF TypeOK, Seal, Package, Bytes, Reseal
  <2>2. rec' \in Record /\ LocalOK' /\ faults' \in 0 .. MaxFaults BY <1>0, <1>32
       DEF Reseal, TypeOK, LocalOK
  <2> QED BY <1>q, <2>1, <2>2
<1>33. CASE UNCHANGED vars BY <1>33 DEF vars, TypeOK
<1> QED BY <1>1, <1>2, <1>3, <1>4, <1>5, <1>6, <1>7, <1>8, <1>9, <1>10, <1>11, <1>12, <1>13, <1>14,
           <1>15, <1>16, <1>17, <1>18, <1>19, <1>20, <1>21, <1>22, <1>23, <1>24, <1>25, <1>26,
           <1>27, <1>28, <1>29, <1>30, <1>31, <1>32, <1>33
       DEF Next, Command, Run

LEMMA ControlStep ==
    ASSUME TypeOK, Control, [Next]_vars PROVE Control'
<1> USE DEF OnlyPc, OnlyRec, persistent, local, Fault, Go, Idle, State, Staging, PreApply, InApply,
            Ended, Touched, Fresh
<1>0. TypeOK /\ Control /\ rec \in Record /\ kind \in Kind
      /\ mode \in {"apply", "recover", "incomplete"}
  BY DEF TypeOK, Record
<1>t. found \in Package \cup {None} /\ pre \in Package \cup {None} /\ live \in Package /\ work \in Version BY
     DEF TypeOK
<1> USE DEF Control, Steps, SavedAt, Leased, Provided, Boundary, Record, Kind, Package
<1>1. CASE SaveStaging BY <1>0, <1>1, <1>t, MaintenanceConstants DEF SaveStaging, Save, To
<1>2. CASE RecoverOrphan BY <1>0, <1>2, <1>t, MaintenanceConstants DEF RecoverOrphan, Save, To
<1>3. CASE Abort BY <1>0, <1>3, <1>t, MaintenanceConstants DEF Abort, Save, To, AbortableFrom
<1>4. CASE SaveRolledBack BY <1>0, <1>4, <1>t, MaintenanceConstants DEF SaveRolledBack, Save, To
<1>5. CASE SaveRequired BY <1>0, <1>5, <1>t, MaintenanceConstants DEF SaveRequired, Save, To
<1>6. CASE SaveVerified BY ZenonT(30), <1>0, <1>6, <1>t, MaintenanceConstants DEF SaveVerified, Save
<1>7. CASE Receipt BY <1>0, <1>7, <1>t, MaintenanceConstants DEF Receipt, Save, OwnsResult
<1>8. CASE Prepare BY ZenonT(30), <1>0, <1>8, <1>t, MaintenanceConstants
     DEF Prepare, PreparePolicy, PrepareUniversal, ReopenMigration, AwaitReview, PrepareMigration,
         MigrationReview, Save, To
<1>9. CASE Checkout BY <1>0, <1>9, <1>t, MaintenanceConstants DEF Checkout
<1>10. CASE CopyBaseline BY <1>0, <1>10, <1>t, MaintenanceConstants
     DEF CopyBaseline, FailCheckout, PolicyCheckoutFails, AuxiliaryCheckoutFails, RepairStageFails,
         UniversalCheckoutFails, MigrationCheckoutFails
<1>11. CASE Open BY ZenonT(30), <1>0, <1>11, <1>t, MaintenanceConstants
     DEF Open, FailCheckout, PolicyCheckoutFails, AuxiliaryCheckoutFails, RepairStageFails,
         UniversalCheckoutFails, MigrationCheckoutFails, Opened, RepairCandidate, To
<1>12. CASE Verify BY <1>0, <1>12, <1>t, MaintenanceConstants
     DEF Verify, Verifiable, MayVerifyPolicy, MayVerifyAuxiliary, MayVerifyUniversal,
         MayVerifyMigration
<1>13. CASE Apply BY <1>0, <1>13, <1>t, MaintenanceConstants DEF Apply
<1>14. CASE Capture BY <1>0, <1>14, <1>t, MaintenanceConstants DEF Capture
<1>15. CASE IssuePermit BY <1>0, <1>15, <1>t, MaintenanceConstants DEF IssuePermit
<1>16. CASE Begin BY <1>0, <1>16, <1>t, MaintenanceConstants DEF Begin
<1>17. CASE WriteTarget BY <1>0, <1>17, <1>t, MaintenanceConstants
     DEF WriteTarget, Raise, RaisePolicy, RaiseAuxiliary, RaisePastBoundary, StartUndo
<1>18. CASE Written BY <1>0, <1>18, <1>t, MaintenanceConstants
     DEF Written, WrittenPolicy, WrittenAuxiliary, WrittenOther, Raise, RaisePolicy, RaiseAuxiliary,
         RaisePastBoundary, StartUndo
<1>19. CASE Heartbeat BY <1>0, <1>19, <1>t, MaintenanceConstants DEF Heartbeat
<1>20. CASE Postcheck BY <1>0, <1>20, <1>t, MaintenanceConstants
     DEF Postcheck, Raise, RaisePolicy, RaiseAuxiliary, RaisePastBoundary, StartUndo
<1>21. CASE WriteSeal BY <1>0, <1>21, <1>t, MaintenanceConstants
     DEF WriteSeal, Raise, RaisePolicy, RaiseAuxiliary, RaisePastBoundary, StartUndo
<1>22. CASE SavePostcheck
  <2>1. UNCHANGED <<kind, pre, lease, hb, born>> /\ pc' \in {"receipt", "idle"} /\ lease /\ rec.st \in Touched
    BY <1>0, <1>22 DEF SavePostcheck
  <2>2. /\ rec'.st \in Touched /\ rec'.verified = rec.verified /\ rec'.receipt = rec.receipt
        /\ pc' = "receipt" => rec'.st = "POSTCHECK_VERIFIED"
    BY ZenonT(30), <1>0, <1>22 DEF SavePostcheck, Posted, To
  <2>3. pc = "post" /\ (pc' = "idle" => mode' = "apply") BY <1>22 DEF SavePostcheck
  <2>4. Steps' BY <2>1, <2>2, <2>3, <1>0
  <2>5. Leased' /\ Provided' /\ Boundary' BY <2>1, <2>2, <2>3, <1>0, <1>t
  <2> QED BY <2>4, <2>5
<1>23. CASE Release BY <1>0, <1>23, <1>t, MaintenanceConstants DEF Release
<1>24. CASE CheckRestore BY <1>0, <1>24, <1>t, MaintenanceConstants DEF CheckRestore
<1>25. CASE UndoTarget BY <1>0, <1>25, <1>t, MaintenanceConstants DEF UndoTarget
<1>26. CASE Undone BY <1>0, <1>26, <1>t, MaintenanceConstants
     DEF Undone, PolicyUndone, AuxiliaryUndone, RepairUndone, MigrationUndone, Restored
<1>27. CASE Reread BY <1>0, <1>27, <1>t, MaintenanceConstants DEF Reread
<1>28. CASE Recover
  <2>0. pc = "idle" /\ lease BY <1>28 DEF Recover
  <2>1. CASE RecoverCommitted BY <1>0, <2>0, <2>1, <1>t, MaintenanceConstants
       DEF RecoverCommitted, Resume
  <2>2. CASE RecoverReceipt BY <1>0, <2>0, <2>2, <1>t, MaintenanceConstants
       DEF RecoverReceipt, Resume
  <2>3. CASE RecoverPolicy BY <1>0, <2>0, <2>3, <1>t, MaintenanceConstants DEF RecoverPolicy, Resume
  <2>4. CASE RecoverAuxiliary BY <1>0, <2>0, <2>4, <1>t, MaintenanceConstants
       DEF RecoverAuxiliary, Resume
  <2>5. CASE RecoverRepair BY <1>0, <2>0, <2>5, <1>t, MaintenanceConstants DEF RecoverRepair, Resume
  <2>6. CASE RecoverBaseline BY <1>0, <2>0, <2>6, <1>t, MaintenanceConstants
       DEF RecoverBaseline, MigrationRecovers, Resume
  <2>7. CASE RecoverMigration BY <1>0, <2>0, <2>7, <1>t, MaintenanceConstants
       DEF RecoverMigration, MigrationRecovers, Resume
  <2> QED BY <1>28, <2>1, <2>2, <2>3, <2>4, <2>5, <2>6, <2>7 DEF Recover
<1>29. CASE Kill BY <1>0, <1>29, <1>t, MaintenanceConstants DEF Kill
<1>30. CASE \E u \in Unit : Edit(u) BY <1>0, <1>30, <1>t, MaintenanceConstants DEF Edit
<1>31. CASE EditWork BY <1>0, <1>31, <1>t, MaintenanceConstants DEF EditWork
<1>32. CASE Reseal BY <1>0, <1>32, <1>t, MaintenanceConstants DEF Reseal
<1>33. CASE UNCHANGED vars BY <1>33 DEF vars, Control
<1> QED BY <1>1, <1>2, <1>3, <1>4, <1>5, <1>6, <1>7, <1>8, <1>9, <1>10, <1>11, <1>12, <1>13, <1>14,
           <1>15, <1>16, <1>17, <1>18, <1>19, <1>20, <1>21, <1>22, <1>23, <1>24, <1>25, <1>26,
           <1>27, <1>28, <1>29, <1>30, <1>31, <1>32, <1>33
       DEF Next, Command, Run

LEMMA OwnedStep ==
    ASSUME TypeOK, Control, Owned, [Next]_vars PROVE Owned'
<1> USE DEF OnlyPc, OnlyRec, persistent, local, Fault, Go, Idle, State, Staging, PreApply, InApply,
            Ended, Touched, Fresh
<1>0. TypeOK /\ Control /\ rec \in Record /\ kind \in Kind
      /\ mode \in {"apply", "recover", "incomplete"}
  BY DEF TypeOK, Record
<1>c. work \in Version /\ live \in Package /\ todo \subseteq Target
      /\ \A u \in Unit : "base" \notin Version /\ "alien" \notin Version /\ "none" \notin Version
  BY DEF TypeOK, Version
<1> USE DEF Control, Steps, SavedAt, Provided, Owned, Cleaned, Record, Version, Baseline
<1>1. CASE SaveStaging BY <1>0, <1>1, <1>c, MaintenanceConstants DEF SaveStaging, Save, To
<1>2. CASE RecoverOrphan BY <1>0, <1>2, <1>c, MaintenanceConstants DEF RecoverOrphan, Save, To
<1>3. CASE Abort
  <2>1. rec.st \notin Touched
    BY <1>0, <1>3 DEF Abort, AbortableFrom, Kind
  <2>2. Cleaned(Unit) BY <2>1 DEF Owned
  <2>3. live' = live /\ pre' = pre /\ pc' \in {"idle", "release"} BY <1>3 DEF Abort, Save
  <2>4. Cleaned(Unit)' BY <2>2, <2>3 DEF Cleaned
  <2> QED BY <2>3, <2>4, <1>c, MaintenanceConstants DEF Owned, Cleaned
<1>4. CASE SaveRolledBack BY <1>0, <1>4, <1>c, MaintenanceConstants DEF SaveRolledBack, Save, To
<1>5. CASE SaveRequired BY <1>0, <1>5, <1>c, MaintenanceConstants DEF SaveRequired, Save, To
<1>6. CASE SaveVerified BY <1>0, <1>6, <1>c, MaintenanceConstants DEF SaveVerified, Save
<1>7. CASE Receipt BY <1>0, <1>7, <1>c, MaintenanceConstants DEF Receipt, Save, OwnsResult
<1>8. CASE Prepare BY <1>0, <1>8, <1>c, MaintenanceConstants
     DEF Prepare, PreparePolicy, PrepareUniversal, ReopenMigration, AwaitReview, PrepareMigration,
         MigrationReview, Save, To
<1>9. CASE Checkout BY <1>0, <1>9, <1>c, MaintenanceConstants DEF Checkout
<1>10. CASE CopyBaseline BY <1>0, <1>10, <1>c, MaintenanceConstants
     DEF CopyBaseline, FailCheckout, PolicyCheckoutFails, AuxiliaryCheckoutFails, RepairStageFails,
         UniversalCheckoutFails, MigrationCheckoutFails
<1>11. CASE Open BY <1>0, <1>11, <1>c, MaintenanceConstants
     DEF Open, FailCheckout, PolicyCheckoutFails, AuxiliaryCheckoutFails, RepairStageFails,
         UniversalCheckoutFails, MigrationCheckoutFails, Opened, RepairCandidate, To
<1>12. CASE Verify BY <1>0, <1>12, <1>c, MaintenanceConstants
     DEF Verify, Verifiable, MayVerifyPolicy, MayVerifyAuxiliary, MayVerifyUniversal,
         MayVerifyMigration
<1>13. CASE Apply BY <1>0, <1>13, <1>c, MaintenanceConstants DEF Apply
<1>14. CASE Capture BY <1>0, <1>14, <1>c, MaintenanceConstants DEF Capture
<1>15. CASE IssuePermit BY <1>0, <1>15, <1>c, MaintenanceConstants DEF IssuePermit
<1>16. CASE Begin BY <1>0, <1>16, <1>c, MaintenanceConstants DEF Begin
<1>17. CASE WriteTarget
  <2>1. rec.st = "APPLYING" /\ rec' = rec /\ pre' = pre BY <1>0, <1>17
       DEF WriteTarget, Control, Steps, SavedAt
  <2>2. pc' \in {"write", "restore", "undo", "require", "idle"} /\ (pc' = "undo" => todo' = Target)
    BY <1>17 DEF WriteTarget, Raise, RaisePolicy, RaiseAuxiliary, RaisePastBoundary, StartUndo
  <2>3. \A u \in Unit \ Target : live'[u] = live[u]
    BY <1>c, <1>17 DEF WriteTarget, Package
  <2>4. Cleaned(Unit \ Target)' BY <2>3 DEF Owned, Cleaned
  <2> QED BY <2>1, <2>2, <2>4 DEF Owned, Cleaned
<1>18. CASE Written BY <1>0, <1>18, <1>c, MaintenanceConstants
     DEF Written, WrittenPolicy, WrittenAuxiliary, WrittenOther, Raise, RaisePolicy, RaiseAuxiliary,
         RaisePastBoundary, StartUndo
<1>19. CASE Heartbeat BY <1>0, <1>19, <1>c, MaintenanceConstants DEF Heartbeat
<1>20. CASE Postcheck BY <1>0, <1>20, <1>c, MaintenanceConstants
     DEF Postcheck, Raise, RaisePolicy, RaiseAuxiliary, RaisePastBoundary, StartUndo
<1>21. CASE WriteSeal BY <1>0, <1>21, <1>c, MaintenanceConstants
     DEF WriteSeal, Raise, RaisePolicy, RaiseAuxiliary, RaisePastBoundary, StartUndo
<1>22. CASE SavePostcheck BY <1>0, <1>22, <1>c, MaintenanceConstants DEF SavePostcheck, Posted, To
<1>23. CASE Release BY <1>0, <1>23, <1>c, MaintenanceConstants DEF Release
<1>24. CASE CheckRestore BY <1>0, <1>24, <1>c, MaintenanceConstants DEF CheckRestore
<1>25. CASE UndoTarget
  <2>1. rec.st = "APPLYING" /\ rec' = rec /\ pre' = pre /\ pc' \in {"undo", "idle"}
    BY <1>0, <1>25 DEF UndoTarget, Control, Steps, SavedAt
  <2>2. CASE live' = live /\ (mode' = "incomplete" \/ pc' = "idle") BY <2>1, <2>2 DEF Owned, Cleaned
  <2>3. ASSUME NEW u \in todo, live' = [live EXCEPT ![u] = pre[u]], todo' = todo \ {u}, mode' = mode, pc' = pc
        PROVE  Owned'
    <3>1. \A w \in Unit : live'[w] = (IF w = u THEN pre[u] ELSE live[w]) BY <1>c, <2>3 DEF Package
    <3>2. u \in Unit /\ pre[u] \notin Version BY <1>c, <2>3, MaintenanceConstants DEF Owned
    <3> QED BY <2>1, <2>3, <3>1, <3>2 DEF Owned, Cleaned
  <2> QED BY <2>2, <2>3, <1>25 DEF UndoTarget
<1>26. CASE Undone BY <1>0, <1>26, <1>c, MaintenanceConstants
     DEF Undone, PolicyUndone, AuxiliaryUndone, RepairUndone, MigrationUndone, Restored
<1>27. CASE Reread BY <1>0, <1>27, <1>c, MaintenanceConstants DEF Reread
<1>28. CASE Recover
  <2>1. pc = "idle" /\ lease BY <1>28 DEF Recover
  <2>2. live' = live /\ pre' = pre /\ rec' = rec /\ pc' \notin {"undo", "idle"}
    BY <1>28
         DEF Recover, RecoverCommitted, RecoverReceipt, RecoverPolicy, RecoverAuxiliary,
             RecoverRepair,
             RecoverBaseline, RecoverMigration, Resume
  <2>3. pc' = "rolled" => live = Baseline
    BY <1>28
         DEF Recover, RecoverCommitted, RecoverReceipt, RecoverPolicy, RecoverAuxiliary,
             RecoverRepair,
             RecoverBaseline, RecoverMigration, Resume, AtBaseline
  <2>4. live = Baseline => Cleaned(Unit)' BY <1>c, <2>2 DEF Baseline, Cleaned
  <2> QED BY <2>2, <2>3, <2>4 DEF Owned, Cleaned
<1>29. CASE Kill BY <1>0, <1>29, <1>c, MaintenanceConstants DEF Kill
<1>30. CASE \E u \in Unit : Edit(u) BY <1>0, <1>30, <1>c, MaintenanceConstants DEF Edit
<1>31. CASE EditWork BY <1>0, <1>31, <1>c, MaintenanceConstants DEF EditWork
<1>32. CASE Reseal BY <1>0, <1>32, <1>c, MaintenanceConstants DEF Reseal
<1>33. CASE UNCHANGED vars BY <1>33 DEF vars, Owned, Cleaned
<1> QED BY <1>1, <1>2, <1>3, <1>4, <1>5, <1>6, <1>7, <1>8, <1>9, <1>10, <1>11, <1>12, <1>13, <1>14,
           <1>15, <1>16, <1>17, <1>18, <1>19, <1>20, <1>21, <1>22, <1>23, <1>24, <1>25, <1>26,
           <1>27, <1>28, <1>29, <1>30, <1>31, <1>32, <1>33
       DEF Next, Command, Run

LEMMA SealingStep ==
    ASSUME TypeOK, Control, Sealing, [Next]_vars PROVE Sealing'
<1> USE DEF OnlyPc, OnlyRec, persistent, local, Fault, Go, Idle, State, Staging, PreApply, InApply,
            Ended, Touched, Fresh
<1>0. TypeOK /\ Control /\ rec \in Record /\ kind \in Kind
      /\ mode \in {"apply", "recover", "incomplete"}
  BY DEF TypeOK, Record
<1> USE DEF Control, Steps, SavedAt, Provided, Sealing, SealedIsVerified, Compares, Record
<1>1. CASE SaveStaging BY <1>0, <1>1, MaintenanceConstants DEF SaveStaging, Save, To
<1>2. CASE RecoverOrphan BY <1>0, <1>2, MaintenanceConstants DEF RecoverOrphan, Save, To
<1>3. CASE Abort BY <1>0, <1>3, MaintenanceConstants DEF Abort, Save, To, AbortableFrom
<1>4. CASE SaveRolledBack BY <1>0, <1>4, MaintenanceConstants DEF SaveRolledBack, Save, To
<1>5. CASE SaveRequired BY <1>0, <1>5, MaintenanceConstants DEF SaveRequired, Save, To
<1>6. CASE SaveVerified BY <1>0, <1>6, MaintenanceConstants DEF SaveVerified, Save
<1>7. CASE Receipt BY <1>0, <1>7, MaintenanceConstants DEF Receipt, Save, OwnsResult
<1>8. CASE Prepare BY <1>0, <1>8, MaintenanceConstants
     DEF Prepare, PreparePolicy, PrepareUniversal, ReopenMigration, AwaitReview, PrepareMigration,
         MigrationReview, Save, To
<1>9. CASE Checkout BY <1>0, <1>9, MaintenanceConstants DEF Checkout
<1>10. CASE CopyBaseline BY <1>0, <1>10, MaintenanceConstants
     DEF CopyBaseline, FailCheckout, PolicyCheckoutFails, AuxiliaryCheckoutFails, RepairStageFails,
         UniversalCheckoutFails, MigrationCheckoutFails
<1>11. CASE Open BY <1>0, <1>11, MaintenanceConstants
     DEF Open, FailCheckout, PolicyCheckoutFails, AuxiliaryCheckoutFails, RepairStageFails,
         UniversalCheckoutFails, MigrationCheckoutFails, Opened, RepairCandidate, To
<1>12. CASE Verify BY <1>0, <1>12, MaintenanceConstants
     DEF Verify, Verifiable, MayVerifyPolicy, MayVerifyAuxiliary, MayVerifyUniversal,
         MayVerifyMigration
<1>13. CASE Apply BY <1>0, <1>13, MaintenanceConstants DEF Apply
<1>14. CASE Capture BY <1>0, <1>14, MaintenanceConstants DEF Capture
<1>15. CASE IssuePermit BY <1>0, <1>15, MaintenanceConstants DEF IssuePermit
<1>16. CASE Begin BY <1>0, <1>16, MaintenanceConstants DEF Begin
<1>17. CASE WriteTarget BY <1>0, <1>17, MaintenanceConstants
     DEF WriteTarget, Raise, RaisePolicy, RaiseAuxiliary, RaisePastBoundary, StartUndo
<1>18. CASE Written BY <1>0, <1>18, MaintenanceConstants
     DEF Written, WrittenPolicy, WrittenAuxiliary, WrittenOther, Raise, RaisePolicy, RaiseAuxiliary,
         RaisePastBoundary, StartUndo
<1>19. CASE Heartbeat BY <1>0, <1>19, MaintenanceConstants DEF Heartbeat
<1>20. CASE Postcheck
  <2>1. UNCHANGED <<kind, rec, seal>> BY <1>20 DEF Postcheck
  <2>2. pc' = "seal" => PostcheckHolds /\ found' = live /\ mode' = mode
    BY <1>20 DEF Postcheck, Raise, RaisePolicy, RaiseAuxiliary, RaisePastBoundary, StartUndo
  <2>3. mode = "recover" => kind = "policy" BY <1>0, <1>20 DEF Postcheck, Control, Steps
  <2>4. PostcheckHolds /\ kind \in Compares => live = Result(rec.verified)
    BY DEF PostcheckHolds, PolicyResultHolds, AuxiliaryResultHolds, RepairResultHolds, Compares
  <2>5. live = Result(rec.verified) => \A u \in Target : live[u] = rec.verified
    BY MaintenanceConstants DEF Result
  <2> QED BY <2>1, <2>2, <2>3, <2>4, <2>5 DEF Sealing, SealedIsVerified, Compares
<1>21. CASE WriteSeal
  <2>1. kind' = kind /\ rec' = rec /\ rec.st \in Touched BY <1>0, <1>21
       DEF WriteSeal, Control, Steps, SavedAt
  <2>2. CASE seal' = seal /\ pc' # "seal" BY <2>1, <2>2 DEF Sealing, SealedIsVerified
  <2>3. CASE seal' = [by |-> "tx", pkg |-> found, recovered |-> mode = "recover"] /\ pc' = "post"
    <3>1. seal'.pkg = found /\ (seal'.recovered <=> mode = "recover") BY <2>3
    <3>2. pc = "seal" BY <1>21 DEF WriteSeal
    <3> QED BY <2>1, <2>3, <3>1, <3>2 DEF Sealing, SealedIsVerified, Compares
  <2>4. pc' # "seal" BY <1>21
       DEF WriteSeal, Raise, RaisePolicy, RaiseAuxiliary, RaisePastBoundary, StartUndo
  <2> QED BY <2>2, <2>3, <2>4, <1>21 DEF WriteSeal
<1>22. CASE SavePostcheck
  <2>1. UNCHANGED <<kind, seal>> /\ pc' # "seal" BY <1>22 DEF SavePostcheck
  <2>2. rec.st \in Touched BY <1>0, <1>22 DEF SavePostcheck, Control, Steps, SavedAt
  <2>3. /\ Posted.st = "POSTCHECK_VERIFIED" /\ Posted.verified = rec.verified
        /\ [Posted EXCEPT !.st = "RECOVERY_REQUIRED"].st = "RECOVERY_REQUIRED"
        /\ [Posted EXCEPT !.st = "RECOVERY_REQUIRED"].verified = rec.verified
        /\ To("RECOVERY_REQUIRED").st = "RECOVERY_REQUIRED" /\ To("RECOVERY_REQUIRED").verified = rec.verified
    BY <1>0 DEF Posted, To, Record
  <2> HIDE DEF Posted, To
  <2>4. rec' \in {rec, Posted, To("RECOVERY_REQUIRED"), [Posted EXCEPT !.st = "RECOVERY_REQUIRED"]}
    BY <1>22 DEF SavePostcheck
  <2>5. rec'.st \in Touched /\ rec'.verified = rec.verified BY <2>2, <2>3, <2>4
  <2> QED BY <2>1, <2>5 DEF Sealing, SealedIsVerified
<1>23. CASE Release BY <1>0, <1>23, MaintenanceConstants DEF Release
<1>24. CASE CheckRestore BY <1>0, <1>24, MaintenanceConstants DEF CheckRestore
<1>25. CASE UndoTarget BY <1>0, <1>25, MaintenanceConstants DEF UndoTarget
<1>26. CASE Undone BY <1>0, <1>26, MaintenanceConstants
     DEF Undone, PolicyUndone, AuxiliaryUndone, RepairUndone, MigrationUndone, Restored
<1>27. CASE Reread
  <2>1. UNCHANGED <<kind, rec, seal>> /\ pc = "reread" BY <1>27 DEF Reread
  <2>2. pc' = "seal" => found' = found /\ live = found /\ Holds(rec.verified) BY <1>27 DEF Reread
  <2>3. kind \notin Compares BY <1>0, <2>1 DEF Control, Steps, Compares
  <2> QED BY <2>1, <2>2, <2>3 DEF Sealing, SealedIsVerified, Holds
<1>28. CASE Recover
  <2>1. UNCHANGED <<kind, rec, seal>>
    BY <1>28
         DEF Recover, RecoverCommitted, RecoverReceipt, RecoverPolicy, RecoverAuxiliary,
             RecoverRepair,
             RecoverBaseline, RecoverMigration, Resume
  <2>2. pc' = "seal" => live = Result(rec.verified) /\ found' = live
    BY <1>28
         DEF Recover, RecoverCommitted, RecoverReceipt, RecoverPolicy, RecoverAuxiliary,
             RecoverRepair,
             RecoverBaseline, RecoverMigration, Resume
  <2>3. live = Result(rec.verified) => \A u \in Target : live[u] = rec.verified
    BY MaintenanceConstants DEF Result
  <2> QED BY <2>1, <2>2, <2>3 DEF Sealing, SealedIsVerified
<1>29. CASE Kill BY <1>0, <1>29, MaintenanceConstants DEF Kill
<1>30. CASE \E u \in Unit : Edit(u) BY <1>0, <1>30, MaintenanceConstants DEF Edit
<1>31. CASE EditWork BY <1>0, <1>31, MaintenanceConstants DEF EditWork
<1>32. CASE Reseal BY <1>0, <1>32, MaintenanceConstants DEF Reseal
<1>33. CASE UNCHANGED vars BY <1>33 DEF vars, Sealing, SealedIsVerified, Compares, Result
<1> QED BY <1>1, <1>2, <1>3, <1>4, <1>5, <1>6, <1>7, <1>8, <1>9, <1>10, <1>11, <1>12, <1>13, <1>14,
           <1>15, <1>16, <1>17, <1>18, <1>19, <1>20, <1>21, <1>22, <1>23, <1>24, <1>25, <1>26,
           <1>27, <1>28, <1>29, <1>30, <1>31, <1>32, <1>33
       DEF Next, Command, Run

-----------------------------------------------------------------------------
(* The serial change of the corpus: which phases a step may join.          *)

Joins(a, b) ==
    \/ a = b
    \/ a = "new" /\ b = "open"
    \/ a = "open" /\ b \in {"mutating", "closed"}
    \/ a = "mutating" /\ b \in {"proved", "closed"}
    \/ a = "proved" /\ b = "closed"

SerialStep == [Serial!Next]_(Serial!serial)

LEMMA Joined ==
    ASSUME lease, lease' = lease, Joins(Phase, Phase') PROVE SerialStep
<1> DEFINE ph == [x \in {t} |-> Phase]
           hd == IF lease THEN t ELSE nobody
<1>1. ph[t] = Phase /\ hd = t /\ hd' = hd BY DEF ph, hd
<1>2. ASSUME NEW b, Phase' = b PROVE ph' = [ph EXCEPT ![t] = b] BY <1>2
<1>3. CASE Phase' = Phase BY <1>3 DEF SerialStep, Serial!serial
<1>4. CASE Phase' # Phase
  <2>1. Serial!Next
    BY <1>1, <1>2, <1>4 DEF Joins, Serial!Next, Serial!Move, Serial!Open, Serial!Cancel, Serial!Mutate,
       Serial!Prove, Serial!Undo, Serial!Acknowledge
  <2> QED BY <2>1 DEF SerialStep
<1> QED BY <1>3, <1>4

LEMMA Stutters == ASSUME lease' = lease, Phase' = Phase PROVE SerialStep
BY DEF SerialStep, Serial!serial

LEMMA Frame ==
    ASSUME lease' = lease, kind' = kind, rec'.st = rec.st, rec'.receipt = rec.receipt PROVE SerialStep
<1>1. Phase' = Phase BY DEF Phase
<1> QED BY <1>1, Stutters

LEMMA GivesUp ==
    ASSUME lease, ~lease', Phase = "new", Phase' \in {"new", "open"} PROVE SerialStep
<1> DEFINE ph == [x \in {t} |-> Phase]
<1>1. ph[t] = "new" /\ ph' \in {ph, [ph EXCEPT ![t] = "open"]} BY DEF ph
<1>2. Serial!GiveUp(t) BY <1>1 DEF Serial!GiveUp
<1> QED BY <1>2 DEF SerialStep, Serial!Next

\* The phase of a record in state st, whose receipt is committed or not.
LEMMA Phases ==
    ASSUME rec.st \in State
    PROVE  /\ rec.st \in PreApply => Phase = "open"
           /\ rec.st \in {"none", "ABORTED_ORPHANED_CHECKOUT", "CHECKOUT_FAILED"} => Phase = "new"
           /\ rec.st = "CHECKOUT_STAGING" => Phase = (IF kind = "policy" THEN "open" ELSE "new")
           /\ rec.st \in InApply => Phase = "mutating"
           /\ rec.st = "POSTCHECK_VERIFIED" => Phase = (IF rec.receipt THEN "closed" ELSE "proved")
           /\ rec.st \in {"ROLLED_BACK", "ABORTED"} => Phase = "closed"
BY DEF Phase, PreApply, InApply, Staging

LEMMA NextPhases ==
    ASSUME rec'.st \in State
    PROVE  /\ rec'.st \in PreApply => Phase' = "open"
           /\ rec'.st \in {"none", "ABORTED_ORPHANED_CHECKOUT", "CHECKOUT_FAILED"} => Phase' = "new"
           /\ rec'.st = "CHECKOUT_STAGING" => Phase' = (IF kind' = "policy" THEN "open" ELSE "new")
           /\ rec'.st \in InApply => Phase' = "mutating"
           /\ rec'.st = "POSTCHECK_VERIFIED" => Phase' = (IF rec'.receipt THEN "closed" ELSE "proved")
           /\ rec'.st \in {"ROLLED_BACK", "ABORTED"} => Phase' = "closed"
BY DEF Phase, PreApply, InApply, Staging

LEMMA Serializes ==
    ASSUME TypeOK, Control, TypeOK', [Next]_vars PROVE SerialStep
<1> USE DEF OnlyPc, OnlyRec, persistent, local, Fault, Go, Idle, State, Staging, PreApply, InApply,
            Ended, Touched, Fresh
<1>0. /\ rec \in Record /\ rec.st \in State /\ rec'.st \in State /\ kind \in Kind
      /\ (pc # "idle" => lease) /\ rec.st \in SavedAt(pc) /\ (rec.receipt => rec.st = "POSTCHECK_VERIFIED")
  BY DEF TypeOK, Record, Control, Leased, Steps
<1>p. Phase \in {"new", "open", "mutating", "proved", "closed"} BY DEF Phase
<1>1. CASE SaveStaging
  <2>1. lease /\ lease' = lease /\ kind' = kind BY <1>0, <1>1 DEF SaveStaging
  <2>2. Joins(Phase, Phase') BY <1>0, <2>1, <1>1, Phases, NextPhases
       DEF Joins, SavedAt, Record, SaveStaging, Save, To
  <2> QED BY <2>1, <2>2, Joined
<1>2. CASE RecoverOrphan
  <2>1. lease /\ lease' = lease /\ kind' = kind BY <1>0, <1>2 DEF RecoverOrphan
  <2>2. Joins(Phase, Phase') BY <1>0, <2>1, <1>2, Phases, NextPhases
       DEF Joins, SavedAt, Record, RecoverOrphan, Save, To
  <2> QED BY <2>1, <2>2, Joined
<1>3. CASE Abort
  <2>1. lease /\ lease' = lease /\ kind' = kind BY <1>0, <1>3 DEF Abort
  <2>2. Joins(Phase, Phase') BY <1>0, <2>1, <1>3, Phases, NextPhases
       DEF Joins, SavedAt, Record, Abort, Save, To, AbortableFrom, Kind
  <2> QED BY <2>1, <2>2, Joined
<1>4. CASE SaveRolledBack
  <2>1. lease /\ lease' = lease /\ kind' = kind BY <1>0, <1>4 DEF SaveRolledBack
  <2>2. Joins(Phase, Phase') BY <1>0, <2>1, <1>4, Phases, NextPhases
       DEF Joins, SavedAt, Record, SaveRolledBack, Save, To, Control, Steps
  <2> QED BY <2>1, <2>2, Joined
<1>5. CASE SaveRequired
  <2>1. lease /\ lease' = lease /\ kind' = kind BY <1>0, <1>5 DEF SaveRequired
  <2>2. Joins(Phase, Phase') BY <1>0, <2>1, <1>5, Phases, NextPhases
       DEF Joins, SavedAt, Record, SaveRequired, Save, To
  <2> QED BY <2>1, <2>2, Joined
<1>6. CASE SaveVerified
  <2>1. lease /\ lease' = lease /\ kind' = kind BY <1>0, <1>6 DEF SaveVerified
  <2>2. Joins(Phase, Phase') BY <1>0, <2>1, <1>6, Phases, NextPhases
       DEF Joins, SavedAt, Record, SaveVerified, Save
  <2> QED BY <2>1, <2>2, Joined
<1>7. CASE Receipt
  <2>1. lease /\ lease' = lease /\ kind' = kind BY <1>0, <1>7 DEF Receipt
  <2>2. Joins(Phase, Phase') BY <1>0, <2>1, <1>7, Phases, NextPhases
       DEF Joins, SavedAt, Record, Receipt, Save, Control, Steps
  <2> QED BY <2>1, <2>2, Joined
<1>8. CASE Prepare
  <2>1. lease /\ lease' = lease /\ kind' = kind BY <1>0, <1>8 DEF Prepare
  <2>2. Joins(Phase, Phase') BY <1>0, <2>1, <1>8, Phases, NextPhases
       DEF Joins, SavedAt, Record, Prepare, PreparePolicy, PrepareUniversal, ReopenMigration,
           AwaitReview, PrepareMigration, MigrationReview, Save, To
  <2> QED BY <2>1, <2>2, Joined
<1>9. CASE Checkout
  <2>1. rec.st = "none" /\ rec' = rec /\ ~lease /\ lease' /\ kind' = kind BY <1>9
       DEF Checkout, Control, Leased
  <2>2. Phase = "new" /\ Phase' = "new" BY <1>0, <2>1, Phases, NextPhases
  <2>3. Serial!Take(t) BY <2>1, <2>2 DEF Serial!Take
  <2> QED BY <2>3 DEF SerialStep, Serial!Next
<1>10. CASE CopyBaseline
  <2>1. lease /\ kind' = kind /\ lease' \in BOOLEAN BY <1>0, <1>10 DEF CopyBaseline, TypeOK
  <2>2. lease' = lease => Joins(Phase, Phase')
    BY <1>0, <2>1, <1>10, Phases, NextPhases
         DEF Joins, SavedAt, Record, CopyBaseline, Opened, RepairCandidate, To, FailCheckout,
             PolicyCheckoutFails, AuxiliaryCheckoutFails, RepairStageFails, UniversalCheckoutFails,
             MigrationCheckoutFails
  <2>3. ~lease' => Phase = "new" /\ Phase' \in {"new", "open"}
    BY <1>0, <2>1, <1>10, Phases, NextPhases
         DEF SavedAt, Record, CopyBaseline, Opened, RepairCandidate, To, FailCheckout,
             PolicyCheckoutFails, AuxiliaryCheckoutFails, RepairStageFails, UniversalCheckoutFails,
             MigrationCheckoutFails
  <2> QED BY <2>1, <2>2, <2>3, Joined, GivesUp
<1>11. CASE Open
  <2>1. lease /\ kind' = kind /\ lease' \in BOOLEAN BY <1>0, <1>11 DEF Open, TypeOK
  <2>2. lease' = lease => Joins(Phase, Phase')
    BY <1>0, <2>1, <1>11, Phases, NextPhases
         DEF Joins, SavedAt, Record, Open, Opened, RepairCandidate, To, FailCheckout,
             PolicyCheckoutFails, AuxiliaryCheckoutFails, RepairStageFails, UniversalCheckoutFails,
             MigrationCheckoutFails
  <2>3. ~lease' => Phase = "new" /\ Phase' \in {"new", "open"}
    BY <1>0, <2>1, <1>11, Phases, NextPhases
         DEF SavedAt, Record, Open, Opened, RepairCandidate, To, FailCheckout, PolicyCheckoutFails,
             AuxiliaryCheckoutFails, RepairStageFails, UniversalCheckoutFails, MigrationCheckoutFails
  <2> QED BY <2>1, <2>2, <2>3, Joined, GivesUp
<1>12. CASE Verify BY <1>12, Frame DEF Verify
<1>13. CASE Apply BY <1>13, Frame DEF Apply
<1>14. CASE Capture BY <1>14, Frame DEF Capture
<1>15. CASE IssuePermit BY <1>15, Frame DEF IssuePermit
<1>16. CASE Begin
  <2>1. lease /\ lease' = lease /\ kind' = kind BY <1>0, <1>16 DEF Begin
  <2>2. Joins(Phase, Phase') BY <1>0, <2>1, <1>16, Phases, NextPhases
       DEF Joins, SavedAt, Record, Begin
  <2> QED BY <2>1, <2>2, Joined
<1>17. CASE WriteTarget BY <1>17, Frame DEF WriteTarget
<1>18. CASE Written
  <2>1. lease /\ lease' = lease /\ kind' = kind BY <1>0, <1>18 DEF Written
  <2>2. Joins(Phase, Phase') BY <1>0, <2>1, <1>18, Phases, NextPhases
       DEF Joins, SavedAt, Record, Written, WrittenPolicy, WrittenAuxiliary, WrittenOther, Raise,
           RaisePolicy
  <2> QED BY <2>1, <2>2, Joined
<1>19. CASE Heartbeat BY <1>19, Frame DEF Heartbeat
<1>20. CASE Postcheck BY <1>20, Frame DEF Postcheck
<1>21. CASE WriteSeal BY <1>21, Frame DEF WriteSeal
<1>22. CASE SavePostcheck
  <2>1. lease /\ lease' = lease /\ kind' = kind BY <1>0, <1>22 DEF SavePostcheck
  <2>2. Joins(Phase, Phase') BY <1>0, <2>1, <1>22, Phases, NextPhases
       DEF Joins, SavedAt, Record, SavePostcheck, Posted, To, Control, Steps
  <2> QED BY <2>1, <2>2, Joined
<1>23. CASE Release
  <2>1. rec' = rec /\ kind' = kind /\ lease BY <1>0, <1>23 DEF Release
  <2>2. Phase' = Phase /\ Phase \in {"new", "closed"}
    BY <1>0, <2>1, <1>23, Phases, NextPhases DEF Release, SavedAt, Control, Steps
  <2>3. CASE lease' = lease BY <2>2, <2>3, Stutters
  <2>4. CASE ~lease' /\ Phase = "new" BY <2>1, <2>2, <2>4, GivesUp
  <2>5. CASE ~lease' /\ Phase = "closed"
    <3>1. Serial!Release(t) BY <2>1, <2>2, <2>5 DEF Serial!Release
    <3> QED BY <3>1 DEF SerialStep, Serial!Next
  <2> QED BY <2>2, <2>3, <2>4, <2>5, <1>23 DEF Release
<1>24. CASE CheckRestore BY <1>24, Frame DEF CheckRestore
<1>25. CASE UndoTarget BY <1>25, Frame DEF UndoTarget
<1>26. CASE Undone BY <1>26, Frame
     DEF Undone, PolicyUndone, AuxiliaryUndone, RepairUndone, MigrationUndone, Restored
<1>27. CASE Reread BY <1>27, Frame DEF Reread
<1>28. CASE Recover BY <1>28, Frame
     DEF Recover, RecoverCommitted, RecoverReceipt, RecoverPolicy, RecoverAuxiliary, RecoverRepair,
         RecoverBaseline, RecoverMigration, MigrationRecovers, Resume
<1>29. CASE Kill BY <1>29, Frame DEF Kill
<1>30. CASE \E u \in Unit : Edit(u) BY <1>30, Frame DEF Edit
<1>31. CASE EditWork BY <1>31, Frame DEF EditWork
<1>32. CASE Reseal BY <1>32, Frame DEF Reseal
<1>33. CASE UNCHANGED vars BY <1>33, Frame DEF vars
<1> QED BY <1>1, <1>2, <1>3, <1>4, <1>5, <1>6, <1>7, <1>8, <1>9, <1>10, <1>11, <1>12, <1>13, <1>14, <1>15, <1>16, <1>17, <1>18, <1>19, <1>20, <1>21, <1>22, <1>23, <1>24, <1>25, <1>26, <1>27, <1>28, <1>29, <1>30, <1>31, <1>32, <1>33
     DEF Next, Command, Run

-----------------------------------------------------------------------------
LEMMA InvInit == ASSUME Init PROVE Inv
<1>1. TypeOK BY TypeInit
<1>2. Control
  BY DEF Init, NoRecord, Control, Steps, SavedAt, Leased, Provided, Boundary, Touched, InApply, PreApply, State
<1>3. Owned BY DEF Init, NoRecord, Owned, Cleaned, Baseline, None, Version, Touched, InApply
<1>4. Sealing BY DEF Init, Sealing, SealedIsVerified
<1> QED BY <1>1, <1>2, <1>3, <1>4 DEF Inv

LEMMA InvStep == ASSUME Inv, [Next]_vars PROVE Inv'
BY TypeStep, ControlStep, OwnedStep, SealingStep DEF Inv

(* Program counter, state.json, lease, bytes and seal fit together after   *)
(* any steps of the commands and of their environment.                     *)
THEOREM Invariance == MaintenanceSpec => []Inv
<1>1. Init => Inv BY InvInit
<1>2. Inv /\ [Next]_vars => Inv' BY InvStep
<1> QED BY <1>1, <1>2, PTL DEF MaintenanceSpec

(* Every variable keeps its type, for any number of files and failures.    *)
THEOREM MaintenanceTypes == MaintenanceSpec => []TypeOK
<1>1. Inv => TypeOK BY DEF Inv
<1> QED BY <1>1, Invariance, PTL

(* Candidate bytes are never live without the lease or an accepted result, *)
(* whatever apply, its except clauses and recover do after any failures.   *)
THEOREM CandidatesAreOwned == MaintenanceSpec => []CandidateIsOwned
<1>1. ASSUME Inv PROVE CandidateIsOwned
  <2>1. CASE rec.st \notin Touched BY <1>1, <2>1 DEF Inv, Owned, Cleaned, CandidateIsOwned
  <2>2. CASE rec.st \in Touched BY <1>1, <2>2 DEF Inv, Control, Leased, Touched, CandidateIsOwned
  <2> QED BY <2>1, <2>2
<1>2. Inv => CandidateIsOwned BY <1>1
<1> QED BY <1>2, Invariance, PTL

(* What a maintenance transaction seals is what was verified.              *)
THEOREM SealsAreVerified == MaintenanceSpec => []SealedIsVerified
<1>1. Inv => SealedIsVerified BY DEF Inv, Sealing
<1> QED BY <1>1, Invariance, PTL

(* No command writes a live file once KAIROS has projected the candidate.  *)
(* Of policy this holds while its heartbeat boundary is recorded.          *)
THEOREM ForwardOnly == MaintenanceSpec => OnlyForwardAfterHeartbeat
<1> DEFINE Keeps == hb /\ edits' = edits /\ (kind = "policy" => rec.crossed) => live' = live
<1>1. ASSUME Inv, [Next]_vars PROVE Keeps
  <2> SUFFICES ASSUME hb, edits' = edits, kind = "policy" => rec.crossed PROVE live' = live
    OBVIOUS
  <2>1. pc \notin {"write", "undo"} BY <1>1 DEF Inv, Control, Boundary
  <2>2. ~WriteTarget /\ ~UndoTarget BY <2>1 DEF WriteTarget, UndoTarget
  <2>3. edits \in Nat BY <1>1, MaintenanceConstants DEF Inv, TypeOK
  <2>4. ASSUME NEW u \in Unit, Edit(u) PROVE FALSE BY <2>3, <2>4 DEF Edit
  <2> USE DEF OnlyPc, OnlyRec, persistent
  <2>5. CASE Command
    BY <2>5 DEF Command, Checkout, RecoverOrphan, Prepare, Verify, Abort, Apply
  <2>6. CASE Run
    BY <2>2, <2>6 DEF Run, SaveStaging, CopyBaseline, Open, SaveVerified, Capture, IssuePermit, Begin, Written,
       Heartbeat, Postcheck, WriteSeal, SavePostcheck, Receipt, Release, CheckRestore, Undone, SaveRolledBack,
       SaveRequired, Reread
  <2>7. CASE Recover
    BY <2>7 DEF Recover, RecoverCommitted, RecoverReceipt, RecoverPolicy, RecoverAuxiliary, RecoverRepair,
       RecoverBaseline, RecoverMigration
  <2>8. CASE Kill \/ EditWork \/ Reseal BY <2>8 DEF Kill, EditWork, Reseal
  <2>9. CASE UNCHANGED vars BY <2>9 DEF vars
  <2> QED BY <1>1, <2>4, <2>5, <2>6, <2>7, <2>8, <2>9 DEF Next
<1>2. Inv /\ [Next]_vars => [Keeps]_vars BY <1>1
<1> QED BY <1>2, Invariance, PTL DEF MaintenanceSpec, OnlyForwardAfterHeartbeat

(* The five protocols are one serial change of the corpus: the lease is    *)
(* held from the first live write to the acknowledged seal or the complete *)
(* undo.                                                                   *)
THEOREM MaintenanceIsSerial == MaintenanceSpec => ImplementsSerialChange
<1>1. Init => Serial!Init
  <2> SUFFICES ASSUME Init PROVE Serial!Init OBVIOUS
  <2>1. ~lease /\ rec.st = "none" /\ rec.st \in State BY DEF Init, NoRecord, State
  <2>2. Phase = "new" BY <2>1, Phases
  <2> QED BY <2>1, <2>2 DEF Serial!Init
<1>2. Inv /\ Inv' /\ [Next]_vars => [Serial!Next]_(Serial!serial)
  BY Serializes DEF Inv, SerialStep
<1> QED BY <1>1, <1>2, Invariance, PTL DEF MaintenanceSpec, ImplementsSerialChange, Serial!Spec
=============================================================================
