------------------------ MODULE WorkshopTxn_proofs ------------------------
(***************************************************************************)
(* Theorems about WorkshopTxn, for all transactions, sources, documents,   *)
(* contents, processes and bounds.                                         *)
(***************************************************************************)
EXTENDS WorkshopTxn, TLAPS

Procs == [Proc -> Process]
Txns  == [Txn -> Record]

(* What a step makes of a process is a process: one lemma for each form of *)
(* update the actions use.                                                 *)
LEMMA ProcQuit ==
    ASSUME proc \in Procs, NEW p \in Proc PROVE [proc EXCEPT ![p] = Idle] \in Procs
<1>1. Idle \in Process
  <2>1. NoRecord \in Record BY DEF NoRecord, Record, State
  <2> QED BY <2>1 DEF Idle, Process, Pc
<1> QED BY <1>1 DEF Procs

LEMMA ProcPc ==
    ASSUME proc \in Procs, NEW p \in Proc, NEW c \in Pc
    PROVE  [proc EXCEPT ![p].pc = c] \in Procs
<1>1. [proc[p] EXCEPT !.pc = c] \in Process BY DEF Procs, Process
<1> QED BY <1>1 DEF Procs

LEMMA ProcPkg ==
    ASSUME proc \in Procs, NEW p \in Proc, NEW c \in Pc, NEW m \in [Source -> Byte]
    PROVE  [proc EXCEPT ![p].pc = c, ![p].pkg = m] \in Procs
<1>1. [proc[p] EXCEPT !.pc = c, !.pkg = m] \in Process BY DEF Procs, Process
<1> QED BY <1>1 DEF Procs

LEMMA ProcStart ==
    ASSUME proc \in Procs, NEW p \in Proc, NEW c \in Pc, NEW t \in Txn, NEW r \in Record
    PROVE  [proc EXCEPT ![p].pc = c, ![p].t = t, ![p].mem = r] \in Procs
<1>1. [proc[p] EXCEPT !.pc = c, !.t = t, !.mem = r] \in Process BY DEF Procs, Process
<1> QED BY <1>1 DEF Procs

LEMMA ProcResume ==
    ASSUME proc \in Procs, NEW p \in Proc, NEW c \in Pc, NEW t \in Txn, NEW r \in Record,
           NEW m \in [Source -> Byte]
    PROVE  [proc EXCEPT ![p].pc = c, ![p].t = t, ![p].mem = r, ![p].pkg = m] \in Procs
<1>1. [proc[p] EXCEPT !.pc = c, !.t = t, !.mem = r, !.pkg = m] \in Process BY DEF Procs, Process
<1> QED BY <1>1 DEF Procs

LEMMA ProcMem ==
    ASSUME proc \in Procs, NEW p \in Proc, NEW c \in Pc, NEW r \in Record
    PROVE  [proc EXCEPT ![p].pc = c, ![p].mem = r] \in Procs
<1>1. [proc[p] EXCEPT !.pc = c, !.mem = r] \in Process BY DEF Procs, Process
<1> QED BY <1>1 DEF Procs

LEMMA ProcMemState ==
    ASSUME proc \in Procs, NEW p \in Proc, NEW c \in Pc, NEW s \in State
    PROVE  [proc EXCEPT ![p].pc = c, ![p].mem.state = s] \in Procs
<1>1. [proc[p].mem EXCEPT !.state = s] \in Record BY SMTT(30) DEF Procs, Process, Record
<1>2. [proc[p] EXCEPT !.pc = c, !.mem.state = s] \in Process BY <1>1 DEF Procs, Process
<1> QED BY <1>2 DEF Procs

LEMMA ProcMemPermit ==
    ASSUME proc \in Procs, NEW p \in Proc, NEW c \in Pc, NEW s \in State
    PROVE  [proc EXCEPT ![p].pc = c, ![p].mem.state = s, ![p].mem.permit = TRUE] \in Procs
<1> DEFINE r == proc[p].mem
<1>0. r \in Record BY DEF Procs, Process
<1>1. [r EXCEPT !.state = s, !.permit = TRUE] \in Record
  <2> HIDE DEF r
  <2> QED BY <1>0 DEF Record
<1>2. [proc[p] EXCEPT !.pc = c, !.mem.state = s, !.mem.permit = TRUE] \in Process
  BY <1>1 DEF Procs, Process
<1> QED BY <1>2 DEF Procs

LEMMA ProcMemPost ==
    ASSUME proc \in Procs, NEW p \in Proc, NEW c \in Pc, NEW s \in State,
           NEW m \in [Source -> Byte] \cup {None}
    PROVE  [proc EXCEPT ![p].pc = c, ![p].mem.state = s, ![p].mem.post = m] \in Procs
<1> DEFINE r == proc[p].mem
<1>0. r \in Record BY DEF Procs, Process
<1>1. [r EXCEPT !.state = s, !.post = m] \in Record
  <2> HIDE DEF r
  <2> QED BY <1>0 DEF Record
<1>2. [proc[p] EXCEPT !.pc = c, !.mem.state = s, !.mem.post = m] \in Process
  BY <1>1 DEF Procs, Process
<1> QED BY <1>2 DEF Procs

LEMMA ProcTodo ==
    ASSUME proc \in Procs, NEW p \in Proc, NEW c \in Pc, NEW F \in SUBSET File
    PROVE  /\ [proc EXCEPT ![p].pc = c, ![p].todo = F] \in Procs
           /\ [proc EXCEPT ![p].todo = F, ![p].pc = c] \in Procs
           /\ [proc EXCEPT ![p].todo = F] \in Procs
           /\ [proc EXCEPT ![p].todo = F, ![p].bad = TRUE] \in Procs
<1>1. /\ [proc[p] EXCEPT !.pc = c, !.todo = F] \in Process
      /\ [proc[p] EXCEPT !.todo = F, !.pc = c] \in Process
      /\ [proc[p] EXCEPT !.todo = F] \in Process
      /\ [proc[p] EXCEPT !.todo = F, !.bad = TRUE] \in Process
  BY DEF Procs, Process
<1> QED BY <1>1 DEF Procs

LEMMA ProcFields ==
    ASSUME proc \in Procs, NEW p \in Proc
    PROVE  /\ proc[p].t \in Txn \cup {NoTxn} /\ proc[p].mem \in Record
           /\ proc[p].todo \in SUBSET File /\ proc[p].pkg \in [Source -> Byte] \cup {None}
BY DEF Procs, Process

(* The updates of a transaction record.                                    *)
LEMMA RecState ==
    ASSUME NEW r \in Record, NEW s \in State PROVE [r EXCEPT !.state = s] \in Record
BY DEF Record

LEMMA RecReopened ==
    ASSUME NEW r \in Record PROVE Reopened(r) \in Record /\ Unapproved(r) \in Record
<1>1. "CHECKED_OUT" \in State BY DEF State, PreApply
<1>2. Reopened(r) \in Record
  <2>1. [r EXCEPT !.state = "CHECKED_OUT", !.prepared = None] \in Record BY <1>1 DEF Record
  <2>2. [[r EXCEPT !.state = "CHECKED_OUT", !.prepared = None] EXCEPT !.checked = None,
                                                                    !.verified = None] \in Record
    <3> DEFINE q == [r EXCEPT !.state = "CHECKED_OUT", !.prepared = None]
    <3> HIDE DEF q
    <3> QED BY <2>1 DEF Record
  <2> QED BY <2>2 DEF Reopened
<1> QED BY <1>2 DEF Unapproved

LEMMA RecCopy ==
    ASSUME NEW r \in Record, NEW F \in [File -> Byte] PROVE [r EXCEPT !.copy = F] \in Record
BY DEF Record

LEMMA RecReceipt ==
    ASSUME NEW r \in Record, NEW s \in {"none", "PENDING", "COMMITTED"}
    PROVE  [r EXCEPT !.receipt = s] \in Record
BY DEF Record

LEMMA RecApprovals ==
    ASSUME NEW r \in Record, NEW c \in SUBSET Managed, NEW pkg \in Package
    PROVE  /\ [r EXCEPT !.state = "PREPARED", !.changed = c, !.prepared = pkg] \in Record
           /\ [r EXCEPT !.checked = pkg] \in Record
           /\ [r EXCEPT !.state = "SHADOW_VERIFIED", !.verified = pkg] \in Record
<1>1. {"PREPARED", "SHADOW_VERIFIED"} \subseteq State BY DEF State, PreApply
<1>2. [r EXCEPT !.state = "PREPARED", !.changed = c] \in Record BY <1>1 DEF Record
<1>3. [[r EXCEPT !.state = "PREPARED", !.changed = c] EXCEPT !.prepared = pkg] \in Record
  <2> DEFINE q == [r EXCEPT !.state = "PREPARED", !.changed = c]
  <2> HIDE DEF q
  <2> QED BY <1>2 DEF Record
<1>4. [r EXCEPT !.checked = pkg] \in Record BY DEF Record
<1>5. [r EXCEPT !.state = "SHADOW_VERIFIED", !.verified = pkg] \in Record BY <1>1 DEF Record
<1> QED BY <1>3, <1>4, <1>5

-----------------------------------------------------------------------------
(* The types of what the commands compute.                                 *)
LEMMA ManifestTyped ==
    ASSUME TypeOK PROVE Manifest \in [Source -> Byte]
BY DEF TypeOK, Manifest, File, Kind

LEMMA PackageTyped ==
    ASSUME TypeOK, NEW t \in Txn PROVE WorkPackage(t) \in Package
BY DEF TypeOK, WorkPackage, Package

LEMMA CandidateTyped ==
    ASSUME TypeOK, NEW t \in Txn PROVE Candidate(t) \in [Source -> Byte]
BY DEF TypeOK, Candidate, File, Kind

LEMMA ChangedTyped ==
    ASSUME NEW r \in Record, NEW t
    PROVE  /\ ChangedSources(t, r) \subseteq r.sources /\ ChangedDocs(t, r) \subseteq r.docs
           /\ ChangedSources(t, r) \cup ChangedDocs(t, r) \in SUBSET Managed
BY DEF Record, ChangedSources, ChangedDocs, Managed

LEMMA TargetsTyped ==
    ASSUME NEW c \in SUBSET Managed PROVE Targets(c) \in SUBSET File
BY DEF Targets, File, Managed

LEMMA ManagedFileTyped ==
    ASSUME NEW m \in Managed PROVE ManagedFile(m) \in File
BY DEF ManagedFile, Managed, File, Kind

LEMMA RegeneratedTyped ==
    ASSUME TypeOK, NEW t \in Txn, NEW r \in Record
    PROVE  Regenerated(t, r) \in [File -> Byte]
<1> SUFFICES ASSUME NEW f \in File PROVE Regenerated(t, r)[f] \in Byte
  BY DEF Regenerated
<1>1. CASE f \in ChangedSources(t, r) \X {"blueprint", "managed"}
  <2>1. f[1] \in Source BY <1>1, ChangedTyped DEF Record
  <2>2. <<f[1], "runtime">> \in File BY <2>1 DEF File, Kind
  <2> QED BY <1>1, <2>2 DEF Regenerated, TypeOK
<1>2. CASE f \notin ChangedSources(t, r) \X {"blueprint", "managed"}
  BY <1>2 DEF Regenerated, TypeOK
<1> QED BY <1>1, <1>2

LEMMA PromotedTyped ==
    ASSUME TypeOK, NEW ms \in SUBSET Managed PROVE Promoted(ms) \in [Managed -> Byte]
BY ManagedFileTyped DEF Promoted, TypeOK

LEMMA ConsumedTyped ==
    ASSUME TypeOK, NEW t \in Txn
    PROVE  Consumed(t) \in [Txn -> {"none", "active", "spent", "expired", "revoked"}]
BY DEF Consumed, TypeOK

-----------------------------------------------------------------------------
(* Types alone are not inductive: included documents extend the baseline   *)
(* copy, and a rollback or the operator reads the captured preimages.  So  *)
(* the invariant also says that a saved transaction has a baseline, and    *)
(* that preimages exist from the moment apply may write.                   *)
FileMap     == [File -> Byte]
Loaded      == Pc \ {"idle", "seal"}
Checked     == Loaded \ {"acquire", "materialise"}
AfterBackup == {"permit", "start", "write", "heartbeat", "postcheck", "write_seal", "save_post",
                "rollback", "revoke", "failed"}
Mutating    == {"APPLYING", "RECOVERY_REQUIRED"}

TxnBacked(t) ==
    /\ txn[t].state # "NONE" => txn[t].copy \in FileMap
    /\ txn[t].state \in Mutating => rollback[t] \in FileMap

ProcBacked(p) ==
    /\ proc[p].pc \in Loaded => proc[p].t \in Txn
    /\ proc[p].pc \in Checked => proc[p].mem.copy \in FileMap
    /\ proc[p].pc \in AfterBackup => rollback[proc[p].t] \in FileMap
    /\ proc[p].pc \in Loaded /\ proc[p].mem.state \in Mutating => rollback[proc[p].t] \in FileMap

Backed == (\A t \in Txn : TxnBacked(t)) /\ (\A p \in Proc : ProcBacked(p))

(* Every command an operator starts preserves the types.                   *)
LEMMA CommandsTyped ==
    ASSUME TypeOK, Backed, NEW p \in Proc, Commands(p) PROVE TypeOK'
<1> USE DEF corpus, author, bounds
<1>0. proc \in Procs /\ (\A u \in Txn : txn[u] \in Record) /\ PreApply \subseteq State /\ Ended \subseteq State
  BY DEF TypeOK, Procs, State
<1>1. CASE SealCheck(p)
  <2>1. proc' \in Procs
    BY <1>0, <1>1, ManifestTyped, ProcPkg DEF SealCheck, Pc
  <2> QED BY <1>1, <2>1 DEF SealCheck, TypeOK, Procs
<1>2. ASSUME NEW t \in Txn, NEW S \in SUBSET Source, NEW D \in SUBSET Doc, Checkout(p, t, S, D)
      PROVE  TypeOK'
  <2> DEFINE r == [NoRecord EXCEPT !.state = "CHECKED_OUT", !.sources = S, !.docs = D, !.pkg = Manifest]
  <2>1. r \in Record
    BY ManifestTyped DEF NoRecord, Record, State, PreApply
  <2>2. proc' = [proc EXCEPT ![p].pc = "acquire", ![p].t = t, ![p].mem = r]
    BY <1>2 DEF Checkout
  <2>3. proc' \in Procs
    <3> HIDE DEF r
    <3> QED BY <1>0, <2>1, <2>2, ProcStart DEF Pc
  <2> QED BY <1>2, <2>3 DEF Checkout, TypeOK, Procs
<1>3. ASSUME NEW t \in Txn, NEW D \in SUBSET Doc, IncludeDocuments(p, t, D) PROVE TypeOK'
  <2> DEFINE r == Reopened(txn[t])
             cp == [f \in File |-> IF f \in D THEN live[f] ELSE txn[t].copy[f]]
             rr == [r EXCEPT !.docs = @ \cup D, !.copy = cp]
             w == [f \in File |-> IF f \in D THEN live[f] ELSE work[t][f]]
  <2>1. r \in Record /\ r.copy = txn[t].copy
    <3>1. \A q \in Record : Reopened(q).copy = q.copy BY DEF Reopened, Record
    <3> QED BY <1>0, <3>1, RecReopened
  <2>2. cp \in [File -> Byte]
    <3>1. txn[t].copy \in [File -> Byte]
      BY <1>0, <1>3 DEF Backed, TxnBacked, IncludeDocuments, PreApply, FileMap
    <3> QED BY <3>1 DEF TypeOK
  <2>3. rr \in Record
    <3> HIDE DEF r, cp
    <3> QED BY <2>1, <2>2 DEF Record
  <2>4. w \in [File -> Byte] BY DEF TypeOK
  <2>5. txn' = [txn EXCEPT ![t] = rr] /\ work' = [work EXCEPT ![t] = w]
    <3> HIDE DEF w
    <3>1. txn' = [txn EXCEPT ![t] = [r EXCEPT !.docs = @ \cup D,
             !.copy = [f \in File |-> IF f \in D THEN live[f] ELSE @[f]]]]
      BY <1>3 DEF IncludeDocuments
    <3>2. [r EXCEPT !.docs = @ \cup D, !.copy = [f \in File |-> IF f \in D THEN live[f] ELSE @[f]]] = rr
      <4> HIDE DEF r
      <4> QED BY <2>1 DEF Record
    <3>3. work' = [work EXCEPT ![t] = w] BY <1>3 DEF IncludeDocuments, w
    <3> QED BY <3>1, <3>2, <3>3
  <2> HIDE DEF rr, w
  <2> QED BY <1>3, <2>3, <2>4, <2>5 DEF IncludeDocuments, TypeOK
<1>4. ASSUME NEW t \in Txn, MetadataPlan(p, t) PROVE TypeOK'
  <2>1. Reopened(txn[t]) \in Record BY <1>0, RecReopened
  <2>2. [of |-> Candidate(t), done |-> FALSE] \in Audit BY CandidateTyped DEF Audit
  <2> QED BY <1>4, <2>1, <2>2 DEF MetadataPlan, TypeOK
<1>5. ASSUME NEW t \in Txn, PrepareRefused(p, t) PROVE TypeOK'
  <2>1. Unapproved(txn[t]) \in Record BY <1>0, RecReopened
  <2> QED BY <1>5, <2>1 DEF PrepareRefused, TypeOK
<1>6. ASSUME NEW t \in Txn, PrepareBlocked(p, t) PROVE TypeOK'
  <2>1. Unapproved(txn[t]) \in Record BY <1>0, RecReopened
  <2>2. [Unapproved(txn[t]) EXCEPT !.state = "AWAITING_METADATA_REVIEW"] \in Record
    BY <2>1, RecState DEF State, PreApply
  <2> QED BY <1>6, <2>2 DEF PrepareBlocked, TypeOK
<1>7. ASSUME NEW t \in Txn, Prepare(p, t) PROVE TypeOK'
  <2> DEFINE r == txn[t]
             w == Regenerated(t, r)
             c == ChangedSources(t, r) \cup ChangedDocs(t, r)
             pkg == [work |-> w, audit |-> audit[t]]
             q == [Unapproved(r) EXCEPT !.state = "PREPARED", !.changed = c, !.prepared = pkg]
  <2>1. w \in [File -> Byte] BY <1>0, RegeneratedTyped
  <2>2. c \in SUBSET Managed BY <1>0, ChangedTyped
  <2>3. pkg \in Package BY <2>1 DEF Package, TypeOK
  <2>4. q \in Record
    <3>1. Unapproved(r) \in Record BY <1>0, RecReopened
    <3> HIDE DEF c, pkg, r
    <3> QED BY <2>2, <2>3, <3>1, RecApprovals
  <2>5. txn' = [txn EXCEPT ![t] = q] /\ work' = [work EXCEPT ![t] = w] BY <1>7 DEF Prepare
  <2> HIDE DEF q, w
  <2> QED BY <1>7, <2>1, <2>4, <2>5 DEF Prepare, TypeOK
<1>8. ASSUME NEW t \in Txn, MetadataCheck(p, t) PROVE TypeOK'
  <2>1. [txn[t] EXCEPT !.checked = WorkPackage(t)] \in Record BY <1>0, PackageTyped, RecApprovals
  <2>2. txn' = [txn EXCEPT ![t] = [txn[t] EXCEPT !.checked = WorkPackage(t)]]
    BY <1>8 DEF MetadataCheck
  <2> QED BY <1>8, <2>1, <2>2 DEF MetadataCheck, TypeOK
<1>9. ASSUME NEW t \in Txn, VerifyCheck(p, t) PROVE TypeOK'
  <2>1. proc' \in Procs BY <1>0, <1>9, ProcStart DEF VerifyCheck, Pc
  <2> QED BY <1>9, <2>1 DEF VerifyCheck, TypeOK, Procs
<1>10. ASSUME NEW t \in Txn, ApplyCheck(p, t) PROVE TypeOK'
  <2>1. proc' \in Procs BY <1>0, <1>10, ProcStart DEF ApplyCheck, Pc
  <2> QED BY <1>10, <2>1 DEF ApplyCheck, TypeOK, Procs
<1>11. ASSUME NEW t \in Txn, NEW e \in Ended, NEW c \in {"save_end", "authority"},
              proc' = [proc EXCEPT ![p].pc = c, ![p].t = t, ![p].mem = [txn[t] EXCEPT !.state = e]]
       PROVE  proc' \in Procs
  <2>1. [txn[t] EXCEPT !.state = e] \in Record BY <1>0, RecState
  <2> QED BY <1>0, <1>11, <2>1, ProcStart DEF Pc
<1>12. ASSUME NEW t \in Txn, Abort(p, t) PROVE TypeOK'
  <2>1. proc' \in Procs BY <1>11, <1>12 DEF Abort, Ended
  <2> QED BY <1>12, <2>1 DEF Abort, TypeOK, Procs
<1>13. ASSUME NEW t \in Txn, StaleAbort(p, t) PROVE TypeOK'
  <2>1. proc' \in Procs BY <1>11, <1>13 DEF StaleAbort, Ended
  <2> QED BY <1>13, <2>1 DEF StaleAbort, TypeOK, Procs
<1>14. ASSUME NEW t \in Txn, AuthorityCheck(p, t) PROVE TypeOK'
  <2>1. proc' \in Procs BY <1>11, <1>14 DEF AuthorityCheck, Ended
  <2> QED BY <1>14, <2>1 DEF AuthorityCheck, TypeOK, Procs
<1>15. ASSUME NEW t \in Txn, RetireOrphan(p, t) PROVE TypeOK'
  <2>1. [txn[t] EXCEPT !.state = "ABORTED_ORPHANED_CHECKOUT"] \in Record BY <1>0, RecState DEF Ended
  <2>2. txn' = [txn EXCEPT ![t] = [txn[t] EXCEPT !.state = "ABORTED_ORPHANED_CHECKOUT"]]
    BY <1>15 DEF RetireOrphan
  <2> QED BY <1>15, <2>1, <2>2 DEF RetireOrphan, TypeOK
<1>16. ASSUME NEW t \in Txn, RecoverBaseline(p, t) PROVE TypeOK'
  <2>1. proc' \in Procs BY <1>11, <1>16 DEF RecoverBaseline, Ended
  <2> QED BY <1>16, <2>1 DEF RecoverBaseline, TypeOK, Procs
<1>17. ASSUME NEW t \in Txn, RecoverTarget(p, t) PROVE TypeOK'
  <2>1. proc' \in Procs BY <1>0, <1>17, ManifestTyped, ProcResume DEF RecoverTarget, Pc
  <2> QED BY <1>17, <2>1 DEF RecoverTarget, TypeOK, Procs
<1>18. ASSUME NEW t \in Txn, RecoverReceipt(p, t) PROVE TypeOK'
  <2>1. proc' \in Procs BY <1>0, <1>18, ProcStart DEF RecoverReceipt, Pc
  <2> QED BY <1>18, <2>1 DEF RecoverReceipt, TypeOK, Procs
<1> QED
  BY <1>1, <1>2, <1>3, <1>4, <1>5, <1>6, <1>7, <1>8, <1>9, <1>10, <1>12, <1>13, <1>14, <1>15,
     <1>16, <1>17, <1>18 DEF Commands

(* Every step of a running command, failing or not, preserves the types.   *)
LEMMA StepTyped ==
    ASSUME TypeOK, Backed, NEW p \in Proc, Step(p) \/ Failure(p) PROVE TypeOK'
<1> USE DEF corpus, author, bounds
<1> DEFINE t == proc[p].t
           m == proc[p].mem
<1>0. /\ proc \in Procs /\ (\A u \in Txn : txn[u] \in Record)
      /\ m \in Record /\ proc[p].todo \in SUBSET File /\ proc[p].pkg \in [Source -> Byte] \cup {None}
      /\ Targets(m.changed) \in SUBSET File
      /\ PreApply \subseteq State /\ Ended \subseteq State
      /\ {"RECOVERY_REQUIRED", "APPLYING", "POSTCHECK_VERIFIED"} \subseteq State
      /\ proc[p].pc \in Loaded => t \in Txn
      /\ proc[p].pc \in AfterBackup => rollback[t] \in FileMap
      /\ Fault => faults' \in 0 .. MaxFaults
  <2>1. proc[p] \in Process BY DEF TypeOK
  <2>2. m \in Record /\ proc[p].todo \in SUBSET File /\ proc[p].pkg \in [Source -> Byte] \cup {None}
    BY <2>1 DEF Process
  <2>3. m.changed \in SUBSET Managed BY <2>2 DEF Record
  <2>4. Targets(m.changed) \in SUBSET File BY <2>3, TargetsTyped
  <2>5. Fault => faults' \in 0 .. MaxFaults BY ConstantsOK DEF TypeOK, Fault
  <2> QED BY <2>2, <2>4, <2>5 DEF TypeOK, Procs, State, Backed, ProcBacked
<1>q. [proc EXCEPT ![p] = Idle] \in Procs BY <1>0, ProcQuit
<1>c. \A c \in Pc : [proc EXCEPT ![p].pc = c] \in Procs BY <1>0, ProcPc
<1>s. \A r \in Record : [txn EXCEPT ![t] = r] \in [Txn -> Record] BY DEF TypeOK
<1> HIDE DEF t, m
<1>1. CASE SealWrite(p)
  BY <1>0, <1>1, <1>q DEF SealWrite, Quit, TypeOK, Procs
<1>2. CASE Acquire(p)
  <2>1. t \in Txn BY <1>0, <1>2 DEF Acquire, At, Loaded, Pc
  <2>2. lease' \in Txn \cup {NoTxn} BY <1>2, <2>1 DEF Acquire, TypeOK, t
  <2>3. proc' \in Procs BY <1>2, <1>q, <1>c DEF Acquire, Quit, Pc
  <2> QED BY <1>2, <2>2, <2>3 DEF Acquire, TypeOK, Procs
<1>3. ASSUME CopyAndSave(p) PROVE txn' \in [Txn -> Record] /\ work' \in [Txn -> [File -> Byte]]
  <2>1. [m EXCEPT !.copy = live] \in Record BY <1>0, RecCopy DEF TypeOK
  <2> QED BY <1>s, <1>3, <2>1 DEF CopyAndSave, TypeOK, t, m
<1>4. CASE Materialise(p)
  BY <1>3, <1>4, <1>q DEF Materialise, Quit, TypeOK, Procs
<1>5. CASE CheckoutFails(p)
  <2>1. txn' \in [Txn -> Record] /\ work' \in [Txn -> [File -> Byte]]
    BY <1>3, <1>5 DEF CheckoutFails, TypeOK
  <2>2. edits' \in 0 .. MaxEdits /\ drifts' \in 0 .. MaxDrifts /\ faults' \in 0 .. MaxFaults
    BY <1>0, <1>5 DEF CheckoutFails, TypeOK
  <2>3. lease' \in Txn \cup {NoTxn} BY <1>5 DEF CheckoutFails, TypeOK
  <2>4. proc' \in Procs BY <1>5, <1>q DEF CheckoutFails, Quit
  <2>5. UNCHANGED <<live, db, seal, audit, rollback, permit, receipt>> BY <1>5 DEF CheckoutFails
  <2> QED BY <2>1, <2>2, <2>3, <2>4, <2>5 DEF TypeOK, Procs
<1>6. CASE VerifySave(p)
  <2>1. t \in Txn BY <1>0, <1>6 DEF VerifySave, At, Loaded, Pc
  <2>2. [m EXCEPT !.state = "SHADOW_VERIFIED", !.verified = WorkPackage(t)] \in Record
    BY <1>0, <2>1, PackageTyped, RecApprovals
  <2>3. txn' \in [Txn -> Record] BY <1>6, <1>s, <2>2 DEF VerifySave, TypeOK, t, m
  <2> QED BY <1>6, <1>q, <2>3 DEF VerifySave, Quit, TypeOK, Procs
<1>7. CASE AuthoritySave(p)
  BY <1>0, <1>7, <1>q, <1>s DEF AuthoritySave, Quit, TypeOK, Procs, t, m
<1>8. CASE Backup(p)
  BY <1>0, <1>8, <1>c DEF Backup, TypeOK, Procs, Pc
<1>9. CASE IssuePermit(p)
  <2>1. [proc EXCEPT ![p].pc = "start", ![p].mem.state = "APPLYING", ![p].mem.permit = TRUE] \in Procs
    BY <1>0, ProcMemPermit DEF Pc
  <2> QED BY <1>9, <1>q, <2>1 DEF IssuePermit, Quit, TypeOK, Procs
<1>10. CASE ApplyStart(p)
  <2>1. proc' \in Procs BY <1>0, <1>10, ProcTodo DEF ApplyStart, Pc, m
  <2> QED BY <1>0, <1>10, <1>s, <2>1 DEF ApplyStart, TypeOK, Procs, t, m
<1>11. CASE WriteFile(p)
  <2>1. PICK f \in Writable(proc[p].todo) :
           /\ live' = [live EXCEPT ![f] = work[t][f]]
           /\ proc' = [proc EXCEPT ![p].todo = @ \ {f},
                                   ![p].pc = IF proc[p].todo = {f} THEN "heartbeat" ELSE "write"]
    BY <1>11 DEF WriteFile, t
  <2>2. f \in File /\ t \in Txn BY <1>0, <1>11 DEF Writable, WriteFile, At, Loaded, Pc
  <2>3. live' \in [File -> Byte] BY <2>1, <2>2 DEF TypeOK
  <2>4. proc' \in Procs
    <3> DEFINE F == proc[p].todo \ {f}
               c == IF proc[p].todo = {f} THEN "heartbeat" ELSE "write"
    <3>1. F \in SUBSET File /\ c \in Pc BY <1>0 DEF Pc
    <3>2. proc' = [proc EXCEPT ![p].todo = F, ![p].pc = c] BY <2>1
    <3> HIDE DEF F, c
    <3> QED BY <1>0, <3>1, <3>2, ProcTodo
  <2> QED BY <1>11, <2>3, <2>4 DEF WriteFile, TypeOK, Procs
<1>12. CASE WriteFails(p)
  <2>1. proc' \in Procs BY <1>0, <1>12, ProcTodo DEF WriteFails, Pc, m
  <2>2. live' \in [File -> Byte] BY <1>12 DEF WriteFails, TypeOK, Byte
  <2> QED BY <1>0, <1>12, <2>1, <2>2 DEF WriteFails, TypeOK, Procs
<1>13. CASE Heartbeat(p)
  <2>1. t \in Txn BY <1>0, <1>13 DEF Heartbeat, At, Loaded, Pc
  <2>2. Unreconciled \in SUBSET Managed BY DEF Unreconciled
  <2>3. Promoted(Unreconciled) \in [Managed -> Byte] BY <2>2, PromotedTyped
  <2>4. permit' \in [Txn -> {"none", "active", "spent", "expired", "revoked"}]
    BY <1>13, <2>1, ConsumedTyped DEF Heartbeat, t
  <2> QED BY <1>13, <1>c, <2>3, <2>4 DEF Heartbeat, TypeOK, Procs, Pc
<1>14. CASE HeartbeatFails(p)
  <2>1. t \in Txn BY <1>0, <1>14 DEF HeartbeatFails, At, Loaded, Pc
  <2>2. db' \in [Managed -> Byte]
    <3>1. \A ms \in SUBSET Unreconciled : Promoted(ms) \in [Managed -> Byte]
      BY PromotedTyped DEF Unreconciled
    <3> QED BY <1>14, <3>1 DEF HeartbeatFails, TypeOK
  <2>3. permit' \in [Txn -> {"none", "active", "spent", "expired", "revoked"}]
    BY <1>14, <2>1, ConsumedTyped DEF HeartbeatFails, t
  <2>4. edits' = edits /\ drifts' = drifts /\ faults' \in 0 .. MaxFaults
    BY <1>0, <1>14 DEF HeartbeatFails, TypeOK
  <2> QED BY <1>14, <1>c, <2>2, <2>3, <2>4 DEF HeartbeatFails, TypeOK, Procs, Pc
<1>15. CASE Postcheck(p)
  <2>1. proc' \in Procs BY <1>0, <1>15, <1>c, ManifestTyped, ProcPkg DEF Postcheck, Pc
  <2> QED BY <1>15, <2>1 DEF Postcheck, TypeOK, Procs
<1>16. CASE WriteSeal(p)
  <2>1. proc' \in Procs BY <1>0, <1>16, ProcMemPost DEF WriteSeal, Pc
  <2>2. seal' \in [pkg : [Source -> Byte] \cup {None}, t : Txn \cup {NoTxn}]
    BY <1>0, <1>16 DEF WriteSeal, At, Loaded, Pc, t
  <2> QED BY <1>16, <2>1, <2>2 DEF WriteSeal, TypeOK, Procs
<1>17. CASE SavePostcheck(p)
  BY <1>0, <1>17, <1>c, <1>s DEF SavePostcheck, TypeOK, Procs, Pc, t, m
<1>18. CASE SealingFails(p)
  BY <1>0, <1>18, <1>c DEF SealingFails, TypeOK, Procs, Pc
<1>19. CASE SaveRecoveryRequired(p)
  <2>1. [m EXCEPT !.state = "RECOVERY_REQUIRED"] \in Record BY <1>0, RecState
  <2> QED BY <1>19, <1>q, <1>s, <2>1 DEF SaveRecoveryRequired, Quit, TypeOK, Procs, t, m
<1>20. CASE RollbackFile(p)
  <2>1. PICK f \in proc[p].todo :
           \/ /\ live' = [live EXCEPT ![f] = rollback[t][f]]
              /\ proc' = [proc EXCEPT ![p].todo = @ \ {f}]
              /\ UNCHANGED bounds
           \/ Fault /\ UNCHANGED <<live, edits, drifts>>
              /\ proc' = [proc EXCEPT ![p].todo = @ \ {f}, ![p].bad = TRUE]
    BY <1>20 DEF RollbackFile, t
  <2>2. f \in File /\ t \in Txn /\ rollback[t] \in FileMap
    BY <1>0, <1>20 DEF RollbackFile, At, Loaded, AfterBackup, Pc
  <2>3. live' \in [File -> Byte] BY <2>1, <2>2 DEF TypeOK, FileMap
  <2>4. proc' \in Procs
    <3> DEFINE F == proc[p].todo \ {f}
    <3>1. F \in SUBSET File BY <1>0
    <3>2. proc' = [proc EXCEPT ![p].todo = F] \/ proc' = [proc EXCEPT ![p].todo = F, ![p].bad = TRUE]
      BY <2>1
    <3> HIDE DEF F
    <3>3. /\ [proc EXCEPT ![p].todo = F] \in Procs
          /\ [proc EXCEPT ![p].todo = F, ![p].bad = TRUE] \in Procs
      BY <1>0, <3>1, ProcTodo DEF Pc
    <3> QED BY <3>2, <3>3
  <2> QED BY <1>0, <1>20, <2>1, <2>3, <2>4 DEF RollbackFile, TypeOK, Procs
<1>21. CASE RollbackDone(p)
  BY <1>0, <1>21, <1>c DEF RollbackDone, TypeOK, Procs, Pc
<1>22. CASE Revoke(p)
  <2>1. "ROLLED_BACK" \in State /\ "save_end" \in Pc BY <1>0 DEF Ended, Pc
  <2>2. proc' = [proc EXCEPT ![p].pc = "save_end", ![p].mem.state = "ROLLED_BACK"]
    BY <1>22 DEF Revoke
  <2>a. \A c \in Pc, s \in State : [proc EXCEPT ![p].pc = c, ![p].mem.state = s] \in Procs
    BY <1>0, ProcMemState
  <2>3. proc' \in Procs BY <2>1, <2>2, <2>a
  <2> QED BY <1>22, <2>3 DEF Revoke, TypeOK, Procs
<1>23. CASE RevokeFails(p)
  BY <1>0, <1>23, <1>c DEF RevokeFails, TypeOK, Procs, Pc
<1>24. CASE FinishCheck(p)
  <2> DEFINE s == [txn[t] EXCEPT !.receipt = IF @ = "none" THEN "PENDING" ELSE @]
  <2>1. t \in Txn BY <1>0, <1>24 DEF FinishCheck, At, Loaded, Pc
  <2>2. s \in Record BY <1>0, <2>1 DEF Record
  <2>3. [proc EXCEPT ![p].pc = "receipt", ![p].mem = s] \in Procs
    <3> HIDE DEF s
    <3> QED BY <1>0, <2>2, ProcMem DEF Pc
  <2>4. \/ txn' = [txn EXCEPT ![t] = s] /\ proc' = [proc EXCEPT ![p].pc = "receipt", ![p].mem = s]
        \/ txn' = txn /\ proc' = [proc EXCEPT ![p] = Idle]
    BY <1>24 DEF FinishCheck, Quit, t
  <2>5. txn' \in [Txn -> Record] /\ proc' \in Procs
    <3> HIDE DEF s
    <3> QED BY <1>q, <1>s, <2>2, <2>3, <2>4 DEF TypeOK
  <2> QED BY <1>24, <2>5 DEF FinishCheck, TypeOK, Procs
<1>25. CASE WriteReceipt(p)
  <2>1. proc' \in Procs BY <1>25, <1>c, <1>q DEF WriteReceipt, Quit, Pc
  <2>2. receipt' \in [Txn -> BOOLEAN] BY <1>25 DEF WriteReceipt, TypeOK
  <2> QED BY <1>25, <2>1, <2>2 DEF WriteReceipt, TypeOK, Procs
<1>26. CASE CommitReceipt(p)
  <2>1. [m EXCEPT !.receipt = "COMMITTED"] \in Record BY <1>0, RecReceipt
  <2>2. txn' \in [Txn -> Record] BY <1>26, <1>s, <2>1 DEF CommitReceipt, t, m
  <2>3. proc' \in Procs BY <1>26, <1>c DEF CommitReceipt, Pc
  <2> QED BY <1>26, <2>2, <2>3 DEF CommitReceipt, TypeOK, Procs
<1>27. CASE ReleaseFinished(p)
  BY <1>27, <1>q DEF ReleaseFinished, Quit, TypeOK, Procs
<1>28. CASE SaveEnd(p)
  BY <1>0, <1>28, <1>c, <1>s DEF SaveEnd, TypeOK, Procs, Pc, t, m
<1>29. CASE Unlease(p)
  BY <1>29, <1>q DEF Unlease, Quit, TypeOK, Procs
<1>30. CASE Crash(p)
  BY <1>0, <1>30, <1>q DEF Crash, Quit, TypeOK, Procs
<1> QED
  BY <1>1, <1>2, <1>4, <1>5, <1>6, <1>7, <1>8, <1>9, <1>10, <1>11, <1>12, <1>13, <1>14, <1>15,
     <1>16, <1>17, <1>18, <1>19, <1>20, <1>21, <1>22, <1>23, <1>24, <1>25, <1>26, <1>27, <1>28,
     <1>29, <1>30 DEF Step, Failure

(* So does the environment.                                                *)
LEMMA EnvironmentTyped ==
    ASSUME TypeOK, Backed, Environment PROVE TypeOK'
<1> USE DEF corpus, author, bounds
<1>1. ASSUME NEW t \in Txn, NEW f \in File, NEW c \in Content, EditWork(t, f, c) PROVE TypeOK'
  <2>1. edits' \in 0 .. MaxEdits BY <1>1, ConstantsOK DEF EditWork, TypeOK
  <2>2. work' \in [Txn -> [File -> Byte]] BY <1>1 DEF EditWork, TypeOK, Byte
  <2> QED BY <1>1, <2>1, <2>2 DEF EditWork, TypeOK
<1>2. ASSUME NEW t \in Txn, CompleteAudit(t) PROVE TypeOK'
  <2> DEFINE a == audit[t]
  <2>a. a \in [of : [Source -> Byte], done : BOOLEAN] BY <1>2 DEF CompleteAudit, TypeOK, Audit
  <2>1. [a EXCEPT !.done = TRUE] \in Audit
    <3> HIDE DEF a
    <3> QED BY <2>a DEF Audit
  <2>2. audit' = [audit EXCEPT ![t] = [audit[t] EXCEPT !.done = TRUE]] BY <1>2 DEF CompleteAudit
  <2> QED BY <1>2, <2>1, <2>2 DEF CompleteAudit, TypeOK
<1>3. ASSUME NEW t \in Txn, OperatorCopies(t) PROVE TypeOK'
  <2>1. rollback[t] \in [File -> Byte] /\ work[t] \in [File -> Byte]
    BY <1>3 DEF OperatorCopies, Backed, TxnBacked, Mutating, TypeOK, FileMap
  <2>2. live' \in [File -> Byte] BY <1>3, <2>1 DEF OperatorCopies, TypeOK
  <2> QED BY <1>3, <2>2 DEF OperatorCopies, TypeOK
<1>4. ASSUME NEW t \in Txn, ExpirePermit(t) PROVE TypeOK'
  BY <1>4 DEF ExpirePermit, TypeOK
<1>5. ASSUME NEW m \in Managed, NEW c \in Content, Drift(m, c) PROVE TypeOK'
  <2>1. drifts' \in 0 .. MaxDrifts BY <1>5, ConstantsOK DEF Drift, TypeOK
  <2>2. live' \in [File -> Byte] BY <1>5 DEF Drift, TypeOK, Byte
  <2> QED BY <1>5, <2>1, <2>2 DEF Drift, TypeOK
<1>6. CASE WorkspaceHeartbeat
  <2>1. Promoted(Unreconciled) \in [Managed -> Byte] BY PromotedTyped DEF Unreconciled
  <2>2. permit' \in [Txn -> {"none", "active", "spent", "expired", "revoked"}]
    BY <1>6 DEF WorkspaceHeartbeat, TypeOK
  <2> QED BY <1>6, <2>1, <2>2 DEF WorkspaceHeartbeat, TypeOK
<1> QED BY <1>1, <1>2, <1>3, <1>4, <1>5, <1>6 DEF Environment

-----------------------------------------------------------------------------
(* One process moves; the others keep their backing because preimages are  *)
(* never taken away.                                                       *)
LEMMA BackedFrame ==
    ASSUME Backed, NEW p \in Proc, \A q \in Proc \ {p} : proc'[q] = proc[q],
           \A t \in Txn : rollback[t] \in FileMap => rollback'[t] \in FileMap,
           \A t \in Txn : txn'[t] = txn[t] \/ TxnBacked(t)',
           ProcBacked(p)'
    PROVE  Backed'
<1>1. ASSUME NEW t \in Txn PROVE TxnBacked(t)' BY <1>1 DEF Backed, TxnBacked
<1>2. ASSUME NEW q \in Proc \ {p} PROVE ProcBacked(q)'
  <2>1. proc'[q] = proc[q] /\ ProcBacked(q) BY DEF Backed
  <2>2. AfterBackup \subseteq Loaded BY DEF AfterBackup, Loaded, Pc
  <2> QED BY <2>1, <2>2 DEF ProcBacked
<1> QED BY <1>1, <1>2 DEF Backed

LEMMA CommandsBacked ==
    ASSUME TypeOK, Backed, NEW p \in Proc, Commands(p) PROVE Backed'
<1> USE DEF corpus, author, bounds
<1>0. /\ proc \in Procs /\ (\A u \in Txn : txn[u] \in Record /\ TxnBacked(u)) /\ ProcBacked(p)
      /\ live \in FileMap
      /\ Checked \subseteq Loaded /\ AfterBackup \subseteq Checked
  BY DEF TypeOK, Procs, FileMap, Backed, Checked, Loaded, AfterBackup, Pc
<1>1. CASE SealCheck(p)
  BY <1>0, <1>1, BackedFrame DEF SealCheck, Procs, Process, ProcBacked, Checked, Loaded, AfterBackup
<1>2. ASSUME NEW t \in Txn, NEW S \in SUBSET Source, NEW D \in SUBSET Doc, Checkout(p, t, S, D)
      PROVE  Backed'
  <2>1. proc'[p].pc = "acquire" /\ proc'[p].t = t /\ proc'[p].mem.state = "CHECKED_OUT"
    BY <1>0, <1>2 DEF Checkout, Procs, Process, NoRecord
  <2> QED BY <1>0, <1>2, <2>1, BackedFrame
          DEF Checkout, Procs, ProcBacked, Checked, Loaded, AfterBackup, Mutating
<1>3. ASSUME NEW t \in Txn, NEW r \in Record, r.copy \in FileMap, r.state \notin Mutating,
             txn' = [txn EXCEPT ![t] = r], UNCHANGED <<rollback, proc>>
      PROVE  Backed'
  <2>1. TxnBacked(t)' BY <1>3 DEF TxnBacked, TypeOK
  <2>2. ProcBacked(p)' BY <1>0, <1>3 DEF ProcBacked
  <2> QED BY <1>3, <2>1, <2>2, BackedFrame DEF TypeOK
<1>4. ASSUME NEW t \in Txn, txn[t].state \in PreApply
      PROVE  /\ Reopened(txn[t]).copy \in FileMap /\ Reopened(txn[t]).state \notin Mutating
             /\ Unapproved(txn[t]).copy \in FileMap /\ Unapproved(txn[t]).state \notin Mutating
             /\ txn[t].copy \in FileMap
  <2>1. \A q \in Record : Reopened(q).copy = q.copy /\ Reopened(q).state = "CHECKED_OUT"
    BY DEF Reopened, Record
  <2> QED BY <1>0, <1>4, <2>1 DEF TxnBacked, Unapproved, PreApply, Mutating
<1>5. ASSUME NEW t \in Txn, NEW D \in SUBSET Doc, IncludeDocuments(p, t, D) PROVE Backed'
  <2> DEFINE r == [Reopened(txn[t]) EXCEPT !.docs = @ \cup D,
                     !.copy = [f \in File |-> IF f \in D THEN live[f] ELSE @[f]]]
             o == Reopened(txn[t])
  <2>1. txn[t].state \in PreApply /\ txn' = [txn EXCEPT ![t] = r] /\ UNCHANGED <<rollback, proc>>
    BY <1>5 DEF IncludeDocuments
  <2>2. o \in Record /\ o.copy \in FileMap /\ o.state \notin Mutating BY <1>0, <1>4, <2>1, RecReopened
  <2>3. r \in Record /\ r.copy \in FileMap /\ r.state \notin Mutating
    <3>1. \A f \in File : (IF f \in D THEN live[f] ELSE o.copy[f]) \in Byte BY <1>0, <2>2 DEF FileMap
    <3>2. r = [o EXCEPT !.docs = @ \cup D,
                        !.copy = [f \in File |-> IF f \in D THEN live[f] ELSE @[f]]]
      OBVIOUS
    <3> HIDE DEF o, r
    <3> QED BY <2>2, <3>1, <3>2 DEF Record, FileMap
  <2> HIDE DEF r
  <2> QED BY <1>3, <2>1, <2>3
<1>6. ASSUME NEW t \in Txn,
             MetadataPlan(p, t) \/ PrepareRefused(p, t) \/ PrepareBlocked(p, t) \/ RetireOrphan(p, t)
      PROVE  Backed'
  <2>1. txn[t].state \in PreApply /\ UNCHANGED <<rollback, proc>>
    BY <1>6 DEF MetadataPlan, PrepareRefused, PrepareBlocked, RetireOrphan, PrepareCommand
  <2>2. Reopened(txn[t]) \in Record /\ Unapproved(txn[t]) \in Record BY <1>0, RecReopened
  <2>3. CASE MetadataPlan(p, t) BY <1>3, <1>4, <2>1, <2>2, <2>3 DEF MetadataPlan
  <2>4. CASE PrepareRefused(p, t) BY <1>3, <1>4, <2>1, <2>2, <2>4 DEF PrepareRefused
  <2>5. ASSUME NEW r \in Record, NEW e \in State \ Mutating, r.copy \in FileMap,
               txn' = [txn EXCEPT ![t] = [r EXCEPT !.state = e]]
        PROVE  Backed'
    <3> DEFINE q == [r EXCEPT !.state = e]
    <3>1. q \in Record /\ q.copy \in FileMap /\ q.state \notin Mutating BY <2>5 DEF Record
    <3> HIDE DEF q
    <3> QED BY <1>3, <2>1, <2>5, <3>1 DEF q
  <2>6. CASE PrepareBlocked(p, t)
    BY <1>4, <2>1, <2>2, <2>5, <2>6 DEF PrepareBlocked, State, PreApply, Mutating
  <2>7. CASE RetireOrphan(p, t)
    BY <1>0, <1>4, <2>1, <2>5, <2>7 DEF RetireOrphan, State, Ended, Mutating
  <2> QED BY <1>6, <2>3, <2>4, <2>6, <2>7
<1>7. ASSUME NEW t \in Txn, Prepare(p, t) PROVE Backed'
  <2> DEFINE c == ChangedSources(t, txn[t]) \cup ChangedDocs(t, txn[t])
             pkg == [work |-> Regenerated(t, txn[t]), audit |-> audit[t]]
             u == Unapproved(txn[t])
             r == [u EXCEPT !.state = "PREPARED", !.changed = c, !.prepared = pkg]
  <2>1. txn[t].state \in PreApply /\ txn' = [txn EXCEPT ![t] = r] /\ UNCHANGED <<rollback, proc>>
    BY <1>7 DEF Prepare, PrepareCommand
  <2>2. u \in Record /\ u.copy \in FileMap BY <1>0, <1>4, <2>1, RecReopened
  <2>3. c \in SUBSET Managed /\ pkg \in Package
    BY <1>0, ChangedTyped, RegeneratedTyped DEF Package, TypeOK
  <2>4. r \in Record /\ r.copy \in FileMap /\ r.state \notin Mutating
    <3> HIDE DEF c, pkg, u
    <3> QED BY ZenonT(30), <2>2, <2>3, RecApprovals DEF Record, Mutating
  <2> HIDE DEF r
  <2> QED BY <1>3, <2>1, <2>4
<1>8. ASSUME NEW t \in Txn, MetadataCheck(p, t) PROVE Backed'
  <2> DEFINE r == [txn[t] EXCEPT !.checked = WorkPackage(t)]
  <2>1. /\ txn[t].state \in PreApply /\ txn' = [txn EXCEPT ![t] = r]
        /\ UNCHANGED <<rollback, proc>>
    BY <1>8 DEF MetadataCheck, PreApply
  <2>2. txn[t] \in Record /\ txn[t].copy \in FileMap BY <1>0, <1>4, <2>1
  <2>3. r \in Record /\ r.copy \in FileMap /\ r.state \notin Mutating
    BY <2>1, <2>2, PackageTyped, RecApprovals DEF Record, PreApply, Mutating
  <2> HIDE DEF r
  <2> QED BY <1>3, <2>1, <2>3
(* A command that loads a saved transaction.                               *)
<1>9. ASSUME NEW t \in Txn, NEW r \in Record, NEW c \in Checked,
             r.copy \in FileMap, r.state \in Mutating => rollback[t] \in FileMap,
             c \in AfterBackup => rollback[t] \in FileMap,
             proc'[p].pc = c, proc'[p].t = t, proc'[p].mem = r,
             \A q \in Proc \ {p} : proc'[q] = proc[q], UNCHANGED <<txn, rollback>>
      PROVE  Backed'
  BY <1>0, <1>9, BackedFrame DEF ProcBacked
<1>10. ASSUME NEW t \in Txn, VerifyCheck(p, t) \/ ApplyCheck(p, t) \/ RecoverReceipt(p, t)
       PROVE  Backed'
  <2>1. txn[t].state # "NONE" /\ UNCHANGED <<txn, rollback>>
    BY <1>10 DEF VerifyCheck, ApplyCheck, RecoverReceipt
  <2>2. PICK c \in {"verify", "backup", "finish"} :
          proc' = [proc EXCEPT ![p].pc = c, ![p].t = t, ![p].mem = txn[t]]
    BY <1>10 DEF VerifyCheck, ApplyCheck, RecoverReceipt
  <2>3. c \in Checked \ AfterBackup BY DEF Checked, Loaded, Pc, AfterBackup
  <2>4. /\ proc'[p].pc = c /\ proc'[p].t = t /\ proc'[p].mem = txn[t]
        /\ \A q \in Proc \ {p} : proc'[q] = proc[q]
    BY <1>0, <2>2 DEF Procs, Process
  <2> QED BY <1>0, <1>9, <2>1, <2>3, <2>4 DEF TxnBacked
<1>11. ASSUME NEW t \in Txn,
              Abort(p, t) \/ StaleAbort(p, t) \/ AuthorityCheck(p, t) \/ RecoverBaseline(p, t)
       PROVE  Backed'
  <2>1. txn[t].state # "NONE" /\ UNCHANGED <<txn, rollback>>
    BY <1>11 DEF Abort, StaleAbort, AuthorityCheck, RecoverBaseline, RecoverCommand, PreApply
  <2>2. PICK c \in {"save_end", "authority"}, e \in Ended :
          proc' = [proc EXCEPT ![p].pc = c, ![p].t = t, ![p].mem = [txn[t] EXCEPT !.state = e]]
    BY <1>11 DEF Abort, StaleAbort, AuthorityCheck, RecoverBaseline, Ended
  <2> DEFINE r == [txn[t] EXCEPT !.state = e]
  <2>3. c \in Checked \ AfterBackup BY DEF Checked, Loaded, Pc, AfterBackup
  <2>4. r \in Record /\ r.copy \in FileMap /\ r.state \notin Mutating
    <3>1. e \in State \ Mutating BY DEF State, Ended, Mutating
    <3> QED BY ZenonT(30), <1>0, <2>1, <3>1, RecState DEF TxnBacked, Record
  <2>5. /\ proc'[p].pc = c /\ proc'[p].t = t /\ proc'[p].mem = r
        /\ \A q \in Proc \ {p} : proc'[q] = proc[q]
    <3>1. proc' = [proc EXCEPT ![p].pc = c, ![p].t = t, ![p].mem = r] BY <2>2
    <3> HIDE DEF r
    <3> QED BY <1>0, <3>1 DEF Procs, Process
  <2> HIDE DEF r
  <2> QED BY <1>9, <2>1, <2>3, <2>4, <2>5
<1>12. ASSUME NEW t \in Txn, RecoverTarget(p, t) PROVE Backed'
  <2>1. txn[t].state = "RECOVERY_REQUIRED" /\ UNCHANGED <<txn, rollback>>
    BY <1>12 DEF RecoverTarget, RecoverCommand
  <2>2. /\ proc'[p].pc = "write_seal" /\ proc'[p].t = t /\ proc'[p].mem = txn[t]
        /\ \A q \in Proc \ {p} : proc'[q] = proc[q]
    BY <1>0, <1>12 DEF RecoverTarget, Procs, Process
  <2>3. txn[t].copy \in FileMap /\ rollback[t] \in FileMap BY <1>0, <2>1 DEF TxnBacked, Mutating
  <2> QED BY <1>0, <1>9, <2>1, <2>2, <2>3 DEF Checked, Loaded, Pc
<1> QED
  BY <1>1, <1>2, <1>5, <1>6, <1>7, <1>8, <1>10, <1>11, <1>12 DEF Commands

LEMMA StepBacked ==
    ASSUME TypeOK, Backed, NEW p \in Proc, Step(p) \/ Failure(p) PROVE Backed'
<1> USE DEF corpus, author, bounds
<1> DEFINE t == proc[p].t
           m == proc[p].mem
<1>0. /\ proc \in Procs /\ m \in Record /\ ProcBacked(p) /\ (\A u \in Txn : txn[u] \in Record /\ TxnBacked(u))
      /\ live \in FileMap
      /\ Checked \subseteq Loaded /\ AfterBackup \subseteq Checked
      /\ proc[p].pc \in Loaded => t \in Txn
  BY DEF TypeOK, Procs, Process, FileMap, Backed, ProcBacked, Checked, Loaded, AfterBackup, Pc
(* The process ends, and perhaps saves a record that has its files.        *)
<1>1. ASSUME Quit(p), UNCHANGED rollback,
             \A u \in Txn : txn'[u] = txn[u] \/ TxnBacked(u)'
      PROVE  Backed'
  <2>1. ProcBacked(p)' BY <1>0, <1>1 DEF Quit, Idle, Procs, ProcBacked, Checked, Loaded, AfterBackup
  <2>2. \A q \in Proc \ {p} : proc'[q] = proc[q] BY <1>0, <1>1 DEF Quit, Procs
  <2> QED BY <1>1, <2>1, <2>2, BackedFrame
<1>2. ASSUME t \in Txn, NEW r \in Record, UNCHANGED rollback, txn' = [txn EXCEPT ![t] = r],
             r.copy \in FileMap, r.state \in Mutating => rollback[t] \in FileMap
      PROVE  \A u \in Txn : txn'[u] = txn[u] \/ TxnBacked(u)'
  BY <1>2 DEF TypeOK, TxnBacked
(* The process goes on with the same transaction and a record of it.       *)
<1>3. ASSUME t \in Txn, NEW c \in Checked,
             proc'[p].pc = c, proc'[p].t = t, \A q \in Proc \ {p} : proc'[q] = proc[q],
             proc'[p].mem.copy \in FileMap,
             proc'[p].mem.state \in Mutating => rollback'[t] \in FileMap,
             c \in AfterBackup => rollback'[t] \in FileMap,
             \A u \in Txn : rollback[u] \in FileMap => rollback'[u] \in FileMap,
             \A u \in Txn : txn'[u] = txn[u] \/ TxnBacked(u)'
      PROVE  Backed'
  BY <1>0, <1>3, BackedFrame DEF ProcBacked
<1>4. ASSUME NEW c \in Checked, proc[p].pc \in Checked, UNCHANGED rollback,
             c \in AfterBackup => proc[p].pc \in AfterBackup,
             \A q \in Proc \ {p} : proc'[q] = proc[q],
             proc'[p].pc = c, proc'[p].t = t, proc'[p].mem = m,
             \A u \in Txn : txn'[u] = txn[u] \/ TxnBacked(u)'
      PROVE  Backed'
  BY <1>0, <1>3, <1>4 DEF ProcBacked
<1> HIDE DEF t, m
<1>5. CASE SealWrite(p) \/ Unlease(p) \/ ReleaseFinished(p) \/ Crash(p)
  BY <1>1, <1>5 DEF SealWrite, Unlease, ReleaseFinished, Crash
<1>6. CASE Acquire(p)
  <2>1. CASE Quit(p) BY <1>1, <1>6, <2>1 DEF Acquire
  <2>2. CASE proc' = [proc EXCEPT ![p].pc = "materialise"]
    <3>1. proc'[p].pc = "materialise" /\ proc'[p].t = t /\ proc'[p].mem = m
      BY <1>0, <2>2 DEF Procs, Process, t, m
    <3>2. proc[p].pc = "acquire" /\ UNCHANGED <<txn, rollback>> BY <1>6 DEF Acquire, At
    <3>3. ProcBacked(p)'
      BY <1>0, <3>1, <3>2 DEF ProcBacked, Checked, Loaded, AfterBackup, Pc, t, m
    <3>4. \A q \in Proc \ {p} : proc'[q] = proc[q] BY <1>0, <2>2 DEF Procs
    <3> QED BY <3>2, <3>3, <3>4, BackedFrame
  <2> QED BY <1>6, <2>1, <2>2 DEF Acquire
<1>7. ASSUME At(p, "materialise"), CopyAndSave(p), Quit(p), UNCHANGED rollback PROVE Backed'
  <2> DEFINE r == [m EXCEPT !.copy = live]
  <2>1. t \in Txn BY <1>0, <1>7 DEF At, Loaded, Pc
  <2>2. txn' = [txn EXCEPT ![t] = r] BY <1>7 DEF CopyAndSave, t, m
  <2>3. r \in Record /\ r.copy \in FileMap /\ r.state = m.state
    BY <1>0, RecCopy DEF Record, FileMap
  <2>4. m.state \in Mutating => rollback[t] \in FileMap
    BY <1>0, <1>7 DEF ProcBacked, At, Loaded, Pc, t, m
  <2> HIDE DEF r
  <2> QED BY <1>1, <1>2, <1>7, <2>1, <2>2, <2>3, <2>4
<1>8. CASE Materialise(p) BY <1>7, <1>8 DEF Materialise
<1>9. CASE CheckoutFails(p)
  <2>1. CASE CopyAndSave(p) BY <1>7, <1>9, <2>1 DEF CheckoutFails
  <2>2. CASE ~CopyAndSave(p) BY <1>1, <1>9, <2>2 DEF CheckoutFails
  <2> QED BY <2>1, <2>2
<1>10. CASE VerifySave(p)
  <2> DEFINE r == [m EXCEPT !.state = "SHADOW_VERIFIED", !.verified = WorkPackage(t)]
  <2>1. t \in Txn /\ m.copy \in FileMap
    BY <1>0, <1>10 DEF VerifySave, At, ProcBacked, Checked, Loaded, Pc, m
  <2>2. txn' = [txn EXCEPT ![t] = r] \/ txn' = txn BY <1>10 DEF VerifySave, t, m
  <2>3. r \in Record /\ r.copy \in FileMap /\ r.state \notin Mutating
    <3>1. ASSUME NEW pkg \in Package
          PROVE  LET q == [m EXCEPT !.state = "SHADOW_VERIFIED", !.verified = pkg] IN
                 q \in Record /\ q.copy \in FileMap /\ q.state \notin Mutating
      BY <1>0, <2>1, RecApprovals DEF Record, Mutating
    <3> QED BY <2>1, <3>1, PackageTyped
  <2>4. UNCHANGED rollback /\ Quit(p) BY <1>10 DEF VerifySave
  <2> HIDE DEF r
  <2> QED BY <1>1, <1>2, <2>1, <2>2, <2>3, <2>4
(* The saves of the record as the process remembers it.                    *)
<1>11. ASSUME proc[p].pc \in Checked, txn' = [txn EXCEPT ![t] = m] \/ txn' = txn, UNCHANGED rollback
       PROVE  \A u \in Txn : txn'[u] = txn[u] \/ TxnBacked(u)'
  <2>1. t \in Txn /\ m.copy \in FileMap /\ (m.state \in Mutating => rollback[t] \in FileMap)
    BY <1>0, <1>11 DEF ProcBacked, t, m
  <2> QED BY <1>0, <1>2, <1>11, <2>1
<1>12. CASE AuthoritySave(p)
  <2>1. proc[p].pc \in Checked /\ UNCHANGED rollback /\ Quit(p)
    BY <1>12 DEF AuthoritySave, At, Checked, Loaded, Pc
  <2>2. txn' = [txn EXCEPT ![t] = m] \/ txn' = txn BY <1>12 DEF AuthoritySave, t, m
  <2> QED BY <1>1, <1>11, <2>1, <2>2
<1>13. CASE Backup(p)
  <2>1. t \in Txn /\ m.copy \in FileMap /\ proc[p].pc = "backup"
    BY <1>0, <1>13 DEF Backup, At, ProcBacked, Checked, Loaded, Pc, m
  <2>2. rollback' = [rollback EXCEPT ![t] = live] /\ UNCHANGED txn BY <1>13 DEF Backup, t
  <2>3. rollback'[t] \in FileMap /\ \A u \in Txn : rollback[u] \in FileMap => rollback'[u] \in FileMap
    BY <1>0, <2>1, <2>2 DEF TypeOK
  <2>4. /\ proc'[p].pc = "permit" /\ proc'[p].t = t /\ proc'[p].mem = m
        /\ \A q \in Proc \ {p} : proc'[q] = proc[q]
    BY <1>0, <1>13 DEF Backup, Procs, Process, t, m
  <2>5. "permit" \in Checked BY DEF Checked, Loaded, Pc
  <2> QED BY <1>3, <2>1, <2>2, <2>3, <2>4, <2>5
<1>14. CASE IssuePermit(p)
  <2>1. /\ t \in Txn /\ m.copy \in FileMap /\ rollback[t] \in FileMap
        /\ UNCHANGED <<txn, rollback>>
    BY <1>0, <1>14 DEF IssuePermit, At, ProcBacked, Checked, Loaded, AfterBackup, Pc, t, m
  <2>2. CASE Quit(p) BY <1>1, <2>1, <2>2
  <2>3. CASE proc' = [proc EXCEPT ![p].pc = "start", ![p].mem.state = "APPLYING", ![p].mem.permit = TRUE]
    <3>1. /\ proc'[p].pc = "start" /\ proc'[p].t = t
          /\ \A q \in Proc \ {p} : proc'[q] = proc[q]
      BY <1>0, <2>3 DEF Procs, Process, t
    <3>2. proc'[p].mem = [[m EXCEPT !.state = "APPLYING"] EXCEPT !.permit = TRUE]
      BY <1>0, <2>3 DEF Procs, Process, m
    <3>3. proc'[p].mem.copy \in FileMap BY <1>0, <2>1, <3>2 DEF Record
    <3>4. "start" \in Checked BY DEF Checked, Loaded, Pc
    <3> QED BY <1>3, <2>1, <3>1, <3>3, <3>4
  <2> QED BY <1>14, <2>2, <2>3 DEF IssuePermit
(* Steps that change neither the record nor the transaction of the process.*)
<1>15. CASE ApplyStart(p) \/ SavePostcheck(p) \/ SaveEnd(p)
  <2>1. PICK c \in {"write", "finish", "unlease"} :
          /\ proc'[p].pc = c /\ proc'[p].t = t /\ proc'[p].mem = m
          /\ c \in AfterBackup => proc[p].pc \in AfterBackup
          /\ \A q \in Proc \ {p} : proc'[q] = proc[q]
    BY <1>0, <1>15 DEF ApplyStart, SavePostcheck, SaveEnd, At, AfterBackup, Procs, Process, t, m
  <2>2. /\ proc[p].pc \in Checked /\ UNCHANGED rollback /\ c \in Checked
        /\ txn' = [txn EXCEPT ![t] = m]
    BY <1>15 DEF ApplyStart, SavePostcheck, SaveEnd, At, Checked, Loaded, Pc, t, m
  <2> QED BY <1>4, <1>11, <2>1, <2>2
<1>16. CASE \/ WriteFile(p) \/ WriteFails(p) \/ Heartbeat(p) \/ HeartbeatFails(p) \/ Postcheck(p)
            \/ SealingFails(p) \/ RollbackFile(p) \/ RollbackDone(p) \/ RevokeFails(p)
  <2>1. proc[p].pc \in AfterBackup /\ UNCHANGED <<txn, rollback>>
    BY <1>16 DEF WriteFile, WriteFails, Heartbeat, HeartbeatFails, Postcheck, SealingFails,
                 RollbackFile, RollbackDone, RevokeFails, At, AfterBackup
  <2>2. PICK c \in AfterBackup :
          /\ proc'[p].pc = c /\ proc'[p].t = t /\ proc'[p].mem = m
          /\ \A q \in Proc \ {p} : proc'[q] = proc[q]
    <3>1. CASE WriteFile(p) BY <1>0, <3>1 DEF WriteFile, AfterBackup, Procs, Process, t, m
    <3>2. CASE WriteFails(p) \/ Heartbeat(p) \/ HeartbeatFails(p)
      BY <1>0, <3>2 DEF WriteFails, Heartbeat, HeartbeatFails, AfterBackup, Procs, Process, t, m
    <3>3. CASE Postcheck(p) \/ SealingFails(p)
      BY <1>0, <3>3 DEF Postcheck, SealingFails, AfterBackup, Procs, Process, t, m
    <3>4. CASE RollbackFile(p)
      BY <1>0, <3>4 DEF RollbackFile, At, AfterBackup, Procs, Process, t, m
    <3>5. CASE RollbackDone(p) \/ RevokeFails(p)
      BY <1>0, <3>5 DEF RollbackDone, RevokeFails, AfterBackup, Procs, Process, t, m
    <3> QED BY <1>16, <3>1, <3>2, <3>3, <3>4, <3>5
  <2> QED BY <1>0, <1>4, <2>1, <2>2
<1>17. CASE WriteSeal(p) \/ Revoke(p)
  <2>1. PICK c \in {"save_post", "save_end"} :
          /\ proc'[p].pc = c /\ proc'[p].t = t
          /\ \A q \in Proc \ {p} : proc'[q] = proc[q]
    BY <1>0, <1>17 DEF WriteSeal, Revoke, Procs, Process, t
  <2>2. proc'[p].mem.copy = m.copy
    BY <1>0, <1>17 DEF WriteSeal, Revoke, Procs, Process, Record, m
  <2>3. proc[p].pc \in AfterBackup /\ UNCHANGED <<txn, rollback>> /\ c \in Checked
    BY <1>17 DEF WriteSeal, Revoke, At, AfterBackup, Checked, Loaded, Pc
  <2> QED BY <1>0, <1>3, <2>1, <2>2, <2>3 DEF ProcBacked, t, m
<1>18. CASE SaveRecoveryRequired(p)
  <2> DEFINE r == [m EXCEPT !.state = "RECOVERY_REQUIRED"]
  <2>1. /\ t \in Txn /\ m.copy \in FileMap /\ rollback[t] \in FileMap
        /\ UNCHANGED rollback /\ Quit(p)
    BY <1>0, <1>18 DEF SaveRecoveryRequired, At, ProcBacked, Checked, Loaded, AfterBackup, Pc, t, m
  <2>2. txn' = [txn EXCEPT ![t] = r] BY <1>18 DEF SaveRecoveryRequired, t, m
  <2>3. r \in Record /\ r.copy \in FileMap BY ZenonT(30), <1>0, <2>1, RecState DEF Record, State
  <2> HIDE DEF r
  <2> QED BY <1>1, <1>2, <2>1, <2>2, <2>3
<1>19. CASE FinishCheck(p)
  <2> DEFINE s == [txn[t] EXCEPT !.receipt = IF @ = "none" THEN "PENDING" ELSE @]
  <2>1. t \in Txn /\ UNCHANGED rollback BY <1>0, <1>19 DEF FinishCheck, At, Loaded, Pc
  <2>2. CASE Quit(p) /\ UNCHANGED txn BY <1>1, <2>1, <2>2
  <2>3. CASE /\ txn[t].state = "POSTCHECK_VERIFIED" /\ txn' = [txn EXCEPT ![t] = s]
             /\ proc' = [proc EXCEPT ![p].pc = "receipt", ![p].mem = s]
    <3>1. s \in Record /\ s.copy \in FileMap /\ s.state \notin Mutating
      BY <1>0, <2>1, <2>3 DEF Record, TxnBacked, Mutating
    <3>2. proc'[p].pc = "receipt" /\ proc'[p].t = t /\ proc'[p].mem = s
      <4> HIDE DEF s
      <4> QED BY <1>0, <2>3 DEF Procs, Process, t
    <3>3. \A q \in Proc \ {p} : proc'[q] = proc[q] BY <1>0, <2>3 DEF Procs
    <3>4. "receipt" \in Checked \ AfterBackup BY DEF Checked, Loaded, AfterBackup, Pc
    <3> HIDE DEF s
    <3>5. \A u \in Txn : txn'[u] = txn[u] \/ TxnBacked(u)' BY <1>2, <2>1, <2>3, <3>1
    <3> QED BY <1>3, <2>1, <3>1, <3>2, <3>3, <3>4, <3>5
  <2> QED BY <1>19, <2>2, <2>3 DEF FinishCheck, t
<1>20. CASE WriteReceipt(p)
  <2>1. UNCHANGED <<txn, rollback>> /\ proc[p].pc = "receipt" BY <1>20 DEF WriteReceipt, At
  <2>2. CASE Quit(p) BY <1>1, <2>1, <2>2
  <2>3. CASE proc' = [proc EXCEPT ![p].pc = "commit"]
    <3>1. /\ proc'[p].pc = "commit" /\ proc'[p].t = t /\ proc'[p].mem = m
          /\ \A q \in Proc \ {p} : proc'[q] = proc[q]
      BY <1>0, <2>3 DEF Procs, Process, t, m
    <3>2. {"receipt", "commit"} \subseteq Checked \ AfterBackup
      BY DEF Checked, Loaded, AfterBackup, Pc
    <3> QED BY <1>4, <2>1, <3>1, <3>2
  <2> QED BY <1>20, <2>2, <2>3 DEF WriteReceipt
<1>21. CASE CommitReceipt(p)
  <2> DEFINE r == [m EXCEPT !.receipt = "COMMITTED"]
  <2>1. t \in Txn /\ m.copy \in FileMap /\ (m.state \in Mutating => rollback[t] \in FileMap)
    BY <1>0, <1>21 DEF CommitReceipt, At, ProcBacked, Checked, Loaded, Pc, t, m
  <2>2. /\ txn' = [txn EXCEPT ![t] = r] /\ UNCHANGED rollback
        /\ proc[p].pc = "commit" /\ proc' = [proc EXCEPT ![p].pc = "release"]
    BY <1>21 DEF CommitReceipt, At, t, m
  <2>3. r \in Record /\ r.copy \in FileMap /\ r.state = m.state
    BY ZenonT(30), <1>0, <2>1, RecReceipt DEF Record
  <2> HIDE DEF r
  <2>4. \A u \in Txn : txn'[u] = txn[u] \/ TxnBacked(u)' BY <1>2, <2>1, <2>2, <2>3
  <2>5. /\ proc'[p].pc = "release" /\ proc'[p].t = t /\ proc'[p].mem = m
        /\ \A q \in Proc \ {p} : proc'[q] = proc[q]
    BY <1>0, <2>2 DEF Procs, Process, t, m
  <2>6. {"commit", "release"} \subseteq Checked \ AfterBackup
    BY DEF Checked, Loaded, AfterBackup, Pc
  <2> QED BY <1>4, <2>2, <2>4, <2>5, <2>6
<1> QED
  BY <1>5, <1>6, <1>8, <1>9, <1>10, <1>12, <1>13, <1>14, <1>15, <1>16, <1>17, <1>18, <1>19,
     <1>20, <1>21 DEF Step, Failure

LEMMA EnvironmentBacked ==
    ASSUME TypeOK, Backed, Environment PROVE Backed'
<1>1. UNCHANGED <<txn, rollback, proc>>
  BY DEF Environment, EditWork, CompleteAudit, OperatorCopies, ExpirePermit, Drift,
         WorkspaceHeartbeat, corpus, author, bounds
<1> QED BY <1>1 DEF Backed, TxnBacked, ProcBacked

-----------------------------------------------------------------------------
LEMMA InitTyped == Init => TypeOK /\ Backed
<1> SUFFICES ASSUME Init PROVE TypeOK /\ Backed OBVIOUS
<1>1. NoRecord \in Record BY DEF NoRecord, Record, State
<1>2. Idle \in Process BY <1>1 DEF Idle, Process, Pc
<1>3. live \in [File -> Byte] /\ db \in [Managed -> Byte] BY DEF Init, Byte
<1>4. 0 \in 0 .. MaxEdits /\ 0 \in 0 .. MaxDrifts /\ 0 \in 0 .. MaxFaults BY ConstantsOK
<1>5. TypeOK BY <1>1, <1>2, <1>3, <1>4 DEF Init, TypeOK, Audit
<1>6. \A t \in Txn : txn[t].state = "NONE" BY DEF Init, NoRecord
<1>7. \A p \in Proc : proc[p].pc = "idle" BY DEF Init, Idle
<1>8. Backed
  BY <1>6, <1>7 DEF Backed, TxnBacked, ProcBacked, Mutating, Checked, Loaded, AfterBackup
<1> QED BY <1>5, <1>8

LEMMA NextTyped == TypeOK /\ Backed /\ [Next]_vars => TypeOK' /\ Backed'
<1> SUFFICES ASSUME TypeOK, Backed, [Next]_vars PROVE TypeOK' /\ Backed' OBVIOUS
<1>1. CASE Environment BY <1>1, EnvironmentTyped, EnvironmentBacked
<1>2. ASSUME NEW p \in Proc, Commands(p) PROVE TypeOK' /\ Backed'
  BY <1>2, CommandsTyped, CommandsBacked
<1>3. ASSUME NEW p \in Proc, Step(p) \/ Failure(p) PROVE TypeOK' /\ Backed'
  BY <1>3, StepTyped, StepBacked
<1>4. CASE UNCHANGED vars
  BY <1>4 DEF vars, bounds, TypeOK, Backed, TxnBacked, ProcBacked
<1> QED BY <1>1, <1>2, <1>3, <1>4 DEF Next

(* Every file, row and remembered value always has its type, and no        *)
(* transaction may write the live corpus (APPLYING, RECOVERY_REQUIRED)     *)
(* before its preimages were captured (_core_apply.py captures them before *)
(* it saves APPLYING).                                                     *)
THEOREM TypeCorrect == Spec => []TypeOK
<1>1. Spec => [](TypeOK /\ Backed) BY InitTyped, NextTyped, PTL DEF Spec
<1> QED BY <1>1, PTL
-----------------------------------------------------------------------------
(* What a transaction may seal is what was reviewed, for any number of     *)
(* operators, any edits and any crash: ApprovalsBindReview is an invariant.*)
(*                                                                         *)
(* A process works on the record it remembers, and saves it over whatever  *)
(* another process has written since.  So the inductive invariant speaks   *)
(* of every record that exists, saved or remembered.                       *)

Open == {"CHECKED_OUT", "AWAITING_METADATA_REVIEW"}

RecBound(r) ==
    /\ r.state \in Approved => r.verified # None
    /\ r.state \in Open => r.verified = None
    /\ r.verified # None => r.verified = r.prepared /\ ReviewedFor(r, r.verified)

Applying == AfterBackup \cup {"backup"}

ProcBound(p) ==
    /\ RecBound(proc[p].mem)
    /\ proc[p].pc \in {"acquire", "materialise"} => proc[p].mem.state = "CHECKED_OUT"
    /\ proc[p].pc = "verify" => ReviewedFor(proc[p].mem, proc[p].mem.prepared)
    /\ proc[p].pc \in Applying => proc[p].mem.verified # None

Bound == (\A t \in Txn : RecBound(txn[t])) /\ (\A p \in Proc : ProcBound(p))

(* How the updates of a record treat its approvals.                        *)
LEMMA BoundReopened ==
    ASSUME NEW r \in Record
    PROVE  /\ Reopened(r).state = "CHECKED_OUT" /\ Reopened(r).verified = None
           /\ RecBound(Reopened(r))
<1>1. Reopened(r).state = "CHECKED_OUT" /\ Reopened(r).verified = None BY DEF Reopened, Record
<1> QED BY <1>1 DEF RecBound, Approved

LEMMA BoundUnapproved ==
    ASSUME NEW r \in Record, r.state \in PreApply, RecBound(r)
    PROVE  /\ Unapproved(r).state \in Open /\ Unapproved(r).verified = None
           /\ RecBound(Unapproved(r))
<1>1. CASE Unapproved(r) = Reopened(r) BY <1>1, BoundReopened DEF Open
<1>2. CASE Unapproved(r) # Reopened(r)
  <2>1. Unapproved(r) = r /\ r.state \in Open BY <1>2 DEF Unapproved, PreApply, Open
  <2> QED BY <2>1 DEF RecBound
<1> QED BY <1>1, <1>2

LEMMA BoundUnverified ==
    ASSUME NEW r, r.verified = None, r.state \notin Approved PROVE RecBound(r)
BY DEF RecBound

LEMMA BoundState ==
    ASSUME NEW r \in Record, RecBound(r), NEW s \in State \ Open,
           s \in Approved => r.verified # None
    PROVE  RecBound([r EXCEPT !.state = s])
<1> DEFINE q == [r EXCEPT !.state = s]
<1>1. /\ q.state = s /\ q.verified = r.verified /\ q.prepared = r.prepared
      /\ q.sources = r.sources /\ q.copy = r.copy /\ q.checked = r.checked
  BY DEF Record
<1> HIDE DEF q
<1>2. RecBound(q) BY <1>1 DEF RecBound, ReviewedFor
<1> QED BY <1>2 DEF q

LEMMA BoundReceipt ==
    ASSUME NEW r \in Record, RecBound(r), NEW s \in {"none", "PENDING", "COMMITTED"}
    PROVE  RecBound([r EXCEPT !.receipt = s])
<1> DEFINE q == [r EXCEPT !.receipt = s]
<1>1. /\ q.state = r.state /\ q.verified = r.verified /\ q.prepared = r.prepared
      /\ q.sources = r.sources /\ q.copy = r.copy /\ q.checked = r.checked
  BY DEF Record
<1> HIDE DEF q
<1>2. RecBound(q) BY <1>1 DEF RecBound, ReviewedFor
<1> QED BY <1>2 DEF q

(* The gate of metadata-check, verify and apply is a review of the work    *)
(* package as it is now.                                                   *)
LEMMA AuditReviews ==
    ASSUME NEW t \in Txn, NEW r, AuditValid(t, r), r.checked = WorkPackage(t)
    PROVE  ReviewedFor(r, WorkPackage(t))
BY DEF AuditValid, ReviewedFor, WorkPackage, ChangedSources, Candidate

LEMMA CheckReviews ==
    ASSUME NEW t \in Txn, NEW r, MetadataChecked(t, r) PROVE ReviewedFor(r, WorkPackage(t))
BY DEF MetadataChecked, AuditValid, ReviewedFor, WorkPackage, ChangedSources, Candidate

LEMMA BoundFrame ==
    ASSUME Bound, NEW p \in Proc, \A q \in Proc \ {p} : proc'[q] = proc[q],
           \A t \in Txn : txn'[t] = txn[t] \/ RecBound(txn'[t]),
           ProcBound(p)'
    PROVE  Bound'
<1>1. ASSUME NEW t \in Txn PROVE RecBound(txn'[t]) BY DEF Bound
<1>2. ASSUME NEW q \in Proc \ {p} PROVE ProcBound(q)'
  <2>1. proc'[q] = proc[q] /\ ProcBound(q) BY DEF Bound
  <2> QED BY <2>1 DEF ProcBound
<1> QED BY <1>1, <1>2 DEF Bound

LEMMA CommandsBound ==
    ASSUME TypeOK, Bound, NEW p \in Proc, Commands(p) PROVE Bound'
<1> USE DEF corpus, author, bounds
<1>0. /\ proc \in Procs /\ (\A u \in Txn : txn[u] \in Record /\ RecBound(txn[u])) /\ ProcBound(p)
      /\ txn \in Txns
  BY DEF TypeOK, Procs, Txns, Bound
<1>1. CASE SealCheck(p)
  <2>1. /\ proc'[p].pc = "seal" /\ proc'[p].mem = proc[p].mem
        /\ \A q \in Proc \ {p} : proc'[q] = proc[q]
    BY <1>0, <1>1 DEF SealCheck, Procs, Process
  <2>2. ProcBound(p)' BY <1>0, <2>1 DEF ProcBound, Applying, AfterBackup
  <2> QED BY <1>1, <2>1, <2>2, BoundFrame DEF SealCheck
<1>2. ASSUME NEW t \in Txn, NEW S \in SUBSET Source, NEW D \in SUBSET Doc, Checkout(p, t, S, D)
      PROVE  Bound'
  <2>1. /\ proc'[p].pc = "acquire" /\ proc'[p].mem.state = "CHECKED_OUT"
        /\ proc'[p].mem.verified = None
        /\ \A q \in Proc \ {p} : proc'[q] = proc[q]
    BY <1>0, <1>2 DEF Checkout, Procs, Process, NoRecord
  <2>2. RecBound(proc'[p].mem) BY <2>1, BoundUnverified DEF Approved
  <2>3. ProcBound(p)' BY <2>1, <2>2 DEF ProcBound, Applying, AfterBackup
  <2> QED BY <1>2, <2>1, <2>3, BoundFrame DEF Checkout
(* The commands that save at once.                                         *)
<1>3. ASSUME NEW t \in Txn, NEW r, RecBound(r), txn' = [txn EXCEPT ![t] = r], UNCHANGED proc
      PROVE  Bound'
  <2>1. ProcBound(p)' BY <1>0, <1>3 DEF ProcBound
  <2>2. \A u \in Txn : txn'[u] = txn[u] \/ RecBound(txn'[u]) BY <1>0, <1>3 DEF Txns
  <2> QED BY <1>3, <2>1, <2>2, BoundFrame
<1>4. ASSUME NEW t \in Txn, NEW D \in SUBSET Doc, IncludeDocuments(p, t, D) PROVE Bound'
  <2> DEFINE o == Reopened(txn[t])
             r == [o EXCEPT !.docs = @ \cup D,
                            !.copy = [f \in File |-> IF f \in D THEN live[f] ELSE @[f]]]
  <2>1. o \in Record /\ o.state = "CHECKED_OUT" /\ o.verified = None
    BY <1>0, BoundReopened, RecReopened
  <2>2. r.state = "CHECKED_OUT" /\ r.verified = None
    <3> HIDE DEF o
    <3> QED BY <2>1 DEF Record
  <2>3. txn' = [txn EXCEPT ![t] = r] /\ UNCHANGED proc BY <1>4 DEF IncludeDocuments
  <2> HIDE DEF r
  <2> QED BY <1>3, <2>2, <2>3, BoundUnverified DEF Approved
<1>5. ASSUME NEW t \in Txn, MetadataPlan(p, t) PROVE Bound'
  BY <1>0, <1>3, <1>5, BoundReopened DEF MetadataPlan
<1>6. ASSUME NEW t \in Txn, PrepareRefused(p, t) PROVE Bound'
  BY <1>0, <1>3, <1>6, BoundUnapproved DEF PrepareRefused, PrepareCommand
<1>7. ASSUME NEW t \in Txn, PrepareBlocked(p, t) PROVE Bound'
  <2> DEFINE u == Unapproved(txn[t])
             r == [u EXCEPT !.state = "AWAITING_METADATA_REVIEW"]
  <2>1. txn[t].state \in PreApply /\ txn' = [txn EXCEPT ![t] = r] /\ UNCHANGED proc
    BY <1>7 DEF PrepareBlocked, PrepareCommand
  <2>2. u \in Record /\ u.verified = None BY <1>0, <2>1, BoundUnapproved, RecReopened
  <2>3. r.verified = None /\ r.state = "AWAITING_METADATA_REVIEW"
    <3> HIDE DEF u
    <3> QED BY <2>2 DEF Record
  <2> HIDE DEF r
  <2> QED BY <1>3, <2>1, <2>3, BoundUnverified DEF Approved
<1>8. ASSUME NEW t \in Txn, Prepare(p, t) PROVE Bound'
  <2> DEFINE c == ChangedSources(t, txn[t]) \cup ChangedDocs(t, txn[t])
             pkg == [work |-> Regenerated(t, txn[t]), audit |-> audit[t]]
             u == Unapproved(txn[t])
             r == [u EXCEPT !.state = "PREPARED", !.changed = c, !.prepared = pkg]
  <2>1. txn[t].state \in PreApply /\ txn' = [txn EXCEPT ![t] = r] /\ UNCHANGED proc
    BY <1>8 DEF Prepare, PrepareCommand
  <2>2. u \in Record /\ u.verified = None BY <1>0, <2>1, BoundUnapproved, RecReopened
  <2>3. r.verified = None /\ r.state = "PREPARED"
    <3> HIDE DEF u, c, pkg
    <3> QED BY <2>2 DEF Record
  <2> HIDE DEF r
  <2> QED BY <1>3, <2>1, <2>3, BoundUnverified DEF Approved
<1>9. ASSUME NEW t \in Txn, MetadataCheck(p, t) PROVE Bound'
  <2> DEFINE pkg == WorkPackage(t)
             r == [txn[t] EXCEPT !.checked = pkg]
  <2>1. /\ AuditValid(t, txn[t]) /\ txn[t].prepared = pkg
        /\ txn' = [txn EXCEPT ![t] = r] /\ UNCHANGED proc
    BY <1>9 DEF MetadataCheck
  <2>2. /\ r.checked = pkg /\ r.prepared = txn[t].prepared /\ r.verified = txn[t].verified
        /\ r.state = txn[t].state /\ r.sources = txn[t].sources /\ r.copy = txn[t].copy
    <3> HIDE DEF pkg
    <3> QED BY <1>0 DEF Record
  <2>3. ReviewedFor(r, pkg)
    <3> HIDE DEF r
    <3>1. AuditValid(t, r) BY <2>1, <2>2 DEF AuditValid, ChangedSources
    <3> QED BY <2>2, <3>1, AuditReviews
  <2>4. RecBound(r)
    <3> HIDE DEF r
    <3> QED BY <1>0, <2>1, <2>2, <2>3 DEF RecBound
  <2> HIDE DEF r
  <2> QED BY <1>3, <2>1, <2>4
<1>10. ASSUME NEW t \in Txn, RetireOrphan(p, t) PROVE Bound'
  <2>1. "ABORTED_ORPHANED_CHECKOUT" \in State \ (Open \cup Approved)
    BY DEF State, Ended, Open, Approved
  <2>2. RecBound([txn[t] EXCEPT !.state = "ABORTED_ORPHANED_CHECKOUT"]) BY <1>0, <2>1, BoundState
  <2> QED BY <1>3, <1>10, <2>2 DEF RetireOrphan
(* The commands that load a record and go on.                              *)
<1>11. ASSUME NEW t \in Txn, NEW r, RecBound(r), NEW c \in Checked,
              c = "verify" => ReviewedFor(r, r.prepared),
              c \in Applying => r.verified # None,
              proc'[p].pc = c, proc'[p].mem = r,
              \A q \in Proc \ {p} : proc'[q] = proc[q], UNCHANGED txn
       PROVE  Bound'
  <2>1. ProcBound(p)' BY <1>11 DEF ProcBound, Checked
  <2> QED BY <1>11, <2>1, BoundFrame
<1>12. ASSUME NEW t \in Txn, VerifyCheck(p, t) PROVE Bound'
  <2>1. /\ proc'[p].pc = "verify" /\ proc'[p].mem = txn[t]
        /\ \A q \in Proc \ {p} : proc'[q] = proc[q]
    BY <1>0, <1>12 DEF VerifyCheck, Procs, Process
  <2>2. ReviewedFor(txn[t], txn[t].prepared) BY <1>12, CheckReviews DEF VerifyCheck
  <2> QED BY <1>0, <1>11, <1>12, <2>1, <2>2
          DEF VerifyCheck, Checked, Loaded, Pc, Applying, AfterBackup
<1>13. ASSUME NEW t \in Txn, ApplyCheck(p, t) \/ RecoverTarget(p, t) PROVE Bound'
  <2>1. txn[t].state \in Approved /\ UNCHANGED txn
    BY <1>13 DEF ApplyCheck, RecoverTarget, RecoverCommand, Approved
  <2>2. /\ proc'[p].pc \in {"backup", "write_seal"} /\ proc'[p].mem = txn[t]
        /\ \A q \in Proc \ {p} : proc'[q] = proc[q]
    BY <1>0, <1>13 DEF ApplyCheck, RecoverTarget, Procs, Process
  <2> QED BY <1>0, <1>11, <2>1, <2>2 DEF RecBound, Checked, Loaded, Pc
<1>14. ASSUME NEW t \in Txn, RecoverReceipt(p, t) PROVE Bound'
  <2>1. /\ proc'[p].pc = "finish" /\ proc'[p].mem = txn[t]
        /\ \A q \in Proc \ {p} : proc'[q] = proc[q]
    BY <1>0, <1>14 DEF RecoverReceipt, Procs, Process
  <2> QED BY <1>0, <1>11, <1>14, <2>1
          DEF RecoverReceipt, Checked, Loaded, Pc, Applying, AfterBackup
<1>15. ASSUME NEW t \in Txn,
              Abort(p, t) \/ StaleAbort(p, t) \/ AuthorityCheck(p, t) \/ RecoverBaseline(p, t)
       PROVE  Bound'
  <2>1. UNCHANGED txn BY <1>15 DEF Abort, StaleAbort, AuthorityCheck, RecoverBaseline
  <2>2. PICK c \in {"save_end", "authority"}, e \in Ended :
          proc' = [proc EXCEPT ![p].pc = c, ![p].t = t, ![p].mem = [txn[t] EXCEPT !.state = e]]
    BY <1>15 DEF Abort, StaleAbort, AuthorityCheck, RecoverBaseline, Ended
  <2> DEFINE r == [txn[t] EXCEPT !.state = e]
  <2>3. c \in Checked \ (Applying \cup {"verify"})
    BY DEF Checked, Loaded, Pc, AfterBackup, Applying
  <2>4. RecBound(r)
    <3>1. e \in State \ (Open \cup Approved) BY DEF State, Ended, Open, Approved
    <3> QED BY <1>0, <3>1, BoundState
  <2>5. /\ proc'[p].pc = c /\ proc'[p].mem = r
        /\ \A q \in Proc \ {p} : proc'[q] = proc[q]
    <3>1. proc' = [proc EXCEPT ![p].pc = c, ![p].t = t, ![p].mem = r] BY <2>2
    <3> HIDE DEF r
    <3> QED BY <1>0, <3>1 DEF Procs, Process
  <2> HIDE DEF r
  <2> QED BY <1>11, <2>1, <2>3, <2>4, <2>5
<1> QED
  BY <1>1, <1>2, <1>4, <1>5, <1>6, <1>7, <1>8, <1>9, <1>10, <1>12, <1>13, <1>14, <1>15 DEF Commands

LEMMA StepBound ==
    ASSUME TypeOK, Bound, Backed, NEW p \in Proc, Step(p) \/ Failure(p) PROVE Bound'
<1> USE DEF corpus, author, bounds
<1> DEFINE t == proc[p].t
           m == proc[p].mem
<1>0. /\ proc \in Procs /\ txn \in Txns /\ m \in Record /\ RecBound(m) /\ ProcBound(p)
      /\ \A u \in Txn : txn[u] \in Record /\ RecBound(txn[u])
      /\ proc[p].pc \in Loaded => t \in Txn
  BY DEF TypeOK, Procs, Process, Txns, Bound, ProcBound, Backed, ProcBacked
<1>q. ASSUME Quit(p), \A u \in Txn : txn'[u] = txn[u] \/ RecBound(txn'[u]) PROVE Bound'
  <2>1. /\ proc'[p].pc = "idle" /\ proc'[p].mem = NoRecord
        /\ \A q \in Proc \ {p} : proc'[q] = proc[q]
    BY <1>0, <1>q DEF Quit, Idle, Procs
  <2>2. RecBound(NoRecord) BY BoundUnverified DEF NoRecord, Approved
  <2>3. ProcBound(p)' BY <2>1, <2>2 DEF ProcBound, Applying, AfterBackup
  <2> QED BY <1>q, <2>1, <2>3, BoundFrame
<1>s. ASSUME NEW r, RecBound(r), txn' = [txn EXCEPT ![t] = r] \/ txn' = txn
      PROVE  \A u \in Txn : txn'[u] = txn[u] \/ RecBound(txn'[u])
  BY <1>0, <1>s DEF Txns
(* The process goes on with a record that is bound.                        *)
<1>c. ASSUME NEW c \in Checked \ {"verify"}, proc'[p].pc = c, RecBound(proc'[p].mem),
             c \in Applying => proc'[p].mem.verified # None,
             \A q \in Proc \ {p} : proc'[q] = proc[q],
             \A u \in Txn : txn'[u] = txn[u] \/ RecBound(txn'[u])
      PROVE  Bound'
  BY <1>c, BoundFrame DEF ProcBound, Checked
<1> HIDE DEF t, m
<1>1. CASE SealWrite(p) \/ Unlease(p) \/ ReleaseFinished(p) \/ Crash(p)
  BY <1>1, <1>q DEF SealWrite, Unlease, ReleaseFinished, Crash
<1>2. CASE Acquire(p)
  <2>1. CASE Quit(p) BY <1>2, <1>q, <2>1 DEF Acquire
  <2>2. CASE proc' = [proc EXCEPT ![p].pc = "materialise"]
    <3>1. /\ proc'[p].pc = "materialise" /\ proc'[p].mem = m /\ proc[p].pc = "acquire"
          /\ \A q \in Proc \ {p} : proc'[q] = proc[q]
      BY <1>0, <1>2, <2>2 DEF Acquire, At, Procs, Process, m
    <3>2. ProcBound(p)' BY <1>0, <3>1 DEF ProcBound, Applying, AfterBackup, m
    <3> QED BY <1>2, <3>1, <3>2, BoundFrame DEF Acquire
  <2> QED BY <1>2, <2>1, <2>2 DEF Acquire
<1>3. ASSUME At(p, "materialise"), CopyAndSave(p), Quit(p) PROVE Bound'
  <2> DEFINE r == [m EXCEPT !.copy = live]
  <2>1. m.state = "CHECKED_OUT" /\ m.verified = None
    BY <1>0, <1>3 DEF ProcBound, RecBound, At, Open, m
  <2>2. r.state = "CHECKED_OUT" /\ r.verified = None BY <1>0, <2>1 DEF Record
  <2>3. txn' = [txn EXCEPT ![t] = r] BY <1>3 DEF CopyAndSave, t, m
  <2> HIDE DEF r
  <2> QED BY <1>3, <1>q, <1>s, <2>2, <2>3, BoundUnverified DEF Approved
<1>4. CASE Materialise(p) BY <1>3, <1>4 DEF Materialise
<1>5. CASE CheckoutFails(p)
  <2>1. CASE CopyAndSave(p) BY <1>3, <1>5, <2>1 DEF CheckoutFails
  <2>2. CASE ~CopyAndSave(p) BY <1>5, <1>q, <2>2 DEF CheckoutFails
  <2> QED BY <2>1, <2>2
<1>6. CASE VerifySave(p)
  <2> DEFINE pkg == WorkPackage(t)
             r == [m EXCEPT !.state = "SHADOW_VERIFIED", !.verified = pkg]
  <2>1. /\ Quit(p) /\ ((m.prepared = pkg /\ txn' = [txn EXCEPT ![t] = r]) \/ txn' = txn)
        /\ ReviewedFor(m, m.prepared)
    BY <1>0, <1>6 DEF VerifySave, At, ProcBound, t, m
  <2>2. pkg \in Package
    <3>1. t \in Txn BY <1>0, <1>6 DEF VerifySave, At, Loaded, Pc
    <3> QED BY <3>1, PackageTyped
  <2>3. /\ r.state = "SHADOW_VERIFIED" /\ r.verified = pkg /\ r.prepared = m.prepared
        /\ r.sources = m.sources /\ r.copy = m.copy /\ r.checked = m.checked
    <3> HIDE DEF pkg
    <3> QED BY <1>0 DEF Record
  <2> HIDE DEF r, pkg
  <2>4. CASE m.prepared = pkg
    <3>1. RecBound(r) BY <2>1, <2>2, <2>3, <2>4, NoneIsNoPackage DEF RecBound, ReviewedFor, Open
    <3> QED BY <1>q, <1>s, <2>1, <3>1
  <2>5. CASE m.prepared # pkg BY <1>q, <2>1, <2>5
  <2> QED BY <2>4, <2>5
<1>7. CASE AuthoritySave(p)
  <2>1. Quit(p) /\ (txn' = [txn EXCEPT ![t] = m] \/ txn' = txn) BY <1>7 DEF AuthoritySave, t, m
  <2> QED BY <1>0, <1>q, <1>s, <2>1
(* Between backup and the last save the record keeps its approvals.        *)
<1>8. CASE \/ Backup(p) \/ WriteFile(p) \/ WriteFails(p) \/ Heartbeat(p) \/ HeartbeatFails(p)
           \/ Postcheck(p) \/ SealingFails(p) \/ RollbackFile(p) \/ RollbackDone(p)
           \/ RevokeFails(p)
  <2>1. proc[p].pc \in Applying /\ UNCHANGED txn
    BY <1>8 DEF Backup, WriteFile, WriteFails, Heartbeat, HeartbeatFails, Postcheck, SealingFails,
                RollbackFile, RollbackDone, RevokeFails, At, Applying, AfterBackup
  <2>2. PICK c \in AfterBackup :
          /\ proc'[p].pc = c /\ proc'[p].mem = m
          /\ \A q \in Proc \ {p} : proc'[q] = proc[q]
    <3>0. CASE Backup(p) BY <1>0, <3>0 DEF Backup, AfterBackup, Procs, Process, m
    <3>1. CASE WriteFile(p) BY <1>0, <3>1 DEF WriteFile, AfterBackup, Procs, Process, m
    <3>2. CASE WriteFails(p) \/ Heartbeat(p) \/ HeartbeatFails(p)
      BY <1>0, <3>2 DEF WriteFails, Heartbeat, HeartbeatFails, AfterBackup, Procs, Process, m
    <3>3. CASE Postcheck(p) \/ SealingFails(p)
      BY <1>0, <3>3 DEF Postcheck, SealingFails, AfterBackup, Procs, Process, m
    <3>4. CASE RollbackFile(p)
      BY <1>0, <3>4 DEF RollbackFile, At, AfterBackup, Procs, Process, m
    <3>5. CASE RollbackDone(p) \/ RevokeFails(p)
      BY <1>0, <3>5 DEF RollbackDone, RevokeFails, AfterBackup, Procs, Process, m
    <3> QED BY <1>8, <3>0, <3>1, <3>2, <3>3, <3>4, <3>5
  <2>3. c \in Checked \ {"verify"} BY DEF AfterBackup, Checked, Loaded, Pc
  <2> QED BY <1>0, <1>c, <2>1, <2>2, <2>3 DEF ProcBound, m
<1>9. CASE ApplyStart(p) \/ SavePostcheck(p) \/ SaveEnd(p)
  <2>1. PICK c \in {"write", "finish", "unlease"} :
          /\ proc'[p].pc = c /\ proc'[p].mem = m
          /\ c \in Applying => proc[p].pc \in Applying
          /\ \A q \in Proc \ {p} : proc'[q] = proc[q]
    BY <1>0, <1>9 DEF ApplyStart, SavePostcheck, SaveEnd, At, Applying, AfterBackup, Procs, Process, m
  <2>2. c \in Checked \ {"verify"} /\ txn' = [txn EXCEPT ![t] = m]
    BY <1>9 DEF ApplyStart, SavePostcheck, SaveEnd, Checked, Loaded, Pc, t, m
  <2> QED BY <1>0, <1>c, <1>s, <2>1, <2>2 DEF ProcBound, m
(* Setting the state of a verified record.                                 *)
<1>a. ASSUME NEW e \in State \ Open, proc[p].pc \in Applying
      PROVE  RecBound([m EXCEPT !.state = e]) /\ [m EXCEPT !.state = e].verified # None
  BY <1>0, <1>a, BoundState DEF ProcBound, Record, m
<1>10. CASE IssuePermit(p)
  <2> DEFINE q == [m EXCEPT !.state = "APPLYING"]
             r == [q EXCEPT !.permit = TRUE]
  <2>1. UNCHANGED txn /\ proc[p].pc \in Applying
    BY <1>10 DEF IssuePermit, At, Applying, AfterBackup
  <2>2. CASE Quit(p) BY <1>q, <2>1, <2>2
  <2>3. CASE proc' = [proc EXCEPT ![p].pc = "start", ![p].mem.state = "APPLYING", ![p].mem.permit = TRUE]
    <3>1. proc'[p].pc = "start" /\ \A o \in Proc \ {p} : proc'[o] = proc[o]
      BY <1>0, <2>3 DEF Procs, Process
    <3>2. proc'[p].mem = r BY <1>0, <2>3 DEF Procs, Process, m
    <3>3. q \in Record /\ RecBound(q) /\ q.verified # None
      <4>1. "APPLYING" \in State \ Open BY DEF State, Open
      <4> QED BY <1>0, <1>a, <2>1, <4>1, RecState
    <3>4. RecBound(r) /\ r.verified # None
      <4> HIDE DEF q
      <4>1. /\ r.state = q.state /\ r.verified = q.verified /\ r.prepared = q.prepared
            /\ r.sources = q.sources /\ r.copy = q.copy /\ r.checked = q.checked
        BY <3>3 DEF Record
      <4> HIDE DEF r
      <4> QED BY <3>3, <4>1 DEF RecBound, ReviewedFor
    <3> HIDE DEF r
    <3> QED BY <1>c, <2>1, <3>1, <3>2, <3>4 DEF Checked, Loaded, Pc
  <2> QED BY <1>10, <2>2, <2>3 DEF IssuePermit
<1>11. CASE WriteSeal(p)
  <2> DEFINE q == [m EXCEPT !.state = "POSTCHECK_VERIFIED"]
             r == [q EXCEPT !.post = proc[p].pkg]
  <2>1. UNCHANGED txn /\ proc[p].pc \in Applying
    BY <1>11 DEF WriteSeal, At, Applying, AfterBackup
  <2>2. proc'[p].pc = "save_post" /\ \A o \in Proc \ {p} : proc'[o] = proc[o]
    BY <1>0, <1>11 DEF WriteSeal, Procs, Process
  <2>3. proc'[p].mem = r BY <1>0, <1>11 DEF WriteSeal, Procs, Process, m
  <2>4. q \in Record /\ RecBound(q) /\ q.verified # None
    <3>1. "POSTCHECK_VERIFIED" \in State \ Open BY DEF State, Open
    <3> QED BY <1>0, <1>a, <2>1, <3>1, RecState
  <2>5. RecBound(r) /\ r.verified # None
    <3> HIDE DEF q
    <3>1. /\ r.state = q.state /\ r.verified = q.verified /\ r.prepared = q.prepared
          /\ r.sources = q.sources /\ r.copy = q.copy /\ r.checked = q.checked
      BY <2>4 DEF Record
    <3> HIDE DEF r
    <3> QED BY <2>4, <3>1 DEF RecBound, ReviewedFor
  <2> HIDE DEF r
  <2> QED BY <1>c, <2>1, <2>2, <2>3, <2>5 DEF Checked, Loaded, Pc
<1>12. CASE Revoke(p)
  <2> DEFINE r == [m EXCEPT !.state = "ROLLED_BACK"]
  <2>1. UNCHANGED txn /\ proc[p].pc \in Applying
    BY <1>12 DEF Revoke, At, Applying, AfterBackup
  <2>2. /\ proc'[p].pc = "save_end" /\ proc'[p].mem = r
        /\ \A o \in Proc \ {p} : proc'[o] = proc[o]
    BY <1>0, <1>12 DEF Revoke, Procs, Process, m
  <2>3. RecBound(r)
    <3>1. "ROLLED_BACK" \in State \ Open BY DEF State, Ended, Open
    <3> QED BY <1>a, <2>1, <3>1
  <2> HIDE DEF r
  <2> QED BY <1>c, <2>1, <2>2, <2>3 DEF Checked, Loaded, Pc, Applying, AfterBackup
<1>13. CASE SaveRecoveryRequired(p)
  <2> DEFINE r == [m EXCEPT !.state = "RECOVERY_REQUIRED"]
  <2>1. Quit(p) /\ txn' = [txn EXCEPT ![t] = r] /\ proc[p].pc \in Applying
    BY <1>13 DEF SaveRecoveryRequired, At, Applying, AfterBackup, t, m
  <2>2. RecBound(r)
    <3>1. "RECOVERY_REQUIRED" \in State \ Open BY DEF State, Open
    <3> QED BY <1>a, <2>1, <3>1
  <2> HIDE DEF r
  <2> QED BY <1>q, <1>s, <2>1, <2>2
<1>14. CASE FinishCheck(p)
  <2> DEFINE i == IF txn[t].receipt = "none" THEN "PENDING" ELSE txn[t].receipt
             s == [txn[t] EXCEPT !.receipt = i]
  <2>1. t \in Txn BY <1>0, <1>14 DEF FinishCheck, At, Loaded, Pc
  <2>2. RecBound(s)
    <3>1. i \in {"none", "PENDING", "COMMITTED"} BY <1>0, <2>1 DEF Record
    <3> HIDE DEF i
    <3> QED BY <1>0, <2>1, <3>1, BoundReceipt
  <2>3. \/ Quit(p) /\ UNCHANGED txn
        \/ txn' = [txn EXCEPT ![t] = s] /\ proc' = [proc EXCEPT ![p].pc = "receipt", ![p].mem = s]
    <3>1. s = [txn[t] EXCEPT !.receipt = IF @ = "none" THEN "PENDING" ELSE @] OBVIOUS
    <3> QED BY <1>14, <3>1 DEF FinishCheck, t
  <2> HIDE DEF s
  <2>4. CASE Quit(p) /\ UNCHANGED txn BY <1>q, <2>4
  <2>5. CASE txn' = [txn EXCEPT ![t] = s] /\ proc' = [proc EXCEPT ![p].pc = "receipt", ![p].mem = s]
    <3>1. /\ proc'[p].pc = "receipt" /\ proc'[p].mem = s
          /\ \A o \in Proc \ {p} : proc'[o] = proc[o]
      BY <1>0, <2>5 DEF Procs, Process
    <3> QED BY <1>c, <1>s, <2>2, <2>5, <3>1 DEF Checked, Loaded, Pc, Applying, AfterBackup
  <2> QED BY <2>3, <2>4, <2>5
<1>15. CASE WriteReceipt(p)
  <2>1. UNCHANGED txn BY <1>15 DEF WriteReceipt
  <2>2. CASE Quit(p) BY <1>q, <2>1, <2>2
  <2>3. CASE proc' = [proc EXCEPT ![p].pc = "commit"]
    <3>1. /\ proc'[p].pc = "commit" /\ proc'[p].mem = m
          /\ \A o \in Proc \ {p} : proc'[o] = proc[o]
      BY <1>0, <2>3 DEF Procs, Process, m
    <3> QED BY <1>0, <1>c, <2>1, <3>1 DEF Checked, Loaded, Pc, Applying, AfterBackup
  <2> QED BY <1>15, <2>2, <2>3 DEF WriteReceipt
<1>16. CASE CommitReceipt(p)
  <2> DEFINE r == [m EXCEPT !.receipt = "COMMITTED"]
  <2>1. txn' = [txn EXCEPT ![t] = r] /\ proc' = [proc EXCEPT ![p].pc = "release"]
    BY <1>16 DEF CommitReceipt, t, m
  <2>2. RecBound(r) BY <1>0, BoundReceipt
  <2> HIDE DEF r
  <2>3. /\ proc'[p].pc = "release" /\ proc'[p].mem = m
        /\ \A o \in Proc \ {p} : proc'[o] = proc[o]
    BY <1>0, <2>1 DEF Procs, Process, m
  <2> QED BY <1>0, <1>c, <1>s, <2>1, <2>2, <2>3 DEF Checked, Loaded, Pc, Applying, AfterBackup
<1> QED
  BY <1>1, <1>2, <1>4, <1>5, <1>6, <1>7, <1>8, <1>9, <1>10, <1>11, <1>12, <1>13, <1>14, <1>15,
     <1>16 DEF Step, Failure

LEMMA NextBound == TypeOK /\ Backed /\ Bound /\ [Next]_vars => Bound'
<1> SUFFICES ASSUME TypeOK, Backed, Bound, [Next]_vars PROVE Bound' OBVIOUS
<1>1. CASE Environment
  <2>1. UNCHANGED <<txn, proc>>
    BY <1>1 DEF Environment, EditWork, CompleteAudit, OperatorCopies, ExpirePermit, Drift,
                WorkspaceHeartbeat, corpus, author, bounds
  <2> QED BY <2>1 DEF Bound, ProcBound
<1>2. ASSUME NEW p \in Proc, Commands(p) PROVE Bound' BY <1>2, CommandsBound
<1>3. ASSUME NEW p \in Proc, Step(p) \/ Failure(p) PROVE Bound' BY <1>3, StepBound
<1>4. CASE UNCHANGED vars BY <1>4 DEF vars, bounds, Bound, ProcBound
<1> QED BY <1>1, <1>2, <1>3, <1>4 DEF Next

LEMMA InitBound == Init => Bound
<1> SUFFICES ASSUME Init PROVE Bound OBVIOUS
<1>1. RecBound(NoRecord) BY BoundUnverified DEF NoRecord, Approved
<1>2. \A t \in Txn : txn[t] = NoRecord BY DEF Init
<1>3. \A p \in Proc : proc[p].pc = "idle" /\ proc[p].mem = NoRecord BY DEF Init, Idle
<1> QED BY <1>1, <1>2, <1>3 DEF Bound, ProcBound, Applying, AfterBackup

(* Whatever is edited, refreshed, included, killed or recovered, and       *)
(* however many commands run at once, a transaction that is verified,      *)
(* applying, in recovery or postchecked carries a verification of exactly  *)
(* the package metadata-check accepted with a completed audit of exactly   *)
(* its sources (_core_prepare.py, _core_metadata.py, _core_verify.py).     *)
THEOREM ApprovalsAlwaysBind == Spec => []ApprovalsBindReview
<1>1. Bound => ApprovalsBindReview BY DEF Bound, RecBound, ApprovalsBindReview
<1>2. TypeOK /\ Backed /\ Bound /\ [Next]_vars => (TypeOK /\ Backed /\ Bound)'
  BY NextTyped, NextBound
<1>3. Init => TypeOK /\ Backed /\ Bound BY InitTyped, InitBound
<1>4. Spec => [](TypeOK /\ Backed /\ Bound) BY <1>2, <1>3, PTL DEF Spec
<1> QED BY <1>1, <1>4, PTL
=============================================================================
