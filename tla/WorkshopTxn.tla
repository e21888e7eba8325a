---------------------------- MODULE WorkshopTxn ----------------------------
(***************************************************************************)
(* The life of an ordinary source transaction of the Runtime Sync Workshop *)
(* (workshop/src/runtime_sync_workshop): checkout, review, verification,   *)
(* apply with backup, rollback and heartbeat, recovery, terminal receipt.  *)
(*                                                                         *)
(* Every command is a short-lived process that reads files, works for      *)
(* seconds or minutes and writes files again.  What a process remembers is *)
(* in "proc" and dies with it; every other variable is a file or a SQLite  *)
(* row and survives.  A command is one action when nothing can come        *)
(* between its reads and its writes that its own checks do not see, and    *)
(* several actions, separated by its program counter, otherwise.           *)
(*                                                                         *)
(* Bytes are abstract.  A translation unit and its header are one          *)
(* "runtime" file; a blueprint is identified by the runtime bytes its      *)
(* ledger documents, so a corpus is verified when the files of every       *)
(* source agree; Torn stands for a partly written file.                    *)
(***************************************************************************)
EXTENDS Naturals, FiniteSets

CONSTANTS
    Txn,             \* transaction identities, each used by one checkout
    Source,          \* translation units of the corpus
    Doc,             \* managed context documents outside the source corpus
    Content,         \* the contents a file may properly have
    Proc,            \* operator processes running Workshop commands
    NoTxn, None,     \* "no transaction" and "no value"
    Torn,            \* the content of a file whose copy was cut short
    QuiescentAuthor, \* the author edits only between commands
    MaxEdits, MaxDrifts, MaxFaults   \* bounds of the environment

ASSUME ConstantsOK ==
    /\ NoTxn \notin Txn
    /\ Torn \notin Content /\ None \notin Content /\ Torn # None
    /\ Source \cap Doc = {}
    /\ QuiescentAuthor \in BOOLEAN
    /\ MaxEdits \in Nat /\ MaxDrifts \in Nat /\ MaxFaults \in Nat

Kind    == {"runtime", "blueprint", "managed"}
File    == (Source \X Kind) \cup Doc
Byte    == Content \cup {Torn}
Managed == Source \cup Doc           \* what KAIROS projects into SQLite
ManagedFile(m) == IF m \in Doc THEN m ELSE <<m, "managed">>

\* No context document is a file of the source corpus.
ASSUME DocsApart == Doc \cap (Source \X Kind) = {}

PreApply == {"CHECKED_OUT", "AWAITING_METADATA_REVIEW", "PREPARED", "SHADOW_VERIFIED"}
Ended    == {"ABORTED", "ABORTED_STALE_BASELINE", "ABORTED_ORPHANED_CHECKOUT", "ROLLED_BACK"}
State    == {"NONE", "APPLYING", "RECOVERY_REQUIRED", "POSTCHECK_VERIFIED"} \cup PreApply \cup Ended

Audit   == [of : [Source -> Byte], done : BOOLEAN] \cup {None}
Package == [work : [File -> Byte], audit : Audit]

ASSUME NoneIsNoPackage == None \notin Package
ASSUME NoneIsNoCopy == None \notin [File -> Byte]

(* state.json.  "pkg" is the hash of the baseline manifest, "copy" the     *)
(* baseline files; "prepared", "checked" and "verified" are the hashes of  *)
(* the work package that prepare, metadata-check and verify bound.         *)
Record == [state : State, sources : SUBSET Source, docs : SUBSET Doc,
           pkg : [Source -> Byte] \cup {None}, copy : [File -> Byte] \cup {None},
           changed : SUBSET Managed,
           prepared : Package \cup {None}, checked : Package \cup {None},
           verified : Package \cup {None},
           permit : BOOLEAN, post : [Source -> Byte] \cup {None},
           receipt : {"none", "PENDING", "COMMITTED"}]

NoRecord == [state |-> "NONE", sources |-> {}, docs |-> {}, pkg |-> None, copy |-> None,
             changed |-> {}, prepared |-> None, checked |-> None, verified |-> None,
             permit |-> FALSE, post |-> None, receipt |-> "none"]

VARIABLES
    live,      \* the live corpus and the managed documents
    db,        \* the SQLite projection of every managed document
    seal,      \* seal.json: the trusted package and the transaction that wrote it
    lease,     \* lease.json: the transaction that owns the global lease
    txn,       \* state.json of every transaction
    work,      \* its work directory
    audit,     \* its review/metadata_audit.json
    rollback,  \* its captured preimages, None before apply
    permit,    \* its external-edit permit in KAIROS
    receipt,   \* whether its immutable terminal receipt file exists
    proc,      \* what each operator process is doing and remembers
    edits, drifts, faults

corpus == <<live, db>>
author == <<work, audit>>
bounds == <<edits, drifts, faults>>
vars   == <<live, db, seal, lease, txn, work, audit, rollback, permit, receipt, proc, bounds>>

Pc == {"idle", "seal", "acquire", "materialise", "verify", "authority", "backup", "permit",
       "start", "write", "heartbeat", "postcheck", "write_seal", "save_post", "finish",
       "receipt", "commit", "release", "rollback", "revoke", "failed", "save_end", "unlease"}

Idle == [pc |-> "idle", t |-> NoTxn, mem |-> NoRecord, todo |-> {}, pkg |-> None, bad |-> FALSE]

Process == [pc : Pc, t : Txn \cup {NoTxn}, mem : Record, todo : SUBSET File,
            pkg : [Source -> Byte] \cup {None}, bad : BOOLEAN]

TypeOK ==
    /\ live \in [File -> Byte] /\ db \in [Managed -> Byte]
    /\ seal \in [pkg : [Source -> Byte] \cup {None}, t : Txn \cup {NoTxn}]
    /\ lease \in Txn \cup {NoTxn}
    /\ txn \in [Txn -> Record]
    /\ work \in [Txn -> [File -> Byte]] /\ audit \in [Txn -> Audit]
    /\ rollback \in [Txn -> [File -> Byte] \cup {None}]
    /\ permit \in [Txn -> {"none", "active", "spent", "expired", "revoked"}]
    /\ receipt \in [Txn -> BOOLEAN]
    /\ proc \in [Proc -> Process]
    /\ edits \in 0 .. MaxEdits /\ drifts \in 0 .. MaxDrifts /\ faults \in 0 .. MaxFaults

Init ==
    /\ \E c \in Content : live = [f \in File |-> c] /\ db = [m \in Managed |-> c]
    /\ work = [t \in Txn |-> live]       \* meaningless until checkout
    /\ seal = [pkg |-> None, t |-> NoTxn] /\ lease = NoTxn
    /\ txn = [t \in Txn |-> NoRecord]
    /\ audit = [t \in Txn |-> None]
    /\ rollback = [t \in Txn |-> None] /\ permit = [t \in Txn |-> "none"]
    /\ receipt = [t \in Txn |-> FALSE]
    /\ proc = [p \in Proc |-> Idle]
    /\ edits = 0 /\ drifts = 0 /\ faults = 0
-----------------------------------------------------------------------------
(* What the commands compute from the files.                               *)

Manifest == [s \in Source |-> live[<<s, "runtime">>]]

SourceSynced(s) ==
    LET c == live[<<s, "runtime">>] IN
    c \in Content /\ db[s] = c /\ \A k \in Kind : live[<<s, k>>] = c

CorpusVerified == \A s \in Source : SourceSynced(s)

DocProjected(d) == live[d] \in Content /\ db[d] = live[d]

\* The live corpus is still the sealed package the transaction started from.
AtBaseline(r) ==
    /\ CorpusVerified /\ Manifest = r.pkg
    /\ \A d \in r.docs : DocProjected(d) /\ live[d] = r.copy[d]

ScopeUntouched(r) ==
    /\ \A s \in r.sources, k \in Kind : live[<<s, k>>] = r.copy[<<s, k>>]
    /\ \A d \in r.docs : DocProjected(d) /\ live[d] = r.copy[d]

WorkPackage(t) == [work |-> work[t], audit |-> audit[t]]
Candidate(t)   == [s \in Source |-> work[t][<<s, "runtime">>]]

ChangedSources(t, r) == {s \in r.sources : work[t][<<s, "runtime">>] # r.copy[<<s, "runtime">>]}
ChangedDocs(t, r)    == {d \in r.docs : work[t][d] # r.copy[d]}

\* metadata_gate.validate: no source changed, or a completed audit of exactly this candidate.
AuditValid(t, r) ==
    ChangedSources(t, r) # {} =>
        audit[t] # None /\ audit[t].done /\ audit[t].of = Candidate(t)

MetadataChecked(t, r) ==
    AuditValid(t, r) /\ (ChangedSources(t, r) # {} => r.checked = WorkPackage(t))

Targets(c) == ((c \cap Source) \X Kind) \cup (c \cap Doc)

\* Mutant: a reopened transaction is saved under a state no command knows.
ReopenedUnnamed(r) ==
    [r EXCEPT !.state = "REOPENED", !.prepared = None, !.checked = None, !.verified = None]

Reopened(r) == [r EXCEPT !.state = "CHECKED_OUT", !.prepared = None, !.checked = None, !.verified = None]

\* The retention lock is held by a process that is finishing a terminal receipt.
LockFree(p) == \A q \in Proc \ {p} : proc[q].pc \notin {"receipt", "commit", "release"}

\* A command of an idle process on transaction t, which must own the lease.
Command(p, t) == proc[p].pc = "idle" /\ lease = t

At(p, pc) == proc[p].pc = pc

Quit(p) == proc' = [proc EXCEPT ![p] = Idle]

Fault == faults < MaxFaults /\ faults' = faults + 1
NoEnvironment == UNCHANGED bounds
-----------------------------------------------------------------------------
(* seal: refuse under a lease, build the manifest, mirror it, write the    *)
(* seal.  Nothing holds the lease or a lock between the two ends.          *)

SealCheck(p) ==
    /\ At(p, "idle") /\ lease = NoTxn /\ CorpusVerified
    /\ proc' = [proc EXCEPT ![p].pc = "seal", ![p].pkg = Manifest]
    /\ UNCHANGED <<corpus, seal, lease, txn, author, rollback, permit, receipt, bounds>>

SealWrite(p) ==
    /\ At(p, "seal")
    /\ seal' = [pkg |-> proc[p].pkg, t |-> NoTxn]
    /\ Quit(p)
    /\ UNCHANGED <<corpus, lease, txn, author, rollback, permit, receipt, bounds>>

(* checkout: the manifest is taken before the lease, the files after it.   *)

Checkout(p, t, S, D) ==
    /\ At(p, "idle") /\ S # {}
    /\ txn[t].state = "NONE" /\ \A q \in Proc : proc[q].t # t
    /\ seal.pkg # None /\ CorpusVerified /\ seal.pkg = Manifest
    /\ proc' = [proc EXCEPT ![p].pc = "acquire", ![p].t = t,
                  ![p].mem = [NoRecord EXCEPT !.state = "CHECKED_OUT", !.sources = S,
                                              !.docs = D, !.pkg = Manifest]]
    /\ UNCHANGED <<corpus, seal, lease, txn, author, rollback, permit, receipt, bounds>>

\* Mutant: the lease file is opened without O_EXCL.
AcquireShared(p) ==
    /\ At(p, "acquire") /\ LockFree(p)
    /\ lease' = proc[p].t /\ proc' = [proc EXCEPT ![p].pc = "materialise"]
    /\ UNCHANGED <<corpus, seal, txn, author, rollback, permit, receipt, bounds>>

Acquire(p) ==
    /\ At(p, "acquire") /\ LockFree(p)
    /\ IF lease = NoTxn
       THEN lease' = proc[p].t /\ proc' = [proc EXCEPT ![p].pc = "materialise"]
       ELSE Quit(p) /\ UNCHANGED lease
    /\ UNCHANGED <<corpus, seal, txn, author, rollback, permit, receipt, bounds>>

\* Copy baseline and work from the live files and save state.json.
CopyAndSave(p) ==
    LET t == proc[p].t IN
    /\ LockFree(p) /\ \A d \in proc[p].mem.docs : DocProjected(d)
    /\ txn' = [txn EXCEPT ![t] = [proc[p].mem EXCEPT !.copy = live]]
    /\ work' = [work EXCEPT ![t] = live]

Materialise(p) ==
    /\ At(p, "materialise") /\ CopyAndSave(p)
    /\ Quit(p)
    /\ UNCHANGED <<corpus, seal, lease, audit, rollback, permit, receipt, bounds>>

\* A document that does not match its projection, or an I/O error before or after the
\* save replaced state.json: release the lease and raise.
CheckoutFails(p) ==
    /\ At(p, "materialise")
    /\ \/ (\E d \in proc[p].mem.docs : ~DocProjected(d)) /\ UNCHANGED <<txn, work, bounds>>
       \/ Fault /\ UNCHANGED <<txn, work, edits, drifts>>
       \/ Fault /\ CopyAndSave(p) /\ UNCHANGED <<edits, drifts>>
    /\ lease' = IF lease = proc[p].t THEN NoTxn ELSE lease
    /\ Quit(p)
    /\ UNCHANGED <<corpus, seal, audit, rollback, permit, receipt>>

-----------------------------------------------------------------------------
(* Commands before apply.  Each loads state.json, requires the lease and   *)
(* the unchanged baseline, and saves.                                      *)

IncludeDocuments(p, t, D) ==
    LET r == txn[t] IN
    /\ Command(p, t) /\ LockFree(p) /\ r.state \in PreApply /\ AtBaseline(r)
    /\ D # {} /\ D \cap r.docs = {} /\ \A d \in D : DocProjected(d)
    /\ txn' = [txn EXCEPT ![t] = [Reopened(r) EXCEPT
                 !.docs = @ \cup D,
                 !.copy = [f \in File |-> IF f \in D THEN live[f] ELSE @[f]]]]
    /\ work' = [work EXCEPT ![t] = [f \in File |-> IF f \in D THEN live[f] ELSE @[f]]]
    /\ UNCHANGED <<corpus, seal, lease, audit, rollback, permit, receipt, proc, bounds>>

\* metadata-plan --refresh: draft an unanswered audit of the candidate as it is now.
MetadataPlan(p, t) ==
    LET r == txn[t] IN
    /\ Command(p, t) /\ LockFree(p) /\ r.state \in PreApply /\ AtBaseline(r)
    /\ audit' = [audit EXCEPT ![t] = [of |-> Candidate(t), done |-> FALSE]]
    /\ txn' = [txn EXCEPT ![t] = Reopened(r)]
    /\ UNCHANGED <<corpus, seal, lease, work, rollback, permit, receipt, proc, bounds>>

(* prepare first drops every earlier approval, whatever comes after.       *)
Unapproved(r) ==
    IF r.state \in {"PREPARED", "SHADOW_VERIFIED"} \/ r.checked # None THEN Reopened(r) ELSE r

PrepareCommand(p, t) == Command(p, t) /\ LockFree(p) /\ txn[t].state \in PreApply

\* The baseline drifted, or nothing changed.
PrepareRefused(p, t) ==
    LET r == txn[t] IN
    /\ PrepareCommand(p, t)
    /\ ~AtBaseline(r) \/ ChangedSources(t, r) \cup ChangedDocs(t, r) = {}
    /\ txn' = [txn EXCEPT ![t] = Unapproved(r)]
    /\ UNCHANGED <<corpus, seal, lease, author, rollback, permit, receipt, proc, bounds>>

\* A review of a changed source or of a selected document is missing or incomplete.
PrepareBlocked(p, t) ==
    LET r == txn[t] IN
    /\ PrepareCommand(p, t) /\ AtBaseline(r)
    /\ ChangedSources(t, r) # {} \/ r.docs # {}
    /\ txn' = [txn EXCEPT ![t] = [Unapproved(r) EXCEPT !.state = "AWAITING_METADATA_REVIEW"]]
    /\ UNCHANGED <<corpus, seal, lease, author, rollback, permit, receipt, proc, bounds>>

\* Regenerate the blueprint pair of every changed source and bind the package.
Regenerated(t, r) ==
    [f \in File |-> IF f \in ChangedSources(t, r) \X {"blueprint", "managed"}
                    THEN work[t][<<f[1], "runtime">>] ELSE work[t][f]]

Prepare(p, t) ==
    LET r == txn[t]
        w == Regenerated(t, r)
        c == ChangedSources(t, r) \cup ChangedDocs(t, r)
    IN
    /\ PrepareCommand(p, t) /\ AtBaseline(r) /\ c # {} /\ AuditValid(t, r)
    /\ work' = [work EXCEPT ![t] = w]
    /\ txn' = [txn EXCEPT ![t] = [Unapproved(r) EXCEPT
                 !.state = "PREPARED", !.changed = c,
                 !.prepared = [work |-> w, audit |-> audit[t]]]]
    /\ UNCHANGED <<corpus, seal, lease, audit, rollback, permit, receipt, proc, bounds>>

MetadataCheck(p, t) ==
    LET r == txn[t] IN
    /\ Command(p, t) /\ LockFree(p) /\ r.state \in {"PREPARED", "SHADOW_VERIFIED"}
    /\ AtBaseline(r) /\ r.prepared = WorkPackage(t) /\ AuditValid(t, r)
    /\ txn' = [txn EXCEPT ![t].checked = WorkPackage(t)]
    /\ UNCHANGED <<corpus, seal, lease, author, rollback, permit, receipt, proc, bounds>>

(* verify: check, run the isolated shadow (minutes), hash again, save.     *)

WorkSynced(t, c) ==
    \A s \in c \cap Source, k \in Kind : work[t][<<s, k>>] = work[t][<<s, "runtime">>]

VerifyCheck(p, t) ==
    LET r == txn[t] IN
    /\ Command(p, t) /\ r.state \in {"PREPARED", "SHADOW_VERIFIED"} /\ AtBaseline(r)
    /\ r.prepared = WorkPackage(t) /\ MetadataChecked(t, r) /\ WorkSynced(t, r.changed)
    /\ proc' = [proc EXCEPT ![p].pc = "verify", ![p].t = t, ![p].mem = r]
    /\ UNCHANGED <<corpus, seal, lease, txn, author, rollback, permit, receipt, bounds>>

\* Mutant: the work is not hashed again after the shadow run.
VerifySaveUnhashed(p) ==
    LET t == proc[p].t IN
    /\ At(p, "verify") /\ LockFree(p)
    /\ txn' = [txn EXCEPT ![t] = [proc[p].mem EXCEPT !.state = "SHADOW_VERIFIED",
                                                     !.verified = WorkPackage(t)]]
    /\ Quit(p)
    /\ UNCHANGED <<corpus, seal, lease, author, rollback, permit, receipt, bounds>>

VerifySave(p) ==
    LET t == proc[p].t
        r == proc[p].mem
    IN
    /\ At(p, "verify") /\ LockFree(p)
    /\ IF WorkPackage(t) = r.prepared
       THEN txn' = [txn EXCEPT ![t] = [r EXCEPT !.state = "SHADOW_VERIFIED",
                                                !.verified = WorkPackage(t)]]
       ELSE UNCHANGED txn
    /\ Quit(p)
    /\ UNCHANGED <<corpus, seal, lease, author, rollback, permit, receipt, bounds>>

-----------------------------------------------------------------------------
(* Ending a transaction: the last save, then the release of the lease.     *)

\* Mutant: abort does not look at the state.
AbortAnyState(p, t) ==
    /\ Command(p, t) /\ AtBaseline(txn[t])
    /\ proc' = [proc EXCEPT ![p].pc = "save_end", ![p].t = t,
                            ![p].mem = [txn[t] EXCEPT !.state = "ABORTED"]]
    /\ UNCHANGED <<corpus, seal, lease, txn, author, rollback, permit, receipt, bounds>>

Abort(p, t) ==
    LET r == txn[t] IN
    /\ Command(p, t) /\ r.state \in PreApply /\ AtBaseline(r)
    /\ proc' = [proc EXCEPT ![p].pc = "save_end", ![p].t = t,
                            ![p].mem = [r EXCEPT !.state = "ABORTED"]]
    /\ UNCHANGED <<corpus, seal, lease, txn, author, rollback, permit, receipt, bounds>>

\* The corpus moved on outside the scope of the transaction.
StaleAbort(p, t) ==
    LET r == txn[t] IN
    /\ Command(p, t) /\ r.state \in PreApply
    /\ CorpusVerified /\ Manifest # r.pkg /\ ScopeUntouched(r)
    /\ proc' = [proc EXCEPT ![p].pc = "save_end", ![p].t = t,
                            ![p].mem = [r EXCEPT !.state = "ABORTED_STALE_BASELINE"]]
    /\ UNCHANGED <<corpus, seal, lease, txn, author, rollback, permit, receipt, bounds>>

SaveEnd(p) ==
    /\ At(p, "save_end") /\ LockFree(p)
    /\ txn' = [txn EXCEPT ![proc[p].t] = proc[p].mem]
    /\ proc' = [proc EXCEPT ![p].pc = "unlease"]
    /\ UNCHANGED <<corpus, seal, lease, author, rollback, permit, receipt, bounds>>

Unlease(p) ==
    /\ At(p, "unlease")
    /\ lease' = IF lease = proc[p].t THEN NoTxn ELSE lease
    /\ Quit(p)
    /\ UNCHANGED <<corpus, seal, txn, author, rollback, permit, receipt, bounds>>

\* authority-recover and tx-recycle-retire-orphan: a pre-apply transaction without a lease.
AuthorityCheck(p, t) ==
    LET r == txn[t] IN
    /\ At(p, "idle") /\ lease = NoTxn /\ r.state \in PreApply
    /\ CorpusVerified /\ seal.pkg # None /\ seal.pkg # Manifest
    /\ Manifest # r.pkg /\ ScopeUntouched(r)
    /\ proc' = [proc EXCEPT ![p].pc = "authority", ![p].t = t,
                            ![p].mem = [r EXCEPT !.state = "ABORTED_STALE_BASELINE"]]
    /\ UNCHANGED <<corpus, seal, lease, txn, author, rollback, permit, receipt, bounds>>

AuthoritySave(p) ==
    /\ At(p, "authority") /\ LockFree(p)
    /\ txn' = IF lease = NoTxn THEN [txn EXCEPT ![proc[p].t] = proc[p].mem] ELSE txn
    /\ Quit(p)
    /\ UNCHANGED <<corpus, seal, lease, author, rollback, permit, receipt, bounds>>

RetireOrphan(p, t) ==
    LET r == txn[t] IN
    /\ At(p, "idle") /\ LockFree(p) /\ lease = NoTxn /\ r.state \in PreApply
    /\ ~r.permit /\ rollback[t] = None
    /\ txn' = [txn EXCEPT ![t].state = "ABORTED_ORPHANED_CHECKOUT"]
    /\ UNCHANGED <<corpus, seal, lease, author, rollback, permit, receipt, proc, bounds>>

-----------------------------------------------------------------------------
(* apply, up to the first write of the live corpus.  An exception here, as *)
(* a crash, leaves the transaction SHADOW_VERIFIED and the lease owned.    *)

\* Mutant: apply trusts the recorded verification without hashing the work again.
ApplyUnchecked(p, t) ==
    /\ Command(p, t) /\ txn[t].state = "SHADOW_VERIFIED" /\ AtBaseline(txn[t])
    /\ proc' = [proc EXCEPT ![p].pc = "backup", ![p].t = t, ![p].mem = txn[t]]
    /\ UNCHANGED <<corpus, seal, lease, txn, author, rollback, permit, receipt, bounds>>

ApplyCheck(p, t) ==
    LET r == txn[t] IN
    /\ Command(p, t) /\ r.state = "SHADOW_VERIFIED" /\ AtBaseline(r)
    /\ r.verified = WorkPackage(t) /\ MetadataChecked(t, r)
    /\ proc' = [proc EXCEPT ![p].pc = "backup", ![p].t = t, ![p].mem = r]
    /\ UNCHANGED <<corpus, seal, lease, txn, author, rollback, permit, receipt, bounds>>

\* Mutant: the preimages are captured from the work directory.
BackupOfWork(p) ==
    /\ At(p, "backup")
    /\ rollback' = [rollback EXCEPT ![proc[p].t] = work[proc[p].t]]
    /\ proc' = [proc EXCEPT ![p].pc = "permit"]
    /\ UNCHANGED <<corpus, seal, lease, txn, author, permit, receipt, bounds>>

Backup(p) ==
    /\ At(p, "backup")
    /\ rollback' = [rollback EXCEPT ![proc[p].t] = live]
    /\ proc' = [proc EXCEPT ![p].pc = "permit"]
    /\ UNCHANGED <<corpus, seal, lease, txn, author, permit, receipt, bounds>>

\* KAIROS grants one active external-edit permit per managed path.
IssuePermit(p) ==
    LET t == proc[p].t
        covered == \E u \in Txn : permit[u] = "active" /\ txn[u].changed \cap proc[p].mem.changed # {}
    IN
    /\ At(p, "permit")
    /\ IF covered
       THEN Quit(p) /\ UNCHANGED permit
       ELSE /\ permit' = [permit EXCEPT ![t] = "active"]
            /\ proc' = [proc EXCEPT ![p].pc = "start",
                                    ![p].mem.state = "APPLYING", ![p].mem.permit = TRUE]
    /\ UNCHANGED <<corpus, seal, lease, txn, author, rollback, receipt, bounds>>

ApplyStart(p) ==
    /\ At(p, "start") /\ LockFree(p)
    /\ txn' = [txn EXCEPT ![proc[p].t] = proc[p].mem]
    /\ proc' = [proc EXCEPT ![p].pc = "write", ![p].todo = Targets(proc[p].mem.changed)]
    /\ UNCHANGED <<corpus, seal, lease, author, rollback, permit, receipt, bounds>>

(* Live files are copied from the work directory one by one: of a source   *)
(* the runtime file before the blueprint, then every managed blueprint,    *)
(* then the documents.                                                     *)

Before(f, g) ==
    \/ f \notin Doc /\ g \in Doc
    \/ f \notin Doc /\ g \notin Doc /\ f[2] # "managed" /\ g[2] = "managed"
    \/ f \notin Doc /\ g \notin Doc /\ f[1] = g[1] /\ f[2] = "runtime" /\ g[2] = "blueprint"

Writable(todo) == {g \in todo : \A f \in todo : ~Before(f, g)}

WriteFile(p) ==
    /\ At(p, "write")
    /\ \E f \in Writable(proc[p].todo) :
         /\ live' = [live EXCEPT ![f] = work[proc[p].t][f]]
         /\ proc' = [proc EXCEPT ![p].todo = @ \ {f},
                                 ![p].pc = IF proc[p].todo = {f} THEN "heartbeat" ELSE "write"]
    /\ UNCHANGED <<db, seal, lease, txn, author, rollback, permit, receipt, bounds>>

\* copy_exact raises before or after it truncated the destination.
WriteFails(p) ==
    /\ At(p, "write") /\ Fault
    /\ \E f \in Writable(proc[p].todo) : live' = live \/ live' = [live EXCEPT ![f] = Torn]
    /\ proc' = [proc EXCEPT ![p].pc = "rollback", ![p].todo = Targets(proc[p].mem.changed)]
    /\ UNCHANGED <<db, seal, lease, txn, author, rollback, permit, receipt, edits, drifts>>

-----------------------------------------------------------------------------
(* The KAIROS heartbeat: every managed document whose bytes differ from    *)
(* the projection must be covered by an active permit; the permit is       *)
(* consumed first, then the documents are promoted.                        *)

Unreconciled == {m \in Managed : live[ManagedFile(m)] # db[m]}

Attributed(t) == permit[t] = "active" /\ Unreconciled \subseteq txn[t].changed

Consumed(t) ==
    IF permit[t] = "active" /\ Unreconciled \cap txn[t].changed # {}
    THEN [permit EXCEPT ![t] = "spent"] ELSE permit

Promoted(ms) == [m \in Managed |-> IF m \in ms THEN live[ManagedFile(m)] ELSE db[m]]

Heartbeat(p) ==
    LET t == proc[p].t IN
    /\ At(p, "heartbeat") /\ (Unreconciled = {} \/ Attributed(t))
    /\ \A m \in Unreconciled : live[ManagedFile(m)] \in Content
    /\ permit' = Consumed(t)
    /\ db' = Promoted(Unreconciled)
    /\ proc' = [proc EXCEPT ![p].pc = "postcheck"]
    /\ UNCHANGED <<live, seal, lease, txn, author, rollback, receipt, bounds>>

\* Not attributed, or a document cannot be promoted: files stay, recovery is required.
HeartbeatFails(p) ==
    LET t == proc[p].t IN
    /\ At(p, "heartbeat")
    /\ permit' = Consumed(t)
    /\ \/ Unreconciled # {} /\ ~Attributed(t) /\ UNCHANGED <<db, bounds>>
       \/ /\ Unreconciled # {} /\ Attributed(t)
          /\ \E ms \in SUBSET Unreconciled :
               /\ \A m \in ms : live[ManagedFile(m)] \in Content
               /\ db' = Promoted(ms)
          /\ \/ UNCHANGED bounds /\ \E m \in Unreconciled : live[ManagedFile(m)] \notin Content
             \/ Fault /\ UNCHANGED <<edits, drifts>>
    /\ proc' = [proc EXCEPT ![p].pc = "failed"]
    /\ UNCHANGED <<live, seal, lease, txn, author, rollback, receipt>>

\* Live bytes are compared with the work directory, document by document.
LiveIsWork(t, r) ==
    /\ \A s \in r.changed \cap Source, k \in {"runtime", "blueprint"} : live[<<s, k>>] = work[t][<<s, k>>]
    /\ \A d \in r.docs : DocProjected(d) /\ live[d] = work[t][d]

Postcheck(p) ==
    /\ At(p, "postcheck")
    /\ proc' = IF CorpusVerified /\ LiveIsWork(proc[p].t, proc[p].mem)
               THEN [proc EXCEPT ![p].pc = "write_seal", ![p].pkg = Manifest]
               ELSE [proc EXCEPT ![p].pc = "failed"]
    /\ UNCHANGED <<corpus, seal, lease, txn, author, rollback, permit, receipt, bounds>>

WriteSeal(p) ==
    /\ At(p, "write_seal")
    /\ seal' = [pkg |-> proc[p].pkg, t |-> proc[p].t]
    /\ proc' = [proc EXCEPT ![p].pc = "save_post",
                            ![p].mem.state = "POSTCHECK_VERIFIED", ![p].mem.post = proc[p].pkg]
    /\ UNCHANGED <<corpus, lease, txn, author, rollback, permit, receipt, bounds>>

SavePostcheck(p) ==
    /\ At(p, "save_post") /\ LockFree(p)
    /\ txn' = [txn EXCEPT ![proc[p].t] = proc[p].mem]
    /\ proc' = [proc EXCEPT ![p].pc = "finish"]
    /\ UNCHANGED <<corpus, seal, lease, author, rollback, permit, receipt, bounds>>

\* The mirror, the seal or the save raises inside apply.
SealingFails(p) ==
    /\ proc[p].pc \in {"write_seal", "save_post"} /\ txn[proc[p].t].state = "APPLYING" /\ Fault
    /\ proc' = [proc EXCEPT ![p].pc = "failed"]
    /\ UNCHANGED <<corpus, seal, lease, txn, author, rollback, permit, receipt, edits, drifts>>

\* Mutant: the lease is released with the failed transaction.
SaveRecoveryReleased(p) ==
    /\ At(p, "failed") /\ LockFree(p)
    /\ txn' = [txn EXCEPT ![proc[p].t] = [proc[p].mem EXCEPT !.state = "RECOVERY_REQUIRED"]]
    /\ lease' = IF lease = proc[p].t THEN NoTxn ELSE lease
    /\ Quit(p)
    /\ UNCHANGED <<corpus, seal, author, rollback, permit, receipt, bounds>>

SaveRecoveryRequired(p) ==
    /\ At(p, "failed") /\ LockFree(p)
    /\ txn' = [txn EXCEPT ![proc[p].t] = [proc[p].mem EXCEPT !.state = "RECOVERY_REQUIRED"]]
    /\ Quit(p)
    /\ UNCHANGED <<corpus, seal, lease, author, rollback, permit, receipt, bounds>>

-----------------------------------------------------------------------------
(* The exception path of apply before the heartbeat.                       *)

RollbackFile(p) ==
    /\ At(p, "rollback") /\ proc[p].todo # {}
    /\ \E f \in proc[p].todo :
         /\ \/ live' = [live EXCEPT ![f] = rollback[proc[p].t][f]]
               /\ proc' = [proc EXCEPT ![p].todo = @ \ {f}]
               /\ UNCHANGED bounds
            \/ Fault /\ UNCHANGED <<live, edits, drifts>>
               /\ proc' = [proc EXCEPT ![p].todo = @ \ {f}, ![p].bad = TRUE]
    /\ UNCHANGED <<db, seal, lease, txn, author, rollback, permit, receipt>>

\* Mutant: a file that could not be restored is only logged.
RollbackDoneAnyway(p) ==
    /\ At(p, "rollback") /\ proc[p].todo = {}
    /\ proc' = [proc EXCEPT ![p].pc = "revoke"]
    /\ UNCHANGED <<corpus, seal, lease, txn, author, rollback, permit, receipt, bounds>>

RollbackDone(p) ==
    /\ At(p, "rollback") /\ proc[p].todo = {}
    /\ proc' = [proc EXCEPT ![p].pc = IF proc[p].bad THEN "failed" ELSE "revoke"]
    /\ UNCHANGED <<corpus, seal, lease, txn, author, rollback, permit, receipt, bounds>>

\* Mutant: the rolled back transaction keeps its permit.
RevokeSkipped(p) ==
    /\ At(p, "revoke")
    /\ proc' = [proc EXCEPT ![p].pc = "save_end", ![p].mem.state = "ROLLED_BACK"]
    /\ UNCHANGED <<corpus, seal, lease, txn, author, rollback, permit, receipt, bounds>>

\* KAIROS withdraws only an ACTIVE permit, and may still raise once it is withdrawn.
Revoke(p) ==
    LET t == proc[p].t IN
    /\ At(p, "revoke") /\ permit[t] = "active"
    /\ permit' = [permit EXCEPT ![t] = "revoked"]
    /\ proc' = [proc EXCEPT ![p].pc = "save_end", ![p].mem.state = "ROLLED_BACK"]
    /\ UNCHANGED <<corpus, seal, lease, txn, author, rollback, receipt, bounds>>

\* Mutant: waits for a permit that is no longer active.
RevokeWaits(p) ==
    LET t == proc[p].t IN
    /\ At(p, "revoke") /\ permit[t] = "active" /\ Fault
    /\ permit' = [permit EXCEPT ![t] = "revoked"]
    /\ proc' = [proc EXCEPT ![p].pc = "failed"]
    /\ UNCHANGED <<corpus, seal, lease, txn, author, rollback, receipt, edits, drifts>>

RevokeFails(p) ==
    LET t == proc[p].t IN
    /\ At(p, "revoke")
    /\ \/ permit[t] # "active" /\ UNCHANGED <<permit, bounds>>
       \/ /\ permit[t] = "active" /\ Fault /\ UNCHANGED <<edits, drifts>>
          /\ permit' = [permit EXCEPT ![t] = "revoked"]
    /\ proc' = [proc EXCEPT ![p].pc = "failed"]
    /\ UNCHANGED <<corpus, seal, lease, txn, author, rollback, receipt>>

-----------------------------------------------------------------------------
(* The terminal receipt, under the retention lock: stage it in state.json, *)
(* write the immutable file, acknowledge it, release the lease.            *)

OwnsSealedResult(t, r) ==
    CorpusVerified /\ seal.pkg = Manifest /\ Manifest = r.post /\ seal.t = t

FinishCheck(p) ==
    LET t == proc[p].t
        r == txn[t]
        s == [r EXCEPT !.receipt = IF @ = "none" THEN "PENDING" ELSE @]
        proceed ==
            /\ r = proc[p].mem /\ r.state = "POSTCHECK_VERIFIED"
            /\ r.receipt # "COMMITTED" => lease = t
            /\ lease = t => OwnsSealedResult(t, r)
            /\ receipt[t] \/ lease \in {NoTxn, t}
    IN
    /\ At(p, "finish") /\ LockFree(p)
    /\ IF proceed
       THEN /\ txn' = [txn EXCEPT ![t] = s]
            /\ proc' = [proc EXCEPT ![p].pc = "receipt", ![p].mem = s]
       ELSE Quit(p) /\ UNCHANGED txn
    /\ UNCHANGED <<corpus, seal, lease, author, rollback, permit, receipt, bounds>>

\* Mutant: the receipt is acknowledged before its file is written.
WriteReceiptLater(p) ==
    /\ At(p, "receipt")
    /\ proc' = [proc EXCEPT ![p].pc = "commit"]
    /\ UNCHANGED <<corpus, seal, lease, txn, author, rollback, permit, receipt, bounds>>

WriteReceipt(p) ==
    /\ At(p, "receipt")
    /\ receipt' = [receipt EXCEPT ![proc[p].t] = TRUE]
    /\ proc' = [proc EXCEPT ![p].pc = "commit"]
    /\ UNCHANGED <<corpus, seal, lease, txn, author, rollback, permit, bounds>>

CommitReceipt(p) ==
    /\ At(p, "commit")
    /\ txn' = [txn EXCEPT ![proc[p].t] = [proc[p].mem EXCEPT !.receipt = "COMMITTED"]]
    /\ proc' = [proc EXCEPT ![p].pc = "release"]
    /\ UNCHANGED <<corpus, seal, lease, author, rollback, permit, receipt, bounds>>

ReleaseFinished(p) ==
    /\ At(p, "release")
    /\ lease' = IF lease = proc[p].t THEN NoTxn ELSE lease
    /\ Quit(p)
    /\ UNCHANGED <<corpus, seal, txn, author, rollback, permit, receipt, bounds>>

-----------------------------------------------------------------------------
(* recover.                                                                *)

RecoverCommand(p, t) ==
    Command(p, t) /\ txn[t].state = "RECOVERY_REQUIRED" /\ CorpusVerified

\* Mutant: a permit that was already consumed does not stop the recovery.
RecoverBaselineSpent(p, t) ==
    /\ RecoverCommand(p, t) /\ AtBaseline(txn[t])
    /\ permit' = [permit EXCEPT ![t] = IF @ = "active" THEN "revoked" ELSE @]
    /\ proc' = [proc EXCEPT ![p].pc = "save_end", ![p].t = t,
                            ![p].mem = [txn[t] EXCEPT !.state = "ROLLED_BACK"]]
    /\ UNCHANGED <<corpus, seal, lease, txn, author, rollback, receipt, bounds>>

\* The live corpus is back at the baseline: withdraw the permit, end the transaction.
RecoverBaseline(p, t) ==
    LET r == txn[t] IN
    /\ RecoverCommand(p, t) /\ AtBaseline(r)
    /\ r.permit => permit[t] = "active"
    /\ permit' = IF r.permit THEN [permit EXCEPT ![t] = "revoked"] ELSE permit
    /\ proc' = [proc EXCEPT ![p].pc = "save_end", ![p].t = t,
                            ![p].mem = [r EXCEPT !.state = "ROLLED_BACK"]]
    /\ UNCHANGED <<corpus, seal, lease, txn, author, rollback, receipt, bounds>>

\* Mutant: the completed result is recovered only while its permit is active.
RecoverPermitted(p, t) ==
    /\ RecoverCommand(p, t) /\ ~AtBaseline(txn[t]) /\ permit[t] = "active"
    /\ WorkPackage(t) = txn[t].verified /\ LiveIsWork(t, txn[t])
    /\ proc' = [proc EXCEPT ![p].pc = "write_seal", ![p].t = t, ![p].mem = txn[t], ![p].pkg = Manifest]
    /\ UNCHANGED <<corpus, seal, lease, txn, author, rollback, permit, receipt, bounds>>

\* The live corpus is the verified package: seal it and postcheck.
RecoverTarget(p, t) ==
    LET r == txn[t] IN
    /\ RecoverCommand(p, t) /\ ~AtBaseline(r)
    /\ WorkPackage(t) = r.verified /\ LiveIsWork(t, r)
    /\ proc' = [proc EXCEPT ![p].pc = "write_seal", ![p].t = t, ![p].mem = r, ![p].pkg = Manifest]
    /\ UNCHANGED <<corpus, seal, lease, txn, author, rollback, permit, receipt, bounds>>

\* Mutant: a staged receipt counts as finished.
RecoverUnstaged(p, t) ==
    /\ At(p, "idle") /\ txn[t].state = "POSTCHECK_VERIFIED" /\ txn[t].receipt = "none"
    /\ proc' = [proc EXCEPT ![p].pc = "finish", ![p].t = t, ![p].mem = txn[t]]
    /\ UNCHANGED <<corpus, seal, lease, txn, author, rollback, permit, receipt, bounds>>

\* A postchecked transaction: only its receipt and its lease are left to finish.
RecoverReceipt(p, t) ==
    /\ At(p, "idle") /\ txn[t].state = "POSTCHECK_VERIFIED"
    /\ txn[t].receipt # "COMMITTED" \/ lease = t
    /\ proc' = [proc EXCEPT ![p].pc = "finish", ![p].t = t, ![p].mem = txn[t]]
    /\ UNCHANGED <<corpus, seal, lease, txn, author, rollback, permit, receipt, bounds>>

-----------------------------------------------------------------------------
(* The environment: the author, other writers of the workspace, the        *)
(* operator who repairs it by hand, the clock, and kills.                  *)

MayEdit(t) ==
    /\ txn[t].state \in PreApply \cup {"APPLYING", "RECOVERY_REQUIRED"}
    /\ QuiescentAuthor => txn[t].state # "APPLYING" /\ \A p \in Proc : proc[p].t # t

EditWork(t, f, c) ==
    /\ MayEdit(t) /\ edits < MaxEdits /\ work[t][f] # c
    /\ f \in (txn[t].sources \X {"runtime"}) \cup txn[t].docs
    /\ work' = [work EXCEPT ![t][f] = c]
    /\ edits' = edits + 1
    /\ UNCHANGED <<corpus, seal, lease, txn, audit, rollback, permit, receipt, proc, drifts, faults>>

\* The reviewer completes the drafted audit.
CompleteAudit(t) ==
    /\ MayEdit(t) /\ audit[t] # None
    /\ audit' = [audit EXCEPT ![t].done = TRUE]
    /\ UNCHANGED <<corpus, seal, lease, txn, work, rollback, permit, receipt, proc, bounds>>

\* Another writer replaces one document, or all the files of one source.
Drift(m, c) ==
    LET fs == IF m \in Doc THEN {m} ELSE {m} \X Kind IN
    /\ drifts < MaxDrifts
    /\ live' = [f \in File |-> IF f \in fs THEN c ELSE live[f]]
    /\ drifts' = drifts + 1
    /\ UNCHANGED <<db, seal, lease, txn, author, rollback, permit, receipt, proc, edits, faults>>

\* A heartbeat of the workspace under its own authority.  A permit of the Workshop
\* whose paths changed is the one it consumes.
WorkspaceHeartbeat ==
    /\ Unreconciled # {} /\ \A m \in Unreconciled : live[ManagedFile(m)] \in Content
    /\ db' = Promoted(Unreconciled)
    /\ permit' = [t \in Txn |-> IF permit[t] = "active" /\ Unreconciled \cap txn[t].changed # {}
                                THEN "spent" ELSE permit[t]]
    /\ UNCHANGED <<live, seal, lease, txn, author, rollback, receipt, proc, bounds>>

\* The operator copies the preserved preimages, or the preserved work, to the live paths.
OperatorCopies(t) ==
    LET fs == Targets(txn[t].changed)
        from(src) == [f \in File |-> IF f \in fs THEN src[f] ELSE live[f]]
    IN
    /\ txn[t].state = "RECOVERY_REQUIRED" /\ \A p \in Proc : proc[p].t # t
    /\ live' = from(rollback[t]) \/ live' = from(work[t])
    /\ live' # live
    /\ UNCHANGED <<db, seal, lease, txn, author, rollback, permit, receipt, proc, bounds>>

ExpirePermit(t) ==
    /\ permit[t] = "active"
    /\ permit' = [permit EXCEPT ![t] = "expired"]
    /\ UNCHANGED <<corpus, seal, lease, txn, author, rollback, receipt, proc, bounds>>

\* A kill, or an I/O error that the command does not catch.
Crash(p) ==
    /\ ~At(p, "idle") /\ Fault
    /\ Quit(p)
    /\ UNCHANGED <<corpus, seal, lease, txn, author, rollback, permit, receipt, edits, drifts>>

-----------------------------------------------------------------------------
\* The operator starts a command.
Commands(p) ==
    \/ SealCheck(p)
    \/ \E t \in Txn :
         \/ \E S \in SUBSET Source, D \in SUBSET Doc : Checkout(p, t, S, D)
         \/ \E D \in SUBSET Doc : IncludeDocuments(p, t, D)
         \/ MetadataPlan(p, t) \/ PrepareRefused(p, t) \/ PrepareBlocked(p, t) \/ Prepare(p, t)
         \/ MetadataCheck(p, t) \/ VerifyCheck(p, t) \/ ApplyCheck(p, t)
         \/ Abort(p, t) \/ StaleAbort(p, t) \/ AuthorityCheck(p, t) \/ RetireOrphan(p, t)
         \/ RecoverBaseline(p, t) \/ RecoverTarget(p, t) \/ RecoverReceipt(p, t)

\* A running command takes its next step.
Step(p) ==
    \/ SealWrite(p) \/ Acquire(p) \/ Materialise(p) \/ VerifySave(p) \/ AuthoritySave(p)
    \/ Backup(p) \/ IssuePermit(p) \/ ApplyStart(p) \/ WriteFile(p) \/ Heartbeat(p)
    \/ Postcheck(p) \/ WriteSeal(p) \/ SavePostcheck(p) \/ SaveRecoveryRequired(p)
    \/ FinishCheck(p) \/ WriteReceipt(p) \/ CommitReceipt(p) \/ ReleaseFinished(p)
    \/ RollbackFile(p) \/ RollbackDone(p) \/ Revoke(p) \/ SaveEnd(p) \/ Unlease(p)
    \/ CheckoutFails(p) \/ HeartbeatFails(p) \/ RevokeFails(p)

Failure(p) == WriteFails(p) \/ SealingFails(p) \/ Crash(p)

Environment ==
    \/ \E t \in Txn :
         \/ \E f \in File, c \in Content : EditWork(t, f, c)
         \/ CompleteAudit(t) \/ OperatorCopies(t) \/ ExpirePermit(t)
    \/ \E m \in Managed, c \in Content : Drift(m, c)
    \/ WorkspaceHeartbeat

Next == Environment \/ \E p \in Proc : Commands(p) \/ Step(p) \/ Failure(p)

Spec == Init /\ [][Next]_vars
-----------------------------------------------------------------------------
(* Everything a transaction may seal was approved as it is: the verified   *)
(* package is the prepared one and, when it changes a source of the        *)
(* baseline, metadata-check accepted that very package with a completed    *)
(* audit of exactly its sources.  No order of edits, refreshed plans,      *)
(* included documents, late verifications, crashes or recoveries leaves an *)
(* approval of something else behind, not even two commands at once.       *)
Approved == {"SHADOW_VERIFIED", "APPLYING", "RECOVERY_REQUIRED", "POSTCHECK_VERIFIED"}

ReviewedFor(r, pkg) ==
    (\E s \in r.sources : pkg.work[<<s, "runtime">>] # r.copy[<<s, "runtime">>]) =>
        /\ r.checked = pkg
        /\ pkg.audit # None /\ pkg.audit.done
        /\ pkg.audit.of = [s \in Source |-> pkg.work[<<s, "runtime">>]]

ApprovalsBindReview ==
    \A t \in Txn : txn[t].state \in Approved =>
        /\ txn[t].verified # None /\ txn[t].verified = txn[t].prepared
        /\ ReviewedFor(txn[t], txn[t].verified)
=============================================================================
