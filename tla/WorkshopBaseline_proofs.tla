---------------------- MODULE WorkshopBaseline_proofs ----------------------
(***************************************************************************)
(* What a transaction leaves behind: what it seals was verified, what it   *)
(* restores is what it started from, and neither its write permit nor a    *)
(* seal of its own outlives its rollback.                                  *)
(*                                                                         *)
(* The theorems assume that commands run in turn and that the author edits *)
(* only between them.  Those about the corpus also assume that nobody but  *)
(* the commands and the operator of a recovery writes live files.  Kills,  *)
(* failed and torn writes, failed restores, heartbeats of the workspace,   *)
(* expired permits and copies by hand may fall between any two steps.      *)
(***************************************************************************)
EXTENDS WorkshopSerial_proofs

(* Part one.  What a process remembers agrees with its saved record and    *)
(* with the work directory it applies.                                     *)

Same(m, r) ==
    /\ m.docs = r.docs /\ m.pkg = r.pkg /\ m.copy = r.copy
    /\ m.changed = r.changed /\ m.prepared = r.prepared /\ m.verified = r.verified

Remembering == Loaded \ {"acquire", "materialise", "finish", "receipt", "commit", "release", "unlease"}
Approving   == {"backup", "permit", "start", "write", "heartbeat", "postcheck", "write_seal", "save_post"}

\* A prepared package changes every file it names, and names only selected documents.
Differs(r) ==
    r.prepared # None =>
        /\ r.changed # {} /\ r.changed \cap Doc \subseteq r.docs
        /\ \A s \in r.changed \cap Source : r.prepared.work[<<s, "runtime">>] # r.copy[<<s, "runtime">>]
        /\ \A d \in r.changed \cap Doc : r.prepared.work[d] # r.copy[d]

(* A process at step c remembers record m and hash k; its state.json is r, *)
(* its work directory now hashes to w.                                     *)
Holds(c, m, k, r, w) ==
    /\ c \in {"acquire", "materialise"} => m.prepared = None
    /\ c \in Remembering => Same(m, r)
    /\ c \in Remembering \ {"start"} => m.permit = r.permit
    /\ c = "start" => m.permit
    /\ c \in Approving => w = r.verified
    /\ c = "write_seal" => \A s \in r.changed \cap Source : k[s] = w.work[<<s, "runtime">>]

ProcHolds(p) == Holds(proc[p].pc, proc[p].mem, proc[p].pkg, txn[proc[p].t], WorkPackage(proc[p].t))

Steady ==
    /\ \A t \in Txn : Differs(txn[t])
    /\ \A p \in Proc : proc[p].pc \in Loaded => ProcHolds(p)

-----------------------------------------------------------------------------
\* One process moves while the others rest.
LEMMA SteadyFrame ==
    ASSUME InTurn, Steady, NEW p \in Proc, \A q \in Proc \ {p} : Resting(q),
           \A q \in Proc \ {p} : proc'[q] = proc[q],
           \A t \in Txn : txn'[t] = txn[t] \/ Differs(txn'[t]),
           proc'[p].pc \in Loaded => ProcHolds(p)'
    PROVE  Steady'
<1>1. ASSUME NEW t \in Txn PROVE Differs(txn'[t]) BY DEF Steady
<1>2. ASSUME NEW q \in Proc, proc'[q].pc \in Loaded PROVE ProcHolds(q)'
  BY <1>2 DEF Resting, Loaded
<1> QED BY <1>1, <1>2 DEF Steady

\* A process ends.
LEMMA SteadyQuits ==
    ASSUME TypeOK, InTurn, Steady, NEW p \in Proc, \A q \in Proc \ {p} : Resting(q), Quit(p),
           \A t \in Txn : txn'[t] = txn[t] \/ Differs(txn'[t])
    PROVE  Steady'
<1>1. proc'[p].pc = "idle" /\ \A q \in Proc \ {p} : proc'[q] = proc[q]
  BY DEF TypeOK, Quit, Idle
<1> QED BY <1>1, SteadyFrame DEF Loaded

\* A process goes on at c with record m.
LEMMA SteadyGoes ==
    ASSUME InTurn, Steady, NEW p \in Proc, \A q \in Proc \ {p} : Resting(q),
           NEW c \in Loaded, NEW t \in Txn, NEW m, NEW k,
           proc'[p].pc = c, proc'[p].t = t, proc'[p].mem = m, proc'[p].pkg = k,
           \A q \in Proc \ {p} : proc'[q] = proc[q],
           \A u \in Txn : txn'[u] = txn[u] \/ Differs(txn'[u]),
           UNCHANGED <<work, audit>>,
           Holds(c, m, k, txn'[t], WorkPackage(t))
    PROVE  Steady'
<1>1. ProcHolds(p)' BY DEF ProcHolds, WorkPackage
<1> QED BY <1>1, SteadyFrame

\* Nobody runs and r becomes the record of t.
LEMMA SteadySaves ==
    ASSUME TypeOK, Steady, \A q \in Proc : Resting(q), NEW t \in Txn, NEW r,
           txn' = [txn EXCEPT ![t] = r], UNCHANGED proc, Differs(r)
    PROVE  Steady'
<1>1. ASSUME NEW u \in Txn PROVE Differs(txn'[u]) BY DEF Steady, TypeOK
<1>2. \A q \in Proc : proc'[q].pc \notin Loaded BY DEF Resting, Loaded
<1> QED BY <1>1, <1>2 DEF Steady

\* Records that agree on the baseline and the package differ from it alike.
LEMMA DiffersSame ==
    ASSUME NEW m, NEW r, Same(m, r), Differs(r) PROVE Differs(m)
BY DEF Same, Differs

\* An unprepared record has nothing to differ.
LEMMA DiffersUnprepared == ASSUME NEW r, r.prepared = None PROVE Differs(r)
BY DEF Differs

\* Dropping the approvals keeps the baseline and the scope.
LEMMA ReopenedSame ==
    ASSUME NEW r \in Record
    PROVE  /\ Reopened(r).prepared = None
           /\ Reopened(r).sources = r.sources /\ Reopened(r).docs = r.docs /\ Reopened(r).copy = r.copy
           /\ Reopened(r).pkg = r.pkg /\ Reopened(r).permit = r.permit
BY DEF Reopened, Record

\* So does what prepare does first.
LEMMA UnapprovedSame ==
    ASSUME NEW r \in Record
    PROVE  /\ Unapproved(r).prepared \in {None, r.prepared} /\ Unapproved(r).changed = r.changed
           /\ Unapproved(r).sources = r.sources /\ Unapproved(r).docs = r.docs /\ Unapproved(r).copy = r.copy
           /\ Unapproved(r).pkg = r.pkg /\ Unapproved(r).permit = r.permit
<1>1. Reopened(r).changed = r.changed BY DEF Reopened, Record
<1> QED BY <1>1, ReopenedSame DEF Unapproved

\* prepare binds a package whose changed files differ from the baseline.
LEMMA PrepareDiffers ==
    ASSUME TypeOK, NEW t \in Txn, NEW r \in Record, NEW n,
           ChangedSources(t, r) \cup ChangedDocs(t, r) # {},
           n.changed = ChangedSources(t, r) \cup ChangedDocs(t, r),
           n.docs = r.docs, n.copy = r.copy, n.prepared.work = Regenerated(t, r)
    PROVE  Differs(n)
<1>1. r.docs \subseteq Doc /\ r.sources \subseteq Source BY DEF Record
<1>2. Source \cap Doc = {} BY ConstantsOK
<1>3. n.changed \cap Doc \subseteq r.docs BY <1>1, <1>2 DEF ChangedSources, ChangedDocs
<1>4. ASSUME NEW s \in n.changed \cap Source
      PROVE  n.prepared.work[<<s, "runtime">>] # n.copy[<<s, "runtime">>]
  <2>1. s \in ChangedSources(t, r) BY <1>1, <1>2, <1>4 DEF ChangedDocs
  <2>2. work[t][<<s, "runtime">>] # r.copy[<<s, "runtime">>] BY <2>1 DEF ChangedSources
  <2>3. <<s, "runtime">> \in File BY DEF File, Kind
  <2>4. <<s, "runtime">> \notin ChangedSources(t, r) \X {"blueprint", "managed"} OBVIOUS
  <2> QED BY <2>2, <2>3, <2>4 DEF Regenerated
<1>5. ASSUME NEW d \in n.changed \cap Doc PROVE n.prepared.work[d] # n.copy[d]
  <2>1. d \in ChangedDocs(t, r) BY <1>1, <1>2, <1>5 DEF ChangedSources
  <2>2. work[t][d] # r.copy[d] BY <2>1 DEF ChangedDocs
  <2>3. d \in File BY DEF File
  <2>4. d \notin ChangedSources(t, r) \X {"blueprint", "managed"}
    <3>1. ChangedSources(t, r) \X {"blueprint", "managed"} \subseteq Source \X Kind
      BY <1>1 DEF ChangedSources, Kind
    <3>2. d \notin Source \X Kind BY DocsApart, <1>5
    <3> QED BY <3>1, <3>2
  <2> QED BY <2>2, <2>3, <2>4 DEF Regenerated
<1> QED BY <1>3, <1>4, <1>5 DEF Differs

\* A command starts, or saves at once.
LEMMA CommandsSteady ==
    ASSUME TypeOK, Backed, InTurn, Steady, NEW p \in Proc, Commands(p), Starting PROVE Steady'
<1> USE DEF corpus, author, bounds
<1>0. /\ proc \in Procs /\ txn \in Txns /\ (\A u \in Txn : txn[u] \in Record /\ Differs(txn[u]))
      /\ \A q \in Proc : Resting(q)
  BY DEF TypeOK, Procs, Txns, Starting, Steady
<1>1. CASE SealCheck(p)
  <2>1. proc'[p].pc = "seal" /\ \A q \in Proc \ {p} : proc'[q] = proc[q]
    BY <1>0, <1>1 DEF SealCheck, Procs, Process
  <2> QED BY <1>0, <1>1, <2>1, SteadyFrame DEF SealCheck, Loaded
<1>2. ASSUME NEW t \in Txn, NEW c \in Loaded, NEW m,
             proc' = [proc EXCEPT ![p].pc = c, ![p].t = t, ![p].mem = m],
             UNCHANGED <<txn, work, audit>>, Holds(c, m, proc[p].pkg, txn[t], WorkPackage(t))
      PROVE  Steady'
  <2>1. /\ proc'[p].pc = c /\ proc'[p].t = t /\ proc'[p].mem = m /\ proc'[p].pkg = proc[p].pkg
        /\ \A q \in Proc \ {p} : proc'[q] = proc[q]
    BY <1>0, <1>2 DEF Procs, Process
  <2> QED BY <1>0, <1>2, <2>1, SteadyGoes
<1>3. ASSUME NEW t \in Txn, NEW S \in SUBSET Source, NEW D \in SUBSET Doc, Checkout(p, t, S, D)
      PROVE  Steady'
  <2> DEFINE m == [NoRecord EXCEPT !.state = "CHECKED_OUT", !.sources = S, !.docs = D, !.pkg = Manifest]
  <2>1. m.prepared = None BY DEF NoRecord
  <2>2. /\ proc' = [proc EXCEPT ![p].pc = "acquire", ![p].t = t, ![p].mem = m]
        /\ UNCHANGED <<txn, work, audit>>
    BY <1>3 DEF Checkout
  <2> HIDE DEF m
  <2>3. Holds("acquire", m, proc[p].pkg, txn[t], WorkPackage(t))
    BY <2>1 DEF Holds, Remembering, Approving
  <2> QED BY <1>2, <2>2, <2>3 DEF Loaded, Pc
(* The commands that save at once.                                         *)
<1>4. ASSUME NEW t \in Txn, NEW D \in SUBSET Doc, IncludeDocuments(p, t, D) PROVE Steady'
  <2> DEFINE o == Reopened(txn[t])
             r == [o EXCEPT !.docs = @ \cup D,
                            !.copy = [f \in File |-> IF f \in D THEN live[f] ELSE @[f]]]
  <2>1. txn' = [txn EXCEPT ![t] = r] /\ UNCHANGED proc BY <1>4 DEF IncludeDocuments
  <2>2. o \in Record /\ o.prepared = None BY <1>0, ReopenedSame, RecReopened
  <2>3. r.prepared = None
    <3> HIDE DEF o
    <3> QED BY <2>2 DEF Record
  <2> HIDE DEF o, r
  <2> QED BY <1>0, <2>1, <2>3, DiffersUnprepared, SteadySaves
<1>5. ASSUME NEW t \in Txn, MetadataPlan(p, t) PROVE Steady'
  <2>1. txn' = [txn EXCEPT ![t] = Reopened(txn[t])] /\ UNCHANGED proc BY <1>5 DEF MetadataPlan
  <2>2. Differs(Reopened(txn[t])) BY <1>0, ReopenedSame, DiffersUnprepared
  <2> QED BY <1>0, <2>1, <2>2, SteadySaves
<1>6. ASSUME NEW t \in Txn PROVE Differs(Unapproved(txn[t]))
  BY <1>0, UnapprovedSame DEF Differs
<1>7. ASSUME NEW t \in Txn, PrepareRefused(p, t) PROVE Steady'
  <2>1. txn' = [txn EXCEPT ![t] = Unapproved(txn[t])] /\ UNCHANGED proc BY <1>7 DEF PrepareRefused
  <2> QED BY <1>0, <1>6, <2>1, SteadySaves
<1>8. ASSUME NEW t \in Txn, PrepareBlocked(p, t) PROVE Steady'
  <2> DEFINE u == Unapproved(txn[t])
             r == [u EXCEPT !.state = "AWAITING_METADATA_REVIEW"]
  <2>1. txn' = [txn EXCEPT ![t] = r] /\ UNCHANGED proc BY <1>8 DEF PrepareBlocked
  <2>2. u \in Record /\ Differs(u) BY <1>0, <1>6, RecReopened
  <2>3. Same(r, u)
    <3> HIDE DEF u
    <3> QED BY <2>2 DEF Record, Same
  <2> HIDE DEF u, r
  <2> QED BY <1>0, <2>1, <2>2, <2>3, DiffersSame, SteadySaves
<1>9. ASSUME NEW t \in Txn, Prepare(p, t) PROVE Steady'
  <2> DEFINE u == Unapproved(txn[t])
             c == ChangedSources(t, txn[t]) \cup ChangedDocs(t, txn[t])
             k == [work |-> Regenerated(t, txn[t]), audit |-> audit[t]]
             r == [u EXCEPT !.state = "PREPARED", !.changed = c, !.prepared = k]
  <2>1. txn' = [txn EXCEPT ![t] = r] /\ UNCHANGED proc /\ c # {} BY <1>9 DEF Prepare
  <2>2. u \in Record /\ u.docs = txn[t].docs /\ u.copy = txn[t].copy BY <1>0, UnapprovedSame, RecReopened
  <2>3. r.docs = u.docs /\ r.copy = u.copy /\ r.changed = c /\ r.prepared = k
    <3> HIDE DEF u, c, k
    <3> QED BY <2>2 DEF Record
  <2>4. r.prepared.work = Regenerated(t, txn[t]) BY <2>3
  <2> HIDE DEF u, r
  <2>5. Differs(r) BY <1>0, <2>1, <2>2, <2>3, <2>4, PrepareDiffers
  <2> QED BY <1>0, <2>1, <2>5, SteadySaves
<1>10. ASSUME NEW t \in Txn, MetadataCheck(p, t) PROVE Steady'
  <2> DEFINE r == [txn[t] EXCEPT !.checked = WorkPackage(t)]
  <2>1. txn' = [txn EXCEPT ![t] = r] /\ UNCHANGED proc BY <1>0, <1>10 DEF MetadataCheck, Txns
  <2>2. Same(r, txn[t]) BY <1>0 DEF Record, Same
  <2> HIDE DEF r
  <2> QED BY <1>0, <2>1, <2>2, DiffersSame, SteadySaves
<1>11. ASSUME NEW t \in Txn, RetireOrphan(p, t) PROVE Steady'
  <2> DEFINE r == [txn[t] EXCEPT !.state = "ABORTED_ORPHANED_CHECKOUT"]
  <2>1. txn' = [txn EXCEPT ![t] = r] /\ UNCHANGED proc BY <1>11 DEF RetireOrphan
  <2>2. Same(r, txn[t]) BY <1>0 DEF Record, Same
  <2> HIDE DEF r
  <2> QED BY <1>0, <2>1, <2>2, DiffersSame, SteadySaves
(* The commands that remember the saved record and go on.                  *)
<1>12. ASSUME NEW t \in Txn, VerifyCheck(p, t) PROVE Steady'
  <2>1. /\ proc' = [proc EXCEPT ![p].pc = "verify", ![p].t = t, ![p].mem = txn[t]]
        /\ UNCHANGED <<txn, work, audit>>
    BY <1>12 DEF VerifyCheck
  <2>2. Holds("verify", txn[t], proc[p].pkg, txn[t], WorkPackage(t)) BY DEF Holds, Same, Approving
  <2> QED BY <1>2, <2>1, <2>2 DEF Loaded, Pc
<1>13. ASSUME NEW t \in Txn, ApplyCheck(p, t) PROVE Steady'
  <2>1. /\ proc' = [proc EXCEPT ![p].pc = "backup", ![p].t = t, ![p].mem = txn[t]]
        /\ UNCHANGED <<txn, work, audit>> /\ txn[t].verified = WorkPackage(t)
    BY <1>13 DEF ApplyCheck
  <2>2. Holds("backup", txn[t], proc[p].pkg, txn[t], WorkPackage(t)) BY <2>1 DEF Holds, Same
  <2> QED BY <1>2, <2>1, <2>2 DEF Loaded, Pc
<1>14. ASSUME NEW t \in Txn, NEW e, NEW c \in {"save_end", "authority"}, UNCHANGED <<txn, work, audit>>,
              proc' = [proc EXCEPT ![p].pc = c, ![p].t = t, ![p].mem = [txn[t] EXCEPT !.state = e]]
       PROVE  Steady'
  <2> DEFINE m == [txn[t] EXCEPT !.state = e]
  <2>1. Same(m, txn[t]) /\ m.permit = txn[t].permit BY <1>0 DEF Record, Same
  <2> HIDE DEF m
  <2>2. Holds(c, m, proc[p].pkg, txn[t], WorkPackage(t)) BY <1>14, <2>1 DEF Holds, Approving
  <2> QED BY <1>2, <1>14, <2>2 DEF Loaded, Pc, m
<1>15. ASSUME NEW t \in Txn, Abort(p, t) \/ StaleAbort(p, t) \/ AuthorityCheck(p, t) \/ RecoverBaseline(p, t)
       PROVE  Steady'
  BY <1>14, <1>15 DEF Abort, StaleAbort, AuthorityCheck, RecoverBaseline
<1>16. ASSUME NEW t \in Txn, RecoverTarget(p, t) PROVE Steady'
  <2>1. /\ proc' = [proc EXCEPT ![p].pc = "write_seal", ![p].t = t, ![p].mem = txn[t], ![p].pkg = Manifest]
        /\ UNCHANGED <<txn, work, audit>> /\ WorkPackage(t) = txn[t].verified /\ LiveIsWork(t, txn[t])
    BY <1>16 DEF RecoverTarget
  <2>2. Holds("write_seal", txn[t], Manifest, txn[t], WorkPackage(t))
    BY <2>1 DEF Holds, Same, LiveIsWork, Manifest, WorkPackage
  <2>3. /\ proc'[p].pc = "write_seal" /\ proc'[p].t = t /\ proc'[p].mem = txn[t] /\ proc'[p].pkg = Manifest
        /\ \A q \in Proc \ {p} : proc'[q] = proc[q]
    BY <1>0, <2>1 DEF Procs, Process
  <2> QED BY <1>0, <2>1, <2>2, <2>3, SteadyGoes DEF Loaded, Pc
<1>17. ASSUME NEW t \in Txn, RecoverReceipt(p, t) PROVE Steady'
  <2>1. /\ proc' = [proc EXCEPT ![p].pc = "finish", ![p].t = t, ![p].mem = txn[t]]
        /\ UNCHANGED <<txn, work, audit>>
    BY <1>17 DEF RecoverReceipt
  <2>2. Holds("finish", txn[t], proc[p].pkg, txn[t], WorkPackage(t)) BY DEF Holds, Remembering, Approving
  <2> QED BY <1>2, <2>1, <2>2 DEF Loaded, Pc
<1> QED BY <1>1, <1>3, <1>4, <1>5, <1>7, <1>8, <1>9, <1>10, <1>11, <1>12, <1>13, <1>15, <1>16, <1>17
        DEF Commands

\* Only a process that is not idle takes a step.
LEMMA StepRuns ==
    ASSUME NEW p \in Proc, Step(p) \/ Failure(p) PROVE ~Resting(p)
<1> USE DEF At, Resting
<1>1. CASE Failure(p) BY <1>1 DEF Failure, WriteFails, SealingFails, Crash
<1>2. CASE Step(p)
  BY <1>2 DEF Step, SealWrite, Acquire, Materialise, VerifySave, AuthoritySave, Backup, IssuePermit, ApplyStart,
       WriteFile, Heartbeat, Postcheck, WriteSeal, SavePostcheck, SaveRecoveryRequired, FinishCheck,
       WriteReceipt, CommitReceipt, ReleaseFinished, RollbackFile, RollbackDone, Revoke, SaveEnd, Unlease,
       CheckoutFails, HeartbeatFails, RevokeFails
<1> QED BY <1>1, <1>2

\* A running command takes a step, fails or is killed.
LEMMA StepSteady ==
    ASSUME TypeOK, Backed, InTurn, Steady, NEW p \in Proc, Step(p) \/ Failure(p) PROVE Steady'
<1> USE DEF corpus, author, bounds
<1> DEFINE t == proc[p].t
           m == proc[p].mem
           c == proc[p].pc
           k == proc[p].pkg
           w == WorkPackage(t)
<1>0. /\ proc \in Procs /\ txn \in Txns /\ m \in Record /\ (\A u \in Txn : txn[u] \in Record /\ Differs(txn[u]))
      /\ c \in Loaded => t \in Txn /\ Fits(c, t, m, txn[t], lease, receipt[t]) /\ Holds(c, m, k, txn[t], w)
  BY DEF TypeOK, Procs, Process, Txns, InTurn, ProcFits, Backed, ProcBacked, Steady, ProcHolds
<1>o. \A q \in Proc \ {p} : Resting(q) BY StepRuns, OthersRest
<1>h. w = WorkPackage(t) OBVIOUS
<1> HIDE DEF t, m, c, k, w
<1>q. ASSUME Quit(p), \A u \in Txn : txn'[u] = txn[u] \/ Differs(txn'[u]) PROVE Steady'
  BY <1>o, <1>q, SteadyQuits
<1>s. ASSUME t \in Txn, NEW r, txn' = [txn EXCEPT ![t] = r], Differs(r)
      PROVE  txn'[t] = r /\ \A u \in Txn : txn'[u] = txn[u] \/ Differs(txn'[u])
  BY <1>0, <1>s DEF Txns
(* The process goes on with record n, its transaction being recorded as r. *)
<1>g. ASSUME NEW d \in Loaded, NEW n, NEW j, t \in Txn,
             proc'[p].pc = d, proc'[p].t = t, proc'[p].mem = n, proc'[p].pkg = j,
             \A q \in Proc \ {p} : proc'[q] = proc[q],
             \A u \in Txn : txn'[u] = txn[u] \/ Differs(txn'[u]), UNCHANGED <<work, audit>>,
             Holds(d, n, j, txn'[t], w)
      PROVE  Steady'
  BY <1>o, <1>g, <1>h, SteadyGoes
<1>f. ASSUME NEW d, proc' = [proc EXCEPT ![p].pc = d]
      PROVE  /\ proc'[p].pc = d /\ proc'[p].t = t /\ proc'[p].mem = m /\ proc'[p].pkg = k
             /\ \A q \in Proc \ {p} : proc'[q] = proc[q]
  BY <1>0, <1>f DEF Procs, Process, t, m, k
(* A step that saves nothing and keeps what the process remembers.         *)
<1>k. ASSUME NEW d \in Loaded, c \in Loaded, UNCHANGED <<txn, work, audit>>,
             proc'[p].pc = d, proc'[p].t = t, proc'[p].mem = m, proc'[p].pkg = k,
             \A q \in Proc \ {p} : proc'[q] = proc[q],
             Holds(c, m, k, txn[t], w) => Holds(d, m, k, txn[t], w)
      PROVE  Steady'
  BY <1>0, <1>g, <1>k
<1>1. CASE SealWrite(p) \/ Crash(p) \/ Unlease(p) \/ ReleaseFinished(p)
  BY <1>1, <1>q DEF SealWrite, Crash, Unlease, ReleaseFinished
<1>2. CASE Acquire(p)
  <2>1. CASE Quit(p) BY <1>2, <1>q, <2>1 DEF Acquire
  <2>2. CASE proc' = [proc EXCEPT ![p].pc = "materialise"]
    <3>1. c = "acquire" /\ c \in Loaded /\ UNCHANGED <<txn, work, audit>>
      BY <1>2 DEF Acquire, At, Loaded, Pc, c
    <3>2. Holds(c, m, k, txn[t], w) => Holds("materialise", m, k, txn[t], w)
      BY <3>1 DEF Holds, Remembering, Approving
    <3> QED BY <1>f, <1>k, <2>2, <3>1, <3>2 DEF Loaded, Pc
  <2> QED BY <1>2, <2>1, <2>2 DEF Acquire
<1>3. CASE Materialise(p) \/ CheckoutFails(p)
  <2> DEFINE r == [m EXCEPT !.copy = live]
  <2>1. Quit(p) /\ c = "materialise" /\ (txn' = [txn EXCEPT ![t] = r] \/ txn' = txn)
    BY <1>3 DEF Materialise, CheckoutFails, CopyAndSave, At, c, m, t
  <2>2. t \in Txn /\ m.prepared = None BY <1>0, <2>1 DEF Loaded, Pc, Holds
  <2>3. r.prepared = None BY <1>0, <2>2 DEF Record
  <2> HIDE DEF r
  <2> QED BY <1>q, <1>s, <2>1, <2>2, <2>3, DiffersUnprepared
<1>4. CASE VerifySave(p)
  <2> DEFINE r == [m EXCEPT !.state = "SHADOW_VERIFIED", !.verified = WorkPackage(t)]
  <2>1. Quit(p) /\ c = "verify" /\ (txn' = [txn EXCEPT ![t] = r] \/ txn' = txn)
    BY <1>4 DEF VerifySave, At, c, m, t
  <2>2. t \in Txn /\ Same(m, txn[t]) BY <1>0, <2>1 DEF Loaded, Pc, Holds, Remembering
  <2>3. r.prepared = m.prepared /\ r.changed = m.changed /\ r.docs = m.docs /\ r.copy = m.copy
    BY <1>0 DEF Record
  <2>4. Differs(m) BY <1>0, <2>2, DiffersSame
  <2> HIDE DEF r
  <2>5. Differs(r) BY <2>3, <2>4 DEF Differs
  <2> QED BY <1>q, <1>s, <2>1, <2>2, <2>5
<1>5. CASE AuthoritySave(p)
  <2>1. Quit(p) /\ c = "authority" /\ (txn' = [txn EXCEPT ![t] = m] \/ txn' = txn)
    BY <1>5 DEF AuthoritySave, At, c, m, t
  <2>2. t \in Txn /\ Same(m, txn[t]) BY <1>0, <2>1 DEF Loaded, Pc, Holds, Remembering
  <2> QED BY <1>0, <1>q, <1>s, <2>1, <2>2, DiffersSame
<1>6. CASE SaveRecoveryRequired(p)
  <2> DEFINE r == [m EXCEPT !.state = "RECOVERY_REQUIRED"]
  <2>1. Quit(p) /\ c = "failed" /\ txn' = [txn EXCEPT ![t] = r]
    BY <1>6 DEF SaveRecoveryRequired, At, c, m, t
  <2>2. t \in Txn /\ Same(m, txn[t]) BY <1>0, <2>1 DEF Loaded, Pc, Holds, Remembering
  <2>3. Same(r, m) BY <1>0 DEF Record, Same
  <2> HIDE DEF r
  <2> QED BY <1>0, <1>q, <1>s, <2>1, <2>2, <2>3, DiffersSame
(* The steps of apply that save nothing.                                   *)
<1>7. CASE Backup(p)
  <2>1. /\ c = "backup" /\ c \in Loaded /\ proc' = [proc EXCEPT ![p].pc = "permit"]
        /\ UNCHANGED <<txn, work, audit>>
    BY <1>7 DEF Backup, At, c, Loaded, Pc
  <2>2. Holds(c, m, k, txn[t], w) => Holds("permit", m, k, txn[t], w)
    BY <2>1 DEF Holds, Remembering, Approving, Loaded, Pc
  <2> QED BY <1>f, <1>k, <2>1, <2>2 DEF Loaded, Pc
<1>8. CASE IssuePermit(p)
  <2>1. c = "permit" /\ c \in Loaded /\ UNCHANGED <<txn, work, audit>>
    BY <1>8 DEF IssuePermit, At, c, Loaded, Pc
  <2>2. CASE Quit(p) BY <1>q, <2>1, <2>2
  <2>3. CASE proc' = [proc EXCEPT ![p].pc = "start", ![p].mem.state = "APPLYING", ![p].mem.permit = TRUE]
    <3> DEFINE n == [m EXCEPT !.state = "APPLYING", !.permit = TRUE]
    <3>1. /\ proc'[p].pc = "start" /\ proc'[p].t = t /\ proc'[p].mem = n /\ proc'[p].pkg = k
          /\ \A q \in Proc \ {p} : proc'[q] = proc[q]
      BY <1>0, <2>3 DEF Procs, Process, t, m, k
    <3>2. Same(n, m) /\ n.permit BY <1>0 DEF Record, Same
    <3> HIDE DEF n
    <3>3. Holds("start", n, k, txn[t], w)
      BY <1>0, <2>1, <3>2 DEF Holds, Same, Remembering, Approving, Loaded, Pc
    <3> QED BY <1>0, <1>g, <2>1, <3>1, <3>3 DEF Loaded, Pc
  <2> QED BY <1>8, <2>2, <2>3 DEF IssuePermit
<1>9. CASE WriteFile(p)
  <2>1. c = "write" /\ c \in Loaded /\ UNCHANGED <<txn, work, audit>>
    BY <1>9 DEF WriteFile, At, c, Loaded, Pc
  <2>2. PICK f \in Writable(proc[p].todo) :
          proc' = [proc EXCEPT ![p].todo = @ \ {f},
                               ![p].pc = IF proc[p].todo = {f} THEN "heartbeat" ELSE "write"]
    BY <1>9 DEF WriteFile
  <2>3. /\ proc'[p].pc \in {"heartbeat", "write"} /\ proc'[p].t = t /\ proc'[p].mem = m /\ proc'[p].pkg = k
        /\ \A q \in Proc \ {p} : proc'[q] = proc[q]
    BY <1>0, <2>2 DEF Procs, Process, t, m, k
  <2>4. \A d \in {"heartbeat", "write"} : d \in Loaded /\ (Holds(c, m, k, txn[t], w) => Holds(d, m, k, txn[t], w))
    BY <2>1 DEF Holds, Remembering, Approving, Loaded, Pc
  <2> QED BY <1>k, <2>1, <2>3, <2>4
<1>10. CASE WriteFails(p)
  <2>1. c = "write" /\ c \in Loaded /\ UNCHANGED <<txn, work, audit>>
    BY <1>10 DEF WriteFails, At, c, Loaded, Pc
  <2>2. /\ proc'[p].pc = "rollback" /\ proc'[p].t = t /\ proc'[p].mem = m /\ proc'[p].pkg = k
        /\ \A q \in Proc \ {p} : proc'[q] = proc[q]
    BY <1>0, <1>10 DEF WriteFails, Procs, Process, t, m, k
  <2>3. Holds(c, m, k, txn[t], w) => Holds("rollback", m, k, txn[t], w)
    BY <2>1 DEF Holds, Remembering, Approving, Loaded, Pc
  <2> QED BY <1>k, <2>1, <2>2, <2>3 DEF Loaded, Pc
<1>11. CASE Heartbeat(p) \/ HeartbeatFails(p)
  <2>1. /\ c = "heartbeat" /\ c \in Loaded /\ UNCHANGED <<txn, work, audit>>
        /\ \E d \in {"postcheck", "failed"} : proc' = [proc EXCEPT ![p].pc = d]
    BY <1>11 DEF Heartbeat, HeartbeatFails, At, c, Loaded, Pc
  <2>2. \A d \in {"postcheck", "failed"} : d \in Loaded /\ (Holds(c, m, k, txn[t], w) => Holds(d, m, k, txn[t], w))
    BY <2>1 DEF Holds, Remembering, Approving, Loaded, Pc
  <2> QED BY <1>f, <1>k, <2>1, <2>2
<1>12. CASE Postcheck(p)
  <2>1. c = "postcheck" /\ c \in Loaded /\ UNCHANGED <<txn, work, audit>>
    BY <1>12 DEF Postcheck, At, c, Loaded, Pc
  <2>2. CASE /\ LiveIsWork(t, m)
             /\ proc' = [proc EXCEPT ![p].pc = "write_seal", ![p].pkg = Manifest]
    <3>1. /\ proc'[p].pc = "write_seal" /\ proc'[p].t = t /\ proc'[p].mem = m /\ proc'[p].pkg = Manifest
          /\ \A q \in Proc \ {p} : proc'[q] = proc[q]
      BY <1>0, <2>2 DEF Procs, Process, t, m
    <3>2. Holds(c, m, k, txn[t], w) /\ m.changed = txn[t].changed
      BY <1>0, <2>1 DEF Holds, Same, Remembering, Loaded, Pc
    <3>3. \A s \in txn[t].changed \cap Source : Manifest[s] = w.work[<<s, "runtime">>]
      BY <1>h, <2>2, <3>2 DEF LiveIsWork, Manifest, WorkPackage
    <3>4. Holds("write_seal", m, Manifest, txn[t], w)
      BY <2>1, <3>2, <3>3 DEF Holds, Remembering, Approving, Loaded, Pc
    <3> QED BY <1>0, <1>g, <2>1, <3>1, <3>4 DEF Loaded, Pc
  <2>3. CASE proc' = [proc EXCEPT ![p].pc = "failed"]
    <3>1. Holds(c, m, k, txn[t], w) => Holds("failed", m, k, txn[t], w)
      BY <2>1 DEF Holds, Remembering, Approving, Loaded, Pc
    <3> QED BY <1>f, <1>k, <2>1, <2>3, <3>1 DEF Loaded, Pc
  <2> QED BY <1>12, <2>2, <2>3 DEF Postcheck, t, m
<1>13. CASE WriteSeal(p)
  <2> DEFINE n == [m EXCEPT !.state = "POSTCHECK_VERIFIED", !.post = proc[p].pkg]
  <2>1. c = "write_seal" /\ c \in Loaded /\ UNCHANGED <<txn, work, audit>>
    BY <1>13 DEF WriteSeal, At, c, Loaded, Pc
  <2>2. /\ proc'[p].pc = "save_post" /\ proc'[p].t = t /\ proc'[p].mem = n /\ proc'[p].pkg = k
        /\ \A q \in Proc \ {p} : proc'[q] = proc[q]
    BY <1>0, <1>13 DEF WriteSeal, Procs, Process, t, m, k
  <2>3. Same(n, m) /\ n.permit = m.permit BY <1>0 DEF Record, Same
  <2> HIDE DEF n
  <2>4. Holds("save_post", n, k, txn[t], w)
    BY <1>0, <2>1, <2>3 DEF Holds, Same, Remembering, Approving, Loaded, Pc
  <2> QED BY <1>0, <1>g, <2>1, <2>2, <2>4 DEF Loaded, Pc
<1>14. CASE SealingFails(p) \/ RevokeFails(p) \/ RollbackDone(p)
  <2>1. /\ c \in {"write_seal", "save_post", "revoke", "rollback"} /\ UNCHANGED <<txn, work, audit>>
        /\ \E d \in {"failed", "revoke"} : proc' = [proc EXCEPT ![p].pc = d]
    BY <1>14 DEF SealingFails, RevokeFails, RollbackDone, At, c
  <2>2. c \in Loaded BY <2>1 DEF Loaded, Pc
  <2>3. \A d \in {"failed", "revoke"} : d \in Loaded /\ (Holds(c, m, k, txn[t], w) => Holds(d, m, k, txn[t], w))
    BY <2>1 DEF Holds, Remembering, Approving, Loaded, Pc
  <2> QED BY <1>f, <1>k, <2>1, <2>2, <2>3
<1>15. CASE RollbackFile(p)
  <2>1. c = "rollback" /\ c \in Loaded /\ UNCHANGED <<txn, work, audit>>
    BY <1>15 DEF RollbackFile, At, c, Loaded, Pc
  <2>2. /\ proc'[p].pc = c /\ proc'[p].t = t /\ proc'[p].mem = m /\ proc'[p].pkg = k
        /\ \A q \in Proc \ {p} : proc'[q] = proc[q]
    BY <1>0, <1>15 DEF RollbackFile, Procs, Process, t, m, c, k
  <2> QED BY <1>k, <2>1, <2>2
<1>16. CASE Revoke(p)
  <2> DEFINE n == [m EXCEPT !.state = "ROLLED_BACK"]
  <2>1. c = "revoke" /\ c \in Loaded /\ UNCHANGED <<txn, work, audit>>
    BY <1>16 DEF Revoke, At, c, Loaded, Pc
  <2>2. /\ proc'[p].pc = "save_end" /\ proc'[p].t = t /\ proc'[p].mem = n /\ proc'[p].pkg = k
        /\ \A q \in Proc \ {p} : proc'[q] = proc[q]
    BY <1>0, <1>16 DEF Revoke, Procs, Process, t, m, k
  <2>3. Same(n, m) /\ n.permit = m.permit BY <1>0 DEF Record, Same
  <2> HIDE DEF n
  <2>4. Holds("save_end", n, k, txn[t], w)
    BY <1>0, <2>1, <2>3 DEF Holds, Same, Remembering, Approving, Loaded, Pc
  <2> QED BY <1>0, <1>g, <2>1, <2>2, <2>4 DEF Loaded, Pc
(* The steps that save what the process remembers.                         *)
<1>17. CASE ApplyStart(p)
  <2>1. c = "start" /\ c \in Loaded /\ txn' = [txn EXCEPT ![t] = m] /\ UNCHANGED <<work, audit>>
    BY <1>17 DEF ApplyStart, At, c, t, m, Loaded, Pc
  <2>2. /\ proc'[p].pc = "write" /\ proc'[p].t = t /\ proc'[p].mem = m /\ proc'[p].pkg = k
        /\ \A q \in Proc \ {p} : proc'[q] = proc[q]
    BY <1>0, <1>17 DEF ApplyStart, Procs, Process, t, m, k
  <2>3. t \in Txn /\ Same(m, txn[t]) /\ w = m.verified
    BY <1>0, <2>1 DEF Holds, Same, Remembering, Approving, Loaded, Pc
  <2>4. Differs(m) BY <1>0, <2>3, DiffersSame
  <2>5. Holds("write", m, k, m, w) BY <2>3 DEF Holds, Same
  <2> QED BY <1>g, <1>s, <2>1, <2>2, <2>3, <2>4, <2>5 DEF Loaded, Pc
<1>18. CASE SavePostcheck(p) \/ SaveEnd(p)
  <2>1. /\ c \in {"save_post", "save_end"} /\ txn' = [txn EXCEPT ![t] = m] /\ UNCHANGED <<work, audit>>
        /\ \E d \in {"finish", "unlease"} : proc' = [proc EXCEPT ![p].pc = d]
    BY <1>18 DEF SavePostcheck, SaveEnd, At, c, t, m
  <2>2. t \in Txn /\ Same(m, txn[t]) BY <1>0, <2>1 DEF Holds, Remembering, Loaded, Pc
  <2>3. Differs(m) BY <1>0, <2>2, DiffersSame
  <2>4. \A d \in {"finish", "unlease"} : d \in Loaded /\ Holds(d, m, k, m, w)
    BY DEF Holds, Remembering, Approving, Loaded, Pc
  <2>5. PICK d \in {"finish", "unlease"} : proc' = [proc EXCEPT ![p].pc = d] BY <2>1
  <2>6. /\ proc'[p].pc = d /\ proc'[p].t = t /\ proc'[p].mem = m /\ proc'[p].pkg = k
        /\ \A q \in Proc \ {p} : proc'[q] = proc[q]
    BY <1>f, <2>5
  <2>7. txn'[t] = m /\ \A u \in Txn : txn'[u] = txn[u] \/ Differs(txn'[u]) BY <1>s, <2>1, <2>2, <2>3
  <2> QED BY <1>g, <2>1, <2>2, <2>4, <2>6, <2>7
(* The receipt.                                                            *)
<1>19. ASSUME NEW d \in {"receipt", "commit", "release"}, NEW n, NEW r
       PROVE  d \in Loaded /\ Holds(d, n, k, r, w)
  BY DEF Holds, Remembering, Approving, Loaded, Pc
<1>20. CASE FinishCheck(p)
  <2> DEFINE s == [txn[t] EXCEPT !.receipt = IF @ = "none" THEN "PENDING" ELSE @]
  <2>1. c = "finish" /\ c \in Loaded /\ UNCHANGED <<work, audit>>
    BY <1>20 DEF FinishCheck, At, c, Loaded, Pc
  <2>2. CASE Quit(p) /\ UNCHANGED txn BY <1>q, <2>2
  <2>3. CASE txn' = [txn EXCEPT ![t] = s] /\ proc' = [proc EXCEPT ![p].pc = "receipt", ![p].mem = s]
    <3>1. t \in Txn /\ Same(s, txn[t]) BY <1>0, <2>1 DEF Record, Same
    <3> HIDE DEF s
    <3>2. /\ proc'[p].pc = "receipt" /\ proc'[p].t = t /\ proc'[p].mem = s /\ proc'[p].pkg = k
          /\ \A q \in Proc \ {p} : proc'[q] = proc[q]
      BY <1>0, <2>3 DEF Procs, Process, t, k
    <3>3. Differs(s) BY <1>0, <3>1, DiffersSame
    <3> QED BY <1>g, <1>s, <1>19, <2>1, <2>3, <3>1, <3>2, <3>3
  <2> QED BY <1>20, <2>2, <2>3 DEF FinishCheck, t
<1>21. CASE WriteReceipt(p)
  <2>1. /\ c = "receipt" /\ c \in Loaded /\ UNCHANGED <<txn, work, audit>>
        /\ proc' = [proc EXCEPT ![p].pc = "commit"]
    BY <1>21 DEF WriteReceipt, At, c, Loaded, Pc
  <2> QED BY <1>f, <1>k, <1>19, <2>1
<1>22. CASE CommitReceipt(p)
  <2> DEFINE r == [m EXCEPT !.receipt = "COMMITTED"]
  <2>1. /\ c = "commit" /\ c \in Loaded /\ txn' = [txn EXCEPT ![t] = r] /\ UNCHANGED <<work, audit>>
        /\ proc' = [proc EXCEPT ![p].pc = "release"]
    BY <1>22 DEF CommitReceipt, At, c, t, m, Loaded, Pc
  <2>2. t \in Txn /\ m = txn[t] BY <1>0, <2>1 DEF Fits
  <2>3. Same(r, m) BY <1>0 DEF Record, Same
  <2> HIDE DEF r
  <2>4. Differs(r) BY <1>0, <2>2, <2>3, DiffersSame
  <2> QED BY <1>f, <1>g, <1>s, <1>19, <2>1, <2>2, <2>4
<1> QED
  BY <1>1, <1>2, <1>3, <1>4, <1>5, <1>6, <1>7, <1>8, <1>9, <1>10, <1>11, <1>12, <1>13, <1>14, <1>15, <1>16,
     <1>17, <1>18, <1>20, <1>21, <1>22 DEF Step, Failure

\* Nothing is recorded or remembered at first.
LEMMA InitSteady == ASSUME Init PROVE Steady
<1>1. \A p \in Proc : proc[p].pc \notin Loaded BY DEF Init, Idle, Loaded
<1>2. \A t \in Txn : txn[t].prepared = None BY DEF Init, NoRecord
<1> QED BY <1>1, <1>2, DiffersUnprepared DEF Steady

\* The author edits no transaction a process works on.
LEMMA NextSteady ==
    ASSUME TypeOK, Backed, InTurn, Steady, QuiescentAuthor, [Next]_vars, [Starting]_vars PROVE Steady'
<1> USE DEF corpus, author, bounds
<1>1. ASSUME UNCHANGED <<txn, proc>>,
             \A p \in Proc : proc[p].pc \in Loaded => WorkPackage(proc[p].t)' = WorkPackage(proc[p].t)
      PROVE  Steady'
  BY <1>1 DEF Steady, ProcHolds
<1>2. ASSUME NEW t \in Txn, MayEdit(t), UNCHANGED <<txn, proc>>,
             \A u \in Txn \ {t} : work'[u] = work[u] /\ audit'[u] = audit[u]
      PROVE  Steady'
  <2>1. \A p \in Proc : proc[p].t # t BY <1>2 DEF MayEdit
  <2>2. \A p \in Proc : proc[p].pc \in Loaded => proc[p].t \in Txn \ {t} BY <2>1 DEF Backed, ProcBacked
  <2>3. \A p \in Proc : proc[p].pc \in Loaded => WorkPackage(proc[p].t)' = WorkPackage(proc[p].t)
    BY <1>2, <2>2 DEF WorkPackage
  <2> QED BY <1>1, <1>2, <2>3
<1>3. CASE Environment
  <2>1. ASSUME NEW t \in Txn, NEW f \in File, NEW b \in Content, EditWork(t, f, b) PROVE Steady'
    BY <1>2, <2>1 DEF EditWork, TypeOK
  <2>2. ASSUME NEW t \in Txn, CompleteAudit(t) PROVE Steady'
    BY <1>2, <2>2 DEF CompleteAudit, TypeOK
  <2>3. ASSUME UNCHANGED <<txn, proc, work, audit>> PROVE Steady' BY <1>1, <2>3 DEF WorkPackage
  <2> QED BY <1>3, <2>1, <2>2, <2>3 DEF Environment, OperatorCopies, ExpirePermit, Drift, WorkspaceHeartbeat
<1>4. CASE UNCHANGED vars BY <1>1, <1>4 DEF vars, WorkPackage
<1>5. ASSUME NEW p \in Proc, Commands(p), Starting PROVE Steady' BY <1>5, CommandsSteady
<1>6. ASSUME NEW p \in Proc, Step(p) \/ Failure(p) PROVE Steady' BY <1>6, StepSteady
<1> QED BY <1>3, <1>4, <1>5, <1>6 DEF Next

(* Only the two ends of a seal write seal.json, and the one of a transaction *)
(* seals what it hashed.                                                     *)
LEMMA SealStep ==
    ASSUME TypeOK, Backed, InTurn, Steady, [Next]_vars, seal' # seal, seal'.t # NoTxn
    PROVE  LET r == txn[seal'.t] IN
           /\ WorkPackage(seal'.t) = r.verified
           /\ \A s \in r.changed \cap Source : seal'.pkg[s] = r.verified.work[<<s, "runtime">>]
<1> USE DEF corpus, author, bounds
<1>1. \/ \E p \in Proc : SealWrite(p)
      \/ \E p \in Proc : WriteSeal(p)
      \/ UNCHANGED seal
  <2>1. CASE Environment
    BY <2>1 DEF Environment, EditWork, CompleteAudit, OperatorCopies, ExpirePermit, Drift, WorkspaceHeartbeat
  <2>2. ASSUME NEW p \in Proc, Commands(p) PROVE UNCHANGED seal
    <3>1. SealCheck(p) => UNCHANGED seal BY DEF SealCheck
    <3>2. \A t \in Txn, S \in SUBSET Source, D \in SUBSET Doc : Checkout(p, t, S, D) => UNCHANGED seal
      BY DEF Checkout
    <3>3. \A t \in Txn, D \in SUBSET Doc : IncludeDocuments(p, t, D) => UNCHANGED seal BY DEF IncludeDocuments
    <3>4. ASSUME NEW t \in Txn
          PROVE  \/ MetadataPlan(p, t) \/ PrepareRefused(p, t) \/ PrepareBlocked(p, t) \/ Prepare(p, t)
                 \/ MetadataCheck(p, t) \/ VerifyCheck(p, t) \/ ApplyCheck(p, t)
                 => UNCHANGED seal
      BY DEF MetadataPlan, PrepareRefused, PrepareBlocked, Prepare, MetadataCheck, VerifyCheck, ApplyCheck
    <3>5. ASSUME NEW t \in Txn
          PROVE  \/ Abort(p, t) \/ StaleAbort(p, t) \/ AuthorityCheck(p, t) \/ RetireOrphan(p, t)
                 \/ RecoverBaseline(p, t) \/ RecoverTarget(p, t) \/ RecoverReceipt(p, t)
                 => UNCHANGED seal
      BY DEF Abort, StaleAbort, AuthorityCheck, RetireOrphan, RecoverBaseline, RecoverTarget, RecoverReceipt
    <3> QED BY <2>2, <3>1, <3>2, <3>3, <3>4, <3>5 DEF Commands
  <2>3. ASSUME NEW p \in Proc, Failure(p) PROVE UNCHANGED seal
    BY <2>3 DEF Failure, WriteFails, SealingFails, Crash
  <2>4. ASSUME NEW p \in Proc, Step(p) PROVE SealWrite(p) \/ WriteSeal(p) \/ UNCHANGED seal
    BY <2>4 DEF Step, Acquire, Materialise, VerifySave, AuthoritySave, Backup, IssuePermit, ApplyStart,
         WriteFile, Heartbeat, Postcheck, SavePostcheck, SaveRecoveryRequired, FinishCheck, WriteReceipt,
         CommitReceipt, ReleaseFinished, RollbackFile, RollbackDone, Revoke, SaveEnd, Unlease, CheckoutFails,
         HeartbeatFails, RevokeFails
  <2>5. CASE UNCHANGED vars BY <2>5 DEF vars
  <2> QED BY <2>1, <2>2, <2>3, <2>4, <2>5 DEF Next
<1>2. PICK p \in Proc : WriteSeal(p) BY <1>1 DEF SealWrite
<1>3. proc[p].pc = "write_seal" /\ seal' = [pkg |-> proc[p].pkg, t |-> proc[p].t]
  BY <1>2 DEF WriteSeal, At
<1>4. Holds("write_seal", proc[p].mem, proc[p].pkg, txn[proc[p].t], WorkPackage(proc[p].t))
  BY <1>3 DEF Steady, ProcHolds, Loaded, Pc
<1>5. WorkPackage(proc[p].t) = txn[proc[p].t].verified BY <1>4 DEF Holds, Approving
<1>6. \A s \in txn[proc[p].t].changed \cap Source :
         proc[p].pkg[s] = txn[proc[p].t].verified.work[<<s, "runtime">>]
  BY <1>4, <1>5 DEF Holds
<1> QED BY <1>3, <1>5, <1>6

(* The agreement of memory, record and work directory is an invariant.     *)
THEOREM SteadyInvariant ==
    ASSUME QuiescentAuthor PROVE Spec /\ CommandsInTurn => [](TypeOK /\ Backed /\ InTurn /\ Steady)
<1>1. Init => TypeOK /\ Backed /\ InTurn /\ Steady BY InitTyped, InitTurn, InitSteady
<1>2. TypeOK /\ Backed /\ InTurn /\ Steady /\ [Next]_vars /\ [Starting]_vars
        => (TypeOK /\ Backed /\ InTurn /\ Steady)'
  BY NextTyped, NextTurn, NextSteady
<1> QED BY <1>1, <1>2, PTL DEF Spec, CommandsInTurn

(* The seal an apply or a recovery writes is the package that was verified *)
(* for this very work directory.                                           *)
THEOREM SealsWhatWasVerified ==
    ASSUME QuiescentAuthor PROVE Spec /\ CommandsInTurn => SealedWasVerified
<1> DEFINE Sealing == seal' # seal /\ seal'.t # NoTxn =>
                        LET r == txn[seal'.t] IN
                        /\ WorkPackage(seal'.t) = r.verified
                        /\ \A s \in r.changed \cap Source : seal'.pkg[s] = r.verified.work[<<s, "runtime">>]
<1>1. TypeOK /\ Backed /\ InTurn /\ Steady /\ [Next]_vars => [Sealing]_vars BY SealStep
<1> QED BY <1>1, SteadyInvariant, PTL DEF Spec, SealedWasVerified

-----------------------------------------------------------------------------
(* Part two.  How the live corpus, its projection, the preimages, the      *)
(* permits and the seal follow from where the owner of the lease is.       *)

Mirror(B, L) == \A m \in Managed : B[m] = L[ManagedFile(m)]

\* The corpus L and the projection B of a verified corpus and projected documents.
Clean(B, L) ==
    /\ \A s \in Source, k \in Kind : L[<<s, k>>] \in Content /\ L[<<s, k>>] = L[<<s, "runtime">>]
    /\ \A d \in Doc : L[d] \in Content
    /\ Mirror(B, L)

\* Corpus and projection are the baseline that r copied.
Restored(r, B, L) == (\A f \in File : L[f] = r.copy[f]) /\ Mirror(B, r.copy)

\* The baseline that r copied is the verified package it recorded.
Sources(r) ==
    /\ r.pkg \in [Source -> Content]
    /\ \A s \in Source, k \in Kind : r.copy[<<s, k>>] = r.pkg[s]
    /\ \A d \in Doc : r.copy[d] \in Content

(* The owner of the lease has record r, preimages b and a permit in state  *)
(* a: until it is consumed, nothing of what was written was promoted.      *)
TxnBase(r, B, L, b, a) ==
    /\ r.state \in PreApply => Sources(r) /\ Restored(r, B, L)
    /\ r.state \in Mutating =>
         /\ Sources(r) /\ b = r.copy /\ r.permit
         /\ \A f \in File \ Targets(r.changed) : L[f] = r.copy[f]
         /\ \A m \in Managed \ r.changed : B[m] = r.copy[ManagedFile(m)]
         /\ a = "active" => Mirror(B, r.copy)

\* A transaction that sealed its result or ended has no active permit.
Ending(r, a, sealed) ==
    /\ sealed => a # "active" /\ r.state \in Mutating \cup {"POSTCHECK_VERIFIED"}
    /\ r.permit /\ r.state \in {"ROLLED_BACK", "POSTCHECK_VERIFIED"} => a # "active"

(* What a process at step c, with record m in memory and the files "todo"  *)
(* still to write, may rely on.                                            *)
Works(c, m, todo, bad, r, B, L, b, a, sealed, quiet) ==
    /\ c \in {"acquire", "materialise"} => (quiet => m.pkg = [s \in Source |-> L[<<s, "runtime">>]])
    /\ c = "authority" => m.state = "ABORTED_STALE_BASELINE"
    /\ c \in {"permit", "start"} => b = r.copy
    /\ c \in {"write", "rollback"} => todo \subseteq Targets(r.changed)
    /\ c = "rollback" /\ ~bad => \A f \in Targets(r.changed) \ todo : L[f] = r.copy[f]
    /\ c = "revoke" => \A f \in File : L[f] = r.copy[f]
    /\ c \in {"write_seal", "save_post"} => Clean(B, L) /\ a # "active"
    /\ c = "save_end" =>
         /\ m.state \in {"ABORTED", "ROLLED_BACK"} => Restored(r, B, L)
         /\ m.state = "ROLLED_BACK" => ~sealed /\ (m.permit => a # "active")
         /\ m.state # "ROLLED_BACK" => r.state \notin Mutating

Quiet == \A t \in Txn : txn[t].state \notin Mutating

ProcWorks(p) ==
    Works(proc[p].pc, proc[p].mem, proc[p].todo, proc[p].bad, txn[proc[p].t], db, live,
          rollback[proc[p].t], permit[proc[p].t], seal.t = proc[p].t, Quiet)

Base ==
    /\ Quiet => Clean(db, live)
    /\ \A t \in Txn : lease = t => TxnBase(txn[t], db, live, rollback[t], permit[t])
    /\ \A t \in Txn : Ending(txn[t], permit[t], seal.t = t)
    /\ \A p \in Proc : proc[p].pc \in Loaded => ProcWorks(p)

-----------------------------------------------------------------------------
(* The forms a step takes.  A process changes nothing but its lease, the   *)
(* seal, or what only it reads.                                            *)
LEMMA BaseKept ==
    ASSUME InTurn, Base, NEW p \in Proc, \A q \in Proc \ {p} : Resting(q),
           \A q \in Proc \ {p} : proc'[q] = proc[q],
           UNCHANGED <<live, db, txn, rollback, permit>>,
           \A u \in Txn : seal'.t = u => seal.t = u,
           \A u \in Txn : lease' = u => lease = u \/ txn[u].state = "NONE",
           proc'[p].pc \in Loaded => ProcWorks(p)'
    PROVE  Base'
<1>1. Quiet' => Clean(db, live)' BY DEF Base, Quiet
<1>2. ASSUME NEW u \in Txn, lease' = u PROVE TxnBase(txn[u], db, live, rollback[u], permit[u])'
  <2>1. CASE lease = u BY <2>1 DEF Base
  <2>2. CASE txn[u].state = "NONE" BY <2>2 DEF TxnBase, PreApply, Mutating
  <2> QED BY <1>2, <2>1, <2>2
<1>3. ASSUME NEW u \in Txn PROVE Ending(txn[u], permit[u], seal.t = u)' BY DEF Base, Ending
<1>4. ASSUME NEW q \in Proc, proc'[q].pc \in Loaded PROVE ProcWorks(q)' BY <1>4 DEF Resting, Loaded
<1> QED BY <1>1, <1>2, <1>3, <1>4 DEF Base

\* A process saves r as the record of t.
LEMMA BaseSaves ==
    ASSUME TypeOK, InTurn, Base, NEW p \in Proc, \A q \in Proc \ {p} : Resting(q),
           \A q \in Proc \ {p} : proc'[q] = proc[q],
           NEW t \in Txn, NEW r, txn' = [txn EXCEPT ![t] = r],
           UNCHANGED <<live, db, rollback, permit, seal>>, lease' \in {lease, NoTxn},
           r.state \in Mutating \/ txn[t].state \notin Mutating \/ Clean(db, live),
           lease = t => TxnBase(r, db, live, rollback[t], permit[t]),
           Ending(r, permit[t], seal.t = t),
           proc'[p].pc \in Loaded => ProcWorks(p)'
    PROVE  Base'
<1>0. txn'[t] = r /\ \A u \in Txn \ {t} : txn'[u] = txn[u] BY DEF TypeOK
<1>1. Quiet' => Clean(db, live)' BY <1>0 DEF Base, Quiet
<1>2. ASSUME NEW u \in Txn, lease' = u PROVE TxnBase(txn[u], db, live, rollback[u], permit[u])'
  <2>1. lease = u BY <1>2, ConstantsOK
  <2> QED BY <1>0, <2>1 DEF Base
<1>3. ASSUME NEW u \in Txn PROVE Ending(txn[u], permit[u], seal.t = u)' BY <1>0 DEF Base
<1>4. ASSUME NEW q \in Proc, proc'[q].pc \in Loaded PROVE ProcWorks(q)' BY <1>4 DEF Resting, Loaded
<1> QED BY <1>1, <1>2, <1>3, <1>4 DEF Base

\* A process writes files, rows, permits or the seal for the owner of the lease.
LEMMA BaseWrites ==
    ASSUME InTurn, Base, NEW p \in Proc, \A q \in Proc \ {p} : Resting(q),
           \A q \in Proc \ {p} : proc'[q] = proc[q],
           NEW t \in Txn, lease = t, UNCHANGED <<txn, lease>>,
           \A u \in Txn \ {t} : permit'[u] = permit[u] /\ (seal'.t = u => seal.t = u),
           txn[t].state \in Mutating \/ UNCHANGED <<live, db>>,
           TxnBase(txn[t], db', live', rollback'[t], permit'[t]),
           Ending(txn[t], permit'[t], seal'.t = t),
           proc'[p].pc \in Loaded => ProcWorks(p)'
    PROVE  Base'
<1>1. Quiet' => Clean(db, live)' BY DEF Base, Quiet
<1>2. ASSUME NEW u \in Txn, lease' = u PROVE TxnBase(txn[u], db, live, rollback[u], permit[u])' BY <1>2
<1>3. ASSUME NEW u \in Txn PROVE Ending(txn[u], permit[u], seal.t = u)'
  <2>1. CASE u = t BY <2>1
  <2>2. CASE u # t
    <3>1. Ending(txn[u], permit[u], seal.t = u) BY DEF Base
    <3> QED BY <2>2, <3>1 DEF Ending
  <2> QED BY <2>1, <2>2
<1>4. ASSUME NEW q \in Proc, proc'[q].pc \in Loaded PROVE ProcWorks(q)' BY <1>4 DEF Resting, Loaded
<1> QED BY <1>1, <1>2, <1>3, <1>4 DEF Base

\* Nobody runs and a record is revised at once.
LEMMA BaseRevises ==
    ASSUME TypeOK, InTurn, Base, \A q \in Proc : Resting(q), NEW t \in Txn, NEW r,
           txn' = [txn EXCEPT ![t] = r], UNCHANGED <<live, db, rollback, permit, seal, lease, proc>>,
           txn[t].state \in PreApply, r.state \in PreApply \cup {"ABORTED_ORPHANED_CHECKOUT"},
           lease = t => TxnBase(r, db, live, rollback[t], permit[t])
    PROVE  Base'
<1>0. txn'[t] = r /\ \A u \in Txn \ {t} : txn'[u] = txn[u] BY DEF TypeOK
<1>1. Quiet' => Clean(db, live)' BY <1>0 DEF Base, Quiet, PreApply, Mutating
<1>2. ASSUME NEW u \in Txn, lease' = u PROVE TxnBase(txn[u], db, live, rollback[u], permit[u])'
  BY <1>0, <1>2 DEF Base
<1>3. Ending(r, permit[t], seal.t = t)
  <2>1. Ending(txn[t], permit[t], seal.t = t) BY DEF Base
  <2> QED BY <2>1 DEF Ending, PreApply, Mutating
<1>4. ASSUME NEW u \in Txn PROVE Ending(txn[u], permit[u], seal.t = u)' BY <1>0, <1>3 DEF Base
<1>5. \A q \in Proc : proc'[q].pc \notin Loaded BY DEF Resting, Loaded
<1> QED BY <1>1, <1>2, <1>4, <1>5 DEF Base

\* How the clauses of a record carry over.
LEMMA BaseOpen ==
    ASSUME NEW r, NEW n, NEW B, NEW L, NEW b, NEW a, TxnBase(r, B, L, b, a), r.state \in PreApply,
           n.state \in PreApply, n.pkg = r.pkg, n.copy = r.copy
    PROVE  TxnBase(n, B, L, b, a)
<1>1. n.state \notin Mutating BY DEF PreApply, Mutating
<1> QED BY <1>1 DEF TxnBase, Sources, Restored

\* A record saved again while its files are being written.
LEMMA BaseMutating ==
    ASSUME NEW r, NEW n, NEW B, NEW L, NEW b, NEW a, TxnBase(r, B, L, b, a), r.state \in Mutating,
           n.state \in Mutating, n.pkg = r.pkg, n.copy = r.copy, n.changed = r.changed, n.permit = r.permit
    PROVE  TxnBase(n, B, L, b, a)
<1>1. n.state \notin PreApply BY DEF PreApply, Mutating
<1> QED BY <1>1 DEF TxnBase, Sources, Restored

\* Losing the permit, or any capture before apply, disturbs nothing.
LEMMA BaseWeakens ==
    ASSUME NEW r, NEW B, NEW L, NEW b, NEW b2, NEW a, NEW a2, TxnBase(r, B, L, b, a),
           r.state \in Mutating => b2 = b /\ (a2 = "active" => a = "active")
    PROVE  TxnBase(r, B, L, b2, a2)
BY DEF TxnBase

\* Nothing is claimed for a record that is neither open nor being applied.
LEMMA BaseClosed ==
    ASSUME NEW r, NEW B, NEW L, NEW b, NEW a, r.state \notin PreApply \cup Mutating PROVE TxnBase(r, B, L, b, a)
BY DEF TxnBase

\* A restored baseline is a verified corpus.
LEMMA RestoredIsClean ==
    ASSUME NEW r, NEW B, NEW L, Sources(r), Restored(r, B, L) PROVE Clean(B, L)
<1>1. \A s \in Source, k \in Kind : <<s, k>> \in File BY DEF File
<1>2. \A d \in Doc : d \in File BY DEF File
<1>3. \A m \in Managed : ManagedFile(m) \in File BY DEF Managed, ManagedFile, File, Kind
<1>4. "runtime" \in Kind BY DEF Kind
<1>5. \A s \in Source, k \in Kind : L[<<s, k>>] \in Content /\ L[<<s, k>>] = L[<<s, "runtime">>]
  BY <1>1, <1>4 DEF Sources, Restored
<1>6. \A d \in Doc : L[d] \in Content BY <1>2 DEF Sources, Restored
<1>7. Mirror(B, L) BY <1>3 DEF Restored, Mirror
<1> QED BY <1>5, <1>6, <1>7 DEF Clean

\* A clean corpus passes the checks of the commands.
LEMMA CleanIsVerified ==
    ASSUME Clean(db, live) PROVE CorpusVerified /\ Unreconciled = {} /\ \A d \in Doc : DocProjected(d)
<1>1. \A s \in Source : s \notin Doc BY ConstantsOK
<1>2. {"runtime", "managed"} \subseteq Kind BY DEF Kind
<1>3. \A s \in Source : db[s] = live[<<s, "managed">>] BY <1>1 DEF Clean, Mirror, Managed, ManagedFile
<1>4. \A s \in Source : SourceSynced(s) BY <1>2, <1>3 DEF Clean, SourceSynced
<1>5. \A d \in Doc : DocProjected(d) BY DEF Clean, Mirror, Managed, ManagedFile, DocProjected
<1> QED BY <1>4, <1>5 DEF CorpusVerified, Clean, Mirror, Unreconciled

\* A restored baseline passes the baseline check.
LEMMA RestoredIsBaseline ==
    ASSUME NEW r \in Record, Sources(r), Restored(r, db, live) PROVE AtBaseline(r)
<1>1. Clean(db, live) BY RestoredIsClean
<1>2. \A s \in Source : <<s, "runtime">> \in File /\ "runtime" \in Kind BY DEF File, Kind
<1>3. Manifest = r.pkg BY <1>2 DEF Manifest, Sources, Restored
<1>4. r.docs \subseteq Doc /\ Doc \subseteq File BY DEF Record, File
<1> QED BY <1>1, <1>3, <1>4, CleanIsVerified DEF AtBaseline, Restored

\* A document that is not in the package is not written.
LEMMA OutsideTargets ==
    ASSUME NEW c \in SUBSET Managed, NEW d \in Doc, d \notin c PROVE d \in File \ Targets(c)
<1>1. d \in File BY DEF File
<1>2. d \notin (c \cap Source) \X Kind BY DocsApart
<1> QED BY <1>1, <1>2 DEF Targets

\* A changed corpus that verifies again and agrees with the baseline is the baseline.
LEMMA BaselineIsRestored ==
    ASSUME NEW r \in Record, NEW b, NEW a, TxnBase(r, db, live, b, a), r.state \in Mutating,
           r.changed \cap Doc \subseteq r.docs, AtBaseline(r)
    PROVE  Restored(r, db, live)
<1>1. Sources(r) BY DEF TxnBase
<1>2. \A s \in Source : s \notin Doc BY ConstantsOK
<1>3. {"runtime", "managed"} \subseteq Kind BY DEF Kind
<1>4. ASSUME NEW s \in Source, NEW k \in Kind
      PROVE  live[<<s, k>>] = r.copy[<<s, k>>] /\ db[s] = r.copy[<<s, "managed">>]
  <2>1. SourceSynced(s) /\ Manifest = r.pkg BY DEF AtBaseline, CorpusVerified
  <2>2. live[<<s, k>>] = live[<<s, "runtime">>] /\ db[s] = live[<<s, "runtime">>] BY <2>1 DEF SourceSynced
  <2>3. r.pkg[s] = live[<<s, "runtime">>] BY <2>1 DEF Manifest
  <2> QED BY <1>1, <1>3, <2>2, <2>3 DEF Sources
<1>5. ASSUME NEW d \in Doc PROVE live[d] = r.copy[d] /\ db[d] = r.copy[d]
  <2>1. CASE d \in r.docs BY <2>1 DEF AtBaseline, DocProjected
  <2>2. CASE d \notin r.docs
    <3>1. d \notin r.changed /\ r.changed \in SUBSET Managed BY <2>2 DEF Record
    <3>2. d \in File \ Targets(r.changed) BY <3>1, OutsideTargets
    <3>3. d \in Managed \ r.changed BY <3>1 DEF Managed
    <3> QED BY <3>2, <3>3 DEF TxnBase, ManagedFile
  <2> QED BY <2>1, <2>2
<1>6. ASSUME NEW f \in File PROVE live[f] = r.copy[f]
  <2>1. CASE f \in Source \X Kind
    <3>1. PICK s \in Source, k \in Kind : f = <<s, k>> BY <2>1
    <3> QED BY <1>4, <3>1
  <2> QED BY <1>5, <2>1 DEF File
<1>7. Mirror(db, r.copy) BY <1>2, <1>3, <1>4, <1>5 DEF Mirror, Managed, ManagedFile
<1> QED BY <1>6, <1>7 DEF Restored

(* What postcheck and a recovery of the result look at: the corpus is the  *)
(* verified package, it is projected, and the permit was consumed for it.  *)
LEMMA ResultIsClean ==
    ASSUME NEW t \in Txn, NEW r \in Record, NEW b, NEW a, TxnBase(r, db, live, b, a), r.state \in Mutating,
           Differs(r), r.prepared # None, WorkPackage(t) = r.prepared,
           CorpusVerified, LiveIsWork(t, r)
    PROVE  Clean(db, live) /\ a # "active"
<1>1. /\ Sources(r) /\ r.changed # {} /\ r.changed \subseteq Managed /\ r.changed \cap Doc \subseteq r.docs
      /\ \A s \in r.changed \cap Source : work[t][<<s, "runtime">>] # r.copy[<<s, "runtime">>]
      /\ \A d \in r.changed \cap Doc : work[t][d] # r.copy[d]
  BY DEF TxnBase, Differs, WorkPackage, Record
<1>2. \A s \in Source : s \notin Doc BY ConstantsOK
<1>3. {"runtime", "managed"} \subseteq Kind BY DEF Kind
<1>4. \A s \in Source : /\ db[s] = live[<<s, "runtime">>] /\ live[<<s, "runtime">>] \in Content
                        /\ \A k \in Kind : live[<<s, k>>] = live[<<s, "runtime">>]
  BY DEF CorpusVerified, SourceSynced
<1>5. ASSUME NEW d \in Doc PROVE live[d] \in Content /\ db[d] = live[d]
  <2>1. CASE d \in r.docs BY <2>1 DEF LiveIsWork, DocProjected
  <2>2. CASE d \notin r.docs
    <3>1. d \notin r.changed BY <1>1, <2>2
    <3>2. d \in File \ Targets(r.changed) BY <1>1, <3>1, OutsideTargets
    <3>3. d \in Managed \ r.changed BY <3>1 DEF Managed
    <3> QED BY <1>1, <3>2, <3>3 DEF TxnBase, ManagedFile, Sources
  <2> QED BY <2>1, <2>2
<1>6. Mirror(db, live) BY <1>2, <1>3, <1>4, <1>5 DEF Mirror, Managed, ManagedFile
<1>7. Clean(db, live) BY <1>4, <1>5, <1>6 DEF Clean
<1>8. ASSUME a = "active" PROVE FALSE
  <2>1. Mirror(db, r.copy) BY <1>8 DEF TxnBase
  <2>2. PICK x \in r.changed : TRUE BY <1>1
  <2>3. CASE x \in Source
    <3>1. db[x] = r.copy[<<x, "managed">>] BY <1>2, <2>1, <2>3 DEF Mirror, Managed, ManagedFile
    <3>2. r.copy[<<x, "managed">>] = r.copy[<<x, "runtime">>] BY <1>1, <1>3, <2>3 DEF Sources
    <3>3. live[<<x, "runtime">>] = work[t][<<x, "runtime">>] BY <2>2, <2>3 DEF LiveIsWork
    <3> QED BY <1>1, <1>4, <2>2, <2>3, <3>1, <3>2, <3>3
  <2>4. CASE x \in Doc
    <3>1. db[x] = r.copy[x] BY <2>1, <2>4 DEF Mirror, Managed, ManagedFile
    <3>2. db[x] = work[t][x] BY <1>1, <2>2, <2>4 DEF LiveIsWork, DocProjected
    <3> QED BY <1>1, <2>2, <2>4, <3>1, <3>2
  <2> QED BY <1>1, <2>2, <2>3, <2>4 DEF Managed
<1> QED BY <1>7, <1>8

\* A heartbeat promotes nothing outside the scope, and within it spends the permit.
LEMMA HeartbeatScoped ==
    ASSUME NEW r \in Record, NEW b, NEW a, NEW a2, TxnBase(r, db, live, b, a), r.state \in Mutating,
           NEW ms, ms \subseteq Unreconciled, db' = Promoted(ms),
           a2 = "active" => a = "active" /\ Unreconciled \cap r.changed = {}
    PROVE  TxnBase(r, db', live, b, a2) /\ Unreconciled \subseteq r.changed
<1>1. ASSUME NEW m \in Managed \ r.changed PROVE m \notin Unreconciled
  <2>1. r.changed \in SUBSET Managed BY DEF Record
  <2>2. ManagedFile(m) \in File \ Targets(r.changed)
    <3>1. CASE m \in Doc BY <1>1, <2>1, <3>1, OutsideTargets DEF ManagedFile
    <3>2. CASE m \in Source
      <4>1. ManagedFile(m) = <<m, "managed">> BY <3>2, ConstantsOK DEF ManagedFile
      <4>2. <<m, "managed">> \in Source \X Kind BY <3>2 DEF Kind
      <4>3. <<m, "managed">> \notin (r.changed \cap Source) \X Kind BY <1>1
      <4>4. <<m, "managed">> \notin Doc BY <4>2, DocsApart
      <4> QED BY <4>1, <4>2, <4>3, <4>4 DEF File, Targets
    <3> QED BY <1>1, <3>1, <3>2 DEF Managed
  <2> QED BY <1>1, <2>2 DEF TxnBase, Unreconciled
<1>2. Unreconciled \subseteq r.changed BY <1>1 DEF Unreconciled
<1>3. \A m \in Managed \ ms : db'[m] = db[m] BY DEF Promoted
<1>4. \A m \in Managed \ r.changed : db'[m] = r.copy[ManagedFile(m)] BY <1>2, <1>3 DEF TxnBase
<1>5. a2 = "active" => Mirror(db', r.copy)
  <2>1. a2 = "active" => ms = {} /\ Mirror(db, r.copy) BY <1>2 DEF TxnBase
  <2> QED BY <1>3, <2>1 DEF Mirror
<1>6. r.state \notin PreApply BY DEF PreApply, Mutating
<1> QED BY <1>2, <1>4, <1>5, <1>6 DEF TxnBase

\* A command starts, or saves at once.
LEMMA CommandsBase ==
    ASSUME TypeOK, Backed, Bound, InTurn, Steady, Base, NEW p \in Proc, Commands(p), Starting PROVE Base'
<1> USE DEF corpus, author, bounds
<1>0. /\ proc \in Procs /\ txn \in Txns /\ (\A u \in Txn : txn[u] \in Record)
      /\ \A q \in Proc : Resting(q)
      /\ \A u \in Txn : lease = u => TxnBase(txn[u], db, live, rollback[u], permit[u])
      /\ \A u \in Txn : Ending(txn[u], permit[u], seal.t = u)
  BY DEF TypeOK, Procs, Txns, Starting, Base
<1>1. CASE SealCheck(p)
  <2>1. proc'[p].pc = "seal" /\ \A q \in Proc \ {p} : proc'[q] = proc[q]
    BY <1>0, <1>1 DEF SealCheck, Procs, Process
  <2>2. proc'[p].pc \notin Loaded BY <2>1 DEF Loaded
  <2> QED BY <1>0, <1>1, <2>1, <2>2, BaseKept DEF SealCheck
<1>2. ASSUME NEW t \in Txn, NEW c \in Loaded, NEW m, UNCHANGED <<live, db, txn, rollback, permit, seal, lease>>,
             proc'[p].pc = c, proc'[p].t = t, proc'[p].mem = m, \A q \in Proc \ {p} : proc'[q] = proc[q],
             \A T, b : Works(c, m, T, b, txn[t], db, live, rollback[t], permit[t], seal.t = t, Quiet)
      PROVE  Base'
  <2>1. ProcWorks(p)' BY <1>2 DEF ProcWorks, Quiet
  <2> QED BY <1>0, <1>2, <2>1, BaseKept
<1>3. ASSUME NEW t \in Txn, NEW c, NEW m, proc' = [proc EXCEPT ![p].pc = c, ![p].t = t, ![p].mem = m]
      PROVE  /\ proc'[p].pc = c /\ proc'[p].t = t /\ proc'[p].mem = m
             /\ \A q \in Proc \ {p} : proc'[q] = proc[q]
  BY <1>0, <1>3 DEF Procs, Process
<1>4. ASSUME NEW t \in Txn, NEW S \in SUBSET Source, NEW D \in SUBSET Doc, Checkout(p, t, S, D)
      PROVE  Base'
  <2> DEFINE m == [NoRecord EXCEPT !.state = "CHECKED_OUT", !.sources = S, !.docs = D, !.pkg = Manifest]
  <2>1. m.pkg = [s \in Source |-> live[<<s, "runtime">>]] BY DEF NoRecord, Manifest
  <2>2. /\ proc' = [proc EXCEPT ![p].pc = "acquire", ![p].t = t, ![p].mem = m]
        /\ UNCHANGED <<live, db, txn, rollback, permit, seal, lease>>
    BY <1>4 DEF Checkout
  <2> HIDE DEF m
  <2>3. \A T, b : Works("acquire", m, T, b, txn[t], db, live, rollback[t], permit[t], seal.t = t, Quiet)
    BY <2>1 DEF Works
  <2> QED BY <1>2, <1>3, <2>2, <2>3 DEF Loaded, Pc
(* The commands that save at once.                                         *)
<1>5. ASSUME NEW t \in Txn, NEW r, txn' = [txn EXCEPT ![t] = r], lease = t, txn[t].state \in PreApply,
             UNCHANGED <<live, db, rollback, permit, seal, lease, proc>>,
             r.state \in PreApply, r.pkg = txn[t].pkg, r.copy = txn[t].copy
      PROVE  Base'
  <2>1. TxnBase(r, db, live, rollback[t], permit[t]) BY <1>0, <1>5, BaseOpen
  <2> QED BY <1>0, <1>5, <2>1, BaseRevises
<1>6. ASSUME NEW t \in Txn, NEW D \in SUBSET Doc, IncludeDocuments(p, t, D) PROVE Base'
  <2> DEFINE o == Reopened(txn[t])
             r == [o EXCEPT !.docs = @ \cup D,
                            !.copy = [f \in File |-> IF f \in D THEN live[f] ELSE @[f]]]
  <2>1. /\ txn' = [txn EXCEPT ![t] = r] /\ lease = t /\ txn[t].state \in PreApply
        /\ UNCHANGED <<live, db, rollback, permit, seal, lease, proc>>
    BY <1>6 DEF IncludeDocuments, Command
  <2>2. o \in Record /\ o.state = "CHECKED_OUT" /\ o.pkg = txn[t].pkg /\ o.copy = txn[t].copy
    BY <1>0, <2>1, RevisedFields, ReopenedSame, RecReopened
  <2>3. /\ r.state = "CHECKED_OUT" /\ r.pkg = o.pkg
        /\ r.copy = [f \in File |-> IF f \in D THEN live[f] ELSE o.copy[f]]
    <3> HIDE DEF o
    <3> QED BY <2>2 DEF Record
  <2> HIDE DEF o, r
  <2>4. Sources(txn[t]) /\ Restored(txn[t], db, live) BY <1>0, <2>1 DEF TxnBase
  <2>5. \A f \in File : r.copy[f] = txn[t].copy[f] BY <2>2, <2>3, <2>4 DEF Restored
  <2>6. \A m \in Managed : ManagedFile(m) \in File BY DEF Managed, ManagedFile, File, Kind
  <2>7. Restored(r, db, live) BY <2>4, <2>5, <2>6 DEF Restored, Mirror
  <2>8. \A s \in Source, k \in Kind : <<s, k>> \in File BY DEF File
  <2>9. Sources(r)
    <3>1. r.pkg = txn[t].pkg BY <2>2, <2>3
    <3>2. \A s \in Source, k \in Kind : r.copy[<<s, k>>] = r.pkg[s] BY <2>4, <2>5, <2>8, <3>1 DEF Sources
    <3>3. \A d \in Doc : d \in File BY DEF File
    <3>4. \A d \in Doc : r.copy[d] \in Content BY <2>4, <2>5, <3>3 DEF Sources
    <3> QED BY <2>4, <3>1, <3>2, <3>4 DEF Sources
  <2>10. r.state \in PreApply /\ r.state \notin Mutating BY <2>3 DEF PreApply, Mutating
  <2>11. TxnBase(r, db, live, rollback[t], permit[t]) BY <2>7, <2>9, <2>10 DEF TxnBase
  <2> QED BY <1>0, <2>1, <2>10, <2>11, BaseRevises
<1>7. ASSUME NEW t \in Txn, MetadataPlan(p, t) PROVE Base'
  <2>1. /\ txn' = [txn EXCEPT ![t] = Reopened(txn[t])] /\ lease = t /\ txn[t].state \in PreApply
        /\ UNCHANGED <<live, db, rollback, permit, seal, lease, proc>>
    BY <1>7 DEF MetadataPlan, Command
  <2>2. Reopened(txn[t]).state \in PreApply BY <1>0, <2>1, RevisedFields DEF PreApply
  <2> QED BY <1>0, <1>5, <2>1, <2>2, ReopenedSame
<1>8. ASSUME NEW t \in Txn, txn[t].state \in PreApply
      PROVE  /\ Unapproved(txn[t]) \in Record /\ Unapproved(txn[t]).state \in PreApply
             /\ Unapproved(txn[t]).pkg = txn[t].pkg /\ Unapproved(txn[t]).copy = txn[t].copy
  BY <1>0, <1>8, RevisedFields, UnapprovedSame, RecReopened
<1>9. ASSUME NEW t \in Txn, PrepareRefused(p, t) PROVE Base'
  <2>1. /\ txn' = [txn EXCEPT ![t] = Unapproved(txn[t])] /\ lease = t /\ txn[t].state \in PreApply
        /\ UNCHANGED <<live, db, rollback, permit, seal, lease, proc>>
    BY <1>9 DEF PrepareRefused, PrepareCommand, Command
  <2> QED BY <1>5, <1>8, <2>1
<1>10. ASSUME NEW t \in Txn, PrepareBlocked(p, t) PROVE Base'
  <2> DEFINE u == Unapproved(txn[t])
             r == [u EXCEPT !.state = "AWAITING_METADATA_REVIEW"]
  <2>1. /\ txn' = [txn EXCEPT ![t] = r] /\ lease = t /\ txn[t].state \in PreApply
        /\ UNCHANGED <<live, db, rollback, permit, seal, lease, proc>>
    BY <1>10 DEF PrepareBlocked, PrepareCommand, Command
  <2>2. u \in Record /\ u.pkg = txn[t].pkg /\ u.copy = txn[t].copy BY <1>8, <2>1
  <2>3. r.state = "AWAITING_METADATA_REVIEW" /\ r.pkg = u.pkg /\ r.copy = u.copy
    <3> HIDE DEF u
    <3> QED BY <2>2 DEF Record
  <2> HIDE DEF u, r
  <2> QED BY <1>5, <2>1, <2>2, <2>3 DEF PreApply
<1>11. ASSUME NEW t \in Txn, Prepare(p, t) PROVE Base'
  <2> DEFINE u == Unapproved(txn[t])
             c == ChangedSources(t, txn[t]) \cup ChangedDocs(t, txn[t])
             k == [work |-> Regenerated(t, txn[t]), audit |-> audit[t]]
             r == [u EXCEPT !.state = "PREPARED", !.changed = c, !.prepared = k]
  <2>1. /\ txn' = [txn EXCEPT ![t] = r] /\ lease = t /\ txn[t].state \in PreApply
        /\ UNCHANGED <<live, db, rollback, permit, seal, lease, proc>>
    BY <1>11 DEF Prepare, PrepareCommand, Command
  <2>2. u \in Record /\ u.pkg = txn[t].pkg /\ u.copy = txn[t].copy BY <1>8, <2>1
  <2>3. r.state = "PREPARED" /\ r.pkg = u.pkg /\ r.copy = u.copy
    <3> HIDE DEF u, c, k
    <3> QED BY <2>2 DEF Record
  <2> HIDE DEF u, r
  <2> QED BY <1>5, <2>1, <2>2, <2>3 DEF PreApply
<1>12. ASSUME NEW t \in Txn, MetadataCheck(p, t) PROVE Base'
  <2> DEFINE r == [txn[t] EXCEPT !.checked = WorkPackage(t)]
  <2>1. /\ txn' = [txn EXCEPT ![t] = r] /\ lease = t /\ txn[t].state \in PreApply
        /\ UNCHANGED <<live, db, rollback, permit, seal, lease, proc>>
    BY <1>0, <1>12 DEF MetadataCheck, Command, Txns, PreApply
  <2>2. r.state = txn[t].state /\ r.pkg = txn[t].pkg /\ r.copy = txn[t].copy BY <1>0 DEF Record
  <2> HIDE DEF r
  <2> QED BY <1>5, <2>1, <2>2
<1>13. ASSUME NEW t \in Txn, RetireOrphan(p, t) PROVE Base'
  <2> DEFINE r == [txn[t] EXCEPT !.state = "ABORTED_ORPHANED_CHECKOUT"]
  <2>1. /\ txn' = [txn EXCEPT ![t] = r] /\ lease # t /\ txn[t].state \in PreApply
        /\ UNCHANGED <<live, db, rollback, permit, seal, lease, proc>>
    BY <1>13, ConstantsOK DEF RetireOrphan
  <2>2. r.state = "ABORTED_ORPHANED_CHECKOUT" BY <1>0 DEF Record
  <2> HIDE DEF r
  <2> QED BY <1>0, <2>1, <2>2, BaseRevises
(* The commands that remember the saved record and go on.                  *)
<1>14. ASSUME NEW t \in Txn, VerifyCheck(p, t) \/ ApplyCheck(p, t) \/ RecoverReceipt(p, t) PROVE Base'
  <2>1. /\ \E c \in {"verify", "backup", "finish"} :
             proc' = [proc EXCEPT ![p].pc = c, ![p].t = t, ![p].mem = txn[t]]
        /\ UNCHANGED <<live, db, txn, rollback, permit, seal, lease>>
    BY <1>14 DEF VerifyCheck, ApplyCheck, RecoverReceipt
  <2>2. PICK c \in {"verify", "backup", "finish"} :
             proc' = [proc EXCEPT ![p].pc = c, ![p].t = t, ![p].mem = txn[t]]
    BY <2>1
  <2>3. \A T, b : Works(c, txn[t], T, b, txn[t], db, live, rollback[t], permit[t], seal.t = t, Quiet)
    BY DEF Works
  <2>4. c \in Loaded BY DEF Loaded, Pc
  <2> QED BY <1>2, <1>3, <2>1, <2>2, <2>3, <2>4
<1>15. ASSUME NEW t \in Txn, Abort(p, t) \/ StaleAbort(p, t) PROVE Base'
  <2>1. PICK e \in {"ABORTED", "ABORTED_STALE_BASELINE"} :
             proc' = [proc EXCEPT ![p].pc = "save_end", ![p].t = t, ![p].mem = [txn[t] EXCEPT !.state = e]]
    BY <1>15 DEF Abort, StaleAbort
  <2>2. /\ lease = t /\ txn[t].state \in PreApply
        /\ UNCHANGED <<live, db, txn, rollback, permit, seal, lease>>
    BY <1>15 DEF Abort, StaleAbort, Command
  <2> DEFINE m == [txn[t] EXCEPT !.state = e]
  <2>3. m.state = e BY <1>0 DEF Record
  <2>4. Restored(txn[t], db, live) /\ txn[t].state \notin Mutating
    BY <1>0, <2>2 DEF TxnBase, PreApply, Mutating
  <2> HIDE DEF m
  <2>5. \A T, b : Works("save_end", m, T, b, txn[t], db, live, rollback[t], permit[t], seal.t = t, Quiet)
    BY <2>3, <2>4 DEF Works
  <2>6. proc' = [proc EXCEPT ![p].pc = "save_end", ![p].t = t, ![p].mem = m] BY <2>1 DEF m
  <2>7. /\ proc'[p].pc = "save_end" /\ proc'[p].t = t /\ proc'[p].mem = m
        /\ \A q \in Proc \ {p} : proc'[q] = proc[q]
    BY <1>3, <2>6
  <2>8. "save_end" \in Loaded BY DEF Loaded, Pc
  <2> QED BY <1>2, <2>2, <2>5, <2>7, <2>8
<1>16. ASSUME NEW t \in Txn, AuthorityCheck(p, t) PROVE Base'
  <2> DEFINE m == [txn[t] EXCEPT !.state = "ABORTED_STALE_BASELINE"]
  <2>1. /\ proc' = [proc EXCEPT ![p].pc = "authority", ![p].t = t, ![p].mem = m]
        /\ UNCHANGED <<live, db, txn, rollback, permit, seal, lease>>
    BY <1>16 DEF AuthorityCheck
  <2>2. m.state = "ABORTED_STALE_BASELINE" BY <1>0 DEF Record
  <2> HIDE DEF m
  <2>3. \A T, b : Works("authority", m, T, b, txn[t], db, live, rollback[t], permit[t], seal.t = t, Quiet)
    BY <2>2 DEF Works
  <2> QED BY <1>2, <1>3, <2>1, <2>3 DEF Loaded, Pc
<1>17. ASSUME NEW t \in Txn PROVE txn[t].state \in Mutating =>
             txn[t].prepared # None /\ txn[t].verified = txn[t].prepared /\ Differs(txn[t])
  BY DEF Bound, RecBound, Mutating, Approved, Steady
<1>18. ASSUME NEW t \in Txn, RecoverBaseline(p, t) PROVE Base'
  <2> DEFINE m == [txn[t] EXCEPT !.state = "ROLLED_BACK"]
             r == txn[t]
  <2>1. /\ proc' = [proc EXCEPT ![p].pc = "save_end", ![p].t = t, ![p].mem = m]
        /\ lease = t /\ r.state \in Mutating /\ AtBaseline(r) /\ (r.permit => permit[t] = "active")
        /\ permit' = IF r.permit THEN [permit EXCEPT ![t] = "revoked"] ELSE permit
        /\ UNCHANGED <<live, db, txn, rollback, seal, lease>>
    BY <1>18 DEF RecoverBaseline, RecoverCommand, Command, Mutating
  <2>2. m.state = "ROLLED_BACK" BY <1>0 DEF Record
  <2>3. TxnBase(r, db, live, rollback[t], permit[t]) /\ r.permit BY <1>0, <2>1 DEF TxnBase
  <2>4. permit'[t] = "revoked" /\ \A u \in Txn \ {t} : permit'[u] = permit[u] BY <2>1, <2>3 DEF TypeOK
  <2>5. seal.t # t BY <1>0, <2>1, <2>3 DEF Ending
  <2>6. r.changed \cap Doc \subseteq r.docs BY <1>17, <2>1 DEF Differs
  <2>7. Restored(r, db, live) BY <1>0, <2>1, <2>3, <2>6, BaselineIsRestored
  <2>8. TxnBase(r, db, live, rollback[t], "revoked") BY <2>3, BaseWeakens
  <2>9. Ending(r, "revoked", FALSE) BY DEF Ending
  <2> HIDE DEF m
  <2>10. \A T, b : Works("save_end", m, T, b, r, db, live, rollback[t], "revoked", FALSE, Quiet)
    BY <2>2, <2>7 DEF Works
  <2>11. /\ proc'[p].pc = "save_end" /\ proc'[p].t = t /\ proc'[p].mem = m
         /\ \A q \in Proc \ {p} : proc'[q] = proc[q]
    BY <1>3, <2>1
  <2>12. ProcWorks(p)'
    <3>1. (seal.t = t) = FALSE BY <2>5
    <3> QED BY <2>1, <2>4, <2>10, <2>11, <3>1 DEF ProcWorks, Quiet
  <2>13. Ending(txn[t], permit'[t], seal'.t = t) BY <2>1, <2>4, <2>5, <2>9 DEF Ending
  <2>14. TxnBase(txn[t], db', live', rollback'[t], permit'[t]) BY <2>1, <2>4, <2>8
  <2> QED BY <1>0, <2>1, <2>4, <2>11, <2>12, <2>13, <2>14, BaseWrites
<1>19. ASSUME NEW t \in Txn, RecoverTarget(p, t) PROVE Base'
  <2>1. /\ proc' = [proc EXCEPT ![p].pc = "write_seal", ![p].t = t, ![p].mem = txn[t], ![p].pkg = Manifest]
        /\ lease = t /\ txn[t].state \in Mutating /\ CorpusVerified
        /\ WorkPackage(t) = txn[t].verified /\ LiveIsWork(t, txn[t])
        /\ UNCHANGED <<live, db, txn, rollback, permit, seal, lease>>
    BY <1>19 DEF RecoverTarget, RecoverCommand, Command, Mutating
  <2>2. /\ proc'[p].pc = "write_seal" /\ proc'[p].t = t /\ proc'[p].mem = txn[t]
        /\ \A q \in Proc \ {p} : proc'[q] = proc[q]
    BY <1>0, <2>1 DEF Procs, Process
  <2>3. TxnBase(txn[t], db, live, rollback[t], permit[t]) BY <1>0, <2>1
  <2>4. Clean(db, live) /\ permit[t] # "active" BY <1>0, <1>17, <2>1, <2>3, ResultIsClean
  <2>5. \A T, b : Works("write_seal", txn[t], T, b, txn[t], db, live, rollback[t], permit[t], seal.t = t, Quiet)
    BY <2>4 DEF Works
  <2> QED BY <1>2, <2>1, <2>2, <2>5 DEF Loaded, Pc
<1> QED BY <1>1, <1>4, <1>6, <1>7, <1>9, <1>10, <1>11, <1>12, <1>13, <1>14, <1>15, <1>16, <1>18, <1>19
        DEF Commands

\* A running command takes a step, fails or is killed.
LEMMA StepBase ==
    ASSUME TypeOK, Backed, Bound, InTurn, Steady, Base, NEW p \in Proc, Step(p) \/ Failure(p) PROVE Base'
<1> USE DEF corpus, author, bounds
<1> DEFINE t == proc[p].t
           m == proc[p].mem
           c == proc[p].pc
           T == proc[p].todo
           e == proc[p].bad
           r == txn[t]
           Sealed == seal.t = t
<1>0. /\ proc \in Procs /\ txn \in Txns /\ m \in Record /\ (\A u \in Txn : txn[u] \in Record)
      /\ c \in Loaded => /\ t \in Txn /\ Fits(c, t, m, r, lease, receipt[t])
                         /\ Holds(c, m, proc[p].pkg, r, WorkPackage(t))
                         /\ Works(c, m, T, e, r, db, live, rollback[t], permit[t], Sealed, Quiet)
      /\ t \in Txn => /\ lease = t => TxnBase(r, db, live, rollback[t], permit[t])
                      /\ Ending(r, permit[t], Sealed)
  BY DEF TypeOK, Procs, Process, Txns, InTurn, ProcFits, Backed, ProcBacked, Steady, ProcHolds, Base, ProcWorks
<1>o. \A q \in Proc \ {p} : Resting(q) BY StepRuns, OthersRest
<1>m. ASSUME t \in Txn, r.state \in Mutating
      PROVE  r.prepared # None /\ r.verified = r.prepared /\ Differs(r)
  BY <1>m DEF Bound, RecBound, Mutating, Approved, Steady
<1>c. c \in Pc /\ (c \in Loaded <=> c \notin {"idle", "seal"}) BY <1>0 DEF Loaded, Procs, Process
<1>z. /\ t = proc[p].t /\ m = proc[p].mem /\ c = proc[p].pc /\ T = proc[p].todo /\ e = proc[p].bad
      /\ r = txn[t] /\ Sealed = (seal.t = t)
  OBVIOUS
<1> HIDE DEF t, m, c, T, e, r, Sealed
<1>v. ASSUME NEW d \in {"verify", "backup", "heartbeat", "postcheck", "failed", "finish", "receipt", "commit",
                        "release", "unlease"},
             NEW n, NEW D, NEW x, NEW y, NEW B, NEW L, NEW b, NEW a, NEW z, NEW quiet
      PROVE  d \in Loaded /\ Works(d, n, D, x, y, B, L, b, a, z, quiet)
  BY DEF Works, Loaded, Pc
(* The process ends and changes nothing but its lease or the seal.         *)
<1>q. ASSUME Quit(p), UNCHANGED <<live, db, txn, rollback, permit>>,
             \A u \in Txn : seal'.t = u => seal.t = u,
             \A u \in Txn : lease' = u => lease = u
      PROVE  Base'
  <2>1. proc'[p].pc = "idle" /\ \A q \in Proc \ {p} : proc'[q] = proc[q] BY <1>0, <1>q DEF Procs, Quit, Idle
  <2>2. proc'[p].pc \notin Loaded BY <2>1 DEF Loaded
  <2> QED BY <1>o, <1>q, <2>1, <2>2, BaseKept
(* The process goes on at d with record n and has changed nothing.         *)
<1>k. ASSUME NEW d \in Loaded, NEW n, t \in Txn,
             UNCHANGED <<live, db, txn, rollback, permit, seal, lease>>,
             proc'[p].pc = d, proc'[p].t = t, proc'[p].mem = n, \A q \in Proc \ {p} : proc'[q] = proc[q],
             Works(d, n, proc'[p].todo, proc'[p].bad, r, db, live, rollback[t], permit[t], Sealed, Quiet)
      PROVE  Base'
  <2>1. ProcWorks(p)' BY <1>k, <1>z DEF ProcWorks, Quiet
  <2> QED BY <1>o, <1>k, <2>1, BaseKept
(* It has written files, rows, permits or the seal under its lease.        *)
<1>w. ASSUME NEW d \in Loaded, NEW n, t \in Txn, lease = t, UNCHANGED <<txn, lease>>,
             \A u \in Txn \ {t} : permit'[u] = permit[u] /\ (seal'.t = u => seal.t = u),
             r.state \in Mutating \/ UNCHANGED <<live, db>>,
             TxnBase(r, db', live', rollback'[t], permit'[t]), Ending(r, permit'[t], seal'.t = t),
             proc'[p].pc = d, proc'[p].t = t, proc'[p].mem = n, \A q \in Proc \ {p} : proc'[q] = proc[q],
             Works(d, n, proc'[p].todo, proc'[p].bad, r, db', live', rollback'[t], permit'[t],
                   seal'.t = t, Quiet)
      PROVE  Base'
  <2>1. ProcWorks(p)' BY <1>w, <1>z DEF ProcWorks, Quiet
  <2> QED BY <1>o, <1>w, <1>z, <2>1, BaseWrites
(* It has saved n as the record of its transaction.                        *)
<1>s. ASSUME NEW n, t \in Txn, txn' = [txn EXCEPT ![t] = n],
             UNCHANGED <<live, db, rollback, permit, seal>>, lease' \in {lease, NoTxn},
             n.state \in Mutating \/ r.state \notin Mutating \/ Clean(db, live),
             lease = t => TxnBase(n, db, live, rollback[t], permit[t]), Ending(n, permit[t], Sealed),
             \A q \in Proc \ {p} : proc'[q] = proc[q],
             proc'[p].pc \in Loaded =>
               /\ proc'[p].t = t
               /\ \A quiet : Works(proc'[p].pc, proc'[p].mem, proc'[p].todo, proc'[p].bad, n, db, live,
                                   rollback[t], permit[t], Sealed, quiet)
      PROVE  Base'
  <2>1. txn'[t] = n BY <1>0, <1>s DEF Txns
  <2>2. proc'[p].pc \in Loaded => ProcWorks(p)' BY <1>s, <1>z, <2>1 DEF ProcWorks
  <2> QED BY <1>o, <1>s, <1>z, <2>2, BaseSaves
<1>i. ASSUME Quit(p) PROVE proc'[p].pc \notin Loaded /\ \A q \in Proc \ {p} : proc'[q] = proc[q]
  BY <1>0, <1>i DEF Procs, Quit, Idle, Loaded
<1>f. ASSUME NEW d, proc' = [proc EXCEPT ![p].pc = d]
      PROVE  /\ proc'[p].pc = d /\ proc'[p].t = t /\ proc'[p].mem = m /\ proc'[p].todo = T /\ proc'[p].bad = e
             /\ \A q \in Proc \ {p} : proc'[q] = proc[q]
  BY <1>0, <1>f, <1>z DEF Procs, Process
<1>d. ASSUME NEW d \in {"finish", "receipt", "release", "unlease"}, NEW n, t \in Txn, txn' = [txn EXCEPT ![t] = n],
             UNCHANGED <<live, db, rollback, permit, seal, lease>>, r.state \notin Mutating \/ Clean(db, live),
             TxnBase(n, db, live, rollback[t], permit[t]), Ending(n, permit[t], Sealed),
             proc'[p].pc = d, proc'[p].t = t, \A q \in Proc \ {p} : proc'[q] = proc[q]
      PROVE  Base'
  <2>1. \A quiet : Works(proc'[p].pc, proc'[p].mem, proc'[p].todo, proc'[p].bad, n, db, live,
                         rollback[t], permit[t], Sealed, quiet)
    BY <1>d DEF Works
  <2> QED BY <1>d, <1>s, <2>1
<1>1. CASE SealWrite(p) \/ Crash(p) \/ Unlease(p) \/ ReleaseFinished(p)
  <2>1. Quit(p) /\ UNCHANGED <<live, db, txn, rollback, permit>>
    BY <1>1 DEF SealWrite, Crash, Unlease, ReleaseFinished
  <2>2. seal' = seal \/ seal'.t = NoTxn BY <1>1 DEF SealWrite, Crash, Unlease, ReleaseFinished
  <2>3. lease' = lease \/ lease' = NoTxn BY <1>1 DEF SealWrite, Crash, Unlease, ReleaseFinished
  <2> QED BY <1>q, <2>1, <2>2, <2>3, ConstantsOK
<1>2. CASE Acquire(p)
  <2>1. c = "acquire" /\ c \in Loaded /\ UNCHANGED <<live, db, txn, rollback, permit, seal>>
    BY <1>2, <1>z DEF Acquire, At, Loaded, Pc
  <2>2. CASE Quit(p) /\ UNCHANGED lease BY <1>q, <2>1, <2>2
  <2>3. CASE lease' = t /\ proc' = [proc EXCEPT ![p].pc = "materialise"]
    <3>1. t \in Txn /\ r.state = "NONE" BY <1>0, <2>1 DEF Fits
    <3>2. Works("materialise", m, T, e, r, db, live, rollback[t], permit[t], Sealed, Quiet)
      BY <1>0, <2>1 DEF Works
    <3>3. /\ proc'[p].pc = "materialise" /\ proc'[p].t = t /\ proc'[p].mem = m /\ proc'[p].todo = T
          /\ proc'[p].bad = e /\ \A q \in Proc \ {p} : proc'[q] = proc[q]
      BY <1>f, <2>3
    <3>4. ProcWorks(p)' BY <1>z, <2>1, <3>2, <3>3 DEF ProcWorks, Quiet
    <3>5. \A u \in Txn : lease' = u => txn[u].state = "NONE" BY <1>z, <2>3, <3>1
    <3> QED BY <1>o, <2>1, <3>3, <3>4, <3>5, BaseKept
  <2> QED BY <1>2, <1>z, <2>2, <2>3 DEF Acquire
(* Nobody else holds the lease, so nothing is being mutated: what checkout *)
(* copies is a verified corpus.                                            *)
<1>3. ASSUME c = "materialise", CopyAndSave(p)
      PROVE  \E n : /\ t \in Txn /\ txn' = [txn EXCEPT ![t] = n] /\ r.state \notin Mutating
                    /\ lease = t => TxnBase(n, db, live, rollback[t], permit[t])
                    /\ Ending(n, permit[t], Sealed)
  <2> DEFINE n == [m EXCEPT !.copy = live]
  <2>1. /\ t \in Txn /\ r.state = "NONE" /\ m.state = "CHECKED_OUT" /\ lease = t
        /\ Quiet => m.pkg = [s \in Source |-> live[<<s, "runtime">>]]
    BY <1>0, <1>3, <1>c DEF Fits, Leased, Works
  <2>2. Quiet
    <3>1. ASSUME NEW u \in Txn, txn[u].state \in Mutating PROVE FALSE
      <4>1. lease = u BY <3>1 DEF InTurn, Sound
      <4> QED BY <1>z, <2>1, <3>1, <4>1 DEF Mutating
    <3> QED BY <3>1 DEF Quiet
  <2>3. Clean(db, live) BY <2>2 DEF Base
  <2>4. n.state = "CHECKED_OUT" /\ n.copy = live /\ n.pkg = [s \in Source |-> live[<<s, "runtime">>]]
    BY <1>0, <2>1, <2>2 DEF Record
  <2>5. txn' = [txn EXCEPT ![t] = n] BY <1>3, <1>z DEF CopyAndSave
  <2> HIDE DEF n
  <2>6. "runtime" \in Kind BY DEF Kind
  <2>7. Sources(n) BY <2>3, <2>4, <2>6 DEF Sources, Clean
  <2>8. Restored(n, db, live) BY <2>3, <2>4 DEF Restored, Clean
  <2>9. TxnBase(n, db, live, rollback[t], permit[t]) BY <2>4, <2>7, <2>8 DEF TxnBase, Mutating
  <2>10. Ending(n, permit[t], Sealed) BY <1>0, <2>1, <2>4 DEF Ending, Mutating
  <2>11. r.state \notin Mutating BY <2>1 DEF Mutating
  <2> QED BY <2>1, <2>5, <2>9, <2>10, <2>11
<1>4. CASE Materialise(p) \/ CheckoutFails(p)
  <2>1. /\ Quit(p) /\ c = "materialise" /\ UNCHANGED <<live, db, rollback, permit, seal>>
        /\ lease' = lease \/ lease' = NoTxn
        /\ CopyAndSave(p) \/ UNCHANGED txn
    BY <1>4, <1>z DEF Materialise, CheckoutFails, At
  <2>2. CASE UNCHANGED txn BY <1>q, <2>1, <2>2, ConstantsOK
  <2>3. CASE CopyAndSave(p)
    <3>1. PICK n : /\ t \in Txn /\ txn' = [txn EXCEPT ![t] = n] /\ r.state \notin Mutating
                   /\ lease = t => TxnBase(n, db, live, rollback[t], permit[t])
                   /\ Ending(n, permit[t], Sealed)
      BY <1>3, <2>1, <2>3
    <3> QED BY <1>i, <1>s, <2>1, <3>1
  <2> QED BY <2>1, <2>2, <2>3
<1>5. CASE VerifySave(p)
  <2> DEFINE n == [m EXCEPT !.state = "SHADOW_VERIFIED", !.verified = WorkPackage(t)]
  <2>1. /\ Quit(p) /\ c = "verify" /\ (txn' = [txn EXCEPT ![t] = n] \/ txn' = txn)
        /\ UNCHANGED <<live, db, rollback, permit, seal, lease>>
    BY <1>5, <1>z DEF VerifySave, At
  <2>2. t \in Txn /\ r.state \in PreApply /\ lease = t /\ Same(m, r)
    BY <1>0, <1>c, <2>1 DEF Fits, Leased, Holds, Remembering
  <2>3. n.state = "SHADOW_VERIFIED" /\ n.pkg = m.pkg /\ n.copy = m.copy BY <1>0 DEF Record
  <2> HIDE DEF n
  <2>4. TxnBase(n, db, live, rollback[t], permit[t])
    BY <1>0, <2>2, <2>3, BaseOpen DEF Same, PreApply
  <2>5. Ending(n, permit[t], Sealed) BY <1>0, <2>2, <2>3 DEF Ending, PreApply, Mutating
  <2>6. r.state \notin Mutating BY <2>2 DEF PreApply, Mutating
  <2>7. CASE txn' = txn BY <1>q, <2>1, <2>7
  <2>8. CASE txn' = [txn EXCEPT ![t] = n] BY <1>i, <1>s, <2>1, <2>2, <2>4, <2>5, <2>6, <2>8
  <2> QED BY <2>1, <2>7, <2>8
<1>6. CASE AuthoritySave(p)
  <2>1. /\ Quit(p) /\ c = "authority" /\ (txn' = [txn EXCEPT ![t] = m] \/ txn' = txn)
        /\ UNCHANGED <<live, db, rollback, permit, seal, lease>>
    BY <1>6, <1>z DEF AuthoritySave, At
  <2>2. t \in Txn /\ r.state \in PreApply /\ lease # t /\ m.state \in Ended /\ m.state # "ROLLED_BACK"
    BY <1>0, <1>c, <2>1, ConstantsOK DEF Fits, Works
  <2>3. Ending(m, permit[t], Sealed) BY <1>0, <2>2 DEF Ending, PreApply, Ended, Mutating
  <2>4. r.state \notin Mutating BY <2>2 DEF PreApply, Mutating
  <2>5. CASE txn' = txn BY <1>q, <2>1, <2>5
  <2>6. CASE txn' = [txn EXCEPT ![t] = m] BY <1>i, <1>s, <2>1, <2>2, <2>3, <2>4, <2>6
  <2> QED BY <2>1, <2>5, <2>6
<1>7. CASE SaveRecoveryRequired(p)
  <2> DEFINE n == [m EXCEPT !.state = "RECOVERY_REQUIRED"]
  <2>1. /\ Quit(p) /\ c = "failed" /\ txn' = [txn EXCEPT ![t] = n]
        /\ UNCHANGED <<live, db, rollback, permit, seal, lease>>
    BY <1>7, <1>z DEF SaveRecoveryRequired, At
  <2>2. t \in Txn /\ r.state = "APPLYING" /\ lease = t /\ Same(m, r) /\ m.permit = r.permit
    BY <1>0, <1>c, <2>1 DEF Fits, Leased, Holds, Remembering
  <2>3. /\ n.state = "RECOVERY_REQUIRED" /\ n.pkg = m.pkg /\ n.copy = m.copy /\ n.changed = m.changed
        /\ n.permit = m.permit
    BY <1>0 DEF Record
  <2> HIDE DEF n
  <2>4. r.state \in Mutating /\ n.state \in Mutating BY <2>2, <2>3 DEF Mutating
  <2>5. TxnBase(n, db, live, rollback[t], permit[t]) BY <1>0, <2>2, <2>3, <2>4, BaseMutating DEF Same
  <2>6. Ending(n, permit[t], Sealed) BY <1>0, <2>2, <2>3, <2>4 DEF Ending
  <2> QED BY <1>i, <1>s, <2>1, <2>2, <2>4, <2>5, <2>6
(* apply, up to the first write.                                           *)
<1>8. ASSUME t \in Txn, lease = t, r.state \in PreApply
      PROVE  /\ Sources(r) /\ Restored(r, db, live) /\ ~Sealed /\ r.state \notin Mutating
             /\ \A b, a : TxnBase(r, db, live, b, a)
             /\ \A a : Ending(r, a, Sealed)
  <2>1. r.state \notin Mutating /\ r.state \notin {"ROLLED_BACK", "POSTCHECK_VERIFIED"}
    BY <1>8 DEF PreApply, Mutating
  <2>2. Sources(r) /\ Restored(r, db, live) BY <1>0, <1>8 DEF TxnBase
  <2>3. ~Sealed BY <1>0, <1>8, <2>1 DEF Ending
  <2> QED BY <2>1, <2>2, <2>3 DEF TxnBase, Ending
<1>9. CASE Backup(p)
  <2>1. /\ c = "backup" /\ proc' = [proc EXCEPT ![p].pc = "permit"] /\ rollback' = [rollback EXCEPT ![t] = live]
        /\ UNCHANGED <<live, db, txn, permit, seal, lease>>
    BY <1>9, <1>z DEF Backup, At
  <2>2. t \in Txn /\ r.state \in PreApply /\ lease = t BY <1>0, <1>c, <2>1 DEF Fits, Leased
  <2>3. rollback'[t] = live BY <2>1, <2>2 DEF TypeOK
  <2>4. live = r.copy
    <3>1. r.copy \in FileMap /\ live \in FileMap
      BY <1>z, <2>2 DEF Backed, TxnBacked, TypeOK, FileMap, PreApply
    <3>2. \A f \in File : live[f] = r.copy[f] BY <1>8, <2>2 DEF Restored
    <3> QED BY <3>1, <3>2 DEF FileMap
  <2>5. Works("permit", m, T, e, r, db, live, live, permit[t], Sealed, Quiet) BY <2>4 DEF Works
  <2>6. /\ proc'[p].pc = "permit" /\ proc'[p].t = t /\ proc'[p].mem = m /\ proc'[p].todo = T
        /\ proc'[p].bad = e /\ \A q \in Proc \ {p} : proc'[q] = proc[q]
    BY <1>f, <2>1
  <2>7. TxnBase(r, db', live', rollback'[t], permit'[t]) /\ Ending(r, permit'[t], seal'.t = t)
    BY <1>8, <1>z, <2>1, <2>2
  <2>8. Works("permit", m, proc'[p].todo, proc'[p].bad, r, db', live', rollback'[t], permit'[t],
              seal'.t = t, Quiet)
    BY <1>z, <2>1, <2>3, <2>5, <2>6
  <2>9. "permit" \in Loaded BY DEF Loaded, Pc
  <2> QED BY <1>w, <2>1, <2>2, <2>6, <2>7, <2>8, <2>9
<1>10. CASE IssuePermit(p)
  <2>1. c = "permit" /\ UNCHANGED <<live, db, txn, rollback, seal, lease>>
    BY <1>10, <1>z DEF IssuePermit, At
  <2>2. CASE Quit(p) /\ UNCHANGED permit BY <1>q, <2>1, <2>2
  <2>3. CASE /\ permit' = [permit EXCEPT ![t] = "active"]
             /\ proc' = [proc EXCEPT ![p].pc = "start", ![p].mem.state = "APPLYING", ![p].mem.permit = TRUE]
    <3> DEFINE n == [m EXCEPT !.state = "APPLYING", !.permit = TRUE]
    <3>1. /\ proc'[p].pc = "start" /\ proc'[p].t = t /\ proc'[p].mem = n
          /\ \A q \in Proc \ {p} : proc'[q] = proc[q]
      BY <1>0, <1>z, <2>3 DEF Procs, Process
    <3> HIDE DEF n
    <3>2. t \in Txn /\ r.state \in PreApply /\ lease = t /\ rollback[t] = r.copy
      BY <1>0, <1>c, <2>1 DEF Fits, Leased, Works
    <3>3. Works("start", n, proc'[p].todo, proc'[p].bad, r, db', live', rollback'[t], permit'[t],
                seal'.t = t, Quiet)
      BY <2>1, <3>2 DEF Works
    <3>4. TxnBase(r, db', live', rollback'[t], permit'[t]) /\ Ending(r, permit'[t], seal'.t = t)
      BY <1>8, <1>z, <2>1, <3>2
    <3>5. \A u \in Txn \ {t} : permit'[u] = permit[u] /\ (seal'.t = u => seal.t = u)
      BY <2>1, <2>3 DEF TypeOK
    <3>6. "start" \in Loaded BY DEF Loaded, Pc
    <3> QED BY <1>w, <2>1, <3>1, <3>2, <3>3, <3>4, <3>5, <3>6
  <2> QED BY <1>10, <1>z, <2>2, <2>3 DEF IssuePermit
<1>11. CASE ApplyStart(p)
  <2>1. /\ c = "start" /\ txn' = [txn EXCEPT ![t] = m]
        /\ proc' = [proc EXCEPT ![p].pc = "write", ![p].todo = Targets(m.changed)]
        /\ UNCHANGED <<live, db, rollback, permit, seal, lease>>
    BY <1>11, <1>z DEF ApplyStart, At
  <2>2. /\ t \in Txn /\ r.state \in PreApply /\ lease = t /\ rollback[t] = r.copy
        /\ Same(m, r) /\ m.permit /\ m.state = "APPLYING"
    BY <1>0, <1>c, <2>1 DEF Fits, Leased, Works, Holds, Remembering
  <2>3. /\ proc'[p].pc = "write" /\ proc'[p].t = t /\ proc'[p].mem = m /\ proc'[p].todo = Targets(m.changed)
        /\ \A q \in Proc \ {p} : proc'[q] = proc[q]
    BY <1>0, <1>z, <2>1 DEF Procs, Process
  <2>4. Sources(r) /\ Restored(r, db, live) /\ ~Sealed BY <1>8, <2>2
  <2>5. m.pkg = r.pkg /\ m.copy = r.copy BY <2>2 DEF Same
  <2>6. Sources(m) BY <2>4, <2>5 DEF Sources
  <2>7. m.state \in Mutating /\ m.state \notin PreApply BY <2>2 DEF PreApply, Mutating
  <2>8. TxnBase(m, db, live, rollback[t], permit[t])
    BY <2>2, <2>4, <2>5, <2>6, <2>7 DEF TxnBase, Restored, Mirror
  <2>9. Ending(m, permit[t], Sealed) BY <2>2, <2>4 DEF Ending
  <2>10. \A x, y : Works("write", m, Targets(m.changed), x, m, db, live, rollback[t], permit[t], Sealed, y)
    BY DEF Works
  <2> QED BY <1>s, <2>1, <2>2, <2>3, <2>7, <2>8, <2>9, <2>10
(* The live writes.                                                        *)
<1>12. ASSUME c \in {"write", "heartbeat", "postcheck", "rollback", "revoke", "failed"}
       PROVE  /\ t \in Txn /\ lease = t /\ r.state \in Mutating /\ Same(m, r) /\ m.changed = r.changed
              /\ TxnBase(r, db, live, rollback[t], permit[t]) /\ Ending(r, permit[t], Sealed)
  BY <1>0, <1>c, <1>12 DEF Fits, Leased, Holds, Remembering, Same, Mutating
<1>13. ASSUME c \in {"write", "rollback"}, NEW f \in Targets(r.changed), NEW b, live' = [live EXCEPT ![f] = b]
       PROVE  TxnBase(r, db, live', rollback[t], permit[t])
  <2>1. \A g \in File \ Targets(r.changed) : live'[g] = live[g] BY <1>13 DEF TypeOK
  <2>2. r.state \notin PreApply BY <1>12, <1>13 DEF PreApply, Mutating
  <2>3. TxnBase(r, db, live, rollback[t], permit[t]) BY <1>12, <1>13
  <2> QED BY <2>1, <2>2, <2>3 DEF TxnBase
<1>14. CASE WriteFile(p)
  <2>1. /\ c = "write" /\ UNCHANGED <<db, seal, lease, txn, rollback, permit>>
        /\ \E f \in Writable(T) :
             /\ live' = [live EXCEPT ![f] = work[t][f]]
             /\ proc' = [proc EXCEPT ![p].todo = @ \ {f},
                                     ![p].pc = IF proc[p].todo = {f} THEN "heartbeat" ELSE "write"]
    BY <1>14, <1>z DEF WriteFile, At
  <2>2. PICK f \in Writable(T) :
             /\ live' = [live EXCEPT ![f] = work[t][f]]
             /\ proc' = [proc EXCEPT ![p].todo = @ \ {f},
                                     ![p].pc = IF proc[p].todo = {f} THEN "heartbeat" ELSE "write"]
    BY <2>1
  <2>3. T \subseteq Targets(r.changed) BY <1>0, <1>c, <2>1 DEF Works
  <2>4. f \in Targets(r.changed) BY <2>3 DEF Writable
  <2>5. PICK d \in {"heartbeat", "write"} : d = IF proc[p].todo = {f} THEN "heartbeat" ELSE "write" OBVIOUS
  <2>6. /\ proc'[p].pc = d /\ proc'[p].t = t /\ proc'[p].mem = m /\ proc'[p].todo = T \ {f}
        /\ \A q \in Proc \ {p} : proc'[q] = proc[q]
    BY <1>0, <1>z, <2>2, <2>5 DEF Procs, Process
  <2>7. TxnBase(r, db', live', rollback'[t], permit'[t]) /\ Ending(r, permit'[t], seal'.t = t)
    BY <1>12, <1>13, <1>z, <2>1, <2>2, <2>4
  <2>8. \A x, B, L, b, a, z, y : Works(d, m, T \ {f}, x, r, B, L, b, a, z, y)
    BY <2>3, <2>5 DEF Works
  <2>9. d \in Loaded BY <2>5 DEF Loaded, Pc
  <2>10. t \in Txn /\ lease = t /\ r.state \in Mutating BY <1>12, <2>1
  <2>11. Works(d, m, proc'[p].todo, proc'[p].bad, r, db', live', rollback'[t], permit'[t], seal'.t = t, Quiet)
    BY <2>6, <2>8
  <2>12. \A u \in Txn \ {t} : permit'[u] = permit[u] /\ (seal'.t = u => seal.t = u) BY <2>1
  <2> QED BY <1>w, <2>1, <2>6, <2>7, <2>9, <2>10, <2>11, <2>12
<1>15. CASE WriteFails(p)
  <2>1. /\ c = "write" /\ UNCHANGED <<db, seal, lease, txn, rollback, permit>>
        /\ \E f \in Writable(T) : live' = live \/ live' = [live EXCEPT ![f] = Torn]
        /\ proc' = [proc EXCEPT ![p].pc = "rollback", ![p].todo = Targets(m.changed)]
    BY <1>15, <1>z DEF WriteFails, At
  <2>2. PICK f \in Writable(T) : live' = live \/ live' = [live EXCEPT ![f] = Torn] BY <2>1
  <2>3. f \in Targets(r.changed) BY <1>0, <1>c, <2>1 DEF Works, Writable
  <2>4. /\ proc'[p].pc = "rollback" /\ proc'[p].t = t /\ proc'[p].mem = m /\ proc'[p].todo = Targets(r.changed)
        /\ \A q \in Proc \ {p} : proc'[q] = proc[q]
    BY <1>0, <1>12, <1>z, <2>1 DEF Procs, Process
  <2>5. TxnBase(r, db', live', rollback'[t], permit'[t]) /\ Ending(r, permit'[t], seal'.t = t)
    BY <1>12, <1>13, <1>z, <2>1, <2>2, <2>3
  <2>6. \A x, B, L, b, a, z, y : Works("rollback", m, Targets(r.changed), x, r, B, L, b, a, z, y)
    BY DEF Works
  <2>7. "rollback" \in Loaded BY DEF Loaded, Pc
  <2>8. t \in Txn /\ lease = t /\ r.state \in Mutating BY <1>12, <2>1
  <2>9. Works("rollback", m, proc'[p].todo, proc'[p].bad, r, db', live', rollback'[t], permit'[t],
              seal'.t = t, Quiet)
    BY <2>4, <2>6
  <2>10. \A u \in Txn \ {t} : permit'[u] = permit[u] /\ (seal'.t = u => seal.t = u) BY <2>1
  <2> QED BY <1>w, <2>1, <2>4, <2>5, <2>7, <2>8, <2>9, <2>10
(* The heartbeat.                                                          *)
<1>16. CASE Heartbeat(p) \/ HeartbeatFails(p)
  <2>1. /\ c = "heartbeat" /\ permit' = Consumed(t) /\ UNCHANGED <<live, seal, lease, txn, rollback>>
        /\ UNCHANGED db \/ \E ms \in SUBSET Unreconciled : db' = Promoted(ms)
        /\ \E d \in {"postcheck", "failed"} : proc' = [proc EXCEPT ![p].pc = d]
    BY <1>16, <1>z DEF Heartbeat, HeartbeatFails, At
  <2>2. /\ permit'[t] = "active" => permit[t] = "active" /\ Unreconciled \cap r.changed = {}
        /\ \A u \in Txn \ {t} : permit'[u] = permit[u]
    BY <1>12, <1>z, <2>1 DEF Consumed, TypeOK
  <2>3. TxnBase(r, db', live', rollback'[t], permit'[t])
    <3>1. CASE UNCHANGED db BY <1>12, <2>1, <2>2, <3>1, BaseWeakens
    <3>2. ASSUME NEW ms \in SUBSET Unreconciled, db' = Promoted(ms)
          PROVE  TxnBase(r, db', live', rollback'[t], permit'[t])
      <4>1. r \in Record BY <1>0, <1>12, <1>z, <2>1
      <4>2. TxnBase(r, db', live, rollback[t], permit'[t]) BY <1>12, <2>1, <2>2, <3>2, <4>1, HeartbeatScoped
      <4> QED BY <2>1, <4>2
    <3> QED BY <2>1, <3>1, <3>2
  <2>4. Ending(r, permit'[t], seal'.t = t) BY <1>12, <1>z, <2>1, <2>2 DEF Ending
  <2>5. PICK d \in {"postcheck", "failed"} : proc' = [proc EXCEPT ![p].pc = d] BY <2>1
  <2>6. /\ proc'[p].pc = d /\ proc'[p].t = t /\ proc'[p].mem = m
        /\ \A q \in Proc \ {p} : proc'[q] = proc[q]
    BY <1>f, <2>5
  <2> QED BY <1>v, <1>w, <1>12, <2>1, <2>2, <2>3, <2>4, <2>6
<1>17. CASE Postcheck(p)
  <2>1. c = "postcheck" /\ UNCHANGED <<live, db, txn, rollback, permit, seal, lease>>
    BY <1>17, <1>z DEF Postcheck, At
  <2>2. CASE /\ CorpusVerified /\ LiveIsWork(t, m)
             /\ proc' = [proc EXCEPT ![p].pc = "write_seal", ![p].pkg = Manifest]
    <3>1. /\ proc'[p].pc = "write_seal" /\ proc'[p].t = t /\ proc'[p].mem = m
          /\ \A q \in Proc \ {p} : proc'[q] = proc[q]
      BY <1>0, <1>z, <2>2 DEF Procs, Process
    <3>2. LiveIsWork(t, r) BY <1>12, <2>1, <2>2 DEF LiveIsWork, Same
    <3>3. WorkPackage(t) = r.verified BY <1>0, <1>c, <2>1 DEF Holds, Approving
    <3>4. r \in Record /\ Differs(r) /\ r.prepared # None /\ WorkPackage(t) = r.prepared
      BY <1>0, <1>12, <1>m, <1>z, <2>1, <3>3
    <3>5. Clean(db, live) /\ permit[t] # "active" BY <1>12, <2>1, <2>2, <3>2, <3>4, ResultIsClean
    <3>6. \A D, x : Works("write_seal", m, D, x, r, db, live, rollback[t], permit[t], Sealed, Quiet)
      BY <3>5 DEF Works
    <3>7. "write_seal" \in Loaded BY DEF Loaded, Pc
    <3> QED BY <1>k, <1>12, <2>1, <3>1, <3>6, <3>7
  <2>3. CASE proc' = [proc EXCEPT ![p].pc = "failed"]
    <3>1. /\ proc'[p].pc = "failed" /\ proc'[p].t = t /\ proc'[p].mem = m
          /\ \A q \in Proc \ {p} : proc'[q] = proc[q]
      BY <1>f, <2>3
    <3> QED BY <1>k, <1>v, <1>12, <2>1, <3>1
  <2> QED BY <1>17, <1>z, <2>2, <2>3 DEF Postcheck
<1>18. ASSUME c \in {"write_seal", "save_post"}
       PROVE  /\ t \in Txn /\ lease = t /\ r.state \in Mutating /\ Same(m, r)
              /\ TxnBase(r, db, live, rollback[t], permit[t]) /\ Ending(r, permit[t], Sealed)
              /\ Clean(db, live) /\ permit[t] # "active"
  BY <1>0, <1>c, <1>18 DEF Fits, Leased, Holds, Remembering, Works
<1>19. CASE WriteSeal(p)
  <2>1. c = "write_seal" /\ seal'.t = t /\ UNCHANGED <<live, db, txn, rollback, permit, lease>>
    BY <1>19, <1>z DEF WriteSeal, At
  <2> DEFINE n == [m EXCEPT !.state = "POSTCHECK_VERIFIED", !.post = proc[p].pkg]
  <2>2. /\ proc'[p].pc = "save_post" /\ proc'[p].t = t /\ proc'[p].mem = n
        /\ \A q \in Proc \ {p} : proc'[q] = proc[q]
    BY <1>0, <1>19, <1>z DEF WriteSeal, Procs, Process
  <2> HIDE DEF n
  <2>3. \A D, x, b, z : Works("save_post", n, D, x, r, db, live, b, permit[t], z, Quiet)
    BY <1>18, <2>1 DEF Works
  <2>4. TxnBase(r, db', live', rollback'[t], permit'[t]) /\ Ending(r, permit'[t], seal'.t = t)
    BY <1>18, <2>1 DEF Ending
  <2>5. "save_post" \in Loaded BY DEF Loaded, Pc
  <2> QED BY <1>w, <1>18, <2>1, <2>2, <2>3, <2>4, <2>5
<1>20. CASE SavePostcheck(p)
  <2>1. /\ c = "save_post" /\ txn' = [txn EXCEPT ![t] = m] /\ proc' = [proc EXCEPT ![p].pc = "finish"]
        /\ UNCHANGED <<live, db, rollback, permit, seal, lease>>
    BY <1>20, <1>z DEF SavePostcheck, At
  <2>2. m.state = "POSTCHECK_VERIFIED" BY <1>0, <1>c, <2>1 DEF Fits
  <2>3. TxnBase(m, db, live, rollback[t], permit[t]) BY <2>2, BaseClosed DEF PreApply, Mutating
  <2>4. Ending(m, permit[t], Sealed) BY <1>18, <2>1, <2>2 DEF Ending
  <2>5. /\ proc'[p].pc = "finish" /\ proc'[p].t = t /\ \A q \in Proc \ {p} : proc'[q] = proc[q]
    BY <1>f, <2>1
  <2> QED BY <1>d, <1>18, <2>1, <2>3, <2>4, <2>5
(* What raises leaves a process that still has to record it.               *)
<1>21. CASE SealingFails(p)
  <2>1. /\ c \in {"write_seal", "save_post"} /\ proc' = [proc EXCEPT ![p].pc = "failed"]
        /\ UNCHANGED <<live, db, txn, rollback, permit, seal, lease>>
    BY <1>21, <1>z DEF SealingFails
  <2>2. /\ proc'[p].pc = "failed" /\ proc'[p].t = t /\ proc'[p].mem = m
        /\ \A q \in Proc \ {p} : proc'[q] = proc[q]
    BY <1>f, <2>1
  <2> QED BY <1>k, <1>v, <1>18, <2>1, <2>2
(* The rollback and the withdrawal of the permit.                          *)
<1>22. CASE RollbackFile(p)
  <2>1. /\ c = "rollback" /\ UNCHANGED <<db, seal, lease, txn, rollback, permit>>
        /\ \E f \in T :
             \/ live' = [live EXCEPT ![f] = rollback[t][f]] /\ proc' = [proc EXCEPT ![p].todo = @ \ {f}]
             \/ live' = live /\ proc' = [proc EXCEPT ![p].todo = @ \ {f}, ![p].bad = TRUE]
    BY <1>22, <1>z DEF RollbackFile, At
  <2>2. PICK f \in T :
             \/ live' = [live EXCEPT ![f] = rollback[t][f]] /\ proc' = [proc EXCEPT ![p].todo = @ \ {f}]
             \/ live' = live /\ proc' = [proc EXCEPT ![p].todo = @ \ {f}, ![p].bad = TRUE]
    BY <2>1
  <2>3. /\ T \subseteq Targets(r.changed) /\ f \in Targets(r.changed)
        /\ ~e => \A g \in Targets(r.changed) \ T : live[g] = r.copy[g]
    BY <1>0, <1>c, <2>1 DEF Works
  <2>4. rollback[t] = r.copy BY <1>12, <2>1 DEF TxnBase
  <2>5. /\ proc'[p].pc = "rollback" /\ proc'[p].t = t /\ proc'[p].mem = m /\ proc'[p].todo = T \ {f}
        /\ \A q \in Proc \ {p} : proc'[q] = proc[q]
        /\ \/ live' = [live EXCEPT ![f] = rollback[t][f]] /\ proc'[p].bad = e
           \/ live' = live /\ proc'[p].bad
    <3>0. proc[p].pc = "rollback" BY <1>z, <2>1
    <3>1. CASE live' = [live EXCEPT ![f] = rollback[t][f]] /\ proc' = [proc EXCEPT ![p].todo = @ \ {f}]
      <4>1. /\ proc'[p] = [proc[p] EXCEPT !.todo = @ \ {f}]
            /\ \A q \in Proc \ {p} : proc'[q] = proc[q]
        BY <1>0, <3>1 DEF Procs
      <4> QED BY <1>0, <1>z, <3>0, <3>1, <4>1 DEF Procs, Process
    <3>2. CASE live' = live /\ proc' = [proc EXCEPT ![p].todo = @ \ {f}, ![p].bad = TRUE]
      <4>1. /\ proc'[p] = [proc[p] EXCEPT !.todo = @ \ {f}, !.bad = TRUE]
            /\ \A q \in Proc \ {p} : proc'[q] = proc[q]
        BY <1>0, <3>2 DEF Procs
      <4> QED BY <1>0, <1>z, <3>0, <3>2, <4>1 DEF Procs, Process
    <3> QED BY <2>2, <3>1, <3>2
  <2>6. TxnBase(r, db', live', rollback'[t], permit'[t]) /\ Ending(r, permit'[t], seal'.t = t)
    BY <1>12, <1>13, <1>z, <2>1, <2>3, <2>5
  <2>7. ~proc'[p].bad => \A g \in Targets(r.changed) \ (T \ {f}) : live'[g] = r.copy[g]
    <3>1. Targets(r.changed) \subseteq File
      <4>1. r.changed \subseteq Managed BY <1>0, <1>12, <1>z, <2>1 DEF Record
      <4> QED BY <4>1 DEF Targets, File, Managed
    <3> QED BY <2>3, <2>4, <2>5, <3>1 DEF TypeOK
  <2>8. Works("rollback", m, proc'[p].todo, proc'[p].bad, r, db', live', rollback'[t], permit'[t],
              seal'.t = t, Quiet)
    BY <2>3, <2>5, <2>7 DEF Works
  <2>9. t \in Txn /\ lease = t /\ r.state \in Mutating BY <1>12, <2>1
  <2>10. "rollback" \in Loaded /\ \A u \in Txn \ {t} : permit'[u] = permit[u] /\ (seal'.t = u => seal.t = u)
    BY <2>1 DEF Loaded, Pc
  <2> QED BY <1>w, <2>1, <2>5, <2>6, <2>8, <2>9, <2>10
<1>23. CASE RollbackDone(p)
  <2>1. /\ c = "rollback" /\ T = {} /\ proc' = [proc EXCEPT ![p].pc = IF e THEN "failed" ELSE "revoke"]
        /\ UNCHANGED <<live, db, txn, rollback, permit, seal, lease>>
    BY <1>23, <1>z DEF RollbackDone, At
  <2>2. CASE e
    <3>1. /\ proc'[p].pc = "failed" /\ proc'[p].t = t /\ proc'[p].mem = m
          /\ \A q \in Proc \ {p} : proc'[q] = proc[q]
      BY <1>f, <2>1, <2>2
    <3> QED BY <1>k, <1>v, <1>12, <2>1, <3>1
  <2>3. CASE ~e
    <3>1. /\ proc'[p].pc = "revoke" /\ proc'[p].t = t /\ proc'[p].mem = m
          /\ \A q \in Proc \ {p} : proc'[q] = proc[q]
      BY <1>f, <2>1, <2>3
    <3>2. \A f \in Targets(r.changed) : live[f] = r.copy[f] BY <1>0, <1>c, <2>1, <2>3 DEF Works
    <3>3. \A f \in File \ Targets(r.changed) : live[f] = r.copy[f] BY <1>12, <2>1 DEF TxnBase
    <3>4. \A D, x : Works("revoke", m, D, x, r, db, live, rollback[t], permit[t], Sealed, Quiet)
      BY <3>2, <3>3 DEF Works
    <3>5. "revoke" \in Loaded BY DEF Loaded, Pc
    <3> QED BY <1>k, <1>12, <2>1, <3>1, <3>4, <3>5
  <2> QED BY <2>2, <2>3
<1>24. CASE Revoke(p)
  <2>1. /\ c = "revoke" /\ permit[t] = "active" /\ permit' = [permit EXCEPT ![t] = "revoked"]
        /\ UNCHANGED <<live, db, txn, rollback, seal, lease>>
    BY <1>24, <1>z DEF Revoke, At
  <2> DEFINE n == [m EXCEPT !.state = "ROLLED_BACK"]
  <2>2. /\ proc'[p].pc = "save_end" /\ proc'[p].t = t /\ proc'[p].mem = n
        /\ \A q \in Proc \ {p} : proc'[q] = proc[q]
    BY <1>0, <1>24, <1>z DEF Revoke, Procs, Process
  <2>3. n.state = "ROLLED_BACK" BY <1>0 DEF Record
  <2> HIDE DEF n
  <2>4. t \in Txn /\ lease = t /\ r.state \in Mutating /\ TxnBase(r, db, live, rollback[t], permit[t])
    BY <1>12, <2>1
  <2>5. permit'[t] = "revoked" /\ \A u \in Txn \ {t} : permit'[u] = permit[u] BY <2>1, <2>4 DEF TypeOK
  <2>6. ~Sealed BY <1>12, <2>1 DEF Ending
  <2>7. Restored(r, db, live) BY <1>0, <1>c, <2>1, <2>4 DEF Works, TxnBase, Restored
  <2>8. \A D, x, b : Works("save_end", n, D, x, r, db, live, b, "revoked", Sealed, Quiet)
    BY <2>3, <2>6, <2>7 DEF Works
  <2>9. TxnBase(r, db', live', rollback'[t], permit'[t]) /\ Ending(r, permit'[t], seal'.t = t)
    BY <1>z, <2>1, <2>4, <2>5, <2>6, BaseWeakens DEF Ending
  <2>10. Works("save_end", n, proc'[p].todo, proc'[p].bad, r, db', live', rollback'[t], permit'[t],
               seal'.t = t, Quiet)
    BY <1>z, <2>1, <2>5, <2>8
  <2>11. "save_end" \in Loaded BY DEF Loaded, Pc
  <2> QED BY <1>w, <2>1, <2>2, <2>4, <2>5, <2>9, <2>10, <2>11
<1>25. CASE RevokeFails(p)
  <2>1. /\ c = "revoke" /\ permit' \in {permit, [permit EXCEPT ![t] = "revoked"]}
        /\ proc' = [proc EXCEPT ![p].pc = "failed"]
        /\ UNCHANGED <<live, db, txn, rollback, seal, lease>>
    BY <1>25, <1>z DEF RevokeFails, At
  <2>2. t \in Txn /\ lease = t /\ r.state \in Mutating /\ TxnBase(r, db, live, rollback[t], permit[t])
        /\ Ending(r, permit[t], Sealed)
    BY <1>12, <2>1
  <2>3. permit'[t] \in {permit[t], "revoked"} /\ \A u \in Txn \ {t} : permit'[u] = permit[u]
    BY <2>1, <2>2 DEF TypeOK
  <2>4. TxnBase(r, db', live', rollback'[t], permit'[t]) /\ Ending(r, permit'[t], seal'.t = t)
    BY <1>z, <2>1, <2>2, <2>3, BaseWeakens DEF Ending
  <2>5. /\ proc'[p].pc = "failed" /\ proc'[p].t = t /\ proc'[p].mem = m
        /\ \A q \in Proc \ {p} : proc'[q] = proc[q]
    BY <1>f, <2>1
  <2> QED BY <1>v, <1>w, <2>1, <2>2, <2>3, <2>4, <2>5
(* The last saves.                                                         *)
<1>26. CASE SaveEnd(p)
  <2>1. /\ c = "save_end" /\ txn' = [txn EXCEPT ![t] = m] /\ proc' = [proc EXCEPT ![p].pc = "unlease"]
        /\ UNCHANGED <<live, db, rollback, permit, seal, lease>>
    BY <1>26, <1>z DEF SaveEnd, At
  <2>2. /\ t \in Txn /\ lease = t /\ r.state \in PreApply \cup Mutating /\ m.state \in Ended
        /\ m.state = "ROLLED_BACK" => ~Sealed /\ Restored(r, db, live) /\ (m.permit => permit[t] # "active")
        /\ m.state # "ROLLED_BACK" => r.state \notin Mutating
    BY <1>0, <1>c, <2>1 DEF Fits, Leased, Works
  <2>3. r.state \notin Mutating \/ Clean(db, live)
    <3>1. CASE r.state \in Mutating
      <4>1. Sources(r) BY <1>0, <2>2, <3>1 DEF TxnBase
      <4> QED BY <2>2, <3>1, <4>1, RestoredIsClean
    <3> QED BY <3>1
  <2>4. m.state \notin PreApply \cup Mutating \cup {"POSTCHECK_VERIFIED"} BY <2>2 DEF PreApply, Mutating, Ended
  <2>5. TxnBase(m, db, live, rollback[t], permit[t]) BY <2>4, BaseClosed
  <2>6. ~Sealed
    <3>1. CASE m.state = "ROLLED_BACK" BY <2>2, <3>1
    <3>2. CASE m.state # "ROLLED_BACK" BY <1>8, <2>2, <3>2
    <3> QED BY <3>1, <3>2
  <2>7. Ending(m, permit[t], Sealed) BY <2>2, <2>4, <2>6 DEF Ending
  <2>8. /\ proc'[p].pc = "unlease" /\ proc'[p].t = t /\ \A q \in Proc \ {p} : proc'[q] = proc[q]
    BY <1>f, <2>1
  <2> QED BY <1>d, <2>1, <2>2, <2>3, <2>5, <2>7, <2>8
<1>27. ASSUME t \in Txn, r.state = "POSTCHECK_VERIFIED", NEW n, n.state = r.state, n.permit = r.permit
       PROVE  /\ r.state \notin Mutating /\ TxnBase(n, db, live, rollback[t], permit[t])
              /\ Ending(n, permit[t], Sealed)
  <2>1. n.state \notin PreApply \cup Mutating BY <1>27 DEF PreApply, Mutating
  <2> QED BY <1>0, <1>27, <2>1, BaseClosed DEF Ending
<1>28. CASE FinishCheck(p)
  <2> DEFINE n == [r EXCEPT !.receipt = IF @ = "none" THEN "PENDING" ELSE @]
  <2>1. c = "finish" /\ UNCHANGED <<live, db, rollback, permit, seal, lease>>
    BY <1>28, <1>z DEF FinishCheck, At
  <2>2. t \in Txn /\ r.state = "POSTCHECK_VERIFIED" BY <1>0, <1>c, <2>1 DEF Fits
  <2>3. n.state = r.state /\ n.permit = r.permit
    <3>1. r \in Record BY <1>0, <1>z, <2>2
    <3> QED BY <3>1 DEF Record
  <2>4. \/ Quit(p) /\ UNCHANGED txn
        \/ txn' = [txn EXCEPT ![t] = n] /\ proc' = [proc EXCEPT ![p].pc = "receipt", ![p].mem = n]
    BY <1>28, <1>z DEF FinishCheck
  <2> HIDE DEF n
  <2>5. CASE Quit(p) /\ UNCHANGED txn BY <1>q, <2>1, <2>5
  <2>6. CASE txn' = [txn EXCEPT ![t] = n] /\ proc' = [proc EXCEPT ![p].pc = "receipt", ![p].mem = n]
    <3>1. /\ proc'[p].pc = "receipt" /\ proc'[p].t = t /\ \A q \in Proc \ {p} : proc'[q] = proc[q]
      BY <1>0, <1>z, <2>6 DEF Procs, Process
    <3>2. /\ r.state \notin Mutating /\ TxnBase(n, db, live, rollback[t], permit[t])
          /\ Ending(n, permit[t], Sealed)
      BY <1>27, <2>2, <2>3
    <3> QED BY <1>d, <2>1, <2>2, <2>6, <3>1, <3>2
  <2> QED BY <2>4, <2>5, <2>6
<1>29. CASE WriteReceipt(p)
  <2>1. /\ c = "receipt" /\ proc' = [proc EXCEPT ![p].pc = "commit"]
        /\ UNCHANGED <<live, db, txn, rollback, permit, seal, lease>>
    BY <1>29, <1>z DEF WriteReceipt, At
  <2>2. /\ proc'[p].pc = "commit" /\ proc'[p].t = t /\ proc'[p].mem = m
        /\ \A q \in Proc \ {p} : proc'[q] = proc[q]
    BY <1>f, <2>1
  <2> QED BY <1>0, <1>c, <1>k, <1>v, <2>1, <2>2
<1>30. CASE CommitReceipt(p)
  <2> DEFINE n == [m EXCEPT !.receipt = "COMMITTED"]
  <2>1. /\ c = "commit" /\ txn' = [txn EXCEPT ![t] = n] /\ proc' = [proc EXCEPT ![p].pc = "release"]
        /\ UNCHANGED <<live, db, rollback, permit, seal, lease>>
    BY <1>30, <1>z DEF CommitReceipt, At
  <2>2. t \in Txn /\ r.state = "POSTCHECK_VERIFIED" /\ m = r BY <1>0, <1>c, <2>1 DEF Fits
  <2>3. n.state = r.state /\ n.permit = r.permit BY <1>0, <2>2 DEF Record
  <2> HIDE DEF n
  <2>4. /\ proc'[p].pc = "release" /\ proc'[p].t = t /\ \A q \in Proc \ {p} : proc'[q] = proc[q]
    BY <1>f, <2>1
  <2>5. /\ r.state \notin Mutating /\ TxnBase(n, db, live, rollback[t], permit[t])
        /\ Ending(n, permit[t], Sealed)
    BY <1>27, <2>2, <2>3
  <2> QED BY <1>d, <2>1, <2>2, <2>4, <2>5
<1> QED
  BY <1>1, <1>2, <1>4, <1>5, <1>6, <1>7, <1>9, <1>10, <1>11, <1>14, <1>15, <1>16, <1>17, <1>19, <1>20, <1>21,
     <1>22, <1>23, <1>24, <1>25, <1>26, <1>28, <1>29, <1>30 DEF Step, Failure

\* The first corpus is clean and nobody owns it.
LEMMA InitBase == ASSUME Init PROVE Base
<1>1. \A p \in Proc : proc[p].pc \notin Loaded BY DEF Init, Idle, Loaded
<1>2. \A t \in Txn : txn[t].state = "NONE" /\ lease # t /\ seal.t # t
  BY ConstantsOK DEF Init, NoRecord
<1>3. Clean(db, live)
  <2>1. PICK b \in Content : live = [f \in File |-> b] /\ db = [m \in Managed |-> b] BY DEF Init
  <2>2. \A s \in Source, k \in Kind : <<s, k>> \in File BY DEF File
  <2>3. \A d \in Doc : d \in File BY DEF File
  <2>4. \A m \in Managed : ManagedFile(m) \in File BY DEF Managed, ManagedFile, File, Kind
  <2>5. "runtime" \in Kind BY DEF Kind
  <2> QED BY <2>1, <2>2, <2>3, <2>4, <2>5 DEF Clean, Mirror
<1> QED BY <1>1, <1>2, <1>3 DEF Base, Ending

(* The environment: a permit may be lost at any time, the operator copies  *)
(* only the files of the transaction in recovery.                          *)
LEMMA PermitsLost ==
    ASSUME Base, UNCHANGED <<live, db, txn, rollback, seal, lease, proc>>,
           \A u \in Txn : permit'[u] = "active" => permit[u] = "active", Backed
    PROVE  Base'
<1>1. Quiet' => Clean(db, live)' BY DEF Base, Quiet
<1>2. ASSUME NEW u \in Txn, lease' = u PROVE TxnBase(txn[u], db, live, rollback[u], permit[u])'
  BY <1>2 DEF Base, TxnBase
<1>3. ASSUME NEW u \in Txn PROVE Ending(txn[u], permit[u], seal.t = u)' BY DEF Base, Ending
<1>4. ASSUME NEW p \in Proc, proc'[p].pc \in Loaded PROVE ProcWorks(p)'
  <2>1. ProcWorks(p) /\ proc[p].t \in Txn BY <1>4 DEF Base, Backed, ProcBacked
  <2> DEFINE t == proc[p].t
  <2>2. Works(proc[p].pc, proc[p].mem, proc[p].todo, proc[p].bad, txn[t], db, live, rollback[t], permit[t],
              seal.t = t, Quiet)
    BY <2>1 DEF ProcWorks
  <2>3. permit'[t] = "active" => permit[t] = "active" BY <2>1
  <2> HIDE DEF t
  <2>4. Works(proc[p].pc, proc[p].mem, proc[p].todo, proc[p].bad, txn[t], db, live, rollback[t], permit'[t],
              seal.t = t, Quiet)
    BY <2>2, <2>3 DEF Works
  <2> QED BY <2>4 DEF ProcWorks, Quiet, t
<1> QED BY <1>1, <1>2, <1>3, <1>4 DEF Base

\* Who may be at work while t is being mutated.
LEMMA MutationExcludes ==
    ASSUME Backed, InTurn, NEW t \in Txn, txn[t].state \in Mutating, NEW p \in Proc, proc[p].pc \in Loaded
    PROVE  /\ lease = t /\ ~Quiet
           /\ \/ proc[p].pc \in {"acquire", "materialise"}
              \/ proc[p].pc \in Leased /\ proc[p].t = t
<1>1. lease = t BY DEF InTurn, Sound
<1>2. lease # NoTxn BY <1>1, ConstantsOK
<1>3. Fits(proc[p].pc, proc[p].t, proc[p].mem, txn[proc[p].t], lease, receipt[proc[p].t])
  BY DEF InTurn, ProcFits
<1>4. proc[p].pc # "authority" BY <1>2, <1>3 DEF Fits
<1>5. CASE proc[p].pc \in Leased BY <1>1, <1>3, <1>5 DEF Fits, Quiet
<1>6. CASE proc[p].pc \notin Leased BY <1>1, <1>4, <1>6 DEF Leased, Loaded, Quiet
<1> QED BY <1>5, <1>6

\* The operator copies files of the transaction that owns the lease.
LEMMA OperatorCopiesBase ==
    ASSUME TypeOK, Backed, InTurn, Base, NEW t \in Txn, OperatorCopies(t) PROVE Base'
<1>1. /\ txn[t].state \in Mutating /\ \A p \in Proc : proc[p].t # t
      /\ \A f \in File \ Targets(txn[t].changed) : live'[f] = live[f]
      /\ UNCHANGED <<db, seal, lease, txn, rollback, permit, proc>>
  BY DEF OperatorCopies, Mutating
<1>2. lease = t /\ ~Quiet BY <1>1 DEF InTurn, Sound, Quiet
<1>3. TxnBase(txn[t], db, live', rollback[t], permit[t])
  <2>1. TxnBase(txn[t], db, live, rollback[t], permit[t]) BY <1>2 DEF Base
  <2>2. txn[t].state \notin PreApply BY <1>1 DEF PreApply, Mutating
  <2> QED BY <1>1, <2>1, <2>2 DEF TxnBase
<1>4. ASSUME NEW u \in Txn, lease' = u PROVE TxnBase(txn[u], db, live, rollback[u], permit[u])'
  BY <1>1, <1>2, <1>3, <1>4
<1>5. ASSUME NEW u \in Txn PROVE Ending(txn[u], permit[u], seal.t = u)' BY <1>1 DEF Base
<1>6. ASSUME NEW p \in Proc, proc'[p].pc \in Loaded PROVE ProcWorks(p)'
  <2>1. proc[p].pc \in {"acquire", "materialise"} BY <1>1, <1>6, MutationExcludes
  <2>2. ~Quiet' BY <1>1, <1>2 DEF Quiet
  <2> QED BY <1>1, <2>1, <2>2 DEF ProcWorks, Works
<1> QED BY <1>1, <1>2, <1>4, <1>5, <1>6 DEF Base, Quiet

\* A clean corpus leaves nothing to promote.
LEMMA CleanIsReconciled == ASSUME Clean(db, live) PROVE Unreconciled = {}
BY DEF Clean, Mirror, Unreconciled

\* A heartbeat of the workspace finds work only while a transaction is being applied.
LEMMA WorkspaceHeartbeatBase ==
    ASSUME TypeOK, Backed, InTurn, Base, WorkspaceHeartbeat PROVE Base'
<1>1. /\ Unreconciled # {} /\ db' = Promoted(Unreconciled)
      /\ UNCHANGED <<live, seal, lease, txn, rollback, proc>>
      /\ \A u \in Txn : permit'[u] = "active" => permit[u] = "active" /\ Unreconciled \cap txn[u].changed = {}
  BY DEF WorkspaceHeartbeat
<1>2. ~Clean(db, live) BY <1>1, CleanIsReconciled
<1>3. ~Quiet BY <1>2 DEF Base
<1>4. PICK t \in Txn : txn[t].state \in Mutating BY <1>3 DEF Quiet
<1>5. lease = t BY <1>4 DEF InTurn, Sound
<1>6. TxnBase(txn[t], db, live, rollback[t], permit[t]) /\ txn[t] \in Record BY <1>5 DEF Base, TypeOK
<1>7. TxnBase(txn[t], db', live, rollback[t], permit'[t]) BY <1>1, <1>4, <1>6, HeartbeatScoped
<1>8. ASSUME NEW u \in Txn, lease' = u PROVE TxnBase(txn[u], db, live, rollback[u], permit[u])'
  BY <1>1, <1>5, <1>7, <1>8
<1>9. ASSUME NEW u \in Txn PROVE Ending(txn[u], permit[u], seal.t = u)' BY <1>1 DEF Base, Ending
<1>10. ASSUME NEW p \in Proc, proc'[p].pc \in Loaded PROVE ProcWorks(p)'
  <2>1. \/ proc[p].pc \in {"acquire", "materialise"}
        \/ proc[p].pc \in Leased /\ proc[p].t = t
    BY <1>1, <1>4, <1>10, MutationExcludes
  <2>2. ~Quiet' BY <1>1, <1>3 DEF Quiet
  <2>3. ProcWorks(p) BY <1>1, <1>10 DEF Base
  <2>4. CASE proc[p].pc \in {"acquire", "materialise"} BY <1>1, <2>2, <2>4 DEF ProcWorks, Works
  <2>5. CASE proc[p].pc \in Leased /\ proc[p].t = t
    <3>1. ~Restored(txn[t], db, live) BY <1>2, <1>4, <1>6, RestoredIsClean DEF TxnBase
    <3>2. Works(proc[p].pc, proc[p].mem, proc[p].todo, proc[p].bad, txn[t], db, live, rollback[t], permit[t],
                seal.t = t, Quiet)
      BY <2>3, <2>5 DEF ProcWorks
    <3>3. Works(proc[p].pc, proc[p].mem, proc[p].todo, proc[p].bad, txn[t], db', live, rollback[t], permit'[t],
                seal.t = t, Quiet)
      BY <1>1, <1>2, <1>3, <3>1, <3>2 DEF Works
    <3>4. Quiet' = Quiet BY <1>1 DEF Quiet
    <3> QED BY <1>1, <2>5, <3>3, <3>4 DEF ProcWorks
  <2> QED BY <2>1, <2>4, <2>5
<1> QED BY <1>1, <1>3, <1>8, <1>9, <1>10 DEF Base, Quiet

\* Only the commands and the operator's copies write the live corpus.
Undisturbed      == \A m \in Managed, b \in Content : ~Drift(m, b)
NobodyElseWrites == [][Undisturbed]_vars

\* Every step keeps the invariant.
LEMMA NextBase ==
    ASSUME TypeOK, Backed, Bound, InTurn, Steady, Base, [Next]_vars, [Starting]_vars, [Undisturbed]_vars
    PROVE  Base'
<1> USE DEF corpus, author, bounds
<1>1. ASSUME UNCHANGED <<live, db, txn, rollback, permit, seal, lease, proc>> PROVE Base'
  BY <1>1 DEF Base, Quiet, ProcWorks
<1>2. CASE UNCHANGED vars BY <1>1, <1>2 DEF vars
<1>3. CASE Environment /\ Undisturbed
  <2>1. ASSUME NEW t \in Txn, NEW f \in File, NEW b \in Content, EditWork(t, f, b) PROVE Base'
    BY <1>1, <2>1 DEF EditWork
  <2>2. ASSUME NEW t \in Txn, CompleteAudit(t) PROVE Base' BY <1>1, <2>2 DEF CompleteAudit
  <2>3. ASSUME NEW t \in Txn, ExpirePermit(t) PROVE Base'
    <3>1. \A u \in Txn : permit'[u] = "active" => permit[u] = "active" BY <2>3 DEF ExpirePermit, TypeOK
    <3> QED BY <2>3, <3>1, PermitsLost DEF ExpirePermit
  <2> QED BY <1>3, <2>1, <2>2, <2>3, OperatorCopiesBase, WorkspaceHeartbeatBase DEF Environment, Undisturbed
<1>4. ASSUME NEW p \in Proc, Commands(p), Starting PROVE Base' BY <1>4, CommandsBase
<1>5. ASSUME NEW p \in Proc, Step(p) \/ Failure(p) PROVE Base' BY <1>5, StepBase
<1> QED BY <1>2, <1>3, <1>4, <1>5 DEF Next

(* A transaction is recorded as aborted or rolled back by one save only.   *)
LEMMA CommandsEndNothing ==
    ASSUME TypeOK, NEW p \in Proc, Commands(p), NEW u \in Txn
    PROVE  txn'[u] = txn[u] \/ txn'[u].state \notin {"ABORTED", "ROLLED_BACK"}
<1>0. txn \in Txns /\ \A t \in Txn : txn[t] \in Record BY DEF TypeOK, Txns
<1>1. ASSUME NEW t \in Txn, NEW r, txn' = [txn EXCEPT ![t] = r], r.state \notin {"ABORTED", "ROLLED_BACK"}
      PROVE  txn'[u] = txn[u] \/ txn'[u].state \notin {"ABORTED", "ROLLED_BACK"}
  BY <1>0, <1>1 DEF Txns
<1>2. ASSUME NEW t \in Txn, NEW D \in SUBSET Doc, IncludeDocuments(p, t, D)
      PROVE  txn'[u] = txn[u] \/ txn'[u].state \notin {"ABORTED", "ROLLED_BACK"}
  <2> DEFINE o == Reopened(txn[t])
             r == [o EXCEPT !.docs = @ \cup D,
                            !.copy = [f \in File |-> IF f \in D THEN live[f] ELSE @[f]]]
  <2>1. txn' = [txn EXCEPT ![t] = r] /\ txn[t].state \in PreApply BY <1>2 DEF IncludeDocuments
  <2>2. o \in Record /\ o.state = "CHECKED_OUT" BY <1>0, <2>1, RevisedFields, RecReopened
  <2>3. r.state = "CHECKED_OUT"
    <3> HIDE DEF o
    <3> QED BY <2>2 DEF Record
  <2> HIDE DEF r
  <2> QED BY <1>1, <2>1, <2>3
<1>3. ASSUME NEW t \in Txn, txn[t].state \in PreApply
      PROVE  /\ Reopened(txn[t]).state = "CHECKED_OUT"
             /\ Unapproved(txn[t]) \in Record /\ Unapproved(txn[t]).state \in PreApply
  BY <1>0, <1>3, RevisedFields, RecReopened
<1>4. ASSUME NEW t \in Txn, MetadataPlan(p, t) \/ PrepareRefused(p, t)
      PROVE  txn'[u] = txn[u] \/ txn'[u].state \notin {"ABORTED", "ROLLED_BACK"}
  <2>1. /\ txn[t].state \in PreApply
        /\ \E r \in {Reopened(txn[t]), Unapproved(txn[t])} : txn' = [txn EXCEPT ![t] = r]
    BY <1>4 DEF MetadataPlan, PrepareRefused, PrepareCommand
  <2> QED BY <1>1, <1>3, <2>1 DEF PreApply
<1>5. ASSUME NEW t \in Txn, PrepareBlocked(p, t)
      PROVE  txn'[u] = txn[u] \/ txn'[u].state \notin {"ABORTED", "ROLLED_BACK"}
  <2> DEFINE n == Unapproved(txn[t])
             r == [n EXCEPT !.state = "AWAITING_METADATA_REVIEW"]
  <2>1. txn' = [txn EXCEPT ![t] = r] /\ txn[t].state \in PreApply
    BY <1>5 DEF PrepareBlocked, PrepareCommand
  <2>2. n \in Record BY <1>3, <2>1
  <2>3. r.state = "AWAITING_METADATA_REVIEW"
    <3> HIDE DEF n
    <3> QED BY <2>2 DEF Record
  <2> HIDE DEF r
  <2> QED BY <1>1, <2>1, <2>3
<1>6. ASSUME NEW t \in Txn, Prepare(p, t)
      PROVE  txn'[u] = txn[u] \/ txn'[u].state \notin {"ABORTED", "ROLLED_BACK"}
  <2> DEFINE n == Unapproved(txn[t])
             x == ChangedSources(t, txn[t]) \cup ChangedDocs(t, txn[t])
             k == [work |-> Regenerated(t, txn[t]), audit |-> audit[t]]
             r == [n EXCEPT !.state = "PREPARED", !.changed = x, !.prepared = k]
  <2>1. txn' = [txn EXCEPT ![t] = r] /\ txn[t].state \in PreApply BY <1>6 DEF Prepare, PrepareCommand
  <2>2. n \in Record BY <1>3, <2>1
  <2>3. r.state = "PREPARED"
    <3> HIDE DEF n, x, k
    <3> QED BY <2>2 DEF Record
  <2> HIDE DEF r
  <2> QED BY <1>1, <2>1, <2>3
<1>7. ASSUME NEW t \in Txn, MetadataCheck(p, t)
      PROVE  txn'[u] = txn[u] \/ txn'[u].state \notin {"ABORTED", "ROLLED_BACK"}
  <2> DEFINE r == [txn[t] EXCEPT !.checked = WorkPackage(t)]
  <2>1. txn' = [txn EXCEPT ![t] = r] /\ txn[t].state \in PreApply
    BY <1>0, <1>7 DEF MetadataCheck, Txns, PreApply
  <2>2. r.state = txn[t].state BY <1>0 DEF Record
  <2> HIDE DEF r
  <2> QED BY <1>1, <2>1, <2>2 DEF PreApply
<1>8. ASSUME NEW t \in Txn, RetireOrphan(p, t)
      PROVE  txn'[u] = txn[u] \/ txn'[u].state \notin {"ABORTED", "ROLLED_BACK"}
  <2> DEFINE r == [txn[t] EXCEPT !.state = "ABORTED_ORPHANED_CHECKOUT"]
  <2>1. txn' = [txn EXCEPT ![t] = r] BY <1>8 DEF RetireOrphan
  <2>2. r.state = "ABORTED_ORPHANED_CHECKOUT" BY <1>0 DEF Record
  <2> HIDE DEF r
  <2> QED BY <1>1, <2>1, <2>2
<1>9. ASSUME NEW t \in Txn
      PROVE  \/ VerifyCheck(p, t) \/ ApplyCheck(p, t) \/ Abort(p, t) \/ StaleAbort(p, t)
             \/ AuthorityCheck(p, t) \/ RecoverBaseline(p, t) \/ RecoverTarget(p, t) \/ RecoverReceipt(p, t)
             => UNCHANGED txn
  BY DEF VerifyCheck, ApplyCheck, Abort, StaleAbort, AuthorityCheck, RecoverBaseline, RecoverTarget, RecoverReceipt
<1>10. \A t \in Txn, S \in SUBSET Source, D \in SUBSET Doc : Checkout(p, t, S, D) => UNCHANGED txn
  BY DEF Checkout
<1>11. SealCheck(p) => UNCHANGED txn BY DEF SealCheck
<1> QED BY <1>2, <1>4, <1>5, <1>6, <1>7, <1>8, <1>9, <1>10, <1>11 DEF Commands

LEMMA StepEnds ==
    ASSUME TypeOK, Backed, InTurn, Base, NEW p \in Proc, Step(p) \/ Failure(p), NEW u \in Txn,
           txn'[u] # txn[u], txn'[u].state \in {"ABORTED", "ROLLED_BACK"}
    PROVE  SaveEnd(p) /\ proc[p].t = u
<1> DEFINE t == proc[p].t
           m == proc[p].mem
           c == proc[p].pc
<1>0. /\ txn \in Txns /\ m \in Record /\ \A v \in Txn : txn[v] \in Record
      /\ c \in Loaded => /\ t \in Txn /\ Fits(c, t, m, txn[t], lease, receipt[t])
                         /\ c = "authority" => m.state = "ABORTED_STALE_BASELINE"
  BY DEF TypeOK, Txns, Process, InTurn, ProcFits, Backed, ProcBacked, Base, ProcWorks, Works
<1>z. t = proc[p].t /\ m = proc[p].mem /\ c = proc[p].pc OBVIOUS
<1> HIDE DEF t, m, c
<1>1. ASSUME NEW r, t \in Txn, txn' = [txn EXCEPT ![t] = r]
      PROVE  t = u /\ r.state \in {"ABORTED", "ROLLED_BACK"}
  BY <1>0, <1>1 DEF Txns
<1>2. CASE Materialise(p) \/ CheckoutFails(p)
  <2> DEFINE r == [m EXCEPT !.copy = live]
  <2>1. c = "materialise" /\ txn' = [txn EXCEPT ![t] = r]
    BY <1>2, <1>z DEF Materialise, CheckoutFails, CopyAndSave, At
  <2>2. t \in Txn /\ m.state = "CHECKED_OUT" BY <1>0, <2>1 DEF Fits, Loaded, Pc
  <2>3. r.state = "CHECKED_OUT" BY <1>0, <2>2 DEF Record
  <2> HIDE DEF r
  <2> QED BY <1>1, <2>1, <2>2, <2>3
<1>3. CASE VerifySave(p)
  <2> DEFINE r == [m EXCEPT !.state = "SHADOW_VERIFIED", !.verified = WorkPackage(t)]
  <2>1. c = "verify" /\ txn' = [txn EXCEPT ![t] = r] BY <1>3, <1>z DEF VerifySave, At
  <2>2. t \in Txn BY <1>0, <2>1 DEF Loaded, Pc
  <2>3. r.state = "SHADOW_VERIFIED" BY <1>0 DEF Record
  <2> HIDE DEF r
  <2> QED BY <1>1, <2>1, <2>2, <2>3
<1>4. CASE AuthoritySave(p) \/ ApplyStart(p) \/ SavePostcheck(p)
  <2>1. c \in {"authority", "start", "save_post"} /\ txn' = [txn EXCEPT ![t] = m]
    BY <1>4, <1>z DEF AuthoritySave, ApplyStart, SavePostcheck, At
  <2>2. t \in Txn /\ m.state \in {"ABORTED_STALE_BASELINE", "APPLYING", "POSTCHECK_VERIFIED"}
    BY <1>0, <2>1 DEF Fits, Loaded, Pc
  <2> QED BY <1>1, <2>1, <2>2
<1>5. CASE SaveRecoveryRequired(p)
  <2> DEFINE r == [m EXCEPT !.state = "RECOVERY_REQUIRED"]
  <2>1. c = "failed" /\ txn' = [txn EXCEPT ![t] = r] BY <1>5, <1>z DEF SaveRecoveryRequired, At
  <2>2. t \in Txn BY <1>0, <2>1 DEF Loaded, Pc
  <2>3. r.state = "RECOVERY_REQUIRED" BY <1>0 DEF Record
  <2> HIDE DEF r
  <2> QED BY <1>1, <2>1, <2>2, <2>3
<1>6. CASE FinishCheck(p)
  <2> DEFINE r == [txn[t] EXCEPT !.receipt = IF @ = "none" THEN "PENDING" ELSE @]
  <2>1. c = "finish" /\ txn' = [txn EXCEPT ![t] = r] BY <1>6, <1>z DEF FinishCheck, At
  <2>2. t \in Txn /\ txn[t].state = "POSTCHECK_VERIFIED" BY <1>0, <2>1 DEF Fits, Loaded, Pc
  <2>3. r.state = "POSTCHECK_VERIFIED" BY <1>0, <2>2 DEF Record
  <2> HIDE DEF r
  <2> QED BY <1>1, <2>1, <2>2, <2>3
<1>7. CASE CommitReceipt(p)
  <2> DEFINE r == [m EXCEPT !.receipt = "COMMITTED"]
  <2>1. c = "commit" /\ txn' = [txn EXCEPT ![t] = r] BY <1>7, <1>z DEF CommitReceipt, At
  <2>2. t \in Txn /\ m.state = "POSTCHECK_VERIFIED" BY <1>0, <2>1 DEF Fits, Loaded, Pc
  <2>3. r.state = "POSTCHECK_VERIFIED" BY <1>0, <2>2 DEF Record
  <2> HIDE DEF r
  <2> QED BY <1>1, <2>1, <2>2, <2>3
<1>8. CASE SaveEnd(p)
  <2>1. c = "save_end" /\ txn' = [txn EXCEPT ![t] = m] BY <1>8, <1>z DEF SaveEnd, At
  <2>2. t \in Txn BY <1>0, <2>1 DEF Loaded, Pc
  <2> QED BY <1>1, <1>8, <1>z, <2>1, <2>2
<1>9. \/ SealWrite(p) \/ Acquire(p) \/ Backup(p) \/ IssuePermit(p) \/ WriteFile(p) \/ Heartbeat(p)
      \/ Postcheck(p) \/ WriteSeal(p) \/ WriteReceipt(p) \/ ReleaseFinished(p) \/ RollbackFile(p)
      \/ RollbackDone(p) \/ Revoke(p) \/ Unlease(p) \/ HeartbeatFails(p) \/ RevokeFails(p)
      \/ WriteFails(p) \/ SealingFails(p) \/ Crash(p)
      => UNCHANGED txn
  BY DEF SealWrite, Acquire, Backup, IssuePermit, WriteFile, Heartbeat, Postcheck, WriteSeal, WriteReceipt,
         ReleaseFinished, RollbackFile, RollbackDone, Revoke, Unlease, HeartbeatFails, RevokeFails, WriteFails,
         SealingFails, Crash
<1> QED BY <1>2, <1>3, <1>4, <1>5, <1>6, <1>7, <1>8, <1>9 DEF Step, Failure

\* That save finds the live corpus at the baseline.
LEMMA EndsAtBaseline ==
    ASSUME TypeOK, Backed, InTurn, Base, [Next]_vars, NEW t \in Txn,
           txn[t].state \notin Ended, txn'[t].state \in {"ABORTED", "ROLLED_BACK"}
    PROVE  AtBaseline(txn[t])
<1>0. txn'[t] # txn[t] BY DEF Ended
<1>1. ~Environment /\ ~UNCHANGED vars
  BY <1>0 DEF Environment, EditWork, CompleteAudit, OperatorCopies, ExpirePermit, Drift, WorkspaceHeartbeat, vars
<1>2. PICK p \in Proc : SaveEnd(p) /\ proc[p].t = t
  BY <1>0, <1>1, CommandsEndNothing, StepEnds DEF Next
<1>3. proc[p].pc = "save_end" /\ txn' = [txn EXCEPT ![t] = proc[p].mem] BY <1>2 DEF SaveEnd, At
<1>4. proc[p].mem.state \in {"ABORTED", "ROLLED_BACK"} BY <1>3 DEF TypeOK
<1>5. proc[p].pc \in Loaded BY <1>3 DEF Loaded, Pc
<1>6. lease = t /\ txn[t].state \in PreApply \cup Mutating
  BY <1>2, <1>3, <1>5 DEF InTurn, ProcFits, Fits, Leased, Pc
<1>7. Restored(txn[t], db, live) BY <1>2, <1>3, <1>4, <1>5 DEF Base, ProcWorks, Works
<1>8. Sources(txn[t]) /\ txn[t] \in Record BY <1>6 DEF Base, TxnBase, TypeOK
<1> QED BY <1>7, <1>8, RestoredIsBaseline
-----------------------------------------------------------------------------
(* The inductive invariant of the corpus, the preimages, the permits and   *)
(* the seal, when commands run one at a time and only they, the author     *)
(* between commands and the operator of a recovery write the files.        *)
THEOREM BaselineInvariant ==
    ASSUME QuiescentAuthor
    PROVE  Spec /\ CommandsInTurn /\ NobodyElseWrites
             => [](TypeOK /\ Backed /\ Bound /\ InTurn /\ Steady /\ Base)
<1> DEFINE Inv == TypeOK /\ Backed /\ Bound /\ InTurn /\ Steady /\ Base
<1>1. Init => Inv BY InitTyped, InitBound, InitTurn, InitSteady, InitBase
<1>2. Inv /\ [Next]_vars /\ [Starting]_vars /\ [Undisturbed]_vars => Inv'
  BY NextTyped, NextBound, NextTurn, NextSteady, NextBase
<1> QED BY <1>1, <1>2, PTL DEF Spec, CommandsInTurn, NobodyElseWrites

\* The invariant gives the properties.
LEMMA BaseGives ==
    ASSUME TypeOK, Backed, Bound, InTurn, Steady, Base
    PROVE  PreimagesAreBaseline /\ NoPermitOutlivesApply /\ RolledBackIsNotTrusted
<1>1. ASSUME NEW t \in Txn, txn[t].state \in Mutating
      PROVE  rollback[t] # None /\ \A f \in Targets(txn[t].changed) : rollback[t][f] = txn[t].copy[f]
  <2>1. lease = t BY <1>1 DEF InTurn, Sound
  <2>2. rollback[t] = txn[t].copy BY <1>1, <2>1 DEF Base, TxnBase
  <2>3. rollback[t] # None BY <1>1, NoneIsNoCopy DEF Backed, TxnBacked, FileMap
  <2> QED BY <2>2, <2>3
<1>2. PreimagesAreBaseline BY <1>1 DEF PreimagesAreBaseline, Mutating
<1>3. \A t \in Txn : Ending(txn[t], permit[t], seal.t = t) BY DEF Base
<1>4. NoPermitOutlivesApply BY <1>3 DEF NoPermitOutlivesApply, Ending
<1>5. RolledBackIsNotTrusted BY <1>3 DEF RolledBackIsNotTrusted, Ending, Mutating
<1> QED BY <1>2, <1>4, <1>5

(* What rollback restores is what the transaction started from.            *)
THEOREM PreimagesHold ==
    ASSUME QuiescentAuthor
    PROVE  Spec /\ CommandsInTurn /\ NobodyElseWrites => []PreimagesAreBaseline
BY BaselineInvariant, BaseGives, PTL

(* The write authority granted for an apply does not outlive it.           *)
THEOREM PermitsEnd ==
    ASSUME QuiescentAuthor
    PROVE  Spec /\ CommandsInTurn /\ NobodyElseWrites => []NoPermitOutlivesApply
BY BaselineInvariant, BaseGives, PTL

(* The trusted seal is never the result of a rolled back transaction.      *)
THEOREM RolledBackUntrusted ==
    ASSUME QuiescentAuthor
    PROVE  Spec /\ CommandsInTurn /\ NobodyElseWrites => []RolledBackIsNotTrusted
BY BaselineInvariant, BaseGives, PTL

(* abort, a rolled back apply and a recovery to the baseline end only when *)
(* the live corpus and the selected documents are the checkout baseline.   *)
THEOREM EndsOnlyAtBaseline ==
    ASSUME QuiescentAuthor
    PROVE  Spec /\ CommandsInTurn /\ NobodyElseWrites => EndedAtBaseline
<1> DEFINE Ends == \A t \in Txn :
                     txn[t].state \notin Ended /\ txn'[t].state \in {"ABORTED", "ROLLED_BACK"}
                       => AtBaseline(txn[t])
<1>1. TypeOK /\ Backed /\ InTurn /\ Base /\ [Next]_vars => [Ends]_vars BY EndsAtBaseline
<1> QED BY <1>1, BaselineInvariant, PTL DEF Spec, EndedAtBaseline
=============================================================================
