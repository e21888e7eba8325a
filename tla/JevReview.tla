------------------------------- MODULE JevReview -------------------------------
(***************************************************************************)
(* The scientific review of a candidate by Jev (src/review) and its        *)
(* admission at apply (jev_admission.py).  A workflow command fingerprints *)
(* the work directory, has a child send it to Jev, fingerprints it again,  *)
(* weighs the answers and writes a receipt; a low attempt gets a tree of   *)
(* questions first, and must be revised before it is sent again.  A        *)
(* passed receipt is bound to the transaction once, and apply asks for it  *)
(* when the policy says so.  The author edits the candidate all the while. *)
(*                                                                         *)
(* A candidate is a version of the work directory, 0 as it was checked     *)
(* out; Jev is sent its changed source and test lines, the fingerprint is  *)
(* of every file.  An output path of the workflow stands for all the files *)
(* of one attempt.  The scores are abstracted to the verdict on them.  One *)
(* workflow runs at a time.                                                *)
(***************************************************************************)
EXTENDS GuardianSession, JevTree

CONSTANTS
    Out,           \* the paths receipts are written to
    MaxVersion     \* bound: versions of a candidate

ASSUME ReviewConstants == None \notin Out /\ MaxVersion \in Nat

VARIABLES
    required,  \* jev_apply_required of the Workshop configuration
    work,      \* transactions/<t>/work
    verified,  \* verified_work_package_sha256
    evidence,  \* whether the attempt review of a path exists
    receipt,   \* the workflow receipt of a path
    bound,     \* transactions/<t>/review/jev_workflow.json
    rev        \* the running workflow command

reviewFiles == <<evidence, receipt, bound>>
rvars       == <<required, work, verified, reviewFiles, rev, tree>>
jvars       == <<gvars, rvars>>

Version == 0 .. MaxVersion

NoReview == [pc |-> "none", t |-> None, out |-> None, prev |-> None, cand |-> 0, iter |-> 0,
             seen |-> 0, edits |-> 0, low |-> FALSE, gaps |-> FALSE]

ReviewInit ==
    /\ work = [t \in Txn |-> 0] /\ verified = [t \in Txn |-> None]
    /\ evidence = [o \in Out |-> FALSE] /\ receipt = [o \in Out |-> None]
    /\ bound = [t \in Txn |-> None] /\ rev = NoReview /\ tree = NoTree

-----------------------------------------------------------------------------
Unreviewed == UNCHANGED <<required, verified, gvars>>

Receipt(decision, iter) ==
    [t |-> rev.t, cand |-> rev.cand, iter |-> iter, prev |-> rev.prev, decision |-> decision,
     seen |-> rev.seen, twice |-> rev.edits > 1]

Low(x) == x # None /\ x.decision \in {"RECONSIDER", "WAITING"}

(* Mutant: an output path may be used again.                               *)
EmitOver(o, x) == receipt' = [receipt EXCEPT ![o] = x]

(* emit_result: write_json never overwrites, the command fails instead.    *)
Emit(o, x) == receipt' = IF receipt[o] = None THEN [receipt EXCEPT ![o] = x] ELSE receipt

(* A low receipt at the output path itself counts as the previous one.     *)
Previous(t, o, prev) == IF prev = None /\ Low(receipt[o]) /\ receipt[o].t = t THEN o ELSE prev

(* The workflow starts: a previous attempt must be low, of this            *)
(* transaction, and of another candidate; of the same it only says so.     *)
BeginReview(t, o, prev) ==
    LET back == Previous(t, o, prev)
        run  == [NoReview EXCEPT !.t = t, !.out = o, !.prev = back, !.cand = work[t]]
    IN  /\ rev = NoReview /\ tree = NoTree /\ txn[t] # NoFile
        /\ back # None => Low(receipt[back]) /\ receipt[back].t = t
        /\ IF back # None /\ receipt[back].cand = work[t]
           THEN /\ Emit(o, [t |-> t, cand |-> work[t], iter |-> receipt[back].iter, prev |-> back,
                            decision |-> "WAITING", seen |-> 0, twice |-> FALSE])
                /\ UNCHANGED rev
           ELSE /\ rev' = [run EXCEPT !.pc = "gate", !.iter = IF back = None THEN 1 ELSE receipt[back].iter + 1]
                /\ UNCHANGED receipt
        /\ Unreviewed /\ UNCHANGED <<work, evidence, bound, tree>>

ReviewEnds == rev' = NoReview

(* The gate: a candidate of an unapplied transaction, with changes, is     *)
(* sent to Jev.                                                            *)
Gate ==
    /\ rev.pc = "gate"
    /\ IF evidence[rev.out] \/ txn[rev.t].st \notin PreApply \/ work[rev.t] = 0
       THEN ReviewEnds
       ELSE rev' = [rev EXCEPT !.pc = "asked", !.seen = work[rev.t]]
    /\ Unreviewed /\ UNCHANGED <<work, reviewFiles, tree>>

(* evaluate_attempt_vector: a question without an answer is not passed.    *)
Verdict == {"passed", "low", "gaps"}

(* Jev answers, at last or not at all, and to every question or not; an    *)
(* answer the workflow no longer waits for stays as evidence.              *)
Answered ==
    /\ rev.pc = "asked"
    /\ \/ /\ evidence' = [evidence EXCEPT ![rev.out] = TRUE]
          /\ \E verdict \in Verdict :
                rev' = [rev EXCEPT !.pc = "check", !.low = verdict # "passed", !.gaps = verdict = "gaps"]
       \/ ReviewEnds /\ \E late \in BOOLEAN : evidence' = [evidence EXCEPT ![rev.out] = late]
    /\ Unreviewed /\ UNCHANGED <<work, receipt, bound, tree>>

(* Mutant: the candidate is not fingerprinted again.                       *)
WeighAtOnce ==
    /\ rev.pc = "check"
    /\ IF rev.low THEN rev' = [rev EXCEPT !.pc = "tomography"] /\ UNCHANGED receipt
                  ELSE Emit(rev.out, Receipt("APPROVED", rev.iter)) /\ ReviewEnds
    /\ Unreviewed /\ UNCHANGED <<work, evidence, bound, tree>>

(* The candidate must be as it was; a passed attempt gets its receipt at   *)
(* once, a low one is looked into unless the caller declines.              *)
Weigh ==
    /\ rev.pc = "check"
    /\ \/ work[rev.t] # rev.cand /\ ReviewEnds /\ UNCHANGED receipt
       \/ work[rev.t] = rev.cand /\ ~rev.low /\ Emit(rev.out, Receipt("APPROVED", rev.iter)) /\ ReviewEnds
       \/ work[rev.t] = rev.cand /\ rev.low /\ Emit(rev.out, Receipt("RECONSIDER", rev.iter)) /\ ReviewEnds
       \/ work[rev.t] = rev.cand /\ rev.low /\ rev' = [rev EXCEPT !.pc = "tomography"] /\ UNCHANGED receipt
    /\ Unreviewed /\ UNCHANGED <<work, evidence, bound, tree>>

(* Both trees read the candidate once more.  An answer that the workflow   *)
(* counts as missing may be absent, and fails the focused tree (None is no *)
(* number); or out of range, and then the tree takes it as it is, clamped. *)
Investigable(t) == txn[t].st \in PreApply /\ work[t] # 0

Tomography ==
    /\ rev.pc = "tomography" /\ tree = NoTree
    /\ \/ /\ Investigable(rev.t) /\ \E failed \in SUBSET Of("jev_feedback") \ {{}} : FocusRoots(failed)
          /\ rev' = [rev EXCEPT !.pc = "tree"]
       \/ (~Investigable(rev.t) \/ rev.gaps) /\ ReviewEnds /\ UNCHANGED tree
    /\ Unreviewed /\ UNCHANGED <<work, reviewFiles>>

(* The tree is there, or the child failed or timed out: then no receipt    *)
(* tells of the low attempt.                                               *)
LowReceipt ==
    /\ rev.pc = "tree" /\ tree.pc \in {"done", "none"}
    /\ IF tree.pc = "done" THEN Emit(rev.out, Receipt("RECONSIDER", rev.iter)) ELSE UNCHANGED receipt
    /\ ReviewEnds /\ tree' = NoTree
    /\ Unreviewed /\ UNCHANGED <<work, evidence, bound>>

(* The tomography as a command of its own.                                 *)
Explore(t) ==
    /\ rev = NoReview /\ tree = NoTree /\ Investigable(t) /\ GenericRoots
    /\ Unreviewed /\ UNCHANGED <<work, reviewFiles, rev>>

Grow ==
    /\ TreeStep
    /\ Unreviewed /\ UNCHANGED <<work, reviewFiles, rev>>

Discard ==
    /\ rev = NoReview /\ tree.pc = "done" /\ tree' = NoTree
    /\ Unreviewed /\ UNCHANGED <<work, reviewFiles, rev>>

(* jev_bind_workflow: once, and only what has passed.                      *)
BindReceipt(t, o) ==
    /\ receipt[o] # None /\ receipt[o].t = t /\ receipt[o].decision = "APPROVED" /\ bound[t] = None
    /\ bound' = [bound EXCEPT ![t] = receipt[o]]
    /\ Unreviewed /\ UNCHANGED <<work, evidence, receipt, rev, tree>>

(* The author, at any time before apply.                                   *)
Revise(t) ==
    /\ txn[t].st \in PreApply
    /\ \E v \in Version \ {work[t]} : work' = [work EXCEPT ![t] = v]
    /\ rev' = IF rev.t = t /\ rev.edits < 2 THEN [rev EXCEPT !.edits = @ + 1] ELSE rev
    /\ Unreviewed /\ UNCHANGED <<reviewFiles, tree>>

-----------------------------------------------------------------------------
(* require_candidate_jev_clearance.                                        *)
Clear(t) ==
    required => /\ bound[t] # None /\ bound[t].t = t /\ bound[t].decision = "APPROVED"
                /\ bound[t].cand = work[t]

(* verify records the candidate, apply compares it.                        *)
VerifyCandidate(p, t, S) ==
    /\ Prepare(p, t, S)
    /\ verified' = [verified EXCEPT ![t] = work[t]]
    /\ UNCHANGED <<required, work, reviewFiles, rev, tree>>

AdmittedApply(p, t) ==
    /\ Clear(t) /\ work[t] = verified[t] /\ Apply(p, t)
    /\ UNCHANGED rvars

Review ==
    \/ Gate \/ Answered \/ Weigh \/ Tomography \/ LowReceipt \/ Grow \/ Discard
    \/ \E t \in Txn : \/ Revise(t) \/ Explore(t)
                      \/ \E o \in Out : \/ BindReceipt(t, o)
                                        \/ \E prev \in Out \cup {None} : BeginReview(t, o, prev)

Candidate ==
    \E p \in Proc, t \in Txn : AdmittedApply(p, t) \/ \E S \in SUBSET Path : VerifyCandidate(p, t, S)

ReviewNext ==
    \/ GuardNext /\ UNCHANGED rvars
    \/ Review
    \/ Candidate

ReviewSpec == Init /\ ReviewInit /\ required \in BOOLEAN /\ [][ReviewNext]_jvars

-----------------------------------------------------------------------------
(* Properties. *)

(* Where Jev is required, apply starts only from a candidate that was      *)
(* verified and that Jev itself was shown and passed, however often the    *)
(* candidate was edited, reviewed and prepared in between.  Only an author *)
(* who edits it and edits it back during one review escapes the two        *)
(* fingerprints.                                                           *)
AppliedWasReviewed ==
    [][\A t \in Txn : txn[t].st # "APPLYING" /\ txn'[t].st = "APPLYING" /\ required =>
         /\ work[t] = verified[t]
         /\ \E o \in Out : /\ receipt[o] = bound[t] /\ receipt[o].t = t /\ ~Low(receipt[o])
                           /\ receipt[o].seen = work[t] \/ receipt[o].twice]_jvars

(* The attempts on a candidate form a chain that stays auditable: the      *)
(* receipt an attempt continues is still there, low, of the same           *)
(* transaction and one iteration older, and the candidate was revised; a   *)
(* candidate that was not revised is never sent again on its strength.     *)
ChainIsAuditable ==
    \A o \in Out : receipt[o] # None /\ receipt[o].prev # None =>
        LET now == receipt[o]  old == receipt[now.prev] IN
        /\ now.prev # o /\ Low(old) /\ old.t = now.t
        /\ IF now.decision = "WAITING" THEN now.cand = old.cand /\ now.iter = old.iter
                                       ELSE now.cand # old.cand /\ now.iter = old.iter + 1
=============================================================================
