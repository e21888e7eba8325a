---------------------------- MODULE GuardianSession ----------------------------
(***************************************************************************)
(* The Guardian (guardian*.py): a session leads one human problem from a   *)
(* hypothesis over gated evidence to a proven scope, admits Workshop       *)
(* transactions inside that scope one at a time, and closes after a fresh  *)
(* run.  Sessions, lease, state.json and seal are separate files, written  *)
(* one after the other by commands that may die in between; the lock of a  *)
(* session covers one update of its file and nothing else.                 *)
(*                                                                         *)
(* Packages are numbered in the order they come into being.  Of the        *)
(* evidence, the inspection of source lines is kept: its package and its   *)
(* paths.  One kind of transaction ("normal") and one kind of path are     *)
(* modelled; what a prepared change touches inside a file is left out.     *)
(***************************************************************************)
EXTENDS Naturals, FiniteSets, Sequences, SequencesExt

CONSTANTS
    Session, Txn, Proc, Path,
    Steps,         \* the steps of an investigation, in order
    None,          \* no transaction, no gate, no receipt, ...
    MaxPackage,    \* bound: packages beside the first
    MaxIncidents   \* bound: kills, failures, foreign edits, changes of Memory or task

ASSUME GuardianConstants ==
    /\ None \notin Session \cup Txn \cup Proc
    /\ Range(Steps) \subseteq {"HYPOTHESIS", "FALSIFIER_1", "FALSIFIER_2", "MAP", "COUNTERPROBE", "EXACT_SOURCE", "PROVE"}
    /\ {"HYPOTHESIS", "MAP", "EXACT_SOURCE", "PROVE"} \subseteq Range(Steps)
    /\ MaxPackage \in Nat /\ MaxIncidents \in Nat

VARIABLES
    sess,     \* guardian-v2/<id>.json
    txn,      \* transactions/<t>/state.json
    lease,    \* lease.json
    live,     \* the package of the live corpus; Torn while it is unverified
    seal,     \* seal.json
    memory,   \* the bytes of the canonical Memory
    task,     \* the active task of runtime_state.json
    newest,   \* the packages that have existed
    proc,     \* what a command remembers
    calm      \* incidents to come

files    == <<sess, txn, lease>>
corpus   == <<live, seal, newest>>
identity == <<memory, task>>
gvars    == <<files, corpus, identity, proc, calm>>

Torn    == MaxPackage + 1
Package == 0 .. MaxPackage

PrePatch == Range(Steps)
Follows(step) ==
    IF step = "PROVE" THEN "PATCH" ELSE Steps[1 + CHOOSE i \in DOMAIN Steps : Steps[i] = step]

Absent == [next |-> "", gate |-> None, mapped |-> {}, exact |-> None, base |-> 0, roll |-> 0,
           memory |-> 0, task |-> 0, patch |-> None, closed |-> FALSE]
NoFile == [st |-> "", req |-> {}, base |-> 0, changed |-> {}, post |-> 0]

PreApply == {"CHECKED_OUT", "PREPARED"}
Undone   == {"ABORTED", "ABORTED_STALE_BASELINE", "ROLLED_BACK"}
Terminal == Undone \cup {"POSTCHECK_VERIFIED"}

Idle == [pc |-> "idle", g |-> None, t |-> None, pkg |-> 0, known |-> {}, req |-> {}]

Init ==
    /\ sess = [g \in Session |-> Absent] /\ txn = [t \in Txn |-> NoFile]
    /\ lease = None /\ live = 0 /\ seal = 0 /\ newest = 0
    /\ memory = 0 /\ task = 0
    /\ proc = [p \in Proc |-> Idle] /\ calm = MaxIncidents

-----------------------------------------------------------------------------
At(p, pc)  == proc[p].pc = pc
Goto(p, r) == proc' = [proc EXCEPT ![p] = r]
Step(p, x) == Goto(p, [proc[p] EXCEPT !.pc = x])
Quit(p)    == Goto(p, Idle)
Incident   == calm > 0 /\ calm' = calm - 1

OnlySession(g, s) == sess' = [sess EXCEPT ![g] = s] /\ UNCHANGED <<txn, lease, corpus, identity, calm>>
OnlyTxn(t, r)     == txn' = [txn EXCEPT ![t] = r] /\ UNCHANGED <<sess, lease, corpus, identity, calm>>

SameMemory(g) == sess[g].memory = memory
SameScope(g)  == sess[g].task = task

(* assert_transaction_active: the one session that owns t, and t active.   *)
Owners(t) == {g \in Session : sess[g].patch # None /\ t \in sess[g].patch.owned}
Active(t) ==
    \E g \in Owners(t) : /\ Owners(t) = {g} /\ SameMemory(g) /\ SameScope(g)
                         /\ sess[g].patch.active = t

(* Every command that acts on a session reads the verified, sealed package *)
(* of the corpus first, and takes the session's lock afterwards; it can    *)
(* name only the receipts there were when it was typed.                    *)
Receipts == {sess[g].gate.seen : g \in {h \in Session : sess[h].gate # None}} \ {None}

ReadPackage(p) ==
    /\ At(p, "idle") /\ live = seal
    /\ Goto(p, [Idle EXCEPT !.pc = "guard", !.pkg = live, !.known = Receipts])
    /\ UNCHANGED <<files, corpus, identity, calm>>

Refused(p) ==
    /\ proc[p].pc \in {"guard", "manifest", "acquire"}
    /\ Quit(p)
    /\ UNCHANGED <<files, corpus, identity, calm>>

-----------------------------------------------------------------------------
(* Investigation. *)

Start(p, g) ==
    /\ At(p, "guard") /\ sess[g] = Absent
    /\ OnlySession(g, [Absent EXCEPT !.next = "HYPOTHESIS", !.base = proc[p].pkg, !.roll = proc[p].pkg,
                                     !.memory = memory, !.task = task])
    /\ Quit(p)

(* enter_state opens the one gate a session may have.                      *)
Enter(p, g) ==
    /\ At(p, "guard") /\ ~sess[g].closed /\ SameMemory(g) /\ SameScope(g)
    /\ sess[g].gate = None
    /\ \/ sess[g].next \in PrePatch /\ sess[g].base = proc[p].pkg
       \/ sess[g].next \in {"PATCH", "HEARTBEAT", "FRESH_RUN"} /\ sess[g].roll = proc[p].pkg
    /\ OnlySession(g, [sess[g] EXCEPT !.gate = [step |-> sess[g].next, pkg |-> proc[p].pkg, seen |-> None]])
    /\ Quit(p)

(* The sessions KAIROS would take to be meant: any that is open at a gate  *)
(* under the present task, for a look into the source at the same gate.    *)
Meant(g) ==
    {o \in Session : /\ ~sess[o].closed /\ SameScope(o) /\ sess[o].gate # None
                     /\ sess[g].gate.step \in {"COUNTERPROBE", "EXACT_SOURCE"} => sess[o].gate.step = sess[g].gate.step}

(* KAIROS answers a search or an inspection, and binds the answer to the   *)
(* gate if just one can be meant.  While the corpus is torn the lines may  *)
(* be those of a file that is not written yet.                             *)
Inspect(g, S) ==
    /\ sess[g].gate # None /\ sess[g].gate.seen = None /\ Meant(g) = {g}
    /\ sess[g].gate.step \in {"FALSIFIER_1", "FALSIFIER_2", "MAP", "COUNTERPROBE", "EXACT_SOURCE"}
    /\ S # {} <=> sess[g].gate.step = "EXACT_SOURCE"
    /\ \E pkg \in IF S = {} THEN {0} ELSE IF live = Torn THEN {seal, Torn} ELSE {live} :
          OnlySession(g, [sess[g] EXCEPT !.gate.seen = [pkg |-> pkg, paths |-> S]])
    /\ UNCHANGED proc

(* _consume_gate.                                                          *)
Through(g, step, pkg) ==
    /\ sess[g].gate # None /\ sess[g].gate.step = step /\ sess[g].gate.pkg = pkg
    /\ sess[g].next = step

(* Mutant: the files inspected are not compared with their present bytes.  *)
AdmissibleOld(g, step, known) ==
    step \notin {"HYPOTHESIS", "PROVE"} =>
        /\ sess[g].gate.seen \in known
        /\ step = "EXACT_SOURCE" => sess[g].gate.seen.paths \subseteq sess[g].mapped

(* The files inspected are as they were when the inspection was permitted. *)
LinesHold(seen) == seen.pkg = IF live = Torn THEN seal ELSE live

(* A receipt of this very gate; of source lines, with its files unchanged. *)
Receipted(g, known) == sess[g].gate.seen \in known
Inspected(g, known) == Receipted(g, known) /\ LinesHold(sess[g].gate.seen)

(* _evidence.                                                              *)
Admissible(g, step, known) ==
    CASE step \in {"HYPOTHESIS", "PROVE"} -> TRUE
      [] step = "EXACT_SOURCE"            -> Inspected(g, known) /\ sess[g].gate.seen.paths \subseteq sess[g].mapped
      [] OTHER                            -> Receipted(g, known)

Opened(scope) ==
    [status |-> "OPEN", proven |-> scope, avail |-> scope, used |-> {}, active |-> None, resv |-> None,
     owned |-> {}, ok |-> {}]

PatchSession ==
    [status : {"OPEN", "WORKSHOP_COMPLETE", "INVALIDATED_BY_DRIFT"}, proven : SUBSET Path, avail : SUBSET Path,
     used : SUBSET Path, active : Txn \cup {None}, resv : Proc \cup {None}, owned : SUBSET Txn, ok : SUBSET Txn]

ASSUME NoneIsNoPatch == None \notin PatchSession

(* advance: S is the map's sources, or the scope contract of PROVE.        *)
Advance(p, g, S) ==
    LET s == sess[g]  step == s.next  pkg == proc[p].pkg IN
    /\ At(p, "guard") /\ ~s.closed /\ SameMemory(g) /\ SameScope(g)
    /\ step \in PrePatch /\ Through(g, step, pkg)
    /\ s.patch = None => s.base = pkg
    /\ Admissible(g, step, proc[p].known)
    /\ CASE step = "MAP"   -> S # {}
         [] step = "PROVE" -> s.exact # None /\ S # {} /\ S \subseteq s.exact.paths
         [] OTHER          -> S = {}
    /\ OnlySession(g, [s EXCEPT !.mapped = IF step = "MAP" THEN S ELSE @,
                                !.exact = IF step = "EXACT_SOURCE" THEN s.gate.seen ELSE @,
                                !.patch = IF step = "PROVE" THEN Opened(S) ELSE @,
                                !.roll = IF step = "PROVE" THEN pkg ELSE @,
                                !.next = Follows(step), !.gate = None])
    /\ Quit(p)

(* Mutant: reframe while a transaction is active.                          *)
ReframeUnderway(p, g, target) ==
    LET s == sess[g] IN
    /\ At(p, "guard") /\ s # Absent /\ SameMemory(g) /\ s.roll = proc[p].pkg
    /\ OnlySession(g, [s EXCEPT
          !.patch = None, !.gate = None, !.base = proc[p].pkg, !.next = target, !.exact = None,
          !.mapped = IF target = "HYPOTHESIS" THEN {} ELSE @])
    /\ Quit(p)

(* reframe forgets the patch session, and what was learnt from the map on. *)
Reframe(p, g, target) ==
    LET s == sess[g] IN
    /\ At(p, "guard") /\ s # Absent /\ SameMemory(g)
    /\ s.patch # None => s.patch.active = None
    /\ s.roll = proc[p].pkg
    /\ OnlySession(g, [s EXCEPT
          !.patch = None, !.gate = None, !.base = proc[p].pkg, !.next = target,
          !.mapped = IF target = "HYPOTHESIS" THEN {} ELSE @,
          !.exact = None])
    /\ Quit(p)

-----------------------------------------------------------------------------
(* A guarded checkout: reserve, manifest, lease, bind, materialise. *)

(* Mutant: the request is held against all that was proven.                *)
ReserveAgain(p, g, S) ==
    LET s == sess[g] IN
    /\ At(p, "guard") /\ SameMemory(g) /\ SameScope(g) /\ s.roll = proc[p].pkg
    /\ Through(g, "PATCH", proc[p].pkg)
    /\ s.patch # None /\ s.patch.status = "OPEN" /\ s.patch.active = None
    /\ S # {} /\ S \subseteq s.patch.proven
    /\ OnlySession(g, [s EXCEPT !.patch.resv = p, !.gate = None, !.next = "WORKSHOP"])
    /\ Goto(p, [proc[p] EXCEPT !.pc = "manifest", !.g = g, !.req = S])

(* reserve_transaction; an older reservation is superseded.                *)
Reserve(p, g, S) ==
    LET s == sess[g] IN
    /\ At(p, "guard") /\ SameMemory(g) /\ SameScope(g) /\ s.roll = proc[p].pkg
    /\ Through(g, "PATCH", proc[p].pkg)
    /\ s.patch # None /\ s.patch.status = "OPEN" /\ s.patch.active = None
    /\ S # {} /\ S \subseteq s.patch.avail
    /\ OnlySession(g, [s EXCEPT !.patch.resv = p, !.gate = None, !.next = "WORKSHOP"])
    /\ Goto(p, [proc[p] EXCEPT !.pc = "manifest", !.g = g, !.req = S])

(* The checkout proper reads the corpus again, and nobody compares.        *)
Manifest(p) ==
    /\ At(p, "manifest") /\ live = seal
    /\ Goto(p, [proc[p] EXCEPT !.pc = "acquire", !.pkg = live])
    /\ UNCHANGED <<files, corpus, identity, calm>>

Fresh(t) == txn[t] = NoFile /\ Owners(t) = {} /\ lease # t /\ \A p \in Proc : proc[p].t # t

Acquire(p, t) ==
    /\ At(p, "acquire") /\ lease = None /\ Fresh(t)
    /\ lease' = t
    /\ Goto(p, [proc[p] EXCEPT !.pc = "bind", !.t = t])
    /\ UNCHANGED <<sess, txn, corpus, identity, calm>>

Bind(p) ==
    LET g == proc[p].g  t == proc[p].t IN
    /\ At(p, "bind")
    /\ IF sess[g].patch # None /\ sess[g].patch.resv = p /\ sess[g].patch.active = None
       THEN /\ OnlySession(g, [sess[g] EXCEPT !.patch.active = t, !.patch.resv = None, !.next = "",
                                              !.patch.owned = @ \cup {t}])
            /\ Step(p, "materialise")
       ELSE /\ lease' = IF lease = t THEN None ELSE lease
            /\ Quit(p)
            /\ UNCHANGED <<sess, txn, corpus, identity, calm>>

(* The first save; the Guardian observes it afterwards, and a session that *)
(* no longer knows the transaction fails the command only then.            *)
Materialise(p) ==
    /\ At(p, "materialise")
    /\ OnlyTxn(proc[p].t, [NoFile EXCEPT !.st = "CHECKED_OUT", !.base = proc[p].pkg, !.req = proc[p].req])
    /\ Quit(p)

CheckoutFails(p) ==
    /\ At(p, "materialise") /\ Incident
    /\ IF lease = proc[p].t THEN lease' = None /\ Step(p, "cancel")
                            ELSE UNCHANGED lease /\ Quit(p)
    /\ UNCHANGED <<sess, txn, corpus, identity>>

(* cancel_transaction.                                                     *)
Cancel(p) ==
    /\ At(p, "cancel")
    /\ IF Active(proc[p].t)
       THEN LET g == CHOOSE o \in Owners(proc[p].t) : TRUE IN
            OnlySession(g, [sess[g] EXCEPT !.patch.active = None, !.next = "PATCH"])
       ELSE UNCHANGED <<files, corpus, identity, calm>>
    /\ Quit(p)

-----------------------------------------------------------------------------
(* The transaction. *)

(* _require_lease with the Guardian on.                                    *)
MayWork(p, t) == At(p, "idle") /\ lease = t /\ Active(t)

(* prepare; a change outside the requested scope is refused before it is   *)
(* saved.                                                                  *)
Prepare(p, t, S) ==
    /\ MayWork(p, t) /\ txn[t].st \in PreApply /\ live = txn[t].base
    /\ S # {} /\ S \subseteq txn[t].req
    /\ OnlyTxn(t, [txn[t] EXCEPT !.st = "PREPARED", !.changed = S])
    /\ UNCHANGED proc

Apply(p, t) ==
    /\ MayWork(p, t) /\ txn[t].st = "PREPARED" /\ live = txn[t].base
    /\ newest < MaxPackage
    /\ txn' = [txn EXCEPT ![t].st = "APPLYING"]
    /\ live' = Torn
    /\ Goto(p, [Idle EXCEPT !.pc = "apply", !.t = t])
    /\ UNCHANGED <<sess, lease, seal, newest, identity, calm>>

(* _save_transaction: the Guardian observes the saved event once more      *)
(* before it lets the next one through.                                    *)
Record(p, t, r, pc) ==
    IF Active(t) THEN /\ txn' = [txn EXCEPT ![t] = r]
                      /\ Goto(p, [Idle EXCEPT !.pc = pc, !.t = IF pc = "idle" THEN None ELSE t])
                 ELSE UNCHANGED txn /\ Quit(p)

(* The result is verified and sealed: at the end of apply, or by recover.  *)
Publish(p, t) ==
    /\ newest' = newest + 1 /\ live' = newest' /\ seal' = newest'
    /\ Record(p, t, [txn[t] EXCEPT !.st = "POSTCHECK_VERIFIED", !.post = newest'], "terminal")
    /\ UNCHANGED <<sess, lease, identity>>

RollBack(p, t) ==
    /\ live' = txn[t].base
    /\ Record(p, t, [txn[t] EXCEPT !.st = "ROLLED_BACK"], "terminal")
    /\ UNCHANGED <<sess, lease, seal, newest, identity>>

ApplyEnds(p) == At(p, "apply") /\ Publish(p, proc[p].t) /\ UNCHANGED calm

ApplyFails(p) ==
    /\ At(p, "apply") /\ Incident
    /\ \/ RollBack(p, proc[p].t)
       \/ /\ Record(p, proc[p].t, [txn[proc[p].t] EXCEPT !.st = "RECOVERY_REQUIRED"], "idle")
          /\ UNCHANGED <<sess, lease, corpus, identity>>

(* recover, after the operator restored the baseline or the result.        *)
Recover(p, t) ==
    /\ MayWork(p, t) /\ txn[t].st = "RECOVERY_REQUIRED"
    /\ Publish(p, t) \/ RollBack(p, t)
    /\ UNCHANGED calm

Abort(p, t) ==
    /\ MayWork(p, t) /\ txn[t].st \in PreApply
    /\ \/ live = txn[t].base /\ OnlyTxn(t, [txn[t] EXCEPT !.st = "ABORTED"])
       \/ live \in Package \ {txn[t].base} /\ OnlyTxn(t, [txn[t] EXCEPT !.st = "ABORTED_STALE_BASELINE"])
    /\ Goto(p, [Idle EXCEPT !.pc = "terminal", !.t = t])

(* recover goes on with an interrupted terminal receipt.                   *)
Resume(p, t) ==
    /\ MayWork(p, t) /\ txn[t].st = "POSTCHECK_VERIFIED"
    /\ Goto(p, [Idle EXCEPT !.pc = "terminal", !.t = t])
    /\ UNCHANGED <<files, corpus, identity, calm>>

(* _release_lease: check, delete the lease, tell the session; a stale      *)
(* abort tells it twice.                                                   *)
AssertRelease(p) ==
    LET t == proc[p].t IN
    /\ At(p, "terminal")
    /\ IF /\ live # Torn /\ Active(t)
          /\ txn[t].st = "POSTCHECK_VERIFIED" => live = seal /\ live = txn[t].post
       THEN Goto(p, [proc[p] EXCEPT !.pc = "unlease", !.pkg = live])
       ELSE Quit(p)
    /\ UNCHANGED <<files, corpus, identity, calm>>

Unlease(p) ==
    /\ At(p, "unlease")
    /\ IF lease = proc[p].t THEN lease' = None /\ Step(p, "release")
                            ELSE UNCHANGED lease /\ Quit(p)
    /\ UNCHANGED <<sess, txn, corpus, identity, calm>>

(* Mutant: what was requested is charged, changed or not.                  *)
ChargedRequested(q, t) ==
    [q EXCEPT !.avail = @ \ txn[t].req, !.used = @ \cup txn[t].req, !.ok = @ \cup {t}]

(* A verified transaction uses up what it changed.                         *)
Charged(q, t) == [q EXCEPT !.avail = @ \ txn[t].changed, !.used = @ \cup txn[t].changed, !.ok = @ \cup {t}]

GuardRelease(p) ==
    LET t == proc[p].t  good == txn[t].st = "POSTCHECK_VERIFIED" IN
    /\ At(p, "release")
    /\ IF Active(t) /\ (good => txn[t].post = proc[p].pkg)
       THEN LET g == CHOOSE o \in Owners(t) : TRUE
                q == IF good THEN Charged(sess[g].patch, t) ELSE sess[g].patch
            IN  /\ OnlySession(g, [sess[g] EXCEPT
                      !.patch = [q EXCEPT !.active = None],
                      !.roll = IF good THEN txn[t].post ELSE @,
                      !.next = IF q.avail # {} THEN "PATCH" ELSE "HEARTBEAT"])
                /\ IF txn[t].st = "ABORTED_STALE_BASELINE"
                   THEN Goto(p, [proc[p] EXCEPT !.pc = "invalidate", !.g = g])
                   ELSE Quit(p)
       ELSE Quit(p) /\ UNCHANGED <<files, corpus, identity, calm>>

Invalidate(p) ==
    LET g == proc[p].g IN
    /\ At(p, "invalidate")
    /\ OnlySession(g, [sess[g] EXCEPT !.patch = IF @ = None THEN None ELSE [@ EXCEPT !.status = "INVALIDATED_BY_DRIFT"],
                                      !.roll = proc[p].pkg, !.gate = None, !.next = "REFRAME_REQUIRED"])
    /\ Quit(p)

-----------------------------------------------------------------------------
(* guard-reconcile takes no lock of the Workshop: it looks, and acts. *)

Reconcile(p, g) ==
    LET q == sess[g].patch IN
    /\ At(p, "idle") /\ live = seal /\ q # None /\ SameMemory(g)
    /\ CASE q.active # None ->
              /\ txn[q.active].st = "" => live = sess[g].roll /\ lease \in {None, q.active}
              /\ txn[q.active].st \in Terminal \cup {""}
              /\ Goto(p, [Idle EXCEPT !.t = q.active, !.pkg = live, !.pc =
                    IF lease = q.active THEN (IF txn[q.active].st = "" THEN "unbind" ELSE "unlease")
                                        ELSE (IF txn[q.active].st = "" THEN "cancel" ELSE "release")])
         [] q.active = None /\ q.resv # None ->
              /\ lease # None /\ txn[lease].st = "" /\ live = sess[g].roll
              /\ Goto(p, [Idle EXCEPT !.g = g, !.t = lease, !.pc = "unreserve"])
         [] OTHER -> FALSE
    /\ UNCHANGED <<files, corpus, identity, calm>>

Unbind(p) ==
    /\ At(p, "unbind")
    /\ IF lease = proc[p].t THEN lease' = None /\ Step(p, "cancel")
                            ELSE UNCHANGED lease /\ Quit(p)
    /\ UNCHANGED <<sess, txn, corpus, identity, calm>>

Unreserve(p) ==
    /\ At(p, "unreserve")
    /\ IF lease = proc[p].t THEN lease' = None /\ Step(p, "unreserved")
                            ELSE UNCHANGED lease /\ Quit(p)
    /\ UNCHANGED <<sess, txn, corpus, identity, calm>>

(* cancel_reservation.                                                     *)
CancelReservation(p) ==
    LET g == proc[p].g IN
    /\ At(p, "unreserved")
    /\ IF sess[g].patch # None /\ sess[g].patch.resv # None
       THEN OnlySession(g, [sess[g] EXCEPT !.patch.resv = None, !.next = "PATCH"])
       ELSE UNCHANGED <<files, corpus, identity, calm>>
    /\ Quit(p)

-----------------------------------------------------------------------------
(* Closing. *)

PatchClose(p, g) ==
    LET q == sess[g].patch IN
    /\ At(p, "guard") /\ SameMemory(g) /\ SameScope(g) /\ sess[g].roll = proc[p].pkg
    /\ Through(g, "HEARTBEAT", proc[p].pkg)
    /\ q # None /\ q.status = "OPEN" /\ q.active = None /\ q.avail = {} /\ q.ok # {}
    /\ OnlySession(g, [sess[g] EXCEPT !.patch.status = "WORKSHOP_COMPLETE", !.next = "FRESH_RUN", !.gate = None])
    /\ Quit(p)

FreshRun(p, g) ==
    /\ At(p, "guard") /\ SameMemory(g) /\ SameScope(g) /\ sess[g].roll = proc[p].pkg
    /\ Through(g, "FRESH_RUN", proc[p].pkg)
    /\ sess[g].patch # None /\ sess[g].patch.status = "WORKSHOP_COMPLETE"
    /\ OnlySession(g, [sess[g] EXCEPT !.closed = TRUE, !.next = "", !.gate = None])
    /\ Quit(p)

-----------------------------------------------------------------------------
(* The rest of the workshop and its environment. *)

(* seal with the Guardian on.                                              *)
Quiet == \A g \in Session :
    ~sess[g].closed /\ sess[g].patch # None => sess[g].patch.status = "INVALIDATED_BY_DRIFT"

Reseal(p) ==
    /\ At(p, "idle") /\ lease = None /\ live # Torn /\ live # seal /\ Quiet
    /\ seal' = live
    /\ UNCHANGED <<files, live, newest, identity, proc, calm>>

(* Somebody changes files that no transaction checked out, consistently.   *)
ForeignEdit ==
    /\ live # Torn /\ newest < MaxPackage /\ Incident
    /\ newest' = newest + 1 /\ live' = newest'
    /\ UNCHANGED <<files, seal, identity, proc>>

IdentityChanges ==
    /\ Incident
    /\ \/ memory' = 1 - memory /\ UNCHANGED task
       \/ task' = 1 - task /\ UNCHANGED memory
    /\ UNCHANGED <<files, corpus, proc>>

Kill(p) ==
    /\ ~At(p, "idle") /\ ~At(p, "guard") /\ Incident
    /\ Quit(p)
    /\ UNCHANGED <<files, corpus, identity>>

-----------------------------------------------------------------------------
Investigate(p) ==
    \/ ReadPackage(p) \/ Refused(p)
    \/ \E g \in Session : \/ Start(p, g) \/ Enter(p, g) \/ PatchClose(p, g) \/ FreshRun(p, g)
                          \/ \E S \in SUBSET Path : Advance(p, g, S) \/ Reserve(p, g, S)
                          \/ \E target \in {"HYPOTHESIS", "MAP"} : Reframe(p, g, target)
                          \/ Reconcile(p, g)

Work(p) ==
    \/ Manifest(p) \/ Bind(p) \/ Materialise(p) \/ CheckoutFails(p) \/ Cancel(p)
    \/ ApplyEnds(p) \/ ApplyFails(p)
    \/ AssertRelease(p) \/ Unlease(p) \/ GuardRelease(p) \/ Invalidate(p)
    \/ Unbind(p) \/ Unreserve(p) \/ CancelReservation(p) \/ Reseal(p) \/ Kill(p)
    \/ \E t \in Txn : Acquire(p, t) \/ Recover(p, t) \/ Abort(p, t) \/ Resume(p, t)

Environment ==
    \/ ForeignEdit \/ IdentityChanges
    \/ \E g \in Session, S \in SUBSET Path : Inspect(g, S)

(* All but the two commands that look at the candidate itself.             *)
GuardNext ==
    \/ \E p \in Proc : Investigate(p) \/ Work(p)
    \/ Environment

Next ==
    \/ GuardNext
    \/ \E p \in Proc, t \in Txn : Apply(p, t) \/ \E S \in SUBSET Path : Prepare(p, t, S)

Spec == Init /\ [][Next]_gvars

(* GUARDIAN.md keeps guard-reconcile for crash windows: it starts when no  *)
(* other command is half way.  (Beside a running checkout it drops the     *)
(* binding of a live transaction, and nothing in the code stops it.)       *)
Reconciling == {"unbind", "unlease", "cancel", "release", "unreserve"}

ReconcileAfterCrash ==
    \A p, q \in Proc :
        At(p, "idle") /\ proc'[p].pc \in Reconciling => proc[q].pc \in {"idle", "guard"}

-----------------------------------------------------------------------------
(* Properties. *)

Changed(T) == UNION {txn[t].changed : t \in T}

(* The books of a patch session balance over any sequence of checkouts,    *)
(* failures and reconciliations: what is used up is exactly what its       *)
(* verified transactions changed, the rest of the proven scope is          *)
(* available, and no verified transaction it owns is forgotten.            *)
ScopeConserved ==
    \A g \in Session : sess[g].patch # None =>
        LET q == sess[g].patch IN
        /\ q.avail = q.proven \ q.used /\ q.used = Changed(q.ok)
        /\ \A t \in q.owned : txn[t].st = "POSTCHECK_VERIFIED" => t \in q.ok \/ t = q.active

(* A proven scope rests on lines read in the very package it was proven    *)
(* for, and the package the session rolls on is that one or the result of  *)
(* a transaction of its own: what another session publishes, or a          *)
(* failed apply leaves behind for a moment, never enters.                  *)
EvidenceFits ==
    \A g \in Session : sess[g].patch # None =>
        LET q == sess[g].patch IN
        /\ sess[g].exact.pkg = sess[g].base /\ q.proven \subseteq sess[g].exact.paths
        /\ q.status # "INVALIDATED_BY_DRIFT" =>
              sess[g].roll \in {sess[g].base} \cup {txn[t].post : t \in q.ok}

(* A leased transaction that has not ended is the active one of exactly    *)
(* one session, whoever died where.                                        *)
GuardedLiveTx ==
    lease \in Txn /\ txn[lease].st \notin Terminal \cup {""} =>
        \E g \in Session : Owners(lease) = {g} /\ sess[g].patch.active = lease

(* What a transaction makes live and trusted was proven by the one session *)
(* that holds the transaction, and nothing of it had been used up before.  *)
PublishedWasProven ==
    [][\A p \in Proc : At(p, "apply") /\ ~At(p, "apply")' /\ seal' # seal =>
         LET t == proc[p].t IN
         \E g \in Session : /\ Owners(t) = {g} /\ sess[g].patch.active = t
                            /\ txn[t].changed \subseteq sess[g].patch.avail]_gvars

(* A session closes when the whole proven scope is published, on the       *)
(* package its last transaction left, with no reservation, no active       *)
(* transaction and no lease of its own behind it.                          *)
ClosedMeansDone ==
    [][\A g \in Session : sess'[g].closed /\ ~sess[g].closed =>
         LET q == sess[g].patch IN
         /\ q.active = None /\ q.resv = None /\ q.proven = Changed(q.ok)
         /\ \E t \in q.ok : sess[g].roll = txn[t].post /\ \A u \in q.ok : txn[u].post <= txn[t].post
         /\ lease \notin q.owned]_gvars
=============================================================================
