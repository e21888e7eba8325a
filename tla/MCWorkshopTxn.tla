--------------------------- MODULE MCWorkshopTxn ---------------------------
(***************************************************************************)
(* Model-checking module of WorkshopTxn: what the commands of the Workshop *)
(* promise, over small sets of transactions, sources and processes.        *)
(***************************************************************************)
EXTENDS WorkshopTxn, TLC

\* Contents are interchangeable, and so are transactions, processes and sources.
SymContent == Permutations(Content)
Sym        == UNION {Permutations(S) : S \in {Content, Txn, Proc, Source}}

(* Bound: several transactions over one source, while nobody else writes,  *)
(* with three edits and failures in all; or one transaction, over any      *)
(* sources, while other writers replace files, a failure for one of those. *)
Started      == {t \in Txn : txn[t].state # "NONE" \/ \E p \in Proc : proc[p].t = t}
OwnedSources == UNION ({txn[t].sources : t \in Txn} \cup {proc[p].mem.sources : p \in Proc})

SeveralOrDrift ==
    \/ drifts = 0 /\ Cardinality(OwnedSources) <= 1 /\ edits + faults <= 3
    \/ Cardinality(Started) <= 1 /\ edits <= 1 /\ faults <= 1 /\ drifts + faults <= 2

\* No other writer of the workspace has replaced a file so far.
NobodyElseWrote == drifts = 0

Unfinished(t) ==
    \/ txn[t].state \in {"APPLYING", "RECOVERY_REQUIRED"}
    \/ txn[t].state = "POSTCHECK_VERIFIED" /\ txn[t].receipt # "COMMITTED"

(* A transaction whose mutation is neither proved nor undone keeps the     *)
(* global lease through every crash, failed rollback, failed heartbeat and *)
(* unacknowledged receipt, so that no other transaction can start on a     *)
(* corpus in an unknown state (_core_apply.py: "lease retained").          *)
UnfinishedHoldsLease == \A t \in Txn : Unfinished(t) => lease = t

(* The seal an apply or a recovery writes is the package that was verified *)
(* for this very work directory: the seal and the receipt name             *)
(* verified_work_package_sha256, and the sealed sources are those bytes.   *)
SealedWasVerified ==
    [][ seal' # seal /\ seal'.t # NoTxn =>
          LET r == txn[seal'.t] IN
          /\ WorkPackage(seal'.t) = r.verified
          /\ \A s \in r.changed \cap Source : seal'.pkg[s] = r.verified.work[<<s, "runtime">>]
      ]_vars

(* abort, a rolled back apply and a recovery to the baseline report a live *)
(* corpus and selected documents that equal the checkout baseline, bytes   *)
(* and projection, whatever was written, torn or promoted on the way, as   *)
(* long as nobody else writes: the check and the save are two steps.       *)
EndedAtBaseline ==
    [][ NobodyElseWrote => \A t \in Txn :
          txn[t].state \notin Ended /\ txn'[t].state \in {"ABORTED", "ROLLED_BACK"}
             => AtBaseline(txn[t]) ]_vars

(* What rollback restores is what the transaction started from: preimages  *)
(* are captured before the first live write and never again afterwards     *)
(* (another writer between the check of apply and its backup is captured). *)
PreimagesAreBaseline ==
    NobodyElseWrote => \A t \in Txn : txn[t].state \in {"APPLYING", "RECOVERY_REQUIRED"} =>
        rollback[t] # None
        /\ \A f \in Targets(txn[t].changed) : rollback[t][f] = txn[t].copy[f]

(* The write authority KAIROS granted for an apply does not outlive it: a  *)
(* rolled back transaction withdrew it, a postchecked one consumed it.  An *)
(* apply that was killed has not ended: it keeps the permit, until recover *)
(* or until it expires.  (Another writer's heartbeat may use it up.)       *)
NoPermitOutlivesApply ==
    NobodyElseWrote => \A t \in Txn : txn[t].permit /\ txn[t].state \in {"ROLLED_BACK", "POSTCHECK_VERIFIED"}
                      => permit[t] # "active"

(* The acknowledged receipt exists as a file, a receipt file belongs to a  *)
(* postchecked transaction that staged its payload, and until it is        *)
(* acknowledged the transaction has the lease and the trusted seal is its  *)
(* result: no kill, retry or other writer between postcheck, receipt and   *)
(* acknowledgement lets a result be acknowledged that is not sealed.       *)
ReceiptsAreBacked ==
    \A t \in Txn :
        /\ txn[t].receipt = "COMMITTED" => receipt[t]
        /\ receipt[t] => txn[t].state = "POSTCHECK_VERIFIED" /\ txn[t].receipt # "none"
        /\ txn[t].state = "POSTCHECK_VERIFIED" /\ txn[t].receipt # "COMMITTED"
             => lease = t /\ seal = [pkg |-> txn[t].post, t |-> t]

(* An ended or acknowledged transaction never changes again: when commands *)
(* run one at a time, no later command, retry or recovery after a kill at  *)
(* any step takes it up again (TERMINAL_STATES).  Of two commands on one   *)
(* transaction the slower one can: it saves the record it loaded.          *)
Final(t) == txn[t].state \in Ended \/ txn[t].receipt = "COMMITTED"
EndedIsFinal == [][\A t \in Txn : Final(t) => txn'[t].state = txn[t].state /\ Final(t)']_vars

(* However checkouts race, the one that fills its work directory owns the  *)
(* lease, so two of them never copy baselines at the same time.            *)
OneCheckoutAtATime ==
    \A p \in Proc : proc[p].pc = "materialise" => lease = proc[p].t

(* "another checkout already owns the global workshop lease": a process    *)
(* that writes or restores live files works for the owner of the lease.    *)
LiveWriterHoldsLease ==
    \A p \in Proc : proc[p].pc \in {"write", "rollback"} => lease = proc[p].t

(* "cannot seal while a transaction holds the global workshop lease".      *)
SealRespectsLease == [][seal' # seal /\ lease # NoTxn => seal'.t = lease]_vars

(* The trusted seal is never the result of a transaction that was rolled   *)
(* back ("left the complete live corpus at its sealed checkout baseline"). *)
RolledBackIsNotTrusted ==
    NobodyElseWrote => \A t \in Txn : txn[t].state = "ROLLED_BACK" => seal.t # t

-----------------------------------------------------------------------------
(* The commands, run one at a time, change the corpus serially: the phase  *)
(* of a transaction is what its state.json says, the holder is the owner   *)
(* of lease.json.                                                          *)
PhaseOf(r) ==
    CASE r.state = "NONE"                                -> "new"
      [] r.state \in PreApply                            -> "open"
      [] r.state \in {"APPLYING", "RECOVERY_REQUIRED"}   -> "mutating"
      [] r.state \in Ended \/ r.receipt = "COMMITTED"    -> "closed"
      [] OTHER                                           -> "proved"

Serial == INSTANCE SerialChange WITH holder <- lease, phase <- [t \in Txn |-> PhaseOf(txn[t])]

\* Every run of the commands is a run of SerialChange, each save, lease operation and
\* crash being one of its steps or none (no command skips a phase or acts unleased).
ChangesSerially == Serial!Spec

-----------------------------------------------------------------------------
(* A started command keeps running until it is killed, and an operator who *)
(* finds a transaction to recover eventually runs recover while no other   *)
(* command is running.                                                     *)
Fairness ==
    /\ \A p \in Proc : WF_vars(Step(p))
    /\ \A p \in Proc, t \in Txn :
         /\ SF_vars(RecoverReceipt(p, t))
         /\ SF_vars(RecoverTarget(p, t))
         /\ SF_vars(RecoverBaseline(p, t))

FairSpec == Spec /\ Fairness

(* Every command ends: no branch of apply, rollback or receipt waits.      *)
CommandsEnd == \A p \in Proc : ~At(p, "idle") ~> At(p, "idle")

(* Once the postcheck is saved, the receipt is acknowledged and the lease  *)
(* released, however often the finishing process is killed.                *)
PostcheckIsAcknowledged ==
    \A t \in Txn : txn[t].state = "POSTCHECK_VERIFIED"
                     ~> txn[t].receipt = "COMMITTED" /\ lease # t

(* A transaction in recovery does not stay there with its verified result  *)
(* complete in the live corpus.                                            *)
CompletedTargetRecovers ==
    \A t \in Txn : ~<>[](/\ txn[t].state = "RECOVERY_REQUIRED"
                         /\ CorpusVerified /\ ~AtBaseline(txn[t])
                         /\ WorkPackage(t) = txn[t].verified /\ LiveIsWork(t, txn[t]))

(* A transaction in recovery does not stay there with its complete         *)
(* baseline restored ("follow recovery").                                  *)
RestoredBaselineRecovers ==
    \A t \in Txn : ~<>[](txn[t].state = "RECOVERY_REQUIRED" /\ AtBaseline(txn[t]))
=============================================================================
