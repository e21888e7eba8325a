----------------------- MODULE WorkshopSerial_proofs -----------------------
(***************************************************************************)
(* What the commands of the Workshop promise when an operator starts one   *)
(* only while no other is running: the lease covers every unfinished       *)
(* mutation, a receipt belongs to a proved result, an ended transaction    *)
(* stays ended, and together the commands implement SerialChange.  Kills,  *)
(* failed writes, the author, other writers of the workspace, foreign      *)
(* heartbeats and the operator's copies by hand may fall between any two   *)
(* steps of a command.                                                     *)
(***************************************************************************)
EXTENDS MCWorkshopTxn, WorkshopTxn_proofs

Resting(p) == proc[p].pc = "idle"

\* The protocol steps whose process works under the lease of its transaction.
Leased == Pc \ {"idle", "seal", "acquire", "authority"}

(* A process at step c, working on transaction t, remembers record m; its  *)
(* state.json is r, the lease is owned by l, and w says whether its        *)
(* receipt file exists.                                                    *)
Fits(c, t, m, r, l, w) ==
    /\ c \in Leased => l = t
    /\ c \in {"acquire", "materialise"} => r.state = "NONE" /\ m.state = "CHECKED_OUT"
    /\ c = "authority" => l = NoTxn /\ r.state \in PreApply /\ m.state \in Ended
    /\ c \in {"verify", "backup", "permit", "start"} => r.state \in PreApply
    /\ c = "verify" => m.state \in PreApply
    /\ c = "start" => m.state = "APPLYING"
    /\ c \in {"write", "heartbeat", "postcheck", "rollback", "revoke", "failed"} => r.state = "APPLYING"
    /\ c = "write_seal" => r.state \in Mutating
    /\ c = "save_post" => r.state \in Mutating /\ m.state = "POSTCHECK_VERIFIED"
    /\ c = "save_end" => r.state \in PreApply \cup Mutating /\ m.state \in Ended
    /\ c = "unlease" => r.state \in Ended
    /\ c \in {"finish", "receipt", "commit", "release"} => r.state = "POSTCHECK_VERIFIED"
    /\ c \in {"receipt", "commit"} => m = r /\ r.receipt # "none"
    /\ c = "commit" => w
    /\ c = "release" => r.receipt = "COMMITTED"
    /\ c \in Loaded \ {"finish", "receipt", "commit", "release"} => m.receipt = "none"

(* What a transaction's own files say of one another and of the lease.     *)
Sound(t, r, l, w) ==
    /\ r.receipt # "none" => r.state = "POSTCHECK_VERIFIED"
    /\ w => r.receipt # "none"
    /\ r.receipt = "COMMITTED" => w
    /\ \/ r.state \in Mutating
       \/ r.state = "POSTCHECK_VERIFIED" /\ r.receipt # "COMMITTED"
       => l = t

ProcFits(p) == Fits(proc[p].pc, proc[p].t, proc[p].mem, txn[proc[p].t], lease, receipt[proc[p].t])

InTurn ==
    /\ \A p, q \in Proc : ~Resting(p) /\ ~Resting(q) => p = q
    /\ \A p \in Proc : proc[p].pc \in Loaded => ProcFits(p)
    /\ \A t \in Txn : Sound(t, txn[t], lease, receipt[t])

\* An operator starts a command only while no command is running.
Starting == \A p \in Proc : Commands(p) => \A q \in Proc : Resting(q)
CommandsInTurn == [][Starting]_vars

-----------------------------------------------------------------------------
(* A step of one process while the others rest: it concerns its own        *)
(* transaction, whose record becomes r.                                    *)
LEMMA TurnStays ==
    ASSUME TypeOK, InTurn, NEW p \in Proc, \A q \in Proc \ {p} : Resting(q),
           \A q \in Proc \ {p} : proc'[q] = proc[q],
           proc'[p].pc \in Loaded => ProcFits(p)',
           \A u \in Txn : Sound(u, txn'[u], lease', receipt'[u])
    PROVE  InTurn'
BY DEF InTurn, Resting, Loaded

LEMMA OthersRest ==
    ASSUME InTurn, NEW p \in Proc, ~Resting(p) PROVE \A q \in Proc \ {p} : Resting(q)
BY DEF InTurn

LEMMA TurnQuits ==
    ASSUME TypeOK, InTurn, NEW p \in Proc, \A q \in Proc \ {p} : Resting(q), Quit(p),
           \A u \in Txn : Sound(u, txn'[u], lease', receipt'[u])
    PROVE  InTurn'
<1>1. proc'[p].pc = "idle" /\ \A q \in Proc \ {p} : proc'[q] = proc[q]
  BY DEF TypeOK, Quit, Idle
<1> QED BY <1>1, TurnStays DEF Loaded

\* The process goes on and nothing it relies on changed but its own step and memory.
LEMMA TurnGoes ==
    ASSUME TypeOK, InTurn, NEW p \in Proc, \A q \in Proc \ {p} : Resting(q),
           NEW c \in Loaded, NEW t \in Txn, NEW m,
           proc'[p].pc = c, proc'[p].t = t, proc'[p].mem = m,
           \A q \in Proc \ {p} : proc'[q] = proc[q],
           UNCHANGED <<txn, lease, receipt>>,
           Fits(c, t, m, txn[t], lease, receipt[t])
    PROVE  InTurn'
<1>1. \A u \in Txn : Sound(u, txn'[u], lease', receipt'[u]) BY DEF InTurn
<1> QED BY <1>1, TurnStays DEF ProcFits

\* A record saved under the lease, or an open one that nobody works for.
LEMMA TurnSaves ==
    ASSUME TypeOK, InTurn, NEW t \in Txn, NEW r, txn' = [txn EXCEPT ![t] = r],
           UNCHANGED <<lease, receipt>>, Sound(t, r, lease, receipt[t])
    PROVE  \A u \in Txn : Sound(u, txn'[u], lease', receipt'[u])
BY DEF InTurn, TypeOK

LEMMA PreApplySound ==
    ASSUME TypeOK, InTurn, NEW t \in Txn, txn[t].state \in PreApply \cup {"NONE"} \cup Mutating \cup Ended
    PROVE  txn[t].receipt = "none" /\ ~receipt[t]
BY DEF InTurn, Sound, PreApply, Mutating, Ended

\* A save that leaves an open transaction open, or retires it.
LEMMA TurnRevises ==
    ASSUME TypeOK, InTurn, NEW t \in Txn, txn[t].state \in PreApply,
           NEW r, txn' = [txn EXCEPT ![t] = r], UNCHANGED <<lease, receipt, proc>>,
           \A q \in Proc : Resting(q),
           r.state \in PreApply \cup Ended, r.receipt = txn[t].receipt
    PROVE  InTurn'
<1>1. txn[t].receipt = "none" /\ ~receipt[t] BY PreApplySound
<1>2. Sound(t, r, lease, receipt[t]) BY <1>1 DEF Sound, PreApply, Ended, Mutating
<1>3. \A u \in Txn : Sound(u, txn'[u], lease', receipt'[u]) BY <1>2, TurnSaves
<1> QED BY <1>3 DEF InTurn, Resting, Loaded

LEMMA RevisedFields ==
    ASSUME NEW r \in Record, r.state \in PreApply
    PROVE  /\ Reopened(r).state = "CHECKED_OUT" /\ Reopened(r).receipt = r.receipt
           /\ Unapproved(r).state \in PreApply /\ Unapproved(r).receipt = r.receipt
<1>1. Reopened(r).state = "CHECKED_OUT" /\ Reopened(r).receipt = r.receipt BY DEF Reopened, Record
<1> QED BY <1>1 DEF Unapproved, PreApply

LEMMA CommandsTurn ==
    ASSUME TypeOK, Backed, InTurn, NEW p \in Proc, Commands(p), Starting PROVE InTurn'
<1> USE DEF corpus, author, bounds
<1>0. /\ proc \in Procs /\ txn \in Txns /\ (\A u \in Txn : txn[u] \in Record)
      /\ \A q \in Proc : Resting(q)
      /\ \A u \in Txn : Sound(u, txn[u], lease, receipt[u])
  BY DEF TypeOK, Procs, Txns, Starting, InTurn
<1>1. CASE SealCheck(p)
  <2>1. proc'[p].pc = "seal" /\ \A q \in Proc \ {p} : proc'[q] = proc[q]
    BY <1>0, <1>1 DEF SealCheck, Procs, Process
  <2> QED BY <1>0, <1>1, <2>1, TurnStays DEF SealCheck, Loaded
(* The commands that start: the process remembers a record of t.           *)
<1>2. ASSUME NEW t \in Txn, NEW c \in Loaded, NEW m,
             proc' = [proc EXCEPT ![p].pc = c, ![p].t = t, ![p].mem = m],
             UNCHANGED <<txn, lease, receipt>>, Fits(c, t, m, txn[t], lease, receipt[t])
      PROVE  InTurn'
  <2>1. /\ proc'[p].pc = c /\ proc'[p].t = t /\ proc'[p].mem = m
        /\ \A q \in Proc \ {p} : proc'[q] = proc[q]
    BY <1>0, <1>2 DEF Procs, Process
  <2> QED BY <1>0, <1>2, <2>1, TurnGoes
<1>3. ASSUME NEW t \in Txn, NEW S \in SUBSET Source, NEW D \in SUBSET Doc, Checkout(p, t, S, D)
      PROVE  InTurn'
  <2> DEFINE m == [NoRecord EXCEPT !.state = "CHECKED_OUT", !.sources = S, !.docs = D, !.pkg = Manifest]
  <2>1. m.state = "CHECKED_OUT" /\ m.receipt = "none" BY DEF NoRecord
  <2>2. /\ proc' = [proc EXCEPT ![p].pc = "acquire", ![p].t = t, ![p].mem = m]
        /\ txn[t].state = "NONE" /\ UNCHANGED <<txn, lease, receipt>>
    BY <1>3 DEF Checkout
  <2> HIDE DEF m
  <2>3. Fits("acquire", t, m, txn[t], lease, receipt[t]) BY <2>1, <2>2 DEF Fits, Leased
  <2> QED BY <1>2, <2>2, <2>3 DEF Loaded, Pc
(* The commands that save at once.                                         *)
<1>4. ASSUME NEW t \in Txn, NEW D \in SUBSET Doc, IncludeDocuments(p, t, D) PROVE InTurn'
  <2> DEFINE o == Reopened(txn[t])
             r == [o EXCEPT !.docs = @ \cup D,
                            !.copy = [f \in File |-> IF f \in D THEN live[f] ELSE @[f]]]
  <2>1. /\ txn[t].state \in PreApply /\ txn' = [txn EXCEPT ![t] = r]
        /\ UNCHANGED <<lease, receipt, proc>>
    BY <1>4 DEF IncludeDocuments
  <2>2. o \in Record /\ o.state = "CHECKED_OUT" /\ o.receipt = txn[t].receipt
    BY <1>0, <2>1, RevisedFields, RecReopened
  <2>3. r.state = "CHECKED_OUT" /\ r.receipt = o.receipt
    <3> HIDE DEF o
    <3> QED BY <2>2 DEF Record
  <2> HIDE DEF o, r
  <2> QED BY <1>0, <2>1, <2>2, <2>3, TurnRevises DEF PreApply
<1>5. ASSUME NEW t \in Txn, MetadataPlan(p, t) PROVE InTurn'
  <2>1. /\ txn[t].state \in PreApply /\ txn' = [txn EXCEPT ![t] = Reopened(txn[t])]
        /\ UNCHANGED <<lease, receipt, proc>>
    BY <1>5 DEF MetadataPlan
  <2> QED BY <1>0, <2>1, RevisedFields, TurnRevises DEF PreApply
<1>6. ASSUME NEW t \in Txn, PrepareRefused(p, t) PROVE InTurn'
  <2>1. /\ txn[t].state \in PreApply /\ txn' = [txn EXCEPT ![t] = Unapproved(txn[t])]
        /\ UNCHANGED <<lease, receipt, proc>>
    BY <1>6 DEF PrepareRefused, PrepareCommand
  <2> QED BY <1>0, <2>1, RevisedFields, TurnRevises
<1>7. ASSUME NEW t \in Txn, PrepareBlocked(p, t) PROVE InTurn'
  <2> DEFINE u == Unapproved(txn[t])
             r == [u EXCEPT !.state = "AWAITING_METADATA_REVIEW"]
  <2>1. /\ txn[t].state \in PreApply /\ txn' = [txn EXCEPT ![t] = r]
        /\ UNCHANGED <<lease, receipt, proc>>
    BY <1>7 DEF PrepareBlocked, PrepareCommand
  <2>2. u \in Record /\ u.receipt = txn[t].receipt BY <1>0, <2>1, RevisedFields, RecReopened
  <2>3. r.state = "AWAITING_METADATA_REVIEW" /\ r.receipt = u.receipt
    <3> HIDE DEF u
    <3> QED BY <2>2 DEF Record
  <2> HIDE DEF u, r
  <2> QED BY <1>0, <2>1, <2>2, <2>3, TurnRevises DEF PreApply
<1>8. ASSUME NEW t \in Txn, Prepare(p, t) PROVE InTurn'
  <2> DEFINE u == Unapproved(txn[t])
             c == ChangedSources(t, txn[t]) \cup ChangedDocs(t, txn[t])
             k == [work |-> Regenerated(t, txn[t]), audit |-> audit[t]]
             r == [u EXCEPT !.state = "PREPARED", !.changed = c, !.prepared = k]
  <2>1. /\ txn[t].state \in PreApply /\ txn' = [txn EXCEPT ![t] = r]
        /\ UNCHANGED <<lease, receipt, proc>>
    BY <1>8 DEF Prepare, PrepareCommand
  <2>2. u \in Record /\ u.receipt = txn[t].receipt BY <1>0, <2>1, RevisedFields, RecReopened
  <2>3. r.state = "PREPARED" /\ r.receipt = u.receipt
    <3> HIDE DEF u, c, k
    <3> QED BY <2>2 DEF Record
  <2> HIDE DEF u, r
  <2> QED BY <1>0, <2>1, <2>2, <2>3, TurnRevises DEF PreApply
<1>9. ASSUME NEW t \in Txn, MetadataCheck(p, t) PROVE InTurn'
  <2> DEFINE r == [txn[t] EXCEPT !.checked = WorkPackage(t)]
  <2>1. /\ txn[t].state \in PreApply /\ txn' = [txn EXCEPT ![t] = r]
        /\ UNCHANGED <<lease, receipt, proc>>
    BY <1>0, <1>9 DEF MetadataCheck, PreApply, Txns
  <2>2. r.state = txn[t].state /\ r.receipt = txn[t].receipt BY <1>0 DEF Record
  <2> HIDE DEF r
  <2> QED BY <1>0, <2>1, <2>2, TurnRevises DEF PreApply
<1>10. ASSUME NEW t \in Txn, RetireOrphan(p, t) PROVE InTurn'
  <2> DEFINE r == [txn[t] EXCEPT !.state = "ABORTED_ORPHANED_CHECKOUT"]
  <2>1. /\ txn[t].state \in PreApply /\ txn' = [txn EXCEPT ![t] = r]
        /\ UNCHANGED <<lease, receipt, proc>>
    BY <1>10 DEF RetireOrphan
  <2>2. r.state = "ABORTED_ORPHANED_CHECKOUT" /\ r.receipt = txn[t].receipt BY <1>0 DEF Record
  <2> HIDE DEF r
  <2> QED BY <1>0, <2>1, <2>2, TurnRevises DEF Ended
(* The commands that remember the saved record and go on.                  *)
<1>11. ASSUME NEW t \in Txn, VerifyCheck(p, t) PROVE InTurn'
  <2>1. /\ proc' = [proc EXCEPT ![p].pc = "verify", ![p].t = t, ![p].mem = txn[t]]
        /\ lease = t /\ txn[t].state \in PreApply /\ UNCHANGED <<txn, lease, receipt>>
    BY <1>11 DEF VerifyCheck, Command, PreApply
  <2>2. txn[t].receipt = "none" BY <2>1, PreApplySound
  <2>3. Fits("verify", t, txn[t], txn[t], lease, receipt[t]) BY <2>1, <2>2 DEF Fits, PreApply
  <2> QED BY <1>2, <2>1, <2>3 DEF Loaded, Pc
<1>12. ASSUME NEW t \in Txn, ApplyCheck(p, t) PROVE InTurn'
  <2>1. /\ proc' = [proc EXCEPT ![p].pc = "backup", ![p].t = t, ![p].mem = txn[t]]
        /\ lease = t /\ txn[t].state \in PreApply /\ UNCHANGED <<txn, lease, receipt>>
    BY <1>12 DEF ApplyCheck, Command, PreApply
  <2>2. txn[t].receipt = "none" BY <2>1, PreApplySound
  <2>3. Fits("backup", t, txn[t], txn[t], lease, receipt[t]) BY <2>1, <2>2 DEF Fits, PreApply
  <2> QED BY <1>2, <2>1, <2>3 DEF Loaded, Pc
<1>13. ASSUME NEW t \in Txn, NEW e \in Ended, lease = t, txn[t].state \in PreApply \cup Mutating,
              proc' = [proc EXCEPT ![p].pc = "save_end", ![p].t = t, ![p].mem = [txn[t] EXCEPT !.state = e]],
              UNCHANGED <<txn, lease, receipt>>
       PROVE  InTurn'
  <2> DEFINE m == [txn[t] EXCEPT !.state = e]
  <2>1. txn[t].receipt = "none" BY <1>13, PreApplySound
  <2>2. m.state = e /\ m.receipt = "none" BY <1>0, <2>1 DEF Record
  <2> HIDE DEF m
  <2>3. Fits("save_end", t, m, txn[t], lease, receipt[t]) BY <1>13, <2>2 DEF Fits
  <2> QED BY <1>2, <1>13, <2>3 DEF Loaded, Pc, m
<1>14. ASSUME NEW t \in Txn, Abort(p, t) PROVE InTurn'
  BY <1>13, <1>14 DEF Abort, Command, Ended
<1>15. ASSUME NEW t \in Txn, StaleAbort(p, t) PROVE InTurn'
  BY <1>13, <1>15 DEF StaleAbort, Command, Ended
<1>16. ASSUME NEW t \in Txn, RecoverBaseline(p, t) PROVE InTurn'
  BY <1>13, <1>16 DEF RecoverBaseline, RecoverCommand, Command, Ended, Mutating
<1>17. ASSUME NEW t \in Txn, AuthorityCheck(p, t) PROVE InTurn'
  <2> DEFINE m == [txn[t] EXCEPT !.state = "ABORTED_STALE_BASELINE"]
  <2>1. /\ proc' = [proc EXCEPT ![p].pc = "authority", ![p].t = t, ![p].mem = m]
        /\ lease = NoTxn /\ txn[t].state \in PreApply /\ UNCHANGED <<txn, lease, receipt>>
    BY <1>17 DEF AuthorityCheck
  <2>2. txn[t].receipt = "none" BY <2>1, PreApplySound
  <2>3. m.state = "ABORTED_STALE_BASELINE" /\ m.receipt = "none" BY <1>0, <2>2 DEF Record
  <2> HIDE DEF m
  <2>4. Fits("authority", t, m, txn[t], lease, receipt[t]) BY <2>1, <2>3 DEF Fits, Ended, Leased
  <2> QED BY <1>2, <2>1, <2>4 DEF Loaded, Pc
<1>18. ASSUME NEW t \in Txn, RecoverTarget(p, t) PROVE InTurn'
  <2>1. /\ proc' = [proc EXCEPT ![p].pc = "write_seal", ![p].t = t, ![p].mem = txn[t], ![p].pkg = Manifest]
        /\ lease = t /\ txn[t].state \in Mutating /\ UNCHANGED <<txn, lease, receipt>>
    BY <1>18 DEF RecoverTarget, RecoverCommand, Command, Mutating
  <2>2. txn[t].receipt = "none" BY <2>1, PreApplySound
  <2>3. Fits("write_seal", t, txn[t], txn[t], lease, receipt[t]) BY <2>1, <2>2 DEF Fits
  <2>4. /\ proc'[p].pc = "write_seal" /\ proc'[p].t = t /\ proc'[p].mem = txn[t]
        /\ \A q \in Proc \ {p} : proc'[q] = proc[q]
    BY <1>0, <2>1 DEF Procs, Process
  <2> QED BY <1>0, <2>1, <2>3, <2>4, TurnGoes DEF Loaded, Pc
<1>19. ASSUME NEW t \in Txn, RecoverReceipt(p, t) PROVE InTurn'
  <2>1. /\ proc' = [proc EXCEPT ![p].pc = "finish", ![p].t = t, ![p].mem = txn[t]]
        /\ txn[t].state = "POSTCHECK_VERIFIED" /\ (txn[t].receipt # "COMMITTED" \/ lease = t)
        /\ UNCHANGED <<txn, lease, receipt>>
    BY <1>19 DEF RecoverReceipt
  <2>2. lease = t BY <1>0, <2>1 DEF Sound
  <2>3. Fits("finish", t, txn[t], txn[t], lease, receipt[t]) BY <2>1, <2>2 DEF Fits
  <2> QED BY <1>2, <2>1, <2>3 DEF Loaded, Pc
<1> QED BY <1>1, <1>3, <1>4, <1>5, <1>6, <1>7, <1>8, <1>9, <1>10, <1>11, <1>12, <1>14, <1>15, <1>16,
           <1>17, <1>18, <1>19 DEF Commands

LEMMA StepTurn ==
    ASSUME TypeOK, Backed, InTurn, NEW p \in Proc, Step(p) \/ Failure(p) PROVE InTurn'
<1> USE DEF corpus, author, bounds
<1> DEFINE t == proc[p].t
           m == proc[p].mem
           c == proc[p].pc
<1>0. /\ proc \in Procs /\ txn \in Txns /\ m \in Record /\ (\A u \in Txn : txn[u] \in Record)
      /\ \A u \in Txn : Sound(u, txn[u], lease, receipt[u])
      /\ c \in Loaded => t \in Txn /\ Fits(c, t, m, txn[t], lease, receipt[t])
      /\ receipt \in [Txn -> BOOLEAN]
  BY DEF TypeOK, Procs, Process, Txns, InTurn, ProcFits, Backed, ProcBacked
<1>r. ~Resting(p)
  <2> USE DEF At, Resting
  <2>1. CASE Failure(p) BY <2>1 DEF Failure, WriteFails, SealingFails, Crash
  <2>2. CASE Step(p)
    BY <2>2 DEF Step, SealWrite, Acquire, Materialise, VerifySave, AuthoritySave, Backup, IssuePermit, ApplyStart,
         WriteFile, Heartbeat, Postcheck, WriteSeal, SavePostcheck, SaveRecoveryRequired, FinishCheck,
         WriteReceipt, CommitReceipt, ReleaseFinished, RollbackFile, RollbackDone, Revoke, SaveEnd, Unlease,
         CheckoutFails, HeartbeatFails, RevokeFails
  <2> QED BY <2>1, <2>2
<1>o. \A q \in Proc \ {p} : Resting(q) BY <1>r, OthersRest
<1> HIDE DEF t, m, c
(* The process ends; nothing, its record or its lease has changed.         *)
<1>q. ASSUME Quit(p), \A u \in Txn : Sound(u, txn'[u], lease', receipt'[u]) PROVE InTurn'
  BY <1>o, <1>q, TurnQuits
<1>n. ASSUME UNCHANGED <<txn, lease, receipt>> PROVE \A u \in Txn : Sound(u, txn'[u], lease', receipt'[u])
  BY <1>0, <1>n
<1>l. ASSUME t \in Txn, UNCHANGED <<txn, receipt>>, lease' = (IF lease = t THEN NoTxn ELSE lease),
             Sound(t, txn[t], NoTxn, receipt[t])
      PROVE  \A u \in Txn : Sound(u, txn'[u], lease', receipt'[u])
  BY <1>0, <1>l DEF Sound
(* The process goes on with record n, which it may have saved.             *)
<1>g. ASSUME NEW d \in Loaded, NEW n, t \in Txn,
             proc'[p].pc = d, proc'[p].t = t, proc'[p].mem = n, \A q \in Proc \ {p} : proc'[q] = proc[q],
             \A u \in Txn : Sound(u, txn'[u], lease', receipt'[u]),
             Fits(d, t, n, txn'[t], lease', receipt'[t])
      PROVE  InTurn'
  BY <1>o, <1>g, TurnStays DEF ProcFits
<1>s. ASSUME t \in Txn, NEW r, txn' = [txn EXCEPT ![t] = r], UNCHANGED <<lease, receipt>>,
             Sound(t, r, lease, receipt[t])
      PROVE  txn'[t] = r /\ \A u \in Txn : Sound(u, txn'[u], lease', receipt'[u])
  BY <1>0, <1>s, TurnSaves DEF Txns
<1>f. ASSUME NEW d, proc' = [proc EXCEPT ![p].pc = d]
      PROVE  /\ proc'[p].pc = d /\ proc'[p].t = t /\ proc'[p].mem = m
             /\ \A q \in Proc \ {p} : proc'[q] = proc[q]
  BY <1>0, <1>f DEF Procs, Process, t, m
<1>k. ASSUME NEW d \in Loaded, NEW n, NEW r, t \in Txn, txn' = [txn EXCEPT ![t] = r],
             UNCHANGED <<lease, receipt>>,
             proc'[p].pc = d, proc'[p].t = t, proc'[p].mem = n, \A q \in Proc \ {p} : proc'[q] = proc[q],
             Sound(t, r, lease, receipt[t]), Fits(d, t, n, r, lease, receipt[t])
      PROVE  InTurn'
  <2>1. txn'[t] = r /\ \A u \in Txn : Sound(u, txn'[u], lease', receipt'[u]) BY <1>k, <1>s
  <2>2. Fits(d, t, n, txn'[t], lease', receipt'[t]) BY <1>k, <2>1
  <2> QED BY <1>k, <1>g, <2>1, <2>2
<1>p. ASSUME NEW r, r.receipt = "none", r.state \notin {"POSTCHECK_VERIFIED"}, r.state \in Mutating => lease = t,
             ~receipt[t]
      PROVE  Sound(t, r, lease, receipt[t])
  BY <1>p DEF Sound
<1>1. CASE SealWrite(p) \/ Crash(p) BY <1>1, <1>n, <1>q DEF SealWrite, Crash
<1>2. CASE Unlease(p)
  <2>1. c = "unlease" /\ t \in Txn /\ txn[t].state \in Ended
    BY <1>0, <1>2 DEF Unlease, At, Fits, Loaded, Pc, c
  <2>2. Sound(t, txn[t], NoTxn, receipt[t]) BY <1>0, <2>1 DEF Sound, Ended, Mutating
  <2> QED BY <1>2, <1>l, <1>q, <2>1, <2>2 DEF Unlease, t
<1>3. CASE ReleaseFinished(p)
  <2>1. c = "release" /\ t \in Txn /\ txn[t].state = "POSTCHECK_VERIFIED" /\ txn[t].receipt = "COMMITTED"
    BY <1>0, <1>3 DEF ReleaseFinished, At, Fits, Loaded, Pc, c
  <2>2. Sound(t, txn[t], NoTxn, receipt[t]) BY <1>0, <2>1 DEF Sound, Mutating
  <2> QED BY <1>3, <1>l, <1>q, <2>1, <2>2 DEF ReleaseFinished, t
<1>4. CASE Acquire(p)
  <2>1. CASE Quit(p) /\ UNCHANGED lease BY <1>4, <1>n, <1>q, <2>1 DEF Acquire
  <2>2. CASE lease = NoTxn /\ lease' = t /\ proc' = [proc EXCEPT ![p].pc = "materialise"]
    <3>1. c = "acquire" /\ t \in Txn /\ Fits(c, t, m, txn[t], lease, receipt[t])
      BY <1>0, <1>4 DEF Acquire, At, Loaded, Pc, c
    <3>2. UNCHANGED <<txn, receipt>> BY <1>4 DEF Acquire
    <3>3. Fits("materialise", t, m, txn'[t], lease', receipt'[t]) BY <2>2, <3>1, <3>2 DEF Fits, Loaded, Pc
    <3>4. \A u \in Txn : lease # u BY <2>2, ConstantsOK
    <3>5. \A u \in Txn : Sound(u, txn'[u], lease', receipt'[u]) BY <1>0, <3>2, <3>4 DEF Sound
    <3> QED BY <1>f, <1>g, <2>2, <3>1, <3>3, <3>5 DEF Loaded, Pc
  <2> QED BY <1>4, <2>1, <2>2 DEF Acquire, t
<1>5. ASSUME c = "materialise", CopyAndSave(p), UNCHANGED receipt
      PROVE  /\ t \in Txn /\ \A u \in Txn : Sound(u, txn'[u], lease, receipt'[u])
             /\ Sound(t, txn'[t], NoTxn, receipt'[t])
  <2> DEFINE r == [m EXCEPT !.copy = live]
  <2>1. t \in Txn /\ txn[t].state = "NONE" /\ m.state = "CHECKED_OUT" /\ m.receipt = "none"
    BY <1>0, <1>5 DEF Fits, Loaded, Pc
  <2>2. r.state = "CHECKED_OUT" /\ r.receipt = "none" BY <1>0, <2>1 DEF Record
  <2>3. ~receipt[t] BY <2>1, PreApplySound
  <2>4. txn' = [txn EXCEPT ![t] = r] BY <1>5 DEF CopyAndSave, t, m
  <2> HIDE DEF r
  <2>5. \A l : Sound(t, r, l, receipt[t]) BY <2>2, <2>3 DEF Sound, Mutating
  <2> QED BY <1>0, <1>5, <2>1, <2>4, <2>5 DEF Txns
<1>6. CASE Materialise(p)
  <2>1. Quit(p) /\ UNCHANGED <<lease, receipt>> /\ c = "materialise" /\ CopyAndSave(p)
    BY <1>6 DEF Materialise, At, c
  <2> QED BY <1>5, <1>q, <2>1
<1>7. CASE CheckoutFails(p)
  <2>1. Quit(p) /\ UNCHANGED receipt /\ c = "materialise" /\ lease' = (IF lease = t THEN NoTxn ELSE lease)
    BY <1>7 DEF CheckoutFails, At, c, t
  <2>2. CASE CopyAndSave(p)
    <3>1. \A u \in Txn : Sound(u, txn'[u], lease', receipt'[u]) BY <1>5, <2>1, <2>2 DEF Sound
    <3> QED BY <1>q, <2>1, <3>1
  <2>3. CASE UNCHANGED txn
    <3>1. t \in Txn /\ txn[t].state = "NONE" BY <1>0, <2>1 DEF Fits, Loaded, Pc
    <3>2. Sound(t, txn[t], NoTxn, receipt[t]) BY <1>0, <3>1 DEF Sound, Mutating
    <3> QED BY <1>l, <1>q, <2>1, <2>3, <3>1, <3>2
  <2> QED BY <1>7, <2>2, <2>3 DEF CheckoutFails
<1>8. CASE VerifySave(p)
  <2> DEFINE r == [m EXCEPT !.state = "SHADOW_VERIFIED", !.verified = WorkPackage(t)]
  <2>1. /\ Quit(p) /\ UNCHANGED <<lease, receipt>> /\ c = "verify"
        /\ txn' = [txn EXCEPT ![t] = r] \/ txn' = txn
    BY <1>8 DEF VerifySave, At, t, m, c
  <2>2. t \in Txn /\ txn[t].state \in PreApply /\ m.receipt = "none"
    BY <1>0, <2>1 DEF Fits, Loaded, Pc
  <2>3. r.state = "SHADOW_VERIFIED" /\ r.receipt = "none" BY <1>0, <2>2 DEF Record
  <2> HIDE DEF r
  <2>4. Sound(t, r, lease, receipt[t]) BY <2>2, <2>3, <1>p, PreApplySound DEF Mutating
  <2> QED BY <1>n, <1>q, <1>s, <2>1, <2>2, <2>4
<1>9. CASE AuthoritySave(p)
  <2>1. /\ Quit(p) /\ UNCHANGED <<lease, receipt>> /\ c = "authority"
        /\ txn' = [txn EXCEPT ![t] = m] \/ txn' = txn
    BY <1>9 DEF AuthoritySave, At, t, m, c
  <2>2. t \in Txn /\ txn[t].state \in PreApply /\ m.state \in Ended /\ m.receipt = "none"
    BY <1>0, <2>1 DEF Fits, Loaded, Pc
  <2>3. Sound(t, m, lease, receipt[t]) BY <2>2, <1>p, PreApplySound DEF Mutating, Ended
  <2> QED BY <1>n, <1>q, <1>s, <2>1, <2>2, <2>3
<1>10. CASE SaveRecoveryRequired(p)
  <2> DEFINE r == [m EXCEPT !.state = "RECOVERY_REQUIRED"]
  <2>1. /\ Quit(p) /\ UNCHANGED <<lease, receipt>> /\ c = "failed" /\ txn' = [txn EXCEPT ![t] = r]
    BY <1>10 DEF SaveRecoveryRequired, At, t, m, c
  <2>2. t \in Txn /\ txn[t].state \in Mutating /\ m.receipt = "none" /\ lease = t
    BY <1>0, <2>1 DEF Fits, Loaded, Leased, Pc, Mutating
  <2>3. r.state = "RECOVERY_REQUIRED" /\ r.receipt = "none" BY <1>0, <2>2 DEF Record
  <2> HIDE DEF r
  <2>4. Sound(t, r, lease, receipt[t]) BY <2>2, <2>3, <1>p, PreApplySound
  <2> QED BY <1>q, <1>s, <2>1, <2>2, <2>4
(* The steps of apply that change bytes, rows, permits and seal only.      *)
<1>11. ASSUME NEW d \in Loaded, NEW n, c \in Loaded, UNCHANGED <<txn, lease, receipt>>,
              proc'[p].pc = d, proc'[p].t = t, proc'[p].mem = n, \A q \in Proc \ {p} : proc'[q] = proc[q],
              Fits(d, t, n, txn[t], lease, receipt[t])
       PROVE  InTurn'
  BY <1>0, <1>g, <1>n, <1>11
<1>12. CASE Backup(p)
  <2>1. /\ c = "backup" /\ c \in Loaded /\ proc' = [proc EXCEPT ![p].pc = "permit"]
        /\ UNCHANGED <<txn, lease, receipt>>
    BY <1>12 DEF Backup, At, c, Loaded, Pc
  <2>2. Fits("permit", t, m, txn[t], lease, receipt[t]) BY <1>0, <2>1 DEF Fits, Leased, Loaded, Pc
  <2> QED BY <1>11, <1>f, <2>1, <2>2 DEF Loaded, Pc
<1>13. CASE IssuePermit(p)
  <2>1. c = "permit" /\ c \in Loaded /\ UNCHANGED <<txn, lease, receipt>>
    BY <1>13 DEF IssuePermit, At, c, Loaded, Pc
  <2>2. CASE Quit(p) BY <1>n, <1>q, <2>1, <2>2
  <2>3. CASE proc' = [proc EXCEPT ![p].pc = "start", ![p].mem.state = "APPLYING", ![p].mem.permit = TRUE]
    <3> DEFINE n == [m EXCEPT !.state = "APPLYING", !.permit = TRUE]
    <3>1. proc'[p].pc = "start" /\ proc'[p].t = t /\ proc'[p].mem = n /\ \A q \in Proc \ {p} : proc'[q] = proc[q]
      BY <1>0, <2>3 DEF Procs, Process, t, m
    <3>2. n.state = "APPLYING" /\ n.receipt = m.receipt BY <1>0 DEF Record
    <3> HIDE DEF n
    <3>3. Fits("start", t, n, txn[t], lease, receipt[t]) BY <1>0, <2>1, <3>2 DEF Fits, Leased, Loaded, Pc
    <3> QED BY <1>11, <2>1, <3>1, <3>3 DEF Loaded, Pc
  <2> QED BY <1>13, <2>2, <2>3 DEF IssuePermit
<1>14. CASE ApplyStart(p)
  <2>1. /\ c = "start" /\ c \in Loaded /\ txn' = [txn EXCEPT ![t] = m] /\ UNCHANGED <<lease, receipt>>
    BY <1>14 DEF ApplyStart, At, c, t, m, Loaded, Pc
  <2>2. proc'[p].pc = "write" /\ proc'[p].t = t /\ proc'[p].mem = m /\ \A q \in Proc \ {p} : proc'[q] = proc[q]
    BY <1>0, <1>14 DEF ApplyStart, Procs, Process, t, m
  <2>3. /\ t \in Txn /\ lease = t /\ m.state = "APPLYING" /\ m.receipt = "none"
        /\ txn[t].state \in PreApply
    BY <1>0, <2>1 DEF Fits, Leased, Loaded, Pc
  <2>4. Sound(t, m, lease, receipt[t]) BY <2>3, <1>p, PreApplySound
  <2>5. Fits("write", t, m, m, lease, receipt[t]) BY <2>3 DEF Fits, Mutating
  <2> QED BY <1>k, <2>1, <2>2, <2>3, <2>4, <2>5 DEF Loaded, Pc
<1>15. CASE WriteFile(p)
  <2>1. /\ c = "write" /\ c \in Loaded /\ UNCHANGED <<txn, lease, receipt>>
    BY <1>15 DEF WriteFile, At, c, Loaded, Pc
  <2>2. PICK f \in Writable(proc[p].todo) :
          proc' = [proc EXCEPT ![p].todo = @ \ {f},
                               ![p].pc = IF proc[p].todo = {f} THEN "heartbeat" ELSE "write"]
    BY <1>15 DEF WriteFile
  <2>3. /\ proc'[p].pc \in {"heartbeat", "write"} /\ proc'[p].t = t /\ proc'[p].mem = m
        /\ \A q \in Proc \ {p} : proc'[q] = proc[q]
    BY <1>0, <2>2 DEF Procs, Process, t, m
  <2>4. \A d \in {"heartbeat", "write"} : d \in Loaded /\ Fits(d, t, m, txn[t], lease, receipt[t])
    BY <1>0, <2>1 DEF Fits, Leased, Loaded, Pc
  <2> QED BY <1>11, <2>1, <2>3, <2>4
<1>16. CASE WriteFails(p)
  <2>1. /\ c = "write" /\ c \in Loaded /\ UNCHANGED <<txn, lease, receipt>>
    BY <1>16 DEF WriteFails, At, c, Loaded, Pc
  <2>2. /\ proc'[p].pc = "rollback" /\ proc'[p].t = t /\ proc'[p].mem = m
        /\ \A q \in Proc \ {p} : proc'[q] = proc[q]
    BY <1>0, <1>16 DEF WriteFails, Procs, Process, t, m
  <2>3. Fits("rollback", t, m, txn[t], lease, receipt[t]) BY <1>0, <2>1 DEF Fits, Leased, Loaded, Pc
  <2> QED BY <1>11, <2>1, <2>2, <2>3 DEF Loaded, Pc
<1>17. CASE Heartbeat(p) \/ HeartbeatFails(p)
  <2>1. /\ c = "heartbeat" /\ c \in Loaded /\ UNCHANGED <<txn, lease, receipt>>
        /\ \E d \in {"postcheck", "failed"} : proc' = [proc EXCEPT ![p].pc = d]
    BY <1>17 DEF Heartbeat, HeartbeatFails, At, c, Loaded, Pc
  <2>2. \A d \in {"postcheck", "failed"} : d \in Loaded /\ Fits(d, t, m, txn[t], lease, receipt[t])
    BY <1>0, <2>1 DEF Fits, Leased, Loaded, Pc
  <2> QED BY <1>11, <1>f, <2>1, <2>2
<1>18. CASE Postcheck(p)
  <2>1. /\ c = "postcheck" /\ c \in Loaded /\ UNCHANGED <<txn, lease, receipt>>
    BY <1>18 DEF Postcheck, At, c, Loaded, Pc
  <2>2. /\ proc'[p].pc \in {"write_seal", "failed"} /\ proc'[p].t = t /\ proc'[p].mem = m
        /\ \A q \in Proc \ {p} : proc'[q] = proc[q]
    BY <1>0, <1>18 DEF Postcheck, Procs, Process, t, m
  <2>3. \A d \in {"write_seal", "failed"} : d \in Loaded /\ Fits(d, t, m, txn[t], lease, receipt[t])
    BY <1>0, <2>1 DEF Fits, Leased, Loaded, Pc, Mutating
  <2> QED BY <1>11, <2>1, <2>2, <2>3
<1>19. CASE WriteSeal(p)
  <2> DEFINE n == [m EXCEPT !.state = "POSTCHECK_VERIFIED", !.post = proc[p].pkg]
  <2>1. /\ c = "write_seal" /\ c \in Loaded /\ UNCHANGED <<txn, lease, receipt>>
    BY <1>19 DEF WriteSeal, At, c, Loaded, Pc
  <2>2. proc'[p].pc = "save_post" /\ proc'[p].t = t /\ proc'[p].mem = n /\ \A q \in Proc \ {p} : proc'[q] = proc[q]
    BY <1>0, <1>19 DEF WriteSeal, Procs, Process, t, m
  <2>3. n.state = "POSTCHECK_VERIFIED" /\ n.receipt = m.receipt BY <1>0 DEF Record
  <2> HIDE DEF n
  <2>4. Fits("save_post", t, n, txn[t], lease, receipt[t]) BY <1>0, <2>1, <2>3 DEF Fits, Leased, Loaded, Pc
  <2> QED BY <1>11, <2>1, <2>2, <2>4 DEF Loaded, Pc
<1>20. CASE SavePostcheck(p)
  <2>1. /\ c = "save_post" /\ c \in Loaded /\ txn' = [txn EXCEPT ![t] = m] /\ UNCHANGED <<lease, receipt>>
        /\ proc' = [proc EXCEPT ![p].pc = "finish"]
    BY <1>20 DEF SavePostcheck, At, c, t, m, Loaded, Pc
  <2>2. t \in Txn /\ lease = t /\ m.state = "POSTCHECK_VERIFIED" /\ m.receipt = "none" /\ txn[t].state \in Mutating
    BY <1>0, <2>1 DEF Fits, Leased, Loaded, Pc
  <2>3. Sound(t, m, lease, receipt[t]) BY <2>2, PreApplySound DEF Sound
  <2>4. Fits("finish", t, m, m, lease, receipt[t]) BY <2>2 DEF Fits
  <2> QED BY <1>f, <1>k, <2>1, <2>2, <2>3, <2>4 DEF Loaded, Pc
<1>21. CASE SealingFails(p)
  <2>1. /\ c \in {"write_seal", "save_post"} /\ c \in Loaded /\ UNCHANGED <<txn, lease, receipt>>
        /\ txn[t].state = "APPLYING" /\ proc' = [proc EXCEPT ![p].pc = "failed"]
    BY <1>21 DEF SealingFails, c, t, Loaded, Pc
  <2>2. Fits("failed", t, m, txn[t], lease, receipt[t]) BY <1>0, <2>1 DEF Fits, Leased, Loaded, Pc
  <2> QED BY <1>11, <1>f, <2>1, <2>2 DEF Loaded, Pc
<1>22. CASE RollbackFile(p)
  <2>1. /\ c = "rollback" /\ c \in Loaded /\ UNCHANGED <<txn, lease, receipt>>
    BY <1>22 DEF RollbackFile, At, c, Loaded, Pc
  <2>2. /\ proc'[p].pc = c /\ proc'[p].t = t /\ proc'[p].mem = m
        /\ \A q \in Proc \ {p} : proc'[q] = proc[q]
    BY <1>0, <1>22 DEF RollbackFile, Procs, Process, t, m, c
  <2> QED BY <1>0, <1>11, <2>1, <2>2
<1>23. CASE RollbackDone(p)
  <2>1. /\ c = "rollback" /\ c \in Loaded /\ UNCHANGED <<txn, lease, receipt>>
        /\ \E d \in {"failed", "revoke"} : proc' = [proc EXCEPT ![p].pc = d]
    BY <1>23 DEF RollbackDone, At, c, Loaded, Pc
  <2>2. \A d \in {"failed", "revoke"} : d \in Loaded /\ Fits(d, t, m, txn[t], lease, receipt[t])
    BY <1>0, <2>1 DEF Fits, Leased, Loaded, Pc
  <2> QED BY <1>11, <1>f, <2>1, <2>2
<1>24. CASE Revoke(p)
  <2> DEFINE n == [m EXCEPT !.state = "ROLLED_BACK"]
  <2>1. /\ c = "revoke" /\ c \in Loaded /\ UNCHANGED <<txn, lease, receipt>>
    BY <1>24 DEF Revoke, At, c, Loaded, Pc
  <2>2. proc'[p].pc = "save_end" /\ proc'[p].t = t /\ proc'[p].mem = n /\ \A q \in Proc \ {p} : proc'[q] = proc[q]
    BY <1>0, <1>24 DEF Revoke, Procs, Process, t, m
  <2>3. n.state = "ROLLED_BACK" /\ n.receipt = m.receipt BY <1>0 DEF Record
  <2> HIDE DEF n
  <2>4. Fits("save_end", t, n, txn[t], lease, receipt[t])
    BY <1>0, <2>1, <2>3 DEF Fits, Leased, Loaded, Pc, Mutating, Ended
  <2> QED BY <1>11, <2>1, <2>2, <2>4 DEF Loaded, Pc
<1>25. CASE RevokeFails(p)
  <2>1. /\ c = "revoke" /\ c \in Loaded /\ UNCHANGED <<txn, lease, receipt>>
        /\ proc' = [proc EXCEPT ![p].pc = "failed"]
    BY <1>25 DEF RevokeFails, At, c, Loaded, Pc
  <2>2. Fits("failed", t, m, txn[t], lease, receipt[t]) BY <1>0, <2>1 DEF Fits, Leased, Loaded, Pc
  <2> QED BY <1>11, <1>f, <2>1, <2>2 DEF Loaded, Pc
<1>26. CASE SaveEnd(p)
  <2>1. /\ c = "save_end" /\ c \in Loaded /\ txn' = [txn EXCEPT ![t] = m] /\ UNCHANGED <<lease, receipt>>
        /\ proc' = [proc EXCEPT ![p].pc = "unlease"]
    BY <1>26 DEF SaveEnd, At, c, t, m, Loaded, Pc
  <2>2. /\ t \in Txn /\ lease = t /\ m.state \in Ended /\ m.receipt = "none"
        /\ txn[t].state \in PreApply \cup Mutating
    BY <1>0, <2>1 DEF Fits, Leased, Loaded, Pc
  <2>3. Sound(t, m, lease, receipt[t]) BY <2>2, <1>p, PreApplySound DEF Ended
  <2>4. Fits("unlease", t, m, m, lease, receipt[t]) BY <2>2 DEF Fits
  <2> QED BY <1>f, <1>k, <2>1, <2>2, <2>3, <2>4 DEF Loaded, Pc
(* The receipt.                                                            *)
<1>27. CASE FinishCheck(p)
  <2> DEFINE s == [txn[t] EXCEPT !.receipt = IF @ = "none" THEN "PENDING" ELSE @]
  <2>1. c = "finish" /\ c \in Loaded /\ UNCHANGED <<lease, receipt>>
    BY <1>27 DEF FinishCheck, At, c, Loaded, Pc
  <2>2. CASE Quit(p) /\ UNCHANGED txn BY <1>n, <1>q, <2>1, <2>2
  <2>3. CASE txn' = [txn EXCEPT ![t] = s] /\ proc' = [proc EXCEPT ![p].pc = "receipt", ![p].mem = s]
    <3>1. t \in Txn /\ lease = t /\ txn[t].state = "POSTCHECK_VERIFIED" /\ Sound(t, txn[t], lease, receipt[t])
      BY <1>0, <2>1 DEF Fits, Leased, Loaded, Pc
    <3>2. /\ s.state = "POSTCHECK_VERIFIED" /\ s.receipt # "none"
          /\ s.receipt = "COMMITTED" => txn[t].receipt = "COMMITTED"
      BY <1>0, <3>1 DEF Record
    <3> HIDE DEF s
    <3>3. proc'[p].pc = "receipt" /\ proc'[p].t = t /\ proc'[p].mem = s /\ \A q \in Proc \ {p} : proc'[q] = proc[q]
      BY <1>0, <2>3 DEF Procs, Process, t
    <3>4. Sound(t, s, lease, receipt[t]) BY <3>1, <3>2 DEF Sound
    <3>5. Fits("receipt", t, s, s, lease, receipt[t]) BY <3>1, <3>2 DEF Fits
    <3> QED BY <1>k, <2>1, <2>3, <3>1, <3>3, <3>4, <3>5 DEF Loaded, Pc
  <2> QED BY <1>27, <2>2, <2>3 DEF FinishCheck, t
<1>28. CASE WriteReceipt(p)
  <2>1. /\ c = "receipt" /\ c \in Loaded /\ UNCHANGED <<txn, lease>>
        /\ receipt' = [receipt EXCEPT ![t] = TRUE] /\ proc' = [proc EXCEPT ![p].pc = "commit"]
    BY <1>28 DEF WriteReceipt, At, c, t, Loaded, Pc
  <2>2. /\ t \in Txn /\ lease = t /\ txn[t].state = "POSTCHECK_VERIFIED" /\ m = txn[t]
        /\ txn[t].receipt # "none"
    BY <1>0, <2>1 DEF Fits, Leased, Loaded, Pc
  <2>3. receipt'[t] /\ \A u \in Txn \ {t} : receipt'[u] = receipt[u] BY <1>0, <2>1, <2>2
  <2>4. \A u \in Txn : Sound(u, txn'[u], lease', receipt'[u]) BY <1>0, <2>1, <2>2, <2>3 DEF Sound
  <2>5. Fits("commit", t, m, txn'[t], lease', receipt'[t]) BY <2>1, <2>2, <2>3 DEF Fits
  <2> QED BY <1>f, <1>g, <2>1, <2>2, <2>4, <2>5 DEF Loaded, Pc
<1>29. CASE CommitReceipt(p)
  <2> DEFINE r == [m EXCEPT !.receipt = "COMMITTED"]
  <2>1. /\ c = "commit" /\ c \in Loaded /\ txn' = [txn EXCEPT ![t] = r] /\ UNCHANGED <<lease, receipt>>
        /\ proc' = [proc EXCEPT ![p].pc = "release"]
    BY <1>29 DEF CommitReceipt, At, c, t, m, Loaded, Pc
  <2>2. t \in Txn /\ lease = t /\ txn[t].state = "POSTCHECK_VERIFIED" /\ m = txn[t] /\ receipt[t]
    BY <1>0, <2>1 DEF Fits, Leased, Loaded, Pc
  <2>3. r.receipt = "COMMITTED" /\ r.state = "POSTCHECK_VERIFIED" BY <1>0, <2>2 DEF Record
  <2> HIDE DEF r
  <2>4. Sound(t, r, lease, receipt[t]) BY <2>2, <2>3 DEF Sound, Mutating
  <2>5. Fits("release", t, m, r, lease, receipt[t]) BY <2>2, <2>3 DEF Fits
  <2> QED BY <1>f, <1>k, <2>1, <2>2, <2>4, <2>5 DEF Loaded, Pc
<1> QED
  BY <1>1, <1>2, <1>3, <1>4, <1>6, <1>7, <1>8, <1>9, <1>10, <1>12, <1>13, <1>14, <1>15, <1>16, <1>17, <1>18,
     <1>19, <1>20, <1>21, <1>22, <1>23, <1>24, <1>25, <1>26, <1>27, <1>28, <1>29 DEF Step, Failure

LEMMA InitTurn == ASSUME Init PROVE InTurn
<1>1. \A p \in Proc : proc[p].pc = "idle" BY DEF Init, Idle
<1>2. \A t \in Txn : txn[t].receipt = "none" /\ txn[t].state = "NONE" /\ ~receipt[t] BY DEF Init, NoRecord
<1> QED BY <1>1, <1>2 DEF InTurn, Resting, Loaded, Sound, Mutating

LEMMA NextTurn == ASSUME TypeOK, Backed, InTurn, [Next]_vars, [Starting]_vars PROVE InTurn'
<1>1. CASE Environment
  <2>1. UNCHANGED <<txn, lease, receipt, proc>>
    BY <1>1 DEF Environment, EditWork, CompleteAudit, OperatorCopies, ExpirePermit, Drift,
                WorkspaceHeartbeat, corpus, author, bounds
  <2> QED BY <2>1 DEF InTurn, Resting, ProcFits
<1>2. CASE UNCHANGED vars BY <1>2 DEF vars, InTurn, Resting, ProcFits
<1>3. ASSUME NEW p \in Proc, Commands(p), Starting PROVE InTurn' BY <1>3, CommandsTurn
<1>4. ASSUME NEW p \in Proc, Step(p) \/ Failure(p) PROVE InTurn' BY <1>4, StepTurn
<1> QED BY <1>1, <1>2, <1>3, <1>4 DEF Next

-----------------------------------------------------------------------------
(* The refinement: which save is which step of SerialChange.               *)
Phases == [u \in Txn |-> PhaseOf(txn[u])]

Forward == {<<"new", "open">>, <<"open", "closed">>, <<"open", "mutating">>, <<"mutating", "proved">>,
            <<"mutating", "closed">>, <<"proved", "closed">>}

SerialStep == [Serial!Next]_(Serial!serial)

\* No save changes the state of a transaction that is over.
Settles == \A u \in Txn : Final(u) => txn'[u].state = txn[u].state

LEMMA PhaseValues ==
    ASSUME NEW r, r.receipt # "none" => r.state = "POSTCHECK_VERIFIED"
    PROVE  /\ r.state = "NONE" => PhaseOf(r) = "new"
           /\ r.state \in PreApply => PhaseOf(r) = "open"
           /\ r.state \in Mutating => PhaseOf(r) = "mutating"
           /\ r.state \in Ended => PhaseOf(r) = "closed"
           /\ r.state = "POSTCHECK_VERIFIED" =>
                PhaseOf(r) = IF r.receipt = "COMMITTED" THEN "closed" ELSE "proved"
BY DEF PhaseOf, PreApply, Mutating, Ended

LEMMA PhaseOfSave ==
    ASSUME TypeOK, NEW t \in Txn, NEW r, txn' = [txn EXCEPT ![t] = r]
    PROVE  /\ Phases' = [Phases EXCEPT ![t] = PhaseOf(r)]
           /\ \A u \in Txn \ {t} : txn'[u] = txn[u]
BY DEF TypeOK, Phases

LEMMA SavesStutter ==
    ASSUME TypeOK, NEW t \in Txn, NEW r, txn' = [txn EXCEPT ![t] = r], UNCHANGED lease,
           PhaseOf(r) = PhaseOf(txn[t]), Final(t) => r.state = txn[t].state
    PROVE  SerialStep /\ Settles
<1>1. Phases' = Phases BY PhaseOfSave DEF Phases
<1>2. Settles BY PhaseOfSave DEF Settles, TypeOK
<1> QED BY <1>1, <1>2 DEF SerialStep, Serial!serial, Phases

LEMMA SavesForward ==
    ASSUME TypeOK, NEW t \in Txn, NEW r, txn' = [txn EXCEPT ![t] = r], UNCHANGED lease,
           lease = t, <<PhaseOf(txn[t]), PhaseOf(r)>> \in Forward, Final(t) => r.state = txn[t].state
    PROVE  SerialStep /\ Settles
<1>1. /\ Phases[t] = PhaseOf(txn[t]) /\ Phases' = [Phases EXCEPT ![t] = PhaseOf(r)]
  BY PhaseOfSave DEF Phases
<1>2. Settles BY PhaseOfSave DEF Settles, TypeOK
<1>3. /\ Serial!Open(t) <=> <<PhaseOf(txn[t]), PhaseOf(r)>> = <<"new", "open">>
      /\ Serial!Cancel(t) <=> <<PhaseOf(txn[t]), PhaseOf(r)>> = <<"open", "closed">>
      /\ Serial!Mutate(t) <=> <<PhaseOf(txn[t]), PhaseOf(r)>> = <<"open", "mutating">>
      /\ Serial!Prove(t) <=> <<PhaseOf(txn[t]), PhaseOf(r)>> = <<"mutating", "proved">>
      /\ Serial!Undo(t) <=> <<PhaseOf(txn[t]), PhaseOf(r)>> = <<"mutating", "closed">>
      /\ Serial!Acknowledge(t) <=> <<PhaseOf(txn[t]), PhaseOf(r)>> = <<"proved", "closed">>
  <2> DEFINE moves(from, to) == Serial!Move(t, from, to)
  <2>1. ASSUME NEW from, NEW to
        PROVE  moves(from, to) <=> PhaseOf(txn[t]) = from /\ Phases' = [Phases EXCEPT ![t] = to]
    BY <1>1 DEF Serial!Move, Phases
  <2>2. ASSUME NEW from, NEW to PROVE moves(from, to) <=> PhaseOf(txn[t]) = from /\ PhaseOf(r) = to
    <3>1. Phases' = [Phases EXCEPT ![t] = to] <=> PhaseOf(r) = to BY ZenonT(30), <1>1 DEF Phases
    <3> QED BY <2>1, <3>1
  <2> QED BY <2>2 DEF Serial!Open, Serial!Cancel, Serial!Mutate, Serial!Prove, Serial!Undo, Serial!Acknowledge
<1>4. Serial!Next BY <1>3 DEF Serial!Next, Forward
<1> QED BY <1>2, <1>4 DEF SerialStep

LEMMA NothingSaved ==
    ASSUME UNCHANGED <<txn, lease>> PROVE SerialStep /\ Settles
BY DEF SerialStep, Serial!serial, Settles

LEMMA LeaseTaken ==
    ASSUME TypeOK, NEW t \in Txn, UNCHANGED txn, lease = NoTxn, lease' = t, PhaseOf(txn[t]) = "new"
    PROVE  SerialStep /\ Settles
<1>1. Phases[t] = "new" /\ Phases' = Phases BY DEF Phases
<1>2. Serial!Take(t) BY <1>1 DEF Serial!Take, Phases
<1>3. Settles BY DEF Settles
<1> QED BY <1>2, <1>3 DEF SerialStep, Serial!Next

LEMMA LeaseReleased ==
    ASSUME TypeOK, NEW t \in Txn, UNCHANGED txn, lease = t, lease' = NoTxn, PhaseOf(txn[t]) \in {"closed", "new"}
    PROVE  SerialStep /\ Settles
<1>1. Phases[t] = PhaseOf(txn[t]) /\ Phases' = Phases BY DEF Phases
<1>2. Serial!Release(t) \/ Serial!GiveUp(t) BY <1>1 DEF Serial!Release, Serial!GiveUp, Phases
<1>3. Settles BY DEF Settles
<1> QED BY <1>2, <1>3 DEF SerialStep, Serial!Next

LEMMA OpenedAndReleased ==
    ASSUME TypeOK, NEW t \in Txn, NEW r, txn' = [txn EXCEPT ![t] = r], lease = t, lease' = NoTxn,
           PhaseOf(txn[t]) = "new", PhaseOf(r) = "open", ~Final(t)
    PROVE  SerialStep /\ Settles
<1>1. Phases[t] = "new" /\ Phases' = [Phases EXCEPT ![t] = "open"] BY ZenonT(30), PhaseOfSave DEF Phases
<1>2. Serial!GiveUp(t) BY <1>1 DEF Serial!GiveUp, Phases
<1>3. Settles BY PhaseOfSave DEF Settles, TypeOK
<1> QED BY <1>2, <1>3 DEF SerialStep, Serial!Next

LEMMA RetiredUnleased ==
    ASSUME TypeOK, NEW t \in Txn, NEW r, txn' = [txn EXCEPT ![t] = r], lease = NoTxn, UNCHANGED lease,
           PhaseOf(txn[t]) = "open", PhaseOf(r) = "closed", ~Final(t)
    PROVE  SerialStep /\ Settles
<1>1. Phases[t] = "open" /\ Phases' = [Phases EXCEPT ![t] = "closed"] BY ZenonT(30), PhaseOfSave DEF Phases
<1>2. Serial!Retire(t) BY <1>1 DEF Serial!Retire, Phases
<1>3. Settles BY PhaseOfSave DEF Settles, TypeOK
<1> QED BY <1>2, <1>3 DEF SerialStep, Serial!Next

\* An open transaction is revised and stays open.
LEMMA Revised ==
    ASSUME TypeOK, InTurn, NEW t \in Txn, txn[t].state \in PreApply, NEW r, txn' = [txn EXCEPT ![t] = r],
           UNCHANGED lease, r.state \in PreApply, r.receipt = txn[t].receipt
    PROVE  SerialStep /\ Settles
<1>1. txn[t].receipt = "none" BY PreApplySound
<1>2. PhaseOf(txn[t]) = "open" /\ PhaseOf(r) = "open" BY <1>1, PhaseValues
<1>3. ~Final(t) BY <1>1 DEF Final, PreApply, Ended
<1> QED BY <1>2, <1>3, SavesStutter

LEMMA CommandsSerial ==
    ASSUME TypeOK, InTurn, NEW p \in Proc, Commands(p) PROVE SerialStep /\ Settles
<1> USE DEF corpus, author, bounds
<1>0. txn \in Txns /\ \A u \in Txn : txn[u] \in Record BY DEF TypeOK, Txns
<1>1. ASSUME NEW t \in Txn, NEW D \in SUBSET Doc, IncludeDocuments(p, t, D) PROVE SerialStep /\ Settles
  <2> DEFINE o == Reopened(txn[t])
             r == [o EXCEPT !.docs = @ \cup D,
                            !.copy = [f \in File |-> IF f \in D THEN live[f] ELSE @[f]]]
  <2>1. txn[t].state \in PreApply /\ txn' = [txn EXCEPT ![t] = r] /\ UNCHANGED lease
    BY <1>1 DEF IncludeDocuments
  <2>2. o \in Record /\ o.state = "CHECKED_OUT" /\ o.receipt = txn[t].receipt
    BY <1>0, <2>1, RevisedFields, RecReopened
  <2>3. r.state = "CHECKED_OUT" /\ r.receipt = o.receipt
    <3> HIDE DEF o
    <3> QED BY <2>2 DEF Record
  <2> HIDE DEF o, r
  <2> QED BY <2>1, <2>2, <2>3, Revised DEF PreApply
<1>2. ASSUME NEW t \in Txn, MetadataPlan(p, t) PROVE SerialStep /\ Settles
  <2>1. txn[t].state \in PreApply /\ txn' = [txn EXCEPT ![t] = Reopened(txn[t])] /\ UNCHANGED lease
    BY <1>2 DEF MetadataPlan
  <2> QED BY <1>0, <2>1, RevisedFields, Revised DEF PreApply
<1>3. ASSUME NEW t \in Txn, PrepareRefused(p, t) PROVE SerialStep /\ Settles
  <2>1. txn[t].state \in PreApply /\ txn' = [txn EXCEPT ![t] = Unapproved(txn[t])] /\ UNCHANGED lease
    BY <1>3 DEF PrepareRefused, PrepareCommand
  <2> QED BY <1>0, <2>1, RevisedFields, Revised
<1>4. ASSUME NEW t \in Txn, PrepareBlocked(p, t) PROVE SerialStep /\ Settles
  <2> DEFINE u == Unapproved(txn[t])
             r == [u EXCEPT !.state = "AWAITING_METADATA_REVIEW"]
  <2>1. txn[t].state \in PreApply /\ txn' = [txn EXCEPT ![t] = r] /\ UNCHANGED lease
    BY <1>4 DEF PrepareBlocked, PrepareCommand
  <2>2. u \in Record /\ u.receipt = txn[t].receipt BY <1>0, <2>1, RevisedFields, RecReopened
  <2>3. r.state = "AWAITING_METADATA_REVIEW" /\ r.receipt = u.receipt
    <3> HIDE DEF u
    <3> QED BY <2>2 DEF Record
  <2> HIDE DEF u, r
  <2> QED BY <2>1, <2>2, <2>3, Revised DEF PreApply
<1>5. ASSUME NEW t \in Txn, Prepare(p, t) PROVE SerialStep /\ Settles
  <2> DEFINE u == Unapproved(txn[t])
             c == ChangedSources(t, txn[t]) \cup ChangedDocs(t, txn[t])
             k == [work |-> Regenerated(t, txn[t]), audit |-> audit[t]]
             r == [u EXCEPT !.state = "PREPARED", !.changed = c, !.prepared = k]
  <2>1. txn[t].state \in PreApply /\ txn' = [txn EXCEPT ![t] = r] /\ UNCHANGED lease
    BY <1>5 DEF Prepare, PrepareCommand
  <2>2. u \in Record /\ u.receipt = txn[t].receipt BY <1>0, <2>1, RevisedFields, RecReopened
  <2>3. r.state = "PREPARED" /\ r.receipt = u.receipt
    <3> HIDE DEF u, c, k
    <3> QED BY <2>2 DEF Record
  <2> HIDE DEF u, r
  <2> QED BY <2>1, <2>2, <2>3, Revised DEF PreApply
<1>6. ASSUME NEW t \in Txn, MetadataCheck(p, t) PROVE SerialStep /\ Settles
  <2> DEFINE r == [txn[t] EXCEPT !.checked = WorkPackage(t)]
  <2>1. txn[t].state \in PreApply /\ txn' = [txn EXCEPT ![t] = r] /\ UNCHANGED lease
    BY <1>0, <1>6 DEF MetadataCheck, PreApply, Txns
  <2>2. r.state = txn[t].state /\ r.receipt = txn[t].receipt BY <1>0 DEF Record
  <2> HIDE DEF r
  <2> QED BY <2>1, <2>2, Revised
<1>7. ASSUME NEW t \in Txn, RetireOrphan(p, t) PROVE SerialStep /\ Settles
  <2> DEFINE r == [txn[t] EXCEPT !.state = "ABORTED_ORPHANED_CHECKOUT"]
  <2>1. /\ txn[t].state \in PreApply /\ txn' = [txn EXCEPT ![t] = r]
        /\ lease = NoTxn /\ UNCHANGED lease
    BY <1>7 DEF RetireOrphan
  <2>2. r.state = "ABORTED_ORPHANED_CHECKOUT" /\ r.receipt = txn[t].receipt BY <1>0 DEF Record
  <2> HIDE DEF r
  <2>3. txn[t].receipt = "none" BY <2>1, PreApplySound
  <2>4. PhaseOf(txn[t]) = "open" /\ PhaseOf(r) = "closed" BY <2>1, <2>2, <2>3, PhaseValues DEF Ended
  <2>5. ~Final(t) BY <2>1, <2>3 DEF Final, PreApply, Ended
  <2> QED BY <2>1, <2>4, <2>5, RetiredUnleased
<1>8. ASSUME NEW t \in Txn,
             \/ SealCheck(p) \/ \E S \in SUBSET Source, D \in SUBSET Doc : Checkout(p, t, S, D)
             \/ VerifyCheck(p, t) \/ ApplyCheck(p, t) \/ Abort(p, t) \/ StaleAbort(p, t) \/ AuthorityCheck(p, t)
             \/ RecoverBaseline(p, t) \/ RecoverTarget(p, t) \/ RecoverReceipt(p, t)
      PROVE  SerialStep /\ Settles
  BY <1>8, NothingSaved DEF SealCheck, Checkout, VerifyCheck, ApplyCheck, Abort, StaleAbort, AuthorityCheck,
       RecoverBaseline, RecoverTarget, RecoverReceipt
<1>9. CASE SealCheck(p) BY <1>9, NothingSaved DEF SealCheck
<1> QED BY <1>1, <1>2, <1>3, <1>4, <1>5, <1>6, <1>7, <1>8, <1>9 DEF Commands

LEMMA StepSerial ==
    ASSUME TypeOK, Backed, InTurn, NEW p \in Proc, Step(p) \/ Failure(p) PROVE SerialStep /\ Settles
<1> USE DEF corpus, author, bounds
<1> DEFINE t == proc[p].t
           m == proc[p].mem
           c == proc[p].pc
<1>0. /\ txn \in Txns /\ m \in Record /\ (\A u \in Txn : txn[u] \in Record)
      /\ c \in Loaded => t \in Txn /\ Fits(c, t, m, txn[t], lease, receipt[t]) /\ Sound(t, txn[t], lease, receipt[t])
  BY DEF TypeOK, Process, Txns, InTurn, ProcFits, Backed, ProcBacked
<1>1. ASSUME c \in Loaded
      PROVE  txn[t].receipt # "none" => txn[t].state = "POSTCHECK_VERIFIED"
  BY <1>0, <1>1 DEF Sound
<1> HIDE DEF t, m, c
<1>2. CASE Acquire(p)
  <2>1. CASE UNCHANGED lease BY <1>2, <2>1, NothingSaved DEF Acquire
  <2>2. CASE lease = NoTxn /\ lease' = t
    <3>1. t \in Txn /\ txn[t].state = "NONE" /\ UNCHANGED txn
      BY <1>0, <1>2 DEF Acquire, At, Fits, Loaded, Pc, c
    <3>2. PhaseOf(txn[t]) = "new" BY <1>1, <1>2, <3>1, PhaseValues DEF Acquire, At, Loaded, Pc, c
    <3> QED BY <2>2, <3>1, <3>2, LeaseTaken
  <2> QED BY <1>2, <2>1, <2>2 DEF Acquire, t
<1>3. ASSUME c = "materialise", CopyAndSave(p)
      PROVE  /\ t \in Txn /\ lease = t /\ PhaseOf(txn[t]) = "new" /\ ~Final(t)
             /\ \E r : txn' = [txn EXCEPT ![t] = r] /\ PhaseOf(r) = "open"
  <2> DEFINE r == [m EXCEPT !.copy = live]
  <2>1. /\ t \in Txn /\ txn[t].state = "NONE" /\ m.state = "CHECKED_OUT" /\ m.receipt = "none" /\ lease = t
    BY <1>0, <1>3 DEF Fits, Leased, Loaded, Pc
  <2>2. r.state = "CHECKED_OUT" /\ r.receipt = "none" BY <1>0, <2>1 DEF Record
  <2>3. txn' = [txn EXCEPT ![t] = r] BY <1>3 DEF CopyAndSave, t, m
  <2> HIDE DEF r
  <2>4. txn[t].receipt = "none" BY <2>1, PreApplySound
  <2>5. PhaseOf(txn[t]) = "new" /\ PhaseOf(r) = "open" BY <2>1, <2>2, <2>4, PhaseValues DEF PreApply
  <2>6. ~Final(t) BY <2>1, <2>4 DEF Final, Ended
  <2> QED BY <2>1, <2>3, <2>5, <2>6
<1>4. CASE Materialise(p)
  <2>1. c = "materialise" /\ CopyAndSave(p) /\ UNCHANGED lease BY <1>4 DEF Materialise, At, c
  <2>2. PICK r : txn' = [txn EXCEPT ![t] = r] /\ PhaseOf(r) = "open" BY <1>3, <2>1
  <2> QED BY <1>3, <2>1, <2>2, SavesForward DEF Forward
<1>5. CASE CheckoutFails(p)
  <2>1. c = "materialise" /\ lease' = (IF lease = t THEN NoTxn ELSE lease)
    BY <1>5 DEF CheckoutFails, At, c, t
  <2>2. t \in Txn /\ txn[t].state = "NONE" /\ lease = t BY <1>0, <2>1 DEF Fits, Leased, Loaded, Pc
  <2>3. CASE CopyAndSave(p)
    <3>1. PICK r : txn' = [txn EXCEPT ![t] = r] /\ PhaseOf(r) = "open" BY <1>3, <2>1, <2>3
    <3> QED BY <1>3, <2>1, <2>2, <2>3, <3>1, OpenedAndReleased
  <2>4. CASE UNCHANGED txn
    <3>1. PhaseOf(txn[t]) = "new" BY <1>1, <2>1, <2>2, PhaseValues DEF Loaded, Pc
    <3> QED BY <2>1, <2>2, <2>4, <3>1, LeaseReleased
  <2> QED BY <1>5, <2>3, <2>4 DEF CheckoutFails
<1>6. CASE VerifySave(p)
  <2> DEFINE r == [m EXCEPT !.state = "SHADOW_VERIFIED", !.verified = WorkPackage(t)]
  <2>1. UNCHANGED lease /\ c = "verify" /\ (txn' = [txn EXCEPT ![t] = r] \/ txn' = txn)
    BY <1>6 DEF VerifySave, At, t, m, c
  <2>2. t \in Txn /\ txn[t].state \in PreApply /\ m.receipt = "none" BY <1>0, <2>1 DEF Fits, Loaded, Pc
  <2>3. r.state = "SHADOW_VERIFIED" /\ r.receipt = "none" BY <1>0, <2>2 DEF Record
  <2> HIDE DEF r
  <2>4. txn[t].receipt = "none" BY <2>2, PreApplySound
  <2> QED BY <2>1, <2>2, <2>3, <2>4, NothingSaved, Revised DEF PreApply
<1>7. CASE AuthoritySave(p)
  <2>1. /\ c = "authority" /\ UNCHANGED lease
        /\ (lease = NoTxn /\ txn' = [txn EXCEPT ![t] = m]) \/ UNCHANGED txn
    BY <1>7 DEF AuthoritySave, At, t, m, c
  <2>2. t \in Txn /\ txn[t].state \in PreApply /\ m.state \in Ended /\ m.receipt = "none"
    BY <1>0, <2>1 DEF Fits, Loaded, Pc
  <2>3. txn[t].receipt = "none" BY <2>2, PreApplySound
  <2>4. PhaseOf(txn[t]) = "open" /\ PhaseOf(m) = "closed" BY <2>2, <2>3, PhaseValues
  <2>5. ~Final(t) BY <2>2, <2>3 DEF Final, PreApply, Ended
  <2> QED BY <2>1, <2>2, <2>4, <2>5, NothingSaved, RetiredUnleased
<1>8. CASE ApplyStart(p)
  <2>1. c = "start" /\ txn' = [txn EXCEPT ![t] = m] /\ UNCHANGED lease BY <1>8 DEF ApplyStart, At, c, t, m
  <2>2. /\ t \in Txn /\ lease = t /\ m.state = "APPLYING" /\ m.receipt = "none" /\ txn[t].state \in PreApply
    BY <1>0, <2>1 DEF Fits, Leased, Loaded, Pc
  <2>3. txn[t].receipt = "none" BY <2>2, PreApplySound
  <2>4. PhaseOf(txn[t]) = "open" /\ PhaseOf(m) = "mutating" BY <2>2, <2>3, PhaseValues DEF Mutating
  <2>5. ~Final(t) BY <2>2, <2>3 DEF Final, PreApply, Ended
  <2> QED BY <2>1, <2>2, <2>4, <2>5, SavesForward DEF Forward
<1>9. CASE SavePostcheck(p)
  <2>1. c = "save_post" /\ txn' = [txn EXCEPT ![t] = m] /\ UNCHANGED lease BY <1>9 DEF SavePostcheck, At, c, t, m
  <2>2. /\ t \in Txn /\ lease = t /\ m.state = "POSTCHECK_VERIFIED" /\ m.receipt = "none"
        /\ txn[t].state \in Mutating
    BY <1>0, <2>1 DEF Fits, Leased, Loaded, Pc
  <2>3. txn[t].receipt = "none" BY <2>2, PreApplySound
  <2>4. PhaseOf(txn[t]) = "mutating" /\ PhaseOf(m) = "proved" BY <2>2, <2>3, PhaseValues
  <2>5. ~Final(t) BY <2>2, <2>3 DEF Final, Mutating, Ended
  <2> QED BY <2>1, <2>2, <2>4, <2>5, SavesForward DEF Forward
<1>10. CASE SaveRecoveryRequired(p)
  <2> DEFINE r == [m EXCEPT !.state = "RECOVERY_REQUIRED"]
  <2>1. c = "failed" /\ txn' = [txn EXCEPT ![t] = r] /\ UNCHANGED lease
    BY <1>10 DEF SaveRecoveryRequired, At, c, t, m
  <2>2. t \in Txn /\ txn[t].state \in Mutating /\ m.receipt = "none"
    BY <1>0, <2>1 DEF Fits, Loaded, Pc, Mutating
  <2>3. r.state = "RECOVERY_REQUIRED" /\ r.receipt = "none" BY <1>0, <2>2 DEF Record
  <2> HIDE DEF r
  <2>4. txn[t].receipt = "none" BY <2>2, PreApplySound
  <2>5. PhaseOf(txn[t]) = "mutating" /\ PhaseOf(r) = "mutating" BY <2>2, <2>3, <2>4, PhaseValues DEF Mutating
  <2>6. ~Final(t) BY <2>2, <2>4 DEF Final, Mutating, Ended
  <2> QED BY <2>1, <2>2, <2>5, <2>6, SavesStutter
<1>11. CASE SaveEnd(p)
  <2>1. c = "save_end" /\ txn' = [txn EXCEPT ![t] = m] /\ UNCHANGED lease BY <1>11 DEF SaveEnd, At, c, t, m
  <2>2. /\ t \in Txn /\ lease = t /\ m.state \in Ended /\ m.receipt = "none"
        /\ txn[t].state \in PreApply \cup Mutating
    BY <1>0, <2>1 DEF Fits, Leased, Loaded, Pc
  <2>3. txn[t].receipt = "none" BY <2>2, PreApplySound
  <2>4. PhaseOf(txn[t]) \in {"open", "mutating"} /\ PhaseOf(m) = "closed" BY <2>2, <2>3, PhaseValues
  <2>5. ~Final(t) BY <2>2, <2>3 DEF Final, PreApply, Mutating, Ended
  <2> QED BY <2>1, <2>2, <2>4, <2>5, SavesForward DEF Forward
<1>12. CASE Unlease(p) \/ ReleaseFinished(p)
  <2>1. /\ c \in {"unlease", "release"} /\ c \in Loaded /\ UNCHANGED txn
        /\ lease' = (IF lease = t THEN NoTxn ELSE lease)
    BY <1>12 DEF Unlease, ReleaseFinished, At, c, t, Loaded, Pc
  <2>2. /\ t \in Txn /\ lease = t
        /\ \/ txn[t].state \in Ended
           \/ txn[t].state = "POSTCHECK_VERIFIED" /\ txn[t].receipt = "COMMITTED"
    <3>1. t \in Txn /\ Fits(c, t, m, txn[t], lease, receipt[t]) BY <1>0, <2>1
    <3> QED BY <2>1, <3>1 DEF Fits, Leased, Pc
  <2>3. PhaseOf(txn[t]) = "closed" BY <1>1, <2>1, <2>2, PhaseValues
  <2> QED BY <2>1, <2>2, <2>3, LeaseReleased
<1>13. CASE FinishCheck(p)
  <2> DEFINE s == [txn[t] EXCEPT !.receipt = IF @ = "none" THEN "PENDING" ELSE @]
  <2>1. c = "finish" /\ UNCHANGED lease /\ (txn' = [txn EXCEPT ![t] = s] \/ UNCHANGED txn)
    BY <1>13 DEF FinishCheck, At, c, t
  <2>2. t \in Txn /\ txn[t].state = "POSTCHECK_VERIFIED" BY <1>0, <2>1 DEF Fits, Loaded, Pc
  <2>3. s.state = "POSTCHECK_VERIFIED" /\ (s.receipt = "COMMITTED" <=> txn[t].receipt = "COMMITTED")
    BY <1>0, <2>2 DEF Record
  <2> HIDE DEF s
  <2>4. PhaseOf(s) = PhaseOf(txn[t]) BY <2>2, <2>3, PhaseValues
  <2> QED BY <2>1, <2>2, <2>3, <2>4, NothingSaved, SavesStutter
<1>14. CASE CommitReceipt(p)
  <2> DEFINE r == [m EXCEPT !.receipt = "COMMITTED"]
  <2>1. c = "commit" /\ txn' = [txn EXCEPT ![t] = r] /\ UNCHANGED lease BY <1>14 DEF CommitReceipt, At, c, t, m
  <2>2. t \in Txn /\ lease = t /\ txn[t].state = "POSTCHECK_VERIFIED" /\ m = txn[t]
    BY <1>0, <2>1 DEF Fits, Leased, Loaded, Pc
  <2>3. r.receipt = "COMMITTED" /\ r.state = "POSTCHECK_VERIFIED" BY <1>0, <2>2 DEF Record
  <2> HIDE DEF r
  <2>4. PhaseOf(txn[t]) \in {"proved", "closed"} /\ PhaseOf(r) = "closed" BY <2>2, <2>3, PhaseValues
  <2> QED BY <2>1, <2>2, <2>3, <2>4, SavesForward, SavesStutter DEF Forward
<1>15. CASE \/ SealWrite(p) \/ Crash(p) \/ Backup(p) \/ IssuePermit(p) \/ WriteFile(p) \/ WriteFails(p)
            \/ Heartbeat(p) \/ HeartbeatFails(p) \/ Postcheck(p) \/ WriteSeal(p) \/ SealingFails(p)
            \/ RollbackFile(p) \/ RollbackDone(p) \/ Revoke(p) \/ RevokeFails(p) \/ WriteReceipt(p)
  BY <1>15, NothingSaved DEF SealWrite, Crash, Backup, IssuePermit, WriteFile, WriteFails, Heartbeat,
       HeartbeatFails, Postcheck, WriteSeal, SealingFails, RollbackFile, RollbackDone, Revoke, RevokeFails,
       WriteReceipt
<1> QED BY <1>2, <1>4, <1>5, <1>6, <1>7, <1>8, <1>9, <1>10, <1>11, <1>12, <1>13, <1>14, <1>15 DEF Step, Failure

LEMMA NextSerial == ASSUME TypeOK, Backed, InTurn, [Next]_vars PROVE SerialStep /\ Settles
<1>1. CASE Environment
  <2>1. UNCHANGED <<txn, lease>>
    BY <1>1 DEF Environment, EditWork, CompleteAudit, OperatorCopies, ExpirePermit, Drift,
                WorkspaceHeartbeat, corpus, author, bounds
  <2> QED BY <2>1, NothingSaved
<1>2. CASE UNCHANGED vars BY <1>2, NothingSaved DEF vars
<1>3. ASSUME NEW p \in Proc, Commands(p) PROVE SerialStep /\ Settles BY <1>3, CommandsSerial
<1>4. ASSUME NEW p \in Proc, Step(p) \/ Failure(p) PROVE SerialStep /\ Settles BY <1>4, StepSerial
<1> QED BY <1>1, <1>2, <1>3, <1>4 DEF Next

-----------------------------------------------------------------------------
(* However many operators run their commands at once: the checkout that    *)
(* fills its work directory owns the lease, because nobody else can work   *)
(* for a transaction that is not saved yet.                                *)
Filling == {"acquire", "materialise"}

CheckoutExcludes ==
    \A p \in Proc : proc[p].pc \in Filling =>
        /\ txn[proc[p].t].state = "NONE"
        /\ \A q \in Proc \ {p} : proc[q].t # proc[p].t
        /\ proc[p].pc = "materialise" => lease = proc[p].t

LEMMA InitExcludes == ASSUME Init PROVE CheckoutExcludes
BY DEF Init, Idle, CheckoutExcludes, Filling

\* A step of p: what it becomes, and what it leaves alone of the others that fill a directory.
LEMMA ExcludesFrame ==
    ASSUME CheckoutExcludes, NEW p \in Proc,
           \A q \in Proc \ {p} : proc'[q] = proc[q],
           \A q \in Proc \ {p} : proc[q].pc \in Filling =>
                /\ txn'[proc[q].t] = txn[proc[q].t]
                /\ lease = proc[q].t => lease' = proc[q].t
                /\ proc'[p].t # proc[q].t,
           proc'[p].pc \in Filling =>
                /\ txn'[proc'[p].t].state = "NONE"
                /\ \A q \in Proc \ {p} : proc[q].t # proc'[p].t
                /\ proc'[p].pc = "materialise" => lease' = proc'[p].t
    PROVE  CheckoutExcludes'
<1> SUFFICES ASSUME NEW r \in Proc, (proc[r].pc \in Filling)'
             PROVE  (/\ txn[proc[r].t].state = "NONE"
                     /\ \A q \in Proc \ {r} : proc[q].t # proc[r].t
                     /\ proc[r].pc = "materialise" => lease = proc[r].t)'
  BY DEF CheckoutExcludes
<1>1. CASE r = p BY <1>1 DEF Filling
<1>2. CASE r # p
  <2>1. /\ proc'[r] = proc[r] /\ proc[r].pc \in Filling
        /\ txn'[proc[r].t] = txn[proc[r].t] /\ (lease = proc[r].t => lease' = proc[r].t)
        /\ proc'[p].t # proc[r].t
    BY <1>2 DEF Filling
  <2>2. /\ txn[proc[r].t].state = "NONE" /\ \A q \in Proc \ {r} : proc[q].t # proc[r].t
        /\ (proc[r].pc = "materialise" => lease = proc[r].t)
    BY <2>1 DEF CheckoutExcludes
  <2>3. \A q \in Proc \ {r} : proc'[q].t # proc'[r].t
    <3> SUFFICES ASSUME NEW q \in Proc \ {r} PROVE proc'[q].t # proc'[r].t OBVIOUS
    <3>1. q = p \/ proc'[q] = proc[q] OBVIOUS
    <3> QED BY <2>1, <2>2, <3>1
  <2> QED BY <2>1, <2>2, <2>3
<1> QED BY <1>1, <1>2

LEMMA FillersUntouched ==
    ASSUME TypeOK, Backed, CheckoutExcludes, NEW p \in Proc, NEW q \in Proc \ {p}, proc[q].pc \in Filling
    PROVE  proc[q].t \in Txn /\ txn[proc[q].t].state = "NONE" /\ proc[p].t # proc[q].t /\ proc[q].t # NoTxn
<1>1. proc[q].t \in Txn BY DEF Backed, ProcBacked, Filling, Loaded, Pc
<1> QED BY <1>1, ConstantsOK DEF CheckoutExcludes

LEMMA CommandsExclude ==
    ASSUME TypeOK, Backed, CheckoutExcludes, NEW p \in Proc, Commands(p) PROVE CheckoutExcludes'
<1> USE DEF corpus, author, bounds
<1>0. /\ proc \in Procs /\ txn \in Txns
      /\ \A q \in Proc \ {p} : proc[q].pc \in Filling =>
           proc[q].t \in Txn /\ txn[proc[q].t].state = "NONE" /\ proc[p].t # proc[q].t
  BY FillersUntouched DEF TypeOK, Procs, Txns
<1>1. CASE SealCheck(p)
  <2>1. /\ proc'[p].pc = "seal" /\ proc'[p].t = proc[p].t /\ \A q \in Proc \ {p} : proc'[q] = proc[q]
    BY <1>0, <1>1 DEF SealCheck, Procs, Process
  <2>2. \A q \in Proc \ {p} : proc[q].pc \in Filling => proc[q].t # proc[p].t BY <1>0
  <2>3. UNCHANGED <<txn, lease>> BY <1>1 DEF SealCheck
  <2>4. proc'[p].pc \notin Filling BY <2>1 DEF Filling
  <2> QED BY <1>0, <2>1, <2>2, <2>3, <2>4, ExcludesFrame
<1>2. ASSUME NEW t \in Txn, NEW S \in SUBSET Source, NEW D \in SUBSET Doc, Checkout(p, t, S, D)
      PROVE  CheckoutExcludes'
  <2>1. /\ proc'[p].pc = "acquire" /\ proc'[p].t = t /\ \A q \in Proc \ {p} : proc'[q] = proc[q]
    BY <1>0, <1>2 DEF Checkout, Procs, Process
  <2>2. /\ txn[t].state = "NONE" /\ (\A q \in Proc : proc[q].t # t) /\ UNCHANGED <<txn, lease>>
    BY <1>2 DEF Checkout
  <2>3. \A q \in Proc \ {p} : proc[q].pc \in Filling => proc[q].t # t BY <2>2
  <2> QED BY <1>0, <2>1, <2>2, <2>3, ExcludesFrame
(* The commands on a saved transaction.                                    *)
<1>3. ASSUME NEW t \in Txn, txn[t].state # "NONE", UNCHANGED <<proc, lease>>,
             NEW r, txn' = [txn EXCEPT ![t] = r], proc[p].pc = "idle"
      PROVE  CheckoutExcludes'
  <2>1. \A u \in Txn \ {t} : txn'[u] = txn[u] BY <1>0, <1>3 DEF Txns
  <2>2. \A q \in Proc \ {p} : proc[q].pc \in Filling => proc[q].t # t BY <1>0, <1>3
  <2> QED BY <1>0, <1>3, <2>1, <2>2, ExcludesFrame DEF Filling
<1>4. ASSUME NEW t \in Txn, txn[t].state # "NONE", UNCHANGED <<txn, lease>>,
             proc'[p].pc \notin Filling, proc'[p].t = t, \A q \in Proc \ {p} : proc'[q] = proc[q]
      PROVE  CheckoutExcludes'
  <2>1. \A q \in Proc \ {p} : proc[q].pc \in Filling => proc[q].t # t BY <1>0, <1>4
  <2> QED BY <1>0, <1>4, <2>1, ExcludesFrame
<1>5. ASSUME NEW t \in Txn, \/ \E D \in SUBSET Doc : IncludeDocuments(p, t, D)
                            \/ MetadataPlan(p, t) \/ PrepareRefused(p, t) \/ PrepareBlocked(p, t) \/ Prepare(p, t)
      PROVE  CheckoutExcludes'
  <2>1. /\ proc[p].pc = "idle" /\ UNCHANGED <<proc, lease>> /\ txn[t].state # "NONE"
        /\ \E r : txn' = [txn EXCEPT ![t] = r]
    BY <1>5 DEF IncludeDocuments, MetadataPlan, PrepareRefused, PrepareBlocked, Prepare, PrepareCommand,
                Command, PreApply
  <2> QED BY <1>3, <2>1
<1>6. ASSUME NEW t \in Txn, MetadataCheck(p, t) \/ RetireOrphan(p, t) PROVE CheckoutExcludes'
  <2>1. /\ proc[p].pc = "idle" /\ UNCHANGED <<proc, lease>> /\ txn[t].state # "NONE"
        /\ \E r : txn' = [txn EXCEPT ![t] = r]
    BY <1>0, <1>6 DEF MetadataCheck, RetireOrphan, Command, At, PreApply, Txns
  <2> QED BY <1>3, <2>1
<1>7. ASSUME NEW t \in Txn,
             \/ VerifyCheck(p, t) \/ ApplyCheck(p, t) \/ Abort(p, t) \/ StaleAbort(p, t) \/ AuthorityCheck(p, t)
             \/ RecoverBaseline(p, t) \/ RecoverReceipt(p, t)
      PROVE  CheckoutExcludes'
  <2>1. /\ UNCHANGED <<txn, lease>> /\ txn[t].state # "NONE"
        /\ \E c \in {"verify", "backup", "save_end", "authority", "finish"} : \E m :
             proc' = [proc EXCEPT ![p].pc = c, ![p].t = t, ![p].mem = m]
    BY <1>7 DEF VerifyCheck, ApplyCheck, Abort, StaleAbort, AuthorityCheck, RecoverBaseline, RecoverReceipt,
                RecoverCommand, PreApply
  <2>2. /\ proc'[p].pc \notin Filling /\ proc'[p].t = t /\ \A q \in Proc \ {p} : proc'[q] = proc[q]
    BY <1>0, <2>1 DEF Procs, Process, Filling
  <2> QED BY <1>4, <2>1, <2>2
<1>8. ASSUME NEW t \in Txn, RecoverTarget(p, t) PROVE CheckoutExcludes'
  <2>1. UNCHANGED <<txn, lease>> /\ txn[t].state # "NONE" BY <1>8 DEF RecoverTarget, RecoverCommand
  <2>2. /\ proc'[p].pc \notin Filling /\ proc'[p].t = t /\ \A q \in Proc \ {p} : proc'[q] = proc[q]
    BY <1>0, <1>8 DEF RecoverTarget, Procs, Process, Filling
  <2> QED BY <1>4, <2>1, <2>2
<1> QED BY <1>1, <1>2, <1>5, <1>6, <1>7, <1>8 DEF Commands

LEMMA StepExcludes ==
    ASSUME TypeOK, Backed, CheckoutExcludes, NEW p \in Proc, Step(p) \/ Failure(p) PROVE CheckoutExcludes'
<1> USE DEF corpus, author, bounds
<1> DEFINE t == proc[p].t
<1>0. /\ proc \in Procs /\ txn \in Txns
      /\ \A q \in Proc \ {p} : proc[q].pc \in Filling => proc[q].t \in Txn /\ t # proc[q].t /\ proc[q].t # NoTxn
  BY FillersUntouched DEF TypeOK, Procs, Txns
<1>1. \A u \in Txn \ {t} : txn'[u] = txn[u] /\ (lease = u => lease' = u)
  <2> DEFINE Safe == /\ txn' = txn \/ \E r : txn' = [txn EXCEPT ![t] = r]
                     /\ lease' = lease \/ lease = NoTxn \/ lease = t
  <2>1. CASE Failure(p) BY <2>1 DEF Failure, WriteFails, SealingFails, Crash
  <2>2. CASE \/ SealWrite(p) \/ Acquire(p) \/ Backup(p) \/ IssuePermit(p) \/ WriteFile(p) \/ Heartbeat(p)
             \/ Postcheck(p) \/ WriteSeal(p) \/ WriteReceipt(p) \/ ReleaseFinished(p) \/ RollbackFile(p)
             \/ RollbackDone(p) \/ Revoke(p) \/ Unlease(p) \/ HeartbeatFails(p) \/ RevokeFails(p)
    <3>1. Safe
      BY <2>2 DEF SealWrite, Acquire, Backup, IssuePermit, WriteFile, Heartbeat, Postcheck, WriteSeal, WriteReceipt,
           ReleaseFinished, RollbackFile, RollbackDone, Revoke, Unlease, HeartbeatFails, RevokeFails
    <3> QED BY <1>0, <3>1, ConstantsOK DEF Txns
  <2>3. CASE \/ Materialise(p) \/ VerifySave(p) \/ AuthoritySave(p) \/ ApplyStart(p) \/ SavePostcheck(p)
             \/ SaveRecoveryRequired(p) \/ FinishCheck(p) \/ CommitReceipt(p) \/ SaveEnd(p) \/ CheckoutFails(p)
    <3>1. Safe
      BY <2>3 DEF Materialise, CopyAndSave, VerifySave, AuthoritySave, ApplyStart, SavePostcheck,
           SaveRecoveryRequired, FinishCheck, CommitReceipt, SaveEnd, CheckoutFails
    <3> QED BY <1>0, <3>1, ConstantsOK DEF Txns
  <2> QED BY <2>1, <2>2, <2>3 DEF Step
<1>2. CASE Acquire(p) /\ ~Quit(p)
  <2>1. /\ proc[p].pc = "acquire" /\ lease' = t /\ UNCHANGED txn
        /\ proc' = [proc EXCEPT ![p].pc = "materialise"]
    BY <1>2 DEF Acquire, At
  <2>2. /\ proc'[p].pc = "materialise" /\ proc'[p].t = t /\ \A q \in Proc \ {p} : proc'[q] = proc[q]
    BY <1>0, <2>1 DEF Procs, Process
  <2>3. txn[t].state = "NONE" /\ \A q \in Proc \ {p} : proc[q].t # t
    BY <2>1 DEF CheckoutExcludes, Filling
  <2> HIDE DEF t
  <2> QED BY <1>0, <1>1, <2>1, <2>2, <2>3, ExcludesFrame
<1>3. ASSUME proc'[p].pc \notin Filling, proc'[p].t \in {t, NoTxn}, \A q \in Proc \ {p} : proc'[q] = proc[q]
      PROVE  CheckoutExcludes'
  <2> HIDE DEF t
  <2> QED BY <1>0, <1>1, <1>3, ExcludesFrame
<1>4. CASE Quit(p)
  <2>1. /\ proc'[p].pc = "idle" /\ proc'[p].t = NoTxn /\ \A q \in Proc \ {p} : proc'[q] = proc[q]
    BY <1>0, <1>4 DEF Quit, Idle, Procs
  <2> QED BY <1>3, <2>1 DEF Filling
<1>5. CASE ~Quit(p) /\ ~Acquire(p)
  <2> USE DEF Procs, Process, Filling
  <2>1. CASE Backup(p) \/ IssuePermit(p) \/ ApplyStart(p)
    BY <1>0, <1>3, <1>5, <2>1 DEF Backup, IssuePermit, ApplyStart
  <2>2. CASE WriteFails(p)
    <3>1. proc' = [proc EXCEPT ![p].pc = "rollback", ![p].todo = Targets(proc[p].mem.changed)]
      BY <2>2 DEF WriteFails
    <3> QED BY <1>0, <1>3, <3>1
  <2>14. CASE WriteFile(p)
    <3>1. PICK f \in Writable(proc[p].todo) :
            proc' = [proc EXCEPT ![p].todo = @ \ {f},
                                 ![p].pc = IF proc[p].todo = {f} THEN "heartbeat" ELSE "write"]
      BY <2>14 DEF WriteFile
    <3> QED BY <1>0, <1>3, <3>1
  <2>3. CASE Heartbeat(p) \/ HeartbeatFails(p) BY <1>0, <1>3, <2>3 DEF Heartbeat, HeartbeatFails
  <2>4. CASE Postcheck(p) BY <1>0, <1>3, <2>4 DEF Postcheck
  <2>5. CASE WriteSeal(p) BY <1>0, <1>3, <2>5 DEF WriteSeal
  <2>6. CASE SavePostcheck(p) \/ SealingFails(p) BY <1>0, <1>3, <2>6 DEF SavePostcheck, SealingFails
  <2>7. CASE FinishCheck(p) BY <1>0, <1>3, <1>5, <2>7 DEF FinishCheck
  <2>8. CASE WriteReceipt(p) \/ CommitReceipt(p) BY <1>0, <1>3, <2>8 DEF WriteReceipt, CommitReceipt
  <2>9. CASE RollbackFile(p) BY <1>0, <1>3, <2>9 DEF RollbackFile, At
  <2>10. CASE RollbackDone(p) BY <1>0, <1>3, <2>10 DEF RollbackDone
  <2>11. CASE Revoke(p) \/ RevokeFails(p) BY <1>0, <1>3, <2>11 DEF Revoke, RevokeFails
  <2>12. CASE SaveEnd(p) BY <1>0, <1>3, <2>12 DEF SaveEnd
  <2>13. ~(SealWrite(p) \/ Unlease(p) \/ ReleaseFinished(p) \/ Materialise(p) \/ CheckoutFails(p) \/ VerifySave(p)
           \/ AuthoritySave(p) \/ SaveRecoveryRequired(p) \/ Crash(p))
    BY <1>5 DEF SealWrite, Unlease, ReleaseFinished, Materialise, CheckoutFails, VerifySave, AuthoritySave,
         SaveRecoveryRequired, Crash
  <2> QED BY <1>5, <2>1, <2>2, <2>3, <2>4, <2>5, <2>6, <2>7, <2>8, <2>9, <2>10, <2>11, <2>12, <2>13, <2>14 DEF Step, Failure
<1> QED BY <1>2, <1>4, <1>5

LEMMA NextExcludes == ASSUME TypeOK, Backed, CheckoutExcludes, [Next]_vars PROVE CheckoutExcludes'
<1>1. CASE Environment
  <2>1. UNCHANGED <<txn, lease, proc>>
    BY <1>1 DEF Environment, EditWork, CompleteAudit, OperatorCopies, ExpirePermit, Drift,
                WorkspaceHeartbeat, corpus, author, bounds
  <2> QED BY <2>1 DEF CheckoutExcludes
<1>2. CASE UNCHANGED vars BY <1>2 DEF vars, CheckoutExcludes
<1>3. ASSUME NEW p \in Proc, Commands(p) PROVE CheckoutExcludes' BY <1>3, CommandsExclude
<1>4. ASSUME NEW p \in Proc, Step(p) \/ Failure(p) PROVE CheckoutExcludes' BY <1>4, StepExcludes
<1> QED BY <1>1, <1>2, <1>3, <1>4 DEF Next

-----------------------------------------------------------------------------
(* Any number of checkouts may race, and any other commands with them: the *)
(* one that copies baseline and work owns the lease (engine.py, O_EXCL).   *)
THEOREM CheckoutsExclude == Spec => []OneCheckoutAtATime
<1>1. CheckoutExcludes => OneCheckoutAtATime BY DEF CheckoutExcludes, Filling, OneCheckoutAtATime
<1>2. Init => TypeOK /\ Backed /\ CheckoutExcludes BY InitTyped, InitExcludes
<1>3. TypeOK /\ Backed /\ CheckoutExcludes /\ [Next]_vars => (TypeOK /\ Backed /\ CheckoutExcludes)'
  BY NextTyped, NextExcludes
<1> QED BY <1>1, <1>2, <1>3, PTL DEF Spec

(* The inductive invariant of commands that run in turn.                   *)
THEOREM TurnInvariant == Spec /\ CommandsInTurn => [](TypeOK /\ Backed /\ InTurn)
<1>1. Init => TypeOK /\ Backed /\ InTurn BY InitTyped, InitTurn
<1>2. TypeOK /\ Backed /\ InTurn /\ [Next]_vars /\ [Starting]_vars => (TypeOK /\ Backed /\ InTurn)'
  BY NextTyped, NextTurn
<1> QED BY <1>1, <1>2, PTL DEF Spec, CommandsInTurn

(* Through kills, torn copies, failed rollbacks, heartbeats and receipts,  *)
(* a transaction whose mutation is neither proved nor undone keeps the     *)
(* global lease (_core_apply.py: "lease retained").                        *)
THEOREM LeaseCoversMutation == Spec /\ CommandsInTurn => []UnfinishedHoldsLease
<1>1. InTurn => UnfinishedHoldsLease BY DEF InTurn, Sound, UnfinishedHoldsLease, Unfinished, Mutating
<1> QED BY <1>1, TurnInvariant, PTL

-----------------------------------------------------------------------------
(* The seal of a proved result, from the moment it is written until the    *)
(* receipt of its transaction is acknowledged.                             *)
Pending(r) == r.state = "POSTCHECK_VERIFIED" /\ r.receipt # "COMMITTED"

SealHeld ==
    /\ \A t \in Txn : Pending(txn[t]) => seal = [pkg |-> txn[t].post, t |-> t]
    /\ \A p \in Proc : proc[p].pc = "seal" => lease = NoTxn
    /\ \A p \in Proc : proc[p].pc = "save_post" => seal = [pkg |-> proc[p].mem.post, t |-> proc[p].t]

\* A step that neither seals nor proves a result.
LEMMA SealedKeeps ==
    ASSUME SealHeld, seal' = seal,
           \A u \in Txn : Pending(txn'[u]) => Pending(txn[u]) /\ txn'[u].post = txn[u].post,
           \A q \in Proc : proc'[q].pc \in {"seal", "save_post"} => proc'[q] = proc[q] /\ lease' = lease
    PROVE  SealHeld'
BY DEF SealHeld

LEMMA NothingPending ==
    ASSUME TypeOK, InTurn, lease = NoTxn \/ (lease \in Txn /\ txn[lease].state # "POSTCHECK_VERIFIED")
    PROVE  \A u \in Txn : ~Pending(txn[u])
BY ConstantsOK DEF InTurn, Sound, Pending

LEMMA CommandsSealed ==
    ASSUME TypeOK, InTurn, SealHeld, NEW p \in Proc, Commands(p) PROVE SealHeld'
<1> USE DEF corpus, author, bounds
<1>1. /\ proc \in Procs /\ txn \in Txns /\ (\A u \in Txn : txn[u] \in Record)
      /\ \A u \in Txn : Sound(u, txn[u], lease, receipt[u])
  BY DEF TypeOK, Procs, Txns, InTurn
<1>2. CASE SealCheck(p)
  <2>1. /\ proc'[p].pc = "seal" /\ lease = NoTxn /\ UNCHANGED <<seal, lease, txn>>
        /\ \A q \in Proc \ {p} : proc'[q] = proc[q]
    BY <1>1, <1>2 DEF SealCheck, Procs, Process
  <2> QED BY <2>1 DEF SealHeld
(* A command that starts.                                                  *)
<1>3. ASSUME NEW c \in Pc \ {"seal", "save_post"}, proc'[p].pc = c, \A q \in Proc \ {p} : proc'[q] = proc[q],
             UNCHANGED <<seal, lease, txn>>
      PROVE  SealHeld'
  BY <1>3, SealedKeeps
(* A command that saves an open or an ended transaction.                   *)
<1>4. ASSUME NEW t \in Txn, NEW r, r.state # "POSTCHECK_VERIFIED", txn' = [txn EXCEPT ![t] = r],
             UNCHANGED <<seal, lease, proc>>
      PROVE  SealHeld'
  <2>1. \A u \in Txn : Pending(txn'[u]) => Pending(txn[u]) /\ txn'[u].post = txn[u].post
    BY <1>1, <1>4 DEF Pending, Txns
  <2> QED BY <1>4, <2>1, SealedKeeps
<1>5. ASSUME NEW t \in Txn, NEW S \in SUBSET Source, NEW D \in SUBSET Doc, Checkout(p, t, S, D)
      PROVE  SealHeld'
  <2>1. /\ proc'[p].pc = "acquire" /\ UNCHANGED <<seal, lease, txn>>
        /\ \A q \in Proc \ {p} : proc'[q] = proc[q]
    BY <1>1, <1>5 DEF Checkout, Procs, Process
  <2> QED BY <1>3, <2>1 DEF Pc
<1>6. ASSUME NEW t \in Txn, NEW D \in SUBSET Doc, IncludeDocuments(p, t, D) PROVE SealHeld'
  <2> DEFINE o == Reopened(txn[t])
             r == [o EXCEPT !.docs = @ \cup D,
                            !.copy = [f \in File |-> IF f \in D THEN live[f] ELSE @[f]]]
  <2>1. txn[t].state \in PreApply /\ txn' = [txn EXCEPT ![t] = r] /\ UNCHANGED <<seal, lease, proc>>
    BY <1>6 DEF IncludeDocuments
  <2>2. o \in Record /\ o.state = "CHECKED_OUT" BY <1>1, <2>1, RevisedFields, RecReopened
  <2>3. r.state = "CHECKED_OUT"
    <3> HIDE DEF o
    <3> QED BY <2>2 DEF Record
  <2> HIDE DEF o, r
  <2> QED BY <1>4, <2>1, <2>3
<1>7. ASSUME NEW t \in Txn, MetadataPlan(p, t) PROVE SealHeld'
  <2>1. /\ txn[t].state \in PreApply /\ txn' = [txn EXCEPT ![t] = Reopened(txn[t])]
        /\ UNCHANGED <<seal, lease, proc>>
    BY <1>7 DEF MetadataPlan
  <2>2. Reopened(txn[t]).state = "CHECKED_OUT" BY <1>1, <2>1, RevisedFields
  <2> QED BY <1>4, <2>1, <2>2
<1>8. ASSUME NEW t \in Txn, PrepareRefused(p, t) \/ PrepareBlocked(p, t) \/ Prepare(p, t) PROVE SealHeld'
  <2> DEFINE n == Unapproved(txn[t])
  <2>1. /\ txn[t].state \in PreApply /\ UNCHANGED <<seal, lease, proc>>
        /\ \/ txn' = [txn EXCEPT ![t] = n]
           \/ txn' = [txn EXCEPT ![t] = [n EXCEPT !.state = "AWAITING_METADATA_REVIEW"]]
           \/ \E ch, k : txn' = [txn EXCEPT ![t] = [n EXCEPT !.state = "PREPARED", !.changed = ch, !.prepared = k]]
    BY <1>8 DEF PrepareRefused, PrepareBlocked, Prepare, PrepareCommand
  <2>2. n \in Record /\ n.state \in PreApply BY <1>1, <2>1, RevisedFields, RecReopened DEF Unapproved
  <2> HIDE DEF n
  <2>3. CASE txn' = [txn EXCEPT ![t] = n] BY <1>4, <2>1, <2>2, <2>3 DEF PreApply
  <2>4. CASE txn' = [txn EXCEPT ![t] = [n EXCEPT !.state = "AWAITING_METADATA_REVIEW"]]
    <3>1. [n EXCEPT !.state = "AWAITING_METADATA_REVIEW"].state = "AWAITING_METADATA_REVIEW" BY <2>2 DEF Record
    <3> QED BY <1>4, <2>1, <2>4, <3>1
  <2>5. ASSUME NEW ch, NEW k, txn' = [txn EXCEPT ![t] = [n EXCEPT !.state = "PREPARED", !.changed = ch, !.prepared = k]]
        PROVE  SealHeld'
    <3>1. [n EXCEPT !.state = "PREPARED", !.changed = ch, !.prepared = k].state = "PREPARED" BY <2>2 DEF Record
    <3> QED BY <1>4, <2>1, <2>5, <3>1
  <2> QED BY <2>1, <2>3, <2>4, <2>5
<1>9. ASSUME NEW t \in Txn, MetadataCheck(p, t) PROVE SealHeld'
  <2> DEFINE r == [txn[t] EXCEPT !.checked = WorkPackage(t)]
  <2>1. txn[t].state \in PreApply /\ txn' = [txn EXCEPT ![t] = r] /\ UNCHANGED <<seal, lease, proc>>
    BY <1>1, <1>9 DEF MetadataCheck, PreApply, Txns
  <2>2. r.state = txn[t].state BY <1>1 DEF Record
  <2> HIDE DEF r
  <2> QED BY <1>4, <2>1, <2>2 DEF PreApply
<1>10. ASSUME NEW t \in Txn, RetireOrphan(p, t) PROVE SealHeld'
  <2> DEFINE r == [txn[t] EXCEPT !.state = "ABORTED_ORPHANED_CHECKOUT"]
  <2>1. txn' = [txn EXCEPT ![t] = r] /\ UNCHANGED <<seal, lease, proc>> BY <1>10 DEF RetireOrphan
  <2>2. r.state = "ABORTED_ORPHANED_CHECKOUT" BY <1>1 DEF Record
  <2> HIDE DEF r
  <2> QED BY <1>4, <2>1, <2>2
<1>11. ASSUME NEW t \in Txn,
              \/ VerifyCheck(p, t) \/ ApplyCheck(p, t) \/ Abort(p, t) \/ StaleAbort(p, t) \/ AuthorityCheck(p, t)
              \/ RecoverBaseline(p, t) \/ RecoverTarget(p, t) \/ RecoverReceipt(p, t)
       PROVE  SealHeld'
  <2>1. /\ proc'[p].pc \in {"verify", "backup", "save_end", "authority", "write_seal", "finish"}
        /\ \A q \in Proc \ {p} : proc'[q] = proc[q]
    BY <1>1, <1>11 DEF VerifyCheck, ApplyCheck, Abort, StaleAbort, AuthorityCheck, RecoverBaseline, RecoverTarget,
         RecoverReceipt, Procs, Process
  <2>2. UNCHANGED <<seal, lease, txn>>
    BY <1>11 DEF VerifyCheck, ApplyCheck, Abort, StaleAbort, AuthorityCheck, RecoverBaseline, RecoverTarget,
         RecoverReceipt
  <2> QED BY <1>3, <2>1, <2>2 DEF Pc
<1> QED BY <1>2, <1>5, <1>6, <1>7, <1>8, <1>9, <1>10, <1>11 DEF Commands

LEMMA StepSealed ==
    ASSUME TypeOK, Backed, InTurn, SealHeld, NEW p \in Proc, Step(p) \/ Failure(p) PROVE SealHeld'
<1> USE DEF corpus, author, bounds
<1> DEFINE t == proc[p].t
           m == proc[p].mem
           c == proc[p].pc
<1>1. /\ proc \in Procs /\ txn \in Txns /\ m \in Record /\ (\A u \in Txn : txn[u] \in Record)
      /\ c \in Loaded => t \in Txn /\ Fits(c, t, m, txn[t], lease, receipt[t])
  BY DEF TypeOK, Procs, Process, Txns, InTurn, ProcFits, Backed, ProcBacked
<1> HIDE DEF t, m, c
<1>2. CASE SealWrite(p)
  <2>1. /\ lease = NoTxn /\ proc'[p].pc = "idle" /\ UNCHANGED <<lease, txn>>
        /\ \A q \in Proc \ {p} : proc'[q] = proc[q]
    BY <1>1, <1>2 DEF SealWrite, At, Quit, Idle, SealHeld, Procs
  <2>2. \A q \in Proc \ {p} : proc[q].pc = "idle" BY <1>2, OthersRest DEF SealWrite, At, Resting
  <2>3. \A u \in Txn : ~Pending(txn[u]) BY <2>1, NothingPending
  <2> QED BY <2>1, <2>2, <2>3 DEF SealHeld
<1>3. CASE WriteSeal(p)
  <2>1. c = "write_seal" BY <1>3 DEF WriteSeal, At, c
  <2>2. t \in Txn /\ lease = t /\ txn[t].state \in Mutating
    BY <1>1, <2>1 DEF Fits, Loaded, Leased, Pc
  <2>3. /\ seal' = [pkg |-> proc[p].pkg, t |-> t] /\ UNCHANGED <<lease, txn>>
        /\ proc'[p].pc = "save_post" /\ proc'[p].t = t /\ proc'[p].mem.post = proc[p].pkg
        /\ \A q \in Proc \ {p} : proc'[q] = proc[q]
    BY <1>1, <1>3 DEF WriteSeal, Procs, Process, Record, t
  <2>4. \A q \in Proc \ {p} : proc[q].pc = "idle" BY <1>3, OthersRest DEF WriteSeal, At, Resting
  <2>5. \A u \in Txn : ~Pending(txn[u]) BY <2>2, NothingPending DEF Mutating
  <2> QED BY <2>3, <2>4, <2>5 DEF SealHeld
<1>4. CASE SavePostcheck(p)
  <2>1. c = "save_post" BY <1>4 DEF SavePostcheck, At, c
  <2>2. t \in Txn /\ seal = [pkg |-> m.post, t |-> t] /\ lease = t /\ txn[t].state \in Mutating
    BY <1>1, <2>1 DEF Fits, Loaded, Leased, Pc, SealHeld, c, t, m
  <2>3. /\ txn' = [txn EXCEPT ![t] = m] /\ UNCHANGED <<seal, lease>> /\ proc'[p].pc = "finish"
        /\ \A q \in Proc \ {p} : proc'[q] = proc[q]
    BY <1>1, <1>4 DEF SavePostcheck, Procs, Process, t, m
  <2>4. \A q \in Proc \ {p} : proc[q].pc = "idle" BY <1>4, OthersRest DEF SavePostcheck, At, Resting
  <2>5. \A u \in Txn : ~Pending(txn[u]) BY <2>2, NothingPending DEF Mutating
  <2>6. txn'[t] = m /\ \A u \in Txn \ {t} : txn'[u] = txn[u] BY <1>1, <2>2, <2>3 DEF Txns
  <2> QED BY <2>2, <2>3, <2>4, <2>5, <2>6 DEF SealHeld
(* Every other step: no new result is pending, nothing is sealed.          *)
<1>5. ASSUME seal' = seal, \A u \in Txn : Pending(txn'[u]) => Pending(txn[u]) /\ txn'[u].post = txn[u].post,
             proc'[p].pc \notin {"seal", "save_post"}, \A q \in Proc \ {p} : proc'[q] = proc[q], ~Resting(p)
      PROVE  SealHeld'
  <2>1. \A q \in Proc \ {p} : proc[q].pc = "idle" BY <1>5, OthersRest DEF Resting
  <2> QED BY <1>5, <2>1, SealedKeeps
<1>6. ASSUME t \in Txn, NEW r, txn' = [txn EXCEPT ![t] = r], Pending(r) => Pending(txn[t]) /\ r.post = txn[t].post
      PROVE  \A u \in Txn : Pending(txn'[u]) => Pending(txn[u]) /\ txn'[u].post = txn[u].post
  BY <1>1, <1>6 DEF Txns
<1>7. CASE CopyAndSave(p) /\ c = "materialise" /\ Quit(p) /\ seal' = seal
  <2> DEFINE r == [m EXCEPT !.copy = live]
  <2>1. t \in Txn /\ m.state = "CHECKED_OUT" BY <1>1, <1>7 DEF Fits, Loaded, Pc
  <2>2. r.state = "CHECKED_OUT" BY <1>1, <2>1 DEF Record
  <2>3. txn' = [txn EXCEPT ![t] = r] BY <1>7 DEF CopyAndSave, t, m
  <2> HIDE DEF r
  <2>4. proc'[p].pc = "idle" /\ \A q \in Proc \ {p} : proc'[q] = proc[q] BY <1>1, <1>7 DEF Quit, Idle, Procs
  <2> QED BY <1>5, <1>6, <1>7, <2>1, <2>2, <2>3, <2>4 DEF Pending, Resting, c
<1>8. CASE (Materialise(p) \/ CheckoutFails(p)) /\ ~CopyAndSave(p)
  <2>1. seal' = seal /\ txn' = txn /\ c = "materialise" /\ Quit(p)
    BY <1>8 DEF Materialise, CheckoutFails, At, c
  <2>2. proc'[p].pc = "idle" /\ \A q \in Proc \ {p} : proc'[q] = proc[q] BY <1>1, <2>1 DEF Quit, Idle, Procs
  <2> QED BY <1>5, <2>1, <2>2 DEF Resting, c
<1>9. CASE VerifySave(p) \/ AuthoritySave(p) \/ SaveRecoveryRequired(p)
  <2>1. /\ seal' = seal /\ Quit(p) /\ c \in {"verify", "authority", "failed"}
        /\ \/ txn' = txn
           \/ txn' = [txn EXCEPT ![t] = [m EXCEPT !.state = "SHADOW_VERIFIED", !.verified = WorkPackage(t)]]
           \/ c = "authority" /\ txn' = [txn EXCEPT ![t] = m]
           \/ txn' = [txn EXCEPT ![t] = [m EXCEPT !.state = "RECOVERY_REQUIRED"]]
    BY <1>9 DEF VerifySave, AuthoritySave, SaveRecoveryRequired, At, c, t, m
  <2>2. proc'[p].pc = "idle" /\ \A q \in Proc \ {p} : proc'[q] = proc[q] BY <1>1, <2>1 DEF Quit, Idle, Procs
  <2>3. t \in Txn /\ (c = "authority" => m.state \in Ended) BY <1>1, <2>1 DEF Fits, Loaded, Pc
  <2>4. /\ [m EXCEPT !.state = "SHADOW_VERIFIED", !.verified = WorkPackage(t)].state = "SHADOW_VERIFIED"
        /\ [m EXCEPT !.state = "RECOVERY_REQUIRED"].state = "RECOVERY_REQUIRED"
    BY <1>1 DEF Record
  <2>5. \A u \in Txn : Pending(txn'[u]) => Pending(txn[u]) /\ txn'[u].post = txn[u].post
    BY <1>6, <2>1, <2>3, <2>4 DEF Pending, Ended
  <2> QED BY <1>5, <2>1, <2>2, <2>5 DEF Resting, c
<1>10. CASE ApplyStart(p) \/ SaveEnd(p)
  <2>1. /\ seal' = seal /\ c \in {"start", "save_end"} /\ txn' = [txn EXCEPT ![t] = m]
        /\ proc'[p].pc \in {"write", "unlease"} /\ \A q \in Proc \ {p} : proc'[q] = proc[q]
    BY <1>1, <1>10 DEF ApplyStart, SaveEnd, At, Procs, Process, c, t, m
  <2>2. t \in Txn /\ m.state \in Ended \cup {"APPLYING"} BY <1>1, <2>1 DEF Fits, Loaded, Pc
  <2> QED BY <1>5, <1>6, <2>1, <2>2 DEF Pending, Ended, Resting, c
<1>11. CASE FinishCheck(p)
  <2> DEFINE s == [txn[t] EXCEPT !.receipt = IF @ = "none" THEN "PENDING" ELSE @]
  <2>1. /\ seal' = seal /\ c = "finish" /\ (txn' = txn \/ txn' = [txn EXCEPT ![t] = s])
        /\ proc'[p].pc \in {"idle", "receipt"} /\ \A q \in Proc \ {p} : proc'[q] = proc[q]
    BY <1>1, <1>11 DEF FinishCheck, At, Quit, Idle, Procs, Process, c, t
  <2>2. t \in Txn BY <1>1, <2>1 DEF Loaded, Pc
  <2>3. s.state = txn[t].state /\ s.post = txn[t].post /\ (txn[t].receipt = "COMMITTED" => s.receipt = "COMMITTED")
    BY <1>1, <2>2 DEF Record
  <2> HIDE DEF s
  <2>4. \A u \in Txn : Pending(txn'[u]) => Pending(txn[u]) /\ txn'[u].post = txn[u].post
    BY <1>6, <2>1, <2>2, <2>3 DEF Pending
  <2> QED BY <1>5, <2>1, <2>4 DEF Resting, c
<1>12. CASE CommitReceipt(p)
  <2> DEFINE r == [m EXCEPT !.receipt = "COMMITTED"]
  <2>1. /\ seal' = seal /\ c = "commit" /\ txn' = [txn EXCEPT ![t] = r]
        /\ proc'[p].pc = "release" /\ \A q \in Proc \ {p} : proc'[q] = proc[q]
    BY <1>1, <1>12 DEF CommitReceipt, At, Procs, Process, c, t, m
  <2>2. t \in Txn /\ r.receipt = "COMMITTED" BY <1>1, <2>1 DEF Loaded, Pc, Record
  <2> HIDE DEF r
  <2> QED BY <1>5, <1>6, <2>1, <2>2 DEF Pending, Resting, c
(* The steps that save nothing.                                            *)
<1>13. CASE \/ Acquire(p) \/ Backup(p) \/ IssuePermit(p) \/ WriteFile(p) \/ Heartbeat(p) \/ HeartbeatFails(p)
            \/ Postcheck(p) \/ WriteReceipt(p) \/ ReleaseFinished(p) \/ RollbackFile(p) \/ RollbackDone(p)
            \/ Revoke(p) \/ RevokeFails(p) \/ Unlease(p) \/ WriteFails(p) \/ SealingFails(p) \/ Crash(p)
  <2>1. UNCHANGED <<seal, txn>> /\ ~Resting(p)
    BY <1>13 DEF Acquire, Backup, IssuePermit, WriteFile, Heartbeat, HeartbeatFails, Postcheck, WriteReceipt,
         ReleaseFinished, RollbackFile, RollbackDone, Revoke, RevokeFails, Unlease, WriteFails, SealingFails, Crash,
         At, Resting
  <2>2. proc'[p].pc \notin {"seal", "save_post"} /\ \A q \in Proc \ {p} : proc'[q] = proc[q]
    <3> USE <1>1 DEF At, Quit, Idle, Procs, Process
    <3>1. CASE Acquire(p) \/ Backup(p) \/ IssuePermit(p) \/ Heartbeat(p) \/ Postcheck(p) \/ WriteReceipt(p)
      BY <3>1 DEF Acquire, Backup, IssuePermit, Heartbeat, Postcheck, WriteReceipt
    <3>2. CASE WriteFile(p) BY <3>2 DEF WriteFile
    <3>3. CASE RollbackFile(p) BY <3>3 DEF RollbackFile
    <3>4. CASE HeartbeatFails(p) BY <3>4 DEF HeartbeatFails
    <3>5. CASE ReleaseFinished(p) \/ RollbackDone(p) \/ Revoke(p) \/ RevokeFails(p) \/ Unlease(p)
      BY <3>5 DEF ReleaseFinished, RollbackDone, Revoke, RevokeFails, Unlease
    <3>6. CASE WriteFails(p) BY <3>6 DEF WriteFails
    <3>7. CASE SealingFails(p) \/ Crash(p) BY <3>7 DEF SealingFails, Crash
    <3> QED BY <1>13, <3>1, <3>2, <3>3, <3>4, <3>5, <3>6, <3>7
  <2> QED BY <1>5, <2>1, <2>2
<1>14. CASE Materialise(p) \/ CheckoutFails(p)
  <2>1. c = "materialise" /\ Quit(p) /\ seal' = seal BY <1>14 DEF Materialise, CheckoutFails, At, c
  <2> QED BY <1>7, <1>8, <1>14, <2>1
<1> QED BY <1>2, <1>3, <1>4, <1>9, <1>10, <1>11, <1>12, <1>13, <1>14 DEF Step, Failure

LEMMA NextSealed == ASSUME TypeOK, Backed, InTurn, SealHeld, [Next]_vars PROVE SealHeld'
<1>1. CASE Environment
  <2>1. UNCHANGED <<seal, lease, txn, proc>>
    BY <1>1 DEF Environment, EditWork, CompleteAudit, OperatorCopies, ExpirePermit, Drift,
                WorkspaceHeartbeat, corpus, author, bounds
  <2> QED BY <2>1 DEF SealHeld
<1>2. CASE UNCHANGED vars BY <1>2 DEF vars, SealHeld
<1>3. ASSUME NEW p \in Proc, Commands(p) PROVE SealHeld' BY <1>3, CommandsSealed
<1>4. ASSUME NEW p \in Proc, Step(p) \/ Failure(p) PROVE SealHeld' BY <1>4, StepSealed
<1> QED BY <1>1, <1>2, <1>3, <1>4 DEF Next

(* An acknowledged receipt is a file, a receipt file belongs to a          *)
(* postchecked transaction that staged it, and until the acknowledgement   *)
(* the lease and the trusted seal are that transaction's (engine.py,       *)
(* finish).                                                                *)
THEOREM ReceiptsBacked == Spec /\ CommandsInTurn => []ReceiptsAreBacked
<1>1. Init => SealHeld BY DEF Init, SealHeld, NoRecord, Idle, Pending
<1>2. TypeOK /\ Backed /\ InTurn /\ SealHeld /\ [Next]_vars => SealHeld' BY NextSealed
<1>3. InTurn /\ SealHeld => ReceiptsAreBacked
  BY DEF InTurn, Sound, SealHeld, Pending, ReceiptsAreBacked
<1> QED BY <1>1, <1>2, <1>3, TurnInvariant, PTL DEF Spec

-----------------------------------------------------------------------------
(* Whoever copies files to the live corpus, or restores them, works for    *)
(* the owner of the lease ("another checkout already owns the global       *)
(* workshop lease"): only commands that overlap can break this.            *)
THEOREM WritersHoldLease == Spec /\ CommandsInTurn => []LiveWriterHoldsLease
<1>1. InTurn => LiveWriterHoldsLease BY DEF InTurn, ProcFits, Fits, Leased, Loaded, Pc, LiveWriterHoldsLease
<1> QED BY <1>1, TurnInvariant, PTL

(* An ended or acknowledged transaction never changes its state again.     *)
THEOREM EndIsFinal == Spec /\ CommandsInTurn => EndedIsFinal
<1> DEFINE Stays == \A t \in Txn : Final(t) => txn'[t].state = txn[t].state /\ Final(t)'
<1>1. TypeOK /\ Backed /\ InTurn /\ InTurn' /\ [Next]_vars => Stays
  <2> SUFFICES ASSUME TypeOK, Backed, InTurn, InTurn', [Next]_vars, NEW t \in Txn, Final(t)
               PROVE  txn'[t].state = txn[t].state /\ Final(t)'
    OBVIOUS
  <2>1. SerialStep /\ txn'[t].state = txn[t].state BY NextSerial DEF Settles
  <2>2. CASE txn[t].state \in Ended BY <2>1, <2>2 DEF Final
  <2>3. CASE txn[t].state \notin Ended
    <3>1. /\ txn[t].receipt = "COMMITTED" /\ txn[t].state = "POSTCHECK_VERIFIED"
          /\ Sound(t, txn[t], lease, receipt[t]) /\ Sound(t, txn'[t], lease', receipt'[t])
      BY <2>3 DEF Final, InTurn, Sound
    <3>2. Phases[t] = "closed" BY <3>1, PhaseValues DEF Phases, Sound
    <3>3. Phases'[t] = "closed"
      BY <2>1, <3>2 DEF SerialStep, Serial!Next, Serial!serial, Serial!Take, Serial!Open, Serial!Cancel,
           Serial!Mutate, Serial!Prove, Serial!Undo, Serial!Acknowledge, Serial!GiveUp, Serial!Retire,
           Serial!Release, Serial!Move, Phases
    <3>4. PhaseOf(txn'[t]) = "closed" BY <3>3 DEF Phases
    <3>5. txn'[t].receipt = "COMMITTED"
      <4>1. txn'[t].receipt # "none" => txn'[t].state = "POSTCHECK_VERIFIED" BY <3>1 DEF Sound
      <4> QED BY <2>1, <3>1, <3>4, <4>1, PhaseValues
    <3> QED BY <2>1, <3>5 DEF Final
  <2> QED BY <2>2, <2>3
<1>2. TypeOK /\ Backed /\ InTurn /\ (TypeOK /\ Backed /\ InTurn)' /\ [Next]_vars => [Stays]_vars BY <1>1
<1> QED BY <1>2, TurnInvariant, PTL DEF Spec, EndedIsFinal

(* The commands of the Workshop, in turn, are one serial change of the     *)
(* corpus: the refinement of SerialChange by every save, lease operation,  *)
(* failure and kill.                                                       *)
THEOREM CommandsAreSerial == Spec /\ CommandsInTurn => ChangesSerially
<1>1. Init => Serial!Init
  <2> SUFFICES ASSUME Init PROVE Serial!Init OBVIOUS
  <2>1. \A t \in Txn : txn[t].state = "NONE" /\ txn[t].receipt = "none" BY DEF Init, NoRecord
  <2>2. \A t \in Txn : PhaseOf(txn[t]) = "new" BY <2>1, PhaseValues
  <2> QED BY <2>2 DEF Serial!Init, Init
<1>2. TypeOK /\ Backed /\ InTurn /\ [Next]_vars => [Serial!Next]_(Serial!serial)
  BY NextSerial DEF SerialStep
<1> QED BY <1>1, <1>2, TurnInvariant, PTL DEF Spec, ChangesSerially, Serial!Spec
=============================================================================
