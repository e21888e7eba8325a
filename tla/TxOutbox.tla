------------------------------ MODULE TxOutbox ------------------------------
(***************************************************************************)
(* The native event log of one Workshop transaction and its outbox         *)
(* (tx_lifecycle.py, tx_documents.py, engine.py, guardian_transaction.py). *)
(*                                                                         *)
(* Every material save of state.json appends an event.  Six files carry    *)
(* it, written one after the other: a write-ahead intent, a pending        *)
(* marker, state.json, the Guardian ledger, the KAIROS document with its   *)
(* SQLite row, and the projection checkpoint; only then are the marker and *)
(* the intent acknowledged.  A process may die, or its disk refuse,        *)
(* between any two of them.  The writer lock is an flock and dies with its *)
(* process.  A checkout of another transaction, KAIROS heartbeats and the  *)
(* Guardian's own repair command run beside the transaction's commands.    *)
(*                                                                         *)
(* What an event says is abstract: its sequence number, the state and the  *)
(* facts it committed, and an identity "id" that stands for its hash.      *)
(***************************************************************************)
EXTENDS Naturals, Sequences, FiniteSets, SequencesExt

CONSTANTS
    Proc,        \* processes that run commands on the transaction
    NoProc, NoEvent,
    MaxEvents,   \* bound: events minted
    MaxFaults,   \* bound: crashes, failed writes and failed publications
    MaxSeals     \* bound: manual reseals

ASSUME OutboxConstants ==
    NoProc \notin Proc /\ MaxEvents \in Nat /\ MaxFaults \in Nat /\ MaxSeals \in Nat

PreApply == {"CHECKED_OUT", "PREPARED"}
Terminal == {"POSTCHECK_VERIFIED", "ABORTED", "ROLLED_BACK", "ABORTED_ORPHANED_CHECKOUT"}
State    == {"", "APPLYING", "RECOVERY_REQUIRED"} \cup PreApply \cup Terminal

(* What a state records beside its phase: the terminal receipt, a note, a  *)
(* recycling review of the candidate bytes v, their compaction.            *)
Fact  == {"receipt", "note", "review", "compaction"} \X {0, 1}
Event == [seq : 1 .. MaxEvents, st : State, facts : SUBSET Fact, id : 1 .. MaxEvents]

ASSUME NoEventIsNone == NoEvent \notin Event

(* state.json: "log" is tx_event_history with tx_event at its end, "res"   *)
(* the overtaken events that tx_event_resolutions keeps.                   *)
Missing == [st |-> "", log |-> <<>>, res |-> {}, facts |-> {}]

Cur(r)         == IF r.log = <<>> THEN NoEvent ELSE Last(r.log)
Prev(r)        == IF Len(r.log) < 2 THEN NoEvent ELSE r.log[Len(r.log) - 1]
Represented(r) == ToSet(r.log) \cup r.res
ValidChain(r)  == r.log # <<>> => Cur(r).st = r.st /\ Cur(r).facts = r.facts

VARIABLES
    guarded,  \* guardian_required of this workspace
    rec,      \* state.json
    intents,  \* write-ahead intents: event intents and the review intent
    marker,   \* the event of the pending marker
    doc, sql, ckpt,   \* the event the document, its row and the checkpoint name
    lease,    \* the transaction that owns lease.json: "free", "tx", "other"
    seal,     \* who wrote seal.json last: "base", "tx", "other"
    guard,    \* the patch session's record of this transaction
    lock,     \* the process inside the writer lock
    proc,     \* what each process is doing and remembers
    born,     \* the transaction's one checkout was started
    minted, faults, seals

disk   == <<rec, intents, marker, doc, sql, ckpt, lease, seal, guard, born>>
outbox == <<guarded, disk, lock, proc, minted, faults, seals>>

(* A command: the states it starts from, the state and facts it saves,     *)
(* whether it needs the transaction's own lease, whether it loads under    *)
(* the writer lock, and whether it ends by releasing the lease.            *)
Cmd(name, from, to, fact, own, locked, ends) ==
    [name |-> name, from |-> from, to |-> to, fact |-> fact,
     own |-> own, locked |-> locked, ends |-> ends]

CheckoutCmd == Cmd("checkout", {""}, "CHECKED_OUT", {}, TRUE, FALSE, FALSE)
Receipt     == Cmd("receipt", {"POSTCHECK_VERIFIED"}, "POSTCHECK_VERIFIED", {<<"receipt", 0>>}, TRUE, TRUE, TRUE)
Note        == Cmd("note", Terminal, "", {<<"note", 0>>}, FALSE, TRUE, FALSE)
Reconcile   == Cmd("reconcile", State, "", {}, FALSE, TRUE, FALSE)
Preflight   == Cmd("preflight", State, "", {}, FALSE, TRUE, FALSE)
Retire      == Cmd("retire", PreApply, "ABORTED_ORPHANED_CHECKOUT", {}, FALSE, TRUE, FALSE)
Commands ==
    {Cmd("prepare", PreApply, "PREPARED", {}, TRUE, FALSE, FALSE),
     Cmd("apply", {"PREPARED"}, "APPLYING", {}, TRUE, FALSE, FALSE),
     Cmd("recover", {"RECOVERY_REQUIRED"}, "POSTCHECK_VERIFIED", {}, TRUE, FALSE, FALSE),
     Cmd("recover", {"RECOVERY_REQUIRED"}, "ROLLED_BACK", {}, TRUE, FALSE, TRUE),
     Cmd("abort", PreApply, "ABORTED", {}, TRUE, FALSE, TRUE),
     Cmd("note", PreApply, "", {<<"note", 0>>}, TRUE, TRUE, FALSE),
     Receipt, Note, Retire}

\* How the process of an apply goes on once it saved APPLYING.
Outcomes ==
    {Cmd("postcheck", {"APPLYING"}, "POSTCHECK_VERIFIED", {}, TRUE, FALSE, FALSE),
     Cmd("rollback", {"APPLYING"}, "ROLLED_BACK", {}, TRUE, FALSE, TRUE),
     Cmd("failed", {"APPLYING", "POSTCHECK_VERIFIED"}, "RECOVERY_REQUIRED", {}, TRUE, FALSE, FALSE)}

Idle == [pc |-> "idle", cmd |-> Reconcile, mem |-> Missing, tgt |-> Missing, seen |-> NoEvent]

\* Program counters inside the writer lock, for every command.
Inside == {"bind", "marker", "commit", "observe", "recover", "doc", "sql", "ckpt", "ack", "intents",
           "unreview", "plan", "move", "slot", "gc"}
Locked(s) == s.pc \in Inside \/ (s.cmd.locked /\ s.pc # "idle")

OutboxInit ==
    /\ guarded \in BOOLEAN
    /\ rec = Missing /\ intents = {} /\ marker = NoEvent
    /\ doc = NoEvent /\ sql = NoEvent /\ ckpt = NoEvent
    /\ lease = "free" /\ seal = "base"
    /\ guard = [reserved |-> FALSE, active |-> "none", obs |-> NoEvent, valid |-> FALSE]
    /\ lock = NoProc /\ proc = [p \in Proc |-> Idle] /\ born = FALSE
    /\ minted = 0 /\ faults = 0 /\ seals = 0

At(p, pc)  == proc[p].pc = pc
MayLock(p) == lock \in {NoProc, p}
Goto(p, s) ==
    /\ Locked(s) => MayLock(p)
    /\ proc' = [proc EXCEPT ![p] = s]
    /\ lock' = IF Locked(s) THEN p ELSE IF lock = p THEN NoProc ELSE lock
Step(p, pc) == Goto(p, [proc[p] EXCEPT !.pc = pc])
Quit(p)     == Goto(p, Idle)

Steady == UNCHANGED <<guarded, born, minted, faults, seals>>

Projected == rec.log # <<>> /\ doc = Cur(rec) /\ sql = doc /\ ckpt = doc
Intents(kind)   == {i \in intents : i.kind = kind}
Open(i)         == Cur(i.target) \notin Represented(rec)
Conflict(i)     == Open(i) /\ i.prior # rec

(* The acknowledged event, and the one document and row agree on, are kept *)
(* by the state about to be published (assert_projection_lineage).         *)
Lineage(r) ==
    \A e \in ({ckpt} \cup (IF doc = sql THEN {doc} ELSE {})) \ {NoEvent} :
        ValidChain(r) /\ e \in Represented(r)
-----------------------------------------------------------------------------
(* Guardian ledger.                                                        *)

\* The ledger takes the event it has, its first event, or the next one.
MayObserve(r) ==
    /\ guard.active = "tx" /\ ValidChain(r)
    /\ \/ guard.obs = Cur(r)
       \/ guard.obs = NoEvent /\ Cur(r).seq = 1
       \/ guard.obs # NoEvent /\ guard.obs = Prev(r) /\ Cur(r).seq = guard.obs.seq + 1
    /\ r.st = "APPLYING" => guard.valid

Observed(r) == [guard EXCEPT !.obs = Cur(r), !.valid = @ \/ r.st = "PREPARED"]

\* _require_lease: the lease, the active binding and the last saved event.
RequireLease ==
    /\ lease = "tx"
    /\ guarded => guard.active = "tx" /\ (rec.log # <<>> => MayObserve(rec))
Witnessed == IF guarded /\ rec.log # <<>> THEN Observed(rec) ELSE guard

Finished == [guard EXCEPT !.active = "none"]
-----------------------------------------------------------------------------
(* Checkout.                                                               *)

Checkout(p) ==
    /\ At(p, "idle") /\ ~born
    /\ guarded => guard.active = "none"
    /\ guard' = [guard EXCEPT !.reserved = guarded]
    /\ born' = TRUE
    /\ Goto(p, [Idle EXCEPT !.pc = "acquire", !.cmd = CheckoutCmd])
    /\ UNCHANGED <<guarded, rec, intents, marker, doc, sql, ckpt, lease, seal, minted, faults, seals>>

MayAcquireFree == lease = "free"   \* mutant: a checkout looks at the lease alone

\* _acquire_lease: nothing pending anywhere, then the lease.
MayAcquire == lease = "free" /\ marker = NoEvent /\ intents = {}

Acquire(p) ==
    /\ At(p, "acquire") /\ MayLock(p)
    /\ \/ MayAcquire /\ lease' = "tx" /\ Step(p, IF guarded THEN "bind" ELSE "stage")
       \/ ~MayAcquire /\ Quit(p) /\ UNCHANGED lease
    /\ UNCHANGED <<rec, intents, marker, doc, sql, ckpt, seal, guard>> /\ Steady

Bind(p) ==
    /\ At(p, "bind")
    /\ \/ /\ guard.reserved /\ guard.active = "none"
          /\ guard' = [guard EXCEPT !.reserved = FALSE, !.active = "tx"]
          /\ Step(p, "stage") /\ UNCHANGED lease
       \/ /\ ~guard.reserved \/ guard.active # "none"
          /\ lease' = (IF lease = "tx" THEN "free" ELSE lease) /\ Quit(p) /\ UNCHANGED guard
    /\ UNCHANGED <<rec, intents, marker, doc, sql, ckpt, seal>> /\ Steady

(* A failed checkout gives its lease back, unless a guarded one already    *)
(* saved its state (_release_lease raises, the lease is retained).         *)
Undo(p) ==
    /\ At(p, "undo") /\ Quit(p)
    /\ IF lease = "tx" /\ ~(guarded /\ rec.log # <<>>)
         THEN lease' = "free" /\ guard' = IF guard.active = "tx" THEN Finished ELSE guard
         ELSE UNCHANGED <<lease, guard>>
    /\ UNCHANGED <<rec, intents, marker, doc, sql, ckpt, seal>> /\ Steady
-----------------------------------------------------------------------------
(* A save: load, stage the event, write it out, publish, acknowledge.      *)

\* A leased command loads its state before it takes the writer lock.
Load(p, c) ==
    /\ At(p, "idle") /\ (c.locked => MayLock(p))
    /\ rec.st \in c.from /\ c.fact \cap rec.facts = {}
    /\ IF c.own THEN RequireLease /\ guard' = Witnessed
       ELSE lease = "free" /\ Intents("review") = {} /\ UNCHANGED guard
    /\ c.name = "retire" => ~guarded
    /\ seal' = IF c.name = "recover" /\ c.to = "POSTCHECK_VERIFIED" THEN "tx" ELSE seal
    /\ Goto(p, [Idle EXCEPT !.pc = "stage", !.cmd = c, !.mem = rec])
    /\ UNCHANGED <<rec, intents, marker, doc, sql, ckpt, lease>> /\ Steady

(* The outcome of an apply, on the state it has in memory; a postcheck     *)
(* that could not be saved has sealed already and can only fail.           *)
Conclude(p, c) ==
    /\ At(p, "mutate") /\ proc[p].mem.st \in c.from
    /\ proc[p].cmd.name = "postcheck" => c.name = "failed"
    /\ seal' = IF c.name = "postcheck" THEN "tx" ELSE seal
    /\ Goto(p, [proc[p] EXCEPT !.pc = "stage", !.cmd = c])
    /\ UNCHANGED <<rec, intents, marker, doc, sql, ckpt, lease, guard>> /\ Steady

\* What the command writes into the state it loaded.
Desired(s) == [s.mem EXCEPT !.st = IF s.cmd.to = "" THEN @ ELSE s.cmd.to, !.facts = @ \cup s.cmd.fact]

Material(s) ==
    \/ s.cmd.name \in {"note", "retire", "review", "compact"}
    \/ <<Desired(s).st, Desired(s).facts, s.mem.res>> # <<rec.st, rec.facts, rec.res>>

\* mutant: the history is not extended by the event it replaces
StagedForgets(s) ==
    LET new == [seq |-> 1 + (IF rec.log = <<>> THEN 0 ELSE Cur(rec).seq), st |-> Desired(s).st,
                facts |-> Desired(s).facts, id |-> minted + 1]
    IN [st |-> new.st, log |-> Append(IF rec.log = <<>> THEN <<>> ELSE Front(rec.log), new),
        facts |-> new.facts, res |-> rec.res]

\* stage_lifecycle_event: history and resolutions come from the saved state.
Staged(s) ==
    LET open  == {i \in Intents("event") : i.prior = rec}
        used  == {Cur(i.target).seq : i \in Intents("event")}
                   \cup {IF rec.log = <<>> THEN 0 ELSE Cur(rec).seq}
        new   == [seq |-> 1 + Max(used), st |-> Desired(s).st, facts |-> Desired(s).facts, id |-> minted + 1]
    IN [st |-> new.st, log |-> Append(rec.log, new), facts |-> new.facts,
        res |-> rec.res \cup {Cur(i.target) : i \in open}]

MayStage(s) ==
    /\ ValidChain(rec) /\ ~\E i \in Intents("event") : Conflict(i)
    /\ Lineage(Staged(s))

\* The Guardian's preflight of a save: no unfinished intent starts at this state.
Unfinished == guarded /\ \E i \in Intents("event") : i.prior = rec
Admitted(s) == guarded /\ s.cmd.own /\ rec.log # <<>> => MayObserve(rec)

IntentOf(kind, tgt) == [kind |-> kind, prior |-> rec, target |-> tgt, lease |-> lease, seal |-> seal]

\* Where a command goes once its event is saved, and where one whose save failed.
After(c) == CASE c.name = "review"  -> "unreview"
              [] c.name = "compact" -> "slot"
              [] c.name = "apply"   -> "mutate"
              [] c.ends             -> "release"
              [] OTHER              -> "idle"
Escape(c) == CASE c.name = "checkout"  -> "undo"
               [] c.name = "postcheck" -> "mutate"
               [] OTHER                -> "idle"

Leave(p, pc) == IF pc = "idle" THEN Quit(p) ELSE Step(p, pc)
Continue(p)  == Leave(p, After(proc[p].cmd))
Abandon(p)   == Leave(p, Escape(proc[p].cmd))

Stage(p) ==
    LET s == proc[p] IN
    /\ At(p, "stage") /\ MayLock(p) /\ Material(s)
    /\ Admitted(s) /\ (s.cmd.own => ~Unfinished) /\ MayStage(s)
    /\ minted < MaxEvents /\ minted' = minted + 1
    /\ intents' = intents \cup {IntentOf(IF s.cmd.name = "review" THEN "review" ELSE "event", Staged(s))}
    /\ guard' = IF s.cmd.own THEN Witnessed ELSE guard
    /\ Goto(p, [s EXCEPT !.pc = "marker", !.tgt = Staged(s)])
    /\ UNCHANGED <<guarded, rec, marker, doc, sql, ckpt, lease, seal, born, faults, seals>>

\* Nothing material changed against the saved state: only diagnostics are written.
StagePlain(p) ==
    /\ At(p, "stage") /\ MayLock(p) /\ ~Material(proc[p])
    /\ Admitted(proc[p]) /\ (proc[p].cmd.own => ~Unfinished) /\ Lineage(rec)
    /\ rec' = Desired(proc[p]) /\ Continue(p)
    /\ UNCHANGED <<intents, marker, doc, sql, ckpt, lease, seal, guard>> /\ Steady

\* The unfinished event is recovered instead; the operation must be retried.
StagePreflight(p) ==
    /\ At(p, "stage") /\ MayLock(p) /\ proc[p].cmd.own /\ Admitted(proc[p]) /\ Unfinished
    /\ guard' = Witnessed
    /\ Goto(p, [Idle EXCEPT !.pc = "recover", !.cmd = Preflight])
    /\ UNCHANGED <<rec, intents, marker, doc, sql, ckpt, lease, seal>> /\ Steady

\* Refused: the scope, the chain or the disk; a checkout undoes itself.
StageRefused(p) ==
    /\ At(p, "stage") /\ Abandon(p)
    /\ UNCHANGED disk /\ Steady

\* An unrelated older obligation keeps its marker.
WriteMarker(p) ==
    /\ At(p, "marker")
    /\ marker' = IF marker = NoEvent \/ marker \in Represented(proc[p].tgt)
                 THEN Cur(proc[p].tgt) ELSE marker
    /\ Step(p, "commit")
    /\ UNCHANGED <<rec, intents, doc, sql, ckpt, lease, seal, guard>> /\ Steady

Commit(p) ==
    /\ At(p, "commit")
    /\ rec' = proc[p].tgt
    /\ Goto(p, [proc[p] EXCEPT !.pc = IF guarded /\ proc[p].cmd.own THEN "observe" ELSE "doc",
                               !.mem = rec', !.seen = marker])
    /\ UNCHANGED <<intents, marker, doc, sql, ckpt, lease, seal, guard>> /\ Steady

Observe(p) ==
    /\ At(p, "observe")
    /\ \/ MayObserve(rec) /\ guard' = Observed(rec) /\ Step(p, "doc")
       \/ ~MayObserve(rec) /\ Abandon(p) /\ UNCHANGED guard
    /\ UNCHANGED <<rec, intents, marker, doc, sql, ckpt, lease, seal>> /\ Steady
-----------------------------------------------------------------------------
(* Publication, under the writer lock.                                     *)

\* mutant: the document alone acknowledges the event
WriteDocumentAcknowledges(p) ==
    /\ At(p, "doc") /\ ValidChain(rec) /\ Lineage(rec)
    /\ doc' = Cur(rec) /\ Step(p, "sql") /\ marker' = NoEvent /\ intents' = {i \in intents : Open(i)}
    /\ UNCHANGED <<rec, sql, ckpt, lease, seal, guard>> /\ Steady

\* An event already projected is replayed without touching anything.
WriteDocument(p) ==
    /\ At(p, "doc") /\ ValidChain(rec) /\ Lineage(rec)
    /\ doc' = Cur(rec) /\ Step(p, IF Projected THEN "ack" ELSE "sql")
    /\ UNCHANGED <<rec, intents, marker, sql, ckpt, lease, seal, guard>> /\ Steady

\* The heartbeat of the document, and the row it must have written.
RunHeartbeat(p) ==
    /\ At(p, "sql") /\ sql' = doc /\ Step(p, "ckpt")
    /\ UNCHANGED <<rec, intents, marker, doc, ckpt, lease, seal, guard>> /\ Steady

WriteCheckpoint(p) ==
    /\ At(p, "ckpt") /\ ckpt' = Cur(rec) /\ Step(p, "ack")
    /\ UNCHANGED <<rec, intents, marker, doc, sql, lease, seal, guard>> /\ Steady

\* Only the exact marker seen before, naming a represented event, is retired.
AckMarker(p) ==
    /\ At(p, "ack") /\ Projected /\ marker = proc[p].seen
    /\ marker # NoEvent => marker \in Represented(rec)
    /\ marker' = NoEvent /\ Step(p, "intents")
    /\ UNCHANGED <<rec, intents, doc, sql, ckpt, lease, seal, guard>> /\ Steady

AckIntent(p) ==
    /\ At(p, "intents") /\ Projected
    /\ \E i \in Intents("event") : ~Open(i) /\ intents' = intents \ {i}
    /\ Step(p, "intents")
    /\ UNCHANGED <<rec, marker, doc, sql, ckpt, lease, seal, guard>> /\ Steady

AcksDone(p) ==
    /\ At(p, "intents") /\ \A i \in Intents("event") : Open(i)
    /\ Continue(p)
    /\ UNCHANGED disk /\ Steady

Publishing == {"doc", "sql", "ckpt", "ack", "intents"}

(* Publication fails: on its own checks, or because something raises.  A   *)
(* save swallows it and leaves the marker behind; reconcile reports it; a  *)
(* command that must see its event projected stops.                        *)
CannotPublish(p) ==
    \/ At(p, "doc") /\ ~(ValidChain(rec) /\ Lineage(rec))
    \/ At(p, "ack") /\ ~(Projected /\ marker = proc[p].seen /\ (marker # NoEvent => marker \in Represented(rec)))
    \/ At(p, "intents") /\ ~Projected

Swallows(c) == ~c.locked
PublicationFails(p) ==
    /\ proc[p].pc \in Publishing
    /\ \/ CannotPublish(p) /\ UNCHANGED faults
       \/ faults < MaxFaults /\ faults' = faults + 1
    /\ marker' = IF marker = NoEvent /\ proc[p].cmd.name # "reconcile" THEN Cur(rec) ELSE marker
    /\ IF Swallows(proc[p].cmd) THEN Continue(p) ELSE Quit(p)
    /\ UNCHANGED <<guarded, rec, intents, doc, sql, ckpt, lease, seal, guard, born, minted, seals>>

Release(p) ==
    /\ At(p, "release")
    /\ IF lease = "tx" /\ (guarded => guard.active = "tx")
         THEN lease' = "free" /\ IF guarded THEN Step(p, "unguard") ELSE Quit(p)
         ELSE Quit(p) /\ UNCHANGED lease
    /\ UNCHANGED <<rec, intents, marker, doc, sql, ckpt, seal, guard>> /\ Steady

ReleaseGuard(p) ==
    /\ At(p, "unguard") /\ Quit(p)
    /\ guard' = IF guard.active = "tx" THEN Finished ELSE guard
    /\ UNCHANGED <<rec, intents, marker, doc, sql, ckpt, lease, seal>> /\ Steady
-----------------------------------------------------------------------------
(* tx-document-reconcile, and the replay of a staged terminal receipt.     *)

ReconcileStart(p, c) ==
    /\ At(p, "idle") /\ MayLock(p)
    /\ \/ c = Reconcile /\ born
       \/ c = Receipt /\ c.fact \subseteq rec.facts /\ lease = "tx" /\ (guarded => guard.active = "tx")
    /\ \A i \in Intents("review") : Cur(i.target) = Cur(rec)
    /\ \/ marker = NoEvent
       \/ ValidChain(rec) /\ marker \in Represented(rec)
       \/ \E i \in Intents("event") : marker = Cur(i.target)
    /\ Goto(p, [Idle EXCEPT !.pc = "recover", !.cmd = c, !.seen = marker])
    /\ UNCHANGED disk /\ Steady

(* A checkout whose lease was given back before its first state was saved. *)
LostCheckout(i) ==
    /\ i.prior = Missing /\ i.lease # "free" /\ lease = "free"
    /\ i.target.st \in PreApply /\ rec \in {i.prior, i.target}

\* mutant: a lost checkout must find its lease again
MayReplayLeased(i) == i.seal = seal /\ i.lease = lease

\* The recorded boundary of the intent that is to be replayed.
MayReplay(i) ==
    /\ i.seal = seal
    /\ IF LostCheckout(i) THEN ~guarded ELSE i.lease = lease
    /\ i.target.st = "POSTCHECK_VERIFIED" => seal = "tx"

Replayable == {i \in Intents("event") : i.prior = rec \/ LostCheckout(i)}
Newest(S)  == CHOOSE i \in S : \A j \in S : Cur(j.target).seq <= Cur(i.target).seq

Unexplained == \/ \E i \in Intents("event") : Conflict(i) /\ ~LostCheckout(i)
               \/ \E i \in Replayable : i = Newest(Replayable) /\ ~MayReplay(i)

\* Complete the newest native commit that starts at the saved state, exactly.
RecoverReplay(p) ==
    /\ At(p, "recover") /\ ~Unexplained /\ Replayable # {}
    /\ LET i == Newest(Replayable) IN
         /\ rec' = i.target
         /\ IF LostCheckout(i)
              THEN Goto(p, [proc[p] EXCEPT !.pc = "stage", !.cmd = Retire, !.mem = i.target])
              ELSE Step(p, "recover")
    /\ UNCHANGED <<intents, marker, doc, sql, ckpt, lease, seal, guard>> /\ Steady

\* Nothing left to replay: the Guardian takes the event, publication follows.
RecoverDone(p) ==
    /\ At(p, "recover") /\ ~Unexplained /\ Replayable = {} /\ rec # Missing
    /\ guarded /\ lease = "tx" => RequireLease
    /\ guard' = (IF lease = "tx" THEN Witnessed ELSE guard) /\ Step(p, "doc")
    /\ UNCHANGED <<rec, intents, marker, doc, sql, ckpt, lease, seal>> /\ Steady

RecoverRefused(p) ==
    /\ At(p, "recover")
    /\ \/ Unexplained
       \/ Replayable = {} /\ (rec = Missing \/ (guarded /\ lease = "tx" /\ ~RequireLease))
    /\ Quit(p) /\ UNCHANGED disk /\ Steady
-----------------------------------------------------------------------------
(* guard-reconcile takes neither the writer lock nor the lease.            *)

GuardReconcile(p) ==
    /\ guarded /\ At(p, "idle")
    /\ \/ \* the checkout died before its state was saved
          /\ rec = Missing /\ guard.active = "tx" /\ lease \in {"tx", "free"}
          /\ lease' = "free" /\ guard' = Finished
       \/ \* the lease was taken and never bound
          /\ rec = Missing /\ guard.active = "none" /\ guard.reserved /\ lease = "tx"
          /\ lease' = "free" /\ guard' = [guard EXCEPT !.reserved = FALSE]
       \/ \* a saved pre-apply state: take its last event, keep the lease
          /\ rec.st \in PreApply /\ lease = "tx" /\ MayObserve(rec)
          /\ guard' = Observed(rec) /\ UNCHANGED lease
       \/ \* a terminal state: take its last event, then release
          /\ rec.st \in Terminal /\ MayObserve(rec)
          /\ lease' = (IF lease = "tx" THEN "free" ELSE lease)
          /\ guard' = [Observed(rec) EXCEPT !.active = "none"]
    /\ UNCHANGED <<rec, intents, marker, doc, sql, ckpt, seal, lock, proc>> /\ Steady
-----------------------------------------------------------------------------
(* The rest of the workspace.                                              *)

OtherCheckout ==
    /\ lock = NoProc /\ MayAcquire /\ (guarded => guard.active = "none")
    /\ lease' = "other"
    /\ guard' = IF guarded THEN [guard EXCEPT !.active = "other", !.reserved = FALSE] ELSE guard
    /\ UNCHANGED <<rec, intents, marker, doc, sql, ckpt, seal, lock, proc>> /\ Steady

OtherEnds ==
    /\ lease = "other" /\ lease' = "free"
    /\ guard' = IF guarded THEN Finished ELSE guard
    /\ UNCHANGED <<rec, intents, marker, doc, sql, ckpt, seal, lock, proc>> /\ Steady

\* Another heartbeat finds the document before its own one runs.
ForeignHeartbeat ==
    /\ sql # doc /\ sql' = doc
    /\ UNCHANGED <<rec, intents, marker, doc, ckpt, lease, seal, guard, lock, proc>> /\ Steady

Reseal ==
    /\ lease = "free" /\ ~guarded /\ seals < MaxSeals
    /\ seal' = "other" /\ seals' = seals + 1
    /\ UNCHANGED <<guarded, rec, intents, marker, doc, sql, ckpt, lease, guard, lock, proc, born, minted, faults>>

Crash(p) ==
    /\ proc[p].pc # "idle" /\ faults < MaxFaults /\ faults' = faults + 1
    /\ Quit(p)
    /\ UNCHANGED <<guarded, disk, minted, seals>>

\* A write of the checkout or of a save fails and is reported.
WriteFails(p) ==
    /\ proc[p].pc \in {"marker", "commit", "observe"} /\ faults < MaxFaults /\ faults' = faults + 1
    /\ Abandon(p)
    /\ UNCHANGED <<guarded, disk, minted, seals>>

SaveStep(p) ==
    \/ Stage(p) \/ StagePlain(p) \/ StagePreflight(p) \/ StageRefused(p)
    \/ WriteMarker(p) \/ Commit(p) \/ Observe(p)

PublishStep(p) ==
    \/ WriteDocument(p) \/ RunHeartbeat(p) \/ WriteCheckpoint(p)
    \/ AckMarker(p) \/ AckIntent(p) \/ AcksDone(p) \/ PublicationFails(p)

CommandStep(p) ==
    \/ Checkout(p) \/ Acquire(p) \/ Bind(p) \/ Undo(p)
    \/ \E c \in Commands : Load(p, c)
    \/ \E c \in Outcomes : Conclude(p, c)
    \/ SaveStep(p) \/ PublishStep(p) \/ Release(p) \/ ReleaseGuard(p)
    \/ \E c \in {Reconcile, Receipt} : ReconcileStart(p, c)
    \/ RecoverReplay(p) \/ RecoverDone(p) \/ RecoverRefused(p) \/ GuardReconcile(p)

Environment == OtherCheckout \/ OtherEnds \/ ForeignHeartbeat \/ Reseal

OutboxNext ==
    \/ \E p \in Proc : CommandStep(p) \/ Crash(p) \/ WriteFails(p)
    \/ Environment

OutboxSpec == OutboxInit /\ [][OutboxNext]_outbox
=============================================================================
