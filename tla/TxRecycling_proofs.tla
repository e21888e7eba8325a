------------------------- MODULE TxRecycling_proofs -------------------------
(***************************************************************************)
(* A compaction is resumable at any time: whatever dies, and however many  *)
(* processes run commands on the transaction, no directory has left its    *)
(* place before a durable plan names a complete archive.                   *)
(*                                                                         *)
(* When the commands on a transaction run one at a time (a save writes the *)
(* record its command loaded, so two of them forget each other's events),  *)
(* its six files are one log whose last event is never lost sight of, it   *)
(* is reviewed once, and what is deleted was archived and decided about.   *)
(***************************************************************************)
EXTENDS MCTxRecycling, SequenceTheorems, FiniteSetTheorems, WellFoundedInduction, TLAPS

Shaped(s) == {"pc", "cmd", "mem", "tgt", "seen"} \subseteq DOMAIN s

Processes == proc = [p \in Proc |-> proc[p]] /\ \A p \in Proc : Shaped(proc[p])

\* A plan is written for a snapshot that exists, and moves follow a plan.
Planned ==
    /\ body \in {0, 1} /\ DOMAIN tree = Dir
    /\ \A p \in Proc : /\ At(p, "plan") => Subject(proc[p].cmd) \in vault
                       /\ At(p, "move") => plan \in vault
    /\ NothingMovedUnplanned

Inv == Processes /\ Planned

LEMMA Goes ==
    ASSUME Processes, NEW p \in Proc, NEW s, Shaped(s), Goto(p, s)
    PROVE  Processes' /\ proc'[p] = s /\ \A q \in Proc \ {p} : proc'[q] = proc[q]
BY DEF Processes, Goto

LEMMA IdleShaped == Shaped(Idle) /\ Idle.pc = "idle"
BY DEF Shaped, Idle

LEMMA StepGoes ==
    ASSUME Processes, NEW p \in Proc, NEW x, Step(p, x)
    PROVE  /\ Processes' /\ proc'[p].pc = x /\ proc'[p].cmd = proc[p].cmd
           /\ \A q \in Proc \ {p} : proc'[q] = proc[q]
BY DEF Step, Goto, Processes, Shaped

LEMMA QuitGoes ==
    ASSUME Processes, NEW p \in Proc, Quit(p)
    PROVE  Processes' /\ proc'[p].pc = "idle" /\ \A q \in Proc \ {p} : proc'[q] = proc[q]
BY Goes, IdleShaped DEF Quit

\* A step of p that neither plans nor moves.
Elsewhere(p) ==
    /\ Processes' /\ proc'[p].pc \notin {"plan", "move"}
    /\ \A q \in Proc \ {p} : proc'[q] = proc[q]

LEMMA LeaveGoes ==
    ASSUME Processes, NEW p \in Proc, NEW x, Leave(p, x), x \notin {"plan", "move"} PROVE Elsewhere(p)
BY StepGoes, QuitGoes DEF Leave, Elsewhere

LEMMA ContinueGoes == ASSUME Processes, NEW p \in Proc, Continue(p) PROVE Elsewhere(p)
BY LeaveGoes DEF Continue, After

LEMMA AbandonGoes == ASSUME Processes, NEW p \in Proc, Abandon(p) PROVE Elsewhere(p)
BY LeaveGoes DEF Abandon, Escape

LEMMA GotoElsewhere ==
    ASSUME Processes, NEW p \in Proc, NEW s, Shaped(s), s.pc \notin {"plan", "move"}, Goto(p, s) PROVE Elsewhere(p)
BY Goes DEF Elsewhere

LEMMA StepElsewhere ==
    ASSUME Processes, NEW p \in Proc, NEW x, x \notin {"plan", "move"}, Step(p, x) PROVE Elsewhere(p)
BY StepGoes DEF Elsewhere

LEMMA QuitElsewhere == ASSUME Processes, NEW p \in Proc, Quit(p) PROVE Elsewhere(p)
BY QuitGoes DEF Elsewhere

LEMMA CommandElsewhere ==
    ASSUME Processes, NEW p \in Proc, CommandStep(p)
    PROVE  Elsewhere(p) \/ UNCHANGED proc
<1>0. Shaped(proc[p]) /\ Shaped(Idle) /\ Idle.pc = "idle" BY IdleShaped DEF Processes
<1> USE <1>0 DEF Goto, Elsewhere, Processes, Shaped, Step, Quit
<1>1. CASE Checkout(p) BY <1>1 DEF Checkout
<1>2. CASE Acquire(p) BY <1>2 DEF Acquire
<1>3. CASE Bind(p) BY <1>3 DEF Bind
<1>4. CASE Undo(p) BY <1>4 DEF Undo
<1>5. ASSUME NEW c, Load(p, c) PROVE Elsewhere(p) BY <1>5 DEF Load
<1>6. ASSUME NEW c, Conclude(p, c) PROVE Elsewhere(p) BY <1>6 DEF Conclude
<1>7. CASE SaveStep(p)
  <2>1. CASE Stage(p) BY <2>1 DEF Stage
  <2>2. CASE StagePlain(p) BY <2>2, ContinueGoes, QuitElsewhere DEF StagePlain
  <2>3. CASE StagePreflight(p) BY <2>3 DEF StagePreflight
  <2>4. CASE StageRefused(p) BY <2>4, AbandonGoes DEF StageRefused
  <2>5. CASE WriteMarker(p) BY <2>5 DEF WriteMarker
  <2>6. CASE Commit(p) BY <2>6 DEF Commit
  <2>7. CASE Observe(p) BY <2>7, AbandonGoes DEF Observe
  <2> QED BY <1>7, <2>1, <2>2, <2>3, <2>4, <2>5, <2>6, <2>7 DEF SaveStep
<1>8. CASE PublishStep(p)
  <2>1. CASE WriteDocument(p) BY <2>1 DEF WriteDocument
  <2>2. CASE RunHeartbeat(p) BY <2>2 DEF RunHeartbeat
  <2>3. CASE WriteCheckpoint(p) BY <2>3 DEF WriteCheckpoint
  <2>4. CASE AckMarker(p) BY <2>4 DEF AckMarker
  <2>5. CASE AckIntent(p) BY <2>5 DEF AckIntent
  <2>6. CASE AcksDone(p) BY <2>6, ContinueGoes, QuitElsewhere DEF AcksDone
  <2>7. CASE PublicationFails(p) BY <2>7, ContinueGoes, QuitElsewhere DEF PublicationFails
  <2> QED BY <1>8, <2>1, <2>2, <2>3, <2>4, <2>5, <2>6, <2>7 DEF PublishStep
<1>9. CASE Release(p) BY <1>9 DEF Release
<1>10. CASE ReleaseGuard(p) BY <1>10 DEF ReleaseGuard
<1>11. ASSUME NEW c, ReconcileStart(p, c) PROVE Elsewhere(p) BY <1>11 DEF ReconcileStart
<1>12. CASE RecoverReplay(p) BY <1>12 DEF RecoverReplay
<1>13. CASE RecoverDone(p) BY <1>13 DEF RecoverDone
<1>14. CASE RecoverRefused(p) BY <1>14 DEF RecoverRefused
<1>15. CASE GuardReconcile(p) BY <1>15 DEF GuardReconcile
<1> QED BY <1>1, <1>2, <1>3, <1>4, <1>5, <1>6, <1>7, <1>8, <1>9, <1>10, <1>11, <1>12, <1>13, <1>14,
           <1>15 DEF CommandStep

LEMMA OutboxElsewhere ==
    ASSUME Processes, OutboxNext
    PROVE  UNCHANGED proc \/ \E p \in Proc : Elsewhere(p)
<1>1. ASSUME NEW p \in Proc, Crash(p) \/ WriteFails(p) PROVE Elsewhere(p)
  BY <1>1, QuitElsewhere, AbandonGoes DEF Crash, WriteFails
<1>2. CASE Environment BY <1>2 DEF Environment, OtherCheckout, OtherEnds, ForeignHeartbeat, Reseal
<1> QED BY <1>1, <1>2, CommandElsewhere DEF OutboxNext

\* Such a step keeps the plan and what relies on it.
LEMMA ElsewherePlanned ==
    ASSUME Inv, NEW p \in Proc, Elsewhere(p), plan' = plan, vault \subseteq vault', body' \in {0, 1},
           DOMAIN tree' = Dir, \A d \in Dir : tree'[d] # "live" => tree[d] # "live"
    PROVE  Inv'
<1>1. ASSUME NEW q \in Proc PROVE /\ At(q, "plan")' => Subject(proc'[q].cmd) \in vault'
                                  /\ At(q, "move")' => plan' \in vault'
  BY DEF Inv, Planned, Elsewhere, At, Subject
<1>2. NothingMovedUnplanned' BY DEF Inv, Planned, NothingMovedUnplanned
<1> QED BY <1>1, <1>2 DEF Inv, Planned, Elsewhere, Subject

LEMMA CompactSubject ==
    ASSUME NEW v \in {0, 1} PROVE Subject(CompactCmd(v)) = v
<1>1. \A w \in {0, 1} : \A k : <<k, w>> \in CompactCmd(v).fact <=> k = "compaction" /\ w = v
  BY DEF CompactCmd, Cmd
<1> QED BY <1>1 DEF Subject

LEMMA Recycles ==
    ASSUME Inv, NEW p \in Proc, RecyclingStep(p) PROVE Inv'
<1>0. Shaped(proc[p]) /\ Shaped(Idle) /\ Processes /\ body \in {0, 1}
      /\ DOMAIN tree = Dir
  BY IdleShaped DEF Inv, Planned, Processes
<1> USE <1>0 DEF store
<1>1. CASE \/ Submit(p) \/ Archive(p) \/ Recheck(p) \/ StaleReview(p) \/ ResumeReview(p) \/ EndReview(p)
           \/ Compact(p) \/ FreeSlot(p) \/ ResumeGC(p)
  <2>1. Elsewhere(p) \/ UNCHANGED proc
    <3> USE DEF Elsewhere, Goto, Step, Quit, Shaped, Processes
    <3>0. Idle.pc = "idle" BY IdleShaped
    <3>1. CASE Submit(p) BY <3>0, <3>1 DEF Submit
    <3>2. CASE Archive(p) BY <3>0, <3>2 DEF Archive
    <3>3. CASE StaleReview(p) BY <3>0, <3>3 DEF StaleReview
    <3>4. CASE ResumeReview(p) BY ZenonT(30), <3>0, <3>4 DEF ResumeReview
    <3>5. CASE EndReview(p) BY <3>0, <3>5 DEF EndReview
    <3>6. CASE Compact(p) BY <3>0, <3>6 DEF Compact
    <3>7. CASE FreeSlot(p) BY <3>0, <3>7 DEF FreeSlot
    <3>8. CASE ResumeGC(p) BY <3>0, <3>8 DEF ResumeGC
    <3>9. CASE Recheck(p) BY <3>0, <3>9 DEF Recheck
    <3> QED BY <1>1, <3>1, <3>2, <3>3, <3>4, <3>5, <3>6, <3>7, <3>8, <3>9
  <2>2. UNCHANGED <<tree, plan, body>> /\ vault \subseteq vault'
    BY <1>1 DEF Submit, Archive, Recheck, StaleReview, ResumeReview, EndReview, Compact, FreeSlot, ResumeGC
  <2>3. CASE UNCHANGED proc
    BY <2>2, <2>3 DEF Inv, Processes, Planned, NothingMovedUnplanned, At, Subject
  <2> QED BY <2>1, <2>2, <2>3, ElsewherePlanned
<1>2. CASE Snapshot(p)
  <2>1. /\ Processes' /\ proc'[p].pc = "plan" /\ proc'[p].cmd = CompactCmd(body)
        /\ \A q \in Proc \ {p} : proc'[q] = proc[q]
    BY <1>2 DEF Snapshot, Goto, Shaped, Processes
  <2>2. vault' = vault \cup {body} /\ UNCHANGED <<tree, plan, body>> BY <1>2 DEF Snapshot
  <2>3. Subject(proc'[p].cmd) \in vault' BY <2>1, <2>2, CompactSubject
  <2>4. ASSUME NEW q \in Proc \ {p} PROVE Subject(proc'[q].cmd) = Subject(proc[q].cmd) BY <2>1
  <2> QED BY <2>1, <2>2, <2>3, <2>4 DEF Inv, Planned, NothingMovedUnplanned, At
<1>3. CASE WritePlan(p)
  <2>1. CASE Quit(p) /\ UNCHANGED plan
    BY <1>3, <2>1, QuitElsewhere, ElsewherePlanned DEF WritePlan
  <2>2. CASE plan' = Subject(proc[p].cmd) /\ Step(p, "move")
    <3>1. /\ Processes' /\ proc'[p].pc = "move" /\ \A q \in Proc \ {p} : proc'[q] = proc[q]
      BY <2>2, StepGoes
    <3>2. plan' \in vault' /\ UNCHANGED <<tree, vault, body>> BY <1>3, <2>2 DEF WritePlan, Inv, Planned
    <3>3. ASSUME NEW q \in Proc \ {p} PROVE Subject(proc'[q].cmd) = Subject(proc[q].cmd) BY <3>1
    <3> QED BY <3>1, <3>2, <3>3 DEF Inv, Planned, NothingMovedUnplanned, At
  <2> QED BY <1>3, <2>1, <2>2 DEF WritePlan
<1>4. CASE ResumeCompaction(p) \/ MoveDir(p)
  <2>1. /\ Processes' /\ proc'[p].pc = "move" /\ \A q \in Proc \ {p} : proc'[q] = proc[q]
    BY ZenonT(30), <1>4 DEF ResumeCompaction, MoveDir, Step, Goto, Shaped, Processes
  <2>2. plan \in vault /\ UNCHANGED <<plan, vault, body>> BY <1>4 DEF ResumeCompaction, MoveDir, Inv, Planned
  <2>3. ASSUME NEW q \in Proc \ {p} PROVE Subject(proc'[q].cmd) = Subject(proc[q].cmd) BY <2>1
  <2>4. DOMAIN tree' = Dir BY <1>4 DEF ResumeCompaction, MoveDir, store, Inv, Planned
  <2> QED BY <2>1, <2>2, <2>3, <2>4 DEF Inv, Planned, NothingMovedUnplanned, At
<1>5. CASE Moved(p)
  <2>1. Elsewhere(p) BY <1>5 DEF Moved, Elsewhere, Step, Goto, Shaped, Processes
  <2>2. UNCHANGED store BY <1>5 DEF Moved
  <2> QED BY <2>1, <2>2, ElsewherePlanned
<1>6. CASE Collect(p)
  <2>1. Elsewhere(p) BY <1>6, StepElsewhere, QuitElsewhere DEF Collect
  <2>2. UNCHANGED <<body, vault, plan>> BY <1>6 DEF Collect
  <2>3. DOMAIN tree' = Dir /\ \A d \in Dir : tree'[d] # "live" => tree[d] # "live"
    BY <1>6 DEF Collect, Inv, Planned
  <2> QED BY <2>1, <2>2, <2>3, ElsewherePlanned
<1> QED BY <1>1, <1>2, <1>3, <1>4, <1>5, <1>6 DEF RecyclingStep

LEMMA RecyclingInvInit == ASSUME RecyclingInit PROVE Inv
<1>1. Processes BY IdleShaped DEF RecyclingInit, OutboxInit, Processes
<1>2. \A p \in Proc : proc[p].pc = "idle" BY IdleShaped DEF RecyclingInit, OutboxInit
<1> QED BY <1>1, <1>2 DEF RecyclingInit, Inv, Planned, NothingMovedUnplanned, At

LEMMA RecyclingInvStep == ASSUME Inv, [RecyclingNext]_rvars PROVE Inv'
<1>1. CASE UNCHANGED proc /\ UNCHANGED <<tree, vault, plan>> /\ body' \in {0, 1}
  <2>1. \A q \in Proc : proc'[q] = proc[q] BY <1>1
  <2>2. Processes' BY <1>1 DEF Inv, Processes
  <2>3. ASSUME NEW q \in Proc
        PROVE  /\ At(q, "plan")' => Subject(proc'[q].cmd) \in vault'
               /\ At(q, "move")' => plan' \in vault'
    BY <1>1, <2>1 DEF Inv, Planned, At
  <2> QED BY <1>1, <2>2, <2>3 DEF Inv, Planned, NothingMovedUnplanned, Subject
<1>2. CASE OutboxStep
  <2>1. UNCHANGED store /\ body' \in {0, 1} BY <1>2 DEF OutboxStep, store, Inv, Planned
  <2>2. DOMAIN tree' = Dir /\ UNCHANGED <<tree, plan, vault>> BY <2>1 DEF store, Inv, Planned
  <2>3. CASE UNCHANGED proc BY <1>1, <2>1, <2>2, <2>3
  <2>4. ASSUME NEW p \in Proc, Elsewhere(p) PROVE Inv' BY <2>1, <2>2, <2>4, ElsewherePlanned
  <2> QED BY <1>2, <2>3, <2>4, OutboxElsewhere DEF OutboxStep, Inv
<1>3. CASE EditCandidate
  <2>1. body' \in {0, 1} BY <1>3 DEF EditCandidate, Inv, Planned
  <2> QED BY <1>1, <1>3, <2>1 DEF EditCandidate, outbox
<1>4. CASE UNCHANGED rvars BY <1>1, <1>4 DEF rvars, outbox, store, Inv, Planned
<1> QED BY <1>2, <1>3, <1>4, Recycles DEF RecyclingNext

(* No directory is moved before a complete, durable plan names its archive *)
(* (tx_recycling.py): any crash among the moves can be resumed.            *)
THEOREM MovesArePlanned == RecyclingSpec => []NothingMovedUnplanned
<1>1. RecyclingInit => Inv BY RecyclingInvInit
<1>2. Inv /\ [RecyclingNext]_rvars => Inv' BY RecyclingInvStep
<1>3. Inv => NothingMovedUnplanned BY DEF Inv, Planned
<1> QED BY <1>1, <1>2, <1>3, PTL DEF RecyclingSpec

-----------------------------------------------------------------------------
(* Commands one at a time.                                                 *)

\* No process starts a command while another process is inside one.
OneAtATime == \A p, q \in Proc : p # q => At(p, "idle") \/ At(q, "idle")

KnownCmds ==
    Commands \cup Outcomes \cup {CheckoutCmd, Reconcile, Preflight}
      \cup {ReviewCmd(0), ReviewCmd(1), CompactCmd(0), CompactCmd(1)}

Saved == [st : State, log : Seq(Event), res : SUBSET Event, facts : SUBSET Fact]

\* A state whose history is ordered, among m events.
Ordered(r, m) ==
    /\ r \in Saved /\ ValidChain(r) /\ (r.log = <<>> => r = Missing)
    /\ \A n \in 1 .. Len(r.log) : r.log[n].seq <= m
    /\ \A k, n \in 1 .. Len(r.log) : k < n => r.log[k].seq < r.log[n].seq

\* t continues r by one event.
Grows(r, t) ==
    /\ Len(t.log) = Len(r.log) + 1 /\ \A n \in 1 .. Len(r.log) : t.log[n] = r.log[n]
    /\ r.facts \subseteq t.facts

Intends(i, m) ==
    /\ Ordered(i.prior, m) /\ Ordered(i.target, m) /\ Grows(i.prior, i.target)
    /\ i.kind # "review" => i.kind = "event" /\ ReviewOf(i.target) = ReviewOf(i.prior)

InLog(e, r) == \E n \in 1 .. Len(r.log) : r.log[n] = e

\* Where a command remembers the saved state.
Remembers(s) ==
    \/ s.pc \in {"acquire", "bind", "stage", "marker", "mutate", "archive", "recheck", "snapshot", "plan",
                  "move"}
    \/ s.pc = "commit" /\ s.cmd.name # "review"
    \/ s.pc \in {"observe"} \cup Publishing /\ s.cmd.name \in {"apply", "postcheck"}

\* What a command s can rely on, with the state r, the intents I, the vault V, the plan k, the slot z.
Fits(s, r, I, V, k, z) ==
    /\ s.cmd \in KnownCmds
    /\ Remembers(s) => s.mem = r
    /\ s.pc \in {"marker", "commit"} =>
         \E i \in I : i.target = s.tgt /\ r \in {i.prior, i.target} /\ (i.kind = "review" <=> s.cmd.name = "review")
    /\ s.pc = "recover" => s.cmd.name \in {"reconcile", "receipt", "preflight"}
    /\ s.pc \in {"observe"} \cup Publishing => r.log # <<>>
    /\ s.cmd.name = "review" /\ s.pc \in {"archive", "recheck", "stage"} => I = {} /\ ReviewOf(r) = {}
    /\ s.pc \in {"acquire", "bind"} => s.cmd.name = "checkout"
    /\ s.pc \in {"archive", "recheck"} => s.cmd.name = "review"
    /\ s.pc \in {"snapshot", "plan", "move", "slot", "gc"} => s.cmd.name = "compact"
    /\ s.cmd.name = "compact" /\ s.pc \notin {"idle", "snapshot", "plan"} => k \in V
    /\ s.pc = "gc" => z
    /\ s.pc = "snapshot" => k = NoPlan

History ==
    /\ minted \in Nat /\ Ordered(rec, minted) /\ \A i \in intents : Intends(i, minted)
    /\ ckpt = NoEvent \/ InLog(ckpt, rec)

Undecided(r, I) == ReviewOf(r) = {} /\ \A i \in I : i.kind = "review" => ReviewOf(i.target) = {}
Decides(v, r, I) ==
    /\ ReviewOf(r) \subseteq {<<"review", v>>}
    /\ \A i \in I : i.kind = "review" => ReviewOf(i.target) \subseteq {<<"review", v>>}
OneDecision == Undecided(rec, intents) \/ \E v \in {0, 1} : Decides(v, rec, intents)

Archives ==
    /\ vault \subseteq {0, 1} /\ body \in {0, 1}
    /\ plan # NoPlan => plan \in vault /\ ReviewOf(rec) # {} /\ (touched \/ (body = plan /\ <<"review", body>> \in rec.facts))
    /\ slot => plan \in vault
    /\ \A d \in Dir : tree[d] = "gone" => slot

Unborn == ~born => rec = Missing /\ \A p \in Proc : At(p, "idle")
Commanded == \A p \in Proc : Fits(proc[p], rec, intents, vault, plan, slot)
Locking == \A p \in Proc : Locked(proc[p]) => lock = p

\* What a compaction is about to plan is what is there, unless it was edited since.
Current(s, v, edited) == s.pc = "plan" => edited \/ Subject(s.cmd) = v
Fresh == \A p \in Proc : Current(proc[p], body, touched)

Data == History /\ ObligationCovered /\ OneDecision /\ Archives
OInv == Inv /\ Data /\ Unborn /\ Commanded /\ Locking /\ Fresh

LEMMA HasLeast ==
    ASSUME NEW S, S \subseteq Nat, S # {}
    PROVE  \E m \in S : \A n \in S : m <= n
<1>1. \E m \in S : \A n \in S : <<n, m>> \notin OpToRel(<, Nat)
  BY NatLessThanWellFounded, WFMin, Zenon
<1>2. PICK m \in S : \A n \in S : <<n, m>> \notin OpToRel(<, Nat) BY <1>1, Zenon
<1>3. \A n \in S : ~(n < m) BY <1>2 DEF OpToRel
<1> QED BY <1>3

LEMMA HasMax ==
    ASSUME NEW S, S \subseteq Nat, S # {}, NEW b \in Nat, \A n \in S : n <= b
    PROVE  Max(S) \in S /\ \A n \in S : n <= Max(S)
<1> DEFINE U == {n \in Nat : \A x \in S : x <= n}
<1>1. U \subseteq Nat /\ b \in U OBVIOUS
<1>2. PICK m \in U : \A n \in U : m <= n BY <1>1, HasLeast
<1>3. m \in S
  <2>1. SUFFICES ASSUME m \notin S PROVE FALSE OBVIOUS
  <2>2. \A x \in S : x < m BY <2>1, <1>2
  <2>3. PICK x \in S : TRUE OBVIOUS
  <2>4. m \in Nat /\ x \in Nat /\ x < m BY <2>2, <2>3
  <2>5. m - 1 \in U BY <2>2, <2>4
  <2> QED BY <2>4, <2>5, <1>2
<1>4. \A x \in S : m >= x BY <1>2
<1> QED BY <1>3, <1>4 DEF Max

Harmless(c) ==
    /\ c.to \in State /\ c.fact \in {{}, {<<"receipt", 0>>}, {<<"note", 0>>}}
    /\ c.name \notin {"review", "compact"}

LEMMA IsHarmless ==
    ASSUME NEW n, NEW from, NEW to, NEW fact, NEW own, NEW locked, NEW ends,
           to \in State, fact \in {{}, {<<"receipt", 0>>}, {<<"note", 0>>}}, n \notin {"review", "compact"}
    PROVE  Harmless(Cmd(n, from, to, fact, own, locked, ends))
BY DEF Cmd, Harmless

LEMMA StateNames ==
    {"", "CHECKED_OUT", "PREPARED", "APPLYING", "RECOVERY_REQUIRED", "POSTCHECK_VERIFIED", "ABORTED",
     "ROLLED_BACK", "ABORTED_ORPHANED_CHECKOUT"} \subseteq State
BY DEF State, PreApply, Terminal

LEMMA CommandsHarmless ==
    \A c \in Commands \cup Outcomes \cup {CheckoutCmd, Reconcile, Preflight} : Harmless(c)
<1> USE StateNames, IsHarmless
<1>1. Harmless(CheckoutCmd) BY DEF CheckoutCmd
<1>2. Harmless(Reconcile) BY DEF Reconcile
<1>3. Harmless(Preflight) BY DEF Preflight
<1>4. Harmless(Receipt) BY DEF Receipt
<1>5. Harmless(Note) BY DEF Note
<1>6. Harmless(Retire) BY DEF Retire
<1>7. \A c \in Outcomes : Harmless(c)
  <2>1. Harmless(Cmd("postcheck", {"APPLYING"}, "POSTCHECK_VERIFIED", {}, TRUE, FALSE, FALSE)) OBVIOUS
  <2>2. Harmless(Cmd("rollback", {"APPLYING"}, "ROLLED_BACK", {}, TRUE, FALSE, TRUE)) OBVIOUS
  <2>3. Harmless(Cmd("failed", {"APPLYING", "POSTCHECK_VERIFIED"}, "RECOVERY_REQUIRED", {}, TRUE, FALSE, FALSE)) OBVIOUS
  <2> HIDE IsHarmless
  <2> QED BY <2>1, <2>2, <2>3, Zenon DEF Outcomes
<1>8. \A c \in Commands : Harmless(c)
  <2>1. Harmless(Cmd("prepare", PreApply, "PREPARED", {}, TRUE, FALSE, FALSE)) OBVIOUS
  <2>2. Harmless(Cmd("apply", {"PREPARED"}, "APPLYING", {}, TRUE, FALSE, FALSE)) OBVIOUS
  <2>3. Harmless(Cmd("recover", {"RECOVERY_REQUIRED"}, "POSTCHECK_VERIFIED", {}, TRUE, FALSE, FALSE)) OBVIOUS
  <2>4. Harmless(Cmd("recover", {"RECOVERY_REQUIRED"}, "ROLLED_BACK", {}, TRUE, FALSE, TRUE)) OBVIOUS
  <2>5. Harmless(Cmd("abort", PreApply, "ABORTED", {}, TRUE, FALSE, TRUE)) OBVIOUS
  <2>6. Harmless(Cmd("note", PreApply, "", {<<"note", 0>>}, TRUE, TRUE, FALSE)) OBVIOUS
  <2> HIDE IsHarmless
  <2> QED BY <1>4, <1>5, <1>6, <2>1, <2>2, <2>3, <2>4, <2>5, <2>6, Zenon DEF Commands
<1> HIDE IsHarmless
<1> QED BY <1>1, <1>2, <1>3, <1>7, <1>8, Zenon

Usual(c) ==
    /\ c.to \in State /\ c.fact \subseteq Fact
    /\ c.name # "review" => \A f \in c.fact : f[1] # "review"
    /\ c.name = "review" => \E v \in {0, 1} : c = ReviewCmd(v)
    /\ c.name = "compact" => \E v \in {0, 1} : c = CompactCmd(v)

LEMMA CommandFacts == \A c \in KnownCmds : Usual(c)
<1>1. ASSUME NEW c, Harmless(c) PROVE Usual(c)
  <2>1. {<<"receipt", 0>>, <<"note", 0>>} \subseteq Fact BY DEF Fact
  <2>2. \A f \in {<<"receipt", 0>>, <<"note", 0>>} : f[1] # "review" OBVIOUS
  <2> QED BY <1>1, <2>1, <2>2 DEF Harmless, Usual
<1>2. ASSUME NEW v \in {0, 1} PROVE Usual(ReviewCmd(v))
  <2>1. <<"review", v>> \in Fact BY DEF Fact
  <2>2. ReviewCmd(v).to = "" /\ ReviewCmd(v).fact = {<<"review", v>>} /\ ReviewCmd(v).name = "review"
    BY DEF ReviewCmd, Cmd
  <2> QED BY <2>1, <2>2, StateNames DEF Usual
<1>3. ASSUME NEW v \in {0, 1} PROVE Usual(CompactCmd(v))
  <2>1. <<"compaction", v>> \in Fact BY DEF Fact
  <2>2. CompactCmd(v).to = "" /\ CompactCmd(v).fact = {<<"compaction", v>>} /\ CompactCmd(v).name = "compact"
    BY DEF CompactCmd, Cmd
  <2>3. \A f \in {<<"compaction", v>>} : f[1] # "review" OBVIOUS
  <2>4. "compaction" # "review" /\ "compact" # "review" OBVIOUS
  <2> QED BY <2>1, <2>2, <2>3, <2>4, StateNames DEF Usual
<1> QED BY <1>1, <1>2, <1>3, CommandsHarmless DEF KnownCmds
LEMMA SeenCommands ==
    /\ \A v \in {0, 1} : ReviewCmd(v) \in KnownCmds /\ CompactCmd(v) \in KnownCmds
    /\ \A v \in {0, 1} : ReviewCmd(v).name = "review" /\ ReviewCmd(v).fact = {<<"review", v>>}
    /\ \A v \in {0, 1} : CompactCmd(v).name = "compact"
    /\ Reconcile \in KnownCmds /\ Preflight \in KnownCmds /\ Retire \in KnownCmds /\ Receipt \in KnownCmds
    /\ CheckoutCmd \in KnownCmds
    /\ Reconcile.name = "reconcile" /\ Preflight.name = "preflight" /\ Retire.name = "retire"
    /\ Receipt.name = "receipt" /\ CheckoutCmd.name = "checkout"
BY DEF KnownCmds, ReviewCmd, CompactCmd, Reconcile, Preflight, Retire, Receipt, CheckoutCmd, Cmd, Commands

LEMMA LastOf ==
    ASSUME NEW m \in Nat, NEW r, Ordered(r, m), r.log # <<>>
    PROVE  /\ Len(r.log) \in Nat \ {0} /\ Cur(r) = r.log[Len(r.log)]
           /\ Cur(r) \in Event /\ Cur(r) # NoEvent /\ Cur(r).seq <= m /\ Cur(r).seq \in Nat
           /\ r # Missing
<1>1. r.log \in Seq(Event) /\ Len(r.log) \in Nat \ {0} BY DEF Ordered, Saved
<1>2. Cur(r) = r.log[Len(r.log)] BY DEF Cur, Last
<1>3. Cur(r) \in Event BY <1>1, <1>2
<1>4. Cur(r).seq \in Nat /\ Cur(r) # NoEvent BY <1>3, NoEventIsNone DEF Event
<1>5. Cur(r).seq <= m BY <1>1, <1>2 DEF Ordered
<1>6. Missing.log = <<>> BY DEF Missing
<1> QED BY <1>1, <1>2, <1>3, <1>4, <1>5, <1>6

\* What stage_lifecycle_event builds continues the saved history.
LEMMA StagedGrows ==
    ASSUME History, NEW s, s.cmd \in KnownCmds, s.mem = rec, minted < MaxEvents
    PROVE  /\ Ordered(Staged(s), minted + 1) /\ Grows(rec, Staged(s))
           /\ Staged(s).facts = rec.facts \cup s.cmd.fact
           /\ Cur(Staged(s)).id = minted + 1
<1> DEFINE used == {Cur(i.target).seq : i \in Intents("event")}
                     \cup {IF rec.log = <<>> THEN 0 ELSE Cur(rec).seq}
<1>0. rec \in Saved /\ rec.log \in Seq(Event) BY DEF History, Ordered, Saved
<1>1. minted \in Nat /\ MaxEvents \in Nat BY OutboxConstants DEF History
<1>2. \A i \in intents : Cur(i.target).seq \in Nat /\ Cur(i.target).seq <= minted
  <2>1. ASSUME NEW i \in intents PROVE Cur(i.target).seq \in Nat /\ Cur(i.target).seq <= minted
    <3>1. Ordered(i.target, minted) /\ Grows(i.prior, i.target) /\ Ordered(i.prior, minted)
      BY DEF History, Intends
    <3>2. i.target.log # <<>>
      <4>1. Len(i.prior.log) \in Nat BY <3>1 DEF Ordered, Saved
      <4> QED BY <3>1, <4>1 DEF Grows
    <3> QED BY <1>1, <3>1, <3>2, LastOf
  <2> QED BY <2>1
<1>3. rec.log # <<>> => Cur(rec).seq \in Nat /\ Cur(rec).seq <= minted BY <1>1, LastOf DEF History
<1>4. used \subseteq Nat /\ used # {} /\ \A n \in used : n <= minted BY <1>1, <1>2, <1>3 DEF Intents
<1>5. Max(used) \in used /\ \A n \in used : n <= Max(used) BY <1>1, <1>4, HasMax
<1> DEFINE new == [seq |-> 1 + Max(used), st |-> Desired(s).st, facts |-> Desired(s).facts, id |-> minted + 1]
           open == {i \in Intents("event") : i.prior = rec}
<1>6. Staged(s) = [st |-> new.st, log |-> Append(rec.log, new), facts |-> new.facts,
                   res |-> rec.res \cup {Cur(i.target) : i \in open}]
  BY DEF Staged
<1> DEFINE top == Max(used)
<1>7. top \in Nat /\ top <= minted /\ (rec.log # <<>> => Cur(rec).seq <= top)
  <2>1. (IF rec.log = <<>> THEN 0 ELSE Cur(rec).seq) \in used OBVIOUS
  <2> QED BY <1>4, <1>5, <2>1
<1> HIDE DEF used
<1>8. Desired(s).st \in State /\ Desired(s).facts = rec.facts \cup s.cmd.fact
      /\ Desired(s).facts \subseteq Fact
  BY <1>0, CommandFacts DEF Desired, Saved, Usual
<1>9. new \in Event BY <1>1, <1>7, <1>8 DEF Event
<1> DEFINE t == Staged(s)
<1>10. t.log = Append(rec.log, new) /\ t.facts = new.facts /\ t.st = new.st
       /\ t.res = rec.res \cup {Cur(i.target) : i \in open}
  BY <1>6
<1>11. \A i \in open : Cur(i.target) \in Event
  <2>1. ASSUME NEW i \in open PROVE Cur(i.target) \in Event
    <3>1. Ordered(i.target, minted) /\ Grows(i.prior, i.target) /\ Ordered(i.prior, minted)
      BY DEF History, Intends, Intents
    <3>2. i.target.log # <<>>
      <4>1. Len(i.prior.log) \in Nat BY <3>1 DEF Ordered, Saved
      <4> QED BY <3>1, <4>1 DEF Grows
    <3> QED BY <1>1, <3>1, <3>2, LastOf
  <2> QED BY <2>1
<1>12. t \in Saved
  <2>1. Append(rec.log, new) \in Seq(Event) BY <1>0, <1>9
  <2>2. rec.res \cup {Cur(i.target) : i \in open} \subseteq Event BY <1>0, <1>11 DEF Saved
  <2>3. new.st \in State /\ new.facts \subseteq Fact BY <1>8
  <2> HIDE DEF new, open
  <2> QED BY <1>6, <2>1, <2>2, <2>3 DEF Saved
<1> DEFINE L == rec.log
<1>13. Len(t.log) = Len(L) + 1 /\ Len(L) \in Nat /\ (\A n \in 1 .. Len(L) : t.log[n] = L[n]) /\ t.log[Len(L) + 1] = new
  <2> HIDE DEF new, t
  <2> QED BY <1>0, <1>9, <1>10
<1>14. Cur(t) = new BY <1>13, LenProperties, <1>12 DEF Cur, Last, Saved
<1>15. /\ new.seq = 1 + top /\ new.seq <= minted + 1 /\ new.id = minted + 1
       /\ new.st = Desired(s).st /\ new.facts = Desired(s).facts
  BY <1>1, <1>7
<1>16. \A n \in 1 .. Len(L) : L[n].seq \in Nat /\ L[n].seq <= minted /\ L[n].seq <= top
  <2>1. ASSUME NEW n \in 1 .. Len(L) PROVE L[n].seq \in Nat /\ L[n].seq <= minted /\ L[n].seq <= top
    <3>1. L # <<>> BY <1>0
    <3>2. Cur(rec) = L[Len(L)] /\ Cur(rec).seq \in Nat /\ Cur(rec).seq <= top
      BY <1>1, <1>7, <3>1, LastOf DEF History
    <3>3. L[n] \in Event BY <1>0
    <3>4. L[n].seq \in Nat BY <3>3 DEF Event
    <3>5. L[n].seq <= minted BY DEF History, Ordered
    <3>6. n < Len(L) => L[n].seq < L[Len(L)].seq BY <1>13 DEF History, Ordered
    <3> HIDE DEF top, L
    <3> QED BY <3>2, <3>4, <3>5, <3>6, <1>7, <1>13
  <2> QED BY <2>1
<1> HIDE DEF new, top, t, L, open
<1>17. Ordered(t, minted + 1)
  <2>1. ValidChain(t) BY <1>10, <1>14 DEF ValidChain
  <2>2. t.log # <<>> BY <1>13
  <2>3. \A n \in 1 .. Len(t.log) : t.log[n].seq <= minted + 1 BY SMTT(30), <1>1, <1>13, <1>15, <1>16
  <2>4. \A k, n \in 1 .. Len(t.log) : k < n => t.log[k].seq < t.log[n].seq
    <3>1. ASSUME NEW k \in 1 .. Len(t.log), NEW n \in 1 .. Len(t.log), k < n PROVE t.log[k].seq < t.log[n].seq
      <4>1. k \in 1 .. Len(L) /\ t.log[k] = L[k] BY <1>13, <3>1
      <4>2. CASE n \in 1 .. Len(L) BY <4>1, <4>2, <1>13, <3>1 DEF History, Ordered, L
      <4>3. CASE n = Len(L) + 1 BY <4>1, <4>3, <1>13, <1>15, <1>16, <1>7
      <4> QED BY <1>13, <4>2, <4>3
    <3> QED BY <3>1
  <2> QED BY <1>12, <2>1, <2>2, <2>3, <2>4 DEF Ordered
<1>18. Grows(rec, t) BY <1>8, <1>10, <1>13, <1>15 DEF Grows, L
<1> QED BY <1>17, <1>18, <1>10, <1>14, <1>15, <1>8 DEF t

\* Nothing that an idle process relies on can change.
LEMMA IdleFits ==
    ASSUME NEW s, s.pc = "idle", s.cmd \in KnownCmds, NEW r, NEW I, NEW V, NEW k, NEW z
    PROVE  Fits(s, r, I, V, k, z) /\ ~Locked(s)
BY DEF Fits, Remembers, Publishing, Locked, Inside

LEMMA IdleKnown == Idle.pc = "idle" /\ Idle.cmd = Reconcile /\ Idle.cmd \in KnownCmds /\ Idle.mem = Missing /\ Shaped(Idle)
BY SeenCommands, IdleShaped DEF Idle

LEMMA GotoLocks ==
    ASSUME Processes, Locking, NEW p \in Proc, NEW s, Shaped(s), Goto(p, s) PROVE Locking'
<1>1. proc'[p] = s /\ \A q \in Proc \ {p} : proc'[q] = proc[q] BY Goes
<1>2. ASSUME NEW q \in Proc, Locked(proc'[q]) PROVE lock' = q
  <2>1. CASE q = p BY <1>1, <1>2, <2>1 DEF Goto
  <2>2. CASE q # p
    <3>1. Locked(proc[q]) BY <1>1, <1>2, <2>2
    <3>2. lock = q /\ q # NoProc BY <3>1, OutboxConstants DEF Locking
    <3> QED BY <2>2, <3>2 DEF Goto, MayLock
  <2> QED BY <2>1, <2>2
<1> QED BY <1>2 DEF Locking

\* A step of one command, its data right, leaves the others as idle as they were.
LEMMA Advances ==
    ASSUME OInv, Inv', OneAtATime, OneAtATime', NEW p \in Proc, NEW s, Shaped(s), Goto(p, s),
           proc[p].pc # "idle" \/ s.pc # "idle",
           Fits(s, rec', intents', vault', plan', slot'), Current(s, body', touched'), Data', born'
    PROVE  OInv'
<1>0. Processes BY DEF OInv, Inv
<1>1. Processes' /\ proc'[p] = s /\ \A q \in Proc \ {p} : proc'[q] = proc[q] BY <1>0, Goes
<1>2. Locking' BY <1>0, GotoLocks DEF OInv
<1>3. ASSUME NEW q \in Proc \ {p} PROVE Fits(proc'[q], rec', intents', vault', plan', slot')
  <2>1. proc[q].pc = "idle" BY <1>1 DEF OneAtATime, At
  <2>2. proc[q].cmd \in KnownCmds BY DEF OInv, Commanded, Fits
  <2> QED BY <1>1, <2>1, <2>2, IdleFits
<1>4. Commanded' BY <1>1, <1>3 DEF Commanded
<1>5. ASSUME NEW q \in Proc PROVE Current(proc'[q], body', touched')
  <2>1. CASE q = p BY <1>1, <2>1
  <2>2. CASE q # p
    <3>1. proc[q].pc = "idle" BY <1>1, <2>2 DEF OneAtATime, At
    <3> QED BY <1>1, <2>2, <3>1 DEF Current
  <2> QED BY <2>1, <2>2
<1>6. Fresh' BY <1>5 DEF Fresh, Current, Subject
<1> QED BY <1>2, <1>4, <1>6 DEF OInv, Unborn

\* A step that leaves every file of the transaction alone, but for an edit of the candidate.
Same ==
    /\ UNCHANGED <<rec, intents, ckpt, minted, vault, plan, slot, tree>>
    /\ touched' \/ UNCHANGED <<body, touched>>

LEMMA SameHistory ==
    ASSUME Data, Same, body' \in {0, 1}, ObligationCovered' PROVE Data'
<1>1. History' BY DEF Data, Same, History
<1>2. OneDecision' BY DEF Data, Same, OneDecision
<1>3. Archives' BY DEF Data, Same, Archives
<1> QED BY <1>1, <1>2, <1>3 DEF Data

LEMMA SameData ==
    ASSUME Data, Same, UNCHANGED <<doc, sql, marker>>, body' \in {0, 1} PROVE Data'
<1>1. ObligationCovered' BY DEF Data, Same, ObligationCovered, Projected
<1> QED BY <1>1, SameHistory

LEMMA Quits ==
    ASSUME OInv, Inv', OneAtATime, OneAtATime', NEW p \in Proc, Quit(p), proc[p].pc # "idle", Data', born'
    PROVE  OInv'
BY Advances, IdleFits, IdleKnown DEF Quit, Current

\* Where a command goes after a save, and after a failed one.
LEMMA Continues ==
    ASSUME OInv, Inv', OneAtATime, OneAtATime', NEW p \in Proc, Continue(p),
           proc[p].pc \in {"stage"} \cup Publishing, Data', born', Same
    PROVE  OInv'
<1> DEFINE s == proc[p]
           x == After(s.cmd)
           t == [s EXCEPT !.pc = x]
<1>0. Fits(s, rec, intents, vault, plan, slot) /\ Shaped(s) /\ s.cmd \in KnownCmds
  BY DEF OInv, Commanded, Inv, Processes, Fits
<1>1. s.pc \notin {"idle", "snapshot", "plan"} BY DEF Publishing
<1>2. CASE x = "idle" BY <1>1, <1>2, Quits DEF Continue, Leave
<1>3. CASE x # "idle"
  <2>1. Goto(p, t) BY <1>3 DEF Continue, Leave, Step
  <2>2. Shaped(t) /\ t.pc = x /\ t.cmd = s.cmd /\ t.mem = s.mem BY <1>0 DEF Shaped
  <2>3. \/ x = "unreview" \/ x = "release"
        \/ x = "slot" /\ s.cmd.name = "compact"
        \/ x = "mutate" /\ s.cmd.name = "apply"
    BY <1>3 DEF After
  <2>4. Fits(t, rec, intents, vault, plan, slot)
    BY <1>0, <1>1, <2>2, <2>3 DEF Fits, Remembers, Publishing
  <2>5. Fits(t, rec', intents', vault', plan', slot') BY <2>4 DEF Same
  <2> QED BY <1>1, <2>1, <2>2, <2>3, <2>5, Advances DEF Current
<1> QED BY <1>2, <1>3

LEMMA Abandons ==
    ASSUME OInv, Inv', OneAtATime, OneAtATime', NEW p \in Proc, Abandon(p),
           proc[p].pc \in {"stage", "marker", "commit", "observe"}, Data', born', Same
    PROVE  OInv'
<1> DEFINE s == proc[p]
           x == Escape(s.cmd)
           t == [s EXCEPT !.pc = x]
<1>0. Fits(s, rec, intents, vault, plan, slot) /\ Shaped(s) /\ s.cmd \in KnownCmds
  BY DEF OInv, Commanded, Inv, Processes, Fits
<1>2. CASE x = "idle" BY <1>2, Quits DEF Abandon, Leave
<1>3. CASE x # "idle"
  <2>1. Goto(p, t) BY <1>3 DEF Abandon, Leave, Step
  <2>2. Shaped(t) /\ t.pc = x /\ t.cmd = s.cmd /\ t.mem = s.mem BY <1>0 DEF Shaped
  <2>3. \/ x = "undo" /\ s.cmd.name = "checkout"
        \/ x = "mutate" /\ s.cmd.name = "postcheck"
    BY <1>3 DEF Escape
  <2>4. Fits(t, rec, intents, vault, plan, slot)
    BY <1>0, <2>2, <2>3 DEF Fits, Remembers, Publishing
  <2>5. Fits(t, rec', intents', vault', plan', slot') BY <2>4 DEF Same
  <2> QED BY <2>1, <2>2, <2>3, <2>5, Advances DEF Current
<1> QED BY <1>2, <1>3

LEMMA MovesOn ==
    ASSUME OInv, Inv', OneAtATime, OneAtATime', NEW p \in Proc, NEW s, Shaped(s), Goto(p, s),
           proc[p].pc # "idle" \/ s.pc # "idle", s.pc # "plan",
           Fits(s, rec, intents, vault, plan, slot), Same, UNCHANGED <<doc, sql, marker>>, body' = body, born'
    PROVE  OInv'
<1>1. Data' BY SameData DEF OInv, Data, Archives
<1> QED BY <1>1, Advances DEF Same, Current

LEMMA StepsOn ==
    ASSUME OInv, Inv', OneAtATime, OneAtATime', NEW p \in Proc, NEW x, Step(p, x), proc[p].pc # "idle", x # "plan",
           Fits([proc[p] EXCEPT !.pc = x], rec, intents, vault, plan, slot),
           Same, UNCHANGED <<doc, sql, marker>>, body' = body, born'
    PROVE  OInv'
<1>1. Shaped([proc[p] EXCEPT !.pc = x]) /\ [proc[p] EXCEPT !.pc = x].pc = x BY DEF OInv, Inv, Processes, Shaped
<1> QED BY <1>1, MovesOn DEF Step

LEMMA QuitsOn ==
    ASSUME OInv, Inv', OneAtATime, OneAtATime', NEW p \in Proc, Quit(p), proc[p].pc # "idle",
           Same, UNCHANGED <<doc, sql, marker>>, body' = body, born'
    PROVE  OInv'
BY MovesOn, IdleFits, IdleKnown DEF Quit

\* What a process brings to its next step.
LEMMA Brings ==
    ASSUME OInv, NEW p \in Proc
    PROVE  /\ Fits(proc[p], rec, intents, vault, plan, slot) /\ Shaped(proc[p]) /\ proc[p].cmd \in KnownCmds
           /\ proc[p].pc # "idle" => born
           /\ \A x : LET t == [proc[p] EXCEPT !.pc = x]
                     IN Shaped(t) /\ t.pc = x /\ t.cmd = proc[p].cmd /\ t.mem = proc[p].mem /\ t.tgt = proc[p].tgt
BY DEF OInv, Commanded, Inv, Processes, Shaped, Fits, Unborn, At

LEMMA MissingIs == Missing.st = "" /\ Missing.log = <<>> /\ Missing.facts = {}
BY DEF Missing

LEMMA OutcomeNames == \A c \in Commands \cup Outcomes : c \in KnownCmds /\ c.name \notin {"review", "compact"}
BY CommandsHarmless DEF Harmless, KnownCmds

LEMMA CommandStarts == \A c \in Commands : "" \notin c.from
<1>0. "" \notin PreApply \cup Terminal BY DEF PreApply, Terminal
<1>1. ASSUME NEW n, NEW from, NEW to, NEW fact, NEW own, NEW locked, NEW ends, "" \notin from
      PROVE  "" \notin Cmd(n, from, to, fact, own, locked, ends).from
  BY <1>1 DEF Cmd
<1>2. "" \notin Receipt.from BY <1>1 DEF Receipt
<1>3. "" \notin Note.from BY <1>0, <1>1 DEF Note
<1>4. "" \notin Retire.from BY <1>0, <1>1 DEF Retire
<1>5. "" \notin Cmd("prepare", PreApply, "PREPARED", {}, TRUE, FALSE, FALSE).from BY <1>0, <1>1
<1>6. "" \notin Cmd("apply", {"PREPARED"}, "APPLYING", {}, TRUE, FALSE, FALSE).from BY <1>1
<1>7. "" \notin Cmd("recover", {"RECOVERY_REQUIRED"}, "POSTCHECK_VERIFIED", {}, TRUE, FALSE, FALSE).from BY <1>1
<1>8. "" \notin Cmd("recover", {"RECOVERY_REQUIRED"}, "ROLLED_BACK", {}, TRUE, FALSE, TRUE).from BY <1>1
<1>9. "" \notin Cmd("abort", PreApply, "ABORTED", {}, TRUE, FALSE, TRUE).from BY <1>0, <1>1
<1>10. "" \notin Cmd("note", PreApply, "", {<<"note", 0>>}, TRUE, TRUE, FALSE).from BY <1>0, <1>1
<1> QED BY <1>2, <1>3, <1>4, <1>5, <1>6, <1>7, <1>8, <1>9, <1>10, Zenon DEF Commands

LEMMA CheckoutStep ==
    ASSUME OInv, Inv', OneAtATime, OneAtATime', NEW p \in Proc, UNCHANGED store,
           Checkout(p) \/ Acquire(p) \/ Bind(p) \/ Undo(p)
    PROVE  OInv'
<1> USE Brings DEF Same, store, Steady
<1>1. CASE Checkout(p)
  <2>1. rec = Missing BY <1>1 DEF Checkout, OInv, Unborn
  <2> DEFINE t == [Idle EXCEPT !.pc = "acquire", !.cmd = CheckoutCmd]
  <2>2. Shaped(t) /\ t.pc = "acquire" /\ t.cmd = CheckoutCmd /\ t.mem = Missing BY DEF Idle, Shaped
  <2>3. Goto(p, t) /\ Same /\ born' /\ UNCHANGED <<doc, sql, marker, body>> BY <1>1 DEF Checkout
  <2> HIDE DEF t
  <2>4. Fits(t, rec, intents, vault, plan, slot) BY <2>1, <2>2, SeenCommands DEF Fits, Publishing
  <2> QED BY <2>2, <2>3, <2>4, MovesOn
<1>2. CASE Acquire(p)
  <2>1. proc[p].pc = "acquire" /\ Same /\ born' /\ UNCHANGED <<doc, sql, marker, body>> BY <1>2 DEF Acquire, At
  <2>2. ASSUME NEW x \in {"bind", "stage"}, Step(p, x) PROVE OInv'
    <3>1. Fits([proc[p] EXCEPT !.pc = x], rec, intents, vault, plan, slot)
      BY <2>1, <2>2 DEF Fits, Publishing, Remembers
    <3> QED BY <2>1, <2>2, <3>1, StepsOn
  <2>3. Quit(p) \/ Step(p, "bind") \/ Step(p, "stage") BY <1>2 DEF Acquire
  <2> QED BY <2>1, <2>2, <2>3, QuitsOn
<1>3. CASE Bind(p)
  <2>1. proc[p].pc = "bind" /\ Same /\ born' /\ UNCHANGED <<doc, sql, marker, body>> BY <1>3 DEF Bind, At
  <2>2. Fits([proc[p] EXCEPT !.pc = "stage"], rec, intents, vault, plan, slot)
    BY <2>1 DEF Fits, Publishing, Remembers
  <2>3. Quit(p) \/ Step(p, "stage") BY <1>3 DEF Bind
  <2> QED BY <2>1, <2>2, <2>3, QuitsOn, StepsOn
<1>4. CASE Undo(p)
  <2>1. proc[p].pc = "undo" /\ Same /\ born' /\ UNCHANGED <<doc, sql, marker, body>> /\ Quit(p) BY <1>4 DEF Undo, At
  <2> QED BY <2>1, QuitsOn
<1> QED BY <1>1, <1>2, <1>3, <1>4

LEMMA LoadStep ==
    ASSUME OInv, Inv', OneAtATime, OneAtATime', NEW p \in Proc, UNCHANGED store,
           (\E c \in Commands : Load(p, c)) \/ (\E c \in Outcomes : Conclude(p, c))
    PROVE  OInv'
<1>1. ASSUME NEW c \in Commands, Load(p, c) PROVE OInv'
  <2> DEFINE t == [Idle EXCEPT !.pc = "stage", !.cmd = c, !.mem = rec]
  <2>1. Shaped(t) /\ t.pc = "stage" /\ t.cmd = c /\ t.mem = rec BY DEF Idle, Shaped
  <2>2. Goto(p, t) /\ rec.st \in c.from /\ Same /\ born' = born /\ UNCHANGED <<doc, sql, marker, body>>
    BY <1>1 DEF Load, Same, store, Steady
  <2> HIDE DEF t
  <2>3. born' BY <2>2, CommandStarts, MissingIs DEF OInv, Unborn
  <2>4. Fits(t, rec, intents, vault, plan, slot) BY <2>1, OutcomeNames DEF Fits, Publishing, Remembers
  <2> QED BY <2>1, <2>2, <2>3, <2>4, MovesOn
<1>2. ASSUME NEW c \in Outcomes, Conclude(p, c) PROVE OInv'
  <2> DEFINE t == [proc[p] EXCEPT !.pc = "stage", !.cmd = c]
  <2>1. proc[p].pc = "mutate" /\ Goto(p, t) /\ Same /\ born' = born /\ UNCHANGED <<doc, sql, marker, body>>
    BY <1>2 DEF Conclude, Same, store, Steady, At
  <2>2. Shaped(t) /\ t.pc = "stage" /\ t.cmd = c /\ t.mem = proc[p].mem BY Brings DEF Shaped
  <2> HIDE DEF t
  <2>3. proc[p].mem = rec /\ born' BY <2>1, Brings DEF Fits, Remembers
  <2>4. Fits(t, rec, intents, vault, plan, slot) BY <2>2, <2>3, OutcomeNames DEF Fits, Publishing, Remembers
  <2> QED BY <2>1, <2>2, <2>3, <2>4, MovesOn
<1> QED BY <1>1, <1>2

LEMMA OrderedLater ==
    ASSUME NEW m \in Nat, NEW n \in Nat, m <= n, NEW r, Ordered(r, m) PROVE Ordered(r, n)
<1>1. \A k \in 1 .. Len(r.log) : r.log[k] \in Event BY DEF Ordered, Saved
<1>2. \A k \in 1 .. Len(r.log) : r.log[k].seq \in Nat BY <1>1 DEF Event
<1>3. \A k \in 1 .. Len(r.log) : r.log[k].seq <= n BY <1>2 DEF Ordered
<1> QED BY <1>3 DEF Ordered

LEMMA IntentFacts ==
    ASSUME History, NEW i \in intents
    PROVE  /\ Intends(i, minted) /\ Ordered(i.target, minted) /\ Grows(i.prior, i.target)
           /\ i.target.log # <<>> /\ Cur(i.target) # NoEvent
           /\ Cur(i.target).seq \in Nat /\ Cur(i.target).seq <= minted
<1>1. minted \in Nat /\ Intends(i, minted) BY DEF History
<1>2. Ordered(i.prior, minted) /\ Ordered(i.target, minted) /\ Grows(i.prior, i.target) BY <1>1 DEF Intends
<1>3. i.target.log # <<>>
  <2>1. Len(i.prior.log) \in Nat BY <1>2 DEF Ordered, Saved
  <2> QED BY <1>2, <2>1 DEF Grows
<1> QED BY <1>1, <1>2, <1>3, LastOf

\* The target of an intent that starts at the saved state, or reached it, takes its place.
LEMMA Replaces ==
    ASSUME Data, NEW i \in intents, rec \in {i.prior, i.target}, rec' = i.target,
           UNCHANGED <<intents, marker, ckpt, minted, store>>
    PROVE  Data' /\ rec'.log # <<>> /\ (rec' = rec \/ Grows(rec, rec'))
<1>0. History /\ OneDecision /\ Archives BY DEF Data
<1>1. /\ Intends(i, minted) /\ Ordered(i.target, minted) /\ Grows(i.prior, i.target) /\ i.target.log # <<>>
  BY <1>0, IntentFacts
<1>2. rec' = rec \/ Grows(rec, rec') BY <1>1
<1>3. InLog(ckpt, rec) => InLog(ckpt, rec')
  <2>1. rec.log \in Seq(Event) BY <1>0 DEF History, Ordered, Saved
  <2>2. Len(rec.log) \in Nat BY <2>1
  <2> QED BY <1>2, <2>2 DEF InLog, Grows
<1>4. History' BY <1>0, <1>1, <1>3 DEF History
<1>5. ObligationCovered' BY DEF ObligationCovered
<1>6. ReviewOf(rec) \subseteq ReviewOf(rec') BY <1>2 DEF Grows, ReviewOf
<1>7. OneDecision'
  <2>1. CASE i.kind = "review" BY <1>0, <2>1 DEF OneDecision, Undecided, Decides, store
  <2>2. CASE i.kind # "review"
    <3>1. ReviewOf(rec') = ReviewOf(rec) BY <1>1, <2>2 DEF Intends
    <3> QED BY <1>0, <3>1 DEF OneDecision, Undecided, Decides, store
  <2> QED BY <2>1, <2>2
<1>8. Archives' BY <1>0, <1>2, <1>6 DEF Archives, Grows, store
<1> QED BY <1>1, <1>2, <1>4, <1>5, <1>7, <1>8 DEF Data

LEMMA StageStep ==
    ASSUME OInv, Inv', OneAtATime, OneAtATime', NEW p \in Proc, UNCHANGED store, Stage(p)
    PROVE  OInv'
<1> DEFINE s == proc[p]
           t == [s EXCEPT !.pc = "marker", !.tgt = Staged(s)]
           k == IF s.cmd.name = "review" THEN "review" ELSE "event"
           i == [kind |-> k, prior |-> rec, target |-> Staged(s), lease |-> lease, seal |-> seal]
<1>1. /\ s.pc = "stage" /\ minted < MaxEvents /\ minted' = minted + 1 /\ intents' = intents \cup {i} /\ Goto(p, t)
      /\ UNCHANGED <<rec, marker, doc, sql, ckpt, born>>
  BY DEF Stage, At, IntentOf
<1>2. /\ Fits(s, rec, intents, vault, plan, slot) /\ born /\ s.cmd \in KnownCmds
      /\ Shaped(t) /\ t.pc = "marker" /\ t.cmd = s.cmd /\ t.mem = s.mem /\ t.tgt = Staged(s)
  BY <1>1, Brings DEF Shaped
<1>3. s.mem = rec BY <1>1, <1>2 DEF Fits, Remembers
<1>4. Data /\ History BY DEF OInv, Data
<1>5. /\ Ordered(Staged(s), minted + 1) /\ Grows(rec, Staged(s))
      /\ Staged(s).facts = rec.facts \cup s.cmd.fact
  BY <1>1, <1>2, <1>3, <1>4, StagedGrows
<1>6. minted \in Nat /\ minted' \in Nat /\ minted <= minted' BY <1>1, <1>4 DEF History
<1>7. i.kind = k /\ i.prior = rec /\ i.target = Staged(s) OBVIOUS
<1>8. s.cmd.name # "review" => ReviewOf(Staged(s)) = ReviewOf(rec)
  BY <1>2, <1>5, CommandFacts DEF Usual, ReviewOf
<1> HIDE DEF i, t, s
<1>9. History'
  <2>1. Ordered(rec, minted') BY <1>4, <1>6, OrderedLater DEF History
  <2>2. ASSUME NEW j \in intents PROVE Intends(j, minted')
    BY <1>4, <1>6, OrderedLater DEF History, Intends
  <2>3. Intends(i, minted') BY <1>1, <1>5, <1>7, <1>8, <2>1 DEF Intends
  <2> QED BY <1>1, <1>4, <1>6, <2>1, <2>2, <2>3 DEF History
<1>10. OneDecision'
  <2>1. CASE s.cmd.name = "review"
    <3>1. intents = {} /\ ReviewOf(rec) = {} BY <1>1, <1>2, <2>1 DEF Fits
    <3>2. PICK v \in {0, 1} : s.cmd = ReviewCmd(v) BY <1>2, <2>1, CommandFacts DEF Usual
    <3>3. s.cmd.fact = {<<"review", v>>} BY <3>2, SeenCommands
    <3>5. ReviewOf(Staged(s)) \subseteq {<<"review", v>>} BY <1>5, <3>1, <3>3 DEF ReviewOf
    <3>6. Decides(v, rec, intents') BY <1>1, <1>7, <3>1, <3>5 DEF Decides
    <3> QED BY <1>1, <3>6 DEF OneDecision, store
  <2>2. CASE s.cmd.name # "review"
    <3>1. i.kind # "review" BY <1>7, <2>2
    <3> QED BY <1>1, <1>4, <3>1 DEF Data, OneDecision, Undecided, Decides, store
  <2> QED BY <2>1, <2>2
<1>11. ObligationCovered' BY <1>1, <1>4 DEF Data, ObligationCovered, Projected
<1>12. Archives' BY <1>1, <1>4 DEF Data, Archives, store
<1>13. Data' BY <1>9, <1>10, <1>11, <1>12 DEF Data
<1>14. Fits(t, rec', intents', vault', plan', slot')
  <2>1. i \in intents' /\ (i.kind = "review" <=> t.cmd.name = "review") BY <1>1, <1>2, <1>7
  <2>2. Fits(t, rec, intents', vault, plan, slot)
    BY <1>1, <1>2, <1>3, <1>7, <2>1 DEF Fits, Publishing, Remembers
  <2> QED BY <1>1, <2>2 DEF store
<1> QED BY <1>1, <1>2, <1>13, <1>14, Advances DEF s, Current

LEMMA SaveSteps ==
    ASSUME OInv, Inv', OneAtATime, OneAtATime', NEW p \in Proc, UNCHANGED store, SaveStep(p)
    PROVE  OInv'
<1> DEFINE s == proc[p]
<1>0. Fits(s, rec, intents, vault, plan, slot) /\ Shaped(s) /\ s.cmd \in KnownCmds /\ Data /\ History
  BY Brings DEF OInv, Data
<1>1. CASE Stage(p) BY <1>1, StageStep
<1>2. CASE StagePlain(p)
  <2>1. /\ s.pc = "stage" /\ ~Material(s) /\ rec' = Desired(s) /\ Continue(p) /\ born' = born
        /\ UNCHANGED <<intents, marker, doc, sql, ckpt, minted, store>>
    BY <1>2 DEF StagePlain, Steady, At
  <2>2. s.mem = rec /\ born' BY <1>0, <2>1, Brings DEF Fits, Remembers
  <2>3. Desired(s).st = rec.st /\ Desired(s).facts = rec.facts BY <2>1 DEF Material
  <2>4. rec' = rec
    <3>1. rec \in Saved BY <1>0 DEF History, Ordered
    <3>2. rec' = [rec EXCEPT !.st = Desired(s).st, !.facts = Desired(s).facts] BY <2>1, <2>2, <3>1 DEF Desired, Saved
    <3> QED BY <2>3, <3>1, <3>2 DEF Saved
  <2>5. Same BY <2>1, <2>4 DEF Same, store
  <2>6. Data' BY <1>0, <2>1, <2>5, SameData DEF store, Data, Archives
  <2> QED BY <2>1, <2>2, <2>5, <2>6, Continues
<1>3. CASE StagePreflight(p)
  <2> DEFINE t == [Idle EXCEPT !.pc = "recover", !.cmd = Preflight]
  <2>1. s.pc = "stage" /\ Goto(p, t) /\ Same /\ born' = born /\ UNCHANGED <<doc, sql, marker, body>>
    BY <1>3 DEF StagePreflight, Steady, Same, store, At
  <2>2. Shaped(t) /\ t.pc = "recover" /\ t.cmd = Preflight BY DEF Idle, Shaped
  <2> HIDE DEF t
  <2>3. Fits(t, rec, intents, vault, plan, slot) BY <2>2, SeenCommands DEF Fits, Publishing, Remembers
  <2> QED BY <2>1, <2>2, <2>3, MovesOn, Brings
<1>4. CASE StageRefused(p)
  <2>1. s.pc = "stage" /\ Abandon(p) /\ Same /\ born' = born /\ UNCHANGED <<doc, sql, marker, body>>
    BY <1>4 DEF StageRefused, disk, Steady, Same, store, At
  <2>2. Data' BY <1>0, <2>1, SameData DEF Data, Archives
  <2> QED BY <2>1, <2>2, Abandons, Brings
<1>5. CASE WriteMarker(p)
  <2>1. /\ s.pc = "marker" /\ Step(p, "commit") /\ Same /\ born' = born /\ UNCHANGED <<doc, sql, body>>
        /\ marker' \in {Cur(s.tgt), marker}
    BY <1>5 DEF WriteMarker, Steady, Same, store, At
  <2>2. PICK i \in intents : /\ i.target = s.tgt /\ rec \in {i.prior, i.target}
                             /\ (i.kind = "review" <=> s.cmd.name = "review")
    BY <1>0, <2>1 DEF Fits
  <2>3. Cur(s.tgt) # NoEvent BY <1>0, <2>2, IntentFacts
  <2>4. ObligationCovered' BY <1>0, <2>1, <2>3 DEF Data, ObligationCovered, Projected, Same
  <2>5. Data' BY <1>0, <2>1, <2>4, SameHistory DEF Data, Archives
  <2> DEFINE t == [s EXCEPT !.pc = "commit"]
  <2>6. Shaped(t) /\ t.pc = "commit" /\ t.cmd = s.cmd /\ t.mem = s.mem /\ t.tgt = s.tgt BY <1>0 DEF Shaped
  <2>7. Goto(p, t) BY <2>1 DEF Step
  <2> HIDE DEF t
  <2>8. s.mem = rec /\ born BY <1>0, <2>1, Brings DEF Fits, Remembers
  <2>9. Fits(t, rec, intents, vault, plan, slot) BY <1>0, <2>1, <2>2, <2>6, <2>8 DEF Fits, Publishing, Remembers
  <2> QED BY <2>1, <2>5, <2>6, <2>7, <2>8, <2>9, Advances DEF Same, Current
<1>6. CASE Commit(p)
  <2> DEFINE t == [s EXCEPT !.pc = IF guarded /\ s.cmd.own THEN "observe" ELSE "doc", !.mem = s.tgt, !.seen = marker]
  <2>1. /\ s.pc = "commit" /\ rec' = s.tgt /\ Goto(p, t) /\ born' = born
        /\ UNCHANGED <<intents, marker, ckpt, minted, store>>
    BY <1>6 DEF Commit, Steady, At
  <2>2. Shaped(t) /\ t.pc \in {"observe", "doc"} /\ t.cmd = s.cmd /\ t.mem = rec' BY <1>0, <2>1 DEF Shaped
  <2> HIDE DEF t
  <2>3. PICK i \in intents : i.target = s.tgt /\ rec \in {i.prior, i.target} BY <1>0, <2>1 DEF Fits
  <2>4. Data' /\ rec'.log # <<>> BY <1>0, <2>1, <2>3, Replaces
  <2>5. Fits(t, rec', intents', vault', plan', slot')
    BY <1>0, <2>1, <2>2, <2>4 DEF Fits, Publishing, Remembers, store
  <2> QED BY <2>1, <2>2, <2>4, <2>5, Advances, Brings DEF Current
<1>7. CASE Observe(p)
  <2>1. s.pc = "observe" /\ Same /\ born' = born /\ UNCHANGED <<doc, sql, marker, body>>
    BY <1>7 DEF Observe, Steady, Same, store, At
  <2>2. Data' BY <1>0, <2>1, SameData DEF Data, Archives
  <2>3. CASE Abandon(p) BY <2>1, <2>2, <2>3, Abandons, Brings
  <2>4. CASE Step(p, "doc")
    <3>1. Fits([s EXCEPT !.pc = "doc"], rec, intents, vault, plan, slot)
      BY <1>0, <2>1, Brings DEF Fits, Publishing, Remembers
    <3> QED BY <2>1, <2>4, <3>1, StepsOn, Brings
  <2> QED BY <1>7, <2>3, <2>4 DEF Observe
<1> QED BY <1>1, <1>2, <1>3, <1>4, <1>5, <1>6, <1>7 DEF SaveStep

\* Fewer intents, once the last event is published.
LEMMA FewerIntents ==
    ASSUME Data, Projected, intents' \subseteq intents,
           UNCHANGED <<rec, ckpt, doc, sql, minted, store>>
    PROVE  Data'
<1>1. History' BY DEF Data, History
<1>2. ObligationCovered' BY DEF ObligationCovered, Projected
<1>3. OneDecision' BY DEF Data, OneDecision, Undecided, Decides, store
<1>4. Archives' BY DEF Data, Archives, store
<1> QED BY <1>1, <1>2, <1>3, <1>4 DEF Data

LEMMA PublishSteps ==
    ASSUME OInv, Inv', OneAtATime, OneAtATime', NEW p \in Proc, UNCHANGED store, PublishStep(p)
    PROVE  OInv'
<1> DEFINE s == proc[p]
<1>0. /\ Fits(s, rec, intents, vault, plan, slot) /\ Shaped(s) /\ s.cmd \in KnownCmds /\ Data /\ History
      /\ ObligationCovered /\ OneDecision /\ Archives
  BY Brings DEF OInv, Data
\* A step at one of the places of publication, to another or to the acknowledgement.
<1>1. ASSUME NEW x \in Publishing, s.pc \in Publishing, Step(p, x), Data', born' = born,
             UNCHANGED <<rec, store>>
      PROVE  OInv'
  <2> DEFINE t == [s EXCEPT !.pc = x]
  <2>1. Shaped(t) /\ t.pc = x /\ t.cmd = s.cmd /\ t.mem = s.mem BY Brings
  <2>2. Goto(p, t) BY <1>1 DEF Step
  <2> HIDE DEF t
  <2>3. s.pc # "idle" /\ born' BY <1>1, Brings DEF Publishing
  <2>4. Fits(t, rec', intents', vault', plan', slot')
    BY <1>0, <1>1, <2>1 DEF Fits, Publishing, Remembers, store
  <2> QED BY <1>1, <2>1, <2>2, <2>3, <2>4, Advances DEF Current, Publishing
<1>2. CASE WriteDocument(p)
  <2>1. /\ s.pc = "doc" /\ Same /\ born' = born /\ UNCHANGED <<sql, marker, body>> /\ doc' = Cur(rec)
        /\ (Step(p, "ack") \/ Step(p, "sql"))
    BY <1>2 DEF WriteDocument, Steady, Same, store, At
  <2>2. ObligationCovered' BY <1>0, <2>1 DEF ObligationCovered, Projected, Same
  <2>3. Data' BY <1>0, <2>1, <2>2, SameHistory DEF Archives
  <2> QED BY <1>1, <2>1, <2>3 DEF Publishing, Same
<1>3. CASE RunHeartbeat(p)
  <2>1. /\ s.pc = "sql" /\ Same /\ born' = born /\ UNCHANGED <<doc, marker, body>> /\ sql' = doc /\ Step(p, "ckpt")
    BY <1>3 DEF RunHeartbeat, Steady, Same, store, At
  <2>2. ObligationCovered' BY <1>0, <2>1 DEF ObligationCovered, Projected, Same
  <2>3. Data' BY <1>0, <2>1, <2>2, SameHistory DEF Archives
  <2> QED BY <1>1, <2>1, <2>3 DEF Publishing, Same
<1>4. CASE WriteCheckpoint(p)
  <2>1. /\ s.pc = "ckpt" /\ born' = born /\ UNCHANGED <<rec, intents, minted, doc, sql, marker, store>>
        /\ ckpt' = Cur(rec) /\ Step(p, "ack")
    BY <1>4 DEF WriteCheckpoint, Steady, At
  <2>2. ObligationCovered' BY <1>0, <2>1 DEF ObligationCovered, Projected
  <2>3. rec.log # <<>> BY <1>0, <2>1 DEF Fits, Publishing
  <2>4. InLog(ckpt', rec)
    <3>1. Cur(rec) = rec.log[Len(rec.log)] /\ Len(rec.log) \in Nat \ {0} BY <1>0, <2>3, LastOf DEF History
    <3> QED BY <2>1, <3>1 DEF InLog
  <2>5. History' BY <1>0, <2>1, <2>4 DEF History
  <2>6. OneDecision' BY <1>0, <2>1 DEF OneDecision, store
  <2>7. Archives' BY <1>0, <2>1 DEF Archives, store
  <2>8. Data' BY <2>2, <2>5, <2>6, <2>7 DEF Data
  <2> QED BY <1>1, <2>1, <2>8 DEF Publishing
<1>5. CASE AckMarker(p)
  <2>1. /\ s.pc = "ack" /\ Same /\ born' = born /\ UNCHANGED <<doc, sql, body>> /\ Projected /\ Step(p, "intents")
    BY <1>5 DEF AckMarker, Steady, Same, store, At
  <2>2. ObligationCovered' BY <2>1 DEF ObligationCovered, Projected, Same
  <2>3. Data' BY <1>0, <2>1, <2>2, SameHistory DEF Archives
  <2> QED BY <1>1, <2>1, <2>3 DEF Publishing, Same
<1>6. CASE AckIntent(p)
  <2>1. /\ s.pc = "intents" /\ born' = born /\ UNCHANGED <<rec, ckpt, doc, sql, minted, store>>
        /\ Projected /\ intents' \subseteq intents /\ Step(p, "intents")
    BY <1>6 DEF AckIntent, Steady, At
  <2>2. Data' BY <1>0, <2>1, FewerIntents
  <2> QED BY <1>1, <2>1, <2>2 DEF Publishing
<1>7. CASE AcksDone(p)
  <2>1. /\ s.pc = "intents" /\ Same /\ born' = born /\ UNCHANGED <<doc, sql, marker, body>> /\ Continue(p)
    BY <1>7 DEF AcksDone, disk, Steady, Same, store, At
  <2>2. Data' BY <1>0, <2>1, SameData DEF Archives
  <2> QED BY <2>1, <2>2, Continues, Brings DEF Publishing
<1>8. CASE PublicationFails(p)
  <2>1. /\ s.pc \in Publishing /\ Same /\ born' = born /\ UNCHANGED <<doc, sql, body>>
        /\ (marker = NoEvent \/ marker' = marker)
        /\ (Continue(p) \/ Quit(p))
    BY <1>8 DEF PublicationFails, Same, store
  <2>2. ObligationCovered' BY <1>0, <2>1 DEF ObligationCovered, Projected, Same
  <2>3. Data' BY <1>0, <2>1, <2>2, SameHistory DEF Archives
  <2>4. s.pc # "idle" /\ born' BY <2>1, Brings DEF Publishing
  <2> QED BY <2>1, <2>3, <2>4, Continues, Quits
<1> QED BY <1>2, <1>3, <1>4, <1>5, <1>6, <1>7, <1>8 DEF PublishStep

LEMMA ReleaseStep ==
    ASSUME OInv, Inv', OneAtATime, OneAtATime', NEW p \in Proc, UNCHANGED store, Release(p) \/ ReleaseGuard(p)
    PROVE  OInv'
<1>1. /\ proc[p].pc \in {"release", "unguard"} /\ Same /\ born' = born /\ UNCHANGED <<doc, sql, marker, body>>
      /\ (Quit(p) \/ Step(p, "unguard"))
  BY DEF Release, ReleaseGuard, Steady, Same, store, At
<1>2. Fits([proc[p] EXCEPT !.pc = "unguard"], rec, intents, vault, plan, slot)
  BY <1>1, Brings DEF Fits, Publishing, Remembers
<1> QED BY <1>1, <1>2, QuitsOn, StepsOn, Brings

LEMMA NewestExists ==
    ASSUME History, NEW S, S \subseteq intents, S # {} PROVE Newest(S) \in S
<1> DEFINE T == {Cur(i.target).seq : i \in S}
<1>1. T \subseteq Nat /\ T # {} /\ \A n \in T : n <= minted BY IntentFacts
<1>2. minted \in Nat BY DEF History
<1>3. Max(T) \in T /\ \A n \in T : n <= Max(T) BY <1>1, <1>2, HasMax
<1>4. \E i \in S : \A j \in S : Cur(j.target).seq <= Cur(i.target).seq BY <1>3
<1> QED BY <1>4 DEF Newest

LEMMA RecoverySteps ==
    ASSUME OInv, Inv', OneAtATime, OneAtATime', NEW p \in Proc, UNCHANGED store,
           \/ \E c \in {Reconcile, Receipt} : ReconcileStart(p, c)
           \/ RecoverReplay(p) \/ RecoverDone(p) \/ RecoverRefused(p)
    PROVE  OInv'
<1> DEFINE s == proc[p]
<1>0. /\ Fits(s, rec, intents, vault, plan, slot) /\ Shaped(s) /\ s.cmd \in KnownCmds /\ Data /\ History
  BY Brings DEF OInv, Data
<1>1. ASSUME NEW c \in {Reconcile, Receipt}, ReconcileStart(p, c) PROVE OInv'
  <2> DEFINE t == [Idle EXCEPT !.pc = "recover", !.cmd = c, !.seen = marker]
  <2>1. Goto(p, t) /\ Same /\ born' = born /\ UNCHANGED <<doc, sql, marker, body>>
    BY <1>1 DEF ReconcileStart, disk, Steady, Same, store
  <2>2. Shaped(t) /\ t.pc = "recover" /\ t.cmd = c BY DEF Idle, Shaped
  <2> HIDE DEF t
  <2>3. born'
    <3>1. born \/ Receipt.fact \subseteq rec.facts BY <1>1 DEF ReconcileStart
    <3>2. Receipt.fact # {} BY DEF Receipt, Cmd
    <3> QED BY <2>1, <3>1, <3>2, MissingIs DEF OInv, Unborn
  <2>4. c \in KnownCmds /\ c.name \in {"reconcile", "receipt"} BY SeenCommands
  <2>5. Fits(t, rec, intents, vault, plan, slot) BY <2>2, <2>4 DEF Fits, Publishing, Remembers
  <2> QED BY <2>1, <2>2, <2>3, <2>5, MovesOn
<1>2. CASE RecoverReplay(p)
  <2> DEFINE i == Newest(Replayable)
             t == [s EXCEPT !.pc = "stage", !.cmd = Retire, !.mem = i.target]
             u == [s EXCEPT !.pc = "recover"]
  <2>1. /\ s.pc = "recover" /\ Replayable # {} /\ rec' = i.target /\ born' = born
        /\ (Goto(p, t) \/ Goto(p, u))
        /\ UNCHANGED <<intents, marker, ckpt, minted, store>>
    BY <1>2 DEF RecoverReplay, Step, Steady, At
  <2>2. Replayable \subseteq intents BY DEF Replayable, Intents
  <2>3. i \in Replayable BY <1>0, <2>1, <2>2, NewestExists
  <2>4. rec \in {i.prior, i.target} BY <2>3 DEF Replayable, LostCheckout
  <2>5. Shaped(t) /\ t.pc = "stage" /\ t.cmd = Retire /\ t.mem = i.target BY <1>0 DEF Shaped
  <2>6. Shaped(u) /\ u.pc = "recover" /\ u.cmd = s.cmd BY <1>0 DEF Shaped
  <2> HIDE DEF t, u, i
  <2>7. Data' /\ rec'.log # <<>> BY <1>0, <2>1, <2>2, <2>3, <2>4, Replaces
  <2>8. Fits(t, rec', intents', vault', plan', slot')
    BY <2>1, <2>5, SeenCommands DEF Fits, Publishing, Remembers
  <2>9. Fits(u, rec', intents', vault', plan', slot')
    BY <1>0, <2>1, <2>6 DEF Fits, Publishing, Remembers, store
  <2> QED BY <2>1, <2>5, <2>6, <2>7, <2>8, <2>9, Advances, Brings DEF Current
<1>3. CASE RecoverDone(p)
  <2>1. /\ s.pc = "recover" /\ rec # Missing /\ Step(p, "doc") /\ Same /\ born' = born
        /\ UNCHANGED <<doc, sql, marker, body>>
    BY <1>3 DEF RecoverDone, Steady, Same, store, At
  <2>2. rec.log # <<>> BY <1>0, <2>1 DEF History, Ordered
  <2>3. Fits([s EXCEPT !.pc = "doc"], rec, intents, vault, plan, slot)
    BY <1>0, <2>1, <2>2, Brings DEF Fits, Publishing, Remembers
  <2> QED BY <2>1, <2>3, StepsOn, Brings
<1>4. CASE RecoverRefused(p)
  <2>1. s.pc = "recover" /\ Quit(p) /\ Same /\ born' = born /\ UNCHANGED <<doc, sql, marker, body>>
    BY <1>4 DEF RecoverRefused, disk, Steady, Same, store, At
  <2> QED BY <2>1, QuitsOn, Brings
<1> QED BY <1>1, <1>2, <1>3, <1>4

\* Steps of no command.
LEMMA Rests ==
    ASSUME OInv, Inv', UNCHANGED <<proc, lock, born>>, Data',
           UNCHANGED <<rec, intents, vault, plan, slot>>, touched' \/ UNCHANGED <<body, touched>>
    PROVE  OInv'
<1>1. Unborn' /\ Locking' BY DEF OInv, Unborn, Locking, At
<1>2. Commanded' BY DEF OInv, Commanded
<1>3. ASSUME NEW q \in Proc PROVE Current(proc'[q], body', touched') BY DEF OInv, Fresh, Current
<1>4. Fresh' BY <1>3 DEF Fresh, Current, Subject
<1> QED BY <1>1, <1>2, <1>4 DEF OInv

LEMMA RestsSame ==
    ASSUME OInv, Inv', UNCHANGED <<proc, lock, born, doc, sql, marker>>, Same, body' \in {0, 1}
    PROVE  OInv'
<1>1. Data' BY SameData DEF OInv
<1> QED BY <1>1, Rests DEF Same

LEMMA OutboxKeeps ==
    ASSUME OInv, Inv', OneAtATime, OneAtATime', UNCHANGED store, OutboxNext PROVE OInv'
<1>0. Data /\ Archives BY DEF OInv, Data
<1>1. ASSUME NEW p \in Proc, CommandStep(p) PROVE OInv'
  <2>1. CASE GuardReconcile(p)
    BY <1>0, <2>1, RestsSame DEF GuardReconcile, Steady, Same, store, Archives
  <2> QED BY <1>1, <2>1, CheckoutStep, LoadStep, SaveSteps, PublishSteps, ReleaseStep, RecoverySteps DEF CommandStep
<1>2. ASSUME NEW p \in Proc, Crash(p) PROVE OInv'
  BY <1>2, QuitsOn, Brings DEF Crash, disk, Same, store
<1>3. ASSUME NEW p \in Proc, WriteFails(p) PROVE OInv'
  <2>1. /\ proc[p].pc \in {"marker", "commit", "observe"} /\ Abandon(p) /\ Same
        /\ UNCHANGED <<born, doc, sql, marker, body>>
    BY <1>3 DEF WriteFails, disk, Same, store
  <2>2. Data' BY <1>0, <2>1, SameData DEF Archives
  <2> QED BY <2>1, <2>2, Abandons, Brings
<1>4. CASE OtherCheckout \/ OtherEnds \/ Reseal
  BY <1>0, <1>4, RestsSame DEF OtherCheckout, OtherEnds, Reseal, Steady, Same, store, Archives
<1>5. CASE ForeignHeartbeat
  <2>1. Same /\ UNCHANGED <<proc, lock, born, doc, marker, body>> /\ sql # doc /\ sql' = doc
    BY <1>5 DEF ForeignHeartbeat, Steady, Same, store
  <2>2. ObligationCovered' BY <1>0, <2>1 DEF Data, ObligationCovered, Projected, Same
  <2>3. Data' BY <1>0, <2>1, <2>2, SameHistory DEF Archives
  <2> QED BY <2>1, <2>3, Rests DEF Same
<1> QED BY <1>1, <1>2, <1>3, <1>4, <1>5 DEF OutboxNext, Environment

LEMMA ReviewSubject ==
    ASSUME NEW v \in {0, 1} PROVE Subject(ReviewCmd(v)) = v
<1>1. \A w \in {0, 1} : \A k : <<k, w>> \in ReviewCmd(v).fact <=> k = "review" /\ w = v
  BY DEF ReviewCmd, Cmd
<1> QED BY <1>1 DEF Subject

\* The vault only grows.
LEMMA MoreArchives ==
    ASSUME Data, vault' = vault \cup {body}, UNCHANGED <<disk, minted, tree, body, plan, slot>>,
           plan = NoPlan \/ touched' = touched
    PROVE  Data'
<1> USE DEF disk
<1>1. History' BY DEF Data, History
<1>2. ObligationCovered' BY DEF Data, ObligationCovered, Projected
<1>3. OneDecision' BY DEF Data, OneDecision
<1>4. Archives' BY DEF Data, Archives, ReviewOf
<1> QED BY <1>1, <1>2, <1>3, <1>4 DEF Data

\* The plan, the slot and the directories.
LEMMA OtherStores ==
    ASSUME Data, UNCHANGED <<disk, minted, body, vault>>, Archives' PROVE Data'
<1> USE DEF disk
<1>1. History' BY DEF Data, History
<1>2. ObligationCovered' BY DEF Data, ObligationCovered, Projected
<1>3. OneDecision' BY DEF Data, OneDecision
<1> QED BY <1>1, <1>2, <1>3 DEF Data

LEMMA QuietIsBorn == ASSUME OInv, Quiet PROVE born /\ rec.log # <<>>
<1>1. "" \notin Terminal BY DEF Terminal
<1>2. rec # Missing BY <1>1, MissingIs DEF Quiet
<1> QED BY <1>2 DEF OInv, Unborn, Data, History, Ordered

LEMMA ReviewSteps ==
    ASSUME OInv, Inv', OneAtATime, OneAtATime', NEW p \in Proc,
           Submit(p) \/ Archive(p) \/ Recheck(p) \/ StaleReview(p) \/ ResumeReview(p) \/ EndReview(p)
    PROVE  OInv'
<1> DEFINE s == proc[p]
<1>0. /\ Fits(s, rec, intents, vault, plan, slot) /\ Shaped(s) /\ s.cmd \in KnownCmds /\ Data /\ History
      /\ body \in {0, 1} /\ vault \subseteq {0, 1}
  BY Brings DEF OInv, Data, Archives
<1>1. CASE Submit(p)
  <2> DEFINE t == [Idle EXCEPT !.pc = "archive", !.cmd = ReviewCmd(body), !.mem = rec]
  <2>1. /\ Goto(p, t) /\ Same /\ born' = born /\ UNCHANGED <<doc, sql, marker, body>>
        /\ Quiet /\ intents = {} /\ ReviewOf(rec) = {}
    BY <1>1 DEF Submit, disk, Steady, Same, store
  <2>2. Shaped(t) /\ t.pc = "archive" /\ t.cmd = ReviewCmd(body) /\ t.mem = rec BY DEF Idle, Shaped
  <2> HIDE DEF t
  <2>3. Fits(t, rec, intents, vault, plan, slot)
    BY <1>0, <2>1, <2>2, SeenCommands DEF Fits, Publishing, Remembers
  <2> QED BY <2>1, <2>2, <2>3, QuietIsBorn, MovesOn
<1>2. CASE Archive(p)
  <2>1. /\ s.pc = "archive" /\ vault' = vault \cup {body} /\ Step(p, "recheck")
        /\ UNCHANGED <<disk, minted, tree, body, plan, slot, touched>>
    BY <1>2 DEF Archive, Steady, At
  <2>2. Data' BY <1>0, <2>1, MoreArchives
  <2>3. born' BY <2>1, Brings DEF Archive, Steady, disk
  <2> DEFINE t == [s EXCEPT !.pc = "recheck"]
  <2>4. Shaped(t) /\ t.pc = "recheck" /\ t.cmd = s.cmd /\ t.mem = s.mem BY Brings
  <2>5. Goto(p, t) BY <2>1 DEF Step
  <2> HIDE DEF t
  <2>6. Fits(t, rec, intents, vault', plan, slot) BY <1>0, <2>1, <2>4 DEF Fits, Publishing, Remembers
  <2> QED BY <2>1, <2>2, <2>3, <2>4, <2>5, <2>6, Advances DEF disk, Current
<1>6. CASE Recheck(p)
  <2>1. /\ s.pc = "recheck" /\ (Quit(p) \/ Step(p, "stage")) /\ Same /\ born' = born
        /\ UNCHANGED <<doc, sql, marker, body>>
    BY <1>6 DEF Recheck, disk, Steady, Same, store, At
  <2>2. Fits([s EXCEPT !.pc = "stage"], rec, intents, vault, plan, slot)
    BY <1>0, <2>1, Brings DEF Fits, Publishing, Remembers
  <2> QED BY <2>1, <2>2, QuitsOn, StepsOn, Brings
<1>3. CASE StaleReview(p)
  <2>1. s.pc = "commit" /\ Quit(p) /\ Same /\ born' = born /\ UNCHANGED <<doc, sql, marker, body>>
    BY <1>3 DEF StaleReview, disk, Steady, Same, store, At
  <2> QED BY <2>1, QuitsOn, Brings
<1>4. CASE ResumeReview(p)
  <2>1. PICK i \in Intents("review"), v \in {0, 1} :
           /\ v = body /\ rec \in {i.prior, i.target}
           /\ IF rec = i.target /\ Acked
                THEN intents' = intents \ {i} /\ UNCHANGED <<marker, lock, proc>>
                ELSE /\ marker' = Cur(i.target) /\ UNCHANGED intents
                     /\ Goto(p, [Idle EXCEPT !.pc = "commit", !.cmd = ReviewCmd(v), !.tgt = i.target])
    BY <1>4 DEF ResumeReview
  <2>2. /\ At(p, "idle") /\ MayLock(p) /\ Quiet
        /\ UNCHANGED <<rec, doc, sql, ckpt, lease, seal, guard, store, born, minted>>
    BY <1>4 DEF ResumeReview, Steady
  <2>3. i \in intents /\ i.kind = "review" BY DEF Intents
  <2>4. CASE Acked /\ intents' = intents \ {i} /\ UNCHANGED <<marker, lock, proc>>
    <3>1. Data' BY <1>0, <2>2, <2>4, FewerIntents DEF Acked
    <3>2. ASSUME NEW q \in Proc PROVE Fits(proc[q], rec, intents', vault, plan, slot)
      <4>1. Fits(proc[q], rec, intents, vault, plan, slot) BY DEF OInv, Commanded
      <4>2. proc[q].pc \notin {"marker", "commit"}
        <5>1. SUFFICES ASSUME proc[q].pc \in {"marker", "commit"} PROVE FALSE OBVIOUS
        <5>2. Locked(proc[q]) /\ q # p BY <2>2, <5>1 DEF Locked, Inside, At
        <5>3. lock = q /\ q # NoProc BY <5>2, OutboxConstants DEF OInv, Locking
        <5> QED BY <2>2, <5>2, <5>3 DEF MayLock
      <4>3. intents = {} => intents' = {} BY <2>4
      <4> QED BY <4>1, <4>2, <4>3 DEF Fits
    <3>3. Commanded' BY <2>2, <2>4, <3>2 DEF Commanded, store
    <3>4. Unborn' /\ Locking' BY <2>2, <2>4 DEF OInv, Unborn, Locking, At
    <3>5. UNCHANGED <<proc, body, touched>> BY <2>2, <2>4 DEF store
    <3>6. ASSUME NEW q \in Proc PROVE Current(proc'[q], body', touched') BY <3>5 DEF OInv, Fresh, Current
    <3>7. Fresh' BY <3>6 DEF Fresh, Current, Subject
    <3> QED BY <3>1, <3>3, <3>4, <3>7 DEF OInv
  <2>5. CASE /\ marker' = Cur(i.target) /\ UNCHANGED intents
             /\ Goto(p, [Idle EXCEPT !.pc = "commit", !.cmd = ReviewCmd(v), !.tgt = i.target])
    <3> DEFINE t == [Idle EXCEPT !.pc = "commit", !.cmd = ReviewCmd(v), !.tgt = i.target]
    <3>1. Shaped(t) /\ t.pc = "commit" /\ t.cmd = ReviewCmd(v) /\ t.tgt = i.target BY DEF Idle, Shaped
    <3>2. Goto(p, t) BY <2>5
    <3> HIDE DEF t
    <3>3. Cur(i.target) # NoEvent BY <1>0, <2>3, IntentFacts
    <3>4. Same /\ body' = body /\ born' BY <2>2, <2>5, QuietIsBorn DEF Same, store
    <3>5. ObligationCovered' BY <1>0, <2>2, <2>5, <3>3 DEF Data, ObligationCovered, Projected
    <3>6. Data' BY <1>0, <3>4, <3>5, SameHistory
    <3>7. Fits(t, rec, intents, vault, plan, slot)
      BY <2>1, <2>3, <3>1, SeenCommands DEF Fits, Publishing, Remembers
    <3> QED BY <3>1, <3>2, <3>4, <3>6, <3>7, Advances DEF Same, Current
  <2> QED BY <2>1, <2>4, <2>5
<1>5. CASE EndReview(p)
  <2>1. /\ s.pc = "unreview" /\ Quit(p) /\ born' = born
        /\ UNCHANGED <<rec, doc, sql, ckpt, minted, store, marker>>
        /\ (intents' = intents \/ (Acked /\ intents' = Intents("event")))
    BY <1>5 DEF EndReview, Steady, At
  <2>2. CASE intents' = intents
    <3>1. Same /\ body' = body BY <2>1, <2>2 DEF Same, store
    <3> QED BY <2>1, <3>1, QuitsOn, Brings
  <2>3. CASE Acked /\ intents' = Intents("event")
    <3>1. Data' BY <1>0, <2>1, <2>3, FewerIntents DEF Acked, Intents
    <3> QED BY <2>1, <3>1, Quits, Brings
  <2> QED BY <2>1, <2>2, <2>3
<1> QED BY <1>1, <1>2, <1>3, <1>4, <1>5, <1>6

LEMMA CompactionSteps ==
    ASSUME OInv, Inv', OneAtATime, OneAtATime', NEW p \in Proc,
           \/ Compact(p) \/ Snapshot(p) \/ WritePlan(p) \/ ResumeCompaction(p)
           \/ MoveDir(p) \/ Moved(p) \/ FreeSlot(p) \/ ResumeGC(p) \/ Collect(p)
    PROVE  OInv'
<1> DEFINE s == proc[p]
<1>0. /\ Fits(s, rec, intents, vault, plan, slot) /\ Shaped(s) /\ s.cmd \in KnownCmds /\ Data /\ History
      /\ Archives /\ body \in {0, 1} /\ vault \subseteq {0, 1}
  BY Brings DEF OInv, Data, Archives
\* A step from one place to another, when the store allows it.
<1>1. ASSUME NEW x, Step(p, x), s.pc # "idle", x # "plan", Data', Fits([s EXCEPT !.pc = x], rec', intents', vault', plan', slot'),
             born' = born
      PROVE  OInv'
  BY <1>1, Advances, Brings DEF Step, Current
\* A command that starts.
<1>2. ASSUME NEW t, NEW v \in {0, 1}, Shaped(t), t.pc \in {"snapshot", "move", "gc"}, t.cmd = CompactCmd(v),
             Goto(p, t), Quiet, t.mem = rec \/ t.pc = "gc",
             IF t.pc = "snapshot" THEN plan = NoPlan ELSE plan \in vault, t.pc = "gc" => slot, UNCHANGED <<disk, store, minted>>
      PROVE  OInv'
  <2>1. Same /\ body' = body /\ born' /\ UNCHANGED <<doc, sql, marker>> BY <1>2, QuietIsBorn DEF Same, disk, store
  <2>2. Fits(t, rec, intents, vault, plan, slot) BY <1>2, SeenCommands DEF Fits, Publishing, Remembers
  <2> QED BY <1>2, <2>1, <2>2, MovesOn
<1>3. CASE Compact(p)
  <2> DEFINE t == [Idle EXCEPT !.pc = "snapshot", !.cmd = CompactCmd(body), !.mem = rec]
  <2>1. Shaped(t) /\ t.pc = "snapshot" /\ t.cmd = CompactCmd(body) /\ t.mem = rec BY DEF Idle, Shaped
  <2>2. Goto(p, t) /\ Quiet /\ plan = NoPlan /\ UNCHANGED <<disk, store, minted>> BY <1>3 DEF Compact, Steady
  <2> HIDE DEF t
  <2> QED BY <1>0, <1>2, <2>1, <2>2
<1>4. CASE ResumeCompaction(p)
  <2> DEFINE t == [Idle EXCEPT !.pc = "move", !.cmd = CompactCmd(plan), !.mem = rec]
  <2>1. Shaped(t) /\ t.pc = "move" /\ t.cmd = CompactCmd(plan) /\ t.mem = rec BY DEF Idle, Shaped
  <2>2. Goto(p, t) /\ Quiet /\ plan \in vault /\ UNCHANGED <<disk, store, minted>>
    BY <1>4 DEF ResumeCompaction, Steady
  <2> HIDE DEF t
  <2> QED BY <1>0, <1>2, <2>1, <2>2
<1>5. CASE ResumeGC(p)
  <2> DEFINE t == [Idle EXCEPT !.pc = "gc", !.cmd = CompactCmd(plan)]
  <2>1. Shaped(t) /\ t.pc = "gc" /\ t.cmd = CompactCmd(plan) BY DEF Idle, Shaped
  <2>2. Goto(p, t) /\ Quiet /\ slot /\ UNCHANGED <<disk, store, minted>> BY <1>5 DEF ResumeGC, Steady
  <2>3. plan \in vault BY <1>0, <2>2 DEF Archives
  <2> HIDE DEF t
  <2> QED BY <1>0, <1>2, <2>1, <2>2, <2>3
<1>6. CASE Snapshot(p)
  <2> DEFINE t == [s EXCEPT !.pc = "plan", !.cmd = CompactCmd(body)]
  <2>1. /\ s.pc = "snapshot" /\ vault' = vault \cup {body} /\ UNCHANGED <<disk, minted, tree, body, plan, slot>>
        /\ Goto(p, t)
    BY <1>6 DEF Snapshot, Steady, At
  <2>2. Shaped(t) /\ t.pc = "plan" /\ t.cmd = CompactCmd(body) /\ t.mem = s.mem BY <1>0 DEF Shaped
  <2> HIDE DEF t
  <2>3. plan = NoPlan /\ s.mem = rec BY <1>0, <2>1 DEF Fits, Remembers
  <2>4. Data' BY <1>0, <2>1, <2>3, MoreArchives
  <2>5. Fits(t, rec, intents, vault', plan, slot)
    BY <1>0, <2>2, <2>3, SeenCommands DEF Fits, Publishing, Remembers
  <2>6. Current(t, body', touched') BY <1>0, <2>1, <2>2, CompactSubject DEF Current
  <2> QED BY <2>1, <2>2, <2>4, <2>5, <2>6, Advances, Brings DEF disk
<1>7. CASE WritePlan(p)
  <2>1. /\ s.pc = "plan" /\ UNCHANGED <<disk, minted, tree, body, vault, slot, touched>>
        /\ \/ Quit(p) /\ UNCHANGED plan
           \/ Reviewed /\ plan' = Subject(s.cmd) /\ Step(p, "move")
    BY <1>7 DEF WritePlan, Steady, At
  <2>2. CASE Quit(p) /\ UNCHANGED plan
    <3>1. Same /\ born' = born /\ UNCHANGED <<doc, sql, marker, body>> BY <2>1, <2>2 DEF Same, disk
    <3> QED BY <2>1, <2>2, <3>1, QuitsOn, Brings
  <2>3. CASE Reviewed /\ plan' = Subject(s.cmd) /\ Step(p, "move")
    <3>1. Subject(s.cmd) \in vault BY <2>1 DEF OInv, Inv, Planned, At
    <3>2. <<"review", body>> \in rec.facts BY <2>3 DEF Reviewed
    <3>3. ReviewOf(rec) # {}
      <4>1. <<"review", body>>[1] = "review" OBVIOUS
      <4> QED BY <3>2, <4>1 DEF ReviewOf
    <3>4. touched \/ Subject(s.cmd) = body BY <2>1 DEF OInv, Fresh, Current
    <3>5. Archives' BY <1>0, <2>1, <2>3, <3>1, <3>2, <3>3, <3>4 DEF Archives, disk, ReviewOf
    <3>6. Data' BY <1>0, <2>1, <3>5, OtherStores
    <3>7. Fits([s EXCEPT !.pc = "move"], rec, intents, vault, plan', slot)
      BY <1>0, <2>1, <2>3, <3>1, Brings DEF Fits, Publishing, Remembers
    <3> QED BY <1>1, <2>1, <2>3, <3>6, <3>7 DEF disk
  <2> QED BY <2>1, <2>2, <2>3
<1>8. CASE MoveDir(p)
  <2>1. /\ s.pc = "move" /\ UNCHANGED <<disk, minted, body, vault, plan, slot, touched>> /\ Step(p, "move")
        /\ \A d \in Dir : tree'[d] = "gone" => tree[d] = "gone"
    BY <1>8 DEF MoveDir, Steady, At, OInv, Inv, Planned
  <2>2. Archives' BY <1>0, <2>1 DEF Archives, ReviewOf, disk
  <2>3. Data' BY <1>0, <2>1, <2>2, OtherStores
  <2>4. Fits([s EXCEPT !.pc = "move"], rec, intents, vault, plan, slot)
    BY <1>0, <2>1, Brings DEF Fits, Publishing, Remembers
  <2> QED BY <1>1, <2>1, <2>3, <2>4 DEF disk
<1>9. CASE Moved(p)
  <2>1. /\ s.pc = "move" /\ Same /\ born' = born /\ UNCHANGED <<doc, sql, marker, body>>
        /\ \/ Step(p, "stage") \/ Step(p, "slot")
           \/ Goto(p, [s EXCEPT !.pc = "doc", !.seen = marker])
    BY <1>9 DEF Moved, disk, Steady, Same, store, At
  <2>2. s.cmd.name = "compact" /\ plan \in vault /\ s.mem = rec BY <1>0, <2>1 DEF Fits, Remembers
  <2>3. ASSUME NEW x \in {"stage", "slot"}, Step(p, x) PROVE OInv'
    <3>1. Fits([s EXCEPT !.pc = x], rec, intents, vault, plan, slot)
      BY <1>0, <2>1, <2>2, Brings DEF Fits, Publishing, Remembers
    <3> QED BY <2>1, <2>3, <3>1, StepsOn, Brings
  <2>4. CASE Goto(p, [s EXCEPT !.pc = "doc", !.seen = marker])
    <3> DEFINE t == [s EXCEPT !.pc = "doc", !.seen = marker]
    <3>1. Shaped(t) /\ t.pc = "doc" /\ t.cmd = s.cmd /\ t.mem = s.mem BY <1>0 DEF Shaped
    <3>2. Goto(p, t) BY <2>4
    <3> HIDE DEF t
    <3>3. plan # NoPlan BY <1>0, <2>2, RecyclingConstants
    <3>4. ReviewOf(rec) # {} BY <1>0, <3>3 DEF Archives
    <3>5. rec # Missing BY <3>4, MissingIs DEF ReviewOf
    <3>6. rec.log # <<>> BY <1>0, <3>5 DEF History, Ordered
    <3>7. Fits(t, rec, intents, vault, plan, slot)
      BY <1>0, <2>2, <3>1, <3>6 DEF Fits, Publishing, Remembers
    <3> QED BY <2>1, <3>1, <3>2, <3>7, MovesOn, Brings
  <2> QED BY <2>1, <2>3, <2>4
<1>10. CASE FreeSlot(p)
  <2>1. /\ s.pc = "slot" /\ UNCHANGED <<disk, minted, tree, body, vault, plan, touched>>
        /\ \/ Quit(p) /\ UNCHANGED slot
           \/ slot' = TRUE /\ Step(p, "gc")
    BY <1>10 DEF FreeSlot, Steady, At
  <2>2. CASE Quit(p) /\ UNCHANGED slot
    <3>1. Same /\ born' = born /\ UNCHANGED <<doc, sql, marker, body>> BY <2>1, <2>2 DEF Same, disk
    <3> QED BY <2>1, <2>2, <3>1, QuitsOn, Brings
  <2>3. CASE slot' = TRUE /\ Step(p, "gc")
    <3>1. s.cmd.name = "compact" /\ plan \in vault BY <1>0, <2>1 DEF Fits
    <3>2. Archives' BY <1>0, <2>1, <2>3, <3>1 DEF Archives, ReviewOf, disk
    <3>3. Data' BY <1>0, <2>1, <3>2, OtherStores
    <3>4. Fits([s EXCEPT !.pc = "gc"], rec, intents, vault, plan, slot')
      BY <1>0, <2>3, <3>1, Brings DEF Fits, Publishing, Remembers
    <3> QED BY <1>1, <2>1, <2>3, <3>3, <3>4 DEF disk
  <2> QED BY <2>1, <2>2, <2>3
<1>11. CASE Collect(p)
  <2>1. /\ s.pc = "gc" /\ UNCHANGED <<disk, minted, body, vault, plan, slot, touched>>
        /\ (Step(p, "gc") \/ Quit(p))
    BY <1>11 DEF Collect, Steady, At
  <2>2. slot /\ s.cmd.name = "compact" BY <1>0, <2>1 DEF Fits
  <2>3. Archives' BY <1>0, <2>1, <2>2 DEF Archives, ReviewOf, disk
  <2>4. Data' BY <1>0, <2>1, <2>3, OtherStores
  <2>5. Fits([s EXCEPT !.pc = "gc"], rec, intents, vault, plan, slot)
    BY <1>0, <2>1, <2>2, Brings DEF Fits, Publishing, Remembers
  <2> QED BY <1>1, <2>1, <2>4, <2>5, Quits, Brings DEF disk
<1> QED BY <1>3, <1>4, <1>5, <1>6, <1>7, <1>8, <1>9, <1>10, <1>11

LEMMA KeepsOInv ==
    ASSUME OInv, OneAtATime, OneAtATime', [RecyclingNext]_rvars PROVE OInv'
<1>0. Inv' BY RecyclingInvStep DEF OInv
<1>1. CASE OutboxStep BY <1>0, <1>1, OutboxKeeps DEF OutboxStep
<1>2. CASE EditCandidate
  <2>1. body' \in {0, 1} BY <1>2 DEF EditCandidate, OInv, Data, Archives
  <2> QED BY <1>0, <1>2, <2>1, RestsSame DEF EditCandidate, outbox, disk, Same
<1>3. CASE UNCHANGED rvars
  <2>1. body' \in {0, 1} BY <1>3 DEF rvars, store, OInv, Data, Archives
  <2> QED BY <1>0, <1>3, <2>1, RestsSame DEF rvars, store, outbox, disk, Same
<1>4. ASSUME NEW p \in Proc, RecyclingStep(p) PROVE OInv'
  BY <1>0, <1>4, ReviewSteps, CompactionSteps DEF RecyclingStep
<1> QED BY <1>1, <1>2, <1>3, <1>4 DEF RecyclingNext

LEMMA StartsOInv == ASSUME RecyclingInit PROVE OInv
<1>1. Inv BY RecyclingInvInit
<1>2. /\ rec = Missing /\ intents = {} /\ ckpt = NoEvent /\ minted = 0 /\ born = FALSE
      /\ vault = {} /\ plan = NoPlan /\ slot = FALSE /\ body = 0 /\ tree = [d \in Dir |-> "live"]
  BY DEF RecyclingInit, OutboxInit
<1>3. \A p \in Proc : proc[p] = Idle BY DEF RecyclingInit, OutboxInit
<1>4. Ordered(Missing, 0)
  <2>1. Missing \in Saved
    <3>1. "" \in State /\ <<>> \in Seq(Event) BY DEF State
    <3> QED BY <3>1 DEF Missing, Saved
  <2>2. Missing.log = <<>> /\ Len(Missing.log) = 0 BY MissingIs
  <2> QED BY <2>1, <2>2 DEF Ordered, ValidChain
<1>5. Data
  <2>1. History BY <1>2, <1>4 DEF History
  <2>2. ObligationCovered BY <1>2, MissingIs DEF ObligationCovered
  <2>3. OneDecision BY <1>2, MissingIs DEF OneDecision, Undecided, ReviewOf
  <2>4. Archives BY <1>2 DEF Archives
  <2> QED BY <2>1, <2>2, <2>3, <2>4 DEF Data
<1>6. Unborn /\ Locking BY <1>2, <1>3, IdleKnown, IdleFits DEF Unborn, Locking, At
<1>7. Commanded BY <1>3, IdleKnown, IdleFits DEF Commanded
<1>8. Fresh BY <1>3, IdleKnown DEF Fresh, Current
<1> QED BY <1>1, <1>5, <1>6, <1>7, <1>8 DEF OInv

LEMMA AlwaysOInv == RecyclingSpec /\ []OneAtATime => []OInv
<1>1. RecyclingInit => OInv BY StartsOInv
<1>2. OInv /\ OneAtATime /\ OneAtATime' /\ [RecyclingNext]_rvars => OInv' BY KeepsOInv
<1> QED BY <1>1, <1>2, PTL DEF RecyclingSpec

LEMMA OneReviewHolds == ASSUME OInv PROVE OneReview
<1> DEFINE R == ReviewOf(rec) \cup UNION {ReviewOf(i.target) : i \in Intents("review")}
<1>1. PICK v : R \subseteq {<<"review", v>>}
  <2>1. CASE Undecided(rec, intents) BY <2>1 DEF Undecided, Intents
  <2>2. ASSUME NEW v \in {0, 1}, Decides(v, rec, intents) PROVE R \subseteq {<<"review", v>>}
    BY <2>2 DEF Decides, Intents
  <2> QED BY <2>1, <2>2 DEF OInv, Data, OneDecision
<1> DEFINE one == {<<"review", v>>}
<1>2. IsFiniteSet(one) /\ Cardinality(one) = 1 BY FS_Singleton
<1>3. IsFiniteSet(R) /\ Cardinality(R) <= Cardinality(one) BY <1>1, <1>2, FS_Subset
<1> QED BY <1>2, <1>3 DEF OneReview

LEMMA DeletedHolds == ASSUME OInv PROVE DeletedBytesAreArchived
<1> SUFFICES ASSUME NEW d \in Dir, tree[d] = "gone"
             PROVE  /\ slot /\ plan \in vault /\ ReviewOf(rec) # {}
                    /\ touched \/ (body = plan /\ <<"review", body>> \in rec.facts)
  BY DEF DeletedBytesAreArchived
<1>0. Archives BY DEF OInv, Data
<1>1. slot /\ plan \in vault BY <1>0 DEF Archives
<1>2. plan # NoPlan BY <1>0, <1>1, RecyclingConstants DEF Archives
<1> QED BY <1>0, <1>1, <1>2 DEF Archives

(* An event that its document, row and checkpoint do not show yet is never *)
(* lost sight of: a marker or a write-ahead intent names it, so a checkout *)
(* is refused and tx-reconcile has something to find (engine.py).          *)
THEOREM ObligationsAreCovered == RecyclingSpec /\ []OneAtATime => []ObligationCovered
<1>1. OInv => ObligationCovered BY DEF OInv, Data
<1> QED BY <1>1, AlwaysOInv, PTL

(* A transaction is decided about once (tx_recycling.py): no crash, retry  *)
(* or edit of the candidate leads to a second decision on other bytes.     *)
THEOREM ReviewedOnce == RecyclingSpec /\ []OneAtATime => []OneReview
<1>1. OInv => OneReview BY OneReviewHolds
<1> QED BY <1>1, AlwaysOInv, PTL

(* A compaction deletes what it archived and planned, after a decision; if *)
(* the candidate was not edited once the archive was made, the deleted     *)
(* bytes are the archived and the reviewed ones, whatever was edited       *)
(* between the review's own archive and its comparison (tx_recycling.py,   *)
(* tx_retention.py).                                                       *)
THEOREM DeletedIsArchived == RecyclingSpec /\ []OneAtATime => []DeletedBytesAreArchived
<1>1. OInv => DeletedBytesAreArchived BY DeletedHolds
<1> QED BY <1>1, AlwaysOInv, PTL

-----------------------------------------------------------------------------
(* The lease and the log.                                                  *)

\* Only the checkout of another transaction gives the lease to it.
LEMMA OthersLease ==
    ASSUME RecyclingNext, lease = "free", lease' = "other"
    PROVE  marker = NoEvent /\ intents = {}
<1>1. ASSUME NEW p \in Proc, CommandStep(p) PROVE lease' \in {lease, "tx", "free"}
  <2>1. CASE Checkout(p) \/ Acquire(p) \/ Bind(p) \/ Undo(p) BY <2>1 DEF Checkout, Acquire, Bind, Undo
  <2>2. ASSUME NEW c, Load(p, c) \/ Conclude(p, c) PROVE lease' = lease BY <2>2 DEF Load, Conclude
  <2>3. CASE SaveStep(p)
    BY <2>3 DEF SaveStep, Stage, StagePlain, StagePreflight, StageRefused, WriteMarker, Commit, Observe, disk
  <2>4. CASE PublishStep(p)
    BY <2>4 DEF PublishStep, WriteDocument, RunHeartbeat, WriteCheckpoint, AckMarker, AckIntent, AcksDone,
                PublicationFails, disk
  <2>5. CASE Release(p) \/ ReleaseGuard(p) BY <2>5 DEF Release, ReleaseGuard
  <2>6. ASSUME NEW c, ReconcileStart(p, c) PROVE lease' = lease BY <2>6 DEF ReconcileStart, disk
  <2>7. CASE RecoverReplay(p) \/ RecoverDone(p) \/ RecoverRefused(p)
    BY <2>7 DEF RecoverReplay, RecoverDone, RecoverRefused, disk
  <2>8. CASE GuardReconcile(p) BY <2>8 DEF GuardReconcile
  <2> QED BY <1>1, <2>1, <2>2, <2>3, <2>4, <2>5, <2>6, <2>7, <2>8 DEF CommandStep
<1>2. ASSUME NEW p \in Proc, Crash(p) \/ WriteFails(p) PROVE lease' = lease BY <1>2 DEF Crash, WriteFails, disk
<1>3. ASSUME NEW p \in Proc, RecyclingStep(p) PROVE lease' = lease
  BY <1>3 DEF RecyclingStep, Submit, Archive, Recheck, StaleReview, ResumeReview, EndReview, Compact, Snapshot, WritePlan,
              ResumeCompaction, MoveDir, Moved, FreeSlot, ResumeGC, Collect, disk
<1>4. ASSUME EditCandidate PROVE lease' = lease BY <1>4 DEF EditCandidate, outbox, disk
<1>5. OutboxNext
  <2>1. lease' # lease OBVIOUS
  <2>2. OutboxStep BY <1>3, <1>4, <2>1 DEF RecyclingNext
  <2> QED BY <2>2 DEF OutboxStep
<1>6. Environment BY <1>1, <1>2, <1>5 DEF OutboxNext
<1>7. OtherCheckout BY <1>6 DEF Environment, OtherEnds, ForeignHeartbeat, Reseal
<1> QED BY <1>7 DEF OtherCheckout, MayAcquire

\* The history and the checkpoint change in two ways.
Commits  == rec' # rec /\ Grows(rec, rec') /\ Ordered(rec', minted') /\ ckpt' = ckpt
Announces == rec' = rec /\ rec.log # <<>> /\ ckpt' = Cur(rec)

LEMMA LogSteps ==
    ASSUME OInv, OInv', [RecyclingNext]_rvars
    PROVE  UNCHANGED <<rec, ckpt>> \/ Commits \/ Announces
<1>0. Data /\ History /\ Ordered(rec', minted') BY DEF OInv, Data, History
<1>1. ASSUME NEW p \in Proc, CommandStep(p) PROVE UNCHANGED <<rec, ckpt>> \/ Commits \/ Announces
  <2>0. Fits(proc[p], rec, intents, vault, plan, slot) BY Brings
  <2>1. CASE Checkout(p) \/ Acquire(p) \/ Bind(p) \/ Undo(p) BY <2>1 DEF Checkout, Acquire, Bind, Undo
  <2>2. ASSUME NEW c, Load(p, c) \/ Conclude(p, c) PROVE UNCHANGED <<rec, ckpt>> BY <2>2 DEF Load, Conclude
  <2>3. CASE SaveStep(p)
    <3>1. CASE Stage(p) \/ StagePreflight(p) \/ StageRefused(p) \/ WriteMarker(p) \/ Observe(p)
      BY <3>1 DEF Stage, StagePreflight, StageRefused, WriteMarker, Observe, disk
    <3>2. CASE StagePlain(p)
      <4>1. proc[p].pc = "stage" /\ rec' = Desired(proc[p]) /\ ~Material(proc[p]) /\ ckpt' = ckpt
        BY <3>2 DEF StagePlain, At
      <4>2. proc[p].mem = rec BY <2>0, <4>1 DEF Fits, Remembers
      <4>3. rec \in Saved BY <1>0 DEF History, Ordered
      <4>4. rec' = [rec EXCEPT !.st = Desired(proc[p]).st, !.facts = Desired(proc[p]).facts]
        BY <4>1, <4>2, <4>3 DEF Desired, Saved
      <4>5. Desired(proc[p]).st = rec.st /\ Desired(proc[p]).facts = rec.facts BY <4>1 DEF Material
      <4>6. rec' = rec BY <4>3, <4>4, <4>5 DEF Saved
      <4> QED BY <4>1, <4>6
    <3>3. CASE Commit(p)
      <4>1. proc[p].pc = "commit" /\ rec' = proc[p].tgt /\ ckpt' = ckpt BY <3>3 DEF Commit, At
      <4>2. PICK i \in intents : i.target = proc[p].tgt /\ rec \in {i.prior, i.target} BY <2>0, <4>1 DEF Fits
      <4>3. Grows(i.prior, i.target) BY <1>0, IntentFacts
      <4> QED BY <1>0, <4>1, <4>2, <4>3 DEF Commits
    <3> QED BY <2>3, <3>1, <3>2, <3>3 DEF SaveStep
  <2>4. CASE PublishStep(p)
    <3>1. CASE WriteCheckpoint(p)
      <4>1. proc[p].pc = "ckpt" /\ ckpt' = Cur(rec) /\ rec' = rec BY <3>1 DEF WriteCheckpoint, At
      <4>2. rec.log # <<>> BY <2>0, <4>1 DEF Fits, Publishing
      <4> QED BY <4>1, <4>2 DEF Announces
    <3> QED BY <2>4, <3>1 DEF PublishStep, WriteDocument, RunHeartbeat, AckMarker, AckIntent, AcksDone,
                              PublicationFails, disk
  <2>5. CASE Release(p) \/ ReleaseGuard(p) BY <2>5 DEF Release, ReleaseGuard
  <2>6. ASSUME NEW c, ReconcileStart(p, c) PROVE UNCHANGED <<rec, ckpt>> BY <2>6 DEF ReconcileStart, disk
  <2>7. CASE RecoverReplay(p)
    <3> DEFINE i == Newest(Replayable)
    <3>1. Replayable # {} /\ rec' = i.target /\ ckpt' = ckpt BY <2>7 DEF RecoverReplay
    <3>2. i \in Replayable /\ i \in intents
      <4>1. Replayable \subseteq intents BY DEF Replayable, Intents
      <4> QED BY <1>0, <3>1, <4>1, NewestExists
    <3>3. rec \in {i.prior, i.target} BY <3>2 DEF Replayable, LostCheckout
    <3>4. Grows(i.prior, i.target) BY <1>0, <3>2, IntentFacts
    <3> HIDE DEF i
    <3> QED BY <1>0, <3>1, <3>3, <3>4 DEF Commits
  <2>8. CASE RecoverDone(p) \/ RecoverRefused(p) BY <2>8 DEF RecoverDone, RecoverRefused, disk
  <2>9. CASE GuardReconcile(p) BY <2>9 DEF GuardReconcile
  <2> QED BY <1>1, <2>1, <2>2, <2>3, <2>4, <2>5, <2>6, <2>7, <2>8, <2>9 DEF CommandStep
<1>2. ASSUME NEW p \in Proc, Crash(p) \/ WriteFails(p) PROVE UNCHANGED <<rec, ckpt>>
  BY <1>2 DEF Crash, WriteFails, disk
<1>3. ASSUME NEW p \in Proc, RecyclingStep(p) PROVE UNCHANGED <<rec, ckpt>>
  BY <1>3 DEF RecyclingStep, Submit, Archive, Recheck, StaleReview, ResumeReview, EndReview, Compact, Snapshot, WritePlan,
              ResumeCompaction, MoveDir, Moved, FreeSlot, ResumeGC, Collect, disk
<1>4. CASE EditCandidate BY <1>4 DEF EditCandidate, outbox, disk
<1>5. CASE Environment BY <1>5 DEF Environment, OtherCheckout, OtherEnds, ForeignHeartbeat, Reseal
<1>6. CASE UNCHANGED rvars BY <1>6 DEF rvars, outbox, disk
<1> QED BY <1>1, <1>2, <1>3, <1>4, <1>5, <1>6 DEF RecyclingNext, OutboxStep, OutboxNext

\* An event has one place in an ordered history.
LEMMA OnePlace ==
    ASSUME NEW m \in Nat, NEW r, Ordered(r, m), NEW n \in 1 .. Len(r.log)
    PROVE  (CHOOSE k \in 1 .. Len(r.log) : r.log[k] = r.log[n]) = n
<1>1. \A k \in 1 .. Len(r.log) : r.log[k] = r.log[n] => k = n
  <2>1. ASSUME NEW k \in 1 .. Len(r.log), r.log[k] = r.log[n], k # n PROVE FALSE
    <3>1. r.log[k].seq \in Nat
      <4>1. r.log[k] \in Event BY DEF Ordered, Saved
      <4> QED BY <4>1 DEF Event
    <3>2. k < n \/ n < k BY <2>1
    <3> QED BY <2>1, <3>1, <3>2 DEF Ordered
  <2> QED BY <2>1
<1> QED BY <1>1

LEMMA KeepsLog ==
    ASSUME OInv, OInv', [RecyclingNext]_rvars PROVE [Log!EventLogNext]_(Log!evars)
<1>0. /\ minted \in Nat /\ Ordered(rec, minted) /\ (ckpt = NoEvent \/ InLog(ckpt, rec))
      /\ minted' \in Nat /\ Ordered(rec', minted')
  BY DEF OInv, Data, History
<1>1. CASE UNCHANGED <<rec, ckpt>>
  BY <1>1 DEF Log!evars, Shown
<1>2. CASE Commits
  <2>1. Grows(rec, rec') /\ ckpt' = ckpt BY <1>2 DEF Commits
  <2>2. Len(rec.log) \in Nat BY <1>0 DEF Ordered, Saved
  <2>3. \A n \in 1 .. Len(rec.log) : n \in 1 .. Len(rec'.log) /\ rec'.log[n] = rec.log[n] BY <2>1, <2>2 DEF Grows
  <2>4. Shown' = Shown
    <3>1. CASE ckpt = NoEvent BY <2>1, <3>1 DEF Shown
    <3>2. CASE ckpt # NoEvent
      <4>1. PICK n \in 1 .. Len(rec.log) : rec.log[n] = ckpt BY <1>0, <3>2 DEF InLog
      <4>2. Shown = n BY <1>0, <3>2, <4>1, OnePlace DEF Shown
      <4>3. n \in 1 .. Len(rec'.log) /\ rec'.log[n] = ckpt' BY <2>1, <2>3, <4>1
      <4>4. Shown' = n BY <1>0, <2>1, <3>2, <4>3, OnePlace DEF Shown
      <4> QED BY <4>2, <4>4
    <3> QED BY <3>1, <3>2
  <2>5. \A i \in 1 .. Len(rec.log) : rec.log[i].seq < rec'.log[Len(rec'.log)].seq
    <3>1. Len(rec'.log) = Len(rec.log) + 1 BY <2>1 DEF Grows
    <3>2. ASSUME NEW i \in 1 .. Len(rec.log) PROVE rec.log[i].seq < rec'.log[Len(rec'.log)].seq
      <4>1. i \in 1 .. Len(rec'.log) /\ Len(rec'.log) \in 1 .. Len(rec'.log) /\ i < Len(rec'.log)
        BY <2>2, <3>1
      <4>2. rec'.log[i].seq < rec'.log[Len(rec'.log)].seq BY <1>0, <4>1 DEF Ordered
      <4> QED BY <2>3, <4>2
    <3> QED BY <3>2
  <2>6. Log!Record BY <2>1, <2>3, <2>4, <2>5 DEF Log!Record, Grows
  <2> QED BY <2>6 DEF Log!EventLogNext
<1>3. CASE Announces
  <2>1. rec' = rec /\ rec.log # <<>> /\ ckpt' = Cur(rec) BY <1>3 DEF Announces
  <2>2. /\ Len(rec.log) \in Nat \ {0} /\ Cur(rec) = rec.log[Len(rec.log)] /\ Cur(rec) # NoEvent
    BY <1>0, <2>1, LastOf
  <2>3. Len(rec.log) \in 1 .. Len(rec.log) BY <2>2
  <2>4. Shown' = Len(rec.log) BY <1>0, <2>1, <2>2, <2>3, OnePlace DEF Shown
  <2>5. Log!Publish BY <2>1, <2>4 DEF Log!Publish
  <2> QED BY <2>5 DEF Log!EventLogNext
<1> QED BY <1>1, <1>2, <1>3, LogSteps

LEMMA StartsLog == ASSUME RecyclingInit PROVE Log!EventLogInit
BY MissingIs DEF RecyclingInit, OutboxInit, Log!EventLogInit, Shown

(* A checkout of another transaction is admitted only when the last event  *)
(* of this one is in its document, its row and its checkpoint (engine.py). *)
THEOREM CheckoutsFindAcknowledged == RecyclingSpec /\ []OneAtATime => CheckoutFindsAcknowledged
<1>1. OInv /\ [RecyclingNext]_rvars => [lease = "free" /\ lease' = "other" /\ rec.log # <<>> => Projected]_rvars
  <2>1. ASSUME OInv, RecyclingNext, lease = "free", lease' = "other", rec.log # <<>> PROVE Projected
    <3>1. marker = NoEvent /\ intents = {} BY <2>1, OthersLease
    <3> QED BY <2>1, <3>1 DEF OInv, Data, ObligationCovered
  <2> QED BY <2>1
<1> QED BY <1>1, AlwaysOInv, PTL DEF RecyclingSpec, CheckoutFindsAcknowledged

(* The intents, state.json and the checkpoint implement one append-only    *)
(* log with a published prefix, through crashes, replays and retries       *)
(* (tx_lifecycle.py).                                                      *)
THEOREM OutboxIsALog == RecyclingSpec /\ []OneAtATime => KeepsOneLog
<1>1. RecyclingInit => Log!EventLogInit BY StartsLog
<1>2. OInv /\ OInv' /\ [RecyclingNext]_rvars => [Log!EventLogNext]_(Log!evars) BY KeepsLog
<1> QED BY <1>1, <1>2, AlwaysOInv, PTL DEF RecyclingSpec, KeepsOneLog, Log!EventLogSpec
=============================================================================
