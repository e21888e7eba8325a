---------------------------- MODULE TxRecycling ----------------------------
(***************************************************************************)
(* Recycling of a terminal transaction (tx_recycling.py, tx_retention.py): *)
(* the operator's review of its candidate, the archive of its bytes in the *)
(* content-addressed vault, and the compaction that gives its slot in the  *)
(* materialised pool back and deletes its large directories.               *)
(*                                                                         *)
(* Review and compaction are commands of the transaction: their decisions  *)
(* are events of its log and go through the outbox of TxOutbox.  The bytes *)
(* of the candidate are a version, 0 or 1, of the file its author edits:   *)
(* the author can do so at any time, between any two steps of a command,   *)
(* and change it back.                                                     *)
(***************************************************************************)
EXTENDS TxOutbox

CONSTANTS Dir,       \* the large directories a compaction removes
          NoPlan,
          MaxEdits   \* bound: edits of the candidate after its transaction ended

ASSUME RecyclingConstants == NoPlan \notin {0, 1} /\ MaxEdits \in Nat

VARIABLES
    tree,    \* where each large directory is: "live", "staged" (.reclaim), "gone"
    body,    \* the version of the candidate's bytes
    vault,   \* the versions with a complete, immutable snapshot
    plan,    \* compaction-plan.json: the archived version it relies on
    slot,    \* compaction-committed.json exists: the pool slot is free
    touched, \* history: the candidate was edited after its last compaction snapshot
    edits

store == <<tree, body, vault, plan, slot, touched, edits>>
rvars == <<outbox, store>>

ReviewCmd(v)  == Cmd("review", Terminal, "", {<<"review", v>>}, FALSE, TRUE, FALSE)
CompactCmd(v) == Cmd("compact", Terminal, "", {<<"compaction", v>>}, FALSE, TRUE, FALSE)

RecyclingInit ==
    /\ OutboxInit
    /\ tree = [d \in Dir |-> "live"] /\ body = 0 /\ vault = {} /\ plan = NoPlan
    /\ slot = FALSE /\ touched = FALSE /\ edits = 0

Quiet       == rec.st \in Terminal /\ lease = "free"
Acked       == Projected /\ marker = NoEvent               \* assert_projected
ReviewOf(r) == {f \in r.facts : f[1] = "review"}
Subject(c)  == CHOOSE v \in {0, 1} : \E k \in {"review", "compaction"} : <<k, v>> \in c.fact
-----------------------------------------------------------------------------
(* tx-recycle-submit.                                                      *)

\* mutant: a pending decision is not looked for
SubmitAgain(p) ==
    /\ At(p, "idle") /\ MayLock(p) /\ Quiet /\ Acked /\ ReviewOf(rec) = {}
    /\ Goto(p, [Idle EXCEPT !.pc = "archive", !.cmd = ReviewCmd(body), !.mem = rec])
    /\ UNCHANGED <<disk, store>> /\ Steady

Submit(p) ==
    /\ At(p, "idle") /\ MayLock(p) /\ Quiet
    /\ intents = {} /\ Acked /\ ReviewOf(rec) = {}
    /\ Goto(p, [Idle EXCEPT !.pc = "archive", !.cmd = ReviewCmd(body), !.mem = rec])
    /\ UNCHANGED <<disk, store>> /\ Steady

\* The snapshot takes long, and archives what is there now.
Archive(p) ==
    /\ At(p, "archive") /\ vault' = vault \cup {body} /\ Step(p, "recheck")
    /\ UNCHANGED <<disk, tree, body, plan, slot, touched, edits>> /\ Steady

\* A second inventory: refuse a candidate whose bytes differ from the analysed ones.
Recheck(p) ==
    /\ At(p, "recheck")
    /\ IF body = Subject(proc[p].cmd) THEN Step(p, "stage") ELSE Quit(p)
    /\ UNCHANGED <<disk, store>> /\ Steady

\* The staged review is completed only for the bytes it names.
StaleReview(p) ==
    /\ At(p, "commit") /\ proc[p].cmd.name = "review" /\ body # Subject(proc[p].cmd)
    /\ Quit(p)
    /\ UNCHANGED <<disk, store>> /\ Steady

\* A submit that finds its intent completes exactly that decision.
ResumeReview(p) ==
    /\ At(p, "idle") /\ MayLock(p) /\ Quiet /\ Intents("event") = {}
    /\ \E i \in Intents("review"), v \in {0, 1} :
         /\ <<"review", v>> \in i.target.facts /\ v = body
         /\ rec \in {i.prior, i.target} /\ marker \in {NoEvent, Cur(i.target)}
         /\ IF rec = i.target /\ Acked
              THEN intents' = intents \ {i} /\ UNCHANGED <<marker, lock, proc>>
              ELSE /\ marker' = Cur(i.target) /\ UNCHANGED intents
                   /\ Goto(p, [Idle EXCEPT !.pc = "commit", !.cmd = ReviewCmd(v), !.tgt = i.target])
    /\ UNCHANGED <<rec, doc, sql, ckpt, lease, seal, guard, store>> /\ Steady

EndReview(p) ==
    /\ At(p, "unreview")
    /\ intents' = (IF Acked /\ rec = proc[p].tgt THEN Intents("event") ELSE intents)
    /\ Quit(p)
    /\ UNCHANGED <<rec, marker, doc, sql, ckpt, lease, seal, guard, store>> /\ Steady
-----------------------------------------------------------------------------
(* tx-compact, and its resumption by drain.                                *)

\* assert_reviewed: the decision names the bytes that are there now.
Reviewed == intents = {} /\ <<"review", body>> \in rec.facts /\ Acked

Compact(p) ==
    /\ At(p, "idle") /\ MayLock(p) /\ Quiet /\ plan = NoPlan /\ Reviewed
    /\ Goto(p, [Idle EXCEPT !.pc = "snapshot", !.cmd = CompactCmd(body), !.mem = rec])
    /\ UNCHANGED <<disk, store>> /\ Steady

\* mutant: the directories are moved before the plan is written
SnapshotThenMove(p) ==
    /\ At(p, "snapshot") /\ vault' = vault \cup {body}
    /\ Goto(p, [proc[p] EXCEPT !.pc = "move", !.cmd = CompactCmd(body)]) /\ touched' = FALSE
    /\ UNCHANGED <<disk, tree, body, plan, slot, edits>> /\ Steady

Snapshot(p) ==
    /\ At(p, "snapshot") /\ vault' = vault \cup {body}
    /\ Goto(p, [proc[p] EXCEPT !.pc = "plan", !.cmd = CompactCmd(body)]) /\ touched' = FALSE
    /\ UNCHANGED <<disk, tree, body, plan, slot, edits>> /\ Steady

\* mutant: the candidate is not compared with the review again
WritePlanUnchecked(p) ==
    /\ At(p, "plan") /\ plan' = Subject(proc[p].cmd) /\ Step(p, "move")
    /\ UNCHANGED <<disk, tree, body, vault, slot, touched, edits>> /\ Steady

\* Durable before the first directory moves; written only if the review names the bytes
\* that are there once the archive is made.
WritePlan(p) ==
    /\ At(p, "plan")
    /\ \/ Reviewed /\ plan' = Subject(proc[p].cmd) /\ Step(p, "move")
       \/ ~Reviewed /\ Quit(p) /\ UNCHANGED plan
    /\ UNCHANGED <<disk, tree, body, vault, slot, touched, edits>> /\ Steady

ResumeCompaction(p) ==
    /\ At(p, "idle") /\ MayLock(p) /\ Quiet /\ ~slot
    /\ plan \in vault
    /\ Goto(p, [Idle EXCEPT !.pc = "move", !.cmd = CompactCmd(plan), !.mem = rec])
    /\ UNCHANGED <<disk, store>> /\ Steady

MoveDir(p) ==
    /\ At(p, "move")
    /\ \E d \in Dir : tree[d] = "live" /\ tree' = [tree EXCEPT ![d] = "staged"]
    /\ Step(p, "move")
    /\ UNCHANGED <<disk, body, vault, plan, slot, touched, edits>> /\ Steady

Moved(p) ==
    /\ At(p, "move") /\ \A d \in Dir : tree[d] # "live"
    /\ IF ~(proc[p].cmd.fact \subseteq rec.facts) THEN Step(p, "stage")
       ELSE IF Acked THEN Step(p, "slot")
       ELSE Goto(p, [proc[p] EXCEPT !.pc = "doc", !.seen = marker])
    /\ UNCHANGED <<disk, store>> /\ Steady

\* Capacity is released only after the exact projection is verified.
FreeSlot(p) ==
    /\ At(p, "slot")
    /\ \/ Acked /\ slot' = TRUE /\ Step(p, "gc")
       \/ ~Acked /\ Quit(p) /\ UNCHANGED slot
    /\ UNCHANGED <<disk, tree, body, vault, plan, touched, edits>> /\ Steady

ResumeGC(p) ==
    /\ At(p, "idle") /\ MayLock(p) /\ Quiet /\ slot /\ Acked
    /\ \E d \in Dir : tree[d] = "staged"
    /\ Goto(p, [Idle EXCEPT !.pc = "gc", !.cmd = CompactCmd(plan)])
    /\ UNCHANGED <<disk, store>> /\ Steady

Collect(p) ==
    /\ At(p, "gc")
    /\ \/ /\ \E d \in Dir : tree[d] = "staged" /\ tree' = [tree EXCEPT ![d] = "gone"]
          /\ Step(p, "gc")
       \/ (\A d \in Dir : tree[d] # "staged") /\ Quit(p) /\ UNCHANGED tree
    /\ UNCHANGED <<disk, body, vault, plan, slot, touched, edits>> /\ Steady

EditCandidate ==
    /\ rec.st \in Terminal /\ (\E d \in Dir : tree[d] = "live")
    /\ edits < MaxEdits /\ edits' = edits + 1
    /\ body' = 1 - body /\ touched' = TRUE
    /\ UNCHANGED <<outbox, tree, vault, plan, slot>>
-----------------------------------------------------------------------------
RecyclingStep(p) ==
    \/ Submit(p) \/ Archive(p) \/ Recheck(p) \/ StaleReview(p) \/ ResumeReview(p) \/ EndReview(p)
    \/ Compact(p) \/ Snapshot(p) \/ WritePlan(p) \/ ResumeCompaction(p)
    \/ MoveDir(p) \/ Moved(p) \/ FreeSlot(p) \/ ResumeGC(p) \/ Collect(p)

\* Everything the outbox does; a review is not committed for other bytes.
OutboxStep ==
    /\ OutboxNext /\ UNCHANGED store
    /\ \A p \in Proc : ~(At(p, "commit") /\ proc'[p].pc = "doc"
                          /\ proc[p].cmd.name = "review" /\ body # Subject(proc[p].cmd))

RecyclingNext == OutboxStep \/ EditCandidate \/ \E p \in Proc : RecyclingStep(p)

RecyclingSpec == RecyclingInit /\ [][RecyclingNext]_rvars
=============================================================================
