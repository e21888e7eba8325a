-------------------------------- MODULE JevTree --------------------------------
(***************************************************************************)
(* The adaptive tomography of a candidate (jev_adaptive_patch_tree.py):    *)
(* questions about it are asked, and those not answered well enough are    *)
(* put on a work list, looked up in KAIROS and split into narrower ones,   *)
(* within limits of depth, number and fan-out.  With the review of an      *)
(* attempt in hand (focus) only its failed questions are looked up.        *)
(*                                                                         *)
(* A question is its text and metadata, as global_questions knows it.  A   *)
(* score stands for the lower one of its two answers.  What it says, and   *)
(* what KAIROS returns for it, is open.                                    *)
(***************************************************************************)
EXTENDS Naturals, FiniteSets, Sequences

CONSTANTS
    Question, Kind,                    \* all questions, and the kind of each
    Roots,                             \* the generic matrix, in its order
    Pass,                              \* the score that meets the threshold
    MaxRoots, MaxDepth, MaxNodes, MaxChildren

(* "evidence" stands for contract, relation, artifact, drift and clause.   *)
Kinds == {"root", "jev_feedback", "evidence", "file", "hunk", "diagnostic"}

ASSUME TreeConstants ==
    /\ IsFiniteSet(Question) /\ Kind \in [Question -> Kinds]
    /\ Roots \in Seq(Question) /\ \A m, n \in 1 .. Len(Roots) : Roots[m] = Roots[n] => m = n
    /\ {Pass, MaxRoots, MaxDepth, MaxNodes, MaxChildren} \subseteq Nat \ {0}

VARIABLE tree    \* the running command: its nodes, work list and questions asked

Score == 0 .. Pass

NoTree == [pc |-> "none", focus |-> FALSE, nodes |-> <<>>, queue |-> {}, asked |-> {}, cur |-> 0, relevant |-> FALSE]

Of(kind) == {q \in Question : Kind[q] = kind}

-----------------------------------------------------------------------------
Asked(q, depth, score) ==
    [q |-> q, depth |-> depth, score |-> score, st |-> IF score = Pass THEN "PASS" ELSE "EXPAND", kids |-> {}]

Open(nodes) == {n \in DOMAIN nodes : nodes[n].st = "EXPAND"}

Begun(focus, nodes) ==
    tree' = [NoTree EXCEPT !.pc = "loop", !.focus = focus, !.nodes = nodes, !.queue = Open(nodes),
                           !.asked = {nodes[n].q : n \in DOMAIN nodes}]

(* Level 0: every question of the matrix is asked.                         *)
GenericRoots ==
    \E score \in [1 .. Len(Roots) -> Score] :
        Begun(FALSE, [n \in 1 .. Len(Roots) |-> Asked(Roots[n], 0, score[n])])

Least(m, n) == IF m < n THEN m ELSE n

Distinct(qs) == \A m, n \in DOMAIN qs : qs[m] = qs[n] => m = n

(* focused_nodes: the worst of the failed questions; they are not asked    *)
(* again.                                                                  *)
FocusRoots(failed) ==
    \E qs \in [1 .. Least(Cardinality(failed), MaxRoots) -> failed] :
        Distinct(qs) /\ Begun(TRUE, [n \in DOMAIN qs |-> Asked(qs[n], 0, 0)])

-----------------------------------------------------------------------------
Looping == tree.pc = "loop" /\ tree.queue # {} /\ Len(tree.nodes) < MaxNodes

(* The lowest score first, then the deepest, then the oldest: the sort is  *)
(* stable, and nodes are numbered and queued in the order they are made.   *)
Before(m, n) ==
    LET a == tree.nodes[m]  b == tree.nodes[n] IN
    a.score < b.score \/ (a.score = b.score /\ a.depth > b.depth)

First(n) == \A m \in tree.queue : Before(n, m) \/ (~Before(m, n) /\ n <= m)

Settled(n, st) == tree' = [tree EXCEPT !.pc = "loop", !.cur = 0, !.relevant = FALSE, !.nodes[n].st = st]

TakeNode ==
    /\ Looping
    /\ \E n \in tree.queue : First(n) /\ tree' = [tree EXCEPT !.queue = @ \ {n}, !.cur = n, !.pc = "node"]

TooDeep ==
    /\ tree.pc = "node" /\ tree.nodes[tree.cur].depth >= MaxDepth
    /\ Settled(tree.cur, "LIMIT_REACHED")

Retrieving == tree.pc = "node" /\ tree.nodes[tree.cur].depth < MaxDepth

Collect ==
    /\ Retrieving /\ tree.focus
    /\ \E st \in {"KAIROS_EVIDENCE_COLLECTED", "KAIROS_RETRIEVAL_EMPTY"} : Settled(tree.cur, st)

(* Material evidence: the same question once more.                         *)
Recheck ==
    /\ Retrieving /\ ~tree.focus
    /\ \E score \in Score :
          IF score = Pass
          THEN tree' = [tree EXCEPT !.pc = "loop", !.cur = 0, !.nodes[tree.cur].st = "PASS_AFTER_RETRIEVAL",
                                    !.nodes[tree.cur].score = score]
          ELSE tree' = [tree EXCEPT !.pc = "split", !.relevant = TRUE, !.nodes[tree.cur].score = score]

NothingMaterial ==
    /\ Retrieving /\ ~tree.focus
    /\ tree' = [tree EXCEPT !.pc = "split"]

(* Mutant: the limit is reached one question early.                        *)
QueuedShort(nodes, kids) == {k \in kids : nodes[k].st = "EXPAND" /\ k + 1 < MaxNodes}

(* The children to look at later: those open ones the limit leaves room    *)
(* for when they are added.                                                *)
Queued(nodes, kids) == {k \in kids : nodes[k].st = "EXPAND" /\ k < MaxNodes}

(* What a question may be split into: an obligation for an item of         *)
(* material evidence; the changed files, of a file its regions; and for an *)
(* obligation its diagnostics.  Which of them is open.                     *)
EvidenceChildren ==
    {S \in SUBSET Of("evidence") : Cardinality(S) <= (IF tree.relevant THEN MaxChildren ELSE 0)}

FileChildren(q)       == IF Kind[q] = "file" THEN {{}} ELSE SUBSET Of("file")
HunkChildren(q)       == IF Kind[q] = "file" THEN SUBSET Of("hunk") ELSE {{}}
DiagnosticChildren(q) == IF Kind[q] = "evidence" THEN SUBSET Of("diagnostic") ELSE {{}}

(* The kinds in the order in which children are listed.                    *)
Rank(q) == CASE Kind[q] = "evidence" -> 1 [] Kind[q] \in {"file", "hunk"} -> 2 [] OTHER -> 3

(* Mutant: children are compared within their family only.                 *)
UnaskedHere(S) == S

(* dedupe_children.                                                        *)
Unasked(S) == S \ tree.asked

(* The first of the children, as many as the fan-out allows.               *)
FirstOf(fresh) ==
    {qs \in [1 .. Least(Cardinality(fresh), MaxChildren) -> fresh] :
        /\ Distinct(qs)
        /\ \A i \in DOMAIN qs, q \in fresh : Rank(q) < Rank(qs[i]) => \E j \in 1 .. i - 1 : qs[j] = q}

(* The fan-out and the answers: what is cut off by the fan-out counts as   *)
(* asked.                                                                  *)
Split ==
    LET n == tree.cur  q == tree.nodes[n].q  depth == tree.nodes[n].depth + 1 IN
    /\ tree.pc = "split"
    /\ \E E \in EvidenceChildren, F \in FileChildren(q), H \in HunkChildren(q), D \in DiagnosticChildren(q) :
          LET fresh == Unasked(E \cup F \cup H \cup D) IN
          \/ fresh = {} /\ Settled(n, "STALLED_NO_NEW_ATOMIC_EVIDENCE")
          \/ /\ fresh # {}
             /\ \E qs \in FirstOf(fresh) : \E score \in [DOMAIN qs -> Score] :
                   LET kids  == {Len(tree.nodes) + i : i \in DOMAIN qs}
                       grown == [tree.nodes EXCEPT ![n].st = "EXPANDED", ![n].kids = kids]
                                \o [i \in DOMAIN qs |-> Asked(qs[i], depth, score[i])]
                   IN  tree' = [tree EXCEPT !.pc = "loop", !.cur = 0, !.relevant = FALSE, !.nodes = grown,
                                            !.queue = @ \cup Queued(grown, kids), !.asked = @ \cup fresh]

(* What is still on the list was cut off by the limit.                     *)
CutOff ==
    /\ tree.pc = "loop" /\ ~Looping
    /\ tree' = [tree EXCEPT !.pc = "done", !.queue = {},
                  !.nodes = [n \in DOMAIN @ |-> IF n \in tree.queue /\ @[n].st = "EXPAND"
                                                THEN [@[n] EXCEPT !.st = "LIMIT_REACHED"] ELSE @[n]]]

(* Jev, KAIROS or a file fails the command, which leaves nothing behind.   *)
TreeFails == tree.pc \in {"loop", "node", "split"} /\ tree' = NoTree

OpenLeaves == {n \in DOMAIN tree.nodes : tree.nodes[n].score < Pass /\ tree.nodes[n].kids = {}}

TreeStep ==
    TakeNode \/ TooDeep \/ Collect \/ Recheck \/ NothingMaterial \/ Split \/ CutOff \/ TreeFails

-----------------------------------------------------------------------------
(* Properties. *)

(* A finished tree accounts for every question it came upon.  None is      *)
(* asked at two nodes, and none that counts as asked is missing but for    *)
(* the fan-out.  One reported as passed did pass; one that did not was     *)
(* split, one level deeper, or is an open leaf with its reason - depth,    *)
(* number, nothing new, looked up; the limits hold, but for one last       *)
(* family.  Only the children in that family for which the number left no  *)
(* room stay at EXPAND, the status of a question that is to be looked at,  *)
(* and say no reason.                                                      *)
TreeAccounts ==
    tree.pc = "done" =>
        LET nodes == tree.nodes  full == Len(nodes) >= MaxNodes IN
        /\ Len(nodes) < MaxNodes + MaxChildren \/ \A n \in DOMAIN nodes : nodes[n].depth = 0
        /\ \A m, n \in DOMAIN nodes : nodes[m].q = nodes[n].q => m = n
        /\ \/ tree.asked = {nodes[n].q : n \in DOMAIN nodes}
           \/ \E n \in DOMAIN nodes : Cardinality(nodes[n].kids) = MaxChildren
        /\ \A n \in DOMAIN nodes :
              LET x == nodes[n] IN
              /\ x.depth <= MaxDepth
              /\ x.st \in {"PASS", "PASS_AFTER_RETRIEVAL"} <=> x.score = Pass
              /\ x.st = "EXPANDED" <=> x.kids # {}
              /\ x.st = "LIMIT_REACHED" => x.depth = MaxDepth \/ full
              /\ x.st = "EXPAND" => n >= MaxNodes /\ x.depth > 0
              /\ x.score < Pass => n \in OpenLeaves \/ \A k \in x.kids : nodes[k].depth = x.depth + 1

(* A tree that the number of questions ended while one was still to be     *)
(* looked at says so (ADAPTIVE_PATCH_TOMOGRAPHY.md, resource guard).       *)
LimitIsSaid ==
    tree.pc = "done" /\ Open(tree.nodes) # {} => \E n \in DOMAIN tree.nodes : tree.nodes[n].st = "LIMIT_REACHED"
=============================================================================
