---------------------------- MODULE JevReview_proofs ----------------------------
(***************************************************************************)
(* Proofs about the scientific review: a finished tree accounts for every  *)
(* question in it, the attempts on a candidate form an auditable chain,    *)
(* and where Jev is required apply starts only from a candidate it was     *)
(* shown and passed; for any number of sessions, transactions, commands,   *)
(* receipts, versions, questions and limits.                               *)
(***************************************************************************)
EXTENDS JevReview, FiniteSetTheorems, SequenceTheorems, TLAPS

-----------------------------------------------------------------------------
(* The tree.                                                               *)
Status == {"PASS", "EXPAND", "EXPANDED", "LIMIT_REACHED", "KAIROS_EVIDENCE_COLLECTED",
           "KAIROS_RETRIEVAL_EMPTY", "PASS_AFTER_RETRIEVAL", "STALLED_NO_NEW_ATOMIC_EVIDENCE"}
Node   == [q : Question, depth : 0 .. MaxDepth, score : Score, st : Status, kids : SUBSET Nat]
Tree   == [pc : {"none", "loop", "node", "split", "done"}, focus : BOOLEAN, nodes : Seq(Node),
           queue : SUBSET Nat, asked : SUBSET Question, cur : Nat, relevant : BOOLEAN]

\* A question says whether it passed, and why it was left open.
Accounted(nodes, n) ==
    LET q == nodes[n] IN
    /\ q.st \in {"PASS", "PASS_AFTER_RETRIEVAL"} <=> q.score = Pass
    /\ q.st = "EXPANDED" <=> q.kids # {}
    /\ q.kids \subseteq {k \in DOMAIN nodes : nodes[k].depth = q.depth + 1}
    /\ q.st = "LIMIT_REACHED" => q.depth = MaxDepth \/ Len(nodes) >= MaxNodes

\* Nothing that waits is forgotten, but for what the limit left no room for.
Waiting(nodes, queue, cur) ==
    /\ queue \subseteq {n \in DOMAIN nodes : nodes[n].st = "EXPAND"}
    /\ \A n \in DOMAIN nodes :
          nodes[n].st = "EXPAND" => n \in queue \/ n = cur \/ (n >= MaxNodes /\ nodes[n].depth > 0)

\* No question twice, and none lost but to the fan-out.
Named(nodes, asked) ==
    /\ \A m, n \in DOMAIN nodes : nodes[m].q = nodes[n].q => m = n
    /\ \A n \in DOMAIN nodes : nodes[n].q \in asked
    /\ \/ \A q \in asked : \E n \in DOMAIN nodes : nodes[n].q = q
       \/ \E n \in DOMAIN nodes : Cardinality(nodes[n].kids) = MaxChildren

Limited(nodes) == Len(nodes) < MaxNodes + MaxChildren \/ \A n \in DOMAIN nodes : nodes[n].depth = 0

TreeInv ==
    /\ tree \in Tree
    /\ \A n \in DOMAIN tree.nodes : Accounted(tree.nodes, n)
    /\ Waiting(tree.nodes, tree.queue, tree.cur)
    /\ Named(tree.nodes, tree.asked)
    /\ Limited(tree.nodes)
    /\ IF tree.pc \in {"node", "split"}
       THEN /\ tree.cur \in DOMAIN tree.nodes \ tree.queue /\ tree.nodes[tree.cur].st = "EXPAND"
            /\ Len(tree.nodes) < MaxNodes
            /\ tree.pc = "split" => tree.nodes[tree.cur].depth < MaxDepth
       ELSE tree.cur = 0
    /\ tree.pc = "done" => tree.queue = {}

LEMMA TreeNumbers ==
    /\ Pass \in Nat \ {0} /\ MaxRoots \in Nat \ {0} /\ MaxDepth \in Nat \ {0}
    /\ MaxNodes \in Nat \ {0} /\ MaxChildren \in Nat \ {0}
BY TreeConstants

LEMMA NoTreeInv == ASSUME tree = NoTree PROVE TreeInv
<1>1. <<>> \in Seq(Node) /\ DOMAIN <<>> = {} /\ Len(<<>>) = 0 BY EmptySeq
<1> QED BY <1>1, TreeNumbers DEF TreeInv, NoTree, Tree, Waiting, Named, Limited

LEMMA NoTreeInvNext == ASSUME tree' = NoTree PROVE TreeInv'
<1>1. <<>> \in Seq(Node) /\ DOMAIN <<>> = {} /\ Len(<<>>) = 0 BY EmptySeq
<1> QED BY <1>1, TreeNumbers DEF TreeInv, NoTree, Tree, Waiting, Named, Limited

LEMMA TreeAccounted == ASSUME TreeInv PROVE TreeAccounts
<1> SUFFICES ASSUME tree.pc = "done" PROVE TreeAccounts BY DEF TreeAccounts
<1>1. \A n \in DOMAIN tree.nodes : tree.nodes[n] \in Node BY DEF TreeInv, Tree
<1>2. 0 \notin DOMAIN tree.nodes BY DEF TreeInv, Tree
<1>3. /\ \A m, n \in DOMAIN tree.nodes : tree.nodes[m].q = tree.nodes[n].q => m = n
      /\ \/ tree.asked = {tree.nodes[n].q : n \in DOMAIN tree.nodes}
         \/ \E n \in DOMAIN tree.nodes : Cardinality(tree.nodes[n].kids) = MaxChildren
  BY DEF TreeInv, Named
<1>4. /\ Len(tree.nodes) < MaxNodes + MaxChildren \/ \A n \in DOMAIN tree.nodes : tree.nodes[n].depth = 0
      /\ tree.queue = {} /\ tree.cur = 0
  BY DEF TreeInv, Limited
<1>5. ASSUME NEW n \in DOMAIN tree.nodes
      PROVE  LET x == tree.nodes[n] IN
             /\ x.depth <= MaxDepth
             /\ x.st \in {"PASS", "PASS_AFTER_RETRIEVAL"} <=> x.score = Pass
             /\ x.st = "EXPANDED" <=> x.kids # {}
             /\ x.st = "LIMIT_REACHED" => x.depth = MaxDepth \/ Len(tree.nodes) >= MaxNodes
             /\ x.st = "EXPAND" => n >= MaxNodes /\ x.depth > 0
             /\ x.score < Pass => n \in OpenLeaves \/ \A k \in x.kids : tree.nodes[k].depth = x.depth + 1
  BY <1>1, <1>2, <1>4, TreeNumbers DEF TreeInv, Accounted, Waiting, OpenLeaves, Node, Score
<1> QED BY <1>3, <1>4, <1>5 DEF TreeAccounts

-----------------------------------------------------------------------------
(* Sequences of questions.                                                 *)
LEMMA NodeSeq ==
    ASSUME NEW k \in Nat, NEW f, f = [n \in 1 .. k |-> f[n]], \A n \in 1 .. k : f[n] \in Node
    PROVE  f \in Seq(Node) /\ Len(f) = k /\ DOMAIN f = 1 .. k
<1>1. f \in [1 .. k -> Node] OBVIOUS
<1> QED BY <1>1

LEMMA NodeSeqType ==
    ASSUME NEW f \in Seq(Node)
    PROVE  Len(f) \in Nat /\ DOMAIN f = 1 .. Len(f) /\ \A n \in 1 .. Len(f) : f[n] \in Node
BY LenProperties

LEMMA NodeConcat ==
    ASSUME NEW a \in Seq(Node), NEW b \in Seq(Node)
    PROVE  /\ a \o b \in Seq(Node) /\ Len(a \o b) = Len(a) + Len(b) /\ DOMAIN (a \o b) = 1 .. (Len(a) + Len(b))
           /\ \A n \in 1 .. Len(a) : (a \o b)[n] = a[n]
           /\ \A n \in (Len(a) + 1) .. (Len(a) + Len(b)) :
                (a \o b)[n] = b[n - Len(a)] /\ n - Len(a) \in 1 .. Len(b)
<1>1. Len(a) \in Nat /\ Len(b) \in Nat BY NodeSeqType
<1>2. a \o b \in Seq(Node) /\ Len(a \o b) = Len(a) + Len(b) BY ConcatProperties
<1>3. \A n \in 1 .. Len(a) + Len(b) : (a \o b)[n] = IF n <= Len(a) THEN a[n] ELSE b[n - Len(a)]
  BY ConcatProperties
<1>4. DOMAIN (a \o b) = 1 .. (Len(a) + Len(b)) BY <1>2, NodeSeqType
<1>5. ASSUME NEW n \in 1 .. Len(a) PROVE (a \o b)[n] = a[n] BY <1>1, <1>3
<1>6. ASSUME NEW n \in (Len(a) + 1) .. (Len(a) + Len(b))
      PROVE  (a \o b)[n] = b[n - Len(a)] /\ n - Len(a) \in 1 .. Len(b)
  <2>1. n \in 1 .. Len(a) + Len(b) /\ ~(n <= Len(a)) /\ n - Len(a) \in 1 .. Len(b) BY <1>1
  <2> QED BY <1>3, <2>1
<1> QED BY <1>2, <1>4, <1>5, <1>6

-----------------------------------------------------------------------------
(* The roots.                                                              *)
LEMMA RootsInv ==
    ASSUME NEW k \in Nat, NEW qs \in [1 .. k -> Question], NEW score \in [1 .. k -> Score], NEW focus \in BOOLEAN,
           \A m, n \in 1 .. k : qs[m] = qs[n] => m = n,
           Begun(focus, [n \in 1 .. k |-> Asked(qs[n], 0, score[n])])
    PROVE  TreeInv'
<1> DEFINE nodes == [n \in 1 .. k |-> Asked(qs[n], 0, score[n])]
           asked == {nodes[n].q : n \in DOMAIN nodes}
<1>1. \A n \in 1 .. k : nodes[n] \in Node /\ Accounted(nodes, n) /\ nodes[n].depth = 0 /\ nodes[n].q = qs[n]
  BY TreeNumbers DEF Asked, Node, Status, Score, Accounted
<1>8. nodes = [n \in 1 .. k |-> nodes[n]] /\ \A n \in 1 .. k : nodes[n] \in Node BY <1>1
<1>2. nodes \in Seq(Node) /\ Len(nodes) = k /\ DOMAIN nodes = 1 .. k
  <2> HIDE DEF nodes
  <2> QED BY <1>8, NodeSeq
<1>3. tree' = [pc |-> "loop", focus |-> focus, nodes |-> nodes, queue |-> Open(nodes), asked |-> asked, cur |-> 0,
               relevant |-> FALSE]
  BY DEF Begun, NoTree
<1> HIDE DEF nodes
<1>4. Open(nodes) \subseteq Nat BY <1>2 DEF Open
<1>5. Waiting(nodes, Open(nodes), 0) BY DEF Waiting, Open
<1>6. asked \subseteq Question BY <1>1, <1>2
<1>7. Named(nodes, asked) BY <1>1, <1>2 DEF Named
<1> HIDE DEF asked
<1> QED BY <1>1, <1>2, <1>3, <1>4, <1>5, <1>6, <1>7 DEF TreeInv, Tree, Limited

LEMMA GenericRootsInv == ASSUME GenericRoots PROVE TreeInv'
<1>1. /\ Len(Roots) \in Nat /\ Roots \in [1 .. Len(Roots) -> Question] /\ FALSE \in BOOLEAN
      /\ \A m, n \in 1 .. Len(Roots) : Roots[m] = Roots[n] => m = n
  BY TreeConstants
<1>2. PICK score \in [1 .. Len(Roots) -> Score] :
           Begun(FALSE, [n \in 1 .. Len(Roots) |-> Asked(Roots[n], 0, score[n])])
  BY DEF GenericRoots
<1> QED BY ONLY <1>1, <1>2, RootsInv

LEMMA FocusRootsInv == ASSUME NEW failed \in SUBSET Of("jev_feedback"), FocusRoots(failed) PROVE TreeInv'
<1> DEFINE k == Least(Cardinality(failed), MaxRoots)
           score == [n \in 1 .. k |-> 0]
<1>1. failed \subseteq Question /\ IsFiniteSet(failed) BY TreeConstants, FS_Subset DEF Of
<1>2. k \in Nat /\ score \in [1 .. k -> Score] BY <1>1, FS_CardinalityType, TreeNumbers DEF Score, Least
<1>3. PICK qs \in [1 .. k -> failed] :
           Distinct(qs) /\ Begun(TRUE, [n \in DOMAIN qs |-> Asked(qs[n], 0, 0)])
  BY DEF FocusRoots
<1>4. [n \in DOMAIN qs |-> Asked(qs[n], 0, 0)] = [n \in 1 .. k |-> Asked(qs[n], 0, score[n])] OBVIOUS
<1> HIDE DEF k, score
<1>5. /\ Begun(TRUE, [n \in 1 .. k |-> Asked(qs[n], 0, score[n])])
      /\ qs \in [1 .. k -> Question] /\ TRUE \in BOOLEAN
      /\ \A m, n \in 1 .. k : qs[m] = qs[n] => m = n
  BY <1>1, <1>3, <1>4 DEF Distinct
<1> QED BY ONLY <1>2, <1>5, RootsInv

-----------------------------------------------------------------------------
(* One question changes its status, or its score, and has no children.     *)
LEMMA NodeChanges ==
    ASSUME TreeInv, tree.pc \in {"node", "split"}, NEW st \in Status \ {"EXPANDED", "PASS"}, NEW score \in Score,
           st = "PASS_AFTER_RETRIEVAL" <=> score = Pass,
           st = "LIMIT_REACHED" => tree.nodes[tree.cur].depth = MaxDepth,
           NEW pc \in {"loop", "split"}, (pc = "split") = (st = "EXPAND"),
           pc = "split" => tree.nodes[tree.cur].depth < MaxDepth,
           tree'.nodes = [tree.nodes EXCEPT ![tree.cur] = [@ EXCEPT !.st = st, !.score = score]],
           tree'.pc = pc, tree'.cur = (IF pc = "loop" THEN 0 ELSE tree.cur),
           tree'.queue = tree.queue, tree'.asked = tree.asked, tree' \in Tree
    PROVE  TreeInv'
<1> DEFINE nodes == tree.nodes
           c == tree.cur
           new == tree'.nodes
<1>1. /\ nodes \in Seq(Node) /\ c \in DOMAIN nodes /\ new \in Seq(Node)
      /\ DOMAIN nodes = 1 .. Len(nodes) /\ nodes[c] \in Node
  BY DEF TreeInv, Tree
<1>2. /\ Len(new) = Len(nodes) /\ DOMAIN new = DOMAIN nodes
      /\ \A n \in DOMAIN nodes : n # c => new[n] = nodes[n]
      /\ new[c] = [nodes[c] EXCEPT !.st = st, !.score = score]
  BY <1>1
<1>3. /\ new[c].st = st /\ new[c].score = score /\ new[c].depth = nodes[c].depth /\ new[c].kids = nodes[c].kids
      /\ new[c].q = nodes[c].q
  BY <1>1, <1>2 DEF Node
<1>4. nodes[c].kids = {} /\ nodes[c].st = "EXPAND" /\ Len(nodes) < MaxNodes /\ c \notin tree.queue
  BY <1>1 DEF TreeInv, Accounted
<1>5. \A n \in DOMAIN nodes : new[n].depth = nodes[n].depth /\ new[n].q = nodes[n].q /\ new[n].kids = nodes[n].kids
  BY <1>2, <1>3
<1>6. \A n \in DOMAIN new : Accounted(new, n)
  <2> SUFFICES ASSUME NEW n \in DOMAIN nodes PROVE Accounted(new, n) BY <1>2
  <2>1. Accounted(nodes, n) BY DEF TreeInv
  <2>2. CASE n = c BY <1>3, <1>4, <2>2 DEF Accounted
  <2>3. CASE n # c BY <1>2, <1>5, <2>1, <2>3 DEF Accounted
  <2> QED BY <2>2, <2>3
<1>7. Waiting(nodes, tree.queue, c) /\ Limited(nodes) BY DEF TreeInv
<1>8. Waiting(new, tree'.queue, tree'.cur) BY <1>1, <1>2, <1>3, <1>4, <1>7 DEF Waiting
<1>9. Limited(new) BY <1>2, <1>5, <1>7 DEF Limited
<1>10. Named(nodes, tree.asked) BY DEF TreeInv
<1>11. Named(new, tree'.asked) BY <1>2, <1>5, <1>10 DEF Named
<1> QED BY <1>1, <1>2, <1>3, <1>4, <1>6, <1>8, <1>9, <1>11 DEF TreeInv

LEMMA TakeNodeInv == ASSUME TreeInv, TakeNode PROVE TreeInv'
<1>1. PICK n \in tree.queue : tree' = [tree EXCEPT !.queue = @ \ {n}, !.cur = n, !.pc = "node"]
  BY DEF TakeNode
<1>2. /\ tree.pc = "loop" /\ tree.cur = 0 /\ Len(tree.nodes) < MaxNodes /\ tree.nodes \in Seq(Node)
      /\ n \in DOMAIN tree.nodes /\ tree.nodes[n].st = "EXPAND" /\ Waiting(tree.nodes, tree.queue, 0)
  BY DEF TakeNode, Looping, TreeInv, Waiting, Tree
<1>3. /\ tree'.nodes = tree.nodes /\ tree'.queue = tree.queue \ {n} /\ tree'.cur = n /\ tree'.pc = "node"
      /\ tree'.asked = tree.asked /\ tree' \in Tree
  BY <1>1, <1>2 DEF TreeInv, Tree
<1>4. Waiting(tree'.nodes, tree'.queue, tree'.cur) BY <1>2, <1>3 DEF Waiting
<1> QED BY <1>2, <1>3, <1>4 DEF TreeInv

LEMMA NodeStepInv ==
    ASSUME TreeInv, TooDeep \/ Collect \/ Recheck \/ NothingMaterial PROVE TreeInv'
<1> DEFINE c == tree.cur
           nodes == tree.nodes
           q == nodes[c]
<1>1. /\ tree \in Tree /\ tree.pc = "node" /\ c \in DOMAIN nodes /\ q.st = "EXPAND" /\ Accounted(nodes, c)
  BY DEF TreeInv, TooDeep, Collect, Recheck, NothingMaterial, Retrieving
<1>2. /\ nodes \in Seq(Node) /\ q \in Node /\ nodes \in [1 .. Len(nodes) -> Node] /\ Len(nodes) \in Nat
  BY <1>1 DEF Tree
<1>3. q.score # Pass /\ q.score \in Score /\ q.depth \in 0 .. MaxDepth BY <1>1, <1>2 DEF Accounted, Node
(* A step that ends, or begins to split, the current question.             *)
<1>4. ASSUME NEW st \in Status \ {"EXPANDED", "PASS"}, NEW score \in Score, NEW pc \in {"loop", "split"}, NEW cur,
             cur = (IF pc = "loop" THEN 0 ELSE c), NEW relevant \in BOOLEAN,
             tree' = [tree EXCEPT !.pc = pc, !.cur = cur, !.relevant = relevant,
                                  !.nodes = [nodes EXCEPT ![c] = [q EXCEPT !.st = st, !.score = score]]],
             st = "PASS_AFTER_RETRIEVAL" <=> score = Pass, st = "LIMIT_REACHED" => q.depth = MaxDepth,
             (pc = "split") = (st = "EXPAND"), pc = "split" => q.depth < MaxDepth
      PROVE  TreeInv'
  <2> DEFINE new == [nodes EXCEPT ![c] = [q EXCEPT !.st = st, !.score = score]]
  <2>1. [q EXCEPT !.st = st, !.score = score] \in Node BY <1>2, <1>4 DEF Node
  <2>2. new \in Seq(Node) BY <1>1, <1>2, <2>1, ExceptSeq
  <2> HIDE DEF new
  <2>3. /\ tree'.nodes = new /\ tree'.pc = pc /\ tree'.cur = (IF pc = "loop" THEN 0 ELSE c)
        /\ tree'.queue = tree.queue /\ tree'.asked = tree.asked /\ tree' \in Tree
    BY <1>1, <1>4, <2>2 DEF Tree, new
  <2> QED BY ZenonT(30), <1>1, <1>4, <2>3, NodeChanges DEF new
<1> HIDE DEF c, q, nodes
<1>5. CASE TooDeep
  <2>1. /\ q.depth = MaxDepth
        /\ \E st \in {"LIMIT_REACHED"} : tree' = [tree EXCEPT !.pc = "loop", !.cur = 0, !.relevant = FALSE, !.nodes[c].st = st]
    BY <1>3, <1>5, TreeNumbers DEF TooDeep, Settled, c, q, nodes
  <2>2. PICK st \in {"LIMIT_REACHED"} : tree' = [tree EXCEPT !.pc = "loop", !.cur = 0, !.relevant = FALSE, !.nodes[c].st = st]
    BY <2>1
  <2>3. [q EXCEPT !.st = st] = [q EXCEPT !.st = st, !.score = q.score] BY <1>2 DEF Node
  <2>4. tree' = [tree EXCEPT !.pc = "loop", !.cur = 0, !.relevant = FALSE,
                 !.nodes = [nodes EXCEPT ![c] = [q EXCEPT !.st = st, !.score = q.score]]]
    BY <2>2, <2>3 DEF nodes, q
  <2>5. /\ st \in Status \ {"EXPANDED", "PASS"} /\ "loop" \in {"loop", "split"}
        /\ st # "PASS_AFTER_RETRIEVAL" /\ st # "EXPAND"
    BY DEF Status
  <2> QED BY <1>3, <1>4, <2>1, <2>4, <2>5
<1>6. CASE Collect
  <2>1. PICK st \in {"KAIROS_EVIDENCE_COLLECTED", "KAIROS_RETRIEVAL_EMPTY"} :
             tree' = [tree EXCEPT !.pc = "loop", !.cur = 0, !.relevant = FALSE, !.nodes[c].st = st]
    BY <1>6 DEF Collect, Settled, c
  <2>2. [q EXCEPT !.st = st] = [q EXCEPT !.st = st, !.score = q.score] BY <1>2 DEF Node
  <2>3. tree' = [tree EXCEPT !.pc = "loop", !.cur = 0, !.relevant = FALSE,
                 !.nodes = [nodes EXCEPT ![c] = [q EXCEPT !.st = st, !.score = q.score]]]
    BY <2>1, <2>2 DEF nodes, q
  <2>4. /\ st \in Status \ {"EXPANDED", "PASS"} /\ "loop" \in {"loop", "split"}
        /\ st # "PASS_AFTER_RETRIEVAL" /\ st # "LIMIT_REACHED" /\ st # "EXPAND"
    BY DEF Status
  <2> QED BY <1>3, <1>4, <2>3, <2>4
<1>7. CASE Recheck
  <2>1. PICK score \in Score :
          IF score = Pass
          THEN tree' = [tree EXCEPT !.pc = "loop", !.cur = 0, !.nodes[c].st = "PASS_AFTER_RETRIEVAL",
                                    !.nodes[c].score = score]
          ELSE tree' = [tree EXCEPT !.pc = "split", !.relevant = TRUE, !.nodes[c].score = score]
    BY <1>7 DEF Recheck, c
  <2>2. CASE score = Pass
    <3>1. [[nodes EXCEPT ![c].st = "PASS_AFTER_RETRIEVAL"] EXCEPT ![c].score = score]
            = [nodes EXCEPT ![c] = [q EXCEPT !.st = "PASS_AFTER_RETRIEVAL", !.score = score]]
      BY <1>1, <1>2 DEF q
    <3>2. tree' = [tree EXCEPT !.pc = "loop", !.cur = 0, !.relevant = tree.relevant,
             !.nodes = [[nodes EXCEPT ![c].st = "PASS_AFTER_RETRIEVAL"] EXCEPT ![c].score = score]]
      BY <1>1, <2>1, <2>2 DEF Tree, nodes
    <3>3. tree.relevant \in BOOLEAN BY <1>1 DEF Tree
    <3>4. tree' = [tree EXCEPT !.pc = "loop", !.cur = 0, !.relevant = tree.relevant,
             !.nodes = [nodes EXCEPT ![c] = [q EXCEPT !.st = "PASS_AFTER_RETRIEVAL", !.score = score]]]
      BY <3>1, <3>2
    <3> QED BY <1>4, <2>2, <3>3, <3>4 DEF Status
  <2>3. CASE score # Pass
    <3>1. [q EXCEPT !.score = score] = [q EXCEPT !.st = "EXPAND", !.score = score] BY <1>1, <1>2 DEF Node
    <3>2. [nodes EXCEPT ![c].score = score] = [nodes EXCEPT ![c] = [q EXCEPT !.st = "EXPAND", !.score = score]]
      BY <3>1 DEF q
    <3>3. tree' = [tree EXCEPT !.pc = "split", !.cur = c, !.relevant = TRUE, !.nodes = [nodes EXCEPT ![c].score = score]]
      BY <1>1, <2>1, <2>3 DEF Tree, nodes, c
    <3>4. q.depth < MaxDepth BY <1>7 DEF Recheck, Retrieving, q, c, nodes
    <3>5. tree' = [tree EXCEPT !.pc = "split", !.cur = c, !.relevant = TRUE,
             !.nodes = [nodes EXCEPT ![c] = [q EXCEPT !.st = "EXPAND", !.score = score]]]
      BY <3>2, <3>3
    <3>6. "EXPAND" \in Status \ {"EXPANDED", "PASS"} /\ "split" \in {"loop", "split"} BY DEF Status
    <3> QED BY <1>4, <2>3, <3>4, <3>5, <3>6
  <2> QED BY <2>2, <2>3
<1>8. CASE NothingMaterial
  <2>1. q = [q EXCEPT !.st = "EXPAND", !.score = q.score] BY <1>1, <1>2 DEF Node
  <2>2. nodes = [nodes EXCEPT ![c] = q] BY <1>1, <1>2 DEF q
  <2>3. tree' = [tree EXCEPT !.pc = "split", !.cur = c, !.relevant = tree.relevant, !.nodes = [nodes EXCEPT ![c] = q]]
    BY <1>1, <1>8, <2>2 DEF NothingMaterial, Tree, c, nodes
  <2>4. q.depth < MaxDepth BY <1>8 DEF NothingMaterial, Retrieving, q, c, nodes
  <2>7. tree.relevant \in BOOLEAN BY <1>1 DEF Tree
  <2>5. tree' = [tree EXCEPT !.pc = "split", !.cur = c, !.relevant = tree.relevant,
           !.nodes = [nodes EXCEPT ![c] = [q EXCEPT !.st = "EXPAND", !.score = q.score]]]
    BY <2>1, <2>3
  <2>6. "EXPAND" \in Status \ {"EXPANDED", "PASS"} /\ "split" \in {"loop", "split"} BY DEF Status
  <2> QED BY <1>3, <1>4, <2>4, <2>5, <2>6, <2>7
<1> QED BY <1>5, <1>6, <1>7, <1>8

\* The current question is put aside under a reason.
LEMMA StalledInv ==
    ASSUME TreeInv, tree.pc = "split",
           tree' = [tree EXCEPT !.pc = "loop", !.cur = 0, !.relevant = FALSE,
                                !.nodes[tree.cur].st = "STALLED_NO_NEW_ATOMIC_EVIDENCE"]
    PROVE  TreeInv'
<1> DEFINE c == tree.cur
           nodes == tree.nodes
           q == nodes[c]
           new == [nodes EXCEPT ![c].st = "STALLED_NO_NEW_ATOMIC_EVIDENCE"]
<1>1. tree \in Tree /\ c \in DOMAIN nodes /\ q.st = "EXPAND" /\ Accounted(nodes, c) BY DEF TreeInv
<1>2. nodes \in Seq(Node) BY <1>1 DEF Tree
<1>3. q \in Node BY <1>1, <1>2, LenProperties
<1>4. q.score # Pass /\ q.score \in Score BY <1>1, <1>3 DEF Accounted, Node
<1>5. [q EXCEPT !.st = "STALLED_NO_NEW_ATOMIC_EVIDENCE"]
        = [q EXCEPT !.st = "STALLED_NO_NEW_ATOMIC_EVIDENCE", !.score = q.score]
  BY <1>3 DEF Node
<1>6. [q EXCEPT !.st = "STALLED_NO_NEW_ATOMIC_EVIDENCE"] \in Node BY <1>3 DEF Node, Status
<1>7. new \in Seq(Node) BY <1>1, <1>2, <1>6, ExceptSeq, LenProperties
<1>8. new = [nodes EXCEPT ![c] = [@ EXCEPT !.st = "STALLED_NO_NEW_ATOMIC_EVIDENCE", !.score = q.score]]
  BY <1>5
<1> HIDE DEF new
<1>9. /\ tree'.nodes = new /\ tree'.pc = "loop" /\ tree'.cur = 0 /\ tree'.queue = tree.queue /\ tree' \in Tree
      /\ tree'.asked = tree.asked
  BY <1>1, <1>7 DEF Tree, new
<1>10. "STALLED_NO_NEW_ATOMIC_EVIDENCE" \in Status \ {"EXPANDED", "PASS"} /\ "loop" \in {"loop", "split"}
  BY DEF Status
<1>11. PICK st \in {"STALLED_NO_NEW_ATOMIC_EVIDENCE"} : new = [nodes EXCEPT ![c] = [@ EXCEPT !.st = st, !.score = q.score]]
  BY <1>8
<1>12. PICK pc \in {"loop"} : TRUE OBVIOUS
<1>15. PICK score \in Score : score = q.score BY <1>4
<1>13. /\ st \in Status \ {"EXPANDED", "PASS"} /\ pc \in {"loop", "split"}
       /\ st = "PASS_AFTER_RETRIEVAL" <=> score = Pass
       /\ st = "LIMIT_REACHED" => tree.nodes[tree.cur].depth = MaxDepth
       /\ (pc = "split") = (st = "EXPAND")
       /\ pc = "split" => tree.nodes[tree.cur].depth < MaxDepth
       /\ tree.pc \in {"node", "split"}
  BY <1>4, <1>10, <1>15
<1>14. /\ tree'.nodes = [tree.nodes EXCEPT ![tree.cur] = [@ EXCEPT !.st = st, !.score = score]]
       /\ tree'.pc = pc /\ tree'.cur = (IF pc = "loop" THEN 0 ELSE tree.cur)
       /\ tree'.queue = tree.queue /\ tree'.asked = tree.asked /\ tree' \in Tree
  BY <1>9, <1>11, <1>15
<1> HIDE DEF q, nodes, c
<1>16. TreeInv /\ score \in Score OBVIOUS
<1> QED BY ONLY <1>13, <1>14, <1>16, NodeChanges

\* The questions, where one was split into count children behind them.
Family(nodes, c, kids, count, qs, score) ==
    [nodes EXCEPT ![c].st = "EXPANDED", ![c].kids = kids]
        \o [i \in 1 .. count |-> Asked(qs[i], nodes[c].depth + 1, score[i])]

\* What became of each question by that.
Grew(nodes, c, kids, count, qs, grown) ==
    LET L == Len(nodes) IN
    /\ grown \in Seq(Node) /\ Len(grown) = L + count /\ DOMAIN grown = 1 .. (L + count)
    /\ \A n \in 1 .. L : n # c => grown[n] = nodes[n]
    /\ grown[c].st = "EXPANDED" /\ grown[c].kids = kids
    /\ grown[c].score = nodes[c].score /\ grown[c].depth = nodes[c].depth /\ grown[c].q = nodes[c].q
    /\ \A n \in (L + 1) .. (L + count) :
          /\ n - L \in 1 .. count /\ grown[n].q = qs[n - L]
          /\ grown[n].depth = nodes[c].depth + 1 /\ grown[n].kids = {}
          /\ grown[n].st = (IF grown[n].score = Pass THEN "PASS" ELSE "EXPAND")

LEMMA Grown ==
    ASSUME NEW nodes \in Seq(Node), NEW c \in 1 .. Len(nodes), nodes[c].depth < MaxDepth,
           NEW count \in 1 .. MaxChildren, NEW qs \in [1 .. count -> Question], NEW score \in [1 .. count -> Score],
           NEW kids \in SUBSET Nat
    PROVE  Grew(nodes, c, kids, count, qs, Family(nodes, c, kids, count, qs, score))
<1> DEFINE L == Len(nodes)
           grown == Family(nodes, c, kids, count, qs, score)
           q == nodes[c]
           r == [q EXCEPT !.st = "EXPANDED", !.kids = kids]
           old == [nodes EXCEPT ![c] = r]
           new == [i \in 1 .. count |-> Asked(qs[i], q.depth + 1, score[i])]
<1>1. q \in Node /\ L \in Nat /\ DOMAIN nodes = 1 .. L BY NodeSeqType
<1>2. q.depth \in 0 .. MaxDepth BY <1>1 DEF Node
<1>3. r \in Node /\ r.st = "EXPANDED" /\ r.kids = kids /\ r.score = q.score /\ r.depth = q.depth /\ r.q = q.q
  BY <1>1 DEF Node, Status
<1>4. \A i \in 1 .. count : /\ new[i] \in Node /\ new[i].depth = q.depth + 1 /\ new[i].kids = {} /\ new[i].q = qs[i]
                            /\ new[i].st = (IF new[i].score = Pass THEN "PASS" ELSE "EXPAND")
  <2> SUFFICES ASSUME NEW i \in 1 .. count
               PROVE  /\ new[i] \in Node /\ new[i].depth = q.depth + 1 /\ new[i].kids = {} /\ new[i].q = qs[i]
                      /\ new[i].st = (IF new[i].score = Pass THEN "PASS" ELSE "EXPAND")
    OBVIOUS
  <2>1. new[i] = Asked(qs[i], q.depth + 1, score[i]) /\ score[i] \in Score /\ qs[i] \in Question BY TreeNumbers
  <2>2. q.depth + 1 \in 0 .. MaxDepth BY <1>2, TreeNumbers
  <2> HIDE DEF q, new
  <2> QED BY <2>1, <2>2 DEF Asked, Node, Status
<1>5. nodes[c] = q OBVIOUS
<1>6. [nodes EXCEPT ![c].st = "EXPANDED", ![c].kids = kids] = old BY <1>1
<1> HIDE DEF r, q
<1>7. old \in Seq(Node) /\ Len(old) = L /\ \A n \in 1 .. L : old[n] = IF n = c THEN r ELSE nodes[n]
  BY <1>3, ExceptSeq
<1>8. new \in Seq(Node) /\ Len(new) = count
  <2>1. \A i \in 1 .. count : new[i] \in Node BY <1>4
  <2>2. count \in Nat BY TreeNumbers
  <2> QED BY <2>1, <2>2
<1>9. grown = old \o new BY <1>5, <1>6 DEF Family
<1> HIDE DEF old, new, grown
<1>10. /\ grown \in Seq(Node) /\ Len(grown) = Len(old) + Len(new) /\ DOMAIN grown = 1 .. (Len(old) + Len(new))
       /\ \A n \in 1 .. Len(old) : grown[n] = old[n]
       /\ \A n \in (Len(old) + 1) .. (Len(old) + Len(new)) :
            grown[n] = new[n - Len(old)] /\ n - Len(old) \in 1 .. Len(new)
  <2>1. old \in Seq(Node) /\ new \in Seq(Node) BY <1>7, <1>8
  <2> QED BY <2>1, <1>9, NodeConcat
<1>11. /\ Len(grown) = L + count /\ DOMAIN grown = 1 .. (L + count)
       /\ \A n \in 1 .. L : grown[n] = old[n]
       /\ \A n \in (L + 1) .. (L + count) : grown[n] = new[n - L] /\ n - L \in 1 .. count
  <2>1. Len(old) = L /\ Len(new) = count BY <1>7, <1>8
  <2> QED BY <1>10, <2>1
<1>12. grown[c] = r
  <2>1. c \in 1 .. L OBVIOUS
  <2> QED BY <1>7, <1>11, <2>1
<1>13. \A n \in 1 .. L : n # c => grown[n] = nodes[n] BY <1>7, <1>11
<1>14. ASSUME NEW n \in (L + 1) .. (L + count)
       PROVE  /\ n - L \in 1 .. count /\ grown[n].q = qs[n - L]
              /\ grown[n].depth = q.depth + 1 /\ grown[n].kids = {}
              /\ grown[n].st = (IF grown[n].score = Pass THEN "PASS" ELSE "EXPAND")
  <2>1. PICK i \in 1 .. count : grown[n] = new[i] /\ i = n - L BY <1>11
  <2> QED BY <1>4, <2>1
<1> QED BY <1>3, <1>5, <1>10, <1>11, <1>12, <1>13, <1>14 DEF Grew, grown

\* Children are numbered behind the questions there are.
Behind(L, count) == {L + i : i \in 1 .. count}

LEMMA Children ==
    ASSUME NEW L \in Nat, NEW count \in Nat \ {0}, NEW kids, kids = Behind(L, count)
    PROVE  /\ \A n \in (L + 1) .. (L + count) : n \in kids
           /\ \A k \in kids : k \in (L + 1) .. (L + count) /\ k \in 1 .. (L + count)
           /\ kids # {} /\ kids \subseteq Nat
<1>1. ASSUME NEW n \in (L + 1) .. (L + count) PROVE n \in kids
  <2>1. n - L \in 1 .. count /\ n = L + (n - L) OBVIOUS
  <2> QED BY <2>1 DEF Behind
<1>2. ASSUME NEW k \in kids PROVE k \in (L + 1) .. (L + count) /\ k \in 1 .. (L + count) /\ k \in Nat
  BY DEF Behind
<1>3. L + 1 \in (L + 1) .. (L + count) OBVIOUS
<1> QED BY <1>1, <1>2, <1>3

LEMMA ChildrenCount ==
    ASSUME NEW L \in Nat, NEW count \in Nat \ {0} PROVE Cardinality(Behind(L, count)) = count
<1>1. Behind(L, count) = (L + 1) .. (L + count)
  <2>1. ASSUME NEW n \in (L + 1) .. (L + count) PROVE n \in Behind(L, count)
    <3>1. n - L \in 1 .. count /\ n = L + (n - L) OBVIOUS
    <3> QED BY <3>1 DEF Behind
  <2>2. \A n \in Behind(L, count) : n \in (L + 1) .. (L + count) BY DEF Behind
  <2> QED BY <2>1, <2>2
<1>2. L + 1 \in Int /\ L + count \in Int /\ ~(L + 1 > L + count) /\ (L + count) - (L + 1) + 1 = count OBVIOUS
<1>3. Cardinality((L + 1) .. (L + count)) = count BY ONLY <1>2, FS_Interval
<1> QED BY <1>1, <1>3

\* Old questions, a family of new ones behind them, and what now counts as asked.
Appended(nodes, grown, L, count, c, asked, fresh, qs) ==
    /\ L \in Nat /\ count \in Nat \ {0} /\ c \in 1 .. L
    /\ DOMAIN nodes = 1 .. L /\ DOMAIN grown = 1 .. (L + count)
    /\ Named(nodes, asked) /\ nodes[c].kids = {} /\ Cardinality(grown[c].kids) = count
    /\ \A n \in 1 .. L : grown[n].q = nodes[n].q /\ (n # c => grown[n] = nodes[n])
    /\ \A n \in (L + 1) .. (L + count) : n - L \in 1 .. count /\ grown[n].q = qs[n - L]
    /\ fresh \cap asked = {} /\ \A i \in 1 .. count : qs[i] \in fresh
    /\ \A i, j \in 1 .. count : qs[i] = qs[j] => i = j
    /\ count = MaxChildren \/ \A x \in fresh : \E i \in 1 .. count : qs[i] = x

LEMMA FamilyNamed ==
    ASSUME NEW nodes, NEW grown, NEW L, NEW count, NEW c, NEW asked, NEW fresh, NEW qs,
           Appended(nodes, grown, L, count, c, asked, fresh, qs)
    PROVE  Named(grown, asked \cup fresh)
<1> USE DEF Appended
<1>1. /\ \A n \in 1 .. (L + count) : n \in 1 .. L \/ n \in (L + 1) .. (L + count)
      /\ \A n \in 1 .. L : n \in 1 .. (L + count)
  OBVIOUS
<1>2. \A n \in 1 .. L : grown[n].q \in asked BY DEF Named
<1>3. \A n \in (L + 1) .. (L + count) : grown[n].q \in fresh OBVIOUS
<1>4. ASSUME NEW m \in 1 .. (L + count), NEW n \in 1 .. (L + count), grown[m].q = grown[n].q PROVE m = n
  <2>1. CASE m \in 1 .. L /\ n \in 1 .. L BY <1>4, <2>1 DEF Named
  <2>2. CASE m \in (L + 1) .. (L + count) /\ n \in (L + 1) .. (L + count)
    <3>1. m - L = n - L BY <1>4, <2>2
    <3> QED BY <3>1
  <2>3. CASE m \in 1 .. L /\ n \in (L + 1) .. (L + count) BY <1>2, <1>3, <1>4, <2>3
  <2>4. CASE n \in 1 .. L /\ m \in (L + 1) .. (L + count) BY <1>2, <1>3, <1>4, <2>4
  <2> QED BY <1>1, <2>1, <2>2, <2>3, <2>4
<1>5. \A n \in 1 .. (L + count) : grown[n].q \in asked \cup fresh BY <1>1, <1>2, <1>3
<1>6. CASE count = MaxChildren BY <1>1, <1>4, <1>5, <1>6 DEF Named
<1>7. CASE \E n \in DOMAIN nodes : Cardinality(nodes[n].kids) = MaxChildren
  <2>1. PICK n \in 1 .. L : Cardinality(nodes[n].kids) = MaxChildren BY <1>7
  <2>2. n # c BY <2>1, FS_EmptySet, TreeNumbers
  <2>3. n \in 1 .. (L + count) /\ Cardinality(grown[n].kids) = MaxChildren BY <1>1, <2>1, <2>2
  <2> QED BY <1>4, <1>5, <2>3 DEF Named
<1>8. CASE /\ \A x \in fresh : \E i \in 1 .. count : qs[i] = x
           /\ \A x \in asked : \E n \in DOMAIN nodes : nodes[n].q = x
  <2>1. ASSUME NEW x \in fresh PROVE \E n \in 1 .. (L + count) : grown[n].q = x
    <3>1. PICK i \in 1 .. count : qs[i] = x BY <1>8
    <3>2. L + i \in (L + 1) .. (L + count) /\ L + i \in 1 .. (L + count) /\ (L + i) - L = i OBVIOUS
    <3>3. grown[L + i].q = qs[(L + i) - L] BY <3>2
    <3> QED BY <3>1, <3>2, <3>3
  <2>2. ASSUME NEW x \in asked PROVE \E n \in 1 .. (L + count) : grown[n].q = x
    <3>1. PICK n \in 1 .. L : nodes[n].q = x BY <1>8
    <3> QED BY <1>1, <3>1
  <2>3. \A x \in asked \cup fresh : \E n \in 1 .. (L + count) : grown[n].q = x BY <2>1, <2>2
  <2> QED BY <1>4, <1>5, <2>3 DEF Named
<1> QED BY <1>6, <1>7, <1>8 DEF Named

\* A family of count children is added to the current question.
LEMMA FamilyInv ==
    ASSUME TreeInv, tree.pc = "split", NEW count \in 1 .. MaxChildren, NEW score \in [1 .. count -> Score],
           NEW fresh \in SUBSET Question, fresh \cap tree.asked = {}, NEW qs \in [1 .. count -> fresh],
           \A i, j \in 1 .. count : qs[i] = qs[j] => i = j,
           count = MaxChildren \/ \A x \in fresh : \E i \in 1 .. count : qs[i] = x,
           NEW kids, kids = {Len(tree.nodes) + i : i \in 1 .. count},
           NEW grown, grown = Family(tree.nodes, tree.cur, kids, count, qs, score),
           tree' = [pc |-> "loop", focus |-> tree.focus, nodes |-> grown, queue |-> tree.queue \cup Queued(grown, kids),
                    asked |-> tree.asked \cup fresh, cur |-> 0, relevant |-> FALSE]
    PROVE  TreeInv'
<1> DEFINE nodes == tree.nodes
           c == tree.cur
           q == nodes[c]
           L == Len(nodes)
<1>1. /\ tree \in Tree /\ c \in DOMAIN nodes /\ q.st = "EXPAND" /\ L < MaxNodes /\ c \notin tree.queue
      /\ q.depth < MaxDepth /\ Accounted(nodes, c)
  BY DEF TreeInv
<1>2. nodes \in Seq(Node) BY <1>1 DEF Tree
<1>3. L \in Nat /\ DOMAIN nodes = 1 .. L /\ q \in Node BY <1>1, <1>2, NodeSeqType
<1>4. count \in Nat /\ count > 0 /\ count <= MaxChildren /\ MaxNodes \in Nat /\ MaxChildren \in Nat
  BY TreeNumbers
<1>5. /\ \A n \in (L + 1) .. (L + count) : n \in kids
      /\ \A k \in kids : k \in (L + 1) .. (L + count) /\ k \in 1 .. (L + count)
      /\ kids # {} /\ kids \subseteq Nat /\ Cardinality(kids) = count
  <2>1. PICK m \in Nat : m = L BY <1>3
  <2>2. count \in Nat \ {0} BY <1>4
  <2>3. kids = Behind(m, count) BY <2>1 DEF Behind
  <2>4. /\ \A n \in (m + 1) .. (m + count) : n \in kids
        /\ \A k \in kids : k \in (m + 1) .. (m + count) /\ k \in 1 .. (m + count)
        /\ kids # {} /\ kids \subseteq Nat
    <3>1. m \in Nat OBVIOUS
    <3> QED BY ONLY <2>2, <2>3, <3>1, Children
  <2>5. Cardinality(kids) = count BY <2>2, <2>3, ChildrenCount
  <2> QED BY <2>1, <2>4, <2>5
<1>6. Grew(tree.nodes, tree.cur, kids, count, qs, grown)
  <2>1. /\ tree.cur \in 1 .. Len(tree.nodes) /\ tree.nodes \in Seq(Node) /\ tree.nodes[tree.cur].depth < MaxDepth
        /\ kids \in SUBSET Nat /\ count \in 1 .. MaxChildren /\ score \in [1 .. count -> Score]
        /\ qs \in [1 .. count -> Question]
    BY <1>1, <1>2, <1>3, <1>5
  <2>2. PICK n1, c1 : c1 = tree.cur /\ n1 = tree.nodes OBVIOUS
  <2> HIDE DEF c, nodes, q, L
  <2>3. Grew(n1, c1, kids, count, qs, Family(n1, c1, kids, count, qs, score)) BY ONLY <2>1, <2>2, Grown
  <2> QED BY <2>2, <2>3
<1>7. Waiting(nodes, tree.queue, c) /\ Limited(nodes) /\ \A n \in 1 .. L : Accounted(nodes, n)
  BY <1>3 DEF TreeInv
<1>8. q.score # Pass BY <1>1 DEF Accounted
<1> HIDE DEF nodes, c, q, L
<1>9. c \in 1 .. L BY <1>1, <1>3
<1>18. /\ grown \in Seq(Node) /\ Len(grown) = L + count /\ DOMAIN grown = 1 .. (L + count)
       /\ \A n \in 1 .. L : n # c => grown[n] = nodes[n]
       /\ grown[c].st = "EXPANDED" /\ grown[c].kids = kids /\ grown[c].score = q.score /\ grown[c].depth = q.depth
       /\ grown[c].q = q.q
       /\ \A n \in (L + 1) .. (L + count) :
            /\ n - L \in 1 .. count /\ grown[n].q = qs[n - L]
            /\ grown[n].depth = q.depth + 1 /\ grown[n].kids = {}
            /\ grown[n].st = (IF grown[n].score = Pass THEN "PASS" ELSE "EXPAND")
  BY <1>6 DEF Grew, nodes, c, q, L
<1>10. \A n \in 1 .. (L + count) : n \in 1 .. L \/ n \in (L + 1) .. (L + count) BY <1>3, <1>4
<1>11. ASSUME NEW n \in 1 .. L PROVE n \in 1 .. (L + count) /\ grown[n].depth = nodes[n].depth /\ grown[n].q = nodes[n].q
  <2>1. n \in 1 .. (L + count) BY <1>3, <1>4
  <2> QED BY <1>18, <2>1 DEF q
<1>12. \A k \in kids : k \in 1 .. (L + count) BY <1>5
<1>13. \A n \in DOMAIN grown : Accounted(grown, n)
  <2> SUFFICES ASSUME NEW n \in 1 .. (L + count) PROVE Accounted(grown, n) BY <1>18
  <2>1. CASE n = c
    <3>1. ASSUME NEW k \in kids PROVE k \in DOMAIN grown /\ grown[k].depth = grown[n].depth + 1
      <4>1. k \in (L + 1) .. (L + count) BY <1>5 DEF L, nodes
      <4>2. grown[k].depth = q.depth + 1 BY ONLY <1>18, <4>1
      <4>3. grown[n].depth = q.depth BY <1>18, <2>1
      <4>4. k \in DOMAIN grown BY <1>12, <1>18
      <4> QED BY <4>2, <4>3, <4>4
    <3>2. grown[n].kids = kids /\ kids # {} /\ grown[n].st = "EXPANDED" /\ grown[n].score # Pass
      BY <1>5, <1>18, <1>8, <2>1
    <3> QED BY ONLY <3>1, <3>2 DEF Accounted
  <2>2. CASE n \in 1 .. L /\ n # c
    <3>1. grown[n] = nodes[n] /\ Accounted(nodes, n) BY <1>18, <1>7, <2>2
    <3>2. \A k \in nodes[n].kids : k \in 1 .. L /\ nodes[k].depth = nodes[n].depth + 1
      BY <1>3, <3>1 DEF Accounted
    <3>3. \A k \in nodes[n].kids : k \in DOMAIN grown /\ grown[k].depth = nodes[n].depth + 1
      <4>1. \A k \in 1 .. L : k \in DOMAIN grown /\ grown[k].depth = nodes[k].depth BY <1>11, <1>18
      <4> QED BY ONLY <3>2, <4>1
    <3>4. nodes[n].st = "LIMIT_REACHED" => nodes[n].depth = MaxDepth
      BY <1>1, <1>3, <1>4, <3>1 DEF Accounted, L
    <3> QED BY <3>1, <3>3, <3>4 DEF Accounted
  <2>3. CASE n \in (L + 1) .. (L + count) BY <1>18, <2>3 DEF Accounted
  <2> QED BY <1>10, <2>1, <2>2, <2>3
<1>19. tree'.queue = tree.queue \cup Queued(grown, kids) OBVIOUS
<1>14. Waiting(grown, tree'.queue, 0)
  <2>1. ASSUME NEW n \in tree.queue PROVE n \in DOMAIN grown /\ grown[n].st = "EXPAND"
    <3>1. n \in 1 .. L /\ nodes[n].st = "EXPAND" /\ n # c BY <1>1, <1>3, <1>7 DEF Waiting
    <3> QED BY <1>18, <1>11, <3>1
  <2>2. ASSUME NEW n \in Queued(grown, kids) PROVE n \in DOMAIN grown /\ grown[n].st = "EXPAND"
    BY <1>18, <1>12 DEF Queued
  <2>3. ASSUME NEW n \in DOMAIN grown, grown[n].st = "EXPAND"
        PROVE  n \in tree'.queue \/ (n >= MaxNodes /\ grown[n].depth > 0)
    <3>1. CASE n \in 1 .. L
      <4>1. n # c BY <1>18, <2>3
      <4>2. nodes[n].st = "EXPAND" BY <1>18, <2>3, <3>1, <4>1
      <4>3. n \in tree.queue \/ n >= MaxNodes BY <1>3, <1>7, <3>1, <4>1, <4>2 DEF Waiting
      <4> QED BY <1>1, <1>3, <1>4, <3>1, <4>3 DEF L
    <3>2. CASE n \in (L + 1) .. (L + count)
      <4>1. CASE n < MaxNodes BY <1>5, <2>3, <3>2, <4>1 DEF Queued
      <4>2. CASE ~(n < MaxNodes)
        <5>1. n >= MaxNodes BY <1>3, <1>4, <3>2, <4>2
        <5>2. q.depth \in Nat BY <1>3 DEF Node
        <5>4. grown[n].depth = q.depth + 1 BY ONLY <1>18, <3>2
        <5>3. grown[n].depth > 0 BY <5>2, <5>4
        <5> QED BY <5>1, <5>3
      <4> QED BY <4>1, <4>2
    <3> QED BY <1>18, <1>10, <3>1, <3>2
  <2> QED BY <2>1, <2>2, <2>3 DEF Waiting
<1>15. Len(grown) < MaxNodes + MaxChildren
  <2>1. L + count < MaxNodes + MaxChildren BY <1>1, <1>3, <1>4
  <2> QED BY <1>18, <2>1
<1>16. tree'.queue \subseteq Nat
  <2>1. tree.queue \subseteq Nat /\ kids \subseteq Nat BY <1>1, <1>5 DEF Tree
  <2> QED BY <1>19, <2>1 DEF Queued
<1>17. tree' \in Tree
  <2>1. /\ tree.focus \in BOOLEAN /\ tree.queue \cup Queued(grown, kids) \in SUBSET Nat
        /\ tree.asked \cup fresh \in SUBSET Question
    BY <1>1, <1>16, <1>19 DEF Tree
  <2> QED BY <1>18, <2>1 DEF Tree
<1>20. tree'.nodes = grown /\ tree'.cur = 0 /\ tree'.pc = "loop" /\ tree'.asked = tree.asked \cup fresh OBVIOUS
<1>21. Named(grown, tree.asked \cup fresh)
  <2>1. /\ Named(nodes, tree.asked) /\ DOMAIN nodes = 1 .. L /\ nodes[c].kids = {}
        /\ Cardinality(grown[c].kids) = count
    BY <1>1, <1>3, <1>5, <1>18 DEF TreeInv, Accounted, nodes, q
  <2>2. /\ \A n \in 1 .. L : grown[n].q = nodes[n].q /\ (n # c => grown[n] = nodes[n])
        /\ \A n \in (L + 1) .. (L + count) : n - L \in 1 .. count /\ grown[n].q = qs[n - L]
        /\ DOMAIN grown = 1 .. (L + count)
    BY <1>11, <1>18
  <2>3. PICK asked : asked = tree.asked OBVIOUS
  <2>4. /\ fresh \cap asked = {} /\ Named(nodes, asked) /\ \A i \in 1 .. count : qs[i] \in fresh
        /\ \A i, j \in 1 .. count : qs[i] = qs[j] => i = j
        /\ count = MaxChildren \/ \A x \in fresh : \E i \in 1 .. count : qs[i] = x
        /\ L \in Nat /\ count \in Nat \ {0} /\ c \in 1 .. L
    BY <1>3, <1>4, <1>9, <2>1, <2>3
  <2>6. Appended(nodes, grown, L, count, c, asked, fresh, qs) BY ONLY <2>1, <2>2, <2>4 DEF Appended
  <2>5. Named(grown, asked \cup fresh) BY ONLY <2>6, FamilyNamed
  <2> QED BY <2>3, <2>5
<1> QED BY <1>13, <1>14, <1>15, <1>17, <1>20, <1>21 DEF TreeInv, Limited

\* As many as there are, or as many as the fan-out allows.
LEMMA FirstAreAll ==
    ASSUME NEW fresh \in SUBSET Question, fresh # {}, NEW qs \in FirstOf(fresh)
    PROVE  \E count \in 1 .. MaxChildren :
              /\ qs \in [1 .. count -> fresh] /\ \A i, j \in 1 .. count : qs[i] = qs[j] => i = j
              /\ count = MaxChildren \/ \A x \in fresh : \E i \in 1 .. count : qs[i] = x
<1> DEFINE count == Least(Cardinality(fresh), MaxChildren)
<1>1. IsFiniteSet(fresh) /\ Cardinality(fresh) \in Nat \ {0}
  BY TreeConstants, FS_Subset, FS_CardinalityType, FS_EmptySet
<1>2. /\ count \in 1 .. MaxChildren /\ count \in Nat
      /\ count = MaxChildren \/ count = Cardinality(fresh)
  BY <1>1, TreeNumbers DEF Least
<1>3. qs \in [1 .. count -> fresh] /\ \A i, j \in 1 .. count : qs[i] = qs[j] => i = j
  BY DEF FirstOf, Distinct
<1> HIDE DEF count
<1>4. CASE count = Cardinality(fresh)
  <2>1. qs \in Injection(1 .. count, fresh) BY <1>3 DEF Injection, IsInjective
  <2>2. Cardinality(1 .. count) = count BY <1>2, FS_Interval
  <2>3. qs \in Surjection(1 .. count, fresh) BY <1>1, <1>4, <2>1, <2>2, FS_Injection
  <2> QED BY <1>2, <1>3, <2>3 DEF Surjection
<1> QED BY <1>2, <1>3, <1>4

LEMMA SplitInv == ASSUME TreeInv, Split PROVE TreeInv'
<1> DEFINE n == tree.cur
           Kids(qs) == {Len(tree.nodes) + i : i \in DOMAIN qs}
           Grows(qs, score) == [tree.nodes EXCEPT ![n].st = "EXPANDED", ![n].kids = Kids(qs)]
               \o [i \in DOMAIN qs |-> Asked(qs[i], tree.nodes[n].depth + 1, score[i])]
<1>1. PICK S \in SUBSET Question :
        LET fresh == S \ tree.asked IN
        \/ tree' = [tree EXCEPT !.pc = "loop", !.cur = 0, !.relevant = FALSE,
                                !.nodes[n].st = "STALLED_NO_NEW_ATOMIC_EVIDENCE"]
        \/ /\ fresh # {}
           /\ \E qs \in FirstOf(fresh) : \E score \in [DOMAIN qs -> Score] :
                 tree' = [tree EXCEPT !.pc = "loop", !.cur = 0, !.relevant = FALSE, !.nodes = Grows(qs, score),
                            !.queue = @ \cup Queued(Grows(qs, score), Kids(qs)), !.asked = @ \cup fresh]
  <2>1. PICK E \in EvidenceChildren, F \in FileChildren(tree.nodes[n].q), H \in HunkChildren(tree.nodes[n].q),
             D \in DiagnosticChildren(tree.nodes[n].q) :
          LET fresh == Unasked(E \cup F \cup H \cup D) IN
          \/ fresh = {} /\ Settled(n, "STALLED_NO_NEW_ATOMIC_EVIDENCE")
          \/ /\ fresh # {}
             /\ \E qs \in FirstOf(fresh) : \E score \in [DOMAIN qs -> Score] :
                   tree' = [tree EXCEPT !.pc = "loop", !.cur = 0, !.relevant = FALSE, !.nodes = Grows(qs, score),
                              !.queue = @ \cup Queued(Grows(qs, score), Kids(qs)), !.asked = @ \cup fresh]
    BY DEF Split
  <2>2. E \subseteq Question /\ F \subseteq Question /\ H \subseteq Question /\ D \subseteq Question
    BY DEF EvidenceChildren, FileChildren, HunkChildren, DiagnosticChildren, Of
  <2>3. E \cup F \cup H \cup D \in SUBSET Question BY <2>2
  <2> HIDE DEF Grows, Kids
  <2> QED BY <2>1, <2>3 DEF Unasked, Settled
<1> DEFINE fresh == S \ tree.asked
<1>2. tree.pc = "split" /\ tree \in Tree BY DEF Split, TreeInv
<1>3. CASE tree' = [tree EXCEPT !.pc = "loop", !.cur = 0, !.relevant = FALSE,
                                !.nodes[n].st = "STALLED_NO_NEW_ATOMIC_EVIDENCE"]
  BY <1>2, <1>3, StalledInv
<1>4. CASE /\ fresh # {}
           /\ \E qs \in FirstOf(fresh) : \E score \in [DOMAIN qs -> Score] :
                 tree' = [tree EXCEPT !.pc = "loop", !.cur = 0, !.relevant = FALSE, !.nodes = Grows(qs, score),
                            !.queue = @ \cup Queued(Grows(qs, score), Kids(qs)), !.asked = @ \cup fresh]
  <2> HIDE DEF Grows, Kids, fresh
  <2>1. PICK qs \in FirstOf(fresh) : \E score \in [DOMAIN qs -> Score] :
               tree' = [tree EXCEPT !.pc = "loop", !.cur = 0, !.relevant = FALSE, !.nodes = Grows(qs, score),
                          !.queue = @ \cup Queued(Grows(qs, score), Kids(qs)), !.asked = @ \cup fresh]
    BY <1>4
  <2>2. PICK score \in [DOMAIN qs -> Score] :
               tree' = [tree EXCEPT !.pc = "loop", !.cur = 0, !.relevant = FALSE, !.nodes = Grows(qs, score),
                          !.queue = @ \cup Queued(Grows(qs, score), Kids(qs)), !.asked = @ \cup fresh]
    BY <2>1
  <2>3. fresh \in SUBSET Question /\ fresh \cap tree.asked = {} BY DEF fresh
  <2>12. fresh # {} /\ qs \in FirstOf(fresh) BY <1>4, <2>1
  <2>4. PICK count \in 1 .. MaxChildren :
              /\ qs \in [1 .. count -> fresh] /\ \A i, j \in 1 .. count : qs[i] = qs[j] => i = j
              /\ count = MaxChildren \/ \A x \in fresh : \E i \in 1 .. count : qs[i] = x
    BY ONLY <2>3, <2>12, FirstAreAll
  <2>5. DOMAIN qs = 1 .. count /\ score \in [1 .. count -> Score] BY <2>4
  <2>6. PICK kids : kids = Kids(qs) OBVIOUS
  <2>7. PICK grown : grown = Grows(qs, score) OBVIOUS
  <2>8. kids = {Len(tree.nodes) + i : i \in 1 .. count} BY <2>5, <2>6 DEF Kids
  <2>9. grown = Family(tree.nodes, tree.cur, kids, count, qs, score) BY <2>5, <2>6, <2>7 DEF Grows, Family
  <2>10. tree' = [pc |-> "loop", focus |-> tree.focus, nodes |-> grown, queue |-> tree.queue \cup Queued(grown, kids),
                  asked |-> tree.asked \cup fresh, cur |-> 0, relevant |-> FALSE]
    BY <1>2, <2>2, <2>6, <2>7 DEF Tree
  <2>11. TreeInv /\ tree.pc = "split" BY <1>2
  <2> HIDE DEF n
  <2> QED BY ONLY <2>3, <2>4, <2>5, <2>8, <2>9, <2>10, <2>11, FamilyInv
<1> QED BY <1>1, <1>3, <1>4

LEMMA CutOffInv == ASSUME TreeInv, CutOff PROVE TreeInv'
<1> DEFINE nodes == tree.nodes
           new == [n \in DOMAIN nodes |-> IF n \in tree.queue /\ nodes[n].st = "EXPAND"
                                          THEN [nodes[n] EXCEPT !.st = "LIMIT_REACHED"] ELSE nodes[n]]
<1>1. /\ tree \in Tree /\ tree.pc = "loop" /\ tree.cur = 0 /\ tree' = [tree EXCEPT !.pc = "done", !.queue = {}, !.nodes = new]
      /\ tree.queue = {} \/ Len(nodes) >= MaxNodes
  BY TreeNumbers DEF CutOff, Looping, TreeInv, Tree
<1>2. /\ nodes \in Seq(Node) /\ Len(nodes) \in Nat /\ DOMAIN nodes = 1 .. Len(nodes)
      /\ \A n \in DOMAIN nodes : nodes[n] \in Node
  BY <1>1 DEF Tree
<1>3. \A n \in DOMAIN nodes :
        /\ new[n] \in Node /\ new[n].depth = nodes[n].depth /\ new[n].score = nodes[n].score
        /\ new[n].kids = nodes[n].kids /\ new[n].q = nodes[n].q
        /\ new[n].st = IF n \in tree.queue /\ nodes[n].st = "EXPAND" THEN "LIMIT_REACHED" ELSE nodes[n].st
  BY <1>2 DEF Node, Status
<1>10. \A n \in 1 .. Len(nodes) : new[n] \in Node BY <1>2, <1>3
<1>11. new = [n \in 1 .. Len(nodes) |-> new[n]] BY <1>2
<1> HIDE DEF new
<1>4. new \in Seq(Node) /\ Len(new) = Len(nodes) /\ DOMAIN new = DOMAIN nodes BY <1>2, <1>10, <1>11, NodeSeq
<1>5. \A n \in DOMAIN new : Accounted(new, n)
  <2> SUFFICES ASSUME NEW n \in DOMAIN nodes PROVE Accounted(new, n) BY <1>4
  <2>1. Accounted(nodes, n) BY DEF TreeInv
  <2>2. nodes[n].kids \subseteq {k \in DOMAIN new : new[k].depth = nodes[n].depth + 1}
    BY <1>3, <1>4, <2>1 DEF Accounted
  <2> QED BY <1>1, <1>3, <1>4, <2>1, <2>2 DEF Accounted
<1>6. Waiting(nodes, tree.queue, 0) /\ Limited(nodes) BY <1>1 DEF TreeInv
<1>7. Waiting(new, {}, 0) BY <1>2, <1>3, <1>4, <1>6 DEF Waiting
<1>8. Limited(new) BY <1>3, <1>4, <1>6 DEF Limited
<1>9. /\ tree' \in Tree /\ tree'.nodes = new /\ tree'.queue = {} /\ tree'.cur = 0 /\ tree'.pc = "done"
      /\ tree'.asked = tree.asked
  BY <1>1, <1>4 DEF Tree
<1>12. Named(nodes, tree.asked) BY DEF TreeInv
<1>13. Named(new, tree'.asked) BY <1>3, <1>4, <1>9, <1>12 DEF Named
<1> QED BY <1>5, <1>7, <1>8, <1>9, <1>13 DEF TreeInv

LEMMA TreeStepInv == ASSUME TreeInv, TreeStep PROVE TreeInv'
BY TakeNodeInv, NodeStepInv, SplitInv, CutOffInv, NoTreeInvNext DEF TreeStep, TreeFails
-----------------------------------------------------------------------------
(* The transactions: only apply makes one apply.                           *)
TxnFiles == txn = [t \in Txn |-> txn[t]] /\ \A t \in Txn : "st" \in DOMAIN txn[t]

LEMMA OneSaved ==
    ASSUME TxnFiles, NEW u, NEW r, txn' = [txn EXCEPT ![u] = r], u \in Txn => "st" \in DOMAIN r
    PROVE  /\ TxnFiles'
           /\ (u \in Txn => r.st # "APPLYING") =>
                 \A t \in Txn : txn'[t].st = "APPLYING" => txn[t].st = "APPLYING"
<1>1. \A t \in Txn : txn'[t] = IF t = u THEN r ELSE txn[t] BY DEF TxnFiles
<1>2. txn' = [t \in Txn |-> txn'[t]] BY DEF TxnFiles
<1> QED BY <1>1, <1>2 DEF TxnFiles

StaysOut == TxnFiles' /\ \A t \in Txn : txn'[t].st = "APPLYING" => txn[t].st = "APPLYING"

LEMMA SameTxn == ASSUME TxnFiles, txn' = txn PROVE StaysOut
BY DEF TxnFiles, StaysOut

LEMMA Marked ==
    ASSUME TxnFiles, NEW u, NEW r, txn' = [txn EXCEPT ![u] = r],
           u \in Txn => "st" \in DOMAIN r /\ r.st # "APPLYING"
    PROVE  StaysOut
BY OneSaved DEF StaysOut

LEMMA Recorded ==
    ASSUME TxnFiles, NEW p, NEW u, NEW r, NEW pc, Record(p, u, r, pc),
           u \in Txn => "st" \in DOMAIN r /\ r.st # "APPLYING"
    PROVE  StaysOut
<1>1. CASE txn' = txn BY <1>1, SameTxn
<1>2. CASE txn' = [txn EXCEPT ![u] = r] BY <1>2, Marked
<1> QED BY <1>1, <1>2 DEF Record

LEMMA Ended ==
    ASSUME TxnFiles, NEW p, NEW u, Publish(p, u) \/ RollBack(p, u)
    PROVE  StaysOut
<1>1. CASE Publish(p, u)
  <2> DEFINE r == [txn[u] EXCEPT !.st = "POSTCHECK_VERIFIED", !.post = newest']
  <2>1. u \in Txn => "st" \in DOMAIN r /\ r.st # "APPLYING" BY DEF TxnFiles
  <2>2. Record(p, u, r, "terminal") BY <1>1 DEF Publish
  <2> HIDE DEF r
  <2>3. CASE txn' = txn BY <2>3, SameTxn
  <2>4. CASE txn' = [txn EXCEPT ![u] = r] BY <2>1, <2>4, Marked
  <2> QED BY <2>2, <2>3, <2>4 DEF Record
<1>2. CASE RollBack(p, u)
  <2> DEFINE r == [txn[u] EXCEPT !.st = "ROLLED_BACK"]
  <2>1. u \in Txn => "st" \in DOMAIN r /\ r.st # "APPLYING" BY DEF TxnFiles
  <2>2. Record(p, u, r, "terminal") BY <1>2 DEF RollBack
  <2> HIDE DEF r
  <2>3. CASE txn' = txn BY <2>3, SameTxn
  <2>4. CASE txn' = [txn EXCEPT ![u] = r] BY <2>1, <2>4, Marked
  <2> QED BY <2>2, <2>3, <2>4 DEF Record
<1> QED BY <1>1, <1>2

LEMMA InvestigateKeeps == ASSUME TxnFiles, NEW p \in Proc, Investigate(p) PROVE StaysOut
<1>1. txn' = txn
  <2>1. CASE ReadPackage(p) \/ Refused(p) BY <2>1 DEF ReadPackage, Refused, files
  <2>2. ASSUME NEW g \in Session, Start(p, g) \/ Enter(p, g) PROVE txn' = txn
    BY <2>2 DEF Start, Enter, OnlySession
  <2>3. ASSUME NEW g \in Session, PatchClose(p, g) \/ FreshRun(p, g) PROVE txn' = txn
    BY <2>3 DEF PatchClose, FreshRun, OnlySession
  <2>4. ASSUME NEW g \in Session, NEW S \in SUBSET Path, Advance(p, g, S) PROVE txn' = txn
    BY <2>4 DEF Advance, OnlySession
  <2>5. ASSUME NEW g \in Session, NEW S \in SUBSET Path, Reserve(p, g, S) PROVE txn' = txn
    BY <2>5 DEF Reserve, OnlySession
  <2>6. ASSUME NEW g \in Session, NEW target \in {"HYPOTHESIS", "MAP"}, Reframe(p, g, target) PROVE txn' = txn
    BY <2>6 DEF Reframe, OnlySession
  <2>7. ASSUME NEW g \in Session, Reconcile(p, g) PROVE txn' = txn BY <2>7 DEF Reconcile, files
  <2> QED BY <2>1, <2>2, <2>3, <2>4, <2>5, <2>6, <2>7 DEF Investigate
<1> QED BY <1>1, SameTxn

LEMMA EnvironmentKeeps == ASSUME TxnFiles, Environment PROVE StaysOut
<1>1. txn' = txn BY DEF Environment, ForeignEdit, IdentityChanges, Inspect, OnlySession, files
<1> QED BY <1>1, SameTxn

LEMMA MaterialiseKeeps == ASSUME TxnFiles, NEW p \in Proc, Materialise(p) PROVE StaysOut
<1> DEFINE r == [NoFile EXCEPT !.st = "CHECKED_OUT", !.base = proc[p].pkg, !.req = proc[p].req]
<1>1. "st" \in DOMAIN r /\ r.st # "APPLYING" BY DEF NoFile
<1>2. txn' = [txn EXCEPT ![proc[p].t] = r] BY DEF Materialise, OnlyTxn
<1> HIDE DEF r
<1> QED BY <1>1, <1>2, Marked

LEMMA AbortKeeps == ASSUME TxnFiles, NEW p \in Proc, NEW t \in Txn, Abort(p, t) PROVE StaysOut
<1>1. PICK st \in {"ABORTED", "ABORTED_STALE_BASELINE"} : txn' = [txn EXCEPT ![t] = [txn[t] EXCEPT !.st = st]]
  BY DEF Abort, OnlyTxn
<1> DEFINE r == [txn[t] EXCEPT !.st = st]
<1>2. "st" \in DOMAIN r /\ r.st # "APPLYING" BY DEF TxnFiles
<1>3. txn' = [txn EXCEPT ![t] = r] BY <1>1
<1> HIDE DEF r
<1> QED BY <1>2, <1>3, Marked

LEMMA ApplyFailsKeeps == ASSUME TxnFiles, NEW p \in Proc, ApplyFails(p) PROVE StaysOut
<1>1. CASE RollBack(p, proc[p].t) BY <1>1, Ended
<1>2. CASE Record(p, proc[p].t, [txn[proc[p].t] EXCEPT !.st = "RECOVERY_REQUIRED"], "idle")
  <2> DEFINE r == [txn[proc[p].t] EXCEPT !.st = "RECOVERY_REQUIRED"]
  <2>1. proc[p].t \in Txn => "st" \in DOMAIN r /\ r.st # "APPLYING" BY DEF TxnFiles
  <2>2. txn' = txn \/ txn' = [txn EXCEPT ![proc[p].t] = r] BY <1>2 DEF Record
  <2> HIDE DEF r
  <2> QED BY <2>1, <2>2, Marked, SameTxn
<1> QED BY <1>1, <1>2 DEF ApplyFails

LEMMA WorkKeeps == ASSUME TxnFiles, NEW p \in Proc, Work(p) PROVE StaysOut
<1>1. CASE ApplyEnds(p) BY <1>1, Ended DEF ApplyEnds
<1>2. CASE \E t \in Txn : Recover(p, t) BY <1>2, Ended DEF Recover
<1>3. CASE \E t \in Txn : Abort(p, t) BY <1>3, AbortKeeps
<1>4. CASE Materialise(p) \/ ApplyFails(p) BY <1>4, MaterialiseKeeps, ApplyFailsKeeps
<1>5. CASE \/ Manifest(p) \/ Bind(p) \/ CheckoutFails(p) \/ Cancel(p)
           \/ AssertRelease(p) \/ Unlease(p) \/ GuardRelease(p) \/ Invalidate(p)
           \/ Unbind(p) \/ Unreserve(p) \/ CancelReservation(p) \/ Reseal(p) \/ Kill(p)
           \/ \E t \in Txn : Acquire(p, t) \/ Resume(p, t)
  <2>1. txn' = txn
    BY <1>5 DEF Manifest, Bind, CheckoutFails, Cancel, AssertRelease, Unlease, GuardRelease, Invalidate, Unbind,
                Unreserve, CancelReservation, Reseal, Kill, Acquire, Resume, OnlySession, files
  <2> QED BY <2>1, SameTxn
<1> QED BY <1>1, <1>2, <1>3, <1>4, <1>5 DEF Work

LEMMA GuardKeeps == ASSUME TxnFiles, GuardNext PROVE StaysOut
BY InvestigateKeeps, WorkKeeps, EnvironmentKeeps DEF GuardNext

LEMMA PrepareKeeps == ASSUME TxnFiles, NEW p, NEW t \in Txn, NEW S, Prepare(p, t, S) PROVE StaysOut
<1> DEFINE r == [txn[t] EXCEPT !.st = "PREPARED", !.changed = S]
<1>1. "st" \in DOMAIN r /\ r.st # "APPLYING" BY DEF TxnFiles
<1>2. txn' = [txn EXCEPT ![t] = r] BY DEF Prepare, OnlyTxn
<1> HIDE DEF r
<1> QED BY <1>1, <1>2, Marked

LEMMA ApplyKeeps ==
    ASSUME TxnFiles, NEW p, NEW t \in Txn, Apply(p, t)
    PROVE  TxnFiles' /\ \A u \in Txn : u # t => txn'[u] = txn[u]
<1> DEFINE r == [txn[t] EXCEPT !.st = "APPLYING"]
<1>1. "st" \in DOMAIN r BY DEF TxnFiles
<1>2. txn' = [txn EXCEPT ![t] = r] BY DEF Apply
<1> HIDE DEF r
<1>3. TxnFiles' BY <1>1, <1>2, OneSaved
<1> QED BY <1>2, <1>3 DEF TxnFiles

-----------------------------------------------------------------------------
(* The receipts.                                                           *)
File == [t : Txn, cand : Version, iter : Nat, prev : Out \cup {None}, decision : {"APPROVED", "RECONSIDER", "WAITING"},
         seen : Version, twice : BOOLEAN]
Run  == [pc : {"none", "gate", "asked", "check", "tomography", "tree"}, t : Txn \cup {None}, out : Out \cup {None},
         prev : Out \cup {None}, cand : Version, iter : Nat, seen : Version, edits : 0 .. 2, low : BOOLEAN, gaps : BOOLEAN]

ReviewFiles ==
    /\ work \in [Txn -> Version] /\ receipt \in [Out -> File \cup {None}] /\ bound \in [Txn -> File \cup {None}]
    /\ rev \in Run

\* What a receipt, or a command that will write one, continues.
Follow(x) ==
    x.prev # None =>
        /\ Low(receipt[x.prev]) /\ receipt[x.prev].t = x.t
        /\ IF x.decision = "WAITING" THEN x.cand = receipt[x.prev].cand /\ x.iter = receipt[x.prev].iter
                                     ELSE x.cand # receipt[x.prev].cand /\ x.iter = receipt[x.prev].iter + 1

\* What passed was what Jev was shown.
Shown(x) == x.decision = "APPROVED" => x.seen = x.cand \/ x.twice

\* How far the two fingerprints tell whether Jev was shown the candidate.
Fingerprinted ==
    /\ rev.edits = 0 => work[rev.t] = rev.cand /\ (rev.pc # "gate" => rev.seen = rev.cand)
    /\ rev.edits = 1 => work[rev.t] # rev.cand

Running ==
    rev.pc # "none" =>
        /\ rev.t \in Txn /\ rev.out \in Out
        /\ rev.prev # None => /\ Low(receipt[rev.prev]) /\ receipt[rev.prev].t = rev.t
                              /\ receipt[rev.prev].cand # rev.cand /\ rev.iter = receipt[rev.prev].iter + 1
        /\ Fingerprinted

Kept == \A o \in Out : receipt[o] # None =>
            Follow(receipt[o]) /\ Shown(receipt[o]) /\ receipt[o].prev # o

BoundKept == \A t \in Txn : bound[t] # None => \E o \in Out : receipt[o] = bound[t]

ReviewInv == TxnFiles /\ TreeInv /\ ReviewFiles /\ Running /\ Kept /\ BoundKept

\* Receipts are written once, and stay.
LEMMA Emitted ==
    ASSUME receipt \in [Out -> File \cup {None}], Kept, BoundKept, NEW o \in Out, NEW x \in File, Emit(o, x),
           Follow(x), Shown(x), bound' = bound
    PROVE  /\ receipt' \in [Out -> File \cup {None}] /\ Kept' /\ BoundKept'
           /\ \A n \in Out : receipt[n] # None => receipt'[n] = receipt[n]
<1>1. receipt' \in [Out -> File \cup {None}] BY DEF Emit
<1>2. \A n \in Out : receipt[n] # None => receipt'[n] = receipt[n] BY DEF Emit
<1>3. \A n \in Out : receipt'[n] = receipt[n] \/ (n = o /\ receipt[n] = None /\ receipt'[n] = x) BY DEF Emit
<1>4. ASSUME NEW n \in Out, receipt'[n] # None
      PROVE  Follow(receipt[n])' /\ Shown(receipt[n])' /\ receipt'[n].prev # n
  <2> DEFINE y == receipt'[n]
  <2>1. y \in File /\ y.prev \in Out \cup {None} BY <1>1, <1>4 DEF File
  <2>2. Follow(y) /\ Shown(y) BY <1>3, <1>4 DEF Kept
  <2>3. y.prev # None => receipt[y.prev] # None BY <2>2 DEF Follow, Low
  <2>4. y.prev # None => receipt'[y.prev] = receipt[y.prev] BY <1>2, <2>1, <2>3
  <2>5. Follow(receipt[n])' BY <2>2, <2>4 DEF Follow, Low
  <2>6. Shown(receipt[n])' BY <2>2 DEF Shown
  <2>7. y.prev # n
    <3>1. CASE y = receipt[n] BY <1>4, <3>1 DEF Kept
    <3>2. CASE n = o /\ receipt[n] = None BY <2>1, <2>3, <3>2, ReviewConstants
    <3> QED BY <1>3, <3>1, <3>2
  <2> QED BY <2>5, <2>6, <2>7
<1>5. Kept' BY <1>4 DEF Kept
<1>6. BoundKept' BY <1>2 DEF BoundKept
<1> QED BY <1>1, <1>2, <1>5, <1>6

RecInv == ReviewFiles /\ Running /\ Kept /\ BoundKept

LEMMA Rests == ASSUME RecInv, UNCHANGED <<work, receipt, bound, rev>> PROVE RecInv'
BY DEF RecInv, ReviewFiles, Running, Fingerprinted, Kept, Follow, Low, Shown, BoundKept

LEMMA NoReviewType == ASSUME ReviewFiles PROVE NoReview \in Run
<1>1. 0 \in Version BY ReviewConstants DEF Version
<1> QED BY <1>1 DEF NoReview, Run

LEMMA Ends ==
    ASSUME RecInv, ReviewEnds, work' = work, bound' = bound,
           receipt' = receipt \/ \E o \in Out, x \in File : Emit(o, x) /\ Follow(x) /\ Shown(x)
    PROVE  RecInv'
<1>1. rev' \in Run /\ rev'.pc = "none" BY NoReviewType DEF ReviewEnds, RecInv, NoReview
<1>2. CASE receipt' = receipt
  BY <1>1, <1>2 DEF RecInv, ReviewFiles, Running, Kept, Follow, Low, Shown, BoundKept
<1>3. CASE \E o \in Out, x \in File : Emit(o, x) /\ Follow(x) /\ Shown(x)
  <2>1. PICK o \in Out, x \in File : Emit(o, x) /\ Follow(x) /\ Shown(x) BY <1>3
  <2>2. receipt \in [Out -> File \cup {None}] /\ Kept /\ BoundKept BY DEF RecInv, ReviewFiles
  <2>3. receipt' \in [Out -> File \cup {None}] /\ Kept' /\ BoundKept' BY <2>1, <2>2, Emitted
  <2> QED BY <1>1, <2>3 DEF RecInv, ReviewFiles, Running
<1> QED BY <1>2, <1>3

\* What the running command writes.
LEMMA Written ==
    ASSUME RecInv, rev.pc \in {"check", "tree"}, NEW decision \in {"APPROVED", "RECONSIDER"},
           decision = "APPROVED" => work[rev.t] = rev.cand
    PROVE  /\ Receipt(decision, rev.iter) \in File /\ rev.out \in Out
           /\ Follow(Receipt(decision, rev.iter)) /\ Shown(Receipt(decision, rev.iter))
<1>1. rev \in Run /\ rev.t \in Txn /\ rev.out \in Out /\ Fingerprinted BY DEF RecInv, ReviewFiles, Running
<1>2. Receipt(decision, rev.iter) \in File BY <1>1 DEF Receipt, File, Run
<1>3. Follow(Receipt(decision, rev.iter)) BY DEF RecInv, Running, Receipt, Follow
<1>4. rev.edits \in 0 .. 2 BY <1>1 DEF Run
<1>5. decision = "APPROVED" => rev.seen = rev.cand \/ rev.edits > 1 BY <1>1, <1>4 DEF Fingerprinted
<1>6. Shown(Receipt(decision, rev.iter)) BY <1>5 DEF Receipt, Shown
<1> QED BY <1>1, <1>2, <1>3, <1>6

\* The command goes on with the same candidate.
LEMMA GoesOn ==
    ASSUME RecInv, rev.pc # "none", UNCHANGED <<work, receipt, bound>>,
           rev' \in Run, rev'.t = rev.t, rev'.out = rev.out, rev'.prev = rev.prev, rev'.cand = rev.cand,
           rev'.iter = rev.iter, rev'.edits = rev.edits,
           rev'.edits = 0 /\ rev'.pc # "gate" => rev'.seen = rev.cand
    PROVE  RecInv'
BY DEF RecInv, ReviewFiles, Running, Fingerprinted, Kept, Follow, Low, Shown, BoundKept

LEMMA GateKeeps == ASSUME RecInv, Gate PROVE RecInv'
<1>1. /\ rev.pc = "gate" /\ rev \in Run /\ rev.t \in Txn /\ work \in [Txn -> Version] /\ Fingerprinted
      /\ UNCHANGED <<work, receipt, bound>>
  BY DEF Gate, RecInv, ReviewFiles, Running, reviewFiles
<1>2. CASE ReviewEnds BY <1>1, <1>2, Ends
<1>3. CASE rev' = [rev EXCEPT !.pc = "asked", !.seen = work[rev.t]]
  <2>1. /\ rev' \in Run /\ rev'.t = rev.t /\ rev'.out = rev.out /\ rev'.prev = rev.prev /\ rev'.cand = rev.cand
        /\ rev'.iter = rev.iter /\ rev'.edits = rev.edits /\ rev'.seen = work[rev.t]
    BY <1>1, <1>3 DEF Run
  <2> QED BY <1>1, <2>1, GoesOn DEF Fingerprinted
<1> QED BY <1>2, <1>3 DEF Gate

LEMMA AnsweredKeeps == ASSUME RecInv, Answered PROVE RecInv'
<1>1. /\ rev.pc = "asked" /\ rev \in Run /\ Fingerprinted /\ UNCHANGED <<work, receipt, bound>>
  BY DEF Answered, RecInv, ReviewFiles, Running
<1>2. CASE ReviewEnds BY <1>1, <1>2, Ends
<1>3. CASE \E verdict \in Verdict :
             rev' = [rev EXCEPT !.pc = "check", !.low = verdict # "passed", !.gaps = verdict = "gaps"]
  <2>1. /\ rev' \in Run /\ rev'.t = rev.t /\ rev'.out = rev.out /\ rev'.prev = rev.prev /\ rev'.cand = rev.cand
        /\ rev'.iter = rev.iter /\ rev'.edits = rev.edits /\ rev'.seen = rev.seen
    BY ZenonT(30), <1>1, <1>3 DEF Run
  <2> QED BY <1>1, <2>1, GoesOn DEF Fingerprinted
<1> QED BY <1>2, <1>3 DEF Answered

LEMMA WeighKeeps == ASSUME RecInv, Weigh PROVE RecInv'
<1>1. /\ rev.pc = "check" /\ rev \in Run /\ Fingerprinted /\ UNCHANGED <<work, bound>>
  BY DEF Weigh, RecInv, ReviewFiles, Running
<1>2. CASE ReviewEnds /\ receipt' = receipt BY <1>1, <1>2, Ends
<1>3. CASE /\ ReviewEnds
           /\ \E decision \in {"APPROVED", "RECONSIDER"} :
                 work[rev.t] = rev.cand /\ Emit(rev.out, Receipt(decision, rev.iter))
  BY <1>1, <1>3, Written, Ends
<1>4. CASE rev' = [rev EXCEPT !.pc = "tomography"] /\ UNCHANGED receipt
  <2>1. /\ rev' \in Run /\ rev'.t = rev.t /\ rev'.out = rev.out /\ rev'.prev = rev.prev /\ rev'.cand = rev.cand
        /\ rev'.iter = rev.iter /\ rev'.edits = rev.edits /\ rev'.seen = rev.seen
    BY <1>1, <1>4 DEF Run
  <2> QED BY <1>1, <1>4, <2>1, GoesOn DEF Fingerprinted
<1> QED BY <1>2, <1>3, <1>4 DEF Weigh

LEMMA TomographyKeeps == ASSUME RecInv, Tomography PROVE RecInv'
<1>1. /\ rev.pc = "tomography" /\ rev \in Run /\ Fingerprinted /\ UNCHANGED <<work, receipt, bound>>
  BY DEF Tomography, RecInv, ReviewFiles, Running, reviewFiles
<1>2. CASE ReviewEnds BY <1>1, <1>2, Ends
<1>3. CASE rev' = [rev EXCEPT !.pc = "tree"]
  <2>1. /\ rev' \in Run /\ rev'.t = rev.t /\ rev'.out = rev.out /\ rev'.prev = rev.prev /\ rev'.cand = rev.cand
        /\ rev'.iter = rev.iter /\ rev'.edits = rev.edits /\ rev'.seen = rev.seen
    BY <1>1, <1>3 DEF Run
  <2> QED BY <1>1, <2>1, GoesOn DEF Fingerprinted
<1> QED BY <1>2, <1>3 DEF Tomography

LEMMA LowReceiptKeeps == ASSUME RecInv, LowReceipt PROVE RecInv'
<1>1. rev.pc = "tree" /\ ReviewEnds /\ UNCHANGED <<work, bound>> BY DEF LowReceipt
<1>2. CASE receipt' = receipt BY <1>1, <1>2, Ends
<1>3. CASE Emit(rev.out, Receipt("RECONSIDER", rev.iter)) BY <1>1, <1>3, Written, Ends
<1> QED BY <1>2, <1>3 DEF LowReceipt

LEMMA BeginReviewKeeps ==
    ASSUME RecInv, NEW t \in Txn, NEW o \in Out, NEW prev \in Out \cup {None}, BeginReview(t, o, prev)
    PROVE  RecInv'
<1> DEFINE back == Previous(t, o, prev)
           x    == [t |-> t, cand |-> work[t], iter |-> receipt[back].iter, prev |-> back,
                    decision |-> "WAITING", seen |-> 0, twice |-> FALSE]
<1>1. /\ rev = NoReview /\ UNCHANGED <<work, bound>> /\ work[t] \in Version
      /\ back # None => Low(receipt[back]) /\ receipt[back].t = t
  BY DEF BeginReview, RecInv, ReviewFiles
<1>2. back \in Out \cup {None} BY DEF Previous
<1>3. back # None => receipt[back] \in File /\ receipt[back].iter \in Nat
  BY <1>1, <1>2 DEF RecInv, ReviewFiles, File, Low
<1>4. 0 \in Version BY ReviewConstants DEF Version
<1> HIDE DEF back
<1>5. CASE back # None /\ receipt[back].cand = work[t]
  <2>1. Emit(o, x) /\ rev' = rev BY <1>5 DEF BeginReview, back
  <2>2. x \in File BY <1>1, <1>2, <1>3, <1>4, <1>5 DEF File
  <2>3. Follow(x) /\ Shown(x) BY <1>1, <1>5 DEF Follow, Shown
  <2> HIDE DEF x
  <2>4. ReviewEnds BY <1>1, <2>1 DEF ReviewEnds
  <2> QED BY <1>1, <2>1, <2>2, <2>3, <2>4, Ends
<1>6. CASE ~(back # None /\ receipt[back].cand = work[t])
  <2> DEFINE n == IF back = None THEN 1 ELSE receipt[back].iter + 1
  <2>1. /\ receipt' = receipt
        /\ rev' = [[NoReview EXCEPT !.t = t, !.out = o, !.prev = back, !.cand = work[t]] EXCEPT !.pc = "gate", !.iter = n]
    BY <1>6 DEF BeginReview, back
  <2>2. n \in Nat BY <1>3
  <2>4. n = IF back = None THEN 1 ELSE receipt[back].iter + 1 OBVIOUS
  <2> HIDE DEF n
  <2>3. /\ rev'.pc = "gate" /\ rev'.t = t /\ rev'.out = o /\ rev'.prev = back /\ rev'.cand = work[t] /\ rev'.iter = n
        /\ rev'.edits = 0 /\ rev' \in Run
    <3>1. rev' = [pc |-> "gate", t |-> t, out |-> o, prev |-> back, cand |-> work[t], iter |-> n,
                  seen |-> 0, edits |-> 0, low |-> FALSE, gaps |-> FALSE]
      BY <2>1 DEF NoReview
    <3>2. /\ t \in Txn \cup {None} /\ o \in Out \cup {None} /\ back \in Out \cup {None} /\ work[t] \in Version
          /\ 0 \in 0 .. 2
      BY <1>1, <1>2
    <3>3. rev' \in Run BY <1>4, <2>2, <3>1, <3>2 DEF Run
    <3> QED BY <3>1, <3>3
  <2> QED BY <1>1, <1>6, <2>1, <2>3, <2>4 DEF RecInv, ReviewFiles, Running, Fingerprinted, Kept, Follow, Low, Shown, BoundKept
<1> QED BY <1>5, <1>6

LEMMA BindReceiptKeeps == ASSUME RecInv, NEW t \in Txn, NEW o \in Out, BindReceipt(t, o) PROVE RecInv'
<1>1. /\ receipt[o] # None /\ bound' = [bound EXCEPT ![t] = receipt[o]] /\ UNCHANGED <<work, receipt, rev>>
  BY DEF BindReceipt
<1>2. bound' \in [Txn -> File \cup {None}] BY <1>1 DEF RecInv, ReviewFiles
<1>3. BoundKept' BY <1>1 DEF RecInv, ReviewFiles, BoundKept
<1> QED BY <1>1, <1>2, <1>3 DEF RecInv, ReviewFiles, Running, Fingerprinted, Kept, Follow, Low, Shown

LEMMA ReviseKeeps == ASSUME RecInv, NEW t \in Txn, Revise(t) PROVE RecInv'
<1>1. UNCHANGED <<receipt, bound>> BY DEF Revise, reviewFiles
<1>2. PICK v \in Version \ {work[t]} : work' = [work EXCEPT ![t] = v] BY DEF Revise
<1>3. work \in [Txn -> Version] /\ rev \in Run BY DEF RecInv, ReviewFiles
<1>4. work' \in [Txn -> Version] BY <1>2, <1>3
<1>5. CASE rev.t = t /\ rev.edits < 2
  <2>1. rev' = [rev EXCEPT !.edits = rev.edits + 1] BY <1>5 DEF Revise
  <2>2. rev.edits \in 0 .. 2 BY <1>3 DEF Run
  <2>3. rev.edits + 1 \in 1 .. 2 BY <1>5, <2>2
  <2>4. /\ rev' \in Run /\ rev'.edits = rev.edits + 1 /\ rev'.pc = rev.pc /\ rev'.t = t /\ rev'.out = rev.out
        /\ rev'.prev = rev.prev /\ rev'.cand = rev.cand /\ rev'.iter = rev.iter /\ rev'.seen = rev.seen
    BY <1>3, <1>5, <2>1, <2>3 DEF Run
  <2>5. rev'.edits = 1 => rev.edits = 0 BY <2>2, <2>4
  <2>6. rev.pc # "none" => Fingerprinted' BY <1>2, <1>3, <1>5, <2>3, <2>4, <2>5 DEF RecInv, Running, Fingerprinted
  <2>7. ReviewFiles' BY <1>1, <1>4, <2>4 DEF RecInv, ReviewFiles
  <2>8. Running' BY <1>1, <1>5, <2>4, <2>6 DEF RecInv, Running, Low
  <2>9. Kept' /\ BoundKept' BY <1>1 DEF RecInv, Kept, Follow, Low, Shown, BoundKept
  <2> QED BY <2>7, <2>8, <2>9 DEF RecInv
<1>6. CASE ~(rev.t = t /\ rev.edits < 2)
  <2>1. rev' = rev BY <1>6 DEF Revise
  <2>2. rev.edits \in 0 .. 2 BY <1>3 DEF Run
  <2>3. rev.pc # "none" => Fingerprinted' BY <1>2, <1>3, <1>6, <2>1, <2>2 DEF RecInv, Running, Fingerprinted
  <2> QED BY <1>1, <1>4, <2>1, <2>3 DEF RecInv, ReviewFiles, Running, Kept, Follow, Low, Shown, BoundKept
<1> QED BY <1>5, <1>6

-----------------------------------------------------------------------------
(* The invariant.                                                          *)
LEMMA SameTree == ASSUME TreeInv, tree' = tree PROVE TreeInv'
BY DEF TreeInv, Accounted, Waiting, Named, Limited

LEMMA ReviewKeeps ==
    ASSUME ReviewInv, Review
    PROVE  ReviewInv' /\ StaysOut
<1>1. TxnFiles /\ TreeInv /\ RecInv BY DEF ReviewInv, RecInv
<1>2. CASE Gate
  <2>1. txn' = txn /\ tree' = tree BY <1>2 DEF Gate, Unreviewed, gvars, files
  <2> QED BY <1>1, <1>2, <2>1, SameTxn, SameTree, GateKeeps DEF ReviewInv, RecInv, StaysOut
<1>3. CASE Answered
  <2>1. txn' = txn /\ tree' = tree BY <1>3 DEF Answered, Unreviewed, gvars, files
  <2> QED BY <1>1, <1>3, <2>1, SameTxn, SameTree, AnsweredKeeps DEF ReviewInv, RecInv, StaysOut
<1>4. CASE Weigh
  <2>1. txn' = txn /\ tree' = tree BY <1>4 DEF Weigh, Unreviewed, gvars, files
  <2> QED BY <1>1, <1>4, <2>1, SameTxn, SameTree, WeighKeeps DEF ReviewInv, RecInv, StaysOut
<1>5. CASE Tomography
  <2>1. txn' = txn /\ (tree' = tree \/ \E failed \in SUBSET Of("jev_feedback") : FocusRoots(failed))
    BY <1>5 DEF Tomography, Unreviewed, gvars, files
  <2>2. TreeInv' BY <1>1, <2>1, SameTree, FocusRootsInv
  <2> QED BY <1>1, <1>5, <2>1, <2>2, SameTxn, TomographyKeeps DEF ReviewInv, RecInv, StaysOut
<1>6. CASE LowReceipt
  <2>1. txn' = txn /\ tree' = NoTree BY <1>6 DEF LowReceipt, Unreviewed, gvars, files
  <2> QED BY <1>1, <1>6, <2>1, SameTxn, NoTreeInvNext, LowReceiptKeeps DEF ReviewInv, RecInv, StaysOut
<1>7. CASE Grow
  <2>1. txn' = txn /\ UNCHANGED <<work, receipt, bound, rev>> /\ TreeStep
    BY <1>7 DEF Grow, Unreviewed, gvars, files, reviewFiles
  <2> QED BY <1>1, <2>1, SameTxn, TreeStepInv, Rests DEF ReviewInv, RecInv, StaysOut
<1>8. CASE Discard
  <2>1. txn' = txn /\ UNCHANGED <<work, receipt, bound, rev>> /\ tree' = NoTree
    BY <1>8 DEF Discard, Unreviewed, gvars, files, reviewFiles
  <2> QED BY <1>1, <2>1, SameTxn, NoTreeInvNext, Rests DEF ReviewInv, RecInv, StaysOut
<1>9. ASSUME NEW t \in Txn, Explore(t) PROVE ReviewInv' /\ StaysOut
  <2>1. txn' = txn /\ UNCHANGED <<work, receipt, bound, rev>> /\ GenericRoots
    BY <1>9 DEF Explore, Unreviewed, gvars, files, reviewFiles
  <2> QED BY <1>1, <2>1, SameTxn, GenericRootsInv, Rests DEF ReviewInv, RecInv, StaysOut
<1>10. ASSUME NEW t \in Txn, Revise(t) PROVE ReviewInv' /\ StaysOut
  <2>1. txn' = txn /\ tree' = tree BY <1>10 DEF Revise, Unreviewed, gvars, files
  <2> QED BY <1>1, <1>10, <2>1, SameTxn, SameTree, ReviseKeeps DEF ReviewInv, RecInv, StaysOut
<1>11. ASSUME NEW t \in Txn, NEW o \in Out, BindReceipt(t, o) PROVE ReviewInv' /\ StaysOut
  <2>1. txn' = txn /\ tree' = tree BY <1>11 DEF BindReceipt, Unreviewed, gvars, files
  <2> QED BY <1>1, <1>11, <2>1, SameTxn, SameTree, BindReceiptKeeps DEF ReviewInv, RecInv, StaysOut
<1>12. ASSUME NEW t \in Txn, NEW o \in Out, NEW prev \in Out \cup {None}, BeginReview(t, o, prev)
       PROVE  ReviewInv' /\ StaysOut
  <2>1. txn' = txn /\ tree' = tree BY <1>12 DEF BeginReview, Unreviewed, gvars, files
  <2> QED BY <1>1, <1>12, <2>1, SameTxn, SameTree, BeginReviewKeeps DEF ReviewInv, RecInv, StaysOut
<1> QED BY <1>2, <1>3, <1>4, <1>5, <1>6, <1>7, <1>8, <1>9, <1>10, <1>11, <1>12 DEF Review

LEMMA ReviewInvStep == ASSUME ReviewInv, [ReviewNext]_jvars PROVE ReviewInv'
<1>1. TxnFiles /\ TreeInv /\ RecInv BY DEF ReviewInv, RecInv
<1>2. CASE GuardNext /\ UNCHANGED rvars
  <2>1. tree' = tree /\ UNCHANGED <<work, receipt, bound, rev>> BY <1>2 DEF rvars, reviewFiles
  <2> QED BY <1>1, <1>2, <2>1, GuardKeeps, SameTree, Rests DEF ReviewInv, RecInv, StaysOut
<1>3. CASE Review BY <1>3, ReviewKeeps
<1>4. ASSUME NEW p \in Proc, NEW t \in Txn, AdmittedApply(p, t) PROVE ReviewInv'
  <2>1. tree' = tree /\ UNCHANGED <<work, receipt, bound, rev>> /\ Apply(p, t)
    BY <1>4 DEF AdmittedApply, rvars, reviewFiles
  <2> QED BY <1>1, <2>1, ApplyKeeps, SameTree, Rests DEF ReviewInv, RecInv
<1>5. ASSUME NEW p \in Proc, NEW t \in Txn, NEW S \in SUBSET Path, VerifyCandidate(p, t, S) PROVE ReviewInv'
  <2>1. tree' = tree /\ UNCHANGED <<work, receipt, bound, rev>> /\ Prepare(p, t, S)
    BY <1>5 DEF VerifyCandidate, reviewFiles
  <2> QED BY <1>1, <2>1, PrepareKeeps, SameTree, Rests DEF ReviewInv, RecInv, StaysOut
<1>6. CASE UNCHANGED jvars
  <2>1. tree' = tree /\ UNCHANGED <<work, receipt, bound, rev>> /\ txn' = txn
    BY <1>6 DEF jvars, gvars, files, rvars, reviewFiles
  <2> QED BY <1>1, <2>1, SameTxn, SameTree, Rests DEF ReviewInv, RecInv, StaysOut
<1> QED BY <1>2, <1>3, <1>4, <1>5, <1>6 DEF ReviewNext, Candidate

LEMMA ReviewInvInit == ASSUME Init, ReviewInit PROVE ReviewInv
<1>1. TreeInv BY NoTreeInv DEF ReviewInit
<1>2. TxnFiles BY DEF Init, NoFile, TxnFiles
<1>3. 0 \in Version BY ReviewConstants DEF Version
<1>4. ReviewFiles BY <1>3, ReviewConstants DEF ReviewInit, ReviewFiles, NoReview, Run
<1>5. Running /\ Kept /\ BoundKept BY DEF ReviewInit, NoReview, Running, Kept, BoundKept
<1> QED BY <1>1, <1>2, <1>4, <1>5 DEF ReviewInv

(* The invariant: trees with their books in order, receipts that follow    *)
(* one another and stay, bound receipts that exist, and a running command  *)
(* whose two fingerprints tell what the author did in between.             *)
THEOREM ReviewInvariant == ReviewSpec => []ReviewInv
<1>1. Init /\ ReviewInit => ReviewInv BY ReviewInvInit
<1>2. ReviewInv /\ [ReviewNext]_jvars => ReviewInv' BY ReviewInvStep
<1> QED BY <1>1, <1>2, PTL DEF ReviewSpec

(* A finished tree accounts for every question it holds.                   *)
THEOREM TreeIsAccounted == ReviewSpec => []TreeAccounts
<1>1. ReviewInv => TreeAccounts BY TreeAccounted DEF ReviewInv
<1> QED BY <1>1, ReviewInvariant, PTL

(* The attempts on a candidate form a chain whose every link is still      *)
(* there, low, of the same transaction and one iteration older.            *)
THEOREM ChainStays == ReviewSpec => []ChainIsAuditable
<1>1. ReviewInv => ChainIsAuditable BY DEF ReviewInv, ReviewFiles, Kept, Follow, ChainIsAuditable
<1> QED BY <1>1, ReviewInvariant, PTL

\* What a step that makes a transaction apply has seen.
Cleared ==
    \A t \in Txn : txn[t].st # "APPLYING" /\ txn'[t].st = "APPLYING" /\ required =>
      /\ work[t] = verified[t]
      /\ \E o \in Out : /\ receipt[o] = bound[t] /\ receipt[o].t = t /\ ~Low(receipt[o])
                        /\ receipt[o].seen = work[t] \/ receipt[o].twice

LEMMA StepCleared == ASSUME ReviewInv, [ReviewNext]_jvars PROVE Cleared
<1>1. CASE StaysOut BY <1>1 DEF StaysOut, Cleared
<1>2. TxnFiles BY DEF ReviewInv
<1>3. ASSUME NEW p \in Proc, NEW t \in Txn, AdmittedApply(p, t) PROVE Cleared
  <2>1. \A u \in Txn : u # t => txn'[u] = txn[u] BY <1>2, <1>3, ApplyKeeps DEF AdmittedApply
  <2>2. ASSUME required
        PROVE  /\ work[t] = verified[t]
               /\ \E o \in Out : /\ receipt[o] = bound[t] /\ receipt[o].t = t /\ ~Low(receipt[o])
                                 /\ receipt[o].seen = work[t] \/ receipt[o].twice
    <3>1. /\ bound[t] # None /\ bound[t].t = t /\ bound[t].decision = "APPROVED" /\ bound[t].cand = work[t]
          /\ work[t] = verified[t]
      BY <1>3, <2>2 DEF AdmittedApply, Clear
    <3>2. PICK o \in Out : receipt[o] = bound[t] BY <3>1 DEF ReviewInv, BoundKept
    <3>3. Shown(receipt[o]) BY <3>1, <3>2 DEF ReviewInv, Kept
    <3> QED BY <3>1, <3>2, <3>3 DEF Shown, Low
  <2> QED BY <2>1, <2>2 DEF Cleared
<1>4. CASE GuardNext BY <1>1, <1>2, <1>4, GuardKeeps
<1>5. CASE Review BY <1>1, <1>5, ReviewKeeps
<1>6. ASSUME NEW p \in Proc, NEW t \in Txn, NEW S \in SUBSET Path, VerifyCandidate(p, t, S) PROVE Cleared
  BY <1>1, <1>2, <1>6, PrepareKeeps DEF VerifyCandidate
<1>7. CASE UNCHANGED jvars
  <2>1. txn' = txn BY <1>7 DEF jvars, gvars, files
  <2> QED BY <1>1, <1>2, <2>1, SameTxn
<1> QED BY <1>3, <1>4, <1>5, <1>6, <1>7 DEF ReviewNext, Candidate

(* Where Jev is required, apply starts only from the verified candidate,   *)
(* and Jev was shown and passed it, whatever the author did meanwhile.     *)
THEOREM AppliesWhatPassed == ReviewSpec => AppliedWasReviewed
<1>1. ReviewInv /\ [ReviewNext]_jvars => [Cleared]_jvars BY StepCleared
<1> QED BY <1>1, ReviewInvariant, PTL DEF ReviewSpec, AppliedWasReviewed, Cleared

(* The review and the policy beside the Guardian leave the Guardian's own  *)
(* behaviour as it is: its commands wait longer, and nothing else.         *)
THEOREM ReviewImplements == ReviewSpec => Spec
<1>1. [ReviewNext]_jvars => [Next]_gvars
  <2> SUFFICES ASSUME [ReviewNext]_jvars PROVE [Next]_gvars OBVIOUS
  <2>1. CASE GuardNext BY <2>1 DEF Next
  <2>2. CASE Review
    <3>1. CASE Gate \/ Answered \/ Weigh \/ Tomography \/ LowReceipt
      BY <3>1 DEF Gate, Answered, Weigh, Tomography, LowReceipt, Unreviewed
    <3>2. CASE Grow \/ Discard BY <3>2 DEF Grow, Discard, Unreviewed
    <3>3. ASSUME NEW t \in Txn, Revise(t) \/ Explore(t) PROVE UNCHANGED gvars
      BY <3>3 DEF Revise, Explore, Unreviewed
    <3>4. ASSUME NEW t \in Txn, NEW o \in Out, BindReceipt(t, o) PROVE UNCHANGED gvars
      BY <3>4 DEF BindReceipt, Unreviewed
    <3>5. ASSUME NEW t \in Txn, NEW o \in Out, NEW prev \in Out \cup {None}, BeginReview(t, o, prev)
          PROVE  UNCHANGED gvars
      BY <3>5 DEF BeginReview, Unreviewed
    <3>6. CASE \E t \in Txn : \E o \in Out : BindReceipt(t, o) \/ \E prev \in Out \cup {None} : BeginReview(t, o, prev)
      BY <3>4, <3>5, <3>6
    <3>7. CASE \E t \in Txn : Revise(t) \/ Explore(t) BY <3>3, <3>7
    <3> QED BY <2>2, <3>1, <3>2, <3>6, <3>7 DEF Review
  <2>3. CASE Candidate BY <2>3 DEF Candidate, AdmittedApply, VerifyCandidate, Next
  <2>4. CASE UNCHANGED jvars BY <2>4 DEF jvars
  <2> QED BY <2>1, <2>2, <2>3, <2>4 DEF ReviewNext
<1> QED BY <1>1, PTL DEF ReviewSpec, Spec
=============================================================================
