--------------------------- MODULE MCGuardianSession ---------------------------
(***************************************************************************)
(* A small instance of GuardianSession and of the review that apply may    *)
(* ask for, JevReview.                                                     *)
(***************************************************************************)
EXTENDS JevReview

LOCAL INSTANCE TLC

MCSteps == <<"HYPOTHESIS", "MAP", "EXACT_SOURCE", "PROVE">>

(* Two roots of each tree, and for the children two obligations, a file    *)
(* with a region, and a diagnostic.                                        *)
MCKind ==
    [r1 |-> "root", r2 |-> "root", j1 |-> "jev_feedback", j2 |-> "jev_feedback", c1 |-> "evidence",
     c2 |-> "evidence", f |-> "file", h |-> "hunk", d |-> "diagnostic"]

MCQuestion == DOMAIN MCKind
MCRoots    == <<"r1", "r2">>

(* What a behaviour is about: two commands at a time, several sessions, or *)
(* several paths, and of the others one at a time; or the review of one    *)
(* candidate under the policy.                                             *)
VARIABLE about

Symmetry ==
    UNION {Permutations(S) : S \in {Session, Txn, Proc, Path}}

(* The Guardian from its beginning, without the policy and reviews; or     *)
(* the policy and reviews, from where one session has just checked out a   *)
(* transaction, without incidents.                                         *)
MCInit ==
    /\ ReviewInit
    /\ \/ Init /\ required = FALSE /\ about \in {"commands", "sessions", "paths"}
       \/ /\ required = TRUE /\ about = "review"
          /\ \E g \in Session, t \in Txn, a \in Path :
                /\ sess = [s \in Session |-> IF s = g
                       THEN [Absent EXCEPT !.mapped = {a}, !.exact = [pkg |-> 0, paths |-> {a}],
                                           !.patch = [Opened({a}) EXCEPT !.active = t, !.owned = {t}]]
                       ELSE Absent]
                /\ txn = [u \in Txn |-> IF u = t THEN [NoFile EXCEPT !.st = "CHECKED_OUT", !.req = {a}] ELSE NoFile]
                /\ lease = t
          /\ live = 0 /\ seal = 0 /\ newest = 0 /\ memory = 0 /\ task = 0
          /\ proc = [p \in Proc |-> Idle] /\ calm = 0

(* Where no review is required none is looked at; where it is, nothing but *)
(* the review and the two commands that look at the candidate.             *)
MCNext ==
    /\ \/ about # "review" /\ GuardNext /\ UNCHANGED rvars
       \/ about = "review" /\ Review
       \/ Candidate
    /\ UNCHANGED about

MCSpec == MCInit /\ [][MCNext]_<<jvars, about>>

(* Bounds.  Sessions investigate one after the other and inspect all they  *)
(* mapped; Memory and task change under a session, not before the first;   *)
(* both commands wait for the lock of a session only over the first        *)
(* package and before any incident.                                        *)
Bounded ==
    /\ Cardinality({p \in Proc : ~At(p, "idle")}) <= 1 \/ about = "commands"
    /\ Cardinality({p \in Proc : At(p, "guard")}) <= 1 \/ (newest = 0 /\ calm = MaxIncidents)
    /\ about # "sessions" => \E g \in Session : sess[g] = Absent
    /\ about # "paths"    => Cardinality(UNION {sess[g].mapped : g \in Session}) <= 1
    /\ Cardinality({g \in Session : sess[g] # Absent /\ sess[g].patch = None}) <= 1
    /\ \A g \in Session : sess[g].patch # None => sess[g].exact.paths = sess[g].mapped
    /\ memory + task > 0 => \E g \in Session : sess[g] # Absent /\ ~(SameMemory(g) /\ SameScope(g))

(* A tree grows while nothing else happens, a generic one over the first   *)
(* candidate; after the first attempt a focused one has one root.          *)
Reviewing ==
    /\ tree # NoTree /\ tree.focus /\ (\E o \in Out : receipt[o] # None) => Len(tree.nodes) = 1
    /\ tree # NoTree /\ ~tree.focus =>
        /\ \A o \in Out : receipt[o] = None /\ ~evidence[o]
        /\ \A t \in Txn : verified[t] = None /\ work[t] <= 1

TreeAlone == tree.pc \notin {"none", "done"} => tree' # tree

MCBounded == IF about = "review" THEN Reviewing ELSE Bounded
=============================================================================
