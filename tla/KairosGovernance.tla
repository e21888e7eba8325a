-------------------------- MODULE KairosGovernance --------------------------
(***************************************************************************)
(* The governed side of a KAIROS workspace with enforcement "required":    *)
(* one command at a time under the workspace lock, each a permit, a        *)
(* RUNNING receipt and a phase; the permits of external edits; the         *)
(* quarantine of edits nobody answers for; and the heartbeat that projects *)
(* the documents into SQLite.  Other actors edit files and, from the       *)
(* Workshop, issue permits without that lock.  Documents are the task and  *)
(* the archive of every loop; goal files and derived documents are not     *)
(* modelled.                                                               *)
(***************************************************************************)
EXTENDS Naturals, Sequences, FiniteSets

CONSTANTS
    MaxLoop,    \* bound: the numbered loops
    Grants,     \* the sets of documents one external-edit permit may name
    Editable,   \* the documents people edit by hand
    MaxRev,     \* bound: the revisions of a document
    MaxPermits, \* bound: external-edit permits that are ACTIVE at a time
    MaxIncidents \* bound: edits by hand, kills, permits that expire, and
                 \* promotions and backups that fail, together

ASSUME KairosConstants ==
    /\ {MaxLoop, MaxRev} \subseteq Nat \ {0} /\ {MaxPermits, MaxIncidents} \subseteq Nat
    /\ Editable \subseteq {"task", "archive"} \X (1 .. MaxLoop)
    /\ \A S \in Grants : S \subseteq {"task", "archive"} \X (1 .. MaxLoop)

VARIABLES
    file,    \* the managed documents
    man,     \* .kairos/manifest.json: the stat signature it holds is current
    row,     \* artifacts.content_sha256: the projected bytes
    event,   \* promotion_events
    rs,      \* .kairos/runtime_state.json
    cur,     \* the loop of current.json
    permit,  \* ACTIVE external-edit permits, in the order of issue
    asked,   \* a permit the Workshop was promised and has not inserted yet
    stray,   \* an ACTIVE permit of a command that died before consuming it
    running, \* RUNNING receipts of governed_action_receipts, oldest first
    phase,   \* governance_state.current_phase
    quar,    \* quarantine_entries
    cmd,     \* the command that holds the workspace lock
    touched, \* the documents edited since the heartbeat began to read
    raced,   \* documents whose manifest entry describes such an edit
    calm     \* how many incidents are still to come

sources    == <<file, man>>
projection == <<row, event>>
states     == <<rs, cur>>
tables     == <<permit, asked, stray, running, phase, quar>>
ghosts     == <<touched, raced>>
govVars    == <<sources, projection, states, tables, cmd, ghosts, calm>>

Loop == 1..MaxLoop
Task(n) == <<"task", n>>
Archive(n) == <<"archive", n>>
Path == {"task", "archive"} \X Loop

Content(r, s, b) == [rev |-> r, state |-> s, by |-> b]
Absent == Content(0, "absent", 0)
Bytes == [rev : 0..MaxRev, state : {"absent", "active", "completed", "finalized"},
          by : 0..(MaxIncidents + 1)]

-----------------------------------------------------------------------------
(* Commands, their phases and the phase table. *)

PhaseOf(name) ==
    CASE name \in {"heartbeat", "governance-status"}       -> "VERIFICATION"
      [] name \in {"promote", "attribute-change"}          -> "MUTATION"
      [] name \in {"action-permit", "revoke-permit"}       -> "COMMAND_INTAKE"
      [] name \in {"close-task", "finalize"}               -> "CLOSURE"
      [] name \in {"new-loop", "project-kickoff"}          -> "ROLLOVER"
      [] name = "recover-action"                           -> "RECOVERY"

Phases == {"COMMAND_INTAKE", "MUTATION", "VERIFICATION", "CLOSURE", "ROLLOVER", "RECOVERY"}

MayFollow(from) ==
    Phases \ CASE from = "COMMAND_INTAKE" -> {}
               [] from = "MUTATION"       -> {"ROLLOVER"}
               [] from = "VERIFICATION"   -> {}
               [] from = "CLOSURE"        -> {"MUTATION"}
               [] from = "ROLLOVER"       -> {"MUTATION", "CLOSURE"}
               [] from = "RECOVERY"       -> {"MUTATION", "CLOSURE"}

Idle == [name |-> "idle", at |-> "", arg |-> {}, cand |-> {}, left |-> {}, who |-> {},
         done |-> {}, bad |-> FALSE, ok |-> FALSE, sealing |-> FALSE,
         doc |-> <<>>]

Completed(n) == row[Task(n)].state = "completed"

(* The task a command acts for; 0 when its scope is not complete. *)
ScopeTask(name, arg) ==
    CASE name \in {"new-loop", "project-kickoff"}  -> CHOOSE n \in Loop : Task(n) \in arg
      [] rs.task # 0                               -> rs.task
      [] name = "close-task"                       ->
             CHOOSE n \in 0..MaxLoop : IF \E m \in Loop : Task(m) \in arg /\ file[Task(m)].state = "completed"
                                       THEN n # 0 /\ Task(n) \in arg ELSE n = 0
      [] name = "finalize" /\ \E n \in Loop : Completed(n) ->
             CHOOSE n \in Loop : Completed(n) /\ \A m \in Loop : Completed(m) => m <= n
      [] OTHER                                     -> 0

ScopePaths(name, arg) ==
    CASE name = "finalize"                                                -> {Archive(cur)}
      [] name \in {"new-loop", "governance-status", "revoke-permit", "recover-action"} -> {}
      [] OTHER                                                            -> arg

(* cli.execute: the permit is issued and consumed, or revoked when the     *)
(* phase may not follow.                                                   *)
Invoke(name, arg, at) ==
    /\ cmd = Idle
    /\ ScopeTask(name, arg) # 0 \/ name = "governance-status"
    /\ PhaseOf(name) \in MayFollow(phase)
    /\ running' = Append(running, [phase |-> PhaseOf(name), task |-> ScopeTask(name, arg),
                                   paths |-> ScopePaths(name, arg)])
    /\ phase' = PhaseOf(name)
    /\ cmd' = [Idle EXCEPT !.name = name, !.at = at, !.arg = arg,
                           !.cand = IF name = "promote" THEN arg ELSE {}]
    /\ UNCHANGED <<sources, projection, states, permit, asked, stray, quar, ghosts, calm>>

Incident == calm > 0 /\ calm' = calm - 1

Goto(at) == cmd' = [cmd EXCEPT !.at = at]
Raise == cmd' = [Idle EXCEPT !.name = cmd.name, !.at = "finish"]

(* finish_cli_action; the Workshop's heartbeat has no action to finish.    *)
Finish ==
    /\ cmd.at = "finish"
    /\ cmd' = Idle /\ touched' = {}
    /\ IF cmd.name = "workshop"
       THEN UNCHANGED <<running, phase>>
       ELSE /\ running' = SubSeq(running, 1, Len(running) - 1)
            /\ phase' = PhaseOf(cmd.name)
    /\ UNCHANGED <<sources, projection, states, permit, asked, stray, quar, raced, calm>>

(* The process of a command dies, releasing the lock: what it left RUNNING *)
(* or ACTIVE stays.                                                        *)
Die ==
    /\ cmd # Idle /\ Incident
    /\ cmd' = Idle /\ touched' = {}
    /\ UNCHANGED <<sources, projection, states, tables, raced>>

DieBeforeConsuming ==
    /\ cmd = Idle /\ rs.task # 0 /\ stray = "none" /\ Incident
    /\ stray' = "timely"
    /\ UNCHANGED <<sources, projection, states, permit, asked, running, phase, quar, cmd, ghosts>>

-----------------------------------------------------------------------------
(* External-edit permits. *)

Without(s, i) == SubSeq(s, 1, i - 1) \o SubSeq(s, i + 1, Len(s))
OnlyTimely(s) == SelectSeq(s, LAMBDA p : ~p.late)

Grantable(S) ==
    /\ rs.task # 0
    /\ "MUTATION" \in MayFollow(phase)
    /\ \A i \in DOMAIN permit : DOMAIN permit[i].before \cap S = {}

(* "apart": inserted some time after the check that allowed it.            *)
Grant(S, apart) ==
    <<[before |-> [p \in S |-> file[p]], task |-> rs.task, late |-> FALSE, apart |-> apart]>>

ActionPermit ==
    /\ cmd.name = "action-permit" /\ cmd.at = "act"
    /\ Raise
    /\ permit' = IF Grantable(cmd.arg) THEN permit \o Grant(cmd.arg, FALSE) ELSE permit
    /\ UNCHANGED <<sources, projection, states, asked, stray, running, phase, quar, ghosts, calm>>

(* The Workshop holds neither a governed action nor the workspace lock: it *)
(* may be held up between the transaction that checks the phase and the    *)
(* overlap and the one that inserts the permit, and it revokes at any time.*)
WorkshopPermit(S) ==
    /\ Grantable(S) /\ Len(permit) < MaxPermits /\ asked = <<>>
    /\ \/ permit' = permit \o Grant(S, FALSE) /\ UNCHANGED <<asked, calm>>
       \/ Incident /\ asked' = Grant(S, TRUE) /\ UNCHANGED permit
    /\ UNCHANGED <<sources, projection, states, stray, running, phase, quar, cmd, ghosts>>

WorkshopInserts ==
    /\ asked # <<>>
    /\ permit' = permit \o asked /\ asked' = <<>>
    /\ UNCHANGED <<sources, projection, states, stray, running, phase, quar, cmd, ghosts, calm>>

WorkshopRevokes ==
    /\ \E i \in DOMAIN permit : permit' = Without(permit, i)
    /\ UNCHANGED <<sources, projection, states, asked, stray, running, phase, quar, cmd, ghosts, calm>>

(* Time passes the expiry of a permit; nobody has noticed yet.             *)
PermitExpires ==
    /\ Incident
    /\ \/ \E i \in DOMAIN permit : ~permit[i].late /\ permit' = [permit EXCEPT ![i].late = TRUE]
                                   /\ UNCHANGED stray
       \/ stray = "timely" /\ stray' = "late" /\ UNCHANGED permit
    /\ UNCHANGED <<sources, projection, states, asked, running, phase, quar, cmd, ghosts>>

RevokePermit ==
    /\ cmd.name = "revoke-permit" /\ cmd.at = "act"
    /\ Raise
    /\ \/ \E i \in DOMAIN permit : permit' = Without(permit, i) /\ UNCHANGED stray
       \/ stray # "none" /\ stray' = "none" /\ UNCHANGED permit
    /\ UNCHANGED <<sources, projection, states, asked, running, phase, quar, ghosts, calm>>

(* governance-status expires what is late and retires the permits whose    *)
(* edit already equals the projection.                                     *)
Reconciled(p) ==
    /\ \E d \in DOMAIN p.before : file[d] # p.before[d]
    /\ \A d \in DOMAIN p.before : row[d] = file[d]

GovernanceStatus ==
    /\ cmd.name = "governance-status" /\ cmd.at = "act"
    /\ Raise
    /\ permit' = SelectSeq(permit, LAMBDA p : ~p.late /\ ~Reconciled(p))
    /\ stray' = IF stray = "late" THEN "none" ELSE stray
    /\ UNCHANGED <<sources, projection, states, asked, running, phase, quar, ghosts, calm>>

(* recover-action fails one RUNNING receipt that is not its own.           *)
RecoverAction ==
    /\ cmd.name = "recover-action" /\ cmd.at = "act"
    /\ Raise
    /\ \E i \in 1..(Len(running) - 1) : running' = Without(running, i)
    /\ UNCHANGED <<sources, projection, states, permit, asked, stray, phase, quar, ghosts, calm>>

-----------------------------------------------------------------------------
(* Quarantine. *)

Open(p) == {q \in quar : q.path = p /\ q.st = "OPEN"}

(* _terminalize_open_quarantine_for_path, for every path of S: superseded  *)
(* rows are never read again.                                              *)
Terminalized(S) ==
    {q \in quar : q.st # "OPEN" \/ q.path \notin S}
        \cup {[q EXCEPT !.st = "ATTRIBUTED"] :
                 q \in {r \in quar : r.path \in S /\ r.bytes = file[r.path] /\ row[r.path] = Absent}}

Reviewable(p) ==
    \/ Open(p) # {}
    \/ [path |-> p, bytes |-> file[p], st |-> "ATTRIBUTED"] \in quar /\ row[p] = Absent

AttributeChange ==
    /\ cmd.name = "attribute-change" /\ cmd.at = "act"
    /\ IF \A p \in cmd.arg : Reviewable(p)
       THEN quar' = Terminalized(cmd.arg) /\ Goto("read")
       ELSE UNCHANGED quar /\ Raise
    /\ UNCHANGED <<sources, projection, states, permit, asked, stray, running, phase, ghosts, calm>>

-----------------------------------------------------------------------------
(* The heartbeat: reconcile, guard, promote, manifest, state. *)

Changed == {p \in Path : file[p] # Absent /\ man[p] # "seen"}
Gone    == {p \in Path : file[p] = Absent /\ man[p] # "none"}

WorkshopHeartbeat ==
    /\ cmd = Idle
    /\ cmd' = [Idle EXCEPT !.name = "workshop", !.at = "read"]
    /\ UNCHANGED <<sources, projection, states, tables, ghosts, calm>>

Explicit == IF cmd.name = "finalize" THEN {} ELSE cmd.arg

Reconcile ==
    /\ cmd.at = "read"
    /\ IF rs.life = "FINALIZED"
       THEN Raise /\ UNCHANGED touched
       ELSE /\ cmd' = [cmd EXCEPT !.cand = Changed \cup Explicit, !.left = Changed \cup Gone,
                                  !.bad = Gone # {}, !.arg = {},
                                  !.at = IF Changed \cup Gone = {} THEN "next" ELSE "guard"]
            /\ touched' = {}
    /\ UNCHANGED <<sources, projection, states, tables, raced, calm>>

(* _consume_matching_external_permit: of the permits of the active task,   *)
(* the first that covers most of what is left.  The bytes must differ from *)
(* those at its issue, and MUTATION must be allowed to follow.             *)
Covers(p) == cmd.left \cap DOMAIN p.before

Matching(s) ==
    LET fit == {i \in DOMAIN s : s[i].task = rs.task /\ Covers(s[i]) # {}}
    IN  {i \in fit : \A j \in fit : \/ Cardinality(Covers(s[j])) < Cardinality(Covers(s[i]))
                                    \/ Cardinality(Covers(s[j])) = Cardinality(Covers(s[i])) /\ i <= j}

NoMatch ==
    /\ cmd.at = "guard" /\ Matching(OnlyTimely(permit)) = {}
    /\ permit' = OnlyTimely(permit)
    /\ Goto("settle")
    /\ UNCHANGED <<sources, projection, states, asked, stray, running, phase, quar, ghosts, calm>>

ConsumePermit ==
    /\ cmd.at = "guard"
    /\ LET timely == OnlyTimely(permit) IN \E i \in Matching(timely) :
         LET mine == Covers(timely[i]) IN
         IF \E p \in mine : file[p] = timely[i].before[p]
         THEN permit' = timely /\ Raise /\ UNCHANGED <<running, phase>>
         ELSE /\ permit' = Without(timely, i)
              /\ IF "MUTATION" \notin MayFollow(phase)
                 THEN Raise /\ UNCHANGED <<running, phase>>
                 ELSE /\ running' = Append(running, [phase |-> "MUTATION", task |-> rs.task,
                                                     paths |-> DOMAIN timely[i].before])
                      /\ phase' = "MUTATION"
                      /\ cmd' = [cmd EXCEPT !.at = "accept", !.who = @ \cup mine, !.left = @ \ mine]
    /\ UNCHANGED <<sources, projection, states, asked, stray, quar, ghosts, calm>>

AcceptEdit ==
    /\ cmd.at = "accept"
    /\ running' = SubSeq(running, 1, Len(running) - 1)
    /\ Goto(IF cmd.left = {} THEN "settle" ELSE "guard")
    /\ UNCHANGED <<sources, projection, states, permit, asked, stray, phase, quar, ghosts, calm>>

(* _running_action_paths: the newest RUNNING action of the active task, or *)
(* else the newest that closes or opens a scope.                           *)
ActionPaths ==
    LET same == {i \in DOMAIN running : running[i].task = rs.task}
        turn == {i \in DOMAIN running : running[i].phase \in {"CLOSURE", "ROLLOVER"}
                                        /\ running[i].paths # {}}
        best == IF same # {} THEN same ELSE turn
    IN  UNION {running[i].paths : i \in {k \in best : \A j \in best : j <= k}}

(* Mutant: what is quarantined does not stop the command.                  *)
SettleOn ==
    /\ cmd.at = "settle"
    /\ quar' = Terminalized(cmd.who \cup (cmd.left \cap ActionPaths))
                 \cup {[path |-> p, bytes |-> file[p], st |-> "OPEN"] : p \in cmd.left \ ActionPaths}
    /\ cmd' = [cmd EXCEPT !.at = "next", !.who = {}, !.left = {}]
    /\ UNCHANGED <<sources, projection, states, permit, asked, stray, running, phase, ghosts, calm>>

(* guard_freshness_changes: a change is answered for by a consumed permit  *)
(* or by the running action; the rest is quarantined and stops the command.*)
Settle ==
    /\ cmd.at = "settle"
    /\ LET answered == cmd.who \cup (cmd.left \cap ActionPaths)
           rest     == cmd.left \ ActionPaths
           news     == {[path |-> p, bytes |-> file[p], st |-> "OPEN"] : p \in rest}
       IN  /\ quar' = Terminalized(answered) \cup news
           /\ IF rest = {} THEN cmd' = [cmd EXCEPT !.at = "next", !.who = {}, !.left = {}] ELSE Raise
    /\ UNCHANGED <<sources, projection, states, permit, asked, stray, running, phase, ghosts, calm>>

-----------------------------------------------------------------------------
(* promote_document. *)

Rank(p) == IF p[1] = "task" THEN p[2] ELSE MaxLoop + p[2]
First(p, S) == \A q \in S : Rank(p) <= Rank(q)

Unsettled == {e \in event : e.st \in {"pending", "failed"}}
Applied(p) == {e.bytes : e \in {a \in event : a.path = p /\ a.st = "applied"}}
WithStatus(p, b, s) ==
    {e \in event : e.path # p \/ e.bytes # b} \cup {[path |-> p, bytes |-> b, st |-> s]}

(* The bytes are read once; an event that already has its receipt returns  *)
(* it, whatever the row holds now.                                         *)
Stage ==
    /\ cmd.at = "next"
    /\ \E p \in cmd.cand :
         LET b == file[p]  rest == cmd.cand \ {p} IN
         /\ First(p, cmd.cand)
         /\ CASE b = Absent ->
                   cmd' = [cmd EXCEPT !.cand = rest, !.bad = TRUE] /\ UNCHANGED event
              [] b # Absent /\ b \in Applied(p) ->
                   cmd' = [cmd EXCEPT !.cand = rest, !.done = @ \cup {p}] /\ UNCHANGED event
              [] OTHER ->
                   /\ cmd' = [cmd EXCEPT !.cand = rest, !.doc = <<p, b>>, !.at = "apply"]
                   /\ event' = IF \E e \in event : e.path = p /\ e.bytes = b THEN event
                               ELSE event \cup {[path |-> p, bytes |-> b, st |-> "pending"]}
    /\ UNCHANGED <<sources, row, states, tables, ghosts, calm>>

(* Another text under a known revision, and a revision below the newest,   *)
(* are refused; so is a document that breaks its contract.                 *)
Conflicts(p, b) ==
    \E c \in Applied(p) : c.rev > b.rev \/ (c.rev = b.rev /\ c # b)

Apply ==
    /\ cmd.at = "apply" /\ ~Conflicts(cmd.doc[1], cmd.doc[2])
    /\ LET p == cmd.doc[1]  b == cmd.doc[2] IN
         /\ row' = [row EXCEPT ![p] = b]
         /\ event' = {[e EXCEPT !.st = IF e.path = p /\ e.st = "failed" /\ e.bytes.rev <= b.rev
                                       THEN "superseded" ELSE @] : e \in WithStatus(p, b, "applied")}
         /\ cmd' = [cmd EXCEPT !.done = @ \cup {p}, !.at = "next"]
    /\ UNCHANGED <<sources, states, tables, ghosts, calm>>

(* Mutant: a failed promotion enters the manifest too.                     *)
ApplyFailsSeen ==
    /\ cmd.at = "apply"
    /\ (Conflicts(cmd.doc[1], cmd.doc[2]) /\ UNCHANGED calm) \/ Incident
    /\ event' = WithStatus(cmd.doc[1], cmd.doc[2], "failed")
    /\ cmd' = [cmd EXCEPT !.bad = TRUE, !.at = "next", !.done = @ \cup {cmd.doc[1]}]
    /\ UNCHANGED <<sources, row, states, tables, ghosts>>

ApplyFails ==
    /\ cmd.at = "apply"
    /\ (Conflicts(cmd.doc[1], cmd.doc[2]) /\ UNCHANGED calm) \/ Incident
    /\ event' = WithStatus(cmd.doc[1], cmd.doc[2], "failed")
    /\ cmd' = [cmd EXCEPT !.bad = TRUE, !.at = "next"]
    /\ UNCHANGED <<sources, row, states, tables, ghosts>>

-----------------------------------------------------------------------------
(* The end of a heartbeat. *)

(* update_manifest takes the signature of the file as it is now.           *)
Seen(S) ==
    LET have == {p \in S : file[p] # Absent} IN
    /\ man' = [p \in Path |-> IF p \in have THEN "seen" ELSE man[p]]
    /\ raced' = (raced \ have) \cup {p \in have : p \in touched}

Manifest ==
    /\ cmd.at = "next" /\ cmd.cand = {} /\ ~cmd.sealing /\ cmd.name # "promote"
    /\ Seen(cmd.done)
    /\ cmd' = [cmd EXCEPT !.at = "save", !.done = {}, !.doc = <<>>]
    /\ UNCHANGED <<file, projection, states, tables, touched, calm>>

SaveState ==
    /\ cmd.at = "save"
    /\ LET verified == ~cmd.bad /\ Unsettled = {} IN
         /\ rs' = [rs EXCEPT !.life = IF verified THEN "ACTIVE" ELSE "BLOCKED"]
         /\ cmd' = [cmd EXCEPT !.ok = verified, !.at = "current", !.bad = FALSE]
    /\ UNCHANGED <<sources, projection, cur, tables, ghosts, calm>>

AfterHeartbeat ==
    CASE cmd.name = "finalize"                        -> "gate"
      [] cmd.name \in {"new-loop", "project-kickoff"} -> "verify"
      [] OTHER                                        -> "finish"

SaveCurrent ==
    /\ cmd.at = "current"
    /\ cur' = rs.loop
    /\ Goto(AfterHeartbeat)
    /\ UNCHANGED <<sources, projection, rs, tables, ghosts, calm>>

(* promote stops after its documents: no guard, no manifest, no state.     *)
PromoteEnds ==
    /\ cmd.at = "next" /\ cmd.name = "promote" /\ cmd.cand = {}
    /\ Raise
    /\ UNCHANGED <<sources, projection, states, tables, ghosts, calm>>

-----------------------------------------------------------------------------
(* People and tools that edit the documents at any time.                   *)
Author(p) ==
    /\ Incident
    /\ \E b \in {Absent} \cup {Content(r, "active", 1) : r \in 1..2}
                 \cup {e.bytes : e \in {d \in event : d.path = p}} :
         /\ b # file[p]
         /\ file' = [file EXCEPT ![p] = b]
         /\ man' = [man EXCEPT ![p] = IF @ = "seen" THEN "stale" ELSE @]
         /\ touched' = IF cmd = Idle THEN touched ELSE touched \cup {p}
    /\ UNCHANGED <<projection, states, tables, cmd, raced>>

Govern ==
    \/ \E S \in Grants : \/ Invoke("action-permit", S, "act")
                         \/ WorkshopPermit(S)
    \/ \E p \in Editable : \/ Invoke("heartbeat", {p}, "read")
                           \/ Invoke("promote", {p}, "next")
                           \/ Invoke("attribute-change", {p}, "act")
                           \/ Author(p)
    \/ Invoke("heartbeat", {}, "read")
    \/ (permit # <<>> \/ stray # "none") /\ Invoke("revoke-permit", {}, "act")
    \/ Invoke("governance-status", {}, "act")
    \/ running # <<>> /\ Invoke("recover-action", {}, "act")
    \/ ActionPermit \/ WorkshopInserts \/ WorkshopRevokes \/ PermitExpires \/ RevokePermit \/ GovernanceStatus \/ RecoverAction
    \/ AttributeChange
    \/ WorkshopHeartbeat \/ Reconcile \/ NoMatch \/ ConsumePermit \/ AcceptEdit \/ Settle
    \/ Stage \/ Apply \/ ApplyFails \/ Manifest \/ SaveState \/ SaveCurrent \/ PromoteEnds
    \/ Finish \/ Die \/ DieBeforeConsuming

GovInit ==
    /\ file = [p \in Path |-> IF p = Task(1) THEN Content(1, "active", 0) ELSE Absent]
    /\ man  = [p \in Path |-> IF p = Task(1) THEN "seen" ELSE "none"]
    /\ row = file
    /\ event = {[path |-> Task(1), bytes |-> file[Task(1)], st |-> "applied"]}
    /\ rs = [life |-> "ACTIVE", loop |-> 1, task |-> 1, fin |-> 0]
    /\ cur = 1
    /\ permit = <<>> /\ asked = <<>> /\ stray = "none" /\ running = <<>> /\ phase = "VERIFICATION" /\ quar = {}
    /\ cmd = Idle
    /\ touched = {} /\ raced = {}
    /\ calm = MaxIncidents
=============================================================================
