----------------------------- MODULE KairosLoop -----------------------------
(***************************************************************************)
(* The numbered loops of a KAIROS workspace on top of its governed         *)
(* commands: close-task, finalize, project-kickoff and new-loop.  Each is  *)
(* several writes to files and to SQLite around a heartbeat, and each must *)
(* be repeatable after a failure or a kill between any two of them.        *)
(***************************************************************************)
EXTENDS KairosGovernance

VARIABLES
    marker,  \* .kairos/finalization_pending: loops whose archive is being written
    fins,    \* finalization_receipts, and whether finalization/<id>.json exists
    trans    \* loop_transition_receipts, by predecessor finalization

loopVars == <<marker, fins, trans>>
vars     == <<govVars, loopVars>>

MaxFins == MaxLoop + MaxIncidents
None == [st |-> "none", kickoff |-> FALSE]

-----------------------------------------------------------------------------
(* close-task: the file, then the active task, then a heartbeat.           *)
CloseTask ==
    /\ cmd.name = "close-task" /\ cmd.at = "act"
    /\ \E p \in cmd.arg :
         IF file[p] = Absent \/ Unsettled # {}
         THEN Raise /\ UNCHANGED <<file, man, touched>>
         ELSE /\ Goto("deroute")
              /\ IF file[p].state = "completed"
                 THEN UNCHANGED <<file, man>>
                 ELSE /\ file[p].rev < MaxRev
                      /\ file' = [file EXCEPT ![p] = Content(@.rev + 1, "completed", 0)]
                      /\ man' = [man EXCEPT ![p] = IF @ = "seen" THEN "stale" ELSE @]
              /\ UNCHANGED touched
    /\ UNCHANGED <<projection, states, tables, raced, calm, loopVars>>

Deroute ==
    /\ cmd.at = "deroute"
    /\ rs' = IF Task(rs.task) \in cmd.arg THEN [rs EXCEPT !.task = 0] ELSE rs
    /\ Goto("read")
    /\ UNCHANGED <<sources, projection, cur, tables, ghosts, calm, loopVars>>

-----------------------------------------------------------------------------
(* finalize. *)

Marked == {Archive(n) : n \in marker}
(* Mutant: whatever is marked is taken for an archive never promoted.      *)
StaleMarked == Marked

Stale == {p \in Marked : row[p] = Absent}

(* An archive that a killed finalize wrote and never promoted is deleted   *)
(* and its events superseded; a promoted one only loses its marker.        *)
RecoverArchive ==
    /\ cmd.name = "finalize" /\ cmd.at = "act"
    /\ LET lost  == {p \in Marked : row[p] # Absent /\ file[p] = Absent}
           mine  == Archive(cur)
           gone  == mine \in Stale \/ file[mine] = Absent IN
         IF lost # {}
         THEN Raise /\ UNCHANGED <<file, event, marker>>
         ELSE /\ file' = [p \in Path |-> IF p \in Stale THEN Absent ELSE file[p]]
              /\ marker' = {}
              /\ event' = IF gone /\ row[mine] = Absent
                          THEN {[e EXCEPT !.st = IF e.path = mine /\ e.st \in {"pending", "failed"}
                                                 THEN "superseded" ELSE @] : e \in event}
                          ELSE event
              /\ Goto("read")
    /\ UNCHANGED <<man, row, states, tables, ghosts, calm, fins, trans>>

(* Mutant: the action of a killed command does not block.                  *)
ReadyOrphaned ==
    /\ cmd.ok /\ Unsettled = {}
    /\ \A n \in Loop : row[Task(n)].state # "active"
    /\ \A q \in quar : q.st # "OPEN"
    /\ permit = <<>> /\ stray = "none"

(* evaluate_finalization_readiness: its own action is the newest one, and  *)
(* counts as unfinished when the heartbeat took more than five minutes.    *)
Ready ==
    /\ cmd.ok /\ Unsettled = {}
    /\ \A n \in Loop : row[Task(n)].state # "active"
    /\ \A q \in quar : q.st # "OPEN"
    /\ permit = <<>> /\ stray = "none" /\ Len(running) = 1

SetLife(l) == rs' = [rs EXCEPT !.life = l]

FinalizeBlocked ==
    /\ cmd.at = "gate"
    /\ (~Ready /\ UNCHANGED calm) \/ Incident
    /\ SetLife("FINALIZING_METADATA_BLOCKED") /\ Raise
    /\ UNCHANGED <<sources, projection, cur, tables, ghosts, loopVars>>

FinalizeReady ==
    /\ cmd.at = "gate" /\ Ready
    /\ SetLife("FINALIZING") /\ Goto("archive")
    /\ UNCHANGED <<sources, projection, cur, tables, ghosts, calm, loopVars>>

(* The marker is written before the archive; a promoted archive is kept.   *)
ReserveArchive ==
    /\ cmd.at = "archive"
    /\ LET p == Archive(cur) IN
       \/ /\ file[p] = Absent /\ row[p] = Absent
          /\ marker' = marker \cup {cur}
          /\ Goto("render")
       \/ /\ file[p] # Absent /\ file[p] = row[p]
          /\ cmd' = [cmd EXCEPT !.at = "next", !.cand = {p}, !.done = {}, !.sealing = TRUE]
          /\ UNCHANGED marker
       \/ /\ file[p] # row[p]
          /\ Goto("block")
          /\ UNCHANGED marker
    /\ UNCHANGED <<sources, projection, states, tables, ghosts, calm, fins, trans>>

Attempt == 1 + MaxIncidents - calm

RenderArchive ==
    /\ cmd.at = "render"
    /\ file' = [file EXCEPT ![Archive(cur)] = Content(1, "finalized", Attempt)]
    /\ cmd' = [cmd EXCEPT !.at = "next", !.cand = {Archive(cur)}, !.done = {}, !.sealing = TRUE]
    /\ UNCHANGED <<man, projection, states, tables, ghosts, calm, loopVars>>

SealManifest ==
    /\ cmd.at = "next" /\ cmd.cand = {} /\ cmd.sealing
    /\ IF cmd.bad
       THEN Goto("block") /\ UNCHANGED <<man, raced, marker>>
       ELSE Seen(cmd.done) /\ marker' = marker \ {cur} /\ Goto("ledger")
    /\ UNCHANGED <<file, touched, projection, states, tables, calm, fins, trans>>

FinalizeFails ==
    /\ cmd.at = "block"
    /\ SetLife("BLOCKED") /\ Raise
    /\ UNCHANGED <<sources, projection, cur, tables, ghosts, calm, loopVars>>

(* The backup packs the sources as they are; then the ledger row.          *)
RecordFinalization ==
    /\ cmd.at = "ledger"
    /\ \/ /\ Unsettled # {} /\ Goto("block") /\ UNCHANGED <<fins, calm>>
       \/ /\ Unsettled = {} /\ Incident /\ Goto("block") /\ UNCHANGED fins
       \/ /\ Unsettled = {} /\ Len(fins) < MaxFins /\ UNCHANGED calm
          /\ fins' = Append(fins, [loop |-> cur, archive |-> row[Archive(cur)], filed |-> FALSE,
                                   sealed |-> {p \in Path : file[p] # Absent}])
          /\ Goto("finalized")
    /\ UNCHANGED <<sources, projection, states, tables, ghosts, marker, trans>>

SaveFinalized ==
    /\ cmd.at = "finalized"
    /\ rs' = [rs EXCEPT !.life = "FINALIZED", !.loop = cur, !.fin = Len(fins)]
    /\ Goto("file")
    /\ UNCHANGED <<sources, projection, cur, tables, ghosts, calm, loopVars>>

FileFinalization ==
    /\ cmd.at = "file"
    /\ fins' = [fins EXCEPT ![rs.fin].filed = TRUE]
    /\ cur' = rs.loop
    /\ Raise
    /\ UNCHANGED <<sources, projection, rs, tables, ghosts, calm, marker, trans>>

-----------------------------------------------------------------------------
(* project-kickoff and new-loop. *)

(* _verify_predecessor: receipt file, ledger row and archive agree.        *)
Predecessor ==
    /\ rs.fin # 0 /\ fins[rs.fin].filed
    /\ LET p == Archive(fins[rs.fin].loop) IN file[p] = fins[rs.fin].archive /\ row[p] = file[p]

NextTask == Task(fins[rs.fin].loop + 1)
Staged == Content(1, "active", 0)
(* Mutant: the receipt is left to the step after the state.                *)
BindLate(kick) == UNCHANGED trans

(* The durable PENDING receipt of a transition.                            *)
Bind(kick) == trans' = [trans EXCEPT ![rs.fin] = [st |-> "PENDING", kickoff |-> kick]]

(* kickoff_project: prepare the receipt, then the sources, then new-loop.  *)
Kickoff ==
    /\ cmd.name = "project-kickoff" /\ cmd.at = "act"
    /\ IF ~Predecessor \/ cmd.arg # {NextTask}
       THEN Raise /\ UNCHANGED trans
       ELSE CASE trans[rs.fin].st = "none" /\ rs.life = "FINALIZED"
                     /\ file[NextTask] = Absent /\ row[NextTask] = Absent -> Bind(TRUE) /\ Goto("stage")
              [] trans[rs.fin].st = "PENDING" /\ trans[rs.fin].kickoff
                     /\ rs.life \in {"FINALIZED", "STARTING_LOOP"} -> UNCHANGED trans /\ Goto("stage")
              [] OTHER -> UNCHANGED trans /\ Raise
    /\ UNCHANGED <<sources, projection, states, tables, ghosts, calm, marker, fins>>

StageTask ==
    /\ cmd.at = "stage"
    /\ IF file[NextTask] \in {Absent, Staged}
       THEN file' = [file EXCEPT ![NextTask] = Staged] /\ Goto("open")
       ELSE UNCHANGED file /\ Raise
    /\ UNCHANGED <<man, projection, states, tables, ghosts, calm, loopVars>>

(* start_new_loop up to its durable PENDING receipt.                       *)
OpenLoop ==
    /\ cmd.at = "open"
    /\ LET known == trans[rs.fin].st IN
       IF /\ Predecessor /\ cmd.arg = {NextTask}
          /\ known = "PENDING" \/ (known = "none" /\ rs.life = "FINALIZED" /\ row[NextTask] = Absent)
          /\ rs.loop \in {fins[rs.fin].loop, fins[rs.fin].loop + 1}
          /\ file[NextTask].state = "active" /\ NextTask \notin fins[rs.fin].sealed
       THEN /\ IF known = "none" THEN Bind(FALSE) ELSE UNCHANGED trans
            /\ Goto("start")
       ELSE UNCHANGED trans /\ Raise
    /\ UNCHANGED <<sources, projection, states, tables, ghosts, calm, marker, fins>>

StartLoop ==
    /\ cmd.at = "start"
    /\ LET n == fins[rs.fin].loop + 1 IN
         rs' = [life |-> "STARTING_LOOP", loop |-> n, task |-> n, fin |-> rs.fin]
    /\ Goto("read")
    /\ UNCHANGED <<sources, projection, cur, tables, ghosts, calm, loopVars>>

VerifyLoop ==
    /\ cmd.at = "verify"
    /\ trans' = IF cmd.ok THEN [trans EXCEPT ![rs.fin].st = "VERIFIED"] ELSE trans
    /\ Raise
    /\ UNCHANGED <<sources, projection, states, tables, ghosts, calm, marker, fins>>

-----------------------------------------------------------------------------
Commands ==
    \/ \E n \in Loop : \/ Invoke("close-task", {Task(n)}, "act")
                       \/ Invoke("project-kickoff", {Task(n)}, "act")
                       \/ Invoke("new-loop", {Task(n)}, "open")
    \/ Invoke("finalize", {}, "act")

Next ==
    \/ (Govern \/ Commands) /\ UNCHANGED loopVars
    \/ CloseTask \/ Deroute
    \/ RecoverArchive \/ FinalizeBlocked \/ FinalizeReady \/ ReserveArchive \/ RenderArchive
    \/ SealManifest \/ FinalizeFails \/ RecordFinalization \/ SaveFinalized \/ FileFinalization
    \/ Kickoff \/ StageTask \/ OpenLoop \/ StartLoop \/ VerifyLoop

Init ==
    /\ GovInit
    /\ marker = {} /\ fins = <<>> /\ trans = [i \in 1..MaxFins |-> None]

Spec == Init /\ [][Next]_vars
=============================================================================
