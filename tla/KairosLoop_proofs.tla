-------------------------- MODULE KairosLoop_proofs --------------------------
(***************************************************************************)
(* Proofs about the governed commands and the loops of a KAIROS workspace, *)
(* for any number of loops, grants, permits and incidents.  One inductive  *)
(* invariant in five parts: the types and what a command that opens a loop *)
(* has checked; what the promotion of documents keeps; what is under open  *)
(* quarantine; what the gate of finalize has seen; what an archive is.     *)
(***************************************************************************)
EXTENDS MCKairos, SequenceTheorems, TLAPS

Doc == [rev : Nat, state : {"absent", "active", "completed", "finalized"}, by : Nat]
Event == [path : Path, bytes : Doc, st : {"pending", "failed", "applied", "superseded"}]
Entry == [path : Path, bytes : Doc, st : {"OPEN", "ATTRIBUTED"}]
Fin == [loop : Loop, archive : Doc, filed : BOOLEAN, sealed : SUBSET Path]
Tran == [st : {"none", "PENDING", "VERIFIED"}, kickoff : BOOLEAN]
Names == {"idle", "workshop", "heartbeat", "promote", "attribute-change", "action-permit", "revoke-permit",
          "governance-status", "recover-action", "close-task", "finalize", "project-kickoff", "new-loop"}
Ats == {"", "read", "guard", "accept", "settle", "next", "apply", "save", "current", "act", "deroute", "gate",
        "archive", "render", "ledger", "finalized", "file", "block", "stage", "open", "start", "verify", "finish"}
Life == {"ACTIVE", "BLOCKED", "FINALIZING", "FINALIZING_METADATA_BLOCKED", "FINALIZED", "STARTING_LOOP"}
Cmd == [name : Names, at : Ats, arg : SUBSET Path, cand : SUBSET Path,
        left : SUBSET Path, who : SUBSET Path, done : SUBSET Path,
        bad : BOOLEAN, ok : BOOLEAN, sealing : BOOLEAN, doc : (Path \X Doc) \cup {<<>>}]

SourceTypes == file \in [Path -> Doc] /\ man \in [Path -> {"none", "seen", "stale"}]
TableTypes  == row \in [Path -> Doc] /\ event \subseteq Event /\ quar \subseteq Entry
LoopTypes   ==
    /\ rs \in [life : Life, loop : Loop, task : Nat, fin : Nat] /\ cur \in Loop
    /\ marker \subseteq Loop
    /\ fins \in Seq(Fin) /\ Len(fins) <= MaxFins /\ rs.fin <= Len(fins)
    /\ trans \in [1 .. MaxFins -> Tran]
    /\ calm \in 0 .. MaxIncidents

(* The step "apply" has a document in hand, and a command that opens or    *)
(* closes a task has one; before the state enters the next loop the        *)
(* finalization it follows is filed and the receipt pending.               *)
OneTask == \E n \in Loop : cmd.arg = {Task(n)}
Opening ==
    /\ cmd.at = "apply" => cmd.doc \in Path \X Doc
    /\ cmd.at = "act" /\ cmd.name \in {"close-task", "project-kickoff"} => OneTask
    /\ cmd.at \in {"stage", "open", "start"} => OneTask
    /\ cmd.at = "start" => /\ rs.fin # 0 /\ fins[rs.fin].filed /\ trans[rs.fin].st = "PENDING"
                           /\ rs.loop \in {fins[rs.fin].loop, fins[rs.fin].loop + 1}
                           /\ cmd.arg = {NextTask}

TypeInv == SourceTypes /\ TableTypes /\ LoopTypes /\ cmd \in Cmd /\ Opening

-----------------------------------------------------------------------------
(* A command begins under one of the names and at one of the steps that    *)
(* Govern and Commands give it.                                            *)
Started(name, S, at) ==
    /\ name \in Names /\ at \in {"read", "act", "next", "open"} /\ S \subseteq Path
    /\ at = "open" \/ (at = "act" /\ name \in {"close-task", "project-kickoff"})
          => \E n \in Loop : S = {Task(n)}
    /\ at = "next" <=> name = "promote"
    /\ name = "finalize" => at = "act"

Begins == \E name, S, at : Started(name, S, at) /\ Invoke(name, S, at)

(* The actors that do not hold the workspace lock, people aside.           *)
Workshop ==
    \/ \E S \in Grants : WorkshopPermit(S)
    \/ WorkshopInserts \/ WorkshopRevokes \/ PermitExpires \/ DieBeforeConsuming

(* The commands that only change permits, receipts and the phase.          *)
Clerical == ActionPermit \/ RevokePermit \/ GovernanceStatus \/ RecoverAction

(* Every step is one of these; the documents people edit have a path.      *)
LEMMA Steps ==
    ASSUME Next
    PROVE  \/ /\ UNCHANGED loopVars
              /\ \/ Begins \/ Workshop \/ Clerical
                 \/ \E p \in Editable : Author(p)
                 \/ AttributeChange
                 \/ WorkshopHeartbeat \/ Reconcile \/ NoMatch \/ ConsumePermit \/ AcceptEdit \/ Settle
                 \/ Stage \/ Apply \/ ApplyFails \/ Manifest \/ SaveState \/ SaveCurrent \/ PromoteEnds
                 \/ Finish \/ Die
           \/ CloseTask \/ Deroute
           \/ RecoverArchive \/ FinalizeBlocked \/ FinalizeReady \/ ReserveArchive \/ RenderArchive
           \/ SealManifest \/ FinalizeFails \/ RecordFinalization \/ SaveFinalized \/ FileFinalization
           \/ Kickoff \/ StageTask \/ OpenLoop \/ StartLoop \/ VerifyLoop
  <1>1. \A p \in Editable : p \in Path
    BY KairosConstants DEF Path, Loop
  <1>2. \A S \in Grants : S \subseteq Path
    BY KairosConstants DEF Path, Loop
  <1>3. \A n \in Loop : Task(n) \in Path
    BY DEF Path, Task
  <1>4. ASSUME NEW S \in Grants, Invoke("action-permit", S, "act") PROVE Begins
    BY <1>2, <1>4 DEF Begins, Started, Names
  <1>5. ASSUME NEW p \in Editable, Invoke("heartbeat", {p}, "read") PROVE Begins
    BY <1>1, <1>5 DEF Begins, Started, Names
  <1>6. ASSUME NEW p \in Editable, Invoke("promote", {p}, "next") PROVE Begins
    BY <1>1, <1>6 DEF Begins, Started, Names
  <1>7. ASSUME NEW p \in Editable, Invoke("attribute-change", {p}, "act") PROVE Begins
    BY <1>1, <1>7 DEF Begins, Started, Names
  <1>8. Invoke("heartbeat", {}, "read") => Begins
    BY DEF Begins, Started, Names
  <1>9. Invoke("revoke-permit", {}, "act") \/ Invoke("governance-status", {}, "act")
           \/ Invoke("recover-action", {}, "act") => Begins
    <2>1. Started("revoke-permit", {}, "act") /\ Started("governance-status", {}, "act")
             /\ Started("recover-action", {}, "act")
      BY DEF Started, Names
    <2>2. QED BY <2>1 DEF Begins
  <1>10. Invoke("finalize", {}, "act") => Begins
    BY DEF Begins, Started, Names
  <1>11. ASSUME NEW n \in Loop, Invoke("close-task", {Task(n)}, "act") \/ Invoke("project-kickoff", {Task(n)}, "act")
                                   \/ Invoke("new-loop", {Task(n)}, "open")
         PROVE Begins
    <2>1. Started("close-task", {Task(n)}, "act") /\ Started("project-kickoff", {Task(n)}, "act")
             /\ Started("new-loop", {Task(n)}, "open")
      BY <1>3 DEF Started, Names
    <2>2. QED BY <1>11, <2>1 DEF Begins
  <1>12. CASE Govern /\ UNCHANGED loopVars
    BY <1>12, <1>4, <1>5, <1>6, <1>7, <1>8, <1>9 DEF Govern, Workshop, Clerical
  <1>13. CASE Commands /\ UNCHANGED loopVars
    BY <1>13, <1>10, <1>11 DEF Commands
  <1>14. QED BY <1>12, <1>13 DEF Next

-----------------------------------------------------------------------------
(* Types. *)

LEMMA PathFacts ==
    /\ \A n \in Loop : Task(n) \in Path /\ Archive(n) \in Path /\ n \in Nat
    /\ \A n \in Loop, m \in Loop :
         /\ Task(n) # Archive(m)
         /\ Archive(n) = Archive(m) => n = m
         /\ Task(n) = Task(m) => n = m
    /\ Absent \in Doc /\ Absent.rev = 0 /\ Absent.state = "absent"
    /\ <<>> \notin Path \X Doc
  BY KairosConstants DEF Path, Task, Archive, Loop, Absent, Content, Doc

(* A command that raised, finished or died, and one that begins.           *)
LEMMA IdleIsTyped ==
    /\ Idle \in Cmd
    /\ \A c : c = [Idle EXCEPT !.name = cmd.name, !.at = "finish"] /\ cmd \in Cmd => c \in Cmd
  BY ZenonT(30) DEF Idle, Cmd, Names, Ats

LEMMA IdleFields ==
    /\ Idle.name = "idle" /\ Idle.at = "" /\ Idle.arg = {} /\ Idle.cand = {} /\ Idle.done = {} /\ Idle.sealing = FALSE
  BY DEF Idle

LEMMA AtFacts ==
    {"read", "guard", "accept", "settle", "next", "apply", "save", "current", "deroute", "gate", "archive", "render",
     "ledger", "finalized", "file", "block", "stage", "open", "start", "verify", "finish"} \subseteq Ats
  BY DEF Ats

LEMMA CmdStep == ASSUME TypeInv, Next PROVE cmd' \in Cmd
  <1>c. cmd \in Cmd
    BY DEF TypeInv
  <1>r. Raise => cmd' \in Cmd
    BY <1>c, IdleIsTyped DEF Raise
  <1>g. ASSUME NEW at \in Ats, Goto(at) PROVE cmd' \in Cmd
    BY <1>c, <1>g DEF Goto, Cmd
  <1>1. CASE Begins
    <2>1. PICK name, S, at : Started(name, S, at) /\ Invoke(name, S, at)
      BY <1>1 DEF Begins
    <2>2. cmd' = [Idle EXCEPT !.name = name, !.at = at, !.arg = S, !.cand = IF name = "promote" THEN S ELSE {}]
      BY <2>1 DEF Invoke
    <2>3. name \in Names /\ at \in Ats /\ S \subseteq Path
      BY <2>1 DEF Started, Ats
    <2>4. QED BY <2>2, <2>3, IdleIsTyped DEF Cmd, Idle
  <1>2. CASE Workshop \/ \E p \in Editable : Author(p)
    BY <1>c, <1>2 DEF Workshop, WorkshopPermit, WorkshopInserts, WorkshopRevokes, PermitExpires,
                      DieBeforeConsuming, Author
  <1>3. CASE Clerical
    BY <1>3, <1>r DEF Clerical, ActionPermit, RevokePermit, GovernanceStatus, RecoverAction
  <1>4. CASE AttributeChange \/ NoMatch \/ AcceptEdit
    BY <1>4, <1>r, <1>g, AtFacts DEF AttributeChange, NoMatch, AcceptEdit
  <1>5. CASE WorkshopHeartbeat
    BY <1>5 DEF WorkshopHeartbeat, Cmd, Idle, Names, Ats
  <1>6. CASE Reconcile
    <2>1. CASE rs.life = "FINALIZED"
      BY <1>6, <1>r, <2>1 DEF Reconcile
    <2>2. CASE rs.life # "FINALIZED"
      <3>1. Changed \cup Explicit \subseteq Path /\ Changed \cup Gone \subseteq Path
        BY <1>c DEF Changed, Gone, Explicit, Cmd
      <3>2. ASSUME NEW x \in SUBSET Path, NEW y \in SUBSET Path, NEW b \in BOOLEAN, NEW a \in Ats,
                   cmd' = [cmd EXCEPT !.cand = x, !.left = y, !.bad = b, !.arg = {}, !.at = a]
            PROVE  cmd' \in Cmd
        BY ONLY <3>2, <1>c DEF Cmd
      <3>3. cmd' = [cmd EXCEPT !.cand = Changed \cup Explicit, !.left = Changed \cup Gone,
                               !.bad = Gone # {}, !.arg = {},
                               !.at = IF Changed \cup Gone = {} THEN "next" ELSE "guard"]
        BY <1>6, <2>2 DEF Reconcile
      <3>4. (IF Changed \cup Gone = {} THEN "next" ELSE "guard") \in Ats /\ (Gone # {}) \in BOOLEAN
        BY AtFacts
      <3>5. QED BY <3>1, <3>2, <3>3, <3>4
    <2>3. QED BY <2>1, <2>2
  <1>7. CASE ConsumePermit
    <2>1. ASSUME NEW x \in SUBSET Path, NEW y \in SUBSET Path,
                 cmd' = [cmd EXCEPT !.at = "accept", !.who = x, !.left = y]
          PROVE  cmd' \in Cmd
      <3>1. "accept" \in Ats
        BY AtFacts
      <3>2. QED BY ONLY <2>1, <3>1, <1>c DEF Cmd
    <2>2. \/ Raise
          \/ \E mine \in SUBSET cmd.left :
                cmd' = [cmd EXCEPT !.at = "accept", !.who = cmd.who \cup mine, !.left = cmd.left \ mine]
      BY <1>7 DEF ConsumePermit, Covers
    <2>3. ASSUME NEW mine \in SUBSET cmd.left PROVE cmd.who \cup mine \subseteq Path /\ cmd.left \ mine \subseteq Path
      BY <1>c DEF Cmd
    <2>4. QED BY ZenonT(30), <1>r, <2>1, <2>2, <2>3
  <1>8. CASE Settle
    <2>1. Raise \/ cmd' = [cmd EXCEPT !.at = "next", !.who = {}, !.left = {}]
      BY <1>8 DEF Settle
    <2>2. QED BY <1>c, <1>r, <2>1, AtFacts DEF Cmd
  <1>9. CASE Stage
    <2>1. PICK p \in cmd.cand :
             \/ cmd' = [cmd EXCEPT !.cand = cmd.cand \ {p}, !.bad = TRUE]
             \/ cmd' = [cmd EXCEPT !.cand = cmd.cand \ {p}, !.done = @ \cup {p}]
             \/ cmd' = [cmd EXCEPT !.cand = cmd.cand \ {p}, !.doc = <<p, file[p]>>, !.at = "apply"]
      BY <1>9 DEF Stage
    <2>2. p \in Path /\ cmd.cand \ {p} \in SUBSET Path /\ "apply" \in Ats /\ cmd.done \cup {p} \in SUBSET Path
      BY <1>c, AtFacts DEF Cmd
    <2>3. <<p, file[p]>> \in Path \X Doc
      BY <2>2 DEF TypeInv, SourceTypes
    <2>4. QED BY ONLY ZenonT(30), <2>1, <2>2, <2>3, <1>c DEF Cmd
  <1>10. CASE Apply \/ ApplyFails
    <2>1. cmd.doc \in Path \X Doc
      BY <1>10 DEF TypeInv, Opening, Apply, ApplyFails
    <2>2. CASE Apply
      BY <1>c, <2>2, <2>1, AtFacts DEF Apply, Cmd
    <2>3. CASE ApplyFails
      BY <1>c, <2>3, <2>1, AtFacts DEF ApplyFails, Cmd
    <2>4. QED BY <1>10, <2>2, <2>3
  <1>11. CASE Manifest
    BY <1>c, <1>11, AtFacts DEF Manifest, Cmd
  <1>12. CASE SaveState
    BY <1>c, <1>12, AtFacts DEF SaveState, Cmd
  <1>13. CASE SaveCurrent \/ PromoteEnds
    BY <1>13, <1>r, <1>g, AtFacts DEF SaveCurrent, PromoteEnds, AfterHeartbeat
  <1>14. CASE Finish \/ Die
    BY <1>14, IdleIsTyped DEF Finish, Die
  <1>15. CASE CloseTask \/ Deroute
    BY <1>15, <1>r, <1>g, AtFacts DEF CloseTask, Deroute
  <1>16. CASE RecoverArchive \/ FinalizeBlocked \/ FinalizeReady \/ FinalizeFails \/ FileFinalization
    BY <1>16, <1>r, <1>g, AtFacts DEF RecoverArchive, FinalizeBlocked, FinalizeReady, FinalizeFails, FileFinalization
  <1>17. CASE ReserveArchive \/ RenderArchive
    <2>1. Archive(cur) \in Path
      BY PathFacts DEF TypeInv, LoopTypes
    <2>2. \/ Goto("render") \/ Goto("block")
          \/ cmd' = [cmd EXCEPT !.at = "next", !.cand = {Archive(cur)}, !.done = {}, !.sealing = TRUE]
      BY <1>17 DEF ReserveArchive, RenderArchive
    <2>3. ASSUME NEW S \in SUBSET Path, NEW at \in Ats,
                 cmd' = [cmd EXCEPT !.at = at, !.cand = S, !.done = {}, !.sealing = TRUE]
          PROVE  cmd' \in Cmd
      BY ONLY <1>c, <2>3 DEF Cmd
    <2>4. {Archive(cur)} \in SUBSET Path /\ {"render", "block", "next"} \subseteq Ats
      BY <2>1, AtFacts
    <2>5. QED BY <1>g, <2>2, <2>3, <2>4
  <1>18. CASE SealManifest \/ RecordFinalization \/ SaveFinalized
    BY <1>18, <1>g, AtFacts DEF SealManifest, RecordFinalization, SaveFinalized
  <1>19. CASE Kickoff \/ StageTask \/ OpenLoop \/ StartLoop \/ VerifyLoop
    BY <1>19, <1>r, <1>g, AtFacts DEF Kickoff, StageTask, OpenLoop, StartLoop, VerifyLoop
  <1>20. QED BY Steps, <1>1, <1>2, <1>3, <1>4, <1>5, <1>6, <1>7, <1>8, <1>9, <1>10, <1>11, <1>12, <1>13, <1>14,
                <1>15, <1>16, <1>17, <1>18, <1>19

LEMMA SourceStep == ASSUME TypeInv, Next PROVE SourceTypes'
  <1>t. file \in [Path -> Doc] /\ man \in [Path -> {"none", "seen", "stale"}]
    BY DEF TypeInv, SourceTypes
  <1>k. UNCHANGED <<file, man>> => SourceTypes'
    BY <1>t DEF SourceTypes
  <1>s. ASSUME NEW S, Seen(S) PROVE man' \in [Path -> {"none", "seen", "stale"}]
    BY <1>t, <1>s DEF Seen
  <1>1. CASE Begins \/ Workshop \/ Clerical \/ AttributeChange \/ WorkshopHeartbeat \/ Reconcile
    BY <1>1, <1>k DEF Begins, Invoke, Workshop, WorkshopPermit, WorkshopInserts, WorkshopRevokes, PermitExpires,
                      DieBeforeConsuming, Clerical, ActionPermit, RevokePermit, GovernanceStatus, RecoverAction,
                      AttributeChange, WorkshopHeartbeat, Reconcile, sources
  <1>2. CASE NoMatch \/ ConsumePermit \/ AcceptEdit \/ Settle \/ Stage \/ Apply \/ ApplyFails
    BY <1>2, <1>k DEF NoMatch, ConsumePermit, AcceptEdit, Settle, Stage, Apply, ApplyFails, sources
  <1>3. CASE SaveState \/ SaveCurrent \/ PromoteEnds \/ Finish \/ Die
    BY <1>3, <1>k DEF SaveState, SaveCurrent, PromoteEnds, Finish, Die, sources
  <1>4. CASE Deroute \/ FinalizeBlocked \/ FinalizeReady \/ ReserveArchive \/ FinalizeFails \/ RecordFinalization
                \/ SaveFinalized \/ FileFinalization \/ Kickoff \/ OpenLoop \/ StartLoop \/ VerifyLoop
    BY <1>4, <1>k DEF Deroute, FinalizeBlocked, FinalizeReady, ReserveArchive, FinalizeFails, RecordFinalization,
                      SaveFinalized, FileFinalization, Kickoff, OpenLoop, StartLoop, VerifyLoop, sources
  <1>5. CASE Manifest \/ SealManifest
    BY <1>5, <1>t, <1>s DEF Manifest, SealManifest, SourceTypes
  <1>6. CASE \E p \in Editable : Author(p)
    <2>1. PICK p \in Editable : Author(p)
      BY <1>6
    <2>2. PICK b : /\ b \in {Absent} \cup {Content(r, "active", 1) : r \in 1 .. 2}
                                  \cup {e.bytes : e \in {d \in event : d.path = p}}
                   /\ file' = [file EXCEPT ![p] = b]
                   /\ man' = [man EXCEPT ![p] = IF @ = "seen" THEN "stale" ELSE @]
      BY <2>1 DEF Author
    <2>3. b \in Doc
      BY <2>2, PathFacts DEF TypeInv, TableTypes, Event, Content, Doc
    <2>4. QED BY <1>t, <2>2, <2>3 DEF SourceTypes
  <1>7. CASE CloseTask
    <2>1. PICK p \in cmd.arg :
             \/ UNCHANGED <<file, man>>
             \/ /\ file' = [file EXCEPT ![p] = Content(file[p].rev + 1, "completed", 0)]
                /\ man' = [man EXCEPT ![p] = IF @ = "seen" THEN "stale" ELSE @]
      BY <1>7 DEF CloseTask
    <2>2. p \in Path
      BY DEF TypeInv, Cmd
    <2>3. Content(file[p].rev + 1, "completed", 0) \in Doc
      BY <1>t, <2>2 DEF Content, Doc
    <2>4. QED BY <1>t, <1>k, <2>1, <2>3 DEF SourceTypes
  <1>8. CASE RecoverArchive
    BY <1>8, <1>t, <1>k, PathFacts DEF RecoverArchive, SourceTypes
  <1>9. CASE RenderArchive
    <2>1. Content(1, "finalized", Attempt) \in Doc
      BY KairosConstants DEF TypeInv, LoopTypes, Attempt, Content, Doc
    <2>2. QED BY <1>9, <1>t, <2>1 DEF RenderArchive, SourceTypes
  <1>10. CASE StageTask
    <2>1. Staged \in Doc
      BY DEF Staged, Content, Doc
    <2>2. QED BY <1>10, <1>t, <1>k, <2>1 DEF StageTask, SourceTypes
  <1>11. QED BY Steps, <1>1, <1>2, <1>3, <1>4, <1>5, <1>6, <1>7, <1>8, <1>9, <1>10

LEMMA TableStep == ASSUME TypeInv, Next PROVE TableTypes'
  <1>t. row \in [Path -> Doc] /\ event \subseteq Event /\ quar \subseteq Entry /\ file \in [Path -> Doc]
    BY DEF TypeInv, TableTypes, SourceTypes
  <1>k. UNCHANGED <<row, event, quar>> => TableTypes'
    BY <1>t DEF TableTypes
  <1>1. CASE Begins \/ Workshop \/ Clerical \/ WorkshopHeartbeat \/ Reconcile
    BY <1>1, <1>k DEF Begins, Invoke, Workshop, WorkshopPermit, WorkshopInserts, WorkshopRevokes, PermitExpires,
                      DieBeforeConsuming, Clerical, ActionPermit, RevokePermit, GovernanceStatus, RecoverAction,
                      WorkshopHeartbeat, Reconcile, projection, tables
  <1>2. CASE NoMatch \/ ConsumePermit \/ AcceptEdit \/ Manifest \/ SealManifest \/ \E p \in Editable : Author(p)
    BY <1>2, <1>k DEF NoMatch, ConsumePermit, AcceptEdit, Manifest, SealManifest, Author, projection, tables
  <1>3. CASE SaveState \/ SaveCurrent \/ PromoteEnds \/ Finish \/ Die \/ CloseTask \/ StageTask \/ RenderArchive
    BY <1>3, <1>k DEF SaveState, SaveCurrent, PromoteEnds, Finish, Die, CloseTask, StageTask, RenderArchive,
                      projection, tables
  <1>4. CASE Deroute \/ FinalizeBlocked \/ FinalizeReady \/ ReserveArchive \/ FinalizeFails \/ RecordFinalization
                \/ SaveFinalized \/ FileFinalization \/ Kickoff \/ OpenLoop \/ StartLoop \/ VerifyLoop
    BY <1>4, <1>k DEF Deroute, FinalizeBlocked, FinalizeReady, ReserveArchive, FinalizeFails, RecordFinalization,
                      SaveFinalized, FileFinalization, Kickoff, OpenLoop, StartLoop, VerifyLoop, projection, tables
  <1>q. \A S : Terminalized(S) \subseteq Entry
    BY <1>t DEF Terminalized, Entry
  <1>5. CASE AttributeChange
    BY <1>5, <1>t, <1>q DEF AttributeChange, TableTypes, projection
  <1>6. CASE Settle
    <2>1. {[path |-> p, bytes |-> file[p], st |-> "OPEN"] : p \in cmd.left \ ActionPaths} \subseteq Entry
      BY <1>t DEF Entry, TypeInv, Cmd
    <2>2. QED BY <1>6, <1>t, <1>q, <2>1 DEF Settle, TableTypes, projection
  <1>w. ASSUME NEW p \in Path, NEW b \in Doc, NEW s \in {"pending", "failed", "applied"}
        PROVE  WithStatus(p, b, s) \subseteq Event
    BY <1>t DEF WithStatus, Event
  <1>7. CASE Stage
    <2>1. PICK p \in cmd.cand :
             \/ UNCHANGED event
             \/ event' = event \cup {[path |-> p, bytes |-> file[p], st |-> "pending"]}
      BY <1>7 DEF Stage
    <2>2. [path |-> p, bytes |-> file[p], st |-> "pending"] \in Event
      BY <1>t DEF Event, TypeInv, Cmd
    <2>3. QED BY <1>7, <1>t, <2>1, <2>2 DEF Stage, TableTypes, tables
  <1>8. CASE Apply \/ ApplyFails
    <2>1. PICK p \in Path, b \in Doc : p = cmd.doc[1] /\ b = cmd.doc[2]
      BY <1>8 DEF TypeInv, Opening, Apply, ApplyFails
    <2>2. CASE ApplyFails
      BY <2>1, <2>2, <1>t, <1>w DEF ApplyFails, TableTypes, tables
    <2>3. CASE Apply
      <3>1. row' \in [Path -> Doc] /\ UNCHANGED quar
        BY <2>1, <2>3, <1>t DEF Apply, tables
      <3>2. event' = {[e EXCEPT !.st = IF e.path = p /\ e.st = "failed" /\ e.bytes.rev <= b.rev
                                       THEN "superseded" ELSE @] : e \in WithStatus(p, b, "applied")}
        BY <2>1, <2>3 DEF Apply
      <3>3. WithStatus(p, b, "applied") \subseteq Event
        BY <1>w
      <3>4. event' \subseteq Event
        BY <3>2, <3>3 DEF Event
      <3>5. QED BY <1>t, <3>1, <3>4 DEF TableTypes
    <2>4. QED BY <1>8, <2>2, <2>3
  <1>9. CASE RecoverArchive
    <2>1. \/ UNCHANGED event
          \/ event' = {[e EXCEPT !.st = IF e.path = Archive(cur) /\ e.st \in {"pending", "failed"}
                                        THEN "superseded" ELSE @] : e \in event}
      BY <1>9 DEF RecoverArchive
    <2>2. event' \subseteq Event
      BY <1>t, <2>1 DEF Event
    <2>3. QED BY <1>9, <1>t, <2>2 DEF RecoverArchive, TableTypes, tables
  <1>10. QED BY Steps, <1>1, <1>2, <1>3, <1>4, <1>5, <1>6, <1>7, <1>8, <1>9

(* What has been finalized, and the receipts of the loops opened after it. *)
LEMMA LoopStep == ASSUME TypeInv, Next PROVE LoopTypes'
  <1>t. /\ rs \in [life : Life, loop : Loop, task : Nat, fin : Nat] /\ cur \in Loop
        /\ marker \subseteq Loop
        /\ fins \in Seq(Fin) /\ Len(fins) <= MaxFins /\ rs.fin <= Len(fins)
        /\ trans \in [1 .. MaxFins -> Tran]
        /\ calm \in 0 .. MaxIncidents
    BY DEF TypeInv, LoopTypes
  <1>b. MaxIncidents \in Nat /\ MaxFins \in Nat
    BY KairosConstants DEF MaxFins
  <1>i. Incident \/ UNCHANGED calm => calm' \in 0 .. MaxIncidents
    BY <1>t, <1>b DEF Incident
  <1>k. UNCHANGED <<rs, cur, marker, fins, trans>> /\ (Incident \/ UNCHANGED calm) => LoopTypes'
    BY <1>t, <1>i DEF LoopTypes
  <1>l. ASSUME NEW l \in Life, SetLife(l), UNCHANGED <<cur, marker, fins, trans>>, Incident \/ UNCHANGED calm
        PROVE LoopTypes'
    <2>1. rs' \in [life : Life, loop : Loop, task : Nat, fin : Nat] /\ rs'.fin = rs.fin
      BY ONLY <1>t, <1>l DEF SetLife
    <2>2. QED BY <1>t, <1>i, <1>l, <2>1 DEF LoopTypes
  <1>1. CASE UNCHANGED loopVars /\ (Begins \/ Workshop \/ Clerical \/ AttributeChange \/ WorkshopHeartbeat \/ Reconcile)
    BY <1>1, <1>k DEF Begins, Invoke, Workshop, WorkshopPermit, WorkshopInserts, WorkshopRevokes, PermitExpires,
                      DieBeforeConsuming, Clerical, ActionPermit, RevokePermit, GovernanceStatus, RecoverAction,
                      AttributeChange, WorkshopHeartbeat, Reconcile, states, loopVars
  <1>2. CASE /\ UNCHANGED loopVars
             /\ \/ NoMatch \/ ConsumePermit \/ AcceptEdit \/ Settle \/ Stage \/ Apply \/ ApplyFails \/ Manifest
                \/ PromoteEnds \/ Finish \/ Die \/ \E p \in Editable : Author(p)
    BY <1>2, <1>k DEF NoMatch, ConsumePermit, AcceptEdit, Settle, Stage, Apply, ApplyFails, Manifest, PromoteEnds,
                      Finish, Die, Author, states, loopVars
  <1>3. CASE CloseTask \/ RenderArchive \/ StageTask
    BY <1>3, <1>k DEF CloseTask, RenderArchive, StageTask, states, loopVars
  <1>4. CASE SaveState /\ UNCHANGED loopVars
    <2>1. PICK l \in {"ACTIVE", "BLOCKED"} : rs' = [rs EXCEPT !.life = l]
      BY <1>4 DEF SaveState
    <2>2. QED BY <1>4, <1>l, <2>1 DEF SaveState, SetLife, Life, loopVars
  <1>5. CASE SaveCurrent /\ UNCHANGED loopVars
    BY <1>5, <1>t, <1>i DEF SaveCurrent, LoopTypes, loopVars
  <1>6. CASE Deroute
    <2>1. rs' = rs \/ rs' = [rs EXCEPT !.task = 0]
      BY <1>6 DEF Deroute
    <2>2. rs' \in [life : Life, loop : Loop, task : Nat, fin : Nat] /\ rs'.fin = rs.fin
      BY <1>t, <2>1
    <2>3. QED BY <1>6, <1>t, <1>i, <2>2 DEF Deroute, LoopTypes, loopVars
  <1>7. CASE FinalizeBlocked \/ FinalizeReady \/ FinalizeFails
    <2>1. PICK l \in Life : SetLife(l)
      BY <1>7 DEF FinalizeBlocked, FinalizeReady, FinalizeFails, Life
    <2>2. QED BY <1>7, <1>l, <2>1 DEF FinalizeBlocked, FinalizeReady, FinalizeFails, loopVars
  <1>8. CASE RecoverArchive \/ ReserveArchive \/ SealManifest
    <2>1. marker' \subseteq Loop /\ UNCHANGED <<rs, cur, fins, trans, calm>>
      BY <1>8, <1>t DEF RecoverArchive, ReserveArchive, SealManifest, states
    <2>2. QED BY <1>t, <1>i, <2>1 DEF LoopTypes
  <1>9. CASE RecordFinalization
    <2>1. CASE UNCHANGED fins
      BY <1>9, <1>k, <2>1 DEF RecordFinalization, states
    <2>2. CASE ~UNCHANGED fins
      <3>1. DEFINE f == [loop |-> cur, archive |-> row[Archive(cur)], filed |-> FALSE,
                         sealed |-> {p \in Path : file[p] # Absent}]
      <3>2. fins' = Append(fins, f) /\ Len(fins) < MaxFins
        BY <1>9, <2>2 DEF RecordFinalization
      <3>3. f \in Fin
        BY <1>t, PathFacts DEF Fin, TypeInv, TableTypes
      <3>4. fins' \in Seq(Fin) /\ Len(fins') = Len(fins) + 1 /\ Len(fins) \in Nat
        BY <1>t, <3>2, <3>3
      <3>5. UNCHANGED <<rs, cur, marker, trans>> /\ calm' = calm
        BY <1>9, <2>2 DEF RecordFinalization, states
      <3>6. Len(fins') <= MaxFins /\ rs'.fin <= Len(fins')
        BY <1>t, <1>b, <3>2, <3>4, <3>5
      <3>7. QED BY <1>t, <3>4, <3>5, <3>6 DEF LoopTypes
    <2>3. QED BY <2>1, <2>2
  <1>10. CASE SaveFinalized
    <2>1. Len(fins) \in Nat
      BY <1>t
    <2>2. rs' \in [life : Life, loop : Loop, task : Nat, fin : Nat] /\ rs'.fin = Len(fins)
      BY <1>10, <1>t, <2>1 DEF SaveFinalized, Life
    <2>3. QED BY <1>10, <1>t, <2>1, <2>2 DEF SaveFinalized, LoopTypes, loopVars
  <1>11. CASE FileFinalization
    <2>1. fins' = [fins EXCEPT ![rs.fin] = [fins[rs.fin] EXCEPT !.filed = TRUE]]
      BY <1>11 DEF FileFinalization
    <2>2. ASSUME rs.fin \in 1 .. Len(fins) PROVE fins' \in Seq(Fin) /\ Len(fins') = Len(fins)
      <3>1. fins[rs.fin] \in Fin
        BY <1>t, <2>2, ElementOfSeq
      <3>2. [fins[rs.fin] EXCEPT !.filed = TRUE] \in Fin
        BY <3>1 DEF Fin
      <3>3. QED BY <1>t, <2>1, <2>2, <3>2, ExceptSeq
    <2>0. ASSUME rs.fin \notin 1 .. Len(fins) PROVE fins' = fins
      BY <1>t, <2>0, <2>1
    <2>3. fins' \in Seq(Fin) /\ Len(fins') = Len(fins)
      BY <1>t, <2>2, <2>0
    <2>4. QED BY <1>11, <1>t, <2>3 DEF FileFinalization, LoopTypes
  <1>12. CASE Kickoff \/ OpenLoop
    <2>1. PICK kick \in BOOLEAN : trans' = trans \/ trans' = [trans EXCEPT ![rs.fin] = [st |-> "PENDING", kickoff |-> kick]]
      BY <1>12 DEF Kickoff, OpenLoop, Bind
    <2>2. trans' \in [1 .. MaxFins -> Tran]
      BY <1>t, <2>1 DEF Tran
    <2>3. QED BY <1>12, <1>t, <2>2 DEF Kickoff, OpenLoop, LoopTypes, states
  <1>13. CASE VerifyLoop
    <2>1. trans' = trans \/ trans' = [trans EXCEPT ![rs.fin] = [trans[rs.fin] EXCEPT !.st = "VERIFIED"]]
      BY <1>13 DEF VerifyLoop
    <2>2. trans' \in [1 .. MaxFins -> Tran]
      BY <1>t, <2>1 DEF Tran
    <2>3. QED BY <1>13, <1>t, <2>2 DEF VerifyLoop, LoopTypes, states
  <1>14. CASE StartLoop
    <2>1. PICK n \in Loop : n = fins[rs.fin].loop + 1
      <3>1. PICK n \in Loop : cmd.arg = {Task(n)}
        BY <1>14 DEF StartLoop, TypeInv, Opening, OneTask
      <3>2. cmd.arg = {Task(fins[rs.fin].loop + 1)}
        BY <1>14 DEF StartLoop, TypeInv, Opening, NextTask
      <3>3. Task(n) = Task(fins[rs.fin].loop + 1)
        BY <3>1, <3>2
      <3>4. QED BY <3>3 DEF Task
    <2>2. rs' = [life |-> "STARTING_LOOP", loop |-> n, task |-> n, fin |-> rs.fin]
      BY <1>14, <2>1 DEF StartLoop
    <2>3. rs' \in [life : Life, loop : Loop, task : Nat, fin : Nat] /\ rs'.fin = rs.fin
      BY <1>t, <2>1, <2>2, PathFacts DEF Life
    <2>4. QED BY <1>14, <1>t, <2>3 DEF StartLoop, LoopTypes, loopVars
  <1>15. QED BY Steps, <1>1, <1>2, <1>3, <1>4, <1>5, <1>6, <1>7, <1>8, <1>9, <1>10, <1>11, <1>12, <1>13, <1>14

(* A command that begins or ends is at none of the steps Opening speaks of.*)
LEMMA OpeningStep == ASSUME TypeInv, Next PROVE Opening'
  <1>o. Opening /\ cmd \in Cmd
    BY DEF TypeInv
  <1>k. UNCHANGED <<cmd, rs, fins, trans>> => Opening'
    BY <1>o DEF Opening, OneTask, NextTask
  <1>g. ASSUME cmd'.at \notin {"apply", "act", "stage", "open", "start"} PROVE Opening'
    BY <1>g DEF Opening
  <1>r. Raise => Opening'
    BY <1>g DEF Raise, Idle
  <1>t. ASSUME NEW at \in {"read", "accept", "settle", "guard", "next", "save", "current", "gate", "verify", "finish",
                           "archive", "render", "block", "ledger", "finalized", "file", "deroute"}, Goto(at)
        PROVE Opening'
    BY <1>t, <1>g, <1>o DEF Goto, Cmd
  <1>1. CASE Begins
    <2>1. PICK name, S, at : Started(name, S, at) /\ Invoke(name, S, at)
      BY <1>1 DEF Begins
    <2>2. cmd'.at = at /\ cmd'.name = name /\ cmd'.arg = S
      BY <2>1 DEF Invoke, Idle
    <2>3. QED BY <2>1, <2>2 DEF Started, Opening, OneTask
  <1>2. CASE UNCHANGED loopVars /\ (Workshop \/ \E p \in Editable : Author(p))
    BY <1>2, <1>k DEF Workshop, WorkshopPermit, WorkshopInserts, WorkshopRevokes, PermitExpires, DieBeforeConsuming,
                      Author, states, loopVars
  <1>3. CASE Clerical \/ AttributeChange \/ NoMatch \/ AcceptEdit
    BY <1>3, <1>r, <1>t DEF Clerical, ActionPermit, RevokePermit, GovernanceStatus, RecoverAction, AttributeChange,
                            NoMatch, AcceptEdit
  <1>4. CASE WorkshopHeartbeat \/ Finish \/ Die
    <2>1. cmd'.at \in {"", "read"}
      <3>1. cmd' = Idle \/ cmd' = [Idle EXCEPT !.name = "workshop", !.at = "read"]
        BY <1>4 DEF WorkshopHeartbeat, Finish, Die
      <3>2. Idle.at = "" /\ [Idle EXCEPT !.name = "workshop", !.at = "read"].at = "read"
        BY DEF Idle
      <3>3. QED BY <3>1, <3>2
    <2>2. QED BY <1>g, <2>1
  <1>5. CASE Reconcile
    <2>1. Raise \/ cmd'.at \in {"next", "guard"}
      BY <1>5, <1>o DEF Reconcile, Cmd
    <2>2. QED BY <1>r, <1>g, <2>1
  <1>6. CASE ConsumePermit
    <2>1. Raise \/ cmd'.at = "accept"
      BY <1>6, <1>o DEF ConsumePermit, Cmd
    <2>2. QED BY <1>r, <1>g, <2>1
  <1>7. CASE Settle
    <2>1. Raise \/ cmd'.at = "next"
      BY <1>7, <1>o DEF Settle, Cmd
    <2>2. QED BY <1>r, <1>g, <2>1
  <1>8. CASE Stage
    <2>1. PICK p \in cmd.cand : \/ cmd' = [cmd EXCEPT !.cand = cmd.cand \ {p}, !.bad = TRUE]
                               \/ cmd' = [cmd EXCEPT !.cand = cmd.cand \ {p}, !.done = @ \cup {p}]
                               \/ cmd' = [cmd EXCEPT !.cand = cmd.cand \ {p}, !.doc = <<p, file[p]>>, !.at = "apply"]
      BY <1>8 DEF Stage
    <2>2. p \in Path /\ <<p, file[p]>> \in Path \X Doc
      BY <1>o DEF Cmd, TypeInv, SourceTypes
    <2>3. cmd.at = "next"
      BY <1>8 DEF Stage
    <2>4. QED BY <1>o, <1>g, <2>1, <2>2, <2>3 DEF Cmd, Opening
  <1>9. CASE Apply \/ ApplyFails \/ Manifest \/ SaveState \/ ReserveArchive \/ RenderArchive
    <2>1. cmd'.at \in {"next", "save", "current", "render", "block"}
      BY <1>9, <1>o DEF Apply, ApplyFails, Manifest, SaveState, ReserveArchive, RenderArchive, Goto, Cmd
    <2>2. QED BY <1>g, <2>1
  <1>10. CASE SaveCurrent \/ PromoteEnds \/ Deroute \/ FinalizeBlocked \/ FinalizeReady \/ FinalizeFails
    BY <1>10, <1>r, <1>t DEF SaveCurrent, AfterHeartbeat, PromoteEnds, Deroute, FinalizeBlocked, FinalizeReady,
                             FinalizeFails
  <1>11. CASE CloseTask \/ RecoverArchive \/ SealManifest \/ RecordFinalization \/ SaveFinalized \/ FileFinalization
                \/ StartLoop \/ VerifyLoop
    BY <1>11, <1>r, <1>t DEF CloseTask, RecoverArchive, SealManifest, RecordFinalization, SaveFinalized,
                             FileFinalization, StartLoop, VerifyLoop
  <1>12. CASE Kickoff \/ StageTask
    <2>1. Raise \/ Goto("stage") \/ Goto("open")
      BY <1>12 DEF Kickoff, StageTask
    <2>2. OneTask
      BY <1>12, <1>o DEF Opening, Kickoff, StageTask
    <2>3. QED BY <1>r, <1>o, <2>1, <2>2 DEF Goto, Opening, OneTask, Cmd
  <1>13. CASE OpenLoop
    <2>1. CASE Raise
      BY <1>r, <2>1
    <2>2. CASE ~Raise
      <3>1. /\ Predecessor /\ cmd.arg = {NextTask}
            /\ trans[rs.fin].st = "PENDING" \/ trans[rs.fin].st = "none"
            /\ rs.loop \in {fins[rs.fin].loop, fins[rs.fin].loop + 1}
            /\ IF trans[rs.fin].st = "none" THEN Bind(FALSE) ELSE UNCHANGED trans
            /\ Goto("start")
        BY <1>13, <2>2 DEF OpenLoop
      <3>2. OneTask /\ UNCHANGED <<rs, fins>>
        BY <1>13, <1>o DEF OpenLoop, Opening, states
      <3>3. rs.fin \in 1 .. MaxFins
        BY <3>1, KairosConstants DEF Predecessor, TypeInv, LoopTypes, MaxFins
      <3>4. trans'[rs.fin].st = "PENDING"
        <4>1. trans \in [1 .. MaxFins -> Tran]
          BY DEF TypeInv, LoopTypes
        <4>2. \/ trans[rs.fin].st = "PENDING" /\ trans' = trans
              \/ trans' = [trans EXCEPT ![rs.fin] = [st |-> "PENDING", kickoff |-> FALSE]]
          BY <3>1 DEF Bind
        <4>3. rs.fin \in DOMAIN trans
          BY <3>3, <4>1
        <4>4. QED BY ONLY <4>2, <4>3
      <3>5. cmd'.at = "start" /\ cmd'.arg = cmd.arg
        BY <3>1, <1>o DEF Goto, Cmd
      <3>6. QED BY <3>1, <3>2, <3>4, <3>5 DEF Opening, OneTask, NextTask, Predecessor
    <2>3. QED BY <2>1, <2>2
  <1>14. QED BY Steps, <1>1, <1>2, <1>3, <1>4, <1>5, <1>6, <1>7, <1>8, <1>9, <1>10, <1>11, <1>12, <1>13

LEMMA TypeInvStep == ASSUME TypeInv, [Next]_vars PROVE TypeInv'
  <1>1. CASE Next
    BY <1>1, CmdStep, SourceStep, TableStep, LoopStep, OpeningStep DEF TypeInv
  <1>2. CASE UNCHANGED vars
    BY <1>2 DEF vars, govVars, loopVars, sources, projection, states, TypeInv, SourceTypes, TableTypes, LoopTypes,
                tables, Opening, OneTask, NextTask
  <1>3. QED BY <1>1, <1>2

LEMMA TypeInvInit == ASSUME Init PROVE TypeInv
  <1> USE DEF Init, GovInit
  <1>1. 1 \in Loop /\ MaxFins \in Nat /\ MaxIncidents \in Nat
    BY KairosConstants DEF Loop, MaxFins
  <1>2. Content(1, "active", 0) \in Doc /\ Absent \in Doc
    BY DEF Content, Absent, Doc
  <1>3. SourceTypes
    BY <1>2 DEF SourceTypes
  <1>4. TableTypes
    BY <1>1, <1>3, PathFacts DEF TableTypes, Event, SourceTypes
  <1>5. LoopTypes
    BY <1>1 DEF LoopTypes, Life, Tran, None
  <1>6. cmd \in Cmd /\ Opening
    BY IdleIsTyped DEF Opening, Idle
  <1>7. QED BY <1>3, <1>4, <1>5, <1>6 DEF TypeInv

-----------------------------------------------------------------------------
(* Promotion.  The projected bytes of a document are bytes that were       *)
(* applied, and an absent document has none; every document a command has  *)
(* promoted holds applied bytes unless somebody edited it meanwhile; what  *)
(* it is about to apply was never applied; what it is about to render was  *)
(* never promoted.                                                         *)
Projected ==
    \A p \in Path : /\ Absent \notin Applied(p)
                    /\ row[p] = Absent => Applied(p) = {}
                    /\ row[p] # Absent => row[p] \in Applied(p)

InHand ==
    /\ cmd.doc[2] # Absent /\ cmd.doc[2] \notin Applied(cmd.doc[1])
    /\ cmd.doc[1] \in touched \/ file[cmd.doc[1]] = cmd.doc[2]

Unrendered == (man[Archive(cur)] # "seen" \/ Archive(cur) \in raced) /\ row[Archive(cur)] = Absent

Promoting ==
    /\ \A p \in cmd.done : p \in touched \/ file[p] \in Applied(p)
    /\ cmd.done # {} => cmd.at \in {"next", "apply", "block", "ledger", "finalized", "file"}
    /\ cmd.at = "apply" => InHand
    /\ cmd.at = "render" => Unrendered

Promotion == Projected /\ Promoting /\ SeenIsPromoted

LEMMA AppliedIs ==
    ASSUME NEW p
    PROVE  /\ \A b : b \in Applied(p) <=> \E e \in event : e.path = p /\ e.bytes = b /\ e.st = "applied"
           /\ \A b : b \in Applied(p)' <=> \E e \in event' : e.path = p /\ e.bytes = b /\ e.st = "applied"
  BY DEF Applied

(* The steps that write promotion events: only Apply adds applied bytes,   *)
(* and no step takes any away.                                             *)
LEMMA StagedIsNotApplied ==
    ASSUME TypeInv, Stage, NEW p \in Path PROVE Applied(p)' = Applied(p)
  <1>1. PICK q \in cmd.cand : \/ event' = event
                             \/ event' = event \cup {[path |-> q, bytes |-> file[q], st |-> "pending"]}
    BY DEF Stage
  <1>2. QED BY <1>1 DEF Applied

LEMMA FailedIsNotApplied ==
    ASSUME TypeInv, ApplyFails, InHand, NEW p \in Path PROVE Applied(p)' = Applied(p)
  <1>1. event' = {e \in event : e.path # cmd.doc[1] \/ e.bytes # cmd.doc[2]}
                    \cup {[path |-> cmd.doc[1], bytes |-> cmd.doc[2], st |-> "failed"]}
    BY DEF ApplyFails, WithStatus
  <1>2. \A e \in event : e.st = "applied" => e.path # cmd.doc[1] \/ e.bytes # cmd.doc[2]
    BY DEF InHand, Applied
  <1>3. QED BY <1>1, <1>2 DEF Applied

LEMMA AppliedIsAdded ==
    ASSUME TypeInv, Apply, NEW p \in Path
    PROVE  Applied(p)' = IF p = cmd.doc[1] THEN Applied(p) \cup {cmd.doc[2]} ELSE Applied(p)
  <1> DEFINE d == cmd.doc[1]
             c == cmd.doc[2]
             up(e) == [e EXCEPT !.st = IF e.path = d /\ e.st = "failed" /\ e.bytes.rev <= c.rev
                                       THEN "superseded" ELSE @]
  <1>1. event' = {up(e) : e \in WithStatus(d, c, "applied")}
    BY DEF Apply
  <1>2. WithStatus(d, c, "applied") \subseteq Event
    <2>1. event \subseteq Event /\ cmd.doc \in Path \X Doc
      BY DEF TypeInv, TableTypes, Opening, Apply
    <2>2. QED BY <2>1 DEF WithStatus, Event
  <1>3. \A e \in WithStatus(d, c, "applied") :
           up(e).path = e.path /\ up(e).bytes = e.bytes /\ (up(e).st = "applied" <=> e.st = "applied")
    BY <1>2 DEF Event
  <1>4. \A b : b \in Applied(p)' <=>
                 \E e \in WithStatus(d, c, "applied") : e.path = p /\ e.bytes = b /\ e.st = "applied"
    <2> HIDE DEF up, d, c
    <2>1. \A b : b \in Applied(p)' <=> \E f \in event' : f.path = p /\ f.bytes = b /\ f.st = "applied"
      BY AppliedIs
    <2>2. QED BY ONLY <1>1, <1>3, <2>1
  <1>5. \A b : b \in Applied(p)' <=> b \in Applied(p) \/ (p = d /\ b = c)
    <2> DEFINE r == [path |-> d, bytes |-> c, st |-> "applied"]
    <2>1. /\ WithStatus(d, c, "applied") = {e \in event : e.path # d \/ e.bytes # c} \cup {r}
          /\ r.path = d /\ r.bytes = c /\ r.st = "applied"
      BY DEF WithStatus
    <2>2. \A b : b \in Applied(p) <=> \E e \in event : e.path = p /\ e.bytes = b /\ e.st = "applied"
      BY AppliedIs
    <2> HIDE DEF d, c, r
    <2>3. QED BY ONLY <1>4, <2>1, <2>2
  <1>6. QED BY <1>5

LEMMA SupersededIsNotApplied ==
    ASSUME TypeInv, RecoverArchive, NEW p \in Path PROVE Applied(p)' = Applied(p)
  <1> DEFINE up(e) == [e EXCEPT !.st = IF e.path = Archive(cur) /\ e.st \in {"pending", "failed"}
                                       THEN "superseded" ELSE @]
  <1>1. event' = event \/ event' = {up(e) : e \in event}
    BY DEF RecoverArchive
  <1>2. \A e \in event : up(e).path = e.path /\ up(e).bytes = e.bytes /\ (up(e).st = "applied" <=> e.st = "applied")
    BY DEF TypeInv, TableTypes, Event
  <1>3. \A b : b \in Applied(p)' <=> b \in Applied(p)
    <2> HIDE DEF up
    <2>1. /\ \A b : b \in Applied(p)' <=> \E f \in event' : f.path = p /\ f.bytes = b /\ f.st = "applied"
          /\ \A b : b \in Applied(p) <=> \E e \in event : e.path = p /\ e.bytes = b /\ e.st = "applied"
      BY AppliedIs
    <2>2. QED BY ONLY <1>1, <1>2, <2>1
  <1>4. QED BY <1>3 DEF Applied

(* Nothing a promotion has recorded is changed.                            *)
Still == UNCHANGED <<file, man, row, event, raced>>

LEMMA StillKeepsPromotion ==
    ASSUME Promotion, Still,
           \/ UNCHANGED <<touched, cmd, cur>>
           \/ cmd'.done = {} /\ cmd'.at \notin {"apply", "render"}
           \/ /\ UNCHANGED touched /\ cmd'.done = cmd.done /\ cmd'.at \notin {"apply", "render"}
              /\ cmd'.at \in {"next", "apply", "block", "ledger", "finalized", "file"}
    PROVE  Promotion'
  <1>1. \A p \in Path : Applied(p)' = Applied(p)
    BY DEF Still, Applied
  <1>2. Projected' /\ SeenIsPromoted'
    BY <1>1 DEF Promotion, Still, Projected, SeenIsPromoted
  <1>3. Promoting'
    BY DEF Promotion, Still, Promoting, InHand, Unrendered, Applied
  <1>4. QED BY <1>2, <1>3 DEF Promotion

LEMMA AuthorKeepsPromotion ==
    ASSUME TypeInv, Promotion, NEW p \in Path, Author(p) PROVE Promotion'
  <1>1. \A q \in Path : Applied(q)' = Applied(q)
    BY DEF Author, projection, Applied
  <1>2. /\ UNCHANGED <<row, cmd, raced, cur>> /\ touched \subseteq touched'
        /\ \A q \in Path : q # p => file'[q] = file[q] /\ man'[q] = man[q]
        /\ man'[p] # "seen"
        /\ cmd # Idle => p \in touched'
    BY DEF Author, projection, states, TypeInv, SourceTypes
  <1>3. Projected' /\ SeenIsPromoted'
    BY <1>1, <1>2 DEF Projected, Promotion, SeenIsPromoted
  <1>4. cmd.done # {} \/ cmd.at = "apply" => p \in touched'
    BY <1>2, IdleFields
  <1>5. cmd.done \subseteq Path /\ Archive(cur) \in Path /\ (cmd.at = "apply" => cmd.doc[1] \in Path)
    BY PathFacts DEF TypeInv, Cmd, LoopTypes, Opening
  <1>6. \A q \in cmd'.done : q \in touched' \/ file'[q] \in Applied(q)'
    BY <1>1, <1>2, <1>4, <1>5 DEF Promotion, Promoting
  <1>7. cmd'.at = "apply" => InHand'
    <2>1. ASSUME cmd.at = "apply" PROVE cmd.doc[1] \in touched' \/ file'[cmd.doc[1]] = cmd.doc[2]
      BY <1>2, <1>4, <1>5, <2>1 DEF Promotion, Promoting, InHand
    <2>2. ASSUME cmd.at = "apply" PROVE InHand'
      <3>1. PICK q \in Path : q = cmd.doc[1]
        BY <1>5, <2>2
      <3>2. cmd.doc[2] # Absent /\ cmd.doc[2] \notin Applied(q)'
        BY <1>1, <2>2, <3>1 DEF Promotion, Promoting, InHand
      <3>3. QED BY <1>2, <2>1, <2>2, <3>1, <3>2 DEF InHand, Applied
    <2>3. QED BY <1>2, <2>2
  <1>8. cmd'.at = "render" => Unrendered'
    BY <1>2, <1>5 DEF Promotion, Promoting, Unrendered
  <1>9. Promoting'
    BY <1>2, <1>6, <1>7, <1>8 DEF Promotion, Promoting
  <1>10. QED BY <1>3, <1>9 DEF Promotion

LEMMA StageKeepsPromotion ==
    ASSUME TypeInv, Promotion, Stage PROVE Promotion'
  <1>1. \A q \in Path : Applied(q)' = Applied(q)
    BY StagedIsNotApplied
  <1>2. UNCHANGED <<file, man, row, raced, touched, cur>> /\ cmd \in Cmd /\ cmd.at = "next"
    BY DEF Stage, sources, states, ghosts, TypeInv
  <1>3. Projected' /\ SeenIsPromoted'
    BY <1>1, <1>2 DEF Projected, Promotion, SeenIsPromoted
  <1>4. PICK p \in cmd.cand :
           \/ cmd' = [cmd EXCEPT !.cand = cmd.cand \ {p}, !.bad = TRUE]
           \/ /\ cmd' = [cmd EXCEPT !.cand = cmd.cand \ {p}, !.done = @ \cup {p}]
              /\ file[p] \in Applied(p)
           \/ /\ cmd' = [cmd EXCEPT !.cand = cmd.cand \ {p}, !.doc = <<p, file[p]>>, !.at = "apply"]
              /\ file[p] # Absent /\ file[p] \notin Applied(p)
    BY DEF Stage
  <1>5. p \in Path /\ cmd.done \subseteq Path
    BY <1>2 DEF Cmd
  <1>6. /\ cmd'.done = cmd.done \/ (cmd'.done = cmd.done \cup {p} /\ file[p] \in Applied(p))
        /\ cmd'.at \in {"next", "apply"}
        /\ cmd'.at = "apply" => cmd'.doc = <<p, file[p]>> /\ file[p] # Absent /\ file[p] \notin Applied(p)
    BY <1>2, <1>4 DEF Cmd
  <1>7. \A q \in cmd'.done : q \in touched' \/ file'[q] \in Applied(q)'
    BY <1>1, <1>2, <1>5, <1>6 DEF Promotion, Promoting
  <1>8. cmd'.at = "apply" => InHand'
    BY <1>1, <1>2, <1>5, <1>6 DEF InHand, Applied
  <1>9. Promoting'
    BY <1>6, <1>7, <1>8 DEF Promoting
  <1>10. QED BY <1>3, <1>9 DEF Promotion

LEMMA ApplyKeepsPromotion ==
    ASSUME TypeInv, Promotion, Apply PROVE Promotion'
  <1>1. PICK p \in Path, b \in Doc : p = cmd.doc[1] /\ b = cmd.doc[2]
    BY DEF TypeInv, Opening, Apply
  <1>2. \A q \in Path : Applied(q)' = IF q = p THEN Applied(q) \cup {b} ELSE Applied(q)
    BY <1>1, AppliedIsAdded
  <1>3. /\ UNCHANGED <<file, man, raced, touched, cur>> /\ row' = [row EXCEPT ![p] = b]
        /\ cmd'.done = cmd.done \cup {p} /\ cmd'.at = "next" /\ cmd.done \subseteq Path
    BY <1>1 DEF Apply, sources, states, ghosts, TypeInv, Cmd
  <1>4. b # Absent /\ (p \in touched \/ file[p] = b)
    BY <1>1 DEF Promotion, Promoting, InHand, Apply
  <1>5. Projected'
    BY <1>2, <1>3, <1>4 DEF Promotion, Projected, TypeInv, TableTypes
  <1>6. SeenIsPromoted'
    BY <1>2, <1>3 DEF Promotion, SeenIsPromoted
  <1>7. Promoting'
    BY <1>2, <1>3, <1>4 DEF Promotion, Promoting
  <1>8. QED BY <1>5, <1>6, <1>7 DEF Promotion

LEMMA ApplyFailsKeepsPromotion ==
    ASSUME TypeInv, Promotion, ApplyFails PROVE Promotion'
  <1>1. \A q \in Path : Applied(q)' = Applied(q)
    BY FailedIsNotApplied DEF Promotion, Promoting, ApplyFails
  <1>2. /\ UNCHANGED <<file, man, row, raced, touched, cur>>
        /\ cmd'.done = cmd.done /\ cmd'.at = "next" /\ cmd.done \subseteq Path
    BY DEF ApplyFails, sources, states, ghosts, TypeInv, Cmd
  <1>3. Projected' /\ SeenIsPromoted'
    BY <1>1, <1>2 DEF Promotion, Projected, SeenIsPromoted
  <1>4. Promoting'
    BY <1>1, <1>2 DEF Promotion, Promoting
  <1>5. QED BY <1>3, <1>4 DEF Promotion

(* Recording what was promoted: the file as it is now enters the manifest. *)
LEMMA SeenKeepsPromotion ==
    ASSUME TypeInv, Promotion, Seen(cmd.done), UNCHANGED <<file, row, event, touched>>,
           \/ cmd'.done = {} /\ cmd'.at \notin {"apply", "render"}
           \/ cmd'.done = cmd.done /\ cmd'.at = "ledger"
    PROVE  Promotion'
  <1>1. \A q \in Path : Applied(q)' = Applied(q)
    BY DEF Applied
  <1>2. Projected'
    BY <1>1 DEF Promotion, Projected
  <1>3. \A q \in cmd.done : q \in touched \/ file[q] \in Applied(q)
    BY DEF Promotion, Promoting
  <1>4. SeenIsPromoted'
    BY <1>1, <1>3 DEF Promotion, SeenIsPromoted, Seen
  <1>5. Promoting'
    BY <1>1, <1>3 DEF Promotion, Promoting, TypeInv, Cmd
  <1>6. QED BY <1>2, <1>4, <1>5 DEF Promotion

(* A step of a command that rewrites files, when nothing is promoted yet:  *)
(* no rewritten file is seen, or it was never promoted and was seen raced. *)
LEMMA RewriteKeepsPromotion ==
    ASSUME Promotion, UNCHANGED <<row, raced>>, \A q \in Path : Applied(q)' = Applied(q),
           cmd'.done = {}, cmd'.at \notin {"apply", "render"},
           \A q \in Path : \/ man'[q] # "seen" \/ q \in raced
                           \/ file'[q] = file[q] /\ man'[q] = man[q]
    PROVE  Promotion'
  <1>1. Projected'
    BY DEF Promotion, Projected
  <1>2. SeenIsPromoted'
    BY DEF Promotion, SeenIsPromoted
  <1>3. Promoting'
    BY DEF Promoting
  <1>4. QED BY <1>1, <1>2, <1>3 DEF Promotion

LEMMA PromotionStep == ASSUME TypeInv, Promotion, Next PROVE Promotion'
  <1>c. cmd \in Cmd /\ file \in [Path -> Doc] /\ row \in [Path -> Doc]
           /\ man \in [Path -> {"none", "seen", "stale"}] /\ Archive(cur) \in Path
    BY PathFacts DEF TypeInv, SourceTypes, TableTypes, LoopTypes
  <1>d. cmd.at \notin {"next", "apply", "block", "ledger", "finalized", "file"} => cmd.done = {}
    BY DEF Promotion, Promoting
  <1>k. ASSUME Still, cmd'.done = {}, cmd'.at \notin {"apply", "render"} PROVE Promotion'
    BY <1>k, StillKeepsPromotion
  <1>r. Still /\ Raise => Promotion'
    BY <1>k DEF Raise, Idle
  <1>g. ASSUME NEW at \in Ats, at \notin {"apply", "render"}, Goto(at), Still,
               cmd.at \notin {"next", "apply", "block", "ledger", "finalized", "file"}
        PROVE  Promotion'
    <2>1. cmd'.done = cmd.done /\ cmd'.at = at
      BY <1>c, <1>g DEF Goto, Cmd
    <2>2. QED BY <2>1, <1>d, <1>g, <1>k
  <1>1. CASE Begins
    <2>1. PICK name, S, at : Started(name, S, at) /\ Invoke(name, S, at)
      BY <1>1 DEF Begins
    <2>2. cmd'.at = at /\ cmd'.done = {}
      BY <2>1 DEF Invoke, Idle
    <2>3. QED BY <2>1, <2>2, <1>k DEF Started, Invoke, Still, sources, projection, ghosts
  <1>2. CASE Workshop
    <2>1. Still /\ UNCHANGED <<touched, cmd, cur>>
      BY <1>2 DEF Workshop, WorkshopPermit, WorkshopInserts, WorkshopRevokes, PermitExpires, DieBeforeConsuming,
                  sources, projection, states, ghosts, Still
    <2>2. QED BY <2>1, StillKeepsPromotion
  <1>3. CASE Clerical
    BY <1>3, <1>r DEF Clerical, ActionPermit, RevokePermit, GovernanceStatus, RecoverAction, sources, projection,
                      ghosts, Still
  <1>4. CASE AttributeChange \/ NoMatch \/ AcceptEdit
    BY <1>4, <1>r, <1>g, AtFacts DEF AttributeChange, NoMatch, AcceptEdit, sources, projection, ghosts, Still
  <1>5. CASE WorkshopHeartbeat
    <2>1. cmd'.at = "read" /\ cmd'.done = {}
      BY <1>5 DEF WorkshopHeartbeat, Idle
    <2>2. QED BY <1>5, <1>k, <2>1 DEF WorkshopHeartbeat, sources, projection, ghosts, Still
  <1>6. CASE Reconcile
    <2>1. Raise \/ (cmd'.at \in {"next", "guard"} /\ cmd'.done = cmd.done)
      BY <1>6, <1>c DEF Reconcile, Cmd
    <2>2. QED BY <1>6, <1>d, <1>r, <1>k, <2>1 DEF Reconcile, sources, projection, Still
  <1>7. CASE ConsumePermit
    <2>1. Raise \/ (cmd'.at = "accept" /\ cmd'.done = cmd.done)
      BY <1>7, <1>c DEF ConsumePermit, Cmd
    <2>2. QED BY <1>7, <1>d, <1>r, <1>k, <2>1 DEF ConsumePermit, sources, projection, ghosts, Still
  <1>8. CASE Settle
    <2>1. Raise \/ (cmd'.at = "next" /\ cmd'.done = cmd.done)
      BY <1>8, <1>c DEF Settle, Cmd
    <2>2. QED BY <1>8, <1>d, <1>r, <1>k, <2>1 DEF Settle, sources, projection, ghosts, Still
  <1>9. CASE SaveState \/ SaveCurrent
    <2>1. cmd'.at \in {"current", "gate", "verify", "finish"} /\ cmd'.done = cmd.done
      BY <1>9, <1>c DEF SaveState, SaveCurrent, AfterHeartbeat, Goto, Cmd
    <2>2. QED BY <1>9, <1>d, <1>k, <2>1 DEF SaveState, SaveCurrent, sources, projection, ghosts, Still
  <1>10. CASE PromoteEnds \/ VerifyLoop \/ FileFinalization \/ FinalizeFails \/ FinalizeBlocked
    BY <1>10, <1>r DEF PromoteEnds, VerifyLoop, FileFinalization, FinalizeFails, FinalizeBlocked, sources,
                       projection, ghosts, Still
  <1>11. CASE Finish \/ Die
    <2>1. cmd'.at = "" /\ cmd'.done = {}
      BY <1>11, IdleFields DEF Finish, Die
    <2>2. QED BY <1>11, <1>k, <2>1 DEF Finish, Die, sources, projection, Still
  <1>12. CASE Deroute \/ FinalizeReady \/ StartLoop
    BY <1>12, <1>g, AtFacts DEF Deroute, FinalizeReady, StartLoop, sources, projection, ghosts, Still
  <1>13. CASE Kickoff \/ OpenLoop
    BY <1>13, <1>r, <1>g, AtFacts DEF Kickoff, OpenLoop, sources, projection, ghosts, Still
  <1>14. CASE RecordFinalization \/ SaveFinalized
    <2>1. cmd'.done = cmd.done /\ cmd'.at \in {"block", "finalized", "file"}
      BY <1>14, <1>c DEF RecordFinalization, SaveFinalized, Goto, Cmd
    <2>2. Still /\ UNCHANGED touched
      BY <1>14 DEF RecordFinalization, SaveFinalized, sources, projection, ghosts, Still
    <2>3. QED BY <2>1, <2>2, StillKeepsPromotion
  <1>15. CASE \E p \in Editable : Author(p)
    BY <1>15, AuthorKeepsPromotion, KairosConstants DEF Path, Loop
  <1>16. CASE Stage \/ Apply \/ ApplyFails
    BY <1>16, StageKeepsPromotion, ApplyKeepsPromotion, ApplyFailsKeepsPromotion
  <1>17. CASE Manifest
    <2>1. cmd'.done = {} /\ cmd'.at = "save" /\ Seen(cmd.done) /\ UNCHANGED <<file, row, event, touched>>
      BY <1>17, <1>c DEF Manifest, projection, Cmd
    <2>2. QED BY <2>1, SeenKeepsPromotion
  <1>18. CASE SealManifest
    <2>1. CASE cmd.bad
      <3>1. Still /\ UNCHANGED touched /\ cmd'.done = cmd.done /\ cmd'.at = "block"
        BY <1>18, <1>c, <2>1 DEF SealManifest, projection, Goto, Cmd, Still
      <3>2. QED BY <3>1, StillKeepsPromotion
    <2>2. CASE ~cmd.bad
      <3>1. cmd'.done = cmd.done /\ cmd'.at = "ledger" /\ Seen(cmd.done) /\ UNCHANGED <<file, row, event, touched>>
        BY <1>18, <1>c, <2>2 DEF SealManifest, projection, Goto, Cmd
      <3>2. QED BY <3>1, SeenKeepsPromotion
    <2>3. QED BY <2>1, <2>2
  <1>19. CASE CloseTask
    <2>1. UNCHANGED <<row, event, raced>> /\ cmd.done = {}
      BY <1>19, <1>d DEF CloseTask, projection
    <2>2. PICK p \in cmd.arg :
             \/ UNCHANGED <<file, man>>
             \/ /\ file' = [file EXCEPT ![p] = Content(file[p].rev + 1, "completed", 0)]
                /\ man' = [man EXCEPT ![p] = IF @ = "seen" THEN "stale" ELSE @]
      BY <1>19 DEF CloseTask
    <2>3. Raise \/ Goto("deroute")
      BY <1>19 DEF CloseTask
    <2>4. cmd'.done = {} /\ cmd'.at \in {"finish", "deroute"}
      BY <1>c, <2>1, <2>3 DEF Raise, Idle, Goto, Cmd
    <2>5. \A q \in Path : man'[q] # "seen" \/ (file'[q] = file[q] /\ man'[q] = man[q])
      BY <1>c, <2>2 DEF Cmd
    <2>6. \A q \in Path : Applied(q)' = Applied(q)
      BY <2>1 DEF Applied
    <2>7. QED BY <2>1, <2>4, <2>5, <2>6, RewriteKeepsPromotion
  <1>20. CASE RecoverArchive
    <2>1. \A q \in Path : Applied(q)' = Applied(q)
      BY <1>20, SupersededIsNotApplied
    <2>2. Raise \/ Goto("read")
      BY <1>20 DEF RecoverArchive
    <2>3. cmd'.done = {} /\ cmd'.at \in {"finish", "read"}
      BY <1>c, <1>d, <1>20, <2>2 DEF RecoverArchive, Raise, Idle, Goto, Cmd
    <2>4. UNCHANGED <<row, raced, man>> /\ \A q \in Path : file'[q] = file[q] \/ q \in Stale
      BY <1>20 DEF RecoverArchive, ghosts
    <2>5. \A q \in Path : q \in Stale => man[q] # "seen" \/ q \in raced
      BY DEF Stale, Promotion, Projected, SeenIsPromoted
    <2>6. QED BY <2>1, <2>3, <2>4, <2>5, RewriteKeepsPromotion
  <1>21. CASE ReserveArchive
    <2>1. Still /\ UNCHANGED <<touched, cur>> /\ cmd.done = {}
      BY <1>21, <1>d DEF ReserveArchive, sources, projection, states, ghosts, Still
    <2>2. CASE Goto("render") /\ file[Archive(cur)] = Absent /\ row[Archive(cur)] = Absent
      <3>1. cmd'.at = "render" /\ cmd'.done = {}
        BY <1>c, <2>1, <2>2 DEF Goto, Cmd
      <3>2. man[Archive(cur)] # "seen" \/ Archive(cur) \in raced
        BY <1>c, <2>2 DEF Promotion, Projected, SeenIsPromoted
      <3>3. Promoting'
        BY <2>1, <2>2, <3>1, <3>2 DEF Still, Promoting, Unrendered
      <3>4. Projected' /\ SeenIsPromoted'
        BY <2>1 DEF Still, Promotion, Projected, SeenIsPromoted, Applied
      <3>5. QED BY <3>3, <3>4 DEF Promotion
    <2>3. CASE cmd' = [cmd EXCEPT !.at = "next", !.cand = {Archive(cur)}, !.done = {}, !.sealing = TRUE]
      <3>1. cmd'.at = "next" /\ cmd'.done = {}
        BY <1>c, <2>3 DEF Cmd
      <3>2. QED BY <2>1, <3>1, <1>k
    <2>4. CASE Goto("block")
      <3>1. cmd'.at = "block" /\ cmd'.done = {}
        BY <1>c, <2>1, <2>4 DEF Goto, Cmd
      <3>2. QED BY <2>1, <3>1, <1>k
    <2>5. QED BY <1>21, <2>2, <2>3, <2>4 DEF ReserveArchive
  <1>22. CASE RenderArchive
    <2>1. UNCHANGED <<row, event, raced, man>> /\ \A q \in Path : q # Archive(cur) => file'[q] = file[q]
      BY <1>22, <1>c DEF RenderArchive, projection, ghosts
    <2>2. cmd'.done = {} /\ cmd'.at = "next"
      BY <1>22, <1>c DEF RenderArchive, Cmd
    <2>3. man[Archive(cur)] # "seen" \/ Archive(cur) \in raced
      BY <1>22 DEF RenderArchive, Promotion, Promoting, Unrendered
    <2>4. \A q \in Path : Applied(q)' = Applied(q)
      BY <2>1 DEF Applied
    <2>5. QED BY <2>1, <2>2, <2>3, <2>4, RewriteKeepsPromotion
  <1>23. CASE StageTask
    <2>1. UNCHANGED <<row, event, raced, man>> /\ cmd.done = {} /\ (Raise \/ Goto("open"))
      BY <1>23, <1>d DEF StageTask, projection, ghosts
    <2>2. cmd'.done = {} /\ cmd'.at \in {"finish", "open"}
      BY <1>c, <2>1 DEF Raise, Idle, Goto, Cmd
    <2>3. \A q \in Path : file'[q] = file[q] \/ file[q] = Absent
      BY <1>23, <1>c DEF StageTask
    <2>4. \A q \in Path : file[q] = Absent => man[q] # "seen" \/ q \in raced
      BY DEF Promotion, Projected, SeenIsPromoted
    <2>5. \A q \in Path : Applied(q)' = Applied(q)
      BY <2>1 DEF Applied
    <2>6. QED BY <2>1, <2>2, <2>3, <2>4, <2>5, RewriteKeepsPromotion
  <1>24. QED BY Steps, <1>1, <1>2, <1>3, <1>4, <1>5, <1>6, <1>7, <1>8, <1>9, <1>10, <1>11, <1>12, <1>13, <1>14,
                <1>15, <1>16, <1>17, <1>18, <1>19, <1>20, <1>21, <1>22, <1>23

LEMMA PromotionInit == ASSUME Init PROVE Promotion
  <1>1. Content(1, "active", 0) # Absent
    BY DEF Content, Absent
  <1>2. \A p \in Path : Applied(p) = IF p = Task(1) THEN {Content(1, "active", 0)} ELSE {}
    <2>1. event = {[path |-> Task(1), bytes |-> Content(1, "active", 0), st |-> "applied"]}
      BY KairosConstants DEF Init, GovInit, Task, Path, Loop
    <2> DEFINE r == [path |-> Task(1), bytes |-> Content(1, "active", 0), st |-> "applied"]
    <2>2. event = {r} /\ r.path = Task(1) /\ r.bytes = Content(1, "active", 0) /\ r.st = "applied"
      BY <2>1
    <2> HIDE DEF r
    <2>3. ASSUME NEW p \in Path PROVE Applied(p) = IF p = Task(1) THEN {Content(1, "active", 0)} ELSE {}
      BY <2>2 DEF Applied
    <2>4. QED BY <2>3
  <1>3. Projected /\ SeenIsPromoted
    BY <1>1, <1>2 DEF Init, GovInit, Projected, SeenIsPromoted
  <1>4. Promoting
    BY IdleFields DEF Init, GovInit, Promoting
  <1>5. QED BY <1>3, <1>4 DEF Promotion

-----------------------------------------------------------------------------
(* Sealing.  A sequence of permits all inserted apart from their check.    *)
Apart(s) == \E S : s \in Seq(S) /\ \A r \in S : "apart" \in DOMAIN r /\ r.apart = TRUE

LEMMA ApartIs == ASSUME NEW s, Apart(s) PROVE \A i \in DOMAIN s : s[i].apart
  <1>1. PICK S : s \in Seq(S) /\ \A r \in S : r.apart = TRUE
    BY DEF Apart
  <1>2. QED BY <1>1

LEMMA NoneIsApart == Apart(<<>>)
  <1>1. PICK S, s : S = {} /\ s = <<>>
    OBVIOUS
  <1>2. s \in Seq(S) /\ \A r \in S : "apart" \in DOMAIN r /\ r.apart = TRUE
    BY <1>1
  <1>3. Apart(s)
    BY ONLY <1>2 DEF Apart
  <1>4. QED BY <1>1, <1>3

LEMMA GrantIsApart == ASSUME NEW S PROVE Apart(Grant(S, TRUE))
  <1> DEFINE r == [before |-> [p \in S |-> file[p]], task |-> rs.task, late |-> FALSE, apart |-> TRUE]
  <1>1. "apart" \in DOMAIN r /\ r.apart = TRUE /\ Grant(S, TRUE) = <<r>>
    BY DEF Grant
  <1> HIDE DEF r
  <1>2. <<r>> \in Seq({r})
    OBVIOUS
  <1>3. \A q \in {r} : "apart" \in DOMAIN q /\ q.apart = TRUE
    BY <1>1
  <1>4. PICK R, s : R = {r} /\ s = <<r>>
    OBVIOUS
  <1>5. s \in Seq(R) /\ \A q \in R : "apart" \in DOMAIN q /\ q.apart = TRUE
    BY <1>2, <1>3, <1>4
  <1>6. Apart(s)
    BY ONLY <1>5 DEF Apart
  <1>7. QED BY <1>1, <1>4, <1>6

LEMMA ApartConcat == ASSUME NEW s, NEW t, Apart(s), Apart(t) PROVE Apart(s \o t)
  <1>1. PICK S : s \in Seq(S) /\ \A r \in S : "apart" \in DOMAIN r /\ r.apart = TRUE
    BY DEF Apart
  <1>2. PICK T : t \in Seq(T) /\ \A r \in T : "apart" \in DOMAIN r /\ r.apart = TRUE
    BY DEF Apart
  <1>3. s \in Seq(S \cup T) /\ t \in Seq(S \cup T)
    BY <1>1, <1>2
  <1>4. s \o t \in Seq(S \cup T)
    BY <1>3, ConcatProperties
  <1>5. QED BY <1>1, <1>2, <1>4 DEF Apart

LEMMA ApartWithout == ASSUME NEW s, Apart(s), NEW i \in DOMAIN s PROVE Apart(Without(s, i))
  <1>1. PICK S : s \in Seq(S) /\ \A r \in S : "apart" \in DOMAIN r /\ r.apart = TRUE
    BY DEF Apart
  <1>2. i \in 1 .. Len(s) /\ Len(s) \in Nat
    BY <1>1
  <1>3. SubSeq(s, 1, i - 1) \in Seq(S) /\ SubSeq(s, i + 1, Len(s)) \in Seq(S)
    BY <1>1, <1>2
  <1>4. Without(s, i) \in Seq(S)
    BY <1>3, ConcatProperties DEF Without
  <1>5. QED BY <1>1, <1>4 DEF Apart

LEMMA ApartLate == ASSUME NEW s, Apart(s), NEW i \in DOMAIN s PROVE Apart([s EXCEPT ![i].late = TRUE])
  <1>1. PICK S : s \in Seq(S) /\ \A r \in S : "apart" \in DOMAIN r /\ r.apart = TRUE
    BY DEF Apart
  <1> DEFINE u == [s[i] EXCEPT !.late = TRUE]
  <1>2. s[i] \in S
    BY <1>1
  <1>3. "apart" \in DOMAIN u /\ u.apart = TRUE
    BY <1>1, <1>2
  <1>4. [s EXCEPT ![i].late = TRUE] = [s EXCEPT ![i] = u]
    OBVIOUS
  <1> HIDE DEF u
  <1>5. s \in Seq(S \cup {u}) /\ i \in 1 .. Len(s)
    BY <1>1
  <1>6. [s EXCEPT ![i] = u] \in Seq(S \cup {u})
    BY <1>5, ExceptSeq
  <1>7. \A r \in S \cup {u} : "apart" \in DOMAIN r /\ r.apart = TRUE
    BY <1>1, <1>3
  <1>8. QED BY <1>4, <1>6, <1>7, Zenon DEF Apart

(* From the gate of finalize to its last write, the workspace is closed:   *)
(* the loop of current.json is the one of the state, only finalize runs,   *)
(* nothing is in quarantine, no projected task is active, no permit was    *)
(* allowed by a check that is still good.                                  *)
Closed ==
    /\ cmd.name = "finalize" /\ cur = rs.loop /\ stray = "none" /\ Len(running) = 1
    /\ \A q \in quar : q.st # "OPEN"
    /\ \A n \in Loop : row[Task(n)].state # "active"
    /\ Apart(permit)

(* While the archive is promoted and recorded it is the only document of   *)
(* the command, and it is projected once its promotion has not failed.     *)
ArchiveFirst ==
    /\ cmd.at \in {"next", "apply", "block", "ledger", "finalized", "file"}
    /\ cmd.at \in {"next", "apply"} => cmd.cand \subseteq {Archive(cur)}
    /\ cmd.at = "apply" => cmd.doc[1] = Archive(cur)
    /\ cmd.at = "next" /\ Archive(cur) \notin cmd.cand /\ ~cmd.bad => Applied(Archive(cur)) # {}

Recorded ==
    /\ Unsettled = {} /\ Len(fins) >= 1
    /\ fins[Len(fins)].loop = cur /\ fins[Len(fins)].archive = row[Archive(cur)]

Sealing ==
    /\ cmd.name = "finalize" => phase = "CLOSURE"
    /\ Apart(asked)
    /\ cmd.at = "gate" => cmd.name = "finalize" /\ cur = rs.loop
    /\ cmd.at \in {"archive", "render"} \/ cmd.sealing => Closed
    /\ cmd.sealing => ArchiveFirst
    /\ cmd.at \in {"ledger", "finalized", "file"} => cmd.sealing /\ row[Archive(cur)] # Absent
    /\ cmd.at = "finalized" => Recorded

(* A command that is not sealing, before or after.                         *)
LEMMA UnsealedKeeps ==
    ASSUME Apart(asked)', cmd'.name = "finalize" => phase' = "CLOSURE", cmd'.sealing = FALSE,
           cmd'.at \notin {"gate", "archive", "render", "ledger", "finalized", "file"}
    PROVE  Sealing'
  BY DEF Sealing

(* The actors that hold no lock may only withdraw or add permits.          *)
LEMMA OthersKeepSealing ==
    ASSUME Sealing, UNCHANGED <<cmd, row, event, quar, running, rs, cur, phase, fins>>, Apart(asked)',
           Closed => Apart(permit)' /\ stray' = stray
    PROVE  Sealing'
  <1>1. Closed => Closed'
    BY DEF Closed
  <1>2. ArchiveFirst' = ArchiveFirst /\ Recorded' = Recorded
    BY DEF ArchiveFirst, Recorded, Applied, Unsettled
  <1>3. QED BY <1>1, <1>2 DEF Sealing

(* A step of the sealing command itself that leaves the workspace alone.   *)
ClosedStays == UNCHANGED <<row, quar, running, cur, phase, permit, asked, stray>> /\ rs'.loop \in {rs.loop, cur}

LEMMA SealingGoesOn ==
    ASSUME Sealing, Closed, ClosedStays, cmd'.name = cmd.name, cmd'.at # "gate", ArchiveFirst',
           cmd'.at \in {"ledger", "finalized", "file"} => cmd'.sealing /\ row[Archive(cur)] # Absent,
           cmd'.at = "finalized" => Recorded'
    PROVE  Sealing'
  <1>1. Closed'
    BY DEF Closed, ClosedStays
  <1>2. QED BY <1>1 DEF Sealing, ClosedStays

LEMMA WorkshopKeepsSealing == ASSUME TypeInv, Sealing, Workshop, UNCHANGED loopVars PROVE Sealing'
  <1>1. UNCHANGED <<cmd, row, event, quar, running, rs, cur, phase, fins>>
    BY DEF Workshop, WorkshopPermit, WorkshopInserts, WorkshopRevokes, PermitExpires, DieBeforeConsuming,
           projection, states, loopVars
  <1>2. Closed => phase = "CLOSURE" /\ cmd # Idle
    BY IdleFields DEF Sealing, Closed
  <1>3. ASSUME NEW S, WorkshopPermit(S) PROVE Apart(asked)' /\ (Closed => Apart(permit)' /\ stray' = stray)
    <2>1. ~Closed
      BY <1>2, <1>3 DEF WorkshopPermit, Grantable, MayFollow, Phases
    <2>2. asked' = asked \/ asked' = Grant(S, TRUE)
      BY <1>3 DEF WorkshopPermit
    <2>3. QED BY <2>1, <2>2, GrantIsApart DEF Sealing
  <1>4. ASSUME WorkshopInserts PROVE Apart(asked)' /\ (Closed => Apart(permit)' /\ stray' = stray)
    BY <1>4, NoneIsApart, ApartConcat DEF WorkshopInserts, Sealing, Closed
  <1>5. ASSUME WorkshopRevokes PROVE Apart(asked)' /\ (Closed => Apart(permit)' /\ stray' = stray)
    <2>1. PICK i \in DOMAIN permit : permit' = Without(permit, i)
      BY <1>5 DEF WorkshopRevokes
    <2>2. QED BY <1>5, <2>1, ApartWithout DEF WorkshopRevokes, Sealing, Closed
  <1>6. ASSUME PermitExpires PROVE Apart(asked)' /\ (Closed => Apart(permit)' /\ stray' = stray)
    <2>1. CASE \E i \in DOMAIN permit : permit' = [permit EXCEPT ![i].late = TRUE] /\ UNCHANGED stray
      <3>1. PICK i \in DOMAIN permit : permit' = [permit EXCEPT ![i].late = TRUE]
        BY <2>1
      <3>2. Apart(permit) => Apart(permit)'
        BY <3>1, ApartLate
      <3>3. UNCHANGED <<asked, stray>>
        BY <1>6, <2>1 DEF PermitExpires
      <3>4. QED BY <3>2, <3>3 DEF Sealing, Closed
    <2>2. CASE stray = "timely" /\ UNCHANGED permit
      BY <1>6, <2>2 DEF PermitExpires, Sealing, Closed
    <2>3. QED BY <1>6, <2>1, <2>2 DEF PermitExpires
  <1>7. ASSUME DieBeforeConsuming PROVE Apart(asked)' /\ (Closed => Apart(permit)' /\ stray' = stray)
    BY <1>2, <1>7 DEF DieBeforeConsuming, Sealing
  <1>8. Apart(asked)' /\ (Closed => Apart(permit)' /\ stray' = stray)
    BY <1>3, <1>4, <1>5, <1>6, <1>7 DEF Workshop
  <1>9. QED BY <1>1, <1>8, OthersKeepSealing

(* Staging and applying the archive, and failing to apply it.              *)
LEMMA StageKeepsSealing == ASSUME TypeInv, Sealing, Stage, UNCHANGED loopVars PROVE Sealing'
  <1>1. /\ ClosedStays /\ UNCHANGED fins /\ cmd \in Cmd /\ cmd.at = "next"
    BY DEF Stage, ClosedStays, tables, states, loopVars, TypeInv
  <1>2. PICK p \in cmd.cand :
           \/ cmd' = [cmd EXCEPT !.cand = cmd.cand \ {p}, !.bad = TRUE]
           \/ cmd' = [cmd EXCEPT !.cand = cmd.cand \ {p}, !.done = @ \cup {p}] /\ file[p] \in Applied(p)
           \/ cmd' = [cmd EXCEPT !.cand = cmd.cand \ {p}, !.doc = <<p, file[p]>>, !.at = "apply"]
    BY DEF Stage
  <1>3. /\ cmd'.name = cmd.name /\ cmd'.sealing = cmd.sealing /\ cmd'.cand = cmd.cand \ {p}
        /\ \/ cmd'.at = "next" /\ cmd'.bad = TRUE
           \/ cmd'.at = "next" /\ file[p] \in Applied(p)
           \/ cmd'.at = "apply" /\ cmd'.doc[1] = p
    <2>1. CASE cmd' = [cmd EXCEPT !.cand = cmd.cand \ {p}, !.bad = TRUE]
      BY <1>1, <2>1 DEF Cmd
    <2>2. CASE cmd' = [cmd EXCEPT !.cand = cmd.cand \ {p}, !.done = @ \cup {p}] /\ file[p] \in Applied(p)
      BY <1>1, <2>2 DEF Cmd
    <2>3. CASE cmd' = [cmd EXCEPT !.cand = cmd.cand \ {p}, !.doc = <<p, file[p]>>, !.at = "apply"]
      BY <1>1, <2>3 DEF Cmd
    <2>4. QED BY <1>2, <2>1, <2>2, <2>3
  <1>4. p \in Path
    BY <1>1 DEF Cmd
  <1>5. CASE cmd.sealing
    <2>1. p = Archive(cur) /\ Closed
      BY <1>1, <1>5 DEF Sealing, ArchiveFirst
    <2>2. Applied(p)' = Applied(p)
      BY <1>4, StagedIsNotApplied
    <2>3. ArchiveFirst'
      BY <1>1, <1>3, <1>5, <2>1, <2>2 DEF Sealing, ArchiveFirst, ClosedStays
    <2>4. QED BY <1>1, <1>3, <2>1, <2>3, SealingGoesOn
  <1>6. CASE ~cmd.sealing
    <2>1. cmd'.sealing = FALSE
      BY <1>1, <1>3, <1>6 DEF Cmd
    <2>2. QED BY <1>1, <1>3, <2>1, UnsealedKeeps DEF Sealing, ClosedStays
  <1>7. QED BY <1>5, <1>6

LEMMA ApplyKeepsSealing == ASSUME TypeInv, Sealing, Apply \/ ApplyFails, UNCHANGED loopVars PROVE Sealing'
  <1>1. /\ UNCHANGED <<quar, running, cur, phase, permit, asked, stray, rs, fins>>
        /\ cmd \in Cmd /\ cmd.at = "apply"
    BY DEF Apply, ApplyFails, tables, states, loopVars, TypeInv
  <1>2. /\ cmd'.name = cmd.name /\ cmd'.sealing = cmd.sealing /\ cmd'.cand = cmd.cand /\ cmd'.at = "next"
        /\ ApplyFails => cmd'.bad = TRUE
    BY <1>1 DEF Apply, ApplyFails, Cmd
  <1>3. CASE cmd.sealing
    <2>1. cmd.doc[1] = Archive(cur) /\ Closed /\ Archive(cur) \in Path
      BY <1>1, <1>3, PathFacts DEF Sealing, ArchiveFirst, TypeInv, LoopTypes
    <2>2. ASSUME Apply PROVE Applied(Archive(cur))' # {}
      <3>1. PICK p \in Path : p = Archive(cur)
        BY <2>1
      <3>2. Applied(p)' = Applied(p) \cup {cmd.doc[2]}
        BY <2>1, <2>2, <3>1, AppliedIsAdded
      <3>3. QED BY <1>1, <3>1, <3>2
    <2>3. ArchiveFirst'
      BY <1>1, <1>2, <1>3, <2>1, <2>2 DEF Sealing, ArchiveFirst
    <2>4. \A n \in Loop : row'[Task(n)] = row[Task(n)]
      <3>1. row' = row \/ row' = [row EXCEPT ![Archive(cur)] = cmd.doc[2]]
        BY <2>1 DEF Apply, ApplyFails
      <3>2. \A n \in Loop : Task(n) # Archive(cur)
        BY DEF Task, Archive
      <3>3. row \in [Path -> Doc] /\ \A n \in Loop : Task(n) \in Path
        BY PathFacts DEF TypeInv, TableTypes
      <3>4. QED BY <3>1, <3>2, <3>3
    <2>5. Closed'
      BY <1>1, <1>2, <2>1, <2>4 DEF Closed
    <2>6. QED BY <1>1, <1>2, <2>3, <2>5 DEF Sealing
  <1>4. CASE ~cmd.sealing
    <2>1. cmd'.sealing = FALSE
      BY <1>1, <1>2, <1>4 DEF Cmd
    <2>2. QED BY <1>1, <1>2, <2>1, UnsealedKeeps DEF Sealing
  <1>5. QED BY <1>3, <1>4

LEMMA SealingStep == ASSUME TypeInv, Promotion, Sealing, Next PROVE Sealing'
  <1>c. cmd \in Cmd /\ Archive(cur) \in Path /\ Apart(asked) /\ (cmd.name = "finalize" => phase = "CLOSURE")
    BY PathFacts DEF TypeInv, LoopTypes, Sealing
  <1>d. cmd.at \notin {"next", "apply", "block", "ledger", "finalized", "file"} => cmd.sealing = FALSE
    BY <1>c DEF Sealing, ArchiveFirst, Cmd
  <1>k. ASSUME UNCHANGED <<asked, phase>>, cmd'.name = cmd.name, cmd'.sealing = FALSE,
               cmd'.at \notin {"gate", "archive", "render", "ledger", "finalized", "file"}
        PROVE  Sealing'
    BY <1>c, <1>k, UnsealedKeeps
  <1>r. Raise /\ UNCHANGED <<asked, phase>> => Sealing'
    <2>1. Raise => cmd'.name = cmd.name /\ cmd'.sealing = FALSE /\ cmd'.at = "finish"
      BY DEF Raise, Idle
    <2>2. QED BY <2>1, <1>k
  <1>g. ASSUME NEW at \in Ats, at \notin {"gate", "archive", "render", "ledger", "finalized", "file"}, Goto(at),
               UNCHANGED <<asked, phase>>, cmd.at \notin {"next", "apply", "block", "ledger", "finalized", "file"}
        PROVE  Sealing'
    <2>1. cmd'.name = cmd.name /\ cmd'.sealing = FALSE /\ cmd'.at = at
      BY <1>c, <1>d, <1>g DEF Goto, Cmd
    <2>2. QED BY <2>1, <1>g, <1>k
  <1>1. CASE Begins
    <2>1. PICK name, S, at : Started(name, S, at) /\ Invoke(name, S, at)
      BY <1>1 DEF Begins
    <2>2. cmd'.at = at /\ cmd'.sealing = FALSE /\ cmd'.name = name
      BY <2>1 DEF Invoke, Idle
    <2>3. phase' = PhaseOf(name) /\ UNCHANGED asked
      BY <2>1 DEF Invoke
    <2>4. PhaseOf("finalize") = "CLOSURE"
      BY DEF PhaseOf
    <2>5. at \in {"read", "act", "next", "open"}
      BY <2>1 DEF Started
    <2>6. QED BY <1>c, <2>2, <2>3, <2>4, <2>5, UnsealedKeeps
  <1>2. CASE Workshop /\ UNCHANGED loopVars
    BY <1>2, WorkshopKeepsSealing
  <1>3. CASE \E p \in Editable : Author(p) /\ UNCHANGED loopVars
    <2>1. UNCHANGED <<cmd, row, event, quar, running, rs, cur, phase, fins, asked, permit, stray>>
      BY <1>3 DEF Author, projection, states, tables, loopVars
    <2>2. QED BY <1>c, <2>1, OthersKeepSealing DEF Closed
  <1>4. CASE Clerical
    BY <1>4, <1>r DEF Clerical, ActionPermit, RevokePermit, GovernanceStatus, RecoverAction
  <1>5. CASE AttributeChange \/ NoMatch \/ AcceptEdit
    BY <1>5, <1>r, <1>g, AtFacts DEF AttributeChange, NoMatch, AcceptEdit
  <1>6. CASE WorkshopHeartbeat
    <2>1. cmd'.at = "read" /\ cmd'.name = "workshop" /\ cmd'.sealing = FALSE
      BY <1>6 DEF WorkshopHeartbeat, Idle
    <2>2. QED BY <1>6, <1>c, <2>1, UnsealedKeeps DEF WorkshopHeartbeat, tables
  <1>7. CASE Reconcile
    <2>1. Raise \/ (cmd'.at \in {"next", "guard"} /\ cmd'.sealing = cmd.sealing /\ cmd'.name = cmd.name)
      BY <1>7, <1>c DEF Reconcile, Cmd
    <2>2. QED BY <1>7, <1>d, <1>r, <1>k, <2>1 DEF Reconcile, tables
  <1>8. CASE ConsumePermit
    <2>1. CASE cmd.name = "finalize"
      <3>1. "MUTATION" \notin MayFollow(phase)
        BY <1>c, <2>1 DEF MayFollow, Phases
      <3>2. Raise /\ UNCHANGED <<asked, phase>>
        BY <1>8, <3>1 DEF ConsumePermit
      <3>3. QED BY <3>2, <1>r
    <2>2. CASE cmd.name # "finalize"
      <3>1. cmd'.name = cmd.name /\ cmd'.sealing = FALSE /\ cmd'.at \in {"finish", "accept"}
        <4>1. Raise \/ (cmd'.at = "accept" /\ cmd'.sealing = cmd.sealing /\ cmd'.name = cmd.name)
          BY <1>8, <1>c DEF ConsumePermit, Cmd
        <4>2. QED BY <1>8, <1>d, <4>1 DEF ConsumePermit, Raise, Idle
      <3>2. UNCHANGED asked
        BY <1>8 DEF ConsumePermit
      <3>3. QED BY <1>c, <2>2, <3>1, <3>2, UnsealedKeeps
    <2>3. QED BY <2>1, <2>2
  <1>9. CASE Settle
    <2>1. Raise \/ (cmd'.at = "next" /\ cmd'.sealing = cmd.sealing /\ cmd'.name = cmd.name)
      BY <1>9, <1>c DEF Settle, Cmd
    <2>2. QED BY <1>9, <1>d, <1>r, <1>k, <2>1 DEF Settle
  <1>10. CASE UNCHANGED loopVars /\ (Stage \/ Apply \/ ApplyFails)
    BY <1>10, StageKeepsSealing, ApplyKeepsSealing
  <1>11. CASE Manifest \/ SaveState
    <2>1. cmd'.at \in {"save", "current"} /\ cmd'.sealing = cmd.sealing /\ cmd'.name = cmd.name
      BY <1>11, <1>c DEF Manifest, SaveState, Cmd
    <2>2. cmd.sealing = FALSE
      BY <1>11, <1>c, <1>d DEF Manifest, SaveState, Cmd
    <2>3. QED BY <1>11, <1>k, <2>1, <2>2 DEF Manifest, SaveState, tables
  <1>12. CASE SaveCurrent
    <2>1. cmd'.at = AfterHeartbeat /\ cmd'.sealing = FALSE /\ cmd'.name = cmd.name
      BY <1>12, <1>c, <1>d DEF SaveCurrent, Goto, Cmd
    <2>2. UNCHANGED <<asked, phase, rs>> /\ cur' = rs.loop
      BY <1>12 DEF SaveCurrent, tables
    <2>3. CASE cmd.name = "finalize"
      <3>1. cmd'.at = "gate"
        BY <2>1, <2>3 DEF AfterHeartbeat
      <3>2. QED BY <1>c, <2>1, <2>2, <2>3, <3>1 DEF Sealing
    <2>4. CASE cmd.name # "finalize"
      <3>1. cmd'.at \in {"verify", "finish"}
        BY <2>1, <2>4 DEF AfterHeartbeat
      <3>2. QED BY <2>1, <2>2, <3>1, <1>k
    <2>5. QED BY <2>3, <2>4
  <1>13. CASE PromoteEnds \/ VerifyLoop \/ FileFinalization \/ FinalizeFails \/ FinalizeBlocked
    BY <1>13, <1>r DEF PromoteEnds, VerifyLoop, FileFinalization, FinalizeFails, FinalizeBlocked, tables
  <1>14. CASE Finish \/ Die
    <2>1. cmd'.at = "" /\ cmd'.sealing = FALSE /\ cmd'.name = "idle" /\ UNCHANGED asked
      BY <1>14, IdleFields DEF Finish, Die, tables
    <2>2. QED BY <1>c, <2>1, UnsealedKeeps
  <1>15. CASE CloseTask \/ Deroute \/ RecoverArchive \/ StartLoop
    BY <1>15, <1>r, <1>g, AtFacts DEF CloseTask, Deroute, RecoverArchive, StartLoop, tables
  <1>16. CASE Kickoff \/ StageTask \/ OpenLoop
    BY <1>16, <1>r, <1>g, AtFacts DEF Kickoff, StageTask, OpenLoop, tables
  <1>17. CASE FinalizeReady
    <2>1. cmd'.at = "archive" /\ cmd'.sealing = FALSE /\ cmd'.name = cmd.name
      BY <1>17, <1>c, <1>d DEF FinalizeReady, Goto, Cmd
    <2>2. rs'.loop = rs.loop /\ UNCHANGED <<row, quar, running, cur, phase, permit, asked, stray>>
      BY <1>17 DEF FinalizeReady, SetLife, tables, projection, TypeInv, LoopTypes
    <2>3. cmd.name = "finalize" /\ cur = rs.loop
      BY <1>17 DEF FinalizeReady, Sealing
    <2>4. Closed'
      BY <1>17, <2>1, <2>2, <2>3, NoneIsApart DEF FinalizeReady, Ready, Closed
    <2>5. QED BY <1>c, <2>1, <2>2, <2>4 DEF Sealing
  <1>18. CASE ReserveArchive \/ RenderArchive
    <2>1. ClosedStays /\ Closed /\ cmd.sealing = FALSE
      BY <1>18, <1>d DEF ReserveArchive, RenderArchive, ClosedStays, Sealing, projection, states, tables
    <2>2. CASE cmd' = [cmd EXCEPT !.at = "next", !.cand = {Archive(cur)}, !.done = {}, !.sealing = TRUE]
      <3>1. cmd'.at = "next" /\ cmd'.cand = {Archive(cur)} /\ cmd'.sealing = TRUE /\ cmd'.name = cmd.name
        BY <1>c, <2>2 DEF Cmd
      <3>2. ArchiveFirst'
        BY <2>1, <3>1 DEF ArchiveFirst, ClosedStays
      <3>3. QED BY <2>1, <3>1, <3>2, SealingGoesOn
    <2>3. CASE Goto("render") \/ Goto("block")
      <3>1. cmd'.at \in {"render", "block"} /\ cmd'.sealing = FALSE /\ cmd'.name = cmd.name
        BY <1>c, <2>1, <2>3 DEF Goto, Cmd
      <3>2. Closed'
        BY <2>1, <3>1 DEF Closed, ClosedStays
      <3>3. QED BY <1>c, <2>1, <3>1, <3>2 DEF Sealing, ClosedStays
    <2>4. QED BY <1>18, <2>2, <2>3 DEF ReserveArchive, RenderArchive
  <1>19. CASE SealManifest
    <2>1. /\ ClosedStays /\ UNCHANGED event /\ Closed /\ ArchiveFirst /\ cmd.sealing /\ cmd.at = "next"
          /\ cmd.cand = {}
      BY <1>19 DEF SealManifest, ClosedStays, Sealing, projection, states, tables
    <2>2. CASE cmd.bad
      <3>1. cmd'.at = "block" /\ cmd'.sealing = cmd.sealing /\ cmd'.name = cmd.name
        BY <1>19, <1>c, <2>2 DEF SealManifest, Goto, Cmd
      <3>2. QED BY <2>1, <3>1, SealingGoesOn DEF ArchiveFirst
    <2>3. CASE ~cmd.bad
      <3>1. cmd'.at = "ledger" /\ cmd'.sealing = cmd.sealing /\ cmd'.name = cmd.name
        BY <1>19, <1>c, <2>3 DEF SealManifest, Goto, Cmd
      <3>2. row[Archive(cur)] # Absent
        BY <1>c, <2>1, <2>3 DEF ArchiveFirst, Promotion, Projected
      <3>3. QED BY <2>1, <3>1, <3>2, SealingGoesOn DEF ArchiveFirst
    <2>4. QED BY <2>2, <2>3
  <1>20. CASE RecordFinalization
    <2>1. ClosedStays /\ UNCHANGED event /\ Closed /\ cmd.sealing /\ cmd.at = "ledger" /\ row[Archive(cur)] # Absent
      BY <1>20 DEF RecordFinalization, ClosedStays, Sealing, projection, states, tables
    <2>2. CASE Goto("block")
      <3>1. cmd'.at = "block" /\ cmd'.sealing = cmd.sealing /\ cmd'.name = cmd.name
        BY <1>c, <2>2 DEF Goto, Cmd
      <3>2. QED BY <2>1, <3>1, SealingGoesOn DEF ArchiveFirst
    <2>3. CASE Goto("finalized")
      <3>1. cmd'.at = "finalized" /\ cmd'.sealing = cmd.sealing /\ cmd'.name = cmd.name
        BY <1>c, <2>3 DEF Goto, Cmd
      <3>2. /\ Unsettled = {}
            /\ fins' = Append(fins, [loop |-> cur, archive |-> row[Archive(cur)], filed |-> FALSE,
                                     sealed |-> {p \in Path : file[p] # Absent}])
        BY <1>20, <2>3, <3>1, <1>c DEF RecordFinalization, Goto, Cmd
      <3>3. Len(fins) \in Nat /\ Len(fins') = Len(fins) + 1
            /\ fins'[Len(fins) + 1].loop = cur /\ fins'[Len(fins) + 1].archive = row[Archive(cur)]
        BY <3>2 DEF TypeInv, LoopTypes
      <3>4. Recorded'
        BY <2>1, <3>2, <3>3 DEF Recorded, ClosedStays, Unsettled
      <3>5. QED BY <2>1, <3>1, <3>4, SealingGoesOn DEF ArchiveFirst
    <2>4. QED BY <1>20, <2>2, <2>3 DEF RecordFinalization
  <1>21. CASE SaveFinalized
    <2>1. Closed /\ cmd.sealing /\ cmd.at = "finalized" /\ row[Archive(cur)] # Absent
      BY <1>21 DEF SaveFinalized, Sealing
    <2>2. cmd'.at = "file" /\ cmd'.sealing = cmd.sealing /\ cmd'.name = cmd.name
      BY <1>21, <1>c DEF SaveFinalized, Goto, Cmd
    <2>3. ClosedStays
      BY <1>21 DEF SaveFinalized, ClosedStays, TypeInv, LoopTypes, projection, tables
    <2>4. QED BY <2>1, <2>2, <2>3, SealingGoesOn DEF ArchiveFirst
  <1>22. QED BY Steps, <1>1, <1>2, <1>3, <1>4, <1>5, <1>6, <1>7, <1>8, <1>9, <1>10, <1>11, <1>12, <1>13, <1>14,
                <1>15, <1>16, <1>17, <1>18, <1>19, <1>20, <1>21

-----------------------------------------------------------------------------
(* Quarantine.  A candidate of a heartbeat is one whose change is still to *)
(* be answered for, or it cannot bring unanswered bytes to the projection. *)
Harmless(p) == p \in touched \cup raced \/ file[p] = Absent \/ file[p] \in Applied(p)

Quarantined ==
    cmd.name # "promote" =>
      /\ cmd.at \in {"guard", "accept", "settle"} => \A p \in cmd.cand : p \in cmd.left \cup cmd.who \/ Harmless(p)
      /\ cmd.at \in {"next", "apply"} => \A p \in cmd.cand : Open(p) = {} \/ Harmless(p)
      /\ cmd.at = "apply" => Open(cmd.doc[1]) = {} \/ cmd.doc[1] \in touched \cup raced

LEMMA TerminalizedIsNotOpen ==
    ASSUME NEW S, NEW q \in Terminalized(S), quar \subseteq Entry PROVE q.st # "OPEN" \/ (q \in quar /\ q.path \notin S)
  <1>1. CASE q \in quar /\ (q.st # "OPEN" \/ q.path \notin S)
    BY <1>1
  <1>2. CASE \E r \in quar : q = [r EXCEPT !.st = "ATTRIBUTED"]
    BY <1>2 DEF Entry
  <1>3. QED BY <1>1, <1>2 DEF Terminalized

LEMMA ElsewhereKeepsQuarantined ==
    ASSUME cmd'.at \notin {"guard", "accept", "settle", "next", "apply"} PROVE Quarantined'
  BY DEF Quarantined

LEMMA ReconcileKeepsQuarantined == ASSUME TypeInv, Promotion, Reconcile PROVE Quarantined'
  <1>c. cmd \in Cmd
    BY DEF TypeInv
  <1>1. CASE rs.life = "FINALIZED"
    <2>1. cmd'.at = "finish"
      BY <1>1 DEF Reconcile, Raise, Idle
    <2>2. QED BY <2>1, ElsewhereKeepsQuarantined
  <1>2. CASE rs.life # "FINALIZED"
    <2>1. /\ UNCHANGED <<file, event, raced>>
          /\ cmd'.cand = Changed \cup Explicit /\ cmd'.left = Changed \cup Gone
          /\ cmd'.at = IF Changed \cup Gone = {} THEN "next" ELSE "guard"
      BY <1>2, <1>c DEF Reconcile, sources, projection, Cmd
    <2>2. \A p \in Path : p \notin Changed => file[p] = Absent \/ p \in raced \/ file[p] \in Applied(p)
      BY DEF Changed, Promotion, SeenIsPromoted
    <2>3. Explicit \subseteq Path
      BY <1>c DEF Explicit, Cmd
    <2>4. \A p \in Explicit : p \in Changed \/ Harmless(p)'
      BY <2>1, <2>2, <2>3 DEF Harmless, Applied
    <2>5. QED BY <2>1, <2>4 DEF Quarantined
  <1>3. QED BY <1>1, <1>2

LEMMA GuardKeepsQuarantined ==
    ASSUME TypeInv, Quarantined, NoMatch \/ ConsumePermit \/ AcceptEdit \/ Settle PROVE Quarantined'
  <1>c. cmd \in Cmd /\ quar \subseteq Entry
    BY DEF TypeInv, TableTypes
  <1>h. \A p : Harmless(p)' = Harmless(p)
    BY DEF NoMatch, ConsumePermit, AcceptEdit, Settle, sources, projection, ghosts, Harmless, Applied
  <1>r. Raise => Quarantined'
    <2>1. Raise => cmd'.at = "finish"
      BY DEF Raise, Idle
    <2>2. QED BY <2>1, ElsewhereKeepsQuarantined
  <1>1. CASE NoMatch \/ AcceptEdit
    <2>1. /\ cmd.at \in {"guard", "accept"} /\ cmd'.at \in {"guard", "settle"}
          /\ cmd'.name = cmd.name /\ cmd'.cand = cmd.cand /\ cmd'.left = cmd.left /\ cmd'.who = cmd.who
      BY <1>1, <1>c DEF NoMatch, AcceptEdit, Goto, Cmd
    <2>2. QED BY <1>h, <2>1 DEF Quarantined
  <1>2. CASE ConsumePermit
    <2>1. \/ Raise
          \/ \E mine \in SUBSET cmd.left :
                cmd' = [cmd EXCEPT !.at = "accept", !.who = cmd.who \cup mine, !.left = cmd.left \ mine]
      BY <1>2 DEF ConsumePermit, Covers
    <2>2. ASSUME NEW mine \in SUBSET cmd.left,
                 cmd' = [cmd EXCEPT !.at = "accept", !.who = cmd.who \cup mine, !.left = cmd.left \ mine]
          PROVE  Quarantined'
      <3>1. /\ cmd'.at = "accept" /\ cmd'.name = cmd.name /\ cmd'.cand = cmd.cand
            /\ cmd'.left \cup cmd'.who = cmd.left \cup cmd.who
        BY <1>c, <2>2 DEF Cmd
      <3>2. cmd.at = "guard"
        BY <1>2 DEF ConsumePermit
      <3>3. QED BY <1>h, <3>1, <3>2 DEF Quarantined
    <2>3. QED BY <1>r, <2>1, <2>2
  <1>3. CASE Settle
    <2>1. CASE Raise
      BY <1>r, <2>1
    <2>2. CASE ~Raise
      <3>1. /\ cmd.left \ ActionPaths = {} /\ cmd.at = "settle"
            /\ cmd' = [cmd EXCEPT !.at = "next", !.who = {}, !.left = {}]
            /\ quar' = Terminalized(cmd.who \cup (cmd.left \cap ActionPaths))
                          \cup {[path |-> p, bytes |-> file[p], st |-> "OPEN"] : p \in cmd.left \ ActionPaths}
        BY <1>3, <2>2 DEF Settle
      <3>2. PICK S : S = cmd.who \cup (cmd.left \cap ActionPaths)
        OBVIOUS
      <3>3. S = cmd.who \cup cmd.left /\ quar' = Terminalized(S)
        BY <3>1, <3>2
      <3>4. \A p \in S : Open(p)' = {}
        BY <1>c, <3>3, TerminalizedIsNotOpen DEF Open
      <3>5. cmd'.at = "next" /\ cmd'.name = cmd.name /\ cmd'.cand = cmd.cand
        BY <1>c, <3>1 DEF Cmd
      <3>6. QED BY <1>h, <3>1, <3>3, <3>4, <3>5 DEF Quarantined
    <2>3. QED BY <2>1, <2>2
  <1>4. QED BY <1>1, <1>2, <1>3

LEMMA PromoteKeepsQuarantined ==
    ASSUME TypeInv, Promotion, Quarantined, Stage \/ Apply \/ ApplyFails PROVE Quarantined'
  <1>c. cmd \in Cmd /\ cmd.cand \subseteq Path
    BY DEF TypeInv, Cmd
  <1>1. UNCHANGED <<file, touched, raced, quar>> /\ \A p : Open(p)' = Open(p)
    BY DEF Stage, Apply, ApplyFails, sources, ghosts, tables, Open
  <1>2. \A p \in Path : Applied(p) \subseteq Applied(p)'
    <2>1. CASE Stage
      BY <2>1, StagedIsNotApplied
    <2>2. CASE Apply
      BY <2>2, AppliedIsAdded
    <2>3. CASE ApplyFails
      BY <2>3, FailedIsNotApplied DEF Promotion, Promoting, ApplyFails
    <2>4. QED BY <2>1, <2>2, <2>3
  <1>3. \A p \in Path : Harmless(p) => Harmless(p)'
    BY <1>1, <1>2 DEF Harmless
  <1>4. CASE Apply \/ ApplyFails
    <2>1. cmd.at = "apply" /\ cmd'.at = "next" /\ cmd'.name = cmd.name /\ cmd'.cand = cmd.cand
      BY <1>c, <1>4 DEF Apply, ApplyFails, Cmd
    <2>2. QED BY <1>c, <1>1, <1>3, <2>1 DEF Quarantined
  <1>5. CASE Stage
    <2>1. PICK p \in cmd.cand :
             \/ cmd' = [cmd EXCEPT !.cand = cmd.cand \ {p}, !.bad = TRUE]
             \/ cmd' = [cmd EXCEPT !.cand = cmd.cand \ {p}, !.done = @ \cup {p}]
             \/ /\ cmd' = [cmd EXCEPT !.cand = cmd.cand \ {p}, !.doc = <<p, file[p]>>, !.at = "apply"]
                /\ file[p] # Absent /\ file[p] \notin Applied(p)
      BY <1>5 DEF Stage
    <2>2. cmd.at = "next"
      BY <1>5 DEF Stage
    <2>3. /\ cmd'.name = cmd.name /\ cmd'.cand \subseteq cmd.cand /\ cmd'.at \in {"next", "apply"}
          /\ cmd'.at = "apply" => cmd'.doc[1] = p /\ file[p] # Absent /\ file[p] \notin Applied(p)
      <3>1. CASE cmd' = [cmd EXCEPT !.cand = cmd.cand \ {p}, !.bad = TRUE]
        BY <1>c, <2>2, <3>1 DEF Cmd
      <3>2. CASE cmd' = [cmd EXCEPT !.cand = cmd.cand \ {p}, !.done = @ \cup {p}]
        BY <1>c, <2>2, <3>2 DEF Cmd
      <3>3. CASE /\ cmd' = [cmd EXCEPT !.cand = cmd.cand \ {p}, !.doc = <<p, file[p]>>, !.at = "apply"]
                 /\ file[p] # Absent /\ file[p] \notin Applied(p)
        BY <1>c, <2>2, <3>3 DEF Cmd
      <3>4. QED BY <2>1, <3>1, <3>2, <3>3
    <2>4. ASSUME cmd.name # "promote" PROVE \A q \in cmd'.cand : Open(q)' = {} \/ Harmless(q)'
      BY <1>c, <1>1, <1>3, <2>2, <2>3, <2>4 DEF Quarantined
    <2>5. ASSUME cmd.name # "promote", cmd'.at = "apply" PROVE Open(p)' = {} \/ p \in touched' \cup raced'
      BY <1>1, <2>1, <2>2, <2>3, <2>5 DEF Quarantined, Harmless
    <2>6. cmd'.at = "apply" => Open(cmd.doc[1])' = Open(p)'
      BY <2>3 DEF Open
    <2>7. QED BY <2>3, <2>4, <2>5, <2>6 DEF Quarantined
  <1>6. QED BY <1>4, <1>5

LEMMA AuthorKeepsQuarantined ==
    ASSUME TypeInv, Quarantined, NEW p \in Path, Author(p) PROVE Quarantined'
  <1>1. /\ UNCHANGED <<cmd, raced, quar, event>> /\ touched \subseteq touched'
        /\ cmd # Idle => p \in touched'
        /\ \A q \in Path : q # p => file'[q] = file[q]
    BY DEF Author, projection, tables, TypeInv, SourceTypes
  <1>2. CASE cmd = Idle
    BY <1>1, <1>2, IdleFields, ElsewhereKeepsQuarantined
  <1>3. CASE cmd # Idle
    <2>1. \A q \in Path : Harmless(q) => Harmless(q)'
      BY <1>1, <1>3 DEF Harmless, Applied
    <2>2. cmd.cand \subseteq Path /\ \A q : Open(q)' = Open(q)
      BY <1>1 DEF TypeInv, Cmd, Open
    <2>3. QED BY <1>1, <2>1, <2>2 DEF Quarantined, Open
  <1>4. QED BY <1>2, <1>3

LEMMA QuarantinedStep == ASSUME TypeInv, Promotion, Sealing, Quarantined, Next PROVE Quarantined'
  <1>c. cmd \in Cmd
    BY DEF TypeInv
  <1>k. cmd'.at \notin {"guard", "accept", "settle", "next", "apply"} => Quarantined'
    BY ElsewhereKeepsQuarantined
  <1>r. Raise => Quarantined'
    BY <1>k DEF Raise, Idle
  <1>g. ASSUME NEW at \in Ats \ {"guard", "accept", "settle", "next", "apply"}, Goto(at) PROVE Quarantined'
    BY <1>c, <1>g, <1>k DEF Goto, Cmd
  <1>1. CASE Begins
    <2>1. PICK name, S, at : Started(name, S, at) /\ Invoke(name, S, at)
      BY <1>1 DEF Begins
    <2>2. cmd'.at = at /\ cmd'.name = name
      BY <2>1 DEF Invoke, Idle
    <2>3. at \in {"read", "act", "open"} \/ name = "promote"
      BY <2>1 DEF Started
    <2>4. QED BY <1>k, <2>2, <2>3 DEF Quarantined
  <1>2. CASE Workshop
    <2>1. UNCHANGED <<file, event, touched, raced, quar, cmd>>
      BY <1>2 DEF Workshop, WorkshopPermit, WorkshopInserts, WorkshopRevokes, PermitExpires, DieBeforeConsuming,
                  sources, projection, ghosts
    <2>2. QED BY <2>1 DEF Quarantined, Harmless, Open, Applied
  <1>3. CASE \E p \in Editable : Author(p)
    BY <1>3, AuthorKeepsQuarantined, KairosConstants DEF Path, Loop
  <1>4. CASE Clerical
    BY <1>4, <1>r DEF Clerical, ActionPermit, RevokePermit, GovernanceStatus, RecoverAction
  <1>5. CASE AttributeChange
    BY <1>5, <1>r, <1>g, AtFacts DEF AttributeChange
  <1>6. CASE WorkshopHeartbeat \/ Finish \/ Die
    <2>1. cmd' = Idle \/ cmd' = [Idle EXCEPT !.name = "workshop", !.at = "read"]
      BY <1>6 DEF WorkshopHeartbeat, Finish, Die
    <2>2. Idle.at = "" /\ [Idle EXCEPT !.name = "workshop", !.at = "read"].at = "read"
      BY DEF Idle
    <2>3. QED BY <1>k, <2>1, <2>2
  <1>7. CASE Reconcile
    BY <1>7, ReconcileKeepsQuarantined
  <1>8. CASE NoMatch \/ ConsumePermit \/ AcceptEdit \/ Settle
    BY <1>8, GuardKeepsQuarantined
  <1>9. CASE Stage \/ Apply \/ ApplyFails
    BY <1>9, PromoteKeepsQuarantined
  <1>10. CASE Manifest \/ SaveState \/ SaveCurrent
    <2>1. cmd'.at \in {"save", "current", "gate", "verify", "finish"}
      BY <1>10, <1>c DEF Manifest, SaveState, SaveCurrent, AfterHeartbeat, Goto, Cmd
    <2>2. QED BY <1>k, <2>1
  <1>11. CASE PromoteEnds \/ VerifyLoop \/ FileFinalization \/ FinalizeFails \/ FinalizeBlocked
    BY <1>11, <1>r DEF PromoteEnds, VerifyLoop, FileFinalization, FinalizeFails, FinalizeBlocked
  <1>12. CASE CloseTask \/ Deroute \/ RecoverArchive \/ StartLoop \/ Kickoff \/ StageTask \/ OpenLoop
    BY <1>12, <1>r, <1>g, AtFacts DEF CloseTask, Deroute, RecoverArchive, StartLoop, Kickoff, StageTask, OpenLoop
  <1>13. CASE FinalizeReady \/ SealManifest \/ RecordFinalization \/ SaveFinalized
    BY <1>13, <1>g, AtFacts DEF FinalizeReady, SealManifest, RecordFinalization, SaveFinalized
  <1>14. CASE ReserveArchive \/ RenderArchive
    <2>1. Closed /\ UNCHANGED quar
      BY <1>14 DEF ReserveArchive, RenderArchive, Sealing, tables
    <2>2. \A p : Open(p)' = {}
      BY <2>1 DEF Closed, Open
    <2>3. CASE Goto("render") \/ Goto("block")
      BY <1>g, <2>3, AtFacts
    <2>4. CASE cmd' = [cmd EXCEPT !.at = "next", !.cand = {Archive(cur)}, !.done = {}, !.sealing = TRUE]
      <3>1. cmd'.at = "next"
        BY <1>c, <2>4 DEF Cmd
      <3>2. QED BY <2>2, <3>1 DEF Quarantined
    <2>5. QED BY <1>14, <2>3, <2>4 DEF ReserveArchive, RenderArchive
  <1>15. QED BY Steps, <1>1, <1>2, <1>3, <1>4, <1>5, <1>6, <1>7, <1>8, <1>9, <1>10, <1>11, <1>12, <1>13, <1>14

-----------------------------------------------------------------------------
(* Archives.  No one edits an archive by hand, so all there is of it, in   *)
(* the file, in the events and in hand, is of revision 1.                  *)
Archives ==
    \A n \in Loop : /\ file[Archive(n)] = Absent \/ file[Archive(n)].rev = 1
                    /\ \A e \in event : e.path = Archive(n) => e.bytes.rev = 1
                    /\ cmd.at = "apply" /\ cmd.doc[1] = Archive(n) => cmd.doc[2].rev = 1

HandsOff == Editable \subseteq {Task(n) : n \in Loop}

LEMMA StillKeepsArchives ==
    ASSUME Archives, \A n \in Loop : file'[Archive(n)] \in {file[Archive(n)], Absent} \/ file'[Archive(n)].rev = 1,
           \A e \in event' : e \in event \/ \E d \in event : e.path = d.path /\ e.bytes = d.bytes,
           cmd' = cmd \/ cmd'.at # "apply"
    PROVE  Archives'
  <1>1. \A n \in Loop : file'[Archive(n)] = Absent \/ file'[Archive(n)].rev = 1
    BY DEF Archives
  <1>2. \A n \in Loop : \A e \in event' : e.path = Archive(n) => e.bytes.rev = 1
    BY DEF Archives
  <1>3. \A n \in Loop : cmd'.at = "apply" /\ cmd'.doc[1] = Archive(n) => cmd'.doc[2].rev = 1
    BY DEF Archives
  <1>4. QED BY <1>1, <1>2, <1>3 DEF Archives

(* Only the file of an archive that was never promoted is rewritten.       *)
LEMMA FilesOfArchives ==
    ASSUME TypeInv, HandsOff, Promotion, Next, NEW n \in Loop
    PROVE  \/ file'[Archive(n)] = file[Archive(n)]
           \/ row[Archive(n)] = Absent /\ (file'[Archive(n)] = Absent \/ file'[Archive(n)].rev = 1)
  <1>c. cmd \in Cmd /\ file \in [Path -> Doc] /\ Archive(n) \in Path /\ cur \in Loop
    BY PathFacts DEF TypeInv, SourceTypes, LoopTypes
  <1>1. CASE Begins \/ Workshop \/ Clerical \/ AttributeChange \/ WorkshopHeartbeat \/ Reconcile
    BY <1>1 DEF Begins, Invoke, Workshop, WorkshopPermit, WorkshopInserts, WorkshopRevokes, PermitExpires,
                DieBeforeConsuming, Clerical, ActionPermit, RevokePermit, GovernanceStatus, RecoverAction,
                AttributeChange, WorkshopHeartbeat, Reconcile, sources
  <1>2. CASE NoMatch \/ ConsumePermit \/ AcceptEdit \/ Settle \/ Stage \/ Apply \/ ApplyFails
    BY <1>2 DEF NoMatch, ConsumePermit, AcceptEdit, Settle, Stage, Apply, ApplyFails, sources
  <1>3. CASE SaveState \/ SaveCurrent \/ PromoteEnds \/ Finish \/ Die \/ Manifest \/ SealManifest
    BY <1>3 DEF SaveState, SaveCurrent, PromoteEnds, Finish, Die, Manifest, SealManifest, sources
  <1>4. CASE Deroute \/ FinalizeBlocked \/ FinalizeReady \/ ReserveArchive \/ FinalizeFails \/ RecordFinalization
                \/ SaveFinalized \/ FileFinalization \/ Kickoff \/ OpenLoop \/ StartLoop \/ VerifyLoop
    BY <1>4 DEF Deroute, FinalizeBlocked, FinalizeReady, ReserveArchive, FinalizeFails, RecordFinalization,
                SaveFinalized, FileFinalization, Kickoff, OpenLoop, StartLoop, VerifyLoop, sources
  <1>5. CASE \E p \in Editable : Author(p)
    <2>1. PICK m \in Loop : Author(Task(m))
      BY <1>5 DEF HandsOff
    <2>2. Task(m) # Archive(n)
      BY DEF Task, Archive
    <2>3. QED BY <1>c, <2>1, <2>2 DEF Author
  <1>6. CASE CloseTask
    <2>1. PICK p \in cmd.arg : file' = file \/ file' = [file EXCEPT ![p] = Content(file[p].rev + 1, "completed", 0)]
      BY <1>6 DEF CloseTask
    <2>2. OneTask
      BY <1>6 DEF CloseTask, TypeInv, Opening
    <2>3. p # Archive(n)
      BY <2>2 DEF OneTask, Task, Archive
    <2>4. QED BY <1>c, <2>1, <2>3
  <1>7. CASE RecoverArchive
    BY <1>7, <1>c DEF RecoverArchive, Stale
  <1>8. CASE RenderArchive
    <2>1. row[Archive(cur)] = Absent
      BY <1>8 DEF RenderArchive, Promotion, Promoting, Unrendered
    <2>2. Content(1, "finalized", Attempt).rev = 1
      BY DEF Content
    <2>3. CASE n = cur
      BY <1>8, <1>c, <2>1, <2>2, <2>3 DEF RenderArchive
    <2>4. CASE n # cur
      <3>1. Archive(cur) # Archive(n)
        BY <2>4 DEF Archive
      <3>2. QED BY <1>8, <1>c, <3>1 DEF RenderArchive
    <2>5. QED BY <2>3, <2>4
  <1>9. CASE StageTask
    <2>1. NextTask # Archive(n)
      BY DEF NextTask, Task, Archive
    <2>2. QED BY <1>9, <1>c, <2>1 DEF StageTask
  <1>10. QED BY Steps, <1>1, <1>2, <1>3, <1>4, <1>5, <1>6, <1>7, <1>8, <1>9

LEMMA ArchivesStep == ASSUME TypeInv, HandsOff, Promotion, Archives, Next PROVE Archives'
  <1>c. cmd \in Cmd /\ event \subseteq Event
    BY DEF TypeInv, TableTypes
  <1>f. \A n \in Loop : file'[Archive(n)] \in {file[Archive(n)], Absent} \/ file'[Archive(n)].rev = 1
    BY FilesOfArchives
  <1>k. ASSUME event' = event, cmd' = cmd \/ cmd'.at # "apply" PROVE Archives'
    BY <1>f, <1>k, StillKeepsArchives
  <1>r. event' = event /\ Raise => Archives'
    BY <1>k DEF Raise, Idle
  <1>g. ASSUME NEW at \in Ats \ {"apply"}, Goto(at), event' = event PROVE Archives'
    BY <1>c, <1>g, <1>k DEF Goto, Cmd
  <1>1. CASE Begins
    <2>1. PICK name, S, at : Started(name, S, at) /\ Invoke(name, S, at)
      BY <1>1 DEF Begins
    <2>2. cmd'.at = at /\ event' = event
      BY <2>1 DEF Invoke, Idle, projection
    <2>3. QED BY <1>k, <2>1, <2>2 DEF Started
  <1>2. CASE Workshop \/ \E p \in Editable : Author(p)
    BY <1>2, <1>k DEF Workshop, WorkshopPermit, WorkshopInserts, WorkshopRevokes, PermitExpires, DieBeforeConsuming,
                      Author, projection
  <1>3. CASE Clerical
    BY <1>3, <1>r DEF Clerical, ActionPermit, RevokePermit, GovernanceStatus, RecoverAction, projection
  <1>4. CASE AttributeChange \/ NoMatch \/ AcceptEdit
    BY <1>4, <1>r, <1>g, AtFacts DEF AttributeChange, NoMatch, AcceptEdit, projection
  <1>5. CASE WorkshopHeartbeat \/ Finish \/ Die
    <2>1. cmd' = Idle \/ cmd' = [Idle EXCEPT !.name = "workshop", !.at = "read"]
      BY <1>5 DEF WorkshopHeartbeat, Finish, Die
    <2>2. Idle.at = "" /\ [Idle EXCEPT !.name = "workshop", !.at = "read"].at = "read"
      BY DEF Idle
    <2>3. QED BY <1>5, <1>k, <2>1, <2>2 DEF WorkshopHeartbeat, Finish, Die, projection
  <1>6. CASE Reconcile \/ ConsumePermit \/ Settle
    <2>1. Raise \/ cmd'.at \in {"next", "guard", "accept"}
      BY <1>6, <1>c DEF Reconcile, ConsumePermit, Settle, Cmd
    <2>2. QED BY <1>6, <1>r, <1>k, <2>1 DEF Reconcile, ConsumePermit, Settle, projection
  <1>7. CASE Stage
    <2>1. PICK p \in cmd.cand :
             \/ event' = event /\ cmd' = [cmd EXCEPT !.cand = cmd.cand \ {p}, !.bad = TRUE]
             \/ event' = event /\ cmd' = [cmd EXCEPT !.cand = cmd.cand \ {p}, !.done = @ \cup {p}]
             \/ /\ event' = event \/ event' = event \cup {[path |-> p, bytes |-> file[p], st |-> "pending"]}
                /\ cmd' = [cmd EXCEPT !.cand = cmd.cand \ {p}, !.doc = <<p, file[p]>>, !.at = "apply"]
                /\ file[p] # Absent
      BY <1>7 DEF Stage
    <2>2. cmd.at = "next" /\ UNCHANGED file
      BY <1>7 DEF Stage, sources
    <2>3. CASE event' = event /\ cmd' = [cmd EXCEPT !.cand = cmd.cand \ {p}, !.bad = TRUE]
      BY <1>c, <1>k, <2>2, <2>3 DEF Cmd
    <2>4. CASE event' = event /\ cmd' = [cmd EXCEPT !.cand = cmd.cand \ {p}, !.done = @ \cup {p}]
      BY <1>c, <1>k, <2>2, <2>4 DEF Cmd
    <2>5. CASE /\ event' = event \/ event' = event \cup {[path |-> p, bytes |-> file[p], st |-> "pending"]}
               /\ cmd' = [cmd EXCEPT !.cand = cmd.cand \ {p}, !.doc = <<p, file[p]>>, !.at = "apply"]
               /\ file[p] # Absent
      <3>1. cmd'.doc = <<p, file[p]>>
        BY <1>c, <2>5 DEF Cmd
      <3>2. \A n \in Loop : p = Archive(n) => file[p].rev = 1
        BY <2>5 DEF Archives
      <3>3. \A n \in Loop : \A e \in event' : e.path = Archive(n) => e.bytes.rev = 1
        BY <2>5, <3>2 DEF Archives
      <3>4. QED BY <2>2, <3>1, <3>2, <3>3 DEF Archives
    <2>6. QED BY <2>1, <2>3, <2>4, <2>5
  <1>8. CASE Apply \/ ApplyFails
    <2>1. PICK p \in Path, b \in Doc : p = cmd.doc[1] /\ b = cmd.doc[2]
      BY <1>8 DEF TypeInv, Opening, Apply, ApplyFails
    <2>2. \A n \in Loop : p = Archive(n) => b.rev = 1
      BY <1>8, <2>1 DEF Archives, Apply, ApplyFails
    <2>3. UNCHANGED file /\ cmd'.at = "next"
      BY <1>8, <1>c DEF Apply, ApplyFails, sources, Cmd
    <2>4. ASSUME NEW s \in {"applied", "failed"}
          PROVE  \A n \in Loop : \A e \in WithStatus(p, b, s) : e.path = Archive(n) => e.bytes.rev = 1
      BY <2>2 DEF WithStatus, Archives
    <2>5. CASE ApplyFails
      <3>1. event' = WithStatus(p, b, "failed")
        BY <2>1, <2>5 DEF ApplyFails
      <3>2. QED BY <2>3, <2>4, <3>1 DEF Archives
    <2>6. CASE Apply
      <3> DEFINE up(e) == [e EXCEPT !.st = IF e.path = p /\ e.st = "failed" /\ e.bytes.rev <= b.rev
                                           THEN "superseded" ELSE @]
      <3>1. event' = {up(e) : e \in WithStatus(p, b, "applied")}
        BY <2>1, <2>6 DEF Apply
      <3>2. \A e \in WithStatus(p, b, "applied") : up(e).path = e.path /\ up(e).bytes = e.bytes
        BY <1>c DEF WithStatus, Event
      <3> HIDE DEF up
      <3>3. \A n \in Loop : \A e \in event' : e.path = Archive(n) => e.bytes.rev = 1
        BY <2>4, <3>1, <3>2
      <3>4. QED BY <2>3, <3>3 DEF Archives
    <2>7. QED BY <1>8, <2>5, <2>6
  <1>9. CASE Manifest \/ SaveState \/ SaveCurrent
    <2>1. cmd'.at \in {"save", "current", "gate", "verify", "finish"}
      BY <1>9, <1>c DEF Manifest, SaveState, SaveCurrent, AfterHeartbeat, Goto, Cmd
    <2>2. QED BY <1>9, <1>k, <2>1 DEF Manifest, SaveState, SaveCurrent, projection
  <1>10. CASE PromoteEnds \/ VerifyLoop \/ FileFinalization \/ FinalizeFails \/ FinalizeBlocked
    BY <1>10, <1>r DEF PromoteEnds, VerifyLoop, FileFinalization, FinalizeFails, FinalizeBlocked, projection
  <1>11. CASE CloseTask \/ Deroute \/ StartLoop \/ Kickoff \/ StageTask \/ OpenLoop
    BY <1>11, <1>r, <1>g, AtFacts DEF CloseTask, Deroute, StartLoop, Kickoff, StageTask, OpenLoop, projection
  <1>12. CASE FinalizeReady \/ SealManifest \/ RecordFinalization \/ SaveFinalized
    BY <1>12, <1>g, AtFacts DEF FinalizeReady, SealManifest, RecordFinalization, SaveFinalized, projection
  <1>13. CASE ReserveArchive \/ RenderArchive
    <2>1. cmd'.at \in {"render", "block", "next"} /\ event' = event
      BY <1>13, <1>c DEF ReserveArchive, RenderArchive, Goto, Cmd, projection
    <2>2. QED BY <1>k, <2>1
  <1>14. CASE RecoverArchive
    <2> DEFINE up(e) == [e EXCEPT !.st = IF e.path = Archive(cur) /\ e.st \in {"pending", "failed"}
                                         THEN "superseded" ELSE @]
    <2>1. event' = event \/ event' = {up(e) : e \in event}
      BY <1>14 DEF RecoverArchive
    <2>2. \A e \in event : up(e).path = e.path /\ up(e).bytes = e.bytes
      BY <1>c DEF Event
    <2>3. cmd'.at # "apply"
      BY <1>14, <1>c DEF RecoverArchive, Raise, Idle, Goto, Cmd
    <2> HIDE DEF up
    <2>4. QED BY <1>f, <2>1, <2>2, <2>3, StillKeepsArchives
  <1>15. QED BY Steps, <1>1, <1>2, <1>3, <1>4, <1>5, <1>6, <1>7, <1>8, <1>9, <1>10, <1>11, <1>12, <1>13, <1>14

-----------------------------------------------------------------------------
(* The theorems.                                                           *)

IInv == TypeInv /\ Promotion /\ Sealing /\ Quarantined

LEMMA IInvInit == ASSUME Init PROVE IInv
  <1>1. Sealing
    BY IdleFields, NoneIsApart DEF Init, GovInit, Sealing
  <1>2. Quarantined
    BY IdleFields DEF Init, GovInit, Quarantined
  <1>3. QED BY <1>1, <1>2, TypeInvInit, PromotionInit DEF IInv

LEMMA IInvStep == ASSUME IInv, [Next]_vars PROVE IInv'
  <1>1. CASE Next
    BY <1>1, TypeInvStep, PromotionStep, SealingStep, QuarantinedStep DEF IInv
  <1>2. CASE UNCHANGED vars
    <2>1. Still /\ UNCHANGED <<touched, cmd, cur>>
      BY <1>2 DEF vars, govVars, sources, projection, states, ghosts, Still
    <2>2. Promotion'
      BY <2>1, StillKeepsPromotion DEF IInv
    <2>3. Sealing'
      BY <1>2 DEF IInv, vars, govVars, loopVars, projection, states, tables, Sealing, Closed, ArchiveFirst, Recorded,
                  Applied, Unsettled
    <2>4. Quarantined'
      BY <1>2 DEF IInv, vars, govVars, sources, projection, tables, ghosts, Quarantined, Harmless, Applied, Open
    <2>5. QED BY <1>2, <2>2, <2>3, <2>4, TypeInvStep DEF IInv
  <1>3. QED BY <1>1, <1>2

(* What the manifest calls unchanged has been promoted: unless somebody    *)
(* edited the file while a heartbeat ran, no unpromoted bytes are recorded *)
(* as seen, whatever command was killed or promotion failed, for any       *)
(* number of loops, edits, kills and commands.                             *)
THEOREM SeenHasBeenPromoted == Spec => []SeenIsPromoted
  <1>1. IInv => SeenIsPromoted
    BY DEF IInv, Promotion
  <1>2. QED BY <1>1, IInvInit, IInvStep, PTL DEF Spec

(* The projection changes only when a document in hand is applied.         *)
LEMMA OnlyApplyProjects == ASSUME Next PROVE Apply \/ row' = row
  <1>1. CASE Begins \/ Workshop \/ Clerical \/ AttributeChange \/ WorkshopHeartbeat \/ Reconcile
    BY <1>1 DEF Begins, Invoke, Workshop, WorkshopPermit, WorkshopInserts, WorkshopRevokes, PermitExpires,
                DieBeforeConsuming, Clerical, ActionPermit, RevokePermit, GovernanceStatus, RecoverAction,
                AttributeChange, WorkshopHeartbeat, Reconcile, projection
  <1>2. CASE NoMatch \/ ConsumePermit \/ AcceptEdit \/ Settle \/ Stage \/ ApplyFails \/ \E p \in Editable : Author(p)
    BY <1>2 DEF NoMatch, ConsumePermit, AcceptEdit, Settle, Stage, ApplyFails, Author, projection
  <1>3. CASE Manifest \/ SealManifest \/ SaveState \/ SaveCurrent \/ PromoteEnds \/ Finish \/ Die
    BY <1>3 DEF Manifest, SealManifest, SaveState, SaveCurrent, PromoteEnds, Finish, Die, projection
  <1>4. CASE CloseTask \/ Deroute \/ RecoverArchive \/ FinalizeBlocked \/ FinalizeReady \/ ReserveArchive
                \/ RenderArchive \/ FinalizeFails
    BY <1>4 DEF CloseTask, Deroute, RecoverArchive, FinalizeBlocked, FinalizeReady, ReserveArchive, RenderArchive,
                FinalizeFails, projection
  <1>5. CASE RecordFinalization \/ SaveFinalized \/ FileFinalization \/ Kickoff \/ StageTask \/ OpenLoop \/ StartLoop
                \/ VerifyLoop
    BY <1>5 DEF RecordFinalization, SaveFinalized, FileFinalization, Kickoff, StageTask, OpenLoop, StartLoop,
                VerifyLoop, projection
  <1>6. QED BY Steps, <1>1, <1>2, <1>3, <1>4, <1>5

(* Bytes under open quarantine never reach the database through a governed *)
(* command: no permit, orphaned receipt, replay or change of loop lets a   *)
(* heartbeat project them before they are attributed, unless they were     *)
(* swapped while a heartbeat ran.                                          *)
THEOREM QuarantineIsNotProjected == Spec => QuarantineHoldsBack
  <1> DEFINE A == \A p \in Path : row'[p] # row[p] /\ cmd.name # "promote" /\ p \notin touched \cup raced
                       => [path |-> p, bytes |-> row'[p], st |-> "OPEN"] \notin quar
  <1>1. ASSUME IInv, [Next]_vars PROVE A
    <2>1. CASE row' = row
      BY <2>1
    <2>2. CASE Apply
      <3>1. PICK p \in Path, b \in Doc : p = cmd.doc[1] /\ b = cmd.doc[2]
        BY <1>1, <2>2 DEF IInv, TypeInv, Opening, Apply
      <3>2. row' = [row EXCEPT ![p] = b] /\ row \in [Path -> Doc] /\ cmd.at = "apply"
        BY <1>1, <2>2, <3>1 DEF IInv, TypeInv, TableTypes, Apply
      <3>3. cmd.name # "promote" /\ p \notin touched \cup raced => Open(p) = {}
        BY <1>1, <3>1, <3>2 DEF IInv, Quarantined
      <3>4. \A q \in Path : q # p => row'[q] = row[q]
        BY <3>2
      <3>5. Open(p) = {} => [path |-> p, bytes |-> row'[p], st |-> "OPEN"] \notin quar
        BY DEF Open
      <3>6. QED BY <3>3, <3>4, <3>5
    <2>3. QED BY <1>1, <2>1, <2>2, OnlyApplyProjects DEF vars, govVars, projection
  <1>2. Spec => [][A]_vars
    <2> HIDE DEF A
    <2>1. QED BY <1>1, IInvInit, IInvStep, PTL DEF Spec
  <1>3. QED BY <1>2 DEF QuarantineHoldsBack

(* The state enters another loop only when one is started, and becomes     *)
(* FINALIZED only at the last but one step of finalize.                    *)
LEMMA OnlyTheseChangeLoop ==
    ASSUME TypeInv, Next
    PROVE  \/ StartLoop \/ SaveFinalized
           \/ rs'.loop = rs.loop /\ (rs'.life = "FINALIZED" => rs.life = "FINALIZED")
  <1>t. rs \in [life : Life, loop : Loop, task : Nat, fin : Nat]
    BY DEF TypeInv, LoopTypes
  <1>1. CASE Begins \/ Workshop \/ Clerical \/ AttributeChange \/ WorkshopHeartbeat \/ Reconcile
    BY <1>1 DEF Begins, Invoke, Workshop, WorkshopPermit, WorkshopInserts, WorkshopRevokes, PermitExpires,
                DieBeforeConsuming, Clerical, ActionPermit, RevokePermit, GovernanceStatus, RecoverAction,
                AttributeChange, WorkshopHeartbeat, Reconcile, states
  <1>2. CASE NoMatch \/ ConsumePermit \/ AcceptEdit \/ Settle \/ Stage \/ Apply \/ ApplyFails
                \/ \E p \in Editable : Author(p)
    BY <1>2 DEF NoMatch, ConsumePermit, AcceptEdit, Settle, Stage, Apply, ApplyFails, Author, states
  <1>3. CASE Manifest \/ SealManifest \/ SaveCurrent \/ PromoteEnds \/ Finish \/ Die
    BY <1>3 DEF Manifest, SealManifest, SaveCurrent, PromoteEnds, Finish, Die, states
  <1>4. CASE CloseTask \/ RecoverArchive \/ ReserveArchive \/ RenderArchive \/ RecordFinalization \/ FileFinalization
                \/ Kickoff \/ StageTask \/ OpenLoop \/ VerifyLoop
    BY <1>4 DEF CloseTask, RecoverArchive, ReserveArchive, RenderArchive, RecordFinalization, FileFinalization,
                Kickoff, StageTask, OpenLoop, VerifyLoop, states
  <1>5. CASE SaveState \/ Deroute \/ FinalizeBlocked \/ FinalizeReady \/ FinalizeFails
    BY <1>5, <1>t DEF SaveState, Deroute, FinalizeBlocked, FinalizeReady, FinalizeFails, SetLife
  <1>6. QED BY Steps, <1>1, <1>2, <1>3, <1>4, <1>5

(* A loop becomes FINALIZED only in a settled workspace: its own archive   *)
(* is recorded and projected, no projected task is active, nothing is in   *)
(* quarantine or half promoted, no edit permit is outstanding but one      *)
(* inserted apart from its check, and no command but finalize is running.  *)
(* The gate that looked is many writes earlier; the interleaving of edits, *)
(* permits and kills with them is arbitrary.                               *)
THEOREM SealIsMadeClosed == Spec => SealIsClosed
  <1> DEFINE f == fins[rs'.fin]
             B == /\ f.loop = rs.loop /\ f.archive # Absent /\ row[Archive(f.loop)] = f.archive
                  /\ \A n \in Loop : row[Task(n)].state # "active"
                  /\ \A q \in quar : q.st # "OPEN"
                  /\ \A i \in DOMAIN permit : permit[i].apart
                  /\ stray = "none" /\ Unsettled = {} /\ Len(running) = 1
             A == rs'.life = "FINALIZED" /\ rs.life # "FINALIZED" => B
  <1>1. ASSUME IInv, [Next]_vars PROVE A
    <2>1. CASE SaveFinalized
      <3>1. Closed /\ Recorded /\ row[Archive(cur)] # Absent
        BY <1>1, <2>1 DEF IInv, Sealing, SaveFinalized
      <3>2. rs'.fin = Len(fins)
        BY <1>1, <2>1 DEF IInv, TypeInv, LoopTypes, SaveFinalized
      <3>3. f.loop = cur /\ f.archive = row[Archive(cur)]
        BY <3>1, <3>2 DEF Recorded
      <3>4. \A i \in DOMAIN permit : permit[i].apart
        BY <3>1, ApartIs DEF Closed
      <3>5. B
        BY <3>1, <3>3, <3>4 DEF Closed, Recorded
      <3>6. QED BY <3>5
    <2>2. CASE StartLoop
      <3>1. rs'.life = "STARTING_LOOP"
        BY <2>2 DEF StartLoop
      <3>2. QED BY <3>1
    <2>3. CASE rs'.life = "FINALIZED" => rs.life = "FINALIZED"
      BY <2>3
    <2>4. CASE UNCHANGED vars
      BY <2>4 DEF vars, govVars, states
    <2>5. QED BY <1>1, <2>1, <2>2, <2>3, <2>4, OnlyTheseChangeLoop DEF IInv
  <1>2. Spec => [][A]_vars
    <2> HIDE DEF A
    <2>1. QED BY <1>1, IInvInit, IInvStep, PTL DEF Spec
  <1>3. QED BY <1>2 DEF SealIsClosed

(* The workspace enters a loop only from the filed finalization of the one *)
(* before, under a durable PENDING receipt, and never leaves it backwards: *)
(* a kickoff or new-loop repeated after a kill opens no loop twice.        *)
THEOREM LoopsOnlyAdvance == Spec => LoopsAdvance
  <1> DEFINE A == rs'.loop # rs.loop =>
                     /\ rs'.loop = rs.loop + 1
                     /\ fins[rs.fin].filed /\ fins[rs.fin].loop = rs.loop
                     /\ trans[rs.fin].st = "PENDING"
  <1>1. ASSUME IInv, [Next]_vars PROVE A
    <2>1. CASE SaveFinalized
      <3>1. rs'.loop = cur /\ cur = rs.loop
        BY <1>1, <2>1 DEF IInv, TypeInv, LoopTypes, Sealing, Closed, SaveFinalized
      <3>2. QED BY <3>1
    <2>2. CASE StartLoop
      <3>1. /\ fins[rs.fin].filed /\ trans[rs.fin].st = "PENDING"
            /\ rs.loop \in {fins[rs.fin].loop, fins[rs.fin].loop + 1}
        BY <1>1, <2>2 DEF IInv, TypeInv, Opening, StartLoop
      <3>2. rs'.loop = fins[rs.fin].loop + 1
        BY <2>2 DEF StartLoop
      <3>3. QED BY <3>1, <3>2
    <2>3. CASE rs'.loop = rs.loop
      BY <2>3
    <2>4. CASE UNCHANGED vars
      BY <2>4 DEF vars, govVars, states
    <2>5. QED BY <1>1, <2>1, <2>2, <2>3, <2>4, OnlyTheseChangeLoop DEF IInv
  <1>2. Spec => [][A]_vars
    <2> HIDE DEF A
    <2>1. QED BY <1>1, IInvInit, IInvStep, PTL DEF Spec
  <1>3. QED BY <1>2 DEF LoopsAdvance

(* A promoted archive is immutable: no recovery, repeated finalize or next *)
(* loop rewrites its projection or deletes its file.  People edit tasks    *)
(* only (HandsOff); the step that edits is the one that lowers calm.       *)
THEOREM ArchivesAreKept == ASSUME HandsOff PROVE Spec => ArchiveIsKept
  <1> DEFINE A == \A n \in Loop : row[Archive(n)] # Absent =>
                     /\ row'[Archive(n)] = row[Archive(n)]
                     /\ calm' = calm => file'[Archive(n)] = file[Archive(n)]
  <1>1. ASSUME IInv, Archives, [Next]_vars PROVE A
    <2>1. SUFFICES ASSUME NEW n \in Loop, row[Archive(n)] # Absent
                   PROVE  row'[Archive(n)] = row[Archive(n)] /\ file'[Archive(n)] = file[Archive(n)]
      OBVIOUS
    <2>2. CASE UNCHANGED vars
      BY <2>2 DEF vars, govVars, sources, projection
    <2>3. CASE Next
      <3>1. file'[Archive(n)] = file[Archive(n)]
        BY <1>1, <2>1, <2>3, FilesOfArchives DEF IInv
      <3>2. CASE row' = row
        BY <3>1, <3>2
      <3>3. CASE Apply
        <4>1. PICK p \in Path, b \in Doc : p = cmd.doc[1] /\ b = cmd.doc[2]
          BY <1>1, <3>3 DEF IInv, TypeInv, Opening, Apply
        <4>2. p # Archive(n)
          <5>1. SUFFICES ASSUME p = Archive(n) PROVE FALSE
            OBVIOUS
          <5>2. PICK c : c = row[p] /\ c \in Applied(p)
            BY <1>1, <2>1, <4>1, <5>1 DEF IInv, Promotion, Projected
          <5>3. c.rev = 1 /\ b.rev = 1
            BY <1>1, <3>3, <4>1, <5>1, <5>2 DEF Archives, Applied, Apply
          <5>4. b \notin Applied(p)
            BY <1>1, <3>3, <4>1 DEF IInv, Promotion, Promoting, InHand, Apply
          <5>5. Conflicts(p, b)
            BY <5>2, <5>3, <5>4 DEF Conflicts
          <5>6. QED BY <3>3, <4>1, <5>5 DEF Apply
        <4>3. row' = [row EXCEPT ![p] = b] /\ row \in [Path -> Doc]
          BY <1>1, <3>3, <4>1 DEF IInv, TypeInv, TableTypes, Apply
        <4>4. Archive(n) \in Path
          BY PathFacts
        <4>5. QED BY <3>1, <4>2, <4>3, <4>4
      <3>4. QED BY <2>3, <3>2, <3>3, OnlyApplyProjects
    <2>4. QED BY <1>1, <2>2, <2>3
  <1>2. Init => IInv /\ Archives
    <2>1. ASSUME Init PROVE Archives
      <3>1. \A n \in Loop : Task(1) # Archive(n) /\ Archive(n) \in Path
        BY PathFacts DEF Task, Archive
      <3>2. \A n \in Loop : file[Archive(n)] = Absent
        BY <2>1, <3>1 DEF Init, GovInit
      <3>3. \A e \in event : e.path = Task(1)
        BY <2>1 DEF Init, GovInit
      <3>4. QED BY <2>1, <3>1, <3>2, <3>3, IdleFields DEF Init, GovInit, Archives
    <2>2. QED BY <2>1, IInvInit
  <1>3. ASSUME IInv, Archives, [Next]_vars PROVE IInv' /\ Archives'
    <2>1. ASSUME UNCHANGED vars PROVE Archives'
      BY <1>3, <2>1 DEF vars, govVars, sources, projection, Archives
    <2>2. QED BY <1>3, <2>1, IInvStep, ArchivesStep DEF IInv
  <1>4. Spec => [][A]_vars
    <2> HIDE DEF A
    <2>1. QED BY <1>1, <1>2, <1>3, PTL DEF Spec
  <1>5. QED BY <1>4 DEF ArchiveIsKept
=============================================================================
