------------------------------- MODULE MCKairos -------------------------------
(***************************************************************************)
(* Two loops, one permit at a time for the task of the first, and two      *)
(* incidents: edits by hand, kills, late permits or failures.              *)
(***************************************************************************)
EXTENDS KairosLoop

MCGrants == {{Task(1)}}
MCEditable == {Task(1), Task(2)}

(* Bound: once the next loop is being opened, or its task is there before  *)
(* this one is finalized, one incident in all.                             *)
Calmer ==
    (\E i \in DOMAIN trans : trans[i].st # "none")
       \/ (fins = <<>> /\ \E n \in Loop \ {1} : file[Task(n)] # Absent)
    => MaxIncidents - calm <= 1

(* What the manifest calls unchanged has been promoted: unless somebody    *)
(* edited the file while a heartbeat ran, no unpromoted bytes are recorded *)
(* as seen, whatever was killed or failed, so no edit escapes the next     *)
(* reconciliation.                                                         *)
SeenIsPromoted ==
    \A p \in Path : man[p] = "seen" /\ p \notin raced => file[p] \in Applied(p)

(* Bytes under open quarantine never reach the database through a governed *)
(* command: no permit, orphaned receipt, replay or change of loop lets a   *)
(* heartbeat project them before they are attributed.  Bytes swapped while *)
(* a heartbeat runs, this one or one that recorded them as seen, and the   *)
(* promote command are outside this.                                       *)
QuarantineHoldsBack ==
    [][\A p \in Path : row'[p] # row[p] /\ cmd.name # "promote" /\ p \notin touched \cup raced
          => [path |-> p, bytes |-> row'[p], st |-> "OPEN"] \notin quar]_vars

(* A loop becomes FINALIZED only in a settled workspace: its own archive   *)
(* is recorded and projected, no projected task is active, nothing is in   *)
(* quarantine or half promoted, no edit permit is outstanding (but one the *)
(* Workshop inserted apart from its check) and no command but finalize is  *)
(* running.  The gate that looked is many writes earlier, and the archive  *)
(* may be of an earlier, killed attempt.                                   *)
SealIsClosed ==
    [][rs'.life = "FINALIZED" /\ rs.life # "FINALIZED" =>
         LET f == fins[rs'.fin] IN
           /\ f.loop = rs.loop /\ f.archive # Absent /\ row[Archive(f.loop)] = f.archive
           /\ \A n \in Loop : row[Task(n)].state # "active"
           /\ \A q \in quar : q.st # "OPEN"
           /\ \A i \in DOMAIN permit : permit[i].apart
           /\ stray = "none" /\ Unsettled = {} /\ Len(running) = 1]_vars

(* The workspace enters a loop only from the filed finalization of the one *)
(* before, under a durable PENDING receipt, and never leaves it backwards: *)
(* a kickoff or new-loop repeated after a kill opens no loop twice.        *)
LoopsAdvance ==
    [][rs'.loop # rs.loop =>
         /\ rs'.loop = rs.loop + 1
         /\ fins[rs.fin].filed /\ fins[rs.fin].loop = rs.loop
         /\ trans[rs.fin].st = "PENDING"]_vars

(* A promoted archive is immutable: no recovery, repeated finalize or next *)
(* loop rewrites its projection or deletes its file.                       *)
ArchiveIsKept ==
    [][\A n \in Loop : row[Archive(n)] # Absent =>
         /\ row'[Archive(n)] = row[Archive(n)]
         /\ calm' = calm => file'[Archive(n)] = file[Archive(n)]]_vars
=============================================================================
