---------------------------- MODULE SerialChange ----------------------------
(***************************************************************************)
(* What the transaction commands of the Workshop promise together: the     *)
(* corpus changes serially.  A transaction is opened under the one global  *)
(* lease, mutates the corpus only while it owns it, and hands it on only   *)
(* when its mutation is closed: proved and acknowledged, or undone.        *)
(* WorkshopTxn implements this specification when its commands run one at  *)
(* a time, whatever is killed, fails or drifts in between.                 *)
(***************************************************************************)
CONSTANTS Txn, NoTxn

VARIABLES
    holder,   \* the transaction that owns the lease, or NoTxn
    phase     \* how far each transaction is

serial == <<holder, phase>>

Phase == {"new", "open", "mutating", "proved", "closed"}

SerialTypeOK == holder \in Txn \cup {NoTxn} /\ phase \in [Txn -> Phase]

Init == holder = NoTxn /\ phase = [t \in Txn |-> "new"]

\* The holder moves from one phase to the next.
Move(t, from, to) ==
    /\ holder = t /\ phase[t] = from
    /\ phase' = [phase EXCEPT ![t] = to]
    /\ UNCHANGED holder

Take(t) ==
    /\ holder = NoTxn /\ phase[t] = "new"
    /\ holder' = t
    /\ UNCHANGED phase

Open(t)   == Move(t, "new", "open")
Cancel(t) == Move(t, "open", "closed")
Mutate(t) == Move(t, "open", "mutating")
Prove(t)  == Move(t, "mutating", "proved")
Undo(t)   == Move(t, "mutating", "closed")
Acknowledge(t) == Move(t, "proved", "closed")

\* A checkout gives the lease back, with or without a transaction left behind.
GiveUp(t) ==
    /\ holder = t /\ phase[t] = "new"
    /\ holder' = NoTxn
    /\ phase' \in {phase, [phase EXCEPT ![t] = "open"]}

\* An open transaction that lost the lease can only be retired.
Retire(t) ==
    /\ holder = NoTxn /\ phase[t] = "open"
    /\ phase' = [phase EXCEPT ![t] = "closed"]
    /\ UNCHANGED holder

Release(t) ==
    /\ holder = t /\ phase[t] = "closed"
    /\ holder' = NoTxn
    /\ UNCHANGED phase

Next == \E t \in Txn :
    \/ Take(t) \/ Open(t) \/ Cancel(t) \/ Mutate(t) \/ Prove(t) \/ Undo(t)
    \/ Acknowledge(t) \/ GiveUp(t) \/ Retire(t) \/ Release(t)

Spec == Init /\ [][Next]_serial
=============================================================================
