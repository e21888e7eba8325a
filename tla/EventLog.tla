------------------------------ MODULE EventLog ------------------------------
(***************************************************************************)
(* What the outbox of a transaction promises: an ordered log of lifecycle  *)
(* events that only grows, one event at a time, with increasing sequence   *)
(* numbers, and a published prefix of it that only advances.               *)
(***************************************************************************)
EXTENDS Naturals, Sequences

VARIABLES
    log,      \* the committed events, oldest first: records with a field "seq"
    shown     \* how many of them readers of the document may rely on

evars == <<log, shown>>

EventLogInit == log = <<>> /\ shown = 0

Record ==
    /\ Len(log') = Len(log) + 1
    /\ \A i \in 1 .. Len(log) : log'[i] = log[i] /\ log[i].seq < log'[Len(log')].seq
    /\ UNCHANGED shown

Publish == log # <<>> /\ shown' = Len(log) /\ UNCHANGED log

EventLogNext == Record \/ Publish

EventLogSpec == EventLogInit /\ [][EventLogNext]_evars
=============================================================================
