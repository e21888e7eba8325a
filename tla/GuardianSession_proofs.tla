------------------------- MODULE GuardianSession_proofs -------------------------
(***************************************************************************)
(* Whatever dies, races or is edited, for any number of sessions,          *)
(* transactions, commands and paths: a proven scope rests on evidence of   *)
(* its own package; and, as long as guard-reconcile starts only when no    *)
(* other command is half way, the books of a session balance, what it      *)
(* guards stays guarded, what is published was proven, and a session that  *)
(* closes is done.                                                         *)
(*                                                                         *)
(* Inv carries the first: packages only ever get newer, so an inspection   *)
(* older than a command and still current at its end is one of the package *)
(* the command read; and a transaction that counts as verified is never    *)
(* written again.  Tidy adds the books, what every command half way counts *)
(* on, and that nobody cancels what is about to be saved; Closing adds     *)
(* what a session that may close has put behind it.                        *)
(***************************************************************************)
EXTENDS GuardianSession, TLAPS

Named == Txn \cup {None}

-----------------------------------------------------------------------------
(* The invariant. *)

\* One session file.
Sound(s) ==
    /\ {"next", "gate", "exact", "base", "roll", "patch"} \subseteq DOMAIN s
    /\ s.gate # None => /\ "seen" \in DOMAIN s.gate
                        /\ s.gate.seen # None => s.gate.seen.pkg \in 0 .. newest \cup {Torn}
    /\ s.next \in PrePatch => s.patch = None
    /\ s.exact # None => s.exact.pkg = s.base

\* Its books.
Kept(s) ==
    s.patch # None =>
        /\ {"status", "proven", "ok", "active"} \subseteq DOMAIN s.patch
        /\ s.patch.active \in Named
        /\ s.exact # None /\ s.patch.proven \subseteq s.exact.paths
        /\ \A t \in s.patch.ok : t \in Txn /\ txn[t].st = "POSTCHECK_VERIFIED"
        /\ s.patch.status # "INVALIDATED_BY_DRIFT" =>
              s.roll \in {s.base} \cup {txn[t].post : t \in s.patch.ok}

Sessions ==
    /\ sess = [g \in Session |-> sess[g]]
    /\ \A g \in Session : Sound(sess[g]) /\ Kept(sess[g])

\* One running command.
Running(r) ==
    /\ {"pc", "t", "pkg", "known"} \subseteq DOMAIN r
    /\ r.pkg \in Package
    /\ r.pc \notin {"idle", "guard", "manifest", "acquire", "unreserved", "invalidate"} => r.t \in Txn
    /\ r.pc = "guard" => /\ r.pkg <= seal
                         /\ \A x \in r.known : x.pkg = Torn \/ (x.pkg \in Nat /\ x.pkg <= r.pkg)

Commands ==
    /\ proc = [p \in Proc |-> proc[p]]
    /\ \A p \in Proc : Running(proc[p])

\* Packages get newer; a torn corpus has one more to come.
Corpus ==
    /\ newest \in Package /\ seal \in 0 .. newest /\ live \in {newest, Torn}
    /\ live = Torn => newest < MaxPackage
    /\ lease \in Named

Saved(r) == {"st", "base", "post"} \subseteq DOMAIN r /\ r.base \in Package

Transactions ==
    /\ txn = [t \in Txn |-> txn[t]]
    /\ \A t \in Txn : Saved(txn[t])

Newborn(r) == r.pc \in {"bind", "materialise"}

\* One command brings a transaction to life.
Births ==
    \A p \in Proc : Newborn(proc[p]) =>
        /\ txn[proc[p].t].st = ""
        /\ \A q \in Proc : Newborn(proc[q]) /\ proc[q].t = proc[p].t => q = p

\* One transaction tears the corpus, and its baseline is the newest package.
Tearing ==
    /\ \A p \in Proc : proc[p].pc = "apply" =>
          /\ live = Torn /\ txn[proc[p].t].st = "APPLYING" /\ txn[proc[p].t].base = newest
          /\ \A q \in Proc : proc[q].pc = "apply" => q = p
    /\ \A t \in Txn : txn[t].st = "RECOVERY_REQUIRED" =>
          /\ live = Torn /\ txn[t].base = newest
          /\ \A q \in Proc : proc[q].pc # "apply"
          /\ \A u \in Txn : txn[u].st = "RECOVERY_REQUIRED" => u = t

Inv == Sessions /\ Commands /\ Corpus /\ Transactions /\ Births /\ Tearing

-----------------------------------------------------------------------------
(* How the parts are preserved. *)

Elsewhere == Commands' /\ Corpus' /\ Transactions' /\ Births' /\ Tearing'

LEMMA Bounds == MaxPackage \in Nat /\ Package \subseteq Nat /\ Torn = MaxPackage + 1
BY GuardianConstants DEF Package, Torn

\* A command moves on to a place that holds nothing of the corpus, whoever
\* has the lease.
LEMMA MovesOn ==
    ASSUME Inv, NEW p \in Proc, NEW r, Goto(p, r), Running(r), r.pc \notin {"bind", "materialise", "apply"},
           UNCHANGED <<txn, corpus>>, lease' \in Named
    PROVE  Elsewhere
<1>1. proc' = [q \in Proc |-> IF q = p THEN r ELSE proc[q]] BY DEF Goto, Inv, Commands
<1>2. Commands' BY <1>1 DEF Inv, Commands, Running, corpus
<1>3. Corpus' /\ Transactions' BY DEF Inv, Corpus, Transactions, Saved, corpus, Named
<1>4. Births' BY <1>1 DEF Inv, Births, Newborn
<1>5. Tearing' BY <1>1 DEF Inv, Tearing, corpus
<1> QED BY <1>2, <1>3, <1>4, <1>5 DEF Elsewhere

LEMMA Moves ==
    ASSUME Inv, NEW p \in Proc, NEW r, Goto(p, r), Running(r), r.pc \notin {"bind", "materialise", "apply"},
           UNCHANGED <<txn, corpus, lease>>
    PROVE  Elsewhere
BY MovesOn DEF Inv, Corpus

\* A session file is written, or none.
LEMMA Writes ==
    ASSUME Inv, NEW g \in Session, NEW s, sess' = [sess EXCEPT ![g] = s], Sound(s), Kept(s),
           UNCHANGED <<txn, newest>>
    PROVE  Sessions'
BY DEF Inv, Sessions, Sound, Kept

LEMMA Rests == ASSUME Inv, UNCHANGED <<sess, txn, newest>> PROVE Sessions'
BY DEF Inv, Sessions, Sound, Kept

LEMMA IdleRuns == Running(Idle) /\ Idle.pc = "idle"
BY Bounds DEF Running, Idle, Package

LEMMA Leaves ==
    ASSUME Inv, NEW p \in Proc, Quit(p), UNCHANGED <<txn, corpus, lease>>
    PROVE  Elsewhere
BY Moves, IdleRuns DEF Quit

LEMMA Steps1 ==
    ASSUME Inv, NEW p \in Proc, NEW x, Step(p, x), UNCHANGED <<txn, corpus, lease>>,
           x \notin {"guard", "bind", "materialise", "apply"}, proc[p].t \in Txn
    PROVE  Elsewhere
<1>1. Running(proc[p]) BY DEF Inv, Commands
<1>2. Running([proc[p] EXCEPT !.pc = x]) /\ [proc[p] EXCEPT !.pc = x].pc = x BY <1>1 DEF Running
<1> QED BY <1>2, Moves DEF Step

-----------------------------------------------------------------------------
(* Investigation. *)

LEMMA ReadPackageKeeps == ASSUME Inv, NEW p \in Proc, ReadPackage(p) PROVE Inv'
<1> DEFINE r == [Idle EXCEPT !.pc = "guard", !.pkg = live, !.known = Receipts]
<1>1. live = newest /\ seal = newest /\ newest \in Nat BY Bounds DEF Inv, Corpus, ReadPackage
<1>2. \A x \in Receipts : x.pkg = Torn \/ (x.pkg \in Nat /\ x.pkg <= newest)
  BY <1>1 DEF Receipts, Inv, Sessions, Sound
<1>3. Running(r) /\ r.pc = "guard" BY <1>1, <1>2 DEF Running, Idle, Inv, Corpus
<1>4. Elsewhere BY <1>3, Moves DEF ReadPackage, files
<1>5. Sessions' BY Rests DEF ReadPackage, files, corpus
<1> QED BY <1>4, <1>5 DEF Inv, Elsewhere

LEMMA RefusedKeeps == ASSUME Inv, NEW p \in Proc, Refused(p) PROVE Inv'
<1>1. Elsewhere BY Leaves DEF Refused, files
<1>2. Sessions' BY Rests DEF Refused, files, corpus
<1> QED BY <1>1, <1>2 DEF Inv, Elsewhere

LEMMA StartKeeps == ASSUME Inv, NEW p \in Proc, NEW g \in Session, Start(p, g) PROVE Inv'
<1> DEFINE s == [Absent EXCEPT !.next = "HYPOTHESIS", !.base = proc[p].pkg, !.roll = proc[p].pkg,
                               !.memory = memory, !.task = task]
<1>1. s.gate = None /\ s.patch = None /\ s.exact = None /\ {"next", "gate", "exact", "base", "roll", "patch"} \subseteq DOMAIN s
  BY DEF Absent
<1>2. Sound(s) /\ Kept(s) BY <1>1 DEF Sound, Kept
<1>3. sess' = [sess EXCEPT ![g] = s] /\ UNCHANGED <<txn, newest>> BY DEF Start, OnlySession, corpus
<1>4. Sessions' BY <1>2, <1>3, Writes
<1>5. Elsewhere BY Leaves DEF Start, OnlySession
<1> QED BY <1>4, <1>5 DEF Inv, Elsewhere

LEMMA EnterKeeps == ASSUME Inv, NEW p \in Proc, NEW g \in Session, Enter(p, g) PROVE Inv'
<1> DEFINE s == [sess[g] EXCEPT !.gate = [step |-> sess[g].next, pkg |-> proc[p].pkg, seen |-> None]]
<1>1. Sound(sess[g]) /\ Kept(sess[g]) BY DEF Inv, Sessions
<1>2. Sound(s) /\ Kept(s) BY <1>1 DEF Sound, Kept
<1>3. sess' = [sess EXCEPT ![g] = s] /\ UNCHANGED <<txn, newest>> BY DEF Enter, OnlySession, corpus
<1>4. Sessions' BY <1>2, <1>3, Writes
<1>5. Elsewhere BY Leaves DEF Enter, OnlySession
<1> QED BY <1>4, <1>5 DEF Inv, Elsewhere

LEMMA InspectKeeps == ASSUME Inv, NEW g \in Session, NEW S, Inspect(g, S) PROVE Inv'
<1>1. PICK pkg \in IF S = {} THEN {0} ELSE IF live = Torn THEN {seal, Torn} ELSE {live} :
         OnlySession(g, [sess[g] EXCEPT !.gate.seen = [pkg |-> pkg, paths |-> S]])
  BY DEF Inspect
<1> DEFINE s == [sess[g] EXCEPT !.gate.seen = [pkg |-> pkg, paths |-> S]]
<1>2. pkg \in 0 .. newest \cup {Torn} BY <1>1, Bounds DEF Inv, Corpus
<1>3. Sound(sess[g]) /\ Kept(sess[g]) /\ sess[g].gate # None BY DEF Inv, Sessions, Inspect
<1>4. Sound(s) /\ Kept(s) BY <1>2, <1>3 DEF Sound, Kept
<1>5. sess' = [sess EXCEPT ![g] = s] /\ UNCHANGED <<txn, newest>> BY <1>1 DEF OnlySession, corpus
<1>6. Sessions' BY <1>4, <1>5, Writes
<1>7. UNCHANGED <<proc, txn, corpus, lease>> BY <1>1 DEF Inspect, OnlySession
<1>8. Elsewhere BY ZenonT(30), <1>7 DEF Elsewhere, Inv, Commands, Running, Corpus, Transactions, Saved, Births, Tearing, corpus
<1> QED BY <1>6, <1>8 DEF Inv, Elsewhere

\* An inspection that is older than the command, and current at its end.
LEMMA LinesOfPackage ==
    ASSUME Inv, NEW p \in Proc, At(p, "guard"), NEW x \in proc[p].known, LinesHold(x)
    PROVE  x.pkg = proc[p].pkg
<1>1. /\ proc[p].pkg \in Nat /\ proc[p].pkg <= seal
      /\ x.pkg = Torn \/ (x.pkg \in Nat /\ x.pkg <= proc[p].pkg)
  BY Bounds DEF At, Inv, Commands, Running
<1>2. seal \in Nat /\ newest \in Nat /\ seal <= newest /\ newest < Torn /\ live \in {newest, Torn}
  BY Bounds DEF Inv, Corpus, Package
<1>3. x.pkg = IF live = Torn THEN seal ELSE live BY DEF LinesHold
<1> QED BY <1>1, <1>2, <1>3

LEMMA AdvanceKeeps == ASSUME Inv, NEW p \in Proc, NEW g \in Session, NEW S, Advance(p, g, S) PROVE Inv'
<1> DEFINE s == sess[g]
           u == [s EXCEPT !.mapped = IF s.next = "MAP" THEN S ELSE @,
                          !.exact = IF s.next = "EXACT_SOURCE" THEN s.gate.seen ELSE @,
                          !.patch = IF s.next = "PROVE" THEN Opened(S) ELSE @,
                          !.roll = IF s.next = "PROVE" THEN proc[p].pkg ELSE @,
                          !.next = Follows(s.next), !.gate = None]
<1>1. Sound(s) /\ Kept(s) BY DEF Inv, Sessions
<1>2. s.patch = None /\ s.base = proc[p].pkg /\ s.gate # None BY <1>1 DEF Advance, Sound, Through
<1>3. /\ {"next", "gate", "exact", "base", "roll", "patch"} \subseteq DOMAIN u
      /\ u.gate = None /\ u.base = s.base /\ u.next = Follows(s.next)
      /\ u.exact = IF s.next = "EXACT_SOURCE" THEN s.gate.seen ELSE s.exact
      /\ u.patch = IF s.next = "PROVE" THEN Opened(S) ELSE None
      /\ u.roll = IF s.next = "PROVE" THEN proc[p].pkg ELSE s.roll
  BY <1>1, <1>2 DEF Sound
<1>4. s.next = "PROVE" => u.next \notin PrePatch BY <1>3, GuardianConstants DEF Follows, PrePatch
<1>5. s.next = "EXACT_SOURCE" => s.gate.seen.pkg = s.base
  BY <1>2, LinesOfPackage DEF Advance, Admissible, Inspected, Receipted
<1>6. Sound(u) BY <1>1, <1>3, <1>4, <1>5 DEF Sound
<1>7. Kept(u)
  <2>1. CASE s.next # "PROVE" BY <2>1, <1>3 DEF Kept
  <2>2. CASE s.next = "PROVE"
    <3>1. s.exact # None /\ S \subseteq s.exact.paths BY <2>2 DEF Advance
    <3>2. u.patch = Opened(S) /\ u.exact = s.exact /\ u.roll = u.base BY <1>2, <1>3, <2>2
    <3>3. /\ {"status", "proven", "ok", "active"} \subseteq DOMAIN Opened(S)
          /\ Opened(S).proven = S /\ Opened(S).ok = {} /\ Opened(S).active = None
      BY DEF Opened
    <3> QED BY <3>1, <3>2, <3>3 DEF Kept, Named
  <2> QED BY <2>1, <2>2
<1>8. sess' = [sess EXCEPT ![g] = u] /\ UNCHANGED <<txn, newest>> BY DEF Advance, OnlySession, corpus
<1>9. Sessions' BY <1>6, <1>7, <1>8, Writes
<1>10. Elsewhere BY Leaves DEF Advance, OnlySession
<1> QED BY <1>9, <1>10 DEF Inv, Elsewhere

LEMMA ReframeKeeps == ASSUME Inv, NEW p \in Proc, NEW g \in Session, NEW target, Reframe(p, g, target) PROVE Inv'
<1> DEFINE s == [sess[g] EXCEPT !.patch = None, !.gate = None, !.base = proc[p].pkg, !.next = target,
                                !.mapped = IF target = "HYPOTHESIS" THEN {} ELSE @, !.exact = None]
<1>1. Sound(sess[g]) BY DEF Inv, Sessions
<1>2. Sound(s) /\ Kept(s) BY <1>1 DEF Sound, Kept
<1>3. sess' = [sess EXCEPT ![g] = s] /\ UNCHANGED <<txn, newest>> BY DEF Reframe, OnlySession, corpus
<1>4. Sessions' BY <1>2, <1>3, Writes
<1>5. Elsewhere BY Leaves DEF Reframe, OnlySession
<1> QED BY <1>4, <1>5 DEF Inv, Elsewhere

-----------------------------------------------------------------------------
(* Sessions that have opened their patch. *)

LEMMA LaterSteps ==
    ASSUME NEW x \in {"PATCH", "WORKSHOP", "", "HEARTBEAT", "FRESH_RUN", "REFRAME_REQUIRED"} PROVE x \notin PrePatch
BY GuardianConstants DEF PrePatch

\* What a session may change without touching what was proven.
Keeping(s, u) ==
    /\ {"next", "gate", "exact", "base", "roll", "patch"} \subseteq DOMAIN u
    /\ u.gate \in {None, s.gate} /\ u.exact = s.exact /\ u.base = s.base /\ u.roll = s.roll
    /\ u.next \in {"PATCH", "WORKSHOP", "", "HEARTBEAT", "FRESH_RUN"}
    /\ s.patch # None
    /\ {"status", "proven", "ok", "active"} \subseteq DOMAIN u.patch
    /\ u.patch.proven = s.patch.proven /\ u.patch.ok = s.patch.ok
    /\ u.patch.status = "INVALIDATED_BY_DRIFT" \/ s.patch.status # "INVALIDATED_BY_DRIFT"
    /\ u.patch.active \in Named

LEMMA Continues ==
    ASSUME Inv, NEW g \in Session, NEW u, Keeping(sess[g], u), sess' = [sess EXCEPT ![g] = u], UNCHANGED <<txn, newest>>
    PROVE  Sessions'
<1>1. Sound(sess[g]) /\ Kept(sess[g]) BY DEF Inv, Sessions
<1>2. Sound(u) BY <1>1, LaterSteps DEF Sound, Keeping
<1>3. Kept(u) BY <1>1 DEF Kept, Keeping
<1> QED BY <1>2, <1>3, Writes

LEMMA ReserveKeeps == ASSUME Inv, NEW p \in Proc, NEW g \in Session, NEW S, Reserve(p, g, S) PROVE Inv'
<1> DEFINE u == [sess[g] EXCEPT !.patch.resv = p, !.gate = None, !.next = "WORKSHOP"]
           r == [proc[p] EXCEPT !.pc = "manifest", !.g = g, !.req = S]
<1>1. Sound(sess[g]) /\ Kept(sess[g]) BY DEF Inv, Sessions
<1>2. Keeping(sess[g], u) BY <1>1 DEF Reserve, Sound, Kept, Keeping
<1>3. sess' = [sess EXCEPT ![g] = u] /\ UNCHANGED <<txn, newest>> BY DEF Reserve, OnlySession, corpus
<1>4. Sessions' BY <1>2, <1>3, Continues
<1>5. Running(r) /\ r.pc = "manifest" BY DEF Inv, Commands, Running
<1>6. Goto(p, r) /\ UNCHANGED <<txn, corpus, lease>> BY DEF Reserve, OnlySession
<1>7. Elsewhere BY <1>5, <1>6, Moves
<1> QED BY <1>4, <1>7 DEF Inv, Elsewhere

LEMMA PatchCloseKeeps == ASSUME Inv, NEW p \in Proc, NEW g \in Session, PatchClose(p, g) PROVE Inv'
<1> DEFINE u == [sess[g] EXCEPT !.patch.status = "WORKSHOP_COMPLETE", !.next = "FRESH_RUN", !.gate = None]
<1>1. Sound(sess[g]) /\ Kept(sess[g]) BY DEF Inv, Sessions
<1>2. Keeping(sess[g], u) BY <1>1 DEF PatchClose, Sound, Kept, Keeping
<1>3. sess' = [sess EXCEPT ![g] = u] /\ UNCHANGED <<txn, newest>> BY DEF PatchClose, OnlySession, corpus
<1>4. Sessions' BY <1>2, <1>3, Continues
<1>5. Elsewhere BY Leaves DEF PatchClose, OnlySession
<1> QED BY <1>4, <1>5 DEF Inv, Elsewhere

LEMMA FreshRunKeeps == ASSUME Inv, NEW p \in Proc, NEW g \in Session, FreshRun(p, g) PROVE Inv'
<1> DEFINE u == [sess[g] EXCEPT !.closed = TRUE, !.next = "", !.gate = None]
<1>1. Sound(sess[g]) /\ Kept(sess[g]) BY DEF Inv, Sessions
<1>2. Keeping(sess[g], u) BY <1>1 DEF FreshRun, Sound, Kept, Keeping
<1>3. sess' = [sess EXCEPT ![g] = u] /\ UNCHANGED <<txn, newest>> BY DEF FreshRun, OnlySession, corpus
<1>4. Sessions' BY <1>2, <1>3, Continues
<1>5. Elsewhere BY Leaves DEF FreshRun, OnlySession
<1> QED BY <1>4, <1>5 DEF Inv, Elsewhere

LEMMA CancelReservationKeeps == ASSUME Inv, NEW p \in Proc, CancelReservation(p) PROVE Inv'
<1> DEFINE g == proc[p].g
           u == [sess[g] EXCEPT !.patch.resv = None, !.next = "PATCH"]
<1>1. Elsewhere BY Leaves DEF CancelReservation, OnlySession, files
<1>2. Sessions'
  <2>1. CASE UNCHANGED sess BY <2>1, Rests DEF CancelReservation, OnlySession, files, corpus
  <2>2. CASE sess' # sess
    <3>1. sess' = [sess EXCEPT ![g] = u] /\ sess[g].patch # None /\ UNCHANGED <<txn, newest>>
      BY <2>2 DEF CancelReservation, OnlySession, files, corpus
    <3>2. g \in Session BY <2>2, <3>1 DEF Inv, Sessions
    <3>3. Sound(sess[g]) /\ Kept(sess[g]) BY <3>2 DEF Inv, Sessions
    <3>4. Keeping(sess[g], u) BY <3>1, <3>3 DEF Sound, Kept, Keeping
    <3> QED BY <3>1, <3>2, <3>4, Continues
  <2> QED BY <2>1, <2>2
<1> QED BY <1>1, <1>2 DEF Inv, Elsewhere

LEMMA CancelKeeps == ASSUME Inv, NEW p \in Proc, Cancel(p) PROVE Inv'
<1> DEFINE t == proc[p].t
           g == CHOOSE o \in Owners(t) : TRUE
           u == [sess[g] EXCEPT !.patch.active = None, !.next = "PATCH"]
<1>1. Elsewhere BY Leaves DEF Cancel, OnlySession, files
<1>2. Sessions'
  <2>1. CASE ~Active(t) BY <2>1, Rests DEF Cancel, files, corpus
  <2>2. CASE Active(t)
    <3>1. g \in Session /\ sess[g].patch # None BY <2>2 DEF Active, Owners
    <3>2. Sound(sess[g]) /\ Kept(sess[g]) BY <3>1 DEF Inv, Sessions
    <3>3. Keeping(sess[g], u) BY <3>1, <3>2 DEF Sound, Kept, Keeping, Named
    <3>4. sess' = [sess EXCEPT ![g] = u] /\ UNCHANGED <<txn, newest>> BY <2>2 DEF Cancel, OnlySession, corpus
    <3> QED BY <3>1, <3>3, <3>4, Continues
  <2> QED BY <2>1, <2>2
<1> QED BY <1>1, <1>2 DEF Inv, Elsewhere

LEMMA BindKeeps == ASSUME Inv, NEW p \in Proc, Bind(p) PROVE Inv'
<1> DEFINE g == proc[p].g
           t == proc[p].t
           u == [sess[g] EXCEPT !.patch.active = t, !.patch.resv = None, !.next = "", !.patch.owned = @ \cup {t}]
           bound == sess[g].patch # None /\ sess[g].patch.resv = p /\ sess[g].patch.active = None
<1>1. proc[p].pc = "bind" /\ Running(proc[p]) /\ t \in Txn BY DEF Bind, At, Inv, Commands, Running
<1>2. CASE ~bound
  <2>1. Quit(p) /\ lease' \in Named /\ UNCHANGED <<sess, txn, corpus>> BY <1>2 DEF Bind, Inv, Corpus, Named
  <2>2. Elsewhere BY <2>1, MovesOn, IdleRuns DEF Quit
  <2>3. Sessions' BY <2>1, Rests DEF corpus
  <2> QED BY <2>2, <2>3 DEF Inv, Elsewhere
<1>3. CASE bound
  <2>1. sess' = [sess EXCEPT ![g] = u] /\ Step(p, "materialise") /\ UNCHANGED <<txn, lease, corpus>>
    BY <1>3 DEF Bind, OnlySession
  <2>2. Sessions'
    <3>1. CASE g \in Session
      <4>1. Sound(sess[g]) /\ Kept(sess[g]) BY <3>1 DEF Inv, Sessions
      <4>2. Keeping(sess[g], u) BY <1>1, <1>3, <4>1 DEF Sound, Kept, Keeping, Named
      <4> QED BY <2>1, <3>1, <4>2, Continues DEF corpus
    <3>2. CASE g \notin Session
      <4>1. sess' = sess BY <2>1, <3>2 DEF Inv, Sessions
      <4> QED BY <2>1, <4>1, Rests DEF corpus
    <3> QED BY <3>1, <3>2
  <2>3. proc' = [q \in Proc |-> IF q = p THEN [proc[p] EXCEPT !.pc = "materialise"] ELSE proc[q]]
    BY <2>1 DEF Step, Goto, Inv, Commands
  <2>4. Running([proc[p] EXCEPT !.pc = "materialise"]) BY <1>1 DEF Running
  <2>5. Commands' BY <2>1, <2>3, <2>4 DEF Inv, Commands, Running, corpus
  <2>6. Corpus' /\ Transactions' BY <2>1 DEF Inv, Corpus, Transactions, Saved, corpus
  <2>7. proc'[p].pc = "materialise" /\ proc'[p].t = t BY <1>1, <2>3 DEF Running
  <2>8. Births'
    <3>1. \A q \in Proc : Newborn(proc'[q]) => Newborn(proc[q]) /\ proc'[q].t = proc[q].t
      BY <1>1, <2>3, <2>7 DEF Newborn
    <3> QED BY <2>1, <3>1 DEF Inv, Births
  <2>9. Tearing' BY <2>1, <2>3, <2>7 DEF Inv, Tearing, corpus
  <2> QED BY <2>2, <2>5, <2>6, <2>8, <2>9 DEF Inv
<1> QED BY <1>2, <1>3

LEMMA InvalidateKeeps == ASSUME Inv, NEW p \in Proc, Invalidate(p) PROVE Inv'
<1> DEFINE g == proc[p].g
           u == [sess[g] EXCEPT !.patch = IF @ = None THEN None ELSE [@ EXCEPT !.status = "INVALIDATED_BY_DRIFT"],
                                !.roll = proc[p].pkg, !.gate = None, !.next = "REFRAME_REQUIRED"]
<1>1. Elsewhere BY Leaves DEF Invalidate, OnlySession
<1>2. sess' = [sess EXCEPT ![g] = u] /\ UNCHANGED <<txn, newest>> BY DEF Invalidate, OnlySession, corpus
<1>3. CASE g \in Session
  <2>1. Sound(sess[g]) /\ Kept(sess[g]) BY <1>3 DEF Inv, Sessions
  <2>2. Sound(u) BY <2>1, LaterSteps DEF Sound
  <2>3. Kept(u) BY <2>1 DEF Sound, Kept
  <2>4. Sessions' BY <1>2, <1>3, <2>2, <2>3, Writes
  <2> QED BY <1>1, <2>4 DEF Inv, Elsewhere
<1>4. CASE g \notin Session
  <2>1. sess' = sess BY <1>2, <1>4 DEF Inv, Sessions
  <2> QED BY <1>1, <1>2, <2>1, Rests DEF Inv, Elsewhere
<1> QED BY <1>3, <1>4

LEMMA GuardReleaseKeeps == ASSUME Inv, NEW p \in Proc, GuardRelease(p) PROVE Inv'
<1> DEFINE t == proc[p].t
           good == txn[t].st = "POSTCHECK_VERIFIED"
           g == CHOOSE o \in Owners(t) : TRUE
           q == IF good THEN Charged(sess[g].patch, t) ELSE sess[g].patch
           u == [sess[g] EXCEPT !.patch = [q EXCEPT !.active = None],
                                !.roll = IF good THEN txn[t].post ELSE @,
                                !.next = IF q.avail # {} THEN "PATCH" ELSE "HEARTBEAT"]
<1>1. t \in Txn /\ Running(proc[p]) BY DEF GuardRelease, At, Inv, Commands, Running
<1>2. Elsewhere
  <2>1. CASE Quit(p) BY <2>1, Leaves DEF GuardRelease, OnlySession, files
  <2>2. CASE ~Quit(p)
    <3>1. Goto(p, [proc[p] EXCEPT !.pc = "invalidate", !.g = g]) /\ UNCHANGED <<txn, corpus, lease>>
      BY <2>2 DEF GuardRelease, OnlySession, files
    <3>2. Running([proc[p] EXCEPT !.pc = "invalidate", !.g = g]) BY <1>1 DEF Running
    <3>3. [proc[p] EXCEPT !.pc = "invalidate", !.g = g].pc = "invalidate" BY <1>1 DEF Running
    <3> QED BY <3>1, <3>2, <3>3, Moves
  <2> QED BY <2>1, <2>2
<1>3. Sessions'
  <2>1. CASE ~Active(t) BY <2>1, Rests DEF GuardRelease, files, corpus
  <2>2. CASE good /\ txn[t].post # proc[p].pkg BY <2>2, Rests DEF GuardRelease, files, corpus
  <2>3. CASE Active(t) /\ (good => txn[t].post = proc[p].pkg)
    <3>1. g \in Session /\ sess[g].patch # None BY <2>3 DEF Active, Owners
    <3>2. Sound(sess[g]) /\ Kept(sess[g]) BY <3>1 DEF Inv, Sessions
    <3>3. sess' = [sess EXCEPT ![g] = u] /\ UNCHANGED <<txn, newest>> BY <2>3 DEF GuardRelease, OnlySession, corpus
    <3>4. /\ u.next \in {"PATCH", "HEARTBEAT"} /\ u.gate = sess[g].gate /\ u.exact = sess[g].exact /\ u.base = sess[g].base
          /\ u.roll = IF good THEN txn[t].post ELSE sess[g].roll
          /\ {"next", "gate", "exact", "base", "roll", "patch"} \subseteq DOMAIN u
      BY <3>2 DEF Sound
    <3>5. /\ {"status", "proven", "ok", "active"} \subseteq DOMAIN q
          /\ q.status = sess[g].patch.status /\ q.proven = sess[g].patch.proven
          /\ q.ok = sess[g].patch.ok \cup (IF good THEN {t} ELSE {})
      BY <3>1, <3>2 DEF Kept, Charged
    <3>6. /\ u.patch = [q EXCEPT !.active = None] /\ u.patch.active = None
          /\ {"status", "proven", "ok", "active"} \subseteq DOMAIN u.patch
          /\ u.patch.status = q.status /\ u.patch.proven = q.proven /\ u.patch.ok = q.ok
      BY <3>2, <3>5 DEF Sound
    <3>7. Sound(u) BY <3>2, <3>4, LaterSteps DEF Sound
    <3>8. Kept(u) BY ZenonT(30), <1>1, <3>1, <3>2, <3>4, <3>5, <3>6 DEF Kept, Named
    <3> QED BY <3>1, <3>3, <3>7, <3>8, Writes
  <2> QED BY <2>1, <2>2, <2>3
<1> QED BY <1>2, <1>3 DEF Inv, Elsewhere

-----------------------------------------------------------------------------
(* Commands that move on, and the lease. *)

LEMMA StepsOn ==
    ASSUME Inv, NEW p \in Proc, NEW x, Step(p, x), UNCHANGED <<txn, corpus>>, lease' \in Named,
           x \notin {"guard", "bind", "materialise", "apply"}, proc[p].t \in Txn
    PROVE  Elsewhere
<1>1. Running(proc[p]) BY DEF Inv, Commands
<1>2. Running([proc[p] EXCEPT !.pc = x]) /\ [proc[p] EXCEPT !.pc = x].pc = x BY <1>1 DEF Running
<1> QED BY <1>2, MovesOn DEF Step

\* A command that has just removed the lease, or found it to be another's.
LEMMA Unleases ==
    ASSUME Inv, NEW p \in Proc, NEW x,
           proc[p].pc \in {"unlease", "unbind", "unreserve", "materialise"},
           IF lease = proc[p].t THEN lease' = None /\ Step(p, x) ELSE UNCHANGED lease /\ Quit(p),
           x \in {"release", "cancel", "unreserved"}, UNCHANGED <<sess, txn, corpus>>
    PROVE  Inv'
<1>1. proc[p].t \in Txn /\ lease' \in Named BY DEF Inv, Commands, Running, Corpus, Named
<1>2. Elsewhere BY <1>1, StepsOn, MovesOn, IdleRuns DEF Quit
<1>3. Sessions' BY Rests DEF corpus
<1> QED BY <1>2, <1>3 DEF Inv, Elsewhere

LEMMA UnleaseKeeps == ASSUME Inv, NEW p \in Proc, Unlease(p) PROVE Inv'
BY Unleases DEF Unlease, At

LEMMA UnbindKeeps == ASSUME Inv, NEW p \in Proc, Unbind(p) PROVE Inv'
BY Unleases DEF Unbind, At

LEMMA UnreserveKeeps == ASSUME Inv, NEW p \in Proc, Unreserve(p) PROVE Inv'
BY Unleases DEF Unreserve, At

LEMMA CheckoutFailsKeeps == ASSUME Inv, NEW p \in Proc, CheckoutFails(p) PROVE Inv'
BY Unleases DEF CheckoutFails, At

LEMMA ManifestKeeps == ASSUME Inv, NEW p \in Proc, Manifest(p) PROVE Inv'
<1> DEFINE r == [proc[p] EXCEPT !.pc = "acquire", !.pkg = live]
<1>1. live = newest /\ newest \in Package BY Bounds DEF Manifest, Inv, Corpus, Package
<1>2. Running(r) /\ r.pc = "acquire" BY <1>1 DEF Inv, Commands, Running
<1>3. Elsewhere BY <1>2, Moves DEF Manifest, files
<1>4. Sessions' BY Rests DEF Manifest, files, corpus
<1> QED BY <1>3, <1>4 DEF Inv, Elsewhere

LEMMA ResumeKeeps == ASSUME Inv, NEW p \in Proc, NEW t \in Txn, Resume(p, t) PROVE Inv'
<1> DEFINE r == [Idle EXCEPT !.pc = "terminal", !.t = t]
<1>1. Running(r) /\ r.pc = "terminal" BY IdleRuns DEF Running, Idle
<1>2. Elsewhere BY <1>1, Moves DEF Resume, files
<1>3. Sessions' BY Rests DEF Resume, files, corpus
<1> QED BY <1>2, <1>3 DEF Inv, Elsewhere

LEMMA AssertReleaseKeeps == ASSUME Inv, NEW p \in Proc, AssertRelease(p) PROVE Inv'
<1> DEFINE r == [proc[p] EXCEPT !.pc = "unlease", !.pkg = live]
<1>1. Sessions' BY Rests DEF AssertRelease, files, corpus
<1>2. CASE Quit(p) BY <1>1, <1>2, Leaves DEF AssertRelease, files, Inv, Elsewhere
<1>3. CASE ~Quit(p)
  <2>1. live # Torn /\ Goto(p, r) /\ UNCHANGED <<txn, corpus, lease>> BY <1>3 DEF AssertRelease, files
  <2>2. live \in Package /\ proc[p].pc = "terminal" BY <2>1 DEF Inv, Corpus, AssertRelease, At
  <2>3. Running(r) /\ r.pc = "unlease" BY <2>2 DEF Inv, Commands, Running
  <2>4. Elsewhere BY <2>1, <2>3, Moves
  <2> QED BY <1>1, <2>4 DEF Inv, Elsewhere
<1> QED BY <1>2, <1>3

LEMMA ReconcileKeeps == ASSUME Inv, NEW p \in Proc, NEW g \in Session, Reconcile(p, g) PROVE Inv'
<1>1. live \in Package /\ sess[g].patch # None
  <2>1. seal \in 0 .. newest /\ newest \in 0 .. MaxPackage BY DEF Inv, Corpus, Package
  <2>2. live = seal /\ sess[g].patch # None BY DEF Reconcile
  <2> QED BY <2>1, <2>2, Bounds DEF Package
<1>2. Kept(sess[g]) /\ sess[g].patch.active \in Named /\ lease \in Named BY <1>1 DEF Inv, Sessions, Kept, Corpus
<1>3. PICK r : Goto(p, r) /\ r.pc \in {"unbind", "unlease", "cancel", "release", "unreserve"}
               /\ r.t \in Txn /\ r.pkg \in Package /\ {"pc", "t", "pkg", "known"} \subseteq DOMAIN r
  <2>1. CASE sess[g].patch.active # None
    <3> DEFINE a == sess[g].patch.active
               x == IF lease = a THEN (IF txn[a].st = "" THEN "unbind" ELSE "unlease")
                                 ELSE (IF txn[a].st = "" THEN "cancel" ELSE "release")
               r == [Idle EXCEPT !.t = a, !.pkg = live, !.pc = x]
    <3>1. Goto(p, r) BY <2>1 DEF Reconcile
    <3>2. r.pc = x /\ r.t = a /\ r.pkg = live /\ {"pc", "t", "pkg", "known"} \subseteq DOMAIN r BY DEF Idle
    <3>3. a \in Txn BY <1>2, <2>1 DEF Named
    <3> QED BY <1>1, <3>1, <3>2, <3>3
  <2>2. CASE sess[g].patch.active = None
    <3> DEFINE r == [Idle EXCEPT !.g = g, !.t = lease, !.pc = "unreserve"]
    <3>1. Goto(p, r) /\ lease # None BY <2>2 DEF Reconcile
    <3>2. r.pc = "unreserve" /\ r.t = lease /\ r.pkg = 0 /\ {"pc", "t", "pkg", "known"} \subseteq DOMAIN r BY DEF Idle
    <3>3. 0 \in Package BY Bounds DEF Package
    <3> QED BY <1>2, <3>1, <3>2, <3>3 DEF Named
  <2> QED BY <2>1, <2>2
<1>4. Running(r) BY <1>3 DEF Running
<1>5. Elsewhere BY <1>3, <1>4, Moves DEF Reconcile, files
<1>6. Sessions' BY Rests DEF Reconcile, files, corpus
<1> QED BY <1>5, <1>6 DEF Inv, Elsewhere

LEMMA KillKeeps == ASSUME Inv, NEW p \in Proc, Kill(p) PROVE Inv'
<1>1. Elsewhere BY Leaves DEF Kill, files
<1>2. Sessions' BY Rests DEF Kill, files, corpus
<1> QED BY <1>1, <1>2 DEF Inv, Elsewhere

LEMMA AcquireKeeps == ASSUME Inv, NEW p \in Proc, NEW t \in Txn, Acquire(p, t) PROVE Inv'
<1> DEFINE r == [proc[p] EXCEPT !.pc = "bind", !.t = t]
<1>1. proc' = [q \in Proc |-> IF q = p THEN r ELSE proc[q]] BY DEF Acquire, Goto, Inv, Commands
<1>2. Running(r) /\ r.t = t /\ r.pc = "bind" BY DEF Inv, Commands, Running
<1>3. Commands' BY <1>1, <1>2 DEF Acquire, Inv, Commands, Running, corpus
<1>4. Corpus' /\ Transactions' BY DEF Acquire, Inv, Corpus, Transactions, Saved, corpus, Named
<1>5. txn[t].st = "" /\ \A q \in Proc : proc[q].t # t
  <2>1. NoFile.st = "" BY DEF NoFile
  <2>2. txn[t] = NoFile /\ \A q \in Proc : proc[q].t # t BY DEF Acquire, Fresh
  <2> QED BY <2>1, <2>2
<1>6. Births'
  <2>1. \A q \in Proc : Newborn(proc'[q]) => q = p \/ (Newborn(proc[q]) /\ proc'[q] = proc[q]) BY <1>1
  <2>2. proc'[p].t = t /\ UNCHANGED txn BY <1>1, <1>2 DEF Acquire
  <2> QED BY <1>5, <2>1, <2>2 DEF Inv, Births
<1>7. Tearing' BY <1>1, <1>2 DEF Acquire, Inv, Tearing, corpus
<1>8. Sessions' BY Rests DEF Acquire, corpus
<1> QED BY <1>3, <1>4, <1>6, <1>7, <1>8 DEF Inv

-----------------------------------------------------------------------------
(* The transaction. *)

LEMMA Upto == ASSUME NEW a \in Nat, NEW b \in Nat, a <= b PROVE \A x \in 0 .. a : x \in Nat /\ x \in 0 .. b
OBVIOUS

LEMMA NoLater == ASSUME NEW a \in Nat, NEW b \in Nat, NEW d \in Nat, a <= b, b <= d PROVE a <= d
OBVIOUS

LEMMA AsLate == \A a \in Nat : a <= a
OBVIOUS

\* A saved transaction, of a kind that no session counts yet.
LEMMA Saves ==
    ASSUME Inv, NEW p \in Proc, NEW t \in Txn, NEW r, NEW c,
           txn' = [txn EXCEPT ![t] = r], Saved(r), txn[t].st \notin {"", "POSTCHECK_VERIFIED"},
           Goto(p, c), Running(c), c.pc \notin {"guard", "bind", "materialise"},
           UNCHANGED sess, newest' \in Nat, newest <= newest', seal' \in Nat, seal <= seal'
    PROVE  Sessions' /\ Commands' /\ Transactions' /\ Births'
<1>1. proc' = [q \in Proc |-> IF q = p THEN c ELSE proc[q]] BY DEF Goto, Inv, Commands
<1>2. txn' = [u \in Txn |-> IF u = t THEN r ELSE txn[u]] BY DEF Inv, Transactions
<1>3. newest \in Nat /\ seal \in Nat /\ \A x \in 0 .. newest : x \in 0 .. newest'
  <2>1. newest \in Nat /\ seal \in 0 .. newest BY Bounds DEF Inv, Corpus
  <2>2. \A x \in 0 .. newest : x \in Nat /\ x \in 0 .. newest' BY <2>1, Upto, Zenon
  <2> QED BY <2>1, <2>2, Zenon
<1>4. Sessions'
  <2>1. ASSUME NEW g \in Session PROVE Sound(sess[g])'
    <3>1. Sound(sess[g]) BY DEF Inv, Sessions
    <3> QED BY <1>3, <3>1 DEF Sound
  <2>2. \A u \in Txn : txn[u].st = "POSTCHECK_VERIFIED" => txn'[u] = txn[u] BY <1>2
  <2>3. ASSUME NEW g \in Session PROVE Kept(sess[g])'
    <3>1. Kept(sess[g]) BY DEF Inv, Sessions
    <3>2. CASE sess[g].patch = None BY <3>2 DEF Kept
    <3>3. CASE sess[g].patch # None
      <4> DEFINE q == sess[g].patch
      <4>1. \A u \in q.ok : u \in Txn /\ txn[u].st = "POSTCHECK_VERIFIED" /\ txn'[u] = txn[u] BY <2>2, <3>1, <3>3 DEF Kept
      <4>2. {txn'[u].post : u \in q.ok} = {txn[u].post : u \in q.ok} BY <4>1
      <4> QED BY <3>1, <3>3, <4>1, <4>2 DEF Kept
    <3> QED BY <3>2, <3>3
  <2> QED BY <2>1, <2>3 DEF Inv, Sessions
<1>5. Commands'
  <2>1. Running(c)' BY DEF Running
  <2>4. \A q \in Proc : Running(proc[q]) BY DEF Inv, Commands
  <2>5. ASSUME NEW q \in Proc PROVE Running(proc[q])'
    <3>1. CASE q = p BY <1>1, <2>1, <3>1 DEF Running
    <3>2. CASE q # p
      <4>1. proc'[q] = proc[q] BY <1>1, <3>2
      <4>2. Running(proc[q]) BY <2>4
      <4>3. proc[q].pc = "guard" => proc[q].pkg \in Nat /\ proc[q].pkg <= seal BY <4>2, Bounds DEF Running
      <4>4. proc[q].pc = "guard" => proc[q].pkg <= seal' BY <1>3, <4>3, NoLater, Zenon
      <4>5. {"pc", "t", "pkg", "known"} \subseteq DOMAIN proc[q] /\ proc[q].pkg \in Package BY <4>2 DEF Running
      <4>6. proc[q].pc \notin {"idle", "guard", "manifest", "acquire", "unreserved", "invalidate"} => proc[q].t \in Txn
        BY <4>2, Zenon DEF Running
      <4>7. proc[q].pc = "guard" => \A x \in proc[q].known : x.pkg = Torn \/ (x.pkg \in Nat /\ x.pkg <= proc[q].pkg)
        BY <4>2, Zenon DEF Running
      <4> QED BY <4>1, <4>4, <4>5, <4>6, <4>7, Zenon DEF Running
    <3> QED BY <3>1, <3>2
  <2>6. proc' = [q \in Proc |-> proc'[q]] BY <1>1
  <2> QED BY <2>5, <2>6 DEF Commands
<1>6. Transactions' BY <1>2 DEF Inv, Transactions, Saved
<1>7. Births'
  <2>1. \A q \in Proc : Newborn(proc'[q]) => Newborn(proc[q]) /\ proc'[q] = proc[q] /\ q # p BY <1>1 DEF Newborn
  <2>2. \A u \in Txn : txn[u].st = "" => txn'[u] = txn[u] BY <1>2
  <2>3. \A q \in Proc : Newborn(proc[q]) => proc[q].t \in Txn BY DEF Newborn, Inv, Commands, Running
  <2>4. ASSUME NEW q \in Proc, Newborn(proc'[q])
        PROVE  txn'[proc'[q].t].st = "" /\ \A o \in Proc : Newborn(proc'[o]) /\ proc'[o].t = proc'[q].t => o = q
    <3>1. Newborn(proc[q]) /\ proc'[q] = proc[q] BY <2>1, <2>4
    <3>2. txn[proc[q].t].st = "" /\ \A o \in Proc : Newborn(proc[o]) /\ proc[o].t = proc[q].t => o = q
      BY <3>1 DEF Inv, Births
    <3>3. txn'[proc'[q].t].st = "" BY <2>2, <2>3, <3>1, <3>2
    <3>4. \A o \in Proc : Newborn(proc'[o]) /\ proc'[o].t = proc'[q].t => o = q BY <2>1, <3>1, <3>2
    <3> QED BY <3>3, <3>4
  <2> QED BY <2>4 DEF Births, Newborn
<1> QED BY <1>4, <1>5, <1>6, <1>7

LEMMA Recorded ==
    ASSUME Inv, NEW p \in Proc, NEW t \in Txn, NEW r, NEW x \in {"idle", "terminal"}, Record(p, t, r, x)
    PROVE  \E u, c : /\ u \in {r, txn[t]} /\ txn' = [txn EXCEPT ![t] = u] /\ Goto(p, c) /\ Running(c)
                    /\ c.pc \in {"idle", "terminal"} /\ (Active(t) => u = r)
<1>1. CASE Active(t)
  <2> DEFINE c == [Idle EXCEPT !.pc = x, !.t = IF x = "idle" THEN None ELSE t]
  <2>1. txn' = [txn EXCEPT ![t] = r] /\ Goto(p, c) BY <1>1 DEF Record
  <2>2. Running(c) /\ c.pc = x BY IdleRuns DEF Running, Idle
  <2> QED BY <2>1, <2>2
<1>2. CASE ~Active(t)
  <2>1. txn' = [txn EXCEPT ![t] = txn[t]] BY <1>2 DEF Record, Inv, Transactions
  <2> QED BY <1>2, <2>1, IdleRuns DEF Record, Quit
<1> QED BY <1>1, <1>2

LEMMA Settled ==
    ASSUME \A q \in Proc : proc'[q].pc # "apply", \A u \in Txn : txn'[u].st # "RECOVERY_REQUIRED"
    PROVE  Tearing'
BY DEF Tearing

\* The torn corpus becomes the result, or the baseline again.
LEMMA Settles ==
    ASSUME Inv, NEW p \in Proc, NEW t \in Txn, Publish(p, t) \/ RollBack(p, t),
           \/ proc[p].pc = "apply" /\ proc[p].t = t
           \/ proc[p].pc = "idle" /\ txn[t].st = "RECOVERY_REQUIRED" /\ Active(t)
    PROVE  Inv'
<1>1. /\ live = Torn /\ txn[t].base = newest /\ txn[t].st \in {"APPLYING", "RECOVERY_REQUIRED"}
      /\ \A q \in Proc : proc[q].pc = "apply" => q = p
      /\ \A u \in Txn : txn[u].st = "RECOVERY_REQUIRED" => u = t /\ Active(t)
  BY DEF Inv, Tearing
<1>2. newest \in Nat /\ newest < MaxPackage /\ seal \in 0 .. newest BY <1>1, Bounds DEF Inv, Corpus, Package
<1>3. Saved(txn[t]) BY DEF Inv, Transactions
<1>4. PICK r :
         /\ Record(p, t, r, "terminal") /\ Saved(r) /\ r.st \in {"POSTCHECK_VERIFIED", "ROLLED_BACK"}
         /\ UNCHANGED <<sess, lease>>
         /\ \/ newest' = newest + 1 /\ live' = newest' /\ seal' = newest'
            \/ live' = newest /\ UNCHANGED <<seal, newest>>
  <2>1. CASE Publish(p, t)
    <3> DEFINE r == [txn[t] EXCEPT !.st = "POSTCHECK_VERIFIED", !.post = newest']
    <3>1. Saved(r) /\ r.st = "POSTCHECK_VERIFIED" BY <1>3 DEF Saved
    <3>2. Record(p, t, r, "terminal") BY <2>1 DEF Publish
    <3> QED BY <2>1, <3>1, <3>2 DEF Publish
  <2>2. CASE RollBack(p, t)
    <3> DEFINE r == [txn[t] EXCEPT !.st = "ROLLED_BACK"]
    <3>1. Saved(r) /\ r.st = "ROLLED_BACK" BY <1>3 DEF Saved
    <3>2. Record(p, t, r, "terminal") BY <2>2 DEF RollBack
    <3> QED BY <1>1, <2>2, <3>1, <3>2 DEF RollBack
  <2> QED BY <2>1, <2>2
<1>5. PICK u, c : /\ u \in {r, txn[t]} /\ txn' = [txn EXCEPT ![t] = u] /\ Goto(p, c) /\ Running(c)
                  /\ c.pc \in {"idle", "terminal"} /\ (Active(t) => u = r)
  BY <1>4, Recorded
<1>6. newest' \in Nat /\ newest <= newest' /\ seal' \in Nat /\ seal <= seal' BY <1>2, <1>4
<1>7. Sessions' /\ Commands' /\ Transactions' /\ Births' BY <1>1, <1>3, <1>4, <1>5, <1>6, Saves
<1>8. Corpus'
  <2>1. newest' \in Package /\ seal' \in 0 .. newest' /\ live' = newest' BY <1>2, <1>4, Bounds DEF Package
  <2>2. newest' # Torn BY <2>1, Bounds DEF Package
  <2> QED BY <1>4, <2>1, <2>2 DEF Inv, Corpus
<1>9. Tearing'
  <2>1. proc' = [q \in Proc |-> IF q = p THEN c ELSE proc[q]] BY <1>5 DEF Goto, Inv, Commands
  <2>2. txn' = [v \in Txn |-> IF v = t THEN u ELSE txn[v]] BY <1>5 DEF Inv, Transactions
  <2>3. \A q \in Proc : proc'[q].pc # "apply" BY <1>1, <1>5, <2>1
  <2>4. u.st # "RECOVERY_REQUIRED" BY <1>1, <1>4, <1>5
  <2>5. \A v \in Txn : txn'[v].st # "RECOVERY_REQUIRED" BY <1>1, <2>2, <2>4
  <2> QED BY <2>3, <2>5, Settled
<1> QED BY <1>7, <1>8, <1>9 DEF Inv

LEMMA ApplyEndsKeeps == ASSUME Inv, NEW p \in Proc, ApplyEnds(p) PROVE Inv'
<1>1. proc[p].pc = "apply" /\ Publish(p, proc[p].t) BY DEF ApplyEnds, At
<1>2. proc[p].t \in Txn BY <1>1 DEF Inv, Commands, Running
<1> QED BY <1>1, <1>2, Settles

LEMMA RecoverKeeps == ASSUME Inv, NEW p \in Proc, NEW t \in Txn, Recover(p, t) PROVE Inv'
BY Settles DEF Recover, MayWork, At

\* A transaction is saved; the corpus stays as it is.
LEMMA SavesOnly ==
    ASSUME Inv, NEW p \in Proc, NEW t \in Txn, NEW r, NEW c,
           txn' = [txn EXCEPT ![t] = r], Saved(r), txn[t].st \notin {"", "POSTCHECK_VERIFIED"},
           Goto(p, c), Running(c), c.pc \notin {"guard", "bind", "materialise"},
           UNCHANGED <<sess, lease, corpus>>
    PROVE  Sessions' /\ Commands' /\ Transactions' /\ Births' /\ Corpus'
<1>1. newest \in Nat /\ seal \in 0 .. newest BY Bounds DEF Inv, Corpus
<1>2. \A x \in 0 .. newest : x \in Nat BY <1>1, Upto, AsLate, Zenon
<1>3. newest' \in Nat /\ newest <= newest' /\ seal' \in Nat /\ seal <= seal'
  <2>1. newest' = newest /\ seal' = seal /\ seal \in Nat BY <1>1, <1>2 DEF corpus
  <2> QED BY <1>1, <2>1, AsLate, Zenon
<1>4. Sessions' /\ Commands' /\ Transactions' /\ Births' BY <1>3, Saves
<1>5. Corpus' BY DEF Inv, Corpus, corpus
<1> QED BY <1>4, <1>5

LEMMA ApplyFailsKeeps == ASSUME Inv, NEW p \in Proc, ApplyFails(p) PROVE Inv'
<1> DEFINE t == proc[p].t
           r == [txn[t] EXCEPT !.st = "RECOVERY_REQUIRED"]
<1>1. proc[p].pc = "apply" /\ t \in Txn BY DEF ApplyFails, At, Inv, Commands, Running
<1>2. CASE RollBack(p, t) BY <1>1, <1>2, Settles
<1>3. CASE ~RollBack(p, t)
  <2>1. Record(p, t, r, "idle") /\ UNCHANGED <<sess, lease, corpus>> BY <1>3 DEF ApplyFails
  <2>2. PICK u, c : /\ u \in {r, txn[t]} /\ txn' = [txn EXCEPT ![t] = u] /\ Goto(p, c) /\ Running(c)
                    /\ c.pc \in {"idle", "terminal"} /\ (Active(t) => u = r)
    BY <1>1, <2>1, Recorded
  <2>3. /\ live = Torn /\ txn[t].st = "APPLYING" /\ txn[t].base = newest
        /\ \A q \in Proc : proc[q].pc = "apply" => q = p
        /\ \A v \in Txn : txn[v].st # "RECOVERY_REQUIRED"
    BY <1>1 DEF Inv, Tearing
  <2>4. Saved(txn[t]) BY <1>1 DEF Inv, Transactions
  <2>5. Saved(u) /\ u.base = newest BY <2>2, <2>3, <2>4 DEF Saved
  <2>6. Sessions' /\ Commands' /\ Transactions' /\ Births' /\ Corpus' BY <1>1, <2>1, <2>2, <2>3, <2>5, SavesOnly
  <2>7. Tearing'
    <3>1. proc' = [q \in Proc |-> IF q = p THEN c ELSE proc[q]] BY <2>2 DEF Goto, Inv, Commands
    <3>2. txn' = [v \in Txn |-> IF v = t THEN u ELSE txn[v]] BY <2>2 DEF Inv, Transactions
    <3>3. \A q \in Proc : proc'[q].pc # "apply" BY <2>2, <2>3, <3>1
    <3>4. \A v \in Txn : txn'[v].st = "RECOVERY_REQUIRED" => v = t /\ txn'[v] = u BY <1>1, <2>3, <3>2
    <3>5. live' = Torn /\ newest' = newest BY <2>1, <2>3 DEF corpus, Torn
    <3> QED BY <2>5, <3>3, <3>4, <3>5 DEF Tearing, Torn
  <2> QED BY <2>6, <2>7 DEF Inv
<1> QED BY <1>2, <1>3

\* A transaction that does not apply is saved as one that does not either.
LEMMA Untorn ==
    ASSUME Inv, NEW p \in Proc, NEW t \in Txn, NEW r, NEW c,
           txn' = [txn EXCEPT ![t] = r], txn[t].st # "APPLYING", r.st # "RECOVERY_REQUIRED",
           Goto(p, c), c.pc # "apply", UNCHANGED corpus
    PROVE  Tearing'
<1>1. proc' = [q \in Proc |-> IF q = p THEN c ELSE proc[q]] BY DEF Goto, Inv, Commands
<1>2. txn' = [v \in Txn |-> IF v = t THEN r ELSE txn[v]] BY DEF Inv, Transactions
<1>3. \A q \in Proc : proc'[q].pc = "apply" => proc[q].pc = "apply" /\ proc'[q] = proc[q] BY <1>1
<1>4. \A v \in Txn : txn'[v].st = "RECOVERY_REQUIRED" => txn[v].st = "RECOVERY_REQUIRED" /\ txn'[v] = txn[v] BY <1>2
<1>5. \A q \in Proc : proc[q].pc = "apply" =>
         txn[proc[q].t].st = "APPLYING" /\ proc[q].t \in Txn /\ txn'[proc[q].t] = txn[proc[q].t]
  BY <1>2 DEF Inv, Tearing, Commands, Running
<1> QED BY <1>3, <1>4, <1>5 DEF Inv, Tearing, corpus, Torn

LEMMA PrepareKeeps == ASSUME Inv, NEW p \in Proc, NEW t \in Txn, NEW S, Prepare(p, t, S) PROVE Inv'
<1> DEFINE r == [txn[t] EXCEPT !.st = "PREPARED", !.changed = S]
<1>1. txn' = [txn EXCEPT ![t] = r] /\ txn[t].st \in PreApply /\ UNCHANGED <<sess, lease, corpus, proc>>
  BY DEF Prepare, OnlyTxn
<1>2. Saved(r) /\ r.st = "PREPARED" BY DEF Inv, Transactions, Saved
<1>3. Goto(p, proc[p]) BY <1>1 DEF Goto, Inv, Commands
<1>4. Running(proc[p]) /\ proc[p].pc = "idle" BY DEF Prepare, MayWork, At, Inv, Commands
<1>5. txn[t].st \notin {"", "POSTCHECK_VERIFIED", "APPLYING"} BY <1>1 DEF PreApply
<1>6. Sessions' /\ Commands' /\ Transactions' /\ Births' /\ Corpus' BY <1>1, <1>2, <1>3, <1>4, <1>5, SavesOnly
<1>7. Tearing' BY <1>1, <1>2, <1>3, <1>4, <1>5, Untorn
<1> QED BY <1>6, <1>7 DEF Inv

LEMMA AbortKeeps == ASSUME Inv, NEW p \in Proc, NEW t \in Txn, Abort(p, t) PROVE Inv'
<1> DEFINE c == [Idle EXCEPT !.pc = "terminal", !.t = t]
<1>1. PICK x \in {"ABORTED", "ABORTED_STALE_BASELINE"} : OnlyTxn(t, [txn[t] EXCEPT !.st = x]) BY DEF Abort
<1> DEFINE r == [txn[t] EXCEPT !.st = x]
<1>2. txn' = [txn EXCEPT ![t] = r] /\ UNCHANGED <<sess, lease, corpus>> BY <1>1 DEF OnlyTxn
<1>3. Saved(r) /\ r.st = x BY DEF Inv, Transactions, Saved
<1>4. Running(c) /\ c.pc = "terminal" BY IdleRuns DEF Running, Idle
<1>5. Goto(p, c) /\ txn[t].st \notin {"", "POSTCHECK_VERIFIED", "APPLYING"} BY DEF Abort, PreApply
<1>6. Sessions' /\ Commands' /\ Transactions' /\ Births' /\ Corpus' BY <1>2, <1>3, <1>4, <1>5, SavesOnly
<1>7. Tearing' BY <1>2, <1>3, <1>4, <1>5, Untorn
<1> QED BY <1>6, <1>7 DEF Inv

LEMMA ApplyKeeps == ASSUME Inv, NEW p \in Proc, NEW t \in Txn, Apply(p, t) PROVE Inv'
<1> DEFINE r == [txn[t] EXCEPT !.st = "APPLYING"]
           c == [Idle EXCEPT !.pc = "apply", !.t = t]
<1>1. /\ txn' = [txn EXCEPT ![t] = r] /\ Goto(p, c) /\ live' = Torn
      /\ txn[t].st = "PREPARED" /\ live = txn[t].base /\ newest < MaxPackage
      /\ UNCHANGED <<sess, lease, seal, newest>>
  BY DEF Apply
<1>2. Saved(txn[t]) BY DEF Inv, Transactions
<1>3. Saved(r) /\ r.st = "APPLYING" /\ r.base = txn[t].base BY <1>2 DEF Saved
<1>4. Running(c) /\ c.pc = "apply" /\ c.t = t BY IdleRuns DEF Running, Idle
<1>5. newest \in Nat /\ seal \in 0 .. newest BY Bounds DEF Inv, Corpus
<1>6. \A x \in 0 .. newest : x \in Nat BY <1>5, Upto, AsLate, Zenon
<1>7. newest' \in Nat /\ newest <= newest' /\ seal' \in Nat /\ seal <= seal' BY <1>1, <1>5, <1>6, AsLate, Zenon
<1>8. Sessions' /\ Commands' /\ Transactions' /\ Births' BY <1>1, <1>3, <1>4, <1>7, Saves
<1>9. Corpus' BY <1>1 DEF Inv, Corpus, Torn
<1>10. Tearing'
  <2>1. txn[t].base # Torn BY <1>2, Bounds DEF Saved, Package
  <2>2. live = newest /\ live # Torn BY <1>1, <2>1 DEF Inv, Corpus
  <2>3. (\A q \in Proc : proc[q].pc # "apply") /\ (\A v \in Txn : txn[v].st # "RECOVERY_REQUIRED")
    BY <2>2 DEF Inv, Tearing
  <2>4. proc' = [q \in Proc |-> IF q = p THEN c ELSE proc[q]] BY <1>1 DEF Goto, Inv, Commands
  <2>5. txn' = [v \in Txn |-> IF v = t THEN r ELSE txn[v]] BY <1>1 DEF Inv, Transactions
  <2>6. \A q \in Proc : proc'[q].pc = "apply" => q = p /\ proc'[q].t = t BY <1>4, <2>3, <2>4
  <2>7. \A v \in Txn : txn'[v].st # "RECOVERY_REQUIRED" BY <1>3, <2>3, <2>5
  <2>8. txn'[t].st = "APPLYING" /\ txn'[t].base = newest' BY <1>1, <1>3, <2>2, <2>5
  <2> QED BY <1>1, <2>6, <2>7, <2>8 DEF Tearing, Torn
<1> QED BY <1>8, <1>9, <1>10 DEF Inv

LEMMA MaterialiseKeeps == ASSUME Inv, NEW p \in Proc, Materialise(p) PROVE Inv'
<1> DEFINE t == proc[p].t
           r == [NoFile EXCEPT !.st = "CHECKED_OUT", !.base = proc[p].pkg, !.req = proc[p].req]
<1>1. proc[p].pc = "materialise" /\ t \in Txn /\ proc[p].pkg \in Package
  BY DEF Materialise, At, Inv, Commands, Running
<1>2. txn' = [txn EXCEPT ![t] = r] /\ Goto(p, Idle) /\ UNCHANGED <<sess, lease, corpus>>
  BY DEF Materialise, OnlyTxn, Quit
<1>3. txn[t].st = "" /\ \A q \in Proc : Newborn(proc[q]) /\ proc[q].t = t => q = p
  BY <1>1 DEF Inv, Births, Newborn
<1>4. Saved(r) /\ r.st = "CHECKED_OUT" BY <1>1 DEF Saved, NoFile
<1>5. proc' = [q \in Proc |-> IF q = p THEN Idle ELSE proc[q]] BY <1>2 DEF Goto, Inv, Commands
<1>6. txn' = [v \in Txn |-> IF v = t THEN r ELSE txn[v]] BY <1>2 DEF Inv, Transactions
<1>7. Sessions'
  <2>1. ASSUME NEW g \in Session PROVE Sound(sess[g])'
    <3>1. Sound(sess[g]) BY DEF Inv, Sessions
    <3> QED BY <1>2, <3>1 DEF Sound, corpus, Torn
  <2>2. ASSUME NEW g \in Session PROVE Kept(sess[g])'
    <3>1. Kept(sess[g]) BY DEF Inv, Sessions
    <3>2. CASE sess[g].patch = None BY <1>2, <3>2 DEF Kept
    <3>3. CASE sess[g].patch # None
      <4> DEFINE q == sess[g].patch
      <4>1. \A u \in q.ok : u \in Txn /\ txn[u].st = "POSTCHECK_VERIFIED" /\ txn'[u] = txn[u]
        BY <1>3, <1>6, <3>1, <3>3 DEF Kept
      <4>2. {txn'[u].post : u \in q.ok} = {txn[u].post : u \in q.ok} BY <4>1
      <4> QED BY <1>2, <3>1, <3>3, <4>1, <4>2 DEF Kept
    <3> QED BY <3>2, <3>3
  <2> QED BY <1>2, <2>1, <2>2 DEF Inv, Sessions
<1>8. Commands' BY <1>2, <1>5, IdleRuns DEF Inv, Commands, Running, corpus
<1>9. Corpus' BY <1>2 DEF Inv, Corpus, corpus
<1>10. Transactions' BY <1>4, <1>6 DEF Inv, Transactions, Saved
<1>11. Births'
  <2>1. \A q \in Proc : Newborn(proc'[q]) => Newborn(proc[q]) /\ proc'[q] = proc[q] /\ q # p
    BY <1>5, IdleRuns DEF Newborn
  <2>2. \A q \in Proc : Newborn(proc[q]) => proc[q].t \in Txn BY DEF Newborn, Inv, Commands, Running
  <2>3. ASSUME NEW q \in Proc, Newborn(proc'[q])
        PROVE  txn'[proc'[q].t].st = "" /\ \A o \in Proc : Newborn(proc'[o]) /\ proc'[o].t = proc'[q].t => o = q
    <3>1. Newborn(proc[q]) /\ proc'[q] = proc[q] /\ proc[q].t # t BY <1>3, <2>1, <2>3
    <3>2. txn[proc[q].t].st = "" /\ \A o \in Proc : Newborn(proc[o]) /\ proc[o].t = proc[q].t => o = q
      BY <3>1 DEF Inv, Births
    <3>3. txn'[proc'[q].t].st = "" BY <1>6, <2>2, <3>1, <3>2
    <3>4. \A o \in Proc : Newborn(proc'[o]) /\ proc'[o].t = proc'[q].t => o = q BY <2>1, <3>1, <3>2
    <3> QED BY <3>3, <3>4
  <2> QED BY <2>3 DEF Births, Newborn
<1>12. Tearing'
  <2>1. txn[t].st # "APPLYING" /\ r.st # "RECOVERY_REQUIRED" /\ Idle.pc # "apply" /\ UNCHANGED corpus
    BY <1>2, <1>3, <1>4, IdleRuns
  <2> QED BY <1>1, <1>2, <2>1, Untorn
<1> QED BY <1>7, <1>8, <1>9, <1>10, <1>11, <1>12 DEF Inv

-----------------------------------------------------------------------------
(* The rest of the workshop and its environment. *)

\* Nobody moves; the packages may get newer while nothing is torn.
LEMMA Renews ==
    ASSUME Inv, UNCHANGED <<sess, txn, lease, proc>>, live # Torn, live' = newest',
           newest' \in Package, newest <= newest', seal' \in 0 .. newest', seal <= seal'
    PROVE  Inv'
<1>1. newest \in Nat /\ newest' \in Nat /\ seal \in 0 .. newest BY Bounds DEF Inv, Corpus
<1>2. /\ \A x \in 0 .. newest : x \in Nat /\ x \in 0 .. newest'
      /\ \A x \in 0 .. newest' : x \in Nat
  BY <1>1, Upto, AsLate, Zenon
<1>3. Sessions'
  <2>1. ASSUME NEW g \in Session PROVE Sound(sess[g])'
    <3>1. Sound(sess[g]) BY DEF Inv, Sessions
    <3> QED BY <1>2, <3>1 DEF Sound, Torn
  <2> QED BY <2>1 DEF Inv, Sessions, Kept
<1>4. Commands'
  <2>1. ASSUME NEW q \in Proc PROVE Running(proc[q])'
    <3>1. Running(proc[q]) BY DEF Inv, Commands
    <3>2. proc[q].pc = "guard" => proc[q].pkg \in Nat /\ proc[q].pkg <= seal BY <3>1, Bounds DEF Running
    <3>3. proc[q].pc = "guard" => proc[q].pkg <= seal' BY <1>1, <1>2, <3>2, NoLater, Zenon
    <3> QED BY <3>1, <3>3 DEF Running, Torn
  <2> QED BY <2>1 DEF Inv, Commands
<1>5. newest' # Torn /\ live' # Torn BY Bounds DEF Package
<1>6. Corpus' BY <1>5 DEF Inv, Corpus, Torn
<1>7. Transactions' /\ Births' BY DEF Inv, Transactions, Saved, Births, Newborn
<1>8. Tearing'
  <2>1. (\A q \in Proc : proc[q].pc # "apply") /\ (\A v \in Txn : txn[v].st # "RECOVERY_REQUIRED") BY DEF Inv, Tearing
  <2> QED BY <2>1, Settled
<1> QED BY <1>3, <1>4, <1>6, <1>7, <1>8 DEF Inv

LEMMA ResealKeeps == ASSUME Inv, NEW p \in Proc, Reseal(p) PROVE Inv'
<1>1. live = newest /\ newest \in Package /\ newest \in Nat /\ seal \in 0 .. newest BY Bounds DEF Reseal, Inv, Corpus
<1>2. UNCHANGED <<sess, txn, lease, proc, live, newest>> /\ live # Torn /\ seal' = live BY DEF Reseal, files
<1>3. newest \in 0 .. newest /\ seal <= newest /\ newest <= newest BY <1>1
<1> QED BY <1>1, <1>2, <1>3, Renews

LEMMA ForeignEditKeeps == ASSUME Inv, ForeignEdit PROVE Inv'
<1>1. UNCHANGED <<sess, txn, lease, proc, seal>> /\ live # Torn /\ newest < MaxPackage /\ newest' = newest + 1 /\ live' = newest'
  BY DEF ForeignEdit, files
<1>2. newest \in Nat /\ seal \in 0 .. newest BY Bounds DEF Inv, Corpus
<1>3. newest' \in Package /\ newest <= newest' /\ seal \in 0 .. newest' /\ seal <= seal BY <1>1, <1>2, Bounds DEF Package
<1> QED BY <1>1, <1>3, Renews

LEMMA IdentityChangesKeeps == ASSUME Inv, IdentityChanges \/ UNCHANGED gvars PROVE Inv'
<1>1. UNCHANGED <<sess, txn, lease, live, seal, newest, proc>> BY DEF IdentityChanges, gvars, files, corpus
<1>2. Sessions' BY <1>1, Rests
<1>3. Commands' /\ Corpus' BY <1>1 DEF Inv, Commands, Running, Corpus, Torn
<1>4. Transactions' /\ Births' BY <1>1 DEF Inv, Transactions, Saved, Births, Newborn
<1>5. Tearing' BY <1>1 DEF Inv, Tearing, Torn
<1> QED BY <1>2, <1>3, <1>4, <1>5 DEF Inv

-----------------------------------------------------------------------------
LEMMA InitInv == ASSUME Init PROVE Inv
<1>1. Absent.gate = None /\ Absent.patch = None /\ Absent.exact = None
      /\ {"next", "gate", "exact", "base", "roll", "patch"} \subseteq DOMAIN Absent
  BY DEF Absent
<1>2. Sessions
  <2>1. \A g \in Session : sess[g] = Absent BY DEF Init
  <2> QED BY <1>1, <2>1 DEF Init, Sessions, Sound, Kept
<1>3. Commands BY IdleRuns DEF Init, Commands
<1>4. Corpus BY Bounds DEF Init, Corpus, Package, Named
<1>5. Transactions
  <2>1. NoFile.base = 0 /\ {"st", "base", "post"} \subseteq DOMAIN NoFile BY DEF NoFile
  <2>2. 0 \in Package BY Bounds DEF Package
  <2>3. Saved(NoFile) BY <2>1, <2>2 DEF Saved
  <2> QED BY <2>3 DEF Init, Transactions
<1>6. \A p \in Proc : proc[p].pc = "idle" BY IdleRuns DEF Init
<1>7. \A t \in Txn : txn[t].st = "" BY DEF Init, NoFile
<1>8. Births BY <1>6 DEF Births, Newborn
<1>9. Tearing BY <1>6, <1>7 DEF Tearing
<1> QED BY <1>2, <1>3, <1>4, <1>5, <1>8, <1>9 DEF Inv

LEMMA NextKeeps == ASSUME Inv, [Next]_gvars PROVE Inv'
<1>1. CASE UNCHANGED gvars BY <1>1, IdentityChangesKeeps
<1>2. ASSUME NEW p \in Proc, Investigate(p) PROVE Inv'
  <2>1. CASE ReadPackage(p) \/ Refused(p) BY <2>1, ReadPackageKeeps, RefusedKeeps
  <2>2. ASSUME NEW g \in Session, Start(p, g) \/ Enter(p, g) \/ PatchClose(p, g) \/ FreshRun(p, g) \/ Reconcile(p, g)
        PROVE  Inv'
    BY <2>2, StartKeeps, EnterKeeps, PatchCloseKeeps, FreshRunKeeps, ReconcileKeeps
  <2>3. ASSUME NEW g \in Session, NEW S \in SUBSET Path, Advance(p, g, S) \/ Reserve(p, g, S) PROVE Inv'
    BY <2>3, AdvanceKeeps, ReserveKeeps
  <2>4. ASSUME NEW g \in Session, NEW target \in {"HYPOTHESIS", "MAP"}, Reframe(p, g, target) PROVE Inv'
    BY <2>4, ReframeKeeps
  <2> QED BY <1>2, <2>1, <2>2, <2>3, <2>4 DEF Investigate
<1>3. ASSUME NEW p \in Proc, Work(p) PROVE Inv'
  <2>1. CASE Manifest(p) \/ Bind(p) \/ Materialise(p) \/ CheckoutFails(p) \/ Cancel(p)
    BY <2>1, ManifestKeeps, BindKeeps, MaterialiseKeeps, CheckoutFailsKeeps, CancelKeeps
  <2>2. CASE ApplyEnds(p) \/ ApplyFails(p) BY <2>2, ApplyEndsKeeps, ApplyFailsKeeps
  <2>3. CASE AssertRelease(p) \/ Unlease(p) \/ GuardRelease(p) \/ Invalidate(p)
    BY <2>3, AssertReleaseKeeps, UnleaseKeeps, GuardReleaseKeeps, InvalidateKeeps
  <2>4. CASE Unbind(p) \/ Unreserve(p) \/ CancelReservation(p) \/ Reseal(p) \/ Kill(p)
    BY <2>4, UnbindKeeps, UnreserveKeeps, CancelReservationKeeps, ResealKeeps, KillKeeps
  <2>5. ASSUME NEW t \in Txn, Acquire(p, t) \/ Recover(p, t) \/ Abort(p, t) \/ Resume(p, t) PROVE Inv'
    BY <2>5, AcquireKeeps, RecoverKeeps, AbortKeeps, ResumeKeeps
  <2> QED BY <1>3, <2>1, <2>2, <2>3, <2>4, <2>5 DEF Work
<1>4. CASE Environment BY <1>4, ForeignEditKeeps, IdentityChangesKeeps, InspectKeeps DEF Environment
<1>5. ASSUME NEW p \in Proc, NEW t \in Txn, Apply(p, t) \/ \E S \in SUBSET Path : Prepare(p, t, S) PROVE Inv'
  BY <1>5, ApplyKeeps, PrepareKeeps
<1> QED BY <1>1, <1>2, <1>3, <1>4, <1>5 DEF Next, GuardNext

LEMMA InvFits == ASSUME Inv PROVE EvidenceFits
<1> SUFFICES ASSUME NEW g \in Session, sess[g].patch # None
             PROVE  LET q == sess[g].patch IN
                    /\ sess[g].exact.pkg = sess[g].base /\ q.proven \subseteq sess[g].exact.paths
                    /\ q.status # "INVALIDATED_BY_DRIFT" =>
                          sess[g].roll \in {sess[g].base} \cup {txn[t].post : t \in q.ok}
  BY DEF EvidenceFits
<1>1. Sound(sess[g]) /\ Kept(sess[g]) BY DEF Inv, Sessions
<1> QED BY <1>1 DEF Sound, Kept

(* Whatever scope a session has open rests on lines inspected in the very  *)
(* package it was proven for, and until drift invalidates it the session   *)
(* rolls on that package or on the result of a verified transaction of its *)
(* own (guardian.py advance, guardian_transaction.py release): another     *)
(* session's apply, a torn corpus or a dead command never slips in.        *)
THEOREM EvidenceIsCurrent == Spec => []EvidenceFits
<1>1. Init => Inv BY InitInv
<1>2. Inv /\ [Next]_gvars => Inv' BY NextKeeps
<1>3. Inv => EvidenceFits BY InvFits
<1> QED BY <1>1, <1>2, <1>3, PTL DEF Spec

-----------------------------------------------------------------------------
(* The books of a session, and what it guards. *)

Live(t) == txn[t].st \notin Terminal \cup {""}

\* A session holds a transaction that may change R.
Holds(t, R) == \E g \in Session : Owners(t) = {g} /\ sess[g].patch.active = t /\ R \subseteq sess[g].patch.avail

-----------------------------------------------------------------------------
(* The invariant, beside Inv. *)

Balanced(s) ==
    s.patch # None =>
        LET q == s.patch IN
        /\ q \in PatchSession
        /\ q.avail = q.proven \ q.used /\ q.used = Changed(q.ok)
        /\ \A t \in q.owned : txn[t].st = "POSTCHECK_VERIFIED" => t \in q.ok \/ t = q.active
        /\ q.resv = None \/ q.active = None

Books == \A g \in Session : Balanced(sess[g])

\* What has been saved and has not ended is held, and within its request.
Requests ==
    \A t \in Txn : /\ {"st", "req", "changed"} \subseteq DOMAIN txn[t]
                   /\ txn[t].changed \subseteq Path
                   /\ Live(t) => Holds(t, txn[t].req) /\ txn[t].changed \subseteq txn[t].req

\* A place at which a command counts on nothing.
Resting(r) == r.pc \in {"idle", "guard", "apply", "invalidate", "unreserve", "unreserved"}

Fits(p, r) ==
    /\ {"pc", "t", "g", "req"} \subseteq DOMAIN r
    /\ r.pc = "bind" => Owners(r.t) = {}
    /\ r.pc = "materialise" => Holds(r.t, r.req)
    /\ r.pc \in {"terminal", "unlease", "release"} => txn[r.t].st \in Terminal
    /\ r.pc \in {"unbind", "cancel"} => txn[r.t].st = ""
    /\ r.pc \in {"manifest", "acquire", "bind"} =>
          /\ r.g \in Session
          /\ sess[r.g].patch # None /\ sess[r.g].patch.resv = p => r.req \subseteq sess[r.g].patch.avail

Places == \A p \in Proc : Fits(p, proc[p])

\* Nobody cancels what is about to be saved.
Apart ==
    \A p, q \in Proc : proc[p].pc \in {"unbind", "cancel"} /\ Newborn(proc[q]) => proc[q].t # proc[p].t

Tidy == Books /\ Requests /\ Places /\ Apart

LEMMA Unequal == None \notin Txn /\ None \notin Proc
BY GuardianConstants

LEMMA HeldBy ==
    ASSUME NEW t, NEW R, NEW h \in Session, Holds(t, R), h \in Owners(t)
    PROVE  Owners(t) = {h} /\ sess[h].patch # None /\ sess[h].patch.active = t /\ R \subseteq sess[h].patch.avail
BY DEF Holds, Owners

-----------------------------------------------------------------------------
(* A command moves on, and no session or transaction is written. *)

LEMMA StateStays ==
    ASSUME Tidy, UNCHANGED <<sess, txn>>
    PROVE  Books' /\ Requests'
<1>1. Books' BY DEF Tidy, Books, Balanced, Changed
<1>2. \A t \in Txn : \A R : Holds(t, R) => Holds(t, R)' BY DEF Holds, Owners
<1>3. Requests' BY <1>2 DEF Tidy, Requests, Live
<1> QED BY <1>1, <1>3

LEMMA FitsStays ==
    ASSUME NEW p, NEW r, UNCHANGED <<sess, txn>>, Fits(p, r)
    PROVE  Fits(p, r)'
BY DEF Fits, Holds, Owners

LEMMA Advances ==
    ASSUME Inv, Tidy, NEW p \in Proc, NEW r, Goto(p, r), UNCHANGED <<sess, txn>>, Fits(p, r),
           r.pc \in {"unbind", "cancel"} => \A q \in Proc : q # p /\ Newborn(proc[q]) => proc[q].t # r.t,
           Newborn(r) => \A q \in Proc : q # p /\ proc[q].pc \in {"unbind", "cancel"} => proc[q].t # r.t
    PROVE  Tidy'
<1>1. proc' = [q \in Proc |-> IF q = p THEN r ELSE proc[q]] BY DEF Goto, Inv, Commands
<1>2. Books' /\ Requests' BY StateStays
<1>3. Places'
  <2>1. ASSUME NEW q \in Proc PROVE Fits(q, proc[q])'
    <3>1. CASE q = p
      <4>1. proc'[q] = r /\ Fits(q, r)' BY <1>1, <3>1, FitsStays
      <4> QED BY <4>1 DEF Fits, Holds, Owners
    <3>2. CASE q # p
      <4>1. Fits(q, proc[q]) /\ proc'[q] = proc[q] BY <1>1, <3>2 DEF Tidy, Places
      <4> QED BY <4>1 DEF Fits, Holds, Owners
    <3> QED BY <3>1, <3>2
  <2> QED BY <2>1 DEF Places
<1>4. Apart' BY <1>1 DEF Tidy, Apart, Newborn
<1> QED BY <1>2, <1>3, <1>4 DEF Tidy

LEMMA FitsAt == ASSUME NEW q, NEW r, proc'[q] = r, Fits(q, r)' PROVE Fits(q, proc[q])'
BY DEF Fits, Holds, Owners

LEMMA RestFits == ASSUME NEW p, NEW r, Resting(r), {"pc", "t", "g", "req"} \subseteq DOMAIN r PROVE Fits(p, r)
BY DEF Resting, Fits

LEMMA IdleRests == Resting(Idle) /\ {"pc", "t", "g", "req"} \subseteq DOMAIN Idle /\ Idle.pc = "idle"
BY DEF Resting, Idle

LEMMA AdvancesToRest ==
    ASSUME Inv, Tidy, NEW p \in Proc, NEW r, Goto(p, r), UNCHANGED <<sess, txn>>, Resting(r),
           {"pc", "t", "g", "req"} \subseteq DOMAIN r
    PROVE  Tidy'
<1>1. Fits(p, r) BY RestFits
<1>2. r.pc \notin {"unbind", "cancel", "bind", "materialise"} BY DEF Resting
<1> QED BY <1>1, <1>2, Advances DEF Newborn

LEMMA Quits == ASSUME Inv, Tidy, NEW p \in Proc, Quit(p), UNCHANGED <<sess, txn>> PROVE Tidy'
BY AdvancesToRest, IdleRests DEF Quit

LEMMA ReadPackageTidy == ASSUME Inv, Tidy, NEW p \in Proc, ReadPackage(p) PROVE Tidy'
<1> DEFINE r == [Idle EXCEPT !.pc = "guard", !.pkg = live, !.known = Receipts]
<1>1. Resting(r) /\ {"pc", "t", "g", "req"} \subseteq DOMAIN r BY DEF Resting, Idle
<1> QED BY <1>1, AdvancesToRest DEF ReadPackage, files

LEMMA ManifestTidy == ASSUME Inv, Tidy, NEW p \in Proc, Manifest(p) PROVE Tidy'
<1> DEFINE r == [proc[p] EXCEPT !.pc = "acquire", !.pkg = live]
<1>1. proc[p].pc = "manifest" /\ Fits(p, proc[p]) BY DEF Manifest, At, Tidy, Places
<1>2. r.pc = "acquire" /\ r.g = proc[p].g /\ r.req = proc[p].req /\ {"pc", "t", "g", "req"} \subseteq DOMAIN r BY <1>1 DEF Fits
<1>3. Fits(p, r) BY <1>1, <1>2 DEF Fits
<1> QED BY <1>2, <1>3, Advances DEF Manifest, files, Newborn

LEMMA AcquireTidy == ASSUME Inv, Tidy, NEW p \in Proc, NEW t \in Txn, Acquire(p, t) PROVE Tidy'
<1> DEFINE r == [proc[p] EXCEPT !.pc = "bind", !.t = t]
<1>1. proc[p].pc = "acquire" /\ Fits(p, proc[p]) BY DEF Acquire, At, Tidy, Places
<1>2. r.pc = "bind" /\ r.t = t /\ r.g = proc[p].g /\ r.req = proc[p].req /\ {"pc", "t", "g", "req"} \subseteq DOMAIN r
  BY <1>1 DEF Fits
<1>3. Owners(t) = {} /\ \A q \in Proc : proc[q].t # t BY DEF Acquire, Fresh
<1>4. Fits(p, r) BY <1>1, <1>2, <1>3 DEF Fits
<1> QED BY <1>2, <1>3, <1>4, Advances DEF Acquire, Newborn

LEMMA ResumeTidy == ASSUME Inv, Tidy, NEW p \in Proc, NEW t \in Txn, Resume(p, t) PROVE Tidy'
<1> DEFINE r == [Idle EXCEPT !.pc = "terminal", !.t = t]
<1>1. r.pc = "terminal" /\ r.t = t /\ {"pc", "t", "g", "req"} \subseteq DOMAIN r BY DEF Idle
<1>2. txn[t].st \in Terminal BY DEF Resume, Terminal
<1>3. Fits(p, r) BY <1>1, <1>2 DEF Fits
<1> QED BY <1>1, <1>3, Advances DEF Resume, files, Newborn

LEMMA AssertReleaseTidy == ASSUME Inv, Tidy, NEW p \in Proc, AssertRelease(p) PROVE Tidy'
<1> DEFINE r == [proc[p] EXCEPT !.pc = "unlease", !.pkg = live]
<1>1. proc[p].pc = "terminal" /\ Fits(p, proc[p]) BY DEF AssertRelease, At, Tidy, Places
<1>2. r.pc = "unlease" /\ r.t = proc[p].t /\ {"pc", "t", "g", "req"} \subseteq DOMAIN r BY <1>1 DEF Fits
<1>3. Fits(p, r) BY <1>1, <1>2 DEF Fits
<1>4. UNCHANGED <<sess, txn>> BY DEF AssertRelease, files
<1>5. CASE Quit(p) BY <1>4, <1>5, Quits
<1>6. CASE Goto(p, r) BY <1>2, <1>3, <1>4, <1>6, Advances DEF Newborn
<1> QED BY <1>5, <1>6 DEF AssertRelease

\* The same command, one place further.
LEMMA StepTidy ==
    ASSUME Inv, Tidy, NEW p \in Proc, NEW x, Step(p, x), UNCHANGED <<sess, txn>>,
           \/ x = "release" /\ proc[p].pc = "unlease"
           \/ x = "cancel" /\ proc[p].pc \in {"unbind", "materialise"}
           \/ x = "unreserved"
    PROVE  Tidy'
<1> DEFINE r == [proc[p] EXCEPT !.pc = x]
<1>1. Fits(p, proc[p]) BY DEF Tidy, Places
<1>2. r.pc = x /\ r.t = proc[p].t /\ {"pc", "t", "g", "req"} \subseteq DOMAIN r /\ Goto(p, r) BY <1>1 DEF Fits, Step
<1>3. proc[p].pc = "materialise" =>
         txn[proc[p].t].st = "" /\ \A q \in Proc : q # p /\ Newborn(proc[q]) => proc[q].t # proc[p].t
  BY DEF Inv, Births, Newborn
<1>4. Fits(p, r) BY <1>1, <1>2, <1>3 DEF Fits
<1>5. proc[p].pc = "unbind" => \A q \in Proc : Newborn(proc[q]) => proc[q].t # proc[p].t BY DEF Tidy, Apart
<1> QED BY <1>2, <1>3, <1>4, <1>5, Advances DEF Newborn

LEMMA UnleaseTidy == ASSUME Inv, Tidy, NEW p \in Proc, Unlease(p) PROVE Tidy'
BY StepTidy, Quits DEF Unlease, At

LEMMA UnbindTidy == ASSUME Inv, Tidy, NEW p \in Proc, Unbind(p) PROVE Tidy'
BY StepTidy, Quits DEF Unbind, At

LEMMA UnreserveTidy == ASSUME Inv, Tidy, NEW p \in Proc, Unreserve(p) PROVE Tidy'
BY StepTidy, Quits DEF Unreserve, At

LEMMA CheckoutFailsTidy == ASSUME Inv, Tidy, NEW p \in Proc, CheckoutFails(p) PROVE Tidy'
BY StepTidy, Quits DEF CheckoutFails, At

LEMMA ReconcileTidy ==
    ASSUME Inv, Tidy, NEW p \in Proc, NEW g \in Session, Reconcile(p, g), ReconcileAfterCrash PROVE Tidy'
<1>1. UNCHANGED <<sess, txn>> /\ proc[p].pc = "idle" BY DEF Reconcile, files, At
<1>2. CASE sess[g].patch.active # None
  <2> DEFINE a == sess[g].patch.active
             x == IF lease = a THEN (IF txn[a].st = "" THEN "unbind" ELSE "unlease")
                               ELSE (IF txn[a].st = "" THEN "cancel" ELSE "release")
             r == [Idle EXCEPT !.t = a, !.pkg = live, !.pc = x]
  <2>1. Goto(p, r) /\ txn[a].st \in Terminal \cup {""} BY <1>2 DEF Reconcile
  <2>2. r.pc = x /\ r.t = a /\ {"pc", "t", "g", "req"} \subseteq DOMAIN r BY DEF Idle
  <2>3. Fits(p, r) BY <2>1, <2>2 DEF Fits
  <2>4. proc'[p].pc = x BY <2>1, <2>2 DEF Goto, Inv, Commands
  <2>5. \A q \in Proc : ~Newborn(proc[q]) BY <1>1, <2>4 DEF ReconcileAfterCrash, Reconciling, At, Newborn
  <2>6. ~Newborn(r) BY <2>2 DEF Newborn
  <2> QED BY <1>1, <2>1, <2>3, <2>5, <2>6, Advances
<1>3. CASE sess[g].patch.active = None
  <2> DEFINE r == [Idle EXCEPT !.g = g, !.t = lease, !.pc = "unreserve"]
  <2>1. Goto(p, r) BY <1>3 DEF Reconcile
  <2>2. Resting(r) /\ {"pc", "t", "g", "req"} \subseteq DOMAIN r BY DEF Idle, Resting
  <2> QED BY <1>1, <2>1, <2>2, AdvancesToRest
<1> QED BY <1>2, <1>3

LEMMA EnvironmentTidy ==
    ASSUME Inv, Tidy, UNCHANGED <<sess, txn, proc>> PROVE Tidy'
<1>1. Books' /\ Requests' BY StateStays
<1>2. Places' BY DEF Tidy, Places, Fits, Holds, Owners
<1>3. Apart' BY DEF Tidy, Apart, Newborn
<1> QED BY <1>1, <1>2, <1>3 DEF Tidy

LEMMA OthersTidy ==
    ASSUME Inv, Tidy, NEW p \in Proc, Refused(p) \/ Kill(p) \/ Reseal(p) \/ ForeignEdit \/ IdentityChanges \/ UNCHANGED gvars
    PROVE  Tidy'
BY Quits, EnvironmentTidy DEF Refused, Kill, Reseal, ForeignEdit, IdentityChanges, gvars, files

-----------------------------------------------------------------------------
(* A session is written. *)

\* Every command stays where it is or comes to rest.
Halting ==
    \A q \in Proc :
        \/ proc'[q] = proc[q]
        \/ Resting(proc'[q]) /\ {"pc", "t", "g", "req"} \subseteq DOMAIN proc'[q]

LEMMA QuitHalts == ASSUME Inv, NEW p \in Proc, Quit(p) PROVE Halting
<1>1. proc' = [q \in Proc |-> IF q = p THEN Idle ELSE proc[q]] BY DEF Quit, Goto, Inv, Commands
<1>2. \A q \in Proc : proc'[q] = proc[q] \/ proc'[q] = Idle BY <1>1
<1> SUFFICES ASSUME NEW q \in Proc PROVE proc'[q] = proc[q] \/ (Resting(proc'[q]) /\ {"pc", "t", "g", "req"} \subseteq DOMAIN proc'[q])
  BY DEF Halting, Resting
<1>3. CASE proc'[q] = Idle BY <1>3, IdleRests DEF Resting
<1> QED BY <1>2, <1>3

LEMMA HaltingApart == ASSUME Tidy, Halting PROVE Apart'
<1>1. \A q \in Proc : proc'[q] = proc[q] \/ (proc'[q].pc \notin {"unbind", "cancel"} /\ ~Newborn(proc'[q]))
  BY DEF Halting, Resting, Newborn
<1> QED BY <1>1 DEF Tidy, Apart, Newborn

\* What a command counts on is left to it.
LEMMA PlaceKept ==
    ASSUME Inv, Tidy, UNCHANGED txn, NEW q \in Proc, proc'[q] = proc[q],
           \A t \in Txn : proc[q].t = t /\ Owners(t) = {} => Owners(t)' = {},
           \A t \in Txn : \A R : proc[q].pc = "materialise" /\ proc[q].t = t /\ Holds(t, R) => Holds(t, R)',
           \A h \in Session : sess'[h].patch # None /\ sess'[h].patch.resv = q =>
               sess[h].patch # None /\ sess[h].patch.resv = q /\ sess'[h].patch.avail = sess[h].patch.avail
    PROVE  Fits(q, proc[q])'
<1>1. Fits(q, proc[q]) /\ Running(proc[q]) BY DEF Tidy, Places, Inv, Commands
<1>2. PICK r : r = proc[q] OBVIOUS
<1>3. r.pc \in {"bind", "materialise"} => r.t \in Txn BY <1>1, <1>2 DEF Running
<1>4. r.pc = "bind" => Owners(r.t)' = {}
  <2>1. r.pc = "bind" => Owners(r.t) = {} BY <1>1, <1>2 DEF Fits
  <2>2. proc[q].t = r.t BY <1>2
  <2> QED BY <1>3, <2>1, <2>2, Zenon
<1>5. r.pc = "materialise" => Holds(r.t, r.req) BY <1>1, <1>2 DEF Fits
<1>6. ASSUME NEW t \in Txn, NEW R, r.pc = "materialise", r.t = t, Holds(t, R) PROVE Holds(t, R)' BY <1>2, <1>6
<1>7. r.pc \in {"manifest", "acquire", "bind"} =>
        /\ r.g \in Session
        /\ sess'[r.g].patch # None /\ sess'[r.g].patch.resv = q => r.req \subseteq sess'[r.g].patch.avail
  BY <1>1, <1>2 DEF Fits
<1>8. r.pc = "materialise" => Holds(r.t, r.req)' BY <1>3, <1>5, <1>6, Zenon
<1>9. Fits(q, r) BY <1>1, <1>2
<1>10. Fits(q, r)' BY <1>4, <1>7, <1>8, <1>9 DEF Fits
<1>11. proc'[q] = r BY <1>2
<1> QED BY <1>10, <1>11, FitsAt

LEMMA HaltingPlaces ==
    ASSUME Inv, Tidy, Halting, UNCHANGED txn,
           \A t \in Txn : Owners(t) = {} => Owners(t)' = {},
           \A t \in Txn : \A R : (\E q \in Proc : proc[q].pc = "materialise" /\ proc[q].t = t) /\ Holds(t, R) => Holds(t, R)',
           \A h \in Session, q \in Proc : sess'[h].patch # None /\ sess'[h].patch.resv = q =>
               sess[h].patch # None /\ sess[h].patch.resv = q /\ sess'[h].patch.avail = sess[h].patch.avail
    PROVE  Places'
<1>1. ASSUME NEW q \in Proc PROVE Fits(q, proc[q])'
  <2>1. CASE proc'[q] = proc[q] BY <2>1, PlaceKept
  <2>2. CASE Resting(proc'[q]) /\ {"pc", "t", "g", "req"} \subseteq DOMAIN proc'[q] BY <2>2 DEF Resting, Fits
  <2> QED BY <2>1, <2>2 DEF Halting
<1> QED BY <1>1 DEF Places

\* The same books.
Alike(s, u) ==
    /\ u.patch = None <=> s.patch = None
    /\ s.patch # None =>
          /\ u.patch \in PatchSession
          /\ u.patch.proven = s.patch.proven /\ u.patch.avail = s.patch.avail /\ u.patch.used = s.patch.used
          /\ u.patch.active = s.patch.active /\ u.patch.owned = s.patch.owned /\ u.patch.ok = s.patch.ok
          /\ u.patch.resv \in {s.patch.resv, None}

LEMMA BooksKept ==
    ASSUME Inv, Tidy, NEW g \in Session, NEW u, sess' = [sess EXCEPT ![g] = u], UNCHANGED txn,
           Alike(sess[g], u), Halting
    PROVE  Tidy'
<1>1. sess' = [h \in Session |-> IF h = g THEN u ELSE sess[h]] BY DEF Inv, Sessions
<1>2. \A h \in Session : Alike(sess[h], sess'[h])
  <2>1. \A h \in Session : Balanced(sess[h]) BY DEF Tidy, Books
  <2> QED BY <1>1, <2>1 DEF Alike, Balanced
<1>3. Books'
  <2>1. ASSUME NEW h \in Session PROVE Balanced(sess[h])'
    <3>1. Balanced(sess[h]) /\ Alike(sess[h], sess'[h]) BY <1>2 DEF Tidy, Books
    <3> QED BY <3>1 DEF Balanced, Alike, Changed
  <2> QED BY <2>1 DEF Books
<1>4. \A t \in Txn : Owners(t)' = Owners(t) BY <1>2 DEF Owners, Alike
<1>5. \A t \in Txn : \A R : Holds(t, R) => Holds(t, R)'
  <2> SUFFICES ASSUME NEW t \in Txn, NEW R, Holds(t, R) PROVE Holds(t, R)' OBVIOUS
  <2>1. PICK h \in Session : Owners(t) = {h} /\ sess[h].patch.active = t /\ R \subseteq sess[h].patch.avail BY DEF Holds
  <2>2. sess[h].patch # None BY <2>1 DEF Owners
  <2>3. sess'[h].patch.active = t /\ sess'[h].patch.avail = sess[h].patch.avail BY <1>2, <2>1, <2>2 DEF Alike
  <2> QED BY <1>4, <2>1, <2>3 DEF Holds
<1>6. Requests' BY <1>5 DEF Tidy, Requests, Live
<1>7. Places'
  <2>1. \A h \in Session, q \in Proc : sess'[h].patch # None /\ sess'[h].patch.resv = q =>
           sess[h].patch # None /\ sess[h].patch.resv = q /\ sess'[h].patch.avail = sess[h].patch.avail
    BY <1>2, Unequal DEF Alike
  <2> QED BY <1>4, <1>5, <2>1, HaltingPlaces
<1> QED BY <1>3, <1>6, <1>7, HaltingApart DEF Tidy

\* A session that holds nothing that lives is written, and reserves nothing.
LEMMA BooksFreed ==
    ASSUME Inv, Tidy, NEW g \in Session, NEW u, sess' = [sess EXCEPT ![g] = u], UNCHANGED txn, Halting,
           Balanced(u), u.patch = None \/ u.patch.resv = None,
           u.patch # None => (sess[g].patch # None /\ u.patch.owned = sess[g].patch.owned) \/ u.patch.owned = {},
           \A t \in Txn : sess[g].patch # None /\ sess[g].patch.active = t =>
               ~Live(t) /\ \A q \in Proc : proc[q].pc = "materialise" => proc[q].t # t
    PROVE  Tidy'
<1>1. sess' = [h \in Session |-> IF h = g THEN u ELSE sess[h]] BY DEF Inv, Sessions
<1>2. Books'
  <2>1. ASSUME NEW h \in Session PROVE Balanced(sess[h])'
    <3>1. Balanced(sess[h]) /\ Balanced(u) BY DEF Tidy, Books
    <3> QED BY <1>1, <3>1 DEF Balanced, Changed
  <2> QED BY <2>1 DEF Books
<1>3. \A t \in Txn : Owners(t)' \in {Owners(t), Owners(t) \ {g}} BY <1>1 DEF Owners
<1>4. ASSUME NEW t \in Txn, NEW R, Holds(t, R), Live(t) \/ \E q \in Proc : proc[q].pc = "materialise" /\ proc[q].t = t
      PROVE  Holds(t, R)'
  <2>1. PICK h \in Session : Owners(t) = {h} /\ sess[h].patch.active = t /\ R \subseteq sess[h].patch.avail
    BY <1>4 DEF Holds
  <2>2. sess[h].patch # None BY <2>1 DEF Owners
  <2>3. h # g BY <1>4, <2>1, <2>2
  <2>4. Owners(t)' = {h} BY <1>3, <2>1, <2>3
  <2>5. sess'[h] = sess[h] BY <1>1, <2>3
  <2> QED BY <2>1, <2>4, <2>5 DEF Holds
<1>5. Requests'
  <2>1. \A t \in Txn : Live(t)' = Live(t) BY DEF Live
  <2>2. ASSUME NEW t \in Txn, Live(t) PROVE Holds(t, txn[t].req)'
    <3>1. PICK R : R = txn[t].req OBVIOUS
    <3>2. Holds(t, R) BY <2>2, <3>1 DEF Tidy, Requests
    <3>3. Holds(t, R)' BY <1>4, <2>2, <3>2
    <3> QED BY <3>1, <3>3 DEF Holds, Owners
  <2> QED BY <2>1, <2>2 DEF Tidy, Requests
<1>6. Places'
  <2>1. \A h \in Session, q \in Proc : sess'[h].patch # None /\ sess'[h].patch.resv = q =>
           sess[h].patch # None /\ sess[h].patch.resv = q /\ sess'[h].patch.avail = sess[h].patch.avail
    BY <1>1, Unequal
  <2>2. \A t \in Txn : Owners(t) = {} => Owners(t)' = {} BY <1>3
  <2> QED BY <1>4, <2>1, <2>2, HaltingPlaces
<1> QED BY <1>2, <1>5, <1>6, HaltingApart DEF Tidy

LEMMA StartTidy == ASSUME Inv, Tidy, NEW p \in Proc, NEW g \in Session, Start(p, g) PROVE Tidy'
<1> DEFINE u == [Absent EXCEPT !.next = "HYPOTHESIS", !.base = proc[p].pkg, !.roll = proc[p].pkg,
                               !.memory = memory, !.task = task]
<1>1. sess' = [sess EXCEPT ![g] = u] /\ UNCHANGED txn /\ Quit(p) BY DEF Start, OnlySession
<1>2. Absent.patch = None /\ u.patch = None BY DEF Absent
<1>3. Alike(sess[g], u) BY <1>2 DEF Alike, Start
<1> QED BY <1>1, <1>3, QuitHalts, BooksKept

LEMMA EnterTidy == ASSUME Inv, Tidy, NEW p \in Proc, NEW g \in Session, Enter(p, g) PROVE Tidy'
<1> DEFINE u == [sess[g] EXCEPT !.gate = [step |-> sess[g].next, pkg |-> proc[p].pkg, seen |-> None]]
<1>1. sess' = [sess EXCEPT ![g] = u] /\ UNCHANGED txn /\ Quit(p) BY DEF Enter, OnlySession
<1>2. Sound(sess[g]) /\ Balanced(sess[g]) BY DEF Inv, Sessions, Tidy, Books
<1>3. Alike(sess[g], u) BY <1>2 DEF Alike, Sound, Balanced
<1> QED BY <1>1, <1>3, QuitHalts, BooksKept

LEMMA InspectTidy == ASSUME Inv, Tidy, NEW g \in Session, NEW S, Inspect(g, S) PROVE Tidy'
<1>1. PICK x : OnlySession(g, [sess[g] EXCEPT !.gate.seen = x]) BY DEF Inspect
<1> DEFINE u == [sess[g] EXCEPT !.gate.seen = x]
<1>2. sess' = [sess EXCEPT ![g] = u] /\ UNCHANGED <<txn, proc>> BY <1>1 DEF Inspect, OnlySession
<1>3. Sound(sess[g]) /\ Balanced(sess[g]) BY DEF Inv, Sessions, Tidy, Books
<1>4. Alike(sess[g], u) BY <1>3 DEF Alike, Sound, Balanced
<1>5. Halting BY <1>2 DEF Halting
<1> QED BY <1>2, <1>4, <1>5, BooksKept

LEMMA PatchCloseTidy == ASSUME Inv, Tidy, NEW p \in Proc, NEW g \in Session, PatchClose(p, g) PROVE Tidy'
<1> DEFINE u == [sess[g] EXCEPT !.patch.status = "WORKSHOP_COMPLETE", !.next = "FRESH_RUN", !.gate = None]
<1>1. sess' = [sess EXCEPT ![g] = u] /\ UNCHANGED txn /\ Quit(p) /\ sess[g].patch # None BY DEF PatchClose, OnlySession
<1>2. Sound(sess[g]) /\ Balanced(sess[g]) BY DEF Inv, Sessions, Tidy, Books
<1>3. u.patch = [sess[g].patch EXCEPT !.status = "WORKSHOP_COMPLETE"] BY <1>2 DEF Sound
<1>4. u.patch \in PatchSession /\ sess[g].patch \in PatchSession BY <1>1, <1>2, <1>3 DEF Balanced, PatchSession
<1>5. u.patch # None BY <1>4, NoneIsNoPatch
<1>6. Alike(sess[g], u) BY <1>1, <1>3, <1>4, <1>5 DEF Alike, PatchSession
<1> QED BY <1>1, <1>6, QuitHalts, BooksKept

LEMMA FreshRunTidy == ASSUME Inv, Tidy, NEW p \in Proc, NEW g \in Session, FreshRun(p, g) PROVE Tidy'
<1> DEFINE u == [sess[g] EXCEPT !.closed = TRUE, !.next = "", !.gate = None]
<1>1. sess' = [sess EXCEPT ![g] = u] /\ UNCHANGED txn /\ Quit(p) BY DEF FreshRun, OnlySession
<1>2. Sound(sess[g]) /\ Balanced(sess[g]) BY DEF Inv, Sessions, Tidy, Books
<1>3. u.patch = sess[g].patch BY <1>2 DEF Sound
<1>4. Alike(sess[g], u) BY <1>2, <1>3 DEF Alike, Balanced
<1> QED BY <1>1, <1>4, QuitHalts, BooksKept

LEMMA InvalidateTidy == ASSUME Inv, Tidy, NEW p \in Proc, Invalidate(p) PROVE Tidy'
<1> DEFINE g == proc[p].g
           q == sess[g].patch
           u == [sess[g] EXCEPT !.patch = IF @ = None THEN None ELSE [@ EXCEPT !.status = "INVALIDATED_BY_DRIFT"],
                                !.roll = proc[p].pkg, !.gate = None, !.next = "REFRAME_REQUIRED"]
<1>1. sess' = [sess EXCEPT ![g] = u] /\ UNCHANGED txn /\ Quit(p) BY DEF Invalidate, OnlySession
<1>2. CASE g \in Session
  <2>1. Sound(sess[g]) /\ Balanced(sess[g]) BY <1>2 DEF Inv, Sessions, Tidy, Books
  <2>2. u.patch = IF q = None THEN None ELSE [q EXCEPT !.status = "INVALIDATED_BY_DRIFT"] BY <2>1 DEF Sound
  <2>3. q # None => q \in PatchSession /\ [q EXCEPT !.status = "INVALIDATED_BY_DRIFT"] \in PatchSession
    BY <2>1 DEF Balanced, PatchSession
  <2>5. q # None => u.patch = [q EXCEPT !.status = "INVALIDATED_BY_DRIFT"] /\ u.patch # None BY <2>2, <2>3, NoneIsNoPatch
  <2>6. q = None => u.patch = None BY <2>2
  <2> HIDE DEF u
  <2>7. q # None => Alike(sess[g], u) BY <2>3, <2>5 DEF Alike, PatchSession
  <2>8. q = None => Alike(sess[g], u) BY <2>6 DEF Alike
  <2>4. Alike(sess[g], u) BY <2>7, <2>8
  <2> USE DEF u
  <2> QED BY <1>1, <1>2, <2>4, QuitHalts, BooksKept
<1>3. CASE g \notin Session
  <2>1. UNCHANGED <<sess, txn>> BY <1>1, <1>3 DEF Inv, Sessions
  <2> QED BY <1>1, <2>1, Quits
<1> QED BY <1>2, <1>3

LEMMA CancelReservationTidy == ASSUME Inv, Tidy, NEW p \in Proc, CancelReservation(p) PROVE Tidy'
<1> DEFINE g == proc[p].g
           q == sess[g].patch
           u == [sess[g] EXCEPT !.patch.resv = None, !.next = "PATCH"]
<1>1. CASE OnlySession(g, u) /\ q # None /\ g \in Session
  <2>1. Sound(sess[g]) /\ Balanced(sess[g]) BY <1>1 DEF Inv, Sessions, Tidy, Books
  <2>2. u.patch = [q EXCEPT !.resv = None] BY <2>1 DEF Sound
  <2>3. q \in PatchSession /\ [q EXCEPT !.resv = None] \in PatchSession BY <1>1, <2>1 DEF Balanced, PatchSession
  <2>6. u.patch # None BY <2>2, <2>3, NoneIsNoPatch
  <2>4. Alike(sess[g], u) BY ZenonT(30), <1>1, <2>2, <2>3, <2>6 DEF Alike, PatchSession
  <2>5. Quit(p) BY DEF CancelReservation
  <2> QED BY <1>1, <2>4, <2>5, QuitHalts, BooksKept DEF OnlySession
<1>2. CASE UNCHANGED <<sess, txn>> BY <1>2, Quits DEF CancelReservation
<1>3. CASE OnlySession(g, u) /\ g \notin Session
  <2>1. UNCHANGED <<sess, txn>> BY <1>3 DEF Inv, Sessions, OnlySession
  <2> QED BY <2>1, Quits DEF CancelReservation
<1> QED BY <1>1, <1>2, <1>3 DEF CancelReservation, files

LEMMA AdvanceTidy ==
    ASSUME Inv, Tidy, NEW p \in Proc, NEW g \in Session, NEW S \in SUBSET Path, Advance(p, g, S) PROVE Tidy'
<1> DEFINE s == sess[g]
           u == [s EXCEPT !.mapped = IF s.next = "MAP" THEN S ELSE @,
                          !.exact = IF s.next = "EXACT_SOURCE" THEN s.gate.seen ELSE @,
                          !.patch = IF s.next = "PROVE" THEN Opened(S) ELSE @,
                          !.roll = IF s.next = "PROVE" THEN proc[p].pkg ELSE @,
                          !.next = Follows(s.next), !.gate = None]
<1>1. sess' = [sess EXCEPT ![g] = u] /\ UNCHANGED txn /\ Quit(p) /\ s.next \in PrePatch BY DEF Advance, OnlySession
<1>2. Sound(s) BY DEF Inv, Sessions
<1>3. s.patch = None BY <1>1, <1>2 DEF Sound
<1>4. u.patch \in {None, Opened(S)} BY <1>2, <1>3 DEF Sound
<1>5. Opened(S) \in PatchSession BY DEF Opened, PatchSession
<1>6. Opened(S).resv = None /\ Opened(S).owned = {} /\ Opened(S).ok = {} /\ Opened(S).used = {}
      /\ Opened(S).avail = Opened(S).proven
  BY DEF Opened
<1>7. Changed({}) = {} BY DEF Changed
<1>8. Balanced(u) BY <1>4, <1>5, <1>6, <1>7 DEF Balanced
<1> QED BY <1>1, <1>3, <1>4, <1>6, <1>8, QuitHalts, BooksFreed

LEMMA ReframeTidy ==
    ASSUME Inv, Tidy, NEW p \in Proc, NEW g \in Session, NEW target, Reframe(p, g, target) PROVE Tidy'
<1> DEFINE s == sess[g]
           u == [s EXCEPT !.patch = None, !.gate = None, !.base = proc[p].pkg, !.next = target,
                          !.mapped = IF target = "HYPOTHESIS" THEN {} ELSE @, !.exact = None]
<1>1. sess' = [sess EXCEPT ![g] = u] /\ UNCHANGED txn /\ Quit(p) BY DEF Reframe, OnlySession
<1>2. Sound(s) BY DEF Inv, Sessions
<1>3. u.patch = None BY <1>2 DEF Sound
<1>4. \A t \in Txn : ~(s.patch # None /\ s.patch.active = t) BY Unequal DEF Reframe
<1>5. Balanced(u) BY <1>3 DEF Balanced
<1> QED BY <1>1, <1>3, <1>4, <1>5, QuitHalts, BooksFreed

\* What is charged stays a patch session whose books balance.
LEMMA ChargedBalances ==
    ASSUME Inv, Tidy, NEW b \in PatchSession, NEW t \in Txn,
           b.avail = b.proven \ b.used, b.used = Changed(b.ok)
    PROVE  LET q == Charged(b, t) IN
           /\ q \in PatchSession
           /\ q.resv = b.resv /\ q.owned = b.owned /\ q.active = b.active /\ q.proven = b.proven
           /\ q.ok = b.ok \cup {t} /\ q.avail = q.proven \ q.used /\ q.used = Changed(q.ok)
<1> DEFINE q == Charged(b, t)
<1>1. txn[t].changed \subseteq Path BY DEF Tidy, Requests
<1>2. /\ b.avail \ txn[t].changed \in SUBSET Path /\ b.used \cup txn[t].changed \in SUBSET Path
      /\ b.ok \cup {t} \in SUBSET Txn
  BY <1>1 DEF PatchSession
<1>3. q = [b EXCEPT !.avail = b.avail \ txn[t].changed, !.used = b.used \cup txn[t].changed, !.ok = b.ok \cup {t}]
  BY DEF Charged, PatchSession
<1>4. q \in PatchSession BY <1>2, <1>3 DEF PatchSession
<1>5. /\ q.resv = b.resv /\ q.owned = b.owned /\ q.active = b.active /\ q.proven = b.proven
      /\ q.ok = b.ok \cup {t} /\ q.avail = b.avail \ txn[t].changed /\ q.used = b.used \cup txn[t].changed
  BY <1>3 DEF PatchSession
<1>6. Changed(b.ok \cup {t}) = Changed(b.ok) \cup txn[t].changed BY DEF Changed
<1> QED BY <1>4, <1>5, <1>6

\* The transaction a session holds has ended, or never came to be.
LEMMA LetsGo ==
    ASSUME Inv, Tidy, NEW g \in Session, NEW t \in Txn, sess[g].patch # None, sess[g].patch.active = t,
           NEW q, NEW u, u.patch = [q EXCEPT !.active = None], sess' = [sess EXCEPT ![g] = u], UNCHANGED txn, Halting,
           \/ q = sess[g].patch /\ txn[t].st # "POSTCHECK_VERIFIED"
           \/ q = Charged(sess[g].patch, t),
           ~Live(t), \A r \in Proc : proc[r].pc = "materialise" => proc[r].t # t
    PROVE  Tidy'
<1>1. PICK b : b = sess[g].patch OBVIOUS
<1>2. b \in PatchSession /\ b.active = t /\ Balanced(sess[g]) BY <1>1 DEF Tidy, Books, Balanced
<1>3. /\ b.avail = b.proven \ b.used /\ b.used = Changed(b.ok) /\ b.resv = None
      /\ \A v \in b.owned : txn[v].st = "POSTCHECK_VERIFIED" => v \in b.ok \/ v = t
  BY <1>1, <1>2, Unequal DEF Balanced
<1>4. /\ q \in PatchSession /\ q.resv = None /\ q.owned = b.owned
      /\ q.avail = q.proven \ q.used /\ q.used = Changed(q.ok)
      /\ q.ok = b.ok \cup {t} \/ (q.ok = b.ok /\ txn[t].st # "POSTCHECK_VERIFIED")
  <2>1. CASE q = b BY <1>1, <1>2, <1>3, <2>1, ChargedBalances
  <2>2. CASE q = Charged(b, t) BY <1>2, <1>3, <2>2, ChargedBalances
  <2> QED BY <1>1, <2>1, <2>2
<1>5. /\ u.patch \in PatchSession /\ u.patch.resv = None /\ u.patch.owned = b.owned
      /\ u.patch.avail = q.avail /\ u.patch.used = q.used /\ u.patch.ok = q.ok /\ u.patch.proven = q.proven
  BY <1>4 DEF PatchSession
<1>6. \A v \in q.owned : txn[v].st = "POSTCHECK_VERIFIED" => v \in q.ok BY <1>3, <1>4
<1>7. Balanced(u) BY <1>4, <1>5, <1>6 DEF Balanced
<1>8. \A v \in Txn : sess[g].patch # None /\ sess[g].patch.active = v =>
          ~Live(v) /\ \A r \in Proc : proc[r].pc = "materialise" => proc[r].t # v
  OBVIOUS
<1>9. u.patch # None => (sess[g].patch # None /\ u.patch.owned = sess[g].patch.owned) \/ u.patch.owned = {}
  BY <1>1, <1>5
<1>10. u.patch = None \/ u.patch.resv = None BY <1>5
<1>11. UNCHANGED txn /\ Halting OBVIOUS
<1> QED BY <1>7, <1>8, <1>9, <1>10, <1>11, BooksFreed

LEMMA TheOwner ==
    ASSUME NEW t, Active(t)
    PROVE  /\ (CHOOSE o \in Owners(t) : TRUE) \in Owners(t)
           /\ (CHOOSE o \in Owners(t) : TRUE) \in Session
           /\ sess[CHOOSE o \in Owners(t) : TRUE].patch.active = t
<1>0. Owners(t) \subseteq Session BY DEF Owners
<1>1. PICK g \in Session : Owners(t) = {g} /\ sess[g].patch.active = t BY <1>0 DEF Active
<1>2. (CHOOSE o \in Owners(t) : TRUE) = g BY <1>1
<1> QED BY <1>1, <1>2

LEMMA CancelTidy == ASSUME Inv, Tidy, NEW p \in Proc, Cancel(p) PROVE Tidy'
<1>1. proc[p].pc = "cancel" /\ proc[p].t \in Txn /\ Quit(p) BY DEF Cancel, At, Inv, Commands, Running
<1>2. PICK t \in Txn : t = proc[p].t BY <1>1
<1>3. txn[t].st = "" /\ \A q \in Proc : Newborn(proc[q]) => proc[q].t # t
  BY <1>1, <1>2 DEF Tidy, Places, Fits, Apart
<1>4. CASE Active(t)
  <2>1. PICK g \in Session : OnlySession(g, [sess[g] EXCEPT !.patch.active = None, !.next = "PATCH"])
                             /\ g \in Owners(t) /\ sess[g].patch.active = t
    <3> DEFINE h == CHOOSE o \in Owners(t) : TRUE
    <3>1. h \in Owners(t) /\ h \in Session /\ sess[h].patch.active = t BY <1>4, TheOwner
    <3>2. OnlySession(h, [sess[h] EXCEPT !.patch.active = None, !.next = "PATCH"]) BY <1>2, <1>4 DEF Cancel
    <3> HIDE DEF h
    <3> QED BY <3>1, <3>2
  <2> DEFINE u == [sess[g] EXCEPT !.patch.active = None, !.next = "PATCH"]
  <2>2. sess[g].patch # None /\ Sound(sess[g]) BY <2>1 DEF Owners, Inv, Sessions
  <2>3. u.patch = [sess[g].patch EXCEPT !.active = None] BY <2>2 DEF Sound
  <2>4. ~Live(t) /\ \A r \in Proc : proc[r].pc = "materialise" => proc[r].t # t BY <1>3 DEF Live, Newborn
  <2>5. sess' = [sess EXCEPT ![g] = u] /\ UNCHANGED txn BY <2>1 DEF OnlySession
  <2> HIDE DEF u
  <2> QED BY <1>1, <1>3, <2>1, <2>2, <2>3, <2>4, <2>5, QuitHalts, LetsGo
<1>5. CASE ~Active(t) BY <1>1, <1>2, <1>5, Quits DEF Cancel, files
<1> QED BY <1>4, <1>5

LEMMA GuardReleaseTidy == ASSUME Inv, Tidy, NEW p \in Proc, GuardRelease(p) PROVE Tidy'
<1>1. proc[p].pc = "release" /\ proc[p].t \in Txn /\ Fits(p, proc[p])
  BY DEF GuardRelease, At, Inv, Commands, Running, Tidy, Places
<1>2. PICK t \in Txn : t = proc[p].t BY <1>1
<1>3. txn[t].st \in Terminal BY <1>1, <1>2 DEF Fits
<1>4. ~Live(t) /\ \A r \in Proc : proc[r].pc = "materialise" => proc[r].t # t
  BY <1>3 DEF Live, Inv, Births, Newborn, Terminal, Undone
<1>5. CASE UNCHANGED <<sess, txn>> /\ Quit(p) BY <1>5, Quits
<1>6. CASE ~(UNCHANGED <<sess, txn>> /\ Quit(p))
  <2> DEFINE good == txn[t].st = "POSTCHECK_VERIFIED"
             q(h) == IF good THEN Charged(sess[h].patch, t) ELSE sess[h].patch
             u(h) == [sess[h] EXCEPT !.patch = [q(h) EXCEPT !.active = None],
                                     !.roll = IF good THEN txn[t].post ELSE @,
                                     !.next = IF q(h).avail # {} THEN "PATCH" ELSE "HEARTBEAT"]
  <2>1. PICK g \in Session : /\ g \in Owners(t) /\ sess[g].patch.active = t
                             /\ sess' = [sess EXCEPT ![g] = u(g)] /\ UNCHANGED txn
                             /\ Goto(p, [proc[p] EXCEPT !.pc = "invalidate", !.g = g]) \/ Quit(p)
    <3> DEFINE h == CHOOSE o \in Owners(t) : TRUE
    <3>1. Active(t) BY <1>2, <1>6 DEF GuardRelease, files
    <3>2. h \in Owners(t) /\ h \in Session /\ sess[h].patch.active = t BY <3>1, TheOwner
    <3>3. /\ sess' = [sess EXCEPT ![h] = u(h)] /\ UNCHANGED txn
          /\ Goto(p, [proc[p] EXCEPT !.pc = "invalidate", !.g = h]) \/ Quit(p)
      BY SMTT(30), <1>2, <1>6 DEF GuardRelease, OnlySession, files
    <3> HIDE DEF h, u
    <3> QED BY <3>2, <3>3
  <2>2. sess[g].patch # None /\ Sound(sess[g]) BY <2>1 DEF Owners, Inv, Sessions
  <2>3. u(g).patch = [q(g) EXCEPT !.active = None] BY <2>2 DEF Sound
  <2>4. Halting
    <3>1. CASE Quit(p) BY <3>1, QuitHalts
    <3>2. CASE Goto(p, [proc[p] EXCEPT !.pc = "invalidate", !.g = g])
      <4> DEFINE r == [proc[p] EXCEPT !.pc = "invalidate", !.g = g]
      <4>1. Resting(r) /\ {"pc", "t", "g", "req"} \subseteq DOMAIN r BY <1>1 DEF Fits, Resting
      <4>2. proc' = [x \in Proc |-> IF x = p THEN r ELSE proc[x]] BY <3>2 DEF Goto, Inv, Commands
      <4> HIDE DEF r
      <4>3. \A x \in Proc : proc'[x] = proc[x] \/ proc'[x] = r BY <4>2
      <4> QED BY <4>1, <4>3 DEF Halting, Resting
    <3> QED BY <2>1, <3>1, <3>2
  <2>5. \/ q(g) = sess[g].patch /\ txn[t].st # "POSTCHECK_VERIFIED"
        \/ q(g) = Charged(sess[g].patch, t)
    OBVIOUS
  <2>6. sess' = [sess EXCEPT ![g] = u(g)] /\ UNCHANGED txn /\ sess[g].patch.active = t BY <2>1
  <2> HIDE DEF q, u
  <2> QED BY <1>4, <2>2, <2>3, <2>4, <2>5, <2>6, LetsGo
<1> QED BY <1>5, <1>6

LEMMA ReserveTidy ==
    ASSUME Inv, Tidy, NEW p \in Proc, NEW g \in Session, NEW S \in SUBSET Path, Reserve(p, g, S) PROVE Tidy'
<1>1. PICK b : b = sess[g].patch OBVIOUS
<1>0. PICK r : r = [proc[p] EXCEPT !.pc = "manifest", !.g = g, !.req = S] OBVIOUS
<1> DEFINE u == [sess[g] EXCEPT !.patch.resv = p, !.gate = None, !.next = "WORKSHOP"]
<1>2. /\ sess' = [sess EXCEPT ![g] = u] /\ UNCHANGED txn /\ Goto(p, r)
      /\ b # None /\ b.active = None /\ S \subseteq b.avail
  BY <1>0, <1>1 DEF Reserve, OnlySession
<1>3. Sound(sess[g]) /\ Balanced(sess[g]) /\ Fits(p, proc[p]) BY DEF Inv, Sessions, Tidy, Books, Places
<1>4. b \in PatchSession BY <1>1, <1>2, <1>3 DEF Balanced
<1>5. u.patch = [b EXCEPT !.resv = p] BY <1>1, <1>3 DEF Sound
<1>6. /\ u.patch \in PatchSession /\ u.patch.resv = p /\ u.patch.proven = b.proven /\ u.patch.avail = b.avail
      /\ u.patch.used = b.used /\ u.patch.active = None /\ u.patch.owned = b.owned /\ u.patch.ok = b.ok
  BY <1>2, <1>4, <1>5 DEF PatchSession
<1>7. r.pc = "manifest" /\ r.g = g /\ r.req = S /\ {"pc", "t", "g", "req"} \subseteq DOMAIN r BY <1>0, <1>3 DEF Fits
<1> HIDE DEF u
<1>8. sess' = [h \in Session |-> IF h = g THEN u ELSE sess[h]] BY <1>2 DEF Inv, Sessions
<1>9. proc' = [q \in Proc |-> IF q = p THEN r ELSE proc[q]] BY <1>2 DEF Goto, Inv, Commands
<1>10. u.patch # None BY <1>6, NoneIsNoPatch
<1>11. Books'
  <2>1. Balanced(u)
    BY <1>1, <1>2, <1>3, <1>6 DEF Balanced
  <2>2. ASSUME NEW h \in Session PROVE Balanced(sess[h])'
    <3>1. Balanced(sess[h]) BY DEF Tidy, Books
    <3> QED BY <1>2, <1>8, <2>1, <3>1 DEF Balanced, Changed
  <2> QED BY <2>2 DEF Books
<1>12. \A t \in Txn : Owners(t)' = Owners(t) BY <1>1, <1>2, <1>6, <1>8, <1>10 DEF Owners
<1>13. \A t \in Txn : \A R : Holds(t, R) => Holds(t, R)'
  <2> SUFFICES ASSUME NEW t \in Txn, NEW R, Holds(t, R) PROVE Holds(t, R)' OBVIOUS
  <2>1. PICK h \in Session : Owners(t) = {h} /\ sess[h].patch.active = t /\ R \subseteq sess[h].patch.avail BY DEF Holds
  <2>2. h # g BY <1>1, <1>2, <2>1, Unequal
  <2>3. sess'[h] = sess[h] BY <1>8, <2>2
  <2> QED BY <1>12, <2>1, <2>3 DEF Holds
<1>14. Requests' BY <1>2, <1>13 DEF Tidy, Requests, Live
<1>15. Places'
  <2>1. ASSUME NEW q \in Proc PROVE Fits(q, proc[q])'
    <3>1. CASE q = p
      <4>1. proc'[q] = r BY <1>9, <3>1
      <4>2. sess'[g].patch.avail = b.avail BY <1>6, <1>8
      <4>3. Fits(q, r)' BY <1>2, <1>7, <4>2 DEF Fits
      <4> QED BY <4>1, <4>3, FitsAt
    <3>2. CASE q # p
      <4>1. proc'[q] = proc[q] BY <1>9, <3>2
      <4>2. \A h \in Session : sess'[h].patch # None /\ sess'[h].patch.resv = q =>
               sess[h].patch # None /\ sess[h].patch.resv = q /\ sess'[h].patch.avail = sess[h].patch.avail
        BY <1>6, <1>8, <3>2
      <4> QED BY <1>2, <1>12, <1>13, <4>1, <4>2, PlaceKept
    <3> QED BY <3>1, <3>2
  <2> QED BY <2>1 DEF Places
<1>16. Apart' BY <1>7, <1>9 DEF Tidy, Apart, Newborn
<1> QED BY <1>11, <1>14, <1>15, <1>16 DEF Tidy

LEMMA BindTidy == ASSUME Inv, Tidy, NEW p \in Proc, Bind(p) PROVE Tidy'
<1>1. /\ proc[p].pc = "bind" /\ proc[p].t \in Txn /\ proc[p].g \in Session /\ Fits(p, proc[p])
      /\ Sound(sess[proc[p].g]) /\ Balanced(sess[proc[p].g])
  BY DEF Bind, At, Inv, Commands, Sessions, Running, Tidy, Places, Books, Fits
<1>2. PICK g \in Session, t \in Txn : g = proc[p].g /\ t = proc[p].t BY <1>1
<1>3. PICK b : b = sess[g].patch OBVIOUS
<1>4. CASE ~(b # None /\ b.resv = p /\ b.active = None)
  BY <1>2, <1>3, <1>4, Quits DEF Bind
<1>5. CASE b # None /\ b.resv = p /\ b.active = None
  <2>0. PICK r : r = [proc[p] EXCEPT !.pc = "materialise"] OBVIOUS
  <2> DEFINE u == [sess[g] EXCEPT !.patch.active = t, !.patch.resv = None, !.next = "", !.patch.owned = @ \cup {t}]
  <2>1. sess' = [sess EXCEPT ![g] = u] /\ UNCHANGED txn /\ Goto(p, r)
    BY <1>2, <1>3, <1>5, <2>0 DEF Bind, OnlySession, Step
  <2>2. b \in PatchSession BY <1>1, <1>2, <1>3, <1>5 DEF Balanced
  <2>3. u.patch = [b EXCEPT !.active = t, !.resv = None, !.owned = b.owned \cup {t}]
    BY <1>1, <1>2, <1>3, <2>2 DEF Sound, PatchSession
  <2>4. /\ u.patch \in PatchSession /\ u.patch.resv = None /\ u.patch.proven = b.proven /\ u.patch.avail = b.avail
        /\ u.patch.used = b.used /\ u.patch.active = t /\ u.patch.owned = b.owned \cup {t} /\ u.patch.ok = b.ok
    <3> DEFINE c == b.owned \cup {t}
    <3>1. c \in SUBSET Txn BY <2>2 DEF PatchSession
    <3>2. u.patch = [b EXCEPT !.active = t, !.resv = None, !.owned = c] BY <2>3
    <3> HIDE DEF c, u
    <3>3. [b EXCEPT !.active = t, !.resv = None, !.owned = c] \in PatchSession BY <2>2, <3>1 DEF PatchSession
    <3>4. u.patch.owned = c BY <2>2, <3>2 DEF PatchSession
    <3>5. /\ u.patch.resv = None /\ u.patch.proven = b.proven /\ u.patch.avail = b.avail
          /\ u.patch.used = b.used /\ u.patch.active = t /\ u.patch.ok = b.ok
      BY <2>2, <3>2 DEF PatchSession
    <3> QED BY <3>2, <3>3, <3>4, <3>5 DEF c
  <2>5. r.pc = "materialise" /\ r.t = t /\ r.req = proc[p].req /\ {"pc", "t", "g", "req"} \subseteq DOMAIN r
    BY <1>1, <1>2, <2>0 DEF Fits
  <2> HIDE DEF u
  <2>6. sess' = [h \in Session |-> IF h = g THEN u ELSE sess[h]] BY <2>1 DEF Inv, Sessions
  <2>7. proc' = [q \in Proc |-> IF q = p THEN r ELSE proc[q]] BY <2>1 DEF Goto, Inv, Commands
  <2>8. u.patch # None BY <2>4, NoneIsNoPatch
  <2>9. txn[t].st = "" /\ Owners(t) = {} /\ r.req \subseteq b.avail
    BY <1>1, <1>2, <1>3, <1>5, <2>5 DEF Fits, Inv, Births, Newborn
  <2>10. \A q \in Proc : q # p /\ Newborn(proc[q]) => proc[q].t # t BY <1>1, <1>2 DEF Inv, Births, Newborn
  <2>11. Books'
    <3>3. \A v \in b.owned : v # None BY <2>2, Unequal DEF PatchSession
    <3>1. Balanced(u) BY <1>1, <1>2, <1>3, <1>5, <2>4, <2>9, <3>3 DEF Balanced
    <3>2. ASSUME NEW h \in Session PROVE Balanced(sess[h])'
      <4>1. Balanced(sess[h]) BY DEF Tidy, Books
      <4> QED BY <2>1, <2>6, <3>1, <4>1 DEF Balanced, Changed
    <3> QED BY <3>2 DEF Books
  <2>12. \A v \in Txn : v # t => Owners(v)' = Owners(v) BY <1>3, <1>5, <2>4, <2>6, <2>8 DEF Owners
  <2>13. Owners(t)' = {g}
    <3>1. \A h \in Session : h # g => sess'[h] = sess[h] BY <2>6
    <3>2. sess'[g] = u BY <2>6
    <3> QED BY <2>4, <2>8, <2>9, <3>1, <3>2 DEF Owners
  <2>14. \A v \in Txn : \A R : Holds(v, R) => v # t /\ Holds(v, R)'
    <3> SUFFICES ASSUME NEW v \in Txn, NEW R, Holds(v, R) PROVE v # t /\ Holds(v, R)' OBVIOUS
    <3>1. PICK h \in Session : Owners(v) = {h} /\ sess[h].patch.active = v /\ R \subseteq sess[h].patch.avail BY DEF Holds
    <3>2. h # g BY <1>3, <1>5, <3>1, Unequal
    <3>3. sess'[h] = sess[h] /\ v # t BY <2>6, <2>9, <3>1, <3>2
    <3> QED BY <2>12, <3>1, <3>3 DEF Holds
  <2>15. Requests' BY <2>1, <2>14 DEF Tidy, Requests, Live
  <2>16. Places'
    <3>1. ASSUME NEW q \in Proc PROVE Fits(q, proc[q])'
      <4>1. CASE q = p
        <5>1. proc'[q] = r BY <2>7, <4>1
        <5>2. sess'[g].patch.active = t /\ sess'[g].patch.avail = b.avail BY <2>4, <2>6
        <5>3. Holds(t, r.req)' BY <2>9, <2>13, <5>2 DEF Holds
        <5>4. Fits(q, r)' BY <2>5, <5>3 DEF Fits
        <5> QED BY <5>1, <5>4, FitsAt
      <4>2. CASE q # p
        <5>1. proc'[q] = proc[q] BY <2>7, <4>2
        <5>2. \A h \in Session : sess'[h].patch # None /\ sess'[h].patch.resv = q =>
                 sess[h].patch # None /\ sess[h].patch.resv = q /\ sess'[h].patch.avail = sess[h].patch.avail
          BY <2>4, <2>6, <4>2, Unequal
        <5>3. CASE proc[q].pc = "bind"
          <6>1. proc[q].t # t BY <2>10, <4>2, <5>3 DEF Newborn
          <6>2. \A v \in Txn : proc[q].t = v /\ Owners(v) = {} => Owners(v)' = {} BY <2>12, <6>1
          <6> QED BY <2>1, <2>14, <5>1, <5>2, <6>2, PlaceKept
        <5>4. CASE proc[q].pc # "bind"
          <6>1. Fits(q, proc[q]) /\ Running(proc[q]) BY DEF Tidy, Places, Inv, Commands
          <6>2. PICK x : x = proc[q] OBVIOUS
          <6>3. x.pc = "materialise" => Holds(x.t, x.req) /\ x.t \in Txn BY <6>1, <6>2 DEF Fits, Running
          <6>4. x.pc = "materialise" => Holds(x.t, x.req)' BY <2>14, <6>3
          <6>5. Fits(q, x)' BY <2>1, <5>2, <5>4, <6>1, <6>2, <6>4 DEF Fits
          <6> QED BY <5>1, <6>2, <6>5, FitsAt
        <5> QED BY <5>3, <5>4
      <4> QED BY <4>1, <4>2
    <3> QED BY <3>1 DEF Places
  <2>17. Apart' BY <1>1, <1>2, <2>5, <2>7 DEF Tidy, Apart, Newborn
  <2> QED BY <2>11, <2>15, <2>16, <2>17 DEF Tidy
<1> QED BY <1>4, <1>5

-----------------------------------------------------------------------------
(* A transaction is written. *)

LEMMA TxnWritten ==
    ASSUME Inv, Tidy, NEW p \in Proc, NEW t \in Txn, NEW r, NEW x,
           txn' = [txn EXCEPT ![t] = r], UNCHANGED sess, Goto(p, x),
           Live(t) \/ (proc[p].pc = "materialise" /\ proc[p].t = t),
           {"st", "req", "changed"} \subseteq DOMAIN r, r.changed \subseteq Path, r.st # "",
           r.st \notin Terminal => Holds(t, r.req) /\ r.changed \subseteq r.req,
           r.st = "POSTCHECK_VERIFIED" => Live(t),
           {"pc", "t", "g", "req"} \subseteq DOMAIN x,
           Resting(x) \/ (x.pc = "terminal" /\ x.t = t /\ r.st \in Terminal)
    PROVE  Tidy'
<1>1. txn' = [u \in Txn |-> IF u = t THEN r ELSE txn[u]] BY DEF Inv, Transactions
<1>2. proc' = [q \in Proc |-> IF q = p THEN x ELSE proc[q]] BY DEF Goto, Inv, Commands
<1>3. txn[t].st \notin Terminal
  <2>1. CASE Live(t) BY <2>1 DEF Live
  <2>2. CASE proc[p].pc = "materialise" /\ proc[p].t = t
    BY <2>2 DEF Inv, Births, Newborn, Terminal, Undone
  <2> QED BY <2>1, <2>2
<1>4. \A h \in Session : sess[h].patch # None => t \notin sess[h].patch.ok
  BY <1>3 DEF Inv, Sessions, Kept, Terminal
<1>5. Books'
  <2>1. ASSUME NEW h \in Session, sess[h].patch # None PROVE Balanced(sess[h])'
    <3>1. PICK q : q = sess[h].patch OBVIOUS
    <3>2. Balanced(sess[h]) /\ t \notin q.ok BY <1>4, <2>1, <3>1 DEF Tidy, Books
    <3>3. q \in PatchSession /\ q.ok \subseteq Txn BY <2>1, <3>1, <3>2 DEF Balanced, PatchSession
    <3>4. \A v \in q.ok : txn'[v] = txn[v] BY <1>1, <3>2, <3>3
    <3>5. Changed(q.ok)' = Changed(q.ok) BY <3>4 DEF Changed
    <3>6. ASSUME NEW v \in q.owned, txn'[v].st = "POSTCHECK_VERIFIED" PROVE v \in q.ok \/ v = q.active
      <4>0. v \in Txn BY <3>3 DEF PatchSession
      <4>1. CASE v # t BY <1>1, <2>1, <3>1, <3>2, <3>6, <4>0, <4>1 DEF Balanced
      <4>2. CASE v = t
        <5>1. Live(t) BY <1>1, <3>6, <4>2
        <5>2. Holds(t, txn[t].req) BY <5>1 DEF Tidy, Requests
        <5>3. h \in Owners(t) BY <2>1, <3>1, <4>2 DEF Owners
        <5> QED BY <3>1, <4>2, <5>2, <5>3, HeldBy
      <4> QED BY <4>1, <4>2
    <3> QED BY <2>1, <3>1, <3>2, <3>5, <3>6 DEF Balanced
  <2>2. ASSUME NEW h \in Session, sess[h].patch = None PROVE Balanced(sess[h])' BY <2>2 DEF Balanced
  <2> QED BY <2>1, <2>2 DEF Books
<1>6. \A u, R : Holds(u, R)' <=> Holds(u, R) BY DEF Holds, Owners
<1>7. Requests'
  <2>1. ASSUME NEW u \in Txn, u # t
        PROVE  /\ {"st", "req", "changed"} \subseteq DOMAIN txn'[u] /\ txn'[u].changed \subseteq Path
               /\ Live(u)' => Holds(u, txn'[u].req) /\ txn'[u].changed \subseteq txn'[u].req
    <3>1. txn'[u] = txn[u] BY <1>1, <2>1
    <3> QED BY <3>1 DEF Tidy, Requests, Live
  <2>2. txn'[t] = r BY <1>1
  <2>3. Live(t)' => Holds(t, r.req) /\ r.changed \subseteq r.req BY <2>2 DEF Live
  <2>4. ASSUME NEW u \in Txn, Live(u)' PROVE Holds(u, txn[u].req)'
    <3>1. PICK R : R = txn'[u].req OBVIOUS
    <3>2. Holds(u, R) BY <2>1, <2>2, <2>3, <2>4, <3>1
    <3>3. Holds(u, R)' BY <1>6, <3>2
    <3> QED BY <3>1, <3>3 DEF Holds, Owners
  <2>5. r.changed \subseteq Path /\ {"st", "req", "changed"} \subseteq DOMAIN r OBVIOUS
  <2> HIDE DEF Live
  <2>6. ASSUME NEW u \in Txn
        PROVE  /\ {"st", "req", "changed"} \subseteq DOMAIN txn'[u] /\ txn'[u].changed \subseteq Path
               /\ Live(u)' => txn'[u].changed \subseteq txn'[u].req
    BY <2>1, <2>2, <2>3, <2>5
  <2> QED BY <2>4, <2>6 DEF Requests
<1>8. Places'
  <2>1. ASSUME NEW q \in Proc PROVE Fits(q, proc[q])'
    <3>1. CASE q = p
      <4>1. proc'[q] = x BY <1>2, <3>1
      <4>2. txn'[t] = r BY <1>1
      <4>3. Fits(q, x)' BY <4>2 DEF Fits, Resting
      <4> QED BY <4>1, <4>3, FitsAt
    <3>2. CASE q # p
      <4>1. PICK y : y = proc[q] OBVIOUS
      <4>2. Fits(q, y) /\ Running(y) /\ proc'[q] = y BY <1>2, <3>2, <4>1 DEF Tidy, Places, Inv, Commands
      <4>3. y.pc \in {"terminal", "unlease", "release"} => y.t # t /\ y.t \in Txn
        BY <1>3, <4>2 DEF Fits, Running
      <4>4. y.pc \in {"unbind", "cancel"} => y.t # t /\ y.t \in Txn
        <5>1. CASE Live(t) BY <4>2, <5>1 DEF Fits, Running, Live
        <5>2. CASE proc[p].pc = "materialise" /\ proc[p].t = t
          BY <4>1, <4>2, <5>2 DEF Tidy, Apart, Newborn, Running
        <5> QED BY <5>1, <5>2
      <4>5. y.pc \in {"terminal", "unlease", "release", "unbind", "cancel"} => txn'[y.t] = txn[y.t]
        BY <1>1, <4>3, <4>4
      <4>6. Owners(y.t)' = Owners(y.t) BY DEF Owners
      <4>7. Holds(y.t, y.req)' <=> Holds(y.t, y.req) BY <1>6
      <4>8. Fits(q, y)' BY <4>2, <4>5, <4>6, <4>7 DEF Fits
      <4> QED BY <4>2, <4>8, FitsAt
    <3> QED BY <3>1, <3>2
  <2> QED BY <2>1 DEF Places
<1>9. Apart' BY <1>2 DEF Tidy, Apart, Newborn, Resting
<1> QED BY <1>5, <1>7, <1>8, <1>9 DEF Tidy

LEMMA MaterialiseTidy == ASSUME Inv, Tidy, NEW p \in Proc, Materialise(p) PROVE Tidy'
<1>1. proc[p].pc = "materialise" /\ proc[p].t \in Txn /\ Fits(p, proc[p])
  BY DEF Materialise, At, Inv, Commands, Running, Tidy, Places
<1>2. PICK t \in Txn : t = proc[p].t BY <1>1
<1>3. PICK r : r = [NoFile EXCEPT !.st = "CHECKED_OUT", !.base = proc[p].pkg, !.req = proc[p].req] OBVIOUS
<1>4. r.st = "CHECKED_OUT" /\ r.req = proc[p].req /\ r.changed = {} /\ {"st", "req", "changed"} \subseteq DOMAIN r
  BY <1>3 DEF NoFile
<1>5. Holds(t, r.req) BY <1>1, <1>2, <1>4 DEF Fits
<1>6. txn' = [txn EXCEPT ![t] = r] /\ UNCHANGED sess /\ Goto(p, Idle)
  BY <1>2, <1>3 DEF Materialise, OnlyTxn, Quit
<1> QED BY <1>1, <1>2, <1>4, <1>5, <1>6, IdleRests, TxnWritten

LEMMA PrepareTidy ==
    ASSUME Inv, Tidy, NEW p \in Proc, NEW t \in Txn, NEW S, Prepare(p, t, S) PROVE Tidy'
<1>1. PICK r : r = [txn[t] EXCEPT !.st = "PREPARED", !.changed = S] OBVIOUS
<1>2. /\ txn' = [txn EXCEPT ![t] = r] /\ UNCHANGED <<sess, proc>> /\ S \subseteq txn[t].req
      /\ txn[t].st \in PreApply /\ proc[p].pc = "idle"
  BY <1>1 DEF Prepare, OnlyTxn, MayWork, At
<1>3. Live(t) BY <1>2 DEF PreApply, Live, Terminal, Undone
<1>4. {"st", "req", "changed"} \subseteq DOMAIN txn[t] /\ Holds(t, txn[t].req) BY <1>3 DEF Tidy, Requests
<1>5. r.st = "PREPARED" /\ r.changed = S /\ r.req = txn[t].req /\ {"st", "req", "changed"} \subseteq DOMAIN r
  BY <1>1, <1>4
<1>6. txn[t].req \subseteq Path
  <2>1. PICK h \in Session : h \in Owners(t) /\ txn[t].req \subseteq sess[h].patch.avail BY <1>4 DEF Holds
  <2>2. sess[h].patch \in PatchSession BY <2>1 DEF Owners, Tidy, Books, Balanced
  <2> QED BY <2>1, <2>2 DEF PatchSession
<1>7. Goto(p, proc[p]) BY <1>2 DEF Goto, Inv, Commands
<1>8. Resting(proc[p]) /\ {"pc", "t", "g", "req"} \subseteq DOMAIN proc[p] BY <1>2 DEF Resting, Tidy, Places, Fits
<1> HIDE DEF Live
<1> QED BY <1>2, <1>3, <1>4, <1>5, <1>6, <1>7, <1>8, TxnWritten

\* Only the status of a live transaction, and what it left, change.
LEMMA StatusWritten ==
    ASSUME Inv, Tidy, NEW p \in Proc, NEW t \in Txn, NEW st, NEW r, NEW x, Live(t),
           txn' = [txn EXCEPT ![t] = r], UNCHANGED sess, Goto(p, x),
           DOMAIN r = DOMAIN txn[t], r.st = st, r.req = txn[t].req, r.changed = txn[t].changed, st # "",
           {"pc", "t", "g", "req"} \subseteq DOMAIN x,
           Resting(x) \/ (x.pc = "terminal" /\ x.t = t /\ st \in Terminal)
    PROVE  Tidy'
<1>1. /\ {"st", "req", "changed"} \subseteq DOMAIN r /\ r.changed \subseteq Path
      /\ Holds(t, r.req) /\ r.changed \subseteq r.req
  BY DEF Tidy, Requests
<1> HIDE DEF Live
<1> QED BY <1>1, TxnWritten

LEMMA ApplyTidy == ASSUME Inv, Tidy, NEW p \in Proc, NEW t \in Txn, Apply(p, t) PROVE Tidy'
<1>1. PICK r, x : r = [txn[t] EXCEPT !.st = "APPLYING"] /\ x = [Idle EXCEPT !.pc = "apply", !.t = t] OBVIOUS
<1>2. Live(t) BY DEF Apply, Live, Terminal, Undone
<1>3. txn' = [txn EXCEPT ![t] = r]
  <2>1. txn' = [txn EXCEPT ![t].st = "APPLYING"] BY DEF Apply
  <2> QED BY <1>1, <2>1
<1>4. UNCHANGED sess /\ Goto(p, x) BY <1>1 DEF Apply
<1>5. DOMAIN r = DOMAIN txn[t] /\ r.st = "APPLYING" /\ r.req = txn[t].req /\ r.changed = txn[t].changed
  BY <1>1, <1>2 DEF Tidy, Requests
<1>6. Resting(x) /\ {"pc", "t", "g", "req"} \subseteq DOMAIN x BY <1>1 DEF Idle, Resting
<1> QED BY <1>2, <1>3, <1>4, <1>5, <1>6, StatusWritten

LEMMA AbortTidy == ASSUME Inv, Tidy, NEW p \in Proc, NEW t \in Txn, Abort(p, t) PROVE Tidy'
<1>1. PICK x : x = [Idle EXCEPT !.pc = "terminal", !.t = t] OBVIOUS
<1>2. PICK st \in {"ABORTED", "ABORTED_STALE_BASELINE"} : OnlyTxn(t, [txn[t] EXCEPT !.st = st]) BY DEF Abort
<1>3. Live(t) BY DEF Abort, PreApply, Live, Terminal, Undone
<1>4. PICK r : r = [txn[t] EXCEPT !.st = st] OBVIOUS
<1>5. txn' = [txn EXCEPT ![t] = r] /\ UNCHANGED sess /\ Goto(p, x) BY <1>1, <1>2, <1>4 DEF Abort, OnlyTxn
<1>6. DOMAIN r = DOMAIN txn[t] /\ r.st = st /\ r.req = txn[t].req /\ r.changed = txn[t].changed
  BY <1>3, <1>4 DEF Tidy, Requests
<1>7. x.pc = "terminal" /\ x.t = t /\ {"pc", "t", "g", "req"} \subseteq DOMAIN x BY <1>1 DEF Idle
<1>8. st \in Terminal /\ st # "" BY <1>2 DEF Terminal, Undone
<1> QED BY <1>3, <1>5, <1>6, <1>7, <1>8, StatusWritten

LEMMA RecordTidy ==
    ASSUME Inv, Tidy, NEW p \in Proc, NEW t \in Txn, NEW r, NEW pc, Live(t), UNCHANGED sess, Record(p, t, r, pc),
           DOMAIN r = DOMAIN txn[t], r.req = txn[t].req, r.changed = txn[t].changed, r.st # "",
           pc = "idle" \/ (pc = "terminal" /\ r.st \in Terminal)
    PROVE  Tidy'
<1>1. CASE ~Active(t) BY <1>1, Quits DEF Record
<1>2. CASE Active(t)
  <2>1. PICK x : x = [Idle EXCEPT !.pc = pc, !.t = IF pc = "idle" THEN None ELSE t] OBVIOUS
  <2>2. txn' = [txn EXCEPT ![t] = r] /\ Goto(p, x) BY <1>2, <2>1 DEF Record
  <2>3. {"pc", "t", "g", "req"} \subseteq DOMAIN x /\ x.pc = pc /\ (pc = "terminal" => x.t = t) BY <2>1 DEF Idle
  <2>4. Resting(x) \/ (x.pc = "terminal" /\ x.t = t /\ r.st \in Terminal) BY <2>3 DEF Resting
  <2> QED BY <2>2, <2>3, <2>4, StatusWritten
<1> QED BY <1>1, <1>2

LEMMA EndsTidy ==
    ASSUME Inv, Tidy, NEW p \in Proc, NEW t \in Txn, Live(t), Publish(p, t) \/ RollBack(p, t) PROVE Tidy'
<1>1. {"st", "req", "changed", "post"} \subseteq DOMAIN txn[t] BY DEF Tidy, Requests, Inv, Transactions, Saved
<1>2. CASE Publish(p, t)
  <2>1. PICK r : r = [txn[t] EXCEPT !.st = "POSTCHECK_VERIFIED", !.post = newest'] OBVIOUS
  <2>2. DOMAIN r = DOMAIN txn[t] /\ r.st = "POSTCHECK_VERIFIED" /\ r.req = txn[t].req /\ r.changed = txn[t].changed
    BY <1>1, <2>1
  <2>3. Record(p, t, r, "terminal") /\ UNCHANGED sess BY <1>2, <2>1 DEF Publish
  <2>4. r.st \in Terminal /\ r.st # "" BY <2>2 DEF Terminal
  <2> QED BY <2>2, <2>3, <2>4, RecordTidy
<1>3. CASE RollBack(p, t)
  <2>1. PICK r : r = [txn[t] EXCEPT !.st = "ROLLED_BACK"] OBVIOUS
  <2>2. DOMAIN r = DOMAIN txn[t] /\ r.st = "ROLLED_BACK" /\ r.req = txn[t].req /\ r.changed = txn[t].changed
    BY <1>1, <2>1
  <2>3. Record(p, t, r, "terminal") /\ UNCHANGED sess BY <1>3, <2>1 DEF RollBack
  <2>4. r.st \in Terminal /\ r.st # "" BY <2>2 DEF Terminal, Undone
  <2> QED BY <2>2, <2>3, <2>4, RecordTidy
<1> QED BY <1>2, <1>3

LEMMA RecoverTidy == ASSUME Inv, Tidy, NEW p \in Proc, NEW t \in Txn, Recover(p, t) PROVE Tidy'
<1>1. Live(t) BY DEF Recover, Live, Terminal, Undone
<1> QED BY <1>1, EndsTidy DEF Recover

LEMMA ApplyEndsTidy ==
    ASSUME Inv, Tidy, NEW p \in Proc, ApplyEnds(p) \/ ApplyFails(p) PROVE Tidy'
<1>1. proc[p].pc = "apply" /\ proc[p].t \in Txn BY DEF ApplyEnds, ApplyFails, At, Inv, Commands, Running
<1>2. PICK t \in Txn : t = proc[p].t BY <1>1
<1>3. Live(t) BY <1>1, <1>2 DEF Inv, Tearing, Live, Terminal, Undone
<1>4. CASE Publish(p, t) \/ RollBack(p, t) BY <1>3, <1>4, EndsTidy
<1>5. CASE Record(p, t, [txn[t] EXCEPT !.st = "RECOVERY_REQUIRED"], "idle") /\ UNCHANGED sess
  <2>1. PICK r : r = [txn[t] EXCEPT !.st = "RECOVERY_REQUIRED"] OBVIOUS
  <2>2. DOMAIN r = DOMAIN txn[t] /\ r.st = "RECOVERY_REQUIRED" /\ r.req = txn[t].req /\ r.changed = txn[t].changed
    BY <2>1 DEF Tidy, Requests
  <2> QED BY <1>3, <1>5, <2>1, <2>2, RecordTidy
<1> QED BY <1>2, <1>4, <1>5 DEF ApplyEnds, ApplyFails

-----------------------------------------------------------------------------
LEMMA InitTidy == ASSUME Init PROVE Tidy
<1>1. Absent.patch = None /\ {"pc", "t", "g", "req"} \subseteq DOMAIN Idle BY DEF Absent, Idle
<1>2. Books
  <2>1. \A g \in Session : sess[g] = Absent BY DEF Init
  <2> QED BY <1>1, <2>1 DEF Books, Balanced
<1>3. Requests
  <2>1. NoFile.st = "" /\ NoFile.changed = {} /\ {"st", "req", "changed"} \subseteq DOMAIN NoFile BY DEF NoFile
  <2>2. \A t \in Txn : txn[t] = NoFile BY DEF Init
  <2> QED BY <2>1, <2>2 DEF Requests, Live
<1>4. \A p \in Proc : proc[p] = Idle BY DEF Init
<1>5. Places BY <1>1, <1>4, IdleRests, RestFits DEF Places, Fits, Resting
<1>6. Apart BY <1>4, IdleRests DEF Apart, Newborn
<1> QED BY <1>2, <1>3, <1>5, <1>6 DEF Tidy

LEMMA NextTidy == ASSUME Inv, Tidy, [Next]_gvars, [ReconcileAfterCrash]_gvars PROVE Tidy'
<1>1. CASE UNCHANGED gvars BY <1>1, EnvironmentTidy DEF gvars, files
<1>2. ASSUME NEW p \in Proc, Investigate(p), ReconcileAfterCrash PROVE Tidy'
  <2>1. CASE ReadPackage(p) \/ Refused(p) BY <2>1, ReadPackageTidy, OthersTidy
  <2>2. ASSUME NEW g \in Session, Start(p, g) \/ Enter(p, g) \/ PatchClose(p, g) \/ FreshRun(p, g) \/ Reconcile(p, g)
        PROVE  Tidy'
    BY <1>2, <2>2, StartTidy, EnterTidy, PatchCloseTidy, FreshRunTidy, ReconcileTidy
  <2>3. ASSUME NEW g \in Session, NEW S \in SUBSET Path, Advance(p, g, S) \/ Reserve(p, g, S) PROVE Tidy'
    BY <2>3, AdvanceTidy, ReserveTidy
  <2>4. ASSUME NEW g \in Session, NEW target \in {"HYPOTHESIS", "MAP"}, Reframe(p, g, target) PROVE Tidy'
    BY <2>4, ReframeTidy
  <2> QED BY <1>2, <2>1, <2>2, <2>3, <2>4 DEF Investigate
<1>3. ASSUME NEW p \in Proc, Work(p) PROVE Tidy'
  <2>1. CASE Manifest(p) \/ Bind(p) \/ Materialise(p) \/ CheckoutFails(p) \/ Cancel(p)
    BY <2>1, ManifestTidy, BindTidy, MaterialiseTidy, CheckoutFailsTidy, CancelTidy
  <2>2. CASE ApplyEnds(p) \/ ApplyFails(p) BY <2>2, ApplyEndsTidy
  <2>3. CASE AssertRelease(p) \/ Unlease(p) \/ GuardRelease(p) \/ Invalidate(p)
    BY <2>3, AssertReleaseTidy, UnleaseTidy, GuardReleaseTidy, InvalidateTidy
  <2>4. CASE Unbind(p) \/ Unreserve(p) \/ CancelReservation(p) \/ Reseal(p) \/ Kill(p)
    BY <2>4, UnbindTidy, UnreserveTidy, CancelReservationTidy, OthersTidy
  <2>5. ASSUME NEW t \in Txn, Acquire(p, t) \/ Recover(p, t) \/ Abort(p, t) \/ Resume(p, t) PROVE Tidy'
    BY <2>5, AcquireTidy, RecoverTidy, AbortTidy, ResumeTidy
  <2> QED BY <1>3, <2>1, <2>2, <2>3, <2>4, <2>5 DEF Work
<1>4. CASE ForeignEdit \/ IdentityChanges BY <1>4, EnvironmentTidy DEF ForeignEdit, IdentityChanges, files
<1>5. ASSUME NEW g \in Session, NEW S, Inspect(g, S) PROVE Tidy' BY <1>5, InspectTidy
<1>6. ASSUME NEW p \in Proc, NEW t \in Txn, Apply(p, t) \/ \E S \in SUBSET Path : Prepare(p, t, S) PROVE Tidy'
  BY <1>6, ApplyTidy, PrepareTidy
<1>7. CASE ~UNCHANGED gvars
  <2>1. ReconcileAfterCrash /\ Next BY <1>7
  <2> QED BY <1>2, <1>3, <1>4, <1>5, <1>6, <2>1 DEF Next, GuardNext, Environment
<1> QED BY <1>1, <1>7

(* Every step of the Guardian and its workshop that keeps the order keeps  *)
(* both invariants.                                                        *)
LEMMA BooksKeptInOrder == Spec /\ [][ReconcileAfterCrash]_gvars => [](Inv /\ Tidy)
<1>1. Init => Inv /\ Tidy BY InitInv, InitTidy
<1>2. Inv /\ Tidy /\ [Next]_gvars /\ [ReconcileAfterCrash]_gvars => (Inv /\ Tidy)' BY NextKeeps, NextTidy
<1> QED BY <1>1, <1>2, PTL DEF Spec

(* The books of a patch session (guardian_transaction.py, guardian_patch)  *)
(* balance after any checkouts, failures, kills and repairs: what is used  *)
(* up is what its verified transactions changed, the rest of the proven    *)
(* scope is available, and no verified transaction of its own is missing.  *)
(* Assumed is the order GUARDIAN.md asks for: guard-reconcile is started   *)
(* only when no other command is half way.                                 *)
THEOREM BooksBalance == Spec /\ [][ReconcileAfterCrash]_gvars => []ScopeConserved
<1>1. Tidy => ScopeConserved BY DEF Tidy, Books, Balanced, ScopeConserved
<1> QED BY <1>1, BooksKeptInOrder, PTL

(* Under the same assumption a leased transaction that has not ended is    *)
(* the active one of exactly one session, whoever died between the lease,  *)
(* the binding and the first save (_release_lease, bind_transaction).      *)
THEOREM LiveIsGuarded == Spec /\ [][ReconcileAfterCrash]_gvars => []GuardedLiveTx
<1>1. Tidy => GuardedLiveTx BY DEF Tidy, Requests, Live, Holds, GuardedLiveTx
<1> QED BY <1>1, BooksKeptInOrder, PTL

(* Under the same assumption what an apply makes live and trusted was      *)
(* proven by the one session that holds the transaction, and nothing of    *)
(* it had been used up before (guardian_transaction.py observe, release).  *)
THEOREM PublishesWhatWasProven == Spec /\ [][ReconcileAfterCrash]_gvars => PublishedWasProven
<1> DEFINE Published ==
      \A p \in Proc : At(p, "apply") /\ ~At(p, "apply")' /\ seal' # seal =>
         LET t == proc[p].t IN
         \E g \in Session : /\ Owners(t) = {g} /\ sess[g].patch.active = t
                            /\ txn[t].changed \subseteq sess[g].patch.avail
<1>1. Inv /\ Tidy => Published
  <2> SUFFICES ASSUME Inv, Tidy, NEW p \in Proc, At(p, "apply")
               PROVE  LET t == proc[p].t IN
                      \E g \in Session : /\ Owners(t) = {g} /\ sess[g].patch.active = t
                                         /\ txn[t].changed \subseteq sess[g].patch.avail
    OBVIOUS
  <2>1. PICK t \in Txn : t = proc[p].t BY DEF At, Inv, Commands, Running
  <2>2. Live(t) BY <2>1 DEF At, Inv, Tearing, Live, Terminal, Undone
  <2>3. Holds(t, txn[t].req) /\ txn[t].changed \subseteq txn[t].req BY <2>2 DEF Tidy, Requests
  <2> QED BY <2>1, <2>3 DEF Holds
<1>2. [](Inv /\ Tidy) => [][Published]_gvars BY <1>1, PTL
<1> QED BY <1>2, BooksKeptInOrder, PTL DEF PublishedWasProven

-----------------------------------------------------------------------------
(* A session closes when it is done. *)

\* What a session files about its patch session, beside Balanced: nothing is
\* reserved once it may close, what is used up was proven, the package it
\* rolls on is its last result, and the lease is for what is active.
Filed(s, T, l) ==
    /\ "closed" \in DOMAIN s
    /\ s.patch # None =>
        LET q == s.patch IN
        /\ q.resv # None => s.next \in {"WORKSHOP", "REFRAME_REQUIRED"}
        /\ q.status = "WORKSHOP_COMPLETE" => q.active = None /\ q.resv = None /\ q.avail = {} /\ q.ok # {}
        /\ q.used \subseteq q.proven
        /\ q.active # None => q.active \in q.owned
        /\ l \in q.owned => q.active = l
        /\ q.active # None /\ T[q.active].st = "POSTCHECK_VERIFIED" =>
              /\ T[q.active].changed \subseteq q.avail
              /\ \A u \in q.ok : T[u].post <= T[q.active].post
        /\ q.status # "INVALIDATED_BY_DRIFT" /\ q.ok # {} =>
              \E t \in q.ok : s.roll = T[t].post /\ \A u \in q.ok : T[u].post <= T[t].post

Letting(r) == r.pc \in {"release", "cancel"}

Closing ==
    /\ \A g \in Session : Filed(sess[g], txn, lease)
    /\ \A t \in Txn : txn[t].post \in 0 .. newest
    /\ \A p \in Proc : Letting(proc[p]) => lease # proc[p].t

\* No session is closed by the step.
NoneCloses == \A g \in Session : sess'[g].closed => sess[g].closed

LEMMA FiledLease ==
    ASSUME NEW s, NEW l, NEW m, Filed(s, txn, l),
           s.patch # None => m = l \/ m \notin s.patch.owned
    PROVE  Filed(s, txn, m)
BY DEF Filed

LEMMA OwnsTxns ==
    ASSUME Tidy, NEW g \in Session, sess[g].patch # None
    PROVE  sess[g].patch \in PatchSession /\ sess[g].patch.owned \subseteq Txn /\ None \notin sess[g].patch.owned
BY Unequal DEF Tidy, Books, Balanced, PatchSession

LEMMA ClosingRests ==
    ASSUME Inv, Tidy, Closing, UNCHANGED <<sess, txn>>, newest' \in Nat, newest <= newest',
           lease' \in {lease, None} \/ (lease' \in Txn /\ Owners(lease') = {}),
           \A q \in Proc : Letting(proc'[q]) => lease' # proc'[q].t
    PROVE  Closing' /\ NoneCloses
<1>0. PICK m : m = lease' OBVIOUS
<1>1. ASSUME NEW g \in Session PROVE Filed(sess[g], txn, m)
  <2>1. sess[g].patch # None => m = lease \/ m \notin sess[g].patch.owned BY <1>0, OwnsTxns DEF Owners
  <2>2. Filed(sess[g], txn, lease) BY DEF Closing
  <2> QED BY <2>1, <2>2, FiledLease
<1>2. \A g \in Session : Filed(sess[g], txn, lease)' BY <1>0, <1>1
<1>3. \A t \in Txn : txn'[t].post \in 0 .. newest' BY Bounds DEF Closing, Inv, Corpus
<1>4. \A q \in Proc : (Letting(proc[q]) => lease # proc[q].t)' BY DEF Letting
<1>5. NoneCloses BY DEF NoneCloses
<1> QED BY <1>2, <1>3, <1>4, <1>5 DEF Closing

LEMMA ClosingMoves ==
    ASSUME Inv, Tidy, Closing, NEW p \in Proc, NEW r, Goto(p, r), UNCHANGED <<sess, txn, newest>>,
           Letting(r) => r.t \in Txn /\ lease' # r.t,
           lease' \in {lease, None} \/ (lease' \in Txn /\ Fresh(lease'))
    PROVE  Closing' /\ NoneCloses
<1>1. proc' = [q \in Proc |-> IF q = p THEN r ELSE proc[q]] BY DEF Goto, Inv, Commands
<1>2. \A q \in Proc : Letting(proc[q]) => proc[q].t \in Txn /\ lease # proc[q].t
  BY DEF Inv, Commands, Running, Letting, Closing
<1>3. \A q \in Proc : Letting(proc'[q]) => lease' # proc'[q].t BY <1>1, <1>2, Unequal DEF Fresh
<1>4. newest' \in Nat /\ newest <= newest' BY Bounds DEF Inv, Corpus
<1>5. lease' \in {lease, None} \/ (lease' \in Txn /\ Owners(lease') = {}) BY DEF Fresh
<1> QED BY <1>3, <1>4, <1>5, ClosingRests

LEMMA ClosingStops ==
    ASSUME Inv, Tidy, Closing, NEW p \in Proc, NEW r, Goto(p, r), UNCHANGED <<sess, txn, newest>>,
           ~Letting(r), lease' \in {lease, None}
    PROVE  Closing' /\ NoneCloses
BY ClosingMoves

LEMMA IdleLets == ~Letting(Idle)
BY DEF Letting, Idle

LEMMA ReadPackageClosing == ASSUME Inv, Tidy, Closing, NEW p \in Proc, ReadPackage(p) PROVE Closing' /\ NoneCloses
<1> DEFINE r == [Idle EXCEPT !.pc = "guard", !.pkg = live, !.known = Receipts]
<1>1. ~Letting(r) BY DEF Letting, Idle
<1> QED BY <1>1, ClosingStops DEF ReadPackage, files, corpus

LEMMA RefusedClosing == ASSUME Inv, Tidy, Closing, NEW p \in Proc, Refused(p) \/ Kill(p) PROVE Closing' /\ NoneCloses
BY IdleLets, ClosingStops DEF Refused, Kill, Quit, files, corpus

LEMMA ManifestClosing == ASSUME Inv, Tidy, Closing, NEW p \in Proc, Manifest(p) PROVE Closing' /\ NoneCloses
<1> DEFINE r == [proc[p] EXCEPT !.pc = "acquire", !.pkg = live]
<1>1. ~Letting(r) BY DEF Letting, Tidy, Places, Fits
<1> QED BY <1>1, ClosingStops DEF Manifest, files, corpus

LEMMA AcquireClosing ==
    ASSUME Inv, Tidy, Closing, NEW p \in Proc, NEW t \in Txn, Acquire(p, t) PROVE Closing' /\ NoneCloses
<1> DEFINE r == [proc[p] EXCEPT !.pc = "bind", !.t = t]
<1>1. ~Letting(r) BY DEF Letting, Tidy, Places, Fits
<1> QED BY <1>1, ClosingMoves DEF Acquire, corpus

LEMMA ResumeClosing ==
    ASSUME Inv, Tidy, Closing, NEW p \in Proc, NEW t \in Txn, Resume(p, t) PROVE Closing' /\ NoneCloses
<1> DEFINE r == [Idle EXCEPT !.pc = "terminal", !.t = t]
<1>1. ~Letting(r) BY DEF Letting, Idle
<1> QED BY <1>1, ClosingStops DEF Resume, files, corpus

LEMMA AssertReleaseClosing == ASSUME Inv, Tidy, Closing, NEW p \in Proc, AssertRelease(p) PROVE Closing' /\ NoneCloses
<1> DEFINE r == [proc[p] EXCEPT !.pc = "unlease", !.pkg = live]
<1>1. ~Letting(r) BY DEF Letting, Tidy, Places, Fits
<1>2. Goto(p, r) \/ Goto(p, Idle) BY DEF AssertRelease, Quit
<1> QED BY <1>1, <1>2, IdleLets, ClosingStops DEF AssertRelease, files, corpus

LEMMA StepClosing ==
    ASSUME Inv, Tidy, Closing, NEW p \in Proc, NEW x, Step(p, x), UNCHANGED <<sess, txn, newest>>,
           lease' = None, proc[p].t \in Txn
    PROVE  Closing' /\ NoneCloses
<1> DEFINE r == [proc[p] EXCEPT !.pc = x]
<1>1. r.t \in Txn /\ r.t # None BY Unequal DEF Tidy, Places, Fits
<1> QED BY <1>1, ClosingMoves DEF Step

LEMMA UnleaseClosing ==
    ASSUME Inv, Tidy, Closing, NEW p \in Proc, Unlease(p) \/ Unbind(p) \/ Unreserve(p) \/ CheckoutFails(p)
    PROVE  Closing' /\ NoneCloses
<1>1. proc[p].pc \in {"unlease", "unbind", "unreserve", "materialise"} BY DEF Unlease, Unbind, Unreserve, CheckoutFails, At
<1>2. proc[p].t \in Txn BY <1>1 DEF Inv, Commands, Running
<1>3. UNCHANGED <<sess, txn, newest>> BY DEF Unlease, Unbind, Unreserve, CheckoutFails, corpus
<1>4. \/ Quit(p) /\ lease' = lease
      \/ \E x : Step(p, x) /\ lease' = None
  BY DEF Unlease, Unbind, Unreserve, CheckoutFails
<1> QED BY <1>2, <1>3, <1>4, StepClosing, ClosingStops, IdleLets DEF Quit

LEMMA ReconcileClosing ==
    ASSUME Inv, Tidy, Closing, NEW p \in Proc, NEW g \in Session, Reconcile(p, g) PROVE Closing' /\ NoneCloses
<1>1. UNCHANGED <<sess, txn, newest, lease>> BY DEF Reconcile, files, corpus
<1>2. CASE sess[g].patch.active # None
  <2> DEFINE a == sess[g].patch.active
             x == IF lease = a THEN (IF txn[a].st = "" THEN "unbind" ELSE "unlease")
                               ELSE (IF txn[a].st = "" THEN "cancel" ELSE "release")
             r == [Idle EXCEPT !.t = a, !.pkg = live, !.pc = x]
  <2>1. Goto(p, r) /\ sess[g].patch # None BY <1>2 DEF Reconcile
  <2>2. r.pc = x /\ r.t = a BY DEF Idle
  <2>3. a \in Txn BY <1>2, <2>1 DEF Inv, Sessions, Kept, Named
  <2>4. Letting(r) => lease # r.t BY <2>2 DEF Letting
  <2> QED BY <1>1, <2>1, <2>2, <2>3, <2>4, ClosingMoves
<1>3. CASE sess[g].patch.active = None
  <2> DEFINE r == [Idle EXCEPT !.g = g, !.t = lease, !.pc = "unreserve"]
  <2>1. Goto(p, r) BY <1>3 DEF Reconcile
  <2>2. ~Letting(r) BY DEF Idle, Letting
  <2> QED BY <1>1, <2>1, <2>2, ClosingStops
<1> QED BY <1>2, <1>3

LEMMA EnvironmentClosing ==
    ASSUME Inv, Tidy, Closing, ForeignEdit \/ IdentityChanges \/ (\E p \in Proc : Reseal(p)) \/ UNCHANGED gvars
    PROVE  Closing' /\ NoneCloses
<1>1. UNCHANGED <<sess, txn, lease, proc>> BY DEF ForeignEdit, IdentityChanges, Reseal, gvars, files
<1>2. newest \in Nat BY Bounds DEF Inv, Corpus
<1>3. newest' \in Nat /\ newest <= newest'
  BY <1>2 DEF ForeignEdit, IdentityChanges, Reseal, gvars, corpus
<1>4. \A q \in Proc : Letting(proc'[q]) => lease' # proc'[q].t BY <1>1 DEF Closing, Letting
<1> QED BY <1>1, <1>3, <1>4, ClosingRests

-----------------------------------------------------------------------------
(* A session is written. *)

LEMMA ClosingFiles ==
    ASSUME Inv, Tidy, Closing, NEW g \in Session, NEW u, sess' = [sess EXCEPT ![g] = u],
           UNCHANGED <<txn, lease, newest>>, Filed(u, txn, lease),
           \A q \in Proc : proc'[q] = proc[q] \/ ~Letting(proc'[q])
    PROVE  /\ Closing'
           /\ \A h \in Session : h # g => sess'[h] = sess[h]
           /\ sess'[g] = u
<1>1. sess' = [h \in Session |-> IF h = g THEN u ELSE sess[h]] BY DEF Inv, Sessions
<1>2. \A h \in Session : Filed(sess'[h], txn, lease) BY <1>1 DEF Closing
<1>3. \A h \in Session : Filed(sess[h], txn, lease)' BY <1>2
<1>4. \A t \in Txn : txn'[t].post \in 0 .. newest' BY DEF Closing
<1>5. \A q \in Proc : Letting(proc'[q]) => lease' # proc'[q].t BY DEF Closing, Letting
<1> QED BY <1>1, <1>3, <1>4, <1>5 DEF Closing, Letting

LEMMA Silent ==
    ASSUME Inv, NEW p \in Proc, NEW r, Goto(p, r), ~Letting(r)
    PROVE  \A q \in Proc : proc'[q] = proc[q] \/ ~Letting(proc'[q])
<1>1. proc' = [q \in Proc |-> IF q = p THEN r ELSE proc[q]] BY DEF Goto, Inv, Commands
<1> QED BY <1>1

LEMMA QuitSilent ==
    ASSUME Inv, NEW p \in Proc, Quit(p)
    PROVE  \A q \in Proc : proc'[q] = proc[q] \/ ~Letting(proc'[q])
BY IdleLets, Silent DEF Quit

\* What is written keeps the session open or closed as it was.
LEMMA ClosingWrites ==
    ASSUME Inv, Tidy, Closing, NEW g \in Session, NEW u, OnlySession(g, u), Filed(u, txn, lease),
           \A q \in Proc : proc'[q] = proc[q] \/ ~Letting(proc'[q]), u.closed => sess[g].closed
    PROVE  Closing' /\ NoneCloses
<1>1. sess' = [sess EXCEPT ![g] = u] /\ UNCHANGED <<txn, lease, newest>> BY DEF OnlySession, corpus
<1>2. Closing' /\ \A h \in Session : h # g => sess'[h] = sess[h] BY <1>1, ClosingFiles
<1>3. sess'[g] = u BY <1>1, ClosingFiles
<1> QED BY <1>2, <1>3 DEF NoneCloses

LEMMA Files ==
    ASSUME Inv, Tidy, Closing, NEW g \in Session
    PROVE  Sound(sess[g]) /\ Kept(sess[g]) /\ Balanced(sess[g]) /\ Filed(sess[g], txn, lease)
BY DEF Inv, Sessions, Tidy, Books, Closing

LEMMA EnterClosing ==
    ASSUME Inv, Tidy, Closing, NEW p \in Proc, NEW g \in Session, Enter(p, g) PROVE Closing' /\ NoneCloses
<1> DEFINE u == [sess[g] EXCEPT !.gate = [step |-> sess[g].next, pkg |-> proc[p].pkg, seen |-> None]]
<1>1. Sound(sess[g]) /\ Filed(sess[g], txn, lease) BY Files
<1>2. /\ u.patch = sess[g].patch /\ u.next = sess[g].next /\ u.roll = sess[g].roll
      /\ u.closed = sess[g].closed /\ "closed" \in DOMAIN u
  BY <1>1 DEF Sound, Filed
<1>3. OnlySession(g, u) /\ Quit(p) BY DEF Enter
<1> HIDE DEF u
<1>4. Filed(u, txn, lease) BY <1>1, <1>2 DEF Filed
<1> QED BY <1>2, <1>3, <1>4, QuitSilent, ClosingWrites

LEMMA InspectClosing ==
    ASSUME Inv, Tidy, Closing, NEW g \in Session, NEW S, Inspect(g, S) PROVE Closing' /\ NoneCloses
<1>1. PICK x : OnlySession(g, [sess[g] EXCEPT !.gate.seen = x]) BY DEF Inspect
<1> DEFINE u == [sess[g] EXCEPT !.gate.seen = x]
<1>2. Sound(sess[g]) /\ Filed(sess[g], txn, lease) BY Files
<1>3. /\ u.patch = sess[g].patch /\ u.next = sess[g].next /\ u.roll = sess[g].roll
      /\ u.closed = sess[g].closed /\ "closed" \in DOMAIN u
  BY <1>2 DEF Sound, Filed
<1>4. OnlySession(g, u) /\ UNCHANGED proc BY <1>1 DEF Inspect
<1> HIDE DEF u
<1>5. Filed(u, txn, lease) BY <1>2, <1>3 DEF Filed
<1> QED BY <1>3, <1>4, <1>5, ClosingWrites

LEMMA StartClosing ==
    ASSUME Inv, Tidy, Closing, NEW p \in Proc, NEW g \in Session, Start(p, g) PROVE Closing' /\ NoneCloses
<1> DEFINE u == [Absent EXCEPT !.next = "HYPOTHESIS", !.base = proc[p].pkg, !.roll = proc[p].pkg,
                               !.memory = memory, !.task = task]
<1>1. u.patch = None /\ ~u.closed /\ "closed" \in DOMAIN u BY DEF Absent
<1>2. OnlySession(g, u) /\ Quit(p) BY DEF Start
<1> HIDE DEF u
<1>3. Filed(u, txn, lease) BY <1>1 DEF Filed
<1> QED BY <1>1, <1>2, <1>3, QuitSilent, ClosingWrites

LEMMA AdvanceClosing ==
    ASSUME Inv, Tidy, Closing, NEW p \in Proc, NEW g \in Session, NEW S \in SUBSET Path, Advance(p, g, S)
    PROVE  Closing' /\ NoneCloses
<1> DEFINE s == sess[g]
           u == [s EXCEPT !.mapped = IF s.next = "MAP" THEN S ELSE @,
                          !.exact = IF s.next = "EXACT_SOURCE" THEN s.gate.seen ELSE @,
                          !.patch = IF s.next = "PROVE" THEN Opened(S) ELSE @,
                          !.roll = IF s.next = "PROVE" THEN proc[p].pkg ELSE @,
                          !.next = Follows(s.next), !.gate = None]
<1>1. Sound(s) /\ Filed(s, txn, lease) BY Files
<1>2. OnlySession(g, u) /\ Quit(p) /\ s.next \in PrePatch BY DEF Advance
<1>3. s.patch = None BY <1>1, <1>2 DEF Sound
<1>4. u.patch \in {None, Opened(S)} /\ u.closed = s.closed /\ "closed" \in DOMAIN u BY <1>1, <1>3 DEF Sound, Filed
<1>5. LET o == Opened(S) IN
      o.resv = None /\ o.active = None /\ o.owned = {} /\ o.ok = {} /\ o.used = {} /\ o.status = "OPEN"
  BY DEF Opened
<1> HIDE DEF u
<1>6. Filed(u, txn, lease) BY <1>4, <1>5 DEF Filed
<1> QED BY <1>2, <1>4, <1>6, QuitSilent, ClosingWrites

LEMMA ReframeClosing ==
    ASSUME Inv, Tidy, Closing, NEW p \in Proc, NEW g \in Session, NEW target, Reframe(p, g, target)
    PROVE  Closing' /\ NoneCloses
<1> DEFINE s == sess[g]
           u == [s EXCEPT !.patch = None, !.gate = None, !.base = proc[p].pkg, !.next = target,
                          !.mapped = IF target = "HYPOTHESIS" THEN {} ELSE @, !.exact = None]
<1>1. Sound(s) /\ Filed(s, txn, lease) BY Files
<1>2. OnlySession(g, u) /\ Quit(p) BY DEF Reframe
<1>3. u.patch = None /\ u.closed = s.closed /\ "closed" \in DOMAIN u BY <1>1 DEF Sound, Filed
<1> HIDE DEF u
<1>4. Filed(u, txn, lease) BY <1>3 DEF Filed
<1> QED BY <1>2, <1>3, <1>4, QuitSilent, ClosingWrites

LEMMA PatchCloseClosing ==
    ASSUME Inv, Tidy, Closing, NEW p \in Proc, NEW g \in Session, PatchClose(p, g) PROVE Closing' /\ NoneCloses
<1> DEFINE s == sess[g]
           u == [s EXCEPT !.patch.status = "WORKSHOP_COMPLETE", !.next = "FRESH_RUN", !.gate = None]
<1>0. PICK b : b = s.patch OBVIOUS
<1>1. Sound(s) /\ Filed(s, txn, lease) /\ Balanced(s) BY Files
<1>2. /\ OnlySession(g, u) /\ Quit(p) /\ s.next = "HEARTBEAT" /\ b # None /\ b.status = "OPEN"
      /\ b.active = None /\ b.avail = {} /\ b.ok # {}
  BY <1>0 DEF PatchClose, Through
<1>3. b \in PatchSession /\ b.resv = None BY <1>0, <1>1, <1>2 DEF Balanced, Filed
<1>4. u.patch = [b EXCEPT !.status = "WORKSHOP_COMPLETE"] /\ u.closed = s.closed /\ "closed" \in DOMAIN u /\ u.roll = s.roll
  BY <1>0, <1>1 DEF Sound, Filed
<1>5. /\ u.patch.status = "WORKSHOP_COMPLETE" /\ u.patch.resv = None /\ u.patch.active = None /\ u.patch.avail = {}
      /\ u.patch.ok = b.ok /\ u.patch.used = b.used /\ u.patch.proven = b.proven /\ u.patch.owned = b.owned
  BY <1>2, <1>3, <1>4 DEF PatchSession
<1> HIDE DEF u
<1>6. Filed(u, txn, lease) BY <1>0, <1>1, <1>2, <1>4, <1>5 DEF Filed
<1> QED BY <1>2, <1>4, <1>6, QuitSilent, ClosingWrites

LEMMA ReserveClosing ==
    ASSUME Inv, Tidy, Closing, NEW p \in Proc, NEW g \in Session, NEW S, Reserve(p, g, S) PROVE Closing' /\ NoneCloses
<1> DEFINE s == sess[g]
           u == [s EXCEPT !.patch.resv = p, !.gate = None, !.next = "WORKSHOP"]
           r == [proc[p] EXCEPT !.pc = "manifest", !.g = g, !.req = S]
<1>0. PICK b : b = s.patch OBVIOUS
<1>1. Sound(s) /\ Filed(s, txn, lease) /\ Balanced(s) BY Files
<1>2. OnlySession(g, u) /\ Goto(p, r) /\ b # None /\ b.status = "OPEN" BY <1>0 DEF Reserve
<1>3. b \in PatchSession BY <1>0, <1>1, <1>2 DEF Balanced
<1>4. /\ u.patch = [b EXCEPT !.resv = p] /\ u.closed = s.closed /\ "closed" \in DOMAIN u /\ u.roll = s.roll
      /\ u.next = "WORKSHOP"
  BY <1>0, <1>1 DEF Sound, Filed
<1>5. /\ u.patch.status = b.status /\ u.patch.active = b.active /\ u.patch.avail = b.avail
      /\ u.patch.ok = b.ok /\ u.patch.used = b.used /\ u.patch.proven = b.proven /\ u.patch.owned = b.owned
  BY <1>3, <1>4 DEF PatchSession
<1>6. ~Letting(r) BY DEF Letting, Tidy, Places, Fits
<1> HIDE DEF u, r
<1>7. Filed(u, txn, lease) BY <1>0, <1>1, <1>2, <1>4, <1>5 DEF Filed
<1> QED BY <1>2, <1>4, <1>6, <1>7, Silent, ClosingWrites

LEMMA InvalidateClosing ==
    ASSUME Inv, Tidy, Closing, NEW p \in Proc, Invalidate(p) PROVE Closing' /\ NoneCloses
<1> DEFINE g == proc[p].g
           s == sess[g]
           u == [s EXCEPT !.patch = IF @ = None THEN None ELSE [@ EXCEPT !.status = "INVALIDATED_BY_DRIFT"],
                          !.roll = proc[p].pkg, !.gate = None, !.next = "REFRAME_REQUIRED"]
<1>1. OnlySession(g, u) /\ Quit(p) BY DEF Invalidate
<1>2. CASE g \in Session
  <2>0. PICK b : b = s.patch OBVIOUS
  <2>1. Sound(s) /\ Filed(s, txn, lease) /\ Balanced(s) BY <1>2, Files
  <2>2. /\ u.patch = (IF b = None THEN None ELSE [b EXCEPT !.status = "INVALIDATED_BY_DRIFT"])
        /\ u.closed = s.closed /\ "closed" \in DOMAIN u /\ u.next = "REFRAME_REQUIRED"
    BY <2>0, <2>1 DEF Sound, Filed
  <2>3. b # None => b \in PatchSession BY <2>0, <2>1 DEF Balanced
  <2>4. b # None =>
           /\ u.patch.status = "INVALIDATED_BY_DRIFT" /\ u.patch.active = b.active /\ u.patch.avail = b.avail
           /\ u.patch.ok = b.ok /\ u.patch.used = b.used /\ u.patch.proven = b.proven /\ u.patch.owned = b.owned
           /\ u.patch.resv = b.resv
    BY <2>2, <2>3 DEF PatchSession
  <2>5. b = None => u.patch = None BY <2>2
  <2> HIDE DEF u
  <2>6. Filed(u, txn, lease) BY <2>0, <2>1, <2>2, <2>4, <2>5 DEF Filed
  <2> QED BY <1>1, <1>2, <2>2, <2>6, QuitSilent, ClosingWrites
<1>3. CASE g \notin Session
  <2>1. UNCHANGED <<sess, txn, lease, newest>> BY <1>1, <1>3 DEF Inv, Sessions, OnlySession, corpus
  <2> QED BY <1>1, <2>1, IdleLets, ClosingStops DEF Quit
<1> QED BY <1>2, <1>3

LEMMA CancelReservationClosing ==
    ASSUME Inv, Tidy, Closing, NEW p \in Proc, CancelReservation(p) PROVE Closing' /\ NoneCloses
<1> DEFINE g == proc[p].g
           s == sess[g]
           u == [s EXCEPT !.patch.resv = None, !.next = "PATCH"]
<1>1. CASE OnlySession(g, u) /\ s.patch # None /\ g \in Session
  <2>0. PICK b : b = s.patch OBVIOUS
  <2>1. Sound(s) /\ Filed(s, txn, lease) /\ Balanced(s) BY <1>1, Files
  <2>2. u.patch = [b EXCEPT !.resv = None] /\ u.closed = s.closed /\ "closed" \in DOMAIN u /\ u.roll = s.roll
    BY <2>0, <2>1 DEF Sound, Filed
  <2>3. b \in PatchSession BY <1>1, <2>0, <2>1 DEF Balanced
  <2>4. /\ u.patch.status = b.status /\ u.patch.active = b.active /\ u.patch.avail = b.avail
        /\ u.patch.ok = b.ok /\ u.patch.used = b.used /\ u.patch.proven = b.proven /\ u.patch.owned = b.owned
        /\ u.patch.resv = None
    BY <2>2, <2>3 DEF PatchSession
  <2> HIDE DEF u
  <2>5. Filed(u, txn, lease) BY <1>1, <2>0, <2>1, <2>2, <2>4 DEF Filed
  <2>6. Quit(p) BY DEF CancelReservation
  <2> QED BY <1>1, <2>2, <2>5, <2>6, QuitSilent, ClosingWrites
<1>2. CASE UNCHANGED <<sess, txn, lease, newest>>
  BY <1>2, IdleLets, ClosingStops DEF CancelReservation, Quit
<1>3. CASE OnlySession(g, u) /\ g \notin Session
  <2>1. UNCHANGED <<sess, txn, lease, newest>> BY <1>3 DEF Inv, Sessions, OnlySession, corpus
  <2> QED BY <2>1, IdleLets, ClosingStops DEF CancelReservation, Quit
<1> QED BY <1>1, <1>2, <1>3 DEF CancelReservation, files, corpus

LEMMA BindClosing == ASSUME Inv, Tidy, Closing, NEW p \in Proc, Bind(p) PROVE Closing' /\ NoneCloses
<1>1. proc[p].pc = "bind" /\ proc[p].t \in Txn /\ proc[p].g \in Session
  BY DEF Bind, At, Inv, Commands, Running, Tidy, Places, Fits
<1>2. PICK g \in Session, t \in Txn : g = proc[p].g /\ t = proc[p].t BY <1>1
<1>3. PICK b : b = sess[g].patch OBVIOUS
<1>4. CASE ~(b # None /\ b.resv = p /\ b.active = None)
  BY <1>2, <1>3, <1>4, IdleLets, ClosingStops DEF Bind, Quit, corpus
<1>5. CASE b # None /\ b.resv = p /\ b.active = None
  <2> DEFINE s == sess[g]
             u == [s EXCEPT !.patch.active = t, !.patch.resv = None, !.next = "", !.patch.owned = @ \cup {t}]
             r == [proc[p] EXCEPT !.pc = "materialise"]
  <2>1. OnlySession(g, u) /\ Goto(p, r) BY <1>2, <1>3, <1>5 DEF Bind, Step
  <2>2. Sound(s) /\ Filed(s, txn, lease) /\ Balanced(s) BY Files
  <2>3. b \in PatchSession BY <1>3, <1>5, <2>2 DEF Balanced
  <2>4. /\ u.patch = [b EXCEPT !.active = t, !.resv = None, !.owned = b.owned \cup {t}]
        /\ u.closed = s.closed /\ "closed" \in DOMAIN u /\ u.roll = s.roll
    BY <1>3, <2>2, <2>3 DEF Sound, Filed, PatchSession
  <2>5. /\ u.patch.status = b.status /\ u.patch.active = t /\ u.patch.avail = b.avail /\ u.patch.resv = None
        /\ u.patch.ok = b.ok /\ u.patch.used = b.used /\ u.patch.proven = b.proven /\ u.patch.owned = b.owned \cup {t}
    <3> DEFINE c == b.owned \cup {t}
    <3>1. u.patch = [b EXCEPT !.active = t, !.resv = None, !.owned = c] BY <2>4
    <3> HIDE DEF c, u
    <3>2. u.patch.owned = c BY <2>3, <3>1 DEF PatchSession
    <3>3. /\ u.patch.status = b.status /\ u.patch.active = t /\ u.patch.avail = b.avail /\ u.patch.resv = None
          /\ u.patch.ok = b.ok /\ u.patch.used = b.used /\ u.patch.proven = b.proven
      BY <2>3, <3>1 DEF PatchSession
    <3> QED BY <3>2, <3>3 DEF c
  <2>6. txn[t].st = "" BY <1>1, <1>2 DEF Inv, Births, Newborn
  <2>7. lease \notin b.owned /\ b.status # "WORKSHOP_COMPLETE"
    BY <1>3, <1>5, <2>2, OwnsTxns, Unequal DEF Filed
  <2>8. ~Letting(r) BY DEF Letting, Tidy, Places, Fits
  <2> HIDE DEF u, r
  <2>9. Filed(u, txn, lease) BY <1>3, <1>5, <2>2, <2>4, <2>5, <2>6, <2>7 DEF Filed
  <2> QED BY <2>1, <2>4, <2>8, <2>9, Silent, ClosingWrites
<1> QED BY <1>4, <1>5

LEMMA CancelClosing == ASSUME Inv, Tidy, Closing, NEW p \in Proc, Cancel(p) PROVE Closing' /\ NoneCloses
<1>1. proc[p].pc = "cancel" /\ proc[p].t \in Txn /\ Quit(p) BY DEF Cancel, At, Inv, Commands, Running
<1>2. PICK t \in Txn : t = proc[p].t BY <1>1
<1>3. txn[t].st = "" /\ lease # t BY <1>1, <1>2 DEF Tidy, Places, Fits, Closing, Letting
<1>4. CASE Active(t)
  <2>1. PICK g \in Session : OnlySession(g, [sess[g] EXCEPT !.patch.active = None, !.next = "PATCH"])
                             /\ g \in Owners(t) /\ sess[g].patch.active = t
    <3> DEFINE h == CHOOSE o \in Owners(t) : TRUE
    <3>1. h \in Owners(t) /\ h \in Session /\ sess[h].patch.active = t BY <1>4, TheOwner
    <3>2. OnlySession(h, [sess[h] EXCEPT !.patch.active = None, !.next = "PATCH"]) BY <1>2, <1>4 DEF Cancel
    <3> HIDE DEF h
    <3> QED BY <3>1, <3>2
  <2> DEFINE s == sess[g]
             u == [s EXCEPT !.patch.active = None, !.next = "PATCH"]
  <2>2. PICK b : b = s.patch OBVIOUS
  <2>3. b # None /\ b.active = t BY <2>1, <2>2 DEF Owners
  <2>4. Sound(s) /\ Filed(s, txn, lease) /\ Balanced(s) BY Files
  <2>5. b \in PatchSession /\ b.resv = None BY <2>2, <2>3, <2>4, Unequal DEF Balanced
  <2>6. u.patch = [b EXCEPT !.active = None] /\ u.closed = s.closed /\ "closed" \in DOMAIN u /\ u.roll = s.roll
    BY <2>2, <2>4 DEF Sound, Filed
  <2>7. /\ u.patch.status = b.status /\ u.patch.active = None /\ u.patch.avail = b.avail /\ u.patch.resv = None
        /\ u.patch.ok = b.ok /\ u.patch.used = b.used /\ u.patch.proven = b.proven /\ u.patch.owned = b.owned
    BY <2>5, <2>6 DEF PatchSession
  <2>8. lease \notin b.owned /\ b.status # "WORKSHOP_COMPLETE" BY <1>3, <2>2, <2>3, <2>4, Unequal DEF Filed
  <2> HIDE DEF u
  <2>9. Filed(u, txn, lease) BY <2>2, <2>3, <2>4, <2>6, <2>7, <2>8 DEF Filed
  <2> QED BY <1>1, <2>1, <2>6, <2>9, QuitSilent, ClosingWrites DEF u
<1>5. CASE ~Active(t)
  BY <1>1, <1>2, <1>5, IdleLets, ClosingStops DEF Cancel, Quit, files, corpus
<1> QED BY <1>4, <1>5

LEMMA GuardReleaseClosing == ASSUME Inv, Tidy, Closing, NEW p \in Proc, GuardRelease(p) PROVE Closing' /\ NoneCloses
<1>1. proc[p].pc = "release" /\ proc[p].t \in Txn BY DEF GuardRelease, At, Inv, Commands, Running
<1>2. PICK t \in Txn : t = proc[p].t BY <1>1
<1>3. txn[t].st \in Terminal /\ lease # t BY <1>1, <1>2 DEF Tidy, Places, Fits, Closing, Letting
<1>4. CASE UNCHANGED <<files, corpus>> /\ Quit(p)
  BY <1>4, IdleLets, ClosingStops DEF Quit, files, corpus
<1>5. CASE ~(UNCHANGED <<files, corpus>> /\ Quit(p))
  <2> DEFINE good == txn[t].st = "POSTCHECK_VERIFIED"
             q(h) == IF good THEN Charged(sess[h].patch, t) ELSE sess[h].patch
             w(h) == [sess[h] EXCEPT !.patch = [q(h) EXCEPT !.active = None],
                                     !.roll = IF good THEN txn[t].post ELSE @,
                                     !.next = IF q(h).avail # {} THEN "PATCH" ELSE "HEARTBEAT"]
  <2>1. PICK g \in Session : /\ g \in Owners(t) /\ sess[g].patch.active = t
                             /\ OnlySession(g, w(g))
                             /\ Goto(p, [proc[p] EXCEPT !.pc = "invalidate", !.g = g]) \/ Quit(p)
    <3> DEFINE h == CHOOSE o \in Owners(t) : TRUE
    <3>1. Active(t) BY <1>2, <1>5 DEF GuardRelease
    <3>2. h \in Owners(t) /\ h \in Session /\ sess[h].patch.active = t BY <3>1, TheOwner
    <3>3. /\ OnlySession(h, w(h))
          /\ Goto(p, [proc[p] EXCEPT !.pc = "invalidate", !.g = h]) \/ Quit(p)
      BY <1>2, <1>5 DEF GuardRelease
    <3> HIDE DEF h, w
    <3> QED BY <3>2, <3>3
  <2>2. PICK b : b = sess[g].patch OBVIOUS
  <2>3. b # None /\ b.active = t BY <2>1, <2>2 DEF Owners
  <2>4. Sound(sess[g]) /\ Kept(sess[g]) /\ Filed(sess[g], txn, lease) /\ Balanced(sess[g]) BY Files
  <2>5. b \in PatchSession /\ b.resv = None /\ b.avail = b.proven \ b.used /\ b.used = Changed(b.ok)
    BY <2>2, <2>3, <2>4, Unequal DEF Balanced
  <2>6. PICK c : c = q(g) OBVIOUS
  <2>7. PICK u : u = w(g) OBVIOUS
  <2>8. /\ c \in PatchSession /\ c.resv = None /\ c.owned = b.owned /\ c.proven = b.proven /\ c.status = b.status
        /\ IF good THEN c.ok = b.ok \cup {t} /\ c.used = b.used \cup txn[t].changed /\ c.avail = b.avail \ txn[t].changed
                   ELSE c = b
    <3>1. good => c = Charged(b, t) BY <2>2, <2>6
    <3>2. c = Charged(b, t) =>
             /\ c \in PatchSession /\ c.resv = b.resv /\ c.owned = b.owned /\ c.proven = b.proven /\ c.ok = b.ok \cup {t}
      BY <2>5, ChargedBalances
    <3>3. c = Charged(b, t) =>
             c.status = b.status /\ c.used = b.used \cup txn[t].changed /\ c.avail = b.avail \ txn[t].changed
      BY <2>5 DEF Charged, PatchSession
    <3>4. ~good => c = b BY <2>2, <2>6
    <3> HIDE DEF good, q
    <3> QED BY <2>5, <3>1, <3>2, <3>3, <3>4
  <2>9. /\ u.patch = [c EXCEPT !.active = None] /\ u.closed = sess[g].closed /\ "closed" \in DOMAIN u
        /\ u.roll = (IF good THEN txn[t].post ELSE sess[g].roll)
    BY <2>4, <2>6, <2>7 DEF Sound, Filed
  <2>10. /\ u.patch.status = c.status /\ u.patch.active = None /\ u.patch.avail = c.avail /\ u.patch.resv = None
         /\ u.patch.ok = c.ok /\ u.patch.used = c.used /\ u.patch.proven = c.proven /\ u.patch.owned = c.owned
    BY <2>8, <2>9 DEF PatchSession
  <2>11. lease \notin b.owned /\ b.status # "WORKSHOP_COMPLETE" BY <1>3, <2>2, <2>3, <2>4, Unequal DEF Filed
  <2>12. good => /\ txn[t].changed \subseteq b.avail /\ txn[t].post \in Nat
                 /\ \A v \in b.ok : txn[v].post <= txn[t].post
    BY <2>2, <2>3, <2>4, Unequal, Bounds DEF Filed, Closing
  <2>13. Filed(u, txn, lease)
    <3>1. CASE good
      <4>1. \A v \in c.ok : txn[v].post <= txn[t].post BY <2>8, <2>12, <3>1
      <4>2. t \in c.ok /\ u.roll = txn[t].post BY <2>8, <2>9, <3>1
      <4>3. c.used \subseteq c.proven BY <2>5, <2>8, <2>12, <2>2, <2>3, <2>4, <3>1 DEF Filed
      <4>4. \E v \in u.patch.ok : u.roll = txn[v].post /\ \A x \in u.patch.ok : txn[x].post <= txn[v].post
        BY <2>10, <4>1, <4>2
      <4> HIDE DEF good
      <4> QED BY <2>8, <2>9, <2>10, <2>11, <4>3, <4>4 DEF Filed
    <3>2. CASE ~good
      <4>1. c = b /\ u.roll = sess[g].roll BY <2>8, <2>9, <3>2
      <4> HIDE DEF good
      <4> QED BY <2>2, <2>3, <2>4, <2>9, <2>10, <2>11, <4>1 DEF Filed
    <3> QED BY <3>1, <3>2
  <2>14. \A x \in Proc : proc'[x] = proc[x] \/ ~Letting(proc'[x])
    <3>1. ~Letting([proc[p] EXCEPT !.pc = "invalidate", !.g = g]) BY DEF Letting, Tidy, Places, Fits
    <3> QED BY <2>1, <3>1, Silent, QuitSilent
  <2>15. OnlySession(g, u) BY <2>1, <2>7
  <2> HIDE DEF good, q, w
  <2> QED BY <2>9, <2>13, <2>14, <2>15, ClosingWrites
<1> QED BY <1>4, <1>5

-----------------------------------------------------------------------------
(* A transaction is written. *)

LEMMA ClosingTxn ==
    ASSUME Inv, Tidy, Closing, NEW p \in Proc, NEW t \in Txn, NEW r, NEW x,
           txn' = [txn EXCEPT ![t] = r], UNCHANGED <<sess, lease>>, Goto(p, x), ~Letting(x),
           newest' \in Nat, newest <= newest', txn[t].st \notin Terminal,
           \/ r.st # "POSTCHECK_VERIFIED" /\ r.post \in 0 .. newest'
           \/ Live(t) /\ r.changed = txn[t].changed /\ r.post = newest'
    PROVE  Closing' /\ NoneCloses
<1>1. txn' = [v \in Txn |-> IF v = t THEN r ELSE txn[v]] BY DEF Inv, Transactions
<1>2. PICK T : T = txn' OBVIOUS
<1>3. \A v \in Txn : v # t => T[v] = txn[v] BY <1>1, <1>2
<1>4. T[t] = r BY <1>1, <1>2
<1>5. newest \in Nat /\ \A v \in Txn : txn[v].post \in 0 .. newest BY Bounds DEF Closing, Inv, Corpus
<1>6. \A v \in Txn : T[v].post \in 0 .. newest' BY <1>3, <1>4, <1>5
<1>7. ASSUME NEW h \in Session PROVE Filed(sess[h], T, lease)
  <2>1. Filed(sess[h], txn, lease) /\ Kept(sess[h]) BY Files
  <2>2. CASE sess[h].patch = None BY <2>1, <2>2 DEF Filed
  <2>3. CASE sess[h].patch # None
    <3>1. PICK q : q = sess[h].patch OBVIOUS
    <3>2. q \in PatchSession /\ q.active \in Txn \cup {None} /\ q.ok \subseteq Txn
      BY <2>3, <3>1, OwnsTxns DEF PatchSession
    <3>3. \A v \in q.ok : v # t /\ v \in Txn /\ T[v] = txn[v]
      BY <1>3, <2>1, <2>3, <3>1, <3>2 DEF Kept, Terminal
    <3>4. ASSUME q.active # None, T[q.active].st = "POSTCHECK_VERIFIED"
          PROVE  T[q.active].changed \subseteq q.avail /\ \A v \in q.ok : T[v].post <= T[q.active].post
      <4>1. CASE q.active = t
        <5>1. Live(t) /\ r.changed = txn[t].changed /\ r.post = newest' BY <1>4, <3>4, <4>1
        <5>2. Holds(t, txn[t].req) /\ txn[t].changed \subseteq txn[t].req BY <5>1 DEF Tidy, Requests
        <5>3. h \in Owners(t) BY <2>1, <2>3, <3>1, <3>4, <4>1 DEF Filed, Owners
        <5>4. txn[t].req \subseteq q.avail BY <3>1, <5>2, <5>3, HeldBy
        <5>5. \A v \in q.ok : T[v].post <= newest' BY <1>6, <3>2
        <5> HIDE DEF Live
        <5> QED BY <1>4, <4>1, <5>1, <5>2, <5>4, <5>5
      <4>2. CASE q.active # t
        <5>1. T[q.active] = txn[q.active] BY <1>3, <3>2, <3>4, <4>2
        <5> QED BY <2>1, <2>3, <3>1, <3>3, <3>4, <5>1 DEF Filed
      <4> QED BY <4>1, <4>2
    <3>5. q.status # "INVALIDATED_BY_DRIFT" /\ q.ok # {} =>
             \E v \in q.ok : sess[h].roll = T[v].post /\ \A w \in q.ok : T[w].post <= T[v].post
      BY <2>1, <2>3, <3>1, <3>3 DEF Filed
    <3> QED BY <2>1, <2>3, <3>1, <3>4, <3>5 DEF Filed
  <2> QED BY <2>2, <2>3
<1>8. \A h \in Session : Filed(sess[h], txn, lease)' BY <1>2, <1>7
<1>9. \A v \in Txn : txn'[v].post \in 0 .. newest' BY <1>2, <1>6
<1>10. \A q \in Proc : (Letting(proc[q]) => lease # proc[q].t)'
  <2>1. \A q \in Proc : proc'[q] = proc[q] \/ ~Letting(proc'[q]) BY Silent
  <2> QED BY <2>1 DEF Closing, Letting
<1>11. NoneCloses BY DEF NoneCloses
<1> QED BY <1>8, <1>9, <1>10, <1>11 DEF Closing

LEMMA MaterialiseClosing == ASSUME Inv, Tidy, Closing, NEW p \in Proc, Materialise(p) PROVE Closing' /\ NoneCloses
<1>1. proc[p].pc = "materialise" /\ proc[p].t \in Txn BY DEF Materialise, At, Inv, Commands, Running
<1>2. PICK t \in Txn : t = proc[p].t BY <1>1
<1>3. PICK r : r = [NoFile EXCEPT !.st = "CHECKED_OUT", !.base = proc[p].pkg, !.req = proc[p].req] OBVIOUS
<1>4. r.st = "CHECKED_OUT" /\ r.post = 0 BY <1>3 DEF NoFile
<1>5. txn[t].st \notin Terminal BY <1>1, <1>2 DEF Inv, Births, Newborn, Terminal, Undone
<1>6. newest \in Nat /\ UNCHANGED <<sess, lease, newest>> /\ txn' = [txn EXCEPT ![t] = r] /\ Goto(p, Idle)
  BY <1>2, <1>3, Bounds DEF Inv, Corpus, Materialise, OnlyTxn, Quit, corpus
<1>7. newest <= newest' /\ newest' \in Nat /\ r.post \in 0 .. newest' BY <1>4, <1>6
<1> QED BY <1>4, <1>5, <1>6, <1>7, IdleLets, ClosingTxn

\* The status of a live transaction is written, and no result.
LEMMA ClosingStatus ==
    ASSUME Inv, Tidy, Closing, NEW p \in Proc, NEW t \in Txn, NEW r, NEW x, Live(t),
           txn' = [txn EXCEPT ![t] = r], UNCHANGED <<sess, lease, newest>>, Goto(p, x), ~Letting(x),
           r.st # "POSTCHECK_VERIFIED", r.post = txn[t].post
    PROVE  Closing' /\ NoneCloses
<1>1. newest \in Nat /\ txn[t].post \in 0 .. newest BY Bounds DEF Closing, Inv, Corpus
<1>2. newest' \in Nat /\ newest <= newest' /\ r.post \in 0 .. newest' BY <1>1
<1>3. txn[t].st \notin Terminal BY DEF Live
<1> QED BY <1>2, <1>3, ClosingTxn

LEMMA PrepareClosing ==
    ASSUME Inv, Tidy, Closing, NEW p \in Proc, NEW t \in Txn, NEW S, Prepare(p, t, S) PROVE Closing' /\ NoneCloses
<1>1. PICK r : r = [txn[t] EXCEPT !.st = "PREPARED", !.changed = S] OBVIOUS
<1>2. /\ txn' = [txn EXCEPT ![t] = r] /\ UNCHANGED <<sess, lease, newest, proc>>
      /\ txn[t].st \in PreApply /\ proc[p].pc = "idle"
  BY <1>1 DEF Prepare, OnlyTxn, MayWork, At, corpus
<1>3. Live(t) BY <1>2 DEF PreApply, Live, Terminal, Undone
<1>4. r.st = "PREPARED" /\ r.post = txn[t].post BY <1>1 DEF Inv, Transactions, Saved
<1>5. Goto(p, proc[p]) /\ ~Letting(proc[p]) BY <1>2 DEF Goto, Inv, Commands, Letting
<1> QED BY <1>2, <1>3, <1>4, <1>5, ClosingStatus

LEMMA ApplyClosing ==
    ASSUME Inv, Tidy, Closing, NEW p \in Proc, NEW t \in Txn, Apply(p, t) PROVE Closing' /\ NoneCloses
<1>1. PICK r, x : r = [txn[t] EXCEPT !.st = "APPLYING"] /\ x = [Idle EXCEPT !.pc = "apply", !.t = t] OBVIOUS
<1>2. Live(t) BY DEF Apply, Live, Terminal, Undone
<1>3. txn' = [txn EXCEPT ![t] = r]
  <2>1. txn' = [txn EXCEPT ![t].st = "APPLYING"] BY DEF Apply
  <2> QED BY <1>1, <2>1
<1>4. UNCHANGED <<sess, lease, newest>> /\ Goto(p, x) BY <1>1 DEF Apply
<1>5. r.st = "APPLYING" /\ r.post = txn[t].post BY <1>1 DEF Inv, Transactions, Saved
<1>6. ~Letting(x) BY <1>1 DEF Idle, Letting
<1> QED BY <1>2, <1>3, <1>4, <1>5, <1>6, ClosingStatus

LEMMA AbortClosing ==
    ASSUME Inv, Tidy, Closing, NEW p \in Proc, NEW t \in Txn, Abort(p, t) PROVE Closing' /\ NoneCloses
<1>1. PICK x : x = [Idle EXCEPT !.pc = "terminal", !.t = t] OBVIOUS
<1>2. PICK st \in {"ABORTED", "ABORTED_STALE_BASELINE"} : OnlyTxn(t, [txn[t] EXCEPT !.st = st]) BY DEF Abort
<1>3. Live(t) BY DEF Abort, PreApply, Live, Terminal, Undone
<1>4. PICK r : r = [txn[t] EXCEPT !.st = st] OBVIOUS
<1>5. txn' = [txn EXCEPT ![t] = r] /\ UNCHANGED <<sess, lease, newest>> /\ Goto(p, x)
  BY <1>1, <1>2, <1>4 DEF Abort, OnlyTxn, corpus
<1>6. r.st # "POSTCHECK_VERIFIED" /\ r.post = txn[t].post BY <1>2, <1>4 DEF Inv, Transactions, Saved
<1>7. ~Letting(x) BY <1>1 DEF Idle, Letting
<1> QED BY <1>3, <1>5, <1>6, <1>7, ClosingStatus

LEMMA RecordClosing ==
    ASSUME Inv, Tidy, Closing, NEW p \in Proc, NEW t \in Txn, NEW r, NEW pc, Live(t), UNCHANGED <<sess, lease>>,
           Record(p, t, r, pc), pc \in {"idle", "terminal"}, newest' \in Nat, newest <= newest',
           \/ r.st # "POSTCHECK_VERIFIED" /\ r.post \in 0 .. newest'
           \/ r.changed = txn[t].changed /\ r.post = newest'
    PROVE  Closing' /\ NoneCloses
<1>1. CASE ~Active(t)
  <2>1. UNCHANGED <<sess, txn, lease>> /\ Quit(p) BY <1>1 DEF Record
  <2>2. \A q \in Proc : Letting(proc'[q]) => lease' # proc'[q].t
    BY <2>1, QuitSilent DEF Closing, Letting
  <2> QED BY <2>1, <2>2, ClosingRests
<1>2. CASE Active(t)
  <2>1. PICK x : x = [Idle EXCEPT !.pc = pc, !.t = IF pc = "idle" THEN None ELSE t] OBVIOUS
  <2>2. txn' = [txn EXCEPT ![t] = r] /\ Goto(p, x) BY <1>2, <2>1 DEF Record
  <2>3. ~Letting(x) BY <2>1 DEF Idle, Letting
  <2>4. txn[t].st \notin Terminal BY DEF Live
  <2> QED BY <2>2, <2>3, <2>4, ClosingTxn
<1> QED BY <1>1, <1>2

LEMMA EndsClosing ==
    ASSUME Inv, Tidy, Closing, NEW p \in Proc, NEW t \in Txn, Live(t), Publish(p, t) \/ RollBack(p, t)
    PROVE  Closing' /\ NoneCloses
<1>1. newest \in Nat /\ txn[t].post \in 0 .. newest BY Bounds DEF Closing, Inv, Corpus
<1>2. {"st", "req", "changed", "post"} \subseteq DOMAIN txn[t] BY DEF Tidy, Requests, Inv, Transactions, Saved
<1>3. CASE Publish(p, t)
  <2>1. PICK r : r = [txn[t] EXCEPT !.st = "POSTCHECK_VERIFIED", !.post = newest'] OBVIOUS
  <2>2. r.changed = txn[t].changed /\ r.post = newest' BY <1>2, <2>1
  <2>3. Record(p, t, r, "terminal") /\ UNCHANGED <<sess, lease>> /\ newest' = newest + 1 BY <1>3, <2>1 DEF Publish
  <2>4. newest' \in Nat /\ newest <= newest' BY <1>1, <2>3
  <2> QED BY <2>2, <2>3, <2>4, RecordClosing
<1>4. CASE RollBack(p, t)
  <2>1. PICK r : r = [txn[t] EXCEPT !.st = "ROLLED_BACK"] OBVIOUS
  <2>2. r.st = "ROLLED_BACK" /\ r.post = txn[t].post BY <1>2, <2>1
  <2>3. Record(p, t, r, "terminal") /\ UNCHANGED <<sess, lease, newest>> BY <1>4, <2>1 DEF RollBack
  <2>4. newest' \in Nat /\ newest <= newest' /\ r.post \in 0 .. newest' BY <1>1, <2>2, <2>3
  <2> QED BY <2>2, <2>3, <2>4, RecordClosing
<1> QED BY <1>3, <1>4

LEMMA RecoverClosing ==
    ASSUME Inv, Tidy, Closing, NEW p \in Proc, NEW t \in Txn, Recover(p, t) PROVE Closing' /\ NoneCloses
<1>1. Live(t) BY DEF Recover, Live, Terminal, Undone
<1> QED BY <1>1, EndsClosing DEF Recover

LEMMA ApplyEndsClosing ==
    ASSUME Inv, Tidy, Closing, NEW p \in Proc, ApplyEnds(p) \/ ApplyFails(p) PROVE Closing' /\ NoneCloses
<1>1. proc[p].pc = "apply" /\ proc[p].t \in Txn BY DEF ApplyEnds, ApplyFails, At, Inv, Commands, Running
<1>2. PICK t \in Txn : t = proc[p].t BY <1>1
<1>3. Live(t) BY <1>1, <1>2 DEF Inv, Tearing, Live, Terminal, Undone
<1>4. CASE Publish(p, t) \/ RollBack(p, t) BY <1>3, <1>4, EndsClosing
<1>5. CASE Record(p, t, [txn[t] EXCEPT !.st = "RECOVERY_REQUIRED"], "idle") /\ UNCHANGED <<sess, lease, corpus>>
  <2>1. PICK r : r = [txn[t] EXCEPT !.st = "RECOVERY_REQUIRED"] OBVIOUS
  <2>2. r.st = "RECOVERY_REQUIRED" /\ r.post = txn[t].post BY <2>1 DEF Inv, Transactions, Saved
  <2>3. newest \in Nat /\ txn[t].post \in 0 .. newest /\ newest' = newest
    BY <1>5, Bounds DEF Closing, Inv, Corpus, corpus
  <2>4. newest' \in Nat /\ newest <= newest' /\ r.post \in 0 .. newest' BY <2>2, <2>3
  <2>5. UNCHANGED <<sess, lease>> BY <1>5
  <2> QED BY <1>3, <1>5, <2>1, <2>2, <2>4, <2>5, RecordClosing
<1> QED BY <1>2, <1>4, <1>5 DEF ApplyEnds, ApplyFails

-----------------------------------------------------------------------------
\* What ClosedMeansDone asks of a session.
Done(g) ==
    LET q == sess[g].patch IN
    /\ q.active = None /\ q.resv = None /\ q.proven = Changed(q.ok)
    /\ \E t \in q.ok : sess[g].roll = txn[t].post /\ \A u \in q.ok : txn[u].post <= txn[t].post
    /\ lease \notin q.owned

OnlyDoneCloses == \A g \in Session : sess'[g].closed /\ ~sess[g].closed => Done(g)

LEMMA FreshRunClosing ==
    ASSUME Inv, Tidy, Closing, NEW p \in Proc, NEW g \in Session, FreshRun(p, g) PROVE Closing' /\ OnlyDoneCloses
<1> DEFINE s == sess[g]
           u == [s EXCEPT !.closed = TRUE, !.next = "", !.gate = None]
<1>0. PICK b : b = s.patch OBVIOUS
<1>1. Sound(s) /\ Filed(s, txn, lease) /\ Balanced(s) BY Files
<1>2. OnlySession(g, u) /\ Quit(p) /\ b # None /\ b.status = "WORKSHOP_COMPLETE" BY <1>0 DEF FreshRun
<1>3. u.patch = b /\ "closed" \in DOMAIN u /\ u.roll = s.roll BY <1>0, <1>1 DEF Sound, Filed
<1>4. b.active = None /\ b.resv = None /\ b.avail = {} /\ b.ok # {} BY <1>0, <1>1, <1>2 DEF Filed
<1> HIDE DEF u
<1>5. Filed(u, txn, lease) BY <1>0, <1>1, <1>2, <1>3, <1>4 DEF Filed
<1>6. sess' = [sess EXCEPT ![g] = u] /\ UNCHANGED <<txn, lease, newest>> BY <1>2 DEF OnlySession, corpus
<1>7. \A q \in Proc : proc'[q] = proc[q] \/ ~Letting(proc'[q]) BY <1>2, QuitSilent
<1>8. Closing' /\ \A h \in Session : h # g => sess'[h] = sess[h] BY <1>5, <1>6, <1>7, ClosingFiles
<1>9. Done(g)
  <2>1. b.proven = Changed(b.ok)
    <3>1. b.avail = b.proven \ b.used /\ b.used = Changed(b.ok) BY <1>0, <1>1, <1>2 DEF Balanced
    <3>2. b.used \subseteq b.proven BY <1>0, <1>1, <1>2 DEF Filed
    <3>3. b.proven = b.used BY <1>4, <3>1, <3>2
    <3> QED BY <3>1, <3>3
  <2>2. \E t \in b.ok : s.roll = txn[t].post /\ \A v \in b.ok : txn[v].post <= txn[t].post
    BY <1>0, <1>1, <1>2, <1>4 DEF Filed
  <2>3. lease \notin b.owned BY <1>0, <1>1, <1>2, <1>4, OwnsTxns DEF Filed
  <2> QED BY <1>0, <1>4, <2>1, <2>2, <2>3 DEF Done
<1> QED BY <1>8, <1>9 DEF OnlyDoneCloses

LEMMA InitClosing == ASSUME Init PROVE Closing
<1>1. \A g \in Session : Filed(sess[g], txn, lease) BY DEF Init, Absent, Filed
<1>2. \A t \in Txn : txn[t].post \in 0 .. newest
  <2>1. NoFile.post = 0 /\ newest = 0 BY DEF Init, NoFile
  <2>2. \A t \in Txn : txn[t] = NoFile BY DEF Init
  <2> QED BY <2>1, <2>2
<1>3. \A p \in Proc : ~Letting(proc[p]) BY IdleLets DEF Init
<1> QED BY <1>1, <1>2, <1>3 DEF Closing

LEMMA NextClosing ==
    ASSUME Inv, Tidy, Closing, [Next]_gvars
    PROVE  Closing' /\ OnlyDoneCloses
<1>0. ASSUME NoneCloses PROVE OnlyDoneCloses BY <1>0 DEF NoneCloses, OnlyDoneCloses
<1>1. CASE UNCHANGED gvars BY <1>0, <1>1, EnvironmentClosing
<1>2. ASSUME NEW p \in Proc, Investigate(p) PROVE Closing' /\ OnlyDoneCloses
  <2>1. CASE ReadPackage(p) \/ Refused(p) BY <1>0, <2>1, ReadPackageClosing, RefusedClosing
  <2>2. ASSUME NEW g \in Session, Start(p, g) \/ Enter(p, g) \/ PatchClose(p, g) \/ Reconcile(p, g)
        PROVE  Closing' /\ OnlyDoneCloses
    BY <1>0, <2>2, StartClosing, EnterClosing, PatchCloseClosing, ReconcileClosing
  <2>3. ASSUME NEW g \in Session, FreshRun(p, g) PROVE Closing' /\ OnlyDoneCloses BY <2>3, FreshRunClosing
  <2>4. ASSUME NEW g \in Session, NEW S \in SUBSET Path, Advance(p, g, S) \/ Reserve(p, g, S)
        PROVE  Closing' /\ OnlyDoneCloses
    BY <1>0, <2>4, AdvanceClosing, ReserveClosing
  <2>5. ASSUME NEW g \in Session, NEW target \in {"HYPOTHESIS", "MAP"}, Reframe(p, g, target)
        PROVE  Closing' /\ OnlyDoneCloses
    BY <1>0, <2>5, ReframeClosing
  <2> QED BY <1>2, <2>1, <2>2, <2>3, <2>4, <2>5 DEF Investigate
<1>3. ASSUME NEW p \in Proc, Work(p) PROVE Closing' /\ NoneCloses
  <2>1. CASE Manifest(p) \/ Bind(p) \/ Materialise(p) \/ CheckoutFails(p) \/ Cancel(p)
    BY <2>1, ManifestClosing, BindClosing, MaterialiseClosing, UnleaseClosing, CancelClosing
  <2>2. CASE ApplyEnds(p) \/ ApplyFails(p) BY <2>2, ApplyEndsClosing
  <2>3. CASE AssertRelease(p) \/ Unlease(p) \/ GuardRelease(p) \/ Invalidate(p)
    BY <2>3, AssertReleaseClosing, UnleaseClosing, GuardReleaseClosing, InvalidateClosing
  <2>4. CASE Unbind(p) \/ Unreserve(p) \/ CancelReservation(p) \/ Reseal(p) \/ Kill(p)
    BY <2>4, UnleaseClosing, CancelReservationClosing, EnvironmentClosing, RefusedClosing
  <2>5. ASSUME NEW t \in Txn, Acquire(p, t) \/ Recover(p, t) \/ Abort(p, t) \/ Resume(p, t)
        PROVE  Closing' /\ NoneCloses
    BY <2>5, AcquireClosing, RecoverClosing, AbortClosing, ResumeClosing
  <2> QED BY <1>3, <2>1, <2>2, <2>3, <2>4, <2>5 DEF Work
<1>4. CASE ForeignEdit \/ IdentityChanges BY <1>0, <1>4, EnvironmentClosing
<1>5. ASSUME NEW g \in Session, NEW S, Inspect(g, S) PROVE Closing' /\ NoneCloses BY <1>5, InspectClosing
<1>6. ASSUME NEW p \in Proc, NEW t \in Txn, Apply(p, t) \/ \E S \in SUBSET Path : Prepare(p, t, S)
      PROVE  Closing' /\ NoneCloses
  BY <1>6, ApplyClosing, PrepareClosing
<1> QED BY <1>0, <1>1, <1>2, <1>3, <1>4, <1>5, <1>6 DEF Next, GuardNext, Environment

(* Under the same assumption a session closes (guardian.py fresh-run) only *)
(* when all that was proven is published, on the package its last verified *)
(* transaction left, with no reservation, no active transaction and no     *)
(* lease of its own behind it.                                             *)
THEOREM ClosesWhenDone == Spec /\ [][ReconcileAfterCrash]_gvars => ClosedMeansDone
<1>1. Init => Inv /\ Tidy /\ Closing BY InitInv, InitTidy, InitClosing
<1>2. Inv /\ Tidy /\ Closing /\ [Next]_gvars /\ [ReconcileAfterCrash]_gvars =>
         (Inv /\ Tidy /\ Closing)' /\ [OnlyDoneCloses]_gvars
  BY NextKeeps, NextTidy, NextClosing
<1>3. OnlyDoneCloses <=>
      \A g \in Session : sess'[g].closed /\ ~sess[g].closed =>
         LET q == sess[g].patch IN
         /\ q.active = None /\ q.resv = None /\ q.proven = Changed(q.ok)
         /\ \E t \in q.ok : sess[g].roll = txn[t].post /\ \A u \in q.ok : txn[u].post <= txn[t].post
         /\ lease \notin q.owned
  BY DEF OnlyDoneCloses, Done
<1> QED BY <1>1, <1>2, <1>3, PTL DEF Spec, ClosedMeansDone
=============================================================================
