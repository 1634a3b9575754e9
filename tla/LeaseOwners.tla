----------------------------- MODULE LeaseOwners -----------------------------
(***************************************************************************)
(* The record that says who holds a lease (atrinik_workspace/locking.py:   *)
(* _resource_owner, _lease_owner_summary, resource_locks of one            *)
(* coordinate).  A call publishes its record before it asks for the lease, *)
(* rewrites it once the lease is there and removes it after the lease is   *)
(* given back; whoever is refused, or waits too long, reads the records of *)
(* the coordinate and removes those whose owner is gone.                   *)
(*                                                                         *)
(* Nothing tells an owner that lives from one that is gone but the flock   *)
(* on its record, which a child inherits together with the lease; and four *)
(* kinds of lock are taken in more than one order: the staging directory,  *)
(* the directory of the records, the lease itself and the transition.      *)
(*                                                                         *)
(* A call is one acquisition, with a token of its own: a process that      *)
(* calls again is another element of Calls.  The lease is the readers and  *)
(* writers' lock that LayoutLock implements.                               *)
(***************************************************************************)
EXTENDS Naturals, FiniteSets

CONSTANTS Calls, None,
          Ways,      \* how the calls may ask
          Faults,    \* of "stage", "admit", "release": the write that fails
          MaxFault, MaxKill

Modes == {"exclusive", "shared"}
Asks == [mode : Modes, wait : BOOLEAN, inherit : BOOLEAN]

Assumptions ==
  /\ None \notin Calls
  /\ Ways \subseteq [Calls -> Asks]
  /\ Faults \subseteq {"stage", "admit", "release"}
  /\ MaxFault \in Nat /\ MaxKill \in Nat

VARIABLES pc,      \* where a call is
          ask,     \* how it asks: the mode, whether it waits, whether children inherit
          end,     \* how it ends, once it gives up or gives back
          main,    \* main[c]: the call holds the lease
          kid,     \* kid[c]: a child holds what the call held when it was started
          open,    \* open[c]: the call has its record open, and locked
          staged,  \* staged[c]: its record is linked in the staging directory
          record,  \* what its record says in the directory of the records
          dir,     \* who has that directory locked
          stage,   \* who has the staging directory locked
          trans,   \* who has the transition locked alone
          scan,    \* the diagnosis made for a call
          spent    \* faults and kills so far

vars == <<pc, ask, end, main, kid, open, staged, record, dir, stage, trans, scan, spent>>

Ends == {"done", "busy", "failed"}
Labels == {"idle", "stage dir", "create", "link", "unstage", "ask", "transition",
           "admit dir", "rewrite", "held", "leave dir", "release", "forget", "uncertain",
           "dead"} \cup Ends
Phases == {"waiting", "admitted", "uncertain"}
Users == {<<"call", c>> : c \in Calls} \cup {<<"scan", c>> : c \in Calls} \cup {None}

\* Where a diagnosis is: it reads the records once, and once more behind the transition
\* when it found one that waits.
Diagnosis == [at : {"off", "dir", "read", "transition", "told"}, again : BOOLEAN,
              left : SUBSET Calls, named : SUBSET Calls, waits : BOOLEAN,
              met : SUBSET Calls, gone : SUBSET Calls]
NoDiagnosis == [at |-> "off", again |-> FALSE, left |-> {}, named |-> {}, waits |-> FALSE,
                met |-> {}, gone |-> {}]

TypeOK ==
  /\ pc \in [Calls -> Labels] /\ ask \in Ways /\ end \in [Calls -> Ends]
  /\ main \in [Calls -> BOOLEAN] /\ kid \in [Calls -> BOOLEAN] /\ open \in [Calls -> BOOLEAN]
  /\ staged \in [Calls -> BOOLEAN] /\ record \in [Calls -> {"none", "torn"} \cup Phases]
  /\ dir \in Users /\ stage \in Calls \cup {None} /\ trans \in Calls \cup {None}
  /\ scan \in [Calls -> Diagnosis]
  /\ spent \in [fault : 0 .. MaxFault, kill : 0 .. MaxKill]

Init ==
  /\ pc = [c \in Calls |-> "idle"] /\ ask \in Ways
  /\ end = [c \in Calls |-> "done"]
  /\ main = [c \in Calls |-> FALSE] /\ kid = [c \in Calls |-> FALSE]
  /\ open = [c \in Calls |-> FALSE] /\ staged = [c \in Calls |-> FALSE]
  /\ record = [c \in Calls |-> "none"]
  /\ dir = None /\ stage = None /\ trans = None
  /\ scan = [c \in Calls |-> NoDiagnosis]
  /\ spent = [fault |-> 0, kill |-> 0]

Go(c, label) == pc' = [pc EXCEPT ![c] = label]
Fails(kind) == kind \in Faults /\ spent.fault < MaxFault
               /\ spent' = [spent EXCEPT !.fault = @ + 1]
Works == UNCHANGED spent

Holds(c) == main[c] \/ kid[c]

\* The flock of a record lasts while anybody has it open: the call, or its child.
Locked(c) == open[c] \/ kid[c]

\* The lease is granted: an exclusive one alone, a shared one among shared ones.
Grantable(c) == \A d \in Calls \ {c} :
                  Holds(d) => ask[c].mode = "shared" /\ ask[d].mode = "shared"

-----------------------------------------------------------------------------
(* The record is published: written in the staging directory, linked, unstaged *)

\* The directories are opened or made.
LockStage(c) ==
  /\ pc[c] = "idle" /\ stage = None
  /\ stage' = c /\ Go(c, "stage dir")
  /\ UNCHANGED <<ask, end, main, kid, open, staged, record, dir, trans, scan, spent>>

LockDirToStage(c) ==
  /\ pc[c] = "stage dir" /\ dir = None
  /\ dir' = <<"call", c>> /\ Go(c, "create")
  /\ UNCHANGED <<ask, end, main, kid, open, staged, record, stage, trans, scan, spent>>

\* The file is created and locked at once; until it is linked only staging knows it.
Create(c) ==
  /\ pc[c] = "create"
  /\ open' = [open EXCEPT ![c] = TRUE] /\ staged' = [staged EXCEPT ![c] = TRUE]
  /\ Go(c, "link")
  /\ UNCHANGED <<ask, end, main, kid, record, dir, stage, trans, scan, spent>>

Link(c) ==
  /\ pc[c] = "link" /\ Works
  /\ record' = [record EXCEPT ![c] = "waiting"] /\ Go(c, "unstage")
  /\ UNCHANGED <<ask, end, main, kid, open, staged, dir, stage, trans, scan>>

Unstage(c) ==
  /\ pc[c] = "unstage" /\ Works
  /\ staged' = [staged EXCEPT ![c] = FALSE]
  /\ dir' = None /\ stage' = None /\ Go(c, "ask")
  /\ UNCHANGED <<ask, end, main, kid, open, record, trans, scan>>

\* A write, the link or the unlink fails: both names are removed again, unless that fails
\* too; then one stays behind unlocked.  The call never asks for the lease.
PublishFails(c) ==
  /\ pc[c] \in {"link", "unstage"} /\ Fails("stage")
  /\ open' = [open EXCEPT ![c] = FALSE]
  /\ record' \in {record, [record EXCEPT ![c] = "none"]}
  /\ staged' \in {staged, [staged EXCEPT ![c] = FALSE]}
  /\ dir' = None /\ stage' = None /\ Go(c, "failed")
  /\ UNCHANGED <<ask, end, main, kid, trans, scan>>

-----------------------------------------------------------------------------
(* The lease is asked for, and the record rewritten *)

Enter(c) ==
  /\ pc[c] = "ask" /\ Grantable(c)
  /\ main' = [main EXCEPT ![c] = TRUE] /\ Go(c, "transition")
  /\ UNCHANGED <<ask, end, kid, open, staged, record, dir, stage, trans, scan, spent>>

\* LockBusyError, of the lease or of the gate before it: the record is withdrawn, then the
\* holders are looked up.
Refused(c) ==
  /\ pc[c] = "ask" /\ ~ask[c].wait
  /\ ~Grantable(c) \/ \E d \in Calls \ {c} : pc[d] = "ask"
  /\ end' = [end EXCEPT ![c] = "busy"] /\ Go(c, "leave dir")
  /\ UNCHANGED <<ask, main, kid, open, staged, record, dir, stage, trans, scan, spent>>

\* A diagnosis that reads behind the transition shares it.
Shares(c) == scan[c].again /\ scan[c].at \in {"dir", "read"}

LockTransition(c) ==
  /\ pc[c] = "transition" /\ trans = None /\ ~\E d \in Calls : Shares(d)
  /\ trans' = c /\ Go(c, "admit dir")
  /\ UNCHANGED <<ask, end, main, kid, open, staged, record, dir, stage, scan, spent>>

LockDirToAdmit(c) ==
  /\ pc[c] = "admit dir" /\ dir = None
  /\ dir' = <<"call", c>> /\ record' = [record EXCEPT ![c] = "torn"] /\ Go(c, "rewrite")
  /\ UNCHANGED <<ask, end, main, kid, open, staged, stage, trans, scan, spent>>

Admit(c) ==
  /\ pc[c] = "rewrite" /\ Works
  /\ record' = [record EXCEPT ![c] = "admitted"]
  /\ dir' = None /\ trans' = None /\ Go(c, "held")
  /\ UNCHANGED <<ask, end, main, kid, open, staged, stage, scan>>

\* The rewrite fails: the record is removed, unless that fails too, and the lease is given
\* back, behind the transition.
AdmitFails(c) ==
  /\ pc[c] = "rewrite" /\ Fails("admit")
  /\ record' \in {record, [record EXCEPT ![c] = "none"]}
  /\ dir' = None /\ end' = [end EXCEPT ![c] = "failed"] /\ Go(c, "leave dir")
  /\ UNCHANGED <<ask, main, kid, open, staged, stage, trans, scan>>

\* A subprocess of the body shares the descriptions of the lease and of the record.
Spawn(c) ==
  /\ pc[c] = "held" /\ ask[c].inherit /\ ~kid[c]
  /\ kid' = [kid EXCEPT ![c] = TRUE]
  /\ UNCHANGED <<pc, ask, end, main, open, staged, record, dir, stage, trans, scan, spent>>

KidExit(c) ==
  /\ kid[c]
  /\ kid' = [kid EXCEPT ![c] = FALSE]
  /\ UNCHANGED <<pc, ask, end, main, open, staged, record, dir, stage, trans, scan, spent>>

-----------------------------------------------------------------------------
(* The lease is given back, then the record removed *)

Leave(c) ==
  /\ pc[c] = "held"
  /\ end' = [end EXCEPT ![c] = "done"] /\ Go(c, "leave dir")
  /\ UNCHANGED <<ask, main, kid, open, staged, record, dir, stage, trans, scan, spent>>

LockDirToLeave(c) ==
  /\ pc[c] = "leave dir" /\ dir = None
  /\ dir' = <<"call", c>> /\ Go(c, "release")
  /\ UNCHANGED <<ask, end, main, kid, open, staged, record, stage, trans, scan, spent>>

\* A call that was refused has nothing to give back.
Release(c) ==
  /\ pc[c] = "release" /\ Works
  /\ main' = [main EXCEPT ![c] = FALSE] /\ Go(c, "forget")
  /\ UNCHANGED <<ask, end, kid, open, staged, record, dir, stage, trans, scan>>

\* The lease may or may not be back: a record that says so replaces the first, unless that
\* fails too, and stays locked as long as the process lives.
ReleaseFails(c) ==
  /\ pc[c] = "release" /\ main[c] /\ Fails("release")
  /\ \E back \in BOOLEAN : main' = [main EXCEPT ![c] = ~back]
  /\ \/ record' = [record EXCEPT ![c] = "uncertain"]
     \/ UNCHANGED record
  /\ dir' = None /\ trans' = (IF trans = c THEN None ELSE trans) /\ Go(c, "uncertain")
  /\ UNCHANGED <<ask, end, kid, open, staged, stage, scan>>

\* A record that a child still has locked is left for a later diagnosis.
Forget(c) ==
  /\ pc[c] = "forget"
  /\ open' = [open EXCEPT ![c] = FALSE]
  /\ record' = [record EXCEPT ![c] = IF kid[c] THEN @ ELSE "none"]
  /\ dir' = None /\ trans' = (IF trans = c THEN None ELSE trans)
  /\ Go(c, end[c])
  /\ UNCHANGED <<ask, end, main, kid, staged, stage, scan, spent>>

\* A process goes, and with it the thread that makes its diagnosis.
Kill(c) ==
  /\ pc[c] \notin Ends \cup {"idle", "dead"} \/ scan[c].at \notin {"off", "told"}
  /\ spent.kill < MaxKill
  /\ spent' = [spent EXCEPT !.kill = @ + 1]
  /\ main' = [main EXCEPT ![c] = FALSE] /\ open' = [open EXCEPT ![c] = FALSE]
  /\ dir' = (IF dir \in {<<"call", c>>, <<"scan", c>>} THEN None ELSE dir)
  /\ stage' = (IF stage = c THEN None ELSE stage)
  /\ trans' = (IF trans = c THEN None ELSE trans)
  /\ scan' = [scan EXCEPT ![c] = NoDiagnosis]
  /\ Go(c, "dead")
  /\ UNCHANGED <<ask, end, kid, staged, record>>

-----------------------------------------------------------------------------
(* The diagnosis: made once for a call that was refused or waits *)

ScanStep(c, s) == scan' = [scan EXCEPT ![c] = s]

\* "met" and "gone" remember, for the properties, who held the lease and who was gone
\* when the diagnosis began.
Diagnose(c) ==
  /\ scan[c].at = "off"
  /\ \/ pc[c] = "busy"
     \/ pc[c] = "ask" /\ ~Grantable(c)
  /\ ScanStep(c, [NoDiagnosis EXCEPT !.at = "dir", !.met = {d \in Calls \ {c} : Holds(d)},
                                     !.gone = {d \in Calls : pc[d] \in {"dead", "failed"} /\ ~Locked(d)}])
  /\ UNCHANGED <<pc, ask, end, main, kid, open, staged, record, dir, stage, trans, spent>>

\* What is staged and unlocked is removed, if nobody is staging.
ReapStaged ==
  staged' = IF stage = None THEN [d \in Calls |-> staged[d] /\ Locked(d)] ELSE staged

\* The directory is locked, its staging directory cleared, and the records are listed.
LockDirToScan(c) ==
  /\ scan[c].at = "dir" /\ dir = None
  /\ dir' = <<"scan", c>> /\ ReapStaged
  /\ ScanStep(c, [scan[c] EXCEPT !.at = "read", !.left = {d \in Calls : record[d] # "none"},
                                 !.named = {}, !.waits = FALSE])
  /\ UNCHANGED <<pc, ask, end, main, kid, open, record, stage, trans, spent>>

\* A record is locked to find out whether its owner lives.  One whose owner is gone is
\* removed, unless it says that the lease may not be back; the others are reported.
ReadRecord(c, d) ==
  /\ scan[c].at = "read" /\ d \in scan[c].left
  /\ LET keeps == Locked(d) \/ record[d] = "uncertain"
         says == keeps /\ record[d] \in Phases
     IN /\ record' = IF keeps THEN record ELSE [record EXCEPT ![d] = "none"]
        /\ ScanStep(c, [scan[c] EXCEPT !.left = @ \ {d},
                                       !.named = IF says THEN @ \cup {d} ELSE @,
                                       !.waits = @ \/ (says /\ record[d] = "waiting")])
  /\ UNCHANGED <<pc, ask, end, main, kid, open, staged, dir, stage, trans, spent>>

EndScan(c) ==
  /\ scan[c].at = "read" /\ scan[c].left = {}
  /\ dir' = None
  /\ IF scan[c].waits /\ ~scan[c].again
     THEN ScanStep(c, [scan[c] EXCEPT !.at = "transition"])
     ELSE ScanStep(c, [scan[c] EXCEPT !.at = "told"])
  /\ UNCHANGED <<pc, ask, end, main, kid, open, staged, record, stage, trans, spent>>

\* Somebody waits, or has the lease and its record does not say so yet: read again when no
\* admission is under way.
ShareTransition(c) ==
  /\ scan[c].at = "transition" /\ trans = None
  /\ ScanStep(c, [scan[c] EXCEPT !.at = "dir", !.again = TRUE])
  /\ UNCHANGED <<pc, ask, end, main, kid, open, staged, record, dir, stage, trans, spent>>

-----------------------------------------------------------------------------
Publish(c) == LockStage(c) \/ LockDirToStage(c) \/ Create(c) \/ Link(c) \/ Unstage(c)
              \/ PublishFails(c)
Acquire(c) == Enter(c) \/ Refused(c) \/ LockTransition(c) \/ LockDirToAdmit(c) \/ Admit(c)
              \/ AdmitFails(c)
GiveBack(c) == LockDirToLeave(c) \/ Release(c) \/ ReleaseFails(c) \/ Forget(c)
Scan(c) == LockDirToScan(c) \/ (\E d \in Calls : ReadRecord(c, d)) \/ EndScan(c)
           \/ ShareTransition(c)

Next == \E c \in Calls :
          \/ Publish(c) \/ Acquire(c) \/ Spawn(c) \/ KidExit(c) \/ Leave(c)
          \/ GiveBack(c) \/ Kill(c) \/ Diagnose(c) \/ Scan(c)

Spec == Init /\ [][Next]_vars

-----------------------------------------------------------------------------
(* Properties *)

\* An admission that failed gives the lease back without a record.
Undone(c) == end[c] = "failed" /\ pc[c] \in {"leave dir", "release", "uncertain"}

\* Whoever holds the lease, a call or a child that outlived it, has a record that can be
\* read whenever the directory can be locked: no diagnosis takes it for one left behind.
HolderIsNamed ==
  \A c \in Calls :
    Holds(c) /\ ~Undone(c) =>
      /\ record[c] # "none"
      /\ dir # <<"call", c>> => record[c] \in Phases

\* A diagnosis that is told names everybody who held the lease from its beginning on.
BusyIsExplained ==
  \A c \in Calls : scan[c].at = "told" =>
    \A d \in scan[c].met : Holds(d) /\ ~Undone(d) => d \in scan[c].named

\* And of those who died or failed before it no record is left, unless it says that the
\* lease may not be back.
LeftoversGo ==
  \A c \in Calls : scan[c].at = "told" =>
    \A d \in scan[c].gone : record[d] \in {"none", "uncertain"}
=============================================================================
