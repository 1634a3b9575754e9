--------------------------- MODULE HeadCorrection ---------------------------
(***************************************************************************)
(* A ledger whose last update took a commit that does not exist for a      *)
(* target's head is corrected (delivery_ledger.py, correct_target_head):   *)
(* its predecessor and the erroneous bytes are kept, the corrected ledger  *)
(* is staged, a receipt says who allowed it, and a rename installs it.     *)
(*                                                                         *)
(* A helper reads the ledger and proves the live head before it has both   *)
(* locks, and proves it again just before the rename; it may be killed     *)
(* anywhere, and commits move the head.                                    *)
(***************************************************************************)
EXTENDS Naturals

CONSTANTS Helpers,
          Heads,   \* commits the worktree may have
          Ask,     \* Ask[h]: the commit a helper says is the head
          Granted, \* the helpers whose recovery authority is for exactly what they ask
          Bad,     \* the commit that does not exist
          None, MaxGen, MaxKill, MaxRetry, MaxMove

Kept == [whole : BOOLEAN, by : Heads \cup {Bad}]

Assumptions ==
  /\ Ask \in [Helpers -> Heads] /\ Granted \subseteq Helpers
  /\ Bad \notin Heads /\ None \notin Kept
  /\ {MaxGen, MaxKill, MaxRetry, MaxMove} \subseteq Nat /\ MaxGen >= 3

VARIABLES ledger, \* its generation, the head it has, and the head that was corrected to
          kept,   \* kept[file]: a file of a correction and what it is made for, maybe torn
          live,   \* the head of the worktree
          lock,   \* who has the locks of the root and of the ledger
          at,     \* where a helper is
          seen,   \* the generation it read first
          spent   \* kills, retries and commits so far

vars == <<ledger, kept, live, lock, at, seen, spent>>

Files == {"predecessor", "erroneous", "stage", "receipt"}
Answers == {"refused", "done", "killed"}
Steps == {"idle", "prove", "lock", "predecessor", "erroneous", "stage", "receipt", "again",
          "replace", "final"}

Erroneous == [generation |-> 2, head |-> Bad]
\* The next generation, but for the head and its mirrors the erroneous one.
Corrected(head) == [generation |-> 3, head |-> head]

TypeOK ==
  /\ ledger \in [generation : 2 .. MaxGen, head : Heads \cup {Bad}]
  /\ kept \in [Files -> {None} \cup Kept]
  /\ live \in Heads /\ lock \in SUBSET Helpers
  /\ at \in [Helpers -> Steps \cup Answers]
  /\ seen \in [Helpers -> [generation : 2 .. MaxGen, head : Heads \cup {Bad}]]
  /\ spent \in [kill : 0 .. MaxKill, retry : 0 .. MaxRetry, move : 0 .. MaxMove]

Init ==
  /\ ledger = Erroneous /\ kept = [f \in Files |-> None] /\ live \in Heads /\ lock = {}
  /\ at = [h \in Helpers |-> "idle"] /\ seen = [h \in Helpers |-> Erroneous]
  /\ spent = [kill |-> 0, retry |-> 0, move |-> 0]

-----------------------------------------------------------------------------
(* The inventory *)

There(file) == kept[file] # None
Whole(file) == There(file) /\ kept[file].whole
\* The names say the digest of the erroneous bytes: those of a receipt are what it is for.
Receipt(head) == Whole("receipt") /\ kept["receipt"].by = head

\* What an inventory does not raise for: while the erroneous bytes are installed a torn
\* file is a correction's to continue, afterwards all the evidence is there and fits.
Readable ==
  (\E f \in Files : There(f)) =>
    /\ There("predecessor")
    /\ IF ledger = Erroneous THEN Whole("receipt") => There("erroneous")
       ELSE /\ Whole("predecessor") /\ There("erroneous") /\ ~There("stage")
            /\ Receipt(ledger.head) /\ ledger.generation >= 3

Pending == ledger = Erroneous /\ \E f \in Files : There(f)

-----------------------------------------------------------------------------
(* A correction *)

Go(h, step) == at' = [at EXCEPT ![h] = step]
Answer(h, how) == Go(h, how) /\ lock' = lock \ {h}

\* The recovery authority allows this correction of these bytes and no other.
Authorized(h) == h \in Granted

\* The worktree has that head, which descends from the predecessor's; the other commit is
\* no object of it.
Proven(h) == live = Ask[h]

\* Under the lock of the root, which it then gives up.  A ledger that is not erroneous any
\* more was maybe corrected.
Inspect(h) ==
  /\ at[h] = "idle" /\ lock = {}
  /\ seen' = [seen EXCEPT ![h] = ledger]
  /\ Go(h, IF ~Readable \/ ~Authorized(h) \/ (ledger # Erroneous /\ ~There("erroneous"))
           THEN "refused"
           ELSE IF ledger = Corrected(Ask[h]) THEN "lock" ELSE "prove")
  /\ UNCHANGED <<ledger, kept, live, lock, spent>>

Prove(h) ==
  /\ at[h] = "prove"
  /\ Go(h, IF Proven(h) THEN "lock" ELSE "refused")
  /\ UNCHANGED <<ledger, kept, live, lock, seen, spent>>

\* Behind both locks: it is corrected already, with the same authority; or still what was
\* read first; or another update came first.
Lock(h) ==
  /\ at[h] = "lock" /\ lock = {}
  /\ IF ~Readable THEN Answer(h, "refused")
     ELSE IF ledger = Corrected(Ask[h])
     THEN Answer(h, IF ~There("stage") /\ Receipt(Ask[h]) THEN "done" ELSE "refused")
     ELSE IF ledger # Erroneous THEN Answer(h, "refused")
     ELSE lock' = {h} /\ Go(h, "predecessor")
  /\ UNCHANGED <<ledger, kept, live, seen, spent>>

\* A file that is written, resumed where a killed helper left it, or there already.
Stage(h, file, by, step) ==
  /\ at[h] = file
  /\ IF ~There(file)
     THEN kept' = [kept EXCEPT ![file] = [whole |-> FALSE, by |-> by]] /\ UNCHANGED <<lock, at>>
     ELSE IF kept[file].by = by
     THEN kept' = [kept EXCEPT ![file].whole = TRUE] /\ Go(h, step) /\ UNCHANGED lock
     ELSE Answer(h, "refused") /\ UNCHANGED kept
  /\ UNCHANGED <<ledger, live, seen, spent>>

KeepPredecessor(h) == Stage(h, "predecessor", Bad, "erroneous")

\* A second link to the bytes that are installed.
KeepErroneous(h) ==
  /\ at[h] = "erroneous"
  /\ kept' = [kept EXCEPT !["erroneous"] = [whole |-> TRUE, by |-> Bad]] /\ Go(h, "stage")
  /\ UNCHANGED <<ledger, live, lock, seen, spent>>

StageCorrected(h) == Stage(h, "stage", Ask[h], "receipt")

WriteReceipt(h) == Stage(h, "receipt", Ask[h], "again")

ProveAgain(h) ==
  /\ at[h] = "again"
  /\ IF Proven(h) THEN Go(h, "replace") /\ UNCHANGED lock ELSE Answer(h, "refused")
  /\ UNCHANGED <<ledger, kept, live, seen, spent>>

Replace(h) ==
  /\ at[h] = "replace"
  /\ ledger' = Corrected(kept["stage"].by)
  /\ kept' = [kept EXCEPT !["stage"] = None]
  /\ Go(h, "final")
  /\ UNCHANGED <<live, lock, seen, spent>>

Final(h) ==
  /\ at[h] = "final"
  /\ Answer(h, IF Readable /\ ~Pending THEN "done" ELSE "refused")
  /\ UNCHANGED <<ledger, kept, live, seen, spent>>

Correct(h) == \/ Inspect(h) \/ Prove(h) \/ Lock(h) \/ KeepPredecessor(h) \/ KeepErroneous(h)
              \/ StageCorrected(h) \/ WriteReceipt(h) \/ ProveAgain(h) \/ Replace(h) \/ Final(h)

-----------------------------------------------------------------------------
(* Around it *)

\* An exact call again, by whoever was killed or refused.
Retry(h) ==
  /\ at[h] \in {"killed", "refused"} /\ spent.retry < MaxRetry
  /\ Go(h, "idle") /\ spent' = [spent EXCEPT !.retry = @ + 1]
  /\ UNCHANGED <<ledger, kept, live, lock, seen>>

Kill(h) ==
  /\ at[h] \notin Answers \cup {"idle"} /\ spent.kill < MaxKill
  /\ spent' = [spent EXCEPT !.kill = @ + 1] /\ Answer(h, "killed")
  /\ UNCHANGED <<ledger, kept, live, seen>>

Commit ==
  /\ spent.move < MaxMove /\ spent' = [spent EXCEPT !.move = @ + 1]
  /\ live' \in Heads \ {live}
  /\ UNCHANGED <<ledger, kept, lock, at, seen>>

\* Another update of the ledger, when nothing is pending.
Update ==
  /\ lock = {} /\ Readable /\ ~Pending /\ ledger.generation < MaxGen
  /\ ledger' = [ledger EXCEPT !.generation = @ + 1]
  /\ UNCHANGED <<kept, live, lock, at, seen, spent>>

Next == (\E h \in Helpers : Correct(h) \/ Retry(h) \/ Kill(h)) \/ Commit \/ Update

Spec == Init /\ [][Next]_vars

-----------------------------------------------------------------------------
(* Properties *)

\* A ledger has another head than the erroneous one only beside the whole evidence: what
\* it was, what it was before, and the receipt of the authority.
NothingErased ==
  ledger.head # Bad =>
    /\ Whole("predecessor") /\ Whole("erroneous") /\ Receipt(ledger.head)
    /\ ~There("stage")
    /\ \E h \in Granted : Ask[h] = ledger.head

\* Whatever a killed helper left does not lock anybody out of the root, and whoever can
\* still prove what it began to correct is not refused.
LeftoversAreResumed ==
  /\ Readable
  /\ lock = {} /\ Pending =>
       \A h \in Granted : There("stage") /\ kept["stage"].by = Ask[h] =>
         /\ \A f \in {"stage", "receipt"} : There(f) => kept[f].by = Ask[h]
         /\ Whole("predecessor") /\ There("erroneous")

\* Who is told that it is corrected finds its own head in the ledger, and nobody works on
\* a ledger somebody else corrected since.
AnswersAreTrue ==
  \A h \in Helpers :
    /\ at[h] = "done" => ledger.head = Ask[h] /\ ledger.generation >= 3 /\ h \in Granted
    /\ h \in lock /\ at[h] # "final" => ledger = Erroneous
    /\ at[h] = "final" => ledger = Corrected(Ask[h])

\* A ledger goes on by one generation, its head is corrected once and never back, the
\* evidence is not replaced, and only a proof that came behind the locks lets it happen.
CorrectedOnce ==
  /\ ledger' # ledger => ledger'.generation = ledger.generation + 1
  /\ ledger'.head # ledger.head =>
       /\ ledger = Erroneous
       /\ \E h \in lock : at[h] = "replace" /\ ledger'.head = Ask[h]
  /\ \A f \in {"predecessor", "erroneous", "receipt"} :
       Whole(f) => kept'[f] = kept[f]
=============================================================================
