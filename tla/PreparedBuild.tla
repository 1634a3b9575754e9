--------------------------- MODULE PreparedBuild ---------------------------
(***************************************************************************)
(* The receipt of a prepared topology build (src/atrinik_workspace/        *)
(* prebuilt.py, and _build_resolved, _publish_prebuilt_topology and        *)
(* _validate_prebuilt_topology of src/atrinik_workspace/workspace.py).     *)
(* A fenced build is asked for with the digest of its plan and, when all   *)
(* of it is done and nothing it was planned from has changed, publishes a  *)
(* receipt in the build root.  Every build, fenced or not, first moves the *)
(* receipt it finds to a name of its own.  A launch is given the digest of *)
(* a receipt, and validates it when it is admitted, when it has the lock   *)
(* of the build root again, and just before its copy is published.         *)
(*                                                                         *)
(* The plan is the version of the sources it was made from; the bytes a    *)
(* receipt binds are the outputs of the build and the sources among the    *)
(* inputs of the runtime.  An object is a file with its inode; the digest  *)
(* of a receipt, which holds a random generation, is its identity.         *)
(* Neither versions nor outputs ever return to what they were.             *)
(***************************************************************************)
EXTENDS Integers

CONSTANTS Builders,    \* those who build in the build root
          Consumers,   \* those who launch what was prepared
          Kinds,       \* the builds asked for: "fenced", "ordinary"
          Persistent,  \* whether each build is asked for again until it completes
          MaxBuild,    \* bound on the builds asked for when that is not so
          MaxLaunch,   \* bound on the launches
          MaxEdit,     \* bound on the edits of the sources
          MaxCommit,   \* bound on the commits in the wrapper
          MaxTamper,   \* bound on the changes of the outputs by somebody else
          MaxSwap,     \* bound on the objects somebody puts at the receipt's name
          MaxRestore,  \* bound on the objects somebody moves back to it
          MaxFail,     \* bound on the build steps and synchronizations that fail
          MaxKill      \* bound on the commands killed

\* What an instance assumes of the constants.
Assumptions ==
  /\ Kinds \subseteq {"fenced", "ordinary"} /\ Persistent \in BOOLEAN
  /\ {MaxBuild, MaxLaunch, MaxEdit, MaxCommit, MaxTamper, MaxSwap, MaxRestore, MaxFail, MaxKill}
       \subseteq Nat

VARIABLES src,      \* the version of the sources
          wrapper,  \* the head of the wrapper
          out,      \* the outputs in the build root
          public,   \* what is at the name of the receipt
          aside,    \* the objects at names of their own: quarantines, leftovers
          staged,   \* the file each builder is about to publish
          holder,   \* who holds the lock of the build root
          work,     \* where each builder is and what it knows
          use,      \* where each launch is and what it knows
          issued,   \* the receipts whose digest a build returned
          launched, \* the runtimes published: what was asked for, what was copied
          spent     \* how much of each bound is used; the objects and outputs made

vars == <<src, wrapper, out, public, aside, staged, holder, work, use, issued, launched, spent>>
names == <<public, aside, staged>>
people == <<src, wrapper>>

NoBytes == [run |-> 0, of |-> 0, source |-> 0]
Nothing == [id |-> 0, kind |-> "none", plan |-> 0, head |-> 0, bytes |-> NoBytes]
Nobody == "nobody"
Idle == [at |-> "idle", kind |-> "none", plan |-> 0, head |-> 0, seen |-> 0, got |-> 0,
         bytes |-> NoBytes, made |-> 0, ended |-> "none"]
Away == [at |-> "idle", stage |-> "none", digest |-> 0, receipt |-> Nothing,
         before |-> NoBytes, copy |-> NoBytes]

Init ==
  /\ src = 1
  /\ wrapper = 1
  /\ out = [run |-> 0, of |-> 0, whole |-> FALSE]
  /\ public = Nothing
  /\ aside = {}
  /\ staged = [b \in Builders |-> Nothing]
  /\ holder = Nobody
  /\ work = [b \in Builders |-> Idle]
  /\ use = [c \in Consumers |-> Away]
  /\ issued = {}
  /\ launched = {}
  /\ spent = [build |-> 0, launch |-> 0, tamper |-> 0, swap |-> 0, restore |-> 0,
              fail |-> 0, kill |-> 0, object |-> 0, run |-> 0]

-----------------------------------------------------------------------------

At(b, station) == work[b].at = station
Go(b, station) == work' = [work EXCEPT ![b].at = station]
Spend(bound) == spent' = [spent EXCEPT ![bound] = @ + 1]
Unlock(who) == holder' = IF holder = who THEN Nobody ELSE holder

\* A build ends: what it returned, and the file it had made, are remembered.
Ends(b, how) ==
  /\ work' = [work EXCEPT ![b] = [Idle EXCEPT !.ended = how, !.made = work[b].made]]
  /\ Unlock(b)

\* What the runtime inputs are made of now.
Bytes == [run |-> out.run, of |-> out.of, source |-> src]

\* A receipt is private, regular and linked once; other objects may not be.
Regular(object) == object.kind # "odd"
Receipt(object) == object.kind = "receipt"

-----------------------------------------------------------------------------
(* Planning and admission *)

\* The fenced build is asked for with the digest of a plan just made.
Ask(b, kind) ==
  /\ At(b, "idle")
  /\ IF Persistent THEN work[b].ended # "completed" /\ UNCHANGED spent
                   ELSE spent.build < MaxBuild /\ Spend("build")
  /\ work' = [work EXCEPT ![b] = [Idle EXCEPT !.kind = kind, !.plan = src,
                                   !.at = IF kind = "fenced" THEN "fence" ELSE "lock"]]
  /\ UNCHANGED <<people, out, names, holder, use, issued, launched>>

\* The plan, observed again with the leases of its sources held, is the expected one.
Fence(b) ==
  /\ At(b, "fence")
  /\ \/ src = work[b].plan
        /\ work' = [work EXCEPT ![b].at = "lock", ![b].head = wrapper]
        /\ UNCHANGED holder
     \/ src # work[b].plan /\ Ends(b, "failed")
  /\ UNCHANGED <<people, out, names, use, issued, launched, spent>>

\* Mutant: only a fenced build invalidates the receipt first.
LockThenWork(b) ==
  /\ At(b, "lock")
  /\ holder = Nobody
  /\ IF work[b].kind = "fenced" /\ wrapper # work[b].head
     THEN Ends(b, "failed")
     ELSE Go(b, IF work[b].kind = "fenced" THEN "look" ELSE "start") /\ holder' = b
  /\ UNCHANGED <<people, out, names, use, issued, launched, spent>>

Lock(b) ==
  /\ At(b, "lock")
  /\ holder = Nobody
  /\ IF work[b].kind = "fenced" /\ wrapper # work[b].head
     THEN Ends(b, "failed")
     ELSE Go(b, "look") /\ holder' = b
  /\ UNCHANGED <<people, out, names, use, issued, launched, spent>>

-----------------------------------------------------------------------------
(* Invalidation, before anything of the build root changes *)

Look(b) ==
  /\ At(b, "look")
  /\ \/ public = Nothing /\ Go(b, "start") /\ UNCHANGED holder
     \/ public # Nothing /\ Regular(public)
        /\ work' = [work EXCEPT ![b].at = "claim", ![b].seen = public.id]
        /\ UNCHANGED holder
     \/ ~Regular(public) /\ Ends(b, "failed")
  /\ UNCHANGED <<people, out, names, use, issued, launched, spent>>

\* Whatever is at the name now goes to a name nobody knows.
Moved(b) ==
  /\ public # Nothing
  /\ aside' = aside \cup {public}
  /\ public' = Nothing

Claim(b) ==
  /\ At(b, "claim")
  /\ \/ /\ Moved(b)
        /\ work' = [work EXCEPT ![b].at = "claimed", ![b].got = public.id]
        /\ UNCHANGED holder
     \/ public = Nothing /\ Ends(b, "failed") /\ UNCHANGED <<public, aside>>
  /\ UNCHANGED <<people, out, staged, use, issued, launched, spent>>

\* It must be what was seen, and nothing may have taken its place.
Claimed(b) ==
  /\ At(b, "claimed")
  /\ \/ work[b].got = work[b].seen /\ public = Nothing
        /\ Go(b, "start") /\ UNCHANGED <<holder, spent>>
     \/ (work[b].got # work[b].seen \/ public # Nothing)
        /\ Ends(b, "failed") /\ UNCHANGED spent
     \/ spent.fail < MaxFail /\ Spend("fail") /\ Ends(b, "failed")
  /\ UNCHANGED <<people, out, names, use, issued, launched>>

-----------------------------------------------------------------------------
(* The work *)

Start(b) ==
  /\ At(b, "start")
  /\ Spend("run")
  /\ out' = [run |-> spent.run + 1, of |-> src, whole |-> FALSE]
  /\ Go(b, "work")
  /\ UNCHANGED <<people, names, holder, use, issued, launched>>

\* Outputs of sources that changed meanwhile are of no version.
Work(b) ==
  /\ At(b, "work")
  /\ out' = [out EXCEPT !.whole = TRUE, !.of = IF @ = src THEN src ELSE 0]
  /\ IF work[b].kind = "fenced" THEN Go(b, "complete") /\ UNCHANGED holder
     ELSE Ends(b, "completed")
  /\ UNCHANGED <<people, names, use, issued, launched, spent>>

WorkFails(b) ==
  /\ At(b, "work")
  /\ spent.fail < MaxFail /\ Spend("fail")
  /\ Ends(b, "failed")
  /\ UNCHANGED <<people, out, names, use, issued, launched>>

-----------------------------------------------------------------------------
(* Completion: only a fenced build publishes a receipt *)

Unchanged(b) == wrapper = work[b].head /\ src = work[b].plan

Complete(b) ==
  /\ At(b, "complete")
  /\ IF Unchanged(b) THEN Go(b, "capture") /\ UNCHANGED holder ELSE Ends(b, "failed")
  /\ UNCHANGED <<people, out, names, use, issued, launched, spent>>

\* The inputs are read twice and must be the same files both times: one instant.
Capture(b) ==
  /\ At(b, "capture")
  /\ work' = [work EXCEPT ![b].at = "recheck", ![b].bytes = Bytes]
  /\ UNCHANGED <<people, out, names, holder, use, issued, launched, spent>>

Recheck(b) ==
  /\ At(b, "recheck")
  /\ IF Unchanged(b) THEN Go(b, "stage") /\ UNCHANGED holder ELSE Ends(b, "failed")
  /\ UNCHANGED <<people, out, names, use, issued, launched, spent>>

\* The file is complete, and synchronized, under a name of its own.
Stage(b) ==
  /\ At(b, "stage")
  /\ Spend("object")
  /\ staged' = [staged EXCEPT ![b] =
                  [id |-> spent.object + 1, kind |-> "receipt", plan |-> work[b].plan,
                   head |-> work[b].head, bytes |-> work[b].bytes]]
  /\ work' = [work EXCEPT ![b].at = "install", ![b].made = spent.object + 1]
  /\ UNCHANGED <<people, out, public, aside, holder, use, issued, launched>>

\* Renamed to its name, which must be free.
Install(b) ==
  /\ At(b, "install")
  /\ IF public = Nothing
     THEN /\ public' = staged[b]
          /\ staged' = [staged EXCEPT ![b] = Nothing]
          /\ Go(b, "confirm")
     ELSE Go(b, "undo") /\ UNCHANGED <<public, staged>>
  /\ UNCHANGED <<people, out, aside, holder, use, issued, launched, spent>>

Confirm(b) ==
  /\ At(b, "confirm")
  /\ \/ public.id = work[b].made
        /\ issued' = issued \cup {public}
        /\ Ends(b, "completed") /\ UNCHANGED spent
     \/ public.id # work[b].made
        /\ Go(b, "undo") /\ UNCHANGED <<holder, issued, spent>>
     \/ spent.fail < MaxFail /\ Spend("fail")
        /\ Go(b, "undo") /\ UNCHANGED <<holder, issued>>
  /\ UNCHANGED <<people, out, names, use, launched>>

\* Only the file this build made is taken back from the name.
Undo(b) ==
  /\ At(b, "undo")
  /\ Go(b, IF public.id = work[b].made THEN "retract" ELSE "unstage")
  /\ UNCHANGED <<people, out, names, holder, use, issued, launched, spent>>

Retract(b) ==
  /\ At(b, "retract")
  /\ \/ /\ Moved(b)
        /\ work' = [work EXCEPT ![b].at = "retracted", ![b].got = public.id]
        /\ UNCHANGED holder
     \/ public = Nothing /\ Ends(b, "failed") /\ UNCHANGED <<public, aside>>
  /\ UNCHANGED <<people, out, staged, use, issued, launched, spent>>

Retracted(b) ==
  /\ At(b, "retracted")
  /\ IF work[b].got = work[b].made /\ public = Nothing
     THEN Go(b, "unstage") /\ UNCHANGED holder
     ELSE Ends(b, "failed")
  /\ UNCHANGED <<people, out, names, use, issued, launched, spent>>

\* The file under its own name, if it is still there, is unlinked.
Unstage(b) ==
  /\ At(b, "unstage")
  /\ staged' = [staged EXCEPT ![b] = Nothing]
  /\ Ends(b, "failed")
  /\ UNCHANGED <<people, out, public, aside, use, issued, launched, spent>>

-----------------------------------------------------------------------------
(* A launch *)

Using(c, station) == use[c].at = station
Turn(c, station) == use' = [use EXCEPT ![c].at = station]
Refused(c) == use' = [use EXCEPT ![c] = Away] /\ Unlock(c)

Launch(c) ==
  /\ Using(c, "idle")
  /\ spent.launch < MaxLaunch /\ Spend("launch")
  /\ \E receipt \in issued :
       use' = [use EXCEPT ![c] = [Away EXCEPT !.at = "lock", !.stage = "fence",
                                              !.digest = receipt.id]]
  /\ UNCHANGED <<people, out, names, holder, work, issued, launched>>

LockRoot(c) ==
  /\ Using(c, "lock")
  /\ holder = Nobody /\ holder' = c
  /\ Turn(c, "load")
  /\ UNCHANGED <<people, out, names, work, issued, launched, spent>>

\* The receipt has the digest asked for, and was made with this wrapper.
Load(c) ==
  /\ Using(c, "load")
  /\ IF Receipt(public) /\ public.id = use[c].digest /\ public.head = wrapper
     THEN /\ use' = [use EXCEPT ![c].at = "match", ![c].receipt = public]
          /\ UNCHANGED holder
     ELSE Refused(c)
  /\ UNCHANGED <<people, out, names, work, issued, launched, spent>>

\* The plan made now is its plan, and the inputs read now are its inputs.
SamePlan(c) == src = use[c].receipt.plan
SameInputs(c) == Bytes = use[c].receipt.bytes

Match(c) ==
  /\ Using(c, "match")
  /\ \/ ~(SamePlan(c) /\ SameInputs(c)) /\ Refused(c)
     \/ /\ SamePlan(c) /\ SameInputs(c)
        /\ \/ use[c].stage = "fence" /\ Unlock(c)
              /\ use' = [use EXCEPT ![c].at = "lock", ![c].stage = "up",
                                    ![c].receipt = Nothing]
           \/ use[c].stage = "up" /\ Turn(c, "measure") /\ UNCHANGED holder
           \/ use[c].stage = "last" /\ Turn(c, "publish") /\ UNCHANGED holder
  /\ UNCHANGED <<people, out, names, work, issued, launched, spent>>

Measure(c) ==
  /\ Using(c, "measure")
  /\ use' = [use EXCEPT ![c].at = "copy", ![c].before = Bytes]
  /\ UNCHANGED <<people, out, names, holder, work, issued, launched, spent>>

Copy(c) ==
  /\ Using(c, "copy")
  /\ use' = [use EXCEPT ![c].at = "compare", ![c].copy = Bytes]
  /\ UNCHANGED <<people, out, names, holder, work, issued, launched, spent>>

Compare(c) ==
  /\ Using(c, "compare")
  /\ IF Bytes = use[c].before
     THEN /\ use' = [use EXCEPT ![c].at = "load", ![c].stage = "last",
                                ![c].receipt = Nothing, ![c].before = NoBytes]
          /\ UNCHANGED holder
     ELSE Refused(c)
  /\ UNCHANGED <<people, out, names, work, issued, launched, spent>>

Publish(c) ==
  /\ Using(c, "publish")
  /\ launched' = launched \cup {[digest |-> use[c].digest, bytes |-> use[c].copy]}
  /\ Refused(c)
  /\ UNCHANGED <<people, out, names, work, issued, spent>>

-----------------------------------------------------------------------------
(* People, and kills *)

Edit ==
  /\ src <= MaxEdit /\ src' = src + 1
  /\ UNCHANGED <<wrapper, out, names, holder, work, use, issued, launched, spent>>

Commit ==
  /\ wrapper <= MaxCommit /\ wrapper' = wrapper + 1
  /\ UNCHANGED <<src, out, names, holder, work, use, issued, launched, spent>>

\* Somebody changes a file of the outputs.
Tamper ==
  /\ spent.tamper < MaxTamper
  /\ spent' = [spent EXCEPT !.tamper = @ + 1, !.run = @ + 1]
  /\ out' = [out EXCEPT !.run = spent.run + 1]
  /\ UNCHANGED <<people, names, holder, work, use, issued, launched>>

\* Somebody moves what is at the name away and puts something else there.
Swap ==
  /\ spent.swap < MaxSwap
  /\ spent' = [spent EXCEPT !.swap = @ + 1, !.object = @ + 1]
  /\ aside' = aside \cup ({public} \ {Nothing})
  /\ \E kind \in {"plain", "odd"} :
       public' = [Nothing EXCEPT !.id = spent.object + 1, !.kind = kind]
  /\ UNCHANGED <<people, out, staged, holder, work, use, issued, launched>>

\* A build refuses what is not a private regular file until somebody moves it away.
Vacate ==
  /\ public # Nothing /\ ~Regular(public)
  /\ aside' = aside \cup {public}
  /\ public' = Nothing
  /\ UNCHANGED <<people, out, staged, holder, work, use, issued, launched, spent>>

Restore ==
  /\ spent.restore < MaxRestore /\ Spend("restore")
  /\ \E object \in aside :
       /\ public' = object
       /\ aside' = (aside \cup {public}) \ {object, Nothing}
  /\ UNCHANGED <<people, out, staged, holder, work, use, issued, launched>>

\* The lock goes with the process; a file it had staged keeps its private name.
Kill(who) ==
  /\ spent.kill < MaxKill /\ Spend("kill")
  /\ Unlock(who)
  /\ \/ /\ who \in Builders /\ ~At(who, "idle")
        /\ work' = [work EXCEPT ![who] = [Idle EXCEPT !.ended = "killed"]]
        /\ aside' = aside \cup ({staged[who]} \ {Nothing})
        /\ staged' = [staged EXCEPT ![who] = Nothing]
        /\ UNCHANGED use
     \/ /\ who \in Consumers /\ ~Using(who, "idle")
        /\ use' = [use EXCEPT ![who] = Away]
        /\ UNCHANGED <<work, aside, staged>>
  /\ UNCHANGED <<people, out, public, issued, launched>>

-----------------------------------------------------------------------------

BuildStep(b) ==
  \/ Fence(b) \/ Lock(b)
  \/ Look(b) \/ Claim(b) \/ Claimed(b)
  \/ Start(b) \/ Work(b) \/ WorkFails(b)
  \/ Complete(b) \/ Capture(b) \/ Recheck(b)
  \/ Stage(b) \/ Install(b) \/ Confirm(b)
  \/ Undo(b) \/ Retract(b) \/ Retracted(b) \/ Unstage(b)

LaunchStep(c) ==
  \/ LockRoot(c) \/ Load(c) \/ Match(c)
  \/ Measure(c) \/ Copy(c) \/ Compare(c) \/ Publish(c)

Next ==
  \/ \E b \in Builders : BuildStep(b) \/ \E kind \in Kinds : Ask(b, kind)
  \/ \E c \in Consumers : LaunchStep(c) \/ Launch(c)
  \/ Edit \/ Commit \/ Tamper \/ Swap \/ Vacate \/ Restore
  \/ \E who \in Builders \cup Consumers : Kill(who)

Spec == Init /\ [][Next]_vars

\* Commands run on, the lock is handed out in the order it is asked for, a fenced
\* build that failed is asked for again, and what a build refuses is moved away.
FairSpec ==
  /\ Spec
  /\ \A b \in Builders : /\ WF_vars(BuildStep(b))
                         /\ SF_vars(Lock(b))
                         /\ WF_vars(\E kind \in Kinds : Ask(b, kind))
  /\ \A c \in Consumers : WF_vars(LaunchStep(c)) /\ SF_vars(LockRoot(c))
  /\ WF_vars(Vacate)

-----------------------------------------------------------------------------
(* Properties *)

Ids(objects) == {object.id : object \in objects}

\* Numbers are in range, the lock is held by whoever is past it, and only who is.
TypeOK ==
  /\ src \in 1 .. MaxEdit + 1 /\ wrapper \in 1 .. MaxCommit + 1
  /\ Ids({public} \cup aside) \subseteq 0 .. spent.object
  /\ holder \in Builders \cup Consumers \cup {Nobody}
  /\ \A b \in Builders : (holder = b) <=> ~(work[b].at \in {"idle", "fence", "lock"})
  /\ \A c \in Consumers : (holder = c) <=> ~(use[c].at \in {"idle", "lock"})
  /\ issued \subseteq [id : Nat, kind : {"receipt"}, plan : Nat, head : Nat,
                       bytes : [run : Nat, of : Nat, source : Nat]]

\* At every instant, whoever is building, failing or dead: a receipt at its name is
\* about the whole outputs that are there, made of the sources of its plan
\* (unless somebody changed the outputs or moved a receipt back).
EvidenceHolds ==
  Receipt(public) /\ spent.tamper = 0 /\ spent.restore = 0 =>
    /\ out.whole
    /\ public.bytes.run = out.run
    /\ public.bytes.of = public.plan /\ public.bytes.source = public.plan

\* A launch publishes the very bytes bound by the receipt whose digest it was given,
\* whatever was rebuilt, changed, replaced or moved back since it was admitted.
LaunchedIsReceipt ==
  \A launch \in launched :
    \E receipt \in issued : receipt.id = launch.digest /\ receipt.bytes = launch.bytes

\* What somebody else puts at the name of the receipt, and every receipt ever returned,
\* is still there or under a name of its own: builds only ever move it.
NothingDestroyed ==
  [][\A object \in {public} \cup aside : object # Nothing => object \in {public'} \cup aside']_vars

\* A build that reports failure has not left its receipt where a launch finds it
\* (unless somebody moved it back).
FailureRetracts ==
  \A b \in Builders :
    At(b, "idle") /\ work[b].ended = "failed" /\ work[b].made # 0 /\ spent.restore = 0 =>
      public.id # work[b].made

=============================================================================
