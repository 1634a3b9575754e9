------------------------------ MODULE LeaseOrder ------------------------------
(***************************************************************************)
(* Commands that take several leases (locking.py resource_locks) in the    *)
(* nesting workspace.py uses: initialise a checkout, synchronise it, remove*)
(* a worktree, use a profile, update a profile.  A lease is the fair       *)
(* reader-writer lock of LayoutLock, reduced to its holders and its queued *)
(* writers; a coordinate is its place in the lease order (sort_key).       *)
(*                                                                         *)
(* Left out: leases every command shares and nobody waits to own (the      *)
(* wrapper's source, the maintenance barrier: their writers never block),  *)
(* owner records (locking.py _resource_owner).                             *)
(***************************************************************************)
EXTENDS Naturals

CONSTANTS Clients,
          Role,     \* Role[c]: the command client c runs
          Roots,    \* Roots[c]: the source coordinates its command is about
          Last      \* the last source in the lease order

Registry == 1
Profile == 2
Admin == 3
Roles == {"init", "sync", "remove", "use", "update"}

ASSUME RoleAssumption == Role \in [Clients -> Roles]
ASSUME LastAssumption == Last \in Nat
ASSUME RootsAssumption ==
  \A c \in Clients : Roots[c] # {} /\ Roots[c] \subseteq Admin + 1 .. Last

VARIABLES pc,      \* where each command stands
          held,    \* held[c]: leases, each with the depth of the call that took it
          call,    \* call[c]: the resource_locks call in progress, or its unwinding
          queued,  \* queued[c]: c is registered as a writer of what it waits for
          todo     \* todo[c]: sources the command's loop has still to try

vars == <<pc, held, call, queued, todo>>

Modes == {"shared", "exclusive"}
Ways == {"blocking", "nonblocking"}
Request(co, mode) == [co |-> co, mode |-> mode]
Shared(co) == Request(co, "shared")
Exclusive(S) == {Request(co, "exclusive") : co \in S}

\* The unwinding of a call: nothing is wanted, leases of this depth go, ok follows.
Unwinding(depth, ok) ==
  [want |-> {}, depth |-> depth, how |-> "blocking", ok |-> ok, busy |-> "idle"]
NoCall == Unwinding(1, "idle")

Init ==
  /\ pc = [c \in Clients |-> "idle"]
  /\ held = [c \in Clients |-> {}]
  /\ call = [c \in Clients |-> NoCall]
  /\ queued = [c \in Clients |-> FALSE]
  /\ todo = [c \in Clients |-> {}]

-----------------------------------------------------------------------------
(* resource_locks: combine, then acquire in order, all or none *)

\* Requests for one coordinate become one, exclusive if any of them is.
Combine(reqs) ==
  {Request(r.co, IF Request(r.co, "exclusive") \in reqs THEN "exclusive" ELSE "shared") :
     r \in reqs}

Calls(c, at, reqs, depth, how, ok, busy) ==
  /\ pc[c] = at
  /\ call' = [call EXCEPT ![c] = [want |-> Combine(reqs), depth |-> depth,
                                  how |-> how, ok |-> ok, busy |-> busy]]
  /\ pc' = [pc EXCEPT ![c] = "acquire"]
  /\ UNCHANGED <<held, queued>>

\* The with block ends: the leases of this depth are given back, then ok follows.
Ends(c, at, depth, ok) ==
  /\ pc[c] = at
  /\ call' = [call EXCEPT ![c] = Unwinding(depth, ok)]
  /\ pc' = [pc EXCEPT ![c] = "release"]
  /\ UNCHANGED <<held, queued>>

Turn(c, r) ==
  /\ pc[c] = "acquire"
  /\ r \in call[c].want
  /\ \A s \in call[c].want : r.co <= s.co

\* d stands in the way of request r of c.
Obstructs(d, c, r) ==
  \/ \E h \in held[d] : h.co = r.co /\ "exclusive" \in {h.mode, r.mode}
  \/ r.mode = "shared" /\ queued[d] /\ Turn(d, Request(r.co, "exclusive"))

Free(c, r) == \A d \in Clients : ~Obstructs(d, c, r)

Grant(c) ==
  \E r \in call[c].want :
    /\ Turn(c, r)
    /\ Free(c, r)
    /\ held' = [held EXCEPT ![c] = @ \cup {[co |-> r.co, mode |-> r.mode, depth |-> call[c].depth]}]
    /\ call' = [call EXCEPT ![c].want = @ \ {r}]
    /\ pc' = [pc EXCEPT ![c] = IF call[c].want = {r} THEN call[c].ok ELSE "acquire"]
    /\ queued' = [queued EXCEPT ![c] = FALSE]
    /\ UNCHANGED todo

\* A blocked writer registers on the pending file: later readers queue behind it.
Queue(c) ==
  /\ call[c].how = "blocking"
  /\ ~queued[c]
  /\ \E r \in call[c].want : Turn(c, r) /\ r.mode = "exclusive" /\ ~Free(c, r)
  /\ queued' = [queued EXCEPT ![c] = TRUE]
  /\ UNCHANGED <<pc, held, call, todo>>

\* Mutant: LockBusyError leaves the leases taken so far in hand.
RefuseKeeping(c) ==
  /\ call[c].how = "nonblocking"
  /\ \E r \in call[c].want : Turn(c, r) /\ ~Free(c, r)
  /\ call' = [call EXCEPT ![c] = NoCall]
  /\ pc' = [pc EXCEPT ![c] = call[c].busy]
  /\ UNCHANGED <<held, queued, todo>>

\* LockBusyError: what this call and this depth took so far is released.
Refuse(c) ==
  /\ call[c].how = "nonblocking"
  /\ \E r \in call[c].want : Turn(c, r) /\ ~Free(c, r)
  /\ call' = [call EXCEPT ![c] = Unwinding(call[c].depth, call[c].busy)]
  /\ pc' = [pc EXCEPT ![c] = "release"]
  /\ UNCHANGED <<held, queued, todo>>

Release(c) ==
  /\ pc[c] = "release"
  /\ LET due == {h \in held[c] : h.depth >= call[c].depth} IN
       IF due = {}
       THEN /\ pc' = [pc EXCEPT ![c] = call[c].ok]
            /\ UNCHANGED held
       ELSE /\ \E h \in due : /\ \A g \in due : g.co <= h.co
                              /\ held' = [held EXCEPT ![c] = @ \ {h}]
            /\ UNCHANGED pc
  /\ UNCHANGED <<call, queued, todo>>

ResourceLocks(c) == Grant(c) \/ Queue(c) \/ Refuse(c) \/ Release(c)

-----------------------------------------------------------------------------
(* Workspace.initialize / create worktree: admin and sources in one call *)

Initialize(c) ==
  /\ Role[c] = "init"
  /\ Calls(c, "idle", Exclusive({Admin} \cup Roots[c]), 1, "blocking", "body", "idle")
  /\ UNCHANGED todo

-----------------------------------------------------------------------------
(* Workspace.update, one checkout *)

Snapshot(c) ==
  /\ Role[c] = "sync"
  /\ \/ Calls(c, "idle", Exclusive({Admin}), 1, "blocking", "snapshot", "idle")
     \/ Calls(c, "retry", Exclusive({Admin}), 1, "blocking", "snapshot", "idle")
     \/ Ends(c, "snapshot", 1, "gather")
     \/ Ends(c, "body", 1, "retry")      \* the worktrees changed since the snapshot
  /\ UNCHANGED todo

\* _resource_locks_all_or_none: try them all; failing that, wait for one alone.
Gather(c) ==
  /\ Role[c] = "sync"
  /\ Calls(c, "gather", Exclusive(Roots[c]), 1, "nonblocking", "claimAdmin", "probe")
  /\ todo' = [todo EXCEPT ![c] = Roots[c]]

First(c, s) == s \in todo[c] /\ \A t \in todo[c] : s <= t
OnlyFirst(c) == \A s \in todo[c] : First(c, s)

Probe(c) ==
  \/ \E s \in todo[c] :
       /\ First(c, s)
       /\ Calls(c, "probe", Exclusive({s}), 1, "nonblocking", "probeFree", "await")
       /\ UNCHANGED todo
  \/ /\ Ends(c, "probeFree", 1, IF OnlyFirst(c) THEN "gather" ELSE "probe")
     /\ todo' = [todo EXCEPT ![c] = {s \in @ : ~First(c, s)}]
  \/ \E s \in todo[c] :
       /\ First(c, s)
       /\ Calls(c, "await", Exclusive({s}), 1, "blocking", "awaited", "idle")
       /\ UNCHANGED todo
  \/ Ends(c, "awaited", 1, "gather") /\ UNCHANGED todo

\* Mutant: the nested claim waits with the sources in hand.
ClaimAdminWaiting(c) ==
  /\ \/ Calls(c, "claimAdmin", Exclusive({Admin}), 2, "blocking", "body", "yieldAll")
     \/ Ends(c, "yieldAll", 1, "waitAdmin")
     \/ Calls(c, "waitAdmin", Exclusive({Admin}), 1, "blocking", "admitted", "idle")
     \/ Ends(c, "admitted", 1, "retry")
  /\ UNCHANGED todo

\* The nested claim; refused, the sources go before the command waits for it.
ClaimAdmin(c) ==
  /\ \/ Calls(c, "claimAdmin", Exclusive({Admin}), 2, "nonblocking", "body", "yieldAll")
     \/ Ends(c, "yieldAll", 1, "waitAdmin")
     \/ Calls(c, "waitAdmin", Exclusive({Admin}), 1, "blocking", "admitted", "idle")
     \/ Ends(c, "admitted", 1, "retry")
  /\ UNCHANGED todo

-----------------------------------------------------------------------------
(* Workspace.remove_worktree *)

RemoveWorktree(c) ==
  /\ Role[c] = "remove"
  /\ \E at \in {"idle", "retry"} :
       Calls(c, at, Exclusive({Registry} \cup Roots[c]), 1, "blocking", "claimAdmin", "idle")
  /\ UNCHANGED todo

-----------------------------------------------------------------------------
(* _resolved_profile_operation: the profile, then each source, never waiting *)
(* for one with another in hand                                              *)

UseProfile(c) ==
  /\ Role[c] = "use"
  /\ Calls(c, "idle", {Shared(Profile)}, 1, "blocking", "collect", "idle")
  /\ todo' = [todo EXCEPT ![c] = Roots[c]]

\* Mutant: having waited for one source, the command does not start over.
CollectSourceOn(c) ==
  \/ \E s \in todo[c] :
       /\ First(c, s)
       /\ Calls(c, "collect", {Shared(s)}, 2, "nonblocking", "collected", "standBack")
       /\ UNCHANGED todo
  \/ /\ pc[c] = "collected"
     /\ todo' = [todo EXCEPT ![c] = {s \in @ : ~First(c, s)}]
     /\ pc' = [pc EXCEPT ![c] = IF OnlyFirst(c) THEN "body" ELSE "collect"]
     /\ UNCHANGED <<held, call, queued>>
  \/ \E s \in todo[c] :
       /\ First(c, s)
       /\ Calls(c, "standBack", {Shared(s)}, 2, "blocking", "stoodBack", "idle")
       /\ UNCHANGED todo
  \/ Ends(c, "stoodBack", 2, "collect") /\ UNCHANGED todo

CollectSource(c) ==
  \/ \E s \in todo[c] :
       /\ First(c, s)
       /\ Calls(c, "collect", {Shared(s)}, 2, "nonblocking", "collected", "standBack")
       /\ UNCHANGED todo
  \/ /\ pc[c] = "collected"
     /\ todo' = [todo EXCEPT ![c] = {s \in @ : ~First(c, s)}]
     /\ pc' = [pc EXCEPT ![c] = IF OnlyFirst(c) THEN "body" ELSE "collect"]
     /\ UNCHANGED <<held, call, queued>>
  \/ \E s \in todo[c] :
       /\ First(c, s)
       /\ Calls(c, "standBack", {Shared(s)}, 2, "blocking", "stoodBack", "idle")
       /\ UNCHANGED todo
  \/ /\ Ends(c, "stoodBack", 2, "collect")
     /\ todo' = [todo EXCEPT ![c] = Roots[c]]

-----------------------------------------------------------------------------
(* set_profile: the profile exclusively, then the selected source inside *)

UpdateProfile(c) ==
  /\ Role[c] = "update"
  /\ \/ Calls(c, "idle", Exclusive({Profile}), 1, "blocking", "select", "idle")
     \/ \E s \in Roots[c] :
          Calls(c, "select", {Shared(s)}, 2, "blocking", "body", "idle")
  /\ UNCHANGED todo

\* The command's own work is over; its client may run it again.
Finish(c) ==
  /\ Ends(c, "body", 1, "idle")
  /\ UNCHANGED todo

-----------------------------------------------------------------------------
Step(c) ==
  \/ ResourceLocks(c)
  \/ Initialize(c) \/ Snapshot(c) \/ RemoveWorktree(c) \/ UseProfile(c) \/ UpdateProfile(c)
  \/ Gather(c) \/ Probe(c) \/ ClaimAdmin(c) \/ CollectSource(c) \/ Finish(c)

Next == \E c \in Clients : Step(c)

Spec == Init /\ [][Next]_vars

(***************************************************************************)
(* A command in progress goes on (WF); nobody has to start one.  A waiter  *)
(* that finds its lease free again and again gets it (SF), which LayoutLock*)
(* shows of the lock files for writers and, between writers, for readers.  *)
(***************************************************************************)
Goes(c) == pc[c] # "idle" /\ Step(c)

Fairness ==
  \A c \in Clients : /\ WF_vars(Goes(c))
                     /\ SF_vars(Grant(c))

FairSpec == Spec /\ Fairness

-----------------------------------------------------------------------------
(* Properties *)

Coordinates == {Registry, Profile, Admin} \cup UNION {Roots[c] : c \in Clients}
Requests == [co : Coordinates, mode : Modes]
Positions == {"idle", "acquire", "release", "body", "snapshot", "gather", "probe",
              "probeFree", "await", "awaited", "claimAdmin", "yieldAll", "waitAdmin",
              "admitted", "retry", "collect", "collected", "standBack", "stoodBack",
              "select"}

TypeOK ==
  /\ pc \in [Clients -> Positions]
  /\ held \in [Clients -> SUBSET [co : Coordinates, mode : Modes, depth : {1, 2}]]
  /\ call \in [Clients -> [want : SUBSET Requests, depth : {1, 2}, how : Ways,
                           ok : Positions, busy : Positions]]
  /\ queued \in [Clients -> BOOLEAN]
  /\ todo \in [Clients -> SUBSET Coordinates]

\* c is inside a call that waits as long as it takes.
Waiting(c) == pc[c] = "acquire" /\ call[c].how = "blocking"

\* Whatever is nested in what, a command that waits holds only coordinates that
\* come before every one it still wants: the lease order of the architecture.
WaitsAscend ==
  \A c \in Clients :
    Waiting(c) => \A h \in held[c], r \in call[c].want : h.co < r.co

\* c cannot go on until d does.
BlockedBy(c, d) == Waiting(c) /\ \E r \in call[c].want : Turn(c, r) /\ Obstructs(d, c, r)

\* No group of commands waits for itself, one command waiting for its own lease
\* included: someone in every group can go on without the others.
NoWaitCycle ==
  \A S \in SUBSET Clients :
    S # {} => \E c \in S : \A d \in S : ~BlockedBy(c, d)

\* Two commands at work at once: sources are only shared by profile users, the
\* Git administration is one command's, and a profile in use is not being changed.
At(c, role) == pc[c] = "body" /\ Role[c] \in role
WorksOn(c, s) == \/ At(c, {"init", "sync", "remove", "use"}) /\ s \in Roots[c]
                 \/ At(c, {"update"}) /\ \E h \in held[c] : h.co = s
Administers(c) == At(c, {"init", "sync", "remove"})

BodiesExclude ==
  \A c, d \in Clients : c # d =>
    /\ ~(Administers(c) /\ Administers(d))
    /\ ~(At(c, {"update"}) /\ At(d, {"update", "use"}))
    /\ \A s \in Coordinates :
         WorksOn(c, s) /\ WorksOn(d, s) => ~Administers(c)

===============================================================================
