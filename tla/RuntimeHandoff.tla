--------------------------- MODULE RuntimeHandoff ---------------------------
(***************************************************************************)
(* A runtime is handed off (atrinik_workspace/runtime_handoff.py;          *)
(* scripts/delivery_ledger.py: runtime_handoff_publish;                    *)
(* atrinik_workspace/workspace.py: _retained_producer_reads,               *)
(* _recheck_runtime_handoff): a publisher that has proved a tested build   *)
(* serves one lease on a socket, and consumers that know its key and its   *)
(* endpoint start from that build as long as it answers.                   *)
(*                                                                         *)
(* The envelope gives nobody authority.  It is the ledger of the publisher *)
(* that must not move while a consumer is admitted, and the publisher      *)
(* keeps the root of the ledgers locked for that; it takes one connection  *)
(* at a time, so that a revocation waits for whoever is admitted.          *)
(*                                                                         *)
(* One identity of a lease.  Signatures and the fingerprint of the socket  *)
(* are abstracted to who wrote the envelope, bound the socket or answered. *)
(***************************************************************************)
EXTENDS Naturals, Sequences, FiniteSets

CONSTANTS Publishers, Consumers, Revokers, None, Helper,
          Ttl, Horizon,   \* how long a lease lasts, and the bound of the clock
          MaxGen,         \* the bound of the generations of the ledger
          Backlog,        \* connections that wait to be accepted
          MaxKill

Clients == Consumers \cup Revokers

Assumptions ==
  /\ Consumers \cap Revokers = {} /\ Publishers \cap Clients = {}
  /\ {None, Helper} \cap (Publishers \cup Clients) = {} /\ None # Helper
  /\ Ttl \in Nat \ {0} /\ Horizon \in Nat /\ MaxGen \in Nat /\ Backlog \in Nat \ {0}
  /\ MaxKill \in Nat

VARIABLES clock,
          ledger,   \* its generation, and whether its issue is open
          sources,  \* the sources and artifacts are what the envelope says
          root,     \* who has the root of the ledgers locked
          lease,    \* the public directory of the lease
          flock,    \* who has lease.lock locked
          pub,      \* pub[p]: where a publisher is, what it proved, and until when it serves
          queue,    \* the connections to its socket that wait
          peer,     \* the connection it has accepted
          cl,       \* cl[c]: where a client is
          kills

vars == <<clock, ledger, sources, root, lease, flock, pub, queue, peer, cl, kills>>
world == <<clock, ledger, sources, kills>>

Stations == {"idle", "proved", "guarded", "checked", "locked", "stamped", "writing", "written",
             "serving", "asked", "session", "admitted", "ended"}
Steps == {"idle", "read", "live", "connect", "before", "receive", "after", "ready", "compared",
          "rechecked", "probing", "done", "failed"}
Requests == {"begin", "recheck", "finish", "revoke"}
Replies == {"none", "verified", "finished", "revoked", "rejected", "closed"}

TypeOK ==
  /\ clock \in 0 .. Horizon /\ ledger \in [gen : 0 .. MaxGen, open : BOOLEAN]
  /\ sources \in BOOLEAN /\ root \in Publishers \cup {None, Helper}
  /\ lease \in [envelope : Publishers \cup {None}, socket : Publishers \cup {None},
                torn : BOOLEAN, stamped : BOOLEAN, revoked : BOOLEAN]
  /\ flock \in Publishers \cup Clients \cup {None}
  /\ pub \in [Publishers -> [at : Stations, gen : 0 .. MaxGen, until : 0 .. Horizon + Ttl]]
  /\ queue \in Seq(Clients) /\ peer \in Clients \cup {None}
  /\ cl \in [Clients -> [at : Steps, pin : Publishers \cup {None}, said : Requests, got : Replies,
                         leased : BOOLEAN, broken : BOOLEAN]]
  /\ kills \in 0 .. MaxKill

Init ==
  /\ clock = 0 /\ ledger = [gen |-> 0, open |-> TRUE] /\ sources = TRUE /\ root = None
  /\ lease = [envelope |-> None, socket |-> None, torn |-> FALSE, stamped |-> FALSE,
              revoked |-> FALSE]
  /\ flock = None /\ queue = <<>> /\ peer = None /\ kills = 0
  /\ pub = [p \in Publishers |-> [at |-> "idle", gen |-> 0, until |-> 0]]
  /\ cl = [c \in Clients |-> [at |-> "idle", pin |-> None, said |-> "begin", got |-> "none",
                              leased |-> FALSE, broken |-> FALSE]]

-----------------------------------------------------------------------------
(* What a publisher proves, and what ends it *)

PubGo(p, station) == pub' = [pub EXCEPT ![p].at = station]

\* The ledger is the one that was proved, and its issue is open.
Current(p) == ledger.gen = pub[p].gen /\ ledger.open
Expired(p) == clock >= pub[p].until

\* Whoever is connected to a publisher that goes reads that it is gone.
Connected == {queue[i] : i \in DOMAIN queue} \cup {peer}
HangUp(clients) == [c \in Clients |-> IF c \in clients /\ cl[c].got = "none"
                                      THEN [cl[c] EXCEPT !.got = "closed"] ELSE cl[c]]
Serving == {"serving", "asked", "session", "admitted"}

\* The listener and the locks are closed; the socket stays in the directory.
Ends(p) ==
  /\ PubGo(p, "ended")
  /\ root' = (IF root = p THEN None ELSE root) /\ flock' = (IF flock = p THEN None ELSE flock)
  /\ IF pub[p].at \in Serving
     THEN queue' = <<>> /\ peer' = None /\ cl' = HangUp(Connected)
     ELSE UNCHANGED <<queue, peer, cl>>

\* The retained producer is proved, and a lease that was published before is refused.
Prove(p) ==
  /\ pub[p].at = "idle"
  /\ IF lease.envelope = None /\ ledger.open
     THEN pub' = [pub EXCEPT ![p] = [at |-> "proved", gen |-> ledger.gen, until |-> clock + Ttl]]
     ELSE PubGo(p, "ended")
  /\ UNCHANGED <<world, root, lease, flock, queue, peer, cl>>

\* guard(): the root is locked without waiting, or else the publisher ends (a LedgerError
\* is no WorkspaceError, and nothing catches it).
TakeGuard(p) ==
  /\ pub[p].at = "proved"
  /\ IF root = None THEN root' = p /\ PubGo(p, "guarded") ELSE PubGo(p, "ended") /\ UNCHANGED root
  /\ UNCHANGED <<world, lease, flock, queue, peer, cl>>

LeaveGuard(p) ==
  /\ pub[p].at = "guarded"
  /\ root' = None /\ PubGo(p, IF Current(p) THEN "checked" ELSE "ended")
  /\ UNCHANGED <<world, lease, flock, queue, peer, cl>>

LockLease(p) ==
  /\ pub[p].at = "checked"
  /\ IF flock = None THEN flock' = p /\ PubGo(p, "locked") ELSE PubGo(p, "ended") /\ UNCHANGED flock
  /\ UNCHANGED <<world, root, lease, queue, peer, cl>>

\* A lease that was revoked is not served again.
Stamp(p) ==
  /\ pub[p].at = "locked"
  /\ IF lease.revoked THEN Ends(p) /\ UNCHANGED lease
     ELSE /\ lease' = [lease EXCEPT !.stamped = TRUE] /\ PubGo(p, "stamped")
          /\ UNCHANGED <<root, flock, queue, peer, cl>>
  /\ UNCHANGED world

\* The envelope is created, then written; a publisher that finds another's refuses.
CreateEnvelope(p) ==
  /\ pub[p].at = "stamped"
  /\ IF lease.envelope # None THEN Ends(p) /\ UNCHANGED lease
     ELSE /\ lease' = [lease EXCEPT !.envelope = p, !.torn = TRUE] /\ PubGo(p, "writing")
          /\ UNCHANGED <<root, flock, queue, peer, cl>>
  /\ UNCHANGED world

WriteEnvelope(p) ==
  /\ pub[p].at = "writing"
  /\ lease' = [lease EXCEPT !.torn = FALSE] /\ PubGo(p, "written")
  /\ UNCHANGED <<world, root, flock, queue, peer, cl>>

\* The socket is bound, and its fingerprint announced with the key.
Listen(p) ==
  /\ pub[p].at = "written"
  /\ lease' = [lease EXCEPT !.socket = p] /\ PubGo(p, "serving")
  /\ UNCHANGED <<world, root, flock, queue, peer, cl>>

-----------------------------------------------------------------------------
(* It serves *)

Reply(c, reply) == cl' = [cl EXCEPT ![c].got = reply]

Accept(p) ==
  /\ pub[p].at = "serving" /\ ~Expired(p) /\ queue # <<>>
  /\ peer' = Head(queue) /\ queue' = Tail(queue) /\ PubGo(p, "asked")
  /\ UNCHANGED <<world, root, lease, flock, cl>>

Stop(p) ==
  /\ pub[p].at = "serving" /\ Expired(p)
  /\ Ends(p)
  /\ UNCHANGED <<world, lease>>

\* An OSError or a WorkspaceError: the client is told, and the guard left.
Reject(p) ==
  /\ Reply(peer, "rejected") /\ peer' = None
  /\ root' = (IF root = p THEN None ELSE root) /\ PubGo(p, "serving")
  /\ UNCHANGED <<flock, queue>>

\* The revocation is on disk before it is acknowledged, and ends the publisher.
Revoke(p) ==
  /\ pub[p].at = "asked" /\ cl[peer].said = "revoke" /\ ~Expired(p)
  /\ lease' = [lease EXCEPT !.revoked = TRUE]
  /\ PubGo(p, "ended")
  /\ root' = (IF root = p THEN None ELSE root) /\ flock' = (IF flock = p THEN None ELSE flock)
  /\ queue' = <<>> /\ peer' = None
  /\ cl' = [HangUp(Connected \ {peer}) EXCEPT ![peer].got = "revoked"]
  /\ UNCHANGED world

\* A consumer begins: the guard is taken, without waiting, for the whole session.
Begin(p) ==
  /\ pub[p].at = "asked" /\ cl[peer].said = "begin" /\ ~Expired(p)
  /\ IF root = None /\ Current(p)
     THEN root' = p /\ PubGo(p, "session") /\ UNCHANGED <<flock, queue, peer, cl>>
     ELSE Ends(p)
  /\ UNCHANGED <<world, lease>>

\* Each turn of the session proves the ledger again; what it finds changed ends the publisher.
Verify(p) ==
  /\ pub[p].at = "session" /\ ~Expired(p)
  /\ IF Current(p)
     THEN Reply(peer, "verified") /\ PubGo(p, "admitted") /\ UNCHANGED <<root, flock, queue, peer>>
     ELSE Ends(p)
  /\ UNCHANGED <<world, lease>>

Turn(p) ==
  /\ pub[p].at = "admitted" /\ cl[peer].said = "recheck" /\ cl[peer].got = "none" /\ ~Expired(p)
  /\ PubGo(p, "session")
  /\ UNCHANGED <<world, root, lease, flock, queue, peer, cl>>

\* The completion is acknowledged while the guard is still held.
Complete(p) ==
  /\ pub[p].at = "admitted" /\ cl[peer].said = "finish" /\ cl[peer].got = "none" /\ ~Expired(p)
  /\ IF Current(p)
     THEN /\ Reply(peer, "finished") /\ peer' = None /\ root' = None /\ PubGo(p, "serving")
          /\ UNCHANGED <<flock, queue>>
     ELSE Ends(p)
  /\ UNCHANGED <<world, lease>>

\* The client is gone, or the lease runs out while it is served.
Lose(p) ==
  /\ pub[p].at \in {"asked", "session", "admitted"}
  /\ Expired(p) \/ cl[peer].at = "failed"
  /\ Reject(p)
  /\ UNCHANGED <<world, lease>>

-----------------------------------------------------------------------------
(* A client *)

Set(c, values) == cl' = [cl EXCEPT ![c] = values]
Go(c, step) == Set(c, [cl[c] EXCEPT !.at = step])

\* It is told whose key and whose socket to trust.
Start(c) ==
  /\ cl[c].at = "idle" /\ lease.socket # None
  /\ Set(c, [cl[c] EXCEPT !.at = "read", !.pin = lease.socket,
                          !.said = IF c \in Revokers THEN "revoke" ELSE "begin"])
  /\ UNCHANGED <<world, root, lease, flock, pub, queue, peer>>

\* The exact binding of the envelope; only a consumer asks that it has not run out.
Bound(c) == /\ lease.envelope = cl[c].pin /\ ~lease.torn
            /\ c \in Consumers => ~Expired(cl[c].pin)

Read(c) ==
  /\ cl[c].at = "read"
  /\ Go(c, IF Bound(c) THEN "live" ELSE "failed")
  /\ UNCHANGED <<world, root, lease, flock, pub, queue, peer>>

\* _lease_live: whoever finds lease.lock free has taken it, and gives it back as it fails.
Live(c) == ~lease.revoked /\ lease.stamped /\ flock # None
Fence(c) == Bound(c) /\ lease.socket = cl[c].pin
Onward == [live |-> "connect", before |-> "receive", after |-> "ready"]
Passed(c) == CASE cl[c].at = "after" /\ cl[c].said = "recheck" -> "rechecked"
               [] cl[c].at = "after" /\ cl[c].said = "finish" -> "done"
               [] OTHER -> Onward[cl[c].at]

Pass(c) ==
  /\ cl[c].at \in {"live", "before", "after"} /\ Live(c) /\ Fence(c)
  /\ Go(c, Passed(c))
  /\ UNCHANGED <<world, root, lease, flock, pub, queue, peer>>

Refuse(c) ==
  /\ cl[c].at \in {"live", "before", "after"}
  /\ lease.revoked \/ ~lease.stamped \/ ~Fence(c)
  /\ Go(c, "failed")
  /\ UNCHANGED <<world, root, lease, flock, pub, queue, peer>>

Probe(c) ==
  /\ cl[c].at \in {"live", "before", "after"} /\ ~lease.revoked /\ flock = None
  /\ flock' = c /\ Go(c, "probing")
  /\ UNCHANGED <<world, root, lease, pub, queue, peer>>

EndProbe(c) ==
  /\ cl[c].at = "probing"
  /\ flock' = None /\ Go(c, "failed")
  /\ UNCHANGED <<world, root, lease, pub, queue, peer>>

\* A socket that nobody listens on refuses; one whose backlog is full makes wait.
Connect(c) ==
  /\ cl[c].at = "connect"
  /\ IF pub[cl[c].pin].at \in Serving
     THEN /\ Len(queue) < Backlog /\ queue' = Append(queue, c)
          /\ Go(c, IF c \in Revokers THEN "receive" ELSE "before")
     ELSE Go(c, "failed") /\ UNCHANGED queue
  /\ UNCHANGED <<world, root, lease, flock, pub, peer>>

Awaited(c) == CASE cl[c].said = "finish" -> "finished"
                [] cl[c].said = "revoke" -> "revoked"
                [] OTHER -> "verified"

\* The answer counts if it is signed for what was asked, before the lease runs out.
Receive(c) ==
  /\ cl[c].at = "receive"
  /\ cl[c].got # "none" \/ Expired(cl[c].pin)
  /\ Go(c, IF Expired(cl[c].pin) \/ cl[c].got # Awaited(c) THEN "failed"
           ELSE IF c \in Revokers THEN "done" ELSE "after")
  /\ UNCHANGED <<world, root, lease, flock, pub, queue, peer>>

\* Before every use the sources are compared, then the publisher is asked again.
Compare(c) ==
  /\ cl[c].at = "ready"
  /\ Go(c, IF sources THEN "compared" ELSE "failed")
  /\ UNCHANGED <<world, root, lease, flock, pub, queue, peer>>

Ask(c, request) == Set(c, [cl[c] EXCEPT !.at = "before", !.said = request, !.got = "none"])

Recheck(c) ==
  /\ cl[c].at = "compared"
  /\ Ask(c, "recheck")
  /\ UNCHANGED <<world, root, lease, flock, pub, queue, peer>>

\* The leases of the sources are taken once the handoff is verified, and kept to the end.
TakeLeases(c) ==
  /\ cl[c].at = "rechecked" /\ ~cl[c].leased
  /\ Set(c, [cl[c] EXCEPT !.leased = TRUE, !.at = "ready"])
  /\ UNCHANGED <<world, root, lease, flock, pub, queue, peer>>

\* The supervisor is started, its record published: what the recheck is for.
Use(c) ==
  /\ cl[c].at = "rechecked" /\ cl[c].leased
  /\ Go(c, "ready")
  /\ UNCHANGED <<world, root, lease, flock, pub, queue, peer>>

Finish(c) ==
  /\ cl[c].at = "rechecked"
  /\ Ask(c, "finish")
  /\ UNCHANGED <<world, root, lease, flock, pub, queue, peer>>

-----------------------------------------------------------------------------
(* Around them *)

Tick == /\ clock < Horizon /\ clock' = clock + 1
        /\ UNCHANGED <<ledger, sources, kills, root, lease, flock, pub, queue, peer, cl>>

HelperTakes == /\ root = None /\ root' = Helper
               /\ UNCHANGED <<world, lease, flock, pub, queue, peer, cl>>

\* Whoever was admitted, and has not been told that it is done.
InSession(c) == /\ c \in Consumers /\ cl[c].at \notin {"done", "failed"}
                /\ cl[c].said # "begin" \/ cl[c].got = "verified"
                /\ cl[c].got # "finished"
Broken == [c \in Clients |-> [cl[c] EXCEPT !.broken = @ \/ InSession(c)]]

\* A transition of the ledger by another command of the helper, behind the same lock.
HelperMoves ==
  /\ root = Helper
  /\ root' = None
  /\ \/ ledger.gen < MaxGen /\ ledger' = [ledger EXCEPT !.gen = @ + 1] /\ cl' = Broken
     \/ UNCHANGED <<ledger, cl>>
  /\ UNCHANGED <<clock, sources, kills, lease, flock, pub, queue, peer>>

CloseIssue == /\ ledger.open /\ ledger' = [ledger EXCEPT !.open = FALSE]
              /\ UNCHANGED <<clock, sources, kills, root, lease, flock, pub, queue, peer, cl>>

\* Somebody edits a source, unless a consumer has it leased.
Edit == /\ sources /\ \A c \in Consumers : cl[c].leased => cl[c].at \in {"done", "failed"}
        /\ sources' = FALSE
        /\ UNCHANGED <<clock, ledger, kills, root, lease, flock, pub, queue, peer, cl>>

KillPublisher(p) ==
  /\ pub[p].at \notin {"idle", "ended"} /\ kills < MaxKill /\ kills' = kills + 1
  /\ Ends(p)
  /\ UNCHANGED <<clock, ledger, sources, lease>>

KillClient(c) ==
  /\ cl[c].at \notin {"idle", "done", "failed"} /\ kills < MaxKill /\ kills' = kills + 1
  /\ flock' = (IF flock = c THEN None ELSE flock) /\ Go(c, "failed")
  /\ UNCHANGED <<clock, ledger, sources, root, lease, pub, queue, peer>>

-----------------------------------------------------------------------------
Publishing(p) ==
  \/ Prove(p) \/ TakeGuard(p) \/ LeaveGuard(p) \/ LockLease(p) \/ Stamp(p)
  \/ CreateEnvelope(p) \/ WriteEnvelope(p) \/ Listen(p) \/ Accept(p) \/ Stop(p)
  \/ Revoke(p) \/ Begin(p) \/ Verify(p) \/ Turn(p) \/ Complete(p) \/ Lose(p)

Asking(c) == Start(c) \/ Read(c) \/ Pass(c) \/ Refuse(c) \/ Probe(c) \/ EndProbe(c) \/ Connect(c)
             \/ Receive(c)
Consuming(c) == Compare(c) \/ Recheck(c) \/ TakeLeases(c) \/ Use(c) \/ Finish(c)

Next ==
  \/ \E p \in Publishers : Publishing(p) \/ KillPublisher(p)
  \/ \E c \in Clients : Asking(c) \/ Consuming(c) \/ KillClient(c)
  \/ Tick \/ HelperTakes \/ HelperMoves \/ CloseIssue \/ Edit

Spec == Init /\ [][Next]_vars

-----------------------------------------------------------------------------
(* Properties *)

\* A consumer that is admitted has the ledger pinned, and the root of the ledgers locked for
\* it, until its publisher is gone or its lease ran out.
AdmittedIsGuarded ==
  \A c \in Consumers : InSession(c) =>
    LET p == cl[c].pin
    IN  pub[p].at = "ended" \/ Expired(p)
        \/ (peer = c /\ root = p /\ ledger.gen = pub[p].gen /\ ~lease.revoked)

\* "The consumer requires a signed completion acknowledgement sent while that guard is still
\* held": one that completes had the ledger stand still for it from its admission on.
CompletionIsWhole == \A c \in Consumers : cl[c].at = "done" => ~cl[c].broken

\* "Revocation serializes behind an admitted operation": once it is on disk nobody is
\* admitted, and nobody will be.
RevocationIsFinal ==
  lease.revoked => /\ \A c \in Consumers : ~InSession(c)
                   /\ \A p \in Publishers : pub[p].at \notin {"session", "admitted"}

\* What a consumer starts under its leases are the sources of the envelope.
SourcesStand == \A c \in Consumers : cl[c].leased /\ cl[c].at = "rechecked" => sources

\* One publisher serves a lease, ever: the one that wrote its envelope.
OneServes == \A p \in Publishers : pub[p].at \in Serving => lease.envelope = p /\ lease.socket = p
=============================================================================
