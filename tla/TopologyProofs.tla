-------------------------- MODULE TopologyProofs --------------------------
(***************************************************************************)
(* Proofs about topologies and the runtimes they are handed: first         *)
(* RuntimeHandoff, for any publishers and clients, any length of a lease   *)
(* and any bounds; then, as an instance, TopologySupervisor.               *)
(***************************************************************************)
EXTENDS RuntimeHandoff, SequenceTheorems, WellFoundedInduction, TLAPS

Holding == {"locked", "stamped", "writing", "written"} \cup Serving
Guarded == {"guarded", "session", "admitted"}
Using == {"ready", "compared", "rechecked"}

\* Who is where a lock is needed has it.
Locks ==
  /\ \A p \in Publishers : pub[p].at \in Holding => flock = p
  /\ \A p \in Publishers : pub[p].at \in Guarded => root = p
  /\ \A c \in Clients : cl[c].at = "probing" => flock = c

\* The lease is one publisher's, and once it is revoked nobody works on it.
Lease ==
  /\ \A p \in Publishers :
       /\ pub[p].at \in {"writing", "written"} \cup Serving => lease.envelope = p
       /\ pub[p].at \in Serving => lease.socket = p
       /\ lease.revoked => pub[p].at \notin {"stamped", "writing", "written"} \cup Serving
  /\ lease.socket # None =>
       lease.envelope = lease.socket /\ pub[lease.socket].at \in Serving \cup {"ended"}

\* Who waits has the endpoint of the lease; who serves somebody knows whom.
Known(c) ==
  /\ cl[c].at = "idle" => cl[c].said = "begin" /\ cl[c].got \in {"none", "closed"}
  /\ cl[c].at # "idle" => lease.socket # None /\ cl[c].pin = lease.socket
  /\ c \in Consumers => cl[c].said # "revoke"
Serves(p) == /\ pub[p].at \in {"asked", "session", "admitted"} => peer # None
             /\ pub[p].at = "serving" => peer = None
Waiting == \A i \in DOMAIN queue : cl[queue[i]].at # "idle"
Line ==
  /\ \A c \in Clients : Known(c)
  /\ Waiting
  /\ peer # None => cl[peer].at # "idle"
  /\ \A p \in Publishers : Serves(p)

\* The publisher a consumer relies on is gone, or its lease ran out.
Over(c) == pub[cl[c].pin].at = "ended" \/ Expired(cl[c].pin)

\* An admission is pinned, and what a consumer goes on with was answered.
Late(c) == Expired(cl[c].pin)
Admitting == {"session", "admitted"}
Pinned == \A p \in Publishers : pub[p].at \in Admitting => ledger.gen = pub[p].gen
Admission(c) == InSession(c) => Over(c) \/ (peer = c /\ pub[cl[c].pin].at \in Admitting)
Word(c) ==
  /\ cl[c].at = "after" => cl[c].got = Awaited(c) \/ Late(c)
  /\ cl[c].at \in Using => (cl[c].got = "verified" \/ Late(c)) /\ cl[c].said # "finish"
  /\ lease.revoked => ~InSession(c) /\ cl[c].at \notin Using
\* Who is verified anew has not yet been answered.
Unanswered(p) ==
  pub[p].at = "session" =>
    \/ Expired(p) \/ peer \notin Consumers \/ cl[peer].at \in {"done", "failed"}
    \/ cl[peer].said # "finish" /\ cl[peer].got # "verified"
Sessions ==
  /\ Pinned /\ \A p \in Publishers : Unanswered(p)
  /\ \A c \in Consumers : Admission(c) /\ Word(c)

\* Who had the ledger moved under its session never completes.
Spoiled(c) ==
  cl[c].broken => /\ cl[c].at \notin {"idle", "done"} /\ cl[c].got # "finished" /\ Over(c)
Moved == \A c \in Consumers : Spoiled(c)

\* Sources that were compared under the leases stand.
Stands(c) == cl[c].leased /\ cl[c].at \notin {"ready", "done", "failed"} => sources
Leased == \A c \in Consumers : Stands(c)

RInv == TypeOK /\ Locks /\ Lease /\ Line /\ Sessions /\ Moved /\ Leased

Held == Locks /\ Lease /\ Line /\ Sessions /\ Moved /\ Leased

-----------------------------------------------------------------------------
(* What the steps do *)

\* The kinds of a publisher's and of a client's record.
PubKind == [at : Stations, gen : 0 .. MaxGen, until : 0 .. Horizon + Ttl]
ClKind == [at : Steps, pin : Publishers \cup {None}, said : Requests, got : Replies,
           leased : BOOLEAN, broken : BOOLEAN]

\* A publisher goes to a station and nothing else of it changes.
Stood(p, station) ==
  /\ pub' \in [Publishers -> PubKind]
  /\ pub'[p].at = station /\ pub'[p].gen = pub[p].gen /\ pub'[p].until = pub[p].until
  /\ \A q \in Publishers : q # p => pub'[q] = pub[q]

\* Going to a station keeps the kind of the publishers.
LEMMA PubGoes ==
  ASSUME TypeOK, NEW p \in Publishers, NEW station \in Stations, PubGo(p, station)
  PROVE  Stood(p, station)
<1> DEFINE r == [pub[p] EXCEPT !.at = station]
<1>1. pub \in [Publishers -> PubKind] /\ pub[p] \in PubKind
  BY DEF TypeOK, PubKind
<1>2. r \in PubKind /\ r.at = station /\ r.gen = pub[p].gen /\ r.until = pub[p].until
  BY <1>1 DEF PubKind
<1>3. pub' = [pub EXCEPT ![p] = r]
  BY DEF PubGo
<1> HIDE DEF r
<1>4. pub' \in [Publishers -> PubKind] /\ pub'[p] = r
      /\ \A q \in Publishers : q # p => pub'[q] = pub[q]
  BY <1>1, <1>2, <1>3
<1> QED BY <1>2, <1>4 DEF Stood

\* A client goes to a step and nothing else of it changes.
Stepped(c, step) ==
  /\ cl' \in [Clients -> ClKind] /\ cl'[c].at = step
  /\ cl'[c].pin = cl[c].pin /\ cl'[c].said = cl[c].said /\ cl'[c].got = cl[c].got
  /\ cl'[c].leased = cl[c].leased /\ cl'[c].broken = cl[c].broken
  /\ \A d \in Clients : d # c => cl'[d] = cl[d]

\* Going to a step keeps the kind of the clients.
LEMMA ClientGoes ==
  ASSUME TypeOK, NEW c \in Clients, NEW step \in Steps, Go(c, step)
  PROVE  Stepped(c, step)
<1> DEFINE r == [cl[c] EXCEPT !.at = step]
<1>1. cl \in [Clients -> ClKind] /\ cl[c] \in ClKind
  BY DEF TypeOK, ClKind
<1>2. /\ r \in ClKind /\ r.at = step /\ r.pin = cl[c].pin /\ r.said = cl[c].said
      /\ r.got = cl[c].got /\ r.leased = cl[c].leased /\ r.broken = cl[c].broken
  BY <1>1 DEF ClKind
<1>3. cl' = [cl EXCEPT ![c] = r]
  BY DEF Go, Set
<1> HIDE DEF r
<1>4. cl' \in [Clients -> ClKind] /\ cl'[c] = r /\ \A d \in Clients : d # c => cl'[d] = cl[d]
  BY <1>1, <1>2, <1>3
<1> QED BY <1>2, <1>4 DEF Stepped

\* A client is answered and nothing else of it changes.
Answered(c, reply) ==
  /\ cl' \in [Clients -> ClKind] /\ cl'[c].got = reply
  /\ cl'[c].at = cl[c].at /\ cl'[c].pin = cl[c].pin /\ cl'[c].said = cl[c].said
  /\ cl'[c].leased = cl[c].leased /\ cl'[c].broken = cl[c].broken
  /\ \A d \in Clients : d # c => cl'[d] = cl[d]

\* An answer keeps the kind of the clients.
LEMMA Replied ==
  ASSUME TypeOK, NEW c \in Clients, NEW reply \in Replies, Reply(c, reply)
  PROVE  Answered(c, reply)
<1> DEFINE r == [cl[c] EXCEPT !.got = reply]
<1>1. cl \in [Clients -> ClKind] /\ cl[c] \in ClKind
  BY DEF TypeOK, ClKind
<1>2. /\ r \in ClKind /\ r.at = cl[c].at /\ r.pin = cl[c].pin /\ r.said = cl[c].said
      /\ r.got = reply /\ r.leased = cl[c].leased /\ r.broken = cl[c].broken
  BY <1>1 DEF ClKind
<1>3. cl' = [cl EXCEPT ![c] = r]
  BY DEF Reply
<1> HIDE DEF r
<1>4. cl' \in [Clients -> ClKind] /\ cl'[c] = r /\ \A d \in Clients : d # c => cl'[d] = cl[d]
  BY <1>1, <1>2, <1>3
<1> QED BY <1>2, <1>4 DEF Answered

\* Whoever waits for an answer may read that the publisher is gone; nothing else changes.
HungUp ==
  \A c \in Clients :
    /\ cl'[c].at = cl[c].at /\ cl'[c].pin = cl[c].pin /\ cl'[c].said = cl[c].said
    /\ cl'[c].leased = cl[c].leased /\ cl'[c].broken = cl[c].broken
    /\ cl'[c].got = cl[c].got \/ (cl[c].got = "none" /\ cl'[c].got = "closed")

\* Hanging up tells at most who waited.
LEMMA HangsUp ==
  ASSUME TypeOK, NEW S, cl' = HangUp(S)
  PROVE  HungUp /\ cl' \in [Clients -> ClKind]
<1>1. cl \in [Clients -> ClKind]
  BY DEF TypeOK, ClKind
<1>2. ASSUME NEW c \in Clients
      PROVE  /\ cl'[c] \in ClKind
             /\ cl'[c].at = cl[c].at /\ cl'[c].pin = cl[c].pin /\ cl'[c].said = cl[c].said
             /\ cl'[c].leased = cl[c].leased /\ cl'[c].broken = cl[c].broken
             /\ cl'[c].got = cl[c].got \/ (cl[c].got = "none" /\ cl'[c].got = "closed")
  <2>1. cl'[c] = cl[c] \/ (cl[c].got = "none" /\ cl'[c] = [cl[c] EXCEPT !.got = "closed"])
    BY DEF HangUp
  <2>2. cl[c] \in ClKind
    BY <1>1
  <2>3. CASE cl'[c] = cl[c]
    BY <2>2, <2>3
  <2>4. CASE cl[c].got = "none" /\ cl'[c] = [cl[c] EXCEPT !.got = "closed"]
    BY <2>2, <2>4 DEF ClKind, Replies
  <2> QED BY <2>1, <2>3, <2>4
<1>3. cl' = [c \in Clients |-> cl'[c]]
  BY DEF HangUp
<1>4. cl' \in [Clients -> ClKind]
  BY <1>2, <1>3
<1> QED BY <1>2, <1>4 DEF HungUp

\* A publisher that goes gives up what it had, and who was connected to it is told.
Left(p) ==
  /\ Stood(p, "ended")
  /\ root' = (IF root = p THEN None ELSE root) /\ flock' = (IF flock = p THEN None ELSE flock)
  /\ HungUp /\ cl' \in [Clients -> ClKind]
  /\ \/ pub[p].at \in Serving /\ queue' = <<>> /\ peer' = None
     \/ pub[p].at \notin Serving /\ UNCHANGED <<queue, peer>>

\* The end of a publisher is what Left says.
LEMMA EndsIs ==
  ASSUME TypeOK, NEW p \in Publishers, Ends(p)
  PROVE  Left(p)
<1>1. Stood(p, "ended")
  BY PubGoes DEF Ends, Stations
<1>2. CASE pub[p].at \in Serving
  BY <1>1, <1>2, HangsUp DEF Ends, Left
<1>3. CASE pub[p].at \notin Serving
  <2>1. UNCHANGED <<queue, peer, cl>>
    BY <1>3 DEF Ends
  <2>2. HungUp
    BY <2>1 DEF HungUp
  <2>3. cl' \in [Clients -> ClKind]
    BY <2>1 DEF TypeOK, ClKind
  <2> QED BY <1>1, <1>3, <2>1, <2>2, <2>3 DEF Ends, Left
<1> QED BY <1>2, <1>3

\* One publisher serves, and it is the one everybody has pinned.
LEMMA OnlyOne ==
  ASSUME RInv, NEW p \in Publishers, pub[p].at \in Serving
  PROVE  /\ lease.socket = p
         /\ \A q \in Publishers : q # p => pub[q].at \notin Serving
         /\ \A c \in Clients : cl[c].at # "idle" => cl[c].pin = p
BY DEF RInv, Lease, Line, Known

\* A publisher's end keeps the invariant.
LEMMA EndsKeeps ==
  ASSUME Assumptions, RInv, NEW p \in Publishers, Ends(p),
         UNCHANGED <<clock, ledger, sources, lease>>
  PROVE  Held'
<1>1. Left(p) /\ Stood(p, "ended")
  BY EndsIs DEF RInv, Left
<1>2. p # None /\ \A c \in Clients : c # None /\ c # p
  BY DEF Assumptions, Clients
<1>3. Locks'
  BY <1>1, <1>2 DEF RInv, Locks, Left, Stood, HungUp, Holding, Serving, Guarded
<1>4. Lease'
  BY <1>1, <1>2 DEF RInv, TypeOK, Lease, Stood, Serving
<1>5. Line'
  <2>1. \A c \in Clients : Known(c)'
    BY <1>1 DEF RInv, Line, Known, Left, HungUp
  <2>2. CASE pub[p].at \in Serving
    <3>1. queue' = <<>> /\ peer' = None
      BY <1>1, <2>2 DEF Left
    <3>2. \A q \in Publishers : pub'[q].at \notin Serving
      BY <1>1, <2>2, OnlyOne DEF Stood, Serving
    <3> QED BY <2>1, <3>1, <3>2 DEF Line, Serves, Waiting, Serving
  <2>3. CASE pub[p].at \notin Serving
    <3>1. queue' = queue /\ peer' = peer
      BY <1>1, <2>3 DEF Left
    <3>2. \A q \in Publishers : pub'[q].at \in Serving => pub'[q].at = pub[q].at
      BY <1>1 DEF Stood, Serving
    <3>3. \A i \in DOMAIN queue : cl'[queue[i]].at # "idle"
      BY <1>1 DEF RInv, TypeOK, Line, Waiting, Left, HungUp
    <3>4. peer # None => cl'[peer].at # "idle"
      BY <1>1 DEF RInv, TypeOK, Line, Left, HungUp
    <3>5. \A q \in Publishers : Serves(q)'
      BY <3>1, <3>2 DEF RInv, Line, Serves, Serving
    <3>6. Waiting'
      BY <3>1, <3>3 DEF Waiting
    <3>7. peer' # None => cl'[peer'].at # "idle"
      BY <3>1, <3>4
    <3> QED BY <2>1, <3>5, <3>6, <3>7 DEF Line
  <2> QED BY <2>2, <2>3
<1>6. \A c \in Consumers : InSession(c)' => InSession(c)
  BY <1>1 DEF Left, HungUp, InSession, Clients
<1>7. \A c \in Consumers : cl[c].at # "idle" => cl[c].pin \in Publishers
  BY DEF RInv, TypeOK, Line, Known, Clients
<1>8. \A c \in Consumers : cl[c].at # "idle" => (Over(c) => Over(c)') /\ (Late(c) <=> Late(c)')
  BY <1>1, <1>7 DEF Left, Stood, HungUp, Over, Late, Expired, Clients
<1>9. Sessions'
  <2>1. Pinned'
    BY <1>1 DEF RInv, Sessions, Pinned, Admitting, Stood
  <2>2. ASSUME NEW c \in Consumers
        PROVE  Admission(c)'
    <3>1. SUFFICES ASSUME InSession(c)'
                   PROVE  Over(c)' \/ (peer' = c /\ pub'[cl'[c].pin].at \in Admitting)
      BY DEF Admission
    <3>2. InSession(c) /\ cl[c].at # "idle" /\ cl'[c].pin = cl[c].pin
      BY <1>1, <1>6, <3>1 DEF InSession, RInv, Line, Known, Clients, Left, HungUp
    <3>3. Over(c) \/ (peer = c /\ pub[cl[c].pin].at \in Admitting)
      BY <3>2 DEF RInv, Sessions, Admission
    <3>4. CASE Over(c)
      BY <1>8, <3>2, <3>4
    <3>5. CASE cl[c].pin = p
      BY <1>1, <3>2, <3>5 DEF Stood, Over
    <3>6. CASE cl[c].pin # p /\ peer = c /\ pub[cl[c].pin].at \in Admitting
      <4>1. pub[p].at \notin Serving
        BY <1>7, <3>2, <3>6, OnlyOne DEF Clients
      <4> QED BY <1>1, <1>7, <3>2, <3>6, <4>1 DEF Left, Stood
    <3> QED BY <3>3, <3>4, <3>5, <3>6
  <2>3. ASSUME NEW c \in Consumers
        PROVE  Word(c)'
    BY <1>1, <1>6, <1>8 DEF RInv, Sessions, Word, Left, HungUp, Awaited, Using, Clients
  <2>4. ASSUME NEW q \in Publishers
        PROVE  Unanswered(q)'
    <3>1. SUFFICES ASSUME pub'[q].at = "session"
                   PROVE  \/ Expired(q)' \/ peer' \notin Consumers
                          \/ cl'[peer'].at \in {"done", "failed"}
                          \/ cl'[peer'].said # "finish" /\ cl'[peer'].got # "verified"
      BY DEF Unanswered
    <3>2. q # p /\ pub'[q] = pub[q]
      BY <1>1, <3>1 DEF Stood
    <3>3. pub[p].at \notin Serving /\ peer' = peer /\ peer \in Clients
      BY <1>1, <3>1, <3>2, OnlyOne DEF Left, Serving, RInv, Line, Serves, TypeOK
    <3>4. \/ Expired(q) \/ peer \notin Consumers \/ cl[peer].at \in {"done", "failed"}
          \/ cl[peer].said # "finish" /\ cl[peer].got # "verified"
      BY <3>1, <3>2 DEF RInv, Sessions, Unanswered
    <3>5. Expired(q) => Expired(q)'
      BY <3>2 DEF Expired
    <3> QED BY <1>1, <3>3, <3>4, <3>5 DEF Left, HungUp
  <2> QED BY <2>1, <2>2, <2>3, <2>4 DEF Sessions
<1>10. Moved'
  BY <1>1, <1>8 DEF RInv, Moved, Spoiled, Left, HungUp, Clients
<1>11. Leased'
  BY <1>1 DEF RInv, Leased, Stands, Left, HungUp, Clients
<1> QED BY <1>3, <1>4, <1>5, <1>9, <1>10, <1>11 DEF Held

-----------------------------------------------------------------------------
(* A publisher's steps *)

\* A publisher that is not gone goes on and nobody is answered: sessions are as they were.
LEMMA QuietSessions ==
  ASSUME RInv, NEW p \in Publishers, NEW station \in Stations, Stood(p, station),
         pub[p].at # "ended", UNCHANGED <<world, cl>>, lease'.revoked = lease.revoked,
         peer' = peer \/ peer = None,
         pub[p].at \in Admitting => station \in Admitting,
         station \in Admitting => pub[p].at \in Admitting,
         station = "session" => cl[peer].said # "finish" /\ cl[peer].got # "verified",
         None \notin Consumers
  PROVE  Sessions' /\ Moved' /\ Leased'
<1>1. \A c \in Consumers : cl[c].at # "idle" => cl[c].pin \in Publishers
  BY DEF RInv, TypeOK, Line, Known, Clients
<1>2. \A c \in Consumers : cl[c].at # "idle" => (Over(c) => Over(c)') /\ (Late(c) <=> Late(c)')
  BY <1>1 DEF Stood, Over, Late, Expired, world
<1>3. \A c \in Consumers : (InSession(c)' <=> InSession(c)) /\ Awaited(c)' = Awaited(c)
  BY DEF InSession, Awaited
<1>4. \A c \in Consumers : InSession(c) => cl[c].at # "idle"
  BY DEF InSession, RInv, Line, Known, Clients
<1>5. \A q \in Publishers : pub'[q].at \in Admitting <=> pub[q].at \in Admitting
  BY DEF Stood
<1>6. Pinned'
  BY <1>5 DEF Stood, Pinned, RInv, Sessions, world
<1>7. ASSUME NEW c \in Consumers
      PROVE  Admission(c)'
  BY <1>1, <1>2, <1>3, <1>4, <1>5 DEF RInv, Sessions, Admission
<1>8. ASSUME NEW c \in Consumers
      PROVE  Word(c)'
  BY <1>2, <1>3 DEF RInv, Sessions, Word, Using
<1>9. Moved'
  BY <1>2 DEF RInv, Moved, Spoiled
<1>10. Leased'
  BY DEF RInv, Leased, Stands, world
<1>11. ASSUME NEW q \in Publishers
       PROVE  Unanswered(q)'
  <2>1. pub'[q].at = "session" => peer' = peer
    BY <1>5 DEF Admitting, RInv, Line, Serves
  <2>2. (Expired(q) => Expired(q)') \/ pub'[q].at # "session"
    BY DEF Stood, Expired, world
  <2> QED BY <2>1, <2>2 DEF RInv, Sessions, Unanswered, Stood
<1> QED BY <1>6, <1>7, <1>8, <1>9, <1>10, <1>11 DEF Sessions

\* Before it serves, a publisher changes nothing for those who wait or are served.
LEMMA QuietLine ==
  ASSUME RInv, NEW p \in Publishers, NEW station \in Stations \ Serving, Stood(p, station),
         pub[p].at \notin Serving, UNCHANGED <<cl, queue, peer>>, lease'.socket = lease.socket
  PROVE  Line'
<1>1. \A c \in Clients : Known(c)'
  BY DEF RInv, Line, Known
<1>2. \A q \in Publishers : Serves(q)'
  BY DEF RInv, Line, Serves, Stood, Serving
<1>3. Waiting' /\ (peer' # None => cl'[peer'].at # "idle")
  BY DEF RInv, Line, Waiting
<1> QED BY <1>1, <1>2, <1>3 DEF Line

\* The names of publishers, clients, the helper and nobody differ.
LEMMA NamesApart ==
  ASSUME Assumptions
  PROVE  /\ None \notin Publishers /\ None \notin Clients /\ Helper \notin Publishers
         /\ None # Helper /\ Consumers \subseteq Clients /\ None \notin Consumers
         /\ \A p \in Publishers : p \notin Clients
BY DEF Assumptions, Clients

\* What a publisher that is not yet bound does to the locks and to the lease.
LEMMA PublisherOpensKeeps ==
  ASSUME Assumptions, RInv, NEW p \in Publishers,
         TakeGuard(p) \/ LeaveGuard(p) \/ LockLease(p) \/ WriteEnvelope(p)
  PROVE  Held'
<1>1. PICK station \in {"guarded", "checked", "locked", "written", "ended"} : PubGo(p, station)
  BY DEF TakeGuard, LeaveGuard, LockLease, WriteEnvelope
<1>2. Stood(p, station) /\ station \in Stations \ Serving
  BY <1>1, PubGoes DEF Stations, Serving, RInv
<1>3. /\ UNCHANGED <<world, cl, queue, peer>> /\ lease'.socket = lease.socket
      /\ lease'.revoked = lease.revoked /\ lease'.envelope = lease.envelope
  BY DEF TakeGuard, LeaveGuard, LockLease, WriteEnvelope, RInv, TypeOK
<1>4. pub[p].at \in {"proved", "guarded", "checked", "writing"}
  BY DEF TakeGuard, LeaveGuard, LockLease, WriteEnvelope
<1>8. \A other \in Stations : PubGo(p, other) => pub'[p].at = other
  BY PubGoes DEF RInv, Stood
<1>5. Sessions' /\ Moved' /\ Leased'
  BY <1>1, <1>2, <1>3, <1>4, QuietSessions, NamesApart DEF Admitting
<1>6. Line'
  BY <1>2, <1>3, <1>4, QuietLine DEF Serving
<1>7. Locks' /\ Lease'
  <2>1. CASE TakeGuard(p)
    <3>1. station \in {"guarded", "ended"} /\ (station = "guarded" => root = None /\ root' = p)
          /\ (station = "ended" => root' = root) /\ flock' = flock /\ lease' = lease
      BY <1>2, <1>8, <2>1 DEF TakeGuard, Stood, Stations
    <3>2. Locks'
      BY <1>2, <1>3, <1>4, <3>1, NamesApart
      DEF RInv, Locks, Stood, Holding, Serving, Guarded
    <3>3. Lease'
      BY <1>2, <1>3, <1>4, <3>1 DEF RInv, TypeOK, Lease, Stood, Serving
    <3> QED BY <3>2, <3>3
  <2>2. CASE LeaveGuard(p)
    <3>1. station \in {"checked", "ended"} /\ root = p /\ root' = None /\ flock' = flock
          /\ lease' = lease
      BY <1>2, <1>8, <2>2 DEF LeaveGuard, Stood, Stations, RInv, Locks, Guarded
    <3>2. Locks'
      BY <1>2, <1>3, <1>4, <3>1, NamesApart
      DEF RInv, Locks, Stood, Holding, Serving, Guarded
    <3>3. Lease'
      BY <1>2, <1>3, <1>4, <3>1 DEF RInv, TypeOK, Lease, Stood, Serving
    <3> QED BY <3>2, <3>3
  <2>3. CASE LockLease(p)
    <3>1. station \in {"locked", "ended"} /\ (station = "locked" => flock = None /\ flock' = p)
          /\ (station = "ended" => flock' = flock) /\ root' = root /\ lease' = lease
      BY <1>2, <1>8, <2>3 DEF LockLease, Stood, Stations
    <3>2. Locks'
      BY <1>2, <1>3, <1>4, <3>1, NamesApart
      DEF RInv, Locks, Stood, Holding, Serving, Guarded
    <3>3. Lease'
      BY <1>2, <1>3, <1>4, <3>1 DEF RInv, TypeOK, Lease, Stood, Serving
    <3> QED BY <3>2, <3>3
  <2>4. CASE WriteEnvelope(p)
    <3>1. station = "written" /\ flock' = flock /\ root' = root /\ pub[p].at = "writing"
      BY <1>2, <1>8, <2>4 DEF WriteEnvelope, Stood, Stations
    <3>2. Locks'
      BY <1>2, <1>3, <1>4, <3>1, NamesApart
      DEF RInv, Locks, Stood, Holding, Serving, Guarded
    <3>3. Lease'
      BY <1>2, <1>3, <1>4, <3>1 DEF RInv, TypeOK, Lease, Stood, Serving
    <3> QED BY <3>2, <3>3
  <2> QED BY <2>1, <2>2, <2>3, <2>4
<1> QED BY <1>5, <1>6, <1>7 DEF Held

\* A publisher that begins proves the ledger, or gives up at once.
LEMMA ProveKeeps ==
  ASSUME Assumptions, RInv, NEW p \in Publishers, Prove(p)
  PROVE  Held'
<1>1. /\ pub[p].at = "idle" /\ pub'[p].at \in {"proved", "ended"}
      /\ \A q \in Publishers : q # p => pub'[q] = pub[q]
  BY DEF Prove, PubGo, RInv, TypeOK
<1>2. UNCHANGED <<world, root, lease, flock, queue, peer, cl>>
  BY DEF Prove
<1>3. \A c \in Clients : cl[c].at # "idle" =>
        cl[c].pin \in Publishers /\ cl[c].pin # p /\ pub'[cl[c].pin] = pub[cl[c].pin]
  BY <1>1 DEF RInv, TypeOK, Lease, Line, Known, Serving
<1>4. \A c \in Consumers : cl[c].at # "idle" => (Over(c) <=> Over(c)') /\ (Late(c) <=> Late(c)')
  BY <1>2, <1>3, NamesApart DEF Over, Late, Expired, world
<1>5. \A c \in Consumers : (InSession(c)' <=> InSession(c)) /\ Awaited(c)' = Awaited(c)
  BY <1>2 DEF InSession, Awaited
<1>6. \A c \in Consumers : InSession(c) => cl[c].at # "idle"
  BY NamesApart DEF InSession, RInv, Line, Known
<1>7. Locks'
  BY <1>1, <1>2 DEF RInv, Locks, Holding, Serving, Guarded
<1>8. Lease'
  BY <1>1, <1>2 DEF RInv, TypeOK, Lease, Serving
<1>9. Line'
  <2>1. \A c \in Clients : Known(c)'
    BY <1>2 DEF RInv, Line, Known
  <2>2. \A q \in Publishers : Serves(q)'
    BY <1>1, <1>2 DEF RInv, Line, Serves
  <2>3. Waiting' /\ (peer' # None => cl'[peer'].at # "idle")
    BY <1>2 DEF RInv, Line, Waiting
  <2> QED BY <2>1, <2>2, <2>3 DEF Line
<1>10. Sessions'
  <2>1. Pinned'
    BY <1>1, <1>2 DEF RInv, Sessions, Pinned, Admitting, world
  <2>2. ASSUME NEW c \in Consumers
        PROVE  Admission(c)'
    BY <1>2, <1>3, <1>4, <1>5, <1>6, NamesApart DEF RInv, Sessions, Admission
  <2>3. ASSUME NEW c \in Consumers
        PROVE  Word(c)'
    BY <1>2, <1>4, <1>5 DEF RInv, Sessions, Word, Using
  <2>4. ASSUME NEW q \in Publishers
        PROVE  Unanswered(q)'
    BY <1>1, <1>2 DEF RInv, Sessions, Unanswered, Expired, world
  <2> QED BY <2>1, <2>2, <2>3, <2>4 DEF Sessions
<1>11. Moved'
  BY <1>2, <1>4 DEF RInv, Moved, Spoiled
<1>12. Leased'
  BY <1>2 DEF RInv, Leased, Stands, world
<1> QED BY <1>7, <1>8, <1>9, <1>10, <1>11, <1>12 DEF Held

\* The lease is stamped and its envelope created by one who finds it neither revoked nor taken.
LEMMA PublisherWritesKeeps ==
  ASSUME Assumptions, RInv, NEW p \in Publishers, Stamp(p) \/ CreateEnvelope(p)
  PROVE  Held'
<1>1. CASE Ends(p) /\ UNCHANGED <<lease, world>>
  BY <1>1, EndsKeeps DEF world
<1>2. CASE ~(Ends(p) /\ UNCHANGED <<lease, world>>)
  <2>1. PICK station \in {"stamped", "writing"} :
          /\ PubGo(p, station) /\ UNCHANGED <<world, root, flock, queue, peer, cl>>
          /\ lease'.socket = lease.socket /\ lease'.revoked = lease.revoked
          /\ station = "stamped" =>
               pub[p].at = "locked" /\ ~lease.revoked /\ lease'.envelope = lease.envelope
          /\ station = "writing" =>
               pub[p].at = "stamped" /\ lease.envelope = None /\ lease'.envelope = p
    BY <1>2 DEF Stamp, CreateEnvelope, RInv, TypeOK
  <2>2. Stood(p, station) /\ station \in Stations \ Serving /\ pub[p].at \in {"locked", "stamped"}
    BY <2>1, PubGoes DEF Stations, Serving, RInv
  <2>3. Sessions' /\ Moved' /\ Leased'
    BY <2>1, <2>2, QuietSessions, NamesApart DEF Admitting
  <2>4. Line'
    BY <2>1, <2>2, QuietLine DEF Serving
  <2>5. Locks'
    BY <2>1, <2>2 DEF RInv, Locks, Stood, Holding, Serving, Guarded
  <2>6. Lease'
    <3>1. ASSUME NEW q \in Publishers
          PROVE  /\ pub'[q].at \in {"writing", "written"} \cup Serving => lease'.envelope = q
                 /\ pub'[q].at \in Serving => lease'.socket = q
                 /\ lease'.revoked =>
                      pub'[q].at \notin {"stamped", "writing", "written"} \cup Serving
      BY <2>1, <2>2, NamesApart DEF RInv, Lease, Stood, Serving
    <3>2. lease'.socket # None => /\ lease'.envelope = lease'.socket
                                  /\ pub'[lease'.socket].at \in Serving \cup {"ended"}
      BY <2>1, <2>2 DEF RInv, TypeOK, Lease, Stood, Serving
    <3> QED BY <3>1, <3>2 DEF Lease
  <2> QED BY <2>3, <2>4, <2>5, <2>6 DEF Held
<1> QED BY <1>1, <1>2

\* The socket is bound when there was none, hence before anybody could ask for it.
LEMMA ListenKeeps ==
  ASSUME Assumptions, RInv, NEW p \in Publishers, Listen(p)
  PROVE  Held'
<1>1. /\ pub[p].at = "written" /\ PubGo(p, "serving")
      /\ UNCHANGED <<world, root, flock, queue, peer, cl>>
      /\ lease'.socket = p /\ lease'.revoked = lease.revoked /\ lease'.envelope = lease.envelope
  BY DEF Listen, RInv, TypeOK
<1>2. Stood(p, "serving")
  BY <1>1, PubGoes DEF Stations, RInv
<1>3. lease.envelope = p /\ lease.socket = None
  BY <1>1, NamesApart DEF RInv, Lease, Serving
<1>4. \A c \in Clients : cl[c].at = "idle"
  BY <1>3 DEF RInv, Line, Known
<1>5. peer = None
  BY <1>4 DEF RInv, TypeOK, Line
<1>6. Sessions' /\ Moved' /\ Leased'
  BY <1>1, <1>2, QuietSessions, NamesApart DEF Admitting, Stations
<1>7. Locks'
  BY <1>1, <1>2 DEF RInv, Locks, Stood, Holding, Serving, Guarded
<1>8. Lease'
  BY <1>1, <1>2, <1>3, NamesApart DEF RInv, Lease, Stood, Serving
<1>9. Line'
  <2>1. \A c \in Clients : Known(c)'
    BY <1>1, <1>4 DEF RInv, Line, Known
  <2>2. \A q \in Publishers : Serves(q)'
    BY <1>1, <1>2, <1>5 DEF RInv, Line, Serves, Stood
  <2>3. Waiting' /\ (peer' # None => cl'[peer'].at # "idle")
    BY <1>1 DEF RInv, Line, Waiting
  <2> QED BY <2>1, <2>2, <2>3 DEF Line
<1> QED BY <1>6, <1>7, <1>8, <1>9 DEF Held

\* Who is next is asked, and who was verified may ask again.
LEMMA AcceptKeeps ==
  ASSUME Assumptions, RInv, NEW p \in Publishers, Accept(p) \/ Turn(p)
  PROVE  Held'
<1>1. PICK station \in {"asked", "session"} :
        /\ PubGo(p, station) /\ UNCHANGED <<world, root, lease, flock, cl>>
        /\ station = "asked" => /\ pub[p].at = "serving" /\ queue # <<>>
                               /\ peer' = Head(queue) /\ queue' = Tail(queue)
        /\ station = "session" => /\ pub[p].at = "admitted" /\ UNCHANGED <<peer, queue>>
                                 /\ cl[peer].said = "recheck" /\ cl[peer].got = "none"
  BY DEF Accept, Turn
<1>2. Stood(p, station) /\ station \in Serving /\ pub[p].at \in Serving
  BY <1>1, PubGoes DEF Stations, RInv, Serving
<1>3. \A q \in Publishers : q # p => pub'[q].at \notin Serving
  BY <1>2, OnlyOne DEF Stood
<1>4. queue \in Seq(Clients)
  BY DEF RInv, TypeOK
<1>5. station = "asked" => peer = None /\ peer' \in Clients /\ cl[peer'].at # "idle"
  BY <1>1, <1>4 DEF RInv, Line, Serves, Waiting
<1>6. Waiting'
  <2>1. CASE station = "session"
    BY <1>1, <2>1 DEF RInv, Line, Waiting
  <2>2. CASE station = "asked"
    <3>1. \A i \in 1 .. Len(queue) : cl[queue[i]].at # "idle"
      BY <1>4 DEF RInv, Line, Waiting
    <3>2. DOMAIN queue' = 1 .. Len(queue) - 1 /\ \A i \in DOMAIN queue' : queue'[i] = queue[i + 1]
      BY <1>1, <1>4, <2>2, HeadTailProperties
    <3>3. Len(queue) \in Nat
      BY <1>4
    <3>4. \A i \in DOMAIN queue' : cl[queue'[i]].at # "idle"
      BY <3>1, <3>2, <3>3
    <3> QED BY <1>1, <3>4 DEF Waiting
  <2> QED BY <1>1, <2>1, <2>2
<1>7. Line'
  <2>1. \A c \in Clients : Known(c)'
    BY <1>1 DEF RInv, Line, Known
  <2>2. \A q \in Publishers : Serves(q)'
    BY <1>1, <1>2, <1>3, <1>5, NamesApart DEF RInv, Line, Serves, Stood, Serving
  <2>3. peer' # None => cl'[peer'].at # "idle"
    BY <1>1, <1>5 DEF RInv, Line
  <2> QED BY <1>6, <2>1, <2>2, <2>3 DEF Line
<1>8. Sessions' /\ Moved' /\ Leased'
  BY <1>1, <1>2, <1>5, QuietSessions, NamesApart DEF Admitting, Stations, Serving
<1>9. Locks'
  BY <1>1, <1>2 DEF RInv, Locks, Stood, Holding, Serving, Guarded
<1>10. Lease'
  BY <1>1, <1>2 DEF RInv, TypeOK, Lease, Stood, Serving
<1> QED BY <1>7, <1>8, <1>9, <1>10 DEF Held

\* Nobody has a session while the one who serves has admitted nobody, and its lease runs.
LEMMA NobodyInSession ==
  ASSUME Assumptions, RInv, NEW p \in Publishers, pub[p].at \in {"serving", "asked"}, ~Expired(p)
  PROVE  \A c \in Consumers : (~InSession(c) /\ ~Over(c)) \/ cl[c].at = "idle"
<1>1. pub[p].at \in Serving /\ pub[p].at \notin Admitting \cup {"ended"}
  BY DEF Serving, Admitting
<1>2. ASSUME NEW c \in Consumers, cl[c].at # "idle"
      PROVE  ~InSession(c) /\ ~Over(c)
  <2>1. cl[c].pin = p
    BY <1>1, <1>2, OnlyOne, NamesApart
  <2>2. ~Over(c)
    BY <1>1, <2>1 DEF Over
  <2> QED BY <1>1, <2>1, <2>2 DEF RInv, Sessions, Admission
<1> QED BY <1>2

\* A session begins behind the lock of the root, with the ledger as it was proved.
LEMMA BeginKeeps ==
  ASSUME Assumptions, RInv, NEW p \in Publishers, Begin(p)
  PROVE  Held'
<1>1. CASE Ends(p)
  BY <1>1, EndsKeeps DEF Begin, world
<1>2. CASE root = None /\ Current(p) /\ ~Ends(p)
  <2>1. /\ PubGo(p, "session") /\ root' = p /\ UNCHANGED <<world, lease, flock, queue, peer, cl>>
        /\ pub[p].at = "asked" /\ cl[peer].said = "begin" /\ ~Expired(p)
    BY <1>2 DEF Begin
  <2>2. Stood(p, "session") /\ pub[p].at \in Serving
    BY <2>1, PubGoes DEF Stations, RInv, Serving
  <2>3. \A q \in Publishers : q # p => pub'[q].at \notin Serving
    BY <2>2, OnlyOne DEF Stood
  <2>4. peer \in Clients /\ cl[peer].at # "idle"
    BY <2>1 DEF RInv, TypeOK, Line, Serves
  <2>5. \A c \in Consumers : cl[c].at # "idle" => ~InSession(c) /\ ~Over(c)
    BY <2>1, NobodyInSession
  <2>6. Locks'
    BY <1>2, <2>1, <2>2, NamesApart DEF RInv, Locks, Stood, Holding, Serving, Guarded
  <2>7. Lease'
    BY <2>1, <2>2 DEF RInv, TypeOK, Lease, Stood, Serving
  <2>8. Line'
    <3>1. \A c \in Clients : Known(c)'
      BY <2>1 DEF RInv, Line, Known
    <3>2. \A q \in Publishers : Serves(q)'
      BY <2>1, <2>2, <2>3 DEF RInv, Line, Serves, Stood, Serving
    <3>3. Waiting' /\ (peer' # None => cl'[peer'].at # "idle")
      BY <2>1 DEF RInv, Line, Waiting
    <3> QED BY <3>1, <3>2, <3>3 DEF Line
  <2>9. \A c \in Consumers :
          /\ (InSession(c)' <=> InSession(c)) /\ Awaited(c)' = Awaited(c)
          /\ cl[c].at # "idle" => (Over(c) => Over(c)') /\ (Late(c) <=> Late(c)')
    <3>1. \A c \in Consumers : cl[c].at # "idle" => cl[c].pin = p
      BY <2>2, OnlyOne, NamesApart
    <3> QED BY <2>1, <2>2, <2>5, <3>1 DEF InSession, Awaited, Late, Expired, Stood, world
  <2>10. \A c \in Consumers : InSession(c) => cl[c].at # "idle"
    BY NamesApart DEF InSession, RInv, Line, Known
  <2>11. Sessions'
    <3>1. Pinned'
      BY <1>2, <2>1, <2>2, <2>3 DEF Pinned, Current, Stood, Admitting, Serving, world
    <3>2. ASSUME NEW c \in Consumers
          PROVE  Admission(c)'
      BY <2>5, <2>9, <2>10 DEF Admission
    <3>3. ASSUME NEW c \in Consumers
          PROVE  Word(c)'
      BY <2>1, <2>9 DEF RInv, Sessions, Word, Using
    <3>4. \/ peer \notin Consumers \/ cl[peer].at \in {"done", "failed"}
          \/ cl[peer].got # "verified"
      BY <2>4, <2>5 DEF InSession
    <3>5. \A q \in Publishers : Unanswered(q)'
      BY <2>1, <2>2, <2>3, <3>4 DEF Unanswered, Stood, Serving
    <3> QED BY <3>1, <3>2, <3>3, <3>5 DEF Sessions
  <2>12. Moved'
    BY <2>1, <2>9 DEF RInv, Moved, Spoiled
  <2>13. Leased'
    BY <2>1 DEF RInv, Leased, Stands, world
  <2> QED BY <2>6, <2>7, <2>8, <2>11, <2>12, <2>13 DEF Held
<1> QED BY <1>1, <1>2 DEF Begin

\* What holds whenever the client that is served gets an answer.
Replying(p, station, reply) ==
  /\ Stood(p, station) /\ Answered(peer, reply) /\ peer \in Clients /\ cl[peer].at # "idle"
  /\ pub[p].at \in Serving /\ \A q \in Publishers : q # p => pub'[q].at \notin Serving
  /\ \A c \in Clients : cl[c].at # "idle" => cl[c].pin = p
  /\ \A c \in Consumers : cl[c].at # "idle" => (Over(c) => Over(c)') /\ (Late(c) <=> Late(c)')

\* An answer leaves alone whatever is not about the client that gets it.
LEMMA AnswersKeep ==
  ASSUME Assumptions, RInv, NEW p \in Publishers, NEW station \in {"serving", "admitted"},
         NEW reply \in Replies, pub[p].at \in {"asked", "session", "admitted"},
         station = "admitted" => pub[p].at = "session", PubGo(p, station), Reply(peer, reply),
         UNCHANGED <<world, lease, flock, queue>>,
         peer' = IF station = "serving" THEN None ELSE peer
  PROVE  /\ Replying(p, station, reply)
         /\ Lease' /\ Line' /\ Leased' /\ Pinned' /\ \A q \in Publishers : Unanswered(q)'
<1>1. Stood(p, station) /\ pub[p].at \in Serving /\ station \in Stations
  BY PubGoes DEF Stations, RInv, Serving
<1>2. peer \in Clients /\ cl[peer].at # "idle"
  BY DEF RInv, TypeOK, Line, Serves
<1>3. Answered(peer, reply)
  BY <1>2, Replied DEF RInv
<1>4. /\ \A q \in Publishers : q # p => pub'[q].at \notin Serving
      /\ \A c \in Clients : cl[c].at # "idle" => cl[c].pin = p
  BY <1>1, OnlyOne DEF Stood
<1>5. ASSUME NEW c \in Consumers, cl[c].at # "idle"
      PROVE  (Over(c) => Over(c)') /\ (Late(c) <=> Late(c)')
  <2>1. cl'[c].pin = p /\ cl[c].pin = p
    BY <1>3, <1>4, <1>5, NamesApart DEF Answered
  <2>2. pub[p].at # "ended" /\ pub'[p].until = pub[p].until /\ clock' = clock
    BY <1>1 DEF Stood, Serving, world
  <2> QED BY <2>1, <2>2 DEF Over, Late, Expired
<1>6. Lease'
  BY <1>1 DEF RInv, TypeOK, Lease, Stood, Serving
<1>7. Line'
  <2>1. \A c \in Clients : Known(c)'
    BY <1>2, <1>3 DEF RInv, Line, Known, Answered
  <2>2. \A q \in Publishers : Serves(q)'
    BY <1>1, <1>2, <1>4, NamesApart DEF RInv, Line, Serves, Stood, Serving
  <2>3. Waiting'
    <3>1. \A d \in Clients : cl'[d].at = cl[d].at
      BY <1>3 DEF Answered
    <3> QED BY <3>1 DEF RInv, TypeOK, Line, Waiting
  <2>4. peer' # None => cl'[peer'].at # "idle"
    BY <1>2, <1>3 DEF Answered
  <2> QED BY <2>1, <2>2, <2>3, <2>4 DEF Line
<1>8. Leased'
  BY <1>3, NamesApart DEF RInv, Leased, Stands, Answered, world
<1>9. Pinned'
  BY <1>1, <1>4 DEF RInv, Sessions, Pinned, Stood, Admitting, Serving, world
<1>10. \A q \in Publishers : Unanswered(q)'
  BY <1>1, <1>4 DEF Unanswered, Stood, Serving
<1> QED BY <1>1, <1>2, <1>3, <1>4, <1>5, <1>6, <1>7, <1>8, <1>9, <1>10 DEF Replying

\* The other consumers are as they were; one in a session lost its publisher long ago.
LEMMA OthersStay ==
  ASSUME Assumptions, RInv, NEW p, NEW station, NEW reply, Replying(p, station, reply),
         UNCHANGED <<world, lease>>, NEW c \in Consumers, c # peer
  PROVE  Admission(c)' /\ Word(c)' /\ Spoiled(c)'
<1>1. cl'[c] = cl[c]
  BY NamesApart DEF Replying, Answered
<1>2. (InSession(c)' <=> InSession(c)) /\ Awaited(c)' = Awaited(c)
  BY <1>1 DEF InSession, Awaited
<1>3. InSession(c) => cl[c].at # "idle"
  BY NamesApart DEF InSession, RInv, Line, Known
<1>4. cl[c].at # "idle" => (Over(c) => Over(c)') /\ (Late(c) <=> Late(c)')
  BY DEF Replying
<1>5. Admission(c)'
  BY <1>2, <1>3, <1>4 DEF RInv, Sessions, Admission
<1>6. Word(c)'
  BY <1>1, <1>2, <1>4 DEF RInv, Sessions, Word, Using
<1>7. Spoiled(c)'
  BY <1>1, <1>4 DEF RInv, Moved, Spoiled
<1> QED BY <1>5, <1>6, <1>7

\* Who is verified has the session, with the ledger as it was proved.
LEMMA VerifyKeeps ==
  ASSUME Assumptions, RInv, NEW p \in Publishers, Verify(p)
  PROVE  Held'
<1>1. CASE Ends(p)
  BY <1>1, EndsKeeps DEF Verify, world
<1>2. CASE Current(p) /\ ~Ends(p)
  <2>1. /\ PubGo(p, "admitted") /\ Reply(peer, "verified") /\ pub[p].at = "session" /\ ~Expired(p)
        /\ UNCHANGED <<world, lease, root, flock, queue, peer>>
    BY <1>2 DEF Verify
  <2>2. /\ Replying(p, "admitted", "verified")
        /\ Lease' /\ Line' /\ Leased' /\ Pinned' /\ \A q \in Publishers : Unanswered(q)'
    BY <2>1, AnswersKeep DEF Replies
  <2>3. Locks'
    BY <2>1, <2>2 DEF RInv, Locks, Replying, Answered, Stood, Holding, Serving, Guarded
  <2>4. ASSUME NEW c \in Consumers
        PROVE  Admission(c)' /\ Word(c)' /\ Spoiled(c)'
    <3>1. CASE c = peer
      <4>1. /\ cl'[c].got = "verified" /\ cl'[c].at = cl[c].at /\ cl'[c].said = cl[c].said
            /\ cl'[c].broken = cl[c].broken
            /\ cl'[c].pin = p /\ pub'[p].at = "admitted" /\ cl[c].pin = p /\ cl[c].at # "idle"
        BY <2>2, <3>1, NamesApart DEF Replying, Answered, Stood
      <4>2. Admission(c)'
        BY <2>1, <3>1, <4>1 DEF Admission, Admitting
      <4>3. ~lease'.revoked
        BY <2>1 DEF RInv, Lease, Serving
      <4>4. cl[c].at \in {"done", "failed"} \/ cl[c].said # "finish"
        BY <2>1, <3>1 DEF RInv, Sessions, Unanswered
      <4>5. cl[c].said # "revoke"
        BY NamesApart DEF RInv, Line, Known
      <4>6. Word(c)'
        BY <4>1, <4>3, <4>4, <4>5 DEF Word, Awaited, Using
      <4>7. Spoiled(c)'
        BY <2>2, <4>1 DEF RInv, Moved, Spoiled, Replying
      <4> QED BY <4>2, <4>6, <4>7
    <3> QED BY <2>1, <2>2, <3>1, OthersStay
  <2> QED BY <2>2, <2>3, <2>4 DEF Held, Sessions, Moved
<1> QED BY <1>1, <1>2 DEF Verify

\* Who is told that it is done had the ledger as it was proved to the end.
LEMMA CompleteKeeps ==
  ASSUME Assumptions, RInv, NEW p \in Publishers, Complete(p)
  PROVE  Held'
<1>1. CASE Ends(p)
  BY <1>1, EndsKeeps DEF Complete, world
<1>2. CASE Current(p) /\ ~Ends(p)
  <2>1. /\ PubGo(p, "serving") /\ Reply(peer, "finished") /\ pub[p].at = "admitted" /\ ~Expired(p)
        /\ UNCHANGED <<world, lease, flock, queue>> /\ root' = None /\ peer' = None
        /\ cl[peer].said = "finish"
    BY <1>2 DEF Complete
  <2>2. /\ Replying(p, "serving", "finished")
        /\ Lease' /\ Line' /\ Leased' /\ Pinned' /\ \A q \in Publishers : Unanswered(q)'
    BY <2>1, AnswersKeep DEF Replies
  <2>3. Locks'
    <3>1. root = p
      BY <2>1 DEF RInv, Locks, Guarded
    <3> QED BY <2>1, <2>2, <3>1
        DEF RInv, Locks, Replying, Answered, Stood, Holding, Serving, Guarded
  <2>4. ASSUME NEW c \in Consumers
        PROVE  Admission(c)' /\ Word(c)' /\ Spoiled(c)'
    <3>1. CASE c = peer
      <4>1. /\ cl'[c].got = "finished" /\ cl'[c].at = cl[c].at /\ cl'[c].said = cl[c].said
            /\ cl'[c].broken = cl[c].broken /\ cl[c].pin = p /\ cl[c].at # "idle"
        BY <2>2, <3>1, NamesApart DEF Replying, Answered, Stood
      <4>2. ~InSession(c)'
        BY <4>1 DEF InSession
      <4>3. cl[c].at \notin Using
        <5>1. ~Late(c)
          BY <2>1, <4>1 DEF Late
        <5> QED BY <2>1, <3>1 DEF RInv, Sessions, Word
      <4>4. Word(c)'
        BY <2>1, <3>1, <4>1, <4>2, <4>3 DEF Word, Awaited, Using
      <4>5. ~cl[c].broken
        BY <2>1, <4>1 DEF RInv, Moved, Spoiled, Over
      <4> QED BY <4>1, <4>2, <4>4, <4>5 DEF Admission, Spoiled
    <3> QED BY <2>1, <2>2, <3>1, OthersStay
  <2> QED BY <2>2, <2>3, <2>4 DEF Held, Sessions, Moved
<1> QED BY <1>1, <1>2 DEF Complete

\* Who is rejected is gone, or its lease ran out.
LEMMA LoseKeeps ==
  ASSUME Assumptions, RInv, NEW p \in Publishers, Lose(p)
  PROVE  Held'
<1>1. /\ PubGo(p, "serving") /\ Reply(peer, "rejected")
      /\ pub[p].at \in {"asked", "session", "admitted"}
      /\ UNCHANGED <<world, lease, flock, queue>> /\ peer' = None
      /\ root' = (IF root = p THEN None ELSE root) /\ (Expired(p) \/ cl[peer].at = "failed")
  BY DEF Lose, Reject
<1>2. /\ Replying(p, "serving", "rejected")
      /\ Lease' /\ Line' /\ Leased' /\ Pinned' /\ \A q \in Publishers : Unanswered(q)'
  BY <1>1, AnswersKeep DEF Replies
<1>3. Locks'
  BY <1>1, <1>2, NamesApart
  DEF RInv, Locks, Replying, Answered, Stood, Holding, Serving, Guarded
<1>4. ASSUME NEW c \in Consumers
      PROVE  Admission(c)' /\ Word(c)' /\ Spoiled(c)'
  <2>1. CASE c = peer
    <3>1. /\ cl'[c].got = "rejected" /\ cl'[c].at = cl[c].at /\ cl'[c].said = cl[c].said
          /\ cl'[c].broken = cl[c].broken /\ cl[c].pin = p /\ cl[c].at # "idle"
      BY <1>2, <2>1, NamesApart DEF Replying, Answered, Stood
    <3>2. (Over(c) => Over(c)') /\ (Late(c) <=> Late(c)')
      BY <1>2, <3>1 DEF Replying
    <3>3. Late(c) \/ cl[c].at = "failed"
      BY <1>1, <2>1, <3>1 DEF Late
    <3>4. Late(c)' => Over(c)'
      BY DEF Late, Over
    <3>5. Admission(c)'
      BY <3>1, <3>2, <3>3, <3>4 DEF Admission, InSession
    <3>6. ~lease'.revoked
      BY <1>1 DEF RInv, Lease, Serving
    <3>7. Word(c)'
      BY <3>1, <3>2, <3>3, <3>6 DEF RInv, Sessions, Word, Using
    <3>8. Spoiled(c)'
      BY <3>1, <3>2 DEF RInv, Moved, Spoiled
    <3> QED BY <3>5, <3>7, <3>8
  <2> QED BY <1>1, <1>2, <2>1, OthersStay
<1> QED BY <1>2, <1>3, <1>4 DEF Held, Sessions, Moved

\* A revocation is noted when nobody is admitted, and takes everything from its publisher.
LEMMA RevokeKeeps ==
  ASSUME Assumptions, RInv, NEW p \in Publishers, Revoke(p)
  PROVE  Held'
<1>1. /\ pub[p].at = "asked" /\ ~Expired(p) /\ lease'.revoked
      /\ lease'.socket = lease.socket /\ lease'.envelope = lease.envelope
      /\ PubGo(p, "ended") /\ UNCHANGED world /\ queue' = <<>> /\ peer' = None
      /\ root' = (IF root = p THEN None ELSE root) /\ flock' = (IF flock = p THEN None ELSE flock)
  BY DEF Revoke, RInv, TypeOK
<1>2. Stood(p, "ended") /\ pub[p].at \in Serving
  BY <1>1, PubGoes DEF Stations, RInv, Serving
<1>3. peer \in Clients /\ cl[peer].at # "idle"
  BY <1>1 DEF RInv, TypeOK, Line, Serves
<1>4. \A q \in Publishers : q # p => pub'[q].at \notin Serving
  BY <1>2, OnlyOne DEF Stood
<1>5. ASSUME NEW c \in Clients
      PROVE  /\ cl'[c].at = cl[c].at /\ cl'[c].pin = cl[c].pin /\ cl'[c].said = cl[c].said
             /\ cl'[c].leased = cl[c].leased /\ cl'[c].broken = cl[c].broken
             /\ c # peer => cl'[c].got = cl[c].got \/ (cl[c].got = "none" /\ cl'[c].got = "closed")
  <2> DEFINE closed == [cl[c] EXCEPT !.got = "closed"]
             answer == [cl[c] EXCEPT !.got = "revoked"]
             hung == HangUp(Connected \ {peer})
  <2>1. (hung[c] = cl[c] \/ (cl[c].got = "none" /\ hung[c] = closed))
        /\ (c = peer => hung[c] = cl[c])
    BY DEF HangUp
  <2>2. cl'[c] = IF c = peer THEN [hung[c] EXCEPT !.got = "revoked"] ELSE hung[c]
    <3>1. cl' = [hung EXCEPT ![peer].got = "revoked"] /\ DOMAIN hung = Clients
      BY DEF Revoke, HangUp
    <3> HIDE DEF hung
    <3> QED BY <3>1
  <2>3. /\ cl'[c] \in {cl[c], closed, answer}
        /\ c # peer => cl'[c] = cl[c] \/ (cl[c].got = "none" /\ cl'[c] = closed)
    BY <2>1, <2>2
  <2>4. cl[c] \in ClKind
    BY DEF RInv, TypeOK, ClKind
  <2> QED BY <2>3, <2>4 DEF ClKind
<1>6. ASSUME NEW c \in Consumers
      PROVE  ~InSession(c) /\ cl[c].at \notin Using
  <2>1. cl[c].at # "idle" => ~InSession(c) /\ ~Over(c)
    BY <1>1, NobodyInSession
  <2>2. cl[c].at = "idle" => ~InSession(c) /\ cl[c].at \notin Using
    BY NamesApart DEF InSession, Using, RInv, Line, Known
  <2>3. Late(c) => Over(c)
    BY DEF Late, Over
  <2>4. cl[c].at \in Using => InSession(c) \/ Late(c) \/ cl[c].got = "finished"
    BY DEF Using, InSession, RInv, Sessions, Word
  <2>5. cl[c].at \in Using => cl[c].got = "verified" \/ Late(c)
    BY DEF RInv, Sessions, Word
  <2> QED BY <2>1, <2>2, <2>3, <2>4, <2>5
<1>7. ASSUME NEW c \in Consumers
      PROVE  /\ ~InSession(c)' /\ cl'[c].at \notin Using
             /\ cl'[c].got = cl[c].got \/ (cl[c].got = "none" /\ cl'[c].got = "closed")
  <2>1. c # peer
    BY NamesApart DEF Revoke, RInv, Line, Known
  <2> QED BY <1>5, <1>6, <2>1, NamesApart DEF InSession
<1>8. \A c \in Clients : cl[c].at # "idle" => cl[c].pin = p
  BY <1>2, OnlyOne
<1>9. Locks'
  BY <1>1, <1>2, <1>5, NamesApart DEF RInv, Locks, Stood, Holding, Serving, Guarded
<1>10. Lease'
  <2>1. ASSUME NEW q \in Publishers
        PROVE  /\ pub'[q].at \in {"writing", "written"} \cup Serving => lease'.envelope = q
               /\ pub'[q].at \in Serving => lease'.socket = q
               /\ pub'[q].at \notin {"stamped", "writing", "written"} \cup Serving
    BY <1>1, <1>2, <1>4 DEF RInv, Locks, Holding, Lease, Stood, Serving
  <2>2. lease'.socket # None => /\ lease'.envelope = lease'.socket
                                /\ pub'[lease'.socket].at \in Serving \cup {"ended"}
    BY <1>1, <1>2 DEF RInv, TypeOK, Lease, Stood, Serving
  <2> QED BY <2>1, <2>2 DEF Lease
<1>11. Line'
  <2>1. ASSUME NEW c \in Clients
        PROVE  Known(c)'
    <3>1. cl[c].at = "idle" => c # peer
      BY <1>3
    <3> QED BY <1>1, <1>5, <3>1 DEF RInv, Line, Known
  <2>2. \A q \in Publishers : Serves(q)'
    BY <1>2, <1>4 DEF Serves, Stood, Serving
  <2>3. Waiting' /\ (peer' # None => cl'[peer'].at # "idle")
    BY <1>1 DEF Waiting
  <2> QED BY <2>1, <2>2, <2>3 DEF Line
<1>12. Sessions'
  <2>1. Pinned' /\ \A q \in Publishers : Unanswered(q)'
    BY <1>2, <1>4 DEF Pinned, Unanswered, Admitting, Stood, Serving
  <2>2. ASSUME NEW c \in Consumers
        PROVE  Admission(c)' /\ Word(c)'
    <3>1. cl'[c].at = "after" => cl'[c].got = Awaited(c)' \/ Late(c)'
      <4>1. cl[c].at = "after" => cl[c].got = Awaited(c)
        <5>1. cl[c].at = "after" => ~Late(c)
          BY <1>1, <1>8, NamesApart DEF Late
        <5> QED BY <5>1 DEF RInv, Sessions, Word
      <4> QED BY <1>5, <1>7, <4>1, NamesApart DEF Awaited
    <3> QED BY <1>7, <3>1 DEF Admission, Word
  <2> QED BY <2>1, <2>2 DEF Sessions
<1>13. Moved'
  <2>1. ASSUME NEW c \in Consumers
        PROVE  Spoiled(c)'
    BY <1>1, <1>2, <1>5, <1>7, <1>8, NamesApart DEF RInv, Moved, Spoiled, Over, Stood
  <2> QED BY <2>1 DEF Moved
<1>14. Leased'
  BY <1>1, <1>5, NamesApart DEF RInv, Leased, Stands, world
<1> QED BY <1>9, <1>10, <1>11, <1>12, <1>13, <1>14 DEF Held

-----------------------------------------------------------------------------
(* A client's steps *)

Quit == {"done", "failed"}

\* The client that moves has to see to its own claims only.
LEMMA ClientKeeps ==
  ASSUME Assumptions, RInv, NEW c \in Clients,
         UNCHANGED <<clock, ledger, sources, root, lease, pub, peer>>,
         queue' = queue \/ queue' = Append(queue, c),
         \A d \in Clients : d # c => cl'[d] = cl[d],
         Known(c)', cl'[c].at # "idle",
         c \in Consumers => Admission(c)' /\ Word(c)' /\ Spoiled(c)' /\ Stands(c)',
         peer = c => \A q \in Publishers : Unanswered(q)'
  PROVE  Lease' /\ Line' /\ Sessions' /\ Moved' /\ Leased'
<1>1. Lease'
  BY DEF RInv, Lease
<1>2. Line'
  <2>1. ASSUME NEW d \in Clients
        PROVE  Known(d)'
    BY DEF RInv, Line, Known
  <2>2. \A q \in Publishers : Serves(q)'
    BY DEF RInv, Line, Serves
  <2>3. peer' # None => cl'[peer'].at # "idle"
    BY DEF RInv, TypeOK, Line
  <2>4. Waiting'
    <3>1. queue \in Seq(Clients)
      BY DEF RInv, TypeOK
    <3>2. \A i \in DOMAIN queue : cl'[queue[i]].at # "idle"
      BY <3>1 DEF RInv, Line, Waiting
    <3>3. CASE queue' = queue
      BY <3>2, <3>3 DEF Waiting
    <3>4. CASE queue' = Append(queue, c)
      <4>1. \A i \in DOMAIN queue' : queue'[i] = c \/ (i \in DOMAIN queue /\ queue'[i] = queue[i])
        BY <3>1, <3>4
      <4> QED BY <3>2, <4>1 DEF Waiting
    <3> QED BY <3>3, <3>4
  <2> QED BY <2>1, <2>2, <2>3, <2>4 DEF Line
<1>3. ASSUME NEW d \in Consumers, d # c
      PROVE  Admission(d)' /\ Word(d)' /\ Spoiled(d)' /\ Stands(d)'
  <2>1. cl'[d] = cl[d]
    BY <1>3, NamesApart
  <2>2. /\ (InSession(d)' <=> InSession(d)) /\ Awaited(d)' = Awaited(d) /\ (Over(d)' <=> Over(d))
        /\ (Late(d)' <=> Late(d))
    BY <2>1 DEF InSession, Awaited, Over, Late, Expired
  <2>3. Admission(d)'
    BY <2>1, <2>2 DEF RInv, Sessions, Admission
  <2>4. Word(d)'
    BY <2>1, <2>2 DEF RInv, Sessions, Word
  <2>5. Spoiled(d)'
    BY <2>1, <2>2 DEF RInv, Moved, Spoiled
  <2>6. Stands(d)'
    BY <2>1 DEF RInv, Leased, Stands
  <2> QED BY <2>3, <2>4, <2>5, <2>6
<1>4. Pinned'
  BY DEF RInv, Sessions, Pinned
<1>5. ASSUME NEW q \in Publishers
      PROVE  Unanswered(q)'
  <2>1. CASE peer # c
    <3>1. peer \in Consumers => cl'[peer] = cl[peer]
      BY <2>1, NamesApart
    <3> QED BY <3>1 DEF RInv, Sessions, Unanswered, Expired
  <2> QED BY <2>1
<1> QED BY <1>1, <1>2, <1>3, <1>4, <1>5 DEF Sessions, Moved, Leased

\* A client that only goes to its next step.
LEMMA ClientStepKeeps ==
  ASSUME Assumptions, RInv, NEW c \in Clients, NEW step \in Steps, Go(c, step),
         UNCHANGED <<clock, ledger, sources, root, lease, pub, peer>>,
         queue' = queue \/ queue' = Append(queue, c), step # "idle",
         cl[c].at \notin {"idle", "done", "failed"},
         c \in Consumers =>
           /\ step = "after" => cl[c].got = Awaited(c)
           /\ step \in Using => /\ cl[c].got = "verified" \/ Late(c)
                               /\ cl[c].said # "finish" /\ ~lease.revoked
           /\ step = "done" => ~cl[c].broken
           /\ step \in {"ready", "done", "failed"} \/ cl[c].at # "ready" \/ sources
  PROVE  Lease' /\ Line' /\ Sessions' /\ Moved' /\ Leased' /\ Stepped(c, step)
<1>1. Stepped(c, step)
  BY ClientGoes DEF RInv
<1>2. \A d \in Clients : d # c => cl'[d] = cl[d]
  BY <1>1 DEF Stepped
<1>3. Known(c)'
  BY <1>1 DEF Stepped, RInv, Line, Known
<1>4. /\ (InSession(c)' => InSession(c)) /\ Awaited(c)' = Awaited(c) /\ (Over(c)' <=> Over(c))
      /\ (Late(c)' <=> Late(c))
  BY <1>1 DEF Stepped, InSession, Awaited, Over, Late, Expired
<1>5. ASSUME c \in Consumers
      PROVE  Admission(c)' /\ Word(c)' /\ Spoiled(c)' /\ Stands(c)'
  <2>1. Admission(c)'
    BY <1>1, <1>4, <1>5 DEF RInv, Sessions, Admission, Stepped
  <2>2. Word(c)'
    BY <1>1, <1>4, <1>5 DEF RInv, Sessions, Word, Stepped
  <2>3. Spoiled(c)'
    BY <1>1, <1>4, <1>5 DEF RInv, Moved, Spoiled, Stepped
  <2>4. Stands(c)'
    BY <1>1, <1>5 DEF RInv, Leased, Stands, Stepped
  <2> QED BY <2>1, <2>2, <2>3, <2>4
<1>6. ASSUME peer = c, NEW q \in Publishers
      PROVE  Unanswered(q)'
  BY <1>1, <1>6 DEF RInv, Sessions, Unanswered, Stepped, Expired
<1> QED BY <1>1, <1>2, <1>3, <1>5, <1>6, ClientKeeps DEF Stepped

\* The locks, when the lock of the lease does not move.
LEMMA LocksStay ==
  ASSUME RInv, NEW c \in Clients, UNCHANGED <<root, flock, pub>>,
         \A d \in Clients : d # c => cl'[d] = cl[d], cl'[c].at # "probing"
  PROVE  Locks'
BY DEF RInv, Locks

\* A client asks of the lease, or goes, without a word of what it was told.
LEMMA StepLocks ==
  ASSUME RInv, NEW c \in Clients, NEW step \in Steps, Stepped(c, step), step # "probing",
         UNCHANGED <<root, flock, pub>>
  PROVE  Locks'
BY LocksStay DEF Stepped

\* What a client was told lets it pass the second look at the lease.
LEMMA PassKeeps ==
  ASSUME Assumptions, RInv, NEW c \in Clients, Pass(c)
  PROVE  Held'
<1>1. /\ cl[c].at \in {"live", "before", "after"} /\ Go(c, Passed(c)) /\ ~lease.revoked
      /\ UNCHANGED <<world, root, lease, flock, pub, queue, peer>>
      /\ c \in Consumers => ~Late(c)
  BY DEF Pass, Live, Fence, Bound, Late
<1>2. /\ Passed(c) \in {"connect", "receive", "ready", "rechecked", "done"}
      /\ Passed(c) \in {"ready", "rechecked", "done"} => cl[c].at = "after"
      /\ Passed(c) \in {"ready", "rechecked"} => cl[c].said # "finish"
      /\ Passed(c) = "done" => cl[c].said = "finish"
  BY <1>1 DEF Passed, Onward
<1>3. ASSUME c \in Consumers, cl[c].at = "after"
      PROVE  cl[c].got = Awaited(c) /\ cl[c].said # "revoke"
  BY <1>1, <1>3 DEF RInv, Sessions, Word, Line, Known
<1>4. ASSUME c \in Consumers, Passed(c) \in {"ready", "rechecked"}
      PROVE  cl[c].got = "verified"
  BY <1>2, <1>3, <1>4 DEF Awaited
<1>5. ASSUME c \in Consumers, Passed(c) = "done"
      PROVE  ~cl[c].broken
  <2>1. cl[c].got = "finished"
    BY <1>2, <1>3, <1>5 DEF Awaited
  <2> QED BY <1>5, <2>1 DEF RInv, Moved, Spoiled
<1>6. Passed(c) \in Steps /\ Passed(c) \notin {"idle", "after", "compared", "probing"}
  BY <1>2 DEF Steps
<1>7. cl[c].at \notin {"idle", "done", "failed", "ready"}
  BY <1>1
<1>8. Lease' /\ Line' /\ Sessions' /\ Moved' /\ Leased' /\ Stepped(c, Passed(c))
  <2>1. c \in Consumers =>
          /\ Passed(c) = "after" => cl[c].got = Awaited(c)
          /\ Passed(c) \in Using => /\ cl[c].got = "verified" \/ Late(c)
                                    /\ cl[c].said # "finish" /\ ~lease.revoked
          /\ Passed(c) = "done" => ~cl[c].broken
          /\ Passed(c) \in {"ready", "done", "failed"} \/ cl[c].at # "ready" \/ sources
    BY <1>1, <1>2, <1>4, <1>5, <1>6, <1>7 DEF Using
  <2> QED BY <1>1, <1>6, <1>7, <2>1, ClientStepKeeps DEF world
<1> QED BY <1>1, <1>6, <1>8, StepLocks DEF Held

\* A client that gives up, or has its answer, or goes on to use what it was told.
LEMMA StepKeeps ==
  ASSUME Assumptions, RInv, NEW c \in Clients, NEW step \in Steps, Go(c, step),
         UNCHANGED <<clock, ledger, sources, root, lease, flock, pub, peer>>,
         queue' = queue \/ queue' = Append(queue, c), step \notin {"idle", "probing"},
         cl[c].at \notin {"idle", "done", "failed"},
         c \in Consumers =>
           /\ step = "after" => cl[c].got = Awaited(c)
           /\ step \in Using => cl[c].at \in Using
           /\ step # "done"
           /\ step \in {"ready", "failed"} \/ cl[c].at # "ready" \/ sources
  PROVE  Held'
<1>1. c \in Consumers => (cl[c].at \in Using => /\ cl[c].got = "verified" \/ Late(c)
                                               /\ cl[c].said # "finish" /\ ~lease.revoked)
  BY DEF RInv, Sessions, Word
<1>2. Lease' /\ Line' /\ Sessions' /\ Moved' /\ Leased' /\ Stepped(c, step)
  <2>1. c \in Consumers =>
          /\ step = "after" => cl[c].got = Awaited(c)
          /\ step \in Using => /\ cl[c].got = "verified" \/ Late(c)
                               /\ cl[c].said # "finish" /\ ~lease.revoked
          /\ step = "done" => ~cl[c].broken
          /\ step \in {"ready", "done", "failed"} \/ cl[c].at # "ready" \/ sources
    BY <1>1
  <2> QED BY <2>1, ClientStepKeeps
<1> QED BY <1>2, StepLocks DEF Held

\* The looks at the lease, the connection, the answer and the use of it.
LEMMA AskingKeeps ==
  ASSUME Assumptions, RInv, NEW c \in Clients,
         Read(c) \/ Refuse(c) \/ Connect(c) \/ Receive(c) \/ Compare(c) \/ Use(c)
  PROVE  Held'
<1>1. ASSUME Read(c)
      PROVE  Held'
  <2>1. PICK step \in {"live", "failed"} : Go(c, step)
    BY <1>1 DEF Read
  <2> QED BY <1>1, <2>1, StepKeeps DEF Read, Steps, Using, world
<1>2. ASSUME Refuse(c)
      PROVE  Held'
  BY <1>2, StepKeeps DEF Refuse, Steps, Using, world
<1>3. ASSUME Connect(c)
      PROVE  Held'
  <2>1. PICK step \in {"receive", "before", "failed"} : Go(c, step)
    BY <1>3 DEF Connect
  <2>2. queue' = queue \/ queue' = Append(queue, c)
    BY <1>3 DEF Connect
  <2> QED BY <1>3, <2>1, <2>2, StepKeeps DEF Connect, Steps, Using, world
<1>4. ASSUME Receive(c)
      PROVE  Held'
  <2>1. PICK step \in {"failed", "done", "after"} :
          /\ Go(c, step) /\ (step = "done" => c \in Revokers)
          /\ step = "after" => cl[c].got = Awaited(c)
    BY <1>4 DEF Receive
  <2>2. c \in Consumers => step # "done"
    BY <2>1 DEF Assumptions
  <2> QED BY <1>4, <2>1, <2>2, StepKeeps DEF Receive, Steps, Using, world
<1>5. ASSUME Compare(c)
      PROVE  Held'
  <2>1. PICK step \in {"compared", "failed"} : Go(c, step) /\ (step = "compared" => sources)
    BY <1>5 DEF Compare
  <2> QED BY <1>5, <2>1, StepKeeps DEF Compare, Steps, Using, world
<1>6. ASSUME Use(c)
      PROVE  Held'
  BY <1>6, StepKeeps DEF Use, Steps, Using, world
<1> QED BY <1>1, <1>2, <1>3, <1>4, <1>5, <1>6

\* The lock of the lease that a client finds free it has, until it gives it back.
LEMMA ProbingKeeps ==
  ASSUME Assumptions, RInv, NEW c \in Clients, Probe(c) \/ EndProbe(c) \/ KillClient(c)
  PROVE  Held'
<1>1. PICK step \in {"probing", "failed"} :
        /\ Go(c, step) /\ (step = "failed" \/ cl[c].at # "ready")
        /\ cl[c].at \notin {"idle", "done", "failed"}
        /\ UNCHANGED <<clock, ledger, sources, root, lease, pub, queue, peer>>
        /\ step = "probing" => flock = None /\ flock' = c
        /\ step = "failed" => \/ flock' = (IF flock = c THEN None ELSE flock)
                              \/ cl[c].at = "probing" /\ flock' = None
  BY DEF Probe, EndProbe, KillClient, world
<1>2. Lease' /\ Line' /\ Sessions' /\ Moved' /\ Leased' /\ Stepped(c, step)
  <2>1. step \in Steps /\ step \notin {"idle", "after", "done"} \cup Using
    BY <1>1 DEF Steps, Using
  <2> QED BY <1>1, <2>1, ClientStepKeeps
<1>3. step = "failed" => flock' = (IF flock = c THEN None ELSE flock)
  BY <1>1 DEF RInv, Locks
<1>4. \A p \in Publishers : p # c /\ p # None
  BY DEF Assumptions
<1>5. \A d \in Clients : d # None
  BY NamesApart, <1>4 DEF Assumptions, Clients
<1>6. Locks'
  <2>1. CASE step = "probing"
    BY <1>1, <1>2, <1>4, <1>5, <2>1 DEF RInv, Locks, Stepped
  <2>2. CASE step = "failed"
    BY <1>1, <1>2, <1>3, <1>4, <1>5, <2>2 DEF RInv, Locks, Stepped
  <2> QED BY <2>1, <2>2
<1> QED BY <1>2, <1>6 DEF Held

\* A client that says something else, and has not been answered.
Spoke(c, step, request) ==
  /\ cl' \in [Clients -> ClKind] /\ cl'[c].at = step /\ cl'[c].said = request
  /\ cl'[c].got = "none" /\ cl'[c].pin = cl[c].pin
  /\ cl'[c].leased = cl[c].leased /\ cl'[c].broken = cl[c].broken
  /\ \A d \in Clients : d # c => cl'[d] = cl[d]

\* A question keeps the kind of the clients.
LEMMA Asks ==
  ASSUME TypeOK, NEW c \in Clients, NEW request \in Requests, Ask(c, request)
  PROVE  Spoke(c, "before", request)
<1> DEFINE r == [cl[c] EXCEPT !.at = "before", !.said = request, !.got = "none"]
<1>1. cl \in [Clients -> ClKind] /\ cl[c] \in ClKind
  BY DEF TypeOK, ClKind
<1>2. /\ r \in ClKind /\ r.at = "before" /\ r.pin = cl[c].pin /\ r.said = request
      /\ r.got = "none" /\ r.leased = cl[c].leased /\ r.broken = cl[c].broken
  BY <1>1 DEF ClKind, Steps, Replies
<1>3. cl' = [cl EXCEPT ![c] = r]
  BY DEF Ask, Set
<1> HIDE DEF r
<1>4. cl' \in [Clients -> ClKind] /\ cl'[c] = r /\ \A d \in Clients : d # c => cl'[d] = cl[d]
  BY <1>1, <1>2, <1>3
<1> QED BY <1>2, <1>4 DEF Spoke

\* A consumer asks again, or says that it is done, with the sources it has compared.
LEMMA AskKeeps ==
  ASSUME Assumptions, RInv, NEW c \in Clients, NEW request \in {"recheck", "finish"},
         Ask(c, request), cl[c].at \in Using, cl[c].at # "ready",
         UNCHANGED <<world, root, lease, flock, pub, queue, peer>>
  PROVE  Held' /\ Spoke(c, "before", request)
<1>1. Spoke(c, "before", request)
  BY Asks DEF RInv, Requests
<1>2. \A d \in Clients : d # c => cl'[d] = cl[d]
  BY <1>1 DEF Spoke
<1>3. Known(c)' /\ cl'[c].at # "idle" /\ cl[c].at # "idle"
  BY <1>1 DEF Spoke, RInv, Line, Known, Using
<1>4. (Over(c)' <=> Over(c)) /\ (Late(c)' <=> Late(c))
  BY <1>1 DEF Spoke, Over, Late, Expired, world
<1>5. Late(c) => Over(c)
  BY DEF Late, Over
<1>6. ASSUME c \in Consumers
      PROVE  Admission(c)' /\ Word(c)' /\ Spoiled(c)' /\ Stands(c)'
  <2>1. (cl[c].got = "verified" \/ Late(c)) /\ ~lease.revoked
    BY <1>6 DEF RInv, Sessions, Word
  <2>2. cl[c].got = "verified" => InSession(c)
    BY <1>6 DEF InSession, Using
  <2>3. Over(c) \/ (peer = c /\ pub[cl[c].pin].at \in Admitting)
    BY <1>5, <1>6, <2>1, <2>2 DEF RInv, Sessions, Admission
  <2>4. Admission(c)'
    BY <1>1, <1>4, <2>3 DEF Admission, Spoke
  <2>5. Word(c)'
    BY <1>1, <2>1 DEF Word, Spoke, Using
  <2>6. Spoiled(c)'
    BY <1>1, <1>4, <1>6 DEF RInv, Moved, Spoiled, Spoke
  <2>7. Stands(c)'
    BY <1>1, <1>6 DEF RInv, Leased, Stands, Spoke, Using, world
  <2> QED BY <2>4, <2>5, <2>6, <2>7
<1>7. ASSUME peer = c, NEW q \in Publishers
      PROVE  Unanswered(q)'
  <2>1. CASE c \notin Consumers
    BY <1>7, <2>1 DEF Unanswered
  <2>2. CASE c \in Consumers /\ pub[q].at = "session"
    <3>1. cl[c].pin = q
      BY <1>3, <2>2, OnlyOne DEF Serving
    <3>2. Expired(q) \/ cl[c].got # "verified"
      BY <1>7, <2>2 DEF RInv, Sessions, Unanswered, Using
    <3>3. Expired(q)
      BY <2>2, <3>1, <3>2 DEF RInv, Sessions, Word, Late
    <3> QED BY <3>3 DEF Unanswered, Expired, world
  <2>3. CASE pub[q].at # "session"
    BY <2>3 DEF Unanswered
  <2> QED BY <2>1, <2>2, <2>3
<1>8. Lease' /\ Line' /\ Sessions' /\ Moved' /\ Leased'
  BY <1>2, <1>3, <1>6, <1>7, ClientKeeps DEF world
<1>9. Locks'
  BY <1>1, <1>2, LocksStay DEF Spoke
<1> QED BY <1>1, <1>8, <1>9 DEF Held

\* A client starts with the endpoint it is told of.
Started(c) ==
  /\ cl' \in [Clients -> ClKind] /\ cl'[c].at = "read"
  /\ cl'[c].said = (IF c \in Revokers THEN "revoke" ELSE "begin")
  /\ cl'[c].got = cl[c].got /\ cl'[c].pin = lease.socket
  /\ cl'[c].leased = cl[c].leased /\ cl'[c].broken = cl[c].broken
  /\ \A d \in Clients : d # c => cl'[d] = cl[d]

\* A start keeps the kind of the clients.
LEMMA Starts ==
  ASSUME TypeOK, NEW c \in Clients, Start(c)
  PROVE  Started(c)
<1> DEFINE word == IF c \in Revokers THEN "revoke" ELSE "begin"
           r == [cl[c] EXCEPT !.at = "read", !.pin = lease.socket, !.said = word]
<1>1. cl \in [Clients -> ClKind] /\ cl[c] \in ClKind /\ lease.socket \in Publishers \cup {None}
  BY DEF TypeOK, ClKind
<1>2. word \in Requests
  BY DEF Requests
<1> HIDE DEF word
<1>3. /\ r \in ClKind /\ r.at = "read" /\ r.pin = lease.socket /\ r.said = word
      /\ r.got = cl[c].got /\ r.leased = cl[c].leased /\ r.broken = cl[c].broken
  BY <1>1, <1>2 DEF ClKind, Steps
<1>4. cl' = [cl EXCEPT ![c] = r]
  BY DEF Start, Set, word
<1> HIDE DEF r
<1>5. cl' \in [Clients -> ClKind] /\ cl'[c] = r /\ \A d \in Clients : d # c => cl'[d] = cl[d]
  BY <1>1, <1>3, <1>4
<1> QED BY <1>3, <1>5 DEF Started, word

\* A client that starts was never admitted.
LEMMA StartKeeps ==
  ASSUME Assumptions, RInv, NEW c \in Clients, Start(c)
  PROVE  Held' /\ Started(c)
<1>1. Started(c) /\ cl[c].at = "idle" /\ lease.socket # None
      /\ UNCHANGED <<world, root, lease, flock, pub, queue, peer>>
  BY Starts DEF RInv, Start
<1>2. \A d \in Clients : d # c => cl'[d] = cl[d]
  BY <1>1 DEF Started
<1>3. Known(c)' /\ cl'[c].at # "idle"
  BY <1>1 DEF Started, RInv, Line, Known, Assumptions
<1>4. peer # c
  BY <1>1, NamesApart DEF RInv, Line
<1>5. ASSUME c \in Consumers
      PROVE  Admission(c)' /\ Word(c)' /\ Spoiled(c)' /\ Stands(c)'
  <2>1. cl'[c].said = "begin" /\ cl'[c].got \in {"none", "closed"}
    BY <1>1, <1>5 DEF Started, RInv, Line, Known, Assumptions
  <2>2. ~InSession(c)'
    BY <2>1 DEF InSession
  <2>3. Word(c)'
    BY <1>1, <2>2 DEF Word, Started, Using
  <2>4. Spoiled(c)'
    BY <1>1, <1>5 DEF RInv, Moved, Spoiled, Started
  <2>5. Stands(c)'
    BY <1>1, <1>5 DEF RInv, Leased, Stands, Started, world
  <2> QED BY <2>2, <2>3, <2>4, <2>5 DEF Admission
<1>6. Lease' /\ Line' /\ Sessions' /\ Moved' /\ Leased'
  BY <1>1, <1>2, <1>3, <1>4, <1>5, ClientKeeps DEF world
<1>7. Locks'
  BY <1>1, <1>2, LocksStay DEF Started
<1> QED BY <1>1, <1>6, <1>7 DEF Held

\* The leases of the sources are taken once the sources were compared.
Took(c) ==
  /\ cl' \in [Clients -> ClKind] /\ cl'[c].at = "ready" /\ cl'[c].said = cl[c].said
  /\ cl'[c].got = cl[c].got /\ cl'[c].pin = cl[c].pin
  /\ cl'[c].leased = TRUE /\ cl'[c].broken = cl[c].broken
  /\ \A d \in Clients : d # c => cl'[d] = cl[d]

\* Taking the leases keeps the kind of the clients.
LEMMA Takes ==
  ASSUME TypeOK, NEW c \in Clients, TakeLeases(c)
  PROVE  Took(c)
<1> DEFINE r == [cl[c] EXCEPT !.leased = TRUE, !.at = "ready"]
<1>1. cl \in [Clients -> ClKind] /\ cl[c] \in ClKind
  BY DEF TypeOK, ClKind
<1>2. /\ r \in ClKind /\ r.at = "ready" /\ r.pin = cl[c].pin /\ r.said = cl[c].said
      /\ r.got = cl[c].got /\ r.leased = TRUE /\ r.broken = cl[c].broken
  BY <1>1 DEF ClKind, Steps
<1>3. cl' = [cl EXCEPT ![c] = r]
  BY DEF TakeLeases, Set
<1> HIDE DEF r
<1>4. cl' \in [Clients -> ClKind] /\ cl'[c] = r /\ \A d \in Clients : d # c => cl'[d] = cl[d]
  BY <1>1, <1>2, <1>3
<1> QED BY <1>2, <1>4 DEF Took

\* Who takes the leases compares the sources once more before it uses them.
LEMMA TakeKeeps ==
  ASSUME Assumptions, RInv, NEW c \in Clients, TakeLeases(c)
  PROVE  Held' /\ Took(c)
<1>1. Took(c) /\ cl[c].at = "rechecked"
      /\ UNCHANGED <<world, root, lease, flock, pub, queue, peer>>
  BY Takes DEF RInv, TakeLeases
<1>2. \A d \in Clients : d # c => cl'[d] = cl[d]
  BY <1>1 DEF Took
<1>3. Known(c)' /\ cl'[c].at # "idle"
  BY <1>1 DEF Took, RInv, Line, Known
<1>4. /\ (InSession(c)' <=> InSession(c)) /\ Awaited(c)' = Awaited(c) /\ (Over(c)' <=> Over(c))
      /\ (Late(c)' <=> Late(c))
  BY <1>1 DEF Took, InSession, Awaited, Over, Late, Expired, world
<1>5. ASSUME c \in Consumers
      PROVE  Admission(c)' /\ Word(c)' /\ Spoiled(c)' /\ Stands(c)'
  <2>1. Admission(c)'
    BY <1>1, <1>4, <1>5 DEF RInv, Sessions, Admission, Took
  <2>2. Word(c)'
    BY <1>1, <1>4, <1>5 DEF RInv, Sessions, Word, Took, Using
  <2>3. Spoiled(c)'
    BY <1>1, <1>4, <1>5 DEF RInv, Moved, Spoiled, Took
  <2>4. Stands(c)'
    BY <1>1 DEF Stands, Took
  <2> QED BY <2>1, <2>2, <2>3, <2>4
<1>6. ASSUME peer = c, NEW q \in Publishers
      PROVE  Unanswered(q)'
  BY <1>1, <1>6 DEF RInv, Sessions, Unanswered, Took, Expired, world
<1>7. Lease' /\ Line' /\ Sessions' /\ Moved' /\ Leased'
  BY <1>1, <1>2, <1>3, <1>5, <1>6, ClientKeeps DEF world
<1>8. Locks'
  BY <1>1, <1>2, LocksStay DEF Took
<1> QED BY <1>1, <1>7, <1>8 DEF Held

-----------------------------------------------------------------------------
(* Around them *)

\* Time passes, and what ran out stays so.
LEMMA TickKeeps ==
  ASSUME Assumptions, RInv, Tick
  PROVE  Held'
<1>1. UNCHANGED <<ledger, sources, kills, root, lease, flock, pub, queue, peer, cl>>
  BY DEF Tick
<1>2. ASSUME NEW p \in Publishers
      PROVE  Expired(p) => Expired(p)'
  <2>1. pub[p].until \in Nat /\ clock \in Nat /\ clock' = clock + 1
    BY DEF RInv, TypeOK, Tick, Assumptions
  <2> QED BY <1>1, <2>1 DEF Expired
<1>3. ASSUME NEW p \in Publishers
      PROVE  Unanswered(p)'
  BY <1>1, <1>2 DEF RInv, Sessions, Unanswered
<1>4. ASSUME NEW c \in Consumers
      PROVE  Admission(c)' /\ Word(c)' /\ Spoiled(c)'
  <2>1. cl[c].at # "idle" => cl[c].pin \in Publishers
    BY NamesApart DEF RInv, TypeOK, Lease, Line, Known
  <2>2. cl[c].at # "idle" => (Over(c) => Over(c)') /\ (Late(c) => Late(c)')
    BY <1>1, <1>2, <2>1 DEF Over, Late
  <2>3. InSession(c) => cl[c].at # "idle"
    BY NamesApart DEF InSession, RInv, Line, Known
  <2>4. (InSession(c)' <=> InSession(c)) /\ Awaited(c)' = Awaited(c)
    BY <1>1 DEF InSession, Awaited
  <2>5. Admission(c)'
    BY <1>1, <2>2, <2>3, <2>4 DEF RInv, Sessions, Admission
  <2>6. Word(c)'
    BY <1>1, <2>2, <2>4 DEF RInv, Sessions, Word, Using
  <2>7. Spoiled(c)'
    BY <1>1, <2>2 DEF RInv, Moved, Spoiled
  <2> QED BY <2>5, <2>6, <2>7
<1>5. Locks' /\ Lease' /\ Line'
  BY <1>1 DEF RInv, Locks, Lease, Line, Known, Waiting, Serves
<1>6. Pinned' /\ Leased'
  BY <1>1 DEF RInv, Sessions, Pinned, Leased, Stands
<1> QED BY <1>3, <1>4, <1>5, <1>6 DEF Held, Sessions, Moved

\* Who is broken was in session, and nothing else of anybody changes.
Spoils ==
  /\ cl' \in [Clients -> ClKind]
  /\ \A c \in Clients :
       /\ cl'[c].at = cl[c].at /\ cl'[c].pin = cl[c].pin /\ cl'[c].said = cl[c].said
       /\ cl'[c].got = cl[c].got /\ cl'[c].leased = cl[c].leased
       /\ cl'[c].broken = (cl[c].broken \/ InSession(c))

\* A move of the ledger keeps the kind of the clients.
LEMMA Breaks ==
  ASSUME TypeOK, cl' = Broken
  PROVE  Spoils
<1>1. cl \in [Clients -> ClKind]
  BY DEF TypeOK, ClKind
<1>2. ASSUME NEW c \in Clients
      PROVE  /\ cl'[c] \in ClKind
             /\ cl'[c].at = cl[c].at /\ cl'[c].pin = cl[c].pin /\ cl'[c].said = cl[c].said
             /\ cl'[c].got = cl[c].got /\ cl'[c].leased = cl[c].leased
             /\ cl'[c].broken = (cl[c].broken \/ InSession(c))
  <2>1. cl[c] \in ClKind
    BY <1>1
  <2>2. InSession(c) \in BOOLEAN
    BY DEF InSession
  <2>3. cl'[c] = [cl[c] EXCEPT !.broken = cl[c].broken \/ InSession(c)]
    BY DEF Broken
  <2> HIDE DEF InSession
  <2> QED BY <2>1, <2>2, <2>3 DEF ClKind
<1>3. cl' = [c \in Clients |-> cl'[c]]
  BY DEF Broken
<1>4. cl' \in [Clients -> ClKind]
  BY <1>2, <1>3
<1> QED BY <1>2, <1>4 DEF Spoils

\* The ledger moves behind the lock of the root, where nobody can be in session.
LEMMA HelperMovesKeeps ==
  ASSUME Assumptions, RInv, HelperMoves
  PROVE  Held' /\ cl' \in [Clients -> ClKind]
<1>1. root = Helper /\ root' = None
      /\ UNCHANGED <<clock, sources, kills, lease, flock, pub, queue, peer>>
  BY DEF HelperMoves
<1>2. \A p \in Publishers : pub[p].at \notin Guarded
  BY <1>1 DEF RInv, Locks, Assumptions
<1>3. ASSUME NEW c \in Consumers, InSession(c)
      PROVE  Over(c) /\ cl[c].at \notin {"idle", "done"} /\ cl[c].got # "finished"
  <2>1. cl[c].at # "idle" /\ cl[c].at # "done" /\ cl[c].got # "finished"
    BY <1>3, NamesApart DEF InSession, RInv, Line, Known
  <2>2. cl[c].pin \in Publishers
    BY <2>1, NamesApart DEF RInv, TypeOK, Lease, Line, Known
  <2> QED BY <1>2, <1>3, <2>1, <2>2 DEF RInv, Sessions, Admission, Admitting, Guarded
<1>4. CASE UNCHANGED <<ledger, cl>>
  <2>1. Locks' /\ Lease' /\ Line'
    BY <1>1, <1>2, <1>4 DEF RInv, Locks, Lease, Line, Known, Waiting, Serves
  <2>2. ASSUME NEW p \in Publishers
        PROVE  Unanswered(p)'
    BY <1>1, <1>4 DEF RInv, Sessions, Unanswered, Expired
  <2>3. Pinned' /\ Leased'
    BY <1>1, <1>4 DEF RInv, Sessions, Pinned, Leased, Stands
  <2>4. ASSUME NEW c \in Consumers
        PROVE  Admission(c)' /\ Word(c)' /\ Spoiled(c)'
    BY <1>1, <1>4 DEF RInv, Sessions, Moved, Spoiled, Admission, Word, InSession, Awaited, Over,
                      Late, Expired
  <2> QED BY <1>4, <2>1, <2>2, <2>3, <2>4 DEF Held, Sessions, Moved, RInv, TypeOK, ClKind
<1>5. CASE cl' = Broken
  <2>1. Spoils
    BY <1>5, Breaks DEF RInv
  <2>2. Locks' /\ Lease'
    BY <1>1, <1>2, <2>1 DEF RInv, Locks, Lease, Spoils
  <2>3. Line'
    <3>1. queue \in Seq(Clients) /\ peer \in Clients \cup {None}
      BY DEF RInv, TypeOK
    <3>2. \A c \in Clients : Known(c)'
      BY <1>1, <2>1 DEF RInv, Line, Known, Spoils
    <3>3. Waiting'
      BY <1>1, <2>1, <3>1 DEF RInv, Line, Waiting, Spoils
    <3> QED BY <1>1, <2>1, <3>1, <3>2, <3>3 DEF RInv, Line, Serves, Spoils
  <2>4. Pinned'
    BY <1>1, <1>2 DEF Pinned, Admitting, Guarded
  <2>5. ASSUME NEW p \in Publishers
        PROVE  Unanswered(p)'
    BY <1>1, <1>2 DEF Unanswered, Guarded
  <2>6. ASSUME NEW c \in Consumers
        PROVE  Admission(c)' /\ Word(c)' /\ Spoiled(c)' /\ Stands(c)'
    <3>1. /\ (InSession(c)' <=> InSession(c)) /\ Awaited(c)' = Awaited(c)
          /\ (Over(c)' <=> Over(c)) /\ (Late(c)' <=> Late(c))
      BY <1>1, <2>1, NamesApart DEF Spoils, InSession, Awaited, Over, Late, Expired
    <3>2. Admission(c)'
      BY <1>3, <3>1 DEF Admission
    <3>3. Word(c)'
      BY <1>1, <2>1, <3>1, NamesApart DEF RInv, Sessions, Word, Spoils
    <3>4. Spoiled(c)'
      BY <1>3, <2>1, <3>1, NamesApart DEF RInv, Moved, Spoiled, Spoils
    <3>5. Stands(c)'
      BY <1>1, <2>1, NamesApart DEF RInv, Leased, Stands, Spoils
    <3> QED BY <3>2, <3>3, <3>4, <3>5
  <2> QED BY <2>1, <2>2, <2>3, <2>4, <2>5, <2>6 DEF Held, Sessions, Moved, Leased, Spoils
<1> QED BY <1>4, <1>5 DEF HelperMoves

\* The helper that takes the root, the issue that is closed, and a source that is edited.
LEMMA OutsideKeeps ==
  ASSUME Assumptions, RInv, HelperTakes \/ CloseIssue \/ Edit
  PROVE  Held'
<1>1. /\ UNCHANGED <<clock, kills, lease, flock, pub, queue, peer, cl>>
      /\ ledger'.gen = ledger.gen
      /\ root' = root \/ root = None
  BY DEF HelperTakes, CloseIssue, Edit, RInv, TypeOK, world
<1>2. Locks'
  BY <1>1, NamesApart DEF RInv, Locks, Guarded, Assumptions
<1>3. Lease' /\ Line'
  BY <1>1 DEF RInv, Lease, Line, Known, Waiting, Serves
<1>4. ASSUME NEW p \in Publishers
      PROVE  Unanswered(p)'
  BY <1>1 DEF RInv, Sessions, Unanswered, Expired
<1>5. Pinned'
  BY <1>1 DEF RInv, Sessions, Pinned
<1>6. ASSUME NEW c \in Consumers
      PROVE  Admission(c)' /\ Word(c)' /\ Spoiled(c)'
  BY <1>1 DEF RInv, Sessions, Moved, Spoiled, Admission, Word, InSession, Awaited, Over,
              Late, Expired
<1>7. Leased'
  BY <1>1 DEF HelperTakes, CloseIssue, Edit, RInv, Leased, Stands, world
<1> QED BY <1>2, <1>3, <1>4, <1>5, <1>6, <1>7 DEF Held, Sessions, Moved

-----------------------------------------------------------------------------
(* Types *)

LeaseKind == [envelope : Publishers \cup {None}, socket : Publishers \cup {None},
              torn : BOOLEAN, stamped : BOOLEAN, revoked : BOOLEAN]
LedgerKind == [gen : 0 .. MaxGen, open : BOOLEAN]

\* A publisher's step goes to a station, but for the proof of its producer.
LEMMA PublisherMoves ==
  ASSUME NEW p \in Publishers, Publishing(p) \/ KillPublisher(p), ~Prove(p)
  PROVE  \E station \in Stations : PubGo(p, station)
<1>1. CASE TakeGuard(p) \/ LeaveGuard(p) \/ LockLease(p)
  BY <1>1 DEF TakeGuard, LeaveGuard, LockLease, Stations
<1>2. CASE Stamp(p) \/ CreateEnvelope(p) \/ WriteEnvelope(p) \/ Listen(p)
  BY <1>2 DEF Stamp, CreateEnvelope, WriteEnvelope, Listen, Ends, Stations
<1>3. CASE Accept(p) \/ Stop(p) \/ Revoke(p) \/ Begin(p) \/ Verify(p) \/ Turn(p)
  BY <1>3 DEF Accept, Stop, Revoke, Begin, Verify, Turn, Ends, Stations
<1>4. CASE Complete(p) \/ Lose(p) \/ KillPublisher(p)
  BY <1>4 DEF Complete, Lose, Reject, KillPublisher, Ends, Stations
<1> QED BY <1>1, <1>2, <1>3, <1>4 DEF Publishing

\* The records of the publishers keep their kind.
LEMMA PublisherTyped ==
  ASSUME Assumptions, RInv, NEW p \in Publishers, Publishing(p) \/ KillPublisher(p)
  PROVE  pub' \in [Publishers -> PubKind]
<1>1. CASE Prove(p)
  <2> DEFINE r == [at |-> "proved", gen |-> ledger.gen, until |-> clock + Ttl]
  <2>1. clock \in 0 .. Horizon /\ Ttl \in Nat /\ Horizon \in Nat /\ ledger.gen \in 0 .. MaxGen
    BY DEF RInv, TypeOK, Assumptions
  <2>2. clock + Ttl \in 0 .. Horizon + Ttl
    BY <2>1
  <2>3. r \in PubKind
    BY <2>1, <2>2 DEF PubKind, Stations
  <2>4. pub \in [Publishers -> PubKind]
    BY DEF RInv, TypeOK, PubKind
  <2>5. pub' = [pub EXCEPT ![p] = r] \/ PubGo(p, "ended")
    BY <1>1 DEF Prove
  <2> HIDE DEF r
  <2>6. CASE pub' = [pub EXCEPT ![p] = r]
    BY <2>3, <2>4, <2>6
  <2>7. CASE PubGo(p, "ended")
    BY <2>7, PubGoes DEF RInv, Stations, Stood
  <2> QED BY <2>5, <2>6, <2>7
<1>2. CASE ~Prove(p)
  BY <1>2, PublisherMoves, PubGoes DEF RInv, Stood
<1> QED BY <1>1, <1>2

\* What a publisher's step may do to the clients.
LEMMA PublisherTells ==
  ASSUME NEW p \in Publishers, Publishing(p) \/ KillPublisher(p), ~Revoke(p)
  PROVE  \/ UNCHANGED cl
         \/ Ends(p)
         \/ /\ pub[p].at \in {"asked", "session", "admitted"}
            /\ \E reply \in Replies : Reply(peer, reply)
<1>1. CASE Prove(p) \/ TakeGuard(p) \/ LeaveGuard(p) \/ LockLease(p)
  BY <1>1 DEF Prove, TakeGuard, LeaveGuard, LockLease
<1>2. CASE Stamp(p) \/ CreateEnvelope(p) \/ WriteEnvelope(p) \/ Listen(p)
  BY <1>2 DEF Stamp, CreateEnvelope, WriteEnvelope, Listen
<1>3. CASE Accept(p) \/ Stop(p) \/ Begin(p) \/ Verify(p) \/ Turn(p)
  BY <1>3 DEF Accept, Stop, Begin, Verify, Turn, Replies
<1>4. CASE Complete(p) \/ Lose(p) \/ KillPublisher(p)
  BY <1>4 DEF Complete, Lose, Reject, KillPublisher, Replies
<1> QED BY <1>1, <1>2, <1>3, <1>4 DEF Publishing

\* The records of the clients keep their kind.
LEMMA ToldTyped ==
  ASSUME Assumptions, RInv, NEW p \in Publishers, Publishing(p) \/ KillPublisher(p)
  PROVE  cl' \in [Clients -> ClKind]
<1>1. cl \in [Clients -> ClKind]
  BY DEF RInv, TypeOK, ClKind
<1>2. CASE Revoke(p)
  <2> DEFINE hung == HangUp(Connected \ {peer})
  <2>1. ASSUME NEW c \in Clients
        PROVE  hung[c] \in ClKind
    <3>1. cl[c] \in ClKind
      BY <1>1
    <3>2. hung[c] = cl[c] \/ hung[c] = [cl[c] EXCEPT !.got = "closed"]
      BY DEF HangUp
    <3> HIDE DEF hung
    <3> QED BY <3>1, <3>2 DEF ClKind, Replies
  <2>2. hung \in [Clients -> ClKind]
    <3>1. hung = [c \in Clients |-> hung[c]]
      BY DEF HangUp
    <3> HIDE DEF hung
    <3> QED BY <2>1, <3>1
  <2>3. cl' = [hung EXCEPT ![peer].got = "revoked"]
    BY <1>2 DEF Revoke
  <2>4. peer \in Clients
    BY <1>2 DEF Revoke, RInv, TypeOK, Line, Serves
  <2> DEFINE r == [hung[peer] EXCEPT !.got = "revoked"]
  <2>5. r \in ClKind
    <3> HIDE DEF hung
    <3> QED BY <2>2, <2>4 DEF ClKind, Replies
  <2>6. cl' = [hung EXCEPT ![peer] = r]
    BY <2>3
  <2> HIDE DEF hung, r
  <2> QED BY <2>2, <2>4, <2>5, <2>6
<1>3. CASE UNCHANGED cl
  BY <1>1, <1>3
<1>4. CASE Ends(p)
  BY <1>4, EndsIs DEF RInv, Left
<1>5. CASE /\ pub[p].at \in {"asked", "session", "admitted"}
           /\ \E reply \in Replies : Reply(peer, reply)
  <2>1. peer \in Clients
    BY <1>5 DEF RInv, TypeOK, Line, Serves
  <2> QED BY <1>5, <2>1, Replied DEF RInv, Answered
<1> QED BY <1>2, <1>3, <1>4, <1>5, PublisherTells

\* The lease keeps its kind.
LEMMA LeaseTyped ==
  ASSUME Assumptions, RInv, NEW p \in Publishers, Publishing(p) \/ KillPublisher(p)
  PROVE  lease' \in LeaseKind
<1>1. lease \in LeaseKind
  BY DEF RInv, TypeOK, LeaseKind
<1>2. \/ UNCHANGED lease
      \/ lease' = [lease EXCEPT !.stamped = TRUE]
      \/ lease' = [lease EXCEPT !.envelope = p, !.torn = TRUE]
      \/ lease' = [lease EXCEPT !.torn = FALSE]
      \/ lease' = [lease EXCEPT !.socket = p]
      \/ lease' = [lease EXCEPT !.revoked = TRUE]
  <2>1. CASE Prove(p) \/ TakeGuard(p) \/ LeaveGuard(p) \/ LockLease(p)
    BY <2>1 DEF Prove, TakeGuard, LeaveGuard, LockLease
  <2>2. CASE Stamp(p) \/ CreateEnvelope(p) \/ WriteEnvelope(p) \/ Listen(p)
    BY <2>2 DEF Stamp, CreateEnvelope, WriteEnvelope, Listen
  <2>3. CASE Accept(p) \/ Stop(p) \/ Revoke(p) \/ Begin(p) \/ Verify(p) \/ Turn(p)
    BY <2>3 DEF Accept, Stop, Revoke, Begin, Verify, Turn
  <2>4. CASE Complete(p) \/ Lose(p) \/ KillPublisher(p)
    BY <2>4 DEF Complete, Lose, KillPublisher
  <2> QED BY <2>1, <2>2, <2>3, <2>4 DEF Publishing
<1> QED BY <1>1, <1>2 DEF LeaseKind

\* The locks and the connections.
Places ==
  /\ root \in Publishers \cup {None, Helper} /\ flock \in Publishers \cup Clients \cup {None}
  /\ queue \in Seq(Clients) /\ peer \in Clients \cup {None}

\* The locks and the connections keep their kinds.
LEMMA PlacesTyped ==
  ASSUME Assumptions, RInv, NEW p \in Publishers, Publishing(p) \/ KillPublisher(p)
  PROVE  Places'
<1>1. Places
  BY DEF RInv, TypeOK, Places
<1>2. CASE Ends(p)
  <2>1. Left(p)
    BY <1>2, EndsIs DEF RInv
  <2>2. root' \in {None, root} /\ flock' \in {None, flock}
    BY <2>1 DEF Left
  <2>3. (queue' = <<>> /\ peer' = None) \/ UNCHANGED <<queue, peer>>
    BY <2>1 DEF Left
  <2>4. <<>> \in Seq(Clients)
    BY EmptySeq
  <2> QED BY <1>1, <2>2, <2>3, <2>4 DEF Places
<1>3. CASE Prove(p) \/ TakeGuard(p) \/ LeaveGuard(p) \/ LockLease(p)
  BY <1>1, <1>3 DEF Prove, TakeGuard, LeaveGuard, LockLease, Places
<1>4. CASE ~Ends(p) /\ (Stamp(p) \/ CreateEnvelope(p) \/ WriteEnvelope(p) \/ Listen(p))
  BY <1>1, <1>4 DEF Stamp, CreateEnvelope, WriteEnvelope, Listen, Places
<1>5. CASE Accept(p)
  <2>1. queue \in Seq(Clients) /\ queue # <<>>
    BY <1>1, <1>5 DEF Accept, Places
  <2>2. Head(queue) \in Clients /\ Tail(queue) \in Seq(Clients)
    BY <2>1, HeadTailProperties
  <2> QED BY <1>1, <1>5, <2>2 DEF Accept, Places
<1>6. CASE ~Ends(p) /\ (Stop(p) \/ Begin(p) \/ Verify(p) \/ Turn(p))
  BY <1>1, <1>6 DEF Stop, Begin, Verify, Turn, Places
<1>7. CASE Revoke(p)
  BY <1>1, <1>7 DEF Revoke, Places
<1>8. CASE ~Ends(p) /\ (Complete(p) \/ Lose(p) \/ KillPublisher(p))
  BY <1>1, <1>8 DEF Complete, Lose, Reject, KillPublisher, Places
<1> QED BY <1>2, <1>3, <1>4, <1>5, <1>6, <1>7, <1>8 DEF Publishing

\* A publisher moves neither the clock nor the ledger nor the sources.
LEMMA WorldStays ==
  ASSUME Assumptions, RInv, NEW p \in Publishers, Publishing(p) \/ KillPublisher(p)
  PROVE  UNCHANGED <<clock, ledger, sources>> /\ kills' \in 0 .. MaxKill
<1>1. kills \in 0 .. MaxKill /\ MaxKill \in Nat
  BY DEF RInv, TypeOK, Assumptions
<1>2. CASE Prove(p) \/ TakeGuard(p) \/ LeaveGuard(p) \/ LockLease(p)
  BY <1>1, <1>2 DEF Prove, TakeGuard, LeaveGuard, LockLease, world
<1>3. CASE Stamp(p) \/ CreateEnvelope(p) \/ WriteEnvelope(p) \/ Listen(p)
  BY <1>1, <1>3 DEF Stamp, CreateEnvelope, WriteEnvelope, Listen, world
<1>4. CASE Accept(p) \/ Stop(p) \/ Revoke(p) \/ Begin(p) \/ Verify(p) \/ Turn(p)
  BY <1>1, <1>4 DEF Accept, Stop, Revoke, Begin, Verify, Turn, world
<1>5. CASE Complete(p) \/ Lose(p)
  BY <1>1, <1>5 DEF Complete, Lose, world
<1>6. CASE KillPublisher(p)
  BY <1>1, <1>6 DEF KillPublisher
<1> QED BY <1>2, <1>3, <1>4, <1>5, <1>6 DEF Publishing

\* Every step of a publisher keeps the types.
LEMMA PublisherTypes ==
  ASSUME Assumptions, RInv, NEW p \in Publishers, Publishing(p) \/ KillPublisher(p)
  PROVE  TypeOK'
BY PublisherTyped, ToldTyped, LeaseTyped, PlacesTyped, WorldStays
DEF RInv, TypeOK, PubKind, ClKind, LeaseKind, Places

\* Every step of a publisher keeps the invariant.
LEMMA PublisherKeeps ==
  ASSUME Assumptions, RInv, NEW p \in Publishers, Publishing(p) \/ KillPublisher(p)
  PROVE  Held'
<1>1. CASE Stop(p) \/ KillPublisher(p)
  BY <1>1, EndsKeeps DEF Stop, KillPublisher, world
<1>2. CASE Prove(p) \/ TakeGuard(p) \/ LeaveGuard(p) \/ LockLease(p) \/ WriteEnvelope(p)
  BY <1>2, ProveKeeps, PublisherOpensKeeps
<1>3. CASE Stamp(p) \/ CreateEnvelope(p) \/ Listen(p)
  BY <1>3, PublisherWritesKeeps, ListenKeeps
<1>4. CASE Accept(p) \/ Revoke(p) \/ Begin(p) \/ Verify(p) \/ Turn(p) \/ Complete(p) \/ Lose(p)
  BY <1>4, AcceptKeeps, RevokeKeeps, BeginKeeps, VerifyKeeps, CompleteKeeps, LoseKeeps
<1> QED BY <1>1, <1>2, <1>3, <1>4 DEF Publishing

\* A client's steps leave the ledger, the lease and the publishers alone.
LEMMA ClientFrame ==
  ASSUME Assumptions, RInv, NEW c \in Clients, Asking(c) \/ Consuming(c) \/ KillClient(c)
  PROVE  /\ UNCHANGED <<clock, ledger, sources, root, lease, pub, peer>>
         /\ flock' \in {flock, None, c} /\ queue' \in {queue, Append(queue, c)}
         /\ kills' \in 0 .. MaxKill
<1>1. kills \in 0 .. MaxKill /\ MaxKill \in Nat
  BY DEF RInv, TypeOK, Assumptions
<1>2. CASE Start(c) \/ Read(c) \/ Pass(c) \/ Refuse(c) \/ Probe(c) \/ EndProbe(c)
  BY <1>1, <1>2 DEF Start, Read, Pass, Refuse, Probe, EndProbe, world
<1>3. CASE Connect(c) \/ Receive(c) \/ Consuming(c)
  BY <1>1, <1>3 DEF Connect, Receive, Consuming, Compare, Recheck, TakeLeases, Use, Finish, world
<1>4. CASE KillClient(c)
  BY <1>1, <1>4 DEF KillClient
<1> QED BY <1>2, <1>3, <1>4 DEF Asking

\* The records of the clients keep their kind in the steps of a client.
LEMMA ClientTyped ==
  ASSUME Assumptions, RInv, NEW c \in Clients, Asking(c) \/ Consuming(c) \/ KillClient(c)
  PROVE  cl' \in [Clients -> ClKind]
<1>1. CASE Start(c)
  BY <1>1, Starts DEF RInv, Started
<1>2. CASE TakeLeases(c)
  BY <1>2, Takes DEF RInv, Took
<1>3. CASE Recheck(c) \/ Finish(c)
  <2>1. PICK request \in Requests : Ask(c, request)
    BY <1>3 DEF Recheck, Finish, Requests
  <2> QED BY <2>1, Asks DEF RInv, Spoke
<1>4. ASSUME NEW step \in Steps, Go(c, step)
      PROVE  cl' \in [Clients -> ClKind]
  BY <1>4, ClientGoes DEF RInv, Stepped
<1>5. CASE Read(c) \/ Refuse(c) \/ Probe(c) \/ EndProbe(c) \/ Connect(c)
  BY <1>4, <1>5 DEF Read, Refuse, Probe, EndProbe, Connect, Steps
<1>6. CASE Pass(c)
  <2>1. cl[c].at \in {"live", "before", "after"} /\ Go(c, Passed(c))
    BY <1>6 DEF Pass
  <2>2. Passed(c) \in Steps
    BY <2>1 DEF Passed, Onward, Steps
  <2> QED BY <1>4, <2>1, <2>2
<1>7. CASE Receive(c) \/ Compare(c) \/ Use(c) \/ KillClient(c)
  BY <1>4, <1>7 DEF Receive, Compare, Use, KillClient, Steps
<1> QED BY <1>1, <1>2, <1>3, <1>5, <1>6, <1>7 DEF Asking, Consuming

\* The steps of a client keep the types.
LEMMA ClientTypes ==
  ASSUME Assumptions, RInv, NEW c \in Clients, Asking(c) \/ Consuming(c) \/ KillClient(c)
  PROVE  TypeOK'
<1>1. cl' \in [Clients -> ClKind]
  BY ClientTyped
<1>2. /\ UNCHANGED <<clock, ledger, sources, root, lease, pub, peer>>
      /\ flock' \in {flock, None, c} /\ queue' \in {queue, Append(queue, c)}
      /\ kills' \in 0 .. MaxKill
  BY ClientFrame
<1>3. queue' \in Seq(Clients)
  <2>1. queue \in Seq(Clients)
    BY DEF RInv, TypeOK
  <2>2. Append(queue, c) \in Seq(Clients)
    BY <2>1, AppendProperties
  <2> QED BY <1>2, <2>1, <2>2
<1> QED BY <1>1, <1>2, <1>3 DEF RInv, TypeOK, ClKind

\* Every step of a client keeps the invariant.
LEMMA ClientsKeep ==
  ASSUME Assumptions, RInv, NEW c \in Clients, Asking(c) \/ Consuming(c) \/ KillClient(c)
  PROVE  Held'
<1>1. CASE Start(c) \/ TakeLeases(c) \/ Pass(c)
  BY <1>1, StartKeeps, TakeKeeps, PassKeeps
<1>2. CASE Recheck(c) \/ Finish(c)
  <2>1. PICK request \in {"recheck", "finish"} : Ask(c, request)
    BY <1>2 DEF Recheck, Finish
  <2> QED BY <1>2, <2>1, AskKeeps DEF Recheck, Finish, Using
<1>3. CASE Probe(c) \/ EndProbe(c) \/ KillClient(c)
  BY <1>3, ProbingKeeps
<1>4. CASE Read(c) \/ Refuse(c) \/ Connect(c) \/ Receive(c) \/ Compare(c) \/ Use(c)
  BY <1>4, AskingKeeps
<1> QED BY <1>1, <1>2, <1>3, <1>4 DEF Asking, Consuming

\* What happens around them keeps the types.
LEMMA OutsideTypes ==
  ASSUME Assumptions, RInv, Tick \/ HelperTakes \/ HelperMoves \/ CloseIssue \/ Edit
  PROVE  TypeOK'
<1>1. /\ UNCHANGED <<kills, lease, flock, pub, queue, peer>>
      /\ sources' \in BOOLEAN /\ root' \in {root, None, Helper}
  BY DEF Tick, HelperTakes, HelperMoves, CloseIssue, Edit, world, RInv, TypeOK
<1>2. clock' \in 0 .. Horizon
  BY DEF Tick, HelperTakes, HelperMoves, CloseIssue, Edit, world, RInv, TypeOK, Assumptions
<1>3. ledger' \in LedgerKind
  <2>1. ledger \in LedgerKind /\ MaxGen \in Nat
    BY DEF RInv, TypeOK, LedgerKind, Assumptions
  <2>2. \/ UNCHANGED ledger
        \/ ledger.gen < MaxGen /\ ledger' = [ledger EXCEPT !.gen = ledger.gen + 1]
        \/ ledger' = [ledger EXCEPT !.open = FALSE]
    <3>1. CASE Tick \/ HelperTakes \/ Edit
      BY <3>1 DEF Tick, HelperTakes, Edit, world
    <3>2. CASE HelperMoves \/ CloseIssue
      BY <3>2 DEF HelperMoves, CloseIssue
    <3> QED BY <3>1, <3>2
  <2>3. ledger.gen \in 0 .. MaxGen /\ ledger.open \in BOOLEAN
    BY <2>1 DEF LedgerKind
  <2>4. ledger.gen < MaxGen => ledger.gen + 1 \in 0 .. MaxGen
    BY <2>1, <2>3
  <2> QED BY <2>1, <2>2, <2>3, <2>4 DEF LedgerKind
<1>4. cl' \in [Clients -> ClKind]
  BY HelperMovesKeeps DEF Tick, HelperTakes, CloseIssue, Edit, RInv, TypeOK, ClKind
<1> QED BY <1>1, <1>2, <1>3, <1>4 DEF RInv, TypeOK, ClKind, LedgerKind

-----------------------------------------------------------------------------
(* The invariant and what follows *)

\* The invariant holds before anybody has moved.
LEMMA StartsSound ==
  ASSUME Assumptions, Init
  PROVE  RInv
<1>1. TypeOK
  BY DEF Assumptions, Init, TypeOK, Stations, Steps, Requests, Replies
<1>2. Locks /\ Lease
  BY DEF Init, Locks, Lease, Holding, Serving, Guarded
<1>3. Line
  BY DEF Init, Line, Known, Waiting, Serves
<1>4. Pinned /\ \A p \in Publishers : Unanswered(p)
  BY DEF Init, Pinned, Unanswered, Admitting
<1>5. ASSUME NEW c \in Consumers
      PROVE  Admission(c) /\ Word(c) /\ Spoiled(c) /\ Stands(c)
  BY DEF Init, Clients, Admission, Word, Spoiled, Stands, InSession, Using
<1> QED BY <1>1, <1>2, <1>3, <1>4, <1>5 DEF RInv, Sessions, Moved, Leased

\* Every step keeps the invariant.
LEMMA StepsSound ==
  ASSUME Assumptions, RInv, [Next]_vars
  PROVE  RInv'
<1>1. CASE UNCHANGED vars
  BY <1>1 DEF vars, RInv, TypeOK, Locks, Lease, Line, Known, Waiting, Serves, Sessions, Pinned,
     Unanswered, Admission, Word, Moved, Spoiled, Leased, Stands, InSession, Over, Late, Expired,
     Awaited
<1>2. ASSUME NEW p \in Publishers, Publishing(p) \/ KillPublisher(p)
      PROVE  TypeOK' /\ Held'
  BY <1>2, PublisherTypes, PublisherKeeps
<1>3. ASSUME NEW c \in Clients, Asking(c) \/ Consuming(c) \/ KillClient(c)
      PROVE  TypeOK' /\ Held'
  BY <1>3, ClientTypes, ClientsKeep
<1>4. CASE Tick \/ HelperTakes \/ HelperMoves \/ CloseIssue \/ Edit
  <2>1. TypeOK'
    BY <1>4, OutsideTypes
  <2>2. Held'
    BY <1>4, TickKeeps, HelperMovesKeeps, OutsideKeeps
  <2> QED BY <2>1, <2>2 DEF RInv, Held
<1>5. CASE Next
  BY <1>2, <1>3, <1>4, <1>5 DEF Next, RInv, Held
<1> QED BY <1>1, <1>5

\* The inductive invariant: who is where a lock is needed has it, the lease is one publisher's,
\* an admission is pinned, and what a consumer goes on with was answered.
THEOREM Sound ==
  ASSUME Assumptions
  PROVE  Spec => []RInv
BY StartsSound, StepsSound, PTL DEF Spec

\* Every consumer that is admitted has the ledger as its publisher proved it, the root locked
\* for it and the lease not revoked, until its publisher is gone or its lease ran out.
THEOREM AdmittedIsGuardedHolds ==
  ASSUME Assumptions
  PROVE  Spec => []AdmittedIsGuarded
<1>1. RInv => AdmittedIsGuarded
  <2>1. ASSUME RInv, NEW c \in Consumers, InSession(c)
        PROVE  \/ Over(c)
               \/ /\ peer = c /\ root = cl[c].pin /\ ledger.gen = pub[cl[c].pin].gen
                  /\ ~lease.revoked
    <3>1. cl[c].at # "idle" /\ cl[c].pin \in Publishers
      BY <2>1, NamesApart DEF InSession, RInv, TypeOK, Lease, Line, Known
    <3>2. Over(c) \/ (peer = c /\ pub[cl[c].pin].at \in Admitting)
      BY <2>1 DEF RInv, Sessions, Admission
    <3> QED BY <2>1, <3>1, <3>2
        DEF RInv, Locks, Sessions, Pinned, Word, Admitting, Guarded
  <2> QED BY <2>1 DEF AdmittedIsGuarded, Over
<1> QED BY <1>1, Sound, PTL

\* A consumer that completes had the ledger stand still from its admission on.
THEOREM CompletionIsWholeHolds ==
  ASSUME Assumptions
  PROVE  Spec => []CompletionIsWhole
<1>1. RInv => CompletionIsWhole
  BY DEF RInv, Moved, Spoiled, CompletionIsWhole
<1> QED BY <1>1, Sound, PTL

\* Once a revocation is on disk nobody is admitted, and nobody will be.
THEOREM RevocationIsFinalHolds ==
  ASSUME Assumptions
  PROVE  Spec => []RevocationIsFinal
<1>1. RInv => RevocationIsFinal
  BY DEF RInv, Lease, Sessions, Word, Serving, RevocationIsFinal
<1> QED BY <1>1, Sound, PTL

\* What a consumer starts under its leases are the sources of the envelope.
THEOREM SourcesStandHolds ==
  ASSUME Assumptions
  PROVE  Spec => []SourcesStand
<1>1. RInv => SourcesStand
  BY DEF RInv, Leased, Stands, SourcesStand
<1> QED BY <1>1, Sound, PTL

\* Two publishers never serve one lease, and the one that serves wrote its envelope.
THEOREM OneServesHolds ==
  ASSUME Assumptions
  PROVE  Spec => []OneServes
<1>1. RInv => OneServes
  BY DEF RInv, Lease, OneServes
<1> QED BY <1>1, Sound, PTL

-----------------------------------------------------------------------------
(***************************************************************************)
(* Topologies, their supervisors and guardians                             *)
(*                                                                         *)
(* TopologySupervisor is proved beside the handoff of its runtimes, as the *)
(* instance T, for any commands, topologies, processes, ports, generations *)
(* and faults.  A generation gets its leases from one command only, and    *)
(* from then on nothing but its own processes keeps them; whoever wants    *)
(* one of them looks at who holds it.  So whatever a supervisor, a         *)
(* guardian or a service does, no lease comes to a new holder (Frame): all *)
(* that can go wrong is in the steps of the commands.                      *)
(***************************************************************************)

CONSTANTS Commands, Topologies, Processes, MaxLaunch, PortOf, Faults

VARIABLES cmd, of, sup, kin, kids, doomed, listed, memory, named, status, told

T == INSTANCE TopologySupervisor WITH lease <- named

Owning == (T!Preparing \ {"opened"}) \cup T!Restoring
Emptied == {"retired", "bound"} \cup T!Restoring

\* No two commands operate on one topology.
Alone == \A c, d \in Commands :
           cmd[c].at # "idle" /\ cmd[d].at # "idle" /\ cmd[c].t = cmd[d].t => c = d

\* The generation that a command prepares is its own, and not launched.
Young(c) ==
  cmd[c].at \in T!Preparing =>
    LET g == cmd[c].g
    IN  /\ g \in T!Launches /\ of[g] = cmd[c].t /\ sup[g] = "none" /\ told[g] = "nothing"
        /\ \A t \in Topologies : named[t] = g => t = cmd[c].t /\ cmd[c].at = "bound"
        /\ \A d \in Commands : d # c => cmd[d].g # g
        /\ cmd[c].at = "bound" => named[cmd[c].t] = g

\* What a stop is about is a generation of its topology, and so is what a restart goes back to.
Subject(c) ==
  cmd[c].at \in {"asked", "forcing"} => cmd[c].g \in T!Launches /\ of[cmd[c].g] = cmd[c].t
Back(c) ==
  /\ cmd[c].at \in T!Restoring => cmd[c].restart # T!NoLaunch
  /\ cmd[c].at # "idle" /\ cmd[c].restart # T!NoLaunch =>
       of[cmd[c].restart] = cmd[c].t /\ sup[cmd[c].restart] # "none"
  /\ cmd[c].at = "rebound" => named[cmd[c].t] = cmd[c].restart

\* A command that has the tree of its topology locked has it alone.
Fenced(c) ==
  cmd[c].at \in Owning => \A g \in T!Launches : of[g] = cmd[c].t => ~T!TreeHolders(g)
Blank(c) == cmd[c].at \in Emptied => status[cmd[c].t].gen = T!NoLaunch

\* What the lease says of a generation, and what was never launched holds nothing.
Named(g) == T!TreeHolders(g) => named[of[g]] = g
Unborn(g) == sup[g] = "none" => kin[g] = "none" /\ kids[g] = {} /\ doomed[g] = {}
Gone(g) == told[g] # "nothing" => ~T!TreeHolders(g)
BoundTo(t) ==
  /\ named[t] # T!NoLaunch => of[named[t]] = t
  /\ status[t].gen # T!NoLaunch => named[t] = status[t].gen /\ sup[named[t]] # "none"

Tree ==
  /\ Alone
  /\ \A c \in Commands : Young(c) /\ Subject(c) /\ Back(c) /\ Fenced(c) /\ Blank(c)
  /\ \A g \in T!Launches : Named(g) /\ Unborn(g) /\ Gone(g)
  /\ \A t \in Topologies : BoundTo(t)

\* The port of a command that found it free is held by nobody, until it takes it.
Free(c) ==
  cmd[c].at = "free" =>
    /\ \A d \in Commands : cmd[d].at = "free" /\ PortOf[cmd[d].g] = PortOf[cmd[c].g] => c = d
    /\ \A g \in T!Launches : PortOf[g] = PortOf[cmd[c].g] => ~T!PortHeld(g)
Ports == T!PortExclusive /\ \A c \in Commands : Free(c)

\* One generation retains the state, or one command has it locked for the next.
Stating == {"stated", "retired", "bound"}
States ==
  /\ \A g, h \in T!Launches : T!Retains(g) /\ T!Retains(h) => g = h
  /\ \A c \in Commands, g \in T!Launches : cmd[c].at \in Stating => ~T!Retains(g)
  /\ \A c, d \in Commands : cmd[c].at \in Stating /\ cmd[d].at \in Stating => c = d

TInv == T!TypeOK /\ Tree /\ Ports /\ States

\* A guardian does anything only after its supervisor is gone.
Waits(g) == kin[g] \in {"wait", "kill", "last", "closing"} => sup[g] = "gone"
AllWait == \A g \in T!Launches : Waits(g)

\* Unless a guardian dies or a scan misses somebody, services are guarded.
Watched(g) ==
  /\ sup[g] \in T!Alive \ {"boot"} => kin[g] = "watch"
  /\ kids[g] \ doomed[g] # {} => kin[g] \in T!Watching
AllWatched == \A g \in T!Launches : Watched(g)

\* Unless a scan misses somebody, who is recorded or reported as cleanly ended was never killed,
\* and has nobody left.
Unharmed(g) == doomed[g] = {} /\ kids[g] = {}
Ending == {"killing", "recording"}
Ended == {"recorded", "released"}
Spared(g) ==
  /\ sup[g] \in T!Alive \ (Ended \cup Ending) => doomed[g] = {}
  /\ sup[g] \in Ending /\ ~memory[g].dirty => Unharmed(g)
  /\ told[g] = "clean" => Unharmed(g)
Clean(t) ==
  status[t].clean =>
    /\ status[t].gen # T!NoLaunch /\ Unharmed(status[t].gen)
    /\ sup[status[t].gen] \notin T!Alive \ Ended

\* A stop is about the generation that the lease names, and a restart goes on after a clean one.
Asked(c) ==
  cmd[c].at = "asked" =>
    /\ named[cmd[c].t] = cmd[c].g
    /\ cmd[c].restart # T!NoLaunch => cmd[c].restart = cmd[c].g
CleanBack(c) ==
  cmd[c].at \notin {"idle", "asked"} /\ cmd[c].restart # T!NoLaunch =>
    told[cmd[c].restart] = "clean"
AllClean ==
  /\ \A g \in T!Launches : Spared(g)
  /\ \A t \in Topologies : Clean(t)
  /\ \A c \in Commands : Asked(c) /\ CleanBack(c)

-----------------------------------------------------------------------------
(* Records and generations *)

CmdKind == [at : T!Stations, t : Topologies, g : 0..MaxLaunch, restart : 0..MaxLaunch,
            heard : BOOLEAN]

\* A command goes to a station and nothing else of it changes.
Went(c, station) ==
  /\ cmd' \in [Commands -> CmdKind]
  /\ cmd'[c].at = station /\ cmd'[c].t = cmd[c].t /\ cmd'[c].g = cmd[c].g
  /\ cmd'[c].restart = cmd[c].restart
  /\ \A d \in Commands : d # c => cmd'[d] = cmd[d]

LEMMA Goes ==
  ASSUME T!TypeOK, NEW c \in Commands, NEW station \in T!Stations,
         cmd' = [cmd EXCEPT ![c].at = station]
  PROVE  Went(c, station)
<1> DEFINE r == [cmd[c] EXCEPT !.at = station]
<1>1. cmd \in [Commands -> CmdKind] /\ cmd[c] \in CmdKind
  BY DEF T!TypeOK, CmdKind
<1>2. /\ r \in CmdKind /\ r.at = station /\ r.t = cmd[c].t /\ r.g = cmd[c].g
      /\ r.restart = cmd[c].restart
  BY <1>1 DEF CmdKind
<1>3. cmd' = [cmd EXCEPT ![c] = r]
  OBVIOUS
<1> HIDE DEF r
<1>4. cmd' \in [Commands -> CmdKind] /\ cmd'[c] = r
      /\ \A d \in Commands : d # c => cmd'[d] = cmd[d]
  BY <1>1, <1>2, <1>3
<1> QED BY <1>2, <1>4 DEF Went

\* A command ends, or becomes another one.
Became(c, r) ==
  /\ cmd' \in [Commands -> CmdKind] /\ cmd'[c] = r
  /\ \A d \in Commands : d # c => cmd'[d] = cmd[d]

LEMMA Becomes ==
  ASSUME T!TypeOK, NEW c \in Commands, NEW r \in CmdKind, cmd' = [cmd EXCEPT ![c] = r]
  PROVE  Became(c, r)
<1>1. cmd \in [Commands -> CmdKind]
  BY DEF T!TypeOK, CmdKind
<1> QED BY <1>1 DEF Became

\* Who is idle has no generation.
LEMMA IdleIs ==
  ASSUME T!Assumptions
  PROVE  /\ T!Idle \in CmdKind /\ T!Idle.at = "idle" /\ T!Idle.g = 0 /\ T!Idle.restart = 0
         /\ T!Idle.heard = FALSE
<1>1. (CHOOSE t \in Topologies : TRUE) \in Topologies
  BY DEF T!Assumptions
<1> QED BY <1>1 DEF T!Assumptions, T!Idle, CmdKind, T!Stations, T!NoLaunch

\* The next generation is a fresh one.
LEMMA NextIsFresh ==
  ASSUME T!Assumptions, T!Fresh # {}
  PROVE  T!Next1 \in T!Fresh
<1> DEFINE less == OpToRel(<, Nat)
<1>1. IsWellFoundedOn(less, Nat)
  BY NatLessThanWellFounded
<1>2. \A m, n \in Nat : m < n => <<m, n>> \in less
  BY DEF OpToRel
<1> HIDE DEF less
<1>3. T!Fresh \subseteq Nat
  BY DEF T!Fresh, T!Launches, T!Assumptions
<1>4. \E g \in T!Fresh : \A h \in T!Fresh : ~ (<<h, g>> \in less)
  BY <1>1, <1>3, WFMin
<1>5. PICK g \in T!Fresh : \A h \in T!Fresh : ~ (<<h, g>> \in less)
  BY <1>4
<1>6. ASSUME NEW h \in T!Fresh
      PROVE  g <= h
  <2>1. g \in Nat /\ h \in Nat
    BY <1>3
  <2>2. ~ (h < g)
    BY <1>2, <1>5, <2>1
  <2> QED BY <2>1, <2>2
<1> QED BY <1>6 DEF T!Next1

\* What a fresh generation is.
LEMMA FreshIs ==
  ASSUME NEW g \in T!Fresh
  PROVE  /\ g \in T!Launches /\ sup[g] = "none" /\ told[g] = "nothing"
         /\ \A c \in Commands : cmd[c].g # g
         /\ \A t \in Topologies : named[t] # g
BY DEF T!Fresh

LEMMA LaunchesAre ==
  ASSUME T!Assumptions
  PROVE  /\ T!NoLaunch \notin T!Launches /\ T!NoLaunch \in 0..MaxLaunch
         /\ T!Launches \subseteq 0..MaxLaunch
         /\ \A g \in 0..MaxLaunch : g # T!NoLaunch => g \in T!Launches
BY DEF T!Assumptions, T!Launches, T!NoLaunch

-----------------------------------------------------------------------------
(* A step that gives no lease to anybody *)

\* What the processes of a launch may do: to the locks, to what is recorded of their topology.
Frame ==
  /\ UNCHANGED <<cmd, of, named, told>>
  /\ \A g \in T!Launches :
       /\ T!TreeHolders(g)' => T!TreeHolders(g)
       /\ T!Retains(g)' => T!Retains(g)
       /\ sup'[g] = "none" <=> sup[g] = "none"
       /\ Unborn(g)'
  /\ \A t \in Topologies :
       \/ status'[t].gen = status[t].gen
       \/ \E g \in T!Launches : /\ T!TreeHolders(g) /\ sup[g] # "none"
                                /\ of[g] = t /\ status'[t].gen = g

LEMMA FrameTree ==
  ASSUME T!Assumptions, TInv, Frame
  PROVE  Tree'
<1>1. Alone'
  BY DEF TInv, Tree, Alone, Frame
<1>2. ASSUME NEW c \in Commands
      PROVE  Young(c)' /\ Subject(c)' /\ Back(c)'
  <2>1. Young(c) /\ Subject(c) /\ Back(c)
    BY DEF TInv, Tree
  <2>2. cmd[c].restart # T!NoLaunch => cmd[c].restart \in T!Launches
    BY LaunchesAre DEF TInv, T!TypeOK
  <2>3. Young(c)'
    BY <2>1 DEF Young, Frame
  <2>4. Subject(c)'
    BY <2>1 DEF Subject, Frame
  <2>5. Back(c)'
    BY <2>1, <2>2 DEF Back, Frame
  <2> QED BY <2>3, <2>4, <2>5
<1>3. ASSUME NEW c \in Commands
      PROVE  Fenced(c)' /\ Blank(c)'
  <2>1. Fenced(c) /\ Blank(c)
    BY DEF TInv, Tree
  <2>2. Fenced(c)'
    BY <2>1 DEF Fenced, Frame
  <2>3. cmd[c].at \in Emptied => cmd[c].at \in Owning
    BY DEF Emptied, Owning, T!Preparing, T!Restoring
  <2>4. cmd[c].t \in Topologies
    BY DEF TInv, T!TypeOK
  <2>5. Blank(c)'
    BY <2>1, <2>3, <2>4 DEF Blank, Fenced, Frame
  <2> QED BY <2>2, <2>5
<1>4. ASSUME NEW g \in T!Launches
      PROVE  Named(g)' /\ Unborn(g)' /\ Gone(g)'
  <2>1. Named(g) /\ Gone(g)
    BY DEF TInv, Tree
  <2> QED BY <2>1 DEF Named, Gone, Frame
<1>5. ASSUME NEW t \in Topologies
      PROVE  BoundTo(t)'
  <2>1. BoundTo(t) /\ \A g \in T!Launches : Named(g)
    BY DEF TInv, Tree
  <2>2. named[t] # T!NoLaunch => named[t] \in T!Launches
    BY LaunchesAre DEF TInv, T!TypeOK
  <2>3. CASE status'[t].gen = status[t].gen
    BY <2>1, <2>2, <2>3 DEF BoundTo, Frame
  <2>4. CASE \E g \in T!Launches : /\ T!TreeHolders(g) /\ sup[g] # "none"
                                   /\ of[g] = t /\ status'[t].gen = g
    BY <2>1, <2>2, <2>4 DEF BoundTo, Named, Frame
  <2> QED BY <2>3, <2>4 DEF Frame
<1> QED BY <1>1, <1>2, <1>3, <1>4, <1>5 DEF Tree

\* Nobody gets a port, and nobody finds one free.
LEMMA PortsKeep ==
  ASSUME Ports, \A g \in T!Launches : T!PortHeld(g)' => T!PortHeld(g),
         \A c \in Commands : cmd'[c].at = "free" => cmd'[c] = cmd[c]
  PROVE  Ports'
<1>1. T!PortExclusive'
  BY DEF Ports, T!PortExclusive
<1>2. ASSUME NEW c \in Commands
      PROVE  Free(c)'
  BY DEF Ports, Free
<1> QED BY <1>1, <1>2 DEF Ports

\* Nobody gets the state.
LEMMA StatesKeep ==
  ASSUME States, \A g \in T!Launches : T!Retains(g)' => T!Retains(g),
         \A c \in Commands : cmd'[c].at \in Stating => cmd[c].at \in Stating
  PROVE  States'
BY DEF States

LEMMA FrameKeeps ==
  ASSUME T!Assumptions, TInv, Frame
  PROVE  Tree' /\ Ports' /\ States'
<1>1. Tree'
  BY FrameTree
<1>2. Ports'
  BY PortsKeep DEF TInv, Frame, T!PortHeld
<1>3. States'
  BY StatesKeep DEF TInv, Frame
<1> QED BY <1>1, <1>2, <1>3

\* A step of the processes of launch g: it concerns no other launch.
Local(g) ==
  /\ UNCHANGED <<cmd, of, named, told>>
  /\ \A h \in T!Launches : h # g =>
       sup'[h] = sup[h] /\ kin'[h] = kin[h] /\ kids'[h] = kids[h] /\ doomed'[h] = doomed[h]

\* What it may do to g itself.
Keeps(g) ==
  /\ T!TreeHolders(g)' => T!TreeHolders(g)
  /\ T!Retains(g)' => T!Retains(g)
  /\ (sup'[g] = "none") <=> (sup[g] = "none")
  /\ Unborn(g)'

\* What it may write: the status of its topology, while it lives.
Records(g) ==
  \/ \A t \in Topologies : status'[t].gen = status[t].gen
  \/ /\ T!Running(g)
     /\ \A t \in Topologies : t # of[g] => status'[t] = status[t]
     /\ status'[of[g]].gen = g

\* A step that is all this is a Frame.
LEMMA LocalFrame ==
  ASSUME TInv, NEW g \in T!Launches, Local(g), Keeps(g), Records(g)
  PROVE  Frame
<1>1. UNCHANGED <<cmd, of, named, told>>
  BY DEF Local
<1>2. ASSUME NEW h \in T!Launches
      PROVE  /\ T!TreeHolders(h)' => T!TreeHolders(h)
             /\ T!Retains(h)' => T!Retains(h)
             /\ (sup'[h] = "none") <=> (sup[h] = "none")
             /\ Unborn(h)'
  <2>1. CASE h = g
    BY <2>1 DEF Keeps
  <2>2. CASE h # g
    <3>1. Unborn(h)
      BY DEF TInv, Tree
    <3>2. sup'[h] = sup[h] /\ kin'[h] = kin[h] /\ kids'[h] = kids[h] /\ doomed'[h] = doomed[h]
      BY <2>2 DEF Local
    <3> QED BY <3>1, <3>2 DEF Unborn, T!TreeHolders, T!Retains, T!Running, T!Guarding
  <2> QED BY <2>1, <2>2
<1>3. ASSUME NEW t \in Topologies
      PROVE  \/ status'[t].gen = status[t].gen
             \/ \E h \in T!Launches : /\ T!TreeHolders(h) /\ sup[h] # "none"
                                      /\ of[h] = t /\ status'[t].gen = h
  <2>1. CASE \A u \in Topologies : status'[u].gen = status[u].gen
    BY <2>1
  <2>2. CASE /\ T!Running(g)
             /\ \A u \in Topologies : u # of[g] => status'[u] = status[u]
             /\ status'[of[g]].gen = g
    <3>1. T!TreeHolders(g) /\ sup[g] # "none"
      BY <2>2 DEF T!TreeHolders, T!Running, T!Alive
    <3> QED BY <2>2, <3>1
  <2> QED BY <2>1, <2>2 DEF Records
<1> QED BY <1>1, <1>2, <1>3 DEF Frame

\* The kinds of the processes' own variables.
LEMMA ActorTypes ==
  ASSUME T!TypeOK
  PROVE  /\ sup \in [T!Launches -> T!Alive \cup {"none", "gone"}]
         /\ kin \in [T!Launches -> T!Watching \cup {"none", "closing", "gone"}]
         /\ kids \in [T!Launches -> SUBSET Processes]
         /\ doomed \in [T!Launches -> SUBSET Processes]
BY DEF T!TypeOK

\* A supervisor that goes from one station to the next.
LEMMA SupervisorMoves ==
  ASSUME TInv, NEW g \in T!Launches, NEW station \in T!Alive \cup {"gone"},
         T!Running(g), sup[g] = "released" => station \in {"released", "gone"},
         sup' = [sup EXCEPT ![g] = station],
         UNCHANGED <<cmd, of, kin, kids, named, told>>,
         doomed' = doomed \/ \E s : doomed' = [doomed EXCEPT ![g] = s]
  PROVE  Local(g) /\ Keeps(g)
<1> USE ActorTypes
<1>0. T!TypeOK
  BY DEF TInv
<1>1. /\ sup'[g] = station /\ \A h \in T!Launches : h # g => sup'[h] = sup[h]
      /\ \A h \in T!Launches : h # g => doomed'[h] = doomed[h]
  BY <1>0
<1>2. Local(g)
  BY <1>1 DEF Local
<1>3. station # "none" /\ sup[g] # "none"
  BY DEF T!Running, T!Alive
<1>4. T!Running(g)' => T!Running(g)
  OBVIOUS
<1>5. T!TreeHolders(g)' => T!TreeHolders(g)
  BY <1>4 DEF T!TreeHolders, T!Guarding
<1>6. T!Retains(g)' => T!Retains(g)
  BY <1>1 DEF T!Retains, T!Running, T!Alive
<1>7. Unborn(g)'
  BY <1>1, <1>3 DEF Unborn
<1>8. Keeps(g)
  BY <1>1, <1>3, <1>5, <1>6, <1>7 DEF Keeps
<1> QED BY <1>2, <1>8

\* A supervisor fills in the status of its topology.
LEMMA WritesRecord ==
  ASSUME TInv, NEW g \in T!Launches, T!Running(g), NEW fields, fields.gen = g,
         T!Write(g, fields)
  PROVE  Records(g)
<1>1. status' = [status EXCEPT ![of[g]] = fields] /\ of[g] \in Topologies
      /\ status \in [Topologies -> [gen : 0..MaxLaunch, stopped : BOOLEAN, requested : BOOLEAN,
                                    clean : BOOLEAN, error : BOOLEAN]]
  BY DEF T!Write, TInv, T!TypeOK
<1>2. status'[of[g]] = fields /\ \A t \in Topologies : t # of[g] => status'[t] = status[t]
  BY <1>1
<1> QED BY <1>2 DEF Records

LEMMA SupervisorFrame ==
  ASSUME T!Assumptions, TInv, NEW g \in T!Launches, T!SupervisorStep(g) \/ T!SupervisorDies(g)
  PROVE  Frame /\ Local(g)
<1> USE ActorTypes
<1>0. T!TypeOK /\ Unborn(g)
  BY DEF TInv, Tree
<1>1. CASE T!StartGuardian(g)
  <2>1. sup'[g] = "guarded" /\ sup[g] = "boot" /\ kin'[g] = "watch"
        /\ \A h \in T!Launches : h # g => sup'[h] = sup[h] /\ kin'[h] = kin[h]
    BY <1>0, <1>1 DEF T!StartGuardian, T!Become
  <2>2. Local(g)
    BY <1>1, <2>1 DEF Local, T!StartGuardian
  <2>3. Keeps(g)
    BY <1>1, <2>1 DEF Keeps, T!StartGuardian, Unborn, T!TreeHolders, T!Retains, T!Running, T!Alive
  <2>4. Records(g)
    BY <1>1 DEF Records, T!StartGuardian
  <2> QED BY <2>2, <2>3, <2>4, LocalFrame
<1>2. CASE T!Spawn(g)
  <2>1. /\ sup'[g] = "spawned" /\ sup[g] = "guarded"
        /\ \A h \in T!Launches : h # g => sup'[h] = sup[h] /\ kids'[h] = kids[h]
    BY <1>0, <1>2 DEF T!Spawn, T!Become
  <2>2. Local(g)
    BY <1>2, <2>1 DEF Local, T!Spawn
  <2>3. Keeps(g)
    BY <1>2, <2>1 DEF Keeps, T!Spawn, Unborn, T!TreeHolders, T!Retains, T!Running, T!Alive
  <2>4. Records(g)
    BY <1>2 DEF Records, T!Spawn
  <2> QED BY <2>2, <2>3, <2>4, LocalFrame
<1>3. CASE T!BootFails(g)
  <2>1. Local(g) /\ Keeps(g)
    BY <1>3, SupervisorMoves DEF T!BootFails, T!Become, T!Running, T!Alive
  <2>2. Records(g)
    BY <1>3 DEF Records, T!BootFails
  <2> QED BY <2>1, <2>2, LocalFrame
<1>4. CASE T!WriteStarting(g)
  <2>1. Local(g) /\ Keeps(g)
    BY <1>4, SupervisorMoves DEF T!WriteStarting, T!Become, T!Running, T!Alive
  <2>2. T!Running(g) /\ T!Current(g).gen = g
    BY <1>4 DEF T!WriteStarting, T!Become, T!Running, T!Alive, T!Current, T!NoStatus
  <2>3. Records(g)
    BY <1>4, <2>2, WritesRecord DEF T!WriteStarting
  <2> QED BY <2>1, <2>3, LocalFrame
<1>5. CASE T!Ready(g)
  <2>1. Local(g) /\ Keeps(g)
    BY <1>5, SupervisorMoves DEF T!Ready, T!Become, T!Running, T!Alive
  <2>2. Records(g)
    BY <1>5 DEF Records, T!Ready
  <2> QED BY <2>1, <2>2, LocalFrame
<1>6. CASE T!StartFails(g)
  <2>1. Local(g) /\ Keeps(g)
    BY <1>6, SupervisorMoves DEF T!StartFails, T!Running, T!Alive
  <2>2. T!Running(g) /\ [T!Current(g) EXCEPT !.error = TRUE].gen = g
    BY <1>6 DEF T!StartFails, T!Running, T!Alive, T!Current, T!NoStatus
  <2>3. Records(g)
    BY <1>6, <2>2, WritesRecord DEF T!StartFails
  <2> QED BY <2>1, <2>3, LocalFrame
<1>7. CASE T!LeaveLoop(g)
  <2>1. Local(g) /\ Keeps(g)
    BY <1>7, SupervisorMoves DEF T!LeaveLoop, T!Become, T!Running, T!Alive
  <2>2. Records(g)
    BY <1>7 DEF Records, T!LeaveLoop
  <2> QED BY <2>1, <2>2, LocalFrame
<1>8. CASE T!Terminate(g)
  <2>1. Local(g) /\ Keeps(g)
    BY <1>8, SupervisorMoves DEF T!Terminate, T!Kill, T!Become, T!Running, T!Alive
  <2>2. Records(g)
    BY <1>8 DEF Records, T!Terminate
  <2> QED BY <2>1, <2>2, LocalFrame
<1>9. CASE T!TerminateAgain(g)
  <2>1. sup[g] = "killing" /\ \A h \in T!Launches : h # g => doomed'[h] = doomed[h]
    BY <1>0, <1>9 DEF T!TerminateAgain, T!Kill
  <2>2. Local(g)
    BY <1>9, <2>1 DEF Local, T!TerminateAgain
  <2>3. Keeps(g)
    BY <1>9, <2>1
    DEF Keeps, T!TerminateAgain, Unborn, T!TreeHolders, T!Retains, T!Running, T!Guarding
  <2>4. Records(g)
    BY <1>9 DEF Records, T!TerminateAgain
  <2> QED BY <2>2, <2>3, <2>4, LocalFrame
<1>10. CASE T!Reap(g)
  <2>1. Local(g) /\ Keeps(g)
    BY <1>10, SupervisorMoves DEF T!Reap, T!Become, T!Running, T!Alive
  <2>2. Records(g)
    BY <1>10 DEF Records, T!Reap
  <2> QED BY <2>1, <2>2, LocalFrame
<1>11. CASE T!RecordEnd(g)
  <2>1. Local(g) /\ Keeps(g)
    BY <1>11, SupervisorMoves DEF T!RecordEnd, T!Become, T!Running, T!Alive
  <2>2. T!Running(g)
    BY <1>11 DEF T!RecordEnd, T!Become, T!Running, T!Alive
  <2>3. Records(g)
    BY <1>11, <2>2, WritesRecord DEF T!RecordEnd
  <2> QED BY <2>1, <2>3, LocalFrame
<1>12. CASE T!ReleaseResources(g)
  <2>1. Local(g) /\ Keeps(g)
    BY <1>12, SupervisorMoves DEF T!ReleaseResources, T!Become, T!Running, T!Alive
  <2>2. Records(g)
    BY <1>12 DEF Records, T!ReleaseResources
  <2> QED BY <2>1, <2>2, LocalFrame
<1>13. CASE T!ReleaseTree(g)
  <2>1. Local(g) /\ Keeps(g)
    BY <1>13, SupervisorMoves DEF T!ReleaseTree, T!Become, T!Running, T!Alive
  <2>2. Records(g)
    BY <1>13 DEF Records, T!ReleaseTree
  <2> QED BY <2>1, <2>2, LocalFrame
<1>14. CASE T!SupervisorDies(g)
  <2>1. Local(g) /\ Keeps(g)
    BY <1>14, SupervisorMoves DEF T!SupervisorDies
  <2>2. Records(g)
    BY <1>14 DEF Records, T!SupervisorDies
  <2> QED BY <2>1, <2>2, LocalFrame
<1> QED BY <1>1, <1>2, <1>3, <1>4, <1>5, <1>6, <1>7, <1>8, <1>9, <1>10, <1>11, <1>12, <1>13,
           <1>14 DEF T!SupervisorStep

\* A guardian that goes from one station to the next; it may kill on the way.
LEMMA GuardianMoves ==
  ASSUME TInv, NEW g \in T!Launches, NEW station \in T!Watching \cup {"closing", "gone"},
         T!Guarding(g), kin[g] = "closing" => station \in {"closing", "gone"},
         kin' = [kin EXCEPT ![g] = station],
         UNCHANGED <<cmd, of, sup, kids, named, status, told>>,
         doomed' = doomed \/ \E s : doomed' = [doomed EXCEPT ![g] = s]
  PROVE  Frame /\ Local(g)
<1> USE ActorTypes
<1>0. T!TypeOK /\ Unborn(g)
  BY DEF TInv, Tree
<1>1. /\ kin'[g] = station /\ \A h \in T!Launches : h # g => kin'[h] = kin[h]
      /\ \A h \in T!Launches : h # g => doomed'[h] = doomed[h]
  BY <1>0
<1>2. Local(g)
  BY <1>1 DEF Local
<1>3. sup[g] # "none"
  BY <1>0 DEF Unborn, T!Guarding
<1>4. kin[g] \in T!Watching \/ kin[g] = "closing"
  BY <1>0 DEF T!Guarding
<1>5. T!TreeHolders(g)' => T!TreeHolders(g)
  BY DEF T!TreeHolders
<1>6. T!Retains(g)' => T!Retains(g)
  BY <1>1, <1>4 DEF T!Retains, T!Running, T!Watching
<1>7. Keeps(g)
  BY <1>3, <1>5, <1>6 DEF Keeps, Unborn
<1>8. Records(g)
  BY DEF Records
<1> QED BY <1>2, <1>7, <1>8, LocalFrame

LEMMA GuardianFrame ==
  ASSUME T!Assumptions, TInv, NEW g \in T!Launches, T!GuardianStep(g) \/ T!GuardianDies(g)
  PROVE  Frame /\ Local(g)
<1> USE ActorTypes
<1>0. T!TypeOK
  BY DEF TInv
<1>1. CASE T!GuardianWakes(g)
  BY <1>1, GuardianMoves DEF T!GuardianWakes, T!Turn, T!Guarding, T!Watching
<1>2. CASE T!GuardianKills(g)
  BY <1>2, GuardianMoves DEF T!GuardianKills, T!Turn, T!Kill, T!Guarding, T!Watching
<1>3. CASE T!GuardianKillsAgain(g)
  <2>1. kin' = [kin EXCEPT ![g] = "kill"] /\ kin[g] = "kill"
    BY <1>0, <1>3 DEF T!GuardianKillsAgain
  <2> QED BY <1>3, <2>1, GuardianMoves DEF T!GuardianKillsAgain, T!Kill, T!Guarding, T!Watching
<1>4. CASE T!GuardianWaits(g)
  BY <1>4, GuardianMoves DEF T!GuardianWaits, T!Turn, T!Guarding, T!Watching
<1>5. CASE T!GuardianReleases(g)
  BY <1>5, GuardianMoves DEF T!GuardianReleases, T!Turn, T!Guarding, T!Watching
<1>6. CASE T!GuardianEnds(g)
  BY <1>6, GuardianMoves DEF T!GuardianEnds, T!Turn, T!Guarding, T!Watching
<1>7. CASE T!GuardianDies(g)
  BY <1>7, GuardianMoves DEF T!GuardianDies
<1> QED BY <1>1, <1>2, <1>3, <1>4, <1>5, <1>6, <1>7 DEF T!GuardianStep

\* The services and a scan of them: whoever starts somebody holds the tree already.
LEMMA ServiceFrame ==
  ASSUME T!Assumptions, TInv, NEW g \in T!Launches,
         T!Fork(g) \/ T!Leave(g) \/ T!Die(g) \/ T!Relist(g)
  PROVE  Frame /\ Local(g)
<1> USE ActorTypes
<1>0. T!TypeOK /\ Unborn(g)
  BY DEF TInv, Tree
<1>1. /\ UNCHANGED <<cmd, of, sup, kin, doomed, named, status, told>>
      /\ \A h \in T!Launches : h # g => kids'[h] = kids[h]
      /\ kids'[g] # {} => kids[g] # {}
  <2>1. CASE T!Fork(g)
    BY <1>0, <2>1 DEF T!Fork
  <2>2. CASE T!Leave(g)
    BY <1>0, <2>2 DEF T!Leave
  <2>3. CASE T!Die(g)
    BY <1>0, <2>3 DEF T!Die
  <2>4. CASE T!Relist(g)
    BY <2>4 DEF T!Relist
  <2> QED BY <2>1, <2>2, <2>3, <2>4
<1>2. Local(g)
  BY <1>1 DEF Local
<1>3. Unborn(g)'
  BY <1>0, <1>1 DEF Unborn
<1>4. Keeps(g)
  BY <1>1, <1>3 DEF Keeps, T!TreeHolders, T!Retains, T!Running, T!Guarding
<1>5. Records(g)
  BY <1>1 DEF Records
<1> QED BY <1>2, <1>4, <1>5, LocalFrame

\* A down that kills every holder of the tree it is about.
LEMMA ForceFrame ==
  ASSUME T!Assumptions, TInv, NEW c \in Commands, T!ForceKill(c)
  PROVE  Frame /\ Local(cmd[c].g)
<1> USE ActorTypes
<1>1. cmd[c].g \in T!Launches
  BY DEF TInv, Tree, Subject, T!ForceKill
<1>2. PICK g \in T!Launches : g = cmd[c].g
  BY <1>1
<1>3. T!TypeOK /\ Unborn(g)
  BY DEF TInv, Tree
<1>4. /\ UNCHANGED <<cmd, of, kids, named, status, told>>
      /\ sup' = [sup EXCEPT ![g] = IF T!Running(g) THEN "gone" ELSE sup[g]]
      /\ kin' = [kin EXCEPT ![g] = IF T!Guarding(g) THEN "gone" ELSE kin[g]]
      /\ doomed' = [doomed EXCEPT ![g] = doomed[g] \cup kids[g]]
      /\ T!TreeHolders(g)
  BY <1>2 DEF T!ForceKill
<1>5. \A h \in T!Launches : h # g => sup'[h] = sup[h] /\ kin'[h] = kin[h] /\ doomed'[h] = doomed[h]
  BY <1>3, <1>4
<1>6. Local(g)
  BY <1>4, <1>5 DEF Local
<1>7. sup'[g] = (IF T!Running(g) THEN "gone" ELSE sup[g])
      /\ kin'[g] = (IF T!Guarding(g) THEN "gone" ELSE kin[g])
  BY <1>3, <1>4
<1>8. sup[g] # "none"
  BY <1>3, <1>4 DEF Unborn, T!TreeHolders, T!Running, T!Guarding, T!Alive
<1>9. T!Retains(g)' => T!Retains(g)
  <2>1. ~ T!Running(g)'
    BY <1>7 DEF T!Running, T!Alive
  <2>2. kin'[g] \notin T!Watching
    BY <1>7 DEF T!Guarding, T!Watching
  <2> QED BY <2>1, <2>2 DEF T!Retains
<1>10. Keeps(g)
  BY <1>4, <1>7, <1>8, <1>9 DEF Keeps, Unborn
<1>11. Records(g)
  BY <1>4 DEF Records
<1> QED BY <1>2, <1>6, <1>10, <1>11, LocalFrame

\* What the processes of a launch do keeps the invariant; so does a kill from outside.
LEMMA ProcessesKeep ==
  ASSUME T!Assumptions, TInv,
         \/ \E g \in T!Launches :
              \/ T!SupervisorStep(g) \/ T!SupervisorDies(g)
              \/ T!GuardianStep(g) \/ T!GuardianDies(g)
              \/ T!Relist(g) \/ T!Fork(g) \/ T!Leave(g) \/ T!Die(g)
         \/ \E c \in Commands : T!ForceKill(c)
  PROVE  Tree' /\ Ports' /\ States'
<1>1. Frame
  BY SupervisorFrame, GuardianFrame, ServiceFrame, ForceFrame
<1> QED BY <1>1, FrameKeeps

-----------------------------------------------------------------------------
(* A step of a command *)

\* What a command may do to the generations and to the records.
OfMoves(c) == \A g \in T!Launches : of'[g] = of[g] \/ g \in T!Fresh
SupMoves(c) ==
  \A g \in T!Launches :
    \/ sup'[g] = sup[g]
    \/ cmd[c].at = "bound" /\ g = cmd[c].g /\ sup'[g] = "boot"
ToldMoves(c) ==
  \A g \in T!Launches :
    \/ told'[g] = told[g]
    \/ cmd[c].at \in {"asked", "forcing"} /\ g = cmd[c].g /\ ~ T!TreeHolders(g)
LeaseMoves(c) ==
  \A t \in Topologies :
    \/ named'[t] = named[t]
    \/ cmd[c].at = "retired" /\ t = cmd[c].t /\ named'[t] = cmd[c].g
    \/ cmd[c].at = "unwinding" /\ t = cmd[c].t /\ named'[t] = cmd[c].restart
StatusMoves(c) ==
  \A t \in Topologies :
    \/ status'[t].gen = status[t].gen
    \/ cmd[c].at = "stated" /\ t = cmd[c].t /\ status'[t].gen = T!NoLaunch
    \/ cmd[c].at = "rebound" /\ t = cmd[c].t /\ status'[t].gen = cmd[c].restart

\* A command stays with its topology or takes one that nobody operates on, and takes a fresh
\* generation or one that the lease of that topology names.
TakesUp(c) ==
  /\ \A d \in Commands : d # c => cmd'[d] = cmd[d]
  /\ cmd'[c].at # "idle" =>
       (cmd[c].at # "idle" /\ cmd'[c].t = cmd[c].t) \/ ~ T!Operating(cmd'[c].t)
  /\ \/ cmd'[c].g \in {cmd[c].g, T!NoLaunch} \cup T!Fresh
     \/ \E t \in Topologies : ~ T!Operating(t) /\ cmd'[c].g = named[t]
  /\ UNCHANGED <<kin, kids, doomed>>

Lawful(c) ==
  /\ TakesUp(c) /\ OfMoves(c) /\ SupMoves(c) /\ ToldMoves(c) /\ LeaseMoves(c) /\ StatusMoves(c)

Own(c) == Young(c) /\ Subject(c) /\ Back(c) /\ Fenced(c) /\ Blank(c)

\* Who comes to hold a tree by the step of a command is the generation that it launches.
LEMMA NewHolder ==
  ASSUME NEW c \in Commands, TakesUp(c), SupMoves(c), NEW g \in T!Launches, T!TreeHolders(g)'
  PROVE  T!TreeHolders(g) \/ (cmd[c].at = "bound" /\ g = cmd[c].g)
<1>1. CASE sup'[g] = sup[g]
  BY <1>1 DEF T!TreeHolders, T!Running, T!Guarding, TakesUp
<1>2. CASE cmd[c].at = "bound" /\ g = cmd[c].g
  BY <1>2
<1> QED BY <1>1, <1>2 DEF SupMoves

\* A fresh generation has no process.
LEMMA FreshIsEmpty ==
  ASSUME Tree, NEW g \in T!Fresh
  PROVE  ~ T!TreeHolders(g) /\ ~ T!Retains(g)
<1>1. g \in T!Launches /\ sup[g] = "none" /\ Unborn(g)
  BY FreshIs DEF Tree
<1> QED BY <1>1 DEF Unborn, T!TreeHolders, T!Retains, T!Running, T!Guarding, T!Alive, T!Watching

LEMMA OthersKeepYoung ==
  ASSUME T!Assumptions, T!TypeOK, Tree, NEW c \in Commands, Lawful(c), NEW d \in Commands, d # c
  PROVE  Young(d)'
<1> SUFFICES ASSUME cmd[d].at \in T!Preparing
             PROVE  Young(d)'
  BY DEF Young, Lawful, TakesUp
<1>1. PICK g \in T!Launches : g = cmd[d].g
  BY DEF Tree, Young
<1>2. cmd'[d] = cmd[d] /\ cmd[d].at # "idle"
  BY DEF Lawful, TakesUp, T!Preparing
<1>3. /\ of[g] = cmd[d].t /\ sup[g] = "none" /\ told[g] = "nothing"
      /\ \A t \in Topologies : named[t] = g => t = cmd[d].t /\ cmd[d].at = "bound"
      /\ \A e \in Commands : e # d => cmd[e].g # g
      /\ cmd[d].at = "bound" => named[cmd[d].t] = g
  BY <1>1 DEF Tree, Young
<1>4. g \notin T!Fresh /\ cmd[c].g # g /\ g # T!NoLaunch
  BY <1>1, <1>3, LaunchesAre DEF T!Fresh
<1>5. of'[g] = of[g] /\ sup'[g] = sup[g] /\ told'[g] = told[g]
  BY <1>4 DEF Lawful, OfMoves, SupMoves, ToldMoves
<1>6. cmd[c].at = "unwinding" => sup[cmd[c].restart] # "none"
  BY DEF Tree, Back, T!Restoring
<1>7. ASSUME NEW t \in Topologies, named'[t] = g
      PROVE  named[t] = g
  BY <1>3, <1>4, <1>6, <1>7 DEF Lawful, LeaseMoves
<1>8. cmd[d].t \in Topologies
  BY DEF T!TypeOK
<1>9. cmd[d].at = "bound" => named'[cmd[d].t] = named[cmd[d].t]
  <2>1. cmd[c].at # "idle" => cmd[c].t # cmd[d].t
    BY <1>2 DEF Tree, Alone
  <2> QED BY <1>8, <2>1 DEF Lawful, LeaseMoves
<1>10. cmd'[c].g # g
  <2>1. CASE cmd'[c].g \in {cmd[c].g, T!NoLaunch} \cup T!Fresh
    BY <1>4, <2>1
  <2>2. CASE \E t \in Topologies : ~ T!Operating(t) /\ cmd'[c].g = named[t]
    BY <1>2, <1>3, <2>2 DEF T!Operating
  <2> QED BY <2>1, <2>2 DEF Lawful, TakesUp
<1>11. \A e \in Commands : e # d => cmd'[e].g # g
  BY <1>3, <1>10 DEF Lawful, TakesUp
<1> QED BY <1>1, <1>2, <1>3, <1>5, <1>7, <1>9, <1>11 DEF Young

LEMMA OthersKeep ==
  ASSUME T!Assumptions, T!TypeOK, Tree, NEW c \in Commands, Lawful(c), NEW d \in Commands, d # c
  PROVE  Own(d)'
<1>1. cmd'[d] = cmd[d] /\ cmd[d] \in CmdKind
  BY DEF Lawful, TakesUp, T!TypeOK, CmdKind
<1>2. cmd[d].at # "idle" /\ cmd[c].at # "idle" => cmd[c].t # cmd[d].t
  BY DEF Tree, Alone
<1>3. cmd[d].t \in Topologies /\ cmd[d].g \in 0..MaxLaunch /\ cmd[d].restart \in 0..MaxLaunch
  BY <1>1 DEF CmdKind
<1>4. Own(d)
  BY DEF Tree, Own
<1>5. Young(d)'
  BY OthersKeepYoung
<1>6. Subject(d)'
  <2>1. cmd[d].g \notin T!Fresh
    BY DEF T!Fresh
  <2> QED BY <1>1, <1>4, <2>1 DEF Own, Subject, Lawful, OfMoves
<1>7. Back(d)'
  <2>1. cmd[d].at # "idle" /\ cmd[d].restart # T!NoLaunch =>
          of'[cmd[d].restart] = cmd[d].t /\ sup'[cmd[d].restart] # "none"
    <3> SUFFICES ASSUME cmd[d].at # "idle" /\ cmd[d].restart # T!NoLaunch
                 PROVE  of'[cmd[d].restart] = cmd[d].t /\ sup'[cmd[d].restart] # "none"
      OBVIOUS
    <3>1. cmd[d].restart \in T!Launches /\ of[cmd[d].restart] = cmd[d].t
          /\ sup[cmd[d].restart] # "none"
      BY <1>3, <1>4, LaunchesAre DEF Own, Back
    <3>2. cmd[d].restart \notin T!Fresh
      BY <3>1 DEF T!Fresh
    <3> QED BY <3>1, <3>2 DEF Lawful, OfMoves, SupMoves
  <2>2. cmd[d].at = "rebound" => named'[cmd[d].t] = named[cmd[d].t]
    BY <1>2, <1>3 DEF Lawful, LeaseMoves
  <2> QED BY <1>1, <1>4, <2>1, <2>2 DEF Own, Back
<1>8. Fenced(d)'
  <2> SUFFICES ASSUME cmd[d].at \in Owning, NEW g \in T!Launches, of'[g] = cmd[d].t
               PROVE  ~ T!TreeHolders(g)'
    BY <1>1 DEF Fenced
  <2>1. cmd[d].at # "idle"
    BY DEF Owning, T!Preparing, T!Restoring
  <2>2. ~ T!TreeHolders(g)
    BY <1>4, FreshIsEmpty DEF Own, Fenced, Lawful, OfMoves
  <2>3. cmd[c].at = "bound" => g # cmd[c].g
    <3>1. cmd[c].at = "bound" => of[cmd[c].g] = cmd[c].t /\ cmd[c].g \notin T!Fresh
      BY DEF Tree, Young, T!Preparing, T!Fresh
    <3> QED BY <1>2, <2>1, <3>1 DEF Lawful, OfMoves
  <2> QED BY <2>2, <2>3, NewHolder DEF Lawful
<1>9. Blank(d)'
  <2>1. cmd[d].at \in Emptied => cmd[d].at # "idle"
    BY DEF Emptied, T!Restoring
  <2> QED BY <1>1, <1>2, <1>3, <1>4, <2>1 DEF Own, Blank, Lawful, StatusMoves
<1> QED BY <1>5, <1>6, <1>7, <1>8, <1>9 DEF Own

\* What remains to be shown of each step: that it is lawful, and what it is to the command itself.
LEMMA LawfulKeeps ==
  ASSUME T!Assumptions, T!TypeOK, Tree, NEW c \in Commands, Lawful(c), Own(c)'
  PROVE  Tree'
<1>1. \A d \in Commands : Own(d)'
  BY OthersKeep
<1>2. Alone'
  <2> SUFFICES ASSUME NEW d \in Commands, NEW e \in Commands, d # e,
                      cmd'[d].at # "idle", cmd'[e].at # "idle", cmd'[d].t = cmd'[e].t
               PROVE  FALSE
    BY DEF Alone
  <2>1. ASSUME NEW b \in Commands, b # c, cmd'[c].at # "idle", cmd[b].at # "idle",
               cmd'[c].t = cmd[b].t
        PROVE  FALSE
    BY <2>1 DEF Tree, Alone, Lawful, TakesUp, T!Operating
  <2>2. CASE d = c
    BY <2>1, <2>2 DEF Lawful, TakesUp
  <2>3. CASE e = c
    BY <2>1, <2>3 DEF Lawful, TakesUp
  <2>4. CASE d # c /\ e # c
    BY <2>4 DEF Tree, Alone, Lawful, TakesUp
  <2> QED BY <2>2, <2>3, <2>4
<1>3. ASSUME NEW g \in T!Launches
      PROVE  Named(g)' /\ Unborn(g)' /\ Gone(g)'
  <2>1. Named(g) /\ Unborn(g) /\ Gone(g)
    BY DEF Tree
  <2>2. g \in T!Fresh => ~ T!TreeHolders(g) /\ sup[g] = "none" /\ g # cmd[c].g
    BY FreshIsEmpty, FreshIs
  <2>3. T!TreeHolders(g)' => T!TreeHolders(g) \/ (cmd[c].at = "bound" /\ g = cmd[c].g)
    BY NewHolder DEF Lawful
  <2>4. cmd[c].at = "bound" =>
          /\ of[cmd[c].g] = cmd[c].t /\ told[cmd[c].g] = "nothing"
          /\ named[cmd[c].t] = cmd[c].g
    BY DEF Tree, Young, T!Preparing
  <2>5. ASSUME T!TreeHolders(g)'
        PROVE  of'[g] = of[g] /\ named[of[g]] = g /\ named'[of[g]] = g
    <3>1. of'[g] = of[g] /\ named[of[g]] = g
      BY <2>1, <2>2, <2>3, <2>4, <2>5 DEF Named, Lawful, OfMoves
    <3>2. cmd[c].at \in {"retired", "unwinding"} => of[g] # cmd[c].t
      BY <2>3, <2>5 DEF Tree, Fenced, Owning, T!Preparing, T!Restoring
    <3>3. of[g] \in Topologies
      BY DEF T!TypeOK
    <3> QED BY <3>1, <3>2, <3>3 DEF Lawful, LeaseMoves
  <2>6. Named(g)'
    BY <2>5 DEF Named
  <2>7. Unborn(g)'
    BY <2>1 DEF Unborn, Lawful, SupMoves, TakesUp
  <2>8. Gone(g)'
    <3>1. CASE told'[g] = told[g]
      BY <2>1, <2>3, <2>4, <3>1 DEF Gone
    <3>2. CASE cmd[c].at \in {"asked", "forcing"} /\ ~ T!TreeHolders(g)
      BY <2>3, <3>2 DEF Gone
    <3> QED BY <3>1, <3>2 DEF Lawful, ToldMoves
  <2> QED BY <2>6, <2>7, <2>8
<1>4. ASSUME NEW t \in Topologies
      PROVE  BoundTo(t)'
  <2>1. BoundTo(t)
    BY DEF Tree
  <2>2. named[t] # T!NoLaunch => named[t] \in T!Launches /\ named[t] \notin T!Fresh
    BY LaunchesAre DEF T!TypeOK, T!Fresh
  <2>3. ASSUME NEW g \in T!Launches, sup[g] # "none"
        PROVE  sup'[g] # "none" /\ of'[g] = of[g]
    BY <2>3 DEF Lawful, SupMoves, OfMoves, T!Fresh
  <2>4. named'[t] # T!NoLaunch => of'[named'[t]] = t
    <3>1. CASE named'[t] = named[t]
      BY <2>1, <2>2, <3>1 DEF BoundTo, Lawful, OfMoves
    <3>2. CASE cmd[c].at = "retired" /\ t = cmd[c].t /\ named'[t] = cmd[c].g
      <4>1. cmd[c].g \in T!Launches /\ of[cmd[c].g] = t /\ cmd[c].g \notin T!Fresh
        BY <3>2 DEF Tree, Young, T!Preparing, T!Fresh
      <4> QED BY <3>2, <4>1 DEF Lawful, OfMoves
    <3>3. CASE cmd[c].at = "unwinding" /\ t = cmd[c].t /\ named'[t] = cmd[c].restart
      <4>1. cmd[c].restart \in 0..MaxLaunch
        BY DEF T!TypeOK
      <4>2. cmd[c].restart # T!NoLaunch /\ of[cmd[c].restart] = t /\ sup[cmd[c].restart] # "none"
        BY <3>3 DEF Tree, Back, T!Restoring
      <4> QED BY <2>3, <3>3, <4>1, <4>2, LaunchesAre
    <3> QED BY <3>1, <3>2, <3>3 DEF Lawful, LeaseMoves
  <2>5. ASSUME status'[t].gen # T!NoLaunch
        PROVE  named'[t] = status'[t].gen /\ sup'[named'[t]] # "none"
    <3>1. CASE status'[t].gen = status[t].gen
      <4>1. cmd[c].at \in {"retired", "unwinding"} => t # cmd[c].t
        BY <2>5, <3>1 DEF Tree, Blank, Emptied, T!Restoring
      <4>2. named'[t] = named[t]
        BY <4>1 DEF Lawful, LeaseMoves
      <4> QED BY <2>1, <2>2, <2>3, <2>5, <3>1, <4>2 DEF BoundTo
    <3>2. CASE cmd[c].at = "rebound" /\ t = cmd[c].t /\ status'[t].gen = cmd[c].restart
      <4>1. cmd[c].restart \in 0..MaxLaunch /\ named[t] = cmd[c].restart
        BY <3>2 DEF T!TypeOK, Tree, Back
      <4>2. named'[t] = named[t]
        BY <3>2 DEF Lawful, LeaseMoves
      <4>3. sup[cmd[c].restart] # "none"
        BY <2>5, <3>2 DEF Tree, Back
      <4> QED BY <2>2, <2>3, <2>5, <3>2, <4>1, <4>2, <4>3
    <3> QED BY <2>5, <3>1, <3>2 DEF Lawful, StatusMoves
  <2> QED BY <2>4, <2>5 DEF BoundTo
<1> QED BY <1>1, <1>2, <1>3, <1>4 DEF Tree, Own

\* Steps that change nothing but the commands.
LEMMA QuietIsLawful ==
  ASSUME NEW c \in Commands, TakesUp(c), UNCHANGED <<of, sup, named, status, told>>
  PROVE  Lawful(c)
BY DEF Lawful, OfMoves, SupMoves, ToldMoves, LeaseMoves, StatusMoves

LEMMA GoesTakes ==
  ASSUME NEW c \in Commands, NEW station \in T!Stations, Went(c, station),
         cmd[c].at # "idle", UNCHANGED <<kin, kids, doomed>>
  PROVE  TakesUp(c)
BY DEF TakesUp, Went

\* A command that ends claims nothing.
LEMMA CommandEnds ==
  ASSUME T!Assumptions, T!TypeOK, NEW c \in Commands, cmd[c].at # "idle",
         cmd' = [cmd EXCEPT ![c] = T!Idle], UNCHANGED <<kin, kids, doomed>>
  PROVE  TakesUp(c) /\ Own(c)' /\ Became(c, T!Idle) /\ cmd'[c].at = "idle"
<1>1. Became(c, T!Idle)
  BY IdleIs, Becomes
<1>2. cmd'[c].at = "idle" /\ cmd'[c].g = T!NoLaunch
  BY <1>1, IdleIs DEF Became, T!NoLaunch
<1>3. TakesUp(c)
  BY <1>1, <1>2 DEF TakesUp, Became
<1>4. Own(c)'
  BY <1>2 DEF Own, Young, Subject, Back, Fenced, Blank, T!Preparing, T!Restoring, Owning, Emptied
<1> QED BY <1>1, <1>2, <1>3, <1>4

\* A command that prepares and goes on preparing, with its records as they are.
LEMMA PreparingGoesOn ==
  ASSUME T!TypeOK, Tree, NEW c \in Commands, NEW station \in T!Preparing \ {"opened", "bound"},
         Went(c, station), cmd[c].at \in T!Preparing \ {"bound"},
         UNCHANGED <<of, sup, kin, kids, doomed, named, told>>,
         cmd[c].at = "opened" => ~ T!TreeLocked(cmd[c].t),
         station \in Emptied => status'[cmd[c].t].gen = T!NoLaunch
  PROVE  Own(c)'
<1>1. Own(c) /\ cmd[c].at # "idle"
  BY DEF Tree, Own, T!Preparing
<1>2. /\ station \in T!Preparing /\ station # "bound"
      /\ station \notin T!Restoring \cup {"asked", "forcing"}
  BY DEF T!Preparing, T!Restoring
<1>3. Young(c)'
  BY <1>1, <1>2 DEF Own, Young, Went
<1>4. Subject(c)' /\ Back(c)'
  BY <1>1, <1>2 DEF Own, Subject, Back, Went, T!Restoring
<1>5. Fenced(c)'
  <2>1. \A g \in T!Launches : of[g] = cmd[c].t => ~ T!TreeHolders(g)
    BY <1>1 DEF Own, Fenced, T!TreeLocked, Owning
  <2> QED BY <2>1 DEF Fenced, Went, T!TreeHolders, T!Running, T!Guarding
<1>6. Blank(c)'
  BY DEF Blank, Went
<1> QED BY <1>3, <1>4, <1>5, <1>6 DEF Own

LEMMA PreparingTree ==
  ASSUME T!Assumptions, TInv, NEW c \in Commands,
         T!UpLockTree(c) \/ T!PortLook(c) \/ T!PortCreate(c) \/ T!StateLock(c) \/ T!Retire(c)
  PROVE  Tree'
<1>1. T!TypeOK /\ Tree
  BY DEF TInv
<1>2. PICK station \in T!Preparing \ {"opened", "bound"} : cmd' = [cmd EXCEPT ![c].at = station]
  BY DEF T!UpLockTree, T!PortLook, T!PortCreate, T!StateLock, T!Retire, T!Move, T!Preparing
<1>3. /\ cmd[c].at \in T!Preparing \ {"bound"} /\ cmd[c].at # "idle"
      /\ UNCHANGED <<of, sup, kin, kids, doomed, named, told>>
      /\ cmd[c].at = "opened" => ~ T!TreeLocked(cmd[c].t)
  BY DEF T!UpLockTree, T!PortLook, T!PortCreate, T!StateLock, T!Retire, T!Move, T!Preparing,
         T!actors
<1>4. Went(c, station) /\ station \in T!Stations
  BY <1>1, <1>2, Goes DEF T!Stations
<1>5. TakesUp(c)
  BY <1>3, <1>4, GoesTakes
<1>6. /\ StatusMoves(c)
      /\ station \in Emptied => status'[cmd[c].t].gen = T!NoLaunch
  <2>1. CASE T!Retire(c)
    <3>1. cmd[c].at = "stated" /\ cmd[c].t \in Topologies
          /\ status' = [status EXCEPT ![cmd[c].t] = T!NoStatus]
          /\ DOMAIN status = Topologies
      BY <1>1, <2>1 DEF T!Retire, T!Move, T!TypeOK
    <3> QED BY <3>1 DEF StatusMoves, T!NoStatus
  <2>2. CASE ~ T!Retire(c)
    <3>1. UNCHANGED status /\ cmd[c].at \notin {"stated", "retired"}
      BY <2>2 DEF T!UpLockTree, T!PortLook, T!PortCreate, T!StateLock, T!Move
    <3>2. cmd'[c].at \in {"locked", "free", "reserved", "stated"}
      BY <1>1, <2>2 DEF T!UpLockTree, T!PortLook, T!PortCreate, T!StateLock, T!Move, T!TypeOK
    <3> QED BY <1>4, <3>1, <3>2 DEF StatusMoves, Emptied, T!Restoring, Went
  <2> QED BY <2>1, <2>2
<1>7. Lawful(c)
  BY <1>3, <1>5, <1>6 DEF Lawful, OfMoves, SupMoves, ToldMoves, LeaseMoves
<1>8. Own(c)'
  BY <1>1, <1>3, <1>4, <1>6, PreparingGoesOn
<1> QED BY <1>1, <1>7, <1>8, LawfulKeeps

\* The next generation, of a command that begins to prepare it.
LEMMA Opens ==
  ASSUME T!Assumptions, T!TypeOK, Tree, NEW c \in Commands, NEW r \in CmdKind,
         cmd' = [cmd EXCEPT ![c] = r], r.at = "opened", r.g = T!Next1, T!Fresh # {},
         of' = [of EXCEPT ![T!Next1] = r.t],
         UNCHANGED <<sup, kin, kids, doomed, named, status>>,
         (cmd[c].at # "idle" /\ r.t = cmd[c].t) \/ ~ T!Operating(r.t),
         ToldMoves(c), cmd[c].g # T!Next1,
         r.restart # T!NoLaunch => of[r.restart] = r.t /\ sup[r.restart] # "none"
  PROVE  Tree'
<1>1. PICK g \in T!Fresh : g = T!Next1
  BY NextIsFresh
<1>2. /\ g \in T!Launches /\ sup[g] = "none" /\ told[g] = "nothing"
      /\ \A d \in Commands : cmd[d].g # g
      /\ \A t \in Topologies : named[t] # g
  BY FreshIs
<1>3. Became(c, r)
  BY Becomes
<1>4. of'[g] = r.t /\ \A h \in T!Launches : h # g => of'[h] = of[h]
  BY <1>1, <1>2 DEF T!TypeOK
<1>5. TakesUp(c)
  BY <1>1, <1>3 DEF TakesUp, Became
<1>6. Lawful(c)
  BY <1>1, <1>4, <1>5 DEF Lawful, OfMoves, SupMoves, LeaseMoves, StatusMoves
<1>7. told'[g] = "nothing"
  BY <1>2 DEF ToldMoves
<1>8. Young(c)'
  BY <1>1, <1>2, <1>3, <1>4, <1>7 DEF Young, Became
<1>9. Back(c)'
  <2>1. r.restart # T!NoLaunch => of'[r.restart] = r.t /\ sup'[r.restart] # "none"
    <3> SUFFICES ASSUME r.restart # T!NoLaunch
                 PROVE  of'[r.restart] = r.t /\ sup'[r.restart] # "none"
      OBVIOUS
    <3>1. r.restart \in T!Launches
      BY LaunchesAre DEF CmdKind
    <3> QED BY <1>2, <1>4, <3>1
  <2> QED BY <1>3, <2>1 DEF Back, Became, T!Restoring
<1>10. Subject(c)' /\ Fenced(c)' /\ Blank(c)'
  BY <1>3 DEF Became, Subject, Fenced, Blank, Owning, Emptied, T!Restoring
<1> QED BY <1>6, <1>8, <1>9, <1>10, LawfulKeeps DEF Own

LEMMA UpOpenTree ==
  ASSUME T!Assumptions, TInv, NEW c \in Commands, NEW t \in Topologies, T!UpOpen(c, t)
  PROVE  Tree'
<1> DEFINE r == [T!Idle EXCEPT !.at = "opened", !.t = t, !.g = T!Next1]
<1>1. T!TypeOK /\ Tree
  BY DEF TInv
<1>2. T!Next1 \in T!Launches /\ T!Fresh # {} /\ cmd[c].g # T!Next1
  BY NextIsFresh, FreshIs DEF T!UpOpen
<1>3. T!Next1 \in 0..MaxLaunch
  BY <1>2, LaunchesAre
<1>4. r \in CmdKind /\ r.at = "opened" /\ r.g = T!Next1 /\ r.t = t /\ r.restart = T!NoLaunch
  BY <1>3, IdleIs DEF CmdKind, T!Stations, T!Preparing, T!NoLaunch
<1>5. cmd' = [cmd EXCEPT ![c] = r]
  BY DEF T!UpOpen
<1> HIDE DEF r
<1>6. ToldMoves(c)
  BY DEF T!UpOpen, ToldMoves
<1> QED BY <1>1, <1>2, <1>4, <1>5, <1>6, Opens DEF T!UpOpen, T!actors

LEMMA BindTree ==
  ASSUME T!Assumptions, TInv, NEW c \in Commands, T!BindLease(c)
  PROVE  Tree'
<1>1. T!TypeOK /\ Tree /\ Own(c)
  BY DEF TInv, Tree, Own
<1>2. Went(c, "bound") /\ cmd[c].at = "retired" /\ UNCHANGED <<of, T!actors, status, told>>
  BY <1>1, Goes DEF T!BindLease, T!Move, T!Stations, T!Preparing
<1>3. cmd[c].t \in Topologies /\ named' = [named EXCEPT ![cmd[c].t] = cmd[c].g]
      /\ DOMAIN named = Topologies
  BY <1>1 DEF T!BindLease, T!TypeOK
<1>4. named'[cmd[c].t] = cmd[c].g /\ \A t \in Topologies : t # cmd[c].t => named'[t] = named[t]
  BY <1>3
<1>5. TakesUp(c)
  BY <1>2, GoesTakes DEF T!Stations, T!Preparing, T!actors
<1>6. Lawful(c)
  BY <1>2, <1>4, <1>5
  DEF Lawful, OfMoves, SupMoves, ToldMoves, LeaseMoves, StatusMoves, T!actors
<1>7. Young(c)'
  BY <1>1, <1>2, <1>4 DEF Own, Young, Went, T!Preparing, T!actors
<1>8. Subject(c)' /\ Back(c)'
  BY <1>1, <1>2 DEF Own, Subject, Back, Went, T!Restoring, T!actors
<1>9. Fenced(c)' /\ Blank(c)'
  BY <1>1, <1>2
  DEF Own, Fenced, Blank, Went, Owning, Emptied, T!Preparing, T!Restoring, T!TreeHolders, T!Running,
      T!Guarding, T!actors
<1> QED BY <1>1, <1>6, <1>7, <1>8, <1>9, LawfulKeeps DEF Own

LEMMA LaunchTree ==
  ASSUME T!Assumptions, TInv, NEW c \in Commands, T!Launch(c)
  PROVE  Tree'
<1>1. T!TypeOK /\ Tree /\ Own(c)
  BY DEF TInv, Tree, Own
<1>2. Went(c, "waiting") /\ cmd[c].at = "bound"
      /\ UNCHANGED <<of, kin, kids, doomed, named, status, told>>
  BY <1>1, Goes DEF T!Launch, T!Move, T!Stations
<1>3. cmd[c].g \in T!Launches /\ sup' = [sup EXCEPT ![cmd[c].g] = "boot"]
  BY <1>1, <1>2 DEF T!Launch, Own, Young, T!Preparing
<1>4. sup'[cmd[c].g] = "boot" /\ \A g \in T!Launches : g # cmd[c].g => sup'[g] = sup[g]
  BY <1>1, <1>3 DEF T!TypeOK
<1>5. TakesUp(c)
  BY <1>2, GoesTakes DEF T!Stations
<1>6. Lawful(c)
  BY <1>2, <1>4, <1>5 DEF Lawful, OfMoves, SupMoves, ToldMoves, LeaseMoves, StatusMoves
<1>7. Young(c)' /\ Subject(c)' /\ Fenced(c)' /\ Blank(c)'
  BY <1>2 DEF Young, Subject, Fenced, Blank, Went, T!Preparing, T!Restoring, Owning, Emptied
<1>8. Back(c)'
  <2>1. cmd[c].restart # T!NoLaunch => cmd[c].restart \in T!Launches
    BY <1>1, LaunchesAre DEF T!TypeOK
  <2> QED BY <1>1, <1>2, <1>4, <2>1 DEF Own, Back, Went, T!Restoring
<1> QED BY <1>1, <1>6, <1>7, <1>8, LawfulKeeps DEF Own

\* Every way for a command to end that leaves the records alone.
LEMMA EndTree ==
  ASSUME T!Assumptions, TInv, NEW c \in Commands, cmd[c].at # "idle",
         cmd' = [cmd EXCEPT ![c] = T!Idle],
         UNCHANGED <<of, sup, kin, kids, doomed, named>>, ToldMoves(c), StatusMoves(c)
  PROVE  Tree'
<1>1. T!TypeOK /\ Tree
  BY DEF TInv
<1>2. TakesUp(c) /\ Own(c)'
  BY <1>1, CommandEnds
<1>3. Lawful(c)
  BY <1>2 DEF Lawful, OfMoves, SupMoves, LeaseMoves
<1> QED BY <1>1, <1>2, <1>3, LawfulKeeps

LEMMA FailTree ==
  ASSUME T!Assumptions, TInv, NEW c \in Commands, T!Fail(c)
  PROVE  Tree'
<1>1. T!TypeOK /\ Tree /\ Own(c)
  BY DEF TInv, Tree, Own
<1>2. /\ cmd[c].at \in T!Preparing /\ cmd[c].at # "idle"
      /\ UNCHANGED <<of, T!actors, named, status, told>>
  BY DEF T!Fail, T!Preparing
<1>3. CASE cmd[c].restart # T!NoLaunch /\ cmd[c].at \in {"retired", "bound"}
  <2>1. Went(c, "unwinding")
    BY <1>1, <1>3, Goes DEF T!Fail, T!Stations, T!Restoring
  <2>2. TakesUp(c)
    BY <1>2, <2>1, GoesTakes DEF T!Stations, T!Restoring, T!actors
  <2>3. Lawful(c)
    BY <1>2, <2>2, QuietIsLawful DEF T!actors
  <2>4. Young(c)' /\ Subject(c)' /\ Back(c)'
    BY <1>1, <1>2, <1>3, <2>1 DEF Own, Young, Subject, Back, Went, T!Preparing, T!Restoring,
                                  T!actors
  <2>5. Fenced(c)' /\ Blank(c)'
    BY <1>1, <1>2, <1>3, <2>1
    DEF Own, Fenced, Blank, Went, Owning, Emptied, T!Preparing, T!Restoring, T!TreeHolders,
        T!Running, T!Guarding, T!actors
  <2> QED BY <1>1, <2>3, <2>4, <2>5, LawfulKeeps DEF Own
<1>4. CASE ~ (cmd[c].restart # T!NoLaunch /\ cmd[c].at \in {"retired", "bound"})
  <2>1. ToldMoves(c) /\ StatusMoves(c)
    BY <1>2 DEF ToldMoves, StatusMoves
  <2> QED BY <1>2, <1>4, <2>1, EndTree DEF T!Fail, T!actors
<1> QED BY <1>3, <1>4

LEMMA RestoreLeaseTree ==
  ASSUME T!Assumptions, TInv, NEW c \in Commands, T!RestoreLease(c)
  PROVE  Tree'
<1>1. T!TypeOK /\ Tree /\ Own(c)
  BY DEF TInv, Tree, Own
<1>2. Went(c, "rebound") /\ cmd[c].at = "unwinding" /\ UNCHANGED <<of, T!actors, status, told>>
  BY <1>1, Goes DEF T!RestoreLease, T!Move, T!Stations, T!Restoring
<1>3. cmd[c].t \in Topologies /\ named' = [named EXCEPT ![cmd[c].t] = cmd[c].restart]
      /\ DOMAIN named = Topologies
  BY <1>1 DEF T!RestoreLease, T!TypeOK
<1>4. /\ named'[cmd[c].t] = cmd[c].restart
      /\ \A t \in Topologies : t # cmd[c].t => named'[t] = named[t]
  BY <1>3
<1>5. TakesUp(c)
  BY <1>2, GoesTakes DEF T!Stations, T!Restoring, T!actors
<1>6. Lawful(c)
  BY <1>2, <1>4, <1>5
  DEF Lawful, OfMoves, SupMoves, ToldMoves, LeaseMoves, StatusMoves, T!actors
<1>7. Young(c)' /\ Subject(c)'
  BY <1>2 DEF Young, Subject, Went, T!Preparing
<1>8. Back(c)'
  BY <1>1, <1>2, <1>4 DEF Own, Back, Went, T!Restoring, T!actors
<1>9. Fenced(c)' /\ Blank(c)'
  BY <1>1, <1>2
  DEF Own, Fenced, Blank, Went, Owning, Emptied, T!Preparing, T!Restoring, T!TreeHolders, T!Running,
      T!Guarding, T!actors
<1> QED BY <1>1, <1>6, <1>7, <1>8, <1>9, LawfulKeeps DEF Own

LEMMA RestoreStatusTree ==
  ASSUME T!Assumptions, TInv, NEW c \in Commands, T!RestoreStatus(c)
  PROVE  Tree'
<1> DEFINE back == [gen |-> cmd[c].restart, stopped |-> TRUE, requested |-> TRUE,
                    clean |-> TRUE, error |-> FALSE]
<1>1. /\ cmd[c].at = "rebound" /\ status' = [status EXCEPT ![cmd[c].t] = back]
      /\ DOMAIN status = Topologies
  BY DEF T!RestoreStatus, TInv, T!TypeOK
<1>2. back.gen = cmd[c].restart
  OBVIOUS
<1> HIDE DEF back
<1>3. StatusMoves(c)
  BY <1>1, <1>2 DEF StatusMoves
<1>4. ToldMoves(c)
  BY DEF T!RestoreStatus, ToldMoves
<1> QED BY <1>1, <1>3, <1>4, EndTree DEF T!RestoreStatus, T!actors

\* A command that begins to stop the generation which the lease of a topology names.
LEMMA StopBegins ==
  ASSUME T!Assumptions, T!TypeOK, Tree, NEW c \in Commands, NEW r \in CmdKind,
         cmd' = [cmd EXCEPT ![c] = r], r.at \in {"asked", "forcing"},
         ~ T!Operating(r.t), r.g = named[r.t], r.g # T!NoLaunch,
         r.restart # T!NoLaunch => r.restart = r.g /\ sup[r.g] # "none",
         UNCHANGED <<of, sup, kin, kids, doomed, named, status, told>>
  PROVE  Tree'
<1>1. Became(c, r) /\ r.t \in Topologies
  BY Becomes DEF CmdKind
<1>2. TakesUp(c)
  BY <1>1 DEF TakesUp, Became
<1>3. Lawful(c)
  BY <1>2, QuietIsLawful
<1>4. r.g \in T!Launches /\ of[r.g] = r.t
  BY <1>1, LaunchesAre DEF Tree, BoundTo, CmdKind
<1>5. Subject(c)' /\ Back(c)'
  BY <1>1, <1>4 DEF Subject, Back, Became, T!Restoring
<1>6. Young(c)' /\ Fenced(c)' /\ Blank(c)'
  BY <1>1 DEF Young, Fenced, Blank, Became, T!Preparing, Owning, Emptied, T!Restoring
<1> QED BY <1>3, <1>5, <1>6, LawfulKeeps DEF Own

LEMMA DownAskTree ==
  ASSUME T!Assumptions, TInv, NEW c \in Commands, NEW t \in Topologies, NEW restart \in BOOLEAN,
         T!DownAsk(c, t, restart)
  PROVE  Tree'
<1> DEFINE g == status[t].gen
           r(heard) == [at |-> "asked", t |-> t, g |-> g,
                        restart |-> IF restart THEN g ELSE T!NoLaunch, heard |-> heard]
<1>1. T!TypeOK /\ Tree
  BY DEF TInv
<1>2. g # T!NoLaunch /\ g \in 0..MaxLaunch /\ named[t] = g /\ sup[g] # "none"
  BY <1>1 DEF T!DownAsk, T!TypeOK, Tree, BoundTo
<1>3. PICK heard \in BOOLEAN : cmd' = [cmd EXCEPT ![c] = r(heard)]
  BY DEF T!DownAsk
<1>4. ~ T!Operating(t) /\ UNCHANGED <<of, sup, kin, kids, doomed, named, status, told>>
  BY DEF T!DownAsk
<1>5. /\ r(heard) \in CmdKind /\ r(heard).at = "asked" /\ r(heard).t = t /\ r(heard).g = g
      /\ r(heard).restart # T!NoLaunch => r(heard).restart = g
  BY <1>2, LaunchesAre DEF CmdKind, T!Stations
<1> HIDE DEF r
<1> QED BY <1>1, <1>2, <1>3, <1>4, <1>5, StopBegins

LEMMA ForceOpenTree ==
  ASSUME T!Assumptions, TInv, NEW c \in Commands, NEW t \in Topologies, T!ForceOpen(c, t)
  PROVE  Tree'
<1> DEFINE r == [T!Idle EXCEPT !.at = "forcing", !.t = t, !.g = named[t]]
<1>1. T!TypeOK /\ Tree
  BY DEF TInv
<1>2. named[t] \in 0..MaxLaunch /\ named[t] # T!NoLaunch /\ ~ T!Operating(t)
      /\ UNCHANGED <<of, T!actors, named, status, told>>
  BY <1>1 DEF T!ForceOpen, T!TypeOK
<1>3. r \in CmdKind /\ r.at = "forcing" /\ r.t = t /\ r.g = named[t] /\ r.restart = T!NoLaunch
  BY <1>2, IdleIs DEF CmdKind, T!Stations, T!NoLaunch
<1>4. cmd' = [cmd EXCEPT ![c] = r]
  BY DEF T!ForceOpen
<1> HIDE DEF r
<1> QED BY <1>1, <1>2, <1>3, <1>4, StopBegins DEF T!actors

\* A stop that is over has seen the tree empty, and nobody holds what it wants.
LEMMA OverIsGone ==
  ASSUME TInv, NEW c \in Commands, cmd[c].at = "asked", T!Over(c)
  PROVE  /\ cmd[c].g \in T!Launches /\ of[cmd[c].g] = cmd[c].t /\ ~ T!TreeHolders(cmd[c].g)
         /\ \A g \in T!Launches : ~ T!Retains(g)
<1>1. cmd[c].g \in T!Launches /\ of[cmd[c].g] = cmd[c].t
  BY DEF TInv, Tree, Subject
<1> QED BY <1>1 DEF T!Over, T!Retained, T!TreeLocked, T!StateHeld

\* What a stop reports is only about its own generation.
LEMMA Reports ==
  ASSUME TInv, NEW c \in Commands, cmd[c].at \in {"asked", "forcing"},
         ~ T!TreeHolders(cmd[c].g), NEW answer, told' = [told EXCEPT ![cmd[c].g] = answer]
  PROVE  ToldMoves(c)
BY DEF ToldMoves, TInv, T!TypeOK

LEMMA DownEndsTree ==
  ASSUME T!Assumptions, TInv, NEW c \in Commands,
         \/ T!DownConfirm(c) \/ T!DownGivesUp(c) \/ T!ForceConfirm(c)
         \/ T!Return(c) \/ T!CommandDies(c)
  PROVE  Tree'
<1>1. cmd[c].at # "idle" /\ UNCHANGED <<of, sup, kin, kids, doomed, named, status>>
      /\ cmd' = [cmd EXCEPT ![c] = T!Idle]
  BY DEF T!DownConfirm, T!DownGivesUp, T!ForceConfirm, T!Return, T!CommandDies, T!actors
<1>2. ToldMoves(c)
  <2>1. CASE T!DownConfirm(c)
    BY <2>1, OverIsGone, Reports DEF T!DownConfirm
  <2>2. CASE T!ForceConfirm(c)
    BY <2>2, Reports DEF T!ForceConfirm
  <2>3. CASE T!DownGivesUp(c) \/ T!Return(c) \/ T!CommandDies(c)
    BY <2>3 DEF ToldMoves, T!DownGivesUp, T!Return, T!CommandDies
  <2> QED BY <2>1, <2>2, <2>3
<1>3. StatusMoves(c)
  BY <1>1 DEF StatusMoves
<1> QED BY <1>1, <1>2, <1>3, EndTree

LEMMA RestartOpenTree ==
  ASSUME T!Assumptions, TInv, NEW c \in Commands, T!RestartOpen(c)
  PROVE  Tree'
<1> DEFINE r == [cmd[c] EXCEPT !.at = "opened", !.g = T!Next1, !.heard = FALSE]
<1>1. T!TypeOK /\ Tree /\ Back(c) /\ cmd[c] \in CmdKind
  BY DEF TInv, Tree, T!TypeOK, CmdKind
<1>2. T!Next1 \in T!Launches /\ T!Fresh # {} /\ cmd[c].g # T!Next1
  BY NextIsFresh, FreshIs DEF T!RestartOpen
<1>3. T!Next1 \in 0..MaxLaunch
  BY <1>2, LaunchesAre
<1>4. /\ r \in CmdKind /\ r.at = "opened" /\ r.g = T!Next1 /\ r.t = cmd[c].t
      /\ r.restart = cmd[c].restart
  BY <1>1, <1>3 DEF CmdKind, T!Stations, T!Preparing
<1>5. cmd' = [cmd EXCEPT ![c] = r]
  BY DEF T!RestartOpen
<1> HIDE DEF r
<1>6. cmd[c].at = "asked" /\ UNCHANGED <<T!actors, named, status>>
      /\ of' = [of EXCEPT ![T!Next1] = cmd[c].t]
  BY DEF T!RestartOpen
<1>7. ToldMoves(c)
  BY OverIsGone, Reports DEF T!RestartOpen
<1>8. r.restart # T!NoLaunch => of[r.restart] = r.t /\ sup[r.restart] # "none"
  BY <1>1, <1>4, <1>6 DEF Back
<1> QED BY <1>1, <1>2, <1>4, <1>5, <1>6, <1>7, <1>8, Opens DEF T!actors

\* Every step of a command keeps what is known of trees and records.
LEMMA CommandTree ==
  ASSUME T!Assumptions, TInv, NEW c \in Commands,
         T!UpStep(c) \/ T!DownStep(c) \/ T!CommandDies(c)
  PROVE  Tree'
<1>1. CASE T!UpStep(c)
  <2>1. (\E t \in Topologies : T!UpOpen(c, t)) => Tree'
    BY UpOpenTree
  <2>2. (\/ T!UpLockTree(c) \/ T!PortLook(c) \/ T!PortCreate(c)
         \/ T!StateLock(c) \/ T!Retire(c)) => Tree'
    BY PreparingTree
  <2>3. (T!BindLease(c) => Tree') /\ (T!Launch(c) => Tree') /\ (T!Return(c) => Tree')
    BY BindTree, LaunchTree, DownEndsTree
  <2>4. (T!Fail(c) => Tree') /\ (T!RestoreLease(c) => Tree') /\ (T!RestoreStatus(c) => Tree')
    BY FailTree, RestoreLeaseTree, RestoreStatusTree
  <2> QED BY <1>1, <2>1, <2>2, <2>3, <2>4 DEF T!UpStep
<1>2. CASE T!DownStep(c)
  <2>1. (\E t \in Topologies, restart \in BOOLEAN : T!DownAsk(c, t, restart)) => Tree'
    BY DownAskTree
  <2>2. (\E t \in Topologies : T!ForceOpen(c, t)) => Tree'
    BY ForceOpenTree
  <2>3. (T!DownConfirm(c) => Tree') /\ (T!DownGivesUp(c) => Tree') /\ (T!ForceConfirm(c) => Tree')
    BY DownEndsTree
  <2>4. (T!RestartOpen(c) => Tree') /\ (T!ForceKill(c) => Tree')
    BY RestartOpenTree, ProcessesKeep
  <2> QED BY <1>2, <2>1, <2>2, <2>3, <2>4 DEF T!DownStep
<1>3. CASE T!CommandDies(c)
  BY <1>3, DownEndsTree
<1> QED BY <1>1, <1>2, <1>3

-----------------------------------------------------------------------------
(* Ports and the state *)

Reserving == {"reserved"} \cup Stating

\* A step of a command that takes neither a port nor the state.
Calm(c) ==
  /\ cmd' \in [Commands -> CmdKind]
  /\ \A d \in Commands : d # c => cmd'[d] = cmd[d]
  /\ cmd'[c].at # "free"
  /\ cmd'[c].at \in Reserving => cmd[c].at \in Reserving /\ cmd'[c].g = cmd[c].g
  /\ cmd'[c].at \in Stating => cmd[c].at \in Stating
  /\ UNCHANGED <<sup, kin>>

LEMMA CalmKeeps ==
  ASSUME Ports, States, NEW c \in Commands, Calm(c)
  PROVE  Ports' /\ States'
<1>1. \A g \in T!Launches : T!Retains(g)' => T!Retains(g)
  BY DEF T!Retains, T!Running, Calm
<1>2. ASSUME NEW g \in T!Launches, T!PortHeld(g)'
      PROVE  T!PortHeld(g)
  BY <1>1, <1>2 DEF T!PortHeld, Calm, Reserving, Stating
<1>3. Ports'
  BY <1>2, PortsKeep DEF Calm
<1>4. States'
  BY <1>1, StatesKeep DEF Calm
<1> QED BY <1>3, <1>4

\* A command that becomes another one, or ends, is calm.
LEMMA BecameCalm ==
  ASSUME T!Assumptions, T!TypeOK, NEW c \in Commands, NEW r \in CmdKind,
         r.at \notin {"free"} \cup Reserving,
         cmd' = [cmd EXCEPT ![c] = r], UNCHANGED <<sup, kin>>
  PROVE  Calm(c)
BY Becomes DEF Became, Calm, Reserving

LEMMA EndCalm ==
  ASSUME T!Assumptions, T!TypeOK, NEW c \in Commands, cmd' = [cmd EXCEPT ![c] = T!Idle],
         UNCHANGED <<sup, kin>>
  PROVE  Calm(c)
BY BecameCalm, IdleIs DEF Reserving, Stating

LEMMA WentCalm ==
  ASSUME NEW c \in Commands, NEW station, Went(c, station), UNCHANGED <<sup, kin>>,
         station # "free", station \in Reserving => cmd[c].at \in Reserving,
         station \in Stating => cmd[c].at \in Stating
  PROVE  Calm(c)
BY DEF Went, Calm

LEMMA CalmSteps ==
  ASSUME T!Assumptions, TInv, NEW c \in Commands,
         \/ \E t \in Topologies : T!UpOpen(c, t)
         \/ T!UpLockTree(c) \/ T!Retire(c) \/ T!BindLease(c) \/ T!Return(c) \/ T!Fail(c)
         \/ T!RestoreLease(c) \/ T!RestoreStatus(c) \/ T!CommandDies(c)
         \/ \E t \in Topologies, restart \in BOOLEAN : T!DownAsk(c, t, restart)
         \/ \E t \in Topologies : T!ForceOpen(c, t)
         \/ T!DownConfirm(c) \/ T!RestartOpen(c) \/ T!DownGivesUp(c) \/ T!ForceConfirm(c)
  PROVE  Calm(c)
<1>0. T!TypeOK
  BY DEF TInv
<1>1. CASE \E t \in Topologies : T!UpOpen(c, t)
  <2>1. PICK t \in Topologies : T!UpOpen(c, t)
    BY <1>1
  <2> DEFINE r == [T!Idle EXCEPT !.at = "opened", !.t = t, !.g = T!Next1]
  <2>2. T!Next1 \in 0..MaxLaunch
    BY <2>1, NextIsFresh, FreshIs, LaunchesAre DEF T!UpOpen
  <2>3. r \in CmdKind /\ r.at = "opened"
    BY <2>2, IdleIs DEF CmdKind, T!Stations, T!Preparing
  <2>4. cmd' = [cmd EXCEPT ![c] = r] /\ UNCHANGED <<sup, kin>>
    BY <2>1 DEF T!UpOpen, T!actors
  <2> HIDE DEF r
  <2> QED BY <1>0, <2>3, <2>4, BecameCalm DEF Reserving, Stating
<1>2. CASE T!UpLockTree(c) \/ T!Retire(c) \/ T!BindLease(c) \/ T!RestoreLease(c)
  <2>1. PICK station \in T!Stations : /\ cmd' = [cmd EXCEPT ![c].at = station]
                                      /\ station # "free" /\ UNCHANGED <<sup, kin>>
                                      /\ station \in Reserving => cmd[c].at \in Reserving
                                      /\ station \in Stating => cmd[c].at \in Stating
    <3>1. CASE T!UpLockTree(c)
      BY <3>1 DEF T!UpLockTree, T!Move, T!Stations, T!Preparing, T!Restoring, Reserving, Stating,
                  T!actors
    <3>2. CASE T!Retire(c)
      BY <3>2 DEF T!Retire, T!Move, T!Stations, T!Preparing, T!Restoring, Reserving, Stating,
                  T!actors
    <3>3. CASE T!BindLease(c)
      BY <3>3 DEF T!BindLease, T!Move, T!Stations, T!Preparing, T!Restoring, Reserving, Stating,
                  T!actors
    <3>4. CASE T!RestoreLease(c)
      BY <3>4 DEF T!RestoreLease, T!Move, T!Stations, T!Preparing, T!Restoring, Reserving,
                  Stating, T!actors
    <3> QED BY <1>2, <3>1, <3>2, <3>3, <3>4
  <2>2. Went(c, station)
    BY <1>0, <2>1, Goes
  <2> QED BY <2>1, <2>2, WentCalm
<1>3. CASE \/ T!Return(c) \/ T!RestoreStatus(c) \/ T!CommandDies(c) \/ T!DownConfirm(c)
           \/ T!DownGivesUp(c) \/ T!ForceConfirm(c)
  <2>1. cmd' = [cmd EXCEPT ![c] = T!Idle] /\ UNCHANGED <<sup, kin>>
    BY <1>3
    DEF T!Return, T!RestoreStatus, T!CommandDies, T!DownConfirm, T!DownGivesUp, T!ForceConfirm,
        T!actors
  <2> QED BY <1>0, <2>1, EndCalm
<1>4. CASE T!Fail(c)
  <2>1. UNCHANGED <<sup, kin>>
    BY <1>4 DEF T!Fail, T!actors
  <2>2. CASE cmd[c].restart # T!NoLaunch /\ cmd[c].at \in {"retired", "bound"}
    <3>1. Went(c, "unwinding")
      BY <1>0, <1>4, <2>2, Goes DEF T!Fail, T!Stations, T!Restoring
    <3> QED BY <2>1, <3>1, WentCalm DEF Reserving, Stating
  <2>3. CASE ~ (cmd[c].restart # T!NoLaunch /\ cmd[c].at \in {"retired", "bound"})
    BY <1>0, <1>4, <2>1, <2>3, EndCalm DEF T!Fail
  <2> QED BY <2>2, <2>3
<1>5. CASE \E t \in Topologies, restart \in BOOLEAN : T!DownAsk(c, t, restart)
  <2>1. PICK t \in Topologies, restart \in BOOLEAN : T!DownAsk(c, t, restart)
    BY <1>5
  <2> DEFINE g == status[t].gen
             r(heard) == [at |-> "asked", t |-> t, g |-> g,
                          restart |-> IF restart THEN g ELSE T!NoLaunch, heard |-> heard]
  <2>2. PICK heard \in BOOLEAN : cmd' = [cmd EXCEPT ![c] = r(heard)]
    BY <2>1 DEF T!DownAsk
  <2>3. g \in 0..MaxLaunch
    BY <1>0 DEF T!TypeOK
  <2>4. r(heard) \in CmdKind /\ r(heard).at = "asked"
    BY <2>3, LaunchesAre DEF CmdKind, T!Stations
  <2>5. UNCHANGED <<sup, kin>>
    BY <2>1 DEF T!DownAsk
  <2> HIDE DEF r
  <2> QED BY <1>0, <2>2, <2>4, <2>5, BecameCalm DEF Reserving, Stating
<1>6. CASE \E t \in Topologies : T!ForceOpen(c, t)
  <2>1. PICK t \in Topologies : T!ForceOpen(c, t)
    BY <1>6
  <2> DEFINE r == [T!Idle EXCEPT !.at = "forcing", !.t = t, !.g = named[t]]
  <2>2. named[t] \in 0..MaxLaunch
    BY <1>0 DEF T!TypeOK
  <2>3. r \in CmdKind /\ r.at = "forcing"
    BY <2>2, IdleIs DEF CmdKind, T!Stations
  <2>4. cmd' = [cmd EXCEPT ![c] = r] /\ UNCHANGED <<sup, kin>>
    BY <2>1 DEF T!ForceOpen, T!actors
  <2> HIDE DEF r
  <2> QED BY <1>0, <2>3, <2>4, BecameCalm DEF Reserving, Stating
<1>7. CASE T!RestartOpen(c)
  <2> DEFINE r == [cmd[c] EXCEPT !.at = "opened", !.g = T!Next1, !.heard = FALSE]
  <2>1. T!Next1 \in 0..MaxLaunch
    BY <1>7, NextIsFresh, FreshIs, LaunchesAre DEF T!RestartOpen
  <2>2. cmd[c] \in CmdKind
    BY <1>0 DEF T!TypeOK, CmdKind
  <2>3. r \in CmdKind /\ r.at = "opened"
    BY <2>1, <2>2 DEF CmdKind, T!Stations, T!Preparing
  <2>4. cmd' = [cmd EXCEPT ![c] = r] /\ UNCHANGED <<sup, kin>>
    BY <1>7 DEF T!RestartOpen, T!actors
  <2> HIDE DEF r
  <2> QED BY <1>0, <2>3, <2>4, BecameCalm DEF Reserving, Stating
<1> QED BY <1>1, <1>2, <1>3, <1>4, <1>5, <1>6, <1>7

\* In the transaction of a port, a command sees that it is free and takes it.
LEMMA PortSteps ==
  ASSUME T!Assumptions, TInv, NEW c \in Commands, T!PortLook(c) \/ T!PortCreate(c)
  PROVE  Ports' /\ States'
<1>0. T!TypeOK /\ Ports /\ States
  BY DEF TInv
<1>1. UNCHANGED <<sup, kin>>
  BY DEF T!PortLook, T!PortCreate, T!actors
<1>2. \A g \in T!Launches : (T!Retains(g)' <=> T!Retains(g))
  BY <1>1 DEF T!Retains, T!Running
<1>3. CASE T!PortLook(c)
  <2>1. Went(c, "free") /\ cmd[c].at = "locked"
    BY <1>0, <1>3, Goes DEF T!PortLook, T!Move, T!Stations, T!Preparing
  <2>2. ASSUME NEW g \in T!Launches
        PROVE  (T!PortHeld(g)' <=> T!PortHeld(g))
    BY <1>2, <2>1 DEF T!PortHeld, Went
  <2>3. T!PortExclusive'
    BY <1>0, <2>2 DEF Ports, T!PortExclusive
  <2>4. ASSUME NEW d \in Commands
        PROVE  Free(d)'
    <3>1. CASE d = c
      <4>1. ASSUME NEW e \in Commands, cmd'[e].at = "free", PortOf[cmd'[e].g] = PortOf[cmd'[c].g]
            PROVE  e = c
        BY <1>3, <2>1, <4>1 DEF T!PortLook, Went
      <4>2. ASSUME NEW g \in T!Launches, PortOf[g] = PortOf[cmd'[c].g]
            PROVE  ~ T!PortHeld(g)'
        BY <1>3, <2>1, <2>2, <4>2 DEF T!PortLook, Went
      <4> QED BY <3>1, <4>1, <4>2 DEF Free
    <3>2. CASE d # c
      <4> SUFFICES ASSUME cmd[d].at = "free"
                   PROVE  Free(d)'
        BY <2>1, <3>2 DEF Free, Went
      <4>1. Free(d) /\ PortOf[cmd[d].g] # PortOf[cmd[c].g] /\ cmd'[d] = cmd[d]
        BY <1>0, <1>3, <2>1, <3>2 DEF Ports, T!PortLook, Went
      <4>2. ASSUME NEW e \in Commands, cmd'[e].at = "free", PortOf[cmd'[e].g] = PortOf[cmd[d].g]
            PROVE  d = e
        BY <2>1, <4>1, <4>2 DEF Free, Went
      <4> QED BY <2>2, <4>1, <4>2 DEF Free
    <3> QED BY <3>1, <3>2
  <2>5. States'
    BY <1>0, <1>2, <2>1, StatesKeep DEF Went, Stating
  <2> QED BY <2>3, <2>4, <2>5 DEF Ports
<1>4. CASE T!PortCreate(c)
  <2>1. Went(c, "reserved") /\ cmd[c].at = "free"
    BY <1>0, <1>4, Goes DEF T!PortCreate, T!Move, T!Stations, T!Preparing
  <2>2. ASSUME NEW g \in T!Launches, T!PortHeld(g)'
        PROVE  T!PortHeld(g) \/ g = cmd[c].g
    BY <1>2, <2>1, <2>2 DEF T!PortHeld, Went
  <2>3. \A g \in T!Launches : PortOf[g] = PortOf[cmd[c].g] => ~ T!PortHeld(g)
    BY <1>0, <2>1 DEF Ports, Free
  <2>4. T!PortExclusive'
    BY <1>0, <2>2, <2>3 DEF Ports, T!PortExclusive
  <2>5. ASSUME NEW d \in Commands
        PROVE  Free(d)'
    <3> SUFFICES ASSUME cmd'[d].at = "free"
                 PROVE  Free(d)'
      BY DEF Free
    <3>1. d # c /\ cmd'[d] = cmd[d]
      BY <2>1 DEF Went
    <3>2. PortOf[cmd[d].g] # PortOf[cmd[c].g] /\ Free(d)
      BY <1>0, <2>1, <3>1 DEF Ports, Free
    <3>3. ASSUME NEW g \in T!Launches, PortOf[g] = PortOf[cmd[d].g]
          PROVE  ~ T!PortHeld(g)'
      BY <2>2, <3>1, <3>2, <3>3 DEF Free
    <3>4. ASSUME NEW e \in Commands, cmd'[e].at = "free", PortOf[cmd'[e].g] = PortOf[cmd[d].g]
          PROVE  d = e
      BY <2>1, <3>1, <3>2, <3>4 DEF Free, Went
    <3> QED BY <3>1, <3>3, <3>4 DEF Free
  <2>6. States'
    BY <1>0, <1>2, <2>1, StatesKeep DEF Went, Stating
  <2> QED BY <2>4, <2>5, <2>6 DEF Ports
<1> QED BY <1>3, <1>4

\* The state is taken while nobody has it, and handed over with the port and the tree.
LEMMA StateSteps ==
  ASSUME T!Assumptions, TInv, NEW c \in Commands, T!StateLock(c) \/ T!Launch(c)
  PROVE  Ports' /\ States'
<1>0. T!TypeOK /\ Tree /\ Ports /\ States
  BY DEF TInv
<1>1. CASE T!StateLock(c)
  <2>1. Went(c, "stated") /\ cmd[c].at = "reserved" /\ UNCHANGED <<sup, kin>> /\ ~ T!StateHeld
    BY <1>0, <1>1, Goes DEF T!StateLock, T!Move, T!Stations, T!Preparing, T!actors
  <2>2. \A g \in T!Launches : ~ T!Retains(g) /\ ~ T!Retains(g)'
    BY <2>1 DEF T!StateHeld, T!Retains, T!Running
  <2>3. ASSUME NEW g \in T!Launches, T!PortHeld(g)'
        PROVE  T!PortHeld(g)
    BY <2>1, <2>2, <2>3 DEF T!PortHeld, Went
  <2>4. Ports'
    BY <1>0, <2>1, <2>3, PortsKeep DEF Went
  <2>5. \A d \in Commands : cmd'[d].at \in Stating => d = c
    BY <2>1 DEF T!StateHeld, Stating, Went
  <2>6. States'
    BY <2>2, <2>5 DEF States
  <2> QED BY <2>4, <2>6
<1>2. CASE T!Launch(c)
  <2>1. Went(c, "waiting") /\ cmd[c].at = "bound" /\ UNCHANGED kin
    BY <1>0, <1>2, Goes DEF T!Launch, T!Move, T!Stations
  <2>2. cmd[c].g \in T!Launches /\ sup' = [sup EXCEPT ![cmd[c].g] = "boot"]
    BY <1>0, <1>2, <2>1 DEF T!Launch, Tree, Young, T!Preparing
  <2>3. \A g \in T!Launches : g # cmd[c].g => sup'[g] = sup[g]
    BY <1>0, <2>2 DEF T!TypeOK
  <2>4. ASSUME NEW g \in T!Launches, T!Retains(g)'
        PROVE  T!Retains(g) \/ g = cmd[c].g
    BY <2>1, <2>3, <2>4 DEF T!Retains, T!Running
  <2>5. ASSUME NEW g \in T!Launches, T!PortHeld(g)'
        PROVE  T!PortHeld(g)
    BY <2>1, <2>4, <2>5 DEF T!PortHeld, Went
  <2>6. Ports'
    BY <1>0, <2>1, <2>5, PortsKeep DEF Went
  <2>7. /\ \A g \in T!Launches : ~ T!Retains(g)
        /\ \A d \in Commands : cmd[d].at \in Stating => d = c
    BY <1>0, <2>1 DEF States, Stating
  <2>8. \A d \in Commands : cmd'[d].at \notin Stating
    BY <2>1, <2>7 DEF Went, Stating
  <2>9. States'
    BY <2>4, <2>7, <2>8 DEF States
  <2> QED BY <2>6, <2>9
<1> QED BY <1>1, <1>2

LEMMA CommandHolds ==
  ASSUME T!Assumptions, TInv, NEW c \in Commands,
         T!UpStep(c) \/ T!DownStep(c) \/ T!CommandDies(c)
  PROVE  Ports' /\ States'
<1>1. Ports /\ States
  BY DEF TInv
<1>2. Calm(c) => Ports' /\ States'
  BY <1>1, CalmKeeps
<1>3. CASE T!UpStep(c)
  <2>1. CASE T!PortLook(c) \/ T!PortCreate(c)
    BY <2>1, PortSteps
  <2>2. CASE T!StateLock(c) \/ T!Launch(c)
    BY <2>2, StateSteps
  <2>3. CASE \/ \E t \in Topologies : T!UpOpen(c, t)
             \/ T!UpLockTree(c) \/ T!Retire(c) \/ T!BindLease(c) \/ T!Return(c) \/ T!Fail(c)
             \/ T!RestoreLease(c) \/ T!RestoreStatus(c)
    BY <1>2, <2>3, CalmSteps
  <2> QED BY <1>3, <2>1, <2>2, <2>3 DEF T!UpStep
<1>4. CASE T!DownStep(c)
  <2>1. CASE T!ForceKill(c)
    BY <2>1, ProcessesKeep
  <2>2. CASE \/ \E t \in Topologies, restart \in BOOLEAN : T!DownAsk(c, t, restart)
             \/ \E t \in Topologies : T!ForceOpen(c, t)
             \/ T!DownConfirm(c) \/ T!RestartOpen(c) \/ T!DownGivesUp(c) \/ T!ForceConfirm(c)
    BY <1>2, <2>2, CalmSteps
  <2> QED BY <1>4, <2>1, <2>2 DEF T!DownStep
<1>5. CASE T!CommandDies(c)
  BY <1>2, <1>5, CalmSteps
<1> QED BY <1>3, <1>4, <1>5

-----------------------------------------------------------------------------
(* Types *)

MemoryKind == [requested : BOOLEAN, error : BOOLEAN, dirty : BOOLEAN]
StatusKind == [gen : 0..MaxLaunch, stopped : BOOLEAN, requested : BOOLEAN, clean : BOOLEAN,
               error : BOOLEAN]
ActorsOK ==
  /\ sup \in [T!Launches -> T!Alive \cup {"none", "gone"}]
  /\ kin \in [T!Launches -> T!Watching \cup {"none", "closing", "gone"}]
  /\ kids \in [T!Launches -> SUBSET Processes]
  /\ doomed \in [T!Launches -> SUBSET Processes]
  /\ listed \in [T!Launches -> SUBSET Processes]
MemoryOK == memory \in [T!Launches -> MemoryKind]
StatusOK == status \in [Topologies -> StatusKind]
RestOK ==
  /\ cmd \in [Commands -> CmdKind]
  /\ of \in [T!Launches -> Topologies]
  /\ named \in [Topologies -> 0..MaxLaunch]
  /\ told \in [T!Launches -> {"nothing", "stopped", "clean"}]

LEMMA TypesAre ==
  /\ T!TypeOK => ActorsOK /\ MemoryOK /\ StatusOK /\ RestOK
  /\ ActorsOK' /\ MemoryOK' /\ StatusOK' /\ RestOK' => T!TypeOK'
BY DEF T!TypeOK, ActorsOK, MemoryOK, StatusOK, RestOK, CmdKind, MemoryKind, StatusKind

\* A record of launch g that a supervisor writes.
LEMMA RecordKinds ==
  ASSUME T!Assumptions, T!TypeOK, NEW g \in T!Launches
  PROVE  /\ T!NoStatus \in StatusKind /\ T!NoStatus.gen = T!NoLaunch
         /\ T!Current(g) \in StatusKind /\ T!Current(g).gen = g
         /\ [T!Current(g) EXCEPT !.error = TRUE] \in StatusKind
BY LaunchesAre DEF T!NoStatus, T!Current, StatusKind

LEMMA WritesType ==
  ASSUME StatusOK, NEW g \in T!Launches, RestOK, NEW fields \in StatusKind, T!Write(g, fields)
  PROVE  StatusOK'
BY DEF StatusOK, RestOK, T!Write

LEMMA MemoryType ==
  ASSUME MemoryOK, NEW g \in T!Launches,
         \/ \E b \in BOOLEAN : memory' = [memory EXCEPT ![g].error = b]
         \/ \E b \in BOOLEAN : memory' = [memory EXCEPT ![g].dirty = b]
         \/ \E b \in BOOLEAN : memory' = [memory EXCEPT ![g].requested = b]
  PROVE  MemoryOK'
<1>1. memory[g] \in MemoryKind /\ memory \in [T!Launches -> MemoryKind]
  BY DEF MemoryOK
<1>2. ASSUME NEW b \in BOOLEAN
      PROVE  /\ [memory[g] EXCEPT !.error = b] \in MemoryKind
             /\ [memory[g] EXCEPT !.dirty = b] \in MemoryKind
             /\ [memory[g] EXCEPT !.requested = b] \in MemoryKind
  BY <1>1 DEF MemoryKind
<1>3. PICK r \in MemoryKind : memory' = [memory EXCEPT ![g] = r]
  BY <1>2
<1> QED BY <1>1, <1>3 DEF MemoryOK

LEMMA SeenType ==
  ASSUME ActorsOK, NEW g \in T!Launches
  PROVE  T!Seen(g) \subseteq Processes
BY DEF ActorsOK, T!Seen

LEMMA ProcessTypes ==
  ASSUME T!Assumptions, TInv, NEW g \in T!Launches,
         \/ T!SupervisorStep(g) \/ T!SupervisorDies(g)
         \/ T!GuardianStep(g) \/ T!GuardianDies(g)
         \/ T!Relist(g) \/ T!Fork(g) \/ T!Leave(g) \/ T!Die(g)
  PROVE  T!TypeOK'
<1>0. T!TypeOK /\ ActorsOK /\ MemoryOK /\ StatusOK /\ RestOK /\ T!Seen(g) \subseteq Processes
  BY TypesAre, SeenType DEF TInv
<1>1. Frame
  BY SupervisorFrame, GuardianFrame, ServiceFrame
<1>2. RestOK'
  BY <1>0, <1>1 DEF RestOK, Frame
<1>3. ActorsOK'
  <2>1. ASSUME T!SupervisorStep(g) \/ T!SupervisorDies(g)
        PROVE  ActorsOK'
    <3>1. CASE \/ T!StartGuardian(g) \/ T!BootFails(g) \/ T!Spawn(g)
               \/ T!WriteStarting(g) \/ T!Ready(g)
      BY <1>0, <3>1
      DEF ActorsOK, T!StartGuardian, T!BootFails, T!Spawn, T!WriteStarting, T!Ready, T!Become,
          T!Alive, T!Watching
    <3>2. CASE T!StartFails(g) \/ T!LeaveLoop(g)
      BY <1>0, <3>2 DEF ActorsOK, T!StartFails, T!LeaveLoop, T!List, T!Become, T!Alive
    <3>3. CASE T!Terminate(g)
      BY <1>0, <3>3 DEF ActorsOK, T!Terminate, T!Kill, T!List, T!Become, T!Alive
    <3>4. CASE T!TerminateAgain(g)
      BY <1>0, <3>4 DEF ActorsOK, T!TerminateAgain, T!Kill
    <3>5. CASE T!Reap(g) \/ T!RecordEnd(g) \/ T!ReleaseResources(g) \/ T!ReleaseTree(g)
      BY <1>0, <3>5 DEF ActorsOK, T!Reap, T!RecordEnd, T!ReleaseResources, T!ReleaseTree,
                        T!Become, T!Alive
    <3>6. CASE T!SupervisorDies(g)
      BY <1>0, <3>6 DEF ActorsOK, T!SupervisorDies
    <3> QED BY <2>1, <3>1, <3>2, <3>3, <3>4, <3>5, <3>6 DEF T!SupervisorStep
  <2>2. ASSUME T!GuardianStep(g) \/ T!GuardianDies(g)
        PROVE  ActorsOK'
    <3>1. CASE T!GuardianWakes(g) \/ T!GuardianWaits(g)
      BY <1>0, <3>1 DEF ActorsOK, T!GuardianWakes, T!GuardianWaits, T!List, T!Turn, T!Watching
    <3>2. CASE T!GuardianKills(g)
      BY <1>0, <3>2 DEF ActorsOK, T!GuardianKills, T!Kill, T!List, T!Turn, T!Watching
    <3>3. CASE T!GuardianKillsAgain(g)
      BY <1>0, <3>3 DEF ActorsOK, T!GuardianKillsAgain, T!Kill
    <3>4. CASE T!GuardianReleases(g) \/ T!GuardianEnds(g) \/ T!GuardianDies(g)
      BY <1>0, <3>4 DEF ActorsOK, T!GuardianReleases, T!GuardianEnds, T!GuardianDies, T!Turn,
                        T!Watching
    <3> QED BY <2>2, <3>1, <3>2, <3>3, <3>4 DEF T!GuardianStep
  <2>3. ASSUME T!Fork(g) \/ T!Leave(g) \/ T!Die(g) \/ T!Relist(g)
        PROVE  ActorsOK'
    <3>1. CASE T!Relist(g)
      BY <1>0, <3>1 DEF ActorsOK, T!Relist, T!List
    <3>2. CASE T!Fork(g)
      BY <1>0, <3>2 DEF ActorsOK, T!Fork
    <3>3. CASE T!Leave(g) \/ T!Die(g)
      BY <1>0, <3>3 DEF ActorsOK, T!Leave, T!Die
    <3> QED BY <2>3, <3>1, <3>2, <3>3
  <2> QED BY <2>1, <2>2, <2>3
<1>4. MemoryOK'
  <2>1. CASE T!StartFails(g)
    BY <1>0, <2>1, MemoryType DEF T!StartFails
  <2>2. CASE T!Terminate(g)
    <3>1. (~ T!Absent(g)) \in BOOLEAN
      OBVIOUS
    <3> QED BY <1>0, <2>2, <3>1, MemoryType DEF T!Terminate
  <2>3. CASE T!Reap(g)
    <3>1. PICK spoilt \in BOOLEAN :
            memory' = [memory EXCEPT ![g].dirty = memory[g].dirty \/ spoilt]
      BY <2>3 DEF T!Reap
    <3>2. (memory[g].dirty \/ spoilt) \in BOOLEAN
      OBVIOUS
    <3> QED BY <1>0, <3>1, <3>2, MemoryType
  <2>4. CASE ~ (T!StartFails(g) \/ T!Terminate(g) \/ T!Reap(g))
    <3>1. UNCHANGED memory
      BY <2>4
      DEF T!SupervisorStep, T!SupervisorDies, T!GuardianStep, T!GuardianDies, T!Relist, T!Fork,
          T!Leave, T!Die, T!StartGuardian, T!BootFails, T!Spawn, T!WriteStarting, T!Ready,
          T!LeaveLoop, T!TerminateAgain, T!RecordEnd, T!ReleaseResources, T!ReleaseTree,
          T!GuardianWakes, T!GuardianKills, T!GuardianKillsAgain, T!GuardianWaits,
          T!GuardianReleases, T!GuardianEnds
    <3> QED BY <1>0, <3>1 DEF MemoryOK
  <2> QED BY <2>1, <2>2, <2>3, <2>4
<1>5. StatusOK'
  <2>1. CASE T!WriteStarting(g)
    BY <1>0, <2>1, RecordKinds, WritesType DEF T!WriteStarting
  <2>2. CASE T!StartFails(g)
    BY <1>0, <2>2, RecordKinds, WritesType DEF T!StartFails
  <2>3. CASE T!RecordEnd(g)
    <3> DEFINE end == [gen |-> g, stopped |-> TRUE, requested |-> memory[g].requested,
                       clean |-> memory[g].requested /\ ~memory[g].dirty /\ ~memory[g].error,
                       error |-> memory[g].error]
    <3>1. memory[g] \in MemoryKind /\ g \in 0..MaxLaunch
      BY <1>0, LaunchesAre DEF MemoryOK
    <3>2. end \in StatusKind
      BY <3>1 DEF MemoryKind, StatusKind
    <3>3. T!Write(g, end)
      BY <2>3 DEF T!RecordEnd
    <3> HIDE DEF end
    <3> QED BY <1>0, <3>2, <3>3, WritesType
  <2>4. CASE ~ (T!WriteStarting(g) \/ T!StartFails(g) \/ T!RecordEnd(g))
    <3>1. UNCHANGED status
      BY <2>4
      DEF T!SupervisorStep, T!SupervisorDies, T!GuardianStep, T!GuardianDies, T!Relist, T!Fork,
          T!Leave, T!Die, T!StartGuardian, T!BootFails, T!Spawn, T!Ready, T!LeaveLoop,
          T!Terminate, T!TerminateAgain, T!Reap, T!ReleaseResources, T!ReleaseTree,
          T!GuardianWakes, T!GuardianKills, T!GuardianKillsAgain, T!GuardianWaits,
          T!GuardianReleases, T!GuardianEnds
    <3> QED BY <1>0, <3>1 DEF StatusOK
  <2> QED BY <2>1, <2>2, <2>3, <2>4
<1> QED BY <1>2, <1>3, <1>4, <1>5, TypesAre

LEMMA CommandsType ==
  ASSUME T!Assumptions, TInv, NEW c \in Commands,
         T!UpStep(c) \/ T!DownStep(c) \/ T!CommandDies(c)
  PROVE  cmd' \in [Commands -> CmdKind]
<1>0. T!TypeOK /\ cmd \in [Commands -> CmdKind]
  BY DEF TInv, T!TypeOK, CmdKind
<1>1. CASE T!PortLook(c) \/ T!PortCreate(c) \/ T!StateLock(c) \/ T!Launch(c)
  <2>1. PICK station \in T!Stations : cmd' = [cmd EXCEPT ![c].at = station]
    BY <1>1 DEF T!PortLook, T!PortCreate, T!StateLock, T!Launch, T!Move, T!Stations, T!Preparing
  <2> QED BY <1>0, <2>1, Goes DEF Went
<1>2. CASE T!ForceKill(c)
  BY <1>0, <1>2 DEF T!ForceKill
<1>3. CASE \/ \E t \in Topologies : T!UpOpen(c, t)
           \/ T!UpLockTree(c) \/ T!Retire(c) \/ T!BindLease(c) \/ T!Return(c) \/ T!Fail(c)
           \/ T!RestoreLease(c) \/ T!RestoreStatus(c) \/ T!CommandDies(c)
           \/ \E t \in Topologies, restart \in BOOLEAN : T!DownAsk(c, t, restart)
           \/ \E t \in Topologies : T!ForceOpen(c, t)
           \/ T!DownConfirm(c) \/ T!RestartOpen(c) \/ T!DownGivesUp(c) \/ T!ForceConfirm(c)
  BY <1>3, CalmSteps DEF Calm
<1> QED BY <1>1, <1>2, <1>3 DEF T!UpStep, T!DownStep

\* What the steps of a command write beside the commands themselves.
Kept == UNCHANGED <<of, T!actors, named, status, told>>

LEMMA KeptTypes ==
  ASSUME T!TypeOK, Kept, cmd' \in [Commands -> CmdKind]
  PROVE  T!TypeOK'
BY DEF T!TypeOK, Kept, T!actors, CmdKind

LEMMA CommandTypes ==
  ASSUME T!Assumptions, TInv, NEW c \in Commands,
         T!UpStep(c) \/ T!DownStep(c) \/ T!CommandDies(c)
  PROVE  T!TypeOK'
<1>0. /\ T!TypeOK /\ ActorsOK /\ MemoryOK /\ StatusOK /\ RestOK
      /\ cmd' \in [Commands -> CmdKind]
  BY TypesAre, CommandsType DEF TInv
<1>1. cmd[c].t \in Topologies /\ cmd[c].g \in 0..MaxLaunch /\ cmd[c].restart \in 0..MaxLaunch
  BY <1>0 DEF T!TypeOK
<1>2. CASE \/ T!UpLockTree(c) \/ T!PortLook(c) \/ T!PortCreate(c) \/ T!StateLock(c) \/ T!Return(c)
           \/ T!Fail(c) \/ T!CommandDies(c) \/ T!DownGivesUp(c)
           \/ \E t \in Topologies : T!ForceOpen(c, t)
  <2>1. Kept
    BY <1>2 DEF Kept, T!UpLockTree, T!PortLook, T!PortCreate, T!StateLock, T!Return, T!Fail,
                T!CommandDies, T!DownGivesUp, T!ForceOpen
  <2> QED BY <1>0, <2>1, KeptTypes
<1>3. CASE \E t \in Topologies : T!UpOpen(c, t)
  <2>1. PICK t \in Topologies : T!UpOpen(c, t)
    BY <1>3
  <2>2. of' = [of EXCEPT ![T!Next1] = t] /\ UNCHANGED <<T!actors, named, status, told>>
    BY <2>1 DEF T!UpOpen
  <2>3. of' \in [T!Launches -> Topologies]
    BY <1>0, <2>2 DEF RestOK
  <2>4. RestOK'
    BY <1>0, <2>2, <2>3 DEF RestOK
  <2> QED BY <1>0, <2>2, <2>4, TypesAre DEF ActorsOK, MemoryOK, StatusOK, T!actors
<1>4. CASE T!Retire(c)
  <2>1. /\ status' = [status EXCEPT ![cmd[c].t] = T!NoStatus]
        /\ UNCHANGED <<of, T!actors, named, told>>
    BY <1>4 DEF T!Retire
  <2>2. T!NoStatus \in StatusKind
    BY LaunchesAre DEF T!NoStatus, StatusKind
  <2>3. StatusOK'
    BY <1>0, <2>1, <2>2 DEF StatusOK
  <2> QED BY <1>0, <2>1, <2>3, TypesAre DEF ActorsOK, MemoryOK, RestOK, T!actors
<1>5. CASE T!RestoreStatus(c)
  <2> DEFINE back == [gen |-> cmd[c].restart, stopped |-> TRUE, requested |-> TRUE,
                      clean |-> TRUE, error |-> FALSE]
  <2>1. status' = [status EXCEPT ![cmd[c].t] = back] /\ UNCHANGED <<of, T!actors, named, told>>
    BY <1>5 DEF T!RestoreStatus
  <2>2. back \in StatusKind
    BY <1>1 DEF StatusKind
  <2> HIDE DEF back
  <2>3. StatusOK'
    BY <1>0, <2>1, <2>2 DEF StatusOK
  <2> QED BY <1>0, <2>1, <2>3, TypesAre DEF ActorsOK, MemoryOK, RestOK, T!actors
<1>6. CASE T!BindLease(c) \/ T!RestoreLease(c)
  <2>1. /\ \E g \in 0..MaxLaunch : named' = [named EXCEPT ![cmd[c].t] = g]
        /\ UNCHANGED <<of, T!actors, status, told>>
    BY <1>1, <1>6 DEF T!BindLease, T!RestoreLease
  <2>2. named' \in [Topologies -> 0..MaxLaunch]
    BY <1>0, <2>1 DEF RestOK
  <2>3. RestOK'
    BY <1>0, <2>1, <2>2 DEF RestOK
  <2> QED BY <1>0, <2>1, <2>3, TypesAre DEF ActorsOK, MemoryOK, StatusOK, T!actors
<1>7. CASE T!Launch(c)
  <2>1. /\ sup' = [sup EXCEPT ![cmd[c].g] = "boot"]
        /\ UNCHANGED <<of, kin, kids, doomed, listed, memory, named, status, told>>
    BY <1>7 DEF T!Launch
  <2>2. ActorsOK'
    BY <1>0, <2>1 DEF ActorsOK, T!Alive
  <2> QED BY <1>0, <2>1, <2>2, TypesAre DEF MemoryOK, StatusOK, RestOK
<1>8. CASE \E t \in Topologies, restart \in BOOLEAN : T!DownAsk(c, t, restart)
  <2>1. PICK t \in Topologies, restart \in BOOLEAN : T!DownAsk(c, t, restart)
    BY <1>8
  <2> DEFINE g == status[t].gen
  <2>2. g # T!NoLaunch /\ g \in 0..MaxLaunch
    BY <1>0, <2>1 DEF T!DownAsk, T!TypeOK
  <2>3. g \in T!Launches
    BY <2>2, LaunchesAre
  <2>4. PICK accepted \in BOOLEAN :
          memory' = [memory EXCEPT ![g].requested = memory[g].requested \/ accepted]
    BY <2>1 DEF T!DownAsk
  <2>5. (memory[g].requested \/ accepted) \in BOOLEAN
    OBVIOUS
  <2>6. UNCHANGED <<of, sup, kin, kids, doomed, listed, named, status, told>>
    BY <2>1 DEF T!DownAsk
  <2> HIDE DEF g
  <2>7. MemoryOK'
    BY <1>0, <2>3, <2>4, <2>5, MemoryType
  <2> QED BY <1>0, <2>6, <2>7, TypesAre DEF ActorsOK, StatusOK, RestOK
<1>9. CASE T!DownConfirm(c) \/ T!ForceConfirm(c) \/ T!RestartOpen(c)
  <2>1. /\ \E answer \in {"stopped", "clean"} : told' = [told EXCEPT ![cmd[c].g] = answer]
        /\ UNCHANGED <<T!actors, named, status>>
    BY <1>9 DEF T!DownConfirm, T!ForceConfirm, T!RestartOpen
  <2>2. told' \in [T!Launches -> {"nothing", "stopped", "clean"}]
    BY <1>0, <2>1 DEF RestOK
  <2>3. of' \in [T!Launches -> Topologies]
    BY <1>0, <1>1, <1>9 DEF RestOK, T!DownConfirm, T!ForceConfirm, T!RestartOpen
  <2>4. RestOK'
    BY <1>0, <2>1, <2>2, <2>3 DEF RestOK
  <2> QED BY <1>0, <2>1, <2>4, TypesAre DEF ActorsOK, MemoryOK, StatusOK, T!actors
<1>10. CASE T!ForceKill(c)
  <2>1. PICK g : /\ g = cmd[c].g
                 /\ sup' = [sup EXCEPT ![g] = IF T!Running(g) THEN "gone" ELSE sup[g]]
                 /\ kin' = [kin EXCEPT ![g] = IF T!Guarding(g) THEN "gone" ELSE kin[g]]
                 /\ doomed' = [doomed EXCEPT ![g] = doomed[g] \cup kids[g]]
                 /\ UNCHANGED <<cmd, of, kids, listed, memory, named, status, told>>
    BY <1>10 DEF T!ForceKill
  <2>2. ActorsOK'
    BY <1>0, <2>1 DEF ActorsOK
  <2> QED BY <1>0, <2>1, <2>2, TypesAre DEF MemoryOK, StatusOK, RestOK
<1> QED BY <1>2, <1>3, <1>4, <1>5, <1>6, <1>7, <1>8, <1>9, <1>10 DEF T!UpStep, T!DownStep

-----------------------------------------------------------------------------
(* The invariant *)

LEMMA TInvInit ==
  ASSUME T!Assumptions, T!Init
  PROVE  TInv
<1>1. PICK t0 \in Topologies : t0 = CHOOSE t \in Topologies : TRUE
  BY DEF T!Assumptions
<1>2. /\ \A c \in Commands : cmd[c] = T!Idle
      /\ \A g \in T!Launches : sup[g] = "none" /\ kin[g] = "none" /\ kids[g] = {} /\ doomed[g] = {}
                             /\ told[g] = "nothing"
      /\ \A t \in Topologies : named[t] = T!NoLaunch /\ status[t] = T!NoStatus
  BY DEF T!Init
<1>3. T!TypeOK
  <2>1. T!Idle \in CmdKind /\ T!NoStatus \in StatusKind
    BY IdleIs, LaunchesAre DEF T!NoStatus, StatusKind
  <2>2. cmd \in [Commands -> CmdKind] /\ status \in [Topologies -> StatusKind]
    BY <2>1 DEF T!Init
  <2> QED BY <1>1, <2>2, LaunchesAre DEF T!Init, T!TypeOK, CmdKind, StatusKind
<1>4. \A g \in T!Launches : ~ T!TreeHolders(g) /\ ~ T!Retains(g)
  BY <1>2 DEF T!TreeHolders, T!Retains, T!Running, T!Guarding, T!Alive, T!Watching
<1>5. \A c \in Commands : cmd[c].at = "idle"
  BY <1>2, IdleIs
<1>6. Tree
  <2>1. \A c \in Commands : Young(c) /\ Subject(c) /\ Back(c) /\ Fenced(c) /\ Blank(c)
    BY <1>5
    DEF Young, Subject, Back, Fenced, Blank, T!Preparing, T!Restoring, Owning, Emptied
  <2>2. \A g \in T!Launches : Named(g) /\ Unborn(g) /\ Gone(g)
    BY <1>2, <1>4 DEF Named, Unborn, Gone
  <2>3. \A t \in Topologies : BoundTo(t)
    BY <1>2 DEF BoundTo, T!NoStatus
  <2> QED BY <1>5, <2>1, <2>2, <2>3 DEF Tree, Alone
<1>7. Ports /\ States
  BY <1>4, <1>5 DEF Ports, T!PortExclusive, T!PortHeld, Free, States, Stating
<1> QED BY <1>3, <1>6, <1>7 DEF TInv

LEMMA TInvNext ==
  ASSUME T!Assumptions, TInv, [T!Next]_T!vars
  PROVE  TInv'
<1>1. CASE UNCHANGED T!vars
  BY <1>1 DEF TInv, T!TypeOK, Tree, Alone, Young, Subject, Back, Fenced, Blank, Named, Unborn,
              Gone, BoundTo, Ports, T!PortExclusive, T!PortHeld, Free, States, T!TreeHolders,
              T!Retains, T!Running, T!Guarding, T!vars
<1>2. ASSUME NEW c \in Commands, T!UpStep(c) \/ T!DownStep(c) \/ T!CommandDies(c)
      PROVE  TInv'
  BY <1>2, CommandTree, CommandHolds, CommandTypes DEF TInv
<1>3. ASSUME NEW g \in T!Launches,
             \/ T!SupervisorStep(g) \/ T!SupervisorDies(g)
             \/ T!GuardianStep(g) \/ T!GuardianDies(g)
             \/ T!Relist(g) \/ T!Fork(g) \/ T!Leave(g) \/ T!Die(g)
      PROVE  TInv'
  BY <1>3, ProcessesKeep, ProcessTypes DEF TInv
<1> QED BY <1>1, <1>2, <1>3 DEF T!Next

\* The invariant holds of every behaviour.
THEOREM Topology ==
  ASSUME T!Assumptions
  PROVE  T!Spec => []TInv
BY TInvInit, TInvNext, PTL DEF T!Spec

\* The lease of a process tree names the generation that the status is about, whichever command
\* was killed and wherever a restart failed.
THEOREM StatusBindsLeaseHolds ==
  ASSUME T!Assumptions
  PROVE  T!Spec => [](T!TypeOK /\ T!StatusBindsLease)
<1>1. TInv => T!TypeOK /\ T!StatusBindsLease
  BY DEF TInv, Tree, BoundTo, T!StatusBindsLease
<1> QED BY <1>1, Topology, PTL

\* Two generations of one topology never live at once: the inherited lease names one of them.
THEOREM OneGenerationPerTreeHolds ==
  ASSUME T!Assumptions
  PROVE  T!Spec => []T!OneGenerationPerTree
<1>1. TInv => T!OneGenerationPerTree
  BY DEF TInv, Tree, Named, T!OneGenerationPerTree
<1> QED BY <1>1, Topology, PTL

\* What a down confirmed has no process and no lease, now or later.
THEOREM DownMeansGoneHolds ==
  ASSUME T!Assumptions
  PROVE  T!Spec => []T!DownMeansGone
<1>1. ASSUME NEW g \in T!Launches
      PROVE  T!Retains(g) => T!TreeHolders(g)
  BY DEF T!Retains, T!TreeHolders, T!Guarding, T!Watching
<1>2. TInv => T!DownMeansGone
  BY <1>1 DEF TInv, Tree, Gone, T!DownMeansGone
<1> QED BY <1>2, Topology, PTL

\* Two generations never hold one port, whoever looks for it and takes it when.
THEOREM PortExclusiveHolds ==
  ASSUME T!Assumptions
  PROVE  T!Spec => []T!PortExclusive
<1>1. TInv => T!PortExclusive
  BY DEF TInv, Ports
<1> QED BY <1>1, Topology, PTL

-----------------------------------------------------------------------------
(* Guardians and the state *)

\* The processes of a launch, once more: what each may do to guardian and services.
LEMMA ProcessFrame ==
  ASSUME T!Assumptions, TInv, NEW g \in T!Launches,
         \/ T!SupervisorStep(g) \/ T!SupervisorDies(g)
         \/ T!GuardianStep(g) \/ T!GuardianDies(g)
         \/ T!Relist(g) \/ T!Fork(g) \/ T!Leave(g) \/ T!Die(g)
  PROVE  Frame /\ Local(g)
BY SupervisorFrame, GuardianFrame, ServiceFrame

\* A command other than one that kills starts a supervisor at most.
LEMMA CommandSups ==
  ASSUME T!Assumptions, TInv, NEW c \in Commands,
         T!UpStep(c) \/ T!DownStep(c) \/ T!CommandDies(c), ~ T!ForceKill(c)
  PROVE  UNCHANGED <<kin, kids, doomed>> /\ SupMoves(c)
<1>1. CASE T!Launch(c)
  <2>1. /\ sup' = [sup EXCEPT ![cmd[c].g] = "boot"] /\ cmd[c].at = "bound"
        /\ UNCHANGED <<kin, kids, doomed>>
    BY <1>1 DEF T!Launch, T!Move
  <2> QED BY <2>1 DEF TInv, T!TypeOK, SupMoves
<1>2. CASE ~ T!Launch(c)
  <2>1. UNCHANGED <<sup, kin, kids, doomed>>
    BY <1>2
    DEF T!UpStep, T!DownStep, T!CommandDies, T!UpOpen, T!UpLockTree, T!PortLook, T!PortCreate,
        T!StateLock, T!Retire, T!BindLease, T!Return, T!Fail, T!RestoreLease, T!RestoreStatus,
        T!DownAsk, T!ForceOpen, T!DownConfirm, T!RestartOpen, T!DownGivesUp, T!ForceConfirm,
        T!actors
  <2> QED BY <2>1 DEF SupMoves
<1> QED BY <1>1, <1>2

\* What a kill from outside does to its target.
LEMMA ForceKills ==
  ASSUME TInv, NEW c \in Commands, T!ForceKill(c)
  PROVE  LET g == cmd[c].g
         IN  /\ g \in T!Launches
             /\ UNCHANGED <<cmd, of, kids, memory, named, status, told>>
             /\ sup'[g] = (IF T!Running(g) THEN "gone" ELSE sup[g])
             /\ kin'[g] = (IF T!Guarding(g) THEN "gone" ELSE kin[g])
             /\ doomed'[g] = doomed[g] \cup kids[g]
<1>1. cmd[c].g \in T!Launches
  BY DEF TInv, Tree, Subject, T!ForceKill
<1> QED BY <1>1 DEF T!ForceKill, TInv, T!TypeOK

\* A guardian that does anything has seen its supervisor go, and supervisors do not come back.
LEMMA WaitsKeep ==
  ASSUME T!Assumptions, TInv, AllWait, [T!Next]_T!vars
  PROVE  AllWait'
<1>1. ASSUME NEW g \in T!Launches,
             \/ T!SupervisorStep(g) \/ T!SupervisorDies(g)
             \/ T!GuardianStep(g) \/ T!GuardianDies(g)
             \/ T!Relist(g) \/ T!Fork(g) \/ T!Leave(g) \/ T!Die(g)
      PROVE  AllWait'
  <2>1. Local(g)
    BY <1>1, ProcessFrame
  <2>2. Waits(g) /\ T!TypeOK
    BY DEF AllWait, TInv
  <2>3. Waits(g)'
    <3>1. CASE T!SupervisorDies(g) \/ T!GuardianDies(g)
      BY <2>2, <3>1 DEF Waits, T!SupervisorDies, T!GuardianDies, T!TypeOK
    <3>2. CASE T!SupervisorStep(g)
      <4>1. sup[g] # "gone" /\ (kin'[g] = kin[g] \/ kin'[g] = "watch")
        BY <2>2, <3>2
        DEF T!SupervisorStep, T!StartGuardian, T!BootFails, T!Spawn, T!WriteStarting, T!Ready,
            T!StartFails, T!LeaveLoop, T!Terminate, T!TerminateAgain, T!Reap, T!RecordEnd,
            T!ReleaseResources, T!ReleaseTree, T!Become, T!TypeOK
      <4> QED BY <2>2, <4>1 DEF Waits
    <3>3. CASE T!GuardianStep(g)
      <4>1. sup[g] = "gone" /\ sup' = sup
        BY <2>2, <3>3
        DEF Waits, T!GuardianStep, T!GuardianWakes, T!GuardianKills, T!GuardianKillsAgain,
            T!GuardianWaits, T!GuardianReleases, T!GuardianEnds, T!Turn
      <4> QED BY <4>1 DEF Waits
    <3>4. CASE T!Relist(g) \/ T!Fork(g) \/ T!Leave(g) \/ T!Die(g)
      BY <2>2, <3>4 DEF Waits, T!Relist, T!Fork, T!Leave, T!Die
    <3> QED BY <1>1, <3>1, <3>2, <3>3, <3>4
  <2> QED BY <2>1, <2>3 DEF AllWait, Waits, Local
<1>2. ASSUME NEW c \in Commands, T!UpStep(c) \/ T!DownStep(c) \/ T!CommandDies(c)
      PROVE  AllWait'
  <2>1. CASE T!ForceKill(c)
    <3>1. Local(cmd[c].g) /\ cmd[c].g \in T!Launches
      BY <2>1, ForceFrame, ForceKills
    <3>2. sup[cmd[c].g] = "gone" => sup'[cmd[c].g] = "gone"
      BY <2>1, ForceKills DEF T!Running, T!Alive
    <3>3. kin'[cmd[c].g] = kin[cmd[c].g] \/ kin'[cmd[c].g] = "gone"
      BY <2>1, ForceKills
    <3> QED BY <3>1, <3>2, <3>3 DEF AllWait, Waits, Local
  <2>2. CASE ~ T!ForceKill(c)
    <3>1. UNCHANGED kin /\ SupMoves(c)
      BY <1>2, <2>2, CommandSups
    <3>2. cmd[c].at = "bound" => kin[cmd[c].g] = "none"
      BY DEF TInv, Tree, Young, Unborn, T!Preparing
    <3> QED BY <3>1, <3>2 DEF AllWait, Waits, SupMoves
  <2> QED BY <2>1, <2>2
<1>3. CASE UNCHANGED T!vars
  BY <1>3 DEF AllWait, Waits, T!vars
<1> QED BY <1>1, <1>2, <1>3 DEF T!Next

\* Who is served is watched, as long as no guardian is killed and no scan misses anybody.
LEMMA WatchedKeep ==
  ASSUME T!Assumptions, TInv, AllWait, AllWatched, [T!Next]_T!vars,
         {"guardian", "race"} \cap Faults = {}
  PROVE  AllWatched'
<1>1. ASSUME NEW g \in T!Launches,
             \/ T!SupervisorStep(g) \/ T!SupervisorDies(g)
             \/ T!GuardianStep(g) \/ T!GuardianDies(g)
             \/ T!Relist(g) \/ T!Fork(g) \/ T!Leave(g) \/ T!Die(g)
      PROVE  AllWatched'
  <2>1. Local(g)
    BY <1>1, ProcessFrame
  <2>2. Waits(g) /\ Watched(g) /\ Unborn(g) /\ T!TypeOK
    BY DEF AllWait, AllWatched, TInv, Tree
  <2>3. Watched(g)'
    <3>1. CASE T!StartGuardian(g)
      BY <2>2, <3>1 DEF Watched, T!StartGuardian, T!Become, T!TypeOK, T!Watching
    <3>2. CASE T!Spawn(g)
      <4>1. sup'[g] = "spawned" /\ kin'[g] = "watch"
        BY <2>2, <3>2 DEF Watched, T!Spawn, T!Become, T!TypeOK, T!Alive
      <4> QED BY <4>1 DEF Watched, T!Watching
    <3>3. CASE T!BootFails(g) \/ T!ReleaseTree(g) \/ T!SupervisorDies(g)
      <4>1. sup'[g] = "gone" /\ UNCHANGED <<kin, kids, doomed>>
        BY <2>2, <3>3 DEF T!BootFails, T!ReleaseTree, T!SupervisorDies, T!Become, T!TypeOK
      <4> QED BY <2>2, <4>1 DEF Watched, T!Alive
    <3>4. CASE \/ T!WriteStarting(g) \/ T!Ready(g) \/ T!StartFails(g) \/ T!LeaveLoop(g)
               \/ T!Terminate(g) \/ T!TerminateAgain(g) \/ T!Reap(g)
               \/ T!RecordEnd(g) \/ T!ReleaseResources(g)
      <4>1. sup[g] \in T!Alive \ {"boot"} /\ UNCHANGED <<kin, kids>>
        BY <3>4
        DEF T!WriteStarting, T!Ready, T!StartFails, T!LeaveLoop, T!Terminate, T!TerminateAgain,
            T!Reap, T!RecordEnd, T!ReleaseResources, T!Become, T!Alive
      <4>2. kin'[g] = "watch"
        BY <2>2, <4>1 DEF Watched
      <4> QED BY <4>2 DEF Watched, T!Watching
    <3>5. CASE \/ T!GuardianWakes(g) \/ T!GuardianKills(g) \/ T!GuardianKillsAgain(g)
               \/ T!GuardianWaits(g)
      <4>1. sup'[g] = "gone" /\ kin'[g] \in {"wait", "kill", "last"}
        BY <2>2, <3>5
        DEF Waits, T!GuardianWakes, T!GuardianKills, T!GuardianKillsAgain, T!GuardianWaits,
            T!Turn, T!TypeOK
      <4> QED BY <4>1 DEF Watched, T!Watching, T!Alive
    <3>6. CASE T!GuardianReleases(g) \/ T!GuardianEnds(g)
      <4>1. sup'[g] = "gone" /\ UNCHANGED <<kids, doomed>> /\ kids[g] \ doomed[g] = {}
        BY <2>2, <3>6
        DEF Waits, Watched, T!GuardianReleases, T!GuardianEnds, T!Turn, T!Absent, T!Watching
      <4> QED BY <4>1 DEF Watched, T!Alive
    <3>7. CASE T!Fork(g) \/ T!Leave(g) \/ T!Die(g) \/ T!Relist(g)
      <4>1. /\ UNCHANGED <<sup, kin, doomed>>
            /\ kids'[g] \ doomed[g] # {} => kids[g] \ doomed[g] # {}
        BY <2>2, <3>7 DEF T!Fork, T!Leave, T!Die, T!Relist, T!TypeOK
      <4> QED BY <2>2, <4>1 DEF Watched
    <3>8. ~ T!GuardianDies(g)
      BY DEF T!GuardianDies
    <3> QED BY <1>1, <3>1, <3>2, <3>3, <3>4, <3>5, <3>6, <3>7, <3>8
            DEF T!SupervisorStep, T!GuardianStep
  <2> QED BY <2>1, <2>3 DEF AllWatched, Watched, Local
<1>2. ASSUME NEW c \in Commands, T!UpStep(c) \/ T!DownStep(c) \/ T!CommandDies(c)
      PROVE  AllWatched'
  <2>1. CASE T!ForceKill(c)
    <3>1. PICK g \in T!Launches : g = cmd[c].g
      BY <2>1, ForceKills
    <3>2. Local(g)
      BY <2>1, <3>1, ForceFrame
    <3>3. /\ UNCHANGED kids /\ doomed'[g] = doomed[g] \cup kids[g]
          /\ sup'[g] = (IF T!Running(g) THEN "gone" ELSE sup[g])
      BY <2>1, <3>1, ForceKills
    <3>4. sup'[g] \notin T!Alive
      BY <3>3 DEF T!Running, T!Alive
    <3>5. Watched(g)'
      BY <3>3, <3>4 DEF Watched
    <3> QED BY <3>2, <3>5 DEF AllWatched, Watched, Local
  <2>2. CASE ~ T!ForceKill(c)
    <3>1. UNCHANGED <<kin, kids, doomed>> /\ SupMoves(c)
      BY <1>2, <2>2, CommandSups
    <3> QED BY <3>1 DEF AllWatched, Watched, SupMoves
  <2> QED BY <2>1, <2>2
<1>3. CASE UNCHANGED T!vars
  BY <1>3 DEF AllWatched, Watched, T!vars
<1> QED BY <1>1, <1>2, <1>3 DEF T!Next

LEMMA WatchedInit ==
  ASSUME T!Assumptions, T!Init
  PROVE  AllWait /\ AllWatched
BY DEF T!Init, AllWait, AllWatched, Waits, Watched, T!Alive

\* With its guardian alive, a launch keeps state, runtime and port leased while any of its
\* services runs, whatever became of the supervisor.
THEOREM GuardianOutlivesTreeHolds ==
  ASSUME T!Assumptions, {"guardian", "race"} \cap Faults = {}
  PROVE  T!Spec => []T!GuardianOutlivesTree
<1>1. TInv /\ AllWait /\ AllWatched /\ [T!Next]_T!vars => AllWait' /\ AllWatched'
  BY WaitsKeep, WatchedKeep
<1>2. AllWatched => T!GuardianOutlivesTree
  BY DEF AllWatched, Watched, T!GuardianOutlivesTree, T!Retains
<1> QED BY <1>1, <1>2, WatchedInit, Topology, PTL DEF T!Spec

\* And so no two servers ever run on the one state.
THEOREM StateExclusiveHolds ==
  ASSUME T!Assumptions, {"guardian", "race"} \cap Faults = {}
  PROVE  T!Spec => []T!StateExclusive
<1>1. TInv /\ AllWait /\ AllWatched /\ [T!Next]_T!vars => AllWait' /\ AllWatched'
  BY WaitsKeep, WatchedKeep
<1>2. TInv /\ AllWatched => T!StateExclusive
  <2> SUFFICES ASSUME TInv, AllWatched, NEW g \in T!Launches, NEW h \in T!Launches,
                      T!Serving(g), T!Serving(h)
               PROVE  g = h
    BY DEF T!StateExclusive
  <2>1. T!Retains(g) /\ T!Retains(h)
    BY DEF AllWatched, Watched, T!Serving, T!Retains
  <2> QED BY <2>1 DEF TInv, States
<1> QED BY <1>1, <1>2, WatchedInit, Topology, PTL DEF T!Spec

-----------------------------------------------------------------------------
(* A clean end *)

\* Who has nobody left, and is not about to start a service, is neither killed nor has anybody.
LEMMA UnharmedKeeps ==
  ASSUME T!Assumptions, TInv, NEW g \in T!Launches, "race" \notin Faults,
         \/ T!SupervisorStep(g) \/ T!SupervisorDies(g)
         \/ T!GuardianStep(g) \/ T!GuardianDies(g)
         \/ T!Relist(g) \/ T!Fork(g) \/ T!Leave(g) \/ T!Die(g),
         Unharmed(g), sup[g] # "guarded"
  PROVE  Unharmed(g)'
<1>1. T!TypeOK /\ T!Seen(g) = {}
  BY DEF TInv, Unharmed, T!Seen
<1>2. CASE T!Terminate(g) \/ T!TerminateAgain(g) \/ T!GuardianKills(g) \/ T!GuardianKillsAgain(g)
  <2>1. doomed' = [doomed EXCEPT ![g] = doomed[g] \cup T!Seen(g)] /\ UNCHANGED kids
    BY <1>2 DEF T!Terminate, T!TerminateAgain, T!GuardianKills, T!GuardianKillsAgain, T!Kill
  <2> QED BY <1>1, <2>1 DEF T!TypeOK, Unharmed
<1>3. CASE T!Fork(g) \/ T!Leave(g) \/ T!Die(g)
  BY <1>3 DEF T!Fork, T!Leave, T!Die, Unharmed
<1>4. CASE ~ (\/ T!Terminate(g) \/ T!TerminateAgain(g)
              \/ T!GuardianKills(g) \/ T!GuardianKillsAgain(g)
              \/ T!Fork(g) \/ T!Leave(g) \/ T!Die(g))
  <2>1. UNCHANGED <<kids, doomed>>
    BY <1>4
    DEF T!SupervisorStep, T!SupervisorDies, T!GuardianStep, T!GuardianDies, T!Relist,
        T!StartGuardian, T!BootFails, T!Spawn, T!WriteStarting, T!Ready, T!StartFails,
        T!LeaveLoop, T!Reap, T!RecordEnd, T!ReleaseResources, T!ReleaseTree, T!GuardianWakes,
        T!GuardianWaits, T!GuardianReleases, T!GuardianEnds, T!Become
  <2> QED BY <2>1 DEF Unharmed
<1> QED BY <1>2, <1>3, <1>4

\* What is known of a launch itself, after a step of its own processes.
LEMMA SparedKeeps ==
  ASSUME T!Assumptions, TInv, AllWait, AllClean, NEW g \in T!Launches, "race" \notin Faults,
         \/ T!SupervisorStep(g) \/ T!SupervisorDies(g)
         \/ T!GuardianStep(g) \/ T!GuardianDies(g)
         \/ T!Relist(g) \/ T!Fork(g) \/ T!Leave(g) \/ T!Die(g)
  PROVE  Spared(g)'
<1>1. Waits(g) /\ Spared(g) /\ Gone(g) /\ T!TypeOK
  BY DEF AllWait, AllClean, TInv, Tree
<1>2. UNCHANGED told
  BY ProcessFrame DEF Frame
<1>3. memory \in [T!Launches -> MemoryKind]
  BY <1>1 DEF T!TypeOK, MemoryKind
<1>4. told'[g] = "clean" => Unharmed(g)'
  <2>1. told[g] = "clean" => sup[g] # "guarded"
    BY <1>1 DEF Gone, T!TreeHolders, T!Running, T!Alive
  <2> QED BY <1>1, <1>2, <2>1, UnharmedKeeps DEF Spared
<1>5. CASE \/ T!StartGuardian(g) \/ T!Spawn(g) \/ T!WriteStarting(g) \/ T!Ready(g)
           \/ T!StartFails(g) \/ T!LeaveLoop(g)
  <2>1. /\ sup[g] \in T!Alive \ (Ended \cup Ending) /\ UNCHANGED doomed
        /\ sup'[g] \notin Ending
    BY <1>1, <1>5
    DEF T!StartGuardian, T!Spawn, T!WriteStarting, T!Ready, T!StartFails, T!LeaveLoop, T!Become,
        T!Alive, Ended, Ending, T!TypeOK
  <2> QED BY <1>1, <1>4, <2>1 DEF Spared
<1>6. CASE T!Terminate(g)
  <2>1. /\ sup[g] = "terminating" /\ sup'[g] = "killing" /\ UNCHANGED kids
        /\ doomed'[g] = doomed[g] \cup kids[g] /\ memory'[g].dirty = ~ T!Absent(g)
    BY <1>1, <1>3, <1>6 DEF T!Terminate, T!Become, T!Kill, T!Seen, T!TypeOK, MemoryKind
  <2>2. doomed[g] = {}
    BY <1>1, <2>1 DEF Spared, T!Alive, Ended, Ending
  <2> QED BY <1>4, <2>1, <2>2 DEF Spared, Unharmed, T!Absent, Ending
<1>7. CASE T!TerminateAgain(g)
  <2>1. sup[g] = "killing" /\ UNCHANGED <<sup, memory>>
    BY <1>7 DEF T!TerminateAgain
  <2>2. ~ memory[g].dirty => Unharmed(g)'
    BY <1>1, <1>7, <2>1, UnharmedKeeps DEF Spared, Ending, T!SupervisorStep
  <2> QED BY <1>4, <2>1, <2>2 DEF Spared, Ending
<1>8. CASE T!Reap(g)
  <2>1. /\ sup[g] = "killing" /\ sup'[g] = "recording" /\ UNCHANGED <<kids, doomed>>
        /\ memory[g].dirty => memory'[g].dirty
    BY <1>1, <1>3, <1>8 DEF T!Reap, T!Become, T!TypeOK, MemoryKind
  <2> QED BY <1>1, <1>4, <2>1 DEF Spared, Unharmed, Ending
<1>9. CASE \/ T!RecordEnd(g) \/ T!ReleaseResources(g) \/ T!ReleaseTree(g)
           \/ T!BootFails(g) \/ T!SupervisorDies(g)
  <2>1. sup'[g] \in Ended \cup {"gone"}
    BY <1>1, <1>9
    DEF T!RecordEnd, T!ReleaseResources, T!ReleaseTree, T!BootFails, T!SupervisorDies, T!Become,
        Ended, T!TypeOK
  <2> QED BY <1>4, <2>1 DEF Spared, Ended, Ending, T!Alive
<1>10. CASE T!GuardianStep(g)
  <2>1. sup'[g] = "gone"
    BY <1>1, <1>10
    DEF Waits, T!GuardianStep, T!GuardianWakes, T!GuardianKills, T!GuardianKillsAgain,
        T!GuardianWaits, T!GuardianReleases, T!GuardianEnds, T!Turn
  <2> QED BY <1>4, <2>1 DEF Spared, Ending, T!Alive
<1>11. CASE T!GuardianDies(g) \/ T!Relist(g) \/ T!Fork(g) \/ T!Leave(g) \/ T!Die(g)
  <2>1. UNCHANGED <<sup, doomed, memory>>
    BY <1>11 DEF T!GuardianDies, T!Relist, T!Fork, T!Leave, T!Die
  <2>2. sup[g] \in Ending /\ ~ memory[g].dirty => Unharmed(g)'
    BY <1>1, <1>11, UnharmedKeeps DEF Spared, Ending
  <2> QED BY <1>1, <1>4, <2>1, <2>2 DEF Spared
<1> QED BY <1>5, <1>6, <1>7, <1>8, <1>9, <1>10, <1>11 DEF T!SupervisorStep

LEMMA CleanProcesses ==
  ASSUME T!Assumptions, TInv, AllWait, AllClean, NEW g \in T!Launches, "race" \notin Faults,
         \/ T!SupervisorStep(g) \/ T!SupervisorDies(g)
         \/ T!GuardianStep(g) \/ T!GuardianDies(g)
         \/ T!Relist(g) \/ T!Fork(g) \/ T!Leave(g) \/ T!Die(g)
  PROVE  AllClean'
<1>1. Frame /\ Local(g)
  BY ProcessFrame
<1>2. T!TypeOK /\ Waits(g) /\ Spared(g)
  BY DEF TInv, AllWait, AllClean
<1>3. ASSUME NEW h \in T!Launches
      PROVE  Spared(h)'
  <2>1. CASE h = g
    BY <2>1, SparedKeeps
  <2>2. CASE h # g
    <3>1. memory'[h] = memory[h]
      BY <1>2, <2>2
      DEF T!SupervisorStep, T!SupervisorDies, T!GuardianStep, T!GuardianDies, T!Relist, T!Fork,
          T!Leave, T!Die, T!StartGuardian, T!BootFails, T!Spawn, T!WriteStarting, T!Ready,
          T!StartFails, T!LeaveLoop, T!Terminate, T!TerminateAgain, T!Reap, T!RecordEnd,
          T!ReleaseResources, T!ReleaseTree, T!GuardianWakes, T!GuardianKills,
          T!GuardianKillsAgain, T!GuardianWaits, T!GuardianReleases, T!GuardianEnds, T!TypeOK
    <3> QED BY <1>1, <2>2, <3>1 DEF AllClean, Spared, Unharmed, Local
  <2> QED BY <2>1, <2>2
<1>4. ASSUME NEW h \in T!Launches, Unharmed(h), sup[h] \notin T!Alive \ Ended
      PROVE  Unharmed(h)' /\ sup'[h] \notin T!Alive \ Ended
  <2>1. CASE h # g
    BY <1>1, <1>4, <2>1 DEF Local, Unharmed
  <2>2. CASE h = g
    <3>1. Unharmed(g)'
      BY <1>4, <2>2, UnharmedKeeps DEF T!Alive, Ended
    <3>2. CASE sup' = sup
      BY <1>4, <2>2, <3>1, <3>2
    <3>3. CASE sup' # sup
      <4>1. T!SupervisorStep(g) \/ T!SupervisorDies(g)
        BY <3>3
        DEF T!GuardianStep, T!GuardianDies, T!Relist, T!Fork, T!Leave, T!Die, T!GuardianWakes,
            T!GuardianKills, T!GuardianKillsAgain, T!GuardianWaits, T!GuardianReleases,
            T!GuardianEnds
      <4>2. T!ReleaseResources(g) \/ T!ReleaseTree(g) \/ T!SupervisorDies(g)
        BY <1>4, <2>2, <3>3, <4>1
        DEF T!SupervisorStep, T!StartGuardian, T!BootFails, T!Spawn, T!WriteStarting, T!Ready,
            T!StartFails, T!LeaveLoop, T!Terminate, T!TerminateAgain, T!Reap, T!RecordEnd,
            T!Become, T!Alive, Ended
      <4>3. sup'[g] \in {"released", "gone"}
        BY <1>2, <4>2 DEF T!ReleaseResources, T!ReleaseTree, T!SupervisorDies, T!Become, T!TypeOK
      <4> QED BY <2>2, <3>1, <4>3 DEF T!Alive, Ended
    <3> QED BY <3>2, <3>3
  <2> QED BY <2>1, <2>2
<1>5. ASSUME NEW t \in Topologies
      PROVE  Clean(t)'
  <2>1. Clean(t)
    BY DEF AllClean
  <2>2. CASE status'[t] = status[t]
    <3> SUFFICES ASSUME status[t].clean
                 PROVE  Clean(t)'
      BY <2>2 DEF Clean
    <3>1. PICK h \in T!Launches : h = status[t].gen
      BY <1>2, <2>1, LaunchesAre DEF Clean, T!TypeOK
    <3> QED BY <1>4, <2>1, <2>2, <3>1 DEF Clean, Unharmed
  <2>3. CASE status'[t] # status[t]
    <3> DEFINE end == [gen |-> g, stopped |-> TRUE, requested |-> memory[g].requested,
                       clean |-> memory[g].requested /\ ~memory[g].dirty /\ ~memory[g].error,
                       error |-> memory[g].error]
    <3>1. PICK fields : status' = [status EXCEPT ![of[g]] = fields]
                        /\ (fields.clean => T!RecordEnd(g) /\ fields = end)
      <4>1. CASE T!WriteStarting(g)
        <5>1. ~ T!Current(g).clean
          BY DEF T!Current, T!NoStatus
        <5> QED BY <4>1, <5>1 DEF T!WriteStarting, T!Write
      <4>2. CASE T!StartFails(g)
        <5>1. ~ [T!Current(g) EXCEPT !.error = TRUE].clean
          BY DEF T!Current, T!NoStatus
        <5> QED BY <4>2, <5>1 DEF T!StartFails, T!Write
      <4>3. CASE T!RecordEnd(g)
        BY <4>3 DEF T!RecordEnd, T!Write
      <4>4. CASE ~ (T!WriteStarting(g) \/ T!StartFails(g) \/ T!RecordEnd(g))
        <5>1. UNCHANGED status
          BY <4>4
          DEF T!SupervisorStep, T!SupervisorDies, T!GuardianStep, T!GuardianDies, T!Relist,
              T!Fork, T!Leave, T!Die, T!StartGuardian, T!BootFails, T!Spawn, T!Ready,
              T!LeaveLoop, T!Terminate, T!TerminateAgain, T!Reap, T!ReleaseResources,
              T!ReleaseTree, T!GuardianWakes, T!GuardianKills, T!GuardianKillsAgain,
              T!GuardianWaits, T!GuardianReleases, T!GuardianEnds
        <5> QED BY <2>3, <5>1
      <4> QED BY <4>1, <4>2, <4>3, <4>4
    <3>2. t = of[g] /\ status'[t] = fields
      BY <1>2, <2>3, <3>1 DEF T!TypeOK
    <3>3. CASE fields.clean
      <4>1. T!RecordEnd(g) /\ fields = end
        BY <3>1, <3>3
      <4>2. fields.gen = g /\ ~ memory[g].dirty
        BY <3>3, <4>1
      <4>3. sup[g] = "recording" /\ sup'[g] = "recorded" /\ UNCHANGED <<kids, doomed>>
        BY <1>2, <4>1 DEF T!RecordEnd, T!Become, T!TypeOK
      <4>4. Unharmed(g)'
        BY <1>2, <4>2, <4>3 DEF Spared, Ending, Unharmed
      <4>5. g # T!NoLaunch
        BY LaunchesAre
      <4> QED BY <3>2, <4>2, <4>3, <4>4, <4>5 DEF Clean, Unharmed, Ended
    <3>4. CASE ~ fields.clean
      BY <3>2, <3>4 DEF Clean
    <3> QED BY <3>3, <3>4
  <2> QED BY <2>2, <2>3
<1>6. ASSUME NEW c \in Commands
      PROVE  Asked(c)' /\ CleanBack(c)'
  BY <1>1 DEF AllClean, Asked, CleanBack, Frame
<1> QED BY <1>3, <1>5, <1>6 DEF AllClean

\* The commands that go from one station to the next, end, or become something else.
Stays(c) ==
  /\ cmd[c].at \notin {"idle", "asked"} /\ cmd'[c].at # "asked"
  /\ cmd'[c].restart = cmd[c].restart /\ told' = told
Begins(c) == cmd'[c].at # "asked" /\ cmd'[c].restart = T!NoLaunch

LEMMA CommandFacts ==
  ASSUME T!Assumptions, TInv, NEW c \in Commands,
         T!UpStep(c) \/ T!DownStep(c) \/ T!CommandDies(c), ~ T!ForceKill(c)
  PROVE  /\ \A d \in Commands : d # c => cmd'[d] = cmd[d]
         /\ ToldMoves(c) /\ LeaseMoves(c)
<1>0. T!TypeOK
  BY DEF TInv
<1>1. \A d \in Commands : d # c => cmd'[d] = cmd[d]
  <2>1. CASE T!PortLook(c) \/ T!PortCreate(c) \/ T!StateLock(c) \/ T!Launch(c)
    <3>1. PICK station \in T!Stations : cmd' = [cmd EXCEPT ![c].at = station]
      BY <2>1 DEF T!PortLook, T!PortCreate, T!StateLock, T!Launch, T!Move, T!Stations, T!Preparing
    <3> QED BY <1>0, <3>1, Goes DEF Went
  <2>2. CASE ~ (T!PortLook(c) \/ T!PortCreate(c) \/ T!StateLock(c) \/ T!Launch(c))
    BY <2>2, CalmSteps DEF Calm, T!UpStep, T!DownStep
  <2> QED BY <2>1, <2>2
<1>2. ToldMoves(c)
  <2>1. CASE T!DownConfirm(c) \/ T!RestartOpen(c)
    BY <2>1, OverIsGone, Reports DEF T!DownConfirm, T!RestartOpen
  <2>2. CASE T!ForceConfirm(c)
    BY <2>2, Reports DEF T!ForceConfirm
  <2>3. CASE ~ (T!DownConfirm(c) \/ T!RestartOpen(c) \/ T!ForceConfirm(c))
    <3>1. UNCHANGED told
      BY <2>3
      DEF T!UpStep, T!DownStep, T!CommandDies, T!UpOpen, T!UpLockTree, T!PortLook, T!PortCreate,
          T!StateLock, T!Retire, T!BindLease, T!Launch, T!Return, T!Fail, T!RestoreLease,
          T!RestoreStatus, T!DownAsk, T!ForceOpen, T!DownGivesUp
    <3> QED BY <3>1 DEF ToldMoves
  <2> QED BY <2>1, <2>2, <2>3
<1>3. LeaseMoves(c)
  <2>1. CASE T!BindLease(c) \/ T!RestoreLease(c)
    BY <1>0, <2>1 DEF T!BindLease, T!RestoreLease, T!Move, LeaseMoves, T!TypeOK
  <2>2. CASE ~ (T!BindLease(c) \/ T!RestoreLease(c))
    <3>1. UNCHANGED named
      BY <2>2
      DEF T!UpStep, T!DownStep, T!CommandDies, T!UpOpen, T!UpLockTree, T!PortLook, T!PortCreate,
          T!StateLock, T!Retire, T!Launch, T!Return, T!Fail, T!RestoreStatus, T!DownAsk,
          T!ForceOpen, T!DownConfirm, T!RestartOpen, T!DownGivesUp, T!ForceConfirm
    <3> QED BY <3>1 DEF LeaseMoves
  <2> QED BY <2>1, <2>2
<1> QED BY <1>1, <1>2, <1>3

\* A stop that looks clean is about a launch that was never killed.
LEMMA CleanlyOverIsUnharmed ==
  ASSUME TInv, AllClean, NEW c \in Commands, cmd[c].at = "asked", T!CleanlyOver(c)
  PROVE  Unharmed(cmd[c].g)
<1>1. cmd[c].t \in Topologies /\ named[cmd[c].t] = cmd[c].g
  BY DEF TInv, T!TypeOK, AllClean, Asked
<1>2. Clean(cmd[c].t) /\ BoundTo(cmd[c].t) /\ status[cmd[c].t].clean
  BY <1>1 DEF TInv, Tree, AllClean, T!CleanlyOver
<1> QED BY <1>1, <1>2 DEF Clean, BoundTo

\* What the command itself claims of a restart, after its step.
LEMMA CleanOwn ==
  ASSUME T!Assumptions, TInv, AllClean, NEW c \in Commands,
         T!UpStep(c) \/ T!DownStep(c) \/ T!CommandDies(c), ~ T!ForceKill(c)
  PROVE  Asked(c)' /\ CleanBack(c)'
<1>0. T!TypeOK /\ CleanBack(c) /\ Asked(c) /\ cmd[c] \in CmdKind
  BY DEF TInv, AllClean, T!TypeOK, CmdKind
<1>1. CASE cmd'[c].at = "idle"
  BY <1>1 DEF Asked, CleanBack
<1>2. CASE Stays(c)
  BY <1>0, <1>2 DEF Stays, Asked, CleanBack
<1>3. CASE Begins(c)
  BY <1>3 DEF Begins, Asked, CleanBack
<1>4. CASE \/ T!Return(c) \/ T!RestoreStatus(c) \/ T!CommandDies(c) \/ T!DownConfirm(c)
           \/ T!DownGivesUp(c) \/ T!ForceConfirm(c)
  <2>1. cmd' = [cmd EXCEPT ![c] = T!Idle]
    BY <1>4 DEF T!Return, T!RestoreStatus, T!CommandDies, T!DownConfirm, T!DownGivesUp,
                T!ForceConfirm
  <2>2. cmd'[c].at = "idle"
    BY <1>0, <2>1, IdleIs, Becomes DEF Became
  <2> QED BY <1>1, <2>2
<1>5. CASE \/ T!UpLockTree(c) \/ T!PortLook(c) \/ T!PortCreate(c) \/ T!StateLock(c) \/ T!Retire(c)
           \/ T!BindLease(c) \/ T!Launch(c) \/ T!RestoreLease(c)
  <2>1. PICK station \in T!Stations \ {"asked"} : cmd' = [cmd EXCEPT ![c].at = station]
    BY <1>5
    DEF T!UpLockTree, T!PortLook, T!PortCreate, T!StateLock, T!Retire, T!BindLease, T!Launch,
        T!RestoreLease, T!Move, T!Stations, T!Preparing, T!Restoring
  <2>2. Went(c, station)
    BY <1>0, <2>1, Goes
  <2>3. cmd[c].at \notin {"idle", "asked"} /\ told' = told
    BY <1>5
    DEF T!UpLockTree, T!PortLook, T!PortCreate, T!StateLock, T!Retire, T!BindLease, T!Launch,
        T!RestoreLease, T!Move
  <2> QED BY <1>2, <2>2, <2>3 DEF Stays, Went
<1>6. CASE T!Fail(c)
  <2>1. cmd[c].at \notin {"idle", "asked"} /\ told' = told
    BY <1>6 DEF T!Fail, T!Preparing
  <2>2. CASE cmd[c].restart # T!NoLaunch /\ cmd[c].at \in {"retired", "bound"}
    <3>1. Went(c, "unwinding")
      BY <1>0, <1>6, <2>2, Goes DEF T!Fail, T!Stations, T!Restoring
    <3> QED BY <1>2, <2>1, <3>1 DEF Stays, Went
  <2>3. CASE ~ (cmd[c].restart # T!NoLaunch /\ cmd[c].at \in {"retired", "bound"})
    <3>1. cmd'[c].at = "idle"
      BY <1>0, <1>6, <2>3, IdleIs, Becomes DEF T!Fail, Became
    <3> QED BY <1>1, <3>1
  <2> QED BY <2>2, <2>3
<1>7. CASE \E t \in Topologies : T!UpOpen(c, t)
  <2>1. PICK t \in Topologies : T!UpOpen(c, t)
    BY <1>7
  <2>2. [T!Idle EXCEPT !.at = "opened", !.t = t, !.g = T!Next1] = cmd'[c]
    BY <1>0, <2>1 DEF T!UpOpen, T!TypeOK
  <2>3. cmd'[c].at = "opened" /\ cmd'[c].restart = T!Idle.restart
    BY <2>2, IdleIs DEF CmdKind
  <2> QED BY <1>3, <2>3, IdleIs DEF Begins, T!NoLaunch
<1>8. CASE \E t \in Topologies : T!ForceOpen(c, t)
  <2>1. PICK t \in Topologies : T!ForceOpen(c, t)
    BY <1>8
  <2>2. [T!Idle EXCEPT !.at = "forcing", !.t = t, !.g = named[t]] = cmd'[c]
    BY <1>0, <2>1 DEF T!ForceOpen, T!TypeOK
  <2>3. cmd'[c].at = "forcing" /\ cmd'[c].restart = T!Idle.restart
    BY <2>2, IdleIs DEF CmdKind
  <2> QED BY <1>3, <2>3, IdleIs DEF Begins, T!NoLaunch
<1>9. CASE \E t \in Topologies, restart \in BOOLEAN : T!DownAsk(c, t, restart)
  <2>1. PICK t \in Topologies, restart \in BOOLEAN : T!DownAsk(c, t, restart)
    BY <1>9
  <2> DEFINE g == status[t].gen
             r(heard) == [at |-> "asked", t |-> t, g |-> g,
                          restart |-> IF restart THEN g ELSE T!NoLaunch, heard |-> heard]
  <2>2. PICK heard \in BOOLEAN : cmd' = [cmd EXCEPT ![c] = r(heard)]
    BY <2>1 DEF T!DownAsk
  <2>3. cmd'[c] = r(heard)
    BY <1>0, <2>2 DEF T!TypeOK
  <2>4. named[t] = g /\ UNCHANGED named
    BY <2>1 DEF T!DownAsk, TInv, Tree, BoundTo
  <2>5. /\ cmd'[c].at = "asked" /\ cmd'[c].t = t /\ cmd'[c].g = g
        /\ cmd'[c].restart # T!NoLaunch => cmd'[c].restart = g
    BY <2>3
  <2> HIDE DEF r
  <2> QED BY <2>4, <2>5 DEF Asked, CleanBack
<1>10. CASE T!RestartOpen(c)
  <2>1. [cmd[c] EXCEPT !.at = "opened", !.g = T!Next1, !.heard = FALSE] = cmd'[c]
    BY <1>0, <1>10 DEF T!RestartOpen, T!TypeOK
  <2>2. cmd'[c].at = "opened" /\ cmd'[c].restart = cmd[c].restart
    BY <1>0, <2>1 DEF CmdKind
  <2>3. cmd[c].g \in T!Launches /\ told' = [told EXCEPT ![cmd[c].g] = "clean"]
        /\ cmd[c].restart = cmd[c].g
    BY <1>0, <1>10, OverIsGone DEF T!RestartOpen, Asked
  <2>4. told'[cmd[c].restart] = "clean"
    BY <1>0, <2>3 DEF T!TypeOK
  <2> QED BY <2>2, <2>4 DEF Asked, CleanBack
<1> QED BY <1>4, <1>5, <1>6, <1>7, <1>8, <1>9, <1>10 DEF T!UpStep, T!DownStep

LEMMA CleanKill ==
  ASSUME T!Assumptions, TInv, AllClean, NEW c \in Commands, T!ForceKill(c)
  PROVE  AllClean'
<1>1. PICK g \in T!Launches : g = cmd[c].g
  BY ForceKills
<1>2. /\ Local(g) /\ UNCHANGED <<cmd, kids, memory, named, status, told>>
      /\ doomed'[g] = doomed[g] \cup kids[g]
      /\ sup'[g] = (IF T!Running(g) THEN "gone" ELSE sup[g])
  BY <1>1, ForceKills, ForceFrame
<1>3. sup'[g] \notin T!Alive
  BY <1>2 DEF T!Running, T!Alive
<1>4. \A h \in T!Launches : Unharmed(h) => Unharmed(h)'
  BY <1>2 DEF Unharmed, Local
<1>5. \A h \in T!Launches : sup'[h] \in T!Alive => sup'[h] = sup[h] /\ doomed'[h] = doomed[h]
  BY <1>2, <1>3 DEF Local
<1>6. ASSUME NEW h \in T!Launches
      PROVE  Spared(h)'
  <2>1. Spared(h)
    BY DEF AllClean
  <2>2. sup'[h] \in Ending => sup'[h] \in T!Alive
    BY DEF Ending, T!Alive
  <2> QED BY <1>2, <1>4, <1>5, <2>1, <2>2 DEF Spared
<1>7. ASSUME NEW t \in Topologies
      PROVE  Clean(t)'
  <2>1. Clean(t) /\ status[t].gen \in 0..MaxLaunch
    BY DEF AllClean, TInv, T!TypeOK
  <2> SUFFICES ASSUME status[t].clean
               PROVE  Clean(t)'
    BY <1>2 DEF Clean
  <2>2. PICK h \in T!Launches : h = status[t].gen
    BY <2>1, LaunchesAre DEF Clean
  <2> QED BY <1>2, <1>4, <1>5, <2>1, <2>2, LaunchesAre DEF Clean, Unharmed
<1>8. ASSUME NEW d \in Commands
      PROVE  Asked(d)' /\ CleanBack(d)'
  BY <1>2 DEF AllClean, Asked, CleanBack
<1> QED BY <1>6, <1>7, <1>8 DEF AllClean

LEMMA CleanCommands ==
  ASSUME T!Assumptions, TInv, AllClean, NEW c \in Commands,
         T!UpStep(c) \/ T!DownStep(c) \/ T!CommandDies(c), ~ T!ForceKill(c)
  PROVE  AllClean'
<1>0. T!TypeOK
  BY DEF TInv
<1>1. /\ UNCHANGED <<kin, kids, doomed>> /\ SupMoves(c) /\ ToldMoves(c) /\ LeaseMoves(c)
      /\ \A d \in Commands : d # c => cmd'[d] = cmd[d]
  BY CommandSups, CommandFacts
<1>2. \A g \in T!Launches : (Unharmed(g)' <=> Unharmed(g))
  BY <1>1 DEF Unharmed
<1>3. cmd[c].at = "bound" =>
        sup[cmd[c].g] = "none" /\ doomed[cmd[c].g] = {} /\ told[cmd[c].g] = "nothing"
  BY DEF TInv, Tree, Young, Unborn, T!Preparing
<1>4. ASSUME NEW g \in T!Launches, told'[g] = "clean"
      PROVE  Unharmed(g)
  <2>1. CASE told[g] = "clean"
    BY <2>1 DEF AllClean, Spared
  <2>2. CASE told[g] # "clean"
    <3>1. CASE T!DownConfirm(c) \/ T!RestartOpen(c)
      <4>1. /\ cmd[c].at = "asked"
            /\ T!CleanlyOver(c) \/ told' = [told EXCEPT ![cmd[c].g] = "stopped"]
            /\ \E answer \in {"stopped", "clean"} : told' = [told EXCEPT ![cmd[c].g] = answer]
        BY <3>1 DEF T!DownConfirm, T!RestartOpen
      <4>2. g = cmd[c].g /\ T!CleanlyOver(c)
        BY <1>0, <1>4, <2>2, <4>1 DEF T!TypeOK
      <4> QED BY <4>1, <4>2, CleanlyOverIsUnharmed
    <3>2. CASE T!ForceConfirm(c)
      BY <1>0, <1>4, <2>2, <3>2 DEF T!ForceConfirm, T!TypeOK
    <3>3. CASE ~ (T!DownConfirm(c) \/ T!RestartOpen(c) \/ T!ForceConfirm(c))
      <4>1. UNCHANGED told
        BY <3>3
        DEF T!UpStep, T!DownStep, T!CommandDies, T!UpOpen, T!UpLockTree, T!PortLook,
            T!PortCreate, T!StateLock, T!Retire, T!BindLease, T!Launch, T!Return, T!Fail,
            T!RestoreLease, T!RestoreStatus, T!DownAsk, T!ForceOpen, T!DownGivesUp
      <4> QED BY <1>4, <2>2, <4>1
    <3> QED BY <3>1, <3>2, <3>3
  <2> QED BY <2>1, <2>2
<1>5. ASSUME NEW g \in T!Launches
      PROVE  memory'[g].dirty = memory[g].dirty
  <2>1. CASE \E t \in Topologies, restart \in BOOLEAN : T!DownAsk(c, t, restart)
    <3>1. PICK h, b : memory' = [memory EXCEPT ![h].requested = b]
      BY <2>1 DEF T!DownAsk
    <3>2. memory \in [T!Launches -> MemoryKind]
      BY <1>0 DEF T!TypeOK, MemoryKind
    <3> QED BY <3>1, <3>2 DEF MemoryKind
  <2>2. CASE ~ \E t \in Topologies, restart \in BOOLEAN : T!DownAsk(c, t, restart)
    <3>1. UNCHANGED memory
      BY <2>2
      DEF T!UpStep, T!DownStep, T!CommandDies, T!UpOpen, T!UpLockTree, T!PortLook, T!PortCreate,
          T!StateLock, T!Retire, T!BindLease, T!Launch, T!Return, T!Fail, T!RestoreLease,
          T!RestoreStatus, T!ForceOpen, T!DownConfirm, T!RestartOpen, T!DownGivesUp,
          T!ForceConfirm, T!actors
    <3> QED BY <3>1
  <2> QED BY <2>1, <2>2
<1>6. ASSUME NEW g \in T!Launches
      PROVE  Spared(g)'
  <2>1. Spared(g)
    BY DEF AllClean
  <2>2. CASE sup'[g] = sup[g]
    BY <1>1, <1>2, <1>4, <1>5, <2>1, <2>2 DEF Spared
  <2>3. CASE cmd[c].at = "bound" /\ g = cmd[c].g /\ sup'[g] = "boot"
    BY <1>1, <1>2, <1>3, <1>4, <2>3 DEF Spared, Ending
  <2> QED BY <1>1, <2>2, <2>3 DEF SupMoves
<1>7. ASSUME NEW g \in T!Launches, Unharmed(g), sup[g] \notin T!Alive \ Ended, sup[g] # "none"
      PROVE  Unharmed(g)' /\ sup'[g] \notin T!Alive \ Ended
  BY <1>1, <1>2, <1>3, <1>7 DEF SupMoves
<1>8. ASSUME NEW t \in Topologies
      PROVE  Clean(t)'
  <2>1. Clean(t) /\ BoundTo(t) /\ status[t].gen \in 0..MaxLaunch
    BY <1>0 DEF AllClean, TInv, Tree, T!TypeOK
  <2>2. CASE status'[t] = status[t]
    <3> SUFFICES ASSUME status[t].clean
                 PROVE  Clean(t)'
      BY <2>2 DEF Clean
    <3>1. PICK g \in T!Launches : g = status[t].gen
      BY <2>1, LaunchesAre DEF Clean
    <3>2. Unharmed(g) /\ sup[g] \notin T!Alive \ Ended /\ sup[g] # "none" /\ g # T!NoLaunch
      BY <2>1, <3>1, LaunchesAre DEF Clean, BoundTo
    <3>3. Unharmed(g)' /\ sup'[g] \notin T!Alive \ Ended
      BY <1>7, <3>2
    <3> QED BY <2>2, <3>1, <3>2, <3>3 DEF Clean, Unharmed
  <2>3. CASE status'[t] # status[t]
    <3>1. CASE T!Retire(c)
      BY <1>0, <2>3, <3>1 DEF T!Retire, Clean, T!NoStatus, T!TypeOK
    <3>2. CASE T!RestoreStatus(c)
      <4> DEFINE back == [gen |-> cmd[c].restart, stopped |-> TRUE, requested |-> TRUE,
                          clean |-> TRUE, error |-> FALSE]
      <4>1. t = cmd[c].t /\ status'[t] = back /\ cmd[c].at = "rebound"
        BY <1>0, <2>3, <3>2 DEF T!RestoreStatus, T!TypeOK
      <4>2. back.gen = cmd[c].restart /\ cmd[c].restart \in 0..MaxLaunch
        BY <1>0 DEF T!TypeOK
      <4> HIDE DEF back
      <4>3. cmd[c].restart # T!NoLaunch /\ told[cmd[c].restart] = "clean"
        BY <4>1 DEF TInv, Tree, Back, T!Restoring, AllClean, CleanBack
      <4>4. PICK g \in T!Launches : g = cmd[c].restart
        BY <4>2, <4>3, LaunchesAre
      <4>5. Unharmed(g) /\ ~ T!Running(g) /\ sup[g] # "none"
        BY <4>1, <4>3, <4>4 DEF AllClean, Spared, TInv, Tree, Gone, T!TreeHolders, Back
      <4>6. Unharmed(g)' /\ sup'[g] \notin T!Alive \ Ended
        BY <1>7, <4>5 DEF T!Running
      <4> QED BY <4>1, <4>2, <4>3, <4>4, <4>6 DEF Clean, Unharmed
    <3>3. CASE ~ (T!Retire(c) \/ T!RestoreStatus(c))
      <4>1. UNCHANGED status
        BY <3>3
        DEF T!UpStep, T!DownStep, T!CommandDies, T!UpOpen, T!UpLockTree, T!PortLook,
            T!PortCreate, T!StateLock, T!BindLease, T!Launch, T!Return, T!Fail, T!RestoreLease,
            T!DownAsk, T!ForceOpen, T!DownConfirm, T!RestartOpen, T!DownGivesUp, T!ForceConfirm
      <4> QED BY <2>3, <4>1
    <3> QED BY <3>1, <3>2, <3>3
  <2> QED BY <2>2, <2>3
<1>9. ASSUME NEW d \in Commands
      PROVE  Asked(d)' /\ CleanBack(d)'
  <2>1. CASE d = c
    BY <2>1, CleanOwn
  <2>2. CASE d # c
    <3>1. Asked(d) /\ CleanBack(d) /\ cmd'[d] = cmd[d] /\ cmd[d].t \in Topologies
      BY <1>0, <1>1, <2>2 DEF AllClean, T!TypeOK
    <3>2. cmd[d].at # "idle" /\ cmd[c].at # "idle" => cmd[c].t # cmd[d].t
      BY <2>2 DEF TInv, Tree, Alone
    <3>3. Asked(d)'
      BY <1>1, <3>1, <3>2 DEF Asked, LeaseMoves
    <3>4. CleanBack(d)'
      <4> SUFFICES ASSUME cmd[d].at \notin {"idle", "asked"}, cmd[d].restart # T!NoLaunch
                   PROVE  told'[cmd[d].restart] = "clean"
        BY <3>1 DEF CleanBack
      <4>1. cmd[d].restart \in T!Launches /\ of[cmd[d].restart] = cmd[d].t
        BY <1>0, LaunchesAre DEF TInv, Tree, Back, T!TypeOK
      <4>2. cmd[c].at \in {"asked", "forcing"} => of[cmd[c].g] = cmd[c].t
        BY DEF TInv, Tree, Subject
      <4>3. told'[cmd[d].restart] = told[cmd[d].restart]
        BY <1>1, <3>2, <4>1, <4>2 DEF ToldMoves
      <4> QED BY <3>1, <4>3 DEF CleanBack
    <3> QED BY <3>3, <3>4
  <2> QED BY <2>1, <2>2
<1> QED BY <1>6, <1>8, <1>9 DEF AllClean

LEMMA CleanInit ==
  ASSUME T!Assumptions, T!Init
  PROVE  AllClean
<1>1. /\ \A c \in Commands : cmd[c].at = "idle"
      /\ \A g \in T!Launches : sup[g] = "none" /\ told[g] = "nothing"
      /\ \A t \in Topologies : status[t] = T!NoStatus
  BY IdleIs DEF T!Init
<1>2. \A g \in T!Launches : Spared(g)
  BY <1>1 DEF Spared, T!Alive, Ending
<1>3. \A t \in Topologies : Clean(t)
  BY <1>1 DEF Clean, T!NoStatus
<1>4. \A c \in Commands : Asked(c) /\ CleanBack(c)
  BY <1>1 DEF Asked, CleanBack
<1> QED BY <1>2, <1>3, <1>4 DEF AllClean

LEMMA CleanKeep ==
  ASSUME T!Assumptions, TInv, AllWait, AllClean, [T!Next]_T!vars, "race" \notin Faults
  PROVE  AllClean'
<1>1. CASE UNCHANGED T!vars
  BY <1>1 DEF AllClean, Spared, Clean, Asked, CleanBack, Unharmed, T!vars
<1>2. ASSUME NEW g \in T!Launches,
             \/ T!SupervisorStep(g) \/ T!SupervisorDies(g)
             \/ T!GuardianStep(g) \/ T!GuardianDies(g)
             \/ T!Relist(g) \/ T!Fork(g) \/ T!Leave(g) \/ T!Die(g)
      PROVE  AllClean'
  BY <1>2, CleanProcesses
<1>3. ASSUME NEW c \in Commands, T!UpStep(c) \/ T!DownStep(c) \/ T!CommandDies(c)
      PROVE  AllClean'
  BY <1>3, CleanKill, CleanCommands
<1> QED BY <1>1, <1>2, <1>3 DEF T!Next

\* An end that a down reports as clean needed no SIGKILL, unless a scan of /proc missed somebody;
\* and a status says so of no other.
THEOREM CleanIsEarnedHolds ==
  ASSUME T!Assumptions, "race" \notin Faults
  PROVE  T!Spec => []T!CleanIsEarned
<1>1. TInv /\ AllWait /\ AllClean /\ [T!Next]_T!vars => AllWait' /\ AllClean'
  BY WaitsKeep, CleanKeep
<1>2. T!Init => AllWait
  BY DEF T!Init, AllWait, Waits
<1>3. AllClean => T!CleanIsEarned
  BY DEF AllClean, Spared, Unharmed, T!CleanIsEarned
<1> QED BY <1>1, <1>2, <1>3, CleanInit, Topology, PTL DEF T!Spec
=============================================================================
