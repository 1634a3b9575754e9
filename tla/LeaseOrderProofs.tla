--------------------------- MODULE LeaseOrderProofs ---------------------------
(***************************************************************************)
(* TLAPS proofs about LeaseOrder, for every set of clients, assignment of  *)
(* commands to them and choice of source roots: types, the ascent of every *)
(* wait, the absence of wait cycles, and the exclusion between commands.   *)
(***************************************************************************)
EXTENDS LeaseOrder, WellFoundedInduction, TLAPS

(***************************************************************************)
(* The inductive invariant.  Fits says what a command holds (H) and still  *)
(* has to try (T) at each position of its own code; a call in progress     *)
(* will satisfy it when it returns, whichever way it returns.              *)
(***************************************************************************)
Labels == Positions \ {"acquire", "release"}

Owns(H, S) == \A s \in S : \E h \in H : h.co = s /\ h.mode = "exclusive"
Covers(H, S) == \A s \in S : \E h \in H : h.co = s

EmptyHanded(label, H) ==
  label \in {"idle", "retry", "gather", "probe", "await", "waitAdmin"} => H = {}

ProfileBelow(label, H) ==
  /\ label \in {"standBack", "select"} => \A h \in H : h.co = Profile /\ h.depth = 1
  /\ label \in {"collect", "collected", "stoodBack"} =>
       \A h \in H : h.depth = 1 => h.co = Profile

InRole(c, label) ==
  /\ label = "claimAdmin" => Role[c] \in {"sync", "remove"}
  /\ label \in {"collect", "collected", "standBack", "stoodBack"} => Role[c] = "use"
  /\ label = "select" => Role[c] = "update"

Equipped(c, label, H, T) ==
  /\ label = "claimAdmin" => Owns(H, Roots[c])
  /\ label = "select" => Owns(H, {Profile})
  /\ label \in {"collect", "collected", "standBack", "stoodBack"} =>
       \E h \in H : h.co = Profile /\ h.depth = 1
  /\ label = "collect" => Covers(H, Roots[c] \ T)
  /\ label = "collected" =>
       Covers(H, {s \in Roots[c] : s \in T => \A t \in T : s <= t})
  /\ label = "body" =>
       /\ Role[c] \in {"init", "sync", "remove"} => Owns(H, {Admin} \cup Roots[c])
       /\ Role[c] = "use" => Covers(H, {Profile} \cup Roots[c])
       /\ Role[c] = "update" => Owns(H, {Profile})

Fits(c, label, H, T) ==
  /\ EmptyHanded(label, H) /\ ProfileBelow(label, H)
  /\ InRole(c, label) /\ Equipped(c, label, H, T)

Tagged(reqs, d) == {[co |-> r.co, mode |-> r.mode, depth |-> d] : r \in reqs}
Below(H, d) == {h \in H : h.depth < d}

Placed(c) ==
  /\ pc[c] = "acquire" =>
       /\ Fits(c, call[c].ok, held[c] \cup Tagged(call[c].want, call[c].depth), todo[c])
       /\ call[c].how = "nonblocking" => Fits(c, call[c].busy, Below(held[c], call[c].depth), todo[c])
  /\ pc[c] = "release" => Fits(c, call[c].ok, Below(held[c], call[c].depth), todo[c])
  /\ pc[c] \in Labels => Fits(c, pc[c], held[c], todo[c])

CallsSound ==
  \A c \in Clients :
    /\ call[c].ok \in Labels /\ call[c].busy \in Labels
    /\ todo[c] \subseteq Roots[c]
    /\ \A r, s \in call[c].want : r.co = s.co => r = s

LeasesCompatible ==
  \A c, d \in Clients : \A h \in held[c], g \in held[d] :
    c # d /\ h.co = g.co => h.mode = "shared" /\ g.mode = "shared"

IInv ==
  /\ TypeOK /\ CallsSound /\ WaitsAscend /\ LeasesCompatible
  /\ \A c \in Clients : Placed(c)

-----------------------------------------------------------------------------
(* Lemmas about calls *)

\* Requests of one mode for distinct coordinates are combined into themselves.
LEMMA CombineExclusive == ASSUME NEW S PROVE Combine(Exclusive(S)) = Exclusive(S)
<1>1. \A r \in Exclusive(S) : r = Request(r.co, "exclusive")
  BY DEF Exclusive, Request
<1>2. \A r \in Exclusive(S) :
         Request(r.co, IF Request(r.co, "exclusive") \in Exclusive(S)
                       THEN "exclusive" ELSE "shared") = r
  BY <1>1
<1> QED
  BY <1>2 DEF Combine

LEMMA CombineShared == ASSUME NEW s PROVE Combine({Shared(s)}) = {Shared(s)}
BY DEF Combine, Shared, Request

\* The coordinates of a command, in their order.
LEMMA RootsFacts ==
  ASSUME NEW c \in Clients
  PROVE  /\ Roots[c] \subseteq Coordinates /\ Roots[c] # {}
         /\ \A s \in Roots[c] : s \in Nat /\ s > Admin /\ s <= Last
         /\ {Registry, Profile, Admin} \subseteq Coordinates
<1>1. Roots[c] \subseteq Admin + 1 .. Last /\ Roots[c] # {}
  BY RootsAssumption
<1> QED
  BY <1>1, LastAssumption DEF Coordinates, Admin, Registry, Profile

LEMMA CoordinatesFacts == Coordinates \subseteq Nat
<1> SUFFICES ASSUME NEW x \in Coordinates PROVE x \in Nat
  OBVIOUS
<1> QED
  BY RootsFacts DEF Coordinates, Registry, Profile, Admin

\* The initial state satisfies the inductive invariant.
LEMMA InitIInv == Init => IInv
<1> SUFFICES ASSUME Init PROVE IInv
  OBVIOUS
<1> USE DEF Init, NoCall, Unwinding
<1>1. TypeOK
  BY DEF TypeOK, Positions, Ways
<1>2. CallsSound /\ LeasesCompatible /\ WaitsAscend
  BY DEF CallsSound, LeasesCompatible, WaitsAscend, Waiting, Labels, Positions
<1>3. ASSUME NEW c \in Clients PROVE Placed(c)
  BY DEF Placed, Labels, Positions, Fits, EmptyHanded, ProfileBelow, InRole, Equipped
<1> QED
  BY <1>1, <1>2, <1>3 DEF IInv

\* A call keeps the invariant when the position it returns to, granted or
\* refused, is one its client will be fit for, and when waiting ascends.
LEMMA CallsIInv ==
  ASSUME IInv, NEW c \in Clients, NEW at \in Labels, NEW reqs, reqs \subseteq Requests,
         Combine(reqs) = reqs,
         \A r, s \in reqs : r.co = s.co => r = s,
         NEW d \in {1, 2}, NEW how \in Ways,
         NEW ok \in Labels, NEW busy \in Labels,
         Calls(c, at, reqs, d, how, ok, busy),
         todo' \in [Clients -> SUBSET Coordinates],
         todo'[c] \subseteq Roots[c],
         \A e \in Clients \ {c} : todo'[e] = todo[e],
         Fits(c, ok, held[c] \cup Tagged(reqs, d), todo'[c]),
         how = "nonblocking" => Fits(c, busy, Below(held[c], d), todo'[c]),
         how = "blocking" => \A h \in held[c], r \in reqs : h.co < r.co
  PROVE  IInv'
<1> USE DEF Calls
<1>0. /\ TypeOK /\ CallsSound /\ WaitsAscend /\ LeasesCompatible
      /\ \A e \in Clients : Placed(e)
  BY DEF IInv
<1>a. call'[c] = [want |-> reqs, depth |-> d, how |-> how, ok |-> ok, busy |-> busy]
  BY <1>0 DEF TypeOK
<1>1. TypeOK'
  BY <1>0, <1>a DEF TypeOK, Labels, Positions
<1>2. CallsSound'
  BY <1>0, <1>a DEF TypeOK, CallsSound
<1>3. WaitsAscend'
  BY <1>0, <1>a DEF TypeOK, WaitsAscend, Waiting
<1>4. LeasesCompatible'
  BY <1>0 DEF LeasesCompatible
<1>5. ASSUME NEW e \in Clients PROVE Placed(e)'
  <2>1. CASE e = c
    BY <1>0, <1>a, <2>1 DEF TypeOK, Placed, Labels
  <2>2. CASE e # c
    BY <1>0, <2>2 DEF TypeOK, Placed
  <2> QED
    BY <2>1, <2>2
<1> QED
  BY <1>1, <1>2, <1>3, <1>4, <1>5 DEF IInv

\* The end of a with block likewise, for what is held below its depth.
LEMMA EndsIInv ==
  ASSUME IInv, NEW c \in Clients, NEW at \in Labels, NEW d \in {1, 2}, NEW ok \in Labels,
         Ends(c, at, d, ok),
         todo' \in [Clients -> SUBSET Coordinates],
         todo'[c] \subseteq Roots[c],
         \A e \in Clients \ {c} : todo'[e] = todo[e],
         Fits(c, ok, Below(held[c], d), todo'[c])
  PROVE  IInv'
<1>0. /\ TypeOK /\ CallsSound /\ WaitsAscend /\ LeasesCompatible
      /\ \A e \in Clients : Placed(e)
  BY DEF IInv
<1> DEFINE over == [want |-> {}, depth |-> d, how |-> "blocking", ok |-> ok, busy |-> "idle"]
<1>a. /\ pc[c] = at /\ pc' = [pc EXCEPT ![c] = "release"]
      /\ call' = [call EXCEPT ![c] = over]
      /\ UNCHANGED <<held, queued>>
  BY DEF Ends, Unwinding
<1>b. /\ over \in [want : SUBSET Requests, depth : {1, 2}, how : Ways,
                   ok : Positions, busy : Positions]
      /\ over.want = {} /\ over.ok = ok /\ over.busy = "idle" /\ over.depth = d
  BY DEF Labels, Positions, Ways
<1>c. "idle" \in Labels
  BY DEF Labels, Positions
<1> HIDE DEF over
<1>1. TypeOK'
  BY <1>0, <1>a, <1>b DEF TypeOK, Positions
<1>2. CallsSound'
  BY <1>0, <1>a, <1>b, <1>c DEF TypeOK, CallsSound
<1>3. WaitsAscend'
  BY <1>0, <1>a DEF TypeOK, WaitsAscend, Waiting
<1>4. LeasesCompatible'
  BY <1>0, <1>a DEF LeasesCompatible
<1>5. ASSUME NEW e \in Clients PROVE Placed(e)'
  <2>1. CASE e = c
    BY <1>0, <1>a, <1>b, <2>1 DEF TypeOK, Placed, Labels
  <2>2. CASE e # c
    BY <1>0, <1>a, <2>2 DEF TypeOK, Placed
  <2> QED
    BY <2>1, <2>2
<1> QED
  BY <1>1, <1>2, <1>3, <1>4, <1>5 DEF IInv

-----------------------------------------------------------------------------
(* resource_locks preserves the invariant *)

LEMMA GrantIInv == ASSUME IInv, NEW c \in Clients, Grant(c) PROVE IInv'
<1>0. /\ TypeOK /\ CallsSound /\ WaitsAscend /\ LeasesCompatible
      /\ \A e \in Clients : Placed(e)
  BY DEF IInv
<1>1. PICK r \in call[c].want :
        /\ Turn(c, r)
        /\ Free(c, r)
        /\ held' = [held EXCEPT ![c] =
                      @ \cup {[co |-> r.co, mode |-> r.mode, depth |-> call[c].depth]}]
        /\ call' = [call EXCEPT ![c].want = @ \ {r}]
        /\ pc' = [pc EXCEPT ![c] = IF call[c].want = {r} THEN call[c].ok ELSE "acquire"]
        /\ queued' = [queued EXCEPT ![c] = FALSE]
        /\ UNCHANGED todo
  BY DEF Grant
<1> DEFINE lease == [co |-> r.co, mode |-> r.mode, depth |-> call[c].depth]
<1>r. r \in Requests /\ r.co \in Nat
  <2>1. call[c].want \in SUBSET Requests
    BY <1>0 DEF TypeOK
  <2> QED
    BY <2>1, CoordinatesFacts DEF Requests
<1>l. /\ lease \in [co : Coordinates, mode : Modes, depth : {1, 2}]
      /\ lease.co = r.co /\ lease.mode = r.mode /\ lease.depth = call[c].depth
  BY <1>0, <1>r DEF TypeOK, Requests
<1>h. held' = [held EXCEPT ![c] = @ \cup {lease}]
  BY <1>1
<1>t. Tagged(call[c].want, call[c].depth)
        = {lease} \cup Tagged(call[c].want \ {r}, call[c].depth)
  BY DEF Tagged
<1>e. Tagged({}, call[c].depth) = {}
  BY DEF Tagged
<1> HIDE DEF lease
<1>c. /\ call'[c].want = call[c].want \ {r}
      /\ call'[c].depth = call[c].depth /\ call'[c].how = call[c].how
      /\ call'[c].ok = call[c].ok /\ call'[c].busy = call[c].busy
  BY <1>0, <1>1 DEF TypeOK
<1>2. TypeOK'
  BY <1>0, <1>1, <1>h, <1>l DEF TypeOK, CallsSound, Labels, Positions
<1>3. CallsSound'
  BY <1>0, <1>1, <1>c DEF TypeOK, CallsSound
<1>4. WaitsAscend'
  <2> SUFFICES ASSUME NEW e \in Clients, Waiting(e)',
                      NEW h \in held'[e], NEW q \in call'[e].want
               PROVE  h.co < q.co
    BY DEF WaitsAscend
  <2>1. CASE e # c
    BY <1>0, <1>1, <2>1 DEF TypeOK, WaitsAscend, Waiting
  <2>2. CASE e = c
    <3>1. Waiting(c) /\ q \in call[c].want /\ q # r
      BY <1>0, <1>1, <1>c, <2>2 DEF TypeOK, Waiting, Turn
    <3>2. q.co \in Nat /\ r.co <= q.co /\ r.co # q.co
      BY <1>0, <1>1, <3>1, CoordinatesFacts DEF TypeOK, Requests, Turn, CallsSound
    <3>3. h \in held[c] \/ h = lease
      BY <1>0, <1>h, <2>2 DEF TypeOK
    <3> QED
      BY <1>0, <1>r, <1>l, <3>1, <3>2, <3>3 DEF WaitsAscend
  <2> QED
    BY <2>1, <2>2
<1>5. LeasesCompatible'
  <2>1. \A d \in Clients : \A h \in held[d] :
          h.co = r.co => h.mode # "exclusive" /\ r.mode # "exclusive"
    BY <1>1 DEF Free, Obstructs
  <2>2. \A d \in Clients : \A h \in held[d] : h.co = r.co => h.mode = "shared" /\ r.mode = "shared"
    BY <1>0, <1>r, <2>1 DEF TypeOK, Requests, Modes
  <2>3. \A d \in Clients : held'[d] = IF d = c THEN held[c] \cup {lease} ELSE held[d]
    BY <1>0, <1>h DEF TypeOK
  <2> QED
    BY <1>0, <1>l, <2>2, <2>3 DEF LeasesCompatible
<1>6. ASSUME NEW e \in Clients PROVE Placed(e)'
  <2>1. CASE e # c
    BY <1>0, <1>1, <2>1 DEF TypeOK, Placed
  <2>2. CASE e = c
    <3>0. /\ held'[c] = held[c] \cup {lease} /\ todo'[c] = todo[c]
          /\ pc[c] = "acquire" /\ call[c].ok \in Labels
          /\ pc'[c] = IF call[c].want = {r} THEN call[c].ok ELSE "acquire"
      BY <1>0, <1>1, <1>h DEF TypeOK, Turn, CallsSound
    <3>1. held[c] \cup Tagged(call[c].want, call[c].depth)
            = held'[c] \cup Tagged(call'[c].want, call'[c].depth)
      BY <1>t, <1>c, <3>0
    <3>2. Fits(c, call[c].ok, held[c] \cup Tagged(call[c].want, call[c].depth), todo[c])
      BY <1>0, <3>0 DEF Placed
    <3>3. CASE call[c].want = {r}
      <4>1. held[c] \cup Tagged(call[c].want, call[c].depth) = held'[c]
        BY <1>t, <1>e, <3>0, <3>3
      <4>2. Fits(c, pc'[c], held'[c], todo'[c]) /\ pc'[c] \in Labels
        BY <3>0, <3>2, <3>3, <4>1
      <4> QED
        BY <2>2, <4>2 DEF Placed, Labels
    <3>4. CASE call[c].want # {r}
      <4>1. /\ Fits(c, call'[c].ok, held'[c] \cup Tagged(call'[c].want, call'[c].depth), todo'[c])
            /\ pc'[c] = "acquire"
        BY <1>c, <3>0, <3>1, <3>2, <3>4
      <4>2. ASSUME call[c].how = "nonblocking"
            PROVE  Fits(c, call[c].busy, Below(held[c], call[c].depth), todo[c])
        BY <1>0, <3>0, <4>2 DEF Placed
      <4>3. Below(held'[c], call[c].depth) = Below(held[c], call[c].depth)
        BY <1>0, <1>l, <3>0 DEF Below, TypeOK
      <4>4. call'[c].how = "nonblocking" => Fits(c, call'[c].busy, Below(held'[c], call'[c].depth), todo'[c])
        BY <1>c, <3>0, <4>2, <4>3
      <4> QED
        BY <2>2, <4>1, <4>4 DEF Placed, Labels
    <3> QED
      BY <3>3, <3>4
  <2> QED
    BY <2>1, <2>2
<1> QED
  BY <1>2, <1>3, <1>4, <1>5, <1>6 DEF IInv

LEMMA QueueIInv == ASSUME IInv, NEW c \in Clients, Queue(c) PROVE IInv'
<1> USE DEF Queue
<1>0. /\ TypeOK /\ CallsSound /\ WaitsAscend /\ LeasesCompatible
      /\ \A e \in Clients : Placed(e)
  BY DEF IInv
<1>1. TypeOK'
  BY <1>0 DEF TypeOK
<1>2. CallsSound' /\ WaitsAscend' /\ LeasesCompatible'
  BY <1>0 DEF CallsSound, WaitsAscend, Waiting, LeasesCompatible
<1>3. \A e \in Clients : Placed(e)'
  BY <1>0 DEF Placed
<1> QED
  BY <1>1, <1>2, <1>3 DEF IInv

LEMMA RefuseIInv == ASSUME IInv, NEW c \in Clients, Refuse(c) PROVE IInv'
<1>0. /\ TypeOK /\ CallsSound /\ WaitsAscend /\ LeasesCompatible
      /\ \A e \in Clients : Placed(e)
  BY DEF IInv
<1> DEFINE over == [want |-> {}, depth |-> call[c].depth, how |-> "blocking",
                    ok |-> call[c].busy, busy |-> "idle"]
<1>1. /\ call[c].how = "nonblocking" /\ pc[c] = "acquire"
      /\ pc' = [pc EXCEPT ![c] = "release"]
      /\ call' = [call EXCEPT ![c] = over]
      /\ UNCHANGED <<held, queued, todo>>
  BY DEF Refuse, Turn, Unwinding
<1>2. /\ over \in [want : SUBSET Requests, depth : {1, 2}, how : Ways,
                   ok : Positions, busy : Positions]
      /\ over.want = {} /\ over.ok = call[c].busy /\ over.busy = "idle"
      /\ over.depth = call[c].depth
  BY <1>0 DEF TypeOK, Positions, Ways
<1>3. "idle" \in Labels /\ "release" \notin Labels /\ "release" \in Positions
  BY DEF Labels, Positions
<1> HIDE DEF over
<1>4. TypeOK'
  BY <1>0, <1>1, <1>2, <1>3 DEF TypeOK
<1>5. CallsSound'
  BY <1>0, <1>1, <1>2, <1>3 DEF TypeOK, CallsSound
<1>6. WaitsAscend' /\ LeasesCompatible'
  BY <1>0, <1>1 DEF TypeOK, WaitsAscend, Waiting, LeasesCompatible
<1>7. ASSUME NEW e \in Clients PROVE Placed(e)'
  <2>1. CASE e # c
    BY <1>0, <1>1, <2>1 DEF TypeOK, Placed
  <2>2. CASE e = c
    BY <1>0, <1>1, <1>2, <1>3, <2>2 DEF TypeOK, Placed
  <2> QED
    BY <2>1, <2>2
<1> QED
  BY <1>4, <1>5, <1>6, <1>7 DEF IInv

LEMMA ReleaseIInv == ASSUME IInv, NEW c \in Clients, Release(c) PROVE IInv'
<1>0. /\ TypeOK /\ CallsSound /\ WaitsAscend /\ LeasesCompatible
      /\ \A e \in Clients : Placed(e)
  BY DEF IInv
<1> DEFINE due == {h \in held[c] : h.depth >= call[c].depth}
<1>1. /\ pc[c] = "release" /\ UNCHANGED <<call, queued, todo>>
      /\ call[c].ok \in Labels /\ "release" \notin Labels /\ "acquire" \notin Labels
  BY <1>0 DEF Release, CallsSound, Labels
<1>2. Fits(c, call[c].ok, Below(held[c], call[c].depth), todo[c])
  BY <1>0, <1>1 DEF Placed
<1>3. CASE /\ due = {} /\ pc' = [pc EXCEPT ![c] = call[c].ok] /\ UNCHANGED held
  <2>1. TypeOK' /\ CallsSound' /\ LeasesCompatible'
    BY <1>0, <1>1, <1>3 DEF TypeOK, CallsSound, LeasesCompatible, Labels
  <2>2. WaitsAscend'
    BY <1>0, <1>1, <1>3 DEF TypeOK, WaitsAscend, Waiting
  <2>3. Below(held[c], call[c].depth) = held[c]
    BY <1>0, <1>3 DEF TypeOK, Below
  <2>4. ASSUME NEW e \in Clients PROVE Placed(e)'
    <3>1. CASE e # c
      BY <1>0, <1>1, <1>3, <3>1 DEF TypeOK, Placed
    <3>2. CASE e = c
      BY <1>0, <1>1, <1>2, <1>3, <2>3, <3>2 DEF TypeOK, Placed
    <3> QED
      BY <3>1, <3>2
  <2> QED
    BY <2>1, <2>2, <2>4 DEF IInv
<1>4. CASE \E h \in due : held' = [held EXCEPT ![c] = @ \ {h}] /\ UNCHANGED pc
  <2>0. PICK h \in due : held' = [held EXCEPT ![c] = @ \ {h}] /\ UNCHANGED pc
    BY <1>4
  <2>1. \A e \in Clients : held'[e] = IF e = c THEN held[c] \ {h} ELSE held[e]
    BY <1>0, <2>0 DEF TypeOK
  <2>2. TypeOK'
    BY <1>0, <1>1, <2>0 DEF TypeOK
  <2>3. CallsSound' /\ LeasesCompatible' /\ WaitsAscend'
    BY <1>0, <1>1, <2>0, <2>1 DEF CallsSound, LeasesCompatible, WaitsAscend, Waiting
  <2>4. Below(held'[c], call[c].depth) = Below(held[c], call[c].depth)
    BY <1>0, <2>0, <2>1 DEF TypeOK, Below
  <2>5. ASSUME NEW e \in Clients PROVE Placed(e)'
    <3>1. CASE e # c
      BY <1>0, <1>1, <2>0, <2>1, <3>1 DEF Placed
    <3>2. CASE e = c
      BY <1>1, <1>2, <2>0, <2>4, <3>2 DEF Placed
    <3> QED
      BY <3>1, <3>2
  <2> QED
    BY <2>2, <2>3, <2>5 DEF IInv
<1> QED
  BY <1>3, <1>4 DEF Release

-----------------------------------------------------------------------------
(* The commands' own steps *)

\* Nothing is held below depth 1.
LEMMA NothingBelow ==
  ASSUME IInv, NEW c \in Clients PROVE Below(held[c], 1) = {}
BY DEF IInv, TypeOK, Below

\* An exclusive request owns its coordinates once it is granted.
LEMMA TaggedOwns ==
  ASSUME NEW S, NEW H, NEW d, NEW T, Owns(H, T)
  PROVE  Owns(H \cup Tagged(Exclusive(S), d), S \cup T)
<1>1. \A s \in S : [co |-> s, mode |-> "exclusive", depth |-> d] \in Tagged(Exclusive(S), d)
  <2> TAKE s \in S
  <2>1. Request(s, "exclusive") \in Exclusive(S)
    BY DEF Exclusive
  <2> QED
    BY <2>1 DEF Tagged, Request
<1>2. ASSUME NEW s \in S
      PROVE  \E h \in H \cup Tagged(Exclusive(S), d) : h.co = s /\ h.mode = "exclusive"
  <2> DEFINE h == [co |-> s, mode |-> "exclusive", depth |-> d]
  <2>1. h \in H \cup Tagged(Exclusive(S), d) /\ h.co = s /\ h.mode = "exclusive"
    BY <1>1
  <2> QED
    BY <2>1
<1> QED
  BY <1>2 DEF Owns

\* Requests for known coordinates are well formed, one for each.
LEMMA ExclusiveFacts ==
  ASSUME NEW S, S \subseteq Coordinates
  PROVE  /\ Exclusive(S) \subseteq Requests
         /\ Combine(Exclusive(S)) = Exclusive(S)
         /\ \A r, s \in Exclusive(S) : r.co = s.co => r = s
         /\ \A r \in Exclusive(S) : r.co \in S
BY CombineExclusive DEF Exclusive, Request, Requests, Modes

LEMMA SharedFacts ==
  ASSUME NEW s \in Coordinates
  PROVE  /\ {Shared(s)} \subseteq Requests
         /\ Combine({Shared(s)}) = {Shared(s)}
         /\ \A r \in {Shared(s)} : r.co = s
BY CombineShared DEF Shared, Request, Requests, Modes

LEMMA TaggedShared ==
  ASSUME NEW s, NEW d
  PROVE  Tagged({Shared(s)}, d) = {[co |-> s, mode |-> "shared", depth |-> d]}
BY DEF Tagged, Shared, Request

LEMMA UnchangedTodo ==
  ASSUME IInv, UNCHANGED todo, NEW c \in Clients
  PROVE  /\ todo' \in [Clients -> SUBSET Coordinates] /\ todo'[c] \subseteq Roots[c]
         /\ \A e \in Clients \ {c} : todo'[e] = todo[e]
BY DEF IInv, TypeOK, CallsSound

\* CallsIInv for exclusive requests, and for a shared one, with todo unchanged.
LEMMA ExclusiveCallIInv ==
  ASSUME IInv, NEW c \in Clients, NEW at \in Labels, NEW S, S \subseteq Coordinates,
         NEW d \in {1, 2}, NEW how \in Ways, NEW ok \in Labels, NEW busy \in Labels,
         Calls(c, at, Exclusive(S), d, how, ok, busy), UNCHANGED todo,
         Fits(c, ok, held[c] \cup Tagged(Exclusive(S), d), todo[c]),
         how = "nonblocking" => Fits(c, busy, Below(held[c], d), todo[c]),
         how = "blocking" => \A h \in held[c], s \in S : h.co < s
  PROVE  IInv'
<1> DEFINE reqs == Exclusive(S)
<1>1. /\ reqs \subseteq Requests
      /\ Combine(reqs) = reqs
      /\ \A r, s \in reqs : r.co = s.co => r = s
      /\ \A r \in reqs : r.co \in S
  BY ExclusiveFacts
<1>2. /\ todo' \in [Clients -> SUBSET Coordinates] /\ todo'[c] \subseteq Roots[c]
      /\ \A e \in Clients \ {c} : todo'[e] = todo[e]
  BY UnchangedTodo
<1>3. how = "blocking" => \A h \in held[c], r \in reqs : h.co < r.co
  BY <1>1
<1>4. /\ Fits(c, ok, held[c] \cup Tagged(reqs, d), todo'[c])
      /\ how = "nonblocking" => Fits(c, busy, Below(held[c], d), todo'[c])
  OBVIOUS
<1>5. Calls(c, at, reqs, d, how, ok, busy)
  OBVIOUS
<1>6. reqs \subseteq Requests
  BY <1>1
<1> HIDE DEF reqs
<1>7. /\ Combine(reqs) = reqs /\ \A r, s \in reqs : r.co = s.co => r = s
  BY <1>1
<1>8. Fits(c, ok, held[c] \cup Tagged(reqs, d), todo'[c])
  BY <1>4
<1>9. how = "nonblocking" => Fits(c, busy, Below(held[c], d), todo'[c])
  BY <1>4
<1> QED
  BY <1>2, <1>3, <1>5, <1>6, <1>7, <1>8, <1>9, CallsIInv, ZenonT(60)

LEMMA SharedCallIInv ==
  ASSUME IInv, NEW c \in Clients, NEW at \in Labels, NEW s \in Coordinates,
         NEW d \in {1, 2}, NEW how \in Ways, NEW ok \in Labels, NEW busy \in Labels,
         Calls(c, at, {Shared(s)}, d, how, ok, busy), UNCHANGED todo,
         Fits(c, ok, held[c] \cup {[co |-> s, mode |-> "shared", depth |-> d]}, todo[c]),
         how = "nonblocking" => Fits(c, busy, Below(held[c], d), todo[c]),
         how = "blocking" => \A h \in held[c] : h.co < s
  PROVE  IInv'
<1>1. /\ {Shared(s)} \subseteq Requests
      /\ Combine({Shared(s)}) = {Shared(s)}
      /\ \A r \in {Shared(s)} : r.co = s
      /\ \A q, r \in {Shared(s)} : q.co = r.co => q = r
  BY SharedFacts
<1>2. /\ todo' \in [Clients -> SUBSET Coordinates] /\ todo'[c] \subseteq Roots[c]
      /\ \A e \in Clients \ {c} : todo'[e] = todo[e]
  BY UnchangedTodo
<1>3. /\ Fits(c, ok, held[c] \cup Tagged({Shared(s)}, d), todo'[c])
      /\ how = "nonblocking" => Fits(c, busy, Below(held[c], d), todo'[c])
  BY TaggedShared
<1> DEFINE reqs == {Shared(s)}
<1>4. how = "blocking" => \A h \in held[c], r \in reqs : h.co < r.co
  BY <1>1
<1>5. reqs \subseteq Requests /\ Combine(reqs) = reqs /\ \A q, r \in reqs : q.co = r.co => q = r
  BY <1>1
<1>6. Fits(c, ok, held[c] \cup Tagged(reqs, d), todo'[c])
  BY <1>3
<1>7. Calls(c, at, reqs, d, how, ok, busy)
  OBVIOUS
<1>8. how = "nonblocking" => Fits(c, busy, Below(held[c], d), todo'[c])
  BY <1>3
<1> HIDE DEF reqs
<1> QED
  BY <1>2, <1>4, <1>5, <1>6, <1>7, <1>8, CallsIInv, ZenonT(60)

\* The two ways to call: waiting, and trying.
LEMMA ExclusiveWaitIInv ==
  ASSUME IInv, NEW c \in Clients, NEW at \in Labels, NEW S, S \subseteq Coordinates,
         NEW d \in {1, 2}, NEW ok \in Labels, UNCHANGED todo,
         Calls(c, at, Exclusive(S), d, "blocking", ok, "idle"),
         Fits(c, ok, held[c] \cup Tagged(Exclusive(S), d), todo[c]),
         \A h \in held[c], s \in S : h.co < s
  PROVE  IInv'
<1>1. "blocking" \in Ways /\ "blocking" # "nonblocking" /\ "idle" \in Labels
  BY DEF Ways, Labels, Positions
<1> QED
  BY <1>1, ExclusiveCallIInv, ZenonT(60)

LEMMA ExclusiveTryIInv ==
  ASSUME IInv, NEW c \in Clients, NEW at \in Labels, NEW S, S \subseteq Coordinates,
         NEW d \in {1, 2}, NEW ok \in Labels, NEW busy \in Labels, UNCHANGED todo,
         Calls(c, at, Exclusive(S), d, "nonblocking", ok, busy),
         Fits(c, ok, held[c] \cup Tagged(Exclusive(S), d), todo[c]),
         Fits(c, busy, Below(held[c], d), todo[c])
  PROVE  IInv'
<1>1. "nonblocking" \in Ways /\ "blocking" # "nonblocking"
  BY DEF Ways
<1> QED
  BY <1>1, ExclusiveCallIInv, ZenonT(60)

LEMMA SharedWaitIInv ==
  ASSUME IInv, NEW c \in Clients, NEW at \in Labels, NEW s \in Coordinates,
         NEW d \in {1, 2}, NEW ok \in Labels, UNCHANGED todo,
         Calls(c, at, {Shared(s)}, d, "blocking", ok, "idle"),
         Fits(c, ok, held[c] \cup {[co |-> s, mode |-> "shared", depth |-> d]}, todo[c]),
         \A h \in held[c] : h.co < s
  PROVE  IInv'
<1>1. "blocking" \in Ways /\ "blocking" # "nonblocking" /\ "idle" \in Labels
  BY DEF Ways, Labels, Positions
<1> QED
  BY <1>1, SharedCallIInv, ZenonT(60)

LEMMA SharedTryIInv ==
  ASSUME IInv, NEW c \in Clients, NEW at \in Labels, NEW s \in Coordinates,
         NEW d \in {1, 2}, NEW ok \in Labels, NEW busy \in Labels, UNCHANGED todo,
         Calls(c, at, {Shared(s)}, d, "nonblocking", ok, busy),
         Fits(c, ok, held[c] \cup {[co |-> s, mode |-> "shared", depth |-> d]}, todo[c]),
         Fits(c, busy, Below(held[c], d), todo[c])
  PROVE  IInv'
<1>1. "nonblocking" \in Ways /\ "blocking" # "nonblocking"
  BY DEF Ways
<1> QED
  BY <1>1, SharedCallIInv, ZenonT(60)

LEMMA EndsSameIInv ==
  ASSUME IInv, NEW c \in Clients, NEW at \in Labels, NEW d \in {1, 2}, NEW ok \in Labels,
         Ends(c, at, d, ok), UNCHANGED todo,
         Fits(c, ok, Below(held[c], d), todo[c])
  PROVE  IInv'
BY UnchangedTodo, EndsIInv

\* What a command at a position of its own code knows.
LEMMA AtLabel ==
  ASSUME IInv, NEW c \in Clients, pc[c] \in Labels
  PROVE  /\ Fits(c, pc[c], held[c], todo[c])
         /\ todo[c] \subseteq Roots[c]
         /\ \A h \in held[c] : h.co \in Nat /\ h.depth \in {1, 2}
<1>1. held[c] \in SUBSET [co : Coordinates, mode : Modes, depth : {1, 2}]
  BY DEF IInv, TypeOK
<1> QED
  BY <1>1, CoordinatesFacts DEF IInv, Placed, CallsSound

\* An unconstrained position: nothing is asked of what is held.
LEMMA FitsAnywhere ==
  ASSUME NEW c, NEW H, NEW T,
         NEW label \in {"snapshot", "probeFree", "awaited", "yieldAll", "admitted"}
  PROVE  Fits(c, label, H, T)
BY DEF Fits, EmptyHanded, ProfileBelow, InRole, Equipped

LEMMA FitsEmpty ==
  ASSUME NEW c, NEW T,
         NEW label \in {"idle", "retry", "gather", "probe", "await", "waitAdmin"}
  PROVE  Fits(c, label, {}, T)
BY DEF Fits, EmptyHanded, ProfileBelow, InRole, Equipped

LEMMA InitializeIInv == ASSUME IInv, NEW c \in Clients, Initialize(c) PROVE IInv'
<1> DEFINE S == {Admin} \cup Roots[c]
<1>1. /\ Calls(c, "idle", Exclusive(S), 1, "blocking", "body", "idle")
      /\ Role[c] = "init" /\ UNCHANGED todo
  BY DEF Initialize
<1>2. S \subseteq Coordinates
  BY RootsFacts
<1>3. held[c] = {}
  BY <1>1, AtLabel DEF Calls, Fits, EmptyHanded, Labels, Positions
<1>4. Owns(held[c] \cup Tagged(Exclusive(S), 1), S)
  <2>1. Owns(held[c], {}) /\ S \cup {} = S
    BY DEF Owns
  <2> HIDE DEF S
  <2> QED
    BY <2>1, TaggedOwns
<1>5. Fits(c, "body", held[c] \cup Tagged(Exclusive(S), 1), todo[c])
  BY <1>1, <1>4 DEF Fits, EmptyHanded, ProfileBelow, InRole, Equipped
<1>6. "idle" \in Labels /\ "body" \in Labels
  BY DEF Labels, Positions
<1> HIDE DEF S
<1> QED
  BY <1>1, <1>2, <1>3, <1>5, <1>6, ExclusiveWaitIInv

LEMMA SnapshotIInv == ASSUME IInv, NEW c \in Clients, Snapshot(c) PROVE IInv'
<1>1. UNCHANGED todo
  BY DEF Snapshot
<1>2. ASSUME NEW at \in {"idle", "retry"},
             Calls(c, at, Exclusive({Admin}), 1, "blocking", "snapshot", "idle")
      PROVE  IInv'
  <2>1. held[c] = {}
    BY <1>2, AtLabel DEF Calls, Fits, EmptyHanded, Labels, Positions
  <2>2. {Admin} \subseteq Coordinates
    BY RootsFacts
  <2>3. at \in Labels /\ "snapshot" \in Labels
    BY DEF Labels, Positions
  <2> QED
    BY <1>1, <1>2, <2>1, <2>2, <2>3, FitsAnywhere, ExclusiveWaitIInv
<1>3. ASSUME NEW at \in {"snapshot", "body"}, NEW ok \in {"gather", "retry"},
             Ends(c, at, 1, ok)
      PROVE  IInv'
  <2>1. at \in Labels /\ ok \in Labels
    BY DEF Labels, Positions
  <2> QED
    BY <1>1, <1>3, <2>1, NothingBelow, FitsEmpty, EndsSameIInv
<1> QED
  BY <1>2, <1>3 DEF Snapshot

\* A command whose loop starts over has all its sources to try.
LEMMA TodoRestarts ==
  ASSUME IInv, NEW c \in Clients, todo' = [todo EXCEPT ![c] = Roots[c]]
  PROVE  /\ todo' \in [Clients -> SUBSET Coordinates]
         /\ todo'[c] = Roots[c] /\ todo'[c] \subseteq Roots[c]
         /\ \A e \in Clients \ {c} : todo'[e] = todo[e]
BY RootsFacts DEF IInv, TypeOK

LEMMA TodoShrinks ==
  ASSUME IInv, NEW c \in Clients, todo' = [todo EXCEPT ![c] = {s \in @ : ~First(c, s)}]
  PROVE  /\ todo' \in [Clients -> SUBSET Coordinates]
         /\ todo'[c] = {s \in todo[c] : ~First(c, s)} /\ todo'[c] \subseteq Roots[c]
         /\ \A e \in Clients \ {c} : todo'[e] = todo[e]
BY DEF IInv, TypeOK, CallsSound

LEMMA GatherIInv == ASSUME IInv, NEW c \in Clients, Gather(c) PROVE IInv'
<1> DEFINE reqs == Exclusive(Roots[c])
<1>1. /\ Role[c] = "sync"
      /\ Calls(c, "gather", reqs, 1, "nonblocking", "claimAdmin", "probe")
      /\ todo' = [todo EXCEPT ![c] = Roots[c]]
  BY DEF Gather
<1>2. /\ reqs \subseteq Requests
      /\ Combine(reqs) = reqs
      /\ \A r, s \in reqs : r.co = s.co => r = s
  BY RootsFacts, ExclusiveFacts
<1>3. /\ "gather" \in Labels /\ "claimAdmin" \in Labels /\ "probe" \in Labels
      /\ "nonblocking" \in Ways /\ "nonblocking" # "blocking"
  BY DEF Labels, Positions, Ways
<1>4. Owns(held[c] \cup Tagged(reqs, 1), Roots[c])
  <2>1. Owns(held[c], {}) /\ Roots[c] \cup {} = Roots[c]
    BY DEF Owns
  <2> QED
    BY <2>1, TaggedOwns
<1>5. Fits(c, "claimAdmin", held[c] \cup Tagged(reqs, 1), todo'[c])
  BY <1>1, <1>4 DEF Fits, EmptyHanded, ProfileBelow, InRole, Equipped
<1>6. Fits(c, "probe", Below(held[c], 1), todo'[c])
  BY NothingBelow, FitsEmpty
<1>7. /\ todo' \in [Clients -> SUBSET Coordinates] /\ todo'[c] \subseteq Roots[c]
      /\ \A e \in Clients \ {c} : todo'[e] = todo[e]
  BY <1>1, TodoRestarts
<1> DEFINE how == "nonblocking"
<1>8. /\ how = "nonblocking" => Fits(c, "probe", Below(held[c], 1), todo'[c])
      /\ how = "blocking" => \A h \in held[c], r \in reqs : h.co < r.co
      /\ how \in Ways /\ Calls(c, "gather", reqs, 1, how, "claimAdmin", "probe")
  BY <1>1, <1>3, <1>6
<1> HIDE DEF reqs, how
<1> QED
  BY <1>2, <1>3, <1>5, <1>7, <1>8, CallsIInv, ZenonT(60)

LEMMA ProbeIInv == ASSUME IInv, NEW c \in Clients, Probe(c) PROVE IInv'
<1>0. todo[c] \subseteq Roots[c] /\ Roots[c] \subseteq Coordinates
  BY RootsFacts DEF IInv, CallsSound
<1>1. ASSUME NEW s \in todo[c],
             Calls(c, "probe", Exclusive({s}), 1, "nonblocking", "probeFree", "await"),
             UNCHANGED todo
      PROVE  IInv'
  <2>1. "probe" \in Labels /\ "probeFree" \in Labels /\ "await" \in Labels
    BY DEF Labels, Positions
  <2>2. {s} \subseteq Coordinates
    BY <1>0
  <2> QED
    BY <1>1, <2>1, <2>2, NothingBelow, FitsEmpty, FitsAnywhere, ExclusiveTryIInv
<1>2. ASSUME NEW ok \in {"gather", "probe"}, Ends(c, "probeFree", 1, ok),
             todo' = [todo EXCEPT ![c] = {s \in @ : ~First(c, s)}]
      PROVE  IInv'
  <2>1. "probeFree" \in Labels /\ ok \in Labels
    BY DEF Labels, Positions
  <2>2. Fits(c, ok, Below(held[c], 1), todo'[c])
    BY NothingBelow, FitsEmpty
  <2> QED
    BY <1>2, <2>1, <2>2, TodoShrinks, EndsIInv
<1>3. ASSUME NEW s \in todo[c],
             Calls(c, "await", Exclusive({s}), 1, "blocking", "awaited", "idle"),
             UNCHANGED todo
      PROVE  IInv'
  <2>1. "await" \in Labels /\ "awaited" \in Labels
    BY DEF Labels, Positions
  <2>2. {s} \subseteq Coordinates
    BY <1>0
  <2>3. held[c] = {}
    BY <1>3, <2>1, AtLabel DEF Calls, Fits, EmptyHanded
  <2> QED
    BY <1>3, <2>1, <2>2, <2>3, FitsAnywhere, ExclusiveWaitIInv
<1>4. ASSUME Ends(c, "awaited", 1, "gather"), UNCHANGED todo PROVE IInv'
  <2>1. "awaited" \in Labels /\ "gather" \in Labels
    BY DEF Labels, Positions
  <2> QED
    BY <1>4, <2>1, NothingBelow, FitsEmpty, EndsSameIInv
<1> QED
  BY <1>1, <1>2, <1>3, <1>4 DEF Probe

LEMMA FinishIInv == ASSUME IInv, NEW c \in Clients, Finish(c) PROVE IInv'
<1>1. "body" \in Labels /\ "idle" \in Labels
  BY DEF Labels, Positions
<1> QED
  BY <1>1, NothingBelow, FitsEmpty, EndsSameIInv DEF Finish

LEMMA RemoveWorktreeIInv ==
  ASSUME IInv, NEW c \in Clients, RemoveWorktree(c) PROVE IInv'
<1> DEFINE S == {Registry} \cup Roots[c]
<1>1. PICK at \in {"idle", "retry"} :
        Calls(c, at, Exclusive(S), 1, "blocking", "claimAdmin", "idle")
  BY DEF RemoveWorktree
<1>2. S \subseteq Coordinates
  BY RootsFacts
<1>3. at \in Labels /\ "claimAdmin" \in Labels
  BY DEF Labels, Positions
<1>4. held[c] = {}
  BY <1>1, <1>3, AtLabel DEF Calls, Fits, EmptyHanded
<1>5. Owns(held[c] \cup Tagged(Exclusive(S), 1), S)
  <2>1. Owns(held[c], {}) /\ S \cup {} = S
    BY DEF Owns
  <2> HIDE DEF S
  <2> QED
    BY <2>1, TaggedOwns
<1>6. Fits(c, "claimAdmin", held[c] \cup Tagged(Exclusive(S), 1), todo[c])
  BY <1>5 DEF RemoveWorktree, Fits, EmptyHanded, ProfileBelow, InRole, Equipped, Owns
<1>7. UNCHANGED todo
  BY DEF RemoveWorktree
<1> HIDE DEF S
<1> QED
  BY <1>1, <1>2, <1>3, <1>4, <1>6, <1>7, ExclusiveWaitIInv

LEMMA ClaimAdminIInv == ASSUME IInv, NEW c \in Clients, ClaimAdmin(c) PROVE IInv'
<1>0. UNCHANGED todo
  BY DEF ClaimAdmin
<1>s. {Admin} \subseteq Coordinates
  BY RootsFacts
<1>1. ASSUME Calls(c, "claimAdmin", Exclusive({Admin}), 2, "nonblocking", "body", "yieldAll")
      PROVE  IInv'
  <2>1. "claimAdmin" \in Labels /\ "body" \in Labels /\ "yieldAll" \in Labels
    BY DEF Labels, Positions
  <2>2. Owns(held[c], Roots[c]) /\ Role[c] \in {"sync", "remove"}
    BY <1>1, <2>1, AtLabel DEF Calls, Fits, InRole, Equipped
  <2>3. Owns(held[c] \cup Tagged(Exclusive({Admin}), 2), {Admin} \cup Roots[c])
    BY <2>2, TaggedOwns
  <2>4. Fits(c, "body", held[c] \cup Tagged(Exclusive({Admin}), 2), todo[c])
    BY <2>2, <2>3 DEF Fits, EmptyHanded, ProfileBelow, InRole, Equipped
  <2> QED
    BY <1>0, <1>s, <1>1, <2>1, <2>4, FitsAnywhere, ExclusiveTryIInv
<1>2. ASSUME NEW at \in {"yieldAll", "admitted"}, NEW ok \in {"waitAdmin", "retry"},
             Ends(c, at, 1, ok)
      PROVE  IInv'
  <2>1. at \in Labels /\ ok \in Labels
    BY DEF Labels, Positions
  <2> QED
    BY <1>0, <1>2, <2>1, NothingBelow, FitsEmpty, EndsSameIInv
<1>3. ASSUME Calls(c, "waitAdmin", Exclusive({Admin}), 1, "blocking", "admitted", "idle")
      PROVE  IInv'
  <2>1. "waitAdmin" \in Labels /\ "admitted" \in Labels
    BY DEF Labels, Positions
  <2>2. held[c] = {}
    BY <1>3, <2>1, AtLabel DEF Calls, Fits, EmptyHanded
  <2> QED
    BY <1>0, <1>s, <1>3, <2>1, <2>2, FitsAnywhere, ExclusiveWaitIInv
<1> QED
  BY <1>1, <1>2, <1>3 DEF ClaimAdmin

LEMMA UseProfileIInv == ASSUME IInv, NEW c \in Clients, UseProfile(c) PROVE IInv'
<1> DEFINE reqs == {Shared(Profile)}
<1>1. /\ Role[c] = "use"
      /\ Calls(c, "idle", reqs, 1, "blocking", "collect", "idle")
      /\ todo' = [todo EXCEPT ![c] = Roots[c]]
  BY DEF UseProfile
<1>2. /\ reqs \subseteq Requests
      /\ Combine(reqs) = reqs
      /\ \A r, s \in reqs : r.co = s.co => r = s
  BY RootsFacts, SharedFacts
<1>3. /\ "idle" \in Labels /\ "collect" \in Labels
      /\ "blocking" \in Ways /\ "nonblocking" # "blocking"
  BY DEF Labels, Positions, Ways
<1>4. held[c] = {}
  BY <1>1, <1>3, AtLabel DEF Calls, Fits, EmptyHanded
<1>5. /\ todo' \in [Clients -> SUBSET Coordinates]
      /\ todo'[c] = Roots[c] /\ todo'[c] \subseteq Roots[c]
      /\ \A e \in Clients \ {c} : todo'[e] = todo[e]
  BY <1>1, TodoRestarts
<1> DEFINE new == [co |-> Profile, mode |-> "shared", depth |-> 1]
<1>6. held[c] \cup Tagged(reqs, 1) = {new} /\ new.co = Profile /\ new.depth = 1
  BY <1>4, TaggedShared
<1> HIDE DEF new
<1>7. Fits(c, "collect", held[c] \cup Tagged(reqs, 1), todo'[c])
  BY <1>1, <1>5, <1>6 DEF Fits, EmptyHanded, ProfileBelow, InRole, Equipped, Covers
<1> HIDE DEF reqs
<1> QED
  BY <1>1, <1>2, <1>3, <1>4, <1>5, <1>7, CallsIInv, ZenonT(60)

\* What is still held when the inner block has given its leases back.
LEMMA BelowTwo ==
  ASSUME IInv, NEW c \in Clients
  PROVE  \A h \in held[c] : h \in Below(held[c], 2) <=> h.depth = 1
BY DEF IInv, TypeOK, Below

LEMMA CollectSourceIInv ==
  ASSUME IInv, NEW c \in Clients, CollectSource(c) PROVE IInv'
<1>l. /\ "collect" \in Labels /\ "collected" \in Labels /\ "standBack" \in Labels
      /\ "stoodBack" \in Labels /\ "body" \in Labels
  BY DEF Labels, Positions
<1>t. /\ todo[c] \subseteq Roots[c] /\ Roots[c] \subseteq Coordinates
      /\ \A s \in Roots[c] : s \in Nat /\ s > Admin
  BY RootsFacts DEF IInv, CallsSound
<1>1. ASSUME NEW s \in todo[c], First(c, s), UNCHANGED todo,
             Calls(c, "collect", {Shared(s)}, 2, "nonblocking", "collected", "standBack")
      PROVE  IInv'
  <2> DEFINE new == [co |-> s, mode |-> "shared", depth |-> 2]
  <2>1. Fits(c, "collect", held[c], todo[c])
    BY <1>1, <1>l, AtLabel DEF Calls
  <2>2. /\ \A h \in held[c] : h.depth = 1 => h.co = Profile
        /\ \E h \in held[c] : h.co = Profile /\ h.depth = 1
        /\ Covers(held[c], Roots[c] \ todo[c]) /\ Role[c] = "use"
    BY <2>1 DEF Fits, ProfileBelow, Equipped, InRole
  <2>3. Covers(held[c] \cup {new},
               {t \in Roots[c] : t \in todo[c] => \A u \in todo[c] : t <= u})
    <3> SUFFICES ASSUME NEW t \in Roots[c], t \in todo[c] => \A u \in todo[c] : t <= u
                 PROVE  \E h \in held[c] \cup {new} : h.co = t
      BY DEF Covers
    <3>1. CASE t \in todo[c]
      <4>1. t = s
        BY <1>1, <1>t, <3>1 DEF First
      <4>2. new \in held[c] \cup {new} /\ new.co = t
        BY <4>1
      <4> QED
        BY <4>2
    <3>2. CASE t \notin todo[c]
      BY <2>2, <3>2 DEF Covers
    <3> QED
      BY <3>1, <3>2
  <2>4. Fits(c, "collected", held[c] \cup {new}, todo[c])
    BY <2>2, <2>3 DEF Fits, EmptyHanded, ProfileBelow, InRole, Equipped
  <2>5. Fits(c, "standBack", Below(held[c], 2), todo[c])
    <3>1. /\ \A h \in Below(held[c], 2) : h.co = Profile /\ h.depth = 1
          /\ \E h \in Below(held[c], 2) : h.co = Profile /\ h.depth = 1
      BY <2>2, BelowTwo DEF Below
    <3> QED
      BY <2>2, <3>1 DEF Fits, EmptyHanded, ProfileBelow, InRole, Equipped
  <2>6. s \in Coordinates
    BY <1>t
  <2> QED
    BY <1>1, <1>l, <2>4, <2>5, <2>6, SharedTryIInv
<1>2. ASSUME pc[c] = "collected",
             todo' = [todo EXCEPT ![c] = {s \in @ : ~First(c, s)}],
             pc' = [pc EXCEPT ![c] = IF OnlyFirst(c) THEN "body" ELSE "collect"],
             UNCHANGED <<held, call, queued>>
      PROVE  IInv'
  <2>0. /\ TypeOK /\ CallsSound /\ WaitsAscend /\ LeasesCompatible
        /\ \A e \in Clients : Placed(e)
    BY DEF IInv
  <2>1. /\ todo' \in [Clients -> SUBSET Coordinates]
        /\ todo'[c] = {s \in todo[c] : ~First(c, s)} /\ todo'[c] \subseteq Roots[c]
        /\ \A e \in Clients \ {c} : todo'[e] = todo[e]
    BY <1>2, TodoShrinks
  <2>2. /\ \A h \in held[c] : h.depth = 1 => h.co = Profile
        /\ \E h \in held[c] : h.co = Profile /\ h.depth = 1
        /\ Covers(held[c], {t \in Roots[c] : t \in todo[c] => \A u \in todo[c] : t <= u})
        /\ Role[c] = "use"
    BY <1>2, <1>l, AtLabel DEF Fits, ProfileBelow, Equipped, InRole
  <2>3. Covers(held[c], Roots[c] \ todo'[c])
    BY <2>1, <2>2 DEF Covers, First
  <2>4. OnlyFirst(c) => Covers(held[c], {Profile} \cup Roots[c])
    BY <2>2 DEF Covers, First, OnlyFirst
  <2>5. /\ pc'[c] = IF OnlyFirst(c) THEN "body" ELSE "collect"
        /\ pc' \in [Clients -> Positions] /\ pc'[c] \in Labels
        /\ \A e \in Clients \ {c} : pc'[e] = pc[e]
    BY <1>2, <1>l, <2>0 DEF TypeOK, Labels
  <2>6. Fits(c, pc'[c], held[c], todo'[c])
    BY <2>2, <2>3, <2>4, <2>5 DEF Fits, EmptyHanded, ProfileBelow, InRole, Equipped
  <2>7. TypeOK'
    BY <1>2, <2>0, <2>1, <2>5 DEF TypeOK
  <2>8. CallsSound'
    BY <1>2, <2>0, <2>1 DEF CallsSound
  <2>9. WaitsAscend' /\ LeasesCompatible'
    BY <1>2, <1>l, <2>0, <2>5 DEF WaitsAscend, Waiting, LeasesCompatible, Labels
  <2>10. ASSUME NEW e \in Clients PROVE Placed(e)'
    <3>1. CASE e # c
      BY <1>2, <2>0, <2>1, <2>5, <3>1 DEF Placed
    <3>2. CASE e = c
      BY <1>2, <2>5, <2>6, <3>2 DEF Placed, Labels
    <3> QED
      BY <3>1, <3>2
  <2> QED
    BY <2>7, <2>8, <2>9, <2>10 DEF IInv
<1>3. ASSUME NEW s \in todo[c], UNCHANGED todo,
             Calls(c, "standBack", {Shared(s)}, 2, "blocking", "stoodBack", "idle")
      PROVE  IInv'
  <2> DEFINE new == [co |-> s, mode |-> "shared", depth |-> 2]
  <2>1. /\ \A h \in held[c] : h.co = Profile /\ h.depth = 1
        /\ \E h \in held[c] : h.co = Profile /\ h.depth = 1
        /\ Role[c] = "use"
    BY <1>3, <1>l, AtLabel DEF Calls, Fits, ProfileBelow, Equipped, InRole
  <2>2. Fits(c, "stoodBack", held[c] \cup {new}, todo[c])
    BY <2>1 DEF Fits, EmptyHanded, ProfileBelow, InRole, Equipped
  <2>3. s \in Coordinates /\ \A h \in held[c] : h.co < s
    BY <1>t, <2>1 DEF Profile, Admin
  <2> QED
    BY <1>3, <1>l, <2>2, <2>3, SharedWaitIInv
<1>4. ASSUME Ends(c, "stoodBack", 2, "collect"), todo' = [todo EXCEPT ![c] = Roots[c]]
      PROVE  IInv'
  <2>1. /\ \A h \in held[c] : h.depth = 1 => h.co = Profile
        /\ \E h \in held[c] : h.co = Profile /\ h.depth = 1
        /\ Role[c] = "use"
    BY <1>4, <1>l, AtLabel DEF Ends, Fits, ProfileBelow, Equipped, InRole
  <2>2. /\ todo' \in [Clients -> SUBSET Coordinates]
        /\ todo'[c] = Roots[c] /\ todo'[c] \subseteq Roots[c]
        /\ \A e \in Clients \ {c} : todo'[e] = todo[e]
    BY <1>4, TodoRestarts
  <2>3. /\ \A h \in Below(held[c], 2) : h.depth = 1 => h.co = Profile
        /\ \E h \in Below(held[c], 2) : h.co = Profile /\ h.depth = 1
    BY <2>1, BelowTwo DEF Below
  <2>4. Fits(c, "collect", Below(held[c], 2), todo'[c])
    BY <2>1, <2>2, <2>3 DEF Fits, EmptyHanded, ProfileBelow, InRole, Equipped, Covers
  <2> QED
    BY <1>4, <1>l, <2>2, <2>4, EndsIInv
<1> QED
  BY <1>1, <1>2, <1>3, <1>4 DEF CollectSource

LEMMA UpdateProfileIInv ==
  ASSUME IInv, NEW c \in Clients, UpdateProfile(c) PROVE IInv'
<1>l. "idle" \in Labels /\ "select" \in Labels /\ "body" \in Labels
  BY DEF Labels, Positions
<1>0. Role[c] = "update" /\ UNCHANGED todo
  BY DEF UpdateProfile
<1>1. ASSUME Calls(c, "idle", Exclusive({Profile}), 1, "blocking", "select", "idle")
      PROVE  IInv'
  <2>1. held[c] = {}
    BY <1>1, <1>l, AtLabel DEF Calls, Fits, EmptyHanded
  <2>2. {Profile} \subseteq Coordinates
    BY RootsFacts
  <2>3. Owns(held[c] \cup Tagged(Exclusive({Profile}), 1), {Profile})
    <3>1. Owns(held[c], {}) /\ {Profile} \cup {} = {Profile}
      BY DEF Owns
    <3> QED
      BY <3>1, TaggedOwns
  <2>4. \A h \in held[c] \cup Tagged(Exclusive({Profile}), 1) : h.co = Profile /\ h.depth = 1
    BY <2>1 DEF Tagged, Exclusive, Request
  <2>5. Fits(c, "select", held[c] \cup Tagged(Exclusive({Profile}), 1), todo[c])
    BY <1>0, <2>3, <2>4 DEF Fits, EmptyHanded, ProfileBelow, InRole, Equipped
  <2> QED
    BY <1>0, <1>1, <1>l, <2>1, <2>2, <2>5, ExclusiveWaitIInv
<1>2. ASSUME NEW s \in Roots[c],
             Calls(c, "select", {Shared(s)}, 2, "blocking", "body", "idle")
      PROVE  IInv'
  <2> DEFINE new == [co |-> s, mode |-> "shared", depth |-> 2]
  <2>1. /\ \A h \in held[c] : h.co = Profile /\ h.depth = 1
        /\ Owns(held[c], {Profile})
    BY <1>2, <1>l, AtLabel DEF Calls, Fits, ProfileBelow, Equipped
  <2>2. Fits(c, "body", held[c] \cup {new}, todo[c])
    BY <1>0, <2>1 DEF Fits, EmptyHanded, ProfileBelow, InRole, Equipped, Owns
  <2>3. s \in Coordinates /\ \A h \in held[c] : h.co < s
    BY <2>1, RootsFacts DEF Profile, Admin
  <2> QED
    BY <1>0, <1>2, <1>l, <2>2, <2>3, SharedWaitIInv
<1> QED
  BY <1>1, <1>2 DEF UpdateProfile

-----------------------------------------------------------------------------
(* The invariant, and what follows from it *)

LEMMA NextIInv == IInv /\ [Next]_vars => IInv'
<1> SUFFICES ASSUME IInv, [Next]_vars PROVE IInv'
  OBVIOUS
<1>1. CASE UNCHANGED vars
  <2>0. /\ TypeOK /\ CallsSound /\ WaitsAscend /\ LeasesCompatible
        /\ \A c \in Clients : Placed(c)
        /\ pc' = pc /\ held' = held /\ call' = call /\ queued' = queued /\ todo' = todo
    BY <1>1 DEF IInv, vars
  <2>1. TypeOK' /\ CallsSound' /\ LeasesCompatible'
    BY <2>0 DEF TypeOK, CallsSound, LeasesCompatible
  <2>2. WaitsAscend'
    BY <2>0 DEF WaitsAscend, Waiting
  <2>3. \A c \in Clients : Placed(c)'
    BY <2>0 DEF Placed
  <2> QED
    BY <2>1, <2>2, <2>3 DEF IInv
<1>2. ASSUME NEW c \in Clients, Step(c) PROVE IInv'
  <2>1. CASE ResourceLocks(c)
    BY <2>1, GrantIInv, QueueIInv, RefuseIInv, ReleaseIInv DEF ResourceLocks
  <2>2. CASE Initialize(c) \/ RemoveWorktree(c) \/ UpdateProfile(c) \/ Finish(c)
    BY <2>2, InitializeIInv, RemoveWorktreeIInv, UpdateProfileIInv, FinishIInv
  <2>3. CASE Snapshot(c) \/ Gather(c) \/ Probe(c) \/ ClaimAdmin(c)
    BY <2>3, SnapshotIInv, GatherIInv, ProbeIInv, ClaimAdminIInv
  <2>4. CASE UseProfile(c) \/ CollectSource(c)
    BY <2>4, UseProfileIInv, CollectSourceIInv
  <2> QED
    BY <1>2, <2>1, <2>2, <2>3, <2>4 DEF Step
<1> QED
  BY <1>1, <1>2 DEF Next

\* The inductive invariant holds throughout.
THEOREM Invariance == Spec => []IInv
BY InitIInv, NextIInv, PTL DEF Spec

\* Positions, leases and calls have the types the code gives them.
THEOREM TypeCorrect == Spec => []TypeOK
<1>1. IInv => TypeOK
  BY DEF IInv
<1> QED
  BY <1>1, Invariance, PTL

\* Every command, in every nesting of its calls, waits only for coordinates
\* that come after all it holds.
THEOREM Ascending == Spec => []WaitsAscend
<1>1. IInv => WaitsAscend
  BY DEF IInv
<1> QED
  BY <1>1, Invariance, PTL

\* A bounded, inhabited set of numbers has a greatest element.
LEMMA Greatest ==
  ASSUME NEW R, R \subseteq Nat, R # {}, NEW B \in Nat, \A n \in R : n <= B
  PROVE  \E m \in R : \A n \in R : n <= m
<1> DEFINE less == OpToRel(<, Nat)
           gaps == {k \in Nat : \E n \in R : k = B - n}
<1>1. IsWellFoundedOn(less, Nat)
  BY NatLessThanWellFounded
<1>2. \A x, y \in Nat : <<y, x>> \in less <=> y < x
  BY DEF OpToRel
<1>3. gaps \subseteq Nat
  OBVIOUS
<1>4. PICK n0 \in R : TRUE
  OBVIOUS
<1>5. B - n0 \in gaps
  BY <1>4
<1> HIDE DEF less
<1>6. PICK k \in gaps : \A j \in gaps : ~(<<j, k>> \in less)
  <2> HIDE DEF gaps
  <2> QED
    BY <1>1, <1>3, <1>5, WFMin
<1>7. PICK m \in R : k = B - m
  BY <1>6
<1>8. ASSUME NEW n \in R PROVE n <= m
  <2>1. B - n \in gaps /\ n \in Nat /\ m \in Nat
    OBVIOUS
  <2>2. ~(B - n < k)
    <3> HIDE DEF gaps
    <3> QED
      BY <1>2, <1>3, <1>6, <2>1
  <2> QED
    BY <1>7, <2>1, <2>2
<1> QED
  BY <1>8

\* Along "is blocked by" what is waited for ascends; at equal coordinates a
\* reader waits for a queued writer and never the other way round.
LEMMA NoWaitCycleFollows == IInv => NoWaitCycle
<1> SUFFICES ASSUME IInv, NEW S \in SUBSET Clients, S # {},
                    \A c \in S : \E d \in S : BlockedBy(c, d)
             PROVE  FALSE
  BY DEF NoWaitCycle
<1> DEFINE rank(r) == 2 * r.co + (IF r.mode = "exclusive" THEN 1 ELSE 0)
           turns(c) == {r \in call[c].want : Waiting(c) /\ Turn(c, r)}
           R == {n \in Nat : \E c \in S : \E r \in turns(c) : n = rank(r)}
           B == 2 * (Last + 3) + 1
<1>1. ASSUME NEW c \in S
      PROVE  \A r \in call[c].want : r.co \in Nat /\ r.co <= Last + 3 /\ r.mode \in Modes
  <2>1. call[c].want \in SUBSET Requests
    BY DEF IInv, TypeOK
  <2>2. ASSUME NEW x \in Coordinates PROVE x \in Nat /\ x <= Last + 3
    BY RootsFacts, LastAssumption DEF Coordinates, Registry, Profile, Admin
  <2> QED
    BY <2>1, <2>2 DEF Requests
<1>2. ASSUME NEW c \in S, NEW r \in turns(c) PROVE rank(r) \in R /\ rank(r) <= B
  <2>1. r.co \in Nat /\ r.co <= Last + 3
    BY <1>1, <1>2
  <2>2. rank(r) \in Nat /\ rank(r) <= B
    BY <2>1, LastAssumption
  <2> QED
    BY <1>2, <2>2
<1>3. ASSUME NEW c \in S PROVE \E r \in turns(c) : TRUE
  BY DEF BlockedBy
<1>4. R # {} /\ (\A n \in R : n <= B) /\ B \in Nat
  <2>1. PICK c \in S : TRUE
    OBVIOUS
  <2>2. PICK r \in turns(c) : TRUE
    BY <1>3
  <2>3. rank(r) \in R
    BY <1>2
  <2>4. ASSUME NEW n \in R PROVE n <= B
    <3>1. PICK d \in S : \E q \in turns(d) : n = rank(q)
      OBVIOUS
    <3> QED
      BY <1>2, <3>1
  <2> QED
    BY <2>3, <2>4, LastAssumption
<1>5. ASSUME NEW c \in S, NEW r \in turns(c)
      PROVE  \E d \in S : \E q \in turns(d) : rank(r) < rank(q)
  <2>1. PICK d \in S : BlockedBy(c, d)
    OBVIOUS
  <2>2. PICK r2 \in call[c].want : Turn(c, r2) /\ Obstructs(d, c, r2)
    BY <2>1 DEF BlockedBy
  <2>3. r2 = r
    <3>1. r.co \in Nat /\ r2.co \in Nat
      BY <1>1
    <3>2. r.co <= r2.co /\ r2.co <= r.co
      BY <2>2 DEF Turn
    <3> QED
      BY <3>1, <3>2 DEF IInv, CallsSound
  <2>4. PICK q \in turns(d) : TRUE
    BY <1>3
  <2>5. /\ r.co \in Nat /\ r.mode \in Modes /\ q.co \in Nat /\ q.mode \in Modes
        /\ Waiting(d)
    BY <1>1, <2>4
  <2>6. CASE \E h \in held[d] : h.co = r.co
    <3>1. r.co < q.co
      BY <2>4, <2>6 DEF IInv, WaitsAscend
    <3>2. rank(r) < rank(q)
      BY <2>5, <3>1
    <3> QED
      BY <3>2
  <2>7. CASE r.mode = "shared" /\ Turn(d, Request(r.co, "exclusive"))
    <3>1. Request(r.co, "exclusive") \in turns(d)
      BY <2>5, <2>7 DEF Turn
    <3>2. rank(r) < rank(Request(r.co, "exclusive"))
      BY <2>5, <2>7 DEF Request
    <3> QED
      BY <3>1, <3>2
  <2> QED
    BY <2>2, <2>3, <2>6, <2>7 DEF Obstructs
<1>6. PICK m \in R : \A n \in R : n <= m
  <2> HIDE DEF R, B
  <2>1. R \subseteq Nat
    BY DEF R
  <2> QED
    BY <1>4, <2>1, Greatest
<1>7. PICK c \in S : \E r \in turns(c) : m = rank(r)
  OBVIOUS
<1>8. PICK d \in S : \E q \in turns(d) : m < rank(q)
  BY <1>5, <1>7
<1>9. \E n \in R : m < n
  BY <1>2, <1>8
<1> QED
  BY <1>6, <1>9

\* No set of commands, whatever its size, waits for itself.
THEOREM NoCycle == Spec => []NoWaitCycle
BY NoWaitCycleFollows, Invariance, PTL

\* Leases held at work are those the command's work relies on.
LEMMA BodiesExcludeFollows == IInv => BodiesExclude
<1> SUFFICES ASSUME IInv PROVE BodiesExclude
  OBVIOUS
<1> USE DEF At
<1>1. ASSUME NEW c \in Clients, pc[c] = "body"
      PROVE  /\ Role[c] \in {"init", "sync", "remove"} => Owns(held[c], {Admin} \cup Roots[c])
             /\ Role[c] = "use" => Covers(held[c], {Profile} \cup Roots[c])
             /\ Role[c] = "update" => Owns(held[c], {Profile})
  <2>1. pc[c] \in Labels
    BY <1>1 DEF Labels, Positions
  <2>2. Fits(c, "body", held[c], todo[c])
    BY <1>1, <2>1, AtLabel
  <2> QED
    BY <2>2 DEF Fits, Equipped
<1>2. ASSUME NEW c \in Clients, NEW d \in Clients, c # d, NEW x,
             \E h \in held[c] : h.co = x /\ h.mode = "exclusive",
             \E h \in held[d] : h.co = x
      PROVE  FALSE
  BY <1>2 DEF IInv, LeasesCompatible
<1>3. ASSUME NEW c \in Clients, NEW d \in Clients, c # d
      PROVE  ~(Administers(c) /\ Administers(d))
  <2> SUFFICES ASSUME Administers(c), Administers(d) PROVE FALSE
    OBVIOUS
  <2>1. Owns(held[c], {Admin}) /\ Owns(held[d], {Admin})
    BY <1>1 DEF Administers, Owns
  <2> QED
    BY <1>2, <1>3, <2>1 DEF Owns
<1>4. ASSUME NEW c \in Clients, NEW d \in Clients, c # d
      PROVE  ~(At(c, {"update"}) /\ At(d, {"update", "use"}))
  BY <1>1, <1>2, <1>4 DEF Owns, Covers
<1>5. ASSUME NEW c \in Clients, NEW d \in Clients, c # d, NEW s \in Coordinates,
             WorksOn(c, s), WorksOn(d, s), Administers(c)
      PROVE  FALSE
  <2>1. \E h \in held[c] : h.co = s /\ h.mode = "exclusive"
    BY <1>1, <1>5 DEF WorksOn, Administers, Owns
  <2>2. \E h \in held[d] : h.co = s
    BY <1>1, <1>5 DEF WorksOn, Owns, Covers
  <2> QED
    BY <1>2, <1>5, <2>1, <2>2
<1> QED
  BY <1>3, <1>4, <1>5 DEF BodiesExclude

\* Commands at work exclude each other as their leases say.
THEOREM Exclusion == Spec => []BodiesExclude
BY BodiesExcludeFollows, Invariance, PTL
===============================================================================
