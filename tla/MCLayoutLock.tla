----------------------------- MODULE MCLayoutLock -----------------------------
(***************************************************************************)
(* TLC instances of LayoutLock.  The safety run lets three clients do      *)
(* anything.  Liveness cannot use symmetry, so Scope bounds who asks for   *)
(* what: Writers and Readers take the lock, Parents start children, Mortal *)
(* are killed and Impatient ask nonblocking.  It limits only steps without *)
(* fairness, so the fairness of LayoutLock is unchanged.                   *)
(***************************************************************************)
EXTENDS LayoutLock, TLC

CONSTANTS Writers, Readers, Parents, Mortal, Impatient

Symmetry == Permutations(Clients)

Scope ==
  \A c \in Clients :
    /\ pc[c] = "idle" /\ pc'[c] = "wQueue" => c \in Writers
    /\ pc[c] = "idle" /\ pc'[c] = "rAdmit" => c \in Readers
    /\ pc[c] # "dying" /\ pc'[c] = "dying" => c \in Mortal
    /\ kidRole[c] = "none" /\ kidRole'[c] # "none" => c \in Parents
    /\ nb'[c] => c \in Impatient

ScopedSpec == Init /\ [][Next /\ Scope]_vars /\ Fairness

\* A registered writer is served however many readers keep arriving, and a reader that
\* stepped aside as soon as there is a moment without writers.
EveryoneServed == WriterServed /\ ReaderServed
===============================================================================
