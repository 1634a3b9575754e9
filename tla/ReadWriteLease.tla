---------------------------- MODULE ReadWriteLease ----------------------------
(***************************************************************************)
(* What locking.py promises of one lease coordinate: readers share it, a   *)
(* writer has it alone, and a child process started under the lease keeps  *)
(* it after the wrapper that acquired it has gone (inherit_lock_fds).      *)
(* Nothing is said of how admission works or of who goes first.            *)
(***************************************************************************)
CONSTANTS Clients

VARIABLES grant,  \* grant[c]: what client c itself holds
          heir    \* heir[c]: what the child process of client c holds

leaseVars == <<grant, heir>>

Roles == {"reader", "writer"}

Init ==
  /\ grant = [c \in Clients |-> "none"]
  /\ heir = [c \in Clients |-> "none"]

\* A writer tolerates nobody; a reader tolerates readers.
Tolerates(role, other) == other = "none" \/ (role = "reader" /\ other = "reader")

Enter(c, role) ==
  /\ grant[c] = "none"
  /\ \A d \in Clients : Tolerates(role, heir[d]) /\ Tolerates(role, grant[d])
  /\ grant' = [grant EXCEPT ![c] = role]
  /\ UNCHANGED heir

Fork(c) ==
  /\ grant[c] # "none"
  /\ heir[c] = "none"
  /\ heir' = [heir EXCEPT ![c] = grant[c]]
  /\ UNCHANGED grant

Leave(c) ==
  /\ grant[c] # "none"
  /\ grant' = [grant EXCEPT ![c] = "none"]
  /\ UNCHANGED heir

HeirLeave(c) ==
  /\ heir[c] # "none"
  /\ heir' = [heir EXCEPT ![c] = "none"]
  /\ UNCHANGED grant

Next ==
  \E c \in Clients :
    \/ \E role \in Roles : Enter(c, role)
    \/ Fork(c)
    \/ Leave(c)
    \/ HeirLeave(c)

Spec == Init /\ [][Next]_leaseVars
===============================================================================
