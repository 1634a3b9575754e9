----------------------------- MODULE MCLeaseOrder -----------------------------
(***************************************************************************)
(* One client per kind of command, on two sources; the source roots of the *)
(* synchronisation cover those of the others.                              *)
(***************************************************************************)
EXTENDS LeaseOrder

A == Admin + 1
B == Admin + 2

MCClients == {"initialise", "synchronise", "remover", "builder", "editor"}

MCRole == [c \in Clients |->
             CASE c = "initialise" -> "init" [] c = "synchronise" -> "sync"
               [] c = "remover" -> "remove" [] c = "builder" -> "use"
               [] c = "editor" -> "update"]
MCRoots == [c \in Clients |->
              CASE c = "initialise" -> {A} [] c = "remover" -> {B}
                [] c = "editor" -> {B} [] OTHER -> {A, B}]
===============================================================================
