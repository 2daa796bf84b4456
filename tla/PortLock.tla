------------------------------ MODULE PortLock ------------------------------
(***************************************************************************)
(* What snx_share.c promises the drivers above a parallel port: a lock.    *)
(* The port is handed to a device when a thread inside cad_lock decides so,*)
(* before the device's client knows (release grants it to a sleeping       *)
(* waiter), and, on more than one CPU, before port->cad names it: to the   *)
(* lock the writes of a hand-over are one step, the decision.  The client  *)
(* is a holder from the moment it is told, and stays one until it drops the*)
(* port itself.                                                            *)
(***************************************************************************)
CONSTANTS Devs, NoDev

VARIABLES owner,    \* the device the port is assigned or promised to
          holders   \* the devices whose clients know that they have it

vars == <<owner, holders>>

Init == owner = NoDev /\ holders = {}

Acquire(d) == /\ owner = NoDev
              /\ owner' = d
              /\ UNCHANGED holders

Confirm(d) == /\ owner = d
              /\ holders' = holders \cup {d}
              /\ UNCHANGED owner

Drop(d) == /\ owner = d
           /\ owner' = NoDev
           /\ holders' = holders \ {d}

Next == \E d \in Devs : Acquire(d) \/ Confirm(d) \/ Drop(d)

Spec == Init /\ [][Next]_vars

=============================================================================
