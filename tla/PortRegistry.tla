---------------------------- MODULE PortRegistry ----------------------------
(***************************************************************************)
(* The list of parallel ports and of the drivers above them                *)
(* (driver/snx_share.c), with what the two drivers of this module, ppdev   *)
(* and lp, do when a port is attached or detached.                         *)
(*                                                                         *)
(* A port is named by its slot of sunix_par_table.  It lives while its     *)
(* ref_count is positive: its registration holds one reference, every      *)
(* device registered on it one, and each PPGETMODES takes one that is      *)
(* never given back.                                                       *)
(***************************************************************************)
EXTENDS Integers, FiniteSets

CONSTANTS SNX_LP_NO

VARIABLES
    ports,    \* snx_all_ports: slot -> [number, refs, listed], listed in snx_portlist
    drivers,  \* snx_drivers: a subset of {"ppdev", "lp"}
    nodes,    \* numbers of the ports with a ppdev node
    lpDevs,   \* slots whose snx_lp_table entry has a device
    leaked    \* slot -> references taken by PPGETMODES

registryVars == <<ports, drivers, nodes, lpDevs, leaked>>

Slots == DOMAIN leaked

RegistryInit(slots) ==
    /\ ports = <<>>
    /\ drivers = {}
    /\ nodes = {}
    /\ lpDevs = {}
    /\ leaked = [s \in slots |-> 0]

----------------------------------------------------------------------------
Registered == {s \in DOMAIN ports : ports[s].listed}
NumberOf(s) == ports[s].number
Numbers(ps) == {ps[s].number : s \in DOMAIN ps}

\* Changed definition: the ports are not looked at.
FreeNumberTwo(ps) == 2

\* The first number from 2 on that no port has.
FreeNumber(ps) ==
    CHOOSE n \in 2 .. Cardinality(DOMAIN ps) + 2 :
        n \notin Numbers(ps) /\ \A k \in 2 .. n - 1 : k \in Numbers(ps)

\* sunix_parport_get_port and sunix_parport_put_port; the last reference
\* frees the port.
Add(ps, s, n) == [ps EXCEPT ![s].refs = @ + n]
GetPort(ps, s) == Add(ps, s, 1)
PutPort(ps, s) ==
    IF ps[s].refs = 1 THEN [t \in DOMAIN ps \ {s} |-> ps[t]] ELSE Add(ps, s, -1)

\* attach of lp: only ports whose number is below SNX_LP_NO get an lp device.
\* The snx_parport_nr table gives every number its own index.
LpFits(n) == n \in 0 .. SNX_LP_NO - 1

\* sunix_parport_register_port and sunix_parport_announce_port, called by
\* probe_port before any driver has been registered: nobody is attached.
RegisterPort(s) ==
    ports' = [t \in DOMAIN ports \cup {s} |->
                 IF t = s THEN [number |-> FreeNumber(ports), refs |-> 1, listed |-> TRUE]
                          ELSE ports[t]]

\* sunix_parport_register_driver(snx_pp_driver).
AttachPpdev ==
    /\ drivers' = drivers \cup {"ppdev"}
    /\ nodes' = {NumberOf(s) : s \in Registered}
    /\ UNCHANGED <<ports, lpDevs, leaked>>

\* sunix_parport_register_driver(snx_lp_driver); S are the ports whose device
\* could be registered.
AttachLp(S) ==
    /\ S \subseteq {s \in Registered : LpFits(NumberOf(s))}
    /\ drivers' = drivers \cup {"lp"}
    /\ lpDevs' = S
    /\ ports' = [s \in DOMAIN ports |->
                    IF s \in S THEN [ports[s] EXCEPT !.refs = @ + 1] ELSE ports[s]]
    /\ UNCHANGED <<nodes, leaked>>

\* sunix_parport_unregister_driver(snx_pp_driver).
DetachPpdev ==
    /\ drivers' = drivers \ {"ppdev"}
    /\ nodes' = nodes \ {NumberOf(s) : s \in Registered}
    /\ UNCHANGED <<ports, lpDevs, leaked>>

\* Changed definition: the devices are forgotten and keep their references.
DetachLpKeeps ==
    /\ drivers' = drivers \ {"lp"}
    /\ lpDevs' = {}
    /\ UNCHANGED <<ports, nodes, leaked>>

\* sunix_par_lp_exit: detach of lp does nothing, and sunix_par_lp_exit itself
\* unregisters the devices.  The registration's reference keeps the ports.
DetachLp ==
    /\ drivers' = drivers \ {"lp"}
    /\ ports' = [s \in DOMAIN ports |->
                    IF s \in lpDevs THEN [ports[s] EXCEPT !.refs = @ - 1] ELSE ports[s]]
    /\ lpDevs' = {}
    /\ UNCHANGED <<nodes, leaked>>

\* sunix_parport_pc_unregister_port: the drivers still registered are
\* detached, the port leaves the list, and its registration's reference goes.
UnregisterPort(s) ==
    /\ nodes' = IF "ppdev" \in drivers THEN nodes \ {NumberOf(s)} ELSE nodes
    /\ ports' = PutPort([ports EXCEPT ![s].listed = FALSE], s)
    /\ UNCHANGED <<drivers, lpDevs, leaked>>

=============================================================================
