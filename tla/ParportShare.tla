---------------------------- MODULE ParportShare ----------------------------
(***************************************************************************)
(* Arbitration of one parallel port between its registered devices         *)
(* (driver/snx_share.c, kernel 4.15 or newer branches).                    *)
(*                                                                         *)
(* Every device has one thread.  A step of a thread is one locked section, *)
(* or one unlocked read or write of shared state, so that two threads      *)
(* interleave wherever the code lets them.  One locked section is more     *)
(* than a step: when claim takes a waiter off the list, it writes          *)
(* dev->waiting, the links and port->cad in this order, and the waiter     *)
(* reads dev->waiting and port->cad without the lock; with more than one   *)
(* CPU these writes are steps of their own.  The memory of an unregistered *)
(* device keeps its contents, as kfree() does until the block is reused.   *)
(* The client above the arbitration is reduced to what it does with the    *)
(* results: ppdev believes an error, lp and both callers of yield do not   *)
(* look at it.  No client in the driver has a wakeup callback, and the     *)
(* only preempt callback (lp's) always refuses.  The port's register image *)
(* (save_state, restore_state) is not part of this module.                 *)
(***************************************************************************)
EXTENDS Naturals, FiniteSets

CONSTANTS
    Devs,         \* the snx_pardevice structures that may exist on the port
    NoDev,        \* the NULL pointer
    LpDevs,       \* devices of snx_lp.c, whose claim ignores the result
    ExclDevs,     \* devices that may ask for the port alone (SNX_PPEXCL)
    Yielders,     \* devices whose client yields the port to waiters
    Closers,      \* devices whose client may unregister
    Interruptible,\* devices whose thread may receive a signal
    Preemptive    \* TRUE: several CPUs, or a preemptible kernel on one;
                  \* FALSE: one CPU and a kernel thread that runs until it
                  \* sleeps or returns

ASSUME DevsAssumption ==
    /\ NoDev \notin Devs
    /\ LpDevs \subseteq Devs
    /\ ExclDevs \subseteq Devs
    /\ Yielders \subseteq Devs
    /\ Closers \subseteq Devs
    /\ Interruptible \subseteq Devs
    /\ Preemptive \in BOOLEAN

VARIABLES
    pc,        \* where each thread is
    goal,      \* the client call its claim or release belongs to
    cad,       \* port->cad, the current owner
    giving,    \* the waiter a thread inside cad_lock is handing the port to;
               \* NoDev: the lock is free between two steps
    stage,     \* what that thread writes next, "free" if there is none
    waiting,   \* dev->waiting as the set of its bits: 0 queued, 1 may block
    waithead, waittail, waitprev, waitnext,  \* the port's waitlist
    registered,\* the devices on port->devices
    excl,      \* PARPORT_FLAG_EXCL of the port
    exclusive, \* devices whose register call carries PARPORT_DEV_EXCL
    claim,     \* what the client believes: "none", "held" (claim returned
               \* success) or "intr" (it went on after -EINTR)
    sig,       \* a signal is pending for the thread
    walk       \* pd, the waiter a releasing thread is looking at

waitlist == <<waithead, waittail, waitprev, waitnext>>
registry == <<registered, excl, exclusive>>
port == <<cad, giving, stage>>
vars == <<pc, goal, port, waiting, waitlist, registry, claim, sig, walk>>

Ptr == Devs \cup {NoDev}

SwitchPoints == {"off", "register", "idle", "asleep", "woken"}
ReleasePath == {"release_lock", "release_head", "release_walk",
                "release_claim", "release_grant", "release_give",
                "release_wake"}
ClaimPath == {"claim_check", "claim_lock", "claim_give", "block_check",
              "wait_test", "asleep", "woken", "claim_done"}
ClosePath == {"unreg_devices", "unreg_waitlist"}
Locations == {"off", "register", "idle"} \cup ClaimPath \cup ReleasePath
                 \cup ClosePath

TypeOK ==
    /\ pc \in [Devs -> Locations]
    /\ goal \in [Devs -> {"claim", "release", "yield", "close"}]
    /\ cad \in Ptr
    /\ giving \in Ptr /\ stage \in {"free", "clear", "unlink", "links", "own"}
    /\ waiting \in [Devs -> SUBSET {0, 1}]
    /\ waithead \in Ptr /\ waittail \in Ptr
    /\ waitprev \in [Devs -> Ptr] /\ waitnext \in [Devs -> Ptr]
    /\ registered \subseteq Devs
    /\ excl \in BOOLEAN /\ exclusive \subseteq Devs
    /\ claim \in [Devs -> {"none", "held", "intr"}]
    /\ sig \in [Devs -> BOOLEAN]
    /\ walk \in [Devs -> Ptr]

Init ==
    /\ pc = [d \in Devs |-> "off"]
    /\ goal = [d \in Devs |-> "claim"]
    /\ cad = NoDev /\ giving = NoDev /\ stage = "free"
    /\ waiting = [d \in Devs |-> {}]
    /\ waithead = NoDev /\ waittail = NoDev
    /\ waitprev = [d \in Devs |-> NoDev]
    /\ waitnext = [d \in Devs |-> NoDev]
    /\ registered = {}
    /\ excl = FALSE /\ exclusive = {}
    /\ claim = [d \in Devs |-> "none"]
    /\ sig = [d \in Devs |-> FALSE]
    /\ walk = [d \in Devs |-> NoDev]

----------------------------------------------------------------------------
(* Threads *)

\* Without preemption a thread runs only while every other one is at a point
\* where it has given up the CPU.
MayRun(d) == Preemptive \/ \A e \in Devs \ {d} : pc[e] \in SwitchPoints

At(d, loc) == pc[d] = loc /\ MayRun(d)

Goto(d, loc) == pc' = [pc EXCEPT ![d] = loc]

----------------------------------------------------------------------------
(* sunix_parport_register_device *)

\* The unlocked look at PARPORT_FLAG_EXCL; kmalloc may sleep after it.
RegisterCheck(d) ==
    /\ At(d, "off")
    /\ ~excl
    /\ exclusive' \in {exclusive \ {d}} \cup
                      (IF d \in ExclDevs THEN {exclusive \cup {d}} ELSE {})
    /\ Goto(d, "register")
    /\ UNCHANGED <<goal, port, waiting, waitlist, registered, excl, claim, sig,
                   walk>>

\* Mutant: an exclusive request does not look at the other devices.
RegisterLinkUnchecked(d) ==
    /\ At(d, "register")
    /\ Goto(d, "idle")
    /\ registered' = registered \cup {d}
    /\ excl' = (excl \/ d \in exclusive)
    /\ UNCHANGED <<goal, port, waiting, waitlist, exclusive, claim, sig, walk>>

\* The section under pardevice_lock, with the initialisation of the device
\* around it; an exclusive request fails when any device is there.
RegisterLink(d) ==
    /\ At(d, "register")
    /\ IF d \in exclusive /\ registered # {}
         THEN /\ Goto(d, "off")
              /\ UNCHANGED <<waiting, waitprev, waitnext, registry>>
         ELSE /\ Goto(d, "idle")
              /\ waiting' = [waiting EXCEPT ![d] = {}]
              /\ waitprev' = [waitprev EXCEPT ![d] = NoDev]
              /\ waitnext' = [waitnext EXCEPT ![d] = NoDev]
              /\ registered' = registered \cup {d}
              /\ excl' = (excl \/ d \in exclusive)
              /\ UNCHANGED exclusive
    /\ UNCHANGED <<goal, port, waithead, waittail, claim, sig, walk>>

----------------------------------------------------------------------------
(* sunix_parport_claim and sunix_parport_claim_or_block *)

\* Mutant: the tail is not moved when the last waiter leaves.
UnlinkLosesTail(e) ==
    /\ waithead' = IF waitprev[e] = NoDev THEN waitnext[e] ELSE waithead
    /\ UNCHANGED waittail

\* Take e off the waitlist, under waitlist_lock: the ends of the list, ...
Unlink(e) ==
    /\ waithead' = IF waitprev[e] = NoDev THEN waitnext[e] ELSE waithead
    /\ waittail' = IF waitnext[e] = NoDev THEN waitprev[e] ELSE waittail

\* ... and the links of its neighbours, which point past it.
NextPast(e) ==
    [x \in Devs |-> IF x = waitprev[e] THEN waitnext[e] ELSE waitnext[x]]
PrevPast(e) ==
    [x \in Devs |-> IF x = waitnext[e] THEN waitprev[e] ELSE waitprev[x]]

\* Mutant: dev->waiting is not reset when the waiter gets the port.
GrantKeepsWaiting(e) ==
    /\ cad = NoDev
    /\ cad' = e
    /\ UNCHANGED <<waiting, waitlist, giving, stage>>

\* The locked body of sunix_parport_claim(e) when nobody owns the port.  For
\* a queued device it is one step only when no other CPU can look into it.
Grant(e) ==
    /\ cad = NoDev
    /\ cad' = e
    /\ UNCHANGED <<giving, stage>>
    /\ \/ 0 \notin waiting[e] /\ UNCHANGED <<waiting, waitlist>>
       \/ /\ 0 \in waiting[e] /\ ~Preemptive
          /\ waiting' = [waiting EXCEPT ![e] = {}]
          /\ Unlink(e)
          /\ waitnext' = [NextPast(e) EXCEPT ![e] = NoDev]
          /\ waitprev' = [PrevPast(e) EXCEPT ![e] = NoDev]

\* Mutant: the owner is not asked before the port is handed over.
GiveStartTakesOver(e) ==
    /\ 0 \in waiting[e] /\ Preemptive
    /\ giving' = e /\ stage' = "clear"
    /\ UNCHANGED <<cad, waiting, waitlist>>

\* The same body for a queued device on more than one CPU: the tests of cad
\* and of dev->waiting, after which cad_lock stays taken, ...
GiveStart(e) ==
    /\ cad = NoDev
    /\ 0 \in waiting[e] /\ Preemptive
    /\ giving' = e /\ stage' = "clear"
    /\ UNCHANGED <<cad, waiting, waitlist>>

\* ... dev->waiting = 0, which the waiter may see at once, ...
GiveClear(e) ==
    /\ stage = "clear" /\ stage' = "unlink"
    /\ waiting' = [waiting EXCEPT ![e] = {}]
    /\ UNCHANGED <<cad, giving, waitlist>>

\* ... the section under waitlist_lock, ...
GiveUnlink(e) ==
    /\ stage = "unlink" /\ stage' = "links"
    /\ Unlink(e) /\ waitnext' = NextPast(e) /\ waitprev' = PrevPast(e)
    /\ UNCHANGED <<cad, giving, waiting>>

\* ... dev->waitprev = dev->waitnext = NULL outside it, ...
GiveLinks(e) ==
    /\ stage = "links" /\ stage' = "own"
    /\ waitprev' = [waitprev EXCEPT ![e] = NoDev]
    /\ waitnext' = [waitnext EXCEPT ![e] = NoDev]
    /\ UNCHANGED <<cad, giving, waiting, waithead, waittail>>

\* Mutant: the lock is dropped before port->cad is written.
GiveOwnForgets(e) ==
    /\ stage = "own" /\ stage' = "free"
    /\ giving' = NoDev
    /\ UNCHANGED <<cad, waiting, waitlist>>

\* ... and port->cad = dev with the end of cad_lock.
GiveOwn(e) ==
    /\ stage = "own" /\ stage' = "free"
    /\ cad' = e /\ giving' = NoDev
    /\ UNCHANGED <<waiting, waitlist>>

\* The next of these writes by the thread inside cad_lock.
GiveWrite(e) == GiveClear(e) \/ GiveUnlink(e) \/ GiveLinks(e)

\* Mutant: new waiters go to the front of the waitlist.
BlockInFront(e) ==
    /\ cad # NoDev
    /\ IF 1 \in waiting[e] /\ 0 \notin waiting[e]
         THEN /\ waiting' = [waiting EXCEPT ![e] = @ \cup {0}]
              /\ waitnext' = [waitnext EXCEPT ![e] = waithead]
              /\ waitprev' = [x \in Devs |-> IF x = waithead THEN e
                                ELSE IF x = e THEN NoDev ELSE waitprev[x]]
              /\ waittail' = IF waithead = NoDev THEN e ELSE waittail
              /\ waithead' = e
         ELSE UNCHANGED <<waiting, waitlist>>
    /\ UNCHANGED port

\* Mutant: bit 0 replaces the "may block" bit instead of joining it.
BlockForgetsBit(e) ==
    /\ cad # NoDev
    /\ IF 1 \in waiting[e] /\ 0 \notin waiting[e]
         THEN /\ waiting' = [waiting EXCEPT ![e] = {0}]
              /\ waitprev' = [waitprev EXCEPT ![e] = waittail]
              /\ waitnext' = [x \in Devs |-> IF x = waittail THEN e
                                ELSE IF x = e THEN NoDev ELSE waitnext[x]]
              /\ waithead' = IF waittail = NoDev THEN e ELSE waithead
              /\ waittail' = e
         ELSE UNCHANGED <<waiting, waitlist>>
    /\ UNCHANGED port

\* The same body when the port has an owner, e itself included: no preempt
\* callback of the driver yields, so e is queued if it may block.
Block(e) ==
    /\ cad # NoDev
    /\ IF 1 \in waiting[e] /\ 0 \notin waiting[e]
         THEN /\ waiting' = [waiting EXCEPT ![e] = @ \cup {0}]
              /\ waitprev' = [waitprev EXCEPT ![e] = waittail]
              /\ waitnext' = [x \in Devs |-> IF x = waittail THEN e
                                ELSE IF x = e THEN NoDev ELSE waitnext[x]]
              /\ waithead' = IF waittail = NoDev THEN e ELSE waithead
              /\ waittail' = e
         ELSE UNCHANGED <<waiting, waitlist>>
    /\ UNCHANGED port

\* Mutant: the wrong bit, waiting = 4.
StartClaimWrongBit(d) == /\ waiting' = [waiting EXCEPT ![d] = {2}]
                         /\ Goto(d, "claim_check")

\* claim_or_block starts: waiting = 2 (bit 1).
StartClaim(d) == /\ waiting' = [waiting EXCEPT ![d] = {1}]
                 /\ Goto(d, "claim_check")

Claim(d) ==
    /\ At(d, "idle") /\ claim[d] = "none"
    /\ StartClaim(d)
    /\ goal' = [goal EXCEPT ![d] = "claim"]
    /\ UNCHANGED <<port, waitlist, registry, claim, sig, walk>>

\* The unlocked "already owner" test.
ClaimCheck(d) ==
    /\ At(d, "claim_check")
    /\ Goto(d, IF cad = d THEN "claim_done" ELSE "claim_lock")
    /\ UNCHANGED <<goal, port, waiting, waitlist, registry, claim, sig, walk>>

ClaimLock(d) ==
    /\ At(d, "claim_lock") /\ giving = NoDev
    /\ \/ Grant(d) /\ Goto(d, "claim_done")
       \/ GiveStart(d) /\ Goto(d, "claim_give")
       \/ Block(d) /\ Goto(d, "block_check")
    /\ UNCHANGED <<goal, registry, claim, sig, walk>>

\* A claim that finds its own device still on the waitlist takes it off.
ClaimGive(d) ==
    /\ At(d, "claim_give") /\ Preemptive
    /\ \/ GiveWrite(d) /\ UNCHANGED pc
       \/ GiveOwn(d) /\ Goto(d, "claim_done")
    /\ UNCHANGED <<goal, registry, claim, sig, walk>>

\* After -EAGAIN: sleep only if still waiting.
BlockCheck(d) ==
    /\ At(d, "block_check")
    /\ Goto(d, IF waiting[d] = {} THEN "claim_done" ELSE "wait_test")
    /\ UNCHANGED <<goal, port, waiting, waitlist, registry, claim, sig, walk>>

\* claim_or_block returned err to the client.  lp and the callers of yield
\* continue as if they had the port; ppdev's PPCLAIM, SNX_PPCLAIM in the
\* code, gives up on -EINTR.
Return(d, believes) ==
    /\ claim' = [claim EXCEPT ![d] = believes]
    /\ sig' = [sig EXCEPT ![d] = FALSE]
    /\ Goto(d, "idle")

AfterInterrupt(d) ==
    IF goal[d] = "yield" \/ d \in LpDevs THEN "intr" ELSE "none"

\* One evaluation of wait_event_interruptible's condition, and the
\* signal_pending test behind it, which also catches a signal that arrived
\* together with the grant.  dev->waiting is left as it is on -EINTR.
WaitTest(d) ==
    /\ At(d, "wait_test") \/ At(d, "woken")
    /\ IF sig[d] THEN Return(d, AfterInterrupt(d))
       ELSE /\ Goto(d, IF waiting[d] = {} THEN "claim_done" ELSE "asleep")
            /\ UNCHANGED <<claim, sig>>
    /\ UNCHANGED <<goal, port, waiting, waitlist, registry, walk>>

ClaimDone(d) ==
    /\ At(d, "claim_done")
    /\ waiting' = [waiting EXCEPT ![d] = {}]
    /\ Return(d, "held")
    /\ UNCHANGED <<goal, port, waitlist, registry, walk>>

\* A signal for a thread inside claim_or_block; it wakes a sleeper.
Signal(d) ==
    /\ d \in Interruptible /\ ~sig[d] /\ pc[d] \in ClaimPath
    /\ sig' = [sig EXCEPT ![d] = TRUE]
    /\ IF pc[d] = "asleep" THEN Goto(d, "woken") ELSE UNCHANGED pc
    /\ UNCHANGED <<goal, port, waiting, waitlist, registry, claim, walk>>

----------------------------------------------------------------------------
(* sunix_parport_release and sunix_parport_yield_blocking *)

Release(d) ==
    /\ At(d, "idle") /\ claim[d] # "none"
    /\ goal' = [goal EXCEPT ![d] = "release"]
    /\ Goto(d, "release_lock")
    /\ UNCHANGED <<port, waiting, waitlist, registry, claim, sig, walk>>

\* The time slice is over (any time may have passed) and somebody waits.
Yield(d) ==
    /\ At(d, "idle") /\ claim[d] # "none" /\ d \in Yielders
    /\ waithead # NoDev
    /\ goal' = [goal EXCEPT ![d] = "yield"]
    /\ Goto(d, "release_lock")
    /\ UNCHANGED <<port, waiting, waitlist, registry, claim, sig, walk>>

\* What the caller of release does next: return to the client, go on
\* unregistering, or (in yield) start claim_or_block with waiting = 2.
AfterRelease(d) == IF goal[d] = "yield" THEN "claim_check"
                   ELSE IF goal[d] = "close" THEN "unreg_devices" ELSE "idle"
WaitingAfterRelease(d) ==
    IF goal[d] = "yield" THEN [waiting EXCEPT ![d] = {1}] ELSE waiting

Released(d) == /\ Goto(d, AfterRelease(d))
               /\ waiting' = WaitingAfterRelease(d)

\* Mutant: the owner test is missing, anybody's release frees the port.
ReleaseLockUnchecked(d) ==
    /\ At(d, "release_lock") /\ giving = NoDev
    /\ claim' = [claim EXCEPT ![d] = "none"]
    /\ cad' = NoDev /\ Goto(d, "release_head")
    /\ UNCHANGED <<goal, giving, stage, waiting, waitlist, registry, sig, walk>>

\* Mutant: cad is not cleared.
ReleaseLockKeepsOwner(d) ==
    /\ At(d, "release_lock")
    /\ claim' = [claim EXCEPT ![d] = "none"]
    /\ Goto(d, "release_head")
    /\ UNCHANGED <<goal, port, waiting, waitlist, registry, sig, walk>>

\* The section under cad_lock.
ReleaseLock(d) ==
    /\ At(d, "release_lock") /\ giving = NoDev
    /\ claim' = [claim EXCEPT ![d] = "none"]
    /\ \/ cad = d /\ cad' = NoDev /\ Goto(d, "release_head")
                  /\ UNCHANGED waiting
       \/ cad # d /\ UNCHANGED cad /\ Released(d)
    /\ UNCHANGED <<goal, giving, stage, waitlist, registry, sig, walk>>

\* Mutant: the walk starts at the wrong end.
ReleaseHeadAtTail(d) ==
    /\ At(d, "release_head")
    /\ walk' = [walk EXCEPT ![d] = waittail]
    /\ Goto(d, "release_walk")
    /\ UNCHANGED <<goal, port, waiting, waitlist, registry, claim, sig>>

\* pd = port->waithead, read without a lock.
ReleaseHead(d) ==
    /\ At(d, "release_head")
    /\ walk' = [walk EXCEPT ![d] = waithead]
    /\ Goto(d, "release_walk")
    /\ UNCHANGED <<goal, port, waiting, waitlist, registry, claim, sig>>

\* One turn of the loop over the waitlist; at its end there is no wakeup
\* callback to call, so the second loop does nothing.
ReleaseWalk(d) ==
    /\ At(d, "release_walk")
    /\ \/ /\ walk[d] = NoDev
          /\ Released(d)
          /\ UNCHANGED walk
       \/ /\ walk[d] # NoDev /\ 1 \in waiting[walk[d]]
          /\ Goto(d, "release_claim")
          /\ UNCHANGED <<waiting, walk>>
       \/ /\ walk[d] # NoDev /\ 1 \notin waiting[walk[d]]
          /\ walk' = [walk EXCEPT ![d] = waitnext[walk[d]]]
          /\ UNCHANGED <<pc, waiting>>
    /\ UNCHANGED <<goal, port, waitlist, registry, claim, sig>>

\* sunix_parport_claim(pd): the unlocked test, then the locked body.
ReleaseClaim(d) ==
    /\ At(d, "release_claim")
    /\ Goto(d, IF cad = walk[d] THEN "release_wake" ELSE "release_grant")
    /\ UNCHANGED <<goal, port, waiting, waitlist, registry, claim, sig, walk>>

ReleaseGrant(d) ==
    /\ At(d, "release_grant") /\ giving = NoDev
    /\ \/ Grant(walk[d]) /\ Goto(d, "release_wake")
       \/ GiveStart(walk[d]) /\ Goto(d, "release_give")
       \/ Block(walk[d]) /\ Goto(d, "release_wake")
    /\ UNCHANGED <<goal, registry, claim, sig, walk>>

\* The releaser hands the port to the waiter it found.
ReleaseGive(d) ==
    /\ At(d, "release_give") /\ Preemptive
    /\ \/ GiveWrite(walk[d]) /\ UNCHANGED pc
       \/ GiveOwn(walk[d]) /\ Goto(d, "release_wake")
    /\ UNCHANGED <<goal, registry, claim, sig, walk>>

\* wake_up_interruptible(&pd->wait_q), whatever the claim returned.
ReleaseWake(d) ==
    /\ At(d, "release_wake")
    /\ pc' = [e \in Devs |->
                IF e = d THEN AfterRelease(d)
                ELSE IF e = walk[d] /\ pc[e] = "asleep" THEN "woken"
                ELSE pc[e]]
    /\ waiting' = WaitingAfterRelease(d)
    /\ walk' = [walk EXCEPT ![d] = NoDev]
    /\ UNCHANGED <<goal, port, waitlist, registry, claim, sig>>

----------------------------------------------------------------------------
(* sunix_parport_unregister_device *)

\* Mutant: a client that holds the port is let go without a release.
UnregisterOwner(d) ==
    /\ At(d, "idle") /\ d \in Closers
    /\ goal' = [goal EXCEPT ![d] = "close"]
    /\ Goto(d, "unreg_devices")
    /\ claim' = [claim EXCEPT ![d] = "none"]
    /\ UNCHANGED <<port, waiting, waitlist, registry, sig, walk>>

\* The unlocked "forgot to release" test.
Unregister(d) ==
    /\ At(d, "idle") /\ claim[d] = "none" /\ d \in Closers
    /\ goal' = [goal EXCEPT ![d] = "close"]
    /\ Goto(d, IF cad = d THEN "release_lock" ELSE "unreg_devices")
    /\ UNCHANGED <<port, waiting, waitlist, registry, claim, sig, walk>>

UnregisterDevices(d) ==
    /\ At(d, "unreg_devices")
    /\ registered' = registered \ {d}
    /\ excl' = (excl /\ d \notin exclusive)
    /\ Goto(d, "unreg_waitlist")
    /\ UNCHANGED <<goal, port, waiting, waitlist, exclusive, claim, sig, walk>>

\* The section under waitlist_lock; then the memory is freed.
UnregisterWaitlist(d) ==
    /\ At(d, "unreg_waitlist")
    /\ IF waitprev[d] # NoDev \/ waitnext[d] # NoDev \/ waithead = d
         THEN Unlink(d) /\ waitnext' = NextPast(d) /\ waitprev' = PrevPast(d)
         ELSE UNCHANGED waitlist
    /\ Goto(d, "off")
    /\ UNCHANGED <<goal, port, waiting, registry, claim, sig, walk>>

----------------------------------------------------------------------------
(* The steps a thread takes by itself once its call has started *)
KernelStep(d) ==
    \/ ClaimCheck(d) \/ ClaimLock(d) \/ ClaimGive(d) \/ BlockCheck(d)
    \/ WaitTest(d) \/ ClaimDone(d)
    \/ ReleaseLock(d) \/ ReleaseHead(d) \/ ReleaseWalk(d) \/ ReleaseClaim(d)
    \/ ReleaseGrant(d) \/ ReleaseGive(d) \/ ReleaseWake(d)
    \/ UnregisterDevices(d) \/ UnregisterWaitlist(d)

(* The calls a client makes when it wants to *)
ClientCall(d) ==
    \/ RegisterCheck(d) \/ RegisterLink(d)
    \/ Claim(d) \/ Release(d) \/ Yield(d) \/ Unregister(d)

Next == \E d \in Devs : KernelStep(d) \/ ClientCall(d) \/ Signal(d)

Spec == Init /\ [][Next]_vars

\* The scheduler runs every runnable thread; on one CPU a runnable thread
\* can run only in between the others, hence strong fairness.
SchedulerFair == \A d \in Devs : SF_vars(KernelStep(d))
\* Nobody keeps the port for ever: lp and ppdev clients release or yield it
\* in the end (both release it when their file is closed).
ClientsGiveUp == \A d \in Devs : SF_vars(Release(d) \/ Yield(d))

FairSpec == Spec /\ SchedulerFair /\ ClientsGiveUp

----------------------------------------------------------------------------
(* Safety *)

\* Who the port belongs to: its owner, or the waiter that the thread inside
\* cad_lock is about to make the owner.
Promised == IF giving = NoDev THEN cad ELSE giving

\* The port of a client whose claim returned success is its own until it
\* releases: no other thread gets it, and cad names the client unless the
\* hand-over of the port to it is still under way.  On more than one CPU the
\* client may be told so early: dev->waiting is cleared at snx_share.c:831,
\* port->cad written at 852.
HeldIsOwner == \A d \in Devs : claim[d] = "held" => Promised = d

\* A thread that stops waiting because its waiting bits are gone has been
\* promised the port (claim_or_block asks no more than dev->waiting,
\* snx_share.c:899 and 902).
Claiming == {"claim_check", "claim_lock", "claim_give", "block_check",
             "wait_test", "asleep", "woken"}
ExitsAsPromised ==
    \A d \in Devs :
       /\ pc[d] \in Claiming /\ waiting[d] = {} => Promised = d
       /\ pc[d] = "claim_done" => Promised = d

\* A thread leaves claim_or_block as the owner of the port, as its last test
\* expects: "exiting sunix_parport_claim_or_block but %s owns port!"
\* (snx_share.c:919).  It holds on one CPU.
ExitsAsOwner == \A d \in Devs : pc[d] = "claim_done" => cad = d

Giving == {"claim_give", "release_give"}

\* cad_lock is taken by one thread, whose device, or the waiter its release
\* has found, is the one being handed the port; nobody owns it meanwhile.
GivingOK ==
    /\ giving = NoDev <=> stage = "free"
    /\ giving # NoDev => cad = NoDev
    /\ \A d \in Devs :
         /\ pc[d] = "claim_give" => giving = d
         /\ pc[d] = "release_give" => giving = walk[d]
         /\ \A e \in Devs : pc[d] \in Giving /\ pc[e] \in Giving => d = e

\* A releasing thread calls claim and wake for a device, never for NULL.
WalkOK ==
    \A d \in Devs :
       pc[d] \in {"release_claim", "release_grant", "release_give",
                  "release_wake"}
         => walk[d] \in Devs

\* A thread inside claim_or_block, or past the locked part of release, has
\* no claim of its own left.
ClaimantHasNone ==
    \A d \in Devs :
       pc[d] \in ClaimPath \cup (ReleasePath \ {"release_lock"})
         => claim[d] = "none"

\* What HeldIsOwner needs to be inductive.
IInv == TypeOK /\ WalkOK /\ ClaimantHasNone /\ GivingOK /\ ExitsAsPromised
            /\ HeldIsOwner

\* The waitlist is a well formed doubly linked list of exactly the devices
\* whose waiting bit 0 is set, each once.
Queued == {d \in Devs : 0 \in waiting[d]}
WaitlistOK ==
    LET n == Cardinality(Queued) IN
    \E q \in [1 .. n -> Queued] :
        /\ \A i, j \in 1 .. n : q[i] = q[j] => i = j
        /\ waithead = IF n = 0 THEN NoDev ELSE q[1]
        /\ waittail = IF n = 0 THEN NoDev ELSE q[n]
        /\ \A i \in 1 .. n :
             /\ waitnext[q[i]] = IF i = n THEN NoDev ELSE q[i + 1]
             /\ waitprev[q[i]] = IF i = 1 THEN NoDev ELSE q[i - 1]

\* The exclusive flag is set while, and only while, the one exclusive device
\* is registered: no two exclusive devices get past the registration race.
\* An ordinary device may be beside the exclusive one: the flag is tested
\* before two allocations that may sleep (snx_share.c:606), and not again for
\* a device that is not exclusive.
ExclusiveFlag ==
    /\ excl <=> registered \cap exclusive # {}
    /\ \A d, e \in registered \cap exclusive : d = e

\* A device is on port->devices from the locked part of its registration to
\* that of its unregistration; every call in between is made by it.
RegisteredOK ==
    registered = {d \in Devs : pc[d] \notin {"off", "register", "unreg_waitlist"}}

\* The owner and the device a releasing thread is about to claim for and
\* wake are registered: no pointer to a freed device is used.
NoUseAfterFree ==
    /\ cad # NoDev => cad \in registered \/ pc[cad] = "unreg_waitlist"
    /\ \A d \in Devs :
         pc[d] \in ReleasePath /\ walk[d] # NoDev
            => pc[walk[d]] # "off" /\ pc[walk[d]] # "register"

\* An owner does not wait for itself: a thread asleep in claim_or_block with
\* its waiting bits set is not the owner, since claim tells the "already
\* owner" at once (snx_share.c:804).
NoSelfWait ==
    \A d \in Devs : pc[d] \in {"wait_test", "asleep"} /\ cad = d
                      => waiting[d] = {}

\* Every device found on the waitlist can be woken: the clients of the driver
\* queue only from claim_or_block, so the walk never meets a device that it
\* says it does not know how to wake (snx_share.c:964).
AllCanBeWoken ==
    \A d \in Devs : pc[d] = "release_walk" /\ walk[d] # NoDev
                      => 1 \in waiting[walk[d]]

\* An owned port has a thread that knows, or is about to know, that it owns
\* it: a port nobody holds is free ("forgot to release port",
\* snx_share.c:697, is printed of a client that did not release).
NoOrphan ==
    cad # NoDev => claim[cad] # "none" \/ pc[cad] \in ClaimPath

----------------------------------------------------------------------------
(* What the properties of one CPU need to be inductive *)

\* One CPU: a thread leaves a switch point only while all others are at one.
OneRunner ==
    \A d, e \in Devs :
        pc[d] \notin SwitchPoints /\ pc[e] \notin SwitchPoints => d = e

Waiting == {"block_check", "wait_test", "asleep", "woken"}

\* From the start of its claim a thread may block; once it was told to wait it
\* is queued and not the owner, or its bits were cleared for it.
QueuedInv ==
    \A d \in Devs :
        /\ pc[d] \in {"claim_check", "claim_lock"} => 1 \in waiting[d]
        /\ pc[d] = "claim_lock" => cad # d
        /\ pc[d] \in Waiting /\ waiting[d] # {} => 0 \in waiting[d] /\ cad # d

\* Without signals the bits follow from where the thread is.
BitsInv ==
    \A d \in Devs :
        /\ pc[d] \in Waiting => waiting[d] \in {{}, {0, 1}}
        /\ pc[d] = "claim_done" => 0 \notin waiting[d]
        /\ pc[d] \in {"claim_check", "claim_lock", "claim_give"}
             => waiting[d] = {1}
        /\ pc[d] \notin ClaimPath => waiting[d] = {}

\* A client that holds the port is not inside a call, or is releasing it; and
\* only those release.
HoldInv ==
    \A d \in Devs :
        /\ ~sig[d] /\ claim[d] # "intr"
        /\ claim[d] = "held" => pc[d] \in {"idle", "release_lock"}
        /\ pc[d] = "release_lock" => claim[d] = "held"

\* The owner holds the port, or will find out that it does.
OwnerInv ==
    \A d \in Devs :
        cad = d => claim[d] = "held" \/ pc[d] \in {"claim_done", "asleep", "woken"}

Handing == {"release_head", "release_walk", "release_claim", "release_grant"}

\* The releasing thread finds the port free and the head of the waitlist where
\* it was; the device it wakes is asleep or has been woken before.
WalkInv ==
    \A d \in Devs :
        /\ pc[d] \in Handing => cad = NoDev
        /\ pc[d] \in Handing \ {"release_head"} => walk[d] = waithead
        /\ pc[d] \notin Handing \cup {"release_wake"} => walk[d] = NoDev
        /\ pc[d] = "release_head" => walk[d] = NoDev
        /\ pc[d] = "release_wake" => cad # NoDev /\ pc[walk[d]] \in {"asleep", "woken"}

\* A free port has no waiters, but for those a release is about to look at.
FreeInv ==
    cad = NoDev => waithead = NoDev \/ \E d \in Devs : pc[d] \in Handing

\* A device that is not queued has no links.
Unlinked == \A d \in Devs \ Queued : waitprev[d] = NoDev /\ waitnext[d] = NoDev

\* The inductive invariant of one CPU without signals.
UpInv ==
    /\ IInv /\ OneRunner /\ QueuedInv /\ BitsInv /\ HoldInv /\ OwnerInv
    /\ WalkInv /\ FreeInv /\ WaitlistOK /\ Unlinked /\ RegisteredOK

----------------------------------------------------------------------------
(* Action properties *)

\* The port is handed over in the order of the waitlist: nobody gets it
\* while another device is at the head (release wakes the head,
\* snx_share.c:945).
FifoGrant ==
    [][cad' # cad /\ cad' # NoDev => waithead \in {NoDev, cad'}]_vars

----------------------------------------------------------------------------
(* Liveness *)

\* Whoever claims the port gets an answer.
ClaimReturns ==
    \A d \in Devs : pc[d] = "claim_check" ~> pc[d] = "idle"

----------------------------------------------------------------------------
(* The port as a lock *)

Holders == {d \in Devs : claim[d] = "held"}

\* The lock is acquired when a thread decides, inside cad_lock, whom it gives
\* the port to: a waiter that reads dev->waiting in the middle of the
\* hand-over is a holder before port->cad names it.
Lock == INSTANCE PortLock WITH owner <- Promised, holders <- Holders

\* The arbitration implements a lock: the port is given to one device at a
\* time, and a client that was told it has the port keeps it until it drops
\* the port itself.
ImplementsLock == Lock!Spec

=============================================================================
