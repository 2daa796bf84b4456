----------------------- MODULE ParportShareUp_proofs -----------------------
(***************************************************************************)
(* Theorems about ParportShare on one CPU without kernel preemption, for   *)
(* any number of devices.  Without signals the waitlist is a list, the     *)
(* release path hands the port to its head, and no device is used after    *)
(* it was freed; each of these is false as soon as a thread can be         *)
(* interrupted or preempted.                                               *)
(***************************************************************************)
EXTENDS ParportShare_proofs, FiniteSetTheorems

\* Every thread but d has given up the CPU and stays so; at most it is woken.
Others(d) ==
    \A e \in Devs : e # d =>
        /\ pc[e] \in SwitchPoints /\ pc'[e] \in SwitchPoints
        /\ pc'[e] = pc[e] \/ (pc[e] = "asleep" /\ pc'[e] = "woken")
        /\ claim'[e] = claim[e] /\ sig'[e] = sig[e] /\ walk'[e] = walk[e]

\* On one CPU the other threads are at switch points before and after a step.
LEMMA StepFrame ==
    ASSUME ~Preemptive, TypeOK, NEW d \in Devs, KernelStep(d) \/ ClientCall(d)
    PROVE  Others(d)
  <1> USE DEF TypeOK, At, MayRun, Goto, SwitchPoints, Others
  <1>1. CASE ClaimCheck(d)
    BY <1>1 DEF ClaimCheck
  <1>2. CASE ClaimLock(d)
    BY <1>2 DEF ClaimLock
  <1>3. CASE BlockCheck(d)
    BY <1>3 DEF BlockCheck
  <1>4. CASE WaitTest(d)
    BY <1>4 DEF WaitTest, Return
  <1>5. CASE ClaimDone(d)
    BY <1>5 DEF ClaimDone, Return
  <1>6. CASE ReleaseLock(d)
    BY <1>6 DEF ReleaseLock, Released, AfterRelease, WaitingAfterRelease
  <1>7. CASE ReleaseHead(d)
    BY <1>7 DEF ReleaseHead
  <1>8. CASE ReleaseWalk(d)
    BY <1>8 DEF ReleaseWalk, Released, AfterRelease, WaitingAfterRelease
  <1>9. CASE ReleaseClaim(d)
    BY <1>9 DEF ReleaseClaim
  <1>10. CASE ReleaseGrant(d)
    BY <1>10 DEF ReleaseGrant
  <1>11. CASE ReleaseWake(d)
    BY <1>11 DEF ReleaseWake, AfterRelease, WaitingAfterRelease
  <1>12. CASE UnregisterDevices(d)
    BY <1>12 DEF UnregisterDevices
  <1>13. CASE UnregisterWaitlist(d)
    BY <1>13 DEF UnregisterWaitlist
  <1>14. CASE RegisterCheck(d)
    BY <1>14 DEF RegisterCheck
  <1>15. CASE RegisterLink(d)
    BY <1>15 DEF RegisterLink
  <1>16. CASE Claim(d)
    BY <1>16 DEF Claim, StartClaim
  <1>17. CASE Release(d)
    BY <1>17 DEF Release
  <1>18. CASE Yield(d)
    BY <1>18 DEF Yield
  <1>19. CASE Unregister(d)
    BY <1>19 DEF Unregister
  <1> QED BY <1>1, <1>2, <1>3, <1>4, <1>5, <1>6, <1>7, <1>8, <1>9, <1>10,
             <1>11, <1>12, <1>13, <1>14, <1>15, <1>16, <1>17, <1>18,
             <1>19 DEF KernelStep, ClaimGive, ReleaseGive, ClientCall

\* One thread at a time is past a switch point.
LEMMA RunnerStep ==
    ASSUME ~Preemptive, TypeOK, OneRunner, [Next]_vars
    PROVE  OneRunner'
  <1>1. ASSUME NEW d \in Devs, KernelStep(d) \/ ClientCall(d) PROVE OneRunner'
    BY <1>1, StepFrame DEF Others, OneRunner
  <1>2. ASSUME NEW d \in Devs, Signal(d) PROVE OneRunner'
    BY <1>2 DEF Signal, Goto, TypeOK, OneRunner, SwitchPoints
  <1>3. CASE UNCHANGED vars
    BY <1>3 DEF vars, OneRunner
  <1> QED BY <1>1, <1>2, <1>3 DEF Next

\* Where a release leaves its thread: yield starts to claim again.
AfterReleaseOf(d) ==
    /\ \A e \in Devs : e # d => waiting'[e] = waiting[e]
    /\ \/ pc'[d] = "claim_check" /\ waiting'[d] = {1}
       \/ pc'[d] \in {"unreg_devices", "idle"} /\ waiting'[d] = waiting[d]

\* The two ways out of sunix_parport_release.
LEMMA ReleasedEffect ==
    ASSUME TypeOK, NEW d \in Devs, pc'[d] = AfterRelease(d),
           waiting' = WaitingAfterRelease(d)
    PROVE  AfterReleaseOf(d)
  <1>1. CASE goal[d] = "yield"
    BY <1>1 DEF TypeOK, AfterRelease, WaitingAfterRelease, AfterReleaseOf
  <1>2. CASE goal[d] # "yield"
    BY <1>2 DEF TypeOK, AfterRelease, WaitingAfterRelease, AfterReleaseOf
  <1> QED BY <1>1, <1>2

\* What the steps of a release do, without the case split on its caller.
LEMMA ReleaseLockEffect ==
    ASSUME TypeOK, NEW d \in Devs, ReleaseLock(d)
    PROVE  /\ \/ cad = d /\ cad' = NoDev /\ pc'[d] = "release_head" /\ waiting' = waiting
              \/ cad # d /\ cad' = cad /\ AfterReleaseOf(d)
           /\ claim'[d] = "none"
           /\ UNCHANGED <<giving, stage, waitlist, registry, sig, walk>>
  <1>1. ASSUME cad # d PROVE cad' = cad /\ AfterReleaseOf(d)
    BY <1>1, ReleasedEffect DEF ReleaseLock, Released, Goto, TypeOK
  <1> QED BY <1>1 DEF ReleaseLock, Goto, TypeOK

\* What looking at one device of the waitlist in release does.
LEMMA ReleaseWalkEffect ==
    ASSUME TypeOK, NEW d \in Devs, ReleaseWalk(d)
    PROVE  /\ \/ walk[d] = NoDev /\ AfterReleaseOf(d) /\ walk' = walk
              \/ /\ walk[d] # NoDev /\ 1 \in waiting[walk[d]]
                 /\ pc'[d] = "release_claim" /\ waiting' = waiting /\ walk' = walk
              \/ /\ walk[d] # NoDev /\ 1 \notin waiting[walk[d]]
                 /\ pc'[d] = "release_walk" /\ waiting' = waiting
           /\ UNCHANGED <<port, waitlist, registry, claim, sig>>
  <1>1. ASSUME walk[d] = NoDev PROVE AfterReleaseOf(d) /\ walk' = walk
    BY <1>1, ReleasedEffect DEF ReleaseWalk, Released, Goto, TypeOK
  <1> QED BY <1>1 DEF ReleaseWalk, Goto, TypeOK, At

\* What waking the sleeper the port was given to does.
LEMMA ReleaseWakeEffect ==
    ASSUME TypeOK, NEW d \in Devs, ReleaseWake(d)
    PROVE  /\ AfterReleaseOf(d) /\ walk' = [walk EXCEPT ![d] = NoDev]
           /\ UNCHANGED <<port, waitlist, registry, claim, sig>>
  <1>1. pc'[d] = AfterRelease(d)
    BY DEF ReleaseWake, TypeOK
  <1> QED BY <1>1, ReleasedEffect DEF ReleaseWake

----------------------------------------------------------------------------
(* With or without signals *)

\* A waiting thread stays queued and is not the owner.
LEMMA QueuedStep ==
    ASSUME ~Preemptive, Typing, QueuedInv, [Next]_vars
    PROVE  QueuedInv'
  <1> USE DEF Typing, TypeOK, QueuedInv, At, Goto, Waiting, SwitchPoints, Others,
              port
  <1>1. ASSUME NEW d \in Devs, KernelStep(d) PROVE QueuedInv'
    <2>0. Others(d)
      BY <1>1, StepFrame DEF Others
    <2>1. CASE ClaimCheck(d)
      BY <2>1, <2>0 DEF ClaimCheck
    <2>2. CASE ClaimLock(d)
      BY <2>2, <2>0 DEF ClaimLock, Grant, GiveStart, Block
    <2>3. CASE BlockCheck(d)
      BY <2>3, <2>0 DEF BlockCheck
    <2>4. CASE WaitTest(d)
      BY <2>4, <2>0 DEF WaitTest, Return
    <2>5. CASE ClaimDone(d)
      BY <2>5, <2>0 DEF ClaimDone, Return
    <2>6. CASE ReleaseLock(d)
      <3>1. pc[d] = "release_lock"
        BY <2>6 DEF ReleaseLock
      <3> QED BY <2>6, <3>1, <2>0, ReleaseLockEffect, DevsAssumption
              DEF AfterReleaseOf, waitlist, registry
    <2>7. CASE ReleaseHead(d)
      BY <2>7, <2>0 DEF ReleaseHead
    <2>8. CASE ReleaseWalk(d)
      <3>1. pc[d] = "release_walk"
        BY <2>8 DEF ReleaseWalk
      <3> QED BY <2>8, <3>1, <2>0, ReleaseWalkEffect, DevsAssumption
              DEF AfterReleaseOf, waitlist, registry
    <2>9. CASE ReleaseClaim(d)
      BY <2>9, <2>0 DEF ReleaseClaim
    <2>10. CASE ReleaseGrant(d)
      BY <2>10, <2>0 DEF ReleaseGrant, Grant, GiveStart, Block, WalkOK
    <2>11. CASE ReleaseWake(d)
      <3>1. pc[d] = "release_wake"
        BY <2>11 DEF ReleaseWake
      <3> QED BY <2>11, <3>1, <2>0, ReleaseWakeEffect, DevsAssumption
              DEF AfterReleaseOf, waitlist, registry
    <2>12. CASE UnregisterDevices(d)
      BY <2>12, <2>0 DEF UnregisterDevices
    <2>13. CASE UnregisterWaitlist(d)
      BY <2>13, <2>0 DEF UnregisterWaitlist
    <2> QED BY <1>1, <2>1, <2>2, <2>3, <2>4, <2>5, <2>6, <2>7, <2>8, <2>9,
           <2>10, <2>11, <2>12, <2>13 DEF KernelStep, ClaimGive,
                                            ReleaseGive
  <1>2. ASSUME NEW d \in Devs, ClientCall(d) PROVE QueuedInv'
    <2>0. Others(d)
      BY <1>2, StepFrame DEF Others
    <2>1. CASE RegisterCheck(d)
      BY <2>1, <2>0 DEF RegisterCheck
    <2>2. CASE RegisterLink(d)
      BY <2>2, <2>0 DEF RegisterLink
    <2>3. CASE Claim(d)
      BY <2>3, <2>0 DEF Claim, StartClaim
    <2>4. CASE Release(d)
      BY <2>4, <2>0 DEF Release
    <2>5. CASE Yield(d)
      BY <2>5, <2>0 DEF Yield
    <2>6. CASE Unregister(d)
      BY <2>6, <2>0 DEF Unregister
    <2> QED BY <1>2, <2>1, <2>2, <2>3, <2>4, <2>5, <2>6 DEF ClientCall
  <1>3. ASSUME NEW d \in Devs, Signal(d) PROVE QueuedInv'
    BY <1>3 DEF Signal
  <1>4. CASE UNCHANGED vars
    BY <1>4 DEF vars
  <1> QED BY <1>1, <1>2, <1>3, <1>4 DEF Next

\* A thread that waits for the port does not own it, with or without signals
\* (sunix_parport_claim_or_block): on one CPU no stale walk of another thread
\* can claim for it while it is on its way to the waitlist.
THEOREM NobodyWaitsForItself ==
    ASSUME ~Preemptive
    PROVE  Spec => []NoSelfWait
  <1>1. Init => QueuedInv
    BY DEF Init, QueuedInv, Waiting
  <1>2. Typing /\ QueuedInv /\ [Next]_vars => QueuedInv'
    BY QueuedStep
  <1>3. QueuedInv => NoSelfWait
    BY DEF QueuedInv, NoSelfWait, Waiting
  <1> QED BY <1>1, <1>2, <1>3, TypeInit, TypeStep, PTL DEF Spec

----------------------------------------------------------------------------
(* The waitlist *)

\* The n devices of the waitlist in their order are q.
IsList(n, q) ==
    /\ \A i, j \in 1 .. n : q[i] = q[j] => i = j
    /\ \A d \in Devs : 0 \in waiting[d] <=> \E i \in 1 .. n : q[i] = d
    /\ waithead = IF n = 0 THEN NoDev ELSE q[1]
    /\ waittail = IF n = 0 THEN NoDev ELSE q[n]
    /\ \A i \in 1 .. n :
         /\ waitnext[q[i]] = IF i = n THEN NoDev ELSE q[i + 1]
         /\ waitprev[q[i]] = IF i = 1 THEN NoDev ELSE q[i - 1]

ListInv ==
    /\ \E n \in Nat : \E q \in [1 .. n -> Devs] : IsList(n, q)
    /\ Unlinked

\* Its length is the number of queued devices.
LEMMA ListIsWaitlist == ListInv => WaitlistOK
  <1> SUFFICES ASSUME ListInv PROVE WaitlistOK
    OBVIOUS
  <1>0. PICK n \in Nat : \E q \in [1 .. n -> Devs] : IsList(n, q)
    BY DEF ListInv
  <1>1. PICK q \in [1 .. n -> Devs] : IsList(n, q)
    BY <1>0
  <1>2. q \in [1 .. n -> Queued] /\ \A d \in Queued : \E i \in 1 .. n : q[i] = d
    BY <1>1 DEF IsList, Queued
  <1>3. q \in Bijection(1 .. n, Queued)
    BY <1>1, <1>2 DEF IsList, Bijection, Injection, Surjection, IsInjective
  <1>4. Cardinality(Queued) = n
    BY <1>3, FS_CountingElements DEF ExistsBijection
  <1>5. /\ \A i, j \in 1 .. n : q[i] = q[j] => i = j
        /\ waithead = IF n = 0 THEN NoDev ELSE q[1]
        /\ waittail = IF n = 0 THEN NoDev ELSE q[n]
        /\ \A i \in 1 .. n :
             /\ waitnext[q[i]] = IF i = n THEN NoDev ELSE q[i + 1]
             /\ waitprev[q[i]] = IF i = 1 THEN NoDev ELSE q[i - 1]
    BY <1>1 DEF IsList
  <1> DEFINE Listed(m) ==
           \E p \in [1 .. m -> Queued] :
              /\ \A i, j \in 1 .. m : p[i] = p[j] => i = j
              /\ waithead = IF m = 0 THEN NoDev ELSE p[1]
              /\ waittail = IF m = 0 THEN NoDev ELSE p[m]
              /\ \A i \in 1 .. m :
                   /\ waitnext[p[i]] = IF i = m THEN NoDev ELSE p[i + 1]
                   /\ waitprev[p[i]] = IF i = 1 THEN NoDev ELSE p[i - 1]
  <1>6. Listed(n)
    BY <1>2, <1>5
  <1>7. Listed(Cardinality(Queued)) => WaitlistOK
    BY DEF WaitlistOK
  <1> HIDE DEF Listed
  <1>8. Listed(Cardinality(Queued))
    BY <1>4, <1>6
  <1> QED BY <1>7, <1>8

\* Without signals, the list and the bits say where its head is.
LEMMA HeadWaits ==
    ASSUME TypeOK, BitsInv, ListInv, waithead # NoDev
    PROVE  /\ waithead \in Devs /\ waitprev[waithead] = NoDev
           /\ waiting[waithead] = {0, 1} /\ pc[waithead] \in Waiting
  <1>0. PICK n \in Nat : \E q \in [1 .. n -> Devs] : IsList(n, q)
    BY DEF ListInv
  <1>1. PICK q \in [1 .. n -> Devs] : IsList(n, q)
    BY <1>0
  <1>2. n # 0 /\ waithead = q[1] /\ 1 \in 1 .. n
    BY <1>1 DEF IsList
  <1>3. waithead \in Devs /\ waitprev[waithead] = NoDev /\ 0 \in waiting[waithead]
    BY <1>1, <1>2 DEF IsList
  <1> QED BY <1>3 DEF BitsInv, ClaimPath, Waiting

\* The thread that may run and the one that gets the port.
Hand(d, e) ==
    /\ e = waithead /\ e = walk[d] /\ e # d /\ pc[e] \in {"asleep", "woken"}
    /\ cad = NoDev /\ cad' = e
    /\ waiting[e] = {0, 1} /\ waiting' = [waiting EXCEPT ![e] = {}]
    /\ waitprev[e] = NoDev /\ waithead' = waitnext[e]
    /\ waittail' = IF waitnext[e] = NoDev THEN NoDev ELSE waittail
    /\ waitnext' = [x \in Devs |-> IF x = e THEN NoDev ELSE waitnext[x]]
    /\ waitprev' = [x \in Devs |-> IF x = e \/ x = waitnext[e] THEN NoDev
                                   ELSE waitprev[x]]

\* Giving the port to a sleeping waiter hands it to one device.
LEMMA ReleaseGrantEffect ==
    ASSUME ~Preemptive, Typing, BitsInv, WalkInv, ListInv,
           NEW d \in Devs, ReleaseGrant(d)
    PROVE  \E e \in Devs : Hand(d, e)
  <1> USE DEF Typing, TypeOK
  <1>1. pc[d] = "release_grant" /\ walk[d] \in Devs
    BY DEF ReleaseGrant, At, WalkOK
  <1>2. walk[d] = waithead /\ cad = NoDev
    BY <1>1 DEF WalkInv, Handing
  <1>3. /\ waitprev[waithead] = NoDev /\ waiting[waithead] = {0, 1}
        /\ pc[waithead] \in Waiting
    BY <1>1, <1>2, HeadWaits, DevsAssumption
  <1>4. waithead # d
    BY <1>1, <1>3 DEF Waiting
  <1>5. pc[waithead] \in {"asleep", "woken"}
    BY <1>1, <1>2, <1>3, <1>4, StepFrame DEF Others, SwitchPoints, Waiting, KernelStep
  <1>6. Grant(waithead)
    BY <1>2 DEF ReleaseGrant, GiveStart, Block
  <1>7. waitprev' = [x \in Devs |-> IF x = waithead \/ x = waitnext[waithead]
                                    THEN NoDev ELSE waitprev[x]]
    <2>1. waitprev' = [PrevPast(waithead) EXCEPT ![waithead] = NoDev]
      BY <1>3, <1>6 DEF Grant
    <2> QED BY <1>3, <2>1 DEF PrevPast
  <1>8. waitnext' = [x \in Devs |-> IF x = waithead THEN NoDev ELSE waitnext[x]]
    <2>1. \A x \in Devs : x # waitprev[waithead]
      BY <1>3, DevsAssumption
    <2>2. waitnext' = [NextPast(waithead) EXCEPT ![waithead] = NoDev]
      BY <1>3, <1>6 DEF Grant
    <2> QED BY <2>1, <2>2 DEF NextPast
  <1>9. /\ cad' = waithead /\ waiting' = [waiting EXCEPT ![waithead] = {}]
        /\ waithead' = waitnext[waithead]
        /\ waittail' = IF waitnext[waithead] = NoDev THEN NoDev ELSE waittail
    BY <1>3, <1>6 DEF Grant, Unlink
  <1> QED BY <1>1, <1>2, <1>3, <1>4, <1>5, <1>7, <1>8, <1>9 DEF Hand

\* A client that claims a free port gets it, and any other port makes it wait
\* at the end of the list.
LEMMA ClaimLockEffect ==
    ASSUME ~Preemptive, Typing, BitsInv, NEW d \in Devs, ClaimLock(d)
    PROVE  \/ /\ cad = NoDev /\ cad' = d /\ UNCHANGED <<waiting, waitlist>>
              /\ pc' = [pc EXCEPT ![d] = "claim_done"]
           \/ /\ cad # NoDev /\ cad' = cad
              /\ pc' = [pc EXCEPT ![d] = "block_check"]
              /\ waiting' = [waiting EXCEPT ![d] = {0, 1}]
              /\ waitprev' = [waitprev EXCEPT ![d] = waittail]
              /\ waitnext' = [x \in Devs |-> IF x = waittail THEN d
                                ELSE IF x = d THEN NoDev ELSE waitnext[x]]
              /\ waithead' = IF waittail = NoDev THEN d ELSE waithead
              /\ waittail' = d
  <1>1. waiting[d] = {1}
    BY DEF ClaimLock, At, BitsInv
  <1>2. CASE Grant(d) /\ Goto(d, "claim_done")
    BY <1>1, <1>2 DEF Grant, Goto
  <1>3. CASE Block(d) /\ Goto(d, "block_check")
    BY <1>1, <1>3 DEF Block, port, Goto, Typing, TypeOK
  <1> QED BY <1>2, <1>3 DEF ClaimLock, GiveStart

\* A device that goes away is not on the list.
LEMMA UnregisterEffect ==
    ASSUME Typing, BitsInv, ListInv, NEW d \in Devs, UnregisterWaitlist(d)
    PROVE  UNCHANGED waitlist
  <1>1. waiting[d] = {}
    BY DEF UnregisterWaitlist, At, BitsInv, ClaimPath
  <1>2. waithead # d
    BY <1>1, HeadWaits, DevsAssumption DEF Typing
  <1>3. waitprev[d] = NoDev /\ waitnext[d] = NoDev
    BY <1>1 DEF ListInv, Unlinked, Queued
  <1> QED BY <1>2, <1>3 DEF UnregisterWaitlist

----------------------------------------------------------------------------
(* Without signals, part by part *)

\* The bits follow from where the thread is: a signal would leave them set.
LEMMA BitsStep ==
    ASSUME ~Preemptive, Interruptible = {}, Typing,
           BitsInv, HoldInv, WalkInv, ListInv, [Next]_vars
    PROVE  BitsInv'
  <1> USE DEF Typing, TypeOK, At, Goto, Waiting, SwitchPoints, Others, port, waitlist, registry, BitsInv, ClaimPath
  <1>1. ASSUME NEW d \in Devs, KernelStep(d) PROVE BitsInv'
    <2>0. Others(d)
      BY <1>1, StepFrame DEF Others
    <2>1. CASE ClaimCheck(d)
      BY <2>1, <2>0 DEF ClaimCheck
    <2>2. CASE ClaimLock(d)
      <3>1. pc[d] = "claim_lock" /\ UNCHANGED <<claim, sig, walk>>
        BY <2>2 DEF ClaimLock
      <3> QED BY <2>2, <3>1, <2>0, ClaimLockEffect
    <2>3. CASE BlockCheck(d)
      BY <2>3, <2>0 DEF BlockCheck
    <2>4. CASE WaitTest(d)
      BY <2>4, <2>0 DEF WaitTest, Return, HoldInv
    <2>5. CASE ClaimDone(d)
      BY <2>5, <2>0 DEF ClaimDone, Return
    <2>6. CASE ReleaseLock(d)
      <3>1. pc[d] = "release_lock"
        BY <2>6 DEF ReleaseLock
      <3> QED BY <2>6, <3>1, <2>0, ReleaseLockEffect, DevsAssumption
              DEF AfterReleaseOf, waitlist, registry
    <2>7. CASE ReleaseHead(d)
      BY <2>7, <2>0 DEF ReleaseHead
    <2>8. CASE ReleaseWalk(d)
      <3>1. pc[d] = "release_walk"
        BY <2>8 DEF ReleaseWalk
      <3> QED BY <2>8, <3>1, <2>0, ReleaseWalkEffect, DevsAssumption
              DEF AfterReleaseOf, waitlist, registry
    <2>9. CASE ReleaseClaim(d)
      BY <2>9, <2>0 DEF ReleaseClaim
    <2>10. CASE ReleaseGrant(d)
      <3>1. PICK e \in Devs : Hand(d, e)
        BY <2>10, ReleaseGrantEffect
      <3>2. /\ pc'[d] = "release_wake" /\ UNCHANGED <<claim, sig, walk>>
            /\ pc[d] = "release_grant"
        BY <2>10 DEF ReleaseGrant, GiveStart
      <3> QED BY <3>1, <3>2, <2>0, DevsAssumption DEF Hand
    <2>11. CASE ReleaseWake(d)
      <3>1. pc[d] = "release_wake"
        BY <2>11 DEF ReleaseWake
      <3> QED BY <2>11, <3>1, <2>0, ReleaseWakeEffect, DevsAssumption
              DEF AfterReleaseOf, waitlist, registry
    <2>12. CASE UnregisterDevices(d)
      BY <2>12, <2>0 DEF UnregisterDevices
    <2>13. CASE UnregisterWaitlist(d)
      BY <2>13, <2>0 DEF UnregisterWaitlist
    <2> QED BY <1>1, <2>1, <2>2, <2>3, <2>4, <2>5, <2>6, <2>7, <2>8, <2>9,
           <2>10, <2>11, <2>12, <2>13 DEF KernelStep, ClaimGive,
                                            ReleaseGive
  <1>2. ASSUME NEW d \in Devs, ClientCall(d) PROVE BitsInv'
    <2>0. Others(d)
      BY <1>2, StepFrame DEF Others
    <2>1. CASE RegisterCheck(d)
      BY <2>1, <2>0 DEF RegisterCheck
    <2>2. CASE RegisterLink(d)
      BY <2>2, <2>0 DEF RegisterLink
    <2>3. CASE Claim(d)
      BY <2>3, <2>0 DEF Claim, StartClaim
    <2>4. CASE Release(d)
      BY <2>4, <2>0 DEF Release
    <2>5. CASE Yield(d)
      BY <2>5, <2>0 DEF Yield
    <2>6. CASE Unregister(d)
      BY <2>6, <2>0 DEF Unregister
    <2> QED BY <1>2, <2>1, <2>2, <2>3, <2>4, <2>5, <2>6 DEF ClientCall
  <1>3. ASSUME NEW d \in Devs, Signal(d) PROVE BitsInv'
    BY <1>3 DEF Signal
  <1>4. CASE UNCHANGED vars
    BY <1>4 DEF vars
  <1> QED BY <1>1, <1>2, <1>3, <1>4 DEF Next

\* Only a client that holds the port releases it.
LEMMA HoldStep ==
    ASSUME ~Preemptive, Interruptible = {}, Typing,
           HoldInv, OwnerInv, [Next]_vars
    PROVE  HoldInv'
  <1> USE DEF Typing, TypeOK, At, Goto, Waiting, SwitchPoints, Others, port, waitlist, registry, HoldInv
  <1>1. ASSUME NEW d \in Devs, KernelStep(d) PROVE HoldInv'
    <2>0. Others(d)
      BY <1>1, StepFrame DEF Others
    <2>1. CASE ClaimCheck(d)
      BY <2>1, <2>0 DEF ClaimCheck
    <2>2. CASE ClaimLock(d)
      BY <2>2, <2>0 DEF ClaimLock
    <2>3. CASE BlockCheck(d)
      BY <2>3, <2>0 DEF BlockCheck
    <2>4. CASE WaitTest(d)
      BY <2>4, <2>0 DEF WaitTest, Return
    <2>5. CASE ClaimDone(d)
      BY <2>5, <2>0 DEF ClaimDone, Return
    <2>6. CASE ReleaseLock(d)
      <3>1. pc[d] = "release_lock"
        BY <2>6 DEF ReleaseLock
      <3> QED BY <2>6, <3>1, <2>0, ReleaseLockEffect, DevsAssumption
              DEF AfterReleaseOf, waitlist, registry
    <2>7. CASE ReleaseHead(d)
      BY <2>7, <2>0 DEF ReleaseHead
    <2>8. CASE ReleaseWalk(d)
      <3>1. pc[d] = "release_walk"
        BY <2>8 DEF ReleaseWalk
      <3> QED BY <2>8, <3>1, <2>0, ReleaseWalkEffect, DevsAssumption
              DEF AfterReleaseOf, waitlist, registry
    <2>9. CASE ReleaseClaim(d)
      BY <2>9, <2>0 DEF ReleaseClaim
    <2>10. CASE ReleaseGrant(d)
      BY <2>10, <2>0 DEF ReleaseGrant
    <2>11. CASE ReleaseWake(d)
      <3>1. pc[d] = "release_wake"
        BY <2>11 DEF ReleaseWake
      <3> QED BY <2>11, <3>1, <2>0, ReleaseWakeEffect, DevsAssumption
              DEF AfterReleaseOf, waitlist, registry
    <2>12. CASE UnregisterDevices(d)
      BY <2>12, <2>0 DEF UnregisterDevices
    <2>13. CASE UnregisterWaitlist(d)
      BY <2>13, <2>0 DEF UnregisterWaitlist
    <2> QED BY <1>1, <2>1, <2>2, <2>3, <2>4, <2>5, <2>6, <2>7, <2>8, <2>9,
           <2>10, <2>11, <2>12, <2>13 DEF KernelStep, ClaimGive,
                                            ReleaseGive
  <1>2. ASSUME NEW d \in Devs, ClientCall(d) PROVE HoldInv'
    <2>0. Others(d)
      BY <1>2, StepFrame DEF Others
    <2>1. CASE RegisterCheck(d)
      BY <2>1, <2>0 DEF RegisterCheck
    <2>2. CASE RegisterLink(d)
      BY <2>2, <2>0 DEF RegisterLink
    <2>3. CASE Claim(d)
      BY <2>3, <2>0 DEF Claim, StartClaim
    <2>4. CASE Release(d)
      BY <2>4, <2>0 DEF Release
    <2>5. CASE Yield(d)
      BY <2>5, <2>0 DEF Yield
    <2>6. CASE Unregister(d)
      BY <2>6, <2>0 DEF Unregister, OwnerInv
    <2> QED BY <1>2, <2>1, <2>2, <2>3, <2>4, <2>5, <2>6 DEF ClientCall
  <1>3. ASSUME NEW d \in Devs, Signal(d) PROVE HoldInv'
    BY <1>3 DEF Signal
  <1>4. CASE UNCHANGED vars
    BY <1>4 DEF vars
  <1> QED BY <1>1, <1>2, <1>3, <1>4 DEF Next

\* The port is given only to a thread that will find out.
LEMMA OwnerStep ==
    ASSUME ~Preemptive, Interruptible = {}, Typing,
           BitsInv, QueuedInv, HoldInv, OwnerInv, WalkInv, ListInv, [Next]_vars
    PROVE  OwnerInv'
  <1> USE DEF Typing, TypeOK, At, Goto, Waiting, SwitchPoints, Others, port, waitlist, registry, OwnerInv
  <1>1. ASSUME NEW d \in Devs, KernelStep(d) PROVE OwnerInv'
    <2>0. Others(d)
      BY <1>1, StepFrame DEF Others
    <2>1. CASE ClaimCheck(d)
      BY <2>1, <2>0 DEF ClaimCheck
    <2>2. CASE ClaimLock(d)
      <3>1. pc[d] = "claim_lock" /\ UNCHANGED <<claim, sig, walk>>
        BY <2>2 DEF ClaimLock
      <3> QED BY <2>2, <3>1, <2>0, ClaimLockEffect
    <2>3. CASE BlockCheck(d)
      BY <2>3, <2>0 DEF BlockCheck
    <2>4. CASE WaitTest(d)
      BY <2>4, <2>0 DEF WaitTest, Return, HoldInv, QueuedInv
    <2>5. CASE ClaimDone(d)
      BY <2>5, <2>0 DEF ClaimDone, Return
    <2>6. CASE ReleaseLock(d)
      <3>1. pc[d] = "release_lock"
        BY <2>6 DEF ReleaseLock
      <3> QED BY <2>6, <3>1, <2>0, ReleaseLockEffect, DevsAssumption
              DEF AfterReleaseOf, waitlist, registry
    <2>7. CASE ReleaseHead(d)
      BY <2>7, <2>0 DEF ReleaseHead
    <2>8. CASE ReleaseWalk(d)
      <3>1. pc[d] = "release_walk"
        BY <2>8 DEF ReleaseWalk
      <3> QED BY <2>8, <3>1, <2>0, ReleaseWalkEffect, DevsAssumption
              DEF AfterReleaseOf, waitlist, registry
    <2>9. CASE ReleaseClaim(d)
      BY <2>9, <2>0 DEF ReleaseClaim
    <2>10. CASE ReleaseGrant(d)
      <3>1. PICK e \in Devs : Hand(d, e)
        BY <2>10, ReleaseGrantEffect
      <3>2. /\ pc'[d] = "release_wake" /\ UNCHANGED <<claim, sig, walk>>
            /\ pc[d] = "release_grant"
        BY <2>10 DEF ReleaseGrant, GiveStart
      <3> QED BY <3>1, <3>2, <2>0, DevsAssumption DEF Hand
    <2>11. CASE ReleaseWake(d)
      <3>1. pc[d] = "release_wake"
        BY <2>11 DEF ReleaseWake
      <3> QED BY <2>11, <3>1, <2>0, ReleaseWakeEffect, DevsAssumption
              DEF AfterReleaseOf, waitlist, registry
    <2>12. CASE UnregisterDevices(d)
      BY <2>12, <2>0 DEF UnregisterDevices
    <2>13. CASE UnregisterWaitlist(d)
      BY <2>13, <2>0 DEF UnregisterWaitlist
    <2> QED BY <1>1, <2>1, <2>2, <2>3, <2>4, <2>5, <2>6, <2>7, <2>8, <2>9,
           <2>10, <2>11, <2>12, <2>13 DEF KernelStep, ClaimGive,
                                            ReleaseGive
  <1>2. ASSUME NEW d \in Devs, ClientCall(d) PROVE OwnerInv'
    <2>0. Others(d)
      BY <1>2, StepFrame DEF Others
    <2>1. CASE RegisterCheck(d)
      BY <2>1, <2>0 DEF RegisterCheck
    <2>2. CASE RegisterLink(d)
      BY <2>2, <2>0 DEF RegisterLink
    <2>3. CASE Claim(d)
      BY <2>3, <2>0 DEF Claim, StartClaim
    <2>4. CASE Release(d)
      BY <2>4, <2>0 DEF Release, HoldInv
    <2>5. CASE Yield(d)
      BY <2>5, <2>0 DEF Yield
    <2>6. CASE Unregister(d)
      BY <2>6, <2>0 DEF Unregister
    <2> QED BY <1>2, <2>1, <2>2, <2>3, <2>4, <2>5, <2>6 DEF ClientCall
  <1>3. ASSUME NEW d \in Devs, Signal(d) PROVE OwnerInv'
    BY <1>3 DEF Signal
  <1>4. CASE UNCHANGED vars
    BY <1>4 DEF vars
  <1> QED BY <1>1, <1>2, <1>3, <1>4 DEF Next

\* The releaser's pointer stays the head of the list until it hands over.
LEMMA WalkStep ==
    ASSUME ~Preemptive, Interruptible = {}, Typing,
           OneRunner, BitsInv, HoldInv, OwnerInv, WalkInv, ListInv, [Next]_vars
    PROVE  WalkInv'
  <1> USE DEF Typing, TypeOK, At, Goto, Waiting, SwitchPoints, Others, port, waitlist, registry, WalkInv, Handing
  <1>1. ASSUME NEW d \in Devs, KernelStep(d) PROVE WalkInv'
    <2>0. Others(d)
      BY <1>1, StepFrame DEF Others
    <2>1. CASE ClaimCheck(d)
      BY <2>1, <2>0 DEF ClaimCheck
    <2>2. CASE ClaimLock(d)
      <3>1. pc[d] = "claim_lock" /\ UNCHANGED <<claim, sig, walk>>
        BY <2>2 DEF ClaimLock
      <3> QED BY <2>2, <3>1, <2>0, ClaimLockEffect
    <2>3. CASE BlockCheck(d)
      BY <2>3, <2>0 DEF BlockCheck
    <2>4. CASE WaitTest(d)
      BY <2>4, <2>0 DEF WaitTest, Return
    <2>5. CASE ClaimDone(d)
      BY <2>5, <2>0 DEF ClaimDone, Return
    <2>6. CASE ReleaseLock(d)
      <3>1. pc[d] = "release_lock"
        BY <2>6 DEF ReleaseLock
      <3> QED BY <2>6, <3>1, <2>0, ReleaseLockEffect, DevsAssumption
              DEF AfterReleaseOf, waitlist, registry
    <2>7. CASE ReleaseHead(d)
      BY <2>7, <2>0 DEF ReleaseHead
    <2>8. CASE ReleaseWalk(d)
      <3>1. pc[d] = "release_walk" /\ walk[d] = waithead
        BY <2>8 DEF ReleaseWalk
      <3>2. walk[d] # NoDev => 1 \in waiting[walk[d]]
        BY <3>1, HeadWaits
      <3> QED BY <2>8, <3>1, <3>2, <2>0, ReleaseWalkEffect, DevsAssumption
              DEF AfterReleaseOf
    <2>9. CASE ReleaseClaim(d)
      BY <2>9, <2>0, DevsAssumption DEF ReleaseClaim, WalkOK, WalkInv, Handing
    <2>10. CASE ReleaseGrant(d)
      <3>1. PICK e \in Devs : Hand(d, e)
        BY <2>10, ReleaseGrantEffect
      <3>2. /\ pc'[d] = "release_wake" /\ UNCHANGED <<claim, sig, walk>>
            /\ pc[d] = "release_grant"
        BY <2>10 DEF ReleaseGrant, GiveStart
      <3> QED BY <3>1, <3>2, <2>0, DevsAssumption DEF Hand
    <2>11. CASE ReleaseWake(d)
      <3>1. pc[d] = "release_wake" /\ cad # NoDev
        BY <2>11 DEF ReleaseWake
      <3> QED BY <2>11, <3>1, <2>0, ReleaseWakeEffect, DevsAssumption
              DEF AfterReleaseOf
    <2>12. CASE UnregisterDevices(d)
      BY <2>12, <2>0 DEF UnregisterDevices
    <2>13. CASE UnregisterWaitlist(d)
      BY <2>13, <2>0, UnregisterEffect DEF UnregisterWaitlist, waitlist
    <2> QED BY <1>1, <2>1, <2>2, <2>3, <2>4, <2>5, <2>6, <2>7, <2>8, <2>9,
           <2>10, <2>11, <2>12, <2>13 DEF KernelStep, ClaimGive,
                                            ReleaseGive
  <1>2. ASSUME NEW d \in Devs, ClientCall(d) PROVE WalkInv'
    <2>0. Others(d)
      BY <1>2, StepFrame DEF Others
    <2>1. CASE RegisterCheck(d)
      BY <2>1, <2>0 DEF RegisterCheck
    <2>2. CASE RegisterLink(d)
      BY <2>2, <2>0 DEF RegisterLink, waitlist
    <2>3. CASE Claim(d)
      BY <2>3, <2>0 DEF Claim, StartClaim
    <2>4. CASE Release(d)
      BY <2>4, <2>0 DEF Release
    <2>5. CASE Yield(d)
      BY <2>5, <2>0 DEF Yield
    <2>6. CASE Unregister(d)
      BY <2>6, <2>0 DEF Unregister
    <2> QED BY <1>2, <2>1, <2>2, <2>3, <2>4, <2>5, <2>6 DEF ClientCall
  <1>3. ASSUME NEW d \in Devs, Signal(d) PROVE WalkInv'
    BY <1>3 DEF Signal
  <1>4. CASE UNCHANGED vars
    BY <1>4 DEF vars
  <1> QED BY <1>1, <1>2, <1>3, <1>4 DEF Next

\* Whoever frees the port looks at the list before anybody else runs.
LEMMA FreeStep ==
    ASSUME ~Preemptive, Interruptible = {}, Typing,
           BitsInv, WalkInv, FreeInv, ListInv, [Next]_vars
    PROVE  FreeInv'
  <1> USE DEF Typing, TypeOK, At, Goto, Waiting, SwitchPoints, Others, port, waitlist, registry, FreeInv, Handing
  <1>1. ASSUME NEW d \in Devs, KernelStep(d) PROVE FreeInv'
    <2>0. Others(d)
      BY <1>1, StepFrame DEF Others
    <2>1. CASE ClaimCheck(d)
      BY <2>1, <2>0 DEF ClaimCheck
    <2>2. CASE ClaimLock(d)
      <3>1. pc[d] = "claim_lock" /\ UNCHANGED <<claim, sig, walk>>
        BY <2>2 DEF ClaimLock
      <3> QED BY <2>2, <3>1, <2>0, ClaimLockEffect
    <2>3. CASE BlockCheck(d)
      BY <2>3, <2>0 DEF BlockCheck
    <2>4. CASE WaitTest(d)
      BY <2>4, <2>0 DEF WaitTest, Return
    <2>5. CASE ClaimDone(d)
      BY <2>5, <2>0 DEF ClaimDone, Return
    <2>6. CASE ReleaseLock(d)
      <3>1. pc[d] = "release_lock"
        BY <2>6 DEF ReleaseLock
      <3> QED BY <2>6, <3>1, <2>0, ReleaseLockEffect, DevsAssumption
              DEF AfterReleaseOf, waitlist, registry
    <2>7. CASE ReleaseHead(d)
      BY <2>7, <2>0 DEF ReleaseHead
    <2>8. CASE ReleaseWalk(d)
      <3>1. pc[d] = "release_walk" /\ walk[d] = waithead
        BY <2>8 DEF ReleaseWalk, WalkInv
      <3>2. walk[d] # NoDev => 1 \in waiting[walk[d]]
        BY <3>1, HeadWaits
      <3> QED BY <2>8, <3>1, <3>2, <2>0, ReleaseWalkEffect, DevsAssumption
              DEF AfterReleaseOf
    <2>9. CASE ReleaseClaim(d)
      BY <2>9, <2>0, DevsAssumption DEF ReleaseClaim, WalkOK, WalkInv, Handing
    <2>10. CASE ReleaseGrant(d)
      <3>1. PICK e \in Devs : Hand(d, e)
        BY <2>10, ReleaseGrantEffect
      <3>2. /\ pc'[d] = "release_wake" /\ UNCHANGED <<claim, sig, walk>>
            /\ pc[d] = "release_grant"
        BY <2>10 DEF ReleaseGrant, GiveStart
      <3> QED BY <3>1, <3>2, <2>0, DevsAssumption DEF Hand
    <2>11. CASE ReleaseWake(d)
      <3>1. pc[d] = "release_wake" /\ cad # NoDev
        BY <2>11 DEF ReleaseWake, WalkInv
      <3> QED BY <2>11, <3>1, <2>0, ReleaseWakeEffect, DevsAssumption
              DEF AfterReleaseOf
    <2>12. CASE UnregisterDevices(d)
      BY <2>12, <2>0 DEF UnregisterDevices
    <2>13. CASE UnregisterWaitlist(d)
      BY <2>13, <2>0, UnregisterEffect DEF UnregisterWaitlist, waitlist
    <2> QED BY <1>1, <2>1, <2>2, <2>3, <2>4, <2>5, <2>6, <2>7, <2>8, <2>9,
           <2>10, <2>11, <2>12, <2>13 DEF KernelStep, ClaimGive,
                                            ReleaseGive
  <1>2. ASSUME NEW d \in Devs, ClientCall(d) PROVE FreeInv'
    <2>0. Others(d)
      BY <1>2, StepFrame DEF Others
    <2>1. CASE RegisterCheck(d)
      BY <2>1, <2>0 DEF RegisterCheck
    <2>2. CASE RegisterLink(d)
      BY <2>2, <2>0 DEF RegisterLink
    <2>3. CASE Claim(d)
      BY <2>3, <2>0 DEF Claim, StartClaim
    <2>4. CASE Release(d)
      BY <2>4, <2>0 DEF Release
    <2>5. CASE Yield(d)
      BY <2>5, <2>0 DEF Yield
    <2>6. CASE Unregister(d)
      BY <2>6, <2>0 DEF Unregister
    <2> QED BY <1>2, <2>1, <2>2, <2>3, <2>4, <2>5, <2>6 DEF ClientCall
  <1>3. ASSUME NEW d \in Devs, Signal(d) PROVE FreeInv'
    BY <1>3 DEF Signal
  <1>4. CASE UNCHANGED vars
    BY <1>4 DEF vars, waitlist
  <1> QED BY <1>1, <1>2, <1>3, <1>4 DEF Next

\* A device that waits joins at the tail.
LEMMA JoinKeepsList ==
    ASSUME TypeOK, ListInv, NEW d \in Devs, 0 \notin waiting[d],
           waiting' = [waiting EXCEPT ![d] = {0, 1}],
           waitprev' = [waitprev EXCEPT ![d] = waittail],
           waitnext' = [x \in Devs |-> IF x = waittail THEN d
                          ELSE IF x = d THEN NoDev ELSE waitnext[x]],
           waithead' = IF waittail = NoDev THEN d ELSE waithead,
           waittail' = d
    PROVE  ListInv'
  <1> USE DEF TypeOK
  <1>1. PICK n \in Nat : \E q \in [1 .. n -> Devs] : IsList(n, q)
    BY DEF ListInv
  <1>2. PICK q \in [1 .. n -> Devs] : IsList(n, q)
    BY <1>1
  <1> DEFINE p == [i \in 1 .. n + 1 |-> IF i = n + 1 THEN d ELSE q[i]]
  <1>3. /\ p \in [1 .. n + 1 -> Devs] /\ p[n + 1] = d
        /\ \A i \in 1 .. n : i \in 1 .. n + 1 /\ i # n + 1 /\ p[i] = q[i] /\ q[i] # d
        /\ \A i \in 1 .. n + 1 : i = n + 1 \/ i \in 1 .. n
    BY <1>2 DEF IsList
  <1>4. n # 0 => n \in 1 .. n /\ 1 \in 1 .. n
    OBVIOUS
  <1>5. waittail = IF n = 0 THEN NoDev ELSE q[n]
    BY <1>2 DEF IsList
  <1>6. waittail # d
    BY <1>3, <1>4, <1>5, DevsAssumption
  <1> HIDE DEF p
  <1>7. \A i, j \in 1 .. n + 1 : p[i] = p[j] => i = j
    BY <1>2, <1>3 DEF IsList
  <1>8. \A e \in Devs : 0 \in waiting'[e] <=> \E i \in 1 .. n + 1 : p[i] = e
    <2> SUFFICES ASSUME NEW e \in Devs
                 PROVE  0 \in waiting'[e] <=> \E i \in 1 .. n + 1 : p[i] = e
      OBVIOUS
    <2>1. CASE e = d
      BY <1>3, <2>1
    <2>2. CASE e # d
      <3>1. waiting'[e] = waiting[e]
        BY <2>2
      <3>2. 0 \in waiting[e] <=> \E i \in 1 .. n : q[i] = e
        BY <1>2 DEF IsList
      <3>3. (\E i \in 1 .. n : q[i] = e) <=> \E i \in 1 .. n + 1 : p[i] = e
        BY <1>3, <2>2
      <3> QED BY <3>1, <3>2, <3>3
    <2> QED BY <2>1, <2>2
  <1>9. waithead' = p[1] /\ waittail' = p[n + 1]
    <2>1. CASE n = 0
      BY <1>3, <1>5, <2>1
    <2>2. CASE n # 0
      <3>1. waittail # NoDev /\ waithead = q[1]
        BY <1>2, <1>4, <1>5, <2>2, DevsAssumption DEF IsList
      <3> QED BY <1>3, <1>4, <2>2, <3>1
    <2> QED BY <2>1, <2>2
  <1>10. ASSUME NEW i \in 1 .. n + 1
         PROVE  /\ waitnext'[p[i]] = IF i = n + 1 THEN NoDev ELSE p[i + 1]
                /\ waitprev'[p[i]] = IF i = 1 THEN NoDev ELSE p[i - 1]
    <2>1. CASE i = n + 1
      <3>1. waitnext'[d] = NoDev /\ waitprev'[d] = waittail
        BY <1>6
      <3>2. n # 0 => i # 1 /\ i - 1 = n
        BY <2>1
      <3> QED BY <1>3, <1>4, <1>5, <2>1, <3>1, <3>2
    <2>2. CASE i \in 1 .. n
      <3>1. /\ waitnext[q[i]] = IF i = n THEN NoDev ELSE q[i + 1]
            /\ waitprev[q[i]] = IF i = 1 THEN NoDev ELSE q[i - 1]
        BY <1>2, <2>2 DEF IsList
      <3>2. q[i] \in Devs /\ q[i] # d /\ p[i] = q[i] /\ i # n + 1
        BY <1>3, <2>2
      <3>3. i # 1 => i - 1 \in 1 .. n
        BY <2>2
      <3>4. waitprev'[p[i]] = IF i = 1 THEN NoDev ELSE p[i - 1]
        BY <1>3, <3>1, <3>2, <3>3
      <3>5. CASE i = n
        BY <1>3, <1>4, <1>5, <2>2, <3>2, <3>4, <3>5
      <3>6. CASE i # n
        <4>1. q[i] # waittail
          BY <1>2, <1>4, <1>5, <2>2, <3>6 DEF IsList
        <4>2. i + 1 \in 1 .. n
          BY <2>2, <3>6
        <4> QED BY <1>3, <3>1, <3>2, <3>4, <3>6, <4>1, <4>2
      <3> QED BY <3>5, <3>6
    <2> QED BY <1>3, <2>1, <2>2
  <1>11. IsList(n + 1, p)'
    <2>1. /\ waithead' = IF n + 1 = 0 THEN NoDev ELSE p[1]
          /\ waittail' = IF n + 1 = 0 THEN NoDev ELSE p[n + 1]
      BY <1>9
    <2> QED BY <1>7, <1>8, <1>10, <2>1 DEF IsList
  <1>12. Unlinked'
    <2> SUFFICES ASSUME NEW e \in Devs, 0 \notin waiting'[e]
                 PROVE  waitprev'[e] = NoDev /\ waitnext'[e] = NoDev
      BY DEF Unlinked, Queued
    <2>1. e # d /\ 0 \notin waiting[e]
      OBVIOUS
    <2>2. waitprev[e] = NoDev /\ waitnext[e] = NoDev
      BY <2>1 DEF ListInv, Unlinked, Queued
    <2>3. n # 0 => 0 \in waiting[q[n]]
      BY <1>2, <1>4 DEF IsList
    <2>4. e # waittail
      BY <1>5, <2>1, <2>3, DevsAssumption
    <2> QED BY <2>1, <2>2, <2>4
  <1>13. n + 1 \in Nat
    OBVIOUS
  <1> QED BY <1>3, <1>11, <1>12, <1>13 DEF ListInv

\* The head leaves, and the list is the rest.
LEMMA LeaveKeepsList ==
    ASSUME TypeOK, ListInv, NEW d \in Devs, NEW e \in Devs, Hand(d, e)
    PROVE  ListInv'
  <1> USE DEF TypeOK
  <1>1. PICK n \in Nat : \E q \in [1 .. n -> Devs] : IsList(n, q)
    BY DEF ListInv
  <1>2. PICK q \in [1 .. n -> Devs] : IsList(n, q)
    BY <1>1
  <1>3. n # 0 /\ 1 \in 1 .. n /\ n \in 1 .. n /\ n - 1 \in Nat /\ e = q[1]
    BY <1>2, DevsAssumption DEF IsList, Hand
  <1> DEFINE m == n - 1
             p == [i \in 1 .. m |-> q[i + 1]]
  <1>4. /\ p \in [1 .. m -> Devs]
        /\ \A i \in 1 .. m : i + 1 \in 1 .. n /\ i + 1 # 1 /\ p[i] = q[i + 1]
        /\ \A i \in 1 .. n : i = 1 \/ (i - 1 \in 1 .. m /\ p[i - 1] = q[i])
    BY <1>3
  <1> HIDE DEF p
  <1>5. \A i \in 1 .. m : p[i] # e
    BY <1>2, <1>3, <1>4 DEF IsList
  <1>6. \A i, j \in 1 .. m : p[i] = p[j] => i = j
    BY <1>2, <1>4 DEF IsList
  <1>7. \A x \in Devs : 0 \in waiting'[x] <=> \E i \in 1 .. m : p[i] = x
    <2> SUFFICES ASSUME NEW x \in Devs
                 PROVE  0 \in waiting'[x] <=> \E i \in 1 .. m : p[i] = x
      OBVIOUS
    <2>1. CASE x = e
      BY <1>5, <2>1 DEF Hand
    <2>2. CASE x # e
      <3>1. waiting'[x] = waiting[x]
        BY <2>2 DEF Hand
      <3>2. 0 \in waiting[x] <=> \E i \in 1 .. n : q[i] = x
        BY <1>2 DEF IsList
      <3>3. (\E i \in 1 .. n : q[i] = x) <=> \E i \in 1 .. m : p[i] = x
        BY <1>3, <1>4, <2>2
      <3> QED BY <3>1, <3>2, <3>3
    <2> QED BY <2>1, <2>2
  <1>8. waitnext[e] = IF n = 1 THEN NoDev ELSE q[2]
    BY <1>2, <1>3 DEF IsList
  <1>9. n # 1 => 1 \in 1 .. m /\ m \in 1 .. m /\ p[1] = q[2] /\ p[m] = q[n] /\ m # 0
    BY <1>3, <1>4
  <1>10. /\ waithead' = IF m = 0 THEN NoDev ELSE p[1]
         /\ waittail' = IF m = 0 THEN NoDev ELSE p[m]
    <2>1. waittail = q[n]
      BY <1>2, <1>3 DEF IsList
    <2>2. CASE n = 1
      BY <1>8, <2>2 DEF Hand
    <2>3. CASE n # 1
      <3>1. waitnext[e] = p[1] /\ p[1] # NoDev
        BY <1>4, <1>8, <1>9, <2>3, DevsAssumption
      <3> QED BY <1>9, <2>1, <2>3, <3>1 DEF Hand
    <2> QED BY <2>2, <2>3
  <1>11. ASSUME NEW i \in 1 .. m
         PROVE  /\ waitnext'[p[i]] = IF i = m THEN NoDev ELSE p[i + 1]
                /\ waitprev'[p[i]] = IF i = 1 THEN NoDev ELSE p[i - 1]
    <2>1. p[i] = q[i + 1] /\ i + 1 \in 1 .. n /\ i + 1 # 1 /\ p[i] \in Devs /\ p[i] # e
      BY <1>4, <1>5
    <2>2. /\ waitnext[p[i]] = IF i + 1 = n THEN NoDev ELSE q[i + 2]
          /\ waitprev[p[i]] = q[i]
      BY <1>2, <2>1 DEF IsList
    <2>3. waitnext'[p[i]] = waitnext[p[i]]
      BY <2>1 DEF Hand
    <2>4. i # m => i + 1 \in 1 .. m /\ p[i + 1] = q[i + 2]
      BY <1>4
    <2>5. i # 1 => i - 1 \in 1 .. m /\ p[i - 1] = q[i]
      BY <1>4
    <2>6. waitnext'[p[i]] = IF i = m THEN NoDev ELSE p[i + 1]
      BY <2>2, <2>3, <2>4
    <2>7. CASE i = 1
      <3>1. p[i] = waitnext[e]
        BY <1>8, <1>9, <2>7
      <3> QED BY <2>1, <2>6, <2>7, <3>1 DEF Hand
    <2>8. CASE i # 1
      <3>1. p[i] # waitnext[e]
        BY <1>3, <1>6, <1>8, <1>9, <2>1, <2>8
      <3> QED BY <2>1, <2>2, <2>5, <2>6, <2>8, <3>1 DEF Hand
    <2> QED BY <2>7, <2>8
  <1>12. IsList(m, p)'
    BY <1>6, <1>7, <1>10, <1>11 DEF IsList
  <1>13. Unlinked'
    BY DEF ListInv, Unlinked, Queued, Hand
  <1> QED BY <1>3, <1>4, <1>12, <1>13 DEF ListInv

\* The list depends on bits 0 and the links only.
LEMMA FrameKeepsList ==
    ASSUME ListInv, UNCHANGED waitlist,
           \A d \in Devs : 0 \in waiting'[d] <=> 0 \in waiting[d]
    PROVE  ListInv'
  <1>1. PICK n \in Nat : \E q \in [1 .. n -> Devs] : IsList(n, q)
    BY DEF ListInv
  <1>2. PICK q \in [1 .. n -> Devs] : IsList(n, q)
    BY <1>1
  <1>3. IsList(n, q)'
    BY <1>2 DEF IsList, waitlist
  <1>4. Unlinked'
    BY DEF ListInv, Unlinked, Queued, waitlist
  <1> QED BY <1>3, <1>4 DEF ListInv

\* Every step keeps the list.
LEMMA ListStep ==
    ASSUME ~Preemptive, Interruptible = {}, Typing,
           BitsInv, WalkInv, ListInv, [Next]_vars
    PROVE  ListInv'
  <1> USE DEF Typing, TypeOK
  <1>1. ASSUME NEW d \in Devs, KernelStep(d) PROVE ListInv'
    <2>1. CASE ClaimCheck(d)
      BY <2>1, FrameKeepsList DEF ClaimCheck
    <2>2. CASE ClaimLock(d)
      <3>1. 0 \notin waiting[d]
        BY <2>2 DEF ClaimLock, At, BitsInv
      <3>2. UNCHANGED <<waiting, waitlist>> => ListInv'
        BY FrameKeepsList
      <3> QED BY <2>2, <3>1, <3>2, ClaimLockEffect, JoinKeepsList
    <2>3. CASE BlockCheck(d)
      BY <2>3, FrameKeepsList DEF BlockCheck
    <2>4. CASE WaitTest(d)
      BY <2>4, FrameKeepsList DEF WaitTest
    <2>5. CASE ClaimDone(d)
      <3>1. 0 \notin waiting[d] /\ waiting' = [waiting EXCEPT ![d] = {}]
        BY <2>5 DEF ClaimDone, At, BitsInv
      <3>2. \A e \in Devs : 0 \in waiting'[e] <=> 0 \in waiting[e]
        BY <3>1
      <3> QED BY <2>5, <3>2, FrameKeepsList DEF ClaimDone
    <2>6. CASE ReleaseLock(d)
      <3>1. waiting[d] = {}
        BY <2>6 DEF ReleaseLock, At, BitsInv, ClaimPath
      <3>2. (waiting' = waiting \/ AfterReleaseOf(d)) /\ UNCHANGED waitlist
        BY <2>6, ReleaseLockEffect
      <3>3. \A e \in Devs : 0 \in waiting'[e] <=> 0 \in waiting[e]
        BY <3>1, <3>2 DEF AfterReleaseOf
      <3> QED BY <3>2, <3>3, FrameKeepsList
    <2>7. CASE ReleaseHead(d)
      BY <2>7, FrameKeepsList DEF ReleaseHead
    <2>8. CASE ReleaseWalk(d)
      <3>1. waiting[d] = {}
        BY <2>8 DEF ReleaseWalk, At, BitsInv, ClaimPath
      <3>2. (waiting' = waiting \/ AfterReleaseOf(d)) /\ UNCHANGED waitlist
        BY <2>8, ReleaseWalkEffect
      <3>3. \A e \in Devs : 0 \in waiting'[e] <=> 0 \in waiting[e]
        BY <3>1, <3>2 DEF AfterReleaseOf
      <3> QED BY <3>2, <3>3, FrameKeepsList
    <2>9. CASE ReleaseClaim(d)
      BY <2>9, FrameKeepsList DEF ReleaseClaim
    <2>10. CASE ReleaseGrant(d)
      <3>1. PICK e \in Devs : Hand(d, e)
        BY <2>10, ReleaseGrantEffect
      <3> QED BY <3>1, LeaveKeepsList
    <2>11. CASE ReleaseWake(d)
      <3>1. waiting[d] = {}
        BY <2>11 DEF ReleaseWake, At, BitsInv, ClaimPath
      <3>2. (waiting' = waiting \/ AfterReleaseOf(d)) /\ UNCHANGED waitlist
        BY <2>11, ReleaseWakeEffect
      <3>3. \A e \in Devs : 0 \in waiting'[e] <=> 0 \in waiting[e]
        BY <3>1, <3>2 DEF AfterReleaseOf
      <3> QED BY <3>2, <3>3, FrameKeepsList
    <2>12. CASE UnregisterDevices(d)
      BY <2>12, FrameKeepsList DEF UnregisterDevices
    <2>13. CASE UnregisterWaitlist(d)
      BY <2>13, UnregisterEffect, FrameKeepsList DEF UnregisterWaitlist
    <2> QED BY <1>1, <2>1, <2>2, <2>3, <2>4, <2>5, <2>6, <2>7, <2>8, <2>9,
           <2>10, <2>11, <2>12, <2>13 DEF KernelStep, ClaimGive,
                                            ReleaseGive
  <1>2. ASSUME NEW d \in Devs, ClientCall(d) PROVE ListInv'
    <2>1. CASE RegisterCheck(d)
      BY <2>1, FrameKeepsList DEF RegisterCheck
    <2>2. CASE RegisterLink(d)
      <3>1. waiting[d] = {}
        BY <2>2 DEF RegisterLink, At, BitsInv, ClaimPath
      <3>2. waitprev[d] = NoDev /\ waitnext[d] = NoDev
        BY <3>1 DEF ListInv, Unlinked, Queued
      <3>3. UNCHANGED <<waiting, waitprev, waitnext>>
        <4>1. /\ waiting = [waiting EXCEPT ![d] = {}]
              /\ waitprev = [waitprev EXCEPT ![d] = NoDev]
              /\ waitnext = [waitnext EXCEPT ![d] = NoDev]
          BY <3>1, <3>2
        <4> QED BY <2>2, <4>1 DEF RegisterLink
      <3> QED BY <2>2, <3>3, FrameKeepsList DEF RegisterLink, waitlist
    <2>3. CASE Claim(d)
      <3>1. waiting[d] = {} /\ waiting' = [waiting EXCEPT ![d] = {1}]
        BY <2>3 DEF Claim, StartClaim, At, BitsInv, ClaimPath
      <3>2. \A e \in Devs : 0 \in waiting'[e] <=> 0 \in waiting[e]
        BY <3>1
      <3> QED BY <2>3, <3>2, FrameKeepsList DEF Claim
    <2>4. CASE Release(d)
      BY <2>4, FrameKeepsList DEF Release
    <2>5. CASE Yield(d)
      BY <2>5, FrameKeepsList DEF Yield
    <2>6. CASE Unregister(d)
      BY <2>6, FrameKeepsList DEF Unregister
    <2> QED BY <1>2, <2>1, <2>2, <2>3, <2>4, <2>5, <2>6 DEF ClientCall
  <1>3. ASSUME NEW d \in Devs, Signal(d) PROVE ListInv'
    BY <1>3 DEF Signal
  <1>4. CASE UNCHANGED vars
    BY <1>4, FrameKeepsList DEF vars
  <1> QED BY <1>1, <1>2, <1>3, <1>4 DEF Next

----------------------------------------------------------------------------
(* The invariant of one CPU without signals, and what follows from it *)

ListedUp ==
    /\ Typing /\ OneRunner /\ QueuedInv /\ BitsInv /\ HoldInv /\ OwnerInv
    /\ WalkInv /\ FreeInv /\ ListInv /\ RegisteredOK

\* Nothing is registered, nobody waits.
LEMMA ListedInit == Init => ListedUp
  <1> SUFFICES ASSUME Init PROVE ListedUp
    OBVIOUS
  <1> USE DEF Init
  <1>1. OneRunner /\ QueuedInv /\ BitsInv /\ HoldInv
    BY DEF OneRunner, SwitchPoints, QueuedInv, BitsInv, HoldInv, Waiting, ClaimPath
  <1>2. OwnerInv /\ WalkInv /\ FreeInv
    BY DevsAssumption DEF OwnerInv, WalkInv, FreeInv, Handing
  <1>3. ListInv
    <2>1. IsList(0, [i \in 1 .. 0 |-> NoDev])
      BY DEF IsList
    <2>2. [i \in 1 .. 0 |-> NoDev] \in [1 .. 0 -> Devs]
      OBVIOUS
    <2>3. Unlinked
      BY DEF Unlinked
    <2> QED BY <2>1, <2>2, <2>3 DEF ListInv
  <1>4. RegisteredOK
    BY DEF RegisteredOK
  <1> QED BY <1>1, <1>2, <1>3, <1>4, TypeInit DEF ListedUp

\* The parts together are inductive.
LEMMA ListedStep ==
    ASSUME ~Preemptive, Interruptible = {}, ListedUp, [Next]_vars
    PROVE  ListedUp'
  <1> USE DEF ListedUp
  <1>1. Typing' /\ OneRunner' /\ QueuedInv' /\ RegisteredOK'
    BY TypeStep, RunnerStep, QueuedStep, RegisteredStep DEF Typing
  <1>2. BitsInv' /\ HoldInv' /\ OwnerInv'
    BY BitsStep, HoldStep, OwnerStep
  <1>3. WalkInv' /\ FreeInv' /\ ListInv'
    BY WalkStep, FreeStep, ListStep
  <1> QED BY <1>1, <1>2, <1>3

\* So they hold in every reachable state.
LEMMA ListedHolds ==
    ASSUME ~Preemptive, Interruptible = {}
    PROVE  Spec => []ListedUp
  <1>1. Init => ListedUp
    BY ListedInit
  <1>2. ListedUp /\ [Next]_vars => ListedUp'
    BY ListedStep
  <1> QED BY <1>1, <1>2, PTL DEF Spec

\* The inductive invariant of one CPU without signals.
THEOREM UpInvariantHolds ==
    ASSUME ~Preemptive, Interruptible = {}
    PROVE  Spec => []UpInv
  <1>1. ListedUp /\ IInv => UpInv
    BY ListIsWaitlist DEF ListedUp, UpInv, ListInv
  <1> QED BY <1>1, ListedHolds, InvariantHolds, PTL

\* The waitlist is a doubly linked list of the devices whose waiting bit 0 is
\* set (claim queues at the tail, release takes the head off).
THEOREM WaitlistIsAList ==
    ASSUME ~Preemptive, Interruptible = {}
    PROVE  Spec => []WaitlistOK
  <1>1. UpInv => WaitlistOK
    BY DEF UpInv
  <1> QED BY <1>1, UpInvariantHolds, PTL

\* The owner and the device a release claims for and wakes are registered
\* (sunix_parport_unregister_device frees the memory of a device that is
\* neither).
THEOREM NothingFreedIsUsed ==
    ASSUME ~Preemptive, Interruptible = {}
    PROVE  Spec => []NoUseAfterFree
  <1>1. ListedUp => NoUseAfterFree
    <2> SUFFICES ASSUME ListedUp PROVE NoUseAfterFree
      OBVIOUS
    <2> USE DEF ListedUp, Typing, TypeOK, Ptr
    <2>1. cad # NoDev => cad \in registered
      BY DEF OwnerInv, HoldInv, RegisteredOK
    <2>2. ASSUME NEW d \in Devs, pc[d] \in ReleasePath, walk[d] # NoDev
          PROVE  pc[walk[d]] # "off" /\ pc[walk[d]] # "register"
      <3>1. CASE pc[d] = "release_wake"
        BY <3>1 DEF WalkInv
      <3>2. CASE pc[d] # "release_wake"
        BY <2>2, <3>2, HeadWaits DEF WalkInv, Handing, ReleasePath, Waiting
      <3> QED BY <3>1, <3>2
    <2> QED BY <2>1, <2>2 DEF NoUseAfterFree
  <1> QED BY <1>1, ListedHolds, PTL

\* A release that looks at a waiter can wake it: nobody is on the waitlist but
\* from claim_or_block.
THEOREM WaitersCanBeWoken ==
    ASSUME ~Preemptive, Interruptible = {}
    PROVE  Spec => []AllCanBeWoken
  <1>1. ListedUp => AllCanBeWoken
    BY HeadWaits DEF ListedUp, Typing, WalkInv, Handing, AllCanBeWoken
  <1> QED BY <1>1, ListedHolds, PTL

\* An owned port has a client that knows it, or a claim that will find out: the
\* port is not lost ("forgot to release port" is never printed).
THEOREM PortIsNotLost ==
    ASSUME ~Preemptive, Interruptible = {}
    PROVE  Spec => []NoOrphan
  <1>1. ListedUp => NoOrphan
    BY DEF ListedUp, Typing, TypeOK, Ptr, OwnerInv, ClaimPath, NoOrphan
  <1> QED BY <1>1, ListedHolds, PTL

\* The port goes to whoever has waited longest: a claim that does not wait
\* finds the list empty, and a release claims for the head.
THEOREM GrantsAreFifo ==
    ASSUME ~Preemptive, Interruptible = {}
    PROVE  Spec => FifoGrant
  <1> DEFINE Fifo == cad' # cad /\ cad' # NoDev => waithead \in {NoDev, cad'}
  <1>1. ListedUp /\ [Next]_vars => Fifo
    <2> SUFFICES ASSUME ListedUp, [Next]_vars, cad' # cad, cad' # NoDev
                 PROVE  waithead \in {NoDev, cad'}
      OBVIOUS
    <2> USE DEF ListedUp
    <2>1. ASSUME NEW d \in Devs, ClaimLock(d) PROVE waithead \in {NoDev, cad'}
      <3>1. cad = NoDev
        BY <2>1, ClaimLockEffect
      <3>2. pc[d] = "claim_lock"
        BY <2>1 DEF ClaimLock, At
      <3>3. \A e \in Devs : pc[e] \notin Handing
        BY <3>2 DEF OneRunner, SwitchPoints, Handing
      <3> QED BY <3>1, <3>3 DEF FreeInv
    <2>2. ASSUME NEW d \in Devs, ReleaseGrant(d) PROVE waithead = cad'
      BY <2>2, ReleaseGrantEffect DEF Hand
    <2>3. ASSUME NEW d \in Devs, ReleaseLock(d) PROVE FALSE
      BY <2>3 DEF ReleaseLock
    <2> QED BY <2>1, <2>2, <2>3 DEF Next, KernelStep, ClientCall, vars,
          ClaimCheck, BlockCheck, WaitTest, ClaimDone, ReleaseHead,
          ReleaseWalk, ReleaseClaim, ReleaseWake, UnregisterDevices,
          UnregisterWaitlist, RegisterCheck, RegisterLink, Claim, Release,
          Yield, Unregister, Signal, ClaimGive, ReleaseGive, port
  <1> QED BY <1>1, ListedHolds, PTL DEF Spec, FifoGrant

=============================================================================
