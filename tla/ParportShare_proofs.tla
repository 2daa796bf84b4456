------------------------ MODULE ParportShare_proofs ------------------------
(***************************************************************************)
(* Theorems about ParportShare, for any number of devices, any mixture of  *)
(* clients, with or without signals and preemption.                        *)
(***************************************************************************)
EXTENDS ParportShare, TLAPS

Typing == TypeOK /\ WalkOK

\* The locked body of claim keeps the waitlist and the owner well typed.
LEMMA ClaimBodyType ==
    ASSUME TypeOK, NEW e \in Devs, Grant(e) \/ GiveStart(e) \/ Block(e)
    PROVE  /\ cad' \in Ptr /\ giving' \in Ptr
           /\ stage' \in {"free", "clear", "unlink", "links", "own"}
           /\ waiting' \in [Devs -> SUBSET {0, 1}]
           /\ waithead' \in Ptr /\ waittail' \in Ptr
           /\ waitprev' \in [Devs -> Ptr] /\ waitnext' \in [Devs -> Ptr]
  <1> USE DEF TypeOK, Ptr, waitlist
  <1>1. CASE Grant(e)
    <2>1. NextPast(e) \in [Devs -> Ptr] /\ PrevPast(e) \in [Devs -> Ptr]
      BY DEF NextPast, PrevPast
    <2>2. CASE 0 \notin waiting[e]
      BY <1>1, <2>2 DEF Grant
    <2>3. CASE 0 \in waiting[e]
      BY <1>1, <2>1, <2>3 DEF Grant, Unlink
    <2> QED BY <2>2, <2>3
  <1>2. CASE GiveStart(e)
    BY <1>2 DEF GiveStart
  <1>3. CASE Block(e)
    BY <1>3 DEF Block, port
  <1> QED BY <1>1, <1>2, <1>3

\* So does every write of a hand-over.
LEMMA GiveType ==
    ASSUME TypeOK, NEW e \in Devs, GiveWrite(e) \/ GiveOwn(e)
    PROVE  /\ cad' \in Ptr /\ giving' \in Ptr
           /\ stage' \in {"free", "clear", "unlink", "links", "own"}
           /\ waiting' \in [Devs -> SUBSET {0, 1}]
           /\ waithead' \in Ptr /\ waittail' \in Ptr
           /\ waitprev' \in [Devs -> Ptr] /\ waitnext' \in [Devs -> Ptr]
  <1> USE DEF TypeOK, Ptr, waitlist
  <1>1. CASE GiveClear(e)
    BY <1>1 DEF GiveClear
  <1>2. CASE GiveUnlink(e)
    BY <1>2 DEF GiveUnlink, Unlink, NextPast, PrevPast
  <1>3. CASE GiveLinks(e)
    BY <1>3 DEF GiveLinks
  <1>4. CASE GiveOwn(e)
    BY <1>4 DEF GiveOwn
  <1> QED BY <1>1, <1>2, <1>3, <1>4 DEF GiveWrite

\* Claim, release and unregister calls keep the type invariant.
LEMMA TypeInit == Init => Typing
  <1> SUFFICES ASSUME Init PROVE TypeOK /\ WalkOK
    BY DEF Typing
  <1>1. WalkOK
    BY DEF Init, WalkOK
  <1>2. /\ pc \in [Devs -> Locations]
        /\ goal \in [Devs -> {"claim", "release", "yield", "close"}]
    BY DEF Init, Locations
  <1>3. /\ cad \in Ptr /\ giving \in Ptr /\ waithead \in Ptr /\ waittail \in Ptr
        /\ waitprev \in [Devs -> Ptr] /\ waitnext \in [Devs -> Ptr]
        /\ walk \in [Devs -> Ptr]
    BY DEF Init, Ptr
  <1> QED BY <1>1, <1>2, <1>3 DEF Init, TypeOK

\* The calls a client begins keep the types.
LEMMA TypeClient ==
    ASSUME Typing, NEW d \in Devs, ClientCall(d)
    PROVE  Typing'
  <1> USE DEF Typing, TypeOK, WalkOK, Ptr, Locations, ClaimPath, ReleasePath,
              ClosePath, At, Goto, waitlist, registry, port
  <1>1. CASE RegisterCheck(d)
    BY <1>1 DEF RegisterCheck
  <1>2. CASE RegisterLink(d)
    <2>1. registered' \subseteq Devs /\ exclusive' \subseteq Devs
      BY <1>2 DEF RegisterLink
    <2>6. excl' \in BOOLEAN
      BY <1>2 DEF RegisterLink
    <2>2. pc' \in [Devs -> Locations] /\ pc'[d] \in {"off", "idle"}
      BY <1>2 DEF RegisterLink
    <2>3. /\ waiting' \in [Devs -> SUBSET {0, 1}]
          /\ waitprev' \in [Devs -> Ptr] /\ waitnext' \in [Devs -> Ptr]
      BY <1>2 DEF RegisterLink
    <2>4. \A e \in Devs : e # d => pc'[e] = pc[e]
      BY <1>2 DEF RegisterLink
    <2>5. UNCHANGED <<goal, port, waithead, waittail, claim, sig, walk>>
      BY <1>2 DEF RegisterLink
    <2> QED BY <2>1, <2>2, <2>3, <2>4, <2>5, <2>6
  <1>3. CASE Claim(d)
    BY <1>3 DEF Claim, StartClaim
  <1>4. CASE Release(d)
    BY <1>4 DEF Release
  <1>5. CASE Yield(d)
    BY <1>5 DEF Yield
  <1>6. CASE Unregister(d)
    BY <1>6 DEF Unregister
  <1> QED BY <1>1, <1>2, <1>3, <1>4, <1>5, <1>6 DEF ClientCall

\* The steps inside claim, release and unregistration keep them.
LEMMA TypeKernel ==
    ASSUME Typing, NEW d \in Devs, KernelStep(d)
    PROVE  Typing'
  <1> USE DEF Typing, TypeOK, WalkOK, Ptr, Locations, ClaimPath, ReleasePath,
              ClosePath, At, Goto, waitlist, registry, port
  <1>1. CASE ClaimCheck(d)
    BY <1>1 DEF ClaimCheck
  <1>2. CASE ClaimLock(d)
    BY <1>2, ClaimBodyType DEF ClaimLock
  <1>3. CASE BlockCheck(d)
    BY <1>3 DEF BlockCheck
  <1>4. CASE WaitTest(d)
    <2>1. pc' \in [Devs -> Locations] /\ pc'[d] \in {"idle", "claim_done", "asleep"}
      BY <1>4 DEF WaitTest, Return
    <2>2. \A e \in Devs : e # d => pc'[e] = pc[e]
      BY <1>4 DEF WaitTest, Return
    <2>3. claim' \in [Devs -> {"none", "held", "intr"}] /\ sig' \in [Devs -> BOOLEAN]
      BY <1>4 DEF WaitTest, Return, AfterInterrupt
    <2>4. UNCHANGED <<goal, port, waiting, waitlist, registry, walk>>
      BY <1>4 DEF WaitTest
    <2> QED BY <2>1, <2>2, <2>3, <2>4
  <1>5. CASE ClaimDone(d)
    BY <1>5 DEF ClaimDone, Return
  <1>6. CASE ReleaseLock(d)
    BY <1>6 DEF ReleaseLock, Released, AfterRelease,
              WaitingAfterRelease
  <1>7. CASE ReleaseHead(d)
    BY <1>7 DEF ReleaseHead
  <1>8. CASE ReleaseWalk(d)
    BY <1>8 DEF ReleaseWalk, Released, AfterRelease,
              WaitingAfterRelease
  <1>9. CASE ReleaseClaim(d)
    BY <1>9 DEF ReleaseClaim
  <1>10. CASE ReleaseGrant(d)
    <2>1. walk[d] \in Devs
      BY <1>10 DEF ReleaseGrant
    <2> QED BY <1>10, <2>1, ClaimBodyType DEF ReleaseGrant
  <1>11. CASE ReleaseWake(d)
    BY <1>11 DEF ReleaseWake, AfterRelease, WaitingAfterRelease
  <1>12. CASE UnregisterDevices(d)
    BY <1>12 DEF UnregisterDevices
  <1>13. CASE UnregisterWaitlist(d)
    BY <1>13 DEF UnregisterWaitlist, Unlink, NextPast, PrevPast
  <1>14. CASE ClaimGive(d)
    BY <1>14, GiveType DEF ClaimGive
  <1>15. CASE ReleaseGive(d)
    <2>1. walk[d] \in Devs
      BY <1>15 DEF ReleaseGive
    <2> QED BY <1>15, <2>1, GiveType DEF ReleaseGive
  <1> QED BY <1>1, <1>2, <1>3, <1>4, <1>5, <1>6, <1>7, <1>8, <1>9, <1>10,
             <1>11, <1>12, <1>13, <1>14, <1>15 DEF KernelStep

\* A signal keeps them.
LEMMA TypeSignal ==
    ASSUME Typing, NEW d \in Devs, Signal(d)
    PROVE  Typing'
  BY DEF Signal, Typing, TypeOK, WalkOK, Ptr, Locations, ClaimPath,
         ReleasePath, ClosePath, Goto, waitlist, registry, port

\* Every step keeps them.
LEMMA TypeStep == Typing /\ [Next]_vars => Typing'
  <1> SUFFICES ASSUME Typing, [Next]_vars PROVE Typing'
    OBVIOUS
  <1>1. CASE Next
    BY <1>1, TypeKernel, TypeClient, TypeSignal DEF Next
  <1>2. CASE UNCHANGED vars
    BY <1>2 DEF vars, waitlist, registry, port, Typing, TypeOK, WalkOK
  <1> QED BY <1>1, <1>2

\* The state of the port and of its devices is well formed (snx_share.c).
THEOREM TypeCorrect == Spec => []TypeOK
  <1>1. Typing => TypeOK
    BY DEF Typing
  <1> QED BY TypeInit, TypeStep, <1>1, PTL DEF Spec

----------------------------------------------------------------------------
(* What a thread inside a call knows about its own claim *)

\* Nobody holds the port at first.
LEMMA NoneInit == Init => ClaimantHasNone
  BY DEF Init, ClaimantHasNone

\* Who is in a claim, or past the locked part of a release, holds nothing.
LEMMA NoneStep == Typing /\ ClaimantHasNone /\ [Next]_vars => ClaimantHasNone'
  <1> SUFFICES ASSUME Typing, ClaimantHasNone, [Next]_vars
               PROVE  ClaimantHasNone'
    OBVIOUS
  <1> USE DEF Typing, TypeOK, ClaimantHasNone, ClaimPath, ReleasePath, At, Goto
  <1>1. ASSUME NEW d \in Devs, KernelStep(d) PROVE ClaimantHasNone'
    <2> USE <1>1
    <2>1. CASE ClaimCheck(d)
      BY <2>1 DEF ClaimCheck
    <2>2. CASE ClaimLock(d)
      BY <2>2 DEF ClaimLock
    <2>3. CASE BlockCheck(d)
      BY <2>3 DEF BlockCheck
    <2>4. CASE WaitTest(d)
      <3>1. \A e \in Devs : e # d => pc'[e] = pc[e] /\ claim'[e] = claim[e]
        BY <2>4 DEF WaitTest, Return
      <3>2. pc'[d] = "idle" \/ (claim'[d] = claim[d] /\ pc[d] \in ClaimPath)
        BY <2>4 DEF WaitTest, Return
      <3> QED BY <3>1, <3>2
    <2>5. CASE ClaimDone(d)
      BY <2>5 DEF ClaimDone, Return
    <2>6. CASE ReleaseLock(d)
      BY <2>6 DEF ReleaseLock, Released, AfterRelease,
              WaitingAfterRelease
    <2>7. CASE ReleaseHead(d)
      BY <2>7 DEF ReleaseHead
    <2>8. CASE ReleaseWalk(d)
      BY <2>8 DEF ReleaseWalk, Released, AfterRelease,
              WaitingAfterRelease
    <2>9. CASE ReleaseClaim(d)
      BY <2>9 DEF ReleaseClaim
    <2>10. CASE ReleaseGrant(d)
      BY <2>10 DEF ReleaseGrant
    <2>11. CASE ReleaseWake(d)
      BY <2>11 DEF ReleaseWake, AfterRelease, WaitingAfterRelease
    <2>12. CASE UnregisterDevices(d)
      BY <2>12 DEF UnregisterDevices
    <2>13. CASE UnregisterWaitlist(d)
      BY <2>13 DEF UnregisterWaitlist
    <2>14. CASE ClaimGive(d)
      BY <2>14 DEF ClaimGive
    <2>15. CASE ReleaseGive(d)
      BY <2>15 DEF ReleaseGive
    <2> QED BY <2>1, <2>2, <2>3, <2>4, <2>5, <2>6, <2>7, <2>8, <2>9, <2>10,
               <2>11, <2>12, <2>13, <2>14, <2>15 DEF KernelStep
  <1>2. ASSUME NEW d \in Devs, ClientCall(d) PROVE ClaimantHasNone'
    <2>1. CASE RegisterCheck(d)
      BY <2>1 DEF RegisterCheck
    <2>2. CASE RegisterLink(d)
      BY <2>2 DEF RegisterLink
    <2>3. CASE Claim(d)
      BY <2>3 DEF Claim, StartClaim
    <2>4. CASE Release(d)
      BY <2>4 DEF Release
    <2>5. CASE Yield(d)
      BY <2>5 DEF Yield
    <2>6. CASE Unregister(d)
      BY <2>6 DEF Unregister
    <2> QED BY <1>2, <2>1, <2>2, <2>3, <2>4, <2>5, <2>6 DEF ClientCall
  <1>3. ASSUME NEW d \in Devs, Signal(d) PROVE ClaimantHasNone'
    BY <1>3 DEF Signal
  <1>4. CASE UNCHANGED vars
    BY <1>4 DEF vars
  <1> QED BY <1>1, <1>2, <1>3, <1>4 DEF Next

----------------------------------------------------------------------------
(* The hand-over inside cad_lock *)

\* Nobody is inside cad_lock at first.
LEMMA GivingInit == Init => GivingOK
  BY DevsAssumption DEF Init, GivingOK, Giving

\* Nobody starts a hand-over while another one is under way, and the thread
\* that is inside cad_lock keeps its device.
LEMMA GivingStep == Typing /\ GivingOK /\ [Next]_vars => GivingOK'
  <1> SUFFICES ASSUME Typing, GivingOK, [Next]_vars PROVE GivingOK'
    OBVIOUS
  <1> USE DEF Typing, TypeOK, GivingOK, Giving, At, Goto
  \* A step that leaves the port and every place inside cad_lock alone.
  <1>1. ASSUME UNCHANGED port,
               \A x \in Devs : /\ pc'[x] \in Giving => pc'[x] = pc[x]
                               /\ pc[x] \in Giving => walk'[x] = walk[x]
        PROVE  GivingOK'
    BY <1>1 DEF port
  \* A step that keeps cad_lock free.
  <1>2. ASSUME giving = NoDev, UNCHANGED <<giving, stage>>,
               \A x \in Devs : pc'[x] \in Giving => pc[x] \in Giving
        PROVE  GivingOK'
    <2>1. \A x \in Devs : pc[x] # "claim_give"
      BY <1>2, DevsAssumption
    <2>2. \A x \in Devs : pc[x] = "release_give" => walk[x] = NoDev
      BY <1>2
    <2>3. \A x \in Devs : pc[x] # "release_give"
      BY <2>2, DevsAssumption DEF WalkOK
    <2> QED BY <1>2, <2>1, <2>3
  <1>3. ASSUME NEW d \in Devs, KernelStep(d) PROVE GivingOK'
    <2>1. CASE ClaimLock(d)
      <3>1. CASE GiveStart(d) /\ pc' = [pc EXCEPT ![d] = "claim_give"]
        <4>1. giving = NoDev /\ giving' = d /\ stage' = "clear" /\ cad' = NoDev
          BY <2>1, <3>1 DEF ClaimLock, GiveStart
        <4>2. \A x \in Devs : pc[x] \notin Giving
          BY <4>1, DevsAssumption DEF WalkOK
        <4> QED BY <3>1, <4>1, <4>2, DevsAssumption
      <3>2. CASE Grant(d) \/ Block(d)
        BY <2>1, <3>2, <1>2 DEF ClaimLock, Grant, GiveStart, Block, port
      <3> QED BY <2>1, <3>1, <3>2 DEF ClaimLock
    <2>2. CASE ReleaseGrant(d)
      <3>1. walk[d] \in Devs /\ walk' = walk /\ giving = NoDev
        BY <2>2 DEF ReleaseGrant, WalkOK
      <3>2. CASE GiveStart(walk[d]) /\ pc' = [pc EXCEPT ![d] = "release_give"]
        <4>1. giving' = walk[d] /\ stage' = "clear" /\ cad' = NoDev
          BY <3>2 DEF GiveStart
        <4>2. \A x \in Devs : pc[x] \notin Giving
          BY <3>1, DevsAssumption DEF WalkOK
        <4> QED BY <3>1, <3>2, <4>1, <4>2, DevsAssumption
      <3>3. CASE /\ Grant(walk[d]) \/ Block(walk[d])
                 /\ pc' = [pc EXCEPT ![d] = "release_wake"]
        <4>1. UNCHANGED <<giving, stage>>
          BY <3>3 DEF Grant, Block, port
        <4> QED BY <3>1, <3>3, <4>1, <1>2
      <3> QED BY <2>2, <3>2, <3>3 DEF ReleaseGrant
    <2>3. ASSUME NEW e \in Devs, giving = e, pc[d] \in Giving,
                 UNCHANGED walk,
                 \/ GiveWrite(e) /\ UNCHANGED pc
                 \/ /\ GiveOwn(e)
                    /\ \A x \in Devs : x # d => pc'[x] = pc[x]
                    /\ pc'[d] \in {"claim_done", "release_wake"}
          PROVE  GivingOK'
      <3>1. CASE GiveWrite(e) /\ UNCHANGED pc
        BY <2>3, <3>1 DEF GiveWrite, GiveClear, GiveUnlink, GiveLinks
      <3>2. CASE GiveOwn(e) /\ ~UNCHANGED pc
        <4>1. \A x \in Devs : pc'[x] \notin Giving
          BY <2>3, <3>2 DEF GiveWrite
        <4>2. giving' = NoDev /\ stage' = "free"
          BY <3>2 DEF GiveOwn
        <4> QED BY <4>1, <4>2
      <3> QED BY <2>3, <3>1, <3>2
    <2>4. CASE ClaimGive(d)
      BY <2>4, <2>3 DEF ClaimGive
    <2>5. CASE ReleaseGive(d)
      BY <2>5, <2>3 DEF ReleaseGive, WalkOK
    <2>6. CASE ReleaseLock(d)
      <3>1. giving = NoDev /\ UNCHANGED <<giving, stage>>
        BY <2>6 DEF ReleaseLock
      <3>2. \A x \in Devs : pc'[x] \in Giving => pc[x] \in Giving
        BY <2>6 DEF ReleaseLock, Released, AfterRelease
      <3> QED BY <3>1, <3>2, <1>2
    <2>7. CASE WaitTest(d)
      BY <2>7, <1>1 DEF WaitTest, Return
    <2>8. CASE ReleaseWalk(d)
      <3>1. UNCHANGED port /\ pc[d] \notin Giving
        BY <2>8 DEF ReleaseWalk
      <3>2. \A x \in Devs : x # d => pc'[x] = pc[x] /\ walk'[x] = walk[x]
        BY <2>8 DEF ReleaseWalk, Released
      <3>3. pc'[d] \notin Giving
        BY <2>8 DEF ReleaseWalk, Released, AfterRelease
      <3> QED BY <3>1, <3>2, <3>3, <1>1
    <2>9. CASE ReleaseWake(d)
      <3>1. UNCHANGED port /\ pc[d] \notin Giving
        BY <2>9 DEF ReleaseWake
      <3>2. \A x \in Devs : x # d => walk'[x] = walk[x]
        BY <2>9 DEF ReleaseWake
      <3>3. \A x \in Devs : pc'[x] \in Giving => pc'[x] = pc[x]
        BY <2>9 DEF ReleaseWake, AfterRelease
      <3> QED BY <3>1, <3>2, <3>3, <1>1
    <2>10. CASE \/ ClaimCheck(d) \/ BlockCheck(d) \/ ClaimDone(d) \/ ReleaseHead(d)
                \/ ReleaseClaim(d) \/ UnregisterDevices(d) \/ UnregisterWaitlist(d)
      BY <2>10, <1>1 DEF ClaimCheck, BlockCheck, ClaimDone, Return, ReleaseHead,
         ReleaseClaim, UnregisterDevices, UnregisterWaitlist
    <2> QED BY <1>3, <2>1, <2>2, <2>4, <2>5, <2>6, <2>7, <2>8, <2>9, <2>10
            DEF KernelStep
  <1>4. ASSUME NEW d \in Devs, ClientCall(d) PROVE GivingOK'
    BY <1>4, <1>1 DEF ClientCall, RegisterCheck, RegisterLink, Claim, StartClaim,
       Release, Yield, Unregister
  <1>5. ASSUME NEW d \in Devs, Signal(d) PROVE GivingOK'
    BY <1>5, <1>1 DEF Signal
  <1>6. CASE UNCHANGED vars
    BY <1>6, <1>1 DEF vars
  <1> QED BY <1>3, <1>4, <1>5, <1>6 DEF Next

----------------------------------------------------------------------------
(* Ownership *)

Owned == ExitsAsPromised /\ HeldIsOwner

\* Nobody owns the port at first.
LEMMA OwnedInit == Init => Owned
  BY DEF Init, Owned, ExitsAsPromised, HeldIsOwner, Claiming

\* Every step keeps owners and holders together.
LEMMA OwnedStep ==
    Typing /\ ClaimantHasNone /\ GivingOK /\ Owned /\ [Next]_vars => Owned'
  <1> SUFFICES ASSUME Typing, ClaimantHasNone, GivingOK, Owned, [Next]_vars
               PROVE  Owned'
    OBVIOUS
  <1> USE DEF Typing, TypeOK, Owned, ExitsAsPromised, HeldIsOwner, Claiming, At,
              Goto
  \* The locked body empties the bits only of the device it gives the port to,
  \* and takes it from nobody.
  <1>1. ASSUME NEW e \in Devs, giving = NoDev,
               Grant(e) \/ GiveStart(e) \/ Block(e), NEW x \in Devs
        PROVE  /\ waiting'[x] = {} => waiting[x] = {} \/ Promised' = x
               /\ Promised = x => Promised' = x
               /\ Grant(e) \/ GiveStart(e) => Promised' = e
    <2>1. CASE Grant(e)
      BY <1>1, <2>1, DevsAssumption DEF Grant, Promised
    <2>2. CASE GiveStart(e)
      BY <1>1, <2>2, DevsAssumption DEF GiveStart, Promised
    <2>3. CASE Block(e) /\ ~Grant(e) /\ ~GiveStart(e)
      BY <1>1, <2>3, DevsAssumption DEF Block, port, Promised
    <2> QED BY <1>1, <2>1, <2>2, <2>3
  \* The writes of a hand-over leave the port with the device they are for.
  <1>6. ASSUME NEW e \in Devs, giving = e, GiveWrite(e) \/ GiveOwn(e)
        PROVE  /\ Promised = e /\ Promised' = e
               /\ \A x \in Devs : waiting'[x] = {} => waiting[x] = {} \/ x = e
    <2>1. e # NoDev
      BY DevsAssumption
    <2>2. CASE GiveWrite(e)
      BY <1>6, <2>1, <2>2 DEF GiveWrite, GiveClear, GiveUnlink, GiveLinks, Promised
    <2>3. CASE GiveOwn(e)
      BY <1>6, <2>1, <2>3 DEF GiveOwn, Promised
    <2> QED BY <1>6, <2>2, <2>3
  \* Only the locked sections write who the port belongs to.
  <1>7. ASSUME UNCHANGED port PROVE Promised' = Promised
    BY <1>7 DEF port, Promised
  <1>2. ASSUME NEW d \in Devs, KernelStep(d) PROVE Owned'
    <2>1. CASE ClaimCheck(d)
      <3>1. UNCHANGED <<waiting, claim>> /\ Promised' = Promised
        BY <2>1, <1>7 DEF ClaimCheck
      \* An owner is not waiting for the hand-over of somebody else.
      <3>2. cad = d => Promised = d
        BY DevsAssumption DEF Promised, GivingOK
      <3> QED BY <2>1, <3>1, <3>2 DEF ClaimCheck
    <2>2. CASE ClaimLock(d)
      <3>1. UNCHANGED claim /\ giving = NoDev /\ pc[d] = "claim_lock"
        BY <2>2 DEF ClaimLock
      <3>2. \A x \in Devs : x # d => pc'[x] = pc[x]
        BY <2>2 DEF ClaimLock
      <3>3. /\ pc'[d] \in {"claim_done", "claim_give", "block_check"}
            /\ pc'[d] = "claim_done" => Grant(d)
            /\ Grant(d) \/ GiveStart(d) \/ Block(d)
        BY <2>2 DEF ClaimLock
      <3>4. \A x \in Devs : /\ waiting'[x] = {} => waiting[x] = {} \/ Promised' = x
                            /\ Promised = x => Promised' = x
        BY <3>1, <3>3, <1>1
      <3>5. pc'[d] = "claim_done" => Promised' = d
        BY <3>1, <3>3, <1>1
      <3> QED BY <3>1, <3>2, <3>3, <3>4, <3>5
    <2>3. CASE BlockCheck(d)
      <3>1. UNCHANGED <<waiting, claim>> /\ Promised' = Promised
        BY <2>3, <1>7 DEF BlockCheck
      <3>2. \A x \in Devs : x # d => pc'[x] = pc[x]
        BY <2>3 DEF BlockCheck
      <3>3. waiting[d] = {} => Promised = d
        BY <2>3 DEF BlockCheck
      <3>4. pc'[d] = "claim_done" => waiting[d] = {}
        BY <2>3 DEF BlockCheck
      <3>5. ExitsAsPromised'
        BY <3>1, <3>2, <3>3, <3>4
      <3> QED BY <3>1, <3>5
    <2>4. CASE WaitTest(d)
      <3>1. Promised' = Promised /\ waiting' = waiting
        BY <2>4, <1>7 DEF WaitTest
      <3>2. \A x \in Devs : x # d => pc'[x] = pc[x] /\ claim'[x] = claim[x]
        BY <2>4 DEF WaitTest, Return
      <3>3. pc'[d] = "claim_done" => waiting[d] = {} /\ pc[d] \in Claiming
        BY <2>4 DEF WaitTest, Return
      <3>4. pc'[d] \in Claiming => pc[d] \in Claiming
        BY <2>4 DEF WaitTest, Return
      <3>5. claim'[d] = "held" => claim[d] = "held"
        BY <2>4 DEF WaitTest, Return, AfterInterrupt
      <3>6. ExitsAsPromised'
        BY <3>1, <3>2, <3>3, <3>4
      <3>7. HeldIsOwner'
        BY <3>1, <3>2, <3>5
      <3> QED BY <3>6, <3>7
    <2>5. CASE ClaimDone(d)
      BY <2>5, <1>7 DEF ClaimDone, Return
    <2>6. CASE ReleaseLock(d)
      <3>1. \A x \in Devs : x # d => /\ pc'[x] = pc[x]
                                     /\ waiting'[x] = waiting[x]
                                     /\ claim'[x] = claim[x]
        BY <2>6 DEF ReleaseLock, Released, AfterRelease, WaitingAfterRelease
      <3>2. claim'[d] = "none"
        BY <2>6 DEF ReleaseLock
      <3>3. pc'[d] # "claim_done" /\ (pc'[d] \in Claiming => waiting'[d] = {1})
        BY <2>6 DEF ReleaseLock, Released, AfterRelease, WaitingAfterRelease
      <3>4. \A x \in Devs : x # d /\ Promised = x => Promised' = x
        BY <2>6, DevsAssumption DEF ReleaseLock, Promised
      <3>5. HeldIsOwner'
        BY <3>1, <3>2, <3>4
      <3>6. ExitsAsPromised'
        BY <3>1, <3>3, <3>4
      <3> QED BY <3>5, <3>6
    <2>7. CASE ReleaseHead(d)
      BY <2>7, <1>7 DEF ReleaseHead
    <2>8. CASE ReleaseWalk(d)
      <3>1. UNCHANGED claim /\ Promised' = Promised
        BY <2>8, <1>7 DEF ReleaseWalk
      <3>2. \A x \in Devs : x # d => pc'[x] = pc[x] /\ waiting'[x] = waiting[x]
        BY <2>8 DEF ReleaseWalk, Released, AfterRelease,
              WaitingAfterRelease
      <3>3. pc'[d] # "claim_done" /\ (pc'[d] \in Claiming => waiting'[d] = {1})
        BY <2>8 DEF ReleaseWalk, Released, AfterRelease,
              WaitingAfterRelease
      <3> QED BY <3>1, <3>2, <3>3
    <2>9. CASE ReleaseClaim(d)
      BY <2>9, <1>7 DEF ReleaseClaim
    <2>10. CASE ReleaseGrant(d)
      <3>1. walk[d] \in Devs
        BY <2>10 DEF ReleaseGrant, WalkOK
      <3>2. /\ Grant(walk[d]) \/ GiveStart(walk[d]) \/ Block(walk[d])
            /\ giving = NoDev
        BY <2>10 DEF ReleaseGrant
      <3>3. /\ UNCHANGED claim /\ pc'[d] \in {"release_give", "release_wake"}
            /\ \A x \in Devs : x # d => pc'[x] = pc[x]
        BY <2>10 DEF ReleaseGrant
      <3> QED BY <3>1, <3>2, <3>3, <1>1
    <2>11. CASE ReleaseWake(d)
      <3>1. UNCHANGED claim /\ Promised' = Promised
        BY <2>11, <1>7 DEF ReleaseWake, AfterRelease, WaitingAfterRelease
      <3>2. \A x \in Devs : x # d => waiting'[x] = waiting[x]
        BY <2>11 DEF ReleaseWake, AfterRelease, WaitingAfterRelease
      <3>3. \A x \in Devs : x # d =>
               pc'[x] = pc[x] \/ (pc[x] = "asleep" /\ pc'[x] = "woken")
        BY <2>11 DEF ReleaseWake
      <3>4. pc'[d] # "claim_done" /\ (pc'[d] \in Claiming => waiting'[d] = {1})
        BY <2>11 DEF ReleaseWake, AfterRelease, WaitingAfterRelease
      <3> QED BY <3>1, <3>2, <3>3, <3>4
    <2>12. CASE UnregisterDevices(d)
      BY <2>12, <1>7 DEF UnregisterDevices
    <2>13. CASE UnregisterWaitlist(d)
      BY <2>13, <1>7 DEF UnregisterWaitlist
    <2>14. CASE ClaimGive(d)
      <3>1. /\ giving = d
            /\ GiveWrite(d) \/ GiveOwn(d)
            /\ UNCHANGED claim /\ pc[d] = "claim_give"
            /\ \A x \in Devs : x # d => pc'[x] = pc[x]
        BY <2>14 DEF ClaimGive, GivingOK
      <3>2. Promised = d /\ Promised' = d
        BY <3>1, <1>6
      <3>3. \A x \in Devs : waiting'[x] = {} => waiting[x] = {} \/ x = d
        BY <3>1, <1>6
      <3> QED BY <3>1, <3>2, <3>3
    <2>15. CASE ReleaseGive(d)
      <3>1. /\ walk[d] \in Devs /\ giving = walk[d]
            /\ GiveWrite(walk[d]) \/ GiveOwn(walk[d])
            /\ pc'[d] \in {"release_give", "release_wake"}
            /\ \A x \in Devs : x # d => pc'[x] = pc[x]
        BY <2>15 DEF ReleaseGive, WalkOK, GivingOK
      <3>2. Promised = walk[d] /\ Promised' = walk[d] /\ UNCHANGED claim
        BY <3>1, <1>6, <2>15 DEF ReleaseGive
      <3>3. \A x \in Devs : waiting'[x] = {} => waiting[x] = {} \/ x = walk[d]
        BY <3>1, <1>6
      <3> QED BY <3>1, <3>2, <3>3
    <2> QED BY <1>2, <2>1, <2>2, <2>3, <2>4, <2>5, <2>6, <2>7, <2>8, <2>9,
               <2>10, <2>11, <2>12, <2>13, <2>14, <2>15 DEF KernelStep
  <1>3. ASSUME NEW d \in Devs, ClientCall(d) PROVE Owned'
    <2>1. CASE RegisterCheck(d)
      BY <2>1, <1>7 DEF RegisterCheck
    <2>2. CASE RegisterLink(d)
      <3>1. UNCHANGED claim /\ Promised' = Promised
        BY <2>2, <1>7 DEF RegisterLink
      <3>2. pc'[d] \in {"off", "idle"}
        BY <2>2 DEF RegisterLink
      <3>3. \A x \in Devs : x # d => pc'[x] = pc[x] /\ waiting'[x] = waiting[x]
        BY <2>2 DEF RegisterLink
      <3> QED BY <3>1, <3>2, <3>3
    <2>3. CASE Claim(d)
      BY <2>3, <1>7 DEF Claim, StartClaim
    <2>4. CASE Release(d)
      BY <2>4, <1>7 DEF Release
    <2>5. CASE Yield(d)
      BY <2>5, <1>7 DEF Yield
    <2>6. CASE Unregister(d)
      BY <2>6, <1>7 DEF Unregister
    <2> QED BY <1>3, <2>1, <2>2, <2>3, <2>4, <2>5, <2>6 DEF ClientCall
  <1>4. ASSUME NEW d \in Devs, Signal(d) PROVE Owned'
    BY <1>4, <1>7 DEF Signal
  <1>5. CASE UNCHANGED vars
    BY <1>5, <1>7 DEF vars
  <1> QED BY <1>2, <1>3, <1>4, <1>5 DEF Next

\* The inductive invariant holds in every reachable state.
THEOREM InvariantHolds == Spec => []IInv
  <1> DEFINE I == Typing /\ ClaimantHasNone /\ GivingOK /\ Owned
  <1>1. Init => I
    BY TypeInit, NoneInit, GivingInit, OwnedInit
  <1>2. I /\ [Next]_vars => I'
    BY TypeStep, NoneStep, GivingStep, OwnedStep
  <1>3. I => IInv
    BY DEF Typing, Owned, IInv
  <1> QED BY <1>1, <1>2, <1>3, PTL DEF Spec

\* The port of a client whose claim or yield succeeded is its own until it
\* releases it: cad names it, or the hand-over to it is under way inside
\* cad_lock (sunix_parport_claim_or_block, sunix_parport_release).
THEOREM OwnershipIsKept == Spec => []HeldIsOwner
  <1>1. IInv => HeldIsOwner
    BY DEF IInv
  <1> QED BY InvariantHolds, <1>1, PTL

\* On one CPU a claim that reports success leaves as the owner, so the warning
\* at the end of sunix_parport_claim_or_block is not printed; signals do not
\* matter.  With more CPUs it is false.
THEOREM ClaimExitsAsOwner ==
    ASSUME ~Preemptive
    PROVE  Spec => []ExitsAsOwner
  <1> DEFINE Unlocked == giving = NoDev
  <1>1. Init => Unlocked
    BY DEF Init
  <1>2. Unlocked /\ [Next]_vars => Unlocked'
    BY DEF Next, KernelStep, ClientCall, vars, port, ClaimCheck, ClaimLock,
       ClaimGive, BlockCheck, WaitTest, ClaimDone, ReleaseLock, ReleaseHead,
       ReleaseWalk, ReleaseClaim, ReleaseGrant, ReleaseGive, ReleaseWake,
       UnregisterDevices, UnregisterWaitlist, RegisterCheck, RegisterLink,
       Claim, Release, Yield, Unregister, Signal, Grant, GiveStart, Block
  <1>3. Unlocked /\ IInv => ExitsAsOwner
    BY DEF IInv, ExitsAsPromised, Promised, ExitsAsOwner
  <1> QED BY <1>1, <1>2, <1>3, InvariantHolds, PTL DEF Spec

----------------------------------------------------------------------------
(* The port is a lock *)

\* Every step of the arbitration is a step of PortLock or leaves it alone.
LEMMA LockStep == IInv /\ [Next]_vars => [Lock!Next]_Lock!vars
  <1> SUFFICES ASSUME IInv, [Next]_vars PROVE [Lock!Next]_Lock!vars
    OBVIOUS
  <1> USE DEF IInv, TypeOK
  \* The decision whom the port is given to acquires the lock, ...
  <1>1. ASSUME NEW e \in Devs, giving = NoDev,
               Grant(e) \/ GiveStart(e) \/ Block(e), UNCHANGED claim
        PROVE  [Lock!Next]_Lock!vars
    <2>1. Holders' = Holders
      BY <1>1 DEF Holders
    <2>2. CASE Grant(e)
      <3>1. Promised = NoDev /\ Promised' = e
        BY <1>1, <2>2 DEF Grant, Promised
      <3> QED BY <2>1, <3>1 DEF Lock!Next, Lock!Acquire
    <2>3. CASE GiveStart(e)
      <3>1. Promised = NoDev /\ Promised' = e
        BY <1>1, <2>3, DevsAssumption DEF GiveStart, Promised
      <3> QED BY <2>1, <3>1 DEF Lock!Next, Lock!Acquire
    <2>4. CASE Block(e)
      BY <2>1, <2>4 DEF Block, port, Promised, Lock!vars
    <2> QED BY <1>1, <2>2, <2>3, <2>4
  <1>2. ASSUME UNCHANGED <<port, claim>> PROVE UNCHANGED Lock!vars
    BY <1>2 DEF Lock!vars, Holders, port, Promised
  \* ... and the writes that carry it out do not show.
  <1>6. ASSUME NEW e \in Devs, giving = e, GiveWrite(e) \/ GiveOwn(e),
               UNCHANGED claim
        PROVE  UNCHANGED Lock!vars
    <2>1. e # NoDev
      BY DevsAssumption
    <2>2. CASE GiveWrite(e)
      BY <1>6, <2>2 DEF GiveWrite, GiveClear, GiveUnlink, GiveLinks, Promised,
                        Lock!vars, Holders
    <2>3. CASE GiveOwn(e)
      BY <1>6, <2>1, <2>3 DEF GiveOwn, Promised, Lock!vars, Holders
    <2> QED BY <1>6, <2>2, <2>3
  <1>3. ASSUME NEW d \in Devs, KernelStep(d) PROVE [Lock!Next]_Lock!vars
    <2>1. CASE ClaimLock(d)
      BY <2>1, <1>1 DEF ClaimLock
    <2>2. CASE WaitTest(d)
      <3>1. UNCHANGED port
        BY <2>2 DEF WaitTest
      <3>2. claim[d] # "held"
        BY <2>2 DEF WaitTest, At, ClaimantHasNone, ClaimPath
      <3>3. claim'[d] # "held"
        BY <2>2, <3>2 DEF WaitTest, Return, AfterInterrupt
      <3>4. \A x \in Devs : x # d => claim'[x] = claim[x]
        BY <2>2 DEF WaitTest, Return
      <3>5. Holders' = Holders
        BY <3>2, <3>3, <3>4 DEF Holders
      <3> QED BY <3>1, <3>5 DEF Lock!vars, port, Promised
    <2>3. CASE ClaimDone(d)
      <3>1. Promised = d /\ Promised' = Promised
        BY <2>3 DEF ClaimDone, At, ExitsAsPromised, port, Promised
      <3>2. claim'[d] = "held" /\ \A x \in Devs : x # d => claim'[x] = claim[x]
        BY <2>3 DEF ClaimDone, Return
      <3>3. Holders' = Holders \cup {d}
        BY <3>2 DEF Holders
      <3> QED BY <3>1, <3>3 DEF Lock!Next, Lock!Confirm
    <2>4. CASE ReleaseLock(d)
      <3>1. claim'[d] = "none" /\ \A x \in Devs : x # d => claim'[x] = claim[x]
        BY <2>4 DEF ReleaseLock
      <3>2. Holders' = Holders \ {d}
        BY <3>1 DEF Holders
      <3>3. Promised = cad /\ Promised' = cad'
        BY <2>4 DEF ReleaseLock, Promised
      <3>4. CASE cad = d
        <4>1. cad' = NoDev
          BY <2>4, <3>4 DEF ReleaseLock
        <4> QED BY <3>2, <3>3, <3>4, <4>1 DEF Lock!Next, Lock!Drop
      <3>5. CASE cad # d
        <4>1. d \notin Holders
          BY <3>3, <3>5 DEF HeldIsOwner, Holders
        <4>2. cad' = cad
          BY <2>4, <3>5 DEF ReleaseLock
        <4> QED BY <3>2, <3>3, <4>1, <4>2 DEF Lock!vars
      <3> QED BY <3>4, <3>5
    <2>5. CASE ReleaseGrant(d)
      <3>1. walk[d] \in Devs
        BY <2>5 DEF ReleaseGrant, At, WalkOK
      <3> QED BY <2>5, <3>1, <1>1 DEF ReleaseGrant
    <2>6. CASE ClaimGive(d)
      BY <2>6, <1>6 DEF ClaimGive, At, GivingOK
    <2>7. CASE ReleaseGive(d)
      <3>1. walk[d] \in Devs /\ giving = walk[d]
        BY <2>7 DEF ReleaseGive, At, WalkOK, GivingOK
      <3> QED BY <2>7, <3>1, <1>6 DEF ReleaseGive
    <2> QED BY <1>3, <1>2, <2>1, <2>2, <2>3, <2>4, <2>5, <2>6, <2>7
            DEF KernelStep, ClaimCheck, BlockCheck, ReleaseHead, ReleaseWalk,
               ReleaseClaim, ReleaseWake, UnregisterDevices, UnregisterWaitlist
  <1>4. ASSUME NEW d \in Devs, ClientCall(d) \/ Signal(d)
        PROVE  UNCHANGED Lock!vars
    BY <1>4, <1>2 DEF ClientCall, RegisterCheck, RegisterLink, Claim, Release,
                      Yield, Unregister, Signal
  <1>5. CASE UNCHANGED vars
    BY <1>5, <1>2 DEF vars
  <1> QED BY <1>3, <1>4, <1>5 DEF Next

\* The arbitration of snx_share.c implements PortLock, acquired when a thread
\* inside cad_lock decides whom it gives the port to: the port is given to one
\* device at a time, and a client that was told it has it keeps it until it
\* drops the port itself.
THEOREM PortIsALock == Spec => ImplementsLock
  <1>1. Init => Lock!Init
    BY DEF Init, Lock!Init, Holders, Promised
  <1>2. IInv /\ [Next]_vars => [Lock!Next]_Lock!vars
    BY LockStep
  <1> QED BY <1>1, <1>2, InvariantHolds, PTL DEF Spec, ImplementsLock, Lock!Spec

----------------------------------------------------------------------------
(* Exclusive registration *)

\* A device is on the list exactly between the two locked sections.
LEMMA RegisteredStep ==
    Typing /\ RegisteredOK /\ [Next]_vars => RegisteredOK'
  <1> SUFFICES ASSUME Typing, RegisteredOK, [Next]_vars PROVE RegisteredOK'
    OBVIOUS
  <1> USE DEF Typing, TypeOK, RegisteredOK, At, Goto, registry
  <1>1. ASSUME NEW d \in Devs, KernelStep(d) PROVE RegisteredOK'
    <2>1. CASE ClaimCheck(d)
      BY <2>1 DEF ClaimCheck
    <2>2. CASE ClaimLock(d)
      BY <2>2 DEF ClaimLock
    <2>3. CASE BlockCheck(d)
      BY <2>3 DEF BlockCheck
    <2>4. CASE WaitTest(d)
      <3>1. UNCHANGED registered
        BY <2>4 DEF WaitTest
      <3>2. \A x \in Devs : x # d => pc'[x] = pc[x]
        BY <2>4 DEF WaitTest, Return
      <3>3. /\ pc[d] \in {"wait_test", "woken"}
            /\ pc'[d] \in {"idle", "claim_done", "asleep"}
        BY <2>4 DEF WaitTest, Return
      <3> QED BY <3>1, <3>2, <3>3
    <2>5. CASE ClaimDone(d)
      BY <2>5 DEF ClaimDone, Return
    <2>6. CASE ReleaseLock(d)
      BY <2>6 DEF ReleaseLock, Released, AfterRelease
    <2>7. CASE ReleaseHead(d)
      BY <2>7 DEF ReleaseHead
    <2>8. CASE ReleaseWalk(d)
      BY <2>8 DEF ReleaseWalk, Released, AfterRelease
    <2>9. CASE ReleaseClaim(d)
      BY <2>9 DEF ReleaseClaim
    <2>10. CASE ReleaseGrant(d)
      BY <2>10 DEF ReleaseGrant
    <2>11. CASE ReleaseWake(d)
      BY <2>11 DEF ReleaseWake, AfterRelease
    <2>12. CASE UnregisterDevices(d)
      BY <2>12 DEF UnregisterDevices
    <2>13. CASE UnregisterWaitlist(d)
      BY <2>13 DEF UnregisterWaitlist
    <2>14. CASE ClaimGive(d)
      BY <2>14 DEF ClaimGive
    <2>15. CASE ReleaseGive(d)
      BY <2>15 DEF ReleaseGive
    <2> QED BY <1>1, <2>1, <2>2, <2>3, <2>4, <2>5, <2>6, <2>7, <2>8, <2>9, <2>10,
               <2>11, <2>12, <2>13, <2>14, <2>15 DEF KernelStep
  <1>2. ASSUME NEW d \in Devs, ClientCall(d) PROVE RegisteredOK'
    <2>1. CASE RegisterCheck(d)
      BY <2>1 DEF RegisterCheck
    <2>2. CASE RegisterLink(d)
      <3>1. pc[d] = "register" /\ \A x \in Devs : x # d => pc'[x] = pc[x]
        BY <2>2 DEF RegisterLink
      <3>2. \/ pc'[d] = "off" /\ registered' = registered
            \/ pc'[d] = "idle" /\ registered' = registered \cup {d}
        BY <2>2 DEF RegisterLink
      <3> QED BY <3>1, <3>2
    <2>3. CASE Claim(d)
      BY <2>3 DEF Claim, StartClaim
    <2>4. CASE Release(d)
      BY <2>4 DEF Release
    <2>5. CASE Yield(d)
      BY <2>5 DEF Yield
    <2>6. CASE Unregister(d)
      BY <2>6 DEF Unregister
    <2> QED BY <1>2, <2>1, <2>2, <2>3, <2>4, <2>5, <2>6 DEF ClientCall
  <1>3. ASSUME NEW d \in Devs, Signal(d) PROVE RegisteredOK'
    BY <1>3 DEF Signal
  <1>4. CASE UNCHANGED vars
    BY <1>4 DEF vars
  <1> QED BY <1>1, <1>2, <1>3, <1>4 DEF Next

\* Every step keeps the flag, and at most one exclusive device on the list.
LEMMA ExclusiveStep ==
    TypeOK /\ RegisteredOK /\ ExclusiveFlag /\ [Next]_vars => ExclusiveFlag'
  <1> SUFFICES ASSUME TypeOK, RegisteredOK, ExclusiveFlag, [Next]_vars
               PROVE  ExclusiveFlag'
    OBVIOUS
  <1>1. ASSUME UNCHANGED registry PROVE ExclusiveFlag'
    BY <1>1 DEF registry, ExclusiveFlag
  <1>2. ASSUME NEW d \in Devs, RegisterLink(d) PROVE ExclusiveFlag'
    <2>1. CASE UNCHANGED registry
      BY <2>1, <1>1
    <2>2. CASE /\ ~(d \in exclusive /\ registered # {})
               /\ registered' = registered \cup {d}
               /\ excl' = (excl \/ d \in exclusive)
               /\ exclusive' = exclusive
      <3>1. CASE d \in exclusive
        <4>1. registered' = {d} /\ excl' /\ exclusive' = exclusive
          BY <2>2, <3>1
        <4> QED BY <3>1, <4>1 DEF ExclusiveFlag
      <3>2. CASE d \notin exclusive
        <4>1. registered' \cap exclusive' = registered \cap exclusive
          BY <2>2, <3>2
        <4>2. excl' <=> excl
          BY <2>2, <3>2
        <4> QED BY <4>1, <4>2 DEF ExclusiveFlag
      <3> QED BY <3>1, <3>2
    <2> QED BY <1>2, <2>1, <2>2 DEF RegisterLink, registry
  <1>3. ASSUME NEW d \in Devs, UnregisterDevices(d) PROVE ExclusiveFlag'
    <2>1. /\ registered' = registered \ {d} /\ exclusive' = exclusive
          /\ excl' = (excl /\ d \notin exclusive)
      BY <1>3 DEF UnregisterDevices
    <2>2. CASE d \in exclusive
      \* An exclusive device takes its own flag with it; had another device
      \* of the kind been registered, the flag would be lost to it.
      <3>1. d \in registered
        BY <1>3 DEF RegisteredOK, UnregisterDevices, At
      <3> QED BY <2>1, <2>2, <3>1 DEF ExclusiveFlag
    <2>3. CASE d \notin exclusive
      BY <2>1, <2>3 DEF ExclusiveFlag
    <2> QED BY <2>2, <2>3
  <1>4. ASSUME NEW d \in Devs, RegisterCheck(d) PROVE ExclusiveFlag'
    \* Only a device that is not on the list makes up its mind.
    <2>1. d \notin registered
      BY <1>4 DEF RegisteredOK, RegisterCheck, At
    <2>2. registered' \cap exclusive' = registered \cap exclusive
      BY <1>4, <2>1 DEF RegisterCheck
    <2> QED BY <1>4, <2>2 DEF ExclusiveFlag, RegisterCheck
  <1>5. CASE UNCHANGED vars
    BY <1>5, <1>1 DEF vars
  <1> QED BY <1>1, <1>2, <1>3, <1>4, <1>5 DEF Next, KernelStep, ClientCall,
             ClaimCheck, ClaimLock, BlockCheck, WaitTest, ClaimDone,
             ReleaseLock, ReleaseHead, ReleaseWalk, ReleaseClaim, ReleaseGrant,
             ReleaseWake, UnregisterWaitlist, Claim, Release, ClaimGive,
             ReleaseGive,
             Yield, Unregister, Signal

\* No two exclusive devices are ever registered on a port, and the port's
\* flag says whether one is (sunix_parport_register_device).
THEOREM OneExclusiveDevice == Spec => []ExclusiveFlag
  <1>1. Init => ExclusiveFlag /\ RegisteredOK
    BY DEF Init, ExclusiveFlag, RegisteredOK
  <1>2. Typing => TypeOK
    BY DEF Typing
  <1> QED BY <1>1, <1>2, TypeInit, TypeStep, RegisteredStep, ExclusiveStep, PTL
          DEF Spec

=============================================================================
