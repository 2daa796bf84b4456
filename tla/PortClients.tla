----------------------------- MODULE PortClients -----------------------------
(***************************************************************************)
(* The clients of one parallel port: files of snx_ppdev.c and the printer  *)
(* of snx_lp.c, with the compatibility write of snx_ieee1284_ops.c that    *)
(* both run, on the arbitration of snx_share.c.                            *)
(*                                                                         *)
(* The arbitration is an owner and a queue of waiters, served in order;    *)
(* the two unlocked points of release (before the registers are saved and  *)
(* before the port is handed on) are steps of their own.  With more than   *)
(* one CPU so are the writes by which a release hands the port to a        *)
(* waiter, which goes on as soon as the first of them is made.  What stale *)
(* pointers into the waitlist do (ParportShare) is not repeated here.      *)
(* What is kept of the port itself is the direction bit of its control     *)
(* register (the bit that decides which side drives the data lines) and    *)
(* its IEEE 1284 mode.  Each client is one thread.  The port is polled: no *)
(* interrupt line is ever given to it.                                     *)
(***************************************************************************)
EXTENDS Naturals, FiniteSets, Sequences, SequencesExt

CONSTANTS Files,  \* open files of snx_ppdev.c on the port's minor
          Lp,     \* the device of snx_lp.c
          NoDev,  \* the NULL pointer
          Settings \* what happens, as sets of the following

\* Files change their mode, files turn the port round, files write, lp takes
\* part, signals arrive, there is more than one CPU.
Happenings == {"mode", "direction", "write", "print", "signal", "smp"}

ASSUME ClientsAssumption == /\ Lp \notin Files /\ NoDev \notin Files \cup {Lp}
                            /\ Settings \subseteq SUBSET Happenings

VARIABLES
    pc,         \* where each client is
    job,        \* the device its claim or release is about, whether a claim
                \* follows the release, and where it goes on afterwards
    owner,      \* port->cad
    coming,     \* the waiter that a release inside cad_lock is handing the
                \* port to; NoDev: the lock is free between two steps
    queue,      \* the waitlist
    dir,        \* direction bit of priv->ctr: "forward" or "reverse"
    saved,      \* dev->state of each device
    mode,       \* port->ieee1284.mode
    registered, \* files with a device (pp->pdev)
    claimed,    \* SNX_PP_CLAIMED, SNX_LP_PARPORT_CLAIMED
    fmode,      \* pp->state.mode
    fsaved,     \* pp->saved_state.mode
    wdev,       \* dev of sunix_parport_ieee1284_write_compat
    preempt,    \* SNX_LP_PREEMPT_REQUEST
    mine,       \* history: the direction each client left its registers in
    asked,      \* history: queued devices that found lp owning the port
    cut,        \* history: a client went on after a claim cut by a signal
    mixed,      \* history: two files lent the port at the same time
    uses        \* the setting

port == <<owner, coming, queue, dir, saved>>
files == <<mode, registered, fmode, fsaved>>
history == <<mine, cut, mixed, uses>>
vars == <<pc, job, port, files, claimed, wdev, preempt, asked, history>>

Clients == Files \cup {Lp}
Modes == {"COMPAT", "EPP"}
Directions == {"forward", "reverse"}

\* Inside sunix_parport_claim_or_block or sunix_parport_release.
Transit == {"claim", "wait", "save", "hand", "give"}
Bytes == {"byte_first", "byte", "byte_again"}
FileOnly == {"pp_claimed", "pp_close", "pp_unreg"}
LpOnly == {"lp_opened", "lp_ready", "lp_again", "lp_hear", "lp_give",
           "lp_closing"}
Places == {"closed", "idle", "write", "write_end", "dead"}
             \cup Transit \cup Bytes \cup FileOnly \cup LpOnly

TypeOK ==
    /\ pc \in [Clients -> Places]
    /\ job \in [Clients -> [dev : Clients \cup {NoDev}, reclaim : BOOLEAN,
                            then : Places]]
    /\ {owner, coming} \subseteq Clients \cup {NoDev}
    /\ queue \in Seq(Clients) /\ IsInjective(queue)
    /\ dir \in Directions
    /\ saved \in [Clients -> Directions]
    /\ mine \in [Clients -> Directions \cup {"any"}]
    /\ mode \in Modes
    /\ registered \subseteq Files /\ claimed \subseteq Clients
    /\ fmode \in [Files -> Modes] /\ fsaved \in [Files -> Modes]
    /\ wdev \in [Clients -> Clients \cup {NoDev}]
    /\ asked \subseteq Clients
    /\ {preempt, cut, mixed} \subseteq BOOLEAN
    /\ uses \in Settings

NoJob == [dev |-> NoDev, reclaim |-> FALSE, then |-> "idle"]

Init ==
    /\ pc = [c \in Clients |-> "closed"]
    /\ job = [c \in Clients |-> NoJob]
    /\ owner = NoDev /\ coming = NoDev /\ queue = <<>>
    /\ dir = "forward"
    /\ saved = [c \in Clients |-> "forward"]
    /\ mode = "COMPAT"
    /\ registered = {} /\ claimed = {}
    /\ fmode = [f \in Files |-> "COMPAT"]
    /\ fsaved = [f \in Files |-> "COMPAT"]
    /\ wdev = [c \in Clients |-> NoDev]
    /\ preempt = FALSE
    /\ mine = [c \in Clients |-> "forward"]
    /\ asked = {}
    /\ cut = FALSE /\ mixed = FALSE
    /\ uses \in Settings

Goto(c, place) == pc' = [pc EXCEPT ![c] = place]

\* c's claim or release returns: it goes on at place.
Return(c, place) == Goto(c, place) /\ job' = [job EXCEPT ![c] = NoJob]

----------------------------------------------------------------------------
(* sunix_parport_claim and sunix_parport_claim_or_block *)

\* c enters claim_or_block(e) and goes on at place when it returns.
StartClaim(c, e, place) ==
    /\ job' = [job EXCEPT ![c] = [dev |-> e, reclaim |-> FALSE,
                                  then |-> place]]
    /\ Goto(c, "claim")

\* A release that has not yet saved its registers will save the new owner's.
NotesOvertaken ==
    mine' = [c \in Clients |->
               IF \E r \in Clients : pc[r] = "save" /\ job[r].dev = c
                 THEN "any" ELSE mine[c]]

\* Mutant: the claimer's registers are not written.
GiveToKeepsRegisters(e, rest) ==
    /\ owner' = e
    /\ queue' = rest
    /\ asked' = asked \ {e}
    /\ NotesOvertaken
    /\ UNCHANGED <<coming, dir, preempt>>

\* The port becomes e's and gets e's registers: one step when nobody else can
\* look into cad_lock, or nobody waits for the outcome.
GiveTo(e, rest) ==
    /\ owner' = e
    /\ queue' = rest
    /\ dir' = saved[e]
    /\ asked' = asked \ {e}
    /\ NotesOvertaken
    /\ UNCHANGED <<coming, preempt>>

\* With more than one CPU the port comes to a waiter in three steps: it is
\* taken off the list with its waiting bits, and may go on at once, ...
StartGive(e, rest) ==
    /\ coming' = e
    /\ queue' = rest
    /\ asked' = asked \ {e}
    /\ NotesOvertaken
    /\ UNCHANGED <<owner, dir, preempt>>

\* Mutant: a device that is listed is listed again.
RefuseListsTwice(e) ==
    /\ queue' = Append(queue, e)
    /\ preempt' = (preempt \/ owner = Lp)
    /\ asked' = IF owner = Lp THEN asked \cup {e} ELSE asked \ {e}
    /\ UNCHANGED <<owner, coming, dir, mine>>

\* The port has another owner: lp's preempt callback notes the request, and
\* refuses; the files have none.
Refuse(e) ==
    /\ queue' = IF e \in ToSet(queue) THEN queue ELSE Append(queue, e)
    /\ preempt' = (preempt \/ owner = Lp)
    /\ asked' = IF owner = Lp THEN asked \cup {e} ELSE asked \ {e}
    /\ UNCHANGED <<owner, coming, dir, mine>>

\* A device that is still listed after a claim cut by a signal does not claim
\* until it is handed the port: a second wait of it damages the waitlist
\* (ParportShare), and what follows is not modelled here.
Claim(c) ==
    LET e == job[c].dev IN
    /\ pc[c] = "claim"
    /\ \/ /\ owner = e
          /\ Return(c, job[c].then)
          /\ UNCHANGED <<owner, coming, queue, dir, preempt, asked, mine>>
       \/ /\ owner = NoDev /\ coming = NoDev /\ e \notin ToSet(queue)
          /\ GiveTo(e, queue)
          /\ Return(c, job[c].then)
       \/ /\ owner \notin {NoDev, e} /\ coming = NoDev
          /\ e \notin ToSet(queue)
          /\ Refuse(e)
          /\ Goto(c, "wait")
          /\ UNCHANGED job
    /\ UNCHANGED <<saved, files, claimed, wdev, cut, mixed, uses>>

\* wait_event_interruptible ends: dev->waiting is 0, so the device has left
\* the queue.  It may not be the owner yet.
Woken(c) ==
    /\ pc[c] = "wait" /\ job[c].dev \notin ToSet(queue)
    /\ Return(c, job[c].then)
    /\ UNCHANGED <<port, files, claimed, wdev, preempt, asked, history>>

\* Mutant: PPCLAIM does not look at the result.
AfterSignalIgnored(place) == CASE place = "byte_again" -> "write_end"
                               [] OTHER -> place

\* Where the client goes on after -EINTR: only PPCLAIM looks at the result; a
\* busy write leaves its loop because the signal is still pending.
AfterSignal(place) == CASE place = "pp_claimed" -> "idle"
                        [] place = "byte_again" -> "write_end"
                        [] OTHER -> place

\* A signal cuts the wait; the device keeps its place in the queue.
Interrupted(c) ==
    /\ pc[c] = "wait" /\ "signal" \in uses
    /\ Return(c, AfterSignal(job[c].then))
    /\ cut' = (cut \/ job[c].then # "pp_claimed")
    /\ wdev' = IF job[c].then = "byte_again" THEN [wdev EXCEPT ![c] = NoDev]
                                              ELSE wdev
    /\ UNCHANGED <<port, files, claimed, preempt, asked, mine, mixed, uses>>

----------------------------------------------------------------------------
(* sunix_parport_release *)

\* c's client lends the port: it has it claimed and gave it up for a while.
Lends(c) == /\ c \in Files \cap claimed
            /\ \/ pc[c] \in {"claim", "wait"}
               \/ pc[c] \in {"save", "hand", "give"} /\ job[c].reclaim

NotesLending(c, reclaim) ==
    mixed' = (mixed \/ (reclaim /\ c \in Files
                          /\ \E f \in Files \ {c} : Lends(f)))

\* c enters release(e), the locked part; when reclaim holds it claims e
\* again before it goes on at place.
StartRelease(c, e, reclaim, place) ==
    /\ coming = NoDev
    /\ LET j == [dev |-> e, reclaim |-> reclaim, then |-> place] IN
         \/ /\ owner = e /\ owner' = NoDev
            /\ job' = [job EXCEPT ![c] = j] /\ Goto(c, "save")
         \/ /\ owner # e /\ UNCHANGED owner
            /\ IF reclaim THEN job' = [job EXCEPT ![c] = j] /\ Goto(c, "claim")
                          ELSE Return(c, place)
    /\ NotesLending(c, reclaim)

\* save_state, after the lock is dropped.
Save(c) ==
    /\ pc[c] = "save"
    /\ saved' = [saved EXCEPT ![job[c].dev] = dir]
    /\ Goto(c, "hand")
    /\ UNCHANGED <<job, owner, coming, queue, dir, files, claimed, wdev,
                   preempt, asked, history>>

\* The release is over; a yield claims again.
Leave(c) == IF job[c].reclaim THEN Goto(c, "claim") /\ UNCHANGED job
                              ELSE Return(c, job[c].then)

\* The claim for the first waiter; with nobody waiting the port stays free.
Hand(c) ==
    /\ pc[c] = "hand"
    /\ \/ /\ queue # <<>> => owner = Head(queue)
          /\ Leave(c)
          /\ UNCHANGED <<owner, coming, queue, dir, preempt, asked, mine>>
       \/ /\ queue # <<>> /\ owner = NoDev /\ coming = NoDev
          /\ \/ /\ "smp" \notin uses
                /\ GiveTo(Head(queue), Tail(queue)) /\ Leave(c)
             \/ /\ "smp" \in uses
                /\ StartGive(Head(queue), Tail(queue))
                /\ Goto(c, "give") /\ UNCHANGED job
       \/ /\ queue # <<>> /\ coming = NoDev
          /\ owner \notin {NoDev, Head(queue)}
          /\ Refuse(Head(queue)) /\ Leave(c)
    /\ UNCHANGED <<saved, files, claimed, wdev, cut, mixed, uses>>

\* ... port->cad = dev, ...
GiveOwner(c) ==
    /\ pc[c] = "give" /\ owner = NoDev
    /\ owner' = coming
    /\ UNCHANGED <<pc, job, coming, queue, dir, saved, files, claimed, wdev,
                   preempt, asked, history>>

\* ... restore_state and the end of cad_lock.
GiveRegisters(c) ==
    /\ pc[c] = "give" /\ owner # NoDev
    /\ dir' = saved[coming]
    /\ coming' = NoDev
    /\ Leave(c)
    /\ UNCHANGED <<owner, queue, saved, files, claimed, wdev, preempt, asked,
                   history>>

----------------------------------------------------------------------------
(* Register writes *)

\* c sets the direction; the register belongs to whoever owns the port.  What
\* a client writes while the port is still coming to it, restore_state writes
\* over.
Drive(c, d) == /\ dir' = d
               /\ mine' = [mine EXCEPT ![c] = IF coming = c THEN "any" ELSE d]

----------------------------------------------------------------------------
(* sunix_parport_ieee1284_write_compat, for whoever calls it *)

\* The device is the port's owner, whoever the caller is; without an owner,
\* or before the caller's own hand-over has written it, dev->timeout is read
\* through NULL.
WriteStart(c) ==
    /\ pc[c] = "write"
    /\ Drive(c, "forward")
    /\ wdev' = [wdev EXCEPT ![c] = owner]
    /\ Goto(c, IF owner = NoDev THEN "dead" ELSE "byte_first")
    /\ UNCHANGED <<job, owner, coming, queue, saved, files, claimed, preempt,
                   asked, cut, mixed, uses>>

\* sunix_parport_wait_peripheral reads port->cad->timeout first.
ByteDies(c) ==
    /\ pc[c] \in Bytes /\ owner = NoDev
    /\ Goto(c, "dead")
    /\ UNCHANGED <<job, port, files, claimed, wdev, preempt, asked, history>>

\* The peripheral takes the byte, or the write ends: all bytes are out, the
\* printer shows an error, the time is over or a signal is pending.
ByteOut(c) ==
    /\ pc[c] \in Bytes /\ owner # NoDev
    /\ \/ Goto(c, "byte") /\ UNCHANGED wdev
       \/ Goto(c, "write_end") /\ wdev' = [wdev EXCEPT ![c] = NoDev]
    /\ UNCHANGED <<job, port, files, claimed, preempt, asked, history>>

\* sunix_parport_yield_blocking after a byte: somebody waits and the time
\* slice is over.
ByteYield(c) ==
    /\ pc[c] \in Bytes /\ owner # NoDev /\ queue # <<>>
    /\ StartRelease(c, wdev[c], TRUE, "byte")
    /\ UNCHANGED <<coming, queue, dir, saved, files, claimed, wdev, preempt,
                   asked, mine, cut, uses>>

\* The peripheral is busy: after the first byte a polled port is given up
\* while the write sleeps.  Before it the write waits and keeps the port.
ByteBusy(c) ==
    /\ pc[c] \in {"byte", "byte_again"} /\ owner # NoDev
    /\ StartRelease(c, wdev[c], TRUE, "byte_again")
    /\ UNCHANGED <<coming, queue, dir, saved, files, claimed, wdev, preempt,
                   asked, mine, cut, uses>>

CompatWrite(c) == \/ WriteStart(c) \/ ByteDies(c) \/ ByteOut(c)
                  \/ ByteYield(c) \/ ByteBusy(c)

----------------------------------------------------------------------------
(* snx_ppdev.c *)

\* A file starts in compatibility mode, without a device.
PpOpen(f) ==
    /\ pc[f] = "closed"
    /\ Goto(f, "idle")
    /\ UNCHANGED <<job, port, files, claimed, wdev, preempt, asked, history>>

\* PPSETMODE: the file's mode, and the port's when the file has the port.
PpSetMode(f) ==
    /\ pc[f] = "idle" /\ "mode" \in uses
    /\ \E m \in Modes : /\ fmode' = [fmode EXCEPT ![f] = m]
                        /\ mode' = IF f \in claimed THEN m ELSE mode
    /\ UNCHANGED <<pc, job, port, registered, fsaved, claimed, wdev, preempt,
                   asked, history>>

\* PPCLAIM: the first one registers the file's device, whose registers start
\* forward.
PpClaim(f) ==
    /\ pc[f] = "idle" /\ f \notin claimed
    /\ registered' = registered \cup {f}
    /\ StartClaim(f, f, "pp_claimed")
    /\ UNCHANGED <<port, mode, fmode, fsaved, claimed, wdev, preempt, asked,
                   history>>

\* Mutant: the mode of the others is not kept.
SwapInForgets(f) ==
    /\ mode' = fmode[f]
    /\ UNCHANGED fsaved

\* The file's mode replaces the port's, which is kept for the release.
SwapIn(f) ==
    /\ fsaved' = [fsaved EXCEPT ![f] = mode]
    /\ mode' = fmode[f]

PpClaimed(f) ==
    /\ pc[f] = "pp_claimed"
    /\ claimed' = claimed \cup {f}
    /\ SwapIn(f)
    /\ Goto(f, "idle")
    /\ UNCHANGED <<job, port, registered, fmode, wdev, preempt, asked,
                   history>>

\* The ioctls behind "claim the port first", and read and write.
MayUse(f) == pc[f] = "idle" /\ f \in claimed

\* PPDATADIR, PPFCONTROL and PPWCONTROL, which can turn the port round but
\* not back; the data and the other control lines are not kept.
PpSetDirection(f) ==
    /\ MayUse(f) /\ "direction" \in uses
    /\ \E d \in Directions : Drive(f, d)
    /\ UNCHANGED <<pc, job, owner, coming, queue, saved, files, claimed,
                   wdev, preempt, asked, cut, mixed, uses>>

\* PPYIELD
PpYield(f) ==
    /\ MayUse(f) /\ queue # <<>>
    /\ StartRelease(f, f, TRUE, "idle")
    /\ UNCHANGED <<coming, queue, dir, saved, files, claimed, wdev, preempt,
                   asked, mine, cut, uses>>

SwapOut(f) ==
    /\ fmode' = [fmode EXCEPT ![f] = mode]
    /\ mode' = fsaved[f]

\* PPRELEASE
PpRelease(f) ==
    /\ MayUse(f)
    /\ SwapOut(f)
    /\ claimed' = claimed \ {f}
    /\ StartRelease(f, f, FALSE, "idle")
    /\ UNCHANGED <<coming, queue, dir, saved, registered, fsaved, wdev,
                   preempt, asked, mine, cut, uses>>

\* The EPP operations turn the port as they need it and leave it forward.
EppTransfer(f) == /\ Drive(f, "forward")
                  /\ UNCHANGED <<pc, owner, coming, queue, saved>>

\* A read in EPP mode; in any other mode it is refused.
PpRead(f) ==
    /\ MayUse(f) /\ mode = "EPP"
    /\ EppTransfer(f)
    /\ UNCHANGED <<job, files, claimed, wdev, preempt, asked, cut, mixed,
                   uses>>

\* A write in EPP mode with the fast flag; any other write, whatever the
\* mode, is a compatibility write.
PpWrite(f) ==
    /\ MayUse(f) /\ "write" \in uses
    /\ \/ mode = "EPP" /\ EppTransfer(f)
       \/ Goto(f, "write") /\ UNCHANGED <<port, mine>>
    /\ UNCHANGED <<job, files, claimed, wdev, preempt, asked, cut, mixed,
                   uses>>

\* The write goes on while bytes are left and some were taken.
PpWriteEnd(f) ==
    /\ pc[f] = "write_end"
    /\ \/ Goto(f, "write")
       \/ Goto(f, "idle")
    /\ UNCHANGED <<job, port, files, claimed, wdev, preempt, asked, history>>

\* snx_pp_release: a file in another mode claims the port to negotiate back,
\* and does not look at the result; a file that has the port releases it.
PpClose(f) ==
    /\ pc[f] = "idle"
    /\ \/ /\ f \notin claimed /\ f \in registered /\ fmode[f] # "COMPAT"
          /\ StartClaim(f, f, "pp_close")
          /\ UNCHANGED <<owner, mode, fmode, claimed, mixed>>
       \/ /\ f \notin claimed /\ f \in registered /\ fmode[f] = "COMPAT"
          /\ Goto(f, "pp_unreg")
          /\ UNCHANGED <<job, owner, mode, fmode, claimed, mixed>>
       \/ /\ f \notin registered
          /\ Goto(f, "closed")
          /\ fmode' = [fmode EXCEPT ![f] = "COMPAT"]
          /\ UNCHANGED <<job, owner, mode, claimed, mixed>>
       \/ /\ f \in claimed
          /\ SwapOut(f)
          /\ claimed' = claimed \ {f}
          /\ StartRelease(f, f, FALSE, "pp_unreg")
    /\ UNCHANGED <<coming, queue, dir, saved, registered, fsaved, wdev,
                   preempt, asked, mine, cut, uses>>

\* The modes are swapped in and out again; the negotiation changes nothing.
PpCloseClaimed(f) ==
    /\ pc[f] = "pp_close"
    /\ fsaved' = [fsaved EXCEPT ![f] = mode]
    /\ StartRelease(f, f, FALSE, "pp_unreg")
    /\ UNCHANGED <<coming, queue, dir, saved, mode, registered, fmode,
                   claimed, wdev, preempt, asked, mine, cut, uses>>

\* The waitlist without e: a device is listed at most once.
Unlisted(e) == IF e \in ToSet(queue)
               THEN RemoveAt(queue, CHOOSE i \in DOMAIN queue : queue[i] = e)
               ELSE queue

\* sunix_parport_unregister_device, which releases a forgotten port first and
\* takes the device off the waitlist; the file's memory is gone (it is kept
\* here as the next open sets it).  A device whose claim was cut may be freed
\* while the port is coming to it, which counts as going on after the cut.
PpUnregister(f) ==
    /\ pc[f] = "pp_unreg"
    /\ \/ /\ owner = f
          /\ StartRelease(f, f, FALSE, "pp_unreg")
          /\ UNCHANGED <<queue, saved, mine, registered, fmode, fsaved,
                         asked, cut>>
       \/ /\ owner # f
          /\ queue' = Unlisted(f)
          /\ asked' = asked \ {f}
          /\ registered' = registered \ {f}
          /\ saved' = [saved EXCEPT ![f] = "forward"]
          /\ mine' = [mine EXCEPT ![f] = "forward"]
          /\ fmode' = [fmode EXCEPT ![f] = "COMPAT"]
          /\ fsaved' = [fsaved EXCEPT ![f] = "COMPAT"]
          /\ cut' = (cut \/ coming = f)
          /\ Goto(f, "closed")
          /\ UNCHANGED <<job, owner, mixed>>
    /\ UNCHANGED <<coming, dir, mode, claimed, wdev, preempt, uses>>

PpStep(f) ==
    \/ PpOpen(f) \/ PpSetMode(f) \/ PpClaim(f) \/ PpClaimed(f)
    \/ PpSetDirection(f) \/ PpYield(f) \/ PpRelease(f)
    \/ PpRead(f) \/ PpWrite(f) \/ PpWriteEnd(f)
    \/ PpClose(f) \/ PpCloseClaimed(f) \/ PpUnregister(f)

----------------------------------------------------------------------------
(* snx_lp.c *)

\* snx_lp_claim_parport_or_block: nothing to do when the bit is set.
LpClaim(place) ==
    /\ claimed' = claimed \cup {Lp}
    /\ \/ Lp \in claimed /\ Goto(Lp, place) /\ UNCHANGED job
       \/ Lp \notin claimed /\ StartClaim(Lp, Lp, place)
    /\ UNCHANGED <<port, files, wdev, preempt, asked, history>>

\* snx_lp_release_parport
LpRelease(place) ==
    /\ claimed' = claimed \ {Lp}
    /\ StartRelease(Lp, Lp, FALSE, place)
    /\ UNCHANGED <<coming, queue, dir, saved, files, wdev, asked, mine, cut,
                   uses>>

\* Give the port up for a while: the bit is cleared and set again.
LpLend(place) ==
    /\ StartRelease(Lp, Lp, TRUE, place)
    /\ UNCHANGED <<coming, queue, dir, saved, files, claimed, wdev, preempt,
                   asked, mine, cut, uses>>

LpGoes(place) ==
    /\ Goto(Lp, place)
    /\ UNCHANGED <<job, port, files, claimed, wdev, preempt, asked, history>>

\* snx_lp_open takes the port to negotiate, and gives it back.
LpOpen == pc[Lp] = "closed" /\ "print" \in uses /\ LpClaim("lp_opened")
LpOpened == pc[Lp] = "lp_opened" /\ LpRelease("idle") /\ UNCHANGED preempt

\* snx_lp_write
LpWrite == pc[Lp] = "idle" /\ LpClaim("lp_ready")

\* snx_lp_wait_ready: while the printer shows an error lp gives the port up
\* and sleeps; the result does not keep the first write from being made.
LpReady == /\ pc[Lp] = "lp_ready"
           /\ LpGoes("write") \/ LpLend("lp_ready")

\* All bytes written or a signal; more bytes to copy; or bytes left over.
LpWriteEnd == /\ pc[Lp] = "write_end"
              /\ \/ LpGoes("lp_hear")
                 \/ LpGoes("write")
                 \/ LpGoes("lp_again")

\* The wait before a next try: an error ends the write of a nonblocking file,
\* else lp yields to a waiter and tries again.
LpAgain == /\ pc[Lp] = "lp_again"
           /\ \/ LpGoes("lp_hear")
              \/ LpLend("lp_again")
              \/ queue # <<>> /\ LpLend("write")
              \/ LpGoes("write")

\* Mutant: the request is dropped and the port kept.
LpHearForgets == /\ pc[Lp] = "lp_hear"
                 /\ preempt' = FALSE
                 /\ Goto(Lp, "idle")
                 /\ UNCHANGED <<job, port, files, claimed, wdev, asked,
                                history>>

\* The end of a write: test and clear the preempt request.  Without one lp
\* keeps the port until the next write or the close.
LpHear == /\ pc[Lp] = "lp_hear"
          /\ preempt' = FALSE
          /\ Goto(Lp, IF preempt THEN "lp_give" ELSE "idle")
          /\ UNCHANGED <<job, port, files, claimed, wdev, asked, history>>

LpGive == pc[Lp] = "lp_give" /\ LpRelease("idle") /\ UNCHANGED preempt

\* snx_lp_release
LpClose == pc[Lp] = "idle" /\ LpClaim("lp_closing")
LpClosing == pc[Lp] = "lp_closing" /\ LpRelease("closed") /\ UNCHANGED preempt

LpStep == \/ LpOpen \/ LpOpened \/ LpWrite \/ LpReady \/ LpWriteEnd
          \/ LpAgain \/ LpHear \/ LpGive \/ LpClose \/ LpClosing

----------------------------------------------------------------------------

Arbitration(c) == \/ Claim(c) \/ Woken(c) \/ Interrupted(c)
                  \/ Save(c) \/ Hand(c) \/ GiveOwner(c) \/ GiveRegisters(c)

Next == \/ \E c \in Clients : Arbitration(c) \/ CompatWrite(c)
        \/ \E f \in Files : PpStep(f)
        \/ LpStep

Spec == Init /\ [][Next]_vars

----------------------------------------------------------------------------
(* Safety *)

\* Who has the port: its owner, or the waiter it is coming to.
Holder == IF coming = NoDev THEN owner ELSE coming

\* A client that believes it has the port has it, and the compatibility write
\* acts for its caller: the claimed flag, which alone guards the register
\* ioctls ("claim the port first", snx_ppdev.c:584), and port->cad agree
\* outside claim and release.  The claims whose result nobody looks at
\* (snx_ieee1284_ops.c:50, snx_ppdev.c:923, snx_lp.c:45) can part them; so,
\* for a moment, can a hand-over on more than one CPU (snx_share.c:831 to
\* 855), in which the client's port->cad is still NULL: only there does a
\* write that nobody cut go through NULL.
UsesAsOwner ==
    ~cut => \A c \in Clients :
              /\ c \in claimed /\ pc[c] \notin Transit => Holder = c
              /\ pc[c] \in Bytes => c \in claimed /\ wdev[c] = c
              /\ Holder # owner \/ pc[c] = "dead" => "smp" \in uses

\* Whoever owns the port, and is not still being handed it, finds its
\* direction as it left it, whatever the others did in between: save_state at
\* the release and restore_state at the claim keep every client's registers
\* apart.  Two things can mix them: a claim that comes between the unlock and
\* the save_state of a release (snx_share.c:947), and a client that on more
\* than one CPU goes on before restore_state (snx_share.c:854) and writes
\* what is then written over.
RegistersKept ==
    ~cut => \A c \in Clients :
              owner = c /\ coming = NoDev => mine[c] \in {dir, "any"}

\* A file that has the port has it in the file's own mode, and a port no file
\* has is in compatibility mode: PPCLAIM and PPRELEASE swap modes like
\* brackets, which pair as long as at most one file at a time lends the port
\* by a yield or a busy write (snx_ppdev.c:404 and 657).
ModesPaired ==
    ~cut /\ ~mixed =>
       /\ \A f \in Files : f \in claimed /\ Holder = f => mode = fmode[f]
       /\ claimed \cap Files = {} => mode = "COMPAT"

\* A release that is still to serve the queue.
Serving(c) == pc[c] \in {"save", "hand"}

\* Whoever asked the printer for the port and still waits when the printer
\* has it will be heard: the preempt request stands, or lp is giving the port
\* up (snx_lp.c:61 and 311), or a release is about to ask lp again.
LpHearsAskers ==
    ~cut /\ Holder = Lp /\ asked \cap ToSet(queue) # {}
       => \/ preempt
          \/ pc[Lp] = "lp_give"
          \/ \E c \in Clients : Serving(c)

----------------------------------------------------------------------------
(* What the properties need to be inductive *)

Releasing(c) == Serving(c) \/ pc[c] = "give"
Claiming(c) == pc[c] \in {"claim", "wait"}

\* Where a claim or release of c returns to, by its sort.
Returns(c) ==
    IF job[c].reclaim
    THEN {"byte", "byte_again"} \cup
         (IF c = Lp THEN {"lp_ready", "lp_again", "write"} ELSE {"idle"})
    ELSE IF Claiming(c)
    THEN IF c = Lp THEN {"lp_opened", "lp_ready", "lp_closing"}
                   ELSE {"pp_claimed", "pp_close"}
    ELSE IF c = Lp THEN {"idle", "closed"} ELSE {"idle", "pp_unreg"}

\* Writing, or giving the port up for a while in a write.
Writing(c) == \/ pc[c] \in Bytes
              \/ pc[c] \in Transit /\ job[c].then \in Bytes

\* Where each client can be, and what its call is about.
Placed(c) ==
    /\ pc[c] \notin (IF c = Lp THEN FileOnly ELSE LpOnly)
    /\ pc[c] \in Transit => /\ job[c].dev \in Clients
                            /\ job[c].then \in Returns(c)
    /\ Writing(c) => wdev[c] \in Clients
PlaceInv == \A c \in Clients : Placed(c)

\* The claimed flag in the course of each call.
Flagged(c) ==
    /\ pc[c] \in Bytes \cup LpOnly \cup {"write", "write_end"} => c \in claimed
    /\ pc[c] \in FileOnly \cup {"closed"} => c \notin claimed
    /\ Releasing(c) => (c \in claimed <=> job[c].reclaim)
    /\ Claiming(c) => (c \in claimed <=> job[c].reclaim \/ c = Lp)
    /\ c \in Files /\ (c \in claimed \/ pc[c] \in Transit \cup FileOnly)
         => c \in registered
FlagInv == \A c \in Clients : Flagged(c)

\* cad_lock stays taken while one release hands the port to a waiter; nobody
\* else becomes the owner meanwhile.
LockInv ==
    /\ coming # NoDev <=> \E c \in Clients : pc[c] = "give"
    /\ \A c, d \in Clients : pc[c] = "give" /\ pc[d] = "give" => c = d
    /\ coming # NoDev => /\ owner \in {NoDev, coming} /\ "smp" \in uses
                        /\ coming \notin ToSet(queue)

\* A port without an owner and with waiters is about to be handed on.
HandOverInv ==
    Holder = NoDev /\ queue # <<>> => \E c \in Clients : Serving(c)

\* Until a cut claim: each client acts for its own device; it has the port
\* when it goes on after a claim and as long as it has not released it; a
\* device has the port, or waits, or neither.
Owns(c) ==
    /\ pc[c] \in Transit => job[c].dev = c
    /\ Writing(c) => wdev[c] = c
    /\ c \in claimed /\ pc[c] \notin Transit => Holder = c
    /\ pc[c] \in {"pp_claimed", "pp_close"} => Holder = c
    /\ pc[c] = "wait" /\ c \notin ToSet(queue) => Holder = c
    /\ Releasing(c) => Holder # c /\ c \notin ToSet(queue)
    /\ Holder = c => c \notin ToSet(queue)
    /\ pc[c] = "dead" => "smp" \in uses
OwnInv == ~cut => \A c \in Clients : Owns(c)

\* A client that does not have the port, or only starts to, has its direction
\* saved, or still in the register that its release has not saved yet.
Kept(c) ==
    /\ owner = c /\ coming = NoDev => mine[c] \in {dir, "any"}
    /\ coming = c => mine[c] \in {saved[c], "any"}
    /\ Holder # c /\ pc[c] # "save" => mine[c] \in {saved[c], "any"}
    /\ pc[c] = "save" /\ Holder = NoDev => mine[c] \in {dir, "any"}
    /\ pc[c] = "save" /\ Holder # NoDev => mine[c] = "any"
SavedInv == ~cut => \A c \in Clients : Kept(c)

\* The modes are a stack of at most two files: one that lends the port and
\* one that has it.
ModeInv ==
    ~cut /\ ~mixed =>
        /\ \A f, g \in Files : Lends(f) /\ Lends(g) => f = g
        /\ \A f \in claimed \cap Files :
             /\ Holder = f => mode = fmode[f]
             /\ Lends(f) => fsaved[f] = "COMPAT"
             /\ Lends(f) /\ Holder \notin (claimed \cap Files)
                  => mode = fmode[f]
             /\ ~Lends(f) => \A g \in Files : Lends(g) => fsaved[f] = fmode[g]
             /\ ~Lends(f) /\ (\A g \in Files : ~Lends(g))
                  => fsaved[f] = "COMPAT"
        /\ claimed \cap Files = {} => mode = "COMPAT"

\* Nobody behind the printer in the queue has asked it; the request of those
\* it owns the port before stands or is about to be made again.
AskedInv ==
    ~cut =>
        /\ \A i, j \in DOMAIN queue :
             i < j /\ queue[i] = Lp => queue[j] \notin asked
        /\ LpHearsAskers

\* The inductive invariant: from it the properties above follow.
IInv == /\ TypeOK /\ PlaceInv /\ FlagInv /\ LockInv /\ HandOverInv /\ OwnInv
        /\ SavedInv /\ ModeInv /\ AskedInv

=============================================================================
