-------------------------- MODULE SerialOpen_proofs --------------------------
(***************************************************************************)
(* Theorems about SerialOpen, for any finite set of files and every set of *)
(* environments.                                                           *)
(*                                                                         *)
(* The first lemmas say what the handlers leave behind, so that the        *)
(* invariants need not look into them.  Then each part of IInv is kept by  *)
(* every step, from itself and the parts it leans on.                      *)
(***************************************************************************)
EXTENDS SerialOpen, FiniteSetTheorems, TLAPS

(* TypeOK without the bounds of count and refs *)
Typing ==
    /\ pc \in [Files -> {"closed", "get", "startup", "wait_test", "asleep", "woken",
                         "finish", "activate", "open", "ioctl", "failed",
                         "failed_get", "closing"}]
    /\ ttyLock \in Files \cup {"nobody", "hangup"}
    /\ sem \in Files \cup {"nobody"}
    /\ hungUp \subseteq Attached
    /\ signalled \subseteq Files
    /\ infoTty \in {"null", "live", "stale"}
    /\ flags \subseteq {"INIT", "ACTIVE", "CHECK_CD"}
    /\ ier \subseteq {"RX", "MSI"}
    /\ buf \in BOOLEAN /\ ioError \in BOOLEAN /\ suspended \in BOOLEAN
    /\ carrier \in BOOLEAN /\ dcdDelta \in BOOLEAN
    /\ env \in Envs
    /\ count \in Int /\ refs \in Int

(* What startup, shutdown and the rest do to the port *)

PortTyping ==
    /\ flags \subseteq {"INIT", "ACTIVE", "CHECK_CD"}
    /\ ier \subseteq {"RX", "MSI"}
    /\ buf \in BOOLEAN /\ ioError \in BOOLEAN /\ dcdDelta \in BOOLEAN

UpOK ==
    /\ "INIT" \in flags /\ ~Failing => buf /\ ~ioError /\ "RX" \in ier
    /\ ier # {} => "INIT" \in flags

----------------------------------------------------------------------------
\* What startup leaves: a port that is up in every respect, or a failure that
\* TTY_IO_ERROR tells of (snx_ser_startup).
LEMMA StartupEffect ==
    ASSUME PortTyping, UpOK, NEW f, NEW hw \in BOOLEAN, NEW ok \in BOOLEAN,
           Startup(f, hw, ok), env' = env
    PROVE  /\ PortTyping' /\ UpOK'
           /\ "ACTIVE" \in flags' <=> "ACTIVE" \in flags
           /\ "INIT" \in flags => "INIT" \in flags'
           /\ "INIT" \in flags' \/ (Failing /\ ioError')
           /\ ok \/ Failing
  <1> USE DEF PortTyping, UpOK, Failing, port
  <1>1. CASE "INIT" \in flags /\ ok /\ UNCHANGED port
    BY <1>1
  <1>2. CASE /\ "INIT" \notin flags /\ ok
             /\ ChangeSpeed(hw /\ infoTty # "null")
             /\ buf' = TRUE /\ ioError' = FALSE /\ dcdDelta' = FALSE
    <2>1. buf' /\ ~ioError'
      BY <1>2
    <2>2. "INIT" \in flags' /\ "RX" \in ier' /\ ("ACTIVE" \in flags' <=> "ACTIVE" \in flags)
      BY <1>2 DEF ChangeSpeed
    <2>3. PortTyping'
      BY <1>2 DEF ChangeSpeed
    <2> QED BY <1>2, <2>1, <2>2, <2>3
  <1>3. CASE /\ Failing /\ "INIT" \notin flags /\ ioError' = TRUE
             /\ buf' \in BOOLEAN /\ dcdDelta' \in BOOLEAN
             /\ UNCHANGED <<flags, ier>>
    BY <1>3
  <1> QED BY <1>1, <1>2, <1>3 DEF Startup

\* Shutdown leaves no interrupt enabled, and the port neither INIT nor ACTIVE
\* (snx_ser_shutdown).
LEMMA ShutdownEffect ==
    ASSUME PortTyping, UpOK, NEW stays \in BOOLEAN, Shutdown(stays), env' = env
    PROVE  /\ PortTyping' /\ UpOK'
           /\ "INIT" \notin flags' /\ "ACTIVE" \notin flags'
  <1> USE DEF PortTyping, UpOK, Failing
  <1>1. flags' = flags \ {"INIT", "ACTIVE"} /\ dcdDelta' = dcdDelta
    BY DEF Shutdown
  <1>2. \/ "INIT" \in flags /\ ier' = {} /\ buf' = FALSE
        \/ "INIT" \notin flags /\ ier' = ier /\ buf' = buf
    BY DEF Shutdown
  <1>3. ioError' \in BOOLEAN
    BY DEF Shutdown
  <1> QED BY <1>1, <1>2, <1>3

\* The end of open enables an interrupt only of a port that is up.
LEMMA ActivateEffect ==
    ASSUME PortTyping, UpOK, NEW f \in Files, Activate(f), "INIT" \in flags \/ ioError
    PROVE  /\ PortTyping' /\ UpOK'
           /\ "ACTIVE" \in flags' /\ ("INIT" \in flags' <=> "INIT" \in flags)
  <1> USE DEF PortTyping, UpOK, Failing, world
  <1>1. \/ "ACTIVE" \in flags /\ UNCHANGED <<flags, ier>>
        \/ ioError /\ flags' = flags \cup {"ACTIVE"} /\ ier' = ier
        \/ ~ioError /\ flags' = flags \cup {"ACTIVE", "CHECK_CD"} /\ ier' = ier \cup {"MSI"}
    BY DEF Activate
  <1>2. UNCHANGED <<buf, ioError, dcdDelta, env>>
    BY DEF Activate
  <1> QED BY <1>1, <1>2

\* TIOCSSERIAL leaves the port up, or in error where it may fail.
LEMMA SetInfoEffect ==
    ASSUME PortTyping, UpOK, NEW f \in Files, SetInfoRun(f)
    PROVE  /\ PortTyping' /\ UpOK'
           /\ "ACTIVE" \in flags' <=> "ACTIVE" \in flags
           /\ "INIT" \in flags' \/ (Failing /\ ioError')
  <1> USE DEF PortTyping, UpOK, Failing, world
  <1>0. env' = env
    BY DEF SetInfoRun
  <1>1. ASSUME NEW ok \in BOOLEAN, Startup(f, TRUE, ok) PROVE PortTyping' /\ UpOK'
           /\ ("ACTIVE" \in flags' <=> "ACTIVE" \in flags)
           /\ ("INIT" \in flags' \/ (Failing /\ ioError'))
    BY <1>0, <1>1, StartupEffect
  <1>2. CASE /\ "INIT" \in flags
             /\ ChangeSpeed(infoTty # "null")
             /\ UNCHANGED <<buf, ioError, dcdDelta>>
    BY <1>0, <1>2 DEF ChangeSpeed
  <1>3. CASE /\ Failing
             /\ flags' = flags \ {"INIT"} /\ ier' = {}
             /\ buf' \in BOOLEAN /\ ioError' = TRUE /\ dcdDelta' \in {dcdDelta, FALSE}
    BY <1>0, <1>3
  <1> QED BY <1>1, <1>2, <1>3 DEF SetInfoRun

\* Resume leaves the port up, or in error where it may fail.
LEMMA ResumeEffect ==
    ASSUME PortTyping, UpOK, Resume
    PROVE  /\ PortTyping' /\ UpOK'
           /\ "ACTIVE" \in flags' <=> "ACTIVE" \in flags
           /\ "INIT" \in flags => "INIT" \in flags'
           /\ "INIT" \in flags' \/ (Failing /\ ioError')
  <1> USE DEF PortTyping, UpOK, Failing, world
  <1>0. env' = env
    BY DEF Resume
  <1>1. CASE /\ "INIT" \in flags
             /\ IF ioError THEN UNCHANGED <<flags, ier>> ELSE ChangeSpeed(TRUE)
             /\ UNCHANGED <<buf, ioError, dcdDelta>>
    <2>1. CASE UNCHANGED <<flags, ier>>
      BY <1>0, <1>1, <2>1
    <2>2. CASE ChangeSpeed(TRUE)
      BY <1>0, <1>1, <2>2 DEF ChangeSpeed
    <2> QED BY <1>1, <2>1, <2>2
  <1>2. CASE /\ "INIT" \notin flags
             /\ ChangeSpeed(TRUE) /\ buf' = TRUE /\ ioError' = FALSE /\ dcdDelta' = FALSE
    <2>1. buf' /\ ~ioError'
      BY <1>2
    <2>2. "INIT" \in flags' /\ "RX" \in ier' /\ ("ACTIVE" \in flags' <=> "ACTIVE" \in flags)
      BY <1>2 DEF ChangeSpeed
    <2>3. PortTyping'
      BY <1>2 DEF ChangeSpeed
    <2> QED BY <1>2, <2>1, <2>2, <2>3
  <1>3. CASE Startup("nobody", FALSE, FALSE)
    BY <1>0, <1>3, StartupEffect
  <1> QED BY <1>1, <1>2, <1>3 DEF Resume

\* The three ends of a close: of a hung-up file, of one user among others, and
\* of the last user, which takes the port down (snx_ser_close).
LEMMA CloseEffect ==
    ASSUME PortTyping, UpOK, count \in Int, NEW f \in Files, CloseRun(f)
    PROVE  /\ PortTyping' /\ UpOK' /\ count' \in Int
           /\ \/ /\ f \in hungUp
                 /\ infoTty' = IF Attached = {f} /\ infoTty = "live" THEN "stale"
                                                                     ELSE infoTty
                 /\ UNCHANGED <<count, flags, suspended>>
              \/ /\ f \notin hungUp /\ Cardinality(Attached) # 1 /\ count > 1
                 /\ count' = count - 1
                 /\ UNCHANGED <<flags, suspended, infoTty>>
              \/ /\ f \notin hungUp /\ (Cardinality(Attached) = 1 \/ count <= 1)
                 /\ count' = 0 /\ infoTty' = "null" /\ suspended' = FALSE
                 /\ "INIT" \notin flags' /\ "ACTIVE" \notin flags'
  <1> USE DEF PortTyping, UpOK, Failing, world, Skips
  <1>0. env' = env
    BY DEF CloseRun
  <1>1. CASE /\ f \in hungUp
             /\ infoTty' = IF Attached = {f} /\ infoTty = "live" THEN "stale" ELSE infoTty
             /\ ioError' = (ioError /\ ~(Attached = {f}))
             /\ UNCHANGED <<count, flags, ier, buf, dcdDelta, suspended>>
    <2>1. ioError' \in BOOLEAN /\ (ioError' => ioError)
      BY <1>1
    <2> QED BY <1>0, <1>1, <2>1
  <1>2. CASE /\ f \notin hungUp /\ ~LastUser
             /\ count' = Corrected - 1
             /\ UNCHANGED <<port, suspended, infoTty>>
    BY <1>0, <1>2 DEF LastUser, Corrected, port
  <1>3. CASE /\ f \notin hungUp /\ LastUser
             /\ count' = 0
             /\ Shutdown(~(Attached = {f})) /\ Unmark /\ infoTty' = "null"
    <2>1. /\ PortTyping' /\ UpOK'
          /\ "INIT" \notin flags' /\ "ACTIVE" \notin flags'
      BY <1>0, <1>3, ShutdownEffect
    <2> QED BY <1>3, <2>1 DEF LastUser, Corrected, Unmark
  <1> QED BY <1>1, <1>2, <1>3 DEF CloseRun

\* A hangup takes an ACTIVE port down and leaves any other alone
\* (snx_ser_hangup).
LEMMA HangupEffect ==
    ASSUME PortTyping, UpOK, HangupRun
    PROVE  /\ PortTyping' /\ UpOK'
           /\ \/ /\ "ACTIVE" \in flags /\ count' = 0 /\ infoTty' = "null"
                 /\ "INIT" \notin flags' /\ "ACTIVE" \notin flags'
              \/ /\ "ACTIVE" \notin flags
                 /\ UNCHANGED <<flags, ier, ioError, count, infoTty>>
  <1>0. env' = env
    BY DEF HangupRun, world
  <1>1. CASE "ACTIVE" \in flags
    BY <1>0, <1>1, ShutdownEffect DEF HangupRun, ForgetFiles
  <1>2. CASE "ACTIVE" \notin flags
    BY <1>0, <1>2 DEF HangupRun, port, PortTyping, UpOK, Failing
  <1> QED BY <1>1, <1>2

----------------------------------------------------------------------------
(* The port, the locks and the environment *)

\* Every step keeps the port's own state consistent.
LEMMA PortStep == Typing /\ PortInv /\ [Next]_vars => (PortTyping /\ UpOK)'
  <1> SUFFICES ASSUME Typing, PortInv, [Next]_vars PROVE (PortTyping /\ UpOK)'
    OBVIOUS
  <1>0. PortTyping /\ UpOK /\ count \in Int
    BY DEF Typing, PortInv, PortTyping, UpOK
  <1> USE <1>0 DEF PortTyping, UpOK, Failing, port, world
  <1>1. ASSUME NEW f \in Files, Open(f) PROVE (PortTyping /\ UpOK)'
    BY <1>1 DEF Open
  <1>2. ASSUME NEW f \in Files, Get(f) PROVE (PortTyping /\ UpOK)'
    BY <1>2 DEF Get
  <1>3. ASSUME NEW f \in Files, GetInterrupted(f) PROVE (PortTyping /\ UpOK)'
    BY <1>3 DEF GetInterrupted
  <1>4. ASSUME NEW f \in Files, OpenStartup(f) PROVE (PortTyping /\ UpOK)'
    BY <1>4, StartupEffect DEF OpenStartup
  <1>5. ASSUME NEW f \in Files, WaitTest(f) PROVE (PortTyping /\ UpOK)'
    BY <1>5 DEF WaitTest
  <1>6. ASSUME NEW f \in Files, Signal(f) PROVE (PortTyping /\ UpOK)'
    BY <1>6 DEF Signal
  <1>7. ASSUME NEW f \in Files, Woken(f) PROVE (PortTyping /\ UpOK)'
    BY <1>7 DEF Woken
  <1>8. ASSUME NEW f \in Files, Finish(f) PROVE (PortTyping /\ UpOK)'
    BY <1>8 DEF Finish
  <1>9. ASSUME NEW f \in Files, Activate(f) PROVE (PortTyping /\ UpOK)'
    BY <1>9, ActivateEffect DEF PortInv, Started, Activate
  <1>10. ASSUME NEW f \in Files, SetInfo(f) PROVE (PortTyping /\ UpOK)'
    BY <1>10 DEF SetInfo
  <1>11. ASSUME NEW f \in Files, SetInfoRun(f) PROVE (PortTyping /\ UpOK)'
    BY <1>11, SetInfoEffect
  <1>12. ASSUME NEW f \in Files, Close(f) PROVE (PortTyping /\ UpOK)'
    BY <1>12 DEF Close
  <1>13. ASSUME NEW f \in Files, CloseRun(f) PROVE (PortTyping /\ UpOK)'
    BY <1>13, CloseEffect
  <1>14. CASE Hangup
    BY <1>14 DEF Hangup
  <1>15. CASE HangupRun
    BY <1>15, HangupEffect
  <1>16. CASE CarrierChange
    BY <1>16 DEF CarrierChange
  <1>17. CASE Interrupt
    BY <1>17 DEF Interrupt
  <1>18. CASE Resume
    BY <1>18, ResumeEffect
  <1>19. CASE UNCHANGED vars
    BY <1>19 DEF vars
  <1> QED BY <1>1, <1>2, <1>3, <1>4, <1>5, <1>6, <1>7, <1>8, <1>9, <1>10, <1>11,
             <1>12, <1>13, <1>14, <1>15, <1>16, <1>17, <1>18, <1>19 DEF Next, Step

\* Every step keeps the types, the bounds of the two counters aside.
LEMMA TypingStep == Typing /\ PortInv /\ [Next]_vars => Typing'
  <1> SUFFICES ASSUME Typing, PortInv, [Next]_vars PROVE Typing'
    OBVIOUS
  <1>0. PortTyping' /\ UpOK' /\ PortTyping /\ UpOK
    BY PortStep DEF Typing, PortInv, PortTyping, UpOK
  <1> USE <1>0, SerialOpenAssumption DEF Goto, world, Attached, Typing, PortTyping
  <1>1. ASSUME NEW f \in Files, Open(f) PROVE Typing'
    BY <1>1 DEF Open
  <1>2. ASSUME NEW f \in Files, Get(f) PROVE Typing'
    BY <1>2 DEF Get
  <1>3. ASSUME NEW f \in Files, GetInterrupted(f) PROVE Typing'
    BY <1>3 DEF GetInterrupted
  <1>4. ASSUME NEW f \in Files, OpenStartup(f) PROVE Typing'
    <2>1. \/ Goto(f, "wait_test") /\ UNCHANGED <<sem, ttyLock, refs>> /\ count' = count - 1
          \/ Goto(f, "failed") /\ sem' = "nobody" /\ ttyLock' = "nobody" /\ count' = count /\ refs' = refs + 1
      BY <1>4 DEF OpenStartup, CountOff, TakeModule
    <2>2. UNCHANGED <<hungUp, signalled, infoTty, suspended, world>>
      BY <1>4 DEF OpenStartup
    <2> QED BY <1>4, <2>1, <2>2
  <1>5. ASSUME NEW f \in Files, WaitTest(f) PROVE Typing'
    BY <1>5 DEF WaitTest
  <1>6. ASSUME NEW f \in Files, Signal(f) PROVE Typing'
    BY <1>6 DEF Signal
  <1>7. ASSUME NEW f \in Files, Woken(f) PROVE Typing'
    BY <1>7 DEF Woken
  <1>8. ASSUME NEW f \in Files, Finish(f) PROVE Typing'
    BY <1>8 DEF Finish, TakeModule
  <1>9. ASSUME NEW f \in Files, Activate(f) PROVE Typing'
    BY <1>9 DEF Activate, TakeModule
  <1>10. ASSUME NEW f \in Files, SetInfo(f) PROVE Typing'
    BY <1>10 DEF SetInfo
  <1>11. ASSUME NEW f \in Files, SetInfoRun(f) PROVE Typing'
    BY <1>11 DEF SetInfoRun
  <1>12. ASSUME NEW f \in Files, Close(f) PROVE Typing'
    BY <1>12 DEF Close
  <1>13. ASSUME NEW f \in Files, CloseRun(f) PROVE Typing'
    <2>1. infoTty' \in {"null", "live", "stale"} /\ suspended' \in BOOLEAN /\ count' \in Int
      <3> HIDE DEF PortTyping, Attached
      <3>1. count' \in Int
        BY <1>13, CloseEffect, <1>0
      <3>2. suspended' \in BOOLEAN
        BY <1>13, CloseEffect, <1>0
      <3>3. infoTty' \in {"null", "live", "stale"}
        BY <1>13, CloseEffect, <1>0
      <3> QED BY <3>1, <3>2, <3>3
    <2> QED BY <1>13, <2>1 DEF CloseRun, GiveModule
  <1>14. CASE Hangup
    BY <1>14 DEF Hangup
  <1>15. CASE HangupRun
    <2>1. infoTty' \in {"null", "live", "stale"} /\ count' \in Int
      BY <1>15, HangupEffect, <1>0
    <2> QED BY <1>15, <2>1 DEF HangupRun
  <1>16. CASE CarrierChange
    BY <1>16 DEF CarrierChange
  <1>17. CASE Interrupt
    BY <1>17 DEF Interrupt
  <1>18. CASE Resume
    BY <1>18 DEF Resume
  <1>19. CASE UNCHANGED vars
    BY <1>19 DEF vars
  <1> QED BY <1>1, <1>2, <1>3, <1>4, <1>5, <1>6, <1>7, <1>8, <1>9, <1>10, <1>11,
             <1>12, <1>13, <1>14, <1>15, <1>16, <1>17, <1>18, <1>19 DEF Next, Step

\* One open or close at a time, by the tty lock.
LEMMA LockStep == Typing /\ LockInv /\ [Next]_vars => LockInv'
  <1> SUFFICES ASSUME Typing, LockInv, [Next]_vars PROVE LockInv'
    OBVIOUS
  <1> USE SerialOpenAssumption DEF Goto, Typing, LockInv, Opening
  <1>1. ASSUME NEW f \in Files, Open(f) PROVE LockInv'
    BY <1>1 DEF Open
  <1>2. ASSUME NEW f \in Files, Get(f) PROVE LockInv'
    BY <1>2 DEF Get
  <1>3. ASSUME NEW f \in Files, GetInterrupted(f) PROVE LockInv'
    BY <1>3 DEF GetInterrupted
  <1>4. ASSUME NEW f \in Files, OpenStartup(f) PROVE LockInv'
    <2>1. \/ Goto(f, "wait_test") /\ UNCHANGED <<sem, ttyLock, refs>>
          \/ Goto(f, "failed") /\ sem' = "nobody" /\ ttyLock' = "nobody"
      BY <1>4 DEF OpenStartup
    <2> QED BY <1>4, <2>1 DEF OpenStartup
  <1>5. ASSUME NEW f \in Files, WaitTest(f) PROVE LockInv'
    BY <1>5 DEF WaitTest
  <1>6. ASSUME NEW f \in Files, Signal(f) PROVE LockInv'
    BY <1>6 DEF Signal
  <1>7. ASSUME NEW f \in Files, Woken(f) PROVE LockInv'
    BY <1>7 DEF Woken
  <1>8. ASSUME NEW f \in Files, Finish(f) PROVE LockInv'
    BY <1>8 DEF Finish
  <1>9. ASSUME NEW f \in Files, Activate(f) PROVE LockInv'
    BY <1>9 DEF Activate
  <1>10. ASSUME NEW f \in Files, SetInfo(f) PROVE LockInv'
    BY <1>10 DEF SetInfo
  <1>11. ASSUME NEW f \in Files, SetInfoRun(f) PROVE LockInv'
    BY <1>11 DEF SetInfoRun
  <1>12. ASSUME NEW f \in Files, Close(f) PROVE LockInv'
    BY <1>12 DEF Close
  <1>13. ASSUME NEW f \in Files, CloseRun(f) PROVE LockInv'
    BY <1>13 DEF CloseRun
  <1>14. CASE Hangup
    BY <1>14 DEF Hangup
  <1>15. CASE HangupRun
    BY <1>15 DEF HangupRun
  <1>16. CASE CarrierChange
    BY <1>16 DEF CarrierChange
  <1>17. CASE Interrupt
    BY <1>17 DEF Interrupt
  <1>18. CASE Resume
    BY <1>18 DEF Resume
  <1>19. CASE UNCHANGED vars
    BY <1>19 DEF vars
  <1> QED BY <1>1, <1>2, <1>3, <1>4, <1>5, <1>6, <1>7, <1>8, <1>9, <1>10, <1>11,
             <1>12, <1>13, <1>14, <1>15, <1>16, <1>17, <1>18, <1>19 DEF Next, Step

\* Steps do only what the environment may do; an open is never hung up.
LEMMA EnvStep == Typing /\ LockInv /\ EnvInv /\ [Next]_vars => EnvInv'
  <1> SUFFICES ASSUME Typing, LockInv, EnvInv, [Next]_vars PROVE EnvInv'
    OBVIOUS
  <1> USE SerialOpenAssumption DEF Goto, Typing, LockInv, EnvInv, Opening,
          Attached, Hangups, Signals, Setters, world
  <1>1. ASSUME NEW f \in Files, Open(f) PROVE EnvInv'
    BY <1>1 DEF Open
  <1>2. ASSUME NEW f \in Files, Get(f) PROVE EnvInv'
    BY <1>2 DEF Get
  <1>3. ASSUME NEW f \in Files, GetInterrupted(f) PROVE EnvInv'
    BY <1>3 DEF GetInterrupted
  <1>4. ASSUME NEW f \in Files, OpenStartup(f) PROVE EnvInv'
    <2>1. \/ Goto(f, "wait_test") /\ UNCHANGED <<sem, ttyLock, refs>>
          \/ Goto(f, "failed") /\ sem' = "nobody" /\ ttyLock' = "nobody"
      BY <1>4 DEF OpenStartup
    <2> QED BY <1>4, <2>1 DEF OpenStartup
  <1>5. ASSUME NEW f \in Files, WaitTest(f) PROVE EnvInv'
    BY <1>5 DEF WaitTest
  <1>6. ASSUME NEW f \in Files, Signal(f) PROVE EnvInv'
    BY <1>6 DEF Signal
  <1>7. ASSUME NEW f \in Files, Woken(f) PROVE EnvInv'
    BY <1>7 DEF Woken
  <1>8. ASSUME NEW f \in Files, Finish(f) PROVE EnvInv'
    BY <1>8 DEF Finish
  <1>9. ASSUME NEW f \in Files, Activate(f) PROVE EnvInv'
    BY <1>9 DEF Activate
  <1>10. ASSUME NEW f \in Files, SetInfo(f) PROVE EnvInv'
    BY <1>10 DEF SetInfo
  <1>11. ASSUME NEW f \in Files, SetInfoRun(f) PROVE EnvInv'
    BY <1>11 DEF SetInfoRun
  <1>12. ASSUME NEW f \in Files, Close(f) PROVE EnvInv'
    BY <1>12 DEF Close
  <1>13. ASSUME NEW f \in Files, CloseRun(f) PROVE EnvInv'
    BY <1>13 DEF CloseRun
  <1>14. CASE Hangup
    BY <1>14 DEF Hangup
  <1>15. CASE HangupRun
    BY <1>15 DEF HangupRun
  <1>16. CASE CarrierChange
    BY <1>16 DEF CarrierChange
  <1>17. CASE Interrupt
    BY <1>17 DEF Interrupt
  <1>18. CASE Resume
    BY <1>18 DEF Resume
  <1>19. CASE UNCHANGED vars
    BY <1>19 DEF vars
  <1> QED BY <1>1, <1>2, <1>3, <1>4, <1>5, <1>6, <1>7, <1>8, <1>9, <1>10, <1>11,
             <1>12, <1>13, <1>14, <1>15, <1>16, <1>17, <1>18, <1>19 DEF Next, Step

\* The file being opened has found the port up and the tty live.
LEMMA PortInvStep == Typing /\ LockInv /\ PortInv /\ [Next]_vars => PortInv'
  <1> SUFFICES ASSUME Typing, LockInv, PortInv, [Next]_vars PROVE PortInv'
    OBVIOUS
  <1>0. PortTyping /\ UpOK /\ count \in Int
    BY DEF Typing, PortInv, PortTyping, UpOK
  <1> USE DEF Goto, Typing, PortInv
  <1>1. ASSUME NEW f \in Files, Open(f) PROVE PortInv'
    BY <1>1 DEF Open, Started, Opening, port, world, Failing, LockInv
  <1>2. ASSUME NEW f \in Files, Get(f) PROVE PortInv'
    BY <1>2 DEF Get, Started, Opening, port, world, Failing, LockInv
  <1>3. ASSUME NEW f \in Files, GetInterrupted(f) PROVE PortInv'
    BY <1>3 DEF GetInterrupted, Started, Opening, port, world, Failing, LockInv
  <1>4. ASSUME NEW f \in Files, OpenStartup(f) PROVE PortInv'
    <2>1. /\ UpOK' /\ infoTty' = infoTty
          /\ "INIT" \in flags' \/ (Failing' /\ ioError')
      BY <1>4, <1>0, StartupEffect DEF OpenStartup, Failing, world
    <2>2. \A g \in Files : g # f => pc'[g] = pc[g]
      BY <1>4 DEF OpenStartup
    <2>3. \A g \in Files : g # f => pc[g] \notin Opening
      BY <1>4 DEF OpenStartup, LockInv, Opening
    <2> QED BY <1>4, <2>1, <2>2, <2>3, <1>0 DEF UpOK, Started, Opening, OpenStartup
  <1>5. ASSUME NEW f \in Files, WaitTest(f) PROVE PortInv'
    BY <1>5 DEF WaitTest, Started, Opening, port, world, Failing, LockInv
  <1>6. ASSUME NEW f \in Files, Signal(f) PROVE PortInv'
    BY <1>6 DEF Signal, Started, Opening, port, world, Failing, LockInv
  <1>7. ASSUME NEW f \in Files, Woken(f) PROVE PortInv'
    BY <1>7 DEF Woken, Started, Opening, port, world, Failing, LockInv
  <1>8. ASSUME NEW f \in Files, Finish(f) PROVE PortInv'
    BY <1>8 DEF Finish, Started, Opening, port, world, Failing, LockInv
  <1>9. ASSUME NEW f \in Files, Activate(f) PROVE PortInv'
    <2>1. UpOK' /\ infoTty' = infoTty
      BY <1>9, <1>0, ActivateEffect DEF Started, Activate
    <2>2. \A g \in Files : g # f => pc[g] \notin Opening
      BY <1>9 DEF Activate, LockInv, Opening
    <2>3. pc' = [pc EXCEPT ![f] = "open"]
      BY <1>9 DEF Activate
    <2> QED BY <2>1, <2>2, <2>3 DEF UpOK, Started, Opening
  <1>10. ASSUME NEW f \in Files, SetInfo(f) PROVE PortInv'
    BY <1>10 DEF SetInfo, Started, Opening, port, world, Failing, LockInv
  <1>11. ASSUME NEW f \in Files, SetInfoRun(f) PROVE PortInv'
    <2>1. /\ UpOK' /\ infoTty' = infoTty
          /\ "INIT" \in flags' \/ (Failing' /\ ioError')
      BY <1>11, <1>0, SetInfoEffect DEF SetInfoRun, Failing, world
    <2>2. \A g \in Files : pc'[g] = pc[g] \/ pc'[g] = "open"
      BY <1>11 DEF SetInfoRun
    <2> QED BY <2>1, <2>2, <1>0 DEF UpOK, Started, Opening
  <1>12. ASSUME NEW f \in Files, Close(f) PROVE PortInv'
    BY <1>12 DEF Close, Started, Opening, port, world, Failing, LockInv
  <1>13. ASSUME NEW f \in Files, CloseRun(f) PROVE PortInv'
    <2>1. UpOK'
      BY <1>13, <1>0, CloseEffect
    <2>2. \A g \in Files : pc'[g] \notin Opening
      BY <1>13 DEF CloseRun, LockInv, Opening
    <2> QED BY <2>1, <2>2 DEF UpOK, Started, Opening
  <1>14. CASE Hangup
    BY <1>14 DEF Hangup, Started, Opening, port, world, Failing, LockInv
  <1>15. CASE HangupRun
    <2>1. UpOK'
      BY <1>15, <1>0, HangupEffect
    <2>2. \A g \in Files : pc'[g] \notin Opening
      BY <1>15, SerialOpenAssumption DEF HangupRun, LockInv, Opening
    <2> QED BY <2>1, <2>2 DEF UpOK, Started, Opening
  <1>16. CASE CarrierChange
    BY <1>16 DEF CarrierChange, Started, Opening, port, world, Failing, LockInv
  <1>17. CASE Interrupt
    BY <1>17 DEF Interrupt, Started, Opening, port, world, Failing, LockInv
  <1>18. CASE Resume
    <2>1. /\ UpOK' /\ infoTty' = infoTty
          /\ "INIT" \in flags' \/ (Failing' /\ ioError')
      BY <1>18, <1>0, ResumeEffect DEF Resume, Failing, world
    <2>2. \A g \in Files : pc'[g] = pc[g] \/ pc'[g] = "open"
      BY <1>18 DEF Resume
    <2> QED BY <2>1, <2>2, <1>0 DEF UpOK, Started, Opening
  <1>19. CASE UNCHANGED vars
    BY <1>19 DEF vars, port, world, Failing
  <1> QED BY <1>1, <1>2, <1>3, <1>4, <1>5, <1>6, <1>7, <1>8, <1>9, <1>10, <1>11,
             <1>12, <1>13, <1>14, <1>15, <1>16, <1>17, <1>18, <1>19 DEF Next, Step

----------------------------------------------------------------------------
(* Counting *)

\* Cardinalities of sets of files.
LEMMA CardAdd ==
    ASSUME NEW S \in SUBSET Files, NEW f \in Files, f \notin S
    PROVE  Cardinality(S \cup {f}) = Cardinality(S) + 1
  BY SerialOpenAssumption, FS_Subset, FS_AddElement

\* The same for a file that leaves the set.
LEMMA CardRemove ==
    ASSUME NEW S \in SUBSET Files, NEW f \in S
    PROVE  Cardinality(S \ {f}) = Cardinality(S) - 1
  BY SerialOpenAssumption, FS_Subset, FS_RemoveElement

\* The same for bounds and the empty set.
LEMMA CardRange ==
    ASSUME NEW S \in SUBSET Files
    PROVE  /\ Cardinality(S) \in Nat /\ Cardinality(Files) \in Nat
           /\ Cardinality(S) <= Cardinality(Files)
           /\ Cardinality(S) = 0 <=> S = {}
  BY SerialOpenAssumption, FS_Subset, FS_CardinalityType, FS_EmptySet

\* References are taken and given back one for one, but for the opens that
\* were interrupted in snx_ser_get.
LEMMA RefsStep == Typing /\ RefsInv /\ [Next]_vars => RefsInv'
  <1> SUFFICES ASSUME Typing, RefsInv, [Next]_vars PROVE RefsInv'
    OBVIOUS
  <1>n. /\ Cardinality(Givers) \in Nat /\ Cardinality(Files) \in Nat /\ refs \in Int
        /\ Cardinality(Givers) - refs \in 0 .. 2 * Cardinality(Files)
        /\ Givers \in SUBSET Files
    BY CardRange DEF Givers, Typing, RefsInv
  <1>a. ASSUME Givers' = Givers, UNCHANGED <<refs, env>> PROVE RefsInv'
    BY <1>a DEF RefsInv, Signals
  <1>b. ASSUME NEW f \in Givers, Givers' = Givers \ {f}, refs' = refs - 1, env' = env
        PROVE  RefsInv'
    <2>1. Cardinality(Givers') = Cardinality(Givers) - 1
      BY <1>b, <1>n, CardRemove
    <2> QED BY <2>1, <1>b, <1>n DEF RefsInv, Signals
  <1>c. ASSUME NEW f \in Files, f \notin Givers, Givers' = Givers \cup {f},
               refs' = refs + 1, env' = env
        PROVE  RefsInv'
    <2>1. Cardinality(Givers') = Cardinality(Givers) + 1
      BY <1>c, <1>n, CardAdd
    <2> QED BY <2>1, <1>c, <1>n DEF RefsInv, Signals
  <1> USE DEF Givers, Goto, Typing, world
  <1>1. ASSUME NEW f \in Files, Open(f) PROVE RefsInv'
    BY <1>1, <1>a DEF Open
  <1>2. ASSUME NEW f \in Files, Get(f) PROVE RefsInv'
    BY <1>2, <1>a DEF Get
  <1>3. ASSUME NEW f \in Files, GetInterrupted(f) PROVE RefsInv'
    <2>1. f \notin Givers /\ Givers' = Givers \cup {f} /\ refs' = refs /\ env' = env
      BY <1>3 DEF GetInterrupted
    <2>2. Cardinality(Givers') = Cardinality(Givers) + 1
      BY <2>1, CardAdd
    <2>3. Cardinality(Givers') <= Cardinality(Files) /\ Cardinality(Attached) <= Cardinality(Files)
      BY <2>1, CardRange DEF Attached
    <2>4. refs + Cardinality(Attached) > 0
      BY <1>3 DEF GetInterrupted
    <2>5. Cardinality(Attached) \in Nat
      BY CardRange DEF Attached
    <2>6. "get" \in Signals'
      BY <1>3 DEF GetInterrupted, Signals
    <2> QED BY <2>1, <2>2, <2>3, <2>4, <2>5, <2>6, <1>n DEF RefsInv
  <1>4. ASSUME NEW f \in Files, OpenStartup(f) PROVE RefsInv'
    <2>1. CASE Goto(f, "wait_test") /\ UNCHANGED refs
      <3>1. Givers' = Givers
        BY <1>4, <2>1 DEF OpenStartup
      <3> QED BY <1>4, <2>1, <3>1, <1>a DEF OpenStartup
    <2>2. CASE Goto(f, "failed") /\ TakeModule
      <3>1. f \notin Givers /\ Givers' = Givers \cup {f} /\ refs' = refs + 1
        BY <1>4, <2>2 DEF OpenStartup, TakeModule
      <3> QED BY <1>4, <3>1, <1>c DEF OpenStartup
    <2> QED BY <1>4, <2>1, <2>2 DEF OpenStartup
  <1>5. ASSUME NEW f \in Files, WaitTest(f) PROVE RefsInv'
    BY <1>5, <1>a DEF WaitTest
  <1>6. ASSUME NEW f \in Files, Signal(f) PROVE RefsInv'
    BY <1>6, <1>a DEF Signal
  <1>7. ASSUME NEW f \in Files, Woken(f) PROVE RefsInv'
    BY <1>7, <1>a DEF Woken
  <1>8. ASSUME NEW f \in Files, Finish(f) PROVE RefsInv'
    <2>1. CASE Goto(f, "activate") /\ UNCHANGED refs
      <3>1. Givers' = Givers
        BY <1>8, <2>1 DEF Finish
      <3> QED BY <1>8, <2>1, <3>1, <1>a DEF Finish
    <2>2. CASE Goto(f, "failed") /\ TakeModule
      <3>1. f \notin Givers /\ Givers' = Givers \cup {f} /\ refs' = refs + 1
        BY <1>8, <2>2 DEF Finish, TakeModule
      <3> QED BY <1>8, <3>1, <1>c DEF Finish
    <2> QED BY <1>8, <2>1, <2>2 DEF Finish
  <1>9. ASSUME NEW f \in Files, Activate(f) PROVE RefsInv'
    <2>1. f \notin Givers /\ Givers' = Givers \cup {f} /\ refs' = refs + 1
      BY <1>9 DEF Activate, TakeModule
    <2> QED BY <1>9, <2>1, <1>c DEF Activate
  <1>10. ASSUME NEW f \in Files, SetInfo(f) PROVE RefsInv'
    BY <1>10, <1>a DEF SetInfo
  <1>11. ASSUME NEW f \in Files, SetInfoRun(f) PROVE RefsInv'
    BY <1>11, <1>a DEF SetInfoRun
  <1>12. ASSUME NEW f \in Files, Close(f) PROVE RefsInv'
    BY <1>12, <1>a DEF Close
  <1>13. ASSUME NEW f \in Files, CloseRun(f) PROVE RefsInv'
    <2>1. f \in Givers /\ Givers' = Givers \ {f} /\ refs' = refs - 1
      BY <1>13 DEF CloseRun, GiveModule
    <2> QED BY <1>13, <2>1, <1>b DEF CloseRun
  <1>14. CASE Hangup
    BY <1>14, <1>a DEF Hangup
  <1>15. CASE HangupRun
    BY <1>15, <1>a DEF HangupRun
  <1>16. CASE CarrierChange
    BY <1>16, <1>a DEF CarrierChange
  <1>17. CASE Interrupt
    BY <1>17, <1>a DEF Interrupt
  <1>18. CASE Resume
    BY <1>18, <1>a DEF Resume
  <1>19. CASE UNCHANGED vars
    BY <1>19, <1>a DEF vars
  <1> QED BY <1>1, <1>2, <1>3, <1>4, <1>5, <1>6, <1>7, <1>8, <1>9, <1>10, <1>11,
             <1>12, <1>13, <1>14, <1>15, <1>16, <1>17, <1>18, <1>19 DEF Next, Step

\* A set with a member and at most one element has no other.
LEMMA CardOne ==
    ASSUME NEW S \in SUBSET Files, NEW f \in S, Cardinality(S) <= 1
    PROVE  S = {f}
  <1>1. Cardinality(S \ {f}) = Cardinality(S) - 1
    BY CardRemove
  <1>2. Cardinality(S) \in Nat /\ Cardinality(S \ {f}) \in Nat
    BY CardRange
  <1>3. Cardinality(S \ {f}) = 0
    BY <1>1, <1>2
  <1> QED BY <1>3, CardRange

\* The close that finds itself last on a count that no file was kept off is
\* alone (snx_ser_close).
LEMMA LastClose ==
    ASSUME Typing, CountInv, count \in Nat, NEW f \in Files, pc[f] = "closing",
           f \notin hungUp, Cardinality(Attached) = 1 \/ count <= 1, "get" \notin Signals
    PROVE  Counted = {f}
  <1>1. f \in Counted /\ f \in Attached /\ Counted \subseteq Attached
    BY DEF Counted, Attached, Typing
  <1>2. CASE Cardinality(Attached) = 1
    <2>1. Attached = {f}
      BY <1>1, <1>2, CardOne DEF Attached
    <2> QED BY <1>1, <2>1
  <1>3. CASE count <= 1
    <2>1. Counted \in SUBSET Files
      BY DEF Counted
    <2>2. Cardinality(Counted) <= 1
      BY <1>3, <2>1, CardRange DEF CountInv
    <2> QED BY <1>1, <2>1, <2>2, CardOne
  <1> QED BY <1>2, <1>3

\* state->count follows the files that are counted.
LEMMA CountStep ==
    Typing /\ LockInv /\ EnvInv /\ PortInv /\ DownInv /\ CountInv /\
    count \in Nat /\ [Next]_vars
        => (CountInv /\ count \in Nat)'
  <1> SUFFICES ASSUME Typing, LockInv, EnvInv, PortInv, DownInv, CountInv,
                      count \in Nat, [Next]_vars
               PROVE (CountInv /\ count \in Nat)'
    OBVIOUS
  <1>n. Cardinality(Counted) \in Nat /\ Counted \in SUBSET Files /\ count \in Nat
    BY CardRange DEF Counted
  <1>p. PortTyping /\ UpOK /\ count \in Int
    BY DEF Typing, PortInv, PortTyping, UpOK
  <1>a. ASSUME Counted' = Counted, UNCHANGED <<count, env>>,
               ttyLock = "hangup" => ttyLock' = "hangup",
               \A g \in Files : pc'[g] = "startup" => pc[g] = "startup"
        PROVE  CountInv' /\ count' \in Nat
    BY <1>a DEF CountInv, Signals, InactiveHangup, Hangups, Failing
  <1>b. ASSUME NEW f \in Counted, Counted' = Counted \ {f}, count' = count - 1,
               count > 0, ttyLock = f, env' = env,
               \A g \in Files : pc'[g] # "startup"
        PROVE  CountInv' /\ count' \in Nat
    <2>1. Cardinality(Counted') = Cardinality(Counted) - 1
      BY <1>b, <1>n, CardRemove
    <2>2. ttyLock # "hangup"
      BY <1>b, <1>n, SerialOpenAssumption
    <2> QED BY <2>1, <2>2, <1>b, <1>n DEF CountInv, Signals, InactiveHangup, Hangups, Failing
  <1>c. ASSUME NEW f \in Files, f \notin Counted, Counted' = Counted \cup {f},
               count' = count + 1, ttyLock = f, env' = env
        PROVE  CountInv' /\ count' \in Nat
    <2>1. Cardinality(Counted') = Cardinality(Counted) + 1
      BY <1>c, <1>n, CardAdd
    <2>2. ttyLock # "hangup"
      BY <1>c, SerialOpenAssumption
    <2> QED BY <2>1, <2>2, <1>c, <1>n DEF CountInv, Signals, InactiveHangup, Hangups, Failing
  <1> USE DEF Counted, Goto, Typing, world
  <1>1. ASSUME NEW f \in Files, Open(f) PROVE (CountInv /\ count \in Nat)'
    <2>1. Counted' = Counted /\ UNCHANGED <<count, env>>
      BY <1>1 DEF EnvInv, Attached, Open
    <2>2. ttyLock = "hangup" => ttyLock' = "hangup"
      BY <1>1, SerialOpenAssumption DEF Open
    <2>3. \A g \in Files : pc'[g] = "startup" => pc[g] = "startup"
      BY <1>1 DEF Open
    <2> QED BY <2>1, <2>2, <2>3, <1>a
  <1>2. ASSUME NEW f \in Files, Get(f) PROVE (CountInv /\ count \in Nat)'
    <2>1. f \notin Counted /\ Counted' = Counted \cup {f} /\ count' = count + 1 /\ env' = env
      BY <1>2 DEF Get, EnvInv, Opening
    <2>2. ttyLock' = f /\ ttyLock = f
      BY <1>2 DEF Get, LockInv, Opening
    <2> QED BY <2>1, <2>2, <1>c, <1>2 DEF Get
  <1>3. ASSUME NEW f \in Files, GetInterrupted(f) PROVE (CountInv /\ count \in Nat)'
    <2>1. f \notin Counted /\ Counted' = Counted \cup {f} /\ count' = count /\ env' = env
      BY <1>3 DEF GetInterrupted, EnvInv, Opening
    <2>2. Cardinality(Counted') = Cardinality(Counted) + 1
      BY <2>1, CardAdd
    <2>3. ttyLock = f /\ \A g \in Files : pc'[g] # "startup"
      BY <1>3 DEF GetInterrupted, LockInv, Opening
    <2>4. "get" \in Signals' /\ (InactiveHangup' <=> InactiveHangup)
      BY <1>3 DEF GetInterrupted, Signals, InactiveHangup, Hangups, Failing
    <2> QED BY <2>1, <2>2, <2>3, <2>4, <1>n, SerialOpenAssumption DEF CountInv
  <1>4. ASSUME NEW f \in Files, OpenStartup(f) PROVE (CountInv /\ count \in Nat)'
    <2>0. count > 0 /\ ttyLock = f /\ env' = env
      BY <1>4 DEF OpenStartup, CountInv, LockInv, Opening
    <2>1. CASE Goto(f, "wait_test") /\ CountOff /\ UNCHANGED ttyLock
      <3>1. f \in Counted /\ Counted' = Counted \ {f} /\ count' = count - 1
        BY <1>4, <2>1 DEF OpenStartup, CountOff, EnvInv, Opening
      <3>2. \A g \in Files : pc'[g] # "startup"
        BY <1>4, <2>1 DEF OpenStartup, LockInv, Opening
      <3> QED BY <2>0, <3>1, <3>2, <1>b
    <2>2. CASE Goto(f, "failed") /\ UNCHANGED count /\ ttyLock' = "nobody"
      <3>1. Counted' = Counted
        BY <1>4, <2>2 DEF OpenStartup
      <3>2. \A g \in Files : pc'[g] = "startup" => pc[g] = "startup"
        BY <1>4, <2>2 DEF OpenStartup
      <3> QED BY <2>0, <2>2, <3>1, <3>2, <1>a, SerialOpenAssumption
    <2> QED BY <1>4, <2>1, <2>2 DEF OpenStartup
  <1>5. ASSUME NEW f \in Files, WaitTest(f) PROVE (CountInv /\ count \in Nat)'
    <2>1. Counted' = Counted /\ UNCHANGED <<count, env>>
      BY <1>5 DEF WaitTest
    <2>2. ttyLock = "hangup" => ttyLock' = "hangup"
      BY <1>5, SerialOpenAssumption DEF WaitTest
    <2>3. \A g \in Files : pc'[g] = "startup" => pc[g] = "startup"
      BY <1>5 DEF WaitTest
    <2> QED BY <2>1, <2>2, <2>3, <1>a
  <1>6. ASSUME NEW f \in Files, Signal(f) PROVE (CountInv /\ count \in Nat)'
    <2>1. Counted' = Counted /\ UNCHANGED <<count, env>>
      BY <1>6 DEF Signal
    <2>2. ttyLock = "hangup" => ttyLock' = "hangup"
      BY <1>6, SerialOpenAssumption DEF Signal
    <2>3. \A g \in Files : pc'[g] = "startup" => pc[g] = "startup"
      BY <1>6 DEF Signal
    <2> QED BY <2>1, <2>2, <2>3, <1>a
  <1>7. ASSUME NEW f \in Files, Woken(f) PROVE (CountInv /\ count \in Nat)'
    <2>1. Counted' = Counted /\ UNCHANGED <<count, env>>
      BY <1>7 DEF Woken
    <2>2. ttyLock = "hangup" => ttyLock' = "hangup"
      BY <1>7, SerialOpenAssumption DEF Woken
    <2>3. \A g \in Files : pc'[g] = "startup" => pc[g] = "startup"
      BY <1>7 DEF Woken
    <2> QED BY <2>1, <2>2, <2>3, <1>a
  <1>8. ASSUME NEW f \in Files, Finish(f) PROVE (CountInv /\ count \in Nat)'
    <2>1. f \notin Counted /\ Counted' = Counted \cup {f} /\ count' = count + 1 /\ env' = env
      BY <1>8 DEF Finish, EnvInv, Opening
    <2>2. ttyLock = f /\ \A g \in Files : pc'[g] # "startup"
      BY <1>8 DEF Finish, LockInv, Opening
    <2> QED BY <2>1, <2>2, <1>c
  <1>9. ASSUME NEW f \in Files, Activate(f) PROVE (CountInv /\ count \in Nat)'
    <2>1. Counted' = Counted /\ UNCHANGED <<count, env>>
      BY <1>9 DEF Activate
    <2>2. ttyLock = "hangup" => ttyLock' = "hangup"
      BY <1>9, SerialOpenAssumption DEF LockInv, Opening, Activate
    <2>3. \A g \in Files : pc'[g] = "startup" => pc[g] = "startup"
      BY <1>9 DEF Activate
    <2> QED BY <2>1, <2>2, <2>3, <1>a
  <1>10. ASSUME NEW f \in Files, SetInfo(f) PROVE (CountInv /\ count \in Nat)'
    <2>1. Counted' = Counted /\ UNCHANGED <<count, env>>
      BY <1>10 DEF SetInfo
    <2>2. ttyLock = "hangup" => ttyLock' = "hangup"
      BY <1>10, SerialOpenAssumption DEF SetInfo
    <2>3. \A g \in Files : pc'[g] = "startup" => pc[g] = "startup"
      BY <1>10 DEF SetInfo
    <2> QED BY <2>1, <2>2, <2>3, <1>a
  <1>11. ASSUME NEW f \in Files, SetInfoRun(f) PROVE (CountInv /\ count \in Nat)'
    <2>1. Counted' = Counted /\ UNCHANGED <<count, env>>
      BY <1>11 DEF SetInfoRun
    <2>2. ttyLock = "hangup" => ttyLock' = "hangup"
      BY <1>11, SerialOpenAssumption DEF SetInfoRun
    <2>3. \A g \in Files : pc'[g] = "startup" => pc[g] = "startup"
      BY <1>11 DEF SetInfoRun
    <2> QED BY <2>1, <2>2, <2>3, <1>a
  <1>12. ASSUME NEW f \in Files, Close(f) PROVE (CountInv /\ count \in Nat)'
    <2>1. Counted' = Counted /\ UNCHANGED <<count, env>>
      BY <1>12 DEF Close
    <2>2. ttyLock = "hangup" => ttyLock' = "hangup"
      BY <1>12, SerialOpenAssumption DEF Close
    <2>3. \A g \in Files : pc'[g] = "startup" => pc[g] = "startup"
      BY <1>12 DEF Close
    <2> QED BY <2>1, <2>2, <2>3, <1>a
  <1>13. ASSUME NEW f \in Files, CloseRun(f) PROVE (CountInv /\ count \in Nat)'
    <2>0. /\ UNCHANGED env /\ ttyLock = f /\ pc[f] = "closing"
          /\ hungUp' = hungUp \ {f} /\ pc' = [pc EXCEPT ![f] = "closed"]
          /\ \A g \in Files : pc'[g] # "startup"
      BY <1>13 DEF CloseRun, LockInv, Opening
    <2>1. CASE f \in hungUp /\ count' = count
      <3>1. Counted' = Counted
        BY <2>0, <2>1
      <3> QED BY <2>0, <2>1, <3>1, <1>a, SerialOpenAssumption
    <2>2. CASE f \notin hungUp /\ count > 1 /\ count' = count - 1
      <3>1. f \in Counted /\ Counted' = Counted \ {f}
        BY <2>0, <2>2
      <3> QED BY <2>0, <2>2, <3>1, <1>b
    <2>3. CASE f \notin hungUp /\ (Cardinality(Attached) = 1 \/ count <= 1) /\ count' = 0
      <3>1. f \in Counted /\ Counted' = Counted \ {f}
        BY <2>0, <2>3
      <3>2. "get" \notin Signals => Counted = {f}
        BY <2>0, <2>3, LastClose
      <3>3. "get" \notin Signals' => Counted' = {}
        BY <3>1, <3>2, <2>0 DEF Signals
      <3>4. Cardinality(Counted') \in Nat /\ (Counted' = {} => Cardinality(Counted') = 0)
        BY <3>1, <1>n, CardRange
      <3> QED BY <2>0, <2>3, <3>3, <3>4 DEF CountInv
    <2> QED BY <2>1, <2>2, <2>3, <1>13, <1>p, CloseEffect
  <1>14. CASE Hangup
    <2>1. Counted' = {} /\ ttyLock' = "hangup" /\ count' = count
      BY <1>14 DEF Hangup, Attached
    <2>2. \A g \in Files : pc'[g] # "startup"
      BY <1>14, SerialOpenAssumption DEF Hangup, LockInv, Opening
    <2> QED BY <2>1, <2>2, CardRange DEF CountInv
  <1>15. CASE HangupRun
    <2>1. Counted' = {} /\ Cardinality(Counted') = 0 /\ env' = env /\ ttyLock = "hangup"
      BY <1>15, CardRange DEF HangupRun, EnvInv, Attached
    <2>2. \A g \in Files : pc[g] \notin Opening /\ pc'[g] # "startup"
      BY <1>15, SerialOpenAssumption DEF HangupRun, LockInv, Opening
    <2>3. "ACTIVE" \notin flags /\ ~InactiveHangup => count = 0
      BY <2>1, <2>2 DEF DownInv, EnvInv
    <2>4. count' = 0 \/ ("ACTIVE" \notin flags /\ count' = count)
      BY <1>15, <1>p, HangupEffect
    <2>5. InactiveHangup' <=> InactiveHangup
      BY <2>1 DEF InactiveHangup, Hangups, Failing, Signals
    <2> QED BY <2>1, <2>2, <2>3, <2>4, <2>5 DEF CountInv
  <1>16. CASE CarrierChange
    <2>1. Counted' = Counted /\ UNCHANGED <<count, env>>
      BY <1>16 DEF CarrierChange
    <2>2. ttyLock = "hangup" => ttyLock' = "hangup"
      BY <1>16, SerialOpenAssumption DEF CarrierChange
    <2>3. \A g \in Files : pc'[g] = "startup" => pc[g] = "startup"
      BY <1>16 DEF CarrierChange
    <2> QED BY <2>1, <2>2, <2>3, <1>a
  <1>17. CASE Interrupt
    <2>1. Counted' = Counted /\ UNCHANGED <<count, env>>
      BY <1>17 DEF Interrupt
    <2>2. ttyLock = "hangup" => ttyLock' = "hangup"
      BY <1>17, SerialOpenAssumption DEF Interrupt
    <2>3. \A g \in Files : pc'[g] = "startup" => pc[g] = "startup"
      BY <1>17 DEF Interrupt
    <2> QED BY <2>1, <2>2, <2>3, <1>a
  <1>18. CASE Resume
    <2>1. Counted' = Counted /\ UNCHANGED <<count, env>>
      BY <1>18 DEF Resume
    <2>2. ttyLock = "hangup" => ttyLock' = "hangup"
      BY <1>18, SerialOpenAssumption DEF Resume
    <2>3. \A g \in Files : pc'[g] = "startup" => pc[g] = "startup"
      BY <1>18 DEF Resume
    <2> QED BY <2>1, <2>2, <2>3, <1>a
  <1>19. CASE UNCHANGED vars
    BY <1>19, <1>a DEF vars
  <1> QED BY <1>1, <1>2, <1>3, <1>4, <1>5, <1>6, <1>7, <1>8, <1>9, <1>10, <1>11,
             <1>12, <1>13, <1>14, <1>15, <1>16, <1>17, <1>18, <1>19 DEF Next, Step

----------------------------------------------------------------------------
(* Up while used, down when unused *)

\* No close, hangup or resume takes the port from a file in use.
LEMMA UseStep ==
    Typing /\ EnvInv /\ PortInv /\ CountInv /\ count \in Nat /\ UseInv /\
    [Next]_vars
        => UseInv'
  <1> SUFFICES ASSUME Typing, EnvInv, PortInv, CountInv, count \in Nat, UseInv,
                      [Next]_vars
               PROVE UseInv'
    OBVIOUS
  <1>p. PortTyping /\ UpOK /\ count \in Int
    BY DEF Typing, PortInv, PortTyping, UpOK
  <1>a. ASSUME InUse' \subseteq InUse, UNCHANGED <<infoTty, env>>,
               "INIT" \in flags => "INIT" \in flags'
        PROVE  UseInv'
    BY <1>a DEF UseInv, Signals, Failing
  <1> USE DEF InUse, Goto, Typing, world
  <1>1. ASSUME NEW f \in Files, Open(f) PROVE UseInv'
    <2>1. InUse' \subseteq InUse
      BY <1>1 DEF Open
    <2>2. UNCHANGED <<infoTty, env>> /\ ("INIT" \in flags => "INIT" \in flags')
      BY <1>1 DEF Open, port
    <2> QED BY <2>1, <2>2, <1>a
  <1>2. ASSUME NEW f \in Files, Get(f) PROVE UseInv'
    <2>1. InUse' \subseteq InUse
      BY <1>2 DEF Get
    <2>2. infoTty' = "live" /\ env' = env /\ UNCHANGED flags
      BY <1>2 DEF Get, port
    <2> QED BY <2>1, <2>2 DEF UseInv, Signals, Failing
  <1>3. ASSUME NEW f \in Files, GetInterrupted(f) PROVE UseInv'
    <2>1. InUse' \subseteq InUse
      BY <1>3 DEF GetInterrupted
    <2>2. UNCHANGED <<infoTty, env>> /\ ("INIT" \in flags => "INIT" \in flags')
      BY <1>3 DEF GetInterrupted, port
    <2> QED BY <2>1, <2>2, <1>a
  <1>4. ASSUME NEW f \in Files, OpenStartup(f) PROVE UseInv'
    <2>1. InUse' \subseteq InUse
      BY <1>4 DEF OpenStartup
    <2>2. UNCHANGED <<infoTty, env>> /\ ("INIT" \in flags => "INIT" \in flags')
      BY <1>4, <1>p, StartupEffect DEF OpenStartup
    <2> QED BY <2>1, <2>2, <1>a
  <1>5. ASSUME NEW f \in Files, WaitTest(f) PROVE UseInv'
    <2>1. InUse' \subseteq InUse
      BY <1>5 DEF WaitTest
    <2>2. UNCHANGED <<infoTty, env>> /\ ("INIT" \in flags => "INIT" \in flags')
      BY <1>5 DEF WaitTest, port
    <2> QED BY <2>1, <2>2, <1>a
  <1>6. ASSUME NEW f \in Files, Signal(f) PROVE UseInv'
    <2>1. InUse' \subseteq InUse
      BY <1>6 DEF Signal
    <2>2. UNCHANGED <<infoTty, env>> /\ ("INIT" \in flags => "INIT" \in flags')
      BY <1>6 DEF Signal, port
    <2> QED BY <2>1, <2>2, <1>a
  <1>7. ASSUME NEW f \in Files, Woken(f) PROVE UseInv'
    <2>1. InUse' \subseteq InUse
      BY <1>7 DEF Woken
    <2>2. UNCHANGED <<infoTty, env>> /\ ("INIT" \in flags => "INIT" \in flags')
      BY <1>7 DEF Woken, port
    <2> QED BY <2>1, <2>2, <1>a
  <1>8. ASSUME NEW f \in Files, Finish(f) PROVE UseInv'
    <2>1. InUse' \subseteq InUse
      BY <1>8 DEF Finish
    <2>2. UNCHANGED <<infoTty, env>> /\ ("INIT" \in flags => "INIT" \in flags')
      BY <1>8 DEF Finish, port
    <2> QED BY <2>1, <2>2, <1>a
  <1>9. ASSUME NEW f \in Files, Activate(f) PROVE UseInv'
    <2>1. infoTty' = "live" /\ ("INIT" \in flags \/ Failing) /\ env' = env
      BY <1>9 DEF Activate, PortInv, Opening, Started
    <2>2. "INIT" \in flags => "INIT" \in flags'
      BY <1>9, <1>p, ActivateEffect DEF Activate, PortInv, Started
    <2> QED BY <2>1, <2>2 DEF UseInv, Signals, Failing
  <1>10. ASSUME NEW f \in Files, SetInfo(f) PROVE UseInv'
    <2>1. InUse' \subseteq InUse
      BY <1>10 DEF SetInfo
    <2>2. UNCHANGED <<infoTty, env>> /\ ("INIT" \in flags => "INIT" \in flags')
      BY <1>10 DEF SetInfo, port
    <2> QED BY <2>1, <2>2, <1>a
  <1>11. ASSUME NEW f \in Files, SetInfoRun(f) PROVE UseInv'
    <2>1. InUse' = InUse
      BY <1>11 DEF SetInfoRun
    <2>2. UNCHANGED <<infoTty, env>> /\ ("INIT" \in flags' \/ Failing)
      BY <1>11, <1>p, SetInfoEffect DEF SetInfoRun
    <2> QED BY <2>1, <2>2 DEF UseInv, Signals, Failing
  <1>12. ASSUME NEW f \in Files, Close(f) PROVE UseInv'
    <2>1. InUse' \subseteq InUse
      BY <1>12 DEF Close
    <2>2. UNCHANGED <<infoTty, env>> /\ ("INIT" \in flags => "INIT" \in flags')
      BY <1>12 DEF Close, port
    <2> QED BY <2>1, <2>2, <1>a
  <1>13. ASSUME NEW f \in Files, CloseRun(f) PROVE UseInv'
    <2>0. /\ env' = env /\ pc[f] = "closing" /\ InUse' \subseteq InUse
          /\ InUse' = {g \in InUse : g # f}
      BY <1>13 DEF CloseRun
    <2>1. CASE /\ infoTty' = IF Attached = {f} /\ infoTty = "live" THEN "stale" ELSE infoTty
               /\ UNCHANGED flags
      <3>1. InUse # {} => Attached # {f}
        BY <2>0 DEF Attached
      <3> QED BY <2>0, <2>1, <3>1 DEF UseInv, Signals, Failing
    <2>2. CASE UNCHANGED <<flags, infoTty>>
      BY <2>0, <2>2, <1>a
    <2>3. CASE f \notin hungUp /\ (Cardinality(Attached) = 1 \/ count <= 1)
      <3>1. "get" \notin Signals => Counted = {f}
        BY <2>0, <2>3, LastClose
      <3>2. InUse \subseteq Counted
        BY DEF Counted
      <3>3. "get" \notin Signals => InUse' = {}
        BY <2>0, <3>1, <3>2
      <3> QED BY <2>0, <3>3 DEF UseInv, Signals
    <2> QED BY <1>13, <1>p, <2>1, <2>2, <2>3, CloseEffect
  <1>14. CASE Hangup
    <2>1. InUse' = {}
      BY <1>14 DEF Hangup, Attached
    <2> QED BY <2>1 DEF UseInv
  <1>15. CASE HangupRun
    <2>1. InUse' = {}
      BY <1>15 DEF HangupRun, EnvInv, Attached
    <2> QED BY <2>1 DEF UseInv
  <1>16. CASE CarrierChange
    <2>1. InUse' \subseteq InUse
      BY <1>16 DEF CarrierChange
    <2>2. UNCHANGED <<infoTty, env>> /\ ("INIT" \in flags => "INIT" \in flags')
      BY <1>16 DEF CarrierChange, port
    <2> QED BY <2>1, <2>2, <1>a
  <1>17. CASE Interrupt
    <2>1. InUse' \subseteq InUse
      BY <1>17 DEF Interrupt
    <2>2. UNCHANGED <<infoTty, env>> /\ ("INIT" \in flags => "INIT" \in flags')
      BY <1>17 DEF Interrupt, port
    <2> QED BY <2>1, <2>2, <1>a
  <1>18. CASE Resume
    <2>1. InUse' \subseteq InUse
      BY <1>18 DEF Resume
    <2>2. UNCHANGED <<infoTty, env>> /\ ("INIT" \in flags => "INIT" \in flags')
      BY <1>18, <1>p, ResumeEffect DEF Resume
    <2> QED BY <2>1, <2>2, <1>a
  <1>19. CASE UNCHANGED vars
    BY <1>19, <1>a DEF vars, port
  <1> QED BY <1>1, <1>2, <1>3, <1>4, <1>5, <1>6, <1>7, <1>8, <1>9, <1>10, <1>11,
             <1>12, <1>13, <1>14, <1>15, <1>16, <1>17, <1>18, <1>19 DEF Next, Step

\* A port without files is down, and so is one that never became ACTIVE.
LEMMA DownStep ==
    Typing /\ LockInv /\ EnvInv /\ PortInv /\ CountInv /\ count \in Nat /\
    DownInv /\ [Next]_vars
        => DownInv'
  <1> SUFFICES ASSUME Typing, LockInv, EnvInv, PortInv, CountInv, count \in Nat,
                      DownInv, [Next]_vars
               PROVE DownInv'
    OBVIOUS
  <1>p. PortTyping /\ UpOK /\ count \in Int
    BY DEF Typing, PortInv, PortTyping, UpOK
  <1>a. ASSUME UNCHANGED <<hungUp, env, infoTty, flags, count>>, Attached' = Attached,
               ttyLock = "hangup" => ttyLock' = "hangup",
               \A g \in Files : pc[g] \in Opening \ {"get"} => pc'[g] \in Opening \ {"get"}
        PROVE  DownInv'
    BY <1>a DEF DownInv, Down, InactiveHangup, Hangups, Failing, Signals
  <1>b. ASSUME UNCHANGED env, NEW f \in Files, f \in Attached' \ hungUp',
               \/ pc'[f] \in Opening \ {"get"} \/ "ACTIVE" \in flags' \/ Failing
               \/ "wait" \in Signals \/ ~Hangups
        PROVE  DownInv'
    BY <1>b DEF DownInv, InactiveHangup, Hangups, Failing, Signals
  <1> USE DEF Attached, Goto, Typing, world
  <1>1. ASSUME NEW f \in Files, Open(f) PROVE DownInv'
    <2>1. /\ UNCHANGED <<env, infoTty, flags, count>>
          /\ f \in Attached' \ hungUp'
      BY <1>1 DEF Open, port
    <2>2. \A g \in Files : pc[g] \in Opening \ {"get"} => pc'[g] = pc[g]
      BY <1>1 DEF Open, Opening
    <2> QED BY <2>1, <2>2 DEF DownInv, Down, InactiveHangup, Hangups, Failing, Signals
  <1>2. ASSUME NEW f \in Files, Get(f) PROVE DownInv'
    <2>1. UNCHANGED env /\ f \in Attached' \ hungUp'
      BY <1>2 DEF Get, EnvInv, Opening
    <2>2. pc'[f] \in Opening \ {"get"}
      BY <1>2 DEF Get, Opening
    <2> QED BY <2>1, <2>2, <1>b
  <1>3. ASSUME NEW f \in Files, GetInterrupted(f) PROVE DownInv'
    <2>1. /\ UNCHANGED <<env, infoTty, flags, count>>
          /\ f \in Attached' \ hungUp'
      BY <1>3 DEF GetInterrupted, port, EnvInv, Opening
    <2>2. \A g \in Files : pc[g] \notin Opening \ {"get"}
      BY <1>3 DEF GetInterrupted, LockInv, Opening
    <2> QED BY <2>1, <2>2 DEF DownInv, Down, InactiveHangup, Hangups, Failing, Signals
  <1>4. ASSUME NEW f \in Files, OpenStartup(f) PROVE DownInv'
    <2>1. UNCHANGED env /\ f \in Attached' \ hungUp'
      BY <1>4 DEF OpenStartup, EnvInv, Opening
    <2>2. pc'[f] \in Opening \ {"get"} \/ Failing
      BY <1>4, <1>p, StartupEffect DEF OpenStartup, Opening
    <2> QED BY <2>1, <2>2, <1>b
  <1>5. ASSUME NEW f \in Files, WaitTest(f) PROVE DownInv'
    <2>1. UNCHANGED env /\ f \in Attached' \ hungUp'
      BY <1>5 DEF WaitTest, EnvInv, Opening
    <2>2. pc'[f] \in Opening \ {"get"}
      BY <1>5 DEF WaitTest, Opening
    <2> QED BY <2>1, <2>2, <1>b
  <1>6. ASSUME NEW f \in Files, Signal(f) PROVE DownInv'
    <2>1. UNCHANGED env /\ f \in Attached' \ hungUp'
      BY <1>6 DEF Signal, EnvInv, Opening
    <2>2. pc'[f] \in Opening \ {"get"}
      BY <1>6 DEF Signal, Opening
    <2> QED BY <2>1, <2>2, <1>b
  <1>7. ASSUME NEW f \in Files, Woken(f) PROVE DownInv'
    <2>1. UNCHANGED env /\ f \in Attached' \ hungUp'
      BY <1>7 DEF Woken, EnvInv, Opening
    <2>2. pc'[f] \in Opening \ {"get"}
      BY <1>7 DEF Woken, Opening
    <2> QED BY <2>1, <2>2, <1>b
  <1>8. ASSUME NEW f \in Files, Finish(f) PROVE DownInv'
    <2>1. UNCHANGED env /\ f \in Attached' \ hungUp'
      BY <1>8 DEF Finish, EnvInv, Opening
    <2>2. pc'[f] \in Opening \ {"get"} \/ "wait" \in Signals
      BY <1>8 DEF Finish, Opening, EnvInv, PortInv
    <2> QED BY <2>1, <2>2, <1>b
  <1>9. ASSUME NEW f \in Files, Activate(f) PROVE DownInv'
    <2>1. UNCHANGED env /\ f \in Attached' \ hungUp'
      BY <1>9 DEF Activate, EnvInv, Opening
    <2>2. "ACTIVE" \in flags'
      BY <1>9, <1>p, ActivateEffect DEF Activate, PortInv, Started
    <2> QED BY <2>1, <2>2, <1>b
  <1>10. ASSUME NEW f \in Files, SetInfo(f) PROVE DownInv'
    <2>1. /\ UNCHANGED <<hungUp, env, infoTty, flags, count>>
          /\ Attached' = Attached /\ (ttyLock = "hangup" => ttyLock' = "hangup")
      BY <1>10, SerialOpenAssumption DEF SetInfo, port
    <2>2. \A g \in Files : pc[g] \in Opening \ {"get"} => pc'[g] \in Opening \ {"get"}
      BY <1>10 DEF SetInfo, Opening
    <2> QED BY <2>1, <2>2, <1>a
  <1>11. ASSUME NEW f \in Files, SetInfoRun(f) PROVE DownInv'
    <2>1. f \in Attached' /\ env' = env /\ f \in Setters /\ hungUp' = hungUp
      BY <1>11 DEF SetInfoRun, EnvInv
    <2>2. ~Hangups
      BY <2>1, SerialOpenAssumption DEF Hangups, Setters
    <2> QED BY <2>1, <2>2, <1>b DEF EnvInv
  <1>12. ASSUME NEW f \in Files, Close(f) PROVE DownInv'
    <2>1. /\ UNCHANGED <<hungUp, env, infoTty, flags, count>>
          /\ Attached' = Attached /\ (ttyLock = "hangup" => ttyLock' = "hangup")
      BY <1>12, SerialOpenAssumption DEF Close, port
    <2>2. \A g \in Files : pc[g] \in Opening \ {"get"} => pc'[g] \in Opening \ {"get"}
      BY <1>12 DEF Close, Opening
    <2> QED BY <2>1, <2>2, <1>a
  <1>13. ASSUME NEW f \in Files, CloseRun(f) PROVE DownInv'
    <2>0. /\ env' = env /\ pc[f] = "closing" /\ ttyLock = f
          /\ Attached' = Attached \ {f} /\ hungUp' = hungUp \ {f}
          /\ \A g \in Files : pc[g] \notin Opening \ {"get"}
      BY <1>13 DEF CloseRun, LockInv, Opening
    <2>1. CASE /\ f \in hungUp
               /\ infoTty' = IF Attached = {f} /\ infoTty = "live" THEN "stale" ELSE infoTty
               /\ UNCHANGED <<count, flags>>
      <3>1. Attached' \subseteq hungUp' => Attached \subseteq hungUp
        BY <2>0, <2>1
      <3>2. Down => Down'
        BY <2>1 DEF Down
      <3> QED BY <2>0, <2>1, <3>1, <3>2, SerialOpenAssumption
              DEF DownInv, InactiveHangup, Hangups, Failing, Signals
    <2>2. CASE f \notin hungUp /\ count > 1 /\ UNCHANGED <<flags, infoTty>>
      <3>1. ASSUME ~InactiveHangup PROVE ~(Attached' \subseteq hungUp')
        <4>1. Cardinality(Counted) > 1 /\ Counted \in SUBSET Files
          BY <2>0, <2>2, <3>1, CardRange, SerialOpenAssumption DEF CountInv, Counted
        <4>2. f \in Counted
          BY <2>0, <2>2 DEF Counted
        <4>3. Cardinality(Counted \ {f}) # 0
          BY <4>1, <4>2, CardRemove, CardRange
        <4>4. Counted \ {f} # {}
          BY <4>3, <4>1, CardRange
        <4>5. PICK g \in Counted : g # f
          BY <4>4
        <4> QED BY <2>0, <4>5 DEF Counted
      <3> QED BY <2>0, <2>2, <3>1 DEF DownInv, InactiveHangup, Hangups, Failing, Signals
    <2>3. CASE count' = 0 /\ infoTty' = "null" /\ "INIT" \notin flags'
      BY <2>3 DEF DownInv, Down
    <2> QED BY <1>13, <1>p, <2>1, <2>2, <2>3, CloseEffect
  <1>14. CASE Hangup
    <2>1. UNCHANGED <<pc, env, infoTty, flags, count>> /\ ttyLock' = "hangup"
      BY <1>14 DEF Hangup, port
    <2> QED BY <2>1 DEF DownInv, Down, InactiveHangup, Hangups, Failing, Signals
  <1>15. CASE HangupRun
    <2>0. ttyLock = "hangup" /\ env' = env /\ Hangups
      BY <1>15 DEF HangupRun, EnvInv
    <2>1. \A g \in Files : pc[g] \notin Opening \ {"get"}
      BY <2>0, SerialOpenAssumption DEF LockInv, Opening
    <2>2. CASE count' = 0 /\ infoTty' = "null" /\ "INIT" \notin flags'
      BY <2>2 DEF DownInv, Down
    <2>3. CASE "ACTIVE" \notin flags /\ UNCHANGED <<flags, count, infoTty>>
      BY <2>0, <2>1, <2>3 DEF DownInv, Down, InactiveHangup, Hangups, Failing, Signals
    <2> QED BY <1>15, <1>p, <2>2, <2>3, HangupEffect
  <1>16. CASE CarrierChange
    <2>1. /\ UNCHANGED <<hungUp, env, infoTty, flags, count>>
          /\ Attached' = Attached /\ (ttyLock = "hangup" => ttyLock' = "hangup")
      BY <1>16, SerialOpenAssumption DEF CarrierChange, port
    <2>2. \A g \in Files : pc[g] \in Opening \ {"get"} => pc'[g] \in Opening \ {"get"}
      BY <1>16 DEF CarrierChange, Opening
    <2> QED BY <2>1, <2>2, <1>a
  <1>17. CASE Interrupt
    <2>1. /\ UNCHANGED <<hungUp, env, infoTty, flags, count>>
          /\ Attached' = Attached /\ (ttyLock = "hangup" => ttyLock' = "hangup")
      BY <1>17, SerialOpenAssumption DEF Interrupt, port
    <2>2. \A g \in Files : pc[g] \in Opening \ {"get"} => pc'[g] \in Opening \ {"get"}
      BY <1>17 DEF Interrupt, Opening
    <2> QED BY <2>1, <2>2, <1>a
  <1>18. CASE Resume
    <2>1. /\ infoTty = "live" /\ UNCHANGED <<pc, hungUp, ttyLock, infoTty, count, env>>
      BY <1>18 DEF Resume
    <2>2. "ACTIVE" \in flags' <=> "ACTIVE" \in flags
      BY <1>18, <1>p, ResumeEffect
    <2> QED BY <2>1, <2>2 DEF DownInv, Down, InactiveHangup, Hangups, Failing, Signals
  <1>19. CASE UNCHANGED vars
    BY <1>19, <1>a DEF vars, port
  <1> QED BY <1>1, <1>2, <1>3, <1>4, <1>5, <1>6, <1>7, <1>8, <1>9, <1>10, <1>11,
             <1>12, <1>13, <1>14, <1>15, <1>16, <1>17, <1>18, <1>19 DEF Next, Step

\* The tty outlives the started port.
LEMMA TtyStep ==
    Typing /\ LockInv /\ EnvInv /\ PortInv /\ UseInv /\ DownInv /\ TtyInv /\
    [Next]_vars
        => TtyInv'
  <1> SUFFICES ASSUME Typing, LockInv, EnvInv, PortInv, UseInv, DownInv, TtyInv,
                      [Next]_vars
               PROVE TtyInv'
    OBVIOUS
  <1>p. PortTyping /\ UpOK /\ count \in Int
    BY DEF Typing, PortInv, PortTyping, UpOK
  <1>a. ASSUME UNCHANGED <<infoTty, env>>, "INIT" \in flags' => "INIT" \in flags
        PROVE  TtyInv'
    BY <1>a DEF TtyInv, InactiveHangup, Hangups, Failing, Signals
  <1> USE DEF world
  <1>1. ASSUME NEW f \in Files, Open(f) PROVE TtyInv'
    <2>1. UNCHANGED <<infoTty, env>> /\ ("INIT" \in flags' => "INIT" \in flags)
      BY <1>1 DEF Open, port
    <2> QED BY <2>1, <1>a
  <1>2. ASSUME NEW f \in Files, Get(f) PROVE TtyInv'
    BY <1>2 DEF Get, TtyInv
  <1>3. ASSUME NEW f \in Files, GetInterrupted(f) PROVE TtyInv'
    <2>1. UNCHANGED <<infoTty, env>> /\ ("INIT" \in flags' => "INIT" \in flags)
      BY <1>3 DEF GetInterrupted, port
    <2> QED BY <2>1, <1>a
  <1>4. ASSUME NEW f \in Files, OpenStartup(f) PROVE TtyInv'
    BY <1>4 DEF OpenStartup, TtyInv, PortInv, Opening
  <1>5. ASSUME NEW f \in Files, WaitTest(f) PROVE TtyInv'
    <2>1. UNCHANGED <<infoTty, env>> /\ ("INIT" \in flags' => "INIT" \in flags)
      BY <1>5 DEF WaitTest, port
    <2> QED BY <2>1, <1>a
  <1>6. ASSUME NEW f \in Files, Signal(f) PROVE TtyInv'
    <2>1. UNCHANGED <<infoTty, env>> /\ ("INIT" \in flags' => "INIT" \in flags)
      BY <1>6 DEF Signal, port
    <2> QED BY <2>1, <1>a
  <1>7. ASSUME NEW f \in Files, Woken(f) PROVE TtyInv'
    <2>1. UNCHANGED <<infoTty, env>> /\ ("INIT" \in flags' => "INIT" \in flags)
      BY <1>7 DEF Woken, port
    <2> QED BY <2>1, <1>a
  <1>8. ASSUME NEW f \in Files, Finish(f) PROVE TtyInv'
    <2>1. UNCHANGED <<infoTty, env>> /\ ("INIT" \in flags' => "INIT" \in flags)
      BY <1>8 DEF Finish, port
    <2> QED BY <2>1, <1>a
  <1>9. ASSUME NEW f \in Files, Activate(f) PROVE TtyInv'
    BY <1>9 DEF Activate, TtyInv, PortInv, Opening
  <1>10. ASSUME NEW f \in Files, SetInfo(f) PROVE TtyInv'
    <2>1. UNCHANGED <<infoTty, env>> /\ ("INIT" \in flags' => "INIT" \in flags)
      BY <1>10 DEF SetInfo, port
    <2> QED BY <2>1, <1>a
  <1>11. ASSUME NEW f \in Files, SetInfoRun(f) PROVE TtyInv'
    <2>1. f \in Setters /\ UNCHANGED <<infoTty, env>>
      BY <1>11 DEF SetInfoRun, EnvInv
    <2>2. f \in InUse
      BY <1>11, <2>1, SerialOpenAssumption DEF SetInfoRun, EnvInv, InUse, Hangups,
         Setters, Typing
    <2> QED BY <2>1, <2>2 DEF TtyInv, UseInv, InactiveHangup, Hangups, Failing, Signals
  <1>12. ASSUME NEW f \in Files, Close(f) PROVE TtyInv'
    <2>1. UNCHANGED <<infoTty, env>> /\ ("INIT" \in flags' => "INIT" \in flags)
      BY <1>12 DEF Close, port
    <2> QED BY <2>1, <1>a
  <1>13. ASSUME NEW f \in Files, CloseRun(f) PROVE TtyInv'
    <2>0. env' = env /\ ttyLock = f
      BY <1>13 DEF CloseRun, LockInv
    <2>1. CASE /\ f \in hungUp
               /\ infoTty' = IF Attached = {f} /\ infoTty = "live" THEN "stale" ELSE infoTty
               /\ UNCHANGED flags
      <3>1. Attached = {f} /\ ~InactiveHangup => "INIT" \notin flags
        BY <2>0, <2>1, SerialOpenAssumption DEF DownInv, Down
      <3> QED BY <2>0, <2>1, <3>1 DEF TtyInv, InactiveHangup, Hangups, Failing, Signals
    <2>2. CASE UNCHANGED <<flags, infoTty>>
      BY <2>0, <2>2, <1>a
    <2>3. CASE "INIT" \notin flags'
      BY <2>3 DEF TtyInv
    <2> QED BY <1>13, <1>p, <2>1, <2>2, <2>3, CloseEffect
  <1>14. CASE Hangup
    <2>1. UNCHANGED <<infoTty, env>> /\ ("INIT" \in flags' => "INIT" \in flags)
      BY <1>14 DEF Hangup, port
    <2> QED BY <2>1, <1>a
  <1>15. CASE HangupRun
    <2>1. UNCHANGED <<flags, infoTty, env>> \/ "INIT" \notin flags'
      BY <1>15, <1>p, HangupEffect DEF HangupRun
    <2> QED BY <2>1, <1>a DEF TtyInv
  <1>16. CASE CarrierChange
    <2>1. UNCHANGED <<infoTty, env>> /\ ("INIT" \in flags' => "INIT" \in flags)
      BY <1>16 DEF CarrierChange, port
    <2> QED BY <2>1, <1>a
  <1>17. CASE Interrupt
    <2>1. UNCHANGED <<infoTty, env>> /\ ("INIT" \in flags' => "INIT" \in flags)
      BY <1>17 DEF Interrupt, port
    <2> QED BY <2>1, <1>a
  <1>18. CASE Resume
    BY <1>18 DEF Resume, TtyInv
  <1>19. CASE UNCHANGED vars
    BY <1>19, <1>a DEF vars, port
  <1> QED BY <1>1, <1>2, <1>3, <1>4, <1>5, <1>6, <1>7, <1>8, <1>9, <1>10, <1>11,
             <1>12, <1>13, <1>14, <1>15, <1>16, <1>17, <1>18, <1>19 DEF Next, Step

\* The mark for resume goes with the tty.
LEMMA ResumeStep ==
    Typing /\ EnvInv /\ PortInv /\ ResumeNeedsTty /\ [Next]_vars
        => ResumeNeedsTty'
  <1> SUFFICES ASSUME Typing, EnvInv, PortInv, ResumeNeedsTty, [Next]_vars
               PROVE ResumeNeedsTty'
    OBVIOUS
  <1>p. PortTyping /\ UpOK /\ count \in Int
    BY DEF Typing, PortInv, PortTyping, UpOK
  <1>a. ASSUME UNCHANGED <<infoTty, suspended, env>> PROVE ResumeNeedsTty'
    BY <1>a DEF ResumeNeedsTty, Hangups
  <1> USE DEF world
  <1>1. ASSUME NEW f \in Files, Open(f) PROVE ResumeNeedsTty'
    BY <1>1, <1>a DEF Open
  <1>2. ASSUME NEW f \in Files, Get(f) PROVE ResumeNeedsTty'
    BY <1>2 DEF Get, ResumeNeedsTty
  <1>3. ASSUME NEW f \in Files, GetInterrupted(f) PROVE ResumeNeedsTty'
    BY <1>3, <1>a DEF GetInterrupted
  <1>4. ASSUME NEW f \in Files, OpenStartup(f) PROVE ResumeNeedsTty'
    BY <1>4, <1>a DEF OpenStartup
  <1>5. ASSUME NEW f \in Files, WaitTest(f) PROVE ResumeNeedsTty'
    BY <1>5, <1>a DEF WaitTest
  <1>6. ASSUME NEW f \in Files, Signal(f) PROVE ResumeNeedsTty'
    BY <1>6, <1>a DEF Signal
  <1>7. ASSUME NEW f \in Files, Woken(f) PROVE ResumeNeedsTty'
    BY <1>7, <1>a DEF Woken
  <1>8. ASSUME NEW f \in Files, Finish(f) PROVE ResumeNeedsTty'
    BY <1>8, <1>a DEF Finish
  <1>9. ASSUME NEW f \in Files, Activate(f) PROVE ResumeNeedsTty'
    BY <1>9, <1>a DEF Activate
  <1>10. ASSUME NEW f \in Files, SetInfo(f) PROVE ResumeNeedsTty'
    BY <1>10, <1>a DEF SetInfo
  <1>11. ASSUME NEW f \in Files, SetInfoRun(f) PROVE ResumeNeedsTty'
    BY <1>11, <1>a DEF SetInfoRun
  <1>12. ASSUME NEW f \in Files, Close(f) PROVE ResumeNeedsTty'
    BY <1>12, <1>a DEF Close
  <1>13. ASSUME NEW f \in Files, CloseRun(f) PROVE ResumeNeedsTty'
    <2>1. env' = env /\ (f \in hungUp => Hangups)
      BY <1>13 DEF CloseRun, EnvInv
    <2>2. CASE UNCHANGED <<suspended, infoTty>>
      BY <2>1, <2>2, <1>a
    <2>3. CASE suspended' = FALSE
      BY <2>3 DEF ResumeNeedsTty
    <2>4. CASE f \in hungUp
      BY <2>1, <2>4 DEF ResumeNeedsTty, Hangups
    <2> QED BY <1>13, <1>p, <2>2, <2>3, <2>4, CloseEffect
  <1>14. CASE Hangup
    BY <1>14, <1>a DEF Hangup
  <1>15. CASE HangupRun
    <2>1. env' = env /\ Hangups
      BY <1>15 DEF HangupRun, EnvInv
    <2> QED BY <2>1 DEF ResumeNeedsTty, Hangups
  <1>16. CASE CarrierChange
    BY <1>16, <1>a DEF CarrierChange
  <1>17. CASE Interrupt
    BY <1>17, <1>a DEF Interrupt
  <1>18. CASE Resume
    BY <1>18, <1>a DEF Resume
  <1>19. CASE UNCHANGED vars
    BY <1>19, <1>a DEF vars
  <1> QED BY <1>1, <1>2, <1>3, <1>4, <1>5, <1>6, <1>7, <1>8, <1>9, <1>10, <1>11,
             <1>12, <1>13, <1>14, <1>15, <1>16, <1>17, <1>18, <1>19 DEF Next, Step

----------------------------------------------------------------------------
(* The invariant as a whole *)

\* Between the two halves of a hangup nobody opens or closes.
LEMMA HangupKeepsCount ==
    ASSUME Typing, LockInv, [Next]_vars, ttyLock' = "hangup"
    PROVE  UNCHANGED <<count, env>>
  <1> USE SerialOpenAssumption DEF LockInv, Opening, world, Typing, Signals,
          Hangups, Failing, InactiveHangup
  <1>1. ASSUME NEW f \in Files, Open(f) PROVE UNCHANGED <<count, env>>
    BY <1>1 DEF Open
  <1>2. ASSUME NEW f \in Files, Get(f) PROVE UNCHANGED <<count, env>>
    BY <1>2 DEF Get
  <1>3. ASSUME NEW f \in Files, GetInterrupted(f) PROVE UNCHANGED <<count, env>>
    BY <1>3 DEF GetInterrupted
  <1>4. ASSUME NEW f \in Files, OpenStartup(f) PROVE UNCHANGED <<count, env>>
    BY <1>4 DEF OpenStartup
  <1>5. ASSUME NEW f \in Files, WaitTest(f) PROVE UNCHANGED <<count, env>>
    BY <1>5 DEF WaitTest
  <1>6. ASSUME NEW f \in Files, Signal(f) PROVE UNCHANGED <<count, env>>
    BY <1>6 DEF Signal
  <1>7. ASSUME NEW f \in Files, Woken(f) PROVE UNCHANGED <<count, env>>
    BY <1>7 DEF Woken
  <1>8. ASSUME NEW f \in Files, Finish(f) PROVE UNCHANGED <<count, env>>
    BY <1>8 DEF Finish
  <1>9. ASSUME NEW f \in Files, Activate(f) PROVE UNCHANGED <<count, env>>
    BY <1>9 DEF Activate
  <1>10. ASSUME NEW f \in Files, SetInfo(f) PROVE UNCHANGED <<count, env>>
    BY <1>10 DEF SetInfo
  <1>11. ASSUME NEW f \in Files, SetInfoRun(f) PROVE UNCHANGED <<count, env>>
    BY <1>11 DEF SetInfoRun
  <1>12. ASSUME NEW f \in Files, Close(f) PROVE UNCHANGED <<count, env>>
    BY <1>12 DEF Close
  <1>13. ASSUME NEW f \in Files, CloseRun(f) PROVE UNCHANGED <<count, env>>
    BY <1>13 DEF CloseRun
  <1>14. CASE Hangup
    BY <1>14 DEF Hangup
  <1>15. CASE HangupRun
    BY <1>15 DEF HangupRun
  <1>16. CASE CarrierChange
    BY <1>16 DEF CarrierChange
  <1>17. CASE Interrupt
    BY <1>17 DEF Interrupt
  <1>18. CASE Resume
    BY <1>18 DEF Resume
  <1>19. CASE UNCHANGED vars
    BY <1>19 DEF vars
  <1> QED BY <1>1, <1>2, <1>3, <1>4, <1>5, <1>6, <1>7, <1>8, <1>9, <1>10, <1>11,
             <1>12, <1>13, <1>14, <1>15, <1>16, <1>17, <1>18, <1>19 DEF Next, Step

\* The invariant holds at first.
LEMMA IInvInit == Init => IInv
  <1> SUFFICES ASSUME Init PROVE IInv
    OBVIOUS
  <1> USE SerialOpenAssumption DEF Init
  <1>1. Attached = {} /\ Counted = {} /\ Givers = {} /\ InUse = {}
    BY DEF Attached, Counted, Givers, InUse
  <1>2. Cardinality(Files) \in Nat /\ Cardinality({}) = 0
    BY CardRange, FS_EmptySet
  <1>3. TypeOK
    <2>1. hungUp \subseteq Attached /\ count \in Nat /\ count <= Cardinality(Files)
      BY <1>1, <1>2
    <2>2. refs \in -2 * Cardinality(Files) .. Cardinality(Files)
      BY <1>2
    <2> QED BY <2>1, <2>2 DEF TypeOK
  <1>4. LockInv /\ EnvInv /\ PortInv
    BY <1>1 DEF LockInv, EnvInv, PortInv, Opening, Started
  <1>5. CountInv /\ RefsInv
    BY <1>1, <1>2 DEF CountInv, RefsInv
  <1>6. UseInv /\ DownInv /\ TtyInv /\ ResumeNeedsTty
    BY <1>1 DEF UseInv, DownInv, Down, TtyInv, ResumeNeedsTty
  <1> QED BY <1>3, <1>4, <1>5, <1>6 DEF IInv

\* Every step keeps the inductive invariant.
LEMMA IInvStep == IInv /\ [Next]_vars => IInv'
  <1> SUFFICES ASSUME IInv, [Next]_vars PROVE IInv'
    OBVIOUS
  <1>1. /\ Typing /\ count \in Nat /\ LockInv /\ EnvInv /\ PortInv /\ CountInv
        /\ RefsInv /\ UseInv /\ DownInv /\ TtyInv /\ ResumeNeedsTty
    BY CardRange DEF IInv, TypeOK, Typing
  <1>2. /\ Typing' /\ (count \in Nat)' /\ LockInv' /\ EnvInv' /\ PortInv' /\ CountInv'
        /\ RefsInv' /\ UseInv' /\ DownInv' /\ TtyInv' /\ ResumeNeedsTty'
    BY <1>1, TypingStep, LockStep, EnvStep, PortInvStep, CountStep, RefsStep,
       UseStep, DownStep, TtyStep, ResumeStep
  <1>3. (~InactiveHangup => count <= Cardinality(Files))'
    <2>1. (~InactiveHangup /\ ttyLock # "hangup" => count <= Cardinality(Files))'
      <3>1. Cardinality(Counted') \in Nat /\ Cardinality(Counted') <= Cardinality(Files)
        BY CardRange DEF Counted
      <3> QED BY <1>2, <3>1, CardRange DEF CountInv
    <2>2. ttyLock' = "hangup" => UNCHANGED <<count, env>>
      BY <1>1, HangupKeepsCount
    <2> QED BY <2>1, <2>2 DEF IInv, TypeOK, InactiveHangup, Hangups, Failing, Signals
  <1>4. (refs \in -2 * Cardinality(Files) .. Cardinality(Files))'
    <2>1. Cardinality(Givers') \in Nat /\ Cardinality(Givers') <= Cardinality(Files)
          /\ Cardinality(Files) \in Nat
      BY CardRange DEF Givers
    <2> QED BY <1>2, <2>1 DEF RefsInv, Typing
  <1> QED BY <1>2, <1>3, <1>4 DEF IInv, TypeOK, Typing

\* The inductive invariant holds in every reachable state, for any number of
\* files and in every environment.
THEOREM InvariantHolds == Spec => []IInv
  BY IInvInit, IInvStep, PTL DEF Spec

\* The state of the port and of its files is well formed, and the count is
\* never negative (snx_ser_open, snx_ser_close).
THEOREM TypeCorrect == Spec => []TypeOK
  <1>1. IInv => TypeOK
    BY DEF IInv
  <1> QED BY InvariantHolds, <1>1, PTL

\* Between calls state->count is the number of files not hung up, where no open
\* is interrupted in snx_ser_get and a hangup finds the port ACTIVE.
THEOREM CountIsTrue == Spec => []CountMatches
  <1>1. IInv => CountMatches
    <2> SUFFICES ASSUME IInv, "get" \notin Signals, ~InactiveHangup, ttyLock = "nobody"
                 PROVE  count = Cardinality(Attached \ hungUp)
      BY DEF CountMatches
    <2>1. \A f \in Files : pc[f] \notin Opening
      BY SerialOpenAssumption DEF IInv, LockInv
    <2>2. Attached \ hungUp = Counted
      BY <2>1 DEF Attached, Counted, Opening
    <2>3. Cardinality(Counted) \in Nat
      BY CardRange DEF Counted
    <2>4. count \in Nat /\ count >= Cardinality(Counted) /\ count <= Cardinality(Counted)
      BY DEF IInv, CountInv, TypeOK
    <2> QED BY <2>2, <2>3, <2>4
  <1> QED BY InvariantHolds, <1>1, PTL

\* While a file is in use no close of another file, hangup, TIOCSSERIAL or
\* resume takes the port down (snx_ser_close, snx_ser_block_til_ready).
THEOREM UsedPortIsUp == Spec => []PortUpWhileUsed
  <1>1. IInv => PortUpWhileUsed
    BY DEF IInv, UseInv, PortInv, PortUpWhileUsed
  <1> QED BY InvariantHolds, <1>1, PTL

\* The interrupt handler finds a live tty whenever the UART may interrupt
\* (sunix_ser_receive_chars follows info->tty without a test).
THEOREM InterruptsHaveTty == Spec => []InterruptsNeedTty
  <1>1. IInv => InterruptsNeedTty
    BY DEF IInv, TtyInv, PortInv, InterruptsNeedTty
  <1> QED BY InvariantHolds, <1>1, PTL

\* With its last file the port goes down, whatever mix of failed, waiting and
\* hung-up files closed before it (snx_ser_close, snx_ser_hangup).
THEOREM UnusedPortIsDown == Spec => []DownWhenUnused
  <1>1. IInv => DownWhenUnused
    <2> SUFFICES ASSUME IInv, ~InactiveHangup, Attached = {}
                 PROVE  "INIT" \notin flags /\ ier = {} /\ count = 0
      BY DEF DownWhenUnused
    <2>1. Counted = {} /\ Cardinality(Counted) = 0
      BY CardRange DEF Counted, Attached
    <2>2. ttyLock = "hangup" \/ Down
      BY DEF IInv, DownInv
    <2>3. ttyLock # "hangup" 
      BY DEF IInv, EnvInv
    <2> QED BY <2>1, <2>2, <2>3 DEF IInv, PortInv, CountInv, Down, TypeOK
  <1> QED BY InvariantHolds, <1>1, PTL

\* snx_resume_one finds a live tty for every port marked suspended, where
\* nothing is hung up.
THEOREM ResumedPortHasTty == Spec => []ResumeNeedsTty
  <1>1. IInv => ResumeNeedsTty
    BY DEF IInv
  <1> QED BY InvariantHolds, <1>1, PTL

\* Open and close take and give back one module reference per file.
THEOREM ReferencesMatch == Spec => []RefsMatch
  <1>1. IInv => RefsMatch
    <2> SUFFICES ASSUME IInv, "get" \notin Signals
                 PROVE  refs = Cardinality({f \in Files : pc[f] \in {"open", "ioctl", "failed",
                                                                  "closing"}})
      BY DEF RefsMatch
    <2>1. Givers = {f \in Files : pc[f] \in {"open", "ioctl", "failed", "closing"}}
      BY DEF Givers, IInv, EnvInv
    <2> QED BY <2>1 DEF IInv, RefsInv
  <1> QED BY InvariantHolds, <1>1, PTL

=============================================================================
