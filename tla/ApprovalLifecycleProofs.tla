----------------------- MODULE ApprovalLifecycleProofs -----------------------
(***************************************************************************)
(* Proofs about ApprovalLifecycle, for any number of approvals and calls   *)
(* and any bounds on faults, lost answers and crashes.                     *)
(***************************************************************************)
EXTENDS ApprovalLifecycle, TLAPS

\* A call keeps the types with each of its steps, failing file operations and
\* lost answers included.
LEMMA CallKeepsTypes ==
  ASSUME TypeOK, NEW r \in Calls, Gateway(r)
  PROVE  TypeOK'
<1> USE ConstantsAssumption DEF TypeOK, Answers, Suspended, Synchronous, Logs, Goes, Resumes, Given,
        Files, Works, Fault
<1>1. CASE Resolve(r) BY <1>1 DEF Resolve
<1>2. CASE Validate(r) BY <1>2 DEF Validate
<1>3. CASE CheckConsumed(r) BY <1>3 DEF CheckConsumed
<1>4. CASE Claim(r) BY <1>4 DEF Claim
<1>5. CASE LogReserved(r) BY <1>5 DEF LogReserved, Log, Logs, LogFails
<1>6. CASE UndoReserve(r) BY <1>6 DEF UndoReserve
<1>7. CASE Post(r) BY <1>7 DEF Post, Logs
<1>8. CASE Decline(r) BY <1>8 DEF Decline, Logs
<1>9. CASE Answered(r) BY <1>9 DEF Answered
<1>10. CASE GiveUp(r) BY <1>10 DEF GiveUp
<1>11. CASE Consume(r) BY <1>11 DEF Consume
<1>12. CASE ConsumeFallback(r) BY <1>12 DEF ConsumeFallback
<1>13. CASE LogConsumed(r) BY <1>13 DEF LogConsumed, Log, Logs, LogFails
<1>14. CASE ReleaseDeclined(r) BY <1>14 DEF ReleaseDeclined, Unlink
<1>15. CASE LogDeclined(r) BY <1>15 DEF LogDeclined, Log, Logs, LogFails
<1>16. CASE Release(r) BY <1>16 DEF Release, Unlink
<1>17. CASE LogReleased(r) BY <1>17 DEF LogReleased, Log, Logs, LogFails
<1>18. QED
  BY <1>1, <1>2, <1>3, <1>4, <1>5, <1>6, <1>7, <1>8, <1>9, <1>10,
     <1>11, <1>12, <1>13, <1>14, <1>15, <1>16, <1>17 DEF Gateway

\* So do Bankr, the clock and a crash, which takes the calls of a process with it.
LEMMA WorldKeepsTypes ==
  ASSUME TypeOK,
         \/ \E r \in Calls : BankrSettles(r)
         \/ \E a \in Approvals : Expire(a)
         \/ \E p \in Processes : Crash(p)
  PROVE  TypeOK'
<1> USE ConstantsAssumption DEF TypeOK, Answers, Suspended, Synchronous, Files
<1>1. (\E r \in Calls : BankrSettles(r)) => TypeOK'
  BY DEF BankrSettles
<1>2. (\E a \in Approvals : Expire(a)) => TypeOK'
  BY DEF Expire
<1>3. (\E p \in Processes : Crash(p)) => TypeOK'
  BY DEF Crash
<1>4. QED BY <1>1, <1>2, <1>3

\* The state is well typed, whatever fails, in any deployment.
THEOREM TypeCorrect == Spec => []TypeOK
<1>1. Init => TypeOK
  BY ConstantsAssumption DEF Init, TypeOK, Suspended
<1>2. TypeOK /\ UNCHANGED vars => TypeOK'
  BY DEF TypeOK, vars, Files
<1>3. TypeOK /\ Next => TypeOK'
  BY CallKeepsTypes, WorldKeepsTypes DEF Next
<1>4. QED BY <1>1, <1>2, <1>3, PTL DEF Spec

-----------------------------------------------------------------------------
(***************************************************************************)
(* What holds in every deployment, whatever fails: no reservation reaches  *)
(* Bankr before its audit line, and no client hears ok too early.          *)
(***************************************************************************)

\* A call about to post has its line in the log.
AuditInv ==
  \A r \in Calls : (pc[r] = "reserved" /\ Logs(r)) \/ post[r] # "none"
                     => <<"reserved", r>> \in audit

\* A call posts once, from the place it reaches after its reservation.
Unposted == {"idle", "resolved", "check", "claim", "logReserved", "undo", "reserved"}
PostInv == \A r \in Calls : pc[r] \in Unposted => post[r] = "none"

\* What consume and the answer ok have behind them.
AnswerInv ==
  \A r \in Calls :
    /\ pc[r] \in {"accepted", "fallback", "logConsumed", "ok"} => post[r] = "performed"
    /\ pc[r] \in {"logConsumed", "ok"} => appr[r] \in consumed

AnywhereInv == AuditInv /\ PostInv /\ AnswerInv /\ ConsumedMeansPerformed

LEMMA AnywhereStep == TypeOK /\ AnywhereInv /\ [Next]_vars => AnywhereInv'
<1> SUFFICES ASSUME TypeOK, AnywhereInv, [Next]_vars PROVE AnywhereInv'
  OBVIOUS
<1> USE DEF AnywhereInv, AuditInv, PostInv, Unposted, AnswerInv,
        ConsumedMeansPerformed, TypeOK, Answers, Logs, Goes, Resumes, Given, Files, Works, Fault
<1>1. ASSUME NEW t \in Calls, Gateway(t) PROVE AnywhereInv'
  <2>1. CASE Resolve(t)
    BY <2>1 DEF Resolve
  <2>2. CASE Validate(t)
    BY <2>2 DEF Validate
  <2>3. CASE CheckConsumed(t)
    BY <2>3 DEF CheckConsumed
  <2>4. CASE Claim(t)
    BY <2>4 DEF Claim
  <2>5. CASE LogReserved(t)
    BY <2>5 DEF LogReserved, Log, Logs, LogFails
  <2>6. CASE UndoReserve(t)
    BY <2>6 DEF UndoReserve
  <2>7. CASE Post(t)
    BY <2>7 DEF Post, Logs
  <2>8. CASE Decline(t)
    BY <2>8 DEF Decline, Logs
  <2>9. CASE Answered(t)
    BY <2>9 DEF Answered
  <2>10. CASE GiveUp(t)
    BY <2>10 DEF GiveUp
  <2>11. CASE Consume(t)
    BY <2>11 DEF Consume
  <2>12. CASE ConsumeFallback(t)
    BY <2>12 DEF ConsumeFallback
  <2>13. CASE LogConsumed(t)
    BY <2>13 DEF LogConsumed, Log, Logs, LogFails
  <2>14. CASE ReleaseDeclined(t)
    BY <2>14 DEF ReleaseDeclined, Unlink
  <2>15. CASE LogDeclined(t)
    BY <2>15 DEF LogDeclined, Log, Logs, LogFails
  <2>16. CASE Release(t)
    BY <2>16 DEF Release, Unlink
  <2>17. CASE LogReleased(t)
    BY <2>17 DEF LogReleased, Log, Logs, LogFails
  <2>18. QED
    BY <1>1, <2>1, <2>2, <2>3, <2>4, <2>5, <2>6, <2>7, <2>8, <2>9, <2>10, <2>11, <2>12, <2>13, <2>14, <2>15, <2>16, <2>17 DEF Gateway
<1>2. ASSUME NEW t \in Calls, BankrSettles(t) PROVE AnywhereInv'
  BY <1>2 DEF BankrSettles
<1>3. ASSUME NEW a \in Approvals, Expire(a) PROVE AnywhereInv'
  BY <1>3 DEF Expire
<1>4. ASSUME NEW p \in Processes, Crash(p) PROVE AnywhereInv'
  BY <1>4 DEF Crash
<1>5. UNCHANGED vars => AnywhereInv'
  BY DEF vars
<1>6. QED
  BY <1>1, <1>2, <1>3, <1>4, <1>5 DEF Next

LEMMA Anywhere == Spec => []AnywhereInv
<1>1. Init => AnywhereInv
  BY DEF Init, AnywhereInv, AuditInv, PostInv, AnswerInv, ConsumedMeansPerformed
<1>2. QED
  BY <1>1, AnywhereStep, TypeCorrect, PTL DEF Spec

\* Nothing reaches Bankr before the audit line of its reservation is written.
THEOREM AuditPrecedesRuntime == Spec => []AuditBeforeRuntime
<1>1. AnywhereInv => AuditBeforeRuntime
  BY DEF AnywhereInv, AuditInv, AuditBeforeRuntime
<1>2. QED
  BY <1>1, Anywhere, PTL

\* A call answered ok was performed, and its approval is spent on disk.
THEOREM OkIsSpent == Spec => []OkMeansSpent
<1>1. AnywhereInv => OkMeansSpent
  BY DEF AnywhereInv, AnswerInv, OkMeansSpent
<1>2. QED
  BY <1>1, Anywhere, PTL

\* Only a performed operation spends an approval.
THEOREM SpentIsPerformed == Spec => []ConsumedMeansPerformed
<1>1. AnywhereInv => ConsumedMeansPerformed
  BY DEF AnywhereInv
<1>2. QED
  BY <1>1, Anywhere, PTL

\* A call that leaves the places at which it holds a reservation takes its
\* marker away, so that the property is inductive as it stands.
LEMMA OrphanStep == TypeOK /\ OrphanNeedsFault /\ [Next]_vars => OrphanNeedsFault'
<1> SUFFICES ASSUME TypeOK, OrphanNeedsFault, [Next]_vars PROVE OrphanNeedsFault'
  OBVIOUS
<1> DEFINE Holding == Owning \cup {"failed"}
           Held(a) == \E r \in Calls : appr[r] = a /\ pc[r] \in Holding
<1>1. faults \in Nat /\ crashes \in Nat
  BY ConstantsAssumption DEF TypeOK
\* Who moves keeps its marker by holding it, removes it, or was hit by a fault.
<1>2. ASSUME NEW t \in Calls, appr' = appr, crashes' = crashes,
             \A r \in Calls \ {t} : pc'[r] = pc[r],
             \/ faults' = faults + 1
             \/ /\ faults' = faults
                /\ \/ reserved' \subseteq reserved /\ (pc[t] \in Holding => pc'[t] \in Holding)
                   \/ reserved' \subseteq reserved \ {appr[t]}
                   \/ reserved' \subseteq reserved \cup {appr[t]} /\ pc'[t] \in Holding
      PROVE  OrphanNeedsFault'
  <2>1. CASE faults' = faults + 1
    BY <1>1, <2>1 DEF OrphanNeedsFault
  <2>2. CASE faults > 0 \/ crashes > 0
    BY <1>1, <1>2, <2>2 DEF OrphanNeedsFault
  <2>3. CASE ~(faults > 0 \/ crashes > 0) /\ faults' = faults
    <3>1. \A a \in reserved : Held(a)
      BY <2>3 DEF OrphanNeedsFault
    <3>2. ASSUME NEW a \in reserved'
          PROVE  \E r \in Calls : appr[r] = a /\ pc'[r] \in Holding
      <4>1. CASE a = appr[t] /\ pc'[t] \in Holding
        BY <4>1
      <4>2. CASE ~(a = appr[t] /\ pc'[t] \in Holding)
        <5>1. a \in reserved /\ (a = appr[t] => pc[t] \notin Holding)
          BY <1>1, <1>2, <2>3, <4>2
        <5>2. PICK r \in Calls : appr[r] = a /\ pc[r] \in Holding
          BY <3>1, <5>1
        <5>3. QED BY <1>2, <5>1, <5>2
      <4>3. QED BY <4>1, <4>2
    <3>3. QED BY <1>2, <3>2 DEF OrphanNeedsFault
  <2>4. QED BY <1>2, <2>1, <2>2, <2>3
<1> USE DEF TypeOK, Owning, Logs, Goes, Resumes, Given, Files, Works, Fault
<1>3. ASSUME NEW t \in Calls, Gateway(t) PROVE OrphanNeedsFault'
  <2>1. CASE Resolve(t) \/ Validate(t) \/ CheckConsumed(t)
    BY <1>2, <2>1 DEF Resolve, Validate, CheckConsumed
  <2>2. CASE Claim(t)
    BY <1>2, <2>2 DEF Claim
  <2>3. CASE LogReserved(t) \/ UndoReserve(t)
    BY <1>2, <2>3 DEF LogReserved, LogFails, UndoReserve
  <2>4. CASE Post(t) \/ Decline(t) \/ Answered(t) \/ GiveUp(t)
    BY <1>2, <2>4 DEF Post, Decline, Answered, GiveUp
  <2>5. CASE Consume(t)
    BY <1>2, <2>5 DEF Consume
  <2>6. CASE ConsumeFallback(t) \/ LogConsumed(t) \/ LogDeclined(t) \/ LogReleased(t)
    BY <1>2, <2>6 DEF ConsumeFallback, LogConsumed, LogDeclined, LogReleased, LogFails
  <2>7. CASE ReleaseDeclined(t) \/ Release(t)
    BY <1>2, <2>7 DEF ReleaseDeclined, Release, Unlink
  <2>8. QED
    BY <1>3, <2>1, <2>2, <2>3, <2>4, <2>5, <2>6, <2>7 DEF Gateway
<1>4. ASSUME NEW p \in Processes, Crash(p) PROVE OrphanNeedsFault'
  BY <1>1, <1>4 DEF Crash, OrphanNeedsFault
<1>5. ASSUME UNCHANGED <<pc, appr, reserved, faults, crashes>> PROVE OrphanNeedsFault'
  BY <1>5 DEF OrphanNeedsFault
<1>6. QED
  BY <1>3, <1>4, <1>5 DEF Next, vars, BankrSettles, Expire

\* A reservation nobody will settle is a killed process's or a failing disk's.
THEOREM OrphansComeFromFaults == Spec => []OrphanNeedsFault
<1>1. Init => OrphanNeedsFault
  BY DEF Init, OrphanNeedsFault
<1>2. QED
  BY <1>1, OrphanStep, TypeCorrect, PTL DEF Spec

-----------------------------------------------------------------------------
(***************************************************************************)
(* One gateway process, with the Bankr runtime and its writes enabled: the *)
(* reservation is exclusive and a second execution needs an unsafe release *)
(***************************************************************************)

OneBankrProcess == ~MayDecline /\ \A p, q \in Processes : p = q

\* The event loop is inside one call at a time.
OneRunning ==
  \A r, s \in Calls : pc[r] \in Synchronous /\ pc[s] \in Synchronous => r = s

\* The calls that may still come to release or consume.
HasMarker == Owning \cup {"fallback"}
Holding == HasMarker \cup {"failed", "logConsumed"}

\* A call owns the marker of its approval until the approval is consumed.
MarkerInv ==
  \A r \in Calls :
    /\ pc[r] = "claim" => appr[r] \notin consumed
    /\ pc[r] \in HasMarker => appr[r] \in reserved /\ appr[r] \notin consumed
    /\ pc[r] = "failed" => appr[r] \in reserved \cup consumed
    /\ ~Logs(r) => post[r] = "none"
    /\ pc[r] \in {"declined", "logDeclined"} => ~Logs(r)

OneHolder ==
  \A r, s \in Calls :
    pc[r] \in Holding /\ pc[s] \in Holding /\ appr[r] = appr[s] => r = s

\* An operation Bankr has, or may still perform, keeps its approval off the
\* market unless the call was released unsafely.
ChargeInv ==
  /\ \A s \in Calls : Charged(s) => s \in leaked \/ appr[s] \in reserved \cup consumed
  /\ \A r, s \in Calls :
       pc[r] \in Holding /\ r # s /\ appr[r] = appr[s] /\ Charged(s)
         => s \in leaked \/ appr[s] \in consumed

ProcessInv ==
  /\ OneRunning /\ MarkerInv /\ OneHolder /\ ChargeInv /\ DoubleExecutionNeedsLeak

LEMMA ProcessStep ==
  ASSUME OneBankrProcess, TypeOK, AnywhereInv, ProcessInv, [Next]_vars
  PROVE  ProcessInv'
<1> USE DEF OneBankrProcess, TypeOK, ProcessInv, AnywhereInv, PostInv, AnswerInv,
        Unposted, Answers, Suspended, Synchronous, Owning, HasMarker, Holding,
        OneRunning, MarkerInv, OneHolder, ChargeInv, DoubleExecutionNeedsLeak,
        Charged, Logs, Goes, Resumes, Given, Files, Works, Fault, Idle
<1>1. ASSUME NEW t \in Calls, Gateway(t) PROVE ProcessInv'
  <2>1. CASE Resolve(t)
    BY <2>1 DEF Resolve
  <2>2. CASE Validate(t)
    BY <2>2 DEF Validate
  <2>3. CASE CheckConsumed(t)
    BY <2>3 DEF CheckConsumed
  <2>4. CASE Claim(t)
    BY <2>4 DEF Claim
  <2>5. CASE LogReserved(t)
    BY <2>5 DEF LogReserved, Log, Logs, LogFails
  <2>6. CASE UndoReserve(t)
    BY <2>6 DEF UndoReserve
  <2>7. CASE Post(t)
    BY <2>7 DEF Post, Logs
  <2>8. CASE Decline(t)
    BY <2>8 DEF Decline, Logs
  <2>9. CASE Answered(t)
    BY <2>9 DEF Answered
  <2>10. CASE GiveUp(t)
    BY <2>10 DEF GiveUp
  <2>11. CASE Consume(t)
    BY <2>11 DEF Consume
  <2>12. CASE ConsumeFallback(t)
    BY <2>12 DEF ConsumeFallback
  <2>13. CASE LogConsumed(t)
    BY <2>13 DEF LogConsumed, Log, Logs, LogFails
  <2>14. CASE ReleaseDeclined(t)
    BY <2>14 DEF ReleaseDeclined, Unlink
  <2>15. CASE LogDeclined(t)
    BY <2>15 DEF LogDeclined, Log, Logs, LogFails
  <2>16. CASE Release(t)
    BY <2>16 DEF Release, Unlink
  <2>17. CASE LogReleased(t)
    BY <2>17 DEF LogReleased, Log, Logs, LogFails
  <2>18. QED
    BY <1>1, <2>1, <2>2, <2>3, <2>4, <2>5, <2>6, <2>7, <2>8, <2>9, <2>10, <2>11, <2>12, <2>13, <2>14, <2>15, <2>16, <2>17 DEF Gateway
<1>2. ASSUME NEW t \in Calls, BankrSettles(t) PROVE ProcessInv'
  BY <1>2 DEF BankrSettles
<1>3. ASSUME NEW a \in Approvals, Expire(a) PROVE ProcessInv'
  BY <1>3 DEF Expire
<1>4. ASSUME NEW p \in Processes, Crash(p) PROVE ProcessInv'
  BY <1>4 DEF Crash
<1>5. UNCHANGED vars => ProcessInv'
  BY DEF vars
<1>6. QED
  BY <1>1, <1>2, <1>3, <1>4, <1>5 DEF Next

LEMMA OneProcess == ASSUME OneBankrProcess PROVE Spec => []ProcessInv
<1>1. Init => ProcessInv
  BY DEF Init, ProcessInv, Synchronous, Owning, HasMarker, Holding, OneRunning,
         MarkerInv, OneHolder, ChargeInv, DoubleExecutionNeedsLeak, Charged
<1>2. TypeOK /\ AnywhereInv /\ ProcessInv /\ [Next]_vars => ProcessInv'
  BY ProcessStep
<1>3. QED
  BY <1>1, <1>2, TypeCorrect, Anywhere, PTL DEF Spec

\* In one process no two calls own one reservation, whatever fails.
THEOREM ClaimIsExclusive == ASSUME OneBankrProcess PROVE Spec => []OneClaimant
<1>1. ProcessInv => OneClaimant
  BY DEF ProcessInv, OneHolder, Holding, HasMarker, OneClaimant, Owner
<1>2. QED
  BY <1>1, OneProcess, PTL

\* In one process a second execution of an approval follows an unsafe release,
\* whatever else fails.
THEOREM SecondExecutionIsALeak ==
  ASSUME OneBankrProcess PROVE Spec => []DoubleExecutionNeedsLeak
<1>1. ProcessInv => DoubleExecutionNeedsLeak
  BY DEF ProcessInv
<1>2. QED
  BY <1>1, OneProcess, PTL

\* In one process a consumed approval is never posted again.
THEOREM ConsumedIsFinal == ASSUME OneBankrProcess PROVE Spec => NoReplay
<1>1. ASSUME TypeOK, ProcessInv, [Next]_vars
      PROVE  [\A r \in Calls : appr[r] \in consumed /\ post'[r] = "pending"
                                 => post[r] = "pending"]_vars
  <2> USE DEF TypeOK, ProcessInv, MarkerInv, HasMarker, Owning, Goes, Resumes, vars
  <2>1. ASSUME NEW t \in Calls, Post(t), NEW r \in Calls,
               appr[r] \in consumed, post'[r] = "pending"
        PROVE  post[r] = "pending"
    BY <1>1, <2>1 DEF Post, Logs
  <2>2. ASSUME NEW t \in Calls, BankrSettles(t), NEW r \in Calls, post'[r] = "pending"
        PROVE  post[r] = "pending"
    BY <1>1, <2>2 DEF BankrSettles
  <2>3. ASSUME NEW t \in Calls, Gateway(t), ~Post(t) PROVE UNCHANGED post
    BY <2>3 DEF Gateway, Resolve, Validate, CheckConsumed, Claim, LogReserved,
            UndoReserve, Decline, Answered, GiveUp, Consume, ConsumeFallback,
            LogConsumed, ReleaseDeclined, LogDeclined, Release, LogReleased, Unlink
  <2>4. (\E a \in Approvals : Expire(a)) \/ (\E p \in Processes : Crash(p))
          => UNCHANGED post
    BY DEF Expire, Crash
  <2>5. QED
    BY <1>1, <2>1, <2>2, <2>3, <2>4 DEF Next
<1>2. QED
  BY <1>1, OneProcess, TypeCorrect, PTL DEF Spec, NoReplay

-----------------------------------------------------------------------------
(***************************************************************************)
(* No file operation fails and every answer arrives: a one-shot approval.  *)
(***************************************************************************)

CalmProcess == OneBankrProcess /\ MaxFaults = 0 /\ MaxGiveUps = 0

\* The catch is reached by a refusal of Bankr only, so it never leaks.
CalmInv ==
  /\ leaked = {}
  /\ \A r \in Calls : /\ pc[r] = "failed" => post[r] = "rejected"
                      /\ pc[r] \notin {"undo", "fallback"}

LEMMA CalmStep ==
  ASSUME CalmProcess, TypeOK, ProcessInv, CalmInv, [Next]_vars
  PROVE  CalmInv'
<1> USE ConstantsAssumption DEF CalmProcess, OneBankrProcess, TypeOK, ProcessInv,
        CalmInv, MarkerInv, HasMarker, Owning, Answers, Suspended, Synchronous,
        Logs, Goes, Resumes, Given, Files, Works, Fault
<1>1. ASSUME NEW t \in Calls, Gateway(t) PROVE CalmInv'
  <2>1. CASE Resolve(t)
    BY <2>1 DEF Resolve
  <2>2. CASE Validate(t)
    BY <2>2 DEF Validate
  <2>3. CASE CheckConsumed(t)
    BY <2>3 DEF CheckConsumed
  <2>4. CASE Claim(t)
    BY <2>4 DEF Claim
  <2>5. CASE LogReserved(t)
    BY <2>5 DEF LogReserved, Log, Logs, LogFails
  <2>6. CASE UndoReserve(t)
    BY <2>6 DEF UndoReserve
  <2>7. CASE Post(t)
    BY <2>7 DEF Post, Logs
  <2>8. CASE Decline(t)
    BY <2>8 DEF Decline, Logs
  <2>9. CASE Answered(t)
    BY <2>9 DEF Answered
  <2>10. CASE GiveUp(t)
    BY <2>10 DEF GiveUp
  <2>11. CASE Consume(t)
    BY <2>11 DEF Consume
  <2>12. CASE ConsumeFallback(t)
    BY <2>12 DEF ConsumeFallback
  <2>13. CASE LogConsumed(t)
    BY <2>13 DEF LogConsumed, Log, Logs, LogFails
  <2>14. CASE ReleaseDeclined(t)
    BY <2>14 DEF ReleaseDeclined, Unlink
  <2>15. CASE LogDeclined(t)
    BY <2>15 DEF LogDeclined, Log, Logs, LogFails
  <2>16. CASE Release(t)
    BY <2>16 DEF Release, Unlink
  <2>17. CASE LogReleased(t)
    BY <2>17 DEF LogReleased, Log, Logs, LogFails
  <2>18. QED
    BY <1>1, <2>1, <2>2, <2>3, <2>4, <2>5, <2>6, <2>7, <2>8, <2>9, <2>10, <2>11, <2>12, <2>13, <2>14, <2>15, <2>16, <2>17 DEF Gateway
<1>2. ASSUME NEW t \in Calls, BankrSettles(t) PROVE CalmInv'
  BY <1>2 DEF BankrSettles
<1>3. ASSUME NEW a \in Approvals, Expire(a) PROVE CalmInv'
  BY <1>3 DEF Expire
<1>4. ASSUME NEW p \in Processes, Crash(p) PROVE CalmInv'
  BY <1>4 DEF Crash
<1>5. UNCHANGED vars => CalmInv'
  BY DEF vars
<1>6. QED
  BY <1>1, <1>2, <1>3, <1>4, <1>5 DEF Next

LEMMA Calm == ASSUME CalmProcess PROVE Spec => []CalmInv
<1>1. Init => CalmInv
  BY DEF Init, CalmInv
<1>2. TypeOK /\ ProcessInv /\ CalmInv /\ [Next]_vars => CalmInv'
  BY CalmStep
<1>3. Spec => []ProcessInv
  BY OneProcess DEF CalmProcess
<1>4. QED
  BY <1>1, <1>2, <1>3, TypeCorrect, PTL DEF Spec

\* With no lost answer and no failing disk, Bankr performs an approval at most
\* once, in spite of crashes and of calls in any order.
THEOREM PerformedAtMostOnce == ASSUME CalmProcess PROVE Spec => []AtMostOnce
<1>1. ProcessInv /\ CalmInv => AtMostOnce
  BY DEF ProcessInv, DoubleExecutionNeedsLeak, Charged, CalmInv, AtMostOnce
<1>2. Spec => []ProcessInv
  BY OneProcess DEF CalmProcess
<1>3. QED
  BY <1>1, <1>2, Calm, PTL

-----------------------------------------------------------------------------
(* The refinement of OneShotApproval *)

State == [a \in Approvals |-> IF a \in consumed THEN "spent"
                              ELSE IF a \in reserved THEN "claimed" ELSE "free"]
Performed == [a \in Approvals |->
                {r \in Calls : appr[r] = a /\ post[r] = "performed"}]

LEMMA RefinementStep ==
  ASSUME CalmProcess, TypeOK, AnywhereInv, ProcessInv, CalmInv, [Next]_vars
  PROVE  [OneShot!Next]_<<State, Performed>>
<1> USE ConstantsAssumption DEF TypeOK
<1>1. ASSUME UNCHANGED <<reserved, consumed, appr, post>>
      PROVE  UNCHANGED <<State, Performed>>
  BY <1>1 DEF State, Performed
<1>2. ASSUME NEW t \in Calls, Claim(t), UNCHANGED reserved
      PROVE  UNCHANGED <<State, Performed>>
  BY <1>1, <1>2 DEF Claim, Given
<1>3. ASSUME NEW t \in Calls, NEW a \in Approvals, a = appr[t],
             Claim(t), reserved' # reserved
      PROVE  OneShot!Claim(a)
  <2>1. /\ reserved' = reserved \cup {appr[t]} /\ appr[t] \notin reserved
        /\ appr[t] \notin consumed /\ UNCHANGED <<consumed, appr, post>>
    BY <1>3 DEF CalmProcess, Claim, Fault, Works, Given, Goes, ProcessInv, MarkerInv
  <2>2. QED
    BY <1>3, <2>1 DEF OneShot!Claim, OneShot!Becomes, State, Performed
<1>4. ASSUME NEW t \in Calls, NEW a \in Approvals, a = appr[t], Consume(t)
      PROVE  OneShot!Spend(a)
  <2>1. /\ appr[t] \in reserved /\ appr[t] \notin consumed /\ post[t] = "performed"
        /\ reserved' = reserved \ {appr[t]} /\ consumed' = consumed \cup {appr[t]}
        /\ UNCHANGED <<appr, post>>
    BY <1>4 DEF CalmProcess, Consume, Fault, Works, Given, Goes, Resumes, Files,
       ProcessInv, MarkerInv, HasMarker, Owning, AnywhereInv, AnswerInv
  <2>2. Performed[a] # {} /\ UNCHANGED Performed
    BY <1>4, <2>1 DEF Performed
  <2>3. State[a] = "claimed" /\ State' = [State EXCEPT ![a] = "spent"]
    BY <1>4, <2>1 DEF State
  <2>4. QED
    BY <2>2, <2>3 DEF OneShot!Spend, OneShot!Becomes, State, Performed
<1>5. ASSUME NEW t \in Calls, NEW a \in Approvals, a = appr[t],
             Release(t) \/ ReleaseDeclined(t), a \notin consumed
      PROVE  OneShot!Free(a)
  <2>1. /\ appr[t] \in reserved /\ post[t] \in {"rejected", "none"} /\ pc[t] \in Holding
        /\ reserved' = reserved \ {appr[t]} /\ UNCHANGED <<consumed, appr, post>>
    BY <1>5 DEF CalmProcess, Release, ReleaseDeclined, Unlink, Holding, HasMarker, Owning, Fault, Works, Given, Goes, Resumes,
       ProcessInv, MarkerInv, CalmInv
  <2>2. Performed[a] = {} /\ UNCHANGED Performed
    BY <1>5, <2>1 DEF Performed, ProcessInv, ChargeInv, Charged, CalmInv
  <2>3. State[a] = "claimed" /\ State' = [State EXCEPT ![a] = "free"]
    BY <1>5, <2>1 DEF State
  <2>4. QED
    BY <2>2, <2>3 DEF OneShot!Free, OneShot!Becomes, State, Performed
<1>6. ASSUME NEW t \in Calls, Release(t) \/ ReleaseDeclined(t), appr[t] \in consumed
      PROVE  UNCHANGED <<State, Performed>>
  BY <1>6 DEF CalmProcess, Release, ReleaseDeclined, Unlink, Fault, Works, Given, State, Performed
<1>7. ASSUME NEW t \in Calls, BankrSettles(t), post'[t] # "performed"
      PROVE  UNCHANGED <<State, Performed>>
  BY <1>7 DEF BankrSettles, Files, State, Performed
<1>8. ASSUME NEW t \in Calls, NEW a \in Approvals, a = appr[t],
             BankrSettles(t), post'[t] = "performed"
      PROVE  OneShot!Perform(a)
  <2>1. /\ post[t] = "pending" /\ post' = [post EXCEPT ![t] = "performed"]
        /\ UNCHANGED <<appr, reserved, consumed>>
    BY <1>8 DEF BankrSettles, Files
  <2>2. \A s \in Calls : appr[s] = appr[t] => post[s] # "performed"
    BY <2>1 DEF ProcessInv, DoubleExecutionNeedsLeak, Charged, CalmInv
  <2>3. appr[t] \in reserved /\ appr[t] \notin consumed
    BY <2>1, <2>2 DEF ProcessInv, ChargeInv, Charged, CalmInv, AnywhereInv,
       ConsumedMeansPerformed
  <2>4. State[a] = "claimed" /\ UNCHANGED State
    BY <1>8, <2>1, <2>3 DEF State
  <2>5. Performed[a] = {} /\ Performed' = [Performed EXCEPT ![a] = {t}]
    BY <1>8, <2>1, <2>2 DEF Performed
  <2>6. QED
    BY <2>4, <2>5 DEF OneShot!Perform, State, Performed
<1>9. ASSUME NEW t \in Calls, Gateway(t), ~Claim(t), ~Consume(t), ~Release(t),
             ~ReleaseDeclined(t)
      PROVE  UNCHANGED <<reserved, consumed, appr, post>> \/ Post(t)
  <2>1. pc[t] \notin {"undo", "fallback"}
    BY DEF CalmInv
  <2>2. QED
    BY <1>9, <2>1 DEF Gateway, Resolve, Validate, CheckConsumed, LogReserved,
       UndoReserve, Decline, Answered, GiveUp, ConsumeFallback, LogConsumed,
       LogDeclined, LogReleased, Given, Files, Goes, Resumes
<1>10. ASSUME NEW t \in Calls, Post(t) PROVE UNCHANGED <<State, Performed>>
  <2>1. UNCHANGED <<appr, reserved, consumed>> /\ post[t] = "none"
    BY <1>10 DEF Post, Given, Files, Resumes, Goes, AnywhereInv, PostInv, Unposted
  <2>2. post' = [post EXCEPT ![t] = "pending"]
    BY <1>10 DEF Post, Logs
  <2>3. QED
    BY <2>1, <2>2 DEF State, Performed
<1>11. ASSUME NEW a \in Approvals, Expire(a) PROVE UNCHANGED <<State, Performed>>
  BY <1>1, <1>11 DEF Expire, Files
<1>12. ASSUME NEW p \in Processes, Crash(p) PROVE UNCHANGED <<State, Performed>>
  BY <1>1, <1>12 DEF Crash, Files
<1>13. CASE UNCHANGED vars
  BY <1>1, <1>13 DEF vars
<1>14. \A t \in Calls : appr[t] \in Approvals
  OBVIOUS
<1>15. ASSUME NEW t \in Calls, Gateway(t)
       PROVE  OneShot!Next \/ UNCHANGED <<State, Performed>>
  <2>1. PICK a \in Approvals : a = appr[t]
    BY <1>14
  <2>2. QED
    BY <1>1, <1>2, <1>3, <1>4, <1>5, <1>6, <1>9, <1>10, <1>15, <2>1 DEF OneShot!Next
<1>16. ASSUME NEW t \in Calls, BankrSettles(t)
       PROVE  OneShot!Next \/ UNCHANGED <<State, Performed>>
  <2>1. PICK a \in Approvals : a = appr[t]
    BY <1>14
  <2>2. QED
    BY <1>7, <1>8, <1>16, <2>1 DEF OneShot!Next
<1>17. QED
  BY <1>11, <1>12, <1>13, <1>15, <1>16 DEF Next

\* With no lost answer and no failing disk the lifecycle implements the
\* one-shot approval of the runbook.
THEOREM ImplementsOneShot == ASSUME CalmProcess PROVE Spec => IsOneShot
<1>1. Init => OneShot!Init
  BY DEF Init, OneShot!Init
<1>2. TypeOK /\ AnywhereInv /\ ProcessInv /\ CalmInv /\ [Next]_vars
        => [OneShot!Next]_<<State, Performed>>
  BY RefinementStep
<1>3. Spec => []ProcessInv
  BY OneProcess DEF CalmProcess
<1>4. QED
  BY <1>1, <1>2, <1>3, TypeCorrect, Anywhere, Calm, PTL
  DEF Spec, IsOneShot, OneShot!Spec, State, Performed
=============================================================================

