-------------------------- MODULE ApprovalLifecycle --------------------------
(***************************************************************************)
(* The life of a human approval in the Base MCP gateway: callBaseMcpTool   *)
(* (mcp-base.ts) looks a sealed approval up, reserves it in a directory of *)
(* marker files (bankr-approval-store.ts), posts the operation to Bankr    *)
(* (bankr-adapter.ts), and then consumes or releases the reservation.      *)
(*                                                                         *)
(* A process runs one call at a time between two awaits; calls of one      *)
(* process interleave at the awaits only, calls of two processes that      *)
(* share the usage directory interleave at every file operation.           *)
(***************************************************************************)
EXTENDS Naturals, FiniteSets

CONSTANTS
  Approvals,        \* sealed approval records, one reservationKey each
  Calls,            \* tools/call requests for an execute_approved_* tool
  Processes,        \* gateway processes that share the usage directory
  MayDecline,       \* does the runtime ever return without executing?
  MaxFaults,        \* bound: file operations that fail
  MaxGiveUps,       \* bound: posts whose answer never reaches the gateway
  MaxCrashes        \* bound: gateway processes killed

ASSUME ConstantsAssumption ==
  /\ MayDecline \in BOOLEAN
  /\ MaxFaults \in Nat /\ MaxGiveUps \in Nat /\ MaxCrashes \in Nat

VARIABLES
  pc,               \* how far each call is; the answers are final places
  proc,             \* the process that serves a call
  logs,             \* the processes started with an audit log path
  appr,             \* the approval a call names by approval_id
  expired,          \* approvals whose expires_at has passed
  reserved,         \* markers in <usage>/reserved
  consumed,         \* markers in <usage>/consumed
  post,             \* the POST of a call, as Bankr sees it
  audit,            \* lines of the audit log: <<event, call>>
  leaked,           \* history: calls that gave a reservation back although
                    \* their POST was not refused by Bankr
  faults, giveUps, crashes

vars == <<pc, proc, logs, appr, expired, reserved, consumed, post, audit, leaked,
          faults, giveUps, crashes>>

Answers == {"ok", "refused", "error", "dead"}
\* Places inside a synchronous section: the event loop cannot leave the call.
Synchronous == {"check", "claim", "logReserved", "undo", "logDeclined",
                "fallback", "logConsumed", "logReleased"}
\* Places where the call sits at an await.
Suspended == {"idle", "resolved", "reserved", "sent", "declined", "accepted",
              "failed"}

Idle(p) == \A r \in Calls : proc[r] = p => pc[r] \notin Synchronous

Goes(r, from, to) == pc[r] = from /\ pc' = [pc EXCEPT ![r] = to]
Resumes(r, from, to) == Idle(proc[r]) /\ Goes(r, from, to)

Fault == faults < MaxFaults /\ faults' = faults + 1
Works == UNCHANGED faults

\* What no call changes once it is made, and the environment's variables.
Given == UNCHANGED <<proc, logs, appr, expired, giveUps, crashes>>
Files == <<reserved, consumed>>

\* Seeded bug: the audit line names the approval, not the reservation.
LogAnonymous(event, r) == audit' = audit \cup {<<event, appr[r]>>}

\* auditEvent appends one line, to the log if there is one.
Logs(r) == proc[r] \in logs
Log(event, r) == audit' = IF Logs(r) THEN audit \cup {<<event, r>>} ELSE audit
LogFails(r) == Logs(r) /\ Fault /\ UNCHANGED audit

Init ==
  /\ pc = [r \in Calls |-> "idle"]
  /\ proc \in [Calls -> Processes]
  /\ appr \in [Calls -> Approvals]
  /\ logs \in SUBSET Processes
  /\ expired = {} /\ reserved = {} /\ consumed = {}
  /\ post = [r \in Calls |-> "none"]
  /\ audit = {} /\ leaked = {}
  /\ faults = 0 /\ giveUps = 0 /\ crashes = 0

-----------------------------------------------------------------------------
(* Seeded bugs: variants of the actions below that the properties must catch. *)

\* The consumed marker is never looked at.
CheckNothing(r) ==
  /\ Works /\ Goes(r, "check", "claim")
  /\ Given /\ UNCHANGED <<Files, post, audit, leaked>>

\* The reserved marker is written with flag w: an existing one is overwritten.
ClaimOverwriting(r) ==
  /\ Works /\ Goes(r, "claim", "logReserved")
  /\ reserved' = reserved \cup {appr[r]}
  /\ Given /\ UNCHANGED <<consumed, post, audit, leaked>>

\* An audit append that throws is ignored.
LogReservedBestEffort(r) ==
  /\ \/ Works /\ Goes(r, "logReserved", "reserved") /\ Log("reserved", r)
     \/ LogFails(r) /\ Goes(r, "logReserved", "reserved")
  /\ Given /\ UNCHANGED <<Files, post, leaked>>

\* Any result that came back counts as accepted.
DeclineAccepted(r) ==
  /\ MayDecline
  /\ Resumes(r, "reserved", "accepted")
  /\ Given /\ Works /\ UNCHANGED <<Files, post, audit, leaked>>

\* A status that is not 2xx is never thrown, nor anything else.
AnsweredOnSuccess(r) ==
  /\ post[r] = "performed" /\ Resumes(r, "sent", "accepted")
  /\ Given /\ Works /\ UNCHANGED <<Files, post, audit, leaked>>

\* The reserved marker is unlinked, and no consumed marker takes its place.
ConsumeUnlinking(r) ==
  /\ appr[r] \in reserved /\ reserved' = reserved \ {appr[r]}
  /\ Works /\ Resumes(r, "accepted", "logConsumed")
  /\ Given /\ UNCHANGED <<consumed, post, audit, leaked>>

\* The reserved marker is copied, not renamed.
ConsumeCopying(r) ==
  /\ consumed' = consumed \cup {appr[r]}
  /\ Works /\ Resumes(r, "accepted", "logConsumed")
  /\ Given /\ UNCHANGED <<reserved, post, audit, leaked>>

\* The fallback swallows a failing write.
ConsumeFallbackSilent(r) ==
  /\ Goes(r, "fallback", "logConsumed")
  /\ \/ Works /\ consumed' = consumed \cup {appr[r]}
     \/ Fault /\ UNCHANGED consumed
  /\ Given /\ UNCHANGED <<reserved, post, audit, leaked>>

\* A call that is declined is refused without giving its marker back.
ReleaseDeclinedForgotten(r) ==
  /\ Resumes(r, "declined", "logDeclined") /\ Works
  /\ Given /\ UNCHANGED <<Files, post, audit, leaked>>

-----------------------------------------------------------------------------
(* Before the reservation *)

\* resolveApproved*: the record is looked up if it is still active.
Resolve(r) ==
  /\ Resumes(r, "idle", IF appr[r] \in expired THEN "refused" ELSE "resolved")
  /\ Given /\ Works /\ UNCHANGED <<Files, post, audit, leaked>>

\* validateApproved*, evaluateToolCall and findGrant follow the lookup: any of
\* them may refuse; expiry is read a second time. What passes enters
\* reserveApprovedContractOperation without another await.
Validate(r) ==
  /\ \/ appr[r] \notin expired /\ Resumes(r, "resolved", "check")
     \/ Resumes(r, "resolved", "refused")
  /\ Given /\ Works /\ UNCHANGED <<Files, post, audit, leaked>>

\* The consumed marker is looked at; mkdirSync before it throws past the try.
CheckConsumed(r) ==
  /\ \/ /\ Works
        /\ Goes(r, "check", IF appr[r] \in consumed THEN "refused" ELSE "claim")
     \/ Fault /\ Goes(r, "check", "error")
  /\ Given /\ UNCHANGED <<Files, post, audit, leaked>>

\* writeFileSync(reserved, flag wx): refuses an existing marker; a failing
\* write may leave a marker behind.
Claim(r) ==
  /\ \/ /\ Works /\ appr[r] \in reserved
        /\ Goes(r, "claim", "refused") /\ UNCHANGED reserved
     \/ /\ Works /\ appr[r] \notin reserved
        /\ Goes(r, "claim", "logReserved")
        /\ reserved' = reserved \cup {appr[r]}
     \/ /\ Fault /\ Goes(r, "claim", "refused")
        /\ reserved' \in {reserved, reserved \cup {appr[r]}}
  /\ Given /\ UNCHANGED <<consumed, post, audit, leaked>>

\* auditEvent("approval_reserved"); when it throws the marker is taken back.
LogReserved(r) ==
  /\ \/ Works /\ Goes(r, "logReserved", "reserved") /\ Log("reserved", r)
     \/ LogFails(r) /\ Goes(r, "logReserved", "undo")
  /\ Given /\ UNCHANGED <<Files, post, leaked>>

UndoReserve(r) ==
  /\ Goes(r, "undo", "refused")
  /\ \/ Works /\ reserved' = reserved \ {appr[r]}
     \/ Fault /\ UNCHANGED reserved            \* "ignore cleanup"
  /\ Given /\ UNCHANGED <<consumed, post, audit, leaked>>

-----------------------------------------------------------------------------
(* The runtime, and Bankr behind it *)

\* Governed writes are ready only with an audit log (bankr-readiness.ts).
Post(r) ==
  /\ Logs(r) /\ Resumes(r, "reserved", "sent")
  /\ post' = [post EXCEPT ![r] = "pending"]
  /\ Given /\ Works /\ UNCHANGED <<Files, audit, leaked>>

\* disabledWrite and defaultRuntimeResult: executed is false.
Decline(r) ==
  /\ MayDecline \/ ~Logs(r)
  /\ Resumes(r, "reserved", "declined")
  /\ Given /\ Works /\ UNCHANGED <<Files, post, audit, leaked>>

\* Bankr settles a POST whenever it likes, whoever still waits for it.
BankrSettles(r) ==
  /\ post[r] = "pending"
  /\ \E outcome \in {"performed", "rejected"} :
       post' = [post EXCEPT ![r] = outcome]
  /\ UNCHANGED <<pc, proc, logs, appr, expired, Files, audit, leaked, faults,
                 giveUps, crashes>>

\* A 2xx answer becomes executed: true, any other status is thrown.
Answered(r) ==
  /\ \/ post[r] = "performed" /\ Resumes(r, "sent", "accepted")
     \/ post[r] = "rejected" /\ Resumes(r, "sent", "failed")
  /\ Given /\ Works /\ UNCHANGED <<Files, post, audit, leaked>>

\* fetch rejects (reset, timeout), a status that is not 2xx after the fact, or
\* a body that is not JSON: post() throws although Bankr has the operation.
GiveUp(r) ==
  /\ giveUps < MaxGiveUps /\ giveUps' = giveUps + 1
  /\ post[r] \in {"pending", "performed"}
  /\ Resumes(r, "sent", "failed")
  /\ Works /\ UNCHANGED <<proc, logs, appr, expired, Files, post, audit, leaked, crashes>>

-----------------------------------------------------------------------------
(* After the runtime *)

\* consumeApprovedContractOperation: the marker moves to consumed and is
\* rewritten. A rename that fails falls back to creating the consumed marker;
\* a failing rewrite falls back too, and finds the marker there.
Consume(r) ==
  /\ \/ /\ appr[r] \in reserved
        /\ reserved' = reserved \ {appr[r]} /\ consumed' = consumed \cup {appr[r]}
        /\ \/ Works /\ Resumes(r, "accepted", "logConsumed")
           \/ Fault /\ Resumes(r, "accepted", "failed")
     \/ /\ appr[r] \notin reserved /\ Works
        /\ Resumes(r, "accepted", "fallback") /\ UNCHANGED Files
     \/ /\ Fault /\ UNCHANGED Files
        /\ \/ Resumes(r, "accepted", "fallback")     \* renameSync throws
           \/ Resumes(r, "accepted", "failed")       \* mkdirSync throws
  /\ Given /\ UNCHANGED <<post, audit, leaked>>

\* The catch of the rename: create the consumed marker with flag wx or throw.
ConsumeFallback(r) ==
  /\ \/ /\ appr[r] \in consumed /\ Works
        /\ Goes(r, "fallback", "failed") /\ UNCHANGED consumed
     \/ /\ appr[r] \notin consumed /\ Works
        /\ Goes(r, "fallback", "logConsumed")
        /\ consumed' = consumed \cup {appr[r]}
     \/ /\ Fault /\ Goes(r, "fallback", "failed")
        /\ consumed' \in {consumed, consumed \cup {appr[r]}}
  /\ Given /\ UNCHANGED <<reserved, post, audit, leaked>>

LogConsumed(r) ==
  /\ \/ Works /\ Goes(r, "logConsumed", "ok") /\ Log("consumed", r)
     \/ LogFails(r) /\ Goes(r, "logConsumed", "failed")
  /\ Given /\ UNCHANGED <<Files, post, leaked>>

\* releaseApprovedContractOperation unlinks the marker by its key, whoever
\* wrote it, and ignores an unlink that fails.
Unlink(r) ==
  /\ \/ /\ Works /\ reserved' = reserved \ {appr[r]}
        /\ leaked' = IF appr[r] \in reserved /\ post[r] \in {"pending", "performed"}
                       THEN leaked \cup {r} ELSE leaked
     \/ Fault /\ UNCHANGED <<reserved, leaked>>
  /\ UNCHANGED consumed

\* The runtime reported no accepted execution: release, inside the try.
ReleaseDeclined(r) ==
  /\ Resumes(r, "declined", "logDeclined") /\ Unlink(r)
  /\ Given /\ UNCHANGED <<post, audit>>

\* An audit line that cannot be written here lands in the catch, which
\* releases a second time.
LogDeclined(r) ==
  /\ \/ Works /\ Goes(r, "logDeclined", "refused") /\ Log("released", r)
     \/ LogFails(r) /\ Goes(r, "logDeclined", "failed")
  /\ Given /\ UNCHANGED <<Files, post, leaked>>

\* The catch of callBaseMcpTool: whatever was thrown, release and refuse.
Release(r) ==
  /\ Resumes(r, "failed", "logReleased") /\ Unlink(r)
  /\ Given /\ UNCHANGED <<post, audit>>

LogReleased(r) ==
  /\ \/ Works /\ Goes(r, "logReleased", "refused") /\ Log("released", r)
     \/ LogFails(r) /\ Goes(r, "logReleased", "error")
  /\ Given /\ UNCHANGED <<Files, post, leaked>>

-----------------------------------------------------------------------------
(* The environment *)

Expire(a) ==
  /\ a \notin expired /\ expired' = expired \cup {a}
  /\ UNCHANGED <<pc, proc, logs, appr, Files, post, audit, leaked, faults, giveUps, crashes>>

\* A process is killed and started again: its calls get no answer, the
\* markers and the POSTs stay.
Crash(p) ==
  /\ crashes < MaxCrashes /\ crashes' = crashes + 1
  /\ pc' = [r \in Calls |-> IF proc[r] = p /\ pc[r] \notin Answers \cup {"idle"}
                              THEN "dead" ELSE pc[r]]
  /\ UNCHANGED <<proc, logs, appr, expired, Files, post, audit, leaked, faults, giveUps>>

Gateway(r) ==
  \/ Resolve(r) \/ Validate(r) \/ CheckConsumed(r) \/ Claim(r) \/ LogReserved(r)
  \/ UndoReserve(r) \/ Post(r) \/ Decline(r) \/ Answered(r) \/ GiveUp(r)
  \/ Consume(r) \/ ConsumeFallback(r) \/ LogConsumed(r) \/ ReleaseDeclined(r)
  \/ LogDeclined(r) \/ Release(r) \/ LogReleased(r)

Next ==
  \/ \E r \in Calls : Gateway(r) \/ BankrSettles(r)
  \/ \E a \in Approvals : Expire(a)
  \/ \E p \in Processes : Crash(p)

Spec == Init /\ [][Next]_vars

\* The event loop keeps running a call it has started, and Bankr settles a
\* POST: fetch has a default timeout, so the await ends one way or the other.
\* Nothing makes a client send a call.
Fairness ==
  \A r \in Calls : /\ WF_vars(pc[r] # "idle" /\ Gateway(r))
                   /\ WF_vars(BankrSettles(r))

FairSpec == Spec /\ Fairness

-----------------------------------------------------------------------------
(* What the store and the gateway promise *)

TypeOK ==
  /\ pc \in [Calls -> Answers \cup Suspended \cup Synchronous]
  /\ proc \in [Calls -> Processes] /\ logs \subseteq Processes
  /\ appr \in [Calls -> Approvals]
  /\ expired \subseteq Approvals
  /\ reserved \subseteq Approvals
  /\ consumed \subseteq Approvals
  /\ post \in [Calls -> {"none", "pending", "performed", "rejected"}]
  /\ audit \subseteq {"reserved", "consumed", "released"} \X Calls
  /\ leaked \subseteq Calls
  /\ faults \in 0 .. MaxFaults
  /\ giveUps \in 0 .. MaxGiveUps
  /\ crashes \in 0 .. MaxCrashes

\* From the audit line to the end of consume or release a call owns its marker.
Owning == {"logReserved", "undo", "reserved", "sent", "declined", "accepted"}
Owner(r, a) == appr[r] = a /\ pc[r] \in Owning
\* Bankr performed the operation of the call, or may still do so.
Charged(r) == post[r] \in {"pending", "performed"}

\* "Only one claimant can reach runtime" (bankr-approval-store.test.ts): no two
\* calls own the reservation of one approval at the same time.
OneClaimant ==
  \A a \in Approvals, r, s \in Calls : Owner(r, a) /\ Owner(s, a) => r = s

\* Two calls have the same approval performed by Bankr, or about to be, only
\* if one of them was released although Bankr had not refused it. This is the
\* exact condition under which release-on-failure costs a second execution.
DoubleExecutionNeedsLeak ==
  \A r, s \in Calls :
    r # s /\ appr[r] = appr[s] /\ Charged(r) /\ Charged(s)
      => r \in leaked \/ s \in leaked

\* One sealed record authorises one action: Bankr performs it at most once.
AtMostOnce ==
  \A r, s \in Calls :
    appr[r] = appr[s] /\ post[r] = "performed" /\ post[s] = "performed" => r = s

\* "approval already consumed; replay refused": no call posts an operation
\* whose approval is consumed when it posts.
NoReplay ==
  [][\A r \in Calls : appr[r] \in consumed /\ post'[r] = "pending"
                        => post[r] = "pending"]_vars

\* A client is told ok only when Bankr performed the operation and the
\* consumed marker is on disk, so that no restart makes the approval usable.
OkMeansSpent ==
  \A r \in Calls : pc[r] = "ok" => post[r] = "performed" /\ appr[r] \in consumed

\* An approval is spent only by an operation Bankr performed: a refusal or a
\* declining runtime never burns it.
ConsumedMeansPerformed ==
  \A a \in consumed : \E r \in Calls : appr[r] = a /\ post[r] = "performed"

\* "audit append cannot happen before runtime" aborts the call: nothing reaches
\* Bankr unless the reservation of that very call is in the audit log.
AuditBeforeRuntime ==
  \A r \in Calls : post[r] # "none" => <<"reserved", r>> \in audit

\* A reservation without a call that will settle it is left behind only by a
\* killed process or a failing disk, never by an answer, a refusal or a race.
OrphanNeedsFault ==
  \A a \in reserved :
    \/ \E r \in Calls : appr[r] = a /\ pc[r] \in Owning \cup {"failed"}
    \/ faults > 0 \/ crashes > 0

\* Every call the gateway has started is answered, or dies with its process.
EveryCallAnswered ==
  \A r \in Calls : pc[r] # "idle" ~> pc[r] \in Answers

\* A reservation is settled in the end unless a process was killed holding it.
ReservationSettles ==
  \A a \in Approvals : a \in reserved ~> a \notin reserved \/ crashes > 0

-----------------------------------------------------------------------------
\* The markers and the POSTs, read as the abstract one-shot approval.
OneShot == INSTANCE OneShotApproval WITH
  Effects <- Calls,
  state <- [a \in Approvals |-> IF a \in consumed THEN "spent"
                                ELSE IF a \in reserved THEN "claimed" ELSE "free"],
  effects <- [a \in Approvals |->
                {r \in Calls : appr[r] = a /\ post[r] = "performed"}]

\* With no answer lost and no file operation failing, the lifecycle is a
\* one-shot approval: claimed, performed at most once, then spent or freed.
IsOneShot == OneShot!Spec
=============================================================================
