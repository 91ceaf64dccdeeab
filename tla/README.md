# A verification model of the Leonardo gateway

The repository is a platform in TypeScript and Python around one gateway
process (`services/gateway`, a hono application on bun): agents and people chat
with an assistant, pay per request, read a knowledge graph, file requests for
work, and — the part with the highest stakes — have governed operations
executed on chain by the Bankr service, each under a sealed human approval.
This directory holds TLA+ models of the parts of that gateway whose
correctness depends on the order of steps, the TLC configurations that check
them, and TLAPS proofs about all of them.

Paths below are relative to the repository; `gw/` stands for
`services/gateway/src/`.

Contents: [1 Inventory](#1-inventory) · [2 Plan](#2-plan) ·
[3 The modules](#3-the-modules) · [4 The runs](#4-the-runs) ·
[5 Fairness](#5-fairness) · [6 Proofs](#6-proofs) ·
[7 Findings](#7-findings) · [8 What is not modelled](#8-what-is-not-modelled) ·
[9 Running it](#9-running-it)

## 1 Inventory

How work flows: a request reaches a route of `gw/app.ts`; middleware checks the
session or MCP token and the free tier or the x402 payment; the handler calls one
of the components below. A process is single threaded: handlers interleave only
at `await`s, and every component that uses synchronous file operations is atomic
*within* a process. Components share state with *other* processes, and with
their own earlier incarnations, through files in a home directory.

| component (sources) | state | operations | hard behaviour | what makes it correct |
|---|---|---|---|---|
| **Approval lifecycle** (`gw/mcp-base.ts`, `gw/bankr-approval-store.ts`, `gw/bankr-adapter.ts`) | sealed approval records; marker files `reserved/` and `consumed/`; an append-only audit log; the operation at Bankr | look up, validate, reserve, post, consume, release | concurrent calls with one approval, lost answers, failing files, crashes, two processes on one directory | one record authorises one operation; an ok answer and a consumed marker mean that it was performed; nothing reaches Bankr unaudited; reservations settle |
| **Hermes chat bridge** (`gw/chat/hermes-acp.ts`, `services/hermes-acp/bridge.py`) | the child process and its ready promise; a promise-chain lock; readers waiting and frames unread; the bridge's prompt | start on demand, take the lock, prompt, deliver frames, drain, release; in the bridge: prompt, update, done, err | frames carry no turn; consumers that leave mid-turn; bridge errors, exits, late starts | a turn sees its own frames only; one prompt at a time; every turn ends |
| **Intake ledger** (`gw/intake.ts`) | one JSON ledger, lock file and breaker file per wallet | store a request (acquire, read, append, cap, write, release), break stale locks | several processes; a holder killed or suspended; check-then-unlink | no update is lost; a stale file blocks nobody |
| **MCP access tokens** (`gw/mcp-tokens.ts`) | records in memory, and their file | create (revokes the wallet's others), rotate, revoke, verify (stamps last use) | memory changes before the file is written, which may fail; restart | at most one active token per wallet; a revoked token stays revoked |
| **Free tier and paywall** (`gw/chat/freebies.ts`, middleware in `gw/app.ts`) | prompts used per wallet, in memory and in a file | check in the middleware, consume in the handler | awaits between check and consume; best-effort persist; restart | FREE_PROMPTS unpaid prompts per wallet, and one more only for a lost count or an overlap |
| **Chat turn with the identity kernel** (`gw/app.ts`, `gw/chat/agent.ts`, `gw/chat/tools.ts`, `gw/identity-kernel-gate.ts`, `packages/identity-kernel`) | the frames of one turn, held and shown; the verdicts on input, tools and output; what the turn leaves in the stores | verdict on the input, run the agent, buffer, verdict on the output, flush | a stream that fails, ends without `done`, or whose client leaves; a gateway that is killed | nothing is shown before its verdict; a stopped turn leaves no answer behind; every stream closes |
| **Conversation memory and compaction** (`gw/chat/compaction.ts`, `gw/chat/agent.ts`, `apps/web/app/page.tsx`) | the page's thread and running summary; the context a turn is given | send, approve or decline a paid tool, open another conversation, autosave; compact, clamp | state read at a click and written after an answer; summaries that fail; threads that are cut | the model is told everything, or it is known why not; a tool result follows its call |
| **Capability grants and policy** (`gw/mcp-base.ts`, `gw/bankr-approval-store.ts`, `gw/bankr-adapter.ts`) | the passport, the approval and the arguments of one call | find the grant for a tool, validate the approval, post | the token, the passport, its document, grants and approvals end while the call awaits | what is posted is what was granted, and approved |
| **Passport resolution and grant updates** (`gw/identity-kernel-passport-resolver.ts`, `gw/identity-kernel-passport-grant-update*.ts`) | the owner, agent wallet and document on chain | read them; plan and send a replacement document | the document changes between plan and transaction | nobody acts on another's passport |
| **Wallet memory** (`gw/history.ts`, `gw/chat/identity.ts`) | JSON files per wallet: history, conversations, what is recalled | append, store, delete, record a turn | files are rewritten whole, and a write may fail or be cut off; the stores take such a file for an empty one | newest entries kept, up to their caps |
| **Council** (`gw/council.ts`, `gw/council-memory.ts`, `gw/council-gateway-memory-capture.ts`) | the session in progress; a capped log | ask the seats, synthesise, check for secrets, keep | late and failing seats; capture modes; a log write that fails | the newest sessions are kept, up to the cap |
| **Agent runner** (`gw/agents/runner.ts`) | a counter file per wallet | provision, prompt | prompts in flight together, the counter read again after the await | no counted prompt is lost |
| **Evals and the Repro Lab** (`gw/evals.ts`, `apps/web/app/tools/repro`, `apps/web/lib`) | runs in memory; a web session; two tabs | create a run, fetch its receipt; filter and page the ledger | answers out of order, sessions that expire, a restart that forgets the runs | the page shows what was asked last |
| **Bankr readiness and smoke tools** (`gw/bankr-readiness.ts`, `gw/*-smoke.ts`) | temporary tokens in the registry | list, create, probe, revoke | other users of the same wallet, lost answers, a killed tool | a receipt that passes vouches for the clean-up |
| **Read-only graph** (`gw/mcp-graph.ts`, `services/graph-mcp`, `services/workshop-sidecar`) | external databases | query | pure I/O | – |
| **Web application outside chat and lab** (`apps/web`) | signed cookies | UI, thin API routes | no server state | – |
| **Contracts, schema, shared types** (`packages/contracts`, `packages/db`, `packages/shared`, `supabase`) | – | types, ABIs, SQL | – | – |

Interactions that matter: `callBaseMcpTool` calls the store, the adapter and the
store again, with an `await` on Bankr in between; a token of the MCP registry
admits a request to `callBaseMcpTool`, and the smoke tools create and revoke such
tokens; the chat page replays to the gateway the thread and the summary it was sent
before; the chat handler consumes a free prompt
and then reads frames from `runHermesTurn`; all stores share a disk with every
other gateway process that was started with the same directories.

`PROJECT.json` lists every component with its status, and the hazards, each at
its line and with the properties that would catch it going wrong. Where the code itself lets the
hazard happen and no document excludes it, no property does either: the hazard is listed with
the reason, and with what a neighbouring property excepts or bounds.

## 2 Plan

In the order of what a mistake costs:

1. `ApprovalLifecycle` (+ `OneShotApproval`, its abstract promise, and
   `ApprovalLifecycleProofs`) — *done*.
2. `HermesBridge` (+ `HermesBridgeProofs`) — *done*.
3. `IntakeLedger` (+ `IntakeLedgerProofs`) — *done*. Left: the ledger as a bounded
   append log, which it implements as long as at most one writer was killed.
4. `McpTokens` (+ `McpTokensProofs`) — *done*: the registry in memory against its
   file; composed with the tools that use it in `SmokeTools`.
5. `ChatTurn`, with the verdicts in `IdentityKernel` (+ `ChatTurnProofs`) — *done*:
   free tier, kernel, tool loop and frames of the chat route.
6. `GovernedCall` (+ `GovernedCallProofs`) — *done*: passport, approval record and
   grant of one call while all three may end, with the grant-update tool beside it.
7. `Conversation`, `SmokeTools`, `ReproLab`, `WalletMemory`, composed for checking
   in `MCGateway` — *done* (+ `ReproLabProofs`, and `GatewayProofs` for the other three and
   the composition).
8. Left: the history and the approval file with two
   gateways on one directory; a conversation in which the gateway's Hermes sessions
   take the place of the thread.

All modules avoid RECURSIVE operators so that they can be proved about.

## 3 The modules

### ApprovalLifecycle

One element of `Calls` is one `tools/call` of an `execute_approved_*` tool, and
its `pc` is its place in `callBaseMcpTool`. A place is *Synchronous* when the event
loop cannot leave the call there, so no other call of the same process moves
(`Idle`); calls of another process may. The file operations of the store are an
action each, because a second process, a crash or a failing disk can come between
any two.

| action | code |
|---|---|
| `Resolve`, `Validate` | lookup of the active record; field validation, policy and grant, with the second look at the expiry |
| `CheckConsumed`, `Claim`, `LogReserved`, `UndoReserve` | `reserveApprovedContractOperation`: the consumed marker is looked at, the reserved one is created with flag `wx`, the audit line is appended or the marker taken back |
| `Post`, `BankrSettles`, `Answered`, `GiveUp` | `post()` of the adapter; Bankr settles whether or not someone waits; an answer may be lost |
| `Decline` | a runtime that returns without executing (the disabled write, the default runtime) |
| `Consume`, `ConsumeFallback`, `LogConsumed` | `consumeApprovedContractOperation`: rename and rewrite, or create the marker when that throws |
| `ReleaseDeclined`, `LogDeclined` | the release inside the `try` |
| `Release`, `LogReleased` | the `catch`: whatever was thrown, release and refuse |
| `Expire`, `Crash` | the clock; a process killed and restarted |

`logs` are the processes that were started with an audit log path; in the others
`auditEvent` returns without a line and without failing (`Log`, `LogFails`). The
readiness check has an adapter that executes only where the path is set
(`gw/bankr-readiness.ts:63-68`), so that `Post` asks for it and a process without
a log declines.

`leaked` is a history variable: the calls that gave their marker back although
their POST was not refused. It lets `DoubleExecutionNeedsLeak` say exactly *when*
an approval can be executed twice, instead of only that it can.

What is abstracted: the validation of fields, the policy and the grant lookup are
one choice to refuse (they read the record and the arguments, and touch nothing
else); an approval is its reservation key.

`OneShotApproval` is what the operators' documents promise: claimed by one, in
effect at most once, then spent, or freed if nothing took effect. It is implemented
through a refinement mapping from the markers and the POSTs (`IsOneShot`).

### HermesBridge

The gateway and the bridge process, and the pipe between them. `queue` is the
promise chain `turnLock`; `starters` are the turns that await the promise of
`ensureBridge`, `waiters` and `pending` are `lineWaiters` and `pending`. A frame is its kind and
— for the properties only, nothing in the code can see it — the turn it is about.

Two facts about the scheduler carry the model. A continuation that is due runs
before the next request, timer or exit event (`~Busy` in those actions). Lines are
different: all lines of one chunk are handled in one loop, so `Line` may run before
the reader of the previous line has asked again. Both orders are in the model.

`Start` is `ensureBridge` and the entry to the lock; `Granted` writes the prompt,
or throws because `proc` is null and drains; `NextFrame` and `Line` are the two
ends of the frame queue; `Resume` and `Leave` are the consumer in `gw/app.ts`,
which pulls without an `await` of its own or drops the generator; `ExitEvent`,
`InitTimeout` and `SpawnError` are the event handlers. `Initialized`, `Prompted`,
`Says`, `Finishes`, `Fails` and `Exits` are the bridge: `Fails` prints `err` *and*
`done`, and after a timeout the agent may go on sending text (`straggling`), since
nothing cancels it.

Abstractions: the wire is one sequence across bridge incarnations (what the old one
printed can still be read after the new one has started); tool frames count as
text; the drain's deadline is longer than the bridge takes to end
a prompt it has begun to answer, so it passes
only on a turn the bridge owes nothing (`Owed`) — or, after a turn has failed, on any,
because a straggling frame may be shown to a turn whose session is still being opened. `InitTimeout` may fire at any time
while the promise is pending.

### IntakeLedger

`storeRequest` is synchronous, so two writers are two gateway processes, and each
writer stores one request. Every file operation that another process can notice is
an action: `tryAcquireWalletLock` looks at the breaker (twice, `n` is the round),
clears it when stale, links its claim file to the lock name; `maybeBreakStaleLock`
links the breaker, reads the lock's age, renames the lock away and releases the
breaker; the ledger is read, rewritten atomically and the lock released by reading
the token and unlinking.

`Age` lets a file become older than `LOCK_STALE_MS`. A file of a writer that runs
does not, unless the writer is suspended, which counts as a mishap like a kill and
a failing file operation; `MaxMishaps` bounds the three together. `stat` and the comparison
with the age are one step; the claim file belongs to its writer alone and is not
modelled; permission repair on read is left out, it changes no content.

### McpTokens

The records in memory (`cache`, once `loaded`) and the file they would be loaded
from. A registry is the set of known ids and the set of those with `revokedAt`; what
a token is for — its wallet, and its scopes and expiry as one value `terms` — is fixed
when it is issued. Every operation computes a new registry in memory and then calls
`persist()`, which has three ends here: it returns (`Written`), it throws after memory
has changed and perhaps after the file was emptied (`Thrown`), or the process is killed
in the middle (`Killed`). `Rotate` is two such writes in a row, as `rotateMcpToken` calls
`revokeMcpToken` and then `createMcpToken`; `Verify` writes too, because it stamps the
record. `given` and `withdrawn` record what the routes of `gw/app.ts` told an owner; an
operation that throws tells nothing.

Operations are synchronous and one gateway owns the file, so no two interleave. The
stamps themselves decide nothing and are left out, and so are refusals that change
nothing (an unsupported scope, a missing secret, an unknown id).

### ChatTurn and IdentityKernel

`IdentityKernel` has no state: the kernel's four verdicts as operators. A text is what
the patterns tell of it, a tool its name.

One element of `Requests` is one `POST /api/chat` of one wallet, and its `at` is the
await it stands at: `new`, `challenged` (402), `admitted` by the middleware,
`resolving` the passport, at the `brain`, `streaming`, then `closed`, `refused` or `gone`.

| action | code |
|---|---|
| `Enter`, `Pay` | the middleware: `remaining()` decides between a free prompt and a 402, which the page answers with a payment |
| `Read`, `Resolve`, `NoBrain` | the body, the passport and the verdict on prompt and summary; `getBrain` |
| `Start` | the stream opens; a free prompt is consumed and the count written, perhaps in vain (`Saved`) |
| `Text`, `ToolStart`, `ToolResult`, `Confirm`, `Done`, `EndInError` | the frames of `runChatTurn` or of Hermes as the loop of the route sees them: judged, held (`Deliver`), told (`Tell`) or answered with a refusal (`Refuse`). One reply may ask for several tools, which run one after the other (`BetweenTools`); the reply, not the tool, is a round of the loop |
| `StreamFails` | the route's own `catch`: the error is told at once, past what is held, and neither history nor recall is written |
| `Close` | the loop is left; history and recall |
| `Leave`, `Kill` | the client; a gateway killed and started again, perhaps in the middle of a write |

With the kernel in force every frame is held until the verdict on the whole answer.
`overlapped` and `lostCounts` are history variables: who was let through while
another free prompt was not yet consumed, and how many counts did not reach the
file. With them `FreeTierHolds` says *by how much* the free tier can be exceeded.

### Conversation

The page's thread and summary against the gateway's compaction, which keeps neither. A
message is its number, its kind and its conversation; a summary is the set of numbers
it covers, so that "what the model is told" is a set.

`Send`, `Approve`, `Paid`, `Decline`, `Answered`, `Silent`, `Confirms`, `BreaksOff` are
the handlers of `page.tsx`; a turn carries what its click saw, and `Settles` writes
the thread from it. `NewConversation`, `OpenConversation` and the debounced `Autosave`
do not wait for a turn. `ComposePlain` and `ComposeCompacted` are `runChatTurn` up to
its first call of the model: `splitForCompaction`, `buildWorkingWithSummary`,
`clampHistory`. `slips` is a history variable: what happened that may cost memory.
`ForgettingIsExplained` and `ThreadIntact` are about what happens without them.

Selected history entries, uploads and the rendering of items are left out; a summary is
taken to cover what it was made from, a text the model is asked for.

### GovernedCall

One `tools/call` of `POST /mcp/base` in the world it depends on. The places of `call`
are the awaits of the handler; each action is what runs between two of them.

| action | code |
|---|---|
| `Arrive` | the bearer token is verified before the first await |
| `ReadOwner`, `ReadDocument` | the resolver: `ownerOf`; agent wallet, token URI and document (`Accepts`, `Parsed`) |
| `LookUp` | the approval store: raw fields refused, a sealed record for id, passport and chain (`Found`, `Kept`) |
| `Check` | validation of the record, effective arguments, kernel verdict and `findGrant` (`Validated`, `Effective`, `Granted`) |
| `Reserve`, `Post` | the reservation is got or not; `executeAllowedTool` and the adapter (`Posts`, `Body`) |
| `RevokeToken`, `Transfer`, `Publish`, `TimePasses` | what ends around a call |
| `PlanUpdate`, `SendUpdate` | the grant-update tool: a plan from the document on chain, a transaction later |

Names and addresses are strings, an allowlist is a set, an amount a number of the
smallest unit (`Number` is the double it is read as, any monotone function, so that amounts
above 2^53 may be taken for one another: a limit is kept up to what `Number` tells apart), and `soon` marks what expires while the call is served; the shapes are
`CallRecord`, `GrantRecord`, `DocumentRecord` and `ApprovalRecord`. `since` is history: what was true when
the call arrived, or became true since. A record is `sealed` or not: its hash is a
flag. The transaction of a contract operation is posted with its own value, or none, and
checked with that value or, where it has none, with the value of the record (`Sends`, `Checked`).
What becomes of a reservation is the subject of `ApprovalLifecycle`.
`MCGovernedCall` holds the calls, documents, records and environments TLC tries: each
case of the policy once.

### SmokeTools

`runBankrLiveSmoke` and `runLiveMcpSmoke`, composed with the registry they run against:
`Registry == INSTANCE McpTokens WITH ...`. Every step of a smoke is an HTTP request, so
other smokes and the wallet's owner (`Elsewhere`) come between two of them. An answer
may be lost (`Lose`): then the tool throws, and either goes to its `finally` or ends. The
graph smoke that does not get its second token still revokes its first, and then fails.
`before` and `victims` remember which tokens were there and which the smoke cost.

### ReproLab

The page with its two tabs, the browser's session, and the eval service. A session is
a stored token and a cookie that re-exposes it, and both expire; `Refused` is the 401 of
`evalJson` with its one retry. In the sample tab one call follows the other (create a
run, wait for the harness, fetch the receipt); in the complete tab an effect asks
whenever the query changes, `asking` holds the requests on their way, and the cleanup of
an effect marks them dead (`Buried`). A run lives in memory, so `Restart` forgets it.

### WalletMemory

The files of one wallet. Each operation is one synchronous read-modify-write, so none
interleave; what can happen is that a write fails or is cut off (`Writes`), and the
file that is left does not parse and counts as empty. A file is its list and whether
it can be read.

What the stores should hold is told by history variables: `entered`, `turns` and `logged`
are what was stored since the file was last unreadable, `kept` the save an owner relies on,
`landed` the last save of each conversation that was written and `missed` the last one that
failed. `ConversationsKept` counts the conversations *written* since, never an attempt: a
conversation may be missing behind a full cap of them, and behind one less only if a save
failed since, because `putConversation` removes the oldest before it writes.

`AppendHistory` is `appendHistory` wherever it is called; `PutConversation` evicts the
oldest conversations before it writes the new one; `RecordTurn` is what a Hermes turn
adds to the member's identity, with the history entry of the same turn; `StartPrompt`,
`PromptAnswered` and `PromptFails` are prompts to the hosted agent, whose counter is
read again after the await; `Convene`, `SeatSettles` and `Conclude` are a council
session from its seats to what is kept of it, in the history of the wallet if there is one
and then in the log. `Dies` forgets what was in progress.

### MCGateway

The parts above share no variable, so TLC explores them in one run as *scenes*: one part
moves, the others stay in an initial state. A scene shows of its part what the part's own
specification shows; the module composes nothing else.

## 4 The runs

| run | what it shows |
|---|---|
| `approval_one_process` | `OneClaimant`, `DoubleExecutionNeedsLeak`, `NoReplay`: three calls with one approval in one process, with two failing file operations, one lost answer and one crash |
| `approval_one_shot` | `IsOneShot` (refinement), `EveryCallAnswered`, `ReservationSettles`: without lost answers and failing files, with a crash |
| `approval_shared` | `OkMeansSpent`, `ConsumedMeansPerformed`, `AuditBeforeRuntime`, `OrphanNeedsFault`: two processes on one directory, a runtime that may decline |
| `approval_lost_answer` | *violation* of `AtMostOnce`, see the findings |
| `hermes_turns` | `OwnFramesWhenCalm`, `OnePromptAtATime`, `NoLostWakeup`, `TurnsEnd`: three turns, a failing turn, an exit, consumers that leave |
| `hermes_leak` | *violation* of `OwnFrames` |
| `hermes_hang` | *violation* of `TurnsNeverHang` |
| `intake_writers` | `OneWriter`, `StaleFilesDoNotBlock`, `LedgerAppends`, `LockFreed`: three writers, one mishap of any kind |
| `intake_stall` | *violation* of `ReleaseKeepsOthers` |
| `token_registry` | `OneActive`, `RevocationHolds`, `NoTokenLost`, `RotationKeepsTerms`: four tokens, two wallets, a failing load or write, a kill, any number of restarts |
| `gateway_parts` | *chat*: `FreeTierHolds`, `VerdictBeforeRelease`, `RefusedLeavesNoTrace`, `EndIsTold`, `EveryStreamCloses`; *conversation*: `ForgettingIsExplained`, `OrphansOnlyAtTheCut`, `ThreadIntact`; *governed call*: `ActsOnlyAsGranted`, `RevokedMeansRefused`; *smoke*: `SmokeKeepsItsWord`; *lab*: `ShownIsAsked`; *stores*: `MemoryIsKept` |
| `asset_limits` | *violation* of `AssetsWithinGrant` |

Each first run of a module also checks its type invariant; `gateway_parts` checks those of
all its parts (`GatewayTypesOK`).

Why the bounds are enough for the cases of interest. *Approvals*: records are
independent of one another (every operation names one), so one record and three
calls cover a holder, a rival and a late comer; two faults reach "consume fails and
so does its fallback", "the audit line fails and so does the undo"; one lost answer is
what a second execution needs. *Hermes*: three turns are a holder, a turn behind it,
and a turn that arrives late; two unread frames are one more than a reader can
take at once; one exit reaches every place of a turn, and the next incarnation
runs after it. *Intake*: three writers are a holder, a breaker and a third that
benefits from the confusion; a cap of two overflows at the third request; two
attempts are the fewest with which a stale file can be broken and the lock taken.
*Tokens*: four tokens allow a chain of rotations beside a wallet with two tokens; one
fault and one kill, at any write, combine memory that is ahead of the file with a file
that was emptied (two faults were checked as well: 1.7 million states, no violation).
*Parts*: two requests are a free prompt and a rival between its check and its charge, and
with one free prompt the second pays; one tool round, of any number of tools, reaches the cap of the loop; one fault is a kill, a failing write, a failing brain or a client that leaves. Two
turns in flight over two conversations are what the page allows at a time; a soft limit
of two, one recent message and a hard limit of three compact and clamp a thread of
four messages, one of which may be a paid tool's round. Two changes around a governed
call are a document replaced and an owner gone, or a plan and what overtakes it; two of the
seven amounts are read as the same double. One
smoke of each kind shares three tokens with the wallet's owner. Two requests of a tab
with a ledger of three rows and pages of two answer in both orders. A cap of one or two
overflows at the second or third entry of a store.
A run of the intake ledger with `MaxMishaps = 2` passes as well (461 thousand states), it is not kept
because it takes long.

Deadlock checking is off in all runs: in each of these systems a state in which
all requests are answered, or their process is dead and the bound on everything
else is reached, is a regular end.

Conditions inside properties, and why they are there: `OneClaimant` and `NoReplay`
are checked with one process and an executing runtime because the look at the
consumed marker and the creation of the reserved one are two operations, between
which a second process can consume; `OwnFramesWhenCalm` and `OnePromptAtATime`
exclude failed turns because of the finding at `bridge.py:233`, and exits because the
frames a dead bridge has left end a turn of the next one (in three turns with one exit
that does not happen; with five turns, or two exits, it does); `Withstood` in the
intake module excludes suspended writers (the finding at `intake.ts:203`) and two
kills (see the hazard at `intake.ts:121`); `TurnsEnd` excludes an exit of the
bridge (the finding at `hermes-acp.ts:157`); `EndIsTold` excludes what the code holds and
never sends (section 8); `OrphansOnlyAtTheCut` allows the orphan where the cut leaves it;
`RevokedMeansRefused` is about what had ended before the call arrived, since what ends
while it is served may be too late to stop it.

## 5 Fairness

*Approvals*: a call that was started keeps running as long as its process lives
(weak fairness on each call's step), and Bankr settles a POST; `fetch` has a default
timeout on bun, so the await ends. No client has to send a call, no process has to
be restarted. *Hermes*: due continuations run; a consumer pulls or leaves; lines are
delivered; the exit event and the init timer fire; and the bridge ends a prompt,
because each of its awaits has a timeout (120, 180 and 300 seconds). The bridge need
not become ready, exit or print text. *Chat*: the handler goes on (`Proceeds`); a call of a
model ends (`BrainSays`: `codex.ts` kills its process after 180 seconds, a fetch has the default
timeout of bun or of the SDK); a reply asks for finitely many tools, which strong fairness on
the last of them says (`LastStart`); and a tool with a timeout returns. Nothing is assumed of Hermes, whose turn may drain for good
(the finding at `hermes-acp.ts:157`), nor of the query behind `search_graph`, which sets no time;
`EveryStreamCloses` says that a stream stays open for these two reasons only. Nobody has to
send a request, pay or leave. *Intake*: a running process keeps running, and
a lock nobody touches grows old.

## 6 Proofs

`ApprovalLifecycleProofs` proves, for any number of approvals, calls, processes,
faults, lost answers and crashes:

* without further assumptions: `TypeCorrect`, `AuditPrecedesRuntime`, `OkIsSpent`,
  `SpentIsPerformed`, `OrphansComeFromFaults`;
* under `OneBankrProcess` (one gateway process, a runtime that executes):
  `ClaimIsExclusive`, `SecondExecutionIsALeak`, `ConsumedIsFinal`;
* under `CalmProcess` (in addition, no answer is lost and no file operation
  fails; crashes are allowed): `PerformedAtMostOnce`, and `ImplementsOneShot`, the
  refinement of `OneShotApproval`, by steps.

Only the last is inductive as it stands: a call that leaves the places where it holds a
reservation takes its marker away, or a fault kept it from doing so. For the others the proof adds, for any deployment
(`AnywhereInv`): a call that may post has its reservation in the audit log
(`AuditInv`), a call before `sent` has no POST (`PostInv`), and what the places after
the runtime imply about the POST and the consumed marker (`AnswerInv`). For one
process (`ProcessInv`): at most one call is in a synchronous section (`OneRunning`),
without which the two operations of a reservation could interleave; the markers a
call relies on are on disk (`MarkerInv`); one call holds a marker (`OneHolder`); and
an approval whose operation Bankr has or may still perform is off the market
unless that call leaked it (`ChargeInv`), which is what links a past POST to a
present reservation. In calm weather (`CalmInv`): nothing leaked, and a call fails
only when Bankr rejected its operation. The preservation proofs have one step per
action; the temporal theorems combine them with PTL.

`McpTokensProofs` proves, for any sets of tokens, wallets and terms and any number of
faults, kills and restarts: `TypeCorrect`, `OneActivePerWallet`, `RevocationIsFinal`,
`TokensAreKept` and `RotationExtendsNothing`, each the theorem of a property of the
run. The argument: every step leaves memory and file at the old registry, the empty one,
or one the operation computed (the `...Reaches` lemmas), so it suffices to know what is
active in those (`RevokingActive`, `IssuingActive`, `RotatingActive`). The inductive
invariants are `SoundInv` (nothing is known that was not issued, nothing revoked
that is not known — without it a new id could already be revoked), `SavedInv` (as long
as nothing failed, memory is the file), `ChainInv` (a rotated token has the terms of
its first), and the two safety properties themselves.

`HermesBridgeProofs`, for any number of turns, unread frames, errors and exits:
`TypeCorrect`, `NoWakeupIsLost`, `OwnFramesInCalm` and `PromptsExclude`. While no turn has
failed and no process exited, the bridge is not ready and has no turn on it, or it is ready,
and prompt and frames belong to the turn at the head of the queue, in one of four stages
(`Stage`, in the invariant `CalmInv`): its prompt is written, the bridge is on it, its
last frame is on the wire, that frame has arrived. The invariant
is needed because nothing in a frame says whose it is; what makes it inductive is that a
turn gives the lock up only after it has read the last frame of its own prompt. The
types rest on a fact of their own, `HolderOnly`: a turn on the bridge is at the
head of the queue, so that a release always has a queue to shorten.

`IntakeLedgerProofs`, for any number of writers, attempts and mishaps and any cap:
`TypeCorrect`, `WritersExclude`, `NoUpdateIsLost`, `StaleFilesAreCleared`. The argument
asks who died. If a writer died holding the lock, then no holder of the breaker did, the
breaker is never stale and excludes, and only its holder renames the lock away. If one
died holding the breaker, the lock is never stale, and nobody renames it, even if
several take the breaker for theirs. `Locks` states both halves with what each place
of a writer implies about the two files. `StaleFilesDoNotBlock` has an invariant of its own,
about a writer that nobody disturbed since it started.

`ChatTurnProofs`, for any finite set of requests, any number of free prompts, rounds and
faults, and any tools and scope: `ChatTypesHold`, `VerdictComesFirst`, `TheEndIsTold`,
`RefusalLeavesNoTrace`, `FreeTierIsKept`. The first three follow from one invariant about
a request's record (`GoodInv`: what its frames, verdicts and ending have to do with
each other), preserved action by action. The free tier needs counting (`TierInv`): without
the overlapping ones, the requests charged or *promised* a free prompt are at most `Free`,
and `Free` more for each lost count, and what memory and file count falls short of the
charged ones by no more than what was lost. It is not enough to count those that were charged,
because a request that is promised a free prompt will be charged whatever the others do.

`GovernedCallProofs`, for any calls, documents, approval files and configurations and any
number of changes: `CallTypesHold`, `LawfulAlways`, `GrantsBind` (`ActsOnlyAsGranted`) and
`EndedMeansRefused` (`RevokedMeansRefused`). `Lawful` says of each place of the handler what the awaits before it
have established: the passport was read while it was ours (`PassportKnown`), the approval
is a kept record (`ApprovalKnown`), the check was passed (`Passed`), and what has ended stays ended. The
properties read the document as published and the handler its parsed form; the lemma
`GrantParsed` shows that the same grant counts in both.

`ReproLabProofs`, for any wallets, catalog and ledger and any number of requests, runs,
expiries and restarts: `LabTypesHold` and `ShowsWhatWasAsked` (`ShownIsAsked`). Each tab has an invariant of
its own. In the complete tab a request that is alive asks what the filter says
(`TableInv`), so the order of the answers does not matter. In the sample tab
(`SampleInv`) the run on display is the one the gateway has under its id, if a restart has
not forgotten it, and no other run is ever recorded under that id; without it the receipt,
which comes from a second call, could be that of another run. The types need to know where
paging can lead (`PagesInv`): an offset is a number of whole pages, of which there are no more
than the ledger has rows, because a button steps only while rows remain.

`GatewayProofs` is about the parts that have no module of their own for proofs, and about the
run that puts all of them together.

* *The files of a wallet*, for any caps and any number of notes, saves, turns, prompts,
  sessions and faults: `MemoryTypesHold`, and `MemoryKept` (`MemoryIsKept`) from the invariant
  `MemoryInv`, which has a part for each store. The history is the end of what was entered since
  its file was last readable, and it is full or all of it (`HistoryInv`). A save evicts by
  the time of the last save, so `ClockInv` says that no two conversations have the same
  reading; without that, "the oldest" would not be one, and nothing would follow about how many
  later saves an evicted one has behind it (`EvictedWerePassed`). The recalled
  conversations are distinct, each is followed in the list by exactly those that
  came after its last turn, and what the list does not name is behind a cap of others
  (`RecallInv`): the property only speaks of members, and to keep it when an entry
  moves to the end one has to know the order. `SaveStep` is where the order of
  `putConversation` matters: what a failing save has evicted was passed by a cap of others but one.
  The hosted agent's counter misses no prompt that was answered while its file could be read, and
  the council's log ends what was logged as the history ends what was entered.
* *The page's conversations*, for any limits of the compaction, any number of turns in
  flight and any set of conversations: `ConversationTypesHold`, `OrphansAtTheCut`,
  `ThreadStaysIntact`, `ForgettingExplained`. `ShapeInv` says that a result in a
  thread stands behind its call unless it is the first message (`Paired`), on the page, in every
  saved thread and in what a turn was given, and that in what the model is told a result lacks its
  call only where the compaction or the clamp cut (`CutOnly`). `Remembered` links
  the page, the turns and the store, and each of its parts holds only until a slip
  of a certain kind: who owns the messages, until a conversation is left during a turn
  (`OwnInv`); that thread and summary together cover what was said, in the open conversation
  and in the saved ones, and that a turn in flight carries the thread as it still is, until
  two turns overlap or a save is missed (`WholeInv`); and that a composed context tells
  everything, until anything slips (`ToldInv`). The middle one is
  needed although the properties never mention the store: what a conversation forgets may have been
  lost while another one was open.
* *The smoke tools*, for any number of tools, tokens, scopes, probes, lost answers and
  faults: `SmokeTypesHold` and `SmokesKeepTheirWord`. The registry is an
  instance of `McpTokens` and the theorems about it are used as they are, through
  `INSTANCE McpTokensProofs`: a revocation that was acknowledged is final, so a tool
  that counted its revocations may vouch for them at its end, whatever came in between. What
  `SmokeInv` adds is what a run may count on at each request: until its `create`, no token the
  Bankr smoke knew of when it listed them is active, so the creation costs none of them.
* *The composition*: `ScenesAreParts`, every behaviour of `GatewaySpec` is, part by part, a
  behaviour of the part's own specification with its fairness, so that each theorem about
  a part holds in the run; and `GatewayTypesHold` (`GatewayTypesOK`), which follows.

Sequences are compared position by position throughout (`EndOf`, `SuffixByPosition`):
`IsSuffix` and `SubSeq` are unfolded once, in the lemmas about `Newest`, `RemoveFirst`,
`Clamped` and `Split`.

Proved from the assumptions the modules name (`...Assumption`), which say that bounds are
numbers, caps positive, sets of requests finite, the sets of tools disjoint, that there is a
conversation, and that records have the shape the parsers admit; the
theorems about the runtime under one process name theirs in the statement.

Only model-checked: liveness (`EveryCallAnswered`, `ReservationSettles`, `TurnsEnd`,
`LockFreed`, `EveryStreamCloses`), which needs fairness and ENABLED and is beyond the prover.
Every safety property that a passing run checks is stated by a theorem.

## 7 Findings

1. **One lost answer, two executions** (`gw/mcp-base.ts:849`). The `catch` releases
   the reservation whatever was thrown. When Bankr performed the operation and the
   answer was lost, the approval is usable again. `docs/bankr-runtime-adapter.md:103`
   describes the lifecycle as "consume-on-accepted, and release-on-failure" for a
   *per-action* record. `DoubleExecutionNeedsLeak` shows that this is the only way.
2. **A failed turn ends the next one** (`services/hermes-acp/bridge.py:233`). The
   bridge prints `err` and then `done`; the gateway ends the turn at `err`, and the
   next turn reads the `done` as its own.
3. **A turn behind a dead bridge hangs** (`gw/chat/hermes-acp.ts:157`). The exit
   handler wakes the readers of that moment; a turn granted the lock later throws and
   then drains frames no process will print, with the lock held.
4. **A suspended writer removes another's lock** (`gw/intake.ts:203`), which the
   comment two lines below excludes.
5. **Asset limits are dropped** (`gw/identity-kernel-passport-resolver.ts:117`). The
   resolver copies the fields of a grant one by one and leaves `allowed_assets` out; an
   absent limit permits every asset, so the refusal `gw/mcp-base.ts:625` has for
   "asset outside capability grant" is never reached for a passport from the chain.

## 8 What is not modelled

Inside the modelled components:

* *approvals*: hashing and signing of records (`parseApproval`) are the flags `sealed` and
  `signature`; shape checks of arguments that only refuse are left out;
* *Hermes*: ACP sessions per conversation and the files of the tool guard (no frame
  depends on them);
* *intake*: the sanitising of ledger entries on reads;
* *chat*: rate limits, the settlement of a payment at the external facilitator, and what
  the kernel's patterns match, which is a choice;
* *passports*: one network's resolver; the IPFS and data-URI transports of a document;
* *stores*: reading them back, and a second process on the same directory;
* *evals*: the parsing of result files is a choice of rows;
* *agents*: the agent process is external; `destroyAgent` and `listAgents` are reached
  by no route.

Components without a module are read-only, generated or fetch once and render; the table
in section 1 and `PROJECT.json` say which.

Things met while modelling that no property is about, or that a property excludes by name:

* With the kernel in force, a turn that ends with a confirm card or in an error holds its
  frames and never sends them (`gw/app.ts:1115`); a text that was transformed for the
  client is recorded as it was in the history.
* Hermes runs its tools itself, so that the verdict on a tool comes after it ran.
* The query behind `search_graph` has no timeout: a chat turn that asks for it stays open as long
  as the database does not answer, heartbeats included.
* Amounts and limits are compared as doubles (`gw/mcp-base.ts:367`), the amount in the
  approval being posted as it is written; a transaction without a value is posted with
  `0x0` and checked with the value of its record (`gw/mcp-base.ts:430`, `gw/bankr-adapter.ts:292`).
* What a council withdraws for its sensitive text is kept by neither history nor log, by the
  guard in the route; no property says more, because the same idea may have come in
  through the chat, whose history keeps it.
* The first grant of a capability counts, whatever a later one allows; `max_per_day` and
  `requires_human` are stated in grants and compared with nothing; the asset of an x402
  payment is not looked at; the body of a transfer names no chain; the hash of the calldata
  is not compared with the calldata.
* The summary the page sends along is read only when the thread has to be compacted again
  (`gw/chat/agent.ts:96`): in the turns after a compaction the model is told neither the
  old messages nor their summary. `ForgettingIsExplained` counts that as the slip `unread`.
* The graph smoke creates two tokens for one wallet, and the second creation revokes the
  first (`gw/mcp-live-smoke.ts:169`, `gw/mcp-tokens.ts:134-136`), with which it then probes: in the model
  no receipt of it passes, and what `SmokeKeepsItsWord` says of receipts that pass is,
  for now, about the Bankr smoke.
* An expired token that was not revoked counts as active for the Bankr smoke, and blocks it.
* The evidence of an eval run is attached after its receipt was hashed (`evals.ts:1046`).
  The default executor blocks the gateway while it runs.
* In the complete tab, choosing the split that is already chosen empties the table and asks
  for nothing; after a failed fetch the page buttons step from the data of before.
* An agent file cut off by a crash counts as provisioned and empty; `visits` of a member
  counts a conversation again after six others were recalled.
* The gateway's CORS methods lack PUT, which `app.put("/api/conversations/:id")` needs
  from a browser of another origin.

## 9 Running it

    tlc -workers 2 -config ApprovalOneProcess.cfg MCApprovalLifecycle
    tlc -workers 2 -config GatewayParts.cfg MCGateway

    for m in ApprovalLifecycle McpTokens HermesBridge IntakeLedger ChatTurn GovernedCall ReproLab Gateway
    do tlapm ${m}Proofs.tla; done

Every `MC` module extends its component, `MCGateway` those it composes; each configuration names a run of the table
above. `GatewayProofs` extends `MCGateway` and the proofs of the parts; it takes some ten
minutes, the others less. The "seeded bugs" in a module are variants of its actions, one for each
property, with a mistake a change of that code could make; nothing in the
specifications refers to them.
