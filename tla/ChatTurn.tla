------------------------------- MODULE ChatTurn -------------------------------
(***************************************************************************)
(* POST /api/chat (app.ts): the paywall with its free tier (freebies.ts),  *)
(* the identity kernel around a turn, and the frames of the turn, which    *)
(* come from the loop of agent.ts or from Hermes. One signed-in wallet     *)
(* sends several requests at a time; every await of the handler is a place *)
(* where another request is served, and a gateway that is killed starts    *)
(* again from the counts it has saved.                                     *)
(*                                                                         *)
(* With the kernel in force every frame of the model is held until the     *)
(* verdict on the whole answer; a turn without a plain done frame has no   *)
(* such verdict.                                                           *)
(***************************************************************************)
EXTENDS Naturals, FiniteSets, IdentityKernel

CONSTANTS
  Requests,
  Free,             \* FREE_PROMPTS
  MaxToolRounds,    \* MAX_TOOL_ITERATIONS
  Scope,            \* the authority scope of the wallet's passport
  FreeTools,        \* the tools the gateway runs itself
  PaidTools,        \* the tools that end a turn with a confirm card
  MaxFaults         \* bound: kills, failing writes, failing brains, clients leaving

ASSUME ChatTurnAssumption ==
  /\ IsFiniteSet(Requests)
  /\ Free \in Nat \ {0} /\ MaxToolRounds \in Nat \ {0} /\ MaxFaults \in Nat

VARIABLES
  enforced,         \* identityKernelHarness.enforceChat
  hermes,           \* CHAT_BRAIN is hermes
  req,              \* the requests
  counted,          \* used[wallet] in memory
  loaded,           \* counts() has read the file
  countFile,        \* used[wallet] as the file would load
  remembered,       \* requests whose answer is in the wallet's history
  noted,            \* requests whose tool results are in the wallet's history
  recalled,         \* requests recordTurn has stored for the member's next visit
  charged,          \* history: requests that consumed a free prompt
  overlapped,       \* history: requests let through while another one that was
                    \* let through had not consumed its prompt
  lostCounts,       \* history: counts that did not reach the file
  chatFaults

counts == <<counted, loaded, countFile>>
records == <<remembered, noted, recalled>>
chatTurnVars == <<enforced, hermes, req, counts, records, charged, overlapped,
                  lostCounts, chatFaults>>

\* The tool being run, and whether the reply that asked for it asked for more.
NoTool == [name |-> "none", more |-> FALSE]
New == [at |-> "new", free |-> FALSE, left |-> FALSE,
        calling |-> NoTool, rounds |-> 0, draft |-> "none",
        held |-> {}, shown |-> {}, verdicts |-> {}, ended |-> "no"]

Drafts == {"none", "fine", "harmful"}
Calls == [name : FreeTools \cup PaidTools, harmful : BOOLEAN]
InStream(r) == req[r].at = "streaming"
Running(r) == InStream(r) /\ req[r].calling.name # "none"
\* Let through as a freebie, and not charged yet.
Promised(r) == req[r].free /\ req[r].at \in {"admitted", "resolving", "brain"}
Remaining == IF counted >= Free THEN 0 ELSE Free - counted

ChatTurnInit ==
  /\ enforced \in BOOLEAN /\ hermes \in BOOLEAN
  /\ req = [r \in Requests |-> New]
  /\ counted = 0 /\ loaded = FALSE /\ countFile = 0
  /\ remembered = {} /\ noted = {} /\ recalled = {}
  /\ charged = {} /\ overlapped = {} /\ lostCounts = 0 /\ chatFaults = 0

Becomes(r, rec) == req' = [req EXCEPT ![r] = rec]
Goes(r, at) == Becomes(r, [req[r] EXCEPT !.at = at])
FaultIf(b) ==
  /\ b => chatFaults < MaxFaults
  /\ chatFaults' = chatFaults + (IF b THEN 1 ELSE 0)
Config == <<enforced, hermes>>
Tier == <<counts, charged, overlapped, lostCounts>>

-----------------------------------------------------------------------------
(* Seeded bugs: variants of the definitions below that the properties must catch. *)

\* A failing write is retried at the next restart only: nothing is written.
SavedNever(n) == countFile' = countFile /\ lostCounts' = lostCounts /\ FaultIf(FALSE)

\* Frames are sent as they come, also with the kernel in force.
DeliverAtOnce(rec, frames) ==
  IF rec.left THEN [rec EXCEPT !.at = "gone"]
  ELSE [rec EXCEPT !.shown = @ \cup frames]

\* A refused turn is only cut short: it ends like any other.
RefuseSoftly(rec) ==
  [rec EXCEPT !.ended = "done", !.shown = @ \cup {"error", "done"},
              !.verdicts = @ \cup {"blocked"}]

\* The loop goes on as long as the model asks for tools.
RoundAfterForever(n) == IF n < MaxToolRounds THEN n ELSE n

\* The last frame of an answer is not sent.
EndReleasedQuietly(rec, v) ==
  [rec EXCEPT !.shown = @ \cup (IF v = "transform" THEN {"safe"} ELSE rec.held),
              !.held = {}, !.ended = "done", !.verdicts = @ \cup {v}]

-----------------------------------------------------------------------------
(* Before the stream *)

\* The middleware: a wallet with a free prompt left needs not pay.
Enter(r) ==
  /\ req[r].at = "new"
  /\ loaded' = TRUE /\ counted' = (IF loaded THEN counted ELSE countFile)
  /\ IF Remaining' > 0
     THEN /\ Becomes(r, [req[r] EXCEPT !.at = "admitted", !.free = TRUE])
          /\ overlapped' = overlapped \cup {s \in {r} : \E q \in Requests : Promised(q)}
     ELSE Goes(r, "challenged") /\ UNCHANGED overlapped
  /\ UNCHANGED <<Config, countFile, records, charged, lostCounts, chatFaults>>

\* The page's payFetch answers the 402 with a payment.
Pay(r) ==
  /\ req[r].at = "challenged" /\ Goes(r, "admitted")
  /\ UNCHANGED <<Config, Tier, records, chatFaults>>

\* The body: unusable, or on to the passport or to the brain.
Read(r) ==
  /\ req[r].at = "admitted"
  /\ \E at \in {"refused", IF enforced THEN "resolving" ELSE "brain"} : Goes(r, at)
  /\ UNCHANGED <<Config, Tier, records, chatFaults>>

\* The passport has been resolved, or not; then the prompt and the summary the
\* page replays are judged. A summary that is withheld changes nothing here.
Resolve(r) ==
  /\ req[r].at = "resolving"
  /\ \E linked \in BOOLEAN, attacks \in BOOLEAN, requested \in SUBSET FreeTools :
       LET v == EvaluatePrompt([attacks |-> attacks, scope |-> Scope, requested |-> requested])
       IN IF ~linked \/ v \in Blocking THEN Goes(r, "refused") ELSE Goes(r, "brain")
  /\ UNCHANGED <<Config, Tier, records, chatFaults>>

\* getBrain fails.
NoBrain(r) ==
  /\ req[r].at = "brain" /\ ~hermes /\ FaultIf(TRUE) /\ Goes(r, "refused")
  /\ UNCHANGED <<Config, Tier, records>>

\* persist(): writeFileSync of the new count, which may fail before or after
\* it has emptied the file.
Saved(n) ==
  \/ countFile' = n /\ UNCHANGED lostCounts /\ FaultIf(FALSE)
  \/ countFile' \in {countFile, 0} /\ lostCounts' = lostCounts + 1 /\ FaultIf(TRUE)

Opening == (IF enforced THEN {"receipts"} ELSE {})

\* The stream starts: a freebie is consumed and its frame sent before the
\* first await.
Start(r) ==
  /\ req[r].at = "brain"
  /\ IF req[r].free
     THEN /\ counted' = counted + 1 /\ Saved(counted') /\ charged' = charged \cup {r}
          /\ Becomes(r, [req[r] EXCEPT !.at = "streaming", !.shown = Opening \cup {"free"}])
     ELSE /\ Becomes(r, [req[r] EXCEPT !.at = "streaming", !.shown = Opening])
          /\ UNCHANGED <<counted, countFile, charged, lostCounts, chatFaults>>
  /\ UNCHANGED <<Config, loaded, records, overlapped>>

-----------------------------------------------------------------------------
(* The frames of a turn *)

\* enqueueAnyFrame throws when the client has left, which ends the turn.
Tell(rec, frames) ==
  IF rec.left THEN [rec EXCEPT !.at = "gone"]
  ELSE [rec EXCEPT !.shown = @ \cup frames]

\* sendOrBuffer
Deliver(rec, frames) ==
  IF enforced THEN [rec EXCEPT !.held = @ \cup frames] ELSE Tell(rec, frames)

\* A blocking verdict inside the stream: error, done, and return.
Refuse(rec) ==
  IF rec.left THEN [rec EXCEPT !.at = "gone"]
  ELSE [rec EXCEPT !.at = "closed", !.shown = @ \cup {"error", "done"},
                   !.verdicts = @ \cup {"blocked"}]

\* The brain is running: no tool is being called and the turn has not ended.
Speaking(r) == InStream(r) /\ req[r].calling = NoTool /\ req[r].ended = "no"

\* A tool of the round has returned and another one of it is about to start.
BetweenTools(r) == InStream(r) /\ req[r].calling = [name |-> "none", more |-> TRUE]

Text(r) ==
  /\ Speaking(r)
  /\ \E d \in Drafts \ {"none", req[r].draft} :
       /\ req[r].draft # "harmful"
       /\ Becomes(r, Deliver([req[r] EXCEPT !.draft = d], {"text"}))
  /\ UNCHANGED <<Config, Tier, records, chatFaults>>

\* What the kernel says of a call. Without it nothing is asked.
Judged(call) == IF enforced THEN EvaluateToolCall(Scope, call) ELSE "allow"

\* tool_start: the call is judged before runChatTurn is resumed to run it. The
\* tools one reply asks for, which are a round of the loop, run one after the
\* other. Hermes runs its tools itself and only tells of them.
ToolStart(r) ==
  /\ \/ Speaking(r) /\ (hermes \/ req[r].rounds < MaxToolRounds)
     \/ BetweenTools(r)
  /\ \E call \in {c \in Calls : c.name \in FreeTools}, more \in BOOLEAN :
       IF Judged(call) \in Blocking THEN Becomes(r, Refuse(req[r]))
       ELSE Becomes(r, Deliver([req[r] EXCEPT !.calling =
                                  IF hermes THEN @ ELSE [name |-> call.name, more |-> more]],
                               {"tool"}))
  /\ UNCHANGED <<Config, Tier, records, chatFaults>>

RoundAfter(n) == n + 1

\* dispatchFreeTool returns, whatever happened to the tool; the results of two
\* of the tools go to the history. The last tool of a round ends the round.
ToolResult(r) ==
  /\ Running(r)
  /\ noted' = noted \cup
       {s \in {r} : req[r].calling.name \in {"search_graph", "workshop_research"}}
  /\ Becomes(r, Deliver([req[r] EXCEPT !.calling = [@ EXCEPT !.name = "none"],
                                       !.rounds = IF req[r].calling.more THEN @ ELSE RoundAfter(@)],
                        {"tool"}))
  /\ UNCHANGED <<Config, Tier, remembered, recalled, chatFaults>>

\* A paid tool: confirm_required, assistant_message, usage and done(pending).
Confirm(r) ==
  /\ Speaking(r) /\ ~hermes /\ req[r].rounds < MaxToolRounds
  /\ \E call \in {c \in Calls : c.name \in PaidTools} :
       IF Judged(call) \in Blocking THEN Becomes(r, Refuse(req[r]))
       ELSE Becomes(r, Deliver([req[r] EXCEPT !.ended = "pending"], {"confirm", "done"}))
  /\ UNCHANGED <<Config, Tier, records, chatFaults>>

\* What an answer that was allowed or transformed sends: all that was held, or
\* all of it but the text, and a safe instruction in its place.
EndReleased(rec, v) ==
  [rec EXCEPT
     !.shown = @ \cup {"done"} \cup
               (IF v = "transform" THEN (rec.held \ {"text"}) \cup {"safe"} ELSE rec.held),
     !.held = {}, !.ended = "done", !.verdicts = @ \cup {v}]

\* A plain done frame: the whole answer is judged.
Done(r) ==
  /\ Speaking(r) /\ (hermes \/ req[r].rounds < MaxToolRounds)
  /\ IF ~enforced THEN Becomes(r, Tell([req[r] EXCEPT !.ended = "done"], {"done"}))
     ELSE IF req[r].left THEN Goes(r, "gone")
     ELSE Becomes(r, EndReleased(req[r], EvaluateOutput(req[r].draft = "harmful")))
  /\ UNCHANGED <<Config, Tier, records, chatFaults>>

\* An error frame of the brain and no done: the loop's cap, or a brain that fails.
EndInError(r) ==
  /\ Speaking(r)
  /\ FaultIf(hermes \/ req[r].rounds < MaxToolRounds)
  /\ Becomes(r, Deliver([req[r] EXCEPT !.ended = "error"], {"error"}))
  /\ UNCHANGED <<Config, Tier, records>>

\* The route's catch: what the brain or the kernel throws is told at once, past
\* what is held, and neither history nor recall is written. A client that has
\* left gets nothing: the catch throws as well.
StreamFails(r) ==
  /\ Speaking(r) /\ FaultIf(TRUE)
  /\ Becomes(r, IF req[r].left THEN [req[r] EXCEPT !.at = "gone"]
                ELSE [req[r] EXCEPT !.at = "closed", !.shown = @ \cup {"error"}])
  /\ UNCHANGED <<Config, Tier, records>>

\* The loop over the frames is left: the answer, if there is text, goes to the
\* history; a Hermes turn also to what the member is recalled by.
Close(r) ==
  /\ InStream(r) /\ req[r].ended # "no" /\ Goes(r, "closed")
  /\ remembered' = remembered \cup {s \in {r} : req[r].draft # "none"}
  /\ recalled' = recalled \cup {s \in {r} : hermes}
  /\ UNCHANGED <<Config, Tier, noted, chatFaults>>

-----------------------------------------------------------------------------
(* The environment *)

Leave(r) ==
  /\ InStream(r) /\ ~req[r].left /\ FaultIf(TRUE)
  /\ Becomes(r, [req[r] EXCEPT !.left = TRUE])
  /\ UNCHANGED <<Config, Tier, records>>

\* The gateway is killed and started again: requests in flight are gone.
Kill ==
  /\ FaultIf(TRUE) /\ loaded /\ loaded' = FALSE /\ counted' = 0
  /\ req' = [r \in Requests |->
               IF req[r].at \in {"new", "challenged", "refused", "closed", "gone"} THEN req[r]
               ELSE [req[r] EXCEPT !.at = "gone"]]
  \* ... perhaps while it was writing a count.
  /\ \/ UNCHANGED <<countFile, lostCounts, charged>>
     \/ \E r \in Requests :
          /\ req[r].at = "brain" /\ req[r].free
          /\ countFile' \in {0, countFile} /\ lostCounts' = lostCounts + 1
          /\ charged' = charged \cup {r}
  /\ UNCHANGED <<Config, records, overlapped>>

\* What the handler does next as soon as it may, and what it awaits.
Proceeds(r) == Start(r) \/ Close(r)
BrainSays(r) == Text(r) \/ ToolStart(r) \/ Confirm(r) \/ Done(r) \/ EndInError(r)

Serve(r) == Proceeds(r) \/ BrainSays(r) \/ ToolResult(r) \/ StreamFails(r)

ChatTurnNext ==
  \/ \E r \in Requests :
       \/ Enter(r) \/ Pay(r) \/ Read(r) \/ Resolve(r) \/ NoBrain(r)
       \/ Serve(r) \/ Leave(r)
  \/ Kill

\* The handler goes on, a call of a model ends (codex.ts kills its process, the
\* fetches have bun's or the SDK's default timeout), a reply asks for finitely
\* many tools, and a tool returns that has a timeout. Nothing is assumed of
\* Hermes, whose turn may wait for a bridge that is gone, nor of the query behind
\* search_graph, which has no timeout.
LastStart(r) == ToolStart(r) /\ ~req'[r].calling.more
StreamFairness ==
  \A r \in Requests :
    /\ WF_chatTurnVars(Proceeds(r))
    /\ WF_chatTurnVars(~hermes /\ BrainSays(r))
    /\ SF_chatTurnVars(~hermes /\ LastStart(r))
    /\ WF_chatTurnVars(ToolResult(r) /\ req[r].calling.name # "search_graph")

ChatTurnSpec == ChatTurnInit /\ [][ChatTurnNext]_chatTurnVars /\ StreamFairness

-----------------------------------------------------------------------------
(* What the route promises *)

ChatTurnTypeOK ==
  /\ counted \in 0 .. Cardinality(Requests) /\ countFile \in 0 .. Cardinality(Requests)
  /\ \A r \in Requests :
       /\ req[r].at \in {"new", "challenged", "admitted", "resolving", "brain",
                         "streaming", "closed", "refused", "gone"}
       /\ req[r].calling \in [name : FreeTools \cup {"none"}, more : BOOLEAN]
       /\ req[r].rounds \in 0 .. MaxToolRounds /\ req[r].draft \in Drafts
       /\ req[r].ended \in {"no", "done", "pending", "error"}
       /\ req[r].verdicts \subseteq Verdicts \cup {"blocked"}
       /\ req[r].shown \cup req[r].held \subseteq
            {"free", "receipts", "text", "tool", "confirm", "safe", "error", "done"}
  /\ remembered \cup noted \cup recalled \cup charged \cup overlapped \subseteq Requests
  /\ lostCounts <= chatFaults /\ chatFaults <= MaxFaults

\* "a gateway restart doesn't re-grant freebies" (freebies.ts:6): a wallet gets
\* its free prompts once, and once more for each count that was lost on its
\* way to the file; requests that overlap between the check in the middleware
\* and the charge in the handler may each get one more.
FreeTierHolds ==
  Cardinality(charged) <= Free * (1 + lostCounts) + Cardinality(overlapped)

\* With the kernel in force nothing the model wrote, called or asked for is
\* sent before the verdict on the whole answer, and harmful text never is.
VerdictBeforeRelease ==
  \A r \in Requests : enforced =>
    /\ {"text", "tool", "confirm"} \cap req[r].shown # {} =>
         req[r].verdicts \cap {"allow", "transform"} # {}
    /\ "text" \in req[r].shown => req[r].draft # "harmful"

\* A request that is refused before its stream costs no free prompt, and a
\* turn the kernel stops leaves no answer in the wallet's history or memory.
RefusedLeavesNoTrace ==
  \A r \in Requests :
    /\ req[r].at = "refused" => r \notin charged \cup remembered \cup noted \cup recalled
    /\ "blocked" \in req[r].verdicts => r \notin remembered \cup recalled

\* A stream that was closed has told its client how the turn ended. The
\* exception is what the code holds back and never sends: with the kernel in
\* force, a turn that ended with a confirm card or in an error.
EndIsTold ==
  \A r \in Requests : req[r].at = "closed" =>
    \/ {"done", "error"} \cap req[r].shown # {}
    \/ enforced /\ req[r].ended \in {"pending", "error"}
    \/ req[r].left

\* A stream that stays open waits for something outside the gateway that sets
\* no time to it: for Hermes, whose turn has not ended, or for the query behind
\* search_graph. In particular a turn of the other brains ends however often
\* the model asks for another tool, and a turn that has ended is closed. The
\* requests are finitely many and each streams at most once, so that this says
\* the same of each: there is always a later moment at which no other stream is
\* open.
EveryStreamCloses ==
  []<>(\A r \in Requests : InStream(r) =>
         \/ hermes /\ req[r].ended = "no"
         \/ req[r].calling.name = "search_graph")
=============================================================================
