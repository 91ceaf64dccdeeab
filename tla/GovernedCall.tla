------------------------------ MODULE GovernedCall ------------------------------
(***************************************************************************)
(* One tools/call of POST /mcp/base (app.ts) from the bearer token to the  *)
(* Bankr API: the passport is resolved on chain                            *)
(* (identity-kernel-passport-resolver.ts), the call is checked against the *)
(* passport and the approval file (mcp-base.ts, bankr-approval-store.ts)   *)
(* and what is left is posted (bankr-adapter.ts). The handler awaits       *)
(* several times, and whatever it relies on can end meanwhile: the token   *)
(* is revoked, the passport sold, its document replaced -- by hand or by   *)
(* the grant-update tool -- and grants and approvals expire.               *)
(*                                                                         *)
(* What becomes of a reservation is ApprovalLifecycle's subject; here it   *)
(* is got or it is not.                                                    *)
(***************************************************************************)
EXTENDS Integers, Sequences, IdentityKernel

CONSTANTS
  CallRequests,       \* the calls that may arrive
  PassportDocuments,  \* the documents an owner may publish
  ApprovalFile,       \* the records of the approval file
  RuntimeEnvs,        \* the environments the gateway may be started in
  Number,             \* Number(): the double an amount is read as
  MaxChanges          \* bound: changes around one call

VARIABLES
  runtimeEnv,         \* process.env
  tokenLive,          \* verifyMcpToken accepts the bearer token
  owner,              \* ownerOf: "us" is the token's wallet
  agentWallet,        \* getAgentWallet, "none" when not set
  document,           \* what tokenURI leads to
  late,               \* what expires soon has expired
  call,               \* the call
  since,              \* history: what was true when the call arrived, or since
  updater,            \* the grant-update tool
  changes

governedCallVars == <<runtimeEnv, tokenLive, owner, agentWallet, document, late,
                      call, since, updater, changes>>

World == <<tokenLive, owner, document, late, changes>>

-----------------------------------------------------------------------------
(* Tools, grants and amounts *)

Capability == [
  read_wallet_state |-> "base.wallet.read",
  pay_x402_invoice |-> "base.x402.pay",
  publish_receipt_hash |-> "base.receipt.publish",
  request_human_approved_contract_call |-> "base.contract.request_human",
  execute_approved_value_movement |-> "base.value.move",
  execute_approved_asset_exchange |-> "base.asset.exchange",
  execute_approved_contract_operation |-> "base.contract.execute"]
BASE_MCP_TOOLS == DOMAIN Capability
Capabilities == {Capability[t] : t \in BASE_MCP_TOOLS}

Moves == "execute_approved_value_movement"
Swaps == "execute_approved_asset_exchange"
Executes == "execute_approved_contract_operation"
ByApproval == {Moves, Swaps, Executes}
KindOf == [execute_approved_value_movement |-> "value_movement",
           execute_approved_asset_exchange |-> "asset_exchange",
           execute_approved_contract_operation |-> "contract_operation"]

\* amount() of a text that is no number, and of a limit that is not there; a
\* field that is not there.
NaN == -1
Missing == -2
\* The amounts that occur. Above 2^53 several are read as the same double.
Amounts == DOMAIN Number
AnyChain == 0
\* An allowlist that is left out, or empty, allows everything.
Listed(x, allowed) == allowed = {} \/ x \in allowed
WithinLimit(n, max) == max = NaN \/ Number[n] <= Number[max]
Expired(x) == x.soon /\ late

\* grants.find: the first grant of a capability is the one that counts.
GrantsOf(d, cap) == {i \in 1 .. Len(d.grants) : d.grants[i].capability = cap}
GrantOf(d, cap) ==
  d.grants[CHOOSE i \in GrantsOf(d, cap) : \A j \in GrantsOf(d, cap) : i <= j]

-----------------------------------------------------------------------------
(* What the handler reads. A name, an address or a hash is a string, an       *)
(* allowlist a set of them, an amount a number of the smallest unit; "soon"   *)
(* tells what expires while a call is served.                                 *)

CallRecord == [
  tool : STRING, passport : STRING, wallet : STRING, chain : Nat, approval : STRING,
  receipt : STRING, raw : BOOLEAN, harmful : BOOLEAN, selfGranted : BOOLEAN,
  recipient : STRING, asset : STRING, to : STRING, amount : Amounts, contract : STRING,
  method : STRING]
\* "BaseMcpCapability | string"
GrantRecord == [
  capability : Capabilities \cup STRING, chain : Nat, recipients : SUBSET STRING,
  assets : SUBSET STRING, contracts : SUBSET STRING, methods : SUBSET STRING,
  max : Amounts, soon : BOOLEAN, policy : {"none", "read_only"}]
DocumentRecord == [
  wellFormed : BOOLEAN, id : {"ours", "theirs", "absent"},
  registered : {"ours", "theirs", "absent"}, names : {"us", "them", "nobody"},
  agent : STRING, scope : SUBSET STRING, grants : Seq(GrantRecord)]
ApprovalRecord == [
  kind : STRING, id : STRING, passport : STRING, chain : Nat, receipt : STRING,
  soon : BOOLEAN, sealed : BOOLEAN, signature : STRING, recipient : STRING,
  asset : STRING, to : STRING, amount : Amounts, least : Amounts, contract : STRING,
  method : STRING, calldata : STRING, value : Amounts \cup {Missing}]

ASSUME GovernedCallAssumption ==
  /\ CallRequests \subseteq CallRecord /\ PassportDocuments \subseteq DocumentRecord
  /\ ApprovalFile \subseteq ApprovalRecord
  /\ MaxChanges \in Nat
  /\ Amounts \subseteq Int /\ Number \in [Amounts -> Int]
  /\ \A n \in {0, NaN} : n \in Amounts /\ Number[n] = n
  /\ \A m, n \in Amounts : m <= n => Number[m] <= Number[n]

-----------------------------------------------------------------------------
(* The gateway's configuration *)

\* governedWritesReadiness: all of the approval authority's settings, and a
\* signing secret of 32 characters.
GovernedWritesReady(env) == env.writes /\ env.authority /\ env.secret = "long"
X402Ready(env) == env.x402
PublishReady(env) == env.publish

\* Whether the adapter posts for a tool, or answers that it is disabled. A
\* gateway without an API key has no adapter.
Posts(env, tool) ==
  /\ env.key
  /\ \/ tool = "read_wallet_state"
     \/ tool = "pay_x402_invoice" /\ X402Ready(env)
     \/ tool = "publish_receipt_hash" /\ PublishReady(env)
     \/ tool \in ByApproval /\ GovernedWritesReady(env)

-----------------------------------------------------------------------------
(* Reading the passport *)

\* parsePassportDocument returns a passport.
Accepts(d) ==
  /\ d.wellFormed
  /\ d.id \in {"ours", "absent"} /\ d.registered \in {"ours", "absent"}
  /\ d.id = "ours" \/ d.registered = "ours"
  /\ d.names \in {"us", "nobody"}
  /\ d.agent = "none" \/ d.agent = IF agentWallet = "none" THEN "us" ELSE agentWallet

\* parseCapabilityGrant copies the fields it knows; allowed_assets is none.
ParsedGrant(g) == [g EXCEPT !.assets = {}]
Parsed(d) == [d EXCEPT !.grants = [i \in DOMAIN d.grants |-> ParsedGrant(d.grants[i])]]

\* envelopeFor: the scope of the passport and the capabilities granted in it.
Authority(p) == p.scope \cup {p.grants[i].capability : i \in 1 .. Len(p.grants)}

-----------------------------------------------------------------------------
(* The approval file *)

\* parseApproval keeps a record whose approval_hash is the hash of its fields
\* and, once a signing secret is set, whose signature is the keyed one.
Kept(a) == a.sealed /\ (runtimeEnv.secret # "none" => a.signature = "keyed")

\* getApproved...: a kept record for this id, passport and chain, unexpired.
Found(r) ==
  {a \in ApprovalFile :
     /\ Kept(a) /\ a.kind = KindOf[r.tool] /\ ~Expired(a)
     /\ a.id = r.approval /\ a.passport = "ours" /\ a.chain = r.chain}

\* validateApproved...: the request and the record name the same receipt, the
\* record has not expired since, and its amounts can be bought and paid with.
Validated(r, a) ==
  /\ r.receipt # "none" /\ r.receipt = a.receipt
  /\ a.id = r.approval /\ a.chain = r.chain /\ a.passport = "ours"
  /\ ~Expired(a)
  /\ r.tool \in {Moves, Swaps} => Number[a.amount] > 0
  /\ r.tool = Swaps => Number[a.least] > 0

\* What a transaction sends, and what is checked of it: value ?? "0x0", and
\* transaction.value ?? approval.value.
Sends(a) == IF a.value = Missing THEN 0 ELSE a.value
Checked(r, a) == IF r.tool = Executes /\ a.value # Missing THEN a.value ELSE a.amount

\* Seeded bug: what the model sends wins over what was approved.
EffectiveFromModel(r, a) ==
  [r EXCEPT !.recipient = a.recipient, !.asset = a.asset, !.to = a.to,
            !.amount = Checked(r, a)]

\* effectiveArgs: the approved fields replace the arguments of the call.
Effective(r, a) ==
  [r EXCEPT !.recipient = a.recipient, !.asset = a.asset, !.to = a.to,
            !.amount = Checked(r, a), !.contract = a.contract, !.method = a.method]

-----------------------------------------------------------------------------
(* The policy *)

\* normalizeAgentWalletArgs: a wallet in the arguments is the verified agent
\* wallet or, without one, the wallet of the session.
WalletAllowed(r) ==
  r.wallet \in {"none", IF agentWallet = "none" THEN "us" ELSE agentWallet}

\* hasRaw...Fields
RawFields(r) == r.tool \in ByApproval /\ r.raw

\* findGrant, by tool
WithinPolicy(r, g) ==
  /\ r.tool = "read_wallet_state" => g.policy = "read_only"
  /\ r.tool \in {"pay_x402_invoice", Moves} => Listed(r.recipient, g.recipients)
  /\ r.tool = Moves => Listed(r.asset, g.assets)
  /\ r.tool = Swaps => Listed(r.asset, g.assets) /\ Listed(r.to, g.assets)
  /\ r.tool \in {"pay_x402_invoice", Moves, Swaps} => Number[r.amount] > 0
  /\ r.tool = Executes => Number[r.amount] >= 0
  /\ r.tool \in {"pay_x402_invoice"} \cup ByApproval => WithinLimit(r.amount, g.max)
  /\ r.tool \in {Executes, "request_human_approved_contract_call"} =>
       Listed(r.contract, g.contracts) /\ Listed(r.method, g.methods)

\* evaluateToolCall and then findGrant
Granted(p, r) ==
  /\ EvaluateToolCall(Authority(p), [name |-> Capability[r.tool], harmful |-> r.harmful])
       \notin Blocking
  /\ ~r.selfGranted
  /\ GrantsOf(p, Capability[r.tool]) # {}
  /\ LET g == GrantOf(p, Capability[r.tool])
     IN ~Expired(g) /\ g.chain \in {AnyChain, r.chain} /\ WithinPolicy(r, g)

\* What the adapter posts. A transfer names no chain; a contract operation is
\* the transaction of the approval, not what the effective arguments say.
Body(r, a) ==
  [tool |-> r.tool, chain |-> IF r.tool = Moves THEN AnyChain ELSE r.chain,
   recipient |-> r.recipient, asset |-> r.asset, to |-> r.to,
   amount |-> IF r.tool = Executes THEN Sends(a) ELSE r.amount,
   least |-> IF r.tool = Swaps THEN a.least ELSE 0,
   contract |-> IF r.tool = Executes THEN a.contract ELSE r.contract,
   calldata |-> IF r.tool = Executes THEN a.calldata ELSE "none"]

-----------------------------------------------------------------------------
(* The handler *)

NoRecord == [value |-> 0, least |-> 0, contract |-> "none", calldata |-> "none"]
Calling(r) == [at |-> "idle", req |-> r, passport |-> {}, approval |-> {}, sent |-> {}]

GovernedCallInit ==
  /\ runtimeEnv \in RuntimeEnvs
  /\ tokenLive = TRUE /\ owner = "us" /\ agentWallet \in {"none", "agent"}
  /\ document \in PassportDocuments /\ late = FALSE
  /\ \E r \in CallRequests : call = Calling(r)
  /\ since = [late |-> FALSE, live |-> FALSE, ours |-> FALSE, documents |-> {}]
  /\ updater = [at |-> "idle", signer |-> "us", read |-> {}]
  /\ changes = 0

CallGoes(at) == call' = [call EXCEPT !.at = at]
Handles == UNCHANGED <<runtimeEnv, agentWallet, World, since, updater>>

-----------------------------------------------------------------------------
(* Seeded bugs: variants of the actions below that the properties must catch. *)

\* ownerOf is not read: the document speaks for whoever holds the token.
ReadOwnerNever ==
  /\ call.at = "owner" /\ CallGoes("document") /\ Handles

-----------------------------------------------------------------------------
(* The handler *)

\* The body is parsed, and verifyMcpToken asked, before the first await. A
\* call without a passport_id ends here.
Arrive ==
  /\ call.at = "idle"
  /\ since' = [late |-> late, live |-> tokenLive, ours |-> owner = "us",
               documents |-> {document}]
  /\ CallGoes(IF tokenLive /\ call.req.passport # "none" THEN "owner" ELSE "answered")
  /\ UNCHANGED <<runtimeEnv, agentWallet, World, updater>>

\* resolveErc8004Passport, up to ownerOf; a failing read refuses the call.
ReadOwner ==
  /\ call.at = "owner"
  /\ \/ owner = "us" /\ call.req.passport = "ours" /\ CallGoes("document")
     \/ CallGoes("answered")
  /\ Handles

\* getAgentWallet, tokenURI and the document it leads to. callBaseMcpTool then
\* goes on to its first await, the lookup of an approval, if the tool has one.
ReadDocument ==
  /\ call.at = "document"
  /\ \/ /\ Accepts(document)
        /\ call' = [call EXCEPT !.passport = {document},
                               !.at = IF call.req.tool \in ByApproval THEN "lookup" ELSE "check"]
     \/ CallGoes("answered")
  /\ Handles

\* resolveApproved...: no raw fields, and a record of the approval file.
LookUp ==
  /\ call.at = "lookup"
  /\ \/ /\ ~RawFields(call.req) /\ runtimeEnv.store
        /\ \E a \in Found(call.req) : call' = [call EXCEPT !.approval = {a}, !.at = "check"]
     \/ /\ RawFields(call.req) \/ ~runtimeEnv.store \/ Found(call.req) = {}
        /\ CallGoes("answered")
  /\ Handles

\* What reaches the policy: the arguments, or what was approved.
Args ==
  IF call.req.tool \in ByApproval
  THEN {Effective(call.req, a) : a \in call.approval} ELSE {call.req}
Passes(p) ==
  /\ call.req.tool = "read_wallet_state" => WalletAllowed(call.req)
  /\ \A a \in call.approval : Validated(call.req, a)
  /\ \A r \in Args : Granted(Parsed(p), r)

\* The rest of callBaseMcpTool, up to the await for a reservation. A call for
\* a human's approval is answered with what is to be approved.
Check ==
  /\ call.at = "check"
  /\ \E p \in call.passport :
       CallGoes(IF ~Passes(p) THEN "answered"
                ELSE CASE call.req.tool = "request_human_approved_contract_call" -> "answered"
                       [] call.req.tool \in ByApproval -> "reserve"
                       [] OTHER -> "post")
  /\ Handles

\* reserveApprovedContractOperation: the reservation is got, or it is not.
Reserve ==
  /\ call.at = "reserve"
  /\ CallGoes("post") \/ CallGoes("answered")
  /\ Handles

\* executeAllowedTool and the adapter: one request to Bankr, or an answer that
\* it is disabled. Whatever Bankr answers, the call is over.
Post ==
  /\ call.at = "post"
  /\ \E r \in Args, a \in IF call.approval = {} THEN {NoRecord} ELSE call.approval :
       call' = [call EXCEPT !.at = "answered",
                            !.sent = IF Posts(runtimeEnv, r.tool) THEN {Body(r, a)} ELSE {}]
  /\ Handles

-----------------------------------------------------------------------------
(* What changes around a call *)

\* Until the call is answered; what changes then is no matter to it.
Change == call.at # "answered" /\ changes < MaxChanges /\ changes' = changes + 1
Outside == UNCHANGED <<runtimeEnv, agentWallet, call>>
Noticed(d, o) ==
  since' = IF call.at \in {"idle", "answered"} THEN since
           ELSE [since EXCEPT !.documents = @ \cup {d}, !.ours = @ \/ o = "us"]

RevokeToken ==
  /\ Change /\ tokenLive /\ tokenLive' = FALSE
  /\ UNCHANGED <<owner, document, late, since, updater>> /\ Outside

\* The passport is sold, or bought back.
Transfer ==
  /\ Change /\ \E o \in {"us", "them"} \ {owner} : owner' = o /\ Noticed(document, o)
  /\ UNCHANGED <<tokenLive, document, late, updater>> /\ Outside

\* Its owner publishes another document.
Publish ==
  /\ Change
  /\ \E d \in PassportDocuments \ {document} : document' = d /\ Noticed(d, owner)
  /\ UNCHANGED <<tokenLive, owner, late, updater>> /\ Outside

TimePasses ==
  /\ Change /\ ~late /\ late' = TRUE
  /\ UNCHANGED <<tokenLive, owner, document, since, updater>> /\ Outside

-----------------------------------------------------------------------------
(* The grant-update tool (identity-kernel-passport-grant-update-cli.ts) *)

Dangerous == Capabilities \ {"base.wallet.read"}

ReadGrant ==
  [capability |-> "base.wallet.read", chain |-> 1, recipients |-> {}, assets |-> {},
   contracts |-> {}, methods |-> {}, max |-> NaN, soon |-> FALSE, policy |-> "read_only"]

\* buildReadOnlyGrantDocument
ReadOnlyDocument(d) == [d EXCEPT !.id = "ours", !.grants = <<ReadGrant>>]
Buildable(d) ==
  /\ \A i \in 1 .. Len(d.grants) : d.grants[i].capability \notin Dangerous
  /\ d.id \in {"ours", "absent"}

\* summarizeGrantUpdatePlan: the signer is the owner that was read.
ReadyToSign(signer) == signer = owner /\ Buildable(document)

\* main: the plan is made from the owner and the document on chain. A plan that
\* is not ready_to_sign is printed and nothing else.
PlanUpdate ==
  /\ updater.at = "idle" /\ Change
  /\ \E signer \in {"us", "them"} :
       /\ ReadyToSign(signer)
       /\ updater' = [at |-> "planned", signer |-> signer, read |-> {document}]
  /\ UNCHANGED <<tokenLive, owner, document, late, since>> /\ Outside

\* sendTransaction: setAgentURI is the owner's alone, and replaces whatever
\* document has been published meanwhile.
SendUpdate ==
  /\ updater.at = "planned"
  /\ updater' = [updater EXCEPT !.at = "done"]
  /\ IF owner = updater.signer
     THEN \E d \in updater.read :
            document' = ReadOnlyDocument(d) /\ Noticed(ReadOnlyDocument(d), owner)
     ELSE UNCHANGED <<document, since>>
  /\ UNCHANGED <<tokenLive, owner, late, changes>> /\ Outside

-----------------------------------------------------------------------------
GovernedCallNext ==
  \/ Arrive \/ ReadOwner \/ ReadDocument \/ LookUp \/ Check \/ Reserve \/ Post
  \/ RevokeToken \/ Transfer \/ Publish \/ TimePasses
  \/ PlanUpdate \/ SendUpdate

GovernedCallSpec == GovernedCallInit /\ [][GovernedCallNext]_governedCallVars

-----------------------------------------------------------------------------
(* What governs a call *)

GovernedCallTypeOK ==
  /\ runtimeEnv \in RuntimeEnvs /\ tokenLive \in BOOLEAN /\ owner \in {"us", "them"}
  /\ late \in BOOLEAN /\ changes \in 0 .. MaxChanges
  /\ call.at \in {"idle", "owner", "document", "lookup", "check", "reserve", "post", "answered"}
  /\ call.req \in CallRequests /\ call.approval \subseteq ApprovalFile
  /\ call.sent # {} => call.at = "answered"

\* A body carries what one sealed record of the approval file says, a record
\* signed with the key, for the receipt and the chain of the call.
AsApproved(b, m) ==
  \E a \in ApprovalFile :
    /\ a.sealed /\ a.signature = "keyed" /\ a.passport = "ours" /\ a.kind = KindOf[b.tool]
    /\ a.id = call.req.approval /\ a.receipt = call.req.receipt /\ a.chain = call.req.chain
    /\ b.amount = (IF b.tool = Executes THEN Sends(a) ELSE a.amount) /\ m = a.method
    /\ b.tool = Moves => b.recipient = a.recipient /\ b.asset = a.asset
    /\ b.tool = Swaps => b.asset = a.asset /\ b.to = a.to /\ b.least = a.least
    /\ b.tool = Executes => b.contract = a.contract /\ b.calldata = a.calldata

\* A limit is kept as far as doubles tell amounts apart.
UpTo(n, max) == max = NaN \/ n <= max \/ Number[n] = Number[max]

\* Within the first grant of its capability: the chain the call was made for,
\* whom it pays, which contract and method it runs, and for how much.
AsGranted(b, m, g) ==
  /\ g.chain \in {AnyChain, call.req.chain} /\ b.chain \in {AnyChain, call.req.chain}
  /\ b.tool \in {"pay_x402_invoice", Moves} => Listed(b.recipient, g.recipients)
  /\ b.tool = Executes => Listed(b.contract, g.contracts) /\ Listed(m, g.methods)
  /\ b.tool \in {"pay_x402_invoice"} \cup ByApproval => UpTo(b.amount, g.max)

\* What is posted to Bankr stays within the passport's grant for it, read off
\* the document as it was published and the body as it was sent -- up to amounts
\* that are the same double, which the check cannot tell apart; and what
\* needs an approval is what a human approved and signed (bankr-adapter.ts:
\* "a passport/kernel/human-approved request reaches this adapter").
ActsOnlyAsGranted ==
  \A b \in call.sent : \E m \in {call.req.method} \cup {a.method : a \in call.approval} :
    /\ b.tool \in ByApproval => AsApproved(b, m)
    /\ \E p \in call.passport :
         /\ GrantsOf(p, Capability[b.tool]) # {}
         /\ AsGranted(b, m, GrantOf(p, Capability[b.tool]))

\* Nothing that had ended before the call arrived lets it act: a revoked
\* token, a passport that was another's all along or whose document names
\* another owner, a document replaced before, a grant or an approval that had
\* expired. What ends while the call is served may be too late to stop it.
RevokedMeansRefused ==
  call.sent # {} =>
    /\ since.live /\ since.ours /\ call.passport \subseteq since.documents
    /\ \A p \in call.passport : p.names # "them"
    /\ since.late =>
         /\ \A a \in call.approval : ~a.soon
         /\ \A p \in call.passport : ~GrantOf(p, Capability[call.req.tool]).soon

\* "asset outside capability grant" (mcp-base.ts): what is moved or exchanged
\* is among the assets of the grant.
AssetsWithinGrant ==
  \A b \in call.sent, p \in call.passport :
    b.tool \in {Moves, Swaps} =>
      LET g == GrantOf(p, Capability[b.tool])
      IN Listed(b.asset, g.assets) /\ (b.tool = Swaps => Listed(b.to, g.assets))
=============================================================================
