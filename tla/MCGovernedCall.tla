----------------------------- MODULE MCGovernedCall -----------------------------
(* Calls, passports and approvals for TLC: each case of the policy once. *)
EXTENDS GovernedCall

(* Passports. Amounts are up to 6, and above 4 only even ones are told apart;  *)
(* chain 1 is Base, chain 2 another.                                           *)

MCNumber == [n \in -1 .. 6 |-> IF n = 5 THEN 4 ELSE n]

Grant(capability) ==
  [capability |-> capability, chain |-> 1, recipients |-> {}, assets |-> {},
   contracts |-> {}, methods |-> {}, max |-> NaN, soon |-> FALSE, policy |-> "none"]
Reads == [Grant("base.wallet.read") EXCEPT !.policy = "read_only"]
Pays == [Grant("base.x402.pay") EXCEPT !.recipients = {"shop"}, !.max = 4]
Files == Grant("base.receipt.publish")
Asks == [Grant("base.contract.request_human") EXCEPT !.contracts = {"vault"}]
MovesTo(who) ==
  [Grant("base.value.move") EXCEPT !.recipients = {who}, !.assets = {"usdc"}, !.max = 4]
Exchanges == [Grant("base.asset.exchange") EXCEPT !.assets = {"usdc", "weth"}, !.max = 4]
Runs ==
  [Grant("base.contract.execute") EXCEPT !.contracts = {"vault"}, !.methods = {"deposit"},
                                          !.max = 4]

Document(grants) ==
  [wellFormed |-> TRUE, id |-> "ours", registered |-> "absent", names |-> "us",
   agent |-> "none", scope |-> {"answer"}, grants |-> grants]
All == <<Reads, Pays, Files, Asks, MovesTo("shop"), Exchanges, Runs>>

MCDocuments ==
  {Document(All),
   \* everything expires soon; registered instead of claimed, and no owner named
   [Document([i \in 1 .. Len(All) |-> [All[i] EXCEPT !.soon = TRUE, !.chain = AnyChain]])
      EXCEPT !.id = "absent", !.registered = "ours", !.names = "nobody", !.agent = "us"],
   \* the next owner's
   [Document(<<MovesTo("them"), Runs>>) EXCEPT !.names = "them"],
   \* two grants of a capability, and a read without a policy
   Document(<<[MovesTo("shop") EXCEPT !.chain = 2], MovesTo("them"), Grant("base.wallet.read")>>),
   \* scope without grants
   [Document(<<>>) EXCEPT !.scope = {"base.value.move", "base.wallet.read"}],
   [Document(All) EXCEPT !.wellFormed = FALSE]}

(* The approval file *)

Approval(kind, id) ==
  [kind |-> kind, id |-> id, passport |-> "ours", chain |-> 1, receipt |-> "seen",
   soon |-> FALSE, sealed |-> TRUE, signature |-> "keyed", recipient |-> "shop",
   asset |-> "usdc", to |-> "weth", amount |-> 3, least |-> 1,
   contract |-> "vault", method |-> "deposit", calldata |-> "code", value |-> Missing]

MCApprovals ==
  {[Approval("value_movement", "a") EXCEPT !.soon = TRUE],
   [Approval("value_movement", "b") EXCEPT !.asset = "other"],
   [Approval("value_movement", "c") EXCEPT !.signature = "forged"],
   [Approval("asset_exchange", "a") EXCEPT !.amount = 5],
   [Approval("asset_exchange", "b") EXCEPT !.least = 0],
   Approval("contract_operation", "a"),
   [Approval("contract_operation", "b") EXCEPT !.contract = "other", !.signature = "none"],
   [Approval("contract_operation", "c") EXCEPT !.contract = "other"],
   [Approval("contract_operation", "e") EXCEPT !.value = 4, !.amount = 6],
   [Approval("contract_operation", "d") EXCEPT !.sealed = FALSE]}

(* Calls *)

Request(tool) ==
  [tool |-> tool, passport |-> "ours", wallet |-> "none", chain |-> 1,
   approval |-> "none", receipt |-> "none", raw |-> FALSE, harmful |-> FALSE,
   selfGranted |-> FALSE, recipient |-> "shop", asset |-> "usdc", to |-> "none",
   amount |-> 3, contract |-> "vault", method |-> "deposit"]
Approved(tool, id) == [Request(tool) EXCEPT !.approval = id, !.receipt = "seen"]

MCRequests ==
  {Request("read_wallet_state"),
   [Request("read_wallet_state") EXCEPT !.wallet = "us"],
   Request("pay_x402_invoice"),
   [Request("pay_x402_invoice") EXCEPT !.recipient = "them", !.harmful = TRUE],
   [Request("pay_x402_invoice") EXCEPT !.amount = 6],
   Request("publish_receipt_hash"),
   Request("request_human_approved_contract_call"),
   Approved(Moves, "a"),
   Approved(Moves, "b"),
   Approved(Moves, "c"),
   [Approved(Moves, "a") EXCEPT !.receipt = "forged"],
   [Approved(Moves, "a") EXCEPT !.raw = TRUE],
   Approved(Swaps, "a"),
   Approved(Executes, "a"),
   Approved(Executes, "b"),
   Approved(Executes, "c"),
   Approved(Executes, "e"),
   [Approved(Executes, "a") EXCEPT !.selfGranted = TRUE],
   [Request(Executes) EXCEPT !.passport = "none"]}

(* The environments of the gateway *)

Environment ==
  [key |-> TRUE, writes |-> TRUE, authority |-> TRUE, store |-> TRUE, secret |-> "long",
   x402 |-> TRUE, publish |-> TRUE]
MCEnvironments ==
  {Environment,
   [Environment EXCEPT !.secret = "none", !.x402 = FALSE],
   [Environment EXCEPT !.writes = FALSE, !.store = FALSE, !.publish = FALSE]}
=============================================================================
