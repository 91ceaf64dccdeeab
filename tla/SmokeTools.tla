------------------------------- MODULE SmokeTools -------------------------------
(***************************************************************************)
(* The live smoke tools (bankr-live-smoke.ts, mcp-live-smoke.ts) against   *)
(* the token registry of a running gateway (McpTokens). A smoke creates    *)
(* temporary tokens through the gateway, which revokes the wallet's other  *)
(* tokens, probes with them and revokes them. Every step is an HTTP        *)
(* request: other smokes and the wallet's owner use the registry between   *)
(* two of them, an answer may be lost, and a tool that is killed takes no  *)
(* further step.                                                           *)
(***************************************************************************)
EXTENDS Naturals, FiniteSets

CONSTANTS
  BankrSmokes, GraphSmokes,   \* the runs of the two tools
  ScopeOf,                    \* token ids, and the scopes each would be issued for
  Probes,                     \* requests made with a token; three in the tools
  MaxRegistryFaults, MaxRegistryKills,
  MaxLost                     \* bound: answers that are lost

\* All smokes share one wallet. A token's terms are its scopes.
Wallet == "smoke wallet"
Scopes == {"base_mcp:governed", "graph and council_memory", "graph:read"}
SmokeTokens == DOMAIN ScopeOf

ASSUME SmokeToolsAssumption ==
  /\ Probes \in Nat \ {0} /\ MaxLost \in Nat /\ ScopeOf \in [SmokeTokens -> Scopes]
  /\ MaxRegistryFaults \in Nat /\ MaxRegistryKills \in Nat
  /\ BankrSmokes \cap GraphSmokes = {}

VARIABLES
  regLoaded, regCache, regFile, regWallet, regTerms, regIssued, regFirst, regPassed,
  regGiven, regWithdrawn, regFaults, regKills,
  acknowledged,     \* ..._ACK_REVOKES_EXISTING_MCP_TOKEN
  smoke,            \* the runs
  lost              \* answers that were lost

Registry == INSTANCE McpTokens WITH
  Tokens <- SmokeTokens, Wallets <- {Wallet}, Terms <- Scopes,
  MaxFaults <- MaxRegistryFaults, MaxKills <- MaxRegistryKills,
  loaded <- regLoaded, cache <- regCache, file <- regFile, wallet <- regWallet,
  terms <- regTerms, issued <- regIssued, first <- regFirst, passed <- regPassed,
  given <- regGiven, withdrawn <- regWithdrawn, faults <- regFaults, kills <- regKills

registryVars == <<regLoaded, regCache, regFile, regWallet, regTerms, regIssued, regFirst,
                  regPassed, regGiven, regWithdrawn, regFaults, regKills>>
smokeVars == <<registryVars, acknowledged, smoke, lost>>

Smokes == BankrSmokes \cup GraphSmokes
SmokeReady == [at |-> "ready", before |-> {}, victims |-> {}, token |-> {}, narrow |-> {},
          left |-> Probes, good |-> TRUE, cleaned |-> TRUE]
SmokeBecomes(s, rec) == smoke' = [smoke EXCEPT ![s] = rec]
SmokeGoes(s, at) == SmokeBecomes(s, [smoke[s] EXCEPT !.at = at])
RegistrySilent == UNCHANGED <<registryVars, acknowledged>>
SmokeCalm == UNCHANGED <<acknowledged, lost>>
Lose == lost < MaxLost /\ lost' = lost + 1 /\ UNCHANGED acknowledged

\* The wallet's records without revokedAt: an expired token counts.
ActiveTokens == Registry!ActiveOf(regCache, Wallet)
\* The registry wrote its file, so that the route answered with success.
Stored == regFaults' = regFaults /\ regKills' = regKills

SmokeInit ==
  /\ Registry!Init /\ regTerms = ScopeOf
  /\ acknowledged \in BOOLEAN /\ smoke = [s \in Smokes |-> SmokeReady] /\ lost = 0

-----------------------------------------------------------------------------
(* Seeded bug: the tokens of the wallet are listed, and the list not heeded. *)

ListAnyway(s) ==
  /\ smoke[s].at = "ready" /\ regLoaded
  /\ SmokeBecomes(s, [smoke[s] EXCEPT !.at = "create", !.before = regIssued])
  /\ RegistrySilent /\ UNCHANGED lost

-----------------------------------------------------------------------------
(* Both tools *)

\* POST /api/mcp/tokens. The tool learns of its token only from the answer. When
\* the creation fails it throws and goes where its finally takes it.
Obtain(s, scope, field, next, failing) ==
  LET throws == [smoke[s] EXCEPT !.good = FALSE, !.at = failing]
  IN \/ \E t \in SmokeTokens :
          /\ regTerms[t] = scope /\ Registry!Create(t)
          /\ LET asking(rec) == [rec EXCEPT !.victims = @ \cup ActiveTokens]
             IN \/ Stored /\ SmokeCalm
                   /\ SmokeBecomes(s, asking([smoke[s] EXCEPT ![field] = {t}, !.at = next]))
                \/ Stored /\ Lose /\ SmokeBecomes(s, asking(throws))
                \/ ~Stored /\ SmokeCalm /\ SmokeBecomes(s, asking(throws))
     \/ RegistrySilent /\ Lose /\ SmokeBecomes(s, throws)

\* One request with a token: it is accepted, and what the tool reads may still
\* not be what it wants, or refused; or the tool does not get through at all,
\* throws, and goes on in its finally.
ProbeWith(s, t) ==
  LET probed(ok) == [smoke[s] EXCEPT !.left = @ - 1, !.good = @ /\ ok,
                                     !.at = IF smoke[s].left = 1 THEN "after" ELSE @]
  IN \/ /\ Registry!Verify(t) /\ SmokeCalm
        /\ \E ok \in BOOLEAN : (ok => Stored) /\ SmokeBecomes(s, probed(ok))
     \/ regLoaded /\ ~Registry!Accepted(t) /\ RegistrySilent /\ UNCHANGED lost /\ SmokeBecomes(s, probed(FALSE))
     \/ RegistrySilent /\ Lose /\ SmokeBecomes(s, [smoke[s] EXCEPT !.at = "revoke", !.good = FALSE])

\* DELETE /api/mcp/tokens/:id. A request that fails throws out of the finally.
RevokeOwn(s, t, next) ==
  \/ /\ Registry!Revoke(t) /\ SmokeCalm
     /\ \E ok \in BOOLEAN : ok = Stored
          /\ SmokeBecomes(s, [smoke[s] EXCEPT !.cleaned = @ /\ ok, !.at = next])
  \/ /\ regLoaded /\ t \notin regCache.known /\ RegistrySilent /\ UNCHANGED lost
     /\ SmokeBecomes(s, [smoke[s] EXCEPT !.cleaned = FALSE, !.at = next])
  \/ RegistrySilent /\ Lose /\ SmokeGoes(s, "failed")

Probe(s) == smoke[s].at = "probe" /\ \E t \in smoke[s].token : ProbeWith(s, t)

-----------------------------------------------------------------------------
(* runBankrLiveSmoke *)

\* A configuration that is not complete blocks the run; so does an active token
\* of the wallet, unless its loss is acknowledged, and a list that fails.
List(s) ==
  /\ smoke[s].at = "ready" /\ regLoaded
  /\ \/ /\ ActiveTokens = {} \/ acknowledged
        /\ SmokeBecomes(s, [smoke[s] EXCEPT !.at = "create", !.before = regIssued])
     \/ SmokeGoes(s, "failed")
  /\ RegistrySilent /\ UNCHANGED lost

CreateBase(s) == smoke[s].at = "create" /\ Obtain(s, "base_mcp:governed", "token", "probe", "failed")
RevokeBase(s) ==
  /\ smoke[s].at \in {"after", "revoke"} /\ \E t \in smoke[s].token : RevokeOwn(s, t, "done")

-----------------------------------------------------------------------------
(* runLiveMcpSmoke *)

CreateFull(s) ==
  smoke[s].at = "ready" /\ Obtain(s, "graph and council_memory", "token", "narrow", "failed")
\* The first token is there to be revoked when the second is not obtained.
CreateNarrow(s) ==
  smoke[s].at = "narrow" /\ Obtain(s, "graph:read", "narrow", "probe", "revoke")

\* The graph-only token must be refused for its scope, with 403; a token that
\* is not accepted at all gets 401.
Denied(s) ==
  /\ smoke[s].at = "after" /\ regLoaded /\ RegistrySilent
  /\ \/ /\ UNCHANGED lost
        /\ \E t \in smoke[s].narrow :
             SmokeBecomes(s, [smoke[s] EXCEPT !.good = @ /\ Registry!Accepted(t), !.at = "revoke"])
     \/ lost < MaxLost /\ lost' = lost + 1
        /\ SmokeBecomes(s, [smoke[s] EXCEPT !.good = FALSE, !.at = "revoke"])
RevokeFull(s) ==
  /\ smoke[s].at = "revoke"
  /\ \E t \in smoke[s].token :
       RevokeOwn(s, t, IF smoke[s].narrow = {} THEN "failed" ELSE "revoke narrow")
RevokeNarrow(s) ==
  smoke[s].at = "revoke narrow" /\ \E t \in smoke[s].narrow : RevokeOwn(s, t, "done")

-----------------------------------------------------------------------------
\* The gateway, and the owner of the wallet who generates a token.
Elsewhere ==
  /\ UNCHANGED <<acknowledged, smoke, lost>>
  /\ \/ Registry!Load \/ Registry!Restart
     \/ \E t \in SmokeTokens : Registry!Create(t)

SmokeNext ==
  \/ \E s \in BankrSmokes :
       List(s) \/ CreateBase(s) \/ RevokeBase(s)
  \/ \E s \in GraphSmokes :
       CreateFull(s) \/ CreateNarrow(s) \/ Denied(s) \/ RevokeFull(s) \/ RevokeNarrow(s)
  \/ \E s \in Smokes : Probe(s)
  \/ Elsewhere

SmokeSpec == SmokeInit /\ [][SmokeNext]_smokeVars

-----------------------------------------------------------------------------
(* What a smoke may be trusted with *)

SmokeTypeOK ==
  /\ Registry!TypeOK
  /\ \A s \in Smokes : smoke[s] \in
       [at : {"ready", "create", "narrow", "probe", "after", "revoke", "revoke narrow",
              "done", "failed"},
        before : SUBSET SmokeTokens, victims : SUBSET SmokeTokens,
        token : SUBSET SmokeTokens, narrow : SUBSET SmokeTokens,
        left : 0 .. Probes, good : BOOLEAN, cleaned : BOOLEAN]
  /\ lost \in 0 .. MaxLost

\* buildBankrLiveSmokeReceipt and receiptPasses
SmokePasses(s) == smoke[s].at = "done" /\ smoke[s].good /\ smoke[s].cleaned

\* A receipt that passes vouches for the clean-up: none of the tool's tokens is
\* accepted any more, now or after a restart, whatever failed and whoever else
\* used the wallet meanwhile. And a Bankr smoke whose operator has not
\* acknowledged it costs no token that was there when it listed them, unless a
\* write of the registry failed ("the harness blocks as
\* blocked_existing_active_token unless this is set", bankr-runtime-adapter.md).
SmokeKeepsItsWord ==
  /\ \A s \in Smokes : SmokePasses(s) =>
       (smoke[s].token \cup smoke[s].narrow)
         \cap (Registry!Active(regCache) \cup Registry!Active(regFile)) = {}
  /\ ~acknowledged /\ regFaults = 0 /\ regKills = 0 =>
       \A s \in BankrSmokes : smoke[s].victims \cap smoke[s].before = {}
=============================================================================
