------------------------------- MODULE MCGateway -------------------------------
(* The parts of the gateway and of its page that share no state, checked in    *)
(* one run. A behaviour is a scene: one part moves, the others stay in an       *)
(* initial state. Since no part reads another's variables, the scenes show of   *)
(* each part what its own specification shows.                                  *)
EXTENDS MCGovernedCall, ChatTurn, Conversation, SmokeTools, ReproLab, WalletMemory

VARIABLE scene

\* One token for the Bankr smoke or the wallet's owner, and two for the graph smoke.
MCScopeOf ==
  [t \in {"t2", "t3", "t4"} |->
     CASE t = "t3" -> "graph and council_memory"
       [] t = "t4" -> "graph:read"
       [] OTHER -> "base_mcp:governed"]

MCCatalog ==
  {[split |-> "standard", ref |-> "s1"], [split |-> "contextual", ref |-> "c1"]}
MCLedger ==
  <<[split |-> "standard", text |-> "leak"],
    [split |-> "standard", text |-> "clean"],
    [split |-> "contextual", text |-> "clean"]>>

allVars ==
  <<governedCallVars, chatTurnVars, conversationVars, smokeVars, labVars, memoryVars>>

(* The scenes. The lab's samples and its table share only the session, and the   *)
(* stores of a wallet nothing: they are scenes of their own.                     *)

Scenes ==
  {"governed", "chat", "conversation", "smoke", "lab sample", "lab table",
   "stores", "recall", "council"}

\* The components whose specification has several initial states start, in the
\* scenes of the others, in one of them.
GatewayInit ==
  /\ scene \in Scenes
  /\ GovernedCallInit
  /\ scene # "governed" =>
       /\ runtimeEnv = Environment /\ agentWallet = "none" /\ document = Document(All)
       /\ call = Calling(Request("read_wallet_state"))
  /\ ChatTurnInit
  /\ scene # "chat" => enforced /\ hermes
  /\ ConversationInit
  /\ SmokeInit
  /\ scene # "smoke" => acknowledged
  /\ ReproLabInit
  /\ MemoryInit
  /\ scene # "council" => capture = "off"

Governed == scene = "governed" /\ GovernedCallNext
Chatting == scene = "chat" /\ ChatTurnNext
Conversing == scene = "conversation" /\ ConversationNext
Smoking == scene = "smoke" /\ SmokeNext
Sampling == scene = "lab sample" /\ (SessionNext \/ SampleNext)
Browsing == scene = "lab table" /\ (SessionNext \/ TableNext)
Storing == scene = "stores" /\ StoresNext
Recalling == scene = "recall" /\ RecallNext
Debating == scene = "council" /\ CouncilNext

GatewayNext ==
  /\ UNCHANGED scene
  /\ \/ Governed
        /\ UNCHANGED <<chatTurnVars, conversationVars, smokeVars, labVars, memoryVars>>
     \/ Chatting
        /\ UNCHANGED <<governedCallVars, conversationVars, smokeVars, labVars, memoryVars>>
     \/ Conversing
        /\ UNCHANGED <<governedCallVars, chatTurnVars, smokeVars, labVars, memoryVars>>
     \/ Smoking
        /\ UNCHANGED <<governedCallVars, chatTurnVars, conversationVars, labVars, memoryVars>>
     \/ (Sampling \/ Browsing)
        /\ UNCHANGED <<governedCallVars, chatTurnVars, conversationVars, smokeVars, memoryVars>>
     \/ (Storing \/ Recalling \/ Debating)
        /\ UNCHANGED <<governedCallVars, chatTurnVars, conversationVars, smokeVars, labVars>>

GatewaySpec == GatewayInit /\ [][GatewayNext]_<<scene, allVars>> /\ StreamFairness

\* The type invariants of the parts, together.
GatewayTypesOK ==
  /\ scene \in Scenes
  /\ GovernedCallTypeOK /\ ChatTurnTypeOK /\ ConversationTypeOK
  /\ SmokeTypeOK /\ ReproLabTypeOK /\ MemoryTypeOK
=============================================================================
