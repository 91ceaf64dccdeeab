---------------------------- MODULE IdentityKernel ----------------------------
(***************************************************************************)
(* The verdicts of the identity kernel (packages/identity-kernel). A text  *)
(* is what the patterns tell of it: whether it attacks the identity        *)
(* boundary, or is operationally harmful. A tool is its name.              *)
(***************************************************************************)
EXTENDS FiniteSets

Verdicts ==
  {"allow", "refuse", "transform", "ask_clarifying", "require_human", "downgrade_tools"}

\* isBlocking and isBlockingIdentityVerdict
Blocking == {"refuse", "require_human", "ask_clarifying"}

\* toolPermissionFromScope: the search scope also covers two tools.
Permitted(scope, tool) ==
  \/ tool \in scope
  \/ tool \in {"browser", "search_graph"} /\ "search" \in scope

\* The envelope of a request: whether its text attacks, the authority scope
\* of the passport, and the tools the caller asks for.
EvaluatePrompt(envelope) ==
  IF envelope.attacks THEN "refuse"
  ELSE IF \E tool \in envelope.requested : ~Permitted(envelope.scope, tool)
       THEN "downgrade_tools"
  ELSE "allow"

EvaluateContext(item) == IF item.attacks THEN "transform" ELSE "allow"

EvaluateToolCall(scope, call) ==
  IF Permitted(scope, call.name) /\ ~call.harmful THEN "allow" ELSE "refuse"

EvaluateOutput(harmful) == IF harmful THEN "transform" ELSE "allow"
=============================================================================
