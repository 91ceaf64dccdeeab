--------------------------- MODULE OneShotApproval ---------------------------
(***************************************************************************)
(* What the operator runbook promises of a sealed approval record: it is   *)
(* reserved by one claimant, its operation takes effect at most once, and  *)
(* the reservation is then consumed, or released if nothing took effect.   *)
(***************************************************************************)
CONSTANTS Approvals, Effects

VARIABLES state, effects

Init ==
  /\ state = [a \in Approvals |-> "free"]
  /\ effects = [a \in Approvals |-> {}]

Becomes(a, from, to) == state[a] = from /\ state' = [state EXCEPT ![a] = to]

\* A claimant reserves the approval.
Claim(a) == Becomes(a, "free", "claimed") /\ UNCHANGED effects

\* The operation takes effect, while claimed and for the first time.
Perform(a) ==
  /\ state[a] = "claimed" /\ effects[a] = {}
  /\ \E e \in Effects : effects' = [effects EXCEPT ![a] = {e}]
  /\ UNCHANGED state

\* Consume follows an effect, release follows none.
Spend(a) == effects[a] # {} /\ Becomes(a, "claimed", "spent") /\ UNCHANGED effects
Free(a) == effects[a] = {} /\ Becomes(a, "claimed", "free") /\ UNCHANGED effects

Next == \E a \in Approvals : Claim(a) \/ Perform(a) \/ Spend(a) \/ Free(a)

Spec == Init /\ [][Next]_<<state, effects>>
=============================================================================
