--------------------------- MODULE GovernedCallProofs ---------------------------
(***************************************************************************)
(* Proofs about GovernedCall, for any calls, passport documents, approval  *)
(* files and configurations, and any number of changes around a call.      *)
(*                                                                         *)
(* The argument follows the handler: what each of its awaits has looked at *)
(* is remembered in the call, and what has ended before the call arrived   *)
(* stays ended, so that it is refused wherever the handler looks.          *)
(***************************************************************************)
EXTENDS GovernedCall, SequenceTheorems, WellFoundedInduction, TLAPS

-----------------------------------------------------------------------------
(* The first grant of a capability *)

LEMMA Smallest ==
  ASSUME NEW T, T \subseteq Nat, T # {}
  PROVE  \E m \in T : \A k \in T : m <= k
<1>1. PICK m \in T : \A k \in T : <<k, m>> \notin OpToRel(<, Nat)
  BY WFMin, NatLessThanWellFounded, Zenon
<1>2. \A k \in T : ~(k < m)
  BY <1>1, Zenon DEF OpToRel
<1>3. \A k \in T : m <= k
  BY <1>2
<1>4. QED BY <1>3

\* Reading a passport keeps which grant counts, and all of it but the assets.
LEMMA GrantParsed ==
  ASSUME NEW d \in DocumentRecord, NEW cap, GrantsOf(Parsed(d), cap) # {}
  PROVE  /\ GrantsOf(d, cap) # {}
         /\ GrantOf(d, cap) \in GrantRecord
         /\ GrantOf(Parsed(d), cap) = ParsedGrant(GrantOf(d, cap))
<1> DEFINE gs == d.grants
           ps == [i \in DOMAIN gs |-> ParsedGrant(gs[i])]
           S == GrantsOf(d, cap)
           first == CHOOSE i \in S : \A j \in S : i <= j
<1>1. gs \in Seq(GrantRecord) /\ DOMAIN gs = 1 .. Len(gs) /\ Len(gs) \in Nat
  BY LenProperties DEF DocumentRecord
<1>2. \A i \in 1 .. Len(gs) : gs[i] \in GrantRecord
  BY <1>1, ElementOfSeq
<1>3. \A g \in GrantRecord : ParsedGrant(g) \in GrantRecord /\ ParsedGrant(g).capability = g.capability
  BY DEF ParsedGrant, GrantRecord
<1>4. Parsed(d).grants = ps
  BY DEF Parsed, DocumentRecord
<1>5. \A i \in 1 .. Len(gs) : ps[i] = ParsedGrant(gs[i])
  BY <1>1
<1>6. Len(ps) = Len(gs)
  <2>1. DOMAIN ps = 1 .. Len(gs) /\ \A i \in 1 .. Len(gs) : ps[i] \in GrantRecord
    BY <1>1, <1>2, <1>3, <1>5
  <2>2. ps \in [1 .. Len(gs) -> GrantRecord]
    BY <2>1
  <2>3. ps \in Seq(GrantRecord)
    BY <1>1, <2>2, SeqDef
  <2>4. DOMAIN ps = 1 .. Len(ps) /\ Len(ps) \in Nat
    BY <2>3, LenProperties
  <2>5. QED BY <1>1, <2>1, <2>4
<1> HIDE DEF ps, gs
<1>7. GrantsOf(Parsed(d), cap) = S
  BY <1>2, <1>3, <1>4, <1>5, <1>6 DEF GrantsOf, gs
<1>8. S \subseteq 1 .. Len(gs) /\ S # {}
  BY <1>7 DEF GrantsOf, gs
<1> HIDE DEF S, first
<1>9. \E i \in S : \A j \in S : i <= j
  <2>1. S \subseteq Nat
    BY <1>1, <1>8
  <2>2. QED BY <1>8, <2>1, Smallest
<1>10. first \in S
  BY <1>9 DEF first
<1>11. GrantOf(d, cap) = gs[first] /\ GrantOf(Parsed(d), cap) = ps[first]
  BY <1>4, <1>7 DEF GrantOf, gs, S, first
<1>12. QED BY <1>2, <1>5, <1>8, <1>10, <1>11 DEF S

-----------------------------------------------------------------------------
(* What the handler has looked at *)

CallPlaces == {"idle", "owner", "document", "lookup", "check", "reserve", "post", "answered"}
BodyRecord == [
  tool : STRING, chain : Nat, recipient : STRING, asset : STRING, to : STRING,
  amount : Amounts, least : Amounts, contract : STRING \cup {"none"},
  calldata : STRING \cup {"none"}]
CallState == [
  at : CallPlaces, req : CallRequests, passport : SUBSET DocumentRecord,
  approval : SUBSET ApprovalFile, sent : SUBSET BodyRecord]
SinceState == [
  late : BOOLEAN, live : BOOLEAN, ours : BOOLEAN, documents : SUBSET DocumentRecord]

TypeInv ==
  /\ runtimeEnv \in RuntimeEnvs /\ tokenLive \in BOOLEAN /\ owner \in {"us", "them"}
  /\ late \in BOOLEAN /\ changes \in 0 .. MaxChanges /\ document \in DocumentRecord
  /\ call \in CallState /\ since \in SinceState
  /\ updater \in [at : {"idle", "planned", "done"}, signer : {"us", "them"},
                  read : SUBSET DocumentRecord]

\* While the call is served the history knows what holds now.
Noted ==
  call.at \notin {"idle", "answered"} =>
    /\ since.live /\ (since.late => late)
    /\ owner = "us" => since.ours
    /\ document \in since.documents

PassportKnown ==
  /\ call.at \in {"document", "lookup", "check", "reserve", "post"} => since.ours
  /\ call.at \in {"lookup", "check", "reserve", "post"} =>
       \E p \in since.documents : call.passport = {p} /\ p.names # "them"

\* The record the store returned is kept and is for this call.
ForCall(a) ==
  /\ Kept(a) /\ a.kind = KindOf[call.req.tool] /\ a.id = call.req.approval
  /\ a.passport = "ours" /\ a.chain = call.req.chain

ApprovalKnown ==
  /\ call.at \in {"idle", "owner", "document", "lookup"} => call.approval = {}
  /\ call.at = "lookup" => call.req.tool \in ByApproval
  /\ call.at \in {"check", "reserve", "post"} =>
       \/ call.req.tool \notin ByApproval /\ call.approval = {}
       \/ call.req.tool \in ByApproval /\ \E a \in ApprovalFile : call.approval = {a} /\ ForCall(a)

\* What the policy found, of a request and the grant that counts for it.
Within(r, g) ==
  /\ g.chain \in {AnyChain, r.chain} /\ g.max \in Amounts
  /\ r.tool = Executes => Number[r.amount] >= 0
  /\ r.tool \in {"pay_x402_invoice", Moves} => Listed(r.recipient, g.recipients)
  /\ r.tool = Executes => Listed(r.contract, g.contracts) /\ Listed(r.method, g.methods)
  /\ r.tool \in {"pay_x402_invoice"} \cup ByApproval => WithinLimit(r.amount, g.max)
Covers(p, r) ==
  /\ GrantsOf(p, Capability[r.tool]) # {}
  /\ Within(r, GrantOf(p, Capability[r.tool]))
  /\ late => ~GrantOf(p, Capability[r.tool]).soon

\* The check is done. Time may have gone on since: what is known of it is what
\* was true when the call arrived.
Passed ==
  call.at \in {"reserve", "post"} =>
    /\ \A a \in call.approval : call.req.receipt = a.receipt /\ (since.late => ~a.soon)
    /\ \A p \in call.passport, r \in Args :
         /\ GrantsOf(p, Capability[r.tool]) # {}
         /\ Within(r, GrantOf(p, Capability[r.tool]))
         /\ since.late => ~GrantOf(p, Capability[r.tool]).soon

Unsent == call.at # "answered" => call.sent = {}

Looked == PassportKnown /\ ApprovalKnown /\ Passed /\ Unsent
Lawful == TypeInv /\ Noted /\ Looked /\ RevokedMeansRefused /\ ActsOnlyAsGranted

\* A step that only moves the call on.
LEMMA GoesOn ==
  ASSUME TypeInv, NEW at \in CallPlaces, CallGoes(at)
  PROVE  /\ call' \in CallState /\ call'.at = at /\ call'.req = call.req
         /\ call'.passport = call.passport /\ call'.approval = call.approval
         /\ call'.sent = call.sent
BY DEF TypeInv, CallState, CallGoes

\* As long as nothing is sent, nothing wrong is.
LEMMA NothingSent ==
  ASSUME call.sent = {}
  PROVE  RevokedMeansRefused /\ ActsOnlyAsGranted
BY DEF RevokedMeansRefused, ActsOnlyAsGranted

\* An answered call stays as it is.
LEMMA AnsweredStays ==
  ASSUME Lawful, UNCHANGED <<call, since>>, TypeInv', call.at = "answered"
  PROVE  Lawful'
<1>1. Noted' /\ Looked'
  BY DEF Lawful, Noted, Looked, PassportKnown, ApprovalKnown, Passed, Unsent
<1>2. RevokedMeansRefused'
  BY DEF Lawful, RevokedMeansRefused
<1>3. ActsOnlyAsGranted'
  BY DEF Lawful, ActsOnlyAsGranted, AsApproved, AsGranted
<1>4. QED BY <1>1, <1>2, <1>3 DEF Lawful

-----------------------------------------------------------------------------
(* The check *)

\* A limit compared as doubles is kept up to what doubles tell apart.
LEMMA LimitKept ==
  ASSUME NEW n \in Amounts, NEW max \in Amounts, WithinLimit(n, max)
  PROVE  UpTo(n, max)
<1>1. n \in Int /\ max \in Int /\ Number[n] \in Int /\ Number[max] \in Int
  BY GovernedCallAssumption
<1>2. CASE max = NaN \/ n <= max
  BY <1>2 DEF UpTo
<1>3. CASE max # NaN /\ ~(n <= max)
  <2>1. Number[n] <= Number[max]
    BY <1>3 DEF WithinLimit
  <2>2. max <= n
    BY <1>1, <1>3
  <2>3. Number[max] <= Number[n]
    BY <2>2, GovernedCallAssumption
  <2>4. QED BY <1>1, <2>1, <2>3 DEF UpTo
<1>4. QED BY <1>2, <1>3

\* A transaction that names no value sends none, which no limit that let an
\* amount through forbids.
LEMMA NothingWithinLimit ==
  ASSUME NEW n \in Amounts, NEW max \in Amounts, Number[n] >= 0, WithinLimit(n, max)
  PROVE  UpTo(0, max)
<1>1. 0 \in Amounts /\ Number[0] = 0 /\ Number[n] \in Int /\ Number[max] \in Int
  BY GovernedCallAssumption
<1>2. WithinLimit(0, max)
  BY <1>1 DEF WithinLimit
<1>3. QED BY <1>1, <1>2, LimitKept

LEMMA EffectiveFields ==
  ASSUME NEW r \in CallRecord, NEW a \in ApprovalRecord
  PROVE  LET e == Effective(r, a)
         IN  /\ e \in CallRecord /\ e.tool = r.tool /\ e.chain = r.chain /\ e.receipt = r.receipt
             /\ e.recipient = a.recipient /\ e.asset = a.asset /\ e.to = a.to
             /\ e.amount = Checked(r, a) /\ e.contract = a.contract /\ e.method = a.method
<1>1. Checked(r, a) \in Amounts
  BY DEF Checked, ApprovalRecord
<1>2. QED BY <1>1 DEF Effective, CallRecord, ApprovalRecord

LEMMA PolicyCovers ==
  ASSUME NEW p \in DocumentRecord, NEW r, Granted(Parsed(p), r)
  PROVE  Covers(p, r)
<1> DEFINE cap == Capability[r.tool]
           g == GrantOf(p, cap)
           read == GrantOf(Parsed(p), cap)
<1>1. /\ GrantsOf(Parsed(p), cap) # {} /\ ~Expired(read) /\ read.chain \in {AnyChain, r.chain}
      /\ WithinPolicy(r, read)
  BY DEF Granted
<1>2. GrantsOf(p, cap) # {} /\ g \in GrantRecord /\ read = ParsedGrant(g)
  BY <1>1, GrantParsed
<1> HIDE DEF cap, g, read
<1>3. /\ read.chain = g.chain /\ read.recipients = g.recipients /\ read.contracts = g.contracts
      /\ read.methods = g.methods /\ read.max = g.max /\ read.soon = g.soon
  BY <1>2 DEF ParsedGrant, GrantRecord
<1>4. Within(r, g)
  <2>1. r.tool \in {"pay_x402_invoice", Moves} => Listed(r.recipient, g.recipients)
    BY <1>1, <1>3 DEF WithinPolicy
  <2>2. r.tool = Executes => Listed(r.contract, g.contracts) /\ Listed(r.method, g.methods)
    BY <1>1, <1>3 DEF WithinPolicy
  <2>3. r.tool \in {"pay_x402_invoice"} \cup ByApproval => WithinLimit(r.amount, g.max)
    BY <1>1, <1>3 DEF WithinPolicy
  <2>4. r.tool = Executes => Number[r.amount] >= 0
    BY <1>1 DEF WithinPolicy
  <2>5. g.max \in Amounts
    BY <1>2 DEF GrantRecord
  <2>6. QED BY <1>1, <1>3, <2>1, <2>2, <2>3, <2>4, <2>5 DEF Within
<1>5. late => ~g.soon
  BY <1>1, <1>3 DEF Expired
<1>6. QED BY <1>2, <1>4, <1>5 DEF Covers, cap, g

-----------------------------------------------------------------------------
(* The steps of the handler *)

LEMMA ArriveLawful ==
  ASSUME Lawful, Arrive
  PROVE  Lawful'
<1>1. /\ TypeInv /\ call.at = "idle" /\ call.sent = {} /\ call.approval = {}
      /\ since' = [late |-> late, live |-> tokenLive, ours |-> owner = "us", documents |-> {document}]
      /\ UNCHANGED <<runtimeEnv, agentWallet, tokenLive, owner, document, late, changes, updater>>
  BY DEF Lawful, Looked, ApprovalKnown, Unsent, Arrive, World
<1>2. \E at \in {"owner", "answered"} : CallGoes(at) /\ (at = "owner" => tokenLive)
  BY DEF Arrive
<1>3. PICK at \in {"owner", "answered"} : CallGoes(at) /\ (at = "owner" => tokenLive)
  BY <1>2
<1>4. /\ call' \in CallState /\ call'.at = at /\ call'.sent = {} /\ call'.approval = {}
  BY <1>1, <1>3, GoesOn DEF CallPlaces
<1>5. /\ since' \in SinceState /\ since'.late = late /\ since'.live = tokenLive
      /\ since'.ours = (owner = "us") /\ since'.documents = {document}
  BY <1>1 DEF TypeInv, SinceState
<1>6. TypeInv'
  BY <1>1, <1>4, <1>5 DEF TypeInv
<1>7. Noted'
  BY <1>1, <1>3, <1>4, <1>5 DEF Noted
<1>8. Looked'
  BY <1>4 DEF Looked, PassportKnown, ApprovalKnown, Passed, Unsent
<1>9. RevokedMeansRefused' /\ ActsOnlyAsGranted'
  BY <1>4 DEF RevokedMeansRefused, ActsOnlyAsGranted
<1>10. QED BY <1>6, <1>7, <1>8, <1>9 DEF Lawful

\* The handler answers without having posted.
LEMMA AnswersLawful ==
  ASSUME Lawful, call.at # "answered", CallGoes("answered"), Handles
  PROVE  Lawful'
<1>1. /\ TypeInv /\ call.sent = {}
      /\ UNCHANGED <<runtimeEnv, agentWallet, tokenLive, owner, document, late, changes, since, updater>>
  BY DEF Lawful, Looked, Unsent, Handles, World
<1>2. call' \in CallState /\ call'.at = "answered" /\ call'.sent = {}
  BY <1>1, GoesOn DEF CallPlaces
<1>3. TypeInv' /\ Noted'
  BY <1>1, <1>2 DEF TypeInv, Noted
<1>4. Looked'
  BY <1>2 DEF Looked, PassportKnown, ApprovalKnown, Passed, Unsent
<1>5. RevokedMeansRefused' /\ ActsOnlyAsGranted'
  BY <1>2 DEF RevokedMeansRefused, ActsOnlyAsGranted
<1>6. QED BY <1>3, <1>4, <1>5 DEF Lawful

LEMMA ReadOwnerLawful ==
  ASSUME Lawful, ReadOwner
  PROVE  Lawful'
<1>1. CASE CallGoes("answered")
  BY <1>1, AnswersLawful DEF ReadOwner
<1>2. CASE owner = "us" /\ CallGoes("document")
  <2>1. /\ TypeInv /\ call.at = "owner" /\ call.sent = {} /\ call.approval = {} /\ since.ours /\ Noted
        /\ UNCHANGED <<runtimeEnv, agentWallet, tokenLive, owner, document, late, changes, since, updater>>
    BY <1>2 DEF Lawful, Looked, ApprovalKnown, Unsent, Noted, Handles, World, ReadOwner
  <2>2. /\ call' \in CallState /\ call'.at = "document" /\ call'.sent = {} /\ call'.approval = {}
    BY <1>2, <2>1, GoesOn DEF CallPlaces
  <2>3. TypeInv' /\ Noted'
    BY <2>1, <2>2 DEF TypeInv, Noted
  <2>4. Looked'
    BY <2>1, <2>2 DEF Looked, PassportKnown, ApprovalKnown, Passed, Unsent
  <2>5. RevokedMeansRefused' /\ ActsOnlyAsGranted'
    BY <2>2 DEF RevokedMeansRefused, ActsOnlyAsGranted
  <2>6. QED BY <2>3, <2>4, <2>5 DEF Lawful
<1>3. QED BY <1>1, <1>2 DEF ReadOwner

LEMMA ReadDocumentLawful ==
  ASSUME Lawful, ReadDocument
  PROVE  Lawful'
<1>1. CASE CallGoes("answered")
  BY <1>1, AnswersLawful DEF ReadDocument
<1>2. CASE /\ Accepts(document)
           /\ call' = [call EXCEPT !.passport = {document},
                                   !.at = IF call.req.tool \in ByApproval THEN "lookup" ELSE "check"]
  <2>1. /\ TypeInv /\ call.at = "document" /\ call.sent = {} /\ call.approval = {} /\ since.ours /\ Noted
        /\ document \in since.documents /\ document \in DocumentRecord /\ document.names # "them"
        /\ UNCHANGED <<runtimeEnv, agentWallet, tokenLive, owner, document, late, changes, since, updater>>
    BY <1>2 DEF Lawful, Looked, PassportKnown, ApprovalKnown, Unsent, Noted, TypeInv, Accepts,
                Handles, World, ReadDocument
  <2>2. /\ call' \in CallState /\ call'.sent = {} /\ call'.approval = {} /\ call'.req = call.req
        /\ call'.passport = {document}
        /\ call'.at = IF call.req.tool \in ByApproval THEN "lookup" ELSE "check"
    BY <1>2, <2>1 DEF TypeInv, CallState, CallPlaces
  <2>3. TypeInv' /\ Noted'
    BY <2>1, <2>2 DEF TypeInv, Noted
  <2>4. Looked'
    BY <2>1, <2>2 DEF Looked, PassportKnown, ApprovalKnown, Passed, Unsent
  <2>5. RevokedMeansRefused' /\ ActsOnlyAsGranted'
    BY <2>2 DEF RevokedMeansRefused, ActsOnlyAsGranted
  <2>6. QED BY <2>3, <2>4, <2>5 DEF Lawful
<1>3. QED BY <1>1, <1>2 DEF ReadDocument

LEMMA LookUpLawful ==
  ASSUME Lawful, LookUp
  PROVE  Lawful'
<1>1. CASE CallGoes("answered")
  BY <1>1, AnswersLawful DEF LookUp
<1>2. ASSUME NEW a \in Found(call.req), call' = [call EXCEPT !.approval = {a}, !.at = "check"]
      PROVE  Lawful'
  <2>1. /\ TypeInv /\ call.at = "lookup" /\ call.sent = {} /\ call.req.tool \in ByApproval
        /\ since.ours /\ Noted /\ \E p \in since.documents : call.passport = {p} /\ p.names # "them"
        /\ UNCHANGED <<runtimeEnv, agentWallet, tokenLive, owner, document, late, changes, since, updater>>
    BY DEF Lawful, Looked, PassportKnown, ApprovalKnown, Unsent, Handles, World, LookUp
  <2>2. a \in ApprovalFile /\ ForCall(a)
    BY DEF Found, ForCall
  <2>3. /\ call' \in CallState /\ call'.sent = {} /\ call'.approval = {a} /\ call'.req = call.req
        /\ call'.passport = call.passport /\ call'.at = "check"
    BY <1>2, <2>1, <2>2 DEF TypeInv, CallState, CallPlaces
  <2>4. TypeInv' /\ Noted'
    BY <2>1, <2>3 DEF TypeInv, Noted
  <2>5. ForCall(a)'
    BY <2>1, <2>2, <2>3 DEF ForCall, Kept
  <2>6. PassportKnown' /\ ApprovalKnown' /\ Passed' /\ Unsent'
    BY <2>1, <2>2, <2>3, <2>5 DEF PassportKnown, ApprovalKnown, Passed, Unsent
  <2>7. RevokedMeansRefused' /\ ActsOnlyAsGranted'
    BY <2>3 DEF RevokedMeansRefused, ActsOnlyAsGranted
  <2>8. QED BY <2>4, <2>6, <2>7 DEF Lawful, Looked
<1>3. QED BY <1>1, <1>2 DEF LookUp

\* The call moves on with what it has looked at.
LEMMA MovesOn ==
  ASSUME Lawful, NEW at \in {"reserve", "post"}, CallGoes(at), Handles,
         call.at \in {"check", "reserve"},
         call.at = "check" => \A p \in call.passport : Passes(p)
  PROVE  Lawful'
<1>1. /\ TypeInv /\ call.sent = {} /\ Noted /\ since.ours
      /\ \E p \in since.documents : call.passport = {p} /\ p.names # "them"
      /\ UNCHANGED <<runtimeEnv, agentWallet, tokenLive, owner, document, late, changes, since, updater>>
  BY DEF Lawful, Looked, PassportKnown, Unsent, Handles, World
<1>2. /\ call' \in CallState /\ call'.at = at /\ call'.req = call.req /\ call'.sent = {}
      /\ call'.passport = call.passport /\ call'.approval = call.approval
  BY <1>1, GoesOn DEF CallPlaces
<1>3. Args' = Args
  BY <1>2 DEF Args, Effective
<1>4. /\ \A a \in call.approval : call.req.receipt = a.receipt /\ (since.late => ~a.soon)
      /\ \A p \in call.passport, r \in Args :
           /\ GrantsOf(p, Capability[r.tool]) # {}
           /\ Within(r, GrantOf(p, Capability[r.tool]))
           /\ since.late => ~GrantOf(p, Capability[r.tool]).soon
  <2>1. CASE call.at = "reserve"
    BY <2>1 DEF Lawful, Looked, Passed
  <2>2. CASE call.at = "check"
    <3>1. since.late => late
      BY <1>1, <2>2 DEF Noted
    <3>2. PICK p \in call.passport : Passes(p)
      BY <1>1, <2>2
    <3>3. \A a \in call.approval : Validated(call.req, a)
      BY <3>2 DEF Passes
    <3>4. \A a \in call.approval : call.req.receipt = a.receipt /\ (since.late => ~a.soon)
      BY <3>1, <3>3 DEF Validated, Expired
    <3>5. ASSUME NEW q \in call.passport, NEW r \in Args
          PROVE  Covers(q, r)
      <4>1. q \in DocumentRecord
        BY <1>1 DEF TypeInv, CallState
      <4>2. Granted(Parsed(q), r)
        BY <2>2 DEF Passes
      <4>3. QED BY <4>1, <4>2, PolicyCovers
    <3>6. QED BY <3>1, <3>4, <3>5 DEF Covers
  <2>3. QED BY <2>1, <2>2
<1>5. TypeInv' /\ Noted'
  BY <1>1, <1>2 DEF TypeInv, Noted
<1>6. PassportKnown' /\ Unsent'
  BY <1>1, <1>2 DEF PassportKnown, Unsent
<1>7. ApprovalKnown'
  <2>1. \/ call.req.tool \notin ByApproval /\ call.approval = {}
        \/ call.req.tool \in ByApproval /\ \E a \in ApprovalFile : call.approval = {a} /\ ForCall(a)
    BY DEF Lawful, Looked, ApprovalKnown
  <2>2. \A a \in ApprovalFile : ForCall(a) <=> ForCall(a)'
    BY <1>1, <1>2 DEF ForCall, Kept
  <2>3. QED BY <1>2, <2>1, <2>2 DEF ApprovalKnown
<1>8. Passed'
  BY <1>1, <1>2, <1>3, <1>4 DEF Passed
<1>9. RevokedMeansRefused' /\ ActsOnlyAsGranted'
  BY <1>2 DEF RevokedMeansRefused, ActsOnlyAsGranted
<1>10. QED BY <1>5, <1>6, <1>7, <1>8, <1>9 DEF Lawful, Looked

LEMMA CheckLawful ==
  ASSUME Lawful, Check
  PROVE  Lawful'
<1>1. PICK p \in call.passport :
        CallGoes(IF ~Passes(p) THEN "answered"
                 ELSE CASE call.req.tool = "request_human_approved_contract_call" -> "answered"
                        [] call.req.tool \in ByApproval -> "reserve"
                        [] OTHER -> "post")
  BY DEF Check
<1>2. call.at = "check" /\ Handles /\ call.passport = {p}
  BY DEF Check, Lawful, Looked, PassportKnown
<1>3. CallGoes("answered") \/ (Passes(p) /\ \E at \in {"reserve", "post"} : CallGoes(at))
  BY <1>1
<1>4. QED BY <1>2, <1>3, AnswersLawful, MovesOn

LEMMA ReserveLawful ==
  ASSUME Lawful, Reserve
  PROVE  Lawful'
BY AnswersLawful, MovesOn DEF Reserve

\* What is posted is what the check passed.
LEMMA PostLawful ==
  ASSUME Lawful, Post
  PROVE  Lawful'
<1>1. /\ TypeInv /\ call.at = "post" /\ Noted /\ Passed /\ since.ours
      /\ \E p \in since.documents : call.passport = {p} /\ p.names # "them"
      /\ \/ call.req.tool \notin ByApproval /\ call.approval = {}
         \/ call.req.tool \in ByApproval /\ \E a \in ApprovalFile : call.approval = {a} /\ ForCall(a)
      /\ UNCHANGED <<runtimeEnv, agentWallet, tokenLive, owner, document, late, changes, since, updater>>
  BY DEF Lawful, Looked, PassportKnown, ApprovalKnown, Handles, World, Post
<1>2. PICK r \in Args, a \in IF call.approval = {} THEN {NoRecord} ELSE call.approval :
        call' = [call EXCEPT !.at = "answered",
                             !.sent = IF Posts(runtimeEnv, r.tool) THEN {Body(r, a)} ELSE {}]
  BY DEF Post
<1>3. call.req \in CallRecord /\ ApprovalFile \subseteq ApprovalRecord /\ call.req.chain \in Nat
  BY <1>1, GovernedCallAssumption DEF TypeInv, CallState, CallRecord
<1>4. /\ r \in CallRecord /\ r.tool = call.req.tool /\ r.chain = call.req.chain
      /\ \/ call.req.tool \notin ByApproval /\ r = call.req /\ a = NoRecord
         \/ /\ call.req.tool \in ByApproval /\ a \in ApprovalFile /\ call.approval = {a}
            /\ ForCall(a) /\ r = Effective(call.req, a)
  BY <1>1, <1>3, EffectiveFields DEF Args
<1> DEFINE body == Body(r, a)
<1>5. /\ body.tool = r.tool /\ body.chain = (IF r.tool = Moves THEN AnyChain ELSE r.chain)
      /\ body.recipient = r.recipient /\ body.asset = r.asset /\ body.to = r.to
      /\ body.amount = (IF r.tool = Executes THEN Sends(a) ELSE r.amount)
      /\ body.least = (IF r.tool = Swaps THEN a.least ELSE 0)
      /\ body.contract = (IF r.tool = Executes THEN a.contract ELSE r.contract)
      /\ body.calldata = (IF r.tool = Executes THEN a.calldata ELSE "none")
  BY DEF Body
<1>6. body \in BodyRecord
  <2>1. Sends(a) \in Amounts /\ a.least \in Amounts /\ a.contract \in STRING \cup {"none"}
        /\ a.calldata \in STRING \cup {"none"}
    BY <1>3, <1>4, GovernedCallAssumption DEF NoRecord, ApprovalRecord, Sends, Missing
  <2>2. /\ r.tool \in STRING /\ r.chain \in Nat /\ r.recipient \in STRING /\ r.asset \in STRING
        /\ r.to \in STRING /\ r.amount \in Amounts /\ r.contract \in STRING
    BY <1>4 DEF CallRecord
  <2>3. QED BY <2>1, <2>2, GovernedCallAssumption DEF Body, BodyRecord, AnyChain
<1> HIDE DEF body
<1>7. /\ call' \in CallState /\ call'.at = "answered" /\ call'.req = call.req
      /\ call'.passport = call.passport /\ call'.approval = call.approval
      /\ call'.sent = IF Posts(runtimeEnv, r.tool) THEN {body} ELSE {}
  <2>1. call' = [call EXCEPT !.at = "answered",
                             !.sent = IF Posts(runtimeEnv, r.tool) THEN {body} ELSE {}]
    BY <1>2 DEF body
  <2>2. QED BY <1>1, <1>6, <2>1 DEF TypeInv, CallState, CallPlaces
<1>8. TypeInv' /\ Noted'
  BY <1>1, <1>7 DEF TypeInv, Noted
<1>9. Looked'
  BY <1>7 DEF Looked, PassportKnown, ApprovalKnown, Passed, Unsent
<1>10. PICK p \in since.documents : call.passport = {p} /\ p.names # "them"
  BY <1>1
<1> DEFINE g == GrantOf(p, Capability[r.tool])
<1>11. /\ GrantsOf(p, Capability[r.tool]) # {} /\ Within(r, g) /\ (since.late => ~g.soon)
       /\ \A x \in call.approval : call.req.receipt = x.receipt /\ (since.late => ~x.soon)
  BY <1>1, <1>2, <1>10 DEF Passed
<1> HIDE DEF g
<1>12. RevokedMeansRefused'
  <2>1. since.live /\ since.ours /\ call'.passport = {p}
    BY <1>1, <1>7, <1>10 DEF Noted
  <2>2. since.late => ~GrantOf(p, Capability[call'.req.tool]).soon
    BY <1>4, <1>7, <1>11 DEF g
  <2>3. \A x \in call'.approval : since.late => ~x.soon
    BY <1>7, <1>11
  <2>4. QED BY <1>1, <1>10, <2>1, <2>2, <2>3 DEF RevokedMeansRefused
<1>13. ActsOnlyAsGranted'
  <2> DEFINE m == IF call.req.tool \in ByApproval THEN a.method ELSE call.req.method
  <2>1. SUFFICES ASSUME Posts(runtimeEnv, r.tool)
                 PROVE  /\ m \in {call.req.method} \cup {x.method : x \in call.approval}
                        /\ r.tool \in ByApproval => AsApproved(body, m)
                        /\ AsGranted(body, m, g)
    <3>1. call'.sent = {} \/ call'.sent = {body}
      BY <1>7
    <3>2. CASE call'.sent = {}
      BY <3>2 DEF ActsOnlyAsGranted
    <3>3. CASE call'.sent = {body}
      <4>1. Posts(runtimeEnv, r.tool)
        BY <1>7, <3>3
      <4>2. /\ m \in {call'.req.method} \cup {x.method : x \in call'.approval}
            /\ body.tool \in ByApproval => AsApproved(body, m)
            /\ AsGranted(body, m, GrantOf(p, Capability[body.tool]))
            /\ GrantsOf(p, Capability[body.tool]) # {}
        BY <1>5, <1>7, <1>11, <2>1, <4>1 DEF g
      <4>3. p \in call'.passport
        BY <1>7, <1>10
      <4> HIDE DEF m
      <4>4. QED BY <1>7, <3>3, <4>2, <4>3 DEF ActsOnlyAsGranted, AsApproved, AsGranted
    <3>4. QED BY <3>1, <3>2, <3>3
  <2>2. r.chain = call.req.chain /\ body.chain \in {AnyChain, call.req.chain}
    BY <1>4, <1>5
  <2>3. CASE call.req.tool \notin ByApproval
    <3>1. r = call.req /\ m = call.req.method /\ r.tool # Executes /\ r.tool # Moves
      BY <1>4, <2>3 DEF ByApproval
    <3>2. body.amount = r.amount /\ body.recipient = r.recipient /\ body.tool = r.tool
      BY <1>5, <3>1
    <3>3. r.tool = "pay_x402_invoice" => UpTo(body.amount, g.max)
      BY <1>4, <1>11, <3>2, LimitKept DEF Within, CallRecord
    <3>4. AsGranted(body, m, g)
      BY <1>4, <1>11, <2>2, <2>3, <3>1, <3>2, <3>3 DEF AsGranted, Within
    <3>5. QED BY <1>4, <2>3, <3>1, <3>4
  <2>4. CASE call.req.tool \in ByApproval
    <3>1. /\ a \in ApprovalFile /\ call.approval = {a} /\ ForCall(a) /\ m = a.method
          /\ r.recipient = a.recipient /\ r.asset = a.asset /\ r.to = a.to
          /\ r.amount = Checked(call.req, a) /\ r.contract = a.contract /\ r.method = a.method
      BY <1>3, <1>4, <2>4, EffectiveFields
    <3>2. /\ body.amount = (IF r.tool = Executes THEN Sends(a) ELSE a.amount)
          /\ body.recipient = a.recipient /\ body.asset = a.asset
          /\ body.to = a.to /\ body.contract = a.contract /\ body.tool = r.tool
          /\ r.tool = Swaps => body.least = a.least
          /\ r.tool = Executes => body.calldata = a.calldata
      BY <1>4, <1>5, <3>1 DEF Checked
    <3>3. a.sealed /\ a.signature = "keyed"
      <4>1. r.tool \in ByApproval /\ r.tool \notin {"read_wallet_state", "pay_x402_invoice", "publish_receipt_hash"}
        BY <1>4, <2>4 DEF ByApproval, Moves, Swaps, Executes
      <4>2. runtimeEnv.secret = "long"
        BY <2>1, <4>1 DEF Posts, GovernedWritesReady
      <4>3. QED BY <3>1, <4>2 DEF ForCall, Kept
    <3>4. AsApproved(body, m)
      <4>1. a.receipt = call.req.receipt
        BY <1>11, <3>1
      <4>2. /\ a.passport = "ours" /\ a.kind = KindOf[body.tool] /\ a.id = call.req.approval
            /\ a.chain = call.req.chain
        BY <1>4, <3>1, <3>2 DEF ForCall
      <4>3. QED BY <3>1, <3>2, <3>3, <4>1, <4>2 DEF AsApproved
    <3>5. UpTo(body.amount, g.max)
      <4>1. r.amount \in Amounts /\ g.max \in Amounts /\ WithinLimit(r.amount, g.max)
        BY <1>4, <1>11, <2>4 DEF Within, CallRecord
      <4>2. CASE r.tool = Executes /\ a.value = Missing
        <5>1. body.amount = 0 /\ Number[r.amount] >= 0
          BY <1>11, <3>2, <4>2 DEF Sends, Within
        <5>2. QED BY <4>1, <5>1, NothingWithinLimit
      <4>3. CASE ~(r.tool = Executes /\ a.value = Missing)
        <5>1. body.amount = r.amount
          BY <1>4, <3>1, <3>2, <4>3 DEF Sends, Checked
        <5>2. QED BY <4>1, <5>1, LimitKept
      <4>4. QED BY <4>2, <4>3
    <3>6. AsGranted(body, m, g)
      BY <1>4, <1>11, <2>2, <2>4, <3>1, <3>2, <3>5 DEF AsGranted, Within
    <3>7. QED BY <3>1, <3>4, <3>6
  <2>5. QED BY <2>3, <2>4
<1>14. QED BY <1>8, <1>9, <1>12, <1>13 DEF Lawful

-----------------------------------------------------------------------------
(* What changes around a call *)

LEMMA WorldMoves ==
  ASSUME Lawful, UNCHANGED <<runtimeEnv, agentWallet, call>>, TypeInv',
         call.at # "answered", late => late',
         since'.live = since.live, since'.late = since.late, since.ours => since'.ours,
         since.documents \subseteq since'.documents,
         call.at # "idle" => document' \in since'.documents /\ (owner' = "us" => since'.ours)
  PROVE  Lawful'
<1>1. Noted'
  BY DEF Lawful, Noted
<1>2. PassportKnown'
  BY DEF Lawful, Looked, PassportKnown
<1>3. ApprovalKnown'
  BY DEF Lawful, Looked, ApprovalKnown, ForCall, Kept
<1>4. Args' = Args
  BY DEF Args, Effective
<1>5. Passed'
  BY <1>4 DEF Lawful, Looked, Passed
<1>6. Unsent' /\ call'.sent = {}
  BY DEF Lawful, Looked, Unsent
<1>7. RevokedMeansRefused' /\ ActsOnlyAsGranted'
  BY <1>6 DEF RevokedMeansRefused, ActsOnlyAsGranted
<1>8. QED BY <1>1, <1>2, <1>3, <1>5, <1>6, <1>7 DEF Lawful, Looked

LEMMA HistoryNotices ==
  ASSUME TypeInv, NEW d \in DocumentRecord, NEW o, Noticed(d, o)
  PROVE  /\ since' \in SinceState /\ since'.live = since.live /\ since'.late = since.late
         /\ (since.ours => since'.ours) /\ since.documents \subseteq since'.documents
         /\ call.at \in {"idle", "answered"} => since' = since
         /\ call.at \notin {"idle", "answered"} => d \in since'.documents /\ (o = "us" => since'.ours)
<1>1. CASE call.at \in {"idle", "answered"}
  BY <1>1 DEF Noticed, TypeInv
<1>2. CASE call.at \notin {"idle", "answered"}
  <2>1. since' = [since EXCEPT !.documents = since.documents \cup {d}, !.ours = since.ours \/ o = "us"]
    BY <1>2 DEF Noticed
  <2>2. (since.ours \/ o = "us") \in BOOLEAN
    OBVIOUS
  <2>3. QED BY <1>2, <2>1, <2>2 DEF TypeInv, SinceState
<1>3. QED BY <1>1, <1>2

\* The history as it is knows of the world as it is.
LEMMA SinceHolds ==
  ASSUME Lawful, since' = since, document' = document, owner' = owner, call.at # "answered"
  PROVE  call.at # "idle" => document' \in since'.documents /\ (owner' = "us" => since'.ours)
BY DEF Lawful, Noted

LEMMA ChangeLawful ==
  ASSUME Lawful, RevokeToken \/ Transfer \/ Publish \/ TimePasses \/ PlanUpdate
  PROVE  Lawful'
<1>1. /\ TypeInv /\ UNCHANGED <<runtimeEnv, agentWallet, call>> /\ call.at # "answered"
      /\ changes' \in 0 .. MaxChanges
  BY GovernedCallAssumption
  DEF Lawful, TypeInv, Change, Outside, RevokeToken, Transfer, Publish, TimePasses, PlanUpdate
<1>2. CASE RevokeToken
  <2>1. tokenLive' = FALSE /\ UNCHANGED <<owner, document, late, since, updater>>
    BY <1>2 DEF RevokeToken
  <2>2. TypeInv'
    BY <1>1, <2>1 DEF TypeInv
  <2>3. QED BY <1>1, <2>1, <2>2, SinceHolds, WorldMoves
<1>3. CASE TimePasses
  <2>1. late' = TRUE /\ UNCHANGED <<owner, document, tokenLive, since, updater>>
    BY <1>3 DEF TimePasses
  <2>2. TypeInv'
    BY <1>1, <2>1 DEF TypeInv
  <2>3. QED BY <1>1, <2>1, <2>2, SinceHolds, WorldMoves
<1>4. CASE PlanUpdate
  <2>1. UNCHANGED <<tokenLive, owner, document, late, since>>
    BY <1>4 DEF PlanUpdate
  <2>2. PICK signer \in {"us", "them"} :
          updater' = [at |-> "planned", signer |-> signer, read |-> {document}]
    BY <1>4 DEF PlanUpdate
  <2>3. TypeInv'
    BY <1>1, <2>1, <2>2 DEF TypeInv
  <2>4. QED BY <1>1, <2>1, <2>3, SinceHolds, WorldMoves
<1>5. CASE Transfer
  <2>1. /\ owner' \in {"us", "them"} /\ Noticed(document, owner')
        /\ UNCHANGED <<tokenLive, document, late, updater>>
    BY <1>5 DEF Transfer
  <2>2. /\ since' \in SinceState /\ since'.live = since.live /\ since'.late = since.late
        /\ (since.ours => since'.ours) /\ since.documents \subseteq since'.documents
        /\ call.at \notin {"idle", "answered"} =>
             document \in since'.documents /\ (owner' = "us" => since'.ours)
    BY <1>1, <2>1, HistoryNotices DEF TypeInv
  <2>3. TypeInv'
    BY <1>1, <2>1, <2>2 DEF TypeInv
  <2>4. QED BY <1>1, <2>1, <2>2, <2>3, WorldMoves
<1>6. CASE Publish
  <2>1. /\ document' \in DocumentRecord /\ Noticed(document', owner)
        /\ UNCHANGED <<tokenLive, owner, late, updater>>
    BY <1>6, GovernedCallAssumption DEF Publish
  <2>2. /\ since' \in SinceState /\ since'.live = since.live /\ since'.late = since.late
        /\ (since.ours => since'.ours) /\ since.documents \subseteq since'.documents
        /\ call.at \notin {"idle", "answered"} =>
             document' \in since'.documents /\ (owner = "us" => since'.ours)
    BY <1>1, <2>1, HistoryNotices
  <2>3. TypeInv'
    BY <1>1, <2>1, <2>2 DEF TypeInv
  <2>4. QED BY <1>1, <2>1, <2>2, <2>3, WorldMoves
<1>7. QED BY <1>2, <1>3, <1>4, <1>5, <1>6

\* The document the grant-update tool publishes is a document.
LEMMA ReadOnlyIsDocument ==
  ASSUME NEW d \in DocumentRecord
  PROVE  ReadOnlyDocument(d) \in DocumentRecord
<1>1. ReadGrant \in GrantRecord
  <2>1. "base.wallet.read" \in Capabilities
    <3>1. "read_wallet_state" \in BASE_MCP_TOOLS /\ Capability["read_wallet_state"] = "base.wallet.read"
      BY DEF BASE_MCP_TOOLS, Capability
    <3>2. QED BY <3>1 DEF Capabilities
  <2>2. QED BY <2>1, GovernedCallAssumption DEF ReadGrant, GrantRecord
<1>2. <<ReadGrant>> \in Seq(GrantRecord)
  BY <1>1
<1>3. QED BY <1>2 DEF ReadOnlyDocument, DocumentRecord

LEMMA SendUpdateLawful ==
  ASSUME Lawful, SendUpdate
  PROVE  Lawful'
<1>1. /\ TypeInv /\ UNCHANGED <<runtimeEnv, agentWallet, call, tokenLive, owner, late, changes>>
      /\ updater' = [updater EXCEPT !.at = "done"]
  BY DEF Lawful, Outside, SendUpdate
<1>2. updater' \in [at : {"idle", "planned", "done"}, signer : {"us", "them"},
                    read : SUBSET DocumentRecord]
  BY <1>1 DEF TypeInv
<1>3. CASE UNCHANGED <<document, since>>
  <2>1. TypeInv'
    BY <1>1, <1>2, <1>3 DEF TypeInv
  <2>2. CASE call.at = "answered"
    BY <1>1, <1>3, <2>1, <2>2, AnsweredStays
  <2>3. CASE call.at # "answered"
    BY <1>1, <1>3, <2>1, <2>3, SinceHolds, WorldMoves
  <2>4. QED BY <2>2, <2>3
<1>4. CASE \E d \in updater.read :
             document' = ReadOnlyDocument(d) /\ Noticed(ReadOnlyDocument(d), owner)
  <2>1. document' \in DocumentRecord /\ Noticed(document', owner)
    BY <1>1, <1>4, ReadOnlyIsDocument DEF TypeInv
  <2>2. /\ since' \in SinceState /\ since'.live = since.live /\ since'.late = since.late
        /\ (since.ours => since'.ours) /\ since.documents \subseteq since'.documents
        /\ call.at \in {"idle", "answered"} => since' = since
        /\ call.at \notin {"idle", "answered"} =>
             document' \in since'.documents /\ (owner = "us" => since'.ours)
    BY <1>1, <2>1, HistoryNotices
  <2>3. TypeInv'
    BY <1>1, <1>2, <2>1, <2>2 DEF TypeInv
  <2>4. CASE call.at = "answered"
    BY <1>1, <2>2, <2>3, <2>4, AnsweredStays
  <2>5. CASE call.at # "answered"
    BY <1>1, <2>2, <2>3, <2>5, WorldMoves
  <2>6. QED BY <2>4, <2>5
<1>5. QED BY <1>3, <1>4 DEF SendUpdate

-----------------------------------------------------------------------------
(* The call, from its arrival to its answer *)

LEMMA LawfulInit == GovernedCallInit => Lawful
<1> SUFFICES ASSUME GovernedCallInit PROVE Lawful
  OBVIOUS
<1>1. PICK r \in CallRequests : call = Calling(r)
  BY DEF GovernedCallInit
<1>2. /\ call \in CallState /\ call.at = "idle" /\ call.sent = {} /\ call.approval = {}
  BY <1>1 DEF Calling, CallState, CallPlaces
<1>3. TypeInv
  <2>1. since \in SinceState
    BY DEF GovernedCallInit, SinceState
  <2>2. updater \in [at : {"idle", "planned", "done"}, signer : {"us", "them"},
                     read : SUBSET DocumentRecord]
    BY DEF GovernedCallInit
  <2>3. runtimeEnv \in RuntimeEnvs /\ tokenLive \in BOOLEAN /\ owner \in {"us", "them"} /\ late \in BOOLEAN
    BY DEF GovernedCallInit
  <2>4. changes \in 0 .. MaxChanges /\ document \in DocumentRecord
    BY GovernedCallAssumption DEF GovernedCallInit
  <2>5. QED BY <1>2, <2>1, <2>2, <2>3, <2>4 DEF TypeInv
<1>4. Noted /\ Looked
  BY <1>2 DEF Noted, Looked, PassportKnown, ApprovalKnown, Passed, Unsent
<1>5. QED BY <1>2, <1>3, <1>4, NothingSent DEF Lawful

LEMMA LawfulStep == Lawful /\ [GovernedCallNext]_governedCallVars => Lawful'
<1> SUFFICES ASSUME Lawful, [GovernedCallNext]_governedCallVars PROVE Lawful'
  OBVIOUS
<1>1. CASE UNCHANGED governedCallVars
  <2>1. UNCHANGED <<runtimeEnv, tokenLive, owner, agentWallet, document, late, call, since, updater, changes>>
    BY <1>1 DEF governedCallVars
  <2>2. TypeInv'
    BY <2>1 DEF Lawful, TypeInv
  <2>3. CASE call.at = "answered"
    BY <2>1, <2>2, <2>3, AnsweredStays
  <2>4. CASE call.at # "answered"
    BY <2>1, <2>2, <2>4, SinceHolds, WorldMoves
  <2>5. QED BY <2>3, <2>4
<1>2. CASE GovernedCallNext
  BY <1>2, ArriveLawful, ReadOwnerLawful, ReadDocumentLawful, LookUpLawful, CheckLawful,
     ReserveLawful, PostLawful, ChangeLawful, SendUpdateLawful DEF GovernedCallNext
<1>3. QED BY <1>1, <1>2

THEOREM LawfulAlways == GovernedCallSpec => []Lawful
BY LawfulInit, LawfulStep, PTL DEF GovernedCallSpec

\* Nothing that had ended before a call arrived lets it act (app.ts: POST
\* /mcp/base): a revoked token, a passport or a document of another, a grant or
\* an approval that had expired, whatever else changes around the call.
THEOREM EndedMeansRefused == GovernedCallSpec => []RevokedMeansRefused
<1>1. Lawful => RevokedMeansRefused
  BY DEF Lawful
<1>2. QED BY <1>1, LawfulAlways, PTL

\* What is posted to Bankr is what a human approved and signed, within the grant
\* of the passport that was read (mcp-base.ts: callBaseMcpTool), for any
\* passport documents, approval files and configurations.
THEOREM GrantsBind == GovernedCallSpec => []ActsOnlyAsGranted
<1>1. Lawful => ActsOnlyAsGranted
  BY DEF Lawful
<1>2. QED BY <1>1, LawfulAlways, PTL

\* The types of a governed call.
THEOREM CallTypesHold == GovernedCallSpec => []GovernedCallTypeOK
<1>1. Lawful => GovernedCallTypeOK
  BY DEF Lawful, TypeInv, Looked, Unsent, CallState, CallPlaces, GovernedCallTypeOK
<1>2. QED BY <1>1, LawfulAlways, PTL
=============================================================================
