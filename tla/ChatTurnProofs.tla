---------------------------- MODULE ChatTurnProofs ----------------------------
(***************************************************************************)
(* Proofs about ChatTurn, for any finite set of requests, any number of    *)
(* free prompts and tool rounds, any scope and tools, and any number of    *)
(* kills, failing writes, failing brains and clients that leave.           *)
(*                                                                         *)
(* First, what each action makes of the record of its request: it stays    *)
(* Good, which says what its frames, verdicts and endings have to do with  *)
(* each other. Then what a turn leaves behind, and last the free tier,     *)
(* whose invariant bounds what was promised by what is still remembered.   *)
(***************************************************************************)
EXTENDS ChatTurn, FiniteSetTheorems, TLAPS

Frames == {"free", "receipts", "text", "tool", "confirm", "safe", "error", "done"}
Places == {"new", "challenged", "admitted", "resolving", "brain",
           "streaming", "closed", "refused", "gone"}
Callings == [name : FreeTools \cup {"none"}, more : BOOLEAN]
Records ==
  [at : Places, free : BOOLEAN, left : BOOLEAN,
   calling : Callings, rounds : 0 .. MaxToolRounds, draft : Drafts,
   held : SUBSET Frames, shown : SUBSET Frames,
   verdicts : SUBSET (Verdicts \cup {"blocked"}), ended : {"no", "done", "pending", "error"}]

RecordsInv == enforced \in BOOLEAN /\ hermes \in BOOLEAN /\ req \in [Requests -> Records]

\* With the kernel in force, nothing of the answer is shown before a judgement,
\* which comes with the end of the turn.
Judgements == {"allow", "transform"}
Vetted(rec) ==
  enforced =>
    /\ rec.verdicts \cap Judgements = {} => rec.shown \cap {"text", "tool", "confirm"} = {}
    /\ rec.ended = "no" => rec.verdicts \cap Judgements = {}
    /\ "text" \in rec.shown => rec.draft # "harmful"

\* A request that becomes a record, and the others, which stay.
LEMMA BecomesStep ==
  ASSUME RecordsInv, NEW r \in Requests, NEW rec \in Records, Becomes(r, rec)
  PROVE  /\ req' \in [Requests -> Records] /\ req'[r] = rec
         /\ \A s \in Requests \ {r} : req'[s] = req[s]
BY DEF RecordsInv, Becomes

\* Tell adds frames to those shown, unless the client has left.
LEMMA TellRecord ==
  ASSUME NEW rec \in Records, NEW frames \in SUBSET Frames
  PROVE  /\ Tell(rec, frames) \in Records
         /\ rec.left => Tell(rec, frames).at = "gone" /\ Tell(rec, frames).shown = rec.shown
         /\ ~rec.left => Tell(rec, frames).at = rec.at /\ Tell(rec, frames).shown = rec.shown \cup frames
         /\ Tell(rec, frames).free = rec.free
         /\ Tell(rec, frames).left = rec.left
         /\ Tell(rec, frames).calling = rec.calling /\ Tell(rec, frames).rounds = rec.rounds
         /\ Tell(rec, frames).draft = rec.draft
         /\ Tell(rec, frames).held = rec.held
         /\ Tell(rec, frames).verdicts = rec.verdicts
         /\ Tell(rec, frames).ended = rec.ended
BY DEF Tell, Records, Places

\* Refuse closes the stream with a verdict, unless the client has left.
LEMMA RefuseRecord ==
  ASSUME NEW rec \in Records
  PROVE  /\ Refuse(rec) \in Records
         /\ Refuse(rec).at = IF rec.left THEN "gone" ELSE "closed"
         /\ Refuse(rec).shown = rec.shown \cup (IF rec.left THEN {} ELSE {"error", "done"})
         /\ Refuse(rec).verdicts = rec.verdicts \cup (IF rec.left THEN {} ELSE {"blocked"})
         /\ Refuse(rec).draft = rec.draft
         /\ Refuse(rec).free = rec.free
         /\ Refuse(rec).left = rec.left
         /\ Refuse(rec).ended = rec.ended
         /\ Refuse(rec).calling = rec.calling /\ Refuse(rec).rounds = rec.rounds
BY DEF Refuse, Records, Places, Frames

\* The places before the stream.
Before == {"new", "challenged", "admitted", "resolving", "brain", "refused"}

\* How a turn ends and what its client was told.
Accounted(rec) ==
  /\ rec.ended = "done" => "done" \in rec.shown \/ rec.left
  /\ rec.ended \in {"pending", "error"} =>
       enforced \/ {"done", "error"} \cap rec.shown # {} \/ rec.left
  /\ rec.at = "closed" => rec.ended # "no" \/ "error" \in rec.shown
  /\ "blocked" \in rec.verdicts => rec.at = "closed"
  /\ rec.at \in Before => rec.ended = "no" /\ rec.verdicts = {}
  /\ rec.calling # NoTool => rec.rounds < MaxToolRounds /\ rec.ended = "no"

\* A request never goes back to before its stream.
Advances(old, rec) ==
  /\ rec.at \in Before => old.at \in Before
  /\ rec.at = "streaming" => old.at \in Before \cup {"streaming"}
  /\ "blocked" \in rec.verdicts => old.at = "streaming" \/ "blocked" \in old.verdicts

Good(rec) == rec \in Records /\ Vetted(rec) /\ Accounted(rec)
ChatMoves(r) == \E rec \in Records : Becomes(r, rec) /\ Good(rec) /\ Advances(req[r], rec)

\* A request that only goes to another place.
LEMMA GoesMoves ==
  ASSUME RecordsInv, NEW r \in Requests, Good(req[r]), NEW at \in Places, Goes(r, at),
         at \in Before => req[r].at \in Before,
         at = "streaming" => req[r].at \in Before \cup {"streaming"},
         at = "closed" => req[r].ended # "no",
         req[r].at # "closed"
  PROVE  ChatMoves(r)
<1> DEFINE rec == [req[r] EXCEPT !.at = at]
<1>1. req[r] \in Records
  BY DEF RecordsInv
<1>2. /\ rec \in Records /\ rec.at = at /\ rec.shown = req[r].shown
      /\ rec.verdicts = req[r].verdicts /\ rec.ended = req[r].ended
      /\ rec.draft = req[r].draft /\ rec.left = req[r].left
      /\ rec.calling = req[r].calling /\ rec.rounds = req[r].rounds
  BY <1>1 DEF Records
<1>3. Becomes(r, rec)
  BY DEF Goes
<1> HIDE DEF rec
<1>4. Good(rec) /\ Advances(req[r], rec)
  BY <1>2 DEF Good, Vetted, Accounted, Advances
<1>5. QED BY <1>2, <1>3, <1>4 DEF ChatMoves

\* What happens before the stream.
LEMMA EntryMoves ==
  ASSUME RecordsInv, NEW r \in Requests, Good(req[r]),
         Enter(r) \/ Pay(r) \/ Read(r) \/ Resolve(r) \/ NoBrain(r)
  PROVE  ChatMoves(r)
<1>1. req[r] \in Records
  BY DEF RecordsInv
<1>2. ASSUME req[r].at = "new", Becomes(r, [req[r] EXCEPT !.at = "admitted", !.free = TRUE])
      PROVE  ChatMoves(r)
  <2> DEFINE rec == [req[r] EXCEPT !.at = "admitted", !.free = TRUE]
  <2>1. /\ rec \in Records /\ rec.at = "admitted" /\ rec.shown = req[r].shown
        /\ rec.verdicts = req[r].verdicts /\ rec.ended = req[r].ended
        /\ rec.draft = req[r].draft /\ rec.left = req[r].left
        /\ rec.calling = req[r].calling /\ rec.rounds = req[r].rounds
    BY <1>1 DEF Records, Places
  <2>2. Becomes(r, rec)
    BY <1>2
  <2> HIDE DEF rec
  <2>3. Good(rec) /\ Advances(req[r], rec)
    BY <1>2, <2>1 DEF Good, Vetted, Accounted, Advances, Before
  <2>4. QED BY <2>1, <2>2, <2>3 DEF ChatMoves
<1>3. CASE Enter(r)
  BY <1>2, <1>3, GoesMoves DEF Enter, Places, Before
<1>4. CASE Pay(r)
  BY <1>4, GoesMoves DEF Pay, Places, Before
<1>5. CASE Read(r)
  BY <1>5, GoesMoves DEF Read, Places, Before
<1>6. CASE Resolve(r)
  BY <1>6, GoesMoves DEF Resolve, Places, Before
<1>7. CASE NoBrain(r)
  BY <1>7, GoesMoves DEF NoBrain, Places, Before
<1>8. QED BY <1>3, <1>4, <1>5, <1>6, <1>7

\* The stream starts.
LEMMA StartMoves ==
  ASSUME RecordsInv, NEW r \in Requests, Good(req[r]), Start(r)
  PROVE  ChatMoves(r)
<1>1. req[r] \in Records /\ req[r].at = "brain"
  BY DEF RecordsInv, Start
<1>2. ASSUME NEW frames \in SUBSET {"receipts", "free"},
             Becomes(r, [req[r] EXCEPT !.at = "streaming", !.shown = frames])
      PROVE  ChatMoves(r)
  <2> DEFINE rec == [req[r] EXCEPT !.at = "streaming", !.shown = frames]
  <2>1. /\ rec \in Records /\ rec.at = "streaming" /\ rec.shown = frames
        /\ rec.verdicts = req[r].verdicts /\ rec.ended = req[r].ended
        /\ rec.draft = req[r].draft /\ rec.left = req[r].left
        /\ rec.calling = req[r].calling /\ rec.rounds = req[r].rounds
    BY <1>1 DEF Records, Places, Frames
  <2>2. Becomes(r, rec)
    BY <1>2
  <2> HIDE DEF rec
  <2>3. Good(rec) /\ Advances(req[r], rec)
    BY <1>1, <2>1 DEF Good, Vetted, Accounted, Advances, Before
  <2>4. QED BY <2>1, <2>2, <2>3 DEF ChatMoves
<1>3. Opening \in SUBSET {"receipts", "free"} /\ Opening \cup {"free"} \in SUBSET {"receipts", "free"}
  BY DEF Opening
<1>4. CASE req[r].free
  BY <1>2, <1>3, <1>4 DEF Start
<1>5. CASE ~req[r].free
  BY <1>2, <1>3, <1>5 DEF Start
<1>6. QED BY <1>4, <1>5

\* Frames that are held change nothing but what is held.
LEMMA DeliverRecord ==
  ASSUME NEW rec \in Records, NEW frames \in SUBSET Frames, enforced
  PROVE  /\ Deliver(rec, frames) \in Records
         /\ Deliver(rec, frames).at = rec.at
         /\ Deliver(rec, frames).shown = rec.shown
         /\ Deliver(rec, frames).left = rec.left
         /\ Deliver(rec, frames).draft = rec.draft
         /\ Deliver(rec, frames).verdicts = rec.verdicts
         /\ Deliver(rec, frames).ended = rec.ended
         /\ Deliver(rec, frames).calling = rec.calling /\ Deliver(rec, frames).rounds = rec.rounds
BY DEF Deliver, Records

\* A frame of the brain, with what the brain has come to.
LEMMA DeliverMoves ==
  ASSUME RecordsInv, NEW r \in Requests, Good(req[r]), InStream(r), req[r].ended = "no",
         NEW rec \in Records, NEW frames \in SUBSET Frames,
         rec.at = "streaming", rec.shown = req[r].shown, rec.left = req[r].left,
         rec.verdicts = req[r].verdicts,
         rec.ended # "no" => {"done", "error"} \cap frames # {},
         rec.ended = "done" => ~enforced /\ "done" \in frames,
         rec.calling # NoTool => rec.rounds < MaxToolRounds /\ rec.ended = "no",
         Becomes(r, Deliver(rec, frames))
  PROVE  ChatMoves(r)
<1> DEFINE after == Deliver(rec, frames)
<1>1. req[r] \in Records /\ req[r].at = "streaming" /\ req[r].ended = "no"
  BY DEF RecordsInv, Speaking, InStream
<1>2. CASE enforced
  <2>1. /\ after \in Records /\ after.at = "streaming" /\ after.shown = rec.shown
        /\ after.left = rec.left /\ after.verdicts = rec.verdicts /\ after.ended = rec.ended
        /\ after.calling = rec.calling /\ after.rounds = rec.rounds
    BY <1>2, DeliverRecord
  <2>2. Becomes(r, after)
    OBVIOUS
  <2> HIDE DEF after
  <2>3. Good(after) /\ Advances(req[r], after)
    BY <1>1, <1>2, <2>1 DEF Good, Vetted, Accounted, Advances, Before
  <2>4. QED BY <2>1, <2>2, <2>3 DEF ChatMoves
<1>3. CASE ~enforced
  <2>1. after = Tell(rec, frames)
    BY <1>3 DEF Deliver
  <2>2. /\ after \in Records /\ after.left = rec.left
        /\ after.verdicts = rec.verdicts /\ after.ended = rec.ended
        /\ after.calling = rec.calling /\ after.rounds = rec.rounds
        /\ rec.left => after.at = "gone" /\ after.shown = rec.shown
        /\ ~rec.left => after.at = rec.at /\ after.shown = rec.shown \cup frames
    BY <2>1, TellRecord
  <2>3. Becomes(r, after)
    OBVIOUS
  <2> HIDE DEF after
  <2>4. Good(after) /\ Advances(req[r], after)
    <3>1. CASE rec.left
      BY <1>1, <1>3, <2>2, <3>1 DEF Good, Vetted, Accounted, Advances, Before
    <3>2. CASE ~rec.left
      BY <1>1, <1>3, <2>2, <3>2 DEF Good, Vetted, Accounted, Advances, Before
    <3>3. QED BY <3>1, <3>2
  <2>5. QED BY <2>2, <2>3, <2>4 DEF ChatMoves
<1>4. QED BY <1>2, <1>3

\* A turn the kernel stops.
LEMMA RefuseMoves ==
  ASSUME RecordsInv, NEW r \in Requests, Good(req[r]), InStream(r), req[r].ended = "no",
         Becomes(r, Refuse(req[r]))
  PROVE  ChatMoves(r)
<1> DEFINE after == Refuse(req[r])
<1>1. req[r] \in Records
  BY DEF RecordsInv
<1>2. /\ after \in Records /\ after.draft = req[r].draft
      /\ after.left = req[r].left /\ after.ended = req[r].ended
      /\ after.calling = req[r].calling /\ after.rounds = req[r].rounds
      /\ after.at = IF req[r].left THEN "gone" ELSE "closed"
      /\ after.shown = req[r].shown \cup (IF req[r].left THEN {} ELSE {"error", "done"})
      /\ after.verdicts = req[r].verdicts \cup (IF req[r].left THEN {} ELSE {"blocked"})
  BY <1>1, RefuseRecord
<1>3. Becomes(r, after)
  OBVIOUS
<1> HIDE DEF after
<1>4. Good(after) /\ Advances(req[r], after)
  <2>1. CASE req[r].left
    BY <1>1, <1>2, <2>1 DEF Good, Vetted, Accounted, Advances, Before, InStream
  <2>2. CASE ~req[r].left
    BY <1>1, <1>2, <2>2 DEF Good, Vetted, Accounted, Advances, Before, InStream, Judgements
  <2>3. QED BY <2>1, <2>2
<1>5. QED BY <1>2, <1>3, <1>4 DEF ChatMoves

\* The actions of the stream, one by one.
LEMMA TextMoves ==
  ASSUME RecordsInv, NEW r \in Requests, Good(req[r]), Text(r)
  PROVE  ChatMoves(r)
<1>1. req[r] \in Records /\ Speaking(r)
  BY DEF RecordsInv, Text
<1>2. PICK d \in Drafts : Becomes(r, Deliver([req[r] EXCEPT !.draft = d], {"text"}))
  BY DEF Text
<1> DEFINE rec == [req[r] EXCEPT !.draft = d]
<1>3. /\ rec \in Records /\ rec.at = req[r].at /\ rec.shown = req[r].shown
      /\ rec.left = req[r].left /\ rec.verdicts = req[r].verdicts /\ rec.ended = req[r].ended
      /\ rec.calling = req[r].calling
  BY <1>1 DEF Records
<1>4. Becomes(r, Deliver(rec, {"text"}))
  BY <1>2
<1> HIDE DEF rec
<1>5. QED BY <1>1, <1>3, <1>4, DeliverMoves DEF Speaking, InStream, Frames

LEMMA ToolStartMoves ==
  ASSUME RecordsInv, NEW r \in Requests, Good(req[r]), ToolStart(r)
  PROVE  ChatMoves(r)
<1>1. /\ req[r] \in Records /\ InStream(r) /\ req[r].ended = "no"
      /\ hermes \/ req[r].rounds < MaxToolRounds
      /\ hermes => req[r].calling = NoTool \/ req[r].rounds < MaxToolRounds
  <2>1. CASE Speaking(r) /\ (hermes \/ req[r].rounds < MaxToolRounds)
    BY <2>1 DEF RecordsInv, Speaking
  <2>2. CASE BetweenTools(r)
    BY <2>2 DEF RecordsInv, BetweenTools, NoTool, Good, Accounted
  <2>3. QED BY <2>1, <2>2 DEF ToolStart
<1>2. CASE Becomes(r, Refuse(req[r]))
  BY <1>1, <1>2, RefuseMoves
<1>3. ASSUME NEW c \in Callings, c # NoTool => req[r].rounds < MaxToolRounds,
             Becomes(r, Deliver([req[r] EXCEPT !.calling = c], {"tool"}))
      PROVE  ChatMoves(r)
  <2> DEFINE rec == [req[r] EXCEPT !.calling = c]
  <2>1. /\ rec \in Records /\ rec.at = req[r].at /\ rec.shown = req[r].shown
        /\ rec.left = req[r].left /\ rec.verdicts = req[r].verdicts /\ rec.ended = req[r].ended
        /\ rec.calling = c /\ rec.rounds = req[r].rounds
    BY <1>1 DEF Records
  <2>2. Becomes(r, Deliver(rec, {"tool"}))
    BY <1>3
  <2> HIDE DEF rec
  <2>3. QED BY <1>1, <1>3, <2>1, <2>2, DeliverMoves DEF InStream, Frames
<1>4. PICK call \in Calls, more \in BOOLEAN :
        /\ call.name \in FreeTools
        /\ \/ Becomes(r, Refuse(req[r]))
           \/ Becomes(r, Deliver([req[r] EXCEPT !.calling =
                                     IF hermes THEN @ ELSE [name |-> call.name, more |-> more]],
                                 {"tool"}))
  BY DEF ToolStart
<1>5. req[r].calling \in Callings /\ [name |-> call.name, more |-> more] \in Callings
  BY <1>1, <1>4 DEF Records, Callings
<1>6. CASE hermes
  BY <1>1, <1>2, <1>3, <1>4, <1>5, <1>6
<1>7. CASE ~hermes
  BY <1>1, <1>2, <1>3, <1>4, <1>5, <1>7
<1>8. QED BY <1>6, <1>7

LEMMA ToolResultMoves ==
  ASSUME RecordsInv, NEW r \in Requests, Good(req[r]), ToolResult(r)
  PROVE  ChatMoves(r)
<1>1. /\ req[r] \in Records /\ InStream(r) /\ req[r].ended = "no"
      /\ req[r].rounds < MaxToolRounds
  BY DEF RecordsInv, ToolResult, Running, NoTool, Good, Accounted
<1> DEFINE more == req[r].calling.more
           c == [req[r].calling EXCEPT !.name = "none"]
           n == IF more THEN req[r].rounds ELSE RoundAfter(req[r].rounds)
           rec == [req[r] EXCEPT !.calling = c, !.rounds = n]
<1>2. c \in Callings /\ (~more => c = NoTool)
  <2>1. req[r].calling \in Callings
    BY <1>1 DEF Records
  <2>2. more \in BOOLEAN /\ c = [name |-> "none", more |-> more]
    BY <2>1 DEF Callings
  <2> HIDE DEF c
  <2>3. QED BY <2>2 DEF Callings, NoTool
<1>3. n \in 0 .. MaxToolRounds /\ (more => n < MaxToolRounds)
  BY <1>1, ChatTurnAssumption DEF Records, RoundAfter
<1>4. Becomes(r, Deliver(rec, {"tool"}))
  BY DEF ToolResult
<1> HIDE DEF c, n, more
<1>5. /\ rec \in Records /\ rec.at = req[r].at /\ rec.shown = req[r].shown
      /\ rec.left = req[r].left /\ rec.verdicts = req[r].verdicts /\ rec.ended = req[r].ended
      /\ rec.calling = c /\ rec.rounds = n
  BY <1>1, <1>2, <1>3 DEF Records
<1> HIDE DEF rec
<1>6. QED BY <1>1, <1>2, <1>3, <1>4, <1>5, DeliverMoves DEF InStream, Frames

LEMMA ConfirmMoves ==
  ASSUME RecordsInv, NEW r \in Requests, Good(req[r]), Confirm(r)
  PROVE  ChatMoves(r)
<1>1. req[r] \in Records /\ Speaking(r)
  BY DEF RecordsInv, Confirm
<1>2. CASE Becomes(r, Refuse(req[r]))
  BY <1>1, <1>2, RefuseMoves DEF Speaking
<1>3. CASE Becomes(r, Deliver([req[r] EXCEPT !.ended = "pending"], {"confirm", "done"}))
  <2> DEFINE rec == [req[r] EXCEPT !.ended = "pending"]
  <2>1. /\ rec \in Records /\ rec.at = req[r].at /\ rec.shown = req[r].shown
        /\ rec.left = req[r].left /\ rec.verdicts = req[r].verdicts /\ rec.ended = "pending"
        /\ rec.calling = req[r].calling
    BY <1>1 DEF Records
  <2>2. Becomes(r, Deliver(rec, {"confirm", "done"}))
    BY <1>3
  <2> HIDE DEF rec
  <2>3. QED BY <1>1, <2>1, <2>2, DeliverMoves DEF Speaking, InStream, Frames
<1>4. QED BY <1>2, <1>3 DEF Confirm

LEMMA EndInErrorMoves ==
  ASSUME RecordsInv, NEW r \in Requests, Good(req[r]), EndInError(r)
  PROVE  ChatMoves(r)
<1>1. req[r] \in Records /\ Speaking(r)
  BY DEF RecordsInv, EndInError
<1> DEFINE rec == [req[r] EXCEPT !.ended = "error"]
<1>2. /\ rec \in Records /\ rec.at = req[r].at /\ rec.shown = req[r].shown
      /\ rec.left = req[r].left /\ rec.verdicts = req[r].verdicts /\ rec.ended = "error"
      /\ rec.calling = req[r].calling
  BY <1>1 DEF Records
<1>3. Becomes(r, Deliver(rec, {"error"}))
  BY DEF EndInError
<1> HIDE DEF rec
<1>4. QED BY <1>1, <1>2, <1>3, DeliverMoves DEF Speaking, InStream, Frames

\* The route's catch: the client that is still there is told.
LEMMA StreamFailsMoves ==
  ASSUME RecordsInv, NEW r \in Requests, Good(req[r]), StreamFails(r)
  PROVE  ChatMoves(r)
<1>1. req[r] \in Records /\ req[r].at = "streaming"
  BY DEF RecordsInv, StreamFails, Speaking, InStream
<1>2. CASE req[r].left
  BY <1>1, <1>2, GoesMoves DEF StreamFails, Goes, Places, Before
<1>3. CASE ~req[r].left
  <2> DEFINE rec == [req[r] EXCEPT !.at = "closed", !.shown = @ \cup {"error"}]
  <2>1. /\ rec \in Records /\ rec.at = "closed" /\ rec.shown = req[r].shown \cup {"error"}
        /\ rec.left = req[r].left /\ rec.draft = req[r].draft
        /\ rec.verdicts = req[r].verdicts /\ rec.ended = req[r].ended
        /\ rec.calling = req[r].calling /\ rec.rounds = req[r].rounds
    BY <1>1 DEF Records, Places, Frames
  <2>2. Becomes(r, rec)
    BY <1>3 DEF StreamFails
  <2> HIDE DEF rec
  <2>3. Good(rec) /\ Advances(req[r], rec)
    BY <1>1, <2>1 DEF Good, Vetted, Accounted, Advances, Before
  <2>4. QED BY <2>1, <2>2, <2>3 DEF ChatMoves
<1>4. QED BY <1>2, <1>3

\* What is released is what was held, but text that was found harmful.
LEMMA ReleasedRecord ==
  ASSUME NEW rec \in Records, NEW v \in {"allow", "transform"}
  PROVE  /\ EndReleased(rec, v) \in Records
         /\ EndReleased(rec, v).at = rec.at
         /\ EndReleased(rec, v).left = rec.left
         /\ EndReleased(rec, v).draft = rec.draft
         /\ EndReleased(rec, v).calling = rec.calling
         /\ EndReleased(rec, v).rounds = rec.rounds
         /\ EndReleased(rec, v).ended = "done"
         /\ EndReleased(rec, v).verdicts = rec.verdicts \cup {v}
         /\ "done" \in EndReleased(rec, v).shown
         /\ v = "transform" /\ "text" \notin rec.shown => "text" \notin EndReleased(rec, v).shown
BY DEF EndReleased, Records, Frames, Verdicts

LEMMA DoneMoves ==
  ASSUME RecordsInv, NEW r \in Requests, Good(req[r]), Done(r)
  PROVE  ChatMoves(r)
<1>1. /\ req[r] \in Records /\ Speaking(r) /\ req[r].at = "streaming"
      /\ req[r].ended = "no" /\ req[r].calling = NoTool
  BY DEF RecordsInv, Done, Speaking, InStream
<1>2. CASE ~enforced
  <2> DEFINE rec == [req[r] EXCEPT !.ended = "done"]
  <2>1. /\ rec \in Records /\ rec.at = req[r].at /\ rec.shown = req[r].shown
        /\ rec.left = req[r].left /\ rec.verdicts = req[r].verdicts /\ rec.ended = "done"
        /\ rec.calling = req[r].calling
    BY <1>1 DEF Records
  <2>2. Becomes(r, Deliver(rec, {"done"}))
    BY <1>2 DEF Done, Deliver
  <2> HIDE DEF rec
  <2>3. QED BY <1>1, <1>2, <2>1, <2>2, DeliverMoves DEF Frames, Speaking, InStream
<1>3. CASE enforced /\ req[r].left
  BY <1>1, <1>3, GoesMoves DEF Done, Places, Before
<1>4. CASE enforced /\ ~req[r].left
  <2> DEFINE v == EvaluateOutput(req[r].draft = "harmful")
             after == EndReleased(req[r], v)
  <2>1. v \in {"allow", "transform"} /\ (req[r].draft = "harmful" => v = "transform")
    BY DEF EvaluateOutput
  <2>2. Becomes(r, after)
    BY <1>4 DEF Done
  <2> HIDE DEF v
  <2>3. /\ after \in Records /\ after.at = "streaming" /\ after.left = req[r].left
        /\ after.draft = req[r].draft /\ after.calling = NoTool /\ after.ended = "done"
        /\ after.verdicts = req[r].verdicts \cup {v} /\ "done" \in after.shown
        /\ v = "transform" /\ "text" \notin req[r].shown => "text" \notin after.shown
    BY <1>1, <2>1, ReleasedRecord
  <2> HIDE DEF after
  <2>4. "text" \notin req[r].shown
    BY <1>1, <1>4 DEF Good, Vetted
  <2>5. Good(after) /\ Advances(req[r], after)
    BY <1>1, <1>4, <2>1, <2>3, <2>4 DEF Good, Vetted, Accounted, Advances, Before, Judgements
  <2>6. QED BY <2>2, <2>3, <2>5 DEF ChatMoves
<1>5. QED BY <1>2, <1>3, <1>4

LEMMA CloseMoves ==
  ASSUME RecordsInv, NEW r \in Requests, Good(req[r]), Close(r)
  PROVE  ChatMoves(r)
BY GoesMoves DEF Close, Places, Before, InStream

LEMMA LeaveMoves ==
  ASSUME RecordsInv, NEW r \in Requests, Good(req[r]), Leave(r)
  PROVE  ChatMoves(r)
<1>1. req[r] \in Records /\ req[r].at = "streaming"
  BY DEF RecordsInv, Leave, InStream
<1> DEFINE rec == [req[r] EXCEPT !.left = TRUE]
<1>2. /\ rec \in Records /\ rec.at = req[r].at /\ rec.shown = req[r].shown /\ rec.left
      /\ rec.draft = req[r].draft /\ rec.verdicts = req[r].verdicts
      /\ rec.ended = req[r].ended /\ rec.calling = req[r].calling /\ rec.rounds = req[r].rounds
  BY <1>1 DEF Records
<1>3. Becomes(r, rec)
  BY DEF Leave
<1> HIDE DEF rec
<1>4. Good(rec) /\ Advances(req[r], rec)
  BY <1>1, <1>2 DEF Good, Vetted, Accounted, Advances
<1>5. QED BY <1>2, <1>3, <1>4 DEF ChatMoves

\* Every step of a request, of the page or of the handler.
StepOf(r) ==
  \/ Enter(r) \/ Pay(r) \/ Read(r) \/ Resolve(r) \/ NoBrain(r)
  \/ Serve(r) \/ Leave(r)

LEMMA RequestMoves ==
  ASSUME RecordsInv, NEW r \in Requests, Good(req[r]), StepOf(r)
  PROVE  ChatMoves(r)
BY EntryMoves, StartMoves, TextMoves, ToolStartMoves, ToolResultMoves, ConfirmMoves,
   DoneMoves, EndInErrorMoves, StreamFailsMoves, CloseMoves, LeaveMoves
   DEF StepOf, Serve, Proceeds, BrainSays

LEMMA ConfigStep ==
  ASSUME NEW r \in Requests, StepOf(r) \/ Kill \/ UNCHANGED chatTurnVars
  PROVE  UNCHANGED <<enforced, hermes>>
BY DEF StepOf, Enter, Pay, Read, Resolve, NoBrain, Serve, Proceeds, BrainSays, Start, Text,
       ToolStart, ToolResult, Confirm, Done, EndInError, StreamFails, Close, Leave, Kill,
       Config, chatTurnVars

\* A kill: the requests in flight are gone.
LEMMA KillRecords ==
  ASSUME RecordsInv, NEW r \in Requests, Kill, Good(req[r])
  PROVE  /\ req' \in [Requests -> Records]
         /\ Good(req'[r]) /\ Advances(req[r], req'[r])
<1> DEFINE gone(s) == [req[s] EXCEPT !.at = "gone"]
<1>1. ASSUME NEW s \in Requests
      PROVE  /\ gone(s) \in Records /\ gone(s).at = "gone" /\ gone(s).shown = req[s].shown
             /\ gone(s).left = req[s].left /\ gone(s).draft = req[s].draft
             /\ gone(s).verdicts = req[s].verdicts /\ gone(s).ended = req[s].ended
             /\ gone(s).calling = req[s].calling /\ gone(s).rounds = req[s].rounds
  BY DEF RecordsInv, Records, Places
<1>2. /\ req' \in [Requests -> Records]
      /\ \/ req'[r] = req[r]
         \/ req'[r] = gone(r) /\ req[r].at # "closed"
  <2>1. req' = [s \in Requests |->
               IF req[s].at \in {"new", "challenged", "refused", "closed", "gone"} THEN req[s]
               ELSE gone(s)]
    BY DEF Kill
  <2> HIDE DEF gone
  <2>2. QED BY <1>1, <2>1 DEF RecordsInv
<1>3. gone(r) \in Records /\ gone(r).at = "gone" /\ gone(r).shown = req[r].shown
      /\ gone(r).left = req[r].left /\ gone(r).draft = req[r].draft
      /\ gone(r).verdicts = req[r].verdicts /\ gone(r).ended = req[r].ended
      /\ gone(r).calling = req[r].calling /\ gone(r).rounds = req[r].rounds
  BY <1>1
<1> HIDE DEF gone
<1>4. CASE req'[r] = req[r]
  BY <1>2, <1>4 DEF Advances
<1>5. CASE req'[r] = gone(r) /\ req[r].at # "closed"
  BY <1>2, <1>3, <1>5 DEF Good, Vetted, Accounted, Advances, Before
<1>6. QED BY <1>2, <1>4, <1>5

-----------------------------------------------------------------------------
(* Frames and verdicts *)

GoodInv == RecordsInv /\ \A r \in Requests : Good(req[r])

LEMMA GoodStep == GoodInv /\ [ChatTurnNext]_chatTurnVars => GoodInv'
<1> SUFFICES ASSUME GoodInv, [ChatTurnNext]_chatTurnVars PROVE GoodInv'
  OBVIOUS
<1>1. ASSUME NEW r \in Requests, StepOf(r) PROVE GoodInv'
  <2>1. PICK rec \in Records : Becomes(r, rec) /\ Good(rec)
    BY <1>1, RequestMoves DEF GoodInv, ChatMoves
  <2>2. UNCHANGED <<enforced, hermes>>
    BY <1>1, ConfigStep
  <2>3. /\ req' \in [Requests -> Records] /\ req'[r] = rec
        /\ \A s \in Requests \ {r} : req'[s] = req[s]
    BY <2>1, BecomesStep DEF GoodInv
  <2>4. \A s \in Requests : Good(req'[s])
    BY <2>1, <2>3 DEF GoodInv
  <2>5. QED BY <2>2, <2>3, <2>4 DEF GoodInv, RecordsInv, Good, Vetted, Accounted
<1>2. CASE Kill
  <2>1. UNCHANGED <<enforced, hermes>>
    BY <1>2 DEF Kill, Config
  <2>2. ASSUME NEW r \in Requests PROVE req' \in [Requests -> Records] /\ Good(req'[r])
    BY <1>2, KillRecords DEF GoodInv
  <2>3. req' \in [Requests -> Records]
    BY <1>2, <2>2 DEF Kill
  <2>4. QED BY <2>1, <2>2, <2>3 DEF GoodInv, RecordsInv, Good, Vetted, Accounted
<1>3. CASE UNCHANGED chatTurnVars
  BY <1>3 DEF chatTurnVars, GoodInv, RecordsInv, Good, Vetted, Accounted
<1>4. QED BY <1>1, <1>2, <1>3 DEF ChatTurnNext, StepOf

LEMMA GoodInit == ChatTurnInit => GoodInv
BY ChatTurnAssumption DEF ChatTurnInit, GoodInv, RecordsInv, Good, Vetted, Accounted, New, NoTool,
   Records, Callings, Places, Drafts, Frames, Before, Verdicts, Judgements

LEMMA AlwaysGood == ChatTurnSpec => []GoodInv
BY GoodInit, GoodStep, PTL DEF ChatTurnSpec

\* With the kernel in force the client sees nothing of an answer before the
\* verdict on it (app.ts: sendOrBuffer), and harmful text never.
THEOREM VerdictComesFirst == ChatTurnSpec => []VerdictBeforeRelease
<1>1. GoodInv => VerdictBeforeRelease
  BY DEF GoodInv, Good, Vetted, Judgements, VerdictBeforeRelease
<1>2. QED BY <1>1, AlwaysGood, PTL

\* A stream that was closed has told how the turn ended, up to the endings
\* whose frames the handler holds and drops.
THEOREM TheEndIsTold == ChatTurnSpec => []EndIsTold
<1>1. GoodInv => EndIsTold
  BY DEF GoodInv, Good, Accounted, Records, EndIsTold
<1>2. QED BY <1>1, AlwaysGood, PTL

-----------------------------------------------------------------------------
(* What a turn leaves behind *)

\* Nothing is left before the stream, no answer before the stream is closed.
TraceInv ==
  \A r \in Requests :
    /\ req[r].at \in Before => r \notin charged \cup remembered \cup noted \cup recalled
    /\ req[r].at = "streaming" => r \notin remembered \cup recalled
    /\ "blocked" \in req[r].verdicts => r \notin remembered \cup recalled

LEMMA TraceStep ==
  GoodInv /\ TraceInv /\ [ChatTurnNext]_chatTurnVars => TraceInv'
<1> SUFFICES ASSUME GoodInv, TraceInv, [ChatTurnNext]_chatTurnVars PROVE TraceInv'
  OBVIOUS
<1>1. ASSUME NEW r \in Requests, StepOf(r) PROVE TraceInv'
  <2>1. PICK rec \in Records : Becomes(r, rec) /\ Good(rec) /\ Advances(req[r], rec)
    BY <1>1, RequestMoves DEF GoodInv, ChatMoves
  <2>2. /\ req' \in [Requests -> Records] /\ req'[r] = rec
        /\ \A s \in Requests \ {r} : req'[s] = req[s]
    BY <2>1, BecomesStep DEF GoodInv
  <2>3. CASE UNCHANGED <<charged, remembered, noted, recalled>>
    BY <2>1, <2>2, <2>3 DEF TraceInv, Advances
  <2>4. CASE Start(r)
    <3>1. req[r].at = "brain" /\ charged' \subseteq charged \cup {r}
      BY <2>4 DEF Start
    <3>2. UNCHANGED <<remembered, noted, recalled>>
      BY <2>4 DEF Start, records
    <3>3. req'[r].at = "streaming"
      <4>1. req[r] \in Records
        BY DEF GoodInv, RecordsInv
      <4>2. \E frames : req' = [req EXCEPT ![r] = [req[r] EXCEPT !.at = "streaming", !.shown = frames]]
        BY <2>4 DEF Start, Becomes
      <4>3. QED BY <4>1, <4>2 DEF Records, GoodInv, RecordsInv
    <3>4. QED BY <2>1, <2>2, <3>1, <3>2, <3>3 DEF TraceInv, Advances, Before
  <2>5. CASE ToolResult(r)
    <3>1. req[r].at = "streaming" /\ noted' \subseteq noted \cup {r}
      BY <2>5 DEF ToolResult, Running, InStream
    <3>2. UNCHANGED <<charged, remembered, recalled>>
      BY <2>5 DEF ToolResult, Tier
    <3>3. QED BY <2>1, <2>2, <3>1, <3>2 DEF TraceInv, Advances, Before
  <2>6. CASE Close(r)
    <3>1. /\ req[r].at = "streaming" /\ remembered' \subseteq remembered \cup {r}
          /\ recalled' \subseteq recalled \cup {r}
      BY <2>6 DEF Close, InStream
    <3>2. UNCHANGED <<charged, noted>>
      BY <2>6 DEF Close, Tier
    <3>3. req'[r].at = "closed" /\ req'[r].verdicts = req[r].verdicts
      BY <2>6 DEF Close, Goes, Becomes, GoodInv, RecordsInv, Records
    <3>4. "blocked" \notin req[r].verdicts
      BY <3>1 DEF GoodInv, Good, Accounted
    <3>5. QED BY <2>2, <3>1, <3>2, <3>3, <3>4 DEF TraceInv, Before
  <2>7. QED
    BY <1>1, <2>3, <2>4, <2>5, <2>6
    DEF StepOf, Enter, Pay, Read, Resolve, NoBrain, Serve, Proceeds, BrainSays, Text, ToolStart,
        Confirm, Done, EndInError, StreamFails, Leave, Tier, records
<1>2. CASE Kill
  <2>1. /\ UNCHANGED <<remembered, noted, recalled>>
        /\ \A r \in charged' \ charged : r \in Requests /\ req[r].at = "brain"
    BY <1>2 DEF Kill, records
  <2>2. ASSUME NEW r \in Requests
        PROVE  /\ Advances(req[r], req'[r])
               /\ req[r].at = "brain" => req'[r].at = "gone"
               /\ "blocked" \in req'[r].verdicts => "blocked" \in req[r].verdicts
               /\ req'[r].at = "streaming" => req[r].at = "streaming"
    <3>1. Advances(req[r], req'[r])
      BY <1>2, KillRecords DEF GoodInv
    <3>2. /\ req'[r].verdicts = req[r].verdicts /\ req'[r].at \in {req[r].at, "gone"}
          /\ req[r].at = "brain" => req'[r].at = "gone"
      <4>1. req[r] \in Records
        BY DEF GoodInv, RecordsInv
      <4>2. req'[r] = IF req[r].at \in {"new", "challenged", "refused", "closed", "gone"}
                      THEN req[r] ELSE [req[r] EXCEPT !.at = "gone"]
        BY <1>2 DEF Kill
      <4>3. QED BY <4>1, <4>2 DEF Records
    <3>3. QED BY <3>1, <3>2
  <2>3. QED BY <2>1, <2>2 DEF TraceInv, Advances, Before
<1>3. CASE UNCHANGED chatTurnVars
  BY <1>3 DEF chatTurnVars, records, TraceInv
<1>4. QED BY <1>1, <1>2, <1>3 DEF ChatTurnNext, StepOf

LEMMA AlwaysTraced == ChatTurnSpec => []TraceInv
<1>1. ChatTurnInit => TraceInv
  BY DEF ChatTurnInit, TraceInv
<1>2. QED BY <1>1, AlwaysGood, TraceStep, PTL DEF ChatTurnSpec

\* A refused request costs nothing, and a turn the kernel stopped leaves no
\* answer in the history or the memory of the wallet (app.ts: the returns
\* before the stream, and those inside it).
THEOREM RefusalLeavesNoTrace == ChatTurnSpec => []RefusedLeavesNoTrace
<1>1. TraceInv => RefusedLeavesNoTrace
  BY DEF TraceInv, RefusedLeavesNoTrace, Before
<1>2. QED BY <1>1, AlwaysTraced, PTL

-----------------------------------------------------------------------------
(* The free tier *)

\* Requests that were let through as a freebie and are not charged yet.
Promises == {r \in Requests : Promised(r)}

NotYetFree == \A r \in Requests : req[r].at \in {"new", "challenged"} => ~req[r].free

\* The counts and their types; what is counted was charged.
CountInv ==
  /\ charged \in SUBSET Requests /\ overlapped \in SUBSET Requests
  /\ counted \in Nat /\ countFile \in Nat /\ lostCounts \in Nat /\ chatFaults \in Nat
  /\ counted <= Cardinality(charged) /\ countFile <= Cardinality(charged)
  /\ lostCounts <= chatFaults /\ chatFaults <= MaxFaults
  /\ Promises # {} => loaded
  /\ NotYetFree

\* What was promised or charged without an overlap: once the free prompts, and
\* once more for each count that was lost; what the gateway still remembers of
\* it, in memory or in the file, covers all but the lost counts.
Owed == (charged \cup Promises) \ overlapped
Spent == charged \ overlapped

TierInv ==
  /\ Cardinality(Owed) <= Free * (1 + lostCounts)
  /\ loaded => Cardinality(Spent) <= counted + Free * lostCounts
  /\ Cardinality(Spent) <= countFile + Free * lostCounts

\* Sizes of sets of requests.
LEMMA Subset ==
  ASSUME NEW A \in SUBSET Requests, NEW B \in SUBSET A
  PROVE  /\ IsFiniteSet(A) /\ IsFiniteSet(B)
         /\ Cardinality(A) \in Nat /\ Cardinality(B) \in Nat
         /\ Cardinality(B) <= Cardinality(A)
<1>1. IsFiniteSet(A)
  BY FS_Subset, ChatTurnAssumption
<1>2. QED BY <1>1, FS_Subset, FS_CardinalityType

LEMMA OneMore ==
  ASSUME NEW A \in SUBSET Requests, NEW r \in Requests, NEW B \in SUBSET (A \cup {r})
  PROVE  /\ Cardinality(B) \in Nat /\ Cardinality(A) \in Nat
         /\ Cardinality(B) <= Cardinality(A) + 1
         /\ r \notin A => Cardinality(A \cup {r}) = Cardinality(A) + 1
<1>1. /\ IsFiniteSet(A) /\ Cardinality(A) \in Nat
      /\ Cardinality(A \cup {r}) \in Nat
      /\ Cardinality(B) \in Nat /\ Cardinality(B) <= Cardinality(A \cup {r})
  BY Subset
<1>2. Cardinality(A \cup {r}) = IF r \in A THEN Cardinality(A) ELSE Cardinality(A) + 1
  BY <1>1, FS_AddElement
<1>3. QED BY <1>1, <1>2

LEMMA Times ==
  ASSUME NEW n \in Nat
  PROVE  /\ Free * n \in Nat /\ Free * (1 + n) = Free + Free * n
         /\ Free * (n + 1) = Free + Free * n /\ Free * (1 + (n + 1)) = Free + Free * (n + 1)
BY ChatTurnAssumption

\* The kinds of step, as far as the free tier goes: nothing happens to it, a
\* request is let in, a freebie is charged, the gateway is killed.
Still ==
  /\ UNCHANGED <<charged, overlapped, lostCounts, countFile, counted, loaded>>
  /\ Promises' \subseteq Promises
  /\ chatFaults' \in {chatFaults, chatFaults + 1} /\ chatFaults' <= MaxFaults

LetIn(r) ==
  /\ UNCHANGED <<charged, lostCounts, countFile, chatFaults>>
  /\ loaded' = TRUE /\ counted' = (IF loaded THEN counted ELSE countFile)
  /\ \/ overlapped' = overlapped /\ Promises' \subseteq Promises
     \/ /\ counted' < Free /\ Promises' \subseteq Promises \cup {r}
        /\ \/ Promises = {} /\ overlapped' = overlapped
           \/ overlapped' = overlapped \cup {r}

Lost ==
  /\ countFile' \in {countFile, 0} /\ lostCounts' = lostCounts + 1
  /\ chatFaults' = chatFaults + 1 /\ chatFaults' <= MaxFaults

Charged(r) ==
  /\ r \in Promises /\ Promises' \subseteq Promises \ {r}
  /\ charged' = charged \cup {r} /\ counted' = counted + 1
  /\ UNCHANGED <<overlapped, loaded>>
  /\ \/ countFile' = counted' /\ UNCHANGED <<lostCounts, chatFaults>>
     \/ Lost

Killed ==
  /\ loaded' = FALSE /\ counted' = 0 /\ Promises' = {} /\ overlapped' = overlapped
  /\ \/ /\ UNCHANGED <<charged, countFile, lostCounts>>
        /\ chatFaults' = chatFaults + 1 /\ chatFaults' <= MaxFaults
     \/ \E r \in Promises : charged' = charged \cup {r} /\ Lost

LEMMA GoesFree ==
  ASSUME RecordsInv, NEW r \in Requests, NEW at \in Places, Goes(r, at)
  PROVE  /\ req'[r].at = at /\ req'[r].free = req[r].free
         /\ \A s \in Requests \ {r} : req'[s] = req[s]
<1>1. req[r] \in Records
  BY DEF RecordsInv
<1>2. req' = [req EXCEPT ![r] = [req[r] EXCEPT !.at = at]]
  BY DEF Goes, Becomes
<1>3. QED BY <1>1, <1>2 DEF RecordsInv, Records

LEMMA GoesStill ==
  ASSUME GoodInv, CountInv, NEW r \in Requests, NEW at \in Places, Goes(r, at),
         at \in {"new", "challenged"} => req[r].at = "new",
         at \in {"admitted", "resolving", "brain"} /\ req[r].free =>
           req[r].at \in {"admitted", "resolving", "brain"}
  PROVE  Promises' \subseteq Promises /\ NotYetFree'
BY GoesFree DEF GoodInv, CountInv, Promises, Promised, NotYetFree

LEMMA EnterLetsIn ==
  ASSUME GoodInv, CountInv, NEW r \in Requests, Enter(r)
  PROVE  LetIn(r) /\ NotYetFree'
<1>1. /\ UNCHANGED <<charged, lostCounts, countFile, chatFaults>>
      /\ loaded' = TRUE /\ counted' = (IF loaded THEN counted ELSE countFile)
  BY DEF Enter
<1>2. CASE Remaining' > 0
  <2>1. Becomes(r, [req[r] EXCEPT !.at = "admitted", !.free = TRUE])
    BY <1>2 DEF Enter
  <2>2. req[r] \in Records
    BY DEF GoodInv, RecordsInv
  <2>3. req'[r].at = "admitted" /\ \A s \in Requests \ {r} : req'[s] = req[s]
    BY <2>1, <2>2 DEF Becomes, Records, GoodInv, RecordsInv
  <2>4. Promises' \subseteq Promises \cup {r} /\ NotYetFree'
    BY <2>3 DEF Promises, Promised, NotYetFree, CountInv
  <2>5. counted' < Free
    BY <1>1, <1>2, ChatTurnAssumption DEF Remaining, CountInv
  <2>6. overlapped' = overlapped \cup {s \in {r} : \E q \in Requests : Promised(q)}
    BY <1>2 DEF Enter
  <2>7. \/ Promises = {} /\ overlapped' = overlapped
        \/ overlapped' = overlapped \cup {r}
    BY <2>6 DEF Promises
  <2>8. QED BY <1>1, <2>4, <2>5, <2>7 DEF LetIn
<1>3. CASE ~(Remaining' > 0)
  <2>1. req[r].at = "new" /\ Goes(r, "challenged") /\ overlapped' = overlapped
    BY <1>3 DEF Enter
  <2>2. Promises' \subseteq Promises /\ NotYetFree'
    BY <2>1, GoesStill DEF Places
  <2>3. QED BY <1>1, <2>1, <2>2 DEF LetIn
<1>4. QED BY <1>2, <1>3

LEMMA StartCharges ==
  ASSUME GoodInv, CountInv, NEW r \in Requests, Start(r)
  PROVE  (Charged(r) \/ Still) /\ NotYetFree'
<1>1. req[r] \in Records /\ req[r].at = "brain"
  BY DEF GoodInv, RecordsInv, Start
<1>2. req'[r].at = "streaming" /\ \A s \in Requests \ {r} : req'[s] = req[s]
  <2>1. \E frames : req' = [req EXCEPT ![r] = [req[r] EXCEPT !.at = "streaming", !.shown = frames]]
    BY DEF Start, Becomes
  <2>2. QED BY <1>1, <2>1 DEF Records, GoodInv, RecordsInv
<1>3. Promises' \subseteq Promises \ {r} /\ NotYetFree'
  BY <1>2 DEF Promises, Promised, NotYetFree, CountInv
<1>4. UNCHANGED <<overlapped, loaded>>
  BY DEF Start
<1>5. CASE req[r].free
  <2>1. counted' = counted + 1 /\ Saved(counted') /\ charged' = charged \cup {r}
    BY <1>5 DEF Start
  <2>2. \/ countFile' = counted' /\ UNCHANGED <<lostCounts, chatFaults>>
        \/ Lost
    BY <2>1, ChatTurnAssumption DEF Saved, FaultIf, Lost, CountInv
  <2>3. r \in Promises
    BY <1>1, <1>5 DEF Promises, Promised
  <2>4. QED BY <1>3, <1>4, <2>1, <2>2, <2>3 DEF Charged
<1>6. CASE ~req[r].free
  BY <1>3, <1>4, <1>6 DEF Start, Still, CountInv
<1>7. QED BY <1>5, <1>6

LEMMA OthersStill ==
  ASSUME GoodInv, CountInv, NEW r \in Requests, StepOf(r), ~Enter(r), ~Start(r)
  PROVE  Still /\ NotYetFree'
<1>1. /\ UNCHANGED <<charged, overlapped, lostCounts, countFile, counted, loaded>>
      /\ chatFaults' = chatFaults \/ \E b \in BOOLEAN : FaultIf(b)
  BY DEF StepOf, Pay, Read, Resolve, NoBrain, Serve, Proceeds, BrainSays, Text, ToolStart,
         ToolResult, Confirm, Done, EndInError, StreamFails, Close, Leave, Tier, counts
<1>2. chatFaults' \in {chatFaults, chatFaults + 1} /\ chatFaults' <= MaxFaults
  BY <1>1, ChatTurnAssumption DEF FaultIf, CountInv
<1>3. Promises' \subseteq Promises /\ NotYetFree'
  <2>1. CASE Pay(r)
    BY <2>1, GoesStill DEF Pay, Places, CountInv, NotYetFree
  <2>2. CASE Read(r)
    BY <2>2, GoesStill DEF Read, Places
  <2>3. CASE Resolve(r)
    BY <2>3, GoesStill DEF Resolve, Places
  <2>4. CASE NoBrain(r)
    BY <2>4, GoesStill DEF NoBrain, Places
  <2>5. CASE Serve(r) \/ Leave(r)
    <3>1. req[r].at = "streaming"
      BY <2>5 DEF Serve, Proceeds, BrainSays, Text, ToolStart, ToolResult, Confirm, Done,
                  EndInError, StreamFails, Close, Leave, Speaking, BetweenTools, Running, InStream
    <3>2. PICK rec \in Records : Becomes(r, rec) /\ Advances(req[r], rec)
      BY RequestMoves DEF GoodInv, ChatMoves
    <3>3. req'[r] = rec /\ \A s \in Requests \ {r} : req'[s] = req[s]
      BY <3>2, BecomesStep DEF GoodInv
    <3>4. rec.at \notin Before
      BY <3>1, <3>2 DEF Advances, Before
    <3>5. QED BY <3>3, <3>4 DEF Promises, Promised, NotYetFree, CountInv, Before
  <2>6. QED BY <2>1, <2>2, <2>3, <2>4, <2>5 DEF StepOf
<1>4. QED BY <1>1, <1>2, <1>3 DEF Still

LEMMA KillKills ==
  ASSUME GoodInv, CountInv, Kill
  PROVE  Killed /\ NotYetFree'
<1>1. ASSUME NEW r \in Requests
      PROVE  \/ /\ req'[r] = req[r]
                /\ req[r].at \in {"new", "challenged", "refused", "closed", "gone"}
             \/ req'[r].at = "gone"
  <2>1. req[r] \in Records
    BY DEF GoodInv, RecordsInv
  <2>2. req'[r] = IF req[r].at \in {"new", "challenged", "refused", "closed", "gone"}
                  THEN req[r] ELSE [req[r] EXCEPT !.at = "gone"]
    BY DEF Kill
  <2>3. QED BY <2>1, <2>2 DEF Records
<1>2. Promises' = {} /\ NotYetFree'
  BY <1>1 DEF Promises, Promised, NotYetFree, CountInv
<1>3. chatFaults' = chatFaults + 1 /\ chatFaults' <= MaxFaults
  BY ChatTurnAssumption DEF Kill, FaultIf, CountInv
<1>4. loaded' = FALSE /\ counted' = 0 /\ overlapped' = overlapped
  BY DEF Kill
<1>5. \/ UNCHANGED <<charged, countFile, lostCounts>>
      \/ \E r \in Promises : charged' = charged \cup {r} /\ Lost
  BY <1>3 DEF Kill, Lost, Promises, Promised
<1>6. QED BY <1>2, <1>3, <1>4, <1>5 DEF Killed

\* The steps of the free tier keep its books.
LEMMA StillKeeps ==
  ASSUME CountInv, TierInv, Still, NotYetFree'
  PROVE  CountInv' /\ TierInv'
<1>1. Owed' \in SUBSET Owed /\ Spent' = Spent /\ Owed \in SUBSET Requests
  BY DEF Still, Owed, Spent, CountInv, Promises
<1>2. Cardinality(Owed') <= Cardinality(Owed) /\ Cardinality(Owed') \in Nat /\ Cardinality(Owed) \in Nat
  BY <1>1, Subset
<1>3. Free * (1 + lostCounts) \in Nat
  BY ChatTurnAssumption DEF CountInv
<1>4. TierInv'
  BY <1>1, <1>2, <1>3 DEF TierInv, Still
<1>5. CountInv'
  BY DEF Still, CountInv, NotYetFree
<1>6. QED BY <1>4, <1>5

LEMMA LetInKeeps ==
  ASSUME CountInv, TierInv, NEW r \in Requests, LetIn(r), NotYetFree'
  PROVE  CountInv' /\ TierInv'
<1> DEFINE known == IF loaded THEN counted ELSE countFile
<1>1. /\ Owed \in SUBSET Requests /\ Spent \in SUBSET Requests
      /\ Spent' \in SUBSET Spent /\ charged' = charged
  BY DEF Owed, Spent, CountInv, Promises, LetIn
<1>2. /\ Cardinality(Spent') \in Nat /\ Cardinality(Spent) \in Nat /\ Cardinality(Owed) \in Nat
      /\ Cardinality(Spent') <= Cardinality(Spent)
  BY <1>1, Subset
<1>3. known \in Nat /\ Free * lostCounts \in Nat /\ Free * (1 + lostCounts) = Free + Free * lostCounts
  BY Times DEF CountInv
<1>4. Cardinality(Spent) <= known + Free * lostCounts
  BY DEF TierInv
<1>5. CountInv'
  BY DEF LetIn, CountInv, NotYetFree
<1>6. Cardinality(Owed') <= Free * (1 + lostCounts)
  <2>1. CASE Owed' \in SUBSET Owed
    <3>1. Cardinality(Owed') <= Cardinality(Owed) /\ Cardinality(Owed') \in Nat
      BY <1>1, <2>1, Subset
    <3>2. QED BY <1>2, <1>3, <3>1, ChatTurnAssumption DEF TierInv
  <2>2. CASE counted' < Free /\ Promises' \subseteq Promises \cup {r} /\ Promises = {} /\ overlapped' = overlapped
    <3>1. Owed' \in SUBSET (Spent \cup {r})
      BY <1>1, <2>2 DEF Owed, Spent
    <3>2. Cardinality(Owed') \in Nat /\ Cardinality(Owed') <= Cardinality(Spent) + 1
      BY <1>1, <3>1, OneMore
    <3>3. known < Free
      BY <2>2 DEF LetIn
    <3>4. QED BY <1>2, <1>3, <1>4, <3>2, <3>3, ChatTurnAssumption
  <2>3. QED BY <2>1, <2>2 DEF LetIn, Owed
<1>7. TierInv'
  <2>1. counted' = known /\ countFile' = countFile /\ lostCounts' = lostCounts /\ countFile \in Nat
    BY DEF LetIn, CountInv
  <2>2. Cardinality(Spent) <= countFile + Free * lostCounts
    BY DEF TierInv
  <2> HIDE DEF known
  <2>3. QED BY <1>2, <1>3, <1>4, <1>6, <2>1, <2>2 DEF TierInv
<1>8. QED BY <1>5, <1>7

\* What a charge makes of the sets and their sizes.
LEMMA ChargeSizes ==
  ASSUME CountInv, TierInv, NEW r \in Promises, r \notin charged,
         charged' = charged \cup {r}, Promises' \subseteq Promises, overlapped' = overlapped
  PROVE  /\ Cardinality(Owed') \in Nat /\ Cardinality(Owed') <= Free * (1 + lostCounts)
         /\ Cardinality(Spent') \in Nat /\ Cardinality(Spent') <= Free * (1 + lostCounts)
         /\ Cardinality(Spent) \in Nat /\ Cardinality(Spent') <= Cardinality(Spent) + 1
         /\ Cardinality(charged) \in Nat /\ Cardinality(charged') = Cardinality(charged) + 1
<1>1. /\ Owed \in SUBSET Requests /\ Spent \in SUBSET Requests /\ r \in Requests
      /\ Owed' \in SUBSET Owed /\ Spent' \in SUBSET Owed /\ Spent' \in SUBSET (Spent \cup {r})
      /\ charged \in SUBSET Requests /\ charged \cup {r} \in SUBSET (charged \cup {r})
  BY DEF Owed, Spent, CountInv, Promises
<1>2. /\ Cardinality(Owed) \in Nat /\ Cardinality(Owed') \in Nat
      /\ Cardinality(Owed') <= Cardinality(Owed)
  BY <1>1, Subset
<1>3. Cardinality(Spent') \in Nat /\ Cardinality(Spent') <= Cardinality(Owed)
  BY <1>1, Subset
<1>4. Cardinality(Spent) \in Nat /\ Cardinality(Spent') <= Cardinality(Spent) + 1
  BY <1>1, OneMore
<1>5. Cardinality(charged) \in Nat /\ Cardinality(charged') = Cardinality(charged) + 1
  BY <1>1, OneMore
<1>6. Free * (1 + lostCounts) \in Nat
  BY ChatTurnAssumption DEF CountInv
<1>7. QED BY <1>2, <1>3, <1>4, <1>5, <1>6 DEF TierInv

LEMMA ChargedKeeps ==
  ASSUME CountInv, TierInv, NEW r \in Requests, r \notin charged, Charged(r), NotYetFree'
  PROVE  CountInv' /\ TierInv'
<1>1. /\ Cardinality(Owed') \in Nat /\ Cardinality(Owed') <= Free * (1 + lostCounts)
      /\ Cardinality(Spent') \in Nat /\ Cardinality(Spent') <= Free * (1 + lostCounts)
      /\ Cardinality(Spent) \in Nat /\ Cardinality(Spent') <= Cardinality(Spent) + 1
      /\ Cardinality(charged) \in Nat /\ Cardinality(charged') = Cardinality(charged) + 1
  BY ChargeSizes DEF Charged
<1>2. loaded /\ loaded' /\ counted' = counted + 1 /\ counted \in Nat /\ countFile \in Nat
  BY DEF Charged, CountInv
<1>3. Cardinality(Spent) <= counted + Free * lostCounts
  BY <1>2 DEF TierInv
<1>4. /\ Free * lostCounts \in Nat /\ Free * (1 + lostCounts) \in Nat /\ Free * (1 + (lostCounts + 1)) \in Nat
      /\ Free * (1 + lostCounts) = Free * (lostCounts + 1)
      /\ Free * (1 + lostCounts) = Free + Free * lostCounts
      /\ Free * (1 + (lostCounts + 1)) = Free + Free * (lostCounts + 1)
      /\ Free \in Nat
  BY Times, ChatTurnAssumption DEF CountInv
<1>5. CASE countFile' = counted' /\ UNCHANGED <<lostCounts, chatFaults>>
  <2>1. TierInv'
    BY <1>1, <1>2, <1>3, <1>4, <1>5 DEF TierInv
  <2>2. CountInv'
    BY <1>1, <1>2, <1>5 DEF CountInv, Charged, NotYetFree, Promises
  <2>3. QED BY <2>1, <2>2
<1>6. CASE Lost
  <2>1. countFile' \in {countFile, 0} /\ lostCounts' = lostCounts + 1
    BY <1>6 DEF Lost
  <2>2. TierInv'
    BY <1>1, <1>2, <1>3, <1>4, <2>1 DEF TierInv
  <2>3. CountInv'
    BY <1>1, <1>2, <1>6 DEF CountInv, Charged, Lost, NotYetFree, Promises
  <2>4. QED BY <2>2, <2>3
<1>7. QED BY <1>5, <1>6 DEF Charged

LEMMA KilledKeeps ==
  ASSUME CountInv, TierInv, \A r \in Promises : r \notin charged, Killed, NotYetFree'
  PROVE  CountInv' /\ TierInv'
<1>1. CASE UNCHANGED <<charged, countFile, lostCounts>>
  <2>1. Owed' \in SUBSET Owed /\ Spent' = Spent /\ Owed \in SUBSET Requests
    BY <1>1 DEF Killed, Owed, Spent, CountInv, Promises
  <2>2. Cardinality(Owed') <= Cardinality(Owed) /\ Cardinality(Owed') \in Nat /\ Cardinality(Owed) \in Nat
    BY <2>1, Subset
  <2>3. Free * (1 + lostCounts) \in Nat
    BY ChatTurnAssumption DEF CountInv
  <2>4. TierInv'
    BY <1>1, <2>1, <2>2, <2>3 DEF TierInv, Killed
  <2>5. Cardinality(charged) \in Nat
    BY Subset DEF CountInv
  <2>6. chatFaults' = chatFaults + 1 /\ chatFaults' <= MaxFaults
    BY DEF Killed, Lost
  <2>7. CountInv'
    BY <1>1, <2>5, <2>6 DEF Killed, CountInv, NotYetFree
  <2>8. QED BY <2>4, <2>7
<1>2. ASSUME NEW r \in Promises, charged' = charged \cup {r}, Lost
      PROVE  CountInv' /\ TierInv'
  <2>1. /\ Cardinality(Owed') \in Nat /\ Cardinality(Owed') <= Free * (1 + lostCounts)
        /\ Cardinality(Spent') \in Nat /\ Cardinality(Spent') <= Free * (1 + lostCounts)
        /\ Cardinality(charged) \in Nat /\ Cardinality(charged') = Cardinality(charged) + 1
    BY <1>2, ChargeSizes DEF Killed
  <2>2. /\ Free * (1 + lostCounts) \in Nat /\ Free * (1 + (lostCounts + 1)) \in Nat
        /\ Free * (1 + lostCounts) = Free * (lostCounts + 1)
        /\ Free * (1 + (lostCounts + 1)) = Free + Free * (lostCounts + 1)
        /\ Free \in Nat
    BY Times, ChatTurnAssumption DEF CountInv
  <2>3. countFile' \in {countFile, 0} /\ lostCounts' = lostCounts + 1 /\ ~loaded' /\ countFile \in Nat
    BY <1>2 DEF Lost, Killed, CountInv
  <2>4. TierInv'
    BY <2>1, <2>2, <2>3 DEF TierInv
  <2>5. CountInv'
    BY <1>2, <2>1 DEF CountInv, Killed, Lost, NotYetFree, Promises
  <2>6. QED BY <2>4, <2>5
<1>3. QED BY <1>1, <1>2 DEF Killed

LEMMA TierStep ==
  /\ GoodInv /\ TraceInv /\ CountInv /\ TierInv /\ [ChatTurnNext]_chatTurnVars
  => CountInv' /\ TierInv'
<1> SUFFICES ASSUME GoodInv, TraceInv, CountInv, TierInv, [ChatTurnNext]_chatTurnVars
             PROVE  CountInv' /\ TierInv'
  OBVIOUS
<1>1. \A r \in Promises : r \notin charged
  BY DEF Promises, Promised, TraceInv, Before
<1>2. ASSUME NEW r \in Requests, StepOf(r)
      PROVE  CountInv' /\ TierInv'
  <2>1. CASE Enter(r)
    BY <2>1, EnterLetsIn, LetInKeeps
  <2>2. CASE Start(r)
    <3>1. (Charged(r) \/ Still) /\ NotYetFree'
      BY <2>2, StartCharges
    <3>2. CASE Charged(r)
      <4>1. r \notin charged
        BY <1>1, <3>2 DEF Charged
      <4>2. QED BY <3>1, <3>2, <4>1, ChargedKeeps
    <3>3. CASE Still
      BY <3>1, <3>3, StillKeeps
    <3>4. QED BY <3>1, <3>2, <3>3
  <2>3. CASE ~Enter(r) /\ ~Start(r)
    BY <1>2, <2>3, OthersStill, StillKeeps
  <2>4. QED BY <2>1, <2>2, <2>3
<1>3. CASE Kill
  BY <1>1, <1>3, KillKills, KilledKeeps
<1>4. CASE UNCHANGED chatTurnVars
  <2>1. Still /\ NotYetFree'
    BY <1>4 DEF chatTurnVars, counts, Still, CountInv, NotYetFree, Promises, Promised
  <2>2. QED BY <2>1, StillKeeps
<1>5. QED BY <1>2, <1>3, <1>4 DEF ChatTurnNext, StepOf

LEMMA TierInit == ChatTurnInit => CountInv /\ TierInv
<1> SUFFICES ASSUME ChatTurnInit PROVE CountInv /\ TierInv
  OBVIOUS
<1>1. Promises = {} /\ NotYetFree
  BY DEF ChatTurnInit, Promises, Promised, New, NotYetFree
<1>2. Cardinality({}) = 0
  BY FS_EmptySet
<1>3. Free * 0 = 0 /\ Free * (1 + 0) \in Nat /\ MaxFaults \in Nat
  BY ChatTurnAssumption
<1>4. charged = {} /\ Owed = {} /\ Spent = {}
  BY <1>1 DEF ChatTurnInit, Owed, Spent
<1>5. QED BY <1>1, <1>2, <1>3, <1>4 DEF ChatTurnInit, CountInv, TierInv

LEMMA AlwaysInBooks == ChatTurnSpec => [](CountInv /\ TierInv)
BY TierInit, TierStep, AlwaysGood, AlwaysTraced, PTL DEF ChatTurnSpec

\* A wallet gets its free prompts once (freebies.ts), and once more for each
\* count that was lost on its way to the file; only requests that overlap
\* between the middleware and the handler (app.ts) get more.
THEOREM FreeTierIsKept == ChatTurnSpec => []FreeTierHolds
<1>1. CountInv /\ TierInv => FreeTierHolds
  <2> SUFFICES ASSUME CountInv, TierInv PROVE FreeTierHolds
    OBVIOUS
  <2>1. /\ Spent \in SUBSET Owed /\ Owed \in SUBSET Requests
        /\ overlapped \in SUBSET Requests /\ Spent \in SUBSET Requests
        /\ charged \in SUBSET (Spent \cup overlapped)
        /\ Spent \cup overlapped \in SUBSET Requests /\ Spent \cap overlapped = {}
    BY DEF CountInv, Owed, Spent, Promises
  <2>2. /\ IsFiniteSet(Spent) /\ IsFiniteSet(overlapped)
        /\ Cardinality(Spent) \in Nat /\ Cardinality(overlapped) \in Nat
        /\ Cardinality(Owed) \in Nat /\ Cardinality(Spent) <= Cardinality(Owed)
        /\ Cardinality(charged) \in Nat /\ Cardinality(Spent \cup overlapped) \in Nat
        /\ Cardinality(charged) <= Cardinality(Spent \cup overlapped)
    BY <2>1, Subset
  <2>3. Cardinality(Spent \cup overlapped) = Cardinality(Spent) + Cardinality(overlapped)
    <3>1. /\ IsFiniteSet(Spent \cup overlapped)
          /\ Cardinality(Spent \cup overlapped) =
               Cardinality(Spent) + Cardinality(overlapped) - Cardinality(Spent \cap overlapped)
      BY <2>2, FS_Union
    <3>2. Cardinality(Spent \cap overlapped) = 0
      BY <2>1, FS_EmptySet
    <3>3. QED BY <2>2, <3>1, <3>2
  <2>4. Free * (1 + lostCounts) \in Nat
    BY ChatTurnAssumption DEF CountInv
  <2>5. QED BY <2>2, <2>3, <2>4 DEF FreeTierHolds, TierInv
<1>2. QED BY <1>1, AlwaysInBooks, PTL

-----------------------------------------------------------------------------
(* Types *)

LogInv == remembered \cup noted \cup recalled \subseteq Requests

LEMMA LogStep == LogInv /\ [ChatTurnNext]_chatTurnVars => LogInv'
BY DEF LogInv, ChatTurnNext, Enter, Pay, Read, Resolve, NoBrain, Serve, Proceeds, BrainSays,
       Start, Text, ToolStart, ToolResult, Confirm, Done, EndInError, StreamFails, Close, Leave,
       Kill, chatTurnVars, records

\* The type invariant: in particular the loop never goes over its cap of tool
\* rounds (agent.ts: MAX_TOOL_ITERATIONS) and no more is counted than there
\* were requests (freebies.ts).
THEOREM ChatTypesHold == ChatTurnSpec => []ChatTurnTypeOK
<1>1. ChatTurnInit => LogInv
  BY DEF ChatTurnInit, LogInv
<1>2. ChatTurnSpec => []LogInv
  BY <1>1, LogStep, PTL DEF ChatTurnSpec
<1>3. GoodInv /\ CountInv /\ LogInv => ChatTurnTypeOK
  <2> SUFFICES ASSUME GoodInv, CountInv, LogInv PROVE ChatTurnTypeOK
    OBVIOUS
  <2>1. /\ Cardinality(charged) \in Nat /\ Cardinality(Requests) \in Nat
        /\ Cardinality(charged) <= Cardinality(Requests)
    BY Subset DEF CountInv
  <2>2. counted \in 0 .. Cardinality(Requests) /\ countFile \in 0 .. Cardinality(Requests)
    BY <2>1 DEF CountInv
  <2>3. \A r \in Requests : req[r] \in Records
    BY DEF GoodInv, RecordsInv
  <2>4. QED BY <2>2, <2>3 DEF ChatTurnTypeOK, CountInv, LogInv, Records, Callings, Places, Frames
<1>4. QED BY <1>2, <1>3, AlwaysGood, AlwaysInBooks, PTL
=============================================================================
