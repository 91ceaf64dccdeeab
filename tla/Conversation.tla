----------------------------- MODULE Conversation -----------------------------
(***************************************************************************)
(* What Leonardo is told of a long conversation. The chat page (page.tsx)  *)
(* holds the thread and the running summary; the gateway keeps neither. A  *)
(* turn posts both; the gateway folds an overlong thread into a new        *)
(* summary, sends that back in a compaction frame, and gives the model the *)
(* summary and the recent messages (compaction.ts, agent.ts); the page     *)
(* then drops the messages the summary covers.                             *)
(*                                                                         *)
(* The page reads thread, summary and conversation when a button is        *)
(* clicked and writes them when an answer is complete; in between the      *)
(* member may approve another paid tool or open another conversation. A    *)
(* message is its number, its kind and the conversation it belongs to; a   *)
(* summary is the set of numbers it covers. A tool result has the number   *)
(* of its call, as it has its tool_use_id.                                 *)
(***************************************************************************)
EXTENDS Naturals, Sequences, FiniteSets, SequencesExt

CONSTANTS
  Conversations,
  Turns,            \* turns that may be in flight together
  SoftMax,          \* SOFT_MAX_MESSAGES
  KeepRecent,       \* KEEP_RECENT
  HardMax,          \* MAX_MESSAGES
  MaxNumber,        \* bound: messages and calls of one session
  MaxMishaps        \* bound: summaries that fail, turns that break off, threads
                    \* too long in characters, conversations begun or opened

ASSUME ConversationAssumption ==
  /\ KeepRecent \in Nat \ {0} /\ SoftMax \in Nat /\ HardMax \in Nat
  /\ KeepRecent < SoftMax /\ SoftMax <= HardMax
  /\ {MaxNumber, MaxMishaps} \subseteq Nat
  /\ Conversations # {}

VARIABLES
  thread,           \* the page's history
  summary,          \* the page's summary
  conv,             \* convId
  busy,
  cards,            \* calls of the confirm cards on the page that are pending
  turn,             \* the turns in flight
  saved,            \* what the gateway has stored of each conversation
  number,           \* messages and calls numbered so far
  said,             \* history: the messages that were asked, answered, decided
  slips,            \* history: what happened that may cost memory
  mishaps

page == <<thread, summary, conv, busy, cards>>
conversationVars ==
  <<page, turn, saved, number, said, slips, mishaps>>

Message == [n : 1 .. MaxNumber, kind : {"ask", "say", "call", "result"}, of : Conversations]
Numbers(msgs) == {m.n : m \in msgs}
Of(c) == {m \in said : m.of = c}

\* An entry of the history the model is given: what it tells, and its kind.
Entry(m) == [tells |-> {m.n}, kind |-> m.kind]
Entries(msgs) == [i \in DOMAIN msgs |-> Entry(msgs[i])]
FromUser(kind) == kind \in {"ask", "result"}
Latest(n, s) == SubSeq(s, IF Len(s) > n THEN Len(s) - n + 1 ELSE 1, Len(s))

Idle == [at |-> "idle", sent |-> <<>>, prior |-> {}, of |-> "none",
         context |-> <<>>, through |-> 0]
Blank == [thread |-> <<>>, summary |-> {}]
Unsaved == thread # saved[conv].thread \/ summary # saved[conv].summary
InFlight == {t \in Turns : turn[t].at # "idle"}

ConversationInit ==
  /\ thread = <<>> /\ summary = {} /\ busy = FALSE /\ cards = {}
  /\ conv = CHOOSE c \in Conversations : TRUE
  /\ turn = [t \in Turns |-> Idle]
  /\ saved = [c \in Conversations |-> Blank]
  /\ number = 0 /\ said = {} /\ slips = {}
  /\ mishaps = 0

Slip(happens, what) == IF happens THEN {what} ELSE {}
Settled == UNCHANGED <<saved, mishaps>>
Mishap(n) == mishaps + n <= MaxMishaps /\ mishaps' = mishaps + n

-----------------------------------------------------------------------------
(* The history the model is given *)

\* splitForCompaction
Recent(msgs) == Latest(KeepRecent, msgs)
Overflow(msgs) == SubSeq(msgs, 1, Len(msgs) - Len(Recent(msgs)))

\* buildWorkingWithSummary
WithSummary(sum, recent) ==
  IF Head(recent).kind = "ask"
  THEN <<[tells |-> sum \cup {Head(recent).n}, kind |-> "ask"]>> \o Tail(Entries(recent))
  ELSE <<[tells |-> sum, kind |-> "ask"]>> \o Entries(recent)

\* clampHistory: at most HardMax entries, `over` of them cut for their size,
\* and none before the first that comes from the user.
Clamped(entries, over) ==
  LET kept == Latest(Len(Latest(HardMax, entries)) - over, entries)
      first == SelectInSeq(kept, LAMBDA e : FromUser(e.kind))
  IN IF first = 0 THEN <<>> ELSE SubSeq(kept, first, Len(kept))

Told(t) == UNION {e.tells : e \in Range(turn[t].context)}

-----------------------------------------------------------------------------
(* Seeded bugs: variants of the definitions below that the properties must catch. *)

\* The cut is one message too far.
DroppedTooFar(sent, n) == SubSeq(sent, n + (IF n > 0 THEN 2 ELSE 1), Len(sent))

\* The new summary replaces the old one.
SummariesAfresh(sent, prior, hiccup) ==
  IF ~hiccup THEN {Numbers(Range(Overflow(sent)))} ELSE {prior, {}}

\* The decision goes to the thread without the call it answers.
RoundWithoutCall(n, c) == <<[n |-> n, kind |-> "result", of |-> c]>>

-----------------------------------------------------------------------------
(* The page *)

\* The messages that the summary now covers are dropped from the front.
Dropped(sent, n) == SubSeq(sent, n + 1, Len(sent))

\* appendToolRound
Round(n, c) ==
  <<[n |-> n, kind |-> "call", of |-> c], [n |-> n, kind |-> "result", of |-> c]>>

Posted(msgs, prior, c) ==
  [Idle EXCEPT !.at = "posted", !.sent = msgs, !.prior = prior, !.of = c]

\* send()
Send(t) ==
  /\ ~busy /\ turn[t].at = "idle" /\ number < MaxNumber
  /\ LET ask == [n |-> number + 1, kind |-> "ask", of |-> conv]
     IN /\ thread' = Append(thread, ask) /\ said' = said \cup {ask}
        /\ turn' = [turn EXCEPT ![t] = Posted(thread', summary, conv)]
  /\ number' = number + 1 /\ busy' = TRUE
  /\ slips' = slips \cup Slip(InFlight # {}, "overlap")
  /\ Settled /\ UNCHANGED <<summary, conv, cards>>

\* approveConfirm, up to the await of the council: the click has seen thread,
\* summary and conversation as they are now.
Approve(t, n) ==
  /\ turn[t].at = "idle" /\ n \in cards /\ cards' = cards \ {n}
  /\ turn' = [turn EXCEPT ![t] =
                [Posted(thread \o Round(n, conv), summary, conv) EXCEPT !.at = "paying"]]
  /\ slips' = slips \cup Slip(busy \/ InFlight # {}, "overlap")
  /\ Settled /\ UNCHANGED <<thread, summary, conv, busy, number, said>>

\* The council has answered: the thread becomes what the click saw and the round.
Paid(t) ==
  /\ turn[t].at = "paying"
  /\ thread' = turn[t].sent /\ busy' = TRUE
  /\ said' = said \cup Range(Latest(2, turn[t].sent))
  /\ turn' = [turn EXCEPT ![t].at = "posted"]
  /\ Settled /\ UNCHANGED <<summary, conv, cards, number, slips>>

PaymentFails(t) ==
  /\ turn[t].at = "paying" /\ Mishap(1)
  /\ turn' = [turn EXCEPT ![t] = Idle]
  /\ UNCHANGED <<page, saved, number, said, slips>>

\* declineConfirm
Decline(n) ==
  /\ n \in cards /\ cards' = cards \ {n}
  /\ thread' = thread \o Round(n, conv)
  /\ said' = said \cup Range(Round(n, conv))
  /\ slips' = slips \cup Slip(InFlight # {}, "overlap")
  /\ Settled /\ UNCHANGED <<summary, conv, busy, turn, number>>

\* runTurn's then: the thread becomes what was sent and the answer, if any.
Settles(t, full) ==
  /\ thread' = Dropped(full, turn[t].through) /\ said' = said \cup Range(full)
  /\ busy' = FALSE /\ turn' = [turn EXCEPT ![t] = Idle]
  /\ Settled /\ UNCHANGED <<summary, conv, cards, slips>>

Answered(t) ==
  /\ turn[t].at = "composed" /\ number < MaxNumber /\ number' = number + 1
  /\ Settles(t, Append(turn[t].sent, [n |-> number', kind |-> "say", of |-> turn[t].of]))

\* A turn without text: it ended in an error frame, or said nothing.
Silent(t) ==
  /\ turn[t].at = "composed" /\ number' = number
  /\ Settles(t, turn[t].sent)

\* The turn ends with a confirm card; thread and summary stay as they are.
Confirms(t) ==
  /\ turn[t].at = "composed" /\ number < MaxNumber
  /\ number' = number + 1 /\ cards' = cards \cup {number'}
  /\ busy' = FALSE /\ turn' = [turn EXCEPT ![t] = Idle]
  /\ Settled /\ UNCHANGED <<thread, summary, conv, said, slips>>

\* sendChat rejects: before the gateway has composed, or in the stream.
BreaksOff(t) ==
  /\ turn[t].at \in {"posted", "composed"}
  /\ Mishap(1)
  /\ busy' = FALSE /\ turn' = [turn EXCEPT ![t] = Idle]
  /\ UNCHANGED <<thread, summary, conv, cards, saved, number, said, slips>>

\* newConversation and openConversation wait neither for a turn nor for the
\* autosave of the thread they replace. Cards that were pending have expired.
Visit(c, stored) ==
  /\ Mishap(1)
  /\ thread' = stored.thread /\ summary' = stored.summary
  /\ conv' = c /\ cards' = {}
  /\ slips' = slips \cup Slip(InFlight # {}, "switch") \cup Slip(Unsaved, "unsaved")
  /\ UNCHANGED <<busy, turn, saved, number, said>>

NewConversation(c) == c # conv /\ saved[c] = Blank /\ Of(c) = {} /\ Visit(c, Blank)
OpenConversation(c) == saved[c] # Blank /\ Visit(c, saved[c])

\* The debounced effect: 800 ms after the last change, unless a turn is busy.
Autosave ==
  /\ ~busy /\ thread # <<>> /\ Unsaved
  /\ saved' = [saved EXCEPT ![conv] = [thread |-> thread, summary |-> summary]]
  /\ UNCHANGED <<page, turn, number, said, slips, mishaps>>

-----------------------------------------------------------------------------
(* The gateway *)

\* The summary of summarizeOverflow, the old one if it fails, or nothing.
Summaries(sent, prior, hiccup) ==
  IF ~hiccup THEN {prior \cup Numbers(Range(Overflow(sent)))} ELSE {prior, {}}

NeedsCompaction(msgs, long) == Len(msgs) > SoftMax \/ long

\* runChatTurn up to the first call of the model. The history may be too long
\* in characters; then `over` messages too many are left after the clamp.
Composed(t, context, through) ==
  turn' = [turn EXCEPT ![t].at = "composed", ![t].prior = {}, ![t].context = context, ![t].through = through]

\* Nothing is compacted: the summary is not looked at.
ComposePlain(t) ==
  /\ turn[t].at = "posted"
  /\ \E over \in 0 .. Len(turn[t].sent) - 1 :
       /\ IF over > 0 THEN Overflow(turn[t].sent) = <<>> /\ Mishap(1)
          ELSE ~NeedsCompaction(turn[t].sent, FALSE) /\ Mishap(0)
       /\ LET context == Clamped(Entries(turn[t].sent), over)
          IN Composed(t, context, 0)
       /\ slips' = slips \cup Slip(turn[t].prior # {}, "unread") \cup Slip(over > 0, "trim")
  /\ UNCHANGED <<page, saved, number, said>>

\* The page caches the summary as soon as its frame comes.
ComposeCompacted(t) ==
  /\ turn[t].at = "posted" /\ Overflow(turn[t].sent) # <<>>
  /\ \E hiccup, long \in BOOLEAN, over \in 0 .. KeepRecent - 1 :
       /\ NeedsCompaction(turn[t].sent, long)
       /\ over > 0 => long
       /\ Mishap(IF hiccup /\ long THEN 2 ELSE IF hiccup \/ long THEN 1 ELSE 0)
       /\ slips' = slips \cup Slip(hiccup, "hiccup") \cup Slip(over > 0, "trim")
       /\ \E sum \in Summaries(turn[t].sent, turn[t].prior, hiccup) :
            LET recent == Recent(turn[t].sent)
            IN IF sum = {}
               THEN /\ Composed(t, Clamped(Entries(turn[t].sent), over), 0)
                    /\ UNCHANGED summary
               ELSE /\ Composed(t, Clamped(WithSummary(sum, recent), over), Len(Overflow(turn[t].sent)))
                    /\ summary' = sum
  /\ UNCHANGED <<thread, conv, busy, cards, saved, number, said>>

ConversationNext ==
  \/ \E t \in Turns :
       \/ Send(t) \/ Paid(t) \/ PaymentFails(t)
       \/ ComposePlain(t) \/ ComposeCompacted(t)
       \/ Answered(t) \/ Silent(t) \/ Confirms(t) \/ BreaksOff(t)
       \/ \E n \in cards : Approve(t, n)
  \/ \E n \in cards : Decline(n)
  \/ \E c \in Conversations : NewConversation(c) \/ OpenConversation(c)
  \/ Autosave

ConversationSpec == ConversationInit /\ [][ConversationNext]_conversationVars

-----------------------------------------------------------------------------
(* What a long conversation keeps *)

Composing == {t \in Turns : turn[t].at = "composed"}
Forgotten(t) == Numbers(Of(turn[t].of)) \ Told(t)

ConversationTypeOK ==
  /\ thread \in Seq(Message) /\ said \subseteq Message
  /\ cards \cup summary \subseteq 1 .. number
  /\ conv \in Conversations /\ busy \in BOOLEAN
  /\ \A t \in Turns :
       /\ turn[t].at \in {"idle", "paying", "posted", "composed"}
       /\ turn[t].sent \in Seq(Message) /\ turn[t].prior \subseteq 1 .. number
       /\ turn[t].through <= Len(turn[t].sent)
  /\ \A c \in Conversations :
       saved[c].thread \in Seq(Message) /\ saved[c].summary \subseteq 1 .. number
  /\ slips \subseteq {"unread", "hiccup", "trim", "overlap", "switch", "unsaved"}

\* "replay it so long conversations survive without re-sending (or losing) the
\* head" (page.tsx:208) is more than the code keeps: a thread that is short
\* again after it was compacted is sent with a summary nobody reads.
\* What holds: the model is told everything until a summary went
\* unread, a summariser failed, a history was too long in characters, two turns
\* overlapped, or the page left a conversation with a turn or a save under way.
ForgettingIsExplained ==
  \A t \in Composing : Forgotten(t) # {} => slips # {}

\* A tool result stands behind its call (openai.ts:48), except where it is
\* the first message the compaction, the clamp or an earlier cut has left.
OrphansOnlyAtTheCut ==
  \A t \in Composing : \A i \in DOMAIN turn[t].context :
    LET e == turn[t].context[i]
    IN e.kind = "result" =>
         \/ i > 1 /\ turn[t].context[i - 1] = [tells |-> e.tells, kind |-> "call"]
         \/ i = 1
         \/ i = 2 /\ turn[t].through > 0

\* The page loses no message of the conversation it shows, and shows none of
\* another: what the thread no longer holds, the summary covers. Two turns at
\* a time, a visit that does not wait and a failing summariser break that.
ThreadIntact ==
  /\ "switch" \notin slips => \A m \in Range(thread) : m.of = conv
  /\ slips \subseteq {"unread", "trim"} =>
       Numbers(Of(conv)) \subseteq Numbers(Range(thread)) \cup summary
=============================================================================
