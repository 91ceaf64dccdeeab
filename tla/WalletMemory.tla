---------------------------- MODULE WalletMemory ----------------------------
(***************************************************************************)
(* What the gateway remembers of a wallet, in JSON files rewritten whole:  *)
(* the activity history and the stored conversations (history.ts), the      *)
(* conversations Leonardo recalls (chat/identity.ts), the hosted agent's    *)
(* counters (agents/runner.ts) and the council's log                       *)
(* (council-memory.ts, written behind council-gateway-memory-capture.ts).  *)
(*                                                                         *)
(* Every operation is one synchronous read-modify-write, so operations do  *)
(* not interleave; but a write may fail, or be cut short and leave a file  *)
(* that does not parse, and the stores treat such a file as empty.  The    *)
(* stores of two wallets are different files: one wallet is enough.        *)
(***************************************************************************)
EXTENDS Naturals, FiniteSets, Sequences, SequencesExt

CONSTANTS
  HistoryCap,        \* HISTORY_CAP (200)
  ConversationCap,   \* CONV_CAP (50)
  RecallCap,         \* MAX_CONVERSATIONS (6)
  CouncilCap,        \* CAP of the council log (1000)
  Threads,           \* conversation ids
  Prompts,           \* prompts sent to the hosted agent
  Seats,             \* the council's seats
  Captures,          \* the capture modes of the environment: "off", "isolated", "unbound"
  MaxNotes,          \* bound: history entries
  MaxSaves,          \* bound: conversation saves
  MaxTurns,          \* bound: recorded chat turns
  MaxSessions,       \* bound: council sessions
  MaxMemoryFaults    \* bound: failing writes and crashes

ASSUME WalletMemoryAssumption ==
  /\ {HistoryCap, ConversationCap, RecallCap, CouncilCap} \subseteq Nat \ {0}
  /\ {MaxNotes, MaxSaves, MaxTurns, MaxSessions, MaxMemoryFaults} \subseteq Nat
  /\ Captures \subseteq {"off", "isolated", "unbound"}

VARIABLES
  history,      \* history/<wallet>.json
  entered,      \* ghost: entries stored since the file was last unreadable
  notes,        \* ghost: entries handed to appendHistory
  stored,       \* conversations/<wallet>/: the save each readable file is from, 0 for none
  kept,         \* ghost: the save a conversation's owner relies on, 0 for none
  landed,       \* ghost: the last save of a conversation that was written
  missed,       \* ghost: the last save that failed
  saves,        \* the clock of "updated"
  recall,       \* identities/<wallet>.json
  turns,        \* ghost: the turns recorded since the file was last unreadable
  agent,        \* agents/<wallet>/meta.json
  prompting,    \* prompts the agent is working on
  answered,     \* ghost: [counted, uncounted] prompts
  panel,        \* the council session in progress
  capture,      \* the environment's capture mode
  councilLog,   \* council-memory/log.json
  sessions,     \* council sessions held
  logged,       \* ghost: the sessions logged since the file was last unreadable
  memoryFaults

historyVars == <<history, entered, notes>>
conversationsVars == <<stored, kept, landed, missed, saves>>
recallVars == <<recall, turns>>
agentVars == <<agent, prompting, answered>>
councilVars == <<panel, capture, councilLog, logged, sessions>>
memoryVars == <<historyVars, conversationsVars, recallVars, agentVars, councilVars, memoryFaults>>

(***************************************************************************)
(* Files.  A write stores what it was given; at the cost of a fault it     *)
(* does nothing, or leaves a file that does not parse.                     *)
(***************************************************************************)
Intact(list) == [ok |-> TRUE, list |-> list]
Unreadable == [ok |-> FALSE, list |-> <<>>]

Writes(file, list, spent) ==
  {[file |-> Intact(list), cost |-> 0]} \cup
  IF memoryFaults + spent < MaxMemoryFaults
  THEN {[file |-> file, cost |-> 1], [file |-> Unreadable, cost |-> 1]}
  ELSE {}

\* What a store is known to have been given, after a write that was to add x.
AfterWrite(given, w, x) ==
  IF ~w.file.ok THEN <<>> ELSE IF w.cost = 1 THEN given ELSE Append(given, x)

\* Seeded bug: one entry more than the cap.
NewestAndOneMore(list, cap) ==
  IF Len(list) > cap THEN SubSeq(list, Len(list) - cap, Len(list)) ELSE list

\* slice(-cap)
Newest(list, cap) ==
  IF Len(list) > cap THEN SubSeq(list, Len(list) - cap + 1, Len(list)) ELSE list

(***************************************************************************)
(* Seeded bugs: variants of the definitions below that the properties must *)
(* catch.                                                                  *)
(***************************************************************************)
\* The save counts its own previous version among the others.
OthersAndItself(c) == {d \in Threads : stored[d] > 0}

(***************************************************************************)
(* History.                                                                *)
(***************************************************************************)
\* appendHistory, whose failure every route but one swallows; spent is what the
\* rest of the step already cost in faults.
HistoryWrites(spent) ==
  Writes(history, Newest(Append(history.list, notes + 1), HistoryCap), spent)

Entering(w) ==
  /\ notes < MaxNotes /\ notes' = notes + 1
  /\ history' = w.file /\ entered' = AfterWrite(entered, w, notes + 1)

AppendHistory(spent) ==
  \E w \in HistoryWrites(spent) : Entering(w) /\ memoryFaults' = memoryFaults + spent + w.cost

PostHistory ==
  AppendHistory(0) /\ UNCHANGED <<conversationsVars, recallVars, agentVars, councilVars>>

(***************************************************************************)
(* Conversations.                                                          *)
(***************************************************************************)
\* listConversations without the one being stored; unreadable files are skipped.
Others(c) == {d \in Threads \ {c} : stored[d] > 0}

\* metas.slice(CONV_CAP - 1), newest first
Evicted(c) ==
  {d \in Others(c) : Cardinality({e \in Others(c) : stored[e] > stored[d]}) >= ConversationCap - 1}

\* putConversation: the old ones are removed before the new file is written.
PutConversation(c) ==
  /\ saves < MaxSaves
  /\ saves' = saves + 1
  /\ \/ /\ stored' = [d \in Threads |-> IF d = c THEN saves + 1
                                       ELSE IF d \in Evicted(c) THEN 0 ELSE stored[d]]
        /\ kept' = [kept EXCEPT ![c] = saves + 1]
        /\ landed' = [landed EXCEPT ![c] = saves + 1]
        /\ UNCHANGED <<missed, memoryFaults>>
     \/ /\ memoryFaults < MaxMemoryFaults /\ memoryFaults' = memoryFaults + 1
        /\ missed' = saves + 1 /\ UNCHANGED landed
        /\ \/ /\ \E gone \in SUBSET Evicted(c) :
                   stored' = [d \in Threads |-> IF d \in gone THEN 0 ELSE stored[d]]
              /\ UNCHANGED kept
           \/ /\ stored' = [d \in Threads |-> IF d \in Evicted(c) \cup {c} THEN 0 ELSE stored[d]]
              /\ kept' = [kept EXCEPT ![c] = 0]
  /\ UNCHANGED <<historyVars, recallVars, agentVars, councilVars>>

DeleteConversation(c) ==
  /\ kept[c] > 0 \/ stored[c] > 0
  /\ stored' = [stored EXCEPT ![c] = 0]
  /\ kept' = [kept EXCEPT ![c] = 0]
  /\ UNCHANGED <<landed, missed, saves, historyVars, recallVars, agentVars, councilVars, memoryFaults>>

(***************************************************************************)
(* What Leonardo recalls, written after a Hermes turn together with the    *)
(* history entry of the chat.                                              *)
(***************************************************************************)
BlankIdentity == [ok |-> TRUE, list |-> <<>>, visits |-> 0]

Loaded == IF recall.ok THEN recall ELSE BlankIdentity

RecordTurn(c) ==
  /\ Len(turns) < MaxTurns
  /\ \E w \in Writes(recall, Newest(Append(RemoveFirst(Loaded.list, c), c), RecallCap), 0) :
       /\ recall' = IF w.cost = 1 /\ w.file.ok THEN recall
                    ELSE [ok |-> w.file.ok, list |-> w.file.list,
                          visits |-> IF c \in Range(Loaded.list) THEN Loaded.visits
                                     ELSE Loaded.visits + 1]
       /\ turns' = AfterWrite(turns, w, c)
       /\ AppendHistory(w.cost)
  /\ UNCHANGED <<conversationsVars, agentVars, councilVars>>

(***************************************************************************)
(* The hosted agent.                                                       *)
(***************************************************************************)
\* provisionAgent: the meta file is written last, so a crash before it leaves an
\* agent that can be provisioned again; an unreadable one counts as provisioned.
Provision ==
  /\ ~agent.made
  /\ \/ agent' = [made |-> TRUE, ok |-> TRUE, prompts |-> 0] /\ UNCHANGED memoryFaults
     \/ /\ memoryFaults < MaxMemoryFaults /\ memoryFaults' = memoryFaults + 1
        /\ agent' \in {agent, [made |-> TRUE, ok |-> FALSE, prompts |-> 0]}
  /\ UNCHANGED <<prompting, answered, historyVars, conversationsVars, recallVars, councilVars>>

StartPrompt(p) ==
  /\ agent.made /\ p \notin prompting /\ notes + Cardinality(prompting) < MaxNotes
  /\ prompting' = prompting \cup {p}
  /\ UNCHANGED <<agent, answered, historyVars, conversationsVars, recallVars, councilVars, memoryFaults>>

\* promptAgent after the await: the counters are read again, then the history
\* entry is written.
PromptAnswered(p) ==
  /\ p \in prompting
  /\ prompting' = prompting \ {p}
  /\ \/ /\ agent.ok
        /\ agent' = [agent EXCEPT !.prompts = @ + 1]
        /\ answered' = [answered EXCEPT !.counted = @ + 1]
        /\ AppendHistory(0)
     \/ /\ ~agent.ok
        /\ answered' = [answered EXCEPT !.uncounted = @ + 1]
        /\ UNCHANGED agent /\ AppendHistory(0)
     \/ /\ agent.ok /\ memoryFaults < MaxMemoryFaults
        /\ agent' \in {agent, [agent EXCEPT !.ok = FALSE]}
        /\ answered' = [answered EXCEPT !.uncounted = @ + 1]
        /\ AppendHistory(1)
  /\ UNCHANGED <<conversationsVars, recallVars, councilVars>>

\* The timeout kills the subprocess, or it exits with an error.
PromptFails(p) ==
  /\ p \in prompting
  /\ prompting' = prompting \ {p}
  /\ UNCHANGED <<agent, answered, historyVars, conversationsVars, recallVars, councilVars, memoryFaults>>

(***************************************************************************)
(* The council.                                                            *)
(***************************************************************************)
NoSession == [phase |-> "none"]

\* POST /api/council/review asks one seat, /panel asks them all.
Convene ==
  /\ panel = NoSession /\ sessions < MaxSessions /\ notes < MaxNotes
  /\ \E asked \in {{s} : s \in Seats} \cup {Seats}, idea \in {"clean", "secret"} :
       panel' = [phase |-> "seats", full |-> asked = Seats, idea |-> idea,
                 verdict |-> [s \in asked |-> "pending"]]
  /\ sessions' = sessions + 1
  /\ UNCHANGED <<capture, councilLog, logged, historyVars, conversationsVars, recallVars,
                agentVars, memoryFaults>>

Pending(s) == panel # NoSession /\ s \in DOMAIN panel.verdict /\ panel.verdict[s] = "pending"

\* withTimeout: in a panel a seat that is late is replaced by a placeholder, and
\* its answer is dropped; a single review waits.
SeatSettles(s) ==
  /\ Pending(s)
  /\ \E text \in {"clean", "secret"} \cup (IF panel.full THEN {"silent"} ELSE {}) :
       panel' = [panel EXCEPT !.verdict[s] = text]
  /\ UNCHANGED <<capture, councilLog, logged, sessions, historyVars, conversationsVars,
                recallVars, agentVars, memoryFaults>>

\* A seat that throws fails the whole session: 502, and nothing is kept.
SessionFails ==
  /\ panel # NoSession
  /\ panel' = NoSession
  /\ UNCHANGED <<capture, councilLog, logged, sessions, historyVars, conversationsVars,
                recallVars, agentVars, memoryFaults>>

\* dlpHits over the idea, every verdict and the synthesis
Texts(synthesis) == {panel.idea, synthesis} \cup Range(panel.verdict)

Withdrawn(synthesis) == "secret" \in Texts(synthesis)

\* Capture that is enabled and not bound to a sandbox fails the session: 503.
CaptureRefused == capture = "unbound"

\* recordCouncil, when capture is bound to a sandbox.
LogSession(spent) ==
  IF capture = "off"
  THEN memoryFaults' = memoryFaults + spent /\ UNCHANGED <<councilLog, logged>>
  ELSE \E w \in Writes(councilLog, Newest(Append(councilLog.list, sessions), CouncilCap), spent) :
         /\ councilLog' = w.file /\ logged' = AfterWrite(logged, w, sessions)
         /\ memoryFaults' = memoryFaults + spent + w.cost

\* The route after the last seat: the DLP check, the capture mode, the history of
\* the wallet, if there is one, and the log.
Conclude ==
  /\ panel # NoSession /\ "pending" \notin Range(panel.verdict)
  /\ panel' = NoSession
  /\ \E synthesis \in (IF panel.full THEN {"clean", "secret", "silent"} ELSE {"silent"}) :
       IF Withdrawn(synthesis) \/ CaptureRefused
       THEN UNCHANGED <<councilLog, logged, historyVars, memoryFaults>>
       ELSE \/ UNCHANGED historyVars /\ LogSession(0)
            \/ \E w \in HistoryWrites(0) : Entering(w) /\ LogSession(w.cost)
  /\ UNCHANGED <<capture, sessions, conversationsVars, recallVars, agentVars>>

\* The gateway dies: what it was waiting for is lost.
Dies ==
  /\ memoryFaults < MaxMemoryFaults /\ memoryFaults' = memoryFaults + 1
  /\ prompting' = {} /\ panel' = NoSession
  /\ UNCHANGED <<agent, answered, capture, councilLog, logged, sessions, historyVars,
                conversationsVars, recallVars>>

MemoryInit ==
  /\ history = Intact(<<>>) /\ entered = <<>> /\ notes = 0
  /\ stored = [c \in Threads |-> 0] /\ kept = [c \in Threads |-> 0]
  /\ landed = [c \in Threads |-> 0] /\ missed = 0 /\ saves = 0
  /\ recall = BlankIdentity /\ turns = <<>>
  /\ agent = [made |-> FALSE, ok |-> TRUE, prompts |-> 0]
  /\ prompting = {} /\ answered = [counted |-> 0, uncounted |-> 0]
  /\ panel = NoSession /\ capture \in Captures /\ councilLog = Intact(<<>>)
  /\ logged = <<>> /\ sessions = 0
  /\ memoryFaults = 0

StoresNext ==
  \/ PostHistory
  \/ \E c \in Threads : PutConversation(c) \/ DeleteConversation(c)

RecallNext ==
  \/ \E c \in Threads : RecordTurn(c)
  \/ Provision
  \/ \E p \in Prompts : StartPrompt(p) \/ PromptAnswered(p) \/ PromptFails(p)
  \/ Dies

CouncilNext ==
  \/ Convene
  \/ \E s \in Seats : SeatSettles(s)
  \/ SessionFails
  \/ Conclude
  \/ Dies

MemoryNext == StoresNext \/ RecallNext \/ CouncilNext

MemorySpec == MemoryInit /\ [][MemoryNext]_memoryVars

(***************************************************************************)
(* Properties                                                              *)
(***************************************************************************)
\* Type invariant: files within their caps, ghosts and sessions.
MemoryTypeOK ==
  /\ history \in [ok : BOOLEAN, list : Seq(1 .. MaxNotes)] /\ notes \in 0 .. MaxNotes
  /\ Len(history.list) <= HistoryCap /\ Len(recall.list) <= RecallCap
  /\ stored \in [Threads -> 0 .. MaxSaves] /\ kept \in [Threads -> 0 .. MaxSaves]
  /\ recall \in [ok : BOOLEAN, list : Seq(Threads), visits : 0 .. MaxTurns]
  /\ agent \in [made : BOOLEAN, ok : BOOLEAN, prompts : Nat]
  /\ prompting \subseteq Prompts /\ (prompting # {} => agent.made)
  /\ capture \in Captures /\ sessions \in 0 .. MaxSessions
  /\ memoryFaults \in 0 .. MaxMemoryFaults

\* A readable history is the end of what was stored, as much of it as the cap
\* allows, and so is the council's log.
HistoryKept ==
  history.ok =>
    /\ IsSuffix(history.list, entered)
    /\ Len(history.list) = HistoryCap \/ history.list = entered

CouncilKept ==
  councilLog.ok =>
    /\ IsSuffix(councilLog.list, logged)
    /\ Len(councilLog.list) = CouncilCap \/ councilLog.list = logged

\* The conversations written since a save.
WrittenSince(save) == {d \in Threads : landed[d] > save}

\* A conversation its owner stored, did not delete and did not break by a failing
\* save of that same conversation is there as stored, unless a full cap of other
\* conversations was written since. A save that fails after it has evicted costs
\* one more: the conversation that was next to go.
ConversationsKept ==
  /\ \A c \in Threads : kept[c] > 0 =>
       \/ stored[c] = kept[c]
       \/ /\ stored[c] = 0
          /\ \/ Cardinality(WrittenSince(kept[c])) >= ConversationCap
             \/ /\ missed > kept[c]
                /\ Cardinality(WrittenSince(kept[c])) >= ConversationCap - 1
  /\ Cardinality({c \in Threads : stored[c] > 0}) <= ConversationCap

\* Leonardo recalls exactly the conversations fewer than RecallCap others were
\* active after, and no conversation is left out of the visits.
RecallKept ==
  recall.ok =>
    /\ Range(recall.list) =
         {c \in Range(turns) :
            \E i \in DOMAIN turns :
              turns[i] = c /\ Cardinality({turns[j] : j \in i + 1 .. Len(turns)} \ {c}) < RecallCap}
    /\ recall.visits >= Cardinality(Range(turns))

\* The agent's counter is the number of prompts it answered and could count.
PromptsCounted == agent.ok => agent.prompts = answered.counted

\* What the wallet's stores hold is what was stored, newest first within their
\* caps, over failing and cut-off writes and crashes (history.ts,
\* chat/identity.ts, agents/runner.ts, council-memory.ts): an entry, a recalled
\* thread or a council session goes missing only behind a cap of newer ones or
\* with the file a fault broke, a conversation also by a save that evicted it and
\* then failed.
MemoryIsKept ==
  HistoryKept /\ CouncilKept /\ ConversationsKept /\ RecallKept /\ PromptsCounted
=============================================================================
