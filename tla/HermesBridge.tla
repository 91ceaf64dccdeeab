----------------------------- MODULE HermesBridge -----------------------------
(***************************************************************************)
(* Chat turns over the one Hermes bridge: runHermesTurn (hermes-acp.ts) in *)
(* the gateway serialises turns with a promise chain, writes a prompt to   *)
(* the bridge process and reads frames until the turn's done or err; the   *)
(* bridge (bridge.py) works one prompt off after the other and prints the  *)
(* frames. Frames carry no turn: which turn gets one is decided only by    *)
(* who calls nextFrame.                                                    *)
(*                                                                         *)
(* The gateway has one thread: a continuation that is due (a microtask)    *)
(* runs before the next request, timer or exit event. Lines are different: *)
(* all lines of one chunk of stdout are handled in one go, so a line may   *)
(* arrive before its reader has asked again.                               *)
(***************************************************************************)
EXTENDS SequencesExt

CONSTANTS
  Turns,            \* calls of runHermesTurn
  InitLoop,         \* the loop of ensureBridge that waits for "ready"
  MaxBacklog,       \* bound: text frames are printed below this many unread
  MaxErrors,        \* bound: turns that end in a bridge-side error
  MaxExits          \* bound: bridge processes that exit

ASSUME ConstantsAssumption ==
  /\ InitLoop \notin Turns
  /\ MaxBacklog \in Nat /\ MaxErrors \in Nat /\ MaxExits \in Nat

VARIABLES
  pc,               \* where each turn, and the init loop, is
  starters,         \* turns that await the promise of ensureBridge
  queue,            \* turnLock: the holder, then the turns that await it
  ready,            \* the module's promise: "null" or its state
  waiters,          \* lineWaiters, by the reader that pushed them
  pending,          \* frames that arrived with no waiter
  child,            \* the bridge process; "none" is proc = null
  stdin,            \* prompts written and not read
  working,          \* the prompt the bridge is on, if any
  straggling,       \* turns the agent goes on with after the bridge gave up
  wire,             \* lines printed and not yet read by the gateway
  read,             \* history: <<turn, whose frame it was given>>
  errors, exits

gateway == <<starters, queue, ready, waiters, pending, read>>
bridge == <<child, stdin, working, straggling, errors, exits>>
vars == <<pc, gateway, bridge, wire>>

Readers == Turns \cup {InitLoop}
Ended == {"done", "error", "failed", "cut"}
Frame == [kind : {"ready", "text", "done", "err"}, of : Readers]
F(k, r) == [kind |-> k, of |-> r]
Final == {"done", "err"}

\* A reader calls nextFrame as its next step.
Asking(r) == pc[r] \in {"reading", "draining"} /\ r \notin ToSet(waiters)
\* The previous turn released the lock: the next one continues.
Awoken(t) == queue # <<>> /\ t = Head(queue) /\ pc[t] = "waiting"
\* Something is due; the consumer in app.ts pulls without an await in between.
Busy == \E r \in Readers : Asking(r) \/ pc[r] = "shown" \/ Awoken(r)

Moved(S, place) == [r \in Readers |-> IF r \in S THEN place ELSE pc[r]]

Init ==
  /\ pc = [r \in Readers |-> "idle"]
  /\ starters = <<>> /\ queue = <<>> /\ ready = "null"
  /\ waiters = <<>> /\ pending = <<>>
  /\ child = "none" /\ stdin = <<>> /\ working = {} /\ straggling = {}
  /\ wire = <<>> /\ read = {}
  /\ errors = 0 /\ exits = 0

-----------------------------------------------------------------------------
(* What a reader does with a frame. The callers change waiters, pending and  *)
(* wire.                                                                     *)

\* The promise of ensureBridge settles: every turn that awaits it continues in
\* the same run of microtasks, in order.
Settle(resolved, loop) ==
  /\ ready' = IF resolved THEN "resolved" ELSE "rejected"
  /\ queue' = IF resolved THEN queue \o starters ELSE queue
  /\ pc' = [Moved(ToSet(starters), IF resolved THEN "waiting" ELSE "failed")
              EXCEPT ![InitLoop] = loop]
  /\ starters' = <<>>

\* The init loop looks for ready or err and drops everything else; a promise
\* that has timed out stays rejected.
TakeInit(f) ==
  /\ \/ /\ f.kind \in {"ready", "err"} /\ ready = "pending"
        /\ Settle(f.kind = "ready", "idle")
     \/ /\ f.kind \in {"ready", "err"} /\ ready # "pending"
        /\ pc' = Moved({InitLoop}, "idle") /\ UNCHANGED <<ready, queue, starters>>
     \/ f.kind \notin {"ready", "err"} /\ UNCHANGED <<pc, ready, queue, starters>>
  /\ UNCHANGED read

\* The holder returns and calls release().
Ends(t, place) == pc' = Moved({t}, place) /\ queue' = Tail(queue)

TakeReading(t, f) ==
  /\ \/ f.kind = "text" /\ pc' = Moved({t}, "shown") /\ UNCHANGED queue
     \/ f.kind = "done" /\ Ends(t, "done")
     \/ f.kind = "err" /\ Ends(t, "error")
     \/ f.kind = "ready" /\ UNCHANGED <<pc, queue>>
  /\ read' = IF f.kind = "ready" THEN read ELSE read \cup {<<t, f.of>>}
  /\ UNCHANGED <<ready, starters>>

\* The bridge will still print, or has printed, the end of the turn.
Owed(t) ==
  \/ t \in working \/ t \in ToSet(stdin)
  \/ \E f \in ToSet(pending) \cup ToSet(wire) : f.of = t /\ f.kind \in Final

\* The drain ends with the turn's last frame. Its deadline is longer than the
\* bridge takes for a prompt it has begun to answer, so it passes only on a
\* drain the bridge owes nothing, or, once a straggling frame may have been
\* shown to a turn whose session is still being opened, on any.
TakeDraining(t, f) ==
  /\ \/ f.kind \in Final /\ Ends(t, "cut")
     \/ f.kind \notin Final /\ UNCHANGED <<pc, queue>>
     \/ f.kind \notin Final /\ (~Owed(t) \/ errors > 0) /\ Ends(t, "cut")
  /\ UNCHANGED <<ready, starters, read>>

Take(r, f) ==
  \/ r = InitLoop /\ TakeInit(f)
  \/ r # InitLoop /\ pc[r] = "reading" /\ TakeReading(r, f)
  \/ r # InitLoop /\ pc[r] = "draining" /\ TakeDraining(r, f)

-----------------------------------------------------------------------------
(* Seeded bugs: variants of the actions below that the properties must catch. *)

\* nextFrame waits for a new line even when frames are queued.
NextFrameForgetful(r) ==
  /\ Asking(r)
  /\ waiters' = Append(waiters, r)
  /\ UNCHANGED <<pc, starters, queue, ready, pending, read, bridge, wire>>

\* A turn does not await its predecessor.
GrantedUnawaited(t) ==
  /\ pc[t] = "waiting"
  /\ \/ child = "none" /\ pc' = Moved({t}, "draining") /\ UNCHANGED stdin
     \/ child # "none" /\ pc' = Moved({t}, "reading") /\ stdin' = Append(stdin, t)
  /\ UNCHANGED <<gateway, child, working, straggling, errors, exits, wire>>

\* A consumer that leaves releases the lock at once: no drain.
LeaveReleasing(t) ==
  /\ pc[t] = "shown" /\ Ends(t, "cut")
  /\ UNCHANGED <<starters, ready, waiters, pending, read, bridge, wire>>

\* The two sides disagree on the name of the error frame.
FailsMisnamed(t) ==
  /\ t \in working /\ errors < MaxErrors /\ errors' = errors + 1
  /\ working' = {} /\ straggling' \in {straggling, straggling \cup {t}}
  /\ wire' = wire \o <<F("error", t), F("done", t)>>
  /\ UNCHANGED <<pc, gateway, child, stdin, exits>>

\* A turn-level failure is logged and nothing is printed.
FailsSilently(t) ==
  /\ t \in working /\ errors < MaxErrors /\ errors' = errors + 1
  /\ working' = {} /\ straggling' \in {straggling, straggling \cup {t}}
  /\ UNCHANGED <<pc, gateway, child, stdin, exits, wire>>

-----------------------------------------------------------------------------
(* The gateway *)

\* ensureBridge: the first turn spawns the bridge, later ones share its
\* promise; with the bridge up a turn queues for the lock.
Start(t) ==
  /\ ~Busy /\ pc[t] = "idle"
  /\ \/ /\ ready = "null" /\ ready' = "pending" /\ child' = "starting"
        /\ starters' = <<t>>
        /\ pc' = [pc EXCEPT ![t] = "starting", ![InitLoop] = "reading"]
        /\ UNCHANGED queue
     \/ /\ ready = "pending" /\ starters' = Append(starters, t)
        /\ pc' = Moved({t}, "starting") /\ UNCHANGED <<ready, child, queue>>
     \/ /\ ready = "resolved" /\ queue' = Append(queue, t)
        /\ pc' = Moved({t}, "waiting") /\ UNCHANGED <<ready, child, starters>>
     \/ /\ ready = "rejected" /\ pc' = Moved({t}, "failed")
        /\ UNCHANGED <<ready, child, starters, queue>>
  /\ UNCHANGED <<waiters, pending, read, stdin, working, straggling, errors,
                 exits, wire>>

\* The lock is granted: the prompt is written (to a dead process: lost), or
\* proc is null, the turn throws, and its finally block drains.
Granted(t) ==
  /\ Awoken(t)
  /\ \/ child = "none" /\ pc' = Moved({t}, "draining") /\ UNCHANGED stdin
     \/ /\ child # "none" /\ pc' = Moved({t}, "reading")
        /\ stdin' = IF child \in {"starting", "up"} THEN Append(stdin, t) ELSE stdin
  /\ UNCHANGED <<gateway, child, working, straggling, errors, exits, wire>>

\* nextFrame: a queued frame, or a place among the waiters.
NextFrame(r) ==
  /\ Asking(r)
  /\ \/ /\ pending # <<>> /\ pending' = Tail(pending) /\ Take(r, Head(pending))
        /\ UNCHANGED waiters
     \/ /\ pending = <<>> /\ waiters' = Append(waiters, r)
        /\ UNCHANGED <<pc, starters, queue, ready, pending, read>>
  /\ UNCHANGED <<bridge, wire>>

\* onLine: the oldest waiter gets the frame, or it is queued.
Line ==
  /\ wire # <<>> /\ wire' = Tail(wire)
  /\ \/ /\ waiters # <<>> /\ waiters' = Tail(waiters)
        /\ Take(Head(waiters), Head(wire)) /\ UNCHANGED pending
     \/ /\ waiters = <<>> /\ pending' = Append(pending, Head(wire))
        /\ UNCHANGED <<pc, starters, queue, ready, waiters, read>>
  /\ UNCHANGED bridge

\* The consumer pulls on, or drops the generator at a frame it was shown.
Resume(t) ==
  /\ pc[t] = "shown" /\ pc' = Moved({t}, "reading")
  /\ UNCHANGED <<gateway, bridge, wire>>
Leave(t) ==
  /\ pc[t] = "shown" /\ pc' = Moved({t}, "draining")
  /\ UNCHANGED <<gateway, bridge, wire>>

\* child.on("exit"): every waiter is given an err. The init loop fails the
\* turns that await it, a turn that was reading or draining ends.
ExitEvent ==
  /\ ~Busy /\ child = "exited" /\ child' = "none" /\ ready' = "null"
  /\ waiters' = <<>>
  /\ LET woken == ToSet(waiters)
         fail == IF InitLoop \in woken THEN ToSet(starters) ELSE {}
     IN /\ pc' = [r \in Readers |->
                    IF r \in fail THEN "failed"
                    ELSE IF r \notin woken THEN pc[r]
                    ELSE IF r = InitLoop THEN "idle"
                    ELSE IF pc[r] = "reading" THEN "error" ELSE "cut"]
        /\ starters' = IF InitLoop \in woken THEN <<>> ELSE starters
        /\ queue' = IF queue # <<>> /\ Head(queue) \in woken THEN Tail(queue) ELSE queue
  /\ UNCHANGED <<pending, read, stdin, working, straggling, errors, exits, wire>>

\* setTimeout in ensureBridge: the loop goes on waiting.
InitTimeout ==
  /\ ~Busy /\ ready = "pending" /\ Settle(FALSE, pc[InitLoop])
  /\ UNCHANGED <<waiters, pending, read, bridge, wire>>

\* child.on("error"): the process never ran and never exits.
SpawnError ==
  /\ ~Busy /\ child = "starting" /\ child' = "unspawned"
  /\ \/ ready = "pending" /\ Settle(FALSE, pc[InitLoop])
     \/ ready # "pending" /\ UNCHANGED <<pc, starters, queue, ready>>
  /\ UNCHANGED <<waiters, pending, read, stdin, working, straggling, errors,
                 exits, wire>>

-----------------------------------------------------------------------------
(* The bridge process *)

Initialized ==
  /\ child = "starting" /\ child' = "up"
  /\ wire' = Append(wire, F("ready", InitLoop))
  /\ UNCHANGED <<pc, gateway, stdin, working, straggling, errors, exits>>

\* The loop reads a line only when it is done with the one before.
Prompted ==
  /\ child = "up" /\ working = {} /\ stdin # <<>>
  /\ working' = {Head(stdin)} /\ stdin' = Tail(stdin)
  /\ UNCHANGED <<pc, gateway, child, straggling, errors, exits, wire>>

\* session_update prints text and tool frames as the agent sends them, also
\* for a prompt the bridge has given up on.
Says(t) ==
  /\ t \in working \cup straggling
  /\ Len(wire) + Len(pending) < MaxBacklog
  /\ wire' = Append(wire, F("text", t))
  /\ UNCHANGED <<pc, gateway, bridge>>

Finishes(t) ==
  /\ t \in working /\ working' = {}
  /\ wire' = Append(wire, F("done", t))
  /\ UNCHANGED <<pc, gateway, child, stdin, straggling, errors, exits>>

\* Empty text, a failing or timed-out session or prompt: err, and then done.
\* Nothing cancels a prompt that timed out.
Fails(t) ==
  /\ t \in working /\ errors < MaxErrors /\ errors' = errors + 1
  /\ working' = {} /\ straggling' \in {straggling, straggling \cup {t}}
  /\ wire' = wire \o <<F("err", t), F("done", t)>>
  /\ UNCHANGED <<pc, gateway, child, stdin, exits>>

\* The process ends; what it printed can still be read.
Exits ==
  /\ child \in {"starting", "up"} /\ exits < MaxExits
  /\ child' = "exited" /\ exits' = exits + 1
  /\ stdin' = <<>> /\ working' = {} /\ straggling' = {}
  /\ UNCHANGED <<pc, gateway, errors, wire>>

Next ==
  \/ \E t \in Turns : \/ Start(t) \/ Granted(t) \/ Resume(t) \/ Leave(t)
                      \/ Says(t) \/ Finishes(t) \/ Fails(t)
  \/ \E r \in Readers : NextFrame(r)
  \/ Line \/ ExitEvent \/ InitTimeout \/ SpawnError
  \/ Initialized \/ Prompted \/ Exits

Spec == Init /\ [][Next]_vars

\* The event loop runs what is due, a consumer pulls or leaves, the init timer
\* fires, and the bridge ends a prompt: its awaits have timeouts.
Fairness ==
  /\ \A t \in Turns : /\ WF_vars(Granted(t)) /\ WF_vars(Resume(t) \/ Leave(t))
                      /\ WF_vars(Finishes(t) \/ Fails(t))
  /\ \A r \in Readers : WF_vars(NextFrame(r))
  /\ WF_vars(Line) /\ WF_vars(ExitEvent) /\ WF_vars(InitTimeout)
  /\ WF_vars(Prompted)

FairSpec == Spec /\ Fairness

-----------------------------------------------------------------------------
(* What the bridge promises *)

TypeOK ==
  /\ pc \in [Readers -> {"idle", "starting", "waiting", "reading", "shown",
                         "draining"} \cup Ended]
  /\ starters \in Seq(Turns) /\ queue \in Seq(Turns)
  /\ ready \in {"null", "pending", "resolved", "rejected"}
  /\ waiters \in Seq(Readers) /\ pending \in Seq(Frame) /\ wire \in Seq(Frame)
  /\ child \in {"none", "starting", "up", "exited", "unspawned"}
  /\ stdin \in Seq(Turns) /\ working \subseteq Turns /\ straggling \subseteq Turns
  /\ read \subseteq Turns \X Readers
  /\ errors \in 0 .. MaxErrors /\ exits \in 0 .. MaxExits

\* A turn is given its own frames only, as long as no turn has failed in the
\* bridge and no bridge has exited: consumers that leave cost nothing, because
\* the drain keeps the lock until the turn's last frame.
OwnFramesWhenCalm ==
  errors = 0 /\ exits = 0 => \A p \in read : p[1] = p[2]

\* "the NEXT turn consumes this turn's leftover frames" is what the drain is
\* there to prevent: no turn is ever given another turn's frame.
OwnFrames == \A p \in read : p[1] = p[2]

\* "the single agent processes one prompt at a time": the gateway never hands
\* the bridge a prompt while another is unfinished, unless a turn failed or a
\* bridge exited: the frames an old bridge leaves may end a turn of the next.
OnePromptAtATime ==
  errors = 0 /\ exits = 0 => Len(stdin) + Cardinality(working) <= 1

\* Frames are queued only while nobody waits for one, so no reader sleeps
\* beside a frame it could have.
NoLostWakeup == pending # <<>> => waiters = <<>>

\* Every turn ends, also when turns fail in the bridge, consumers leave and
\* the bridge never becomes ready; an exit of the bridge is excepted.
TurnsEnd == \A t \in Turns : pc[t] # "idle" ~> pc[t] \in Ended \/ exits > 0

\* "in-flight turns fail cleanly instead of hanging", also when it exits.
TurnsNeverHang == \A t \in Turns : pc[t] # "idle" ~> pc[t] \in Ended
=============================================================================
