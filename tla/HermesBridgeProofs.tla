-------------------------- MODULE HermesBridgeProofs --------------------------
(***************************************************************************)
(* Proofs about HermesBridge, for any number of turns, of unread frames,   *)
(* of errors and of exits.                                                 *)
(*                                                                         *)
(* As long as the bridge is calm, no turn having failed in it and none of  *)
(* its processes having exited, it is either not ready yet, and then there *)
(* is no turn on it, or ready, and then everything in the pipes, prompt    *)
(* and frames, belongs to the turn at the head of the queue, in one of     *)
(* four stages.                                                            *)
(***************************************************************************)
EXTENDS HermesBridge, FiniteSetTheorems, SequenceTheorems, TLAPS

\* Frames are queued only while nobody waits for one (hermes-acp.ts: onLine and
\* nextFrame), so no reader sleeps beside a frame it could have.
THEOREM NoWakeupIsLost == Spec => []NoLostWakeup
<1>1. Init => NoLostWakeup
  BY DEF Init, NoLostWakeup
<1>2. NoLostWakeup /\ [Next]_vars => NoLostWakeup'
  <2> SUFFICES ASSUME NoLostWakeup, [Next]_vars PROVE NoLostWakeup'
    OBVIOUS
  <2>1. CASE UNCHANGED <<waiters, pending>>
    BY <2>1 DEF NoLostWakeup
  <2>2. ASSUME NEW r \in Readers, NextFrame(r)
        PROVE  NoLostWakeup'
    BY <2>2 DEF NextFrame, NoLostWakeup
  <2>3. CASE Line
    BY <2>3 DEF Line, NoLostWakeup
  <2>4. CASE ExitEvent
    BY <2>4 DEF ExitEvent, NoLostWakeup
  <2>5. QED
    BY <2>1, <2>2, <2>3, <2>4
    DEF Next, Start, Granted, Resume, Leave, Says, Finishes, Fails, InitTimeout, SpawnError,
        Initialized, Prompted, Exits, vars, gateway
<1>3. QED BY <1>1, <1>2, PTL DEF Spec

-----------------------------------------------------------------------------
(* The frames of one turn *)

AllText(s, t) == s \in Seq(Frame) /\ \A i \in 1 .. Len(s) : s[i] = F("text", t)
EndsDone(s, t) ==
  /\ s \in Seq(Frame) /\ s # <<>>
  /\ \A i \in 1 .. Len(s) : s[i] = IF i = Len(s) THEN F("done", t) ELSE F("text", t)

LEMMA FrameOf ==
  ASSUME NEW t \in Readers, NEW k \in {"ready", "text", "done", "err"}
  PROVE  F(k, t) \in Frame /\ F(k, t).kind = k /\ F(k, t).of = t
BY DEF F, Frame

LEMMA NoText ==
  ASSUME NEW t
  PROVE  AllText(<<>>, t)
BY EmptySeq DEF AllText

LEMMA TextTail ==
  ASSUME NEW t, NEW s, AllText(s, t), s # <<>>
  PROVE  AllText(Tail(s), t) /\ Head(s) = F("text", t)
BY HeadTailProperties, EmptySeq DEF AllText

LEMMA TextAppend ==
  ASSUME NEW t \in Readers, NEW s, AllText(s, t)
  PROVE  /\ AllText(Append(s, F("text", t)), t)
         /\ EndsDone(Append(s, F("done", t)), t)
<1>1. s \in Seq(Frame) /\ \A i \in 1 .. Len(s) : s[i] = F("text", t)
  BY DEF AllText
<1>2. F("text", t) \in Frame /\ F("done", t) \in Frame
  BY FrameOf
<1>3. ASSUME NEW f \in Frame
      PROVE  /\ Append(s, f) \in Seq(Frame) /\ Append(s, f) # <<>> /\ Len(Append(s, f)) = Len(s) + 1
             /\ \A i \in 1 .. Len(s) : Append(s, f)[i] = s[i]
             /\ Append(s, f)[Len(s) + 1] = f
  BY <1>1, AppendProperties
<1>4. Len(s) \in Nat
  BY <1>1, LenProperties
<1>5. QED BY <1>1, <1>2, <1>3, <1>4 DEF AllText, EndsDone

LEMMA DoneTail ==
  ASSUME NEW t, NEW s, EndsDone(s, t)
  PROVE  \/ Head(s) = F("done", t) /\ Tail(s) = <<>>
         \/ Head(s) = F("text", t) /\ EndsDone(Tail(s), t)
<1> DEFINE tail == Tail(s)
<1>1. /\ s \in Seq(Frame) /\ s # <<>> /\ Len(s) \in Nat /\ Len(s) >= 1
      /\ Head(s) = s[1] /\ tail \in Seq(Frame) /\ Len(tail) = Len(s) - 1
      /\ \A i \in 1 .. Len(tail) : tail[i] = s[i + 1]
  BY HeadTailProperties, LenProperties, EmptySeq DEF EndsDone
<1> HIDE DEF tail
<1>2. CASE Len(s) = 1
  <2>1. tail = <<>>
    BY <1>1, <1>2, EmptySeq
  <2>2. Head(s) = F("done", t)
    BY <1>1, <1>2 DEF EndsDone
  <2>3. QED BY <2>1, <2>2 DEF tail
<1>3. CASE Len(s) # 1
  <2>1. tail # <<>>
    BY <1>1, <1>3, EmptySeq
  <2>2. Head(s) = F("text", t)
    BY <1>1, <1>3 DEF EndsDone
  <2>3. \A i \in 1 .. Len(tail) : tail[i] = IF i = Len(tail) THEN F("done", t) ELSE F("text", t)
    BY <1>1, <1>3 DEF EndsDone
  <2>4. EndsDone(tail, t)
    BY <1>1, <2>1, <2>3 DEF EndsDone
  <2>5. QED BY <2>2, <2>4 DEF tail
<1>4. QED BY <1>2, <1>3

-----------------------------------------------------------------------------
(* The calm bridge *)

Places == {"idle", "starting", "waiting", "reading", "shown", "draining"} \cup Ended
Active(t) == pc[t] \in {"reading", "shown", "draining"}
NothingInPipes == pending = <<>> /\ wire = <<>>

\* The prompt is written; the bridge is on it; its last frame is printed; that
\* frame has arrived, and nobody has asked for it.
Stage(t) ==
  \/ stdin = <<t>> /\ working = {} /\ NothingInPipes
  \/ stdin = <<>> /\ working = {t} /\ AllText(pending, t) /\ AllText(wire, t)
  \/ stdin = <<>> /\ working = {} /\ AllText(pending, t) /\ EndsDone(wire, t)
  \/ stdin = <<>> /\ working = {} /\ EndsDone(pending, t) /\ wire = <<>>

Basics ==
  /\ pc \in [Readers -> Places] /\ queue \in Seq(Turns) /\ starters \in Seq(Turns)
  /\ \A p \in read : p[1] = p[2]
  /\ straggling = {} /\ child # "exited"
  /\ \A t \in Turns : pc[t] = "waiting" => \E i \in 1 .. Len(queue) : queue[i] = t

\* No turn is on a bridge that has not become ready.
NotReady ==
  /\ ready \in {"null", "pending", "rejected"} /\ (ready = "null" => child = "none")
  /\ queue = <<>> /\ \A t \in Turns : ~Active(t)
  /\ stdin = <<>> /\ working = {}
  /\ \/ NothingInPipes
     \/ child = "up" /\ pending = <<F("ready", InitLoop)>> /\ wire = <<>>
     \/ child = "up" /\ pending = <<>> /\ wire = <<F("ready", InitLoop)>>
  /\ pc[InitLoop] \in {"idle", "reading"}
  /\ \/ waiters = <<>>
     \/ waiters = <<InitLoop>> /\ pc[InitLoop] = "reading"

\* Nothing is on the bridge, or only what belongs to one turn.
Resting ==
  /\ stdin = <<>> /\ working = {} /\ NothingInPipes /\ waiters = <<>>
  /\ \A t \in Turns : ~Active(t)
Serving(t) ==
  /\ queue # <<>> /\ t = Head(queue) /\ Active(t) /\ Stage(t)
  /\ \A u \in Turns \ {t} : ~Active(u)
  /\ \/ waiters = <<>>
     \/ waiters = <<t>> /\ pc[t] \in {"reading", "draining"}

IsReady ==
  /\ ready = "resolved" /\ child = "up" /\ pc[InitLoop] = "idle"
  /\ Resting \/ \E t \in Turns : Serving(t)

Orderly == Basics /\ (NotReady \/ IsReady)

LEMMA SetOf ==
  ASSUME NEW r
  PROVE  ToSet(<<>>) = {} /\ ToSet(<<r>>) = {r}
BY DEF ToSet

LEMMA SetOfStarters ==
  ASSUME Basics
  PROVE  ToSet(starters) \subseteq Turns /\ InitLoop \notin ToSet(starters)
BY ElementOfSeq, ConstantsAssumption DEF Basics, ToSet

\* Who moves and who stays.
LEMMA MovedOne ==
  ASSUME Basics, NEW t \in Readers, NEW place \in Places, pc' = Moved({t}, place)
  PROVE  /\ pc' \in [Readers -> Places] /\ pc'[t] = place
         /\ \A r \in Readers \ {t} : pc'[r] = pc[r]
BY DEF Basics, Moved

\* The promise of ensureBridge settles while no turn is on the bridge.
LEMMA SettleMoves ==
  ASSUME Basics, NotReady, NEW b \in BOOLEAN, NEW loop \in {"idle", "reading"}, Settle(b, loop)
  PROVE  /\ ready' = (IF b THEN "resolved" ELSE "rejected") /\ starters' = <<>>
         /\ pc' \in [Readers -> Places] /\ pc'[InitLoop] = loop
         /\ queue' \in Seq(Turns) /\ (~b => queue' = <<>>)
         /\ \A t \in Turns : ~Active(t)'
         /\ \A t \in Turns : pc'[t] = "waiting" => \E i \in 1 .. Len(queue') : queue'[i] = t
<1>1. /\ ready' = (IF b THEN "resolved" ELSE "rejected") /\ starters' = <<>>
      /\ queue' = (IF b THEN starters ELSE <<>>)
  BY ConcatEmptySeq DEF Settle, NotReady, Basics
<1>2. ASSUME NEW r \in Readers
      PROVE  pc'[r] = IF r = InitLoop THEN loop
                      ELSE IF r \in ToSet(starters) THEN (IF b THEN "waiting" ELSE "failed")
                      ELSE pc[r]
  BY DEF Settle, Moved, Readers
<1>3. pc' \in [Readers -> Places]
  <2>1. pc' \in [Readers -> {pc'[r] : r \in Readers}]
    BY DEF Settle, Moved
  <2>2. \A r \in Readers : pc'[r] \in Places
    BY <1>2 DEF Basics, Places, Ended
  <2>3. QED BY <2>1, <2>2
<1>4. \A t \in Turns : t \in Readers /\ t # InitLoop
  BY ConstantsAssumption DEF Readers
<1>5. \A t \in Turns : ~Active(t)'
  BY <1>2, <1>4 DEF NotReady, Active
<1>6. \A t \in Turns : pc[t] # "waiting"
  BY EmptySeq DEF Basics, NotReady
<1>7. \A t \in Turns : pc'[t] = "waiting" => \E i \in 1 .. Len(queue') : queue'[i] = t
  <2> SUFFICES ASSUME NEW t \in Turns, pc'[t] = "waiting"
               PROVE  \E i \in 1 .. Len(queue') : queue'[i] = t
    OBVIOUS
  <2>1. b /\ t \in ToSet(starters)
    BY <1>2, <1>4, <1>6
  <2>2. queue' = starters
    BY <1>1, <2>1
  <2>3. QED BY <2>1, <2>2, LenProperties DEF ToSet, Basics
<1>8. queue' \in Seq(Turns)
  BY <1>1, EmptySeq DEF Basics
<1>9. pc'[InitLoop] = loop
  BY <1>2 DEF Readers
<1>10. QED BY <1>1, <1>3, <1>5, <1>7, <1>8, <1>9

\* A turn that starts.
LEMMA StartOrderly ==
  ASSUME Orderly, NEW t \in Turns, Start(t)
  PROVE  Orderly'
<1>1. /\ pc[t] = "idle" /\ t \in Readers /\ t # InitLoop /\ InitLoop \in Readers
      /\ UNCHANGED <<waiters, pending, read, stdin, working, straggling, wire>>
  BY ConstantsAssumption DEF Start, Readers
<1>2. Basics /\ pc \in [Readers -> Places] /\ queue \in Seq(Turns) /\ starters \in Seq(Turns)
  BY DEF Orderly, Basics
<1>3. CASE ready = "null"
  <2>1. /\ ready' = "pending" /\ child' = "starting" /\ starters' = <<t>> /\ queue' = queue
        /\ pc' = [pc EXCEPT ![t] = "starting", ![InitLoop] = "reading"]
    BY <1>3 DEF Start
  <2>2. NotReady /\ child = "none"
    BY <1>3 DEF Orderly, NotReady, IsReady
  <2>3. /\ pc' \in [Readers -> Places] /\ pc'[t] = "starting" /\ pc'[InitLoop] = "reading"
        /\ \A u \in Turns \ {t} : pc'[u] = pc[u]
    BY <1>1, <1>2, <2>1, ConstantsAssumption DEF Places, Readers
  <2>4. Basics'
    <3>1. starters' \in Seq(Turns)
      BY <2>1
    <3>2. \A u \in Turns : pc'[u] = "waiting" => \E i \in 1 .. Len(queue') : queue'[i] = u
      BY <1>2, <2>1, <2>3 DEF Basics
    <3>3. QED BY <1>1, <1>2, <2>1, <2>3, <3>1, <3>2 DEF Basics
  <2>5. NothingInPipes'
    <3>1. NothingInPipes
      BY <2>2 DEF NotReady
    <3>2. QED BY <1>1, <3>1 DEF NothingInPipes
  <2>6. \A u \in Turns : ~Active(u)'
    BY <2>2, <2>3 DEF NotReady, Active
  <2>7. NotReady'
    BY <1>1, <2>1, <2>2, <2>3, <2>5, <2>6 DEF NotReady
  <2>8. QED BY <2>4, <2>7 DEF Orderly
<1>4. CASE ready = "pending" \/ ready = "rejected"
  <2>1. /\ UNCHANGED <<ready, child, queue>> /\ starters' \in {starters, Append(starters, t)}
        /\ \E place \in {"starting", "failed"} : pc' = Moved({t}, place)
    BY <1>4 DEF Start
  <2>2. NotReady
    BY <1>4 DEF Orderly, IsReady
  <2>3. /\ pc' \in [Readers -> Places] /\ pc'[t] \in {"starting", "failed"}
        /\ \A r \in Readers \ {t} : pc'[r] = pc[r]
    BY <1>1, <1>2, <2>1, MovedOne DEF Places, Ended
  <2>4. starters' \in Seq(Turns)
    BY <1>2, <2>1, AppendProperties
  <2>5. Basics'
    BY <1>1, <1>2, <2>1, <2>3, <2>4 DEF Basics, Readers
  <2>6. NotReady'
    BY <1>1, <2>1, <2>2, <2>3 DEF NotReady, Active, NothingInPipes, Readers
  <2>7. QED BY <2>5, <2>6 DEF Orderly
<1>5. CASE ready = "resolved"
  <2>1. /\ UNCHANGED <<ready, child, starters>> /\ queue' = Append(queue, t)
        /\ pc' = Moved({t}, "waiting")
    BY <1>5 DEF Start
  <2>2. IsReady
    BY <1>5 DEF Orderly, NotReady
  <2>3. /\ pc' \in [Readers -> Places] /\ pc'[t] = "waiting"
        /\ \A r \in Readers \ {t} : pc'[r] = pc[r]
    BY <1>1, <1>2, <2>1, MovedOne DEF Places
  <2>4. /\ queue' \in Seq(Turns) /\ Len(queue') = Len(queue) + 1 /\ Len(queue) \in Nat
        /\ queue'[Len(queue) + 1] = t /\ \A i \in 1 .. Len(queue) : queue'[i] = queue[i]
        /\ queue # <<>> => queue' # <<>> /\ Head(queue') = Head(queue)
    BY <1>2, <2>1, AppendProperties, LenProperties, EmptySeq
  <2>5. Basics'
    <3>1. ASSUME NEW u \in Turns, pc'[u] = "waiting"
          PROVE  \E i \in 1 .. Len(queue') : queue'[i] = u
      <4>1. CASE u = t
        BY <2>4, <4>1
      <4>2. CASE u # t
        <5>1. \E i \in 1 .. Len(queue) : queue[i] = u
          BY <1>2, <2>3, <3>1, <4>2 DEF Basics, Readers
        <5>2. QED BY <2>4, <5>1
      <4>3. QED BY <4>1, <4>2
    <3>2. QED BY <1>1, <1>2, <2>1, <2>3, <2>4, <3>1 DEF Basics
  <2>6. \A u \in Turns : Active(u)' <=> Active(u)
    BY <1>1, <2>3 DEF Active, Readers
  <2>7. IsReady'
    <3>1. CASE Resting
      BY <1>1, <2>1, <2>2, <2>3, <2>6, <3>1 DEF IsReady, Resting, NothingInPipes
    <3>2. ASSUME NEW a \in Turns, Serving(a)
          PROVE  Serving(a)'
      <4>1. a # t /\ pc'[a] = pc[a]
        BY <1>1, <2>3, <3>2 DEF Serving, Active, Readers
      <4>2. Stage(a)'
        BY <1>1, <3>2 DEF Serving, Stage, NothingInPipes
      <4>3. QED BY <1>1, <2>4, <2>6, <3>2, <4>1, <4>2 DEF Serving
    <3>3. QED BY <1>1, <2>1, <2>2, <2>3, <3>1, <3>2 DEF IsReady
  <2>8. QED BY <2>5, <2>7 DEF Orderly
<1>6. QED BY <1>3, <1>4, <1>5 DEF Start

\* The lock is granted: the turn writes its prompt.
LEMMA GrantedOrderly ==
  ASSUME Orderly, NEW t \in Turns, Granted(t)
  PROVE  Orderly'
<1>1. Basics /\ t \in Readers /\ pc[t] = "waiting" /\ t = Head(queue)
  BY DEF Orderly, Granted, Awoken, Readers
<1>2. queue # <<>> /\ IsReady
  <2>1. \E i \in 1 .. Len(queue) : queue[i] = t
    BY <1>1 DEF Basics
  <2>2. queue # <<>>
    BY <2>1, EmptySeq
  <2>3. QED BY <2>2 DEF Orderly, NotReady
<1>3. Resting
  BY <1>1, <1>2 DEF IsReady, Serving, Active
<1>4. /\ pc' = Moved({t}, "reading") /\ stdin' = Append(<<>>, t)
      /\ UNCHANGED <<starters, queue, ready, waiters, pending, read, child, working, straggling, wire>>
  BY <1>2, <1>3 DEF Granted, IsReady, Resting, gateway
<1>5. /\ pc' \in [Readers -> Places] /\ pc'[t] = "reading"
      /\ \A r \in Readers \ {t} : pc'[r] = pc[r]
  BY <1>1, <1>4, MovedOne DEF Places
<1>6. stdin' = <<t>>
  BY <1>4, AppendProperties
<1>7. Basics'
  BY <1>1, <1>4, <1>5 DEF Basics, Readers
<1>8. Serving(t)'
  BY <1>1, <1>2, <1>3, <1>4, <1>5, <1>6 DEF Serving, Resting, Stage, Active, NothingInPipes, Readers
<1>9. IsReady'
  BY <1>2, <1>4, <1>5, <1>8, ConstantsAssumption DEF IsReady, Readers
<1>10. QED BY <1>7, <1>9 DEF Orderly

\* The consumer pulls on or leaves.
LEMMA ConsumerOrderly ==
  ASSUME Orderly, NEW t \in Turns, Resume(t) \/ Leave(t)
  PROVE  Orderly'
<1>1. /\ Basics /\ t \in Readers /\ pc[t] = "shown" /\ pc' \in {Moved({t}, "reading"), Moved({t}, "draining")}
      /\ UNCHANGED <<starters, queue, ready, waiters, pending, read, child, stdin, working, straggling, wire>>
  BY DEF Orderly, Resume, Leave, Readers, gateway, bridge
<1>2. /\ pc' \in [Readers -> Places] /\ pc'[t] \in {"reading", "draining"}
      /\ \A r \in Readers \ {t} : pc'[r] = pc[r]
  BY <1>1, MovedOne DEF Places
<1>3. Serving(t) /\ IsReady
  BY <1>1 DEF Orderly, NotReady, IsReady, Resting, Active, Serving
<1>4. waiters = <<>>
  BY <1>1, <1>3 DEF Serving
<1>5. Basics'
  BY <1>1, <1>2 DEF Basics, Readers
<1>6. Stage(t)'
  BY <1>1, <1>3 DEF Serving, Stage, NothingInPipes
<1>7. Serving(t)'
  BY <1>1, <1>2, <1>3, <1>4, <1>6 DEF Serving, Active, Readers
<1>8. IsReady'
  BY <1>1, <1>2, <1>3, <1>7, ConstantsAssumption DEF IsReady, Readers
<1>9. QED BY <1>5, <1>8 DEF Orderly

-----------------------------------------------------------------------------
(* Frames that are taken *)

\* The init loop takes the frame it waits for. The pipes are then empty.
LEMMA InitTakes ==
  ASSUME Basics, NotReady, NEW f, f = F("ready", InitLoop), TakeInit(f),
         UNCHANGED bridge, child = "up",
         NothingInPipes', waiters' = <<>>
  PROVE  Orderly'
<1>1. f.kind = "ready"
  BY FrameOf DEF Readers
<1>2. UNCHANGED <<read, child, stdin, working, straggling, errors, exits>>
  BY DEF TakeInit, bridge
<1>3. CASE ready = "pending"
  <2>1. Settle(TRUE, "idle")
    BY <1>1, <1>3 DEF TakeInit
  <2>2. /\ ready' = "resolved" /\ starters' = <<>>
        /\ pc' \in [Readers -> Places] /\ pc'[InitLoop] = "idle"
        /\ queue' \in Seq(Turns) /\ \A t \in Turns : ~Active(t)'
        /\ \A t \in Turns : pc'[t] = "waiting" => \E i \in 1 .. Len(queue') : queue'[i] = t
    BY <2>1, SettleMoves
  <2>3. Basics'
    BY <1>2, <2>2, EmptySeq DEF Basics
  <2>4. IsReady'
    BY <1>2, <2>2 DEF NotReady, IsReady, Resting
  <2>5. QED BY <2>3, <2>4 DEF Orderly
<1>4. CASE ready # "pending"
  <2>1. pc' = Moved({InitLoop}, "idle") /\ UNCHANGED <<ready, queue, starters>>
    BY <1>1, <1>4 DEF TakeInit
  <2>2. /\ pc' \in [Readers -> Places] /\ pc'[InitLoop] = "idle"
        /\ \A t \in Turns : pc'[t] = pc[t]
    BY <2>1, MovedOne, ConstantsAssumption DEF Places, Readers
  <2>3. Basics'
    BY <1>2, <2>1, <2>2 DEF Basics
  <2>4. \A t \in Turns : ~Active(t)'
    BY <2>2 DEF NotReady, Active
  <2>5. /\ ready \in {"null", "pending", "rejected"} /\ (ready = "null" => child = "none")
        /\ queue = <<>> /\ stdin = <<>> /\ working = {}
    BY DEF NotReady
  <2>6. NotReady'
    BY <1>2, <2>1, <2>2, <2>4, <2>5 DEF NotReady
  <2>7. QED BY <2>3, <2>6 DEF Orderly
<1>5. QED BY <1>3, <1>4

\* The turn takes a frame of its own: it stays at the head of the queue, or
\* this was its last one.
LEMMA TurnTakes ==
  ASSUME Basics, NEW t \in Turns, Serving(t), NEW k \in {"text", "done"}, Take(t, F(k, t)),
         k = "text" => Owed(t), errors = 0
  PROVE  /\ UNCHANGED <<ready, starters>> /\ \A p \in read' : p[1] = p[2]
         /\ pc' \in [Readers -> Places] /\ \A r \in Readers \ {t} : pc'[r] = pc[r]
         /\ k = "text" => queue' = queue /\ Active(t)'
         /\ k = "done" => queue' = Tail(queue) /\ pc'[t] \in {"done", "cut"}
<1>1. t \in Readers /\ t # InitLoop /\ F(k, t).kind = k /\ F(k, t).of = t
  BY FrameOf, ConstantsAssumption DEF Readers
<1>2. CASE pc[t] = "reading"
  <2>1. TakeReading(t, F(k, t))
    BY <1>1, <1>2 DEF Take
  <2>2. UNCHANGED <<ready, starters>> /\ read' = read \cup {<<t, t>>}
    BY <1>1, <2>1 DEF TakeReading
  <2>3. \A p \in read' : p[1] = p[2]
    BY <2>2 DEF Basics
  <2>4. CASE k = "text"
    <3>1. pc' = Moved({t}, "shown") /\ queue' = queue
      BY <1>1, <2>1, <2>4 DEF TakeReading
    <3>2. QED BY <1>1, <2>2, <2>3, <2>4, <3>1, MovedOne DEF Places, Active
  <2>5. CASE k = "done"
    <3>1. pc' = Moved({t}, "done") /\ queue' = Tail(queue)
      BY <1>1, <2>1, <2>5 DEF TakeReading, Ends
    <3>2. QED BY <1>1, <2>2, <2>3, <2>5, <3>1, MovedOne DEF Places, Ended
  <2>6. QED BY <2>4, <2>5
<1>3. CASE pc[t] = "draining"
  <2>1. TakeDraining(t, F(k, t))
    BY <1>1, <1>3 DEF Take
  <2>2. UNCHANGED <<ready, starters, read>>
    BY <2>1 DEF TakeDraining
  <2>3. CASE k = "text"
    <3>1. UNCHANGED <<pc, queue>>
      BY <1>1, <2>1, <2>3 DEF TakeDraining, Final
    <3>2. QED BY <1>3, <2>2, <2>3, <3>1 DEF Basics, Active
  <2>4. CASE k = "done"
    <3>1. pc' = Moved({t}, "cut") /\ queue' = Tail(queue)
      BY <1>1, <2>1, <2>4 DEF TakeDraining, Ends, Final
    <3>2. QED BY <1>1, <2>2, <2>4, <3>1, MovedOne DEF Places, Ended, Basics
  <2>5. QED BY <2>3, <2>4
<1>4. QED BY <1>1, <1>2, <1>3 DEF Take

\* In every stage the bridge owes the turn its last frame.
LEMMA LastFrameOwed ==
  ASSUME NEW t \in Turns, Stage(t)
  PROVE  Owed(t)
<1>1. ASSUME NEW s, EndsDone(s, t)
      PROVE  \E f \in ToSet(s) : f.of = t /\ f.kind \in Final
  <2>1. Len(s) \in Nat \ {0} /\ s \in Seq(Frame)
    BY <1>1, EmptySeq, LenProperties DEF EndsDone
  <2>2. s[Len(s)] = F("done", t) /\ s[Len(s)] \in ToSet(s)
    BY <1>1, <2>1, LenProperties DEF EndsDone, ToSet
  <2>3. QED BY <2>2, FrameOf DEF Final, Readers
<1>2. QED BY <1>1, SetOf DEF Stage, Owed

\* What the turn's step leaves: the turn with what is left in the pipes, or,
\* after its last frame, a bridge at rest.
LEMMA TurnTook ==
  ASSUME Orderly, NEW t \in Turns, Serving(t), NEW k \in {"text", "done"}, Take(t, F(k, t)),
         errors = 0, UNCHANGED bridge, waiters' = <<>>,
         k = "text" => Stage(t)',
         k = "done" => NothingInPipes' /\ stdin = <<>> /\ working = {}
  PROVE  Orderly'
<1>1. /\ UNCHANGED <<ready, starters>> /\ \A p \in read' : p[1] = p[2]
      /\ pc' \in [Readers -> Places] /\ \A r \in Readers \ {t} : pc'[r] = pc[r]
      /\ k = "text" => queue' = queue /\ Active(t)'
      /\ k = "done" => queue' = Tail(queue) /\ pc'[t] \in {"done", "cut"}
  BY TurnTakes, LastFrameOwed DEF Orderly, Serving
<1>2. UNCHANGED <<child, stdin, working, straggling, errors, exits>>
  BY DEF bridge
<1>3. IsReady /\ Basics /\ t # InitLoop /\ t \in Readers
  BY EmptySeq, ConstantsAssumption DEF Orderly, NotReady, Serving, Readers
<1>4. \A u \in Turns \ {t} : ~Active(u) /\ ~Active(u)'
  BY <1>1 DEF Serving, Active, Readers
<1>5. CASE k = "text"
  <2>1. Basics'
    <3>1. \A u \in Turns : pc'[u] = "waiting" => pc[u] = "waiting"
      BY <1>1, <1>3, <1>5 DEF Active, Readers
    <3>2. \A u \in Turns : pc'[u] = "waiting" => \E i \in 1 .. Len(queue') : queue'[i] = u
      BY <1>1, <1>3, <1>5, <3>1 DEF Basics
    <3>3. QED BY <1>1, <1>2, <1>3, <1>5, <3>2 DEF Basics
  <2>2. Serving(t)'
    BY <1>1, <1>4, <1>5 DEF Serving
  <2>3. IsReady'
    BY <1>1, <1>2, <1>3, <2>2 DEF IsReady, Readers
  <2>4. QED BY <2>1, <2>3 DEF Orderly
<1>6. CASE k = "done"
  <2> DEFINE tail == Tail(queue)
  <2>1. /\ tail \in Seq(Turns) /\ Len(tail) = Len(queue) - 1 /\ Len(queue) \in Nat
        /\ \A i \in 1 .. Len(tail) : tail[i] = queue[i + 1]
        /\ queue[1] = t
    BY <1>3, HeadTailProperties, LenProperties DEF Basics, Serving
  <2>2. queue' = tail /\ pc'[t] # "waiting" /\ ~Active(t)'
    BY <1>1, <1>6 DEF Active
  <2> HIDE DEF tail
  <2>3. ASSUME NEW u \in Turns, pc'[u] = "waiting"
        PROVE  \E i \in 1 .. Len(queue') : queue'[i] = u
    <3>1. u # t /\ pc[u] = "waiting"
      BY <1>1, <2>2, <2>3 DEF Readers
    <3>2. PICK i \in 1 .. Len(queue) : queue[i] = u
      BY <1>3, <3>1 DEF Basics
    <3>3. i - 1 \in 1 .. Len(tail) /\ tail[i - 1] = u
      BY <2>1, <3>1, <3>2
    <3>4. QED BY <2>2, <3>3
  <2>4. Basics'
    BY <1>1, <1>2, <1>3, <2>1, <2>2, <2>3 DEF Basics
  <2>5. Resting'
    BY <1>2, <1>4, <1>6, <2>2 DEF Resting
  <2>6. IsReady'
    BY <1>1, <1>2, <1>3, <2>5 DEF IsReady, Readers
  <2>7. QED BY <2>4, <2>6 DEF Orderly
<1>7. QED BY <1>5, <1>6

-----------------------------------------------------------------------------
(* The steps of the bridge and of the one thread of the gateway *)

LEMMA AskingOne ==
  ASSUME Orderly, NEW r \in Readers, Asking(r)
  PROVE  /\ waiters = <<>>
         /\ \/ NotReady /\ r = InitLoop /\ pc[r] = "reading"
            \/ IsReady /\ r \in Turns /\ Serving(r)
BY SetOf DEF Asking, Orderly, NotReady, IsReady, Resting, Serving, Active, Readers

LEMMA NextFrameOrderly ==
  ASSUME Orderly, NoLostWakeup, errors = 0, NEW r \in Readers, NextFrame(r)
  PROVE  Orderly'
<1>1. /\ Basics /\ waiters = <<>> /\ UNCHANGED bridge /\ wire' = wire
      /\ UNCHANGED <<child, stdin, working, straggling, errors, exits>>
  BY AskingOne DEF Orderly, NextFrame, bridge
<1>2. CASE pending = <<>>
  <2>1. /\ waiters' = <<r>> /\ UNCHANGED <<pc, starters, queue, ready, pending, read>>
    BY <1>1, <1>2, AppendProperties DEF NextFrame
  <2>2. Basics'
    BY <1>1, <2>1 DEF Basics
  <2>3. CASE NotReady /\ r = InitLoop /\ pc[r] = "reading"
    <3>1. \A t \in Turns : ~Active(t)'
      BY <2>1, <2>3 DEF NotReady, Active
    <3>2. NothingInPipes' \/ (child' = "up" /\ pending' = <<>> /\ wire' = <<F("ready", InitLoop)>>)
      BY <1>1, <1>2, <2>1, <2>3 DEF NotReady, NothingInPipes
    <3>3. NotReady'
      BY <1>1, <1>2, <2>1, <2>3, <3>1, <3>2 DEF NotReady
    <3>4. QED BY <2>2, <3>3 DEF Orderly
  <2>4. CASE IsReady /\ r \in Turns /\ Serving(r)
    <3>1. pc[r] \in {"reading", "draining"}
      BY DEF NextFrame, Asking
    <3>2. Stage(r)'
      BY <1>1, <2>1, <2>4 DEF Serving, Stage, NothingInPipes
    <3>3. Serving(r)'
      BY <2>1, <2>4, <3>1, <3>2 DEF Serving, Active
    <3>4. QED BY <1>1, <2>1, <2>2, <2>4, <3>3 DEF Orderly, IsReady
  <2>5. QED BY <2>3, <2>4, AskingOne DEF NextFrame
<1>3. CASE pending # <<>>
  <2>1. pending' = Tail(pending) /\ Take(r, Head(pending)) /\ waiters' = waiters
    BY <1>3 DEF NextFrame
  <2>2. CASE NotReady /\ r = InitLoop /\ pc[r] = "reading"
    <3>1. child = "up" /\ pending = <<F("ready", InitLoop)>> /\ wire = <<>>
      BY <1>3, <2>2 DEF NotReady, NothingInPipes
    <3>2. Head(pending) = F("ready", InitLoop) /\ pending' = <<>>
      BY <2>1, <3>1
    <3>3. TakeInit(F("ready", InitLoop)) /\ NothingInPipes'
      BY <1>1, <2>1, <2>2, <3>1, <3>2, ConstantsAssumption DEF Take, NothingInPipes
    <3>4. QED BY <1>1, <2>1, <2>2, <3>1, <3>3, InitTakes
  <2>3. CASE IsReady /\ r \in Turns /\ Serving(r)
    <3>1. \/ working = {r} /\ AllText(pending, r) /\ AllText(wire, r) /\ stdin = <<>>
          \/ working = {} /\ AllText(pending, r) /\ EndsDone(wire, r) /\ stdin = <<>>
          \/ working = {} /\ EndsDone(pending, r) /\ wire = <<>> /\ stdin = <<>>
      BY <1>3, <2>3 DEF Serving, Stage, NothingInPipes
    <3>2. CASE /\ AllText(pending, r) /\ stdin = <<>>
               /\ \/ working = {r} /\ AllText(wire, r)
                  \/ working = {} /\ EndsDone(wire, r)
      <4>1. Head(pending) = F("text", r) /\ AllText(pending', r)
        BY <1>3, <2>1, <3>2, TextTail
      <4>2. Stage(r)'
        BY <1>1, <3>2, <4>1 DEF Stage
      <4>3. QED BY <1>1, <2>1, <2>3, <4>1, <4>2, TurnTook
    <3>3. CASE EndsDone(pending, r) /\ wire = <<>> /\ working = {} /\ stdin = <<>>
      <4>1. CASE Head(pending) = F("done", r) /\ pending' = <<>>
        BY <1>1, <2>1, <2>3, <3>3, <4>1, TurnTook DEF NothingInPipes
      <4>2. CASE Head(pending) = F("text", r) /\ EndsDone(pending', r)
        <5>1. Stage(r)'
          BY <1>1, <3>3, <4>2 DEF Stage
        <5>2. QED BY <1>1, <2>1, <2>3, <4>2, <5>1, TurnTook
      <4>3. QED BY <2>1, <3>3, <4>1, <4>2, DoneTail
    <3>4. QED BY <3>1, <3>2, <3>3
  <2>4. QED BY <2>2, <2>3, AskingOne DEF NextFrame
<1>4. QED BY <1>2, <1>3

LEMMA LineOrderly ==
  ASSUME Orderly, NoLostWakeup, errors = 0, Line
  PROVE  Orderly'
<1>1. /\ Basics /\ UNCHANGED bridge /\ wire # <<>> /\ wire' = Tail(wire)
      /\ UNCHANGED <<child, stdin, working, straggling, errors, exits>>
  BY DEF Orderly, Line, bridge
<1>2. CASE waiters = <<>>
  <2>1. /\ pending' = Append(pending, Head(wire))
        /\ UNCHANGED <<pc, starters, queue, ready, waiters, read>>
    BY <1>2 DEF Line
  <2>2. Basics'
    BY <1>1, <2>1 DEF Basics
  <2>3. CASE NotReady
    <3>1. child = "up" /\ pending = <<>> /\ wire = <<F("ready", InitLoop)>>
      BY <1>1, <2>3 DEF NotReady, NothingInPipes
    <3>2. pending' = <<F("ready", InitLoop)>> /\ wire' = <<>>
      BY <1>1, <2>1, <3>1, AppendProperties
    <3>3. \A t \in Turns : ~Active(t)'
      BY <2>1, <2>3 DEF NotReady, Active
    <3>4. NotReady'
      BY <1>1, <2>1, <2>3, <3>1, <3>2, <3>3 DEF NotReady
    <3>5. QED BY <2>2, <3>4 DEF Orderly
  <2>4. ASSUME NEW t \in Turns, Serving(t), IsReady
        PROVE  Orderly'
    <3>1. t \in Readers
      BY DEF Readers
    <3>2. \/ working = {t} /\ AllText(pending, t) /\ AllText(wire, t) /\ stdin = <<>>
          \/ working = {} /\ AllText(pending, t) /\ EndsDone(wire, t) /\ stdin = <<>>
      BY <1>1, <2>4 DEF Serving, Stage, NothingInPipes
    <3>3. CASE AllText(wire, t) /\ working = {t}
      <4>1. Head(wire) = F("text", t) /\ AllText(wire', t)
        BY <1>1, <3>3, TextTail
      <4>2. AllText(pending', t)
        BY <2>1, <3>1, <3>2, <4>1, TextAppend
      <4>3. Stage(t)'
        BY <1>1, <3>2, <3>3, <4>1, <4>2 DEF Stage
      <4>4. Serving(t)'
        BY <2>1, <2>4, <4>3 DEF Serving, Active
      <4>5. QED BY <1>1, <2>1, <2>2, <2>4, <4>4 DEF Orderly, IsReady
    <3>4. CASE EndsDone(wire, t) /\ working = {} /\ stdin = <<>> /\ AllText(pending, t)
      <4>1. Stage(t)'
        <5>1. CASE Head(wire) = F("done", t) /\ wire' = <<>>
          <6>1. EndsDone(pending', t)
            BY <2>1, <3>1, <3>4, <5>1, TextAppend
          <6>2. QED BY <1>1, <3>4, <5>1, <6>1 DEF Stage
        <5>2. CASE Head(wire) = F("text", t) /\ EndsDone(wire', t)
          <6>1. AllText(pending', t)
            BY <2>1, <3>1, <3>4, <5>2, TextAppend
          <6>2. QED BY <1>1, <3>4, <5>2, <6>1 DEF Stage
        <5>3. QED BY <1>1, <3>4, <5>1, <5>2, DoneTail
      <4>2. Serving(t)'
        BY <2>1, <2>4, <4>1 DEF Serving, Active
      <4>3. QED BY <1>1, <2>1, <2>2, <2>4, <4>2 DEF Orderly, IsReady
    <3>5. QED BY <3>2, <3>3, <3>4
  <2>5. ~(IsReady /\ Resting)
    BY <1>1 DEF Resting, NothingInPipes
  <2>6. QED BY <2>3, <2>4, <2>5 DEF Orderly, IsReady
<1>3. CASE waiters # <<>>
  <2>1. waiters' = Tail(waiters) /\ Take(Head(waiters), Head(wire)) /\ pending' = pending
    BY <1>3 DEF Line
  <2>2. pending = <<>>
    BY <1>3 DEF NoLostWakeup
  <2>3. CASE NotReady
    <3>1. child = "up" /\ wire = <<F("ready", InitLoop)>>
      BY <1>1, <2>2, <2>3 DEF NotReady, NothingInPipes
    <3>2. waiters = <<InitLoop>>
      BY <1>3, <2>3 DEF NotReady
    <3>3. /\ TakeInit(F("ready", InitLoop)) /\ waiters' = <<>> /\ NothingInPipes'
      BY <1>1, <2>1, <2>2, <3>1, <3>2, ConstantsAssumption DEF Take, NothingInPipes
    <3>4. QED BY <1>1, <2>3, <3>1, <3>3, InitTakes
  <2>4. ASSUME NEW t \in Turns, Serving(t)
        PROVE  Orderly'
    <3>1. waiters = <<t>>
      BY <1>3, <2>4 DEF Serving
    <3>2. Take(t, Head(wire)) /\ waiters' = <<>>
      BY <2>1, <3>1
    <3>3. \/ working = {t} /\ AllText(wire, t) /\ stdin = <<>>
          \/ working = {} /\ EndsDone(wire, t) /\ stdin = <<>>
      BY <1>1, <2>4 DEF Serving, Stage, NothingInPipes
    <3>4. AllText(pending', t)
      BY <2>1, <2>2, NoText
    <3>5. CASE AllText(wire, t) /\ working = {t} /\ stdin = <<>>
      <4>1. Head(wire) = F("text", t) /\ AllText(wire', t)
        BY <1>1, <3>5, TextTail
      <4>2. Stage(t)'
        BY <1>1, <3>4, <3>5, <4>1 DEF Stage
      <4>3. QED BY <1>1, <2>4, <3>2, <4>1, <4>2, TurnTook
    <3>6. CASE EndsDone(wire, t) /\ working = {} /\ stdin = <<>>
      <4>1. CASE Head(wire) = F("done", t) /\ wire' = <<>>
        BY <1>1, <2>1, <2>2, <2>4, <3>2, <3>6, <4>1, TurnTook DEF NothingInPipes
      <4>2. CASE Head(wire) = F("text", t) /\ EndsDone(wire', t)
        <5>1. Stage(t)'
          BY <1>1, <3>4, <3>6, <4>2 DEF Stage
        <5>2. QED BY <1>1, <2>4, <3>2, <4>2, <5>1, TurnTook
      <4>3. QED BY <1>1, <3>6, <4>1, <4>2, DoneTail
    <3>7. QED BY <3>3, <3>5, <3>6
  <2>5. ~Resting
    BY <1>3 DEF Resting
  <2>6. QED BY <2>3, <2>4, <2>5 DEF Orderly, IsReady
<1>4. QED BY <1>2, <1>3

\* A promise that is rejected while no turn is on the bridge.
LEMMA RejectedOrderly ==
  ASSUME Orderly, ready = "pending", Settle(FALSE, pc[InitLoop]), child' # "exited",
         NothingInPipes => child' \in {child, "unspawned"}, ~NothingInPipes => child' = child,
         UNCHANGED <<waiters, pending, read, stdin, working, straggling, wire>>
  PROVE  Orderly'
<1>1. Basics /\ NotReady
  BY DEF Orderly, IsReady
<1>2. pc[InitLoop] \in {"idle", "reading"}
  BY <1>1 DEF NotReady
<1>3. /\ ready' = "rejected" /\ starters' = <<>> /\ queue' = <<>>
      /\ pc' \in [Readers -> Places] /\ pc'[InitLoop] = pc[InitLoop]
      /\ \A t \in Turns : ~Active(t)'
      /\ \A t \in Turns : pc'[t] = "waiting" => \E i \in 1 .. Len(queue') : queue'[i] = t
  BY <1>1, <1>2, SettleMoves
<1>4. Basics'
  BY <1>1, <1>3, EmptySeq DEF Basics
<1>5. /\ stdin' = <<>> /\ working' = {}
      /\ waiters' = <<>> \/ (waiters' = <<InitLoop>> /\ pc'[InitLoop] = "reading")
  BY <1>1, <1>3 DEF NotReady
<1>6. \/ NothingInPipes'
      \/ child' = "up" /\ pending' = <<F("ready", InitLoop)>> /\ wire' = <<>>
      \/ child' = "up" /\ pending' = <<>> /\ wire' = <<F("ready", InitLoop)>>
  BY <1>1 DEF NotReady, NothingInPipes
<1>7. NotReady'
  BY <1>2, <1>3, <1>5, <1>6 DEF NotReady
<1>8. QED BY <1>4, <1>7 DEF Orderly

LEMMA SpawnErrorOrderly ==
  ASSUME Orderly, SpawnError
  PROVE  Orderly'
<1>1. /\ child = "starting" /\ child' = "unspawned"
      /\ UNCHANGED <<waiters, pending, read, stdin, working, straggling, wire>>
  BY DEF SpawnError
<1>2. Basics /\ NotReady /\ NothingInPipes
  BY <1>1 DEF Orderly, IsReady, NotReady
<1>3. CASE ready = "pending"
  BY <1>1, <1>2, <1>3, RejectedOrderly DEF SpawnError
<1>4. CASE ready # "pending"
  <2>1. UNCHANGED <<pc, starters, queue, ready>>
    BY <1>4 DEF SpawnError
  <2>2. Basics'
    BY <1>1, <1>2, <2>1 DEF Basics
  <2>3. \A t \in Turns : ~Active(t)'
    BY <1>2, <2>1 DEF NotReady, Active
  <2>4. NothingInPipes'
    BY <1>1, <1>2 DEF NothingInPipes
  <2>5. NotReady'
    BY <1>1, <1>2, <2>1, <2>3, <2>4 DEF NotReady
  <2>6. QED BY <2>2, <2>5 DEF Orderly
<1>5. QED BY <1>3, <1>4

\* The bridge prints ready once, before any turn is on it.
LEMMA InitializedOrderly ==
  ASSUME Orderly, Initialized
  PROVE  Orderly'
<1>1. /\ child = "starting" /\ child' = "up" /\ wire' = Append(wire, F("ready", InitLoop))
      /\ UNCHANGED <<pc, starters, queue, ready, waiters, pending, read, stdin, working, straggling>>
  BY DEF Initialized, gateway
<1>2. Basics /\ NotReady /\ NothingInPipes
  BY <1>1 DEF Orderly, IsReady, NotReady
<1>3. Basics'
  BY <1>1, <1>2 DEF Basics
<1>4. wire' = <<F("ready", InitLoop)>> /\ pending' = <<>>
  BY <1>1, <1>2, AppendProperties DEF NothingInPipes
<1>5. \A t \in Turns : ~Active(t)'
  BY <1>1, <1>2 DEF NotReady, Active
<1>6. NotReady'
  BY <1>1, <1>2, <1>4, <1>5 DEF NotReady
<1>7. QED BY <1>3, <1>6 DEF Orderly

\* What the bridge does with a prompt takes its turn from stage to stage.
LEMMA StageMoves ==
  ASSUME Orderly, NEW t \in Turns, Serving(t), Stage(t)',
         UNCHANGED <<pc, starters, queue, ready, waiters, read, child, straggling>>
  PROVE  Orderly'
<1>1. Basics /\ IsReady
  BY DEF Orderly, NotReady, Serving
<1>2. Basics'
  BY <1>1 DEF Basics
<1>3. Serving(t)'
  BY DEF Serving, Active
<1>4. IsReady'
  BY <1>1, <1>3 DEF IsReady
<1>5. QED BY <1>2, <1>4 DEF Orderly

LEMMA WorkedFor ==
  ASSUME Orderly, NEW t \in Turns, t \in working
  PROVE  /\ Serving(t) /\ stdin = <<>> /\ working = {t}
         /\ AllText(pending, t) /\ AllText(wire, t)
BY DEF Orderly, NotReady, IsReady, Resting, Serving, Stage

LEMMA PromptedOrderly ==
  ASSUME Orderly, Prompted
  PROVE  Orderly'
<1>1. PICK t \in Turns : Serving(t) /\ stdin = <<t>>
  BY DEF Prompted, Orderly, NotReady, IsReady, Resting, Serving, Stage
<1>2. NothingInPipes
  BY <1>1 DEF Serving, Stage
<1>3. /\ working' = {t} /\ stdin' = <<>>
      /\ UNCHANGED <<pc, starters, queue, ready, waiters, pending, read, child, straggling, wire>>
  BY <1>1 DEF Prompted, gateway
<1>4. Stage(t)'
  BY <1>2, <1>3, NoText DEF Stage, NothingInPipes
<1>5. QED BY <1>1, <1>3, <1>4, StageMoves

LEMMA SaysOrderly ==
  ASSUME Orderly, NEW t \in Turns, Says(t)
  PROVE  Orderly'
<1>1. /\ t \in working /\ wire' = Append(wire, F("text", t)) /\ t \in Readers
      /\ UNCHANGED <<pc, starters, queue, ready, waiters, pending, read, child, stdin, working, straggling>>
  BY DEF Says, Orderly, Basics, gateway, bridge, Readers
<1>2. /\ Serving(t) /\ stdin = <<>> /\ working = {t} /\ AllText(pending, t) /\ AllText(wire, t)
  BY <1>1, WorkedFor
<1>3. AllText(wire', t)
  BY <1>1, <1>2, TextAppend
<1>4. Stage(t)'
  BY <1>1, <1>2, <1>3 DEF Stage
<1>5. QED BY <1>1, <1>2, <1>4, StageMoves

LEMMA FinishesOrderly ==
  ASSUME Orderly, NEW t \in Turns, Finishes(t)
  PROVE  Orderly'
<1>1. /\ t \in working /\ working' = {} /\ wire' = Append(wire, F("done", t)) /\ t \in Readers
      /\ UNCHANGED <<pc, starters, queue, ready, waiters, pending, read, child, stdin, straggling>>
  BY DEF Finishes, gateway, Readers
<1>2. /\ Serving(t) /\ stdin = <<>> /\ AllText(pending, t) /\ AllText(wire, t)
  BY <1>1, WorkedFor
<1>3. EndsDone(wire', t)
  BY <1>1, <1>2, TextAppend
<1>4. Stage(t)'
  BY <1>1, <1>2, <1>3 DEF Stage
<1>5. QED BY <1>1, <1>2, <1>4, StageMoves

-----------------------------------------------------------------------------
(* The bridge as long as it is calm *)

CalmInv ==
  /\ errors \in Nat /\ exits \in Nat
  /\ errors = 0 /\ exits = 0 => Orderly

LEMMA CalmInit == Init => CalmInv
<1> SUFFICES ASSUME Init PROVE CalmInv
  OBVIOUS
<1>1. /\ pc = [r \in Readers |-> "idle"] /\ queue = <<>> /\ starters = <<>> /\ read = {}
      /\ straggling = {} /\ child = "none" /\ ready = "null" /\ waiters = <<>>
      /\ pending = <<>> /\ wire = <<>> /\ stdin = <<>> /\ working = {} /\ errors = 0 /\ exits = 0
  BY DEF Init
<1>2. \A r \in Readers : pc[r] = "idle"
  BY <1>1
<1>3. Basics
  BY <1>1, <1>2, EmptySeq DEF Basics, Places, Readers
<1>4. NotReady
  BY <1>1, <1>2 DEF NotReady, NothingInPipes, Active, Readers
<1>5. QED BY <1>1, <1>3, <1>4 DEF CalmInv, Orderly

LEMMA CalmStep == CalmInv /\ NoLostWakeup /\ [Next]_vars => CalmInv'
<1> SUFFICES ASSUME CalmInv, NoLostWakeup, [Next]_vars PROVE CalmInv'
  OBVIOUS
<1>1. errors' \in {errors, errors + 1} /\ exits' \in {exits, exits + 1}
  BY DEF Next, Start, Granted, NextFrame, Line, Resume, Leave, ExitEvent, InitTimeout,
         SpawnError, Initialized, Prompted, Says, Finishes, Fails, Exits, vars, bridge
<1>2. /\ errors' \in Nat /\ exits' \in Nat
      /\ errors' = 0 => errors = 0 /\ errors' = errors
      /\ exits' = 0 => exits = 0 /\ exits' = exits
  BY <1>1 DEF CalmInv
<1>3. SUFFICES ASSUME errors' = 0, exits' = 0 PROVE Orderly'
  BY <1>2 DEF CalmInv
<1>4. Orderly /\ errors = 0
  BY <1>2, <1>3 DEF CalmInv
<1>5. CASE UNCHANGED vars
  BY <1>4, <1>5 DEF vars, gateway, bridge, Orderly, Basics, NotReady, IsReady, Resting, Serving,
                    Stage, NothingInPipes, Active
<1>6. ASSUME NEW t \in Turns,
             \/ Start(t) \/ Granted(t) \/ Resume(t) \/ Leave(t) \/ Says(t) \/ Finishes(t) \/ Fails(t)
      PROVE  Orderly'
  <2>1. ~Fails(t)
    BY <1>3, <1>4 DEF Fails
  <2>2. QED
    BY <1>4, <1>6, <2>1, StartOrderly, GrantedOrderly, ConsumerOrderly, SaysOrderly, FinishesOrderly
<1>7. ASSUME NEW r \in Readers, NextFrame(r)
      PROVE  Orderly'
  BY <1>4, <1>7, NextFrameOrderly
<1>8. CASE Line
  BY <1>4, <1>8, LineOrderly
<1>9. CASE ExitEvent
  BY <1>4, <1>9 DEF ExitEvent, Orderly, Basics
<1>10. CASE InitTimeout
  <2>1. /\ ready = "pending" /\ Settle(FALSE, pc[InitLoop])
        /\ UNCHANGED <<waiters, pending, read, child, stdin, working, straggling, wire>>
    BY <1>10 DEF InitTimeout, bridge
  <2>2. child # "exited"
    BY <1>4 DEF Orderly, Basics
  <2>3. QED BY <1>4, <2>1, <2>2, RejectedOrderly
<1>11. CASE SpawnError
  BY <1>4, <1>11, SpawnErrorOrderly
<1>12. CASE Initialized
  BY <1>4, <1>12, InitializedOrderly
<1>13. CASE Prompted
  BY <1>4, <1>13, PromptedOrderly
<1>14. ~Exits
  BY <1>2, <1>3, <1>4 DEF Exits, CalmInv
<1>15. QED BY <1>5, <1>6, <1>7, <1>8, <1>9, <1>10, <1>11, <1>12, <1>13, <1>14 DEF Next

THEOREM CalmAlways == Spec => [](CalmInv /\ NoLostWakeup)
<1>1. Spec => []CalmInv
  <2>1. CalmInv /\ NoLostWakeup /\ [Next]_vars => CalmInv'
    BY CalmStep
  <2>2. QED BY <2>1, CalmInit, NoWakeupIsLost, PTL DEF Spec
<1>2. QED BY <1>1, NoWakeupIsLost, PTL

\* Until a turn fails in the bridge or a bridge exits, a turn is given its own
\* frames only (hermes-acp.ts: turnLock and the drain in runHermesTurn), however
\* many turns there are and whichever of their consumers leave.
THEOREM OwnFramesInCalm == Spec => []OwnFramesWhenCalm
<1>1. CalmInv => OwnFramesWhenCalm
  BY DEF CalmInv, Orderly, Basics, OwnFramesWhenCalm
<1>2. QED BY <1>1, CalmAlways, PTL

\* Until then the gateway never hands the bridge a prompt while another is
\* unfinished ("the single agent processes one prompt at a time").
THEOREM PromptsExclude == Spec => []OnePromptAtATime
<1>1. CalmInv => OnePromptAtATime
  <2> SUFFICES ASSUME CalmInv, errors = 0, exits = 0
               PROVE  Len(stdin) + Cardinality(working) <= 1
    BY DEF OnePromptAtATime
  <2>1. \/ stdin = <<>> /\ (working = {} \/ \E t \in Turns : working = {t})
        \/ working = {} /\ \E t \in Turns : stdin = <<t>>
    BY DEF CalmInv, Orderly, NotReady, IsReady, Resting, Serving, Stage
  <2>2. Len(stdin) = 0 \/ (Len(stdin) = 1 /\ working = {})
    BY <2>1
  <2>3. Cardinality({}) = 0 /\ \A t \in Turns : Cardinality({t}) = 1
    BY FS_EmptySet, FS_Singleton
  <2>4. CASE working = {}
    BY <2>2, <2>3, <2>4
  <2>5. CASE stdin = <<>> /\ \E t \in Turns : working = {t}
    <3>1. Len(stdin) = 0 /\ Cardinality(working) = 1
      BY <2>3, <2>5
    <3>2. QED BY <3>1
  <2>6. QED BY <2>1, <2>4, <2>5
<1>2. QED BY <1>1, CalmAlways, PTL

-----------------------------------------------------------------------------
(* The types. A turn on the bridge holds the lock, so that release() always  *)
(* has a queue to shorten.                                                   *)

HolderOnly == \A t \in Turns : Active(t) => queue # <<>> /\ t = Head(queue)
TypeInv == TypeOK /\ HolderOnly

LEMMA Appended ==
  ASSUME NEW S, NEW s \in Seq(S), NEW x \in S
  PROVE  /\ Append(s, x) \in Seq(S) /\ Append(s, x) # <<>>
         /\ s # <<>> => Head(Append(s, x)) = Head(s)
<1>1. /\ Append(s, x) \in Seq(S) /\ Append(s, x) # <<>>
      /\ \A i \in 1 .. Len(s) : Append(s, x)[i] = s[i]
  BY AppendProperties
<1>2. s # <<>> => 1 \in 1 .. Len(s)
  BY LenProperties, EmptySeq
<1>3. QED BY <1>1, <1>2

LEMMA Joined ==
  ASSUME NEW S, NEW s \in Seq(S), NEW u \in Seq(S), s # <<>>
  PROVE  s \o u # <<>> /\ Head(s \o u) = Head(s)
<1>1. Len(s) \in Nat /\ Len(u) \in Nat /\ Len(s) # 0
  BY LenProperties, EmptySeq
<1>2. s \o u \in Seq(S) /\ Len(s \o u) = Len(s) + Len(u)
  BY ConcatProperties
<1>3. s \o u # <<>>
  BY <1>1, <1>2, EmptySeq
<1>4. (s \o u)[1] = s[1]
  BY <1>1, ConcatProperties
<1>5. QED BY <1>2, <1>3, <1>4

LEMMA Types ==
  ASSUME TypeOK
  PROVE  /\ pc \in [Readers -> Places] /\ starters \in Seq(Turns) /\ queue \in Seq(Turns)
         /\ ToSet(starters) \subseteq Turns
         /\ waiters \in Seq(Readers) /\ pending \in Seq(Frame) /\ wire \in Seq(Frame)
         /\ read \subseteq Turns \X Readers
         /\ InitLoop \in Readers /\ InitLoop \notin Turns /\ Turns \subseteq Readers
BY ConstantsAssumption, ElementOfSeq DEF TypeOK, Places, Readers, ToSet

\* What may change without disturbing the types.
Gate ==
  /\ pc \in [Readers -> Places] /\ queue \in Seq(Turns) /\ starters \in Seq(Turns)
  /\ ready \in {"null", "pending", "resolved", "rejected"}
  /\ read \subseteq Turns \X Readers
  /\ HolderOnly

LEMMA GateKept ==
  ASSUME TypeInv, UNCHANGED <<pc, queue, starters, ready, read>>
  PROVE  Gate'
BY Types DEF TypeInv, TypeOK, Gate, HolderOnly, Active

\* One reader moves, and the queue is left alone or grows.
LEMMA GateMoved ==
  ASSUME TypeInv, NEW r \in Readers, NEW place \in Places, pc' = Moved({r}, place),
         NEW t \in Turns, queue' \in {queue, Append(queue, t)},
         place \in {"reading", "shown", "draining"} /\ r \in Turns => queue # <<>> /\ r = Head(queue),
         starters' \in Seq(Turns), ready' \in {"null", "pending", "resolved", "rejected"},
         read' \subseteq Turns \X Readers
  PROVE  Gate'
<1>1. pc \in [Readers -> Places] /\ queue \in Seq(Turns) /\ Turns \subseteq Readers
  BY Types DEF TypeInv
<1>2. /\ pc' \in [Readers -> Places] /\ pc'[r] = place
      /\ \A u \in Readers \ {r} : pc'[u] = pc[u]
  BY <1>1 DEF Moved
<1>3. /\ queue' \in Seq(Turns)
      /\ queue # <<>> => queue' # <<>> /\ Head(queue') = Head(queue)
  <2>1. /\ Append(queue, t) \in Seq(Turns)
        /\ queue # <<>> => Append(queue, t) # <<>> /\ Head(Append(queue, t)) = Head(queue)
    BY <1>1, Appended
  <2>2. CASE queue' = queue
    BY <1>1, <2>2
  <2>3. CASE queue' = Append(queue, t)
    BY <2>1, <2>3
  <2>4. QED BY <2>2, <2>3
<1>4. HolderOnly'
  <2> SUFFICES ASSUME NEW u \in Turns, Active(u)' PROVE queue' # <<>> /\ u = Head(queue')
    BY DEF HolderOnly
  <2>1. CASE u = r
    BY <1>2, <1>3, <2>1 DEF Active
  <2>2. CASE u # r
    <3>1. Active(u)
      BY <1>1, <1>2, <2>2 DEF Active
    <3>2. QED BY <1>3, <3>1 DEF TypeInv, HolderOnly
  <2>3. QED BY <2>1, <2>2
<1>5. QED BY <1>2, <1>3, <1>4 DEF Gate

\* The holder ends: nobody else was on the bridge.
LEMMA GateEnds ==
  ASSUME TypeInv, NEW t \in Turns, Active(t), NEW place \in Ended, Ends(t, place),
         UNCHANGED <<ready, starters>>, read' \subseteq Turns \X Readers
  PROVE  Gate'
<1>1. /\ pc \in [Readers -> Places] /\ queue \in Seq(Turns) /\ Turns \subseteq Readers
      /\ starters' \in Seq(Turns) /\ ready' \in {"null", "pending", "resolved", "rejected"}
  BY Types DEF TypeInv, TypeOK
<1>2. queue # <<>> /\ t = Head(queue) /\ \A u \in Turns \ {t} : ~Active(u)
  BY DEF TypeInv, HolderOnly
<1>3. /\ pc' \in [Readers -> Places] /\ pc'[t] = place
      /\ \A u \in Readers \ {t} : pc'[u] = pc[u]
  BY <1>1 DEF Ends, Moved, Places
<1>4. queue' \in Seq(Turns)
  BY <1>1, <1>2, HeadTailProperties DEF Ends
<1>5. \A u \in Turns : ~Active(u)'
  BY <1>1, <1>2, <1>3 DEF Active, Ended
<1>6. QED BY <1>1, <1>3, <1>4, <1>5 DEF Gate, HolderOnly

LEMMA GateSettles ==
  ASSUME TypeInv, NEW b \in BOOLEAN, NEW loop \in Places, Settle(b, loop), read' = read
  PROVE  Gate'
<1>1. /\ pc \in [Readers -> Places] /\ queue \in Seq(Turns) /\ starters \in Seq(Turns)
      /\ Turns \subseteq Readers /\ InitLoop \notin Turns /\ read \subseteq Turns \X Readers
  BY Types DEF TypeInv
<1>2. ready' \in {"resolved", "rejected"} /\ starters' = <<>>
  BY DEF Settle
<1>3. pc' \in [Readers -> Places]
  <2>1. \A place \in {"waiting", "failed"} : Moved(ToSet(starters), place) \in [Readers -> Places]
    BY <1>1 DEF Moved, Places, Ended
  <2>2. QED BY <2>1 DEF Settle
<1>4. \A t \in Turns : pc'[t] \in {pc[t], "waiting", "failed"}
  BY <1>1 DEF Settle, Moved
<1>5. /\ queue' \in Seq(Turns)
      /\ queue # <<>> => queue' # <<>> /\ Head(queue') = Head(queue)
  <2>1. queue' = queue \/ queue' = queue \o starters
    BY DEF Settle
  <2>2. queue \o starters \in Seq(Turns)
    BY <1>1, ConcatProperties
  <2>3. QED BY <1>1, <2>1, <2>2, Joined
<1>6. HolderOnly'
  BY <1>4, <1>5 DEF TypeInv, HolderOnly, Active
<1>7. starters' \in Seq(Turns)
  BY <1>2
<1>8. QED BY <1>1, <1>2, <1>3, <1>5, <1>6, <1>7 DEF Gate

LEMMA GateTakes ==
  ASSUME TypeInv, NEW r \in Readers, NEW f \in Frame, Take(r, f)
  PROVE  Gate'
<1>1. /\ f.kind \in {"ready", "text", "done", "err"} /\ f.of \in Readers
      /\ starters \in Seq(Turns) /\ ready \in {"null", "pending", "resolved", "rejected"}
      /\ read \subseteq Turns \X Readers /\ InitLoop \in Readers /\ InitLoop \notin Turns
      /\ pc \in [Readers -> Places]
  BY Types DEF TypeInv, TypeOK, Frame
<1>2. CASE r = InitLoop
  <2>1. TakeInit(f)
    BY <1>2 DEF Take
  <2>2. read' = read
    BY <2>1 DEF TakeInit
  <2>3. CASE f.kind \in {"ready", "err"} /\ ready = "pending"
    BY <2>1, <2>2, <2>3, GateSettles DEF TakeInit, Places
  <2>4. CASE f.kind \in {"ready", "err"} /\ ready # "pending"
    <3>1. pc' = Moved({InitLoop}, "idle") /\ UNCHANGED <<ready, queue, starters>>
      BY <2>1, <2>4 DEF TakeInit
    <3>2. /\ pc' \in [Readers -> Places] /\ \A t \in Turns : pc'[t] = pc[t]
      BY <1>1, <3>1, Types DEF Moved, Places, TypeInv
    <3>3. Gate
      BY GateKept, Types DEF TypeInv, TypeOK, Gate
    <3>4. HolderOnly'
      BY <3>1, <3>2 DEF TypeInv, HolderOnly, Active
    <3>5. QED BY <2>2, <3>1, <3>2, <3>3, <3>4 DEF Gate
  <2>5. CASE f.kind \notin {"ready", "err"}
    BY <2>1, <2>2, <2>5, GateKept DEF TakeInit
  <2>6. QED BY <2>3, <2>4, <2>5
<1>3. CASE r # InitLoop /\ pc[r] = "reading"
  <2>1. TakeReading(r, f) /\ r \in Turns /\ Active(r)
    BY <1>2, <1>3 DEF Take, Readers, Active
  <2>2. UNCHANGED <<ready, starters>> /\ read' \subseteq Turns \X Readers
    BY <1>1, <2>1 DEF TakeReading
  <2>3. CASE f.kind = "text"
    <3>1. pc' = Moved({r}, "shown") /\ queue' = queue
      BY <2>1, <2>3 DEF TakeReading
    <3>2. queue # <<>> /\ r = Head(queue)
      BY <2>1 DEF TypeInv, HolderOnly
    <3>3. QED BY <1>1, <2>1, <2>2, <3>1, <3>2, GateMoved DEF Places
  <2>4. CASE f.kind \in {"done", "err"}
    BY <2>1, <2>2, <2>4, GateEnds DEF TakeReading, Ended
  <2>5. CASE f.kind = "ready"
    BY <2>1, <2>2, <2>5, GateKept DEF TakeReading
  <2>6. QED BY <1>1, <2>3, <2>4, <2>5
<1>4. CASE r # InitLoop /\ pc[r] = "draining"
  <2>1. TakeDraining(r, f) /\ r \in Turns /\ Active(r)
    BY <1>2, <1>4 DEF Take, Readers, Active
  <2>2. UNCHANGED <<ready, starters, read>> /\ (Ends(r, "cut") \/ UNCHANGED <<pc, queue>>)
    BY <2>1 DEF TakeDraining
  <2>3. QED BY <1>1, <2>1, <2>2, GateEnds, GateKept DEF Ended
<1>5. QED BY <1>2, <1>3, <1>4 DEF Take

\* The other half of the types.
Pipes ==
  /\ waiters \in Seq(Readers) /\ pending \in Seq(Frame) /\ wire \in Seq(Frame)
  /\ child \in {"none", "starting", "up", "exited", "unspawned"}
  /\ stdin \in Seq(Turns) /\ working \subseteq Turns /\ straggling \subseteq Turns
  /\ errors \in 0 .. MaxErrors /\ exits \in 0 .. MaxExits

LEMMA Halves == TypeInv <=> Gate /\ Pipes
BY DEF TypeInv, Gate, Pipes, TypeOK, Places

\* The frames the steps print.
LEMMA Printed ==
  ASSUME wire \in Seq(Frame), NEW r \in Readers, NEW k \in {"ready", "text", "done", "err"},
         NEW j \in {"ready", "text", "done", "err"}
  PROVE  Append(wire, F(k, r)) \in Seq(Frame) /\ wire \o <<F(j, r), F(k, r)>> \in Seq(Frame)
<1>1. F(k, r) \in Frame /\ F(j, r) \in Frame
  BY FrameOf
<1>2. <<F(j, r), F(k, r)>> \in Seq(Frame)
  BY <1>1
<1>3. QED BY <1>1, <1>2, AppendProperties, ConcatProperties

LEMMA TypeInit == Init => TypeInv
<1> SUFFICES ASSUME Init PROVE TypeInv
  OBVIOUS
<1>1. \A r \in Readers : pc[r] = "idle"
  BY DEF Init
<1>2. HolderOnly
  BY <1>1 DEF HolderOnly, Active, Readers
<1>3. QED BY <1>2, ConstantsAssumption DEF Init, TypeInv, TypeOK

LEMMA TypeStep == TypeInv /\ [Next]_vars => TypeInv'
<1> SUFFICES ASSUME TypeInv, [Next]_vars PROVE TypeInv'
  OBVIOUS
<1>1. SUFFICES Gate' /\ Pipes'
  BY Halves DEF TypeInv, Gate, Pipes, TypeOK, Places, HolderOnly, Active
<1>2. Gate /\ Pipes
  BY Halves
<1>3. /\ Turns \subseteq Readers /\ InitLoop \in Readers /\ InitLoop \notin Turns
      /\ pc \in [Readers -> Places]
  BY Types DEF TypeInv
<1>4. CASE UNCHANGED vars
  BY <1>2, <1>4, GateKept DEF vars, gateway, bridge, Pipes
<1>5. ASSUME NEW t \in Turns, Start(t)
      PROVE  Gate' /\ Pipes'
  <2>1. Pipes'
    BY <1>2, <1>5 DEF Start, Pipes
  <2>2. /\ read' = read /\ ready' \in {"null", "pending", "resolved", "rejected"}
        /\ starters' \in Seq(Turns) /\ queue' \in {queue, Append(queue, t)}
    <3>1. Append(starters, t) \in Seq(Turns) /\ <<t>> \in Seq(Turns)
      BY <1>2, Appended DEF Gate
    <3>2. QED BY <1>2, <1>5, <3>1 DEF Start, Gate
  <2>3. CASE ready # "null"
    <3>1. PICK place \in {"starting", "waiting", "failed"} : pc' = Moved({t}, place)
      BY <1>5, <2>3 DEF Start
    <3>2. QED BY <1>2, <1>3, <2>1, <2>2, <3>1, GateMoved DEF Places, Ended, Gate
  <2>4. CASE ready = "null"
    <3>1. pc' = [pc EXCEPT ![t] = "starting", ![InitLoop] = "reading"] /\ queue' = queue
      BY <1>5, <2>4 DEF Start
    <3>2. /\ pc' \in [Readers -> Places] /\ pc'[t] = "starting"
          /\ \A u \in Turns \ {t} : pc'[u] = pc[u]
      BY <1>3, <3>1 DEF Places
    <3>3. HolderOnly'
      BY <3>1, <3>2 DEF TypeInv, HolderOnly, Active
    <3>4. QED BY <1>2, <2>1, <2>2, <3>1, <3>2, <3>3 DEF Gate
  <2>5. QED BY <2>3, <2>4
<1>6. ASSUME NEW t \in Turns, Granted(t)
      PROVE  Gate' /\ Pipes'
  <2>1. queue # <<>> /\ t = Head(queue)
    BY <1>6 DEF Granted, Awoken
  <2>2. /\ UNCHANGED <<starters, queue, ready, waiters, pending, read, child, working, straggling, errors, exits, wire>>
        /\ stdin' \in {stdin, Append(stdin, t)}
        /\ \E place \in {"draining", "reading"} : pc' = Moved({t}, place)
    BY <1>6 DEF Granted, gateway
  <2>3. Pipes'
    <3>1. Append(stdin, t) \in Seq(Turns)
      BY <1>2, Appended DEF Pipes
    <3>2. QED BY <1>2, <2>2, <3>1 DEF Pipes
  <2>4. PICK place \in {"draining", "reading"} : pc' = Moved({t}, place)
    BY <2>2
  <2>5. QED BY <1>2, <1>3, <2>1, <2>2, <2>3, <2>4, GateMoved DEF Places, Gate
<1>7. ASSUME NEW t \in Turns, Resume(t) \/ Leave(t)
      PROVE  Gate' /\ Pipes'
  <2>1. /\ UNCHANGED <<starters, queue, ready, waiters, pending, read, child, stdin, working, straggling, errors, exits, wire>>
        /\ pc[t] = "shown" /\ \E place \in {"draining", "reading"} : pc' = Moved({t}, place)
    BY <1>7 DEF Resume, Leave, gateway, bridge
  <2>2. Pipes'
    BY <1>2, <2>1 DEF Pipes
  <2>3. queue # <<>> /\ t = Head(queue)
    BY <2>1 DEF TypeInv, HolderOnly, Active
  <2>4. PICK place \in {"draining", "reading"} : pc' = Moved({t}, place)
    BY <2>1
  <2>5. QED BY <1>2, <1>3, <2>1, <2>2, <2>3, <2>4, GateMoved DEF Places, Gate
<1>8. ASSUME NEW r \in Readers, NextFrame(r)
      PROVE  Gate' /\ Pipes'
  <2>1. UNCHANGED <<child, stdin, working, straggling, errors, exits, wire>>
    BY <1>8 DEF NextFrame, bridge
  <2>2. CASE pending # <<>>
    <3>1. Tail(pending) \in Seq(Frame) /\ Head(pending) \in Frame
      BY <1>2, <2>2, HeadTailProperties DEF Pipes
    <3>2. pending' = Tail(pending) /\ Take(r, Head(pending)) /\ waiters' = waiters
      BY <1>8, <2>2 DEF NextFrame
    <3>3. QED BY <1>2, <2>1, <3>1, <3>2, GateTakes DEF Pipes
  <2>3. CASE pending = <<>>
    <3>1. /\ UNCHANGED <<pc, starters, queue, ready, pending, read>> /\ waiters' = Append(waiters, r)
      BY <1>8, <2>3 DEF NextFrame
    <3>2. waiters' \in Seq(Readers)
      BY <1>2, <3>1, AppendProperties DEF Pipes
    <3>3. QED BY <1>2, <2>1, <3>1, <3>2, GateKept DEF Pipes
  <2>4. QED BY <2>2, <2>3
<1>9. CASE Line
  <2>1. /\ UNCHANGED <<child, stdin, working, straggling, errors, exits>>
        /\ wire' = Tail(wire) /\ Tail(wire) \in Seq(Frame) /\ Head(wire) \in Frame
    BY <1>2, <1>9, HeadTailProperties DEF Line, bridge, Pipes
  <2>2. CASE waiters # <<>>
    <3>1. Tail(waiters) \in Seq(Readers) /\ Head(waiters) \in Readers
      BY <1>2, <2>2, HeadTailProperties DEF Pipes
    <3>2. waiters' = Tail(waiters) /\ Take(Head(waiters), Head(wire)) /\ pending' = pending
      BY <1>9, <2>2 DEF Line
    <3>3. QED BY <1>2, <2>1, <3>1, <3>2, GateTakes DEF Pipes
  <2>3. CASE waiters = <<>>
    <3>1. /\ UNCHANGED <<pc, starters, queue, ready, waiters, read>>
          /\ pending' = Append(pending, Head(wire))
      BY <1>9, <2>3 DEF Line
    <3>2. pending' \in Seq(Frame)
      BY <1>2, <2>1, <3>1, AppendProperties DEF Pipes
    <3>3. QED BY <1>2, <2>1, <3>1, <3>2, GateKept DEF Pipes
  <2>4. QED BY <2>2, <2>3
<1>10. CASE ExitEvent
  <2> DEFINE woken == ToSet(waiters)
             fail == IF InitLoop \in woken THEN ToSet(starters) ELSE {}
  <2>1. /\ ~Busy /\ child' = "none" /\ ready' = "null" /\ waiters' = <<>>
        /\ UNCHANGED <<pending, read, stdin, working, straggling, errors, exits, wire>>
        /\ starters' \in {starters, <<>>} /\ queue' \in {queue, Tail(queue)}
        /\ queue' # queue => queue # <<>>
    BY <1>10 DEF ExitEvent
  <2>2. pc' = [r \in Readers |->
                 IF r \in fail THEN "failed"
                 ELSE IF r \notin woken THEN pc[r]
                 ELSE IF r = InitLoop THEN "idle"
                 ELSE IF pc[r] = "reading" THEN "error" ELSE "cut"]
    BY <1>10 DEF ExitEvent
  <2>3. Pipes'
    BY <1>2, <2>1, EmptySeq DEF Pipes
  <2>4. pc' \in [Readers -> Places]
    <3>1. \A r \in Readers : pc'[r] \in {"failed", "idle", "error", "cut", pc[r]}
      BY <2>2
    <3>2. \A r \in Readers : pc'[r] \in Places
      BY <1>3, <3>1 DEF Places, Ended
    <3>3. QED BY <2>2, <3>2
  <2>5. ASSUME NEW t \in Turns
        PROVE  ~Active(t)'
    <3>1. Active(t) => t \in woken
      BY <1>3, <2>1 DEF Busy, Asking, Active
    <3>2. pc'[t] \in {"failed", "error", "cut"} \/ (t \notin woken /\ pc'[t] = pc[t])
      BY <1>3, <2>2
    <3>3. QED BY <3>1, <3>2 DEF Active
  <2>6. queue' \in Seq(Turns) /\ starters' \in Seq(Turns)
    BY <1>2, <2>1, HeadTailProperties, EmptySeq DEF Gate
  <2>7. QED BY <1>2, <2>1, <2>3, <2>4, <2>5, <2>6 DEF Gate, HolderOnly
<1>11. CASE InitTimeout
  <2>1. /\ Settle(FALSE, pc[InitLoop]) /\ read' = read
        /\ UNCHANGED <<waiters, pending, child, stdin, working, straggling, errors, exits, wire>>
    BY <1>11 DEF InitTimeout, bridge
  <2>2. QED BY <1>2, <1>3, <2>1, GateSettles DEF Pipes
<1>12. CASE SpawnError
  <2>1. /\ child' = "unspawned" /\ read' = read
        /\ UNCHANGED <<waiters, pending, stdin, working, straggling, errors, exits, wire>>
        /\ Settle(FALSE, pc[InitLoop]) \/ UNCHANGED <<pc, starters, queue, ready>>
    BY <1>12 DEF SpawnError
  <2>2. Pipes'
    BY <1>2, <2>1 DEF Pipes
  <2>3. QED BY <1>3, <2>1, <2>2, GateSettles, GateKept
<1>13. ASSUME NEW t \in Turns, Says(t) \/ Finishes(t) \/ Fails(t)
       PROVE  Gate' /\ Pipes'
  <2>1. Gate'
    BY <1>13, GateKept DEF Says, Finishes, Fails, gateway
  <2>2. wire' \in Seq(Frame)
    BY <1>2, <1>3, <1>13, Printed DEF Says, Finishes, Fails, Pipes
  <2>3. errors' \in 0 .. MaxErrors /\ exits' \in 0 .. MaxExits
    BY <1>2, <1>13, ConstantsAssumption DEF Says, Finishes, Fails, Pipes, bridge
  <2>4. QED BY <1>2, <1>13, <2>1, <2>2, <2>3 DEF Says, Finishes, Fails, Pipes, gateway, bridge
<1>14. CASE Initialized
  BY <1>2, <1>3, <1>14, GateKept, Printed DEF Initialized, Pipes, gateway
<1>15. CASE Prompted
  <2>1. Head(stdin) \in Turns /\ Tail(stdin) \in Seq(Turns)
    BY <1>2, <1>15, HeadTailProperties DEF Prompted, Pipes
  <2>2. QED BY <1>2, <1>15, <2>1, GateKept DEF Prompted, Pipes, gateway
<1>16. CASE Exits
  <2>1. exits' \in 0 .. MaxExits
    BY <1>2, <1>16, ConstantsAssumption DEF Exits, Pipes
  <2>2. QED BY <1>2, <1>16, <2>1, GateKept, EmptySeq DEF Exits, Pipes, gateway
<1>17. QED
  BY <1>4, <1>5, <1>6, <1>7, <1>8, <1>9, <1>10, <1>11, <1>12, <1>13, <1>14, <1>15, <1>16 DEF Next

\* The type invariant of the bridge, with the lock's part in it: a turn that
\* reads, shows or drains is the one at the head of turnLock's queue, in every
\* run with failing turns and exits (hermes-acp.ts: runHermesTurn).
THEOREM TypeCorrect == Spec => []TypeOK
<1>1. TypeInv => TypeOK
  BY DEF TypeInv
<1>2. QED BY <1>1, TypeInit, TypeStep, PTL DEF Spec
=============================================================================
