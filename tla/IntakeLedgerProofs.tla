-------------------------- MODULE IntakeLedgerProofs --------------------------
(***************************************************************************)
(* Proofs about IntakeLedger, for any set of writers, any number of        *)
(* attempts, any cap and any number of mishaps.                            *)
(*                                                                         *)
(* The argument about the two lock files turns on who died. At most one    *)
(* writer has, and no live one lets a file grow stale. If it died with the *)
(* lock, the breaker is never stale, excludes, and only its holder renames *)
(* the lock away. If it died without, writers may clear each other's       *)
(* breakers, but the lock is never stale and nobody renames it.            *)
(***************************************************************************)
EXTENDS IntakeLedger, FiniteSetTheorems, SequenceTheorems, TLAPS

-----------------------------------------------------------------------------
(* Types *)

Places ==
  Answers \cup {"idle", "look1", "look2", "clear1", "clear2",
    "lookAgain1", "lookAgain2", "link", "break", "readAge", "rename",
    "freeBreaker", "unlinkBreaker", "lost", "read", "write", "free", "unlink"}

\* The shapes of the state, without the ledger itself.
Shape ==
  /\ pc \in [Writers -> Places]
  /\ attempt \in [Writers -> Nat]
  /\ failed \subseteq Writers
  /\ lock \in Writers \cup {NoOne} /\ breaker \in Writers \cup {NoOne}
  /\ stale \subseteq {"lock", "breaker"}
  /\ undisturbed \subseteq Writers
  /\ crashes \in Nat /\ stalls \in Nat /\ faults \in Nat

\* A writer that goes to another place.
LEMMA GoesTo ==
  ASSUME Shape, NEW w \in Writers, NEW from, NEW to \in Places, Goes(w, from, to)
  PROVE  /\ pc[w] = from /\ pc' \in [Writers -> Places] /\ pc'[w] = to
         /\ \A v \in Writers \ {w} : pc'[v] = pc[v]
BY DEF Goes, Shape

\* Where each action goes from and to.
LEMMA Steps ==
  ASSUME Shape, NEW w \in Writers, Start(w) \/ Writer(w)
  PROVE  \E from \in Places, to \in Places : Goes(w, from, to)
BY DEF Start, Writer, Look, Clear, LookAgain, Link, Break, ReadAge, Rename, FreeBreaker,
       UnlinkBreaker, Loses, Read, Store, Free, Unlink, LookAt, ClearAt, LookAgainAt, AfterRound,
       Places, Answers, Answer, Goes

LEMMA ShapeStep == Shape /\ [Next]_vars => Shape'
<1> SUFFICES ASSUME Shape, [Next]_vars PROVE Shape'
  OBVIOUS
<1>1. ASSUME NEW w \in Writers, Start(w) \/ Writer(w)
      PROVE  Shape'
  <2>1. pc' \in [Writers -> Places]
    BY <1>1, Steps, GoesTo
  <2>2. faults' \in Nat /\ crashes' \in Nat /\ stalls' \in Nat
    BY <1>1 DEF Shape, Start, Writer, Look, Clear, LookAgain, Link, Break, ReadAge, Rename, FreeBreaker,
       UnlinkBreaker, Loses, Read, Store, Free, Unlink, Works, Fault, Steady
  <2>3. attempt' \in [Writers -> Nat] /\ failed' \subseteq Writers /\ undisturbed' \subseteq Writers
    BY <1>1 DEF Shape, Start, Writer, Look, Clear, LookAgain, Link, Break, ReadAge, Rename, FreeBreaker,
       UnlinkBreaker, Loses, Read, Store, Free, Unlink, Steady
  <2>4. /\ lock' \in Writers \cup {NoOne} /\ breaker' \in Writers \cup {NoOne}
        /\ stale' \subseteq {"lock", "breaker"}
    BY <1>1 DEF Shape, Start, Writer, Look, Clear, LookAgain, Link, Break, ReadAge, Rename, FreeBreaker,
       UnlinkBreaker, Loses, Read, Store, Free, Unlink, locks
  <2>5. QED BY <2>1, <2>2, <2>3, <2>4 DEF Shape
<1>2. ASSUME NEW w \in Writers, Crash(w)
      PROVE  Shape'
  <2>1. pc' = [pc EXCEPT ![w] = "dead"] /\ crashes' = crashes + 1
        /\ UNCHANGED <<attempt, failed, lock, breaker, stale, undisturbed, stalls, faults>>
    BY <1>2 DEF Crash, locks
  <2>2. QED BY <2>1 DEF Shape, Places, Answers
<1>3. CASE Age("lock", lock) \/ Age("breaker", breaker)
  <2>1. /\ UNCHANGED <<pc, attempt, failed, lock, breaker, undisturbed, crashes, faults>>
        /\ stale' \subseteq {"lock", "breaker"}
    BY <1>3 DEF Age, Shape
  <2>2. stalls' \in {stalls, stalls + 1}
    BY <1>3 DEF Age
  <2>3. QED BY <2>1, <2>2 DEF Shape
<1>4. CASE UNCHANGED vars
  BY <1>4 DEF vars, locks, Shape
<1>5. QED BY <1>1, <1>2, <1>3, <1>4 DEF Next

LEMMA ShapeInit == Init => Shape
BY DEF Init, Shape, Places

LEMMA AlwaysShaped == Spec => []Shape
BY ShapeInit, ShapeStep, PTL DEF Spec

-----------------------------------------------------------------------------
(* The two lock files *)

Dead(w) == pc[w] = "dead"
BreakerPlaces == {"readAge", "rename", "freeBreaker", "unlinkBreaker"}

\* At most one writer was killed.
OneDead ==
  /\ crashes = 0 => \A w \in Writers : ~Dead(w)
  /\ \A v, w \in Writers : Dead(v) /\ Dead(w) => v = w

\* The lock belongs to the writer inside, or to the dead one.
LockHeld ==
  /\ \A w \in Writers : pc[w] \in Inside => lock = w
  /\ \A w \in Writers : lock = w => pc[w] \in Inside \cup {"dead"}

\* The breaker belongs to a writer that is breaking, or to the dead one.
BreakerHeld ==
  \A w \in Writers : breaker = w => lock # w /\ pc[w] \in BreakerPlaces \cup {"dead"}

\* A stale file, and a lock about to be renamed away, is the dead writer's.
StaleIsDead ==
  /\ "lock" \in stale => \E d \in Writers : lock = d /\ Dead(d)
  /\ "breaker" \in stale => \E d \in Writers : breaker = d /\ Dead(d)
  /\ \A w \in Writers : pc[w] = "rename" => \E d \in Writers : lock = d /\ Dead(d)

\* A writer that clears a stale breaker knows of a dead writer without the lock.
ClearedInVain ==
  \A w \in Writers : pc[w] \in {"clear1", "clear2"} =>
    \E d \in Writers : Dead(d) /\ lock # d

\* While no writer has died without the lock, the breaker excludes others.
OneBreaker ==
  (\A d \in Writers : Dead(d) => lock = d) =>
     \A w \in Writers : pc[w] \in BreakerPlaces => breaker = w

Locks == OneDead /\ LockHeld /\ BreakerHeld /\ StaleIsDead /\ ClearedInVain /\ OneBreaker

\* A writer that goes on is not the dead one and does not die.
LEMMA Onward ==
  ASSUME Shape, NEW w \in Writers, Start(w) \/ Writer(w)
  PROVE  /\ crashes' = crashes /\ pc[w] # "dead" /\ pc'[w] # "dead"
         /\ \A v \in Writers \ {w} : pc'[v] = pc[v]
<1>1. PICK from \in Places, to \in Places : Goes(w, from, to)
  BY Steps
<1>2. /\ pc[w] = from /\ pc' \in [Writers -> Places] /\ pc'[w] = to
      /\ \A v \in Writers \ {w} : pc'[v] = pc[v]
  BY <1>1, GoesTo
<1>3. crashes' = crashes
  BY DEF Start, Writer, Look, Clear, LookAgain, Link, Break, ReadAge, Rename, FreeBreaker,
       UnlinkBreaker, Loses, Read, Store, Free, Unlink, Steady
<1>4. pc[w] # "dead" /\ pc'[w] # "dead"
  BY <1>2 DEF Start, Writer, Look, Clear, LookAgain, Link, Break, ReadAge, Rename, FreeBreaker,
       UnlinkBreaker, Loses, Read, Store, Free, Unlink, Goes, Shape, LookAt, ClearAt, LookAgainAt,
       AfterRound, Answer
<1>5. QED BY <1>2, <1>3, <1>4

\* A step outside both critical sections that leaves the files alone.
LEMMA Outside ==
  ASSUME Shape, Locks, NEW w \in Writers, Start(w) \/ Writer(w), UNCHANGED locks,
         pc[w] \notin BreakerPlaces \cup Inside, pc'[w] \notin BreakerPlaces \cup Inside,
         pc'[w] \in {"clear1", "clear2"} => "breaker" \in stale
  PROVE  Locks'
<1>1. /\ crashes' = crashes /\ pc[w] # "dead" /\ pc'[w] # "dead"
      /\ \A v \in Writers \ {w} : pc'[v] = pc[v]
  BY Onward
<1>2. lock' = lock /\ breaker' = breaker /\ stale' = stale
  BY DEF locks
<1>3. OneDead'
  BY <1>1 DEF Locks, OneDead, Dead
<1>4. LockHeld'
  BY <1>1, <1>2 DEF Locks, LockHeld
<1>5. BreakerHeld'
  BY <1>1, <1>2 DEF Locks, BreakerHeld
<1>6. StaleIsDead'
  BY <1>1, <1>2 DEF Locks, StaleIsDead, Dead, BreakerPlaces
<1>7. ClearedInVain'
  BY <1>1, <1>2 DEF Locks, ClearedInVain, StaleIsDead, BreakerHeld, Dead
<1>8. OneBreaker'
  BY <1>1, <1>2 DEF Locks, OneBreaker, Dead
<1>9. QED BY <1>3, <1>4, <1>5, <1>6, <1>7, <1>8 DEF Locks

\* The actions that change the files, one by one.
LEMMA ClearKeeps ==
  ASSUME Shape, Locks, NEW w \in Writers, NEW n \in 1 .. 2, Clear(w, n), Withstood'
  PROVE  Locks'
<1>1. /\ crashes' = crashes /\ pc[w] # "dead" /\ pc'[w] # "dead"
      /\ \A v \in Writers \ {w} : pc'[v] = pc[v]
  BY Onward DEF Writer
<1>2. /\ lock' = lock /\ breaker' = NoOne /\ stale' = stale \ {"breaker"}
      /\ pc[w] \in {"clear1", "clear2"} /\ pc'[w] \in {"lookAgain1", "lookAgain2"}
  BY DEF Clear, Withstood, Fault, Shape, Goes, ClearAt, LookAgainAt
<1>3. OneDead'
  BY <1>1 DEF Locks, OneDead, Dead
<1>4. LockHeld'
  BY <1>1, <1>2 DEF Locks, LockHeld, Inside, Critical
<1>5. BreakerHeld'
  BY <1>2, ConstantsAssumption DEF BreakerHeld
<1>6. StaleIsDead'
  BY <1>1, <1>2 DEF Locks, StaleIsDead, Dead
<1>7. ClearedInVain'
  BY <1>1, <1>2 DEF Locks, ClearedInVain, Dead
<1>8. OneBreaker'
  BY <1>1, <1>2 DEF Locks, ClearedInVain, OneBreaker, Dead
<1>9. QED BY <1>3, <1>4, <1>5, <1>6, <1>7, <1>8 DEF Locks

LEMMA LinkKeeps ==
  ASSUME Shape, Locks, NEW w \in Writers, Link(w), Withstood'
  PROVE  Locks'
<1>1. /\ crashes' = crashes /\ pc[w] # "dead" /\ pc'[w] # "dead"
      /\ \A v \in Writers \ {w} : pc'[v] = pc[v]
  BY Onward DEF Writer
<1>2. pc[w] = "link"
  BY DEF Link, Goes
<1>3. CASE lock = NoOne
  <2>1. lock' = w /\ breaker' = breaker /\ stale' = stale \ {"lock"} /\ pc'[w] = "read"
    BY <1>3 DEF Link, Withstood, Fault, Shape, Goes
  <2>2. OneDead'
    BY <1>1 DEF Locks, OneDead, Dead
  <2>3. LockHeld'
    BY <1>1, <1>2, <1>3, <2>1, ConstantsAssumption DEF Locks, LockHeld, Inside, Critical
  <2>4. BreakerHeld'
    BY <1>1, <1>2, <2>1 DEF Locks, BreakerHeld, BreakerPlaces
  <2>5. StaleIsDead'
    BY <1>1, <1>2, <1>3, <2>1, ConstantsAssumption DEF Locks, StaleIsDead, Dead
  <2>6. ClearedInVain'
    BY <1>1, <1>2, <2>1 DEF Locks, ClearedInVain, Dead
  <2>7. OneBreaker'
    BY <1>1, <1>2, <2>1 DEF Locks, OneBreaker, Dead, BreakerPlaces
  <2>8. QED BY <2>2, <2>3, <2>4, <2>5, <2>6, <2>7 DEF Locks
<1>4. CASE lock # NoOne
  <2>1. UNCHANGED locks /\ pc'[w] = "break"
    BY <1>4 DEF Link, Withstood, Fault, Shape, Goes, locks
  <2>2. QED BY <1>2, <2>1, Outside DEF Writer, BreakerPlaces, Inside, Critical
<1>5. QED BY <1>3, <1>4

LEMMA BreakKeeps ==
  ASSUME Shape, Locks, NEW w \in Writers, Break(w), Withstood'
  PROVE  Locks'
<1>1. /\ crashes' = crashes /\ pc[w] # "dead" /\ pc'[w] # "dead"
      /\ \A v \in Writers \ {w} : pc'[v] = pc[v]
  BY Onward DEF Writer
<1>2. pc[w] = "break"
  BY DEF Break, Goes
<1>3. CASE breaker = NoOne
  <2>1. lock' = lock /\ breaker' = w /\ stale' = stale \ {"breaker"} /\ pc'[w] = "readAge"
    BY <1>3 DEF Break, Withstood, Fault, Shape, Goes
  <2>2. OneDead'
    BY <1>1 DEF Locks, OneDead, Dead
  <2>3. LockHeld'
    BY <1>1, <1>2, <2>1 DEF Locks, LockHeld, Inside, Critical
  <2>4. BreakerHeld'
    BY <1>1, <1>2, <2>1 DEF Locks, BreakerHeld, LockHeld, BreakerPlaces, Inside, Critical
  <2>5. StaleIsDead'
    BY <1>1, <1>2, <2>1 DEF Locks, StaleIsDead, Dead
  <2>6. ClearedInVain'
    BY <1>1, <1>2, <2>1 DEF Locks, ClearedInVain, Dead
  <2>7. OneBreaker'
    BY <1>1, <1>2, <1>3, <2>1, ConstantsAssumption DEF Locks, OneBreaker, Dead, BreakerPlaces
  <2>8. QED BY <2>2, <2>3, <2>4, <2>5, <2>6, <2>7 DEF Locks
<1>4. CASE breaker # NoOne
  <2>1. UNCHANGED locks /\ pc'[w] = "lost"
    BY <1>4 DEF Break, Withstood, Fault, Shape, Goes, locks
  <2>2. QED BY <1>2, <2>1, Outside DEF Writer, BreakerPlaces, Inside, Critical
<1>5. QED BY <1>3, <1>4

\* A writer inside its breaker or its lock goes on inside, or leaves a breaker
\* that is not its own.
LEMMA WithinKeeps ==
  ASSUME Shape, Locks, NEW w \in Writers, Writer(w), UNCHANGED locks,
         pc[w] \in BreakerPlaces \cup Inside,
         \/ pc[w] \in BreakerPlaces /\ pc'[w] \in BreakerPlaces
         \/ pc[w] \in BreakerPlaces /\ breaker # w /\ pc'[w] = "lost"
         \/ pc[w] \in Inside /\ pc'[w] \in Inside,
         pc'[w] = "rename" => "lock" \in stale
  PROVE  Locks'
<1>1. /\ crashes' = crashes /\ pc[w] # "dead" /\ pc'[w] # "dead"
      /\ \A v \in Writers \ {w} : pc'[v] = pc[v]
  BY Onward DEF Writer
<1>2. lock' = lock /\ breaker' = breaker /\ stale' = stale
  BY DEF locks
<1>3. OneDead'
  BY <1>1 DEF Locks, OneDead, Dead
<1>4. LockHeld'
  BY <1>1, <1>2 DEF Locks, LockHeld, BreakerPlaces, Inside, Critical
<1>5. BreakerHeld'
  BY <1>1, <1>2 DEF Locks, BreakerHeld, BreakerPlaces, Inside, Critical
<1>6. StaleIsDead'
  BY <1>1, <1>2 DEF Locks, StaleIsDead, Dead
<1>7. ClearedInVain'
  BY <1>1, <1>2 DEF Locks, ClearedInVain, Dead, BreakerPlaces, Inside, Critical
<1>8. OneBreaker'
  BY <1>1, <1>2 DEF Locks, OneBreaker, Dead, BreakerPlaces, Inside, Critical
<1>9. QED BY <1>3, <1>4, <1>5, <1>6, <1>7, <1>8 DEF Locks

\* Only the lock of the dead writer is renamed away, by the one that breaks it.
LEMMA RenameKeeps ==
  ASSUME Shape, Locks, NEW w \in Writers, Rename(w)
  PROVE  Locks'
<1>1. /\ crashes' = crashes /\ pc[w] # "dead" /\ pc'[w] # "dead"
      /\ \A v \in Writers \ {w} : pc'[v] = pc[v]
  BY Onward DEF Writer
<1>2. /\ lock' = NoOne /\ breaker' = breaker /\ stale' = stale \ {"lock"}
      /\ pc[w] = "rename" /\ pc'[w] = "freeBreaker"
  BY DEF Rename, Shape, Goes
<1>3. PICK d \in Writers : lock = d /\ Dead(d)
  BY <1>2 DEF Locks, StaleIsDead
<1>4. \A v \in Writers : pc[v] = "rename" => v = w
  BY <1>2, <1>3 DEF Locks, OneDead, OneBreaker, Dead, BreakerPlaces
<1>5. OneDead'
  BY <1>1 DEF Locks, OneDead, Dead
<1>6. LockHeld'
  <2>1. \A v \in Writers : pc[v] \notin Inside
    BY <1>3 DEF Locks, LockHeld, Dead, Inside, Critical
  <2>2. QED BY <1>1, <1>2, <2>1, ConstantsAssumption DEF LockHeld, Inside, Critical
<1>7. BreakerHeld'
  BY <1>1, <1>2, ConstantsAssumption DEF Locks, BreakerHeld, BreakerPlaces
<1>8. StaleIsDead'
  BY <1>1, <1>2, <1>4 DEF Locks, StaleIsDead, Dead
<1>9. ClearedInVain'
  BY <1>1, <1>2, ConstantsAssumption DEF Locks, ClearedInVain, Dead
<1>10. OneBreaker'
  BY <1>1, <1>2, <1>3, ConstantsAssumption DEF OneBreaker, Dead
<1>11. QED BY <1>5, <1>6, <1>7, <1>8, <1>9, <1>10 DEF Locks

LEMMA UnlinkBreakerKeeps ==
  ASSUME Shape, Locks, NEW w \in Writers, UnlinkBreaker(w), Withstood'
  PROVE  Locks'
<1>1. /\ crashes' = crashes /\ pc[w] # "dead" /\ pc'[w] # "dead"
      /\ \A v \in Writers \ {w} : pc'[v] = pc[v]
  BY Onward DEF Writer
<1>2. /\ lock' = lock /\ breaker' = NoOne /\ stale' = stale \ {"breaker"}
      /\ pc[w] = "unlinkBreaker" /\ pc'[w] = "lost"
  BY DEF UnlinkBreaker, Withstood, Fault, Shape, Goes
<1>3. OneDead'
  BY <1>1 DEF Locks, OneDead, Dead
<1>4. LockHeld'
  BY <1>1, <1>2 DEF Locks, LockHeld, Inside, Critical
<1>5. BreakerHeld'
  BY <1>2, ConstantsAssumption DEF BreakerHeld
<1>6. StaleIsDead'
  BY <1>1, <1>2 DEF Locks, StaleIsDead, Dead
<1>7. ClearedInVain'
  BY <1>1, <1>2 DEF Locks, ClearedInVain, Dead
<1>8. OneBreaker'
  BY <1>1, <1>2 DEF Locks, OneBreaker, Dead, BreakerPlaces
<1>9. QED BY <1>3, <1>4, <1>5, <1>6, <1>7, <1>8 DEF Locks

LEMMA UnlinkKeeps ==
  ASSUME Shape, Locks, NEW w \in Writers, Unlink(w), Withstood'
  PROVE  Locks'
<1>1. /\ crashes' = crashes /\ pc[w] # "dead" /\ pc'[w] # "dead"
      /\ \A v \in Writers \ {w} : pc'[v] = pc[v]
  BY Onward DEF Writer
<1>2. /\ lock' = NoOne /\ breaker' = breaker /\ stale' = stale \ {"lock"}
      /\ pc[w] = "unlink" /\ pc'[w] \in {"stored", "error"}
  BY DEF Unlink, Withstood, Fault, Shape, Goes, Answer
<1>3. lock = w /\ \A v \in Writers : pc[v] # "rename"
  BY <1>1, <1>2 DEF Locks, LockHeld, StaleIsDead, Dead, Inside
<1>4. OneDead'
  BY <1>1 DEF Locks, OneDead, Dead
<1>5. LockHeld'
  BY <1>1, <1>2, <1>3, ConstantsAssumption DEF Locks, LockHeld, Inside, Critical
<1>6. BreakerHeld'
  BY <1>1, <1>2, ConstantsAssumption DEF Locks, BreakerHeld, BreakerPlaces
<1>7. StaleIsDead'
  BY <1>1, <1>2, <1>3 DEF Locks, StaleIsDead, Dead
<1>8. ClearedInVain'
  BY <1>1, <1>2, ConstantsAssumption DEF Locks, ClearedInVain, Dead
<1>9. OneBreaker'
  BY <1>1, <1>2, <1>3, ConstantsAssumption DEF Locks, OneBreaker, Dead, BreakerPlaces
<1>10. QED BY <1>4, <1>5, <1>6, <1>7, <1>8, <1>9 DEF Locks

LEMMA CrashKeeps ==
  ASSUME Shape, Locks, NEW w \in Writers, Crash(w), Withstood'
  PROVE  Locks'
<1>1. /\ crashes = 0 /\ crashes' = 1 /\ pc'[w] = "dead"
      /\ \A v \in Writers \ {w} : pc'[v] = pc[v]
  BY DEF Crash, Withstood, Shape
<1>2. lock' = lock /\ breaker' = breaker /\ stale' = stale
  BY DEF Crash, locks
<1>3. \A v \in Writers : pc[v] # "dead"
  BY <1>1 DEF Locks, OneDead, Dead
<1>4. OneDead'
  BY <1>1, <1>3 DEF OneDead, Dead
<1>5. LockHeld'
  BY <1>1, <1>2 DEF Locks, LockHeld, Inside, Critical
<1>6. BreakerHeld'
  BY <1>1, <1>2 DEF Locks, BreakerHeld
<1>7. StaleIsDead'
  BY <1>1, <1>2, <1>3 DEF Locks, StaleIsDead, Dead
<1>8. ClearedInVain'
  BY <1>1, <1>2, <1>3 DEF Locks, ClearedInVain, Dead
<1>9. OneBreaker'
  BY <1>1, <1>2, <1>3 DEF Locks, OneBreaker, Dead, BreakerPlaces
<1>10. QED BY <1>4, <1>5, <1>6, <1>7, <1>8, <1>9 DEF Locks

\* A file grows stale only with a writer that is dead.
LEMMA AgeKeeps ==
  ASSUME Shape, Locks, Age("lock", lock) \/ Age("breaker", breaker), Withstood'
  PROVE  Locks'
<1>1. /\ pc' = pc /\ crashes' = crashes /\ lock' = lock /\ breaker' = breaker
      /\ \/ lock # NoOne /\ ~Live(lock) /\ stale' = stale \cup {"lock"}
         \/ breaker # NoOne /\ ~Live(breaker) /\ stale' = stale \cup {"breaker"}
  BY DEF Age, Withstood, Shape
<1>2. StaleIsDead'
  <2>1. lock # NoOne /\ ~Live(lock) => Dead(lock)
    BY DEF Locks, LockHeld, Live, Dead, Inside, Critical, Answers, Shape
  <2>2. breaker # NoOne /\ ~Live(breaker) => Dead(breaker)
    BY DEF Locks, BreakerHeld, Live, Dead, BreakerPlaces, Answers, Shape
  <2>3. QED BY <1>1, <2>1, <2>2 DEF Locks, StaleIsDead, Dead, Shape
<1>3. QED BY <1>1, <1>2 DEF Locks, OneDead, LockHeld, BreakerHeld, ClearedInVain, OneBreaker, Dead

LEMMA LocksStep ==
  ASSUME Shape, Locks, [Next]_vars, Withstood'
  PROVE  Locks'
<1>1. ASSUME NEW w \in Writers, Start(w) \/ Writer(w)
      PROVE  Locks'
  <2>1. CASE Start(w) \/ (\E n \in 1 .. 2 : Look(w, n) \/ LookAgain(w, n)) \/ Loses(w)
    <3>1. /\ UNCHANGED locks
          /\ pc[w] \notin BreakerPlaces \cup Inside /\ pc'[w] \notin BreakerPlaces \cup Inside
          /\ pc'[w] \in {"clear1", "clear2"} => "breaker" \in stale
      BY <2>1 DEF Start, Look, LookAgain, Loses, Goes, LookAt, ClearAt, LookAgainAt, AfterRound,
         BreakerPlaces, Inside, Critical, Shape
    <3>2. QED BY <1>1, <3>1, Outside
  <2>2. CASE ReadAge(w) \/ FreeBreaker(w) \/ Read(w) \/ Store(w) \/ Free(w)
    <3>1. /\ UNCHANGED locks /\ pc[w] \in BreakerPlaces \cup Inside
          /\ \/ pc[w] \in BreakerPlaces /\ pc'[w] \in BreakerPlaces
             \/ pc[w] \in BreakerPlaces /\ breaker # w /\ pc'[w] = "lost"
             \/ pc[w] \in Inside /\ pc'[w] \in Inside
          /\ pc'[w] = "rename" => "lock" \in stale
      BY <2>2 DEF ReadAge, FreeBreaker, Read, Store, Free, Goes, BreakerPlaces, Inside, Critical,
         Shape, Locks, LockHeld, locks
    <3>2. QED BY <2>2, <3>1, WithinKeeps DEF Writer
  <2>3. QED
    BY <1>1, <2>1, <2>2, ClearKeeps, LinkKeeps, BreakKeeps, RenameKeeps, UnlinkBreakerKeeps,
       UnlinkKeeps DEF Writer
<1>2. CASE UNCHANGED vars
  BY <1>2 DEF vars, locks, Locks, OneDead, LockHeld, BreakerHeld, StaleIsDead, ClearedInVain,
     OneBreaker, Dead
<1>3. QED BY <1>1, <1>2, CrashKeeps, AgeKeeps DEF Next

\* What cannot be withstood stays so.
LEMMA Withstanding ==
  ASSUME Shape, [Next]_vars, Withstood'
  PROVE  Withstood
<1>1. /\ crashes' \in {crashes, crashes + 1} /\ stalls' \in {stalls, stalls + 1}
      /\ faults' \in {faults, faults + 1}
  BY DEF Next, Start, Writer, Look, Clear, LookAgain, Link, Break, ReadAge, Rename, FreeBreaker,
     UnlinkBreaker, Loses, Read, Store, Free, Unlink, Steady, Works, Fault, Crash, Age, vars
<1>2. QED BY <1>1 DEF Withstood, Shape

LocksInv == Withstood => Locks

LEMMA AlwaysLocked == Spec => []LocksInv
<1>1. Init => LocksInv
  BY ConstantsAssumption DEF Init, LocksInv, Locks, OneDead, LockHeld, BreakerHeld, StaleIsDead,
     ClearedInVain, OneBreaker, Dead, Inside, Critical, BreakerPlaces
<1>2. Shape /\ LocksInv /\ [Next]_vars => LocksInv'
  BY LocksStep, Withstanding DEF LocksInv
<1>3. QED BY <1>1, <1>2, AlwaysShaped, PTL DEF Spec

\* At most one writer reads and rewrites the ledger at a time, across the
\* breaking of the lock of a killed writer (intake.ts: the lock file and its
\* breaker), as long as no writer is suspended and no file operation fails.
THEOREM WritersExclude == Spec => []OneWriter
<1>1. ASSUME LocksInv, Withstood
      PROVE  Cardinality({w \in Writers : pc[w] \in Critical}) <= 1
  <2> DEFINE inside == {w \in Writers : pc[w] \in Critical}
  <2>1. \A v, w \in inside : v = w
    BY <1>1 DEF LocksInv, Locks, LockHeld, Inside
  <2>2. inside = {} \/ \E w : inside = {w}
    BY <2>1
  <2> HIDE DEF inside
  <2>3. Cardinality(inside) <= 1
    BY <2>2, FS_EmptySet, FS_Singleton
  <2>4. QED BY <2>3 DEF inside
<1>2. LocksInv => OneWriter
  BY <1>1 DEF OneWriter
<1>3. QED BY <1>2, AlwaysLocked, PTL

-----------------------------------------------------------------------------
(* The ledger *)

\* The ledger and the lists the writers have read of it; nobody else changes
\* the ledger between a writer's read and its write.
ListInv ==
  /\ list \in [Writers -> Seq(Writers)]
  /\ ledger \in Seq(Writers) /\ Len(ledger) <= Cap
  /\ Withstood => \A w \in Writers : pc[w] = "write" => list[w] = ledger

LEMMA NewestList ==
  ASSUME NEW s \in Seq(Writers)
  PROVE  Newest(s) \in Seq(Writers) /\ Len(Newest(s)) <= Cap
<1> DEFINE first == IF Len(s) > Cap THEN Len(s) - Cap + 1 ELSE 1
<1>1. Len(s) \in Nat /\ Cap \in Nat \ {0}
  BY LenProperties, ConstantsAssumption
<1>2. first \in 1 .. (Len(s) + 1) /\ Len(s) - first + 1 <= Cap
  BY <1>1
<1> HIDE DEF first
<1>3. /\ SubSeq(s, first, Len(s)) \in Seq(Writers)
      /\ Len(SubSeq(s, first, Len(s))) <= Cap
  <2>1. first \in Int /\ Len(s) \in Int /\ \A i \in first .. Len(s) : i \in 1 .. Len(s)
    BY <1>1, <1>2
  <2>2. \A i \in first .. Len(s) : s[i] \in Writers
    BY <2>1, ElementOfSeq
  <2>3. SubSeq(s, first, Len(s)) \in Seq(Writers)
        /\ Len(SubSeq(s, first, Len(s))) = IF first <= Len(s) THEN Len(s) - first + 1 ELSE 0
    BY <2>1, <2>2, SubSeqProperties
  <2>4. QED BY <1>1, <1>2, <2>3
<1>4. QED BY <1>3 DEF Newest, first

LEMMA StoredList ==
  ASSUME NEW s \in Seq(Writers), NEW w \in Writers
  PROVE  Newest(Append(s, w)) \in Seq(Writers) /\ Len(Newest(Append(s, w))) <= Cap
BY AppendProperties, NewestList

\* Only the writer that is alone inside changes the ledger.
LEMMA ListStep ==
  ASSUME Shape, LocksInv, ListInv, [Next]_vars
  PROVE  /\ ListInv'
         /\ Withstood => UNCHANGED ledger \/ \E w \in Writers : ledger' = Newest(Append(ledger, w))
<1>1. ASSUME NEW w \in Writers, Store(w)
      PROVE  /\ ledger' \in {ledger, Newest(Append(list[w], w))}
             /\ pc[w] = "write" /\ list' = [list EXCEPT ![w] = <<>>]
             /\ pc' = [pc EXCEPT ![w] = "free"]
  BY <1>1 DEF Store, Goes
<1>2. ASSUME NEW w \in Writers, Read(w)
      PROVE  /\ ledger' = ledger
             /\ \/ list' = [list EXCEPT ![w] = ledger]
                \/ list' = [list EXCEPT ![w] = <<>>] /\ faults' = faults + 1
             /\ pc' = [pc EXCEPT ![w] = "write"]
  BY <1>2 DEF Read, Goes, Fault
<1>3. ASSUME NEW w \in Writers, Crash(w)
      PROVE  ledger' = ledger /\ list' = [list EXCEPT ![w] = <<>>] /\ pc' = [pc EXCEPT ![w] = "dead"]
  BY <1>3 DEF Crash
<1>4. ASSUME ~\E w \in Writers : Store(w) \/ Read(w) \/ Crash(w)
      PROVE  ledger' = ledger /\ list' = list /\ \A w \in Writers : pc'[w] = "write" => pc[w] = "write"
  <2>1. CASE \E w \in Writers : Start(w) \/ Writer(w)
    <3>1. PICK w \in Writers : Start(w) \/ Writer(w)
      BY <2>1
    <3>2. ledger' = ledger /\ list' = list
      BY <1>4, <3>1 DEF Start, Writer, Look, Clear, LookAgain, Link, Break, ReadAge, Rename,
         FreeBreaker, UnlinkBreaker, Loses, Free, Unlink
    <3>3. pc'[w] # "write"
      BY <1>4, <3>1 DEF Start, Writer, Look, Clear, LookAgain, Link, Break, ReadAge, Rename,
         FreeBreaker, UnlinkBreaker, Loses, Free, Unlink, Goes, Shape, LookAt, ClearAt,
         LookAgainAt, AfterRound, Answer
    <3>4. QED BY <3>1, <3>2, <3>3, Onward
  <2>2. CASE Age("lock", lock) \/ Age("breaker", breaker) \/ UNCHANGED vars
    BY <2>2 DEF Age, vars
  <2>3. QED BY <1>4, <2>1, <2>2 DEF Next
<1>5. ledger' \in Seq(Writers) /\ Len(ledger') <= Cap /\ list' \in [Writers -> Seq(Writers)]
  <2>1. <<>> \in Seq(Writers)
    BY EmptySeq
  <2>2. CASE \E w \in Writers : Store(w)
    <3>1. PICK w \in Writers : Store(w)
      BY <2>2
    <3>2. Newest(Append(list[w], w)) \in Seq(Writers) /\ Len(Newest(Append(list[w], w))) <= Cap
      BY StoredList DEF ListInv
    <3>3. QED BY <1>1, <2>1, <3>1, <3>2 DEF ListInv
  <2>3. QED BY <1>2, <1>3, <1>4, <2>1, <2>2 DEF ListInv
<1>6. Withstood => UNCHANGED ledger \/ \E w \in Writers : ledger' = Newest(Append(ledger, w))
  BY <1>1, <1>2, <1>3, <1>4 DEF ListInv
<1>7. ASSUME Withstood', NEW v \in Writers, pc'[v] = "write"
      PROVE  list'[v] = ledger'
  <2>1. Withstood /\ Locks
    BY <1>7, Withstanding DEF LocksInv
  <2>2. ASSUME NEW w \in Writers, Store(w)
        PROVE  FALSE
    <3>1. pc[w] = "write" /\ pc[v] = "write" /\ v # w
      BY <1>1, <1>7, <2>2 DEF Shape
    <3>2. QED BY <2>1, <3>1 DEF Locks, LockHeld, Inside, Critical
  <2>3. CASE \E w \in Writers : Read(w)
    <3>1. PICK w \in Writers : Read(w)
      BY <2>3
    <3>2. faults' # faults + 1
      BY <1>7 DEF Withstood, Shape
    <3>3. ledger' = ledger /\ list' = [list EXCEPT ![w] = ledger] /\ pc' = [pc EXCEPT ![w] = "write"]
      BY <1>2, <3>1, <3>2
    <3>4. QED BY <1>7, <2>1, <3>3 DEF ListInv, Shape
  <2>4. CASE \E w \in Writers : Crash(w)
    BY <1>3, <1>7, <2>1, <2>4 DEF ListInv, Shape
  <2>5. CASE ~\E w \in Writers : Store(w) \/ Read(w) \/ Crash(w)
    BY <1>4, <1>7, <2>1, <2>5 DEF ListInv
  <2>6. QED BY <2>2, <2>3, <2>4, <2>5
<1>8. QED BY <1>5, <1>6, <1>7 DEF ListInv

LEMMA AlwaysListed == Spec => []ListInv
<1>1. Init => ListInv
  BY EmptySeq, ConstantsAssumption DEF Init, ListInv
<1>2. Shape /\ LocksInv /\ ListInv /\ [Next]_vars => ListInv'
  BY ListStep
<1>3. QED BY <1>1, <1>2, AlwaysShaped, AlwaysLocked, PTL DEF Spec

\* No update is lost: every change of the ledger adds one request to what was
\* there (intake.ts: read, append and rename under the lock).
THEOREM NoUpdateIsLost == Spec => LedgerAppends
<1>1. Shape /\ LocksInv /\ ListInv /\ [Next]_vars =>
        [Withstood => \E w \in Writers : ledger' = Newest(Append(ledger, w))]_ledger
  BY ListStep
<1>2. QED BY <1>1, AlwaysShaped, AlwaysLocked, AlwaysListed, PTL DEF Spec, LedgerAppends

-----------------------------------------------------------------------------
(* Attempts *)

AttemptInv ==
  /\ \A w \in Writers : attempt[w] <= Attempts /\ (attempt[w] = Attempts => pc[w] = "unavailable")
  /\ \A w \in Writers : pc[w] = "idle" => attempt[w] = 0

LEMMA AttemptStep == Shape /\ AttemptInv /\ [Next]_vars => AttemptInv'
<1> SUFFICES ASSUME Shape, AttemptInv, [Next]_vars PROVE AttemptInv'
  OBVIOUS
<1>1. ASSUME NEW w \in Writers, Start(w) \/ Writer(w)
      PROVE  AttemptInv'
  <2>1. \A v \in Writers \ {w} : pc'[v] = pc[v]
    BY <1>1, Onward
  <2>2. pc[w] # "unavailable" /\ pc'[w] # "idle"
    BY <1>1 DEF Start, Writer, Look, Clear, LookAgain, Link, Break, ReadAge, Rename, FreeBreaker,
       UnlinkBreaker, Loses, Read, Store, Free, Unlink, Goes, Shape, LookAt, ClearAt, LookAgainAt,
       AfterRound, Answer
  <2>3. CASE Loses(w)
    <3>1. /\ attempt' = [attempt EXCEPT ![w] = @ + 1]
          /\ pc'[w] = IF attempt[w] + 1 = Attempts THEN "unavailable" ELSE "look1"
      BY <2>3 DEF Loses, Goes, Shape
    <3>2. QED BY <2>1, <2>2, <3>1, ConstantsAssumption DEF AttemptInv, Shape
  <2>4. CASE ~Loses(w)
    <3>1. attempt' = attempt
      BY <1>1, <2>4 DEF Start, Writer, Look, Clear, LookAgain, Link, Break, ReadAge, Rename,
         FreeBreaker, UnlinkBreaker, Read, Store, Free, Unlink
    <3>2. QED BY <2>1, <2>2, <3>1 DEF AttemptInv
  <2>5. QED BY <2>3, <2>4
<1>2. ASSUME NEW w \in Writers, Crash(w)
      PROVE  AttemptInv'
  BY <1>2 DEF Crash, AttemptInv, Shape, Live, Answers
<1>3. CASE Age("lock", lock) \/ Age("breaker", breaker) \/ UNCHANGED vars
  BY <1>3 DEF Age, vars, AttemptInv
<1>4. QED BY <1>1, <1>2, <1>3 DEF Next

LEMMA AlwaysAttempting == Spec => []AttemptInv
<1>1. Init => AttemptInv
  BY ConstantsAssumption DEF Init, AttemptInv
<1>2. QED BY <1>1, AttemptStep, AlwaysShaped, PTL DEF Spec

\* The type invariant: no writer tries more than LOCK_ATTEMPTS times, and the
\* ledger never outgrows LEDGER_CAP (intake.ts).
THEOREM TypeCorrect == Spec => []TypeOK
<1>1. Shape /\ ListInv /\ AttemptInv => TypeOK
  BY ConstantsAssumption DEF Shape, ListInv, AttemptInv, TypeOK, Places
<1>2. QED BY <1>1, AlwaysShaped, AlwaysListed, AlwaysAttempting, PTL

-----------------------------------------------------------------------------
(* A writer that is left alone *)

NoLock == lock = NoOne \/ "lock" \in stale
NoBreaker == breaker = NoOne \/ "breaker" \in stale

\* Where it goes: once through the files it found, whose stale ones it takes
\* away, and once more with none.
Alone(w) ==
  /\ \A v \in Writers \ {w} : ~Live(v)
  /\ pc[w] \notin {"idle", "clear2", "lookAgain2", "unavailable"}
  /\ pc[w] \in {"look1", "clear1", "lookAgain1", "look2", "link", "break", "readAge", "rename"} => NoLock
  /\ pc[w] \in {"look1", "clear1"} => NoBreaker
  /\ pc[w] \in {"lookAgain1", "look2", "link", "break", "lost"} => breaker = NoOne
  /\ pc[w] \in BreakerPlaces => breaker = w
  /\ pc[w] \in {"freeBreaker", "unlinkBreaker", "lost"} => lock = NoOne
  /\ pc[w] \in {"clear1", "lookAgain1", "break", "lost"} \cup BreakerPlaces => attempt[w] = 0
  /\ pc[w] \in {"look1", "look2", "link"} /\ attempt[w] # 0 => lock = NoOne /\ breaker = NoOne

AloneInv == faults = 0 /\ Attempts > 1 => \A w \in undisturbed : Alone(w)

\* Every step of a writer that is alone.
LEMMA AloneGoesOn ==
  ASSUME Shape, NEW w \in Writers, Writer(w), Alone(w), faults' = 0, Attempts > 1
  PROVE  Alone(w)'
<1>1. /\ pc[w] # "dead" /\ pc'[w] # "dead" /\ \A v \in Writers \ {w} : pc'[v] = pc[v]
  BY Onward
<1>2. faults + 1 # 0 /\ NoOne # w
  BY ConstantsAssumption DEF Shape
<1>3. \A v \in Writers \ {w} : ~Live(v)'
  BY <1>1 DEF Alone, Live
<1>4. CASE \E n \in 1 .. 2 : Look(w, n) \/ Clear(w, n) \/ LookAgain(w, n)
  <2>1. PICK n \in 1 .. 2 : Look(w, n) \/ Clear(w, n) \/ LookAgain(w, n)
    BY <1>4
  <2>2. CASE Look(w, n)
    <3>1. UNCHANGED <<lock, breaker, stale, attempt>>
      BY <2>2 DEF Look, locks
    <3>2. CASE n = 1
      <4>1. pc[w] = "look1" /\ pc'[w] = IF breaker = NoOne THEN "look2" ELSE
                                         IF "breaker" \in stale THEN "clear1" ELSE "lookAgain1"
        BY <2>2, <3>2 DEF Look, LookAt, ClearAt, LookAgainAt, AfterRound, Goes, Shape
      <4>2. QED BY <1>3, <3>1, <4>1 DEF Alone, NoLock, NoBreaker, BreakerPlaces
    <3>3. CASE n = 2
      <4>1. pc[w] = "look2" /\ breaker = NoOne
        BY <2>2, <3>3 DEF Look, LookAt, Goes, Alone
      <4>2. pc'[w] = "link"
        BY <2>2, <3>3, <4>1 DEF Look, LookAt, ClearAt, LookAgainAt, AfterRound, Goes, Shape
      <4>3. QED BY <1>3, <3>1, <4>1, <4>2 DEF Alone, NoLock, NoBreaker, BreakerPlaces
    <3>4. QED BY <3>2, <3>3
  <2>3. CASE Clear(w, n)
    <3>1. pc[w] = "clear1"
      BY <2>3 DEF Clear, ClearAt, Goes, Alone
    <3>2. /\ pc'[w] = "lookAgain1" /\ breaker' = NoOne /\ stale' = stale \ {"breaker"}
          /\ UNCHANGED <<lock, attempt>>
      <4>1. n = 1
        BY <2>3, <3>1 DEF Clear, ClearAt, Goes
      <4>2. QED BY <1>2, <2>3, <4>1 DEF Clear, ClearAt, LookAgainAt, Goes, Fault, Shape
    <3>3. QED BY <1>3, <3>1, <3>2 DEF Alone, NoLock, NoBreaker, BreakerPlaces
  <2>4. CASE LookAgain(w, n)
    <3>1. pc[w] = "lookAgain1" /\ breaker = NoOne
      BY <2>4 DEF LookAgain, LookAgainAt, Goes, Alone
    <3>2. pc'[w] = "look2" /\ UNCHANGED <<lock, breaker, stale, attempt>>
      <4>1. n = 1
        BY <2>4, <3>1 DEF LookAgain, LookAgainAt, Goes
      <4>2. QED BY <2>4, <3>1, <4>1 DEF LookAgain, LookAgainAt, AfterRound, Goes, Shape, locks
    <3>3. QED BY <1>3, <3>1, <3>2 DEF Alone, NoLock, NoBreaker, BreakerPlaces
  <2>5. QED BY <2>1, <2>2, <2>3, <2>4
<1>5. CASE Link(w)
  <2>1. pc[w] = "link" /\ UNCHANGED <<breaker, attempt>>
        /\ \/ lock = NoOne /\ pc'[w] = "read"
           \/ lock # NoOne /\ pc'[w] = "break" /\ UNCHANGED <<lock, stale>>
    BY <1>2, <1>5 DEF Link, Goes, Fault, Shape
  <2>2. QED BY <1>3, <2>1 DEF Alone, NoLock, NoBreaker, BreakerPlaces
<1>6. CASE Break(w)
  <2>1. pc[w] = "break" /\ breaker = NoOne
    BY <1>6 DEF Break, Goes, Alone
  <2>2. /\ pc'[w] = "readAge" /\ breaker' = w /\ stale' = stale \ {"breaker"}
        /\ UNCHANGED <<lock, attempt>>
    BY <1>2, <1>6, <2>1 DEF Break, Goes, Fault, Shape
  <2>3. QED BY <1>3, <2>1, <2>2 DEF Alone, NoLock, NoBreaker, BreakerPlaces
<1>7. CASE ReadAge(w)
  <2>1. /\ pc[w] = "readAge" /\ UNCHANGED <<lock, breaker, stale, attempt>>
        /\ pc'[w] = IF lock # NoOne /\ "lock" \in stale THEN "rename" ELSE "freeBreaker"
    BY <1>7 DEF ReadAge, Goes, Shape, locks
  <2>2. QED BY <1>3, <2>1 DEF Alone, NoLock, NoBreaker, BreakerPlaces
<1>8. CASE Rename(w)
  <2>1. pc[w] = "rename" /\ pc'[w] = "freeBreaker" /\ lock' = NoOne /\ UNCHANGED <<breaker, attempt>>
    BY <1>8 DEF Rename, Goes, Shape
  <2>2. QED BY <1>3, <2>1 DEF Alone, NoLock, NoBreaker, BreakerPlaces
<1>9. CASE FreeBreaker(w)
  <2>1. pc[w] = "freeBreaker" /\ breaker = w
    BY <1>9 DEF FreeBreaker, Goes, Alone, BreakerPlaces
  <2>2. pc'[w] = "unlinkBreaker" /\ UNCHANGED <<lock, breaker, stale, attempt>>
    BY <1>9, <2>1 DEF FreeBreaker, Goes, Shape, locks
  <2>3. QED BY <1>3, <2>1, <2>2 DEF Alone, NoLock, NoBreaker, BreakerPlaces
<1>10. CASE UnlinkBreaker(w)
  <2>1. /\ pc[w] = "unlinkBreaker" /\ pc'[w] = "lost" /\ breaker' = NoOne
        /\ UNCHANGED <<lock, attempt>>
    BY <1>2, <1>10 DEF UnlinkBreaker, Goes, Fault, Shape
  <2>2. QED BY <1>3, <2>1 DEF Alone, NoLock, NoBreaker, BreakerPlaces
<1>11. CASE Loses(w)
  <2>1. pc[w] = "lost" /\ attempt[w] = 0 /\ lock = NoOne /\ breaker = NoOne
    BY <1>11 DEF Loses, Goes, Alone
  <2>2. pc'[w] = "look1" /\ UNCHANGED <<lock, breaker, stale>>
    BY <1>11, <2>1 DEF Loses, Goes, Shape, locks
  <2>3. QED BY <1>3, <2>1, <2>2 DEF Alone, NoLock, NoBreaker, BreakerPlaces
<1>12. CASE Read(w) \/ Store(w) \/ Free(w) \/ Unlink(w)
  <2>1. pc'[w] \in {"write", "free", "unlink", "stored", "error"}
    BY <1>12 DEF Read, Store, Free, Unlink, Goes, Shape, Answer
  <2>2. QED BY <1>3, <2>1 DEF Alone, BreakerPlaces
<1>13. QED BY <1>4, <1>5, <1>6, <1>7, <1>8, <1>9, <1>10, <1>11, <1>12 DEF Writer

LEMMA AloneStep ==
  ASSUME Shape, AttemptInv, AloneInv, [Next]_vars
  PROVE  AloneInv'
<1> SUFFICES ASSUME faults' = 0, Attempts > 1, NEW w \in undisturbed'
             PROVE  Alone(w)'
  BY DEF AloneInv
<1>1. faults = 0
  <2>1. faults' \in {faults, faults + 1}
    BY DEF Next, Start, Writer, Look, Clear, LookAgain, Link, Break, ReadAge, Rename, FreeBreaker,
     UnlinkBreaker, Loses, Read, Store, Free, Unlink, Steady, Works, Fault, Crash, Age, vars
  <2>2. QED BY <2>1 DEF Shape
<1>2. ASSUME NEW v \in Writers, Start(v)
      PROVE  Alone(w)'
  <2>1. /\ w = v /\ \A u \in Writers : ~Live(u)
        /\ lock # NoOne => "lock" \in stale
        /\ breaker # NoOne => "breaker" \in stale
        /\ UNCHANGED <<lock, breaker, stale, attempt>>
    BY <1>2 DEF Start, locks
  <2>2. /\ pc[v] = "idle" /\ pc'[v] = "look1" /\ attempt[v] = 0
        /\ \A u \in Writers \ {v} : pc'[u] = pc[u]
    BY <1>2 DEF Start, Goes, Shape, AttemptInv
  <2>3. QED BY <2>1, <2>2 DEF Alone, Live, NoLock, NoBreaker, BreakerPlaces
<1>3. ASSUME NEW v \in Writers, Writer(v)
      PROVE  Alone(w)'
  <2>1. w \in undisturbed /\ Alone(w) /\ w \in Writers
    BY <1>1, <1>3 DEF AloneInv, Shape, Writer, Look, Clear, LookAgain, Link, Break, ReadAge, Rename,
       FreeBreaker, UnlinkBreaker, Loses, Read, Store, Free, Unlink, Steady
  <2>2. Live(v)
    BY <1>3 DEF Live, Answers, Writer, Look, Clear, LookAgain, Link, Break, ReadAge, Rename,
       FreeBreaker, UnlinkBreaker, Loses, Read, Store, Free, Unlink, Goes, LookAt, ClearAt, LookAgainAt
  <2>3. v = w
    BY <2>1, <2>2 DEF Alone
  <2>4. QED BY <1>3, <2>1, <2>3, AloneGoesOn
<1>4. ASSUME NEW v \in Writers, Crash(v)
      PROVE  Alone(w)'
  <2>1. w \in undisturbed /\ Alone(w) /\ w \in Writers
    BY <1>1, <1>4 DEF AloneInv, Shape, Crash
  <2>2. /\ UNCHANGED <<lock, breaker, stale, attempt>>
        /\ \A u \in Writers : pc'[u] = IF u = v THEN "dead" ELSE pc[u]
    BY <1>4 DEF Crash, locks, Shape
  <2>3. QED BY <2>1, <2>2 DEF Alone, Live, Answers, NoLock, NoBreaker, BreakerPlaces
<1>5. CASE Age("lock", lock) \/ Age("breaker", breaker) \/ UNCHANGED vars
  <2>1. w \in undisturbed /\ Alone(w) /\ w \in Writers
    BY <1>1, <1>5 DEF AloneInv, Shape, Age, vars
  <2>2. UNCHANGED <<pc, lock, breaker, attempt>> /\ stale \subseteq stale'
    BY <1>5 DEF Age, vars, locks
  <2>3. QED BY <2>1, <2>2 DEF Alone, Live, NoLock, NoBreaker
<1>6. QED BY <1>2, <1>3, <1>4, <1>5 DEF Next

\* Stale files do not block (intake.ts: clearStaleLockFile, maybeBreakStaleLock):
\* with two attempts a writer that is left alone is never told that the lock is
\* unavailable, whatever the files were that it found free or stale.
THEOREM StaleFilesAreCleared == Spec => []StaleFilesDoNotBlock
<1>1. Init => AloneInv
  BY DEF Init, AloneInv
<1>2. Shape /\ AttemptInv /\ AloneInv /\ [Next]_vars => AloneInv'
  BY AloneStep
<1>3. Shape /\ AloneInv => StaleFilesDoNotBlock
  BY DEF Shape, AloneInv, StaleFilesDoNotBlock, Alone
<1>4. QED BY <1>1, <1>2, <1>3, AlwaysShaped, AlwaysAttempting, PTL DEF Spec
=============================================================================
