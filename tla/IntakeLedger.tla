----------------------------- MODULE IntakeLedger -----------------------------
(***************************************************************************)
(* The intake ledger of one wallet (intake.ts): storeRequest reads a JSON  *)
(* list, appends a request and renames the new list over the old one, all  *)
(* under a lock file. A lock file older than LOCK_STALE_MS is taken away   *)
(* by a writer that holds a second lock file, the breaker.                 *)
(*                                                                         *)
(* storeRequest is synchronous, so two writers are two gateway processes;  *)
(* they interleave at every file operation. Each writer stores one         *)
(* request, named by the writer.                                           *)
(***************************************************************************)
EXTENDS Naturals, Sequences, FiniteSets

CONSTANTS
  Writers,          \* calls of storeRequest, each in its own process
  NoOne,            \* a lock file that does not exist
  Attempts,         \* LOCK_ATTEMPTS
  Cap,              \* LEDGER_CAP
  MaxMishaps        \* bound: writers killed, writers suspended until a lock they
                    \* hold is stale, and file operations that fail

ASSUME ConstantsAssumption ==
  /\ NoOne \notin Writers
  /\ Attempts \in Nat \ {0} /\ Cap \in Nat \ {0}
  /\ MaxMishaps \in Nat

VARIABLES
  pc,               \* the next file operation of each writer, or its answer
  attempt,          \* attempts a writer has lost
  list,             \* the ledger as a writer read it, until it writes
  failed,           \* writers whose writeJsonAtomic threw
  lock, breaker,    \* whose token is in <wallet>.lock and <wallet>.lock.break
  stale,            \* which of the two files is older than LOCK_STALE_MS
  ledger,           \* the requests in <wallet>.json
  undisturbed,      \* history: writers that started with no lock in use, and
                    \* whom no other writer has joined since
  crashes, stalls, faults

locks == <<lock, breaker, stale>>
vars == <<pc, attempt, list, failed, locks, ledger, undisturbed, crashes, stalls, faults>>

Answers == {"stored", "unavailable", "error", "dead"}
Live(w) == pc[w] \notin Answers \cup {"idle"}
Critical == {"read", "write"}
\* Places from the link of the lock to the end of releaseWalletLock.
Inside == Critical \cup {"free", "unlink"}

Goes(w, from, to) == pc[w] = from /\ pc' = [pc EXCEPT ![w] = to]
Bounded == crashes + stalls + faults < MaxMishaps
Fault == Bounded /\ faults' = faults + 1
Works == UNCHANGED faults
Steady == UNCHANGED <<undisturbed, crashes, stalls>>

\* list.slice(-LEDGER_CAP)
Newest(s) == SubSeq(s, IF Len(s) > Cap THEN Len(s) - Cap + 1 ELSE 1, Len(s))

Init ==
  /\ pc = [w \in Writers |-> "idle"] /\ attempt = [w \in Writers |-> 0]
  /\ list = [w \in Writers |-> <<>>] /\ failed = {}
  /\ lock = NoOne /\ breaker = NoOne /\ stale = {}
  /\ ledger = <<>> /\ undisturbed = {}
  /\ crashes = 0 /\ stalls = 0 /\ faults = 0

\* tryAcquireWalletLock looks for the breaker twice, before and after it has
\* written its claim file; the places of round n.
LookAt == <<"look1", "look2">>
ClearAt == <<"clear1", "clear2">>
LookAgainAt == <<"lookAgain1", "lookAgain2">>
AfterRound == <<"look2", "link">>

-----------------------------------------------------------------------------
(* Seeded bugs: variants of the actions below that the properties must catch. *)

\* A breaker is never cleared, however old.
LookPatiently(w, n) ==
  /\ Goes(w, LookAt[n], IF breaker = NoOne THEN AfterRound[n] ELSE LookAgainAt[n])
  /\ Works /\ Steady /\ UNCHANGED <<attempt, list, failed, locks, ledger>>

\* The lock file is written, not linked: it replaces one that exists.
LinkOverwriting(w) ==
  /\ Goes(w, "link", "read") /\ lock' = w /\ stale' = stale \ {"lock"}
  /\ Works /\ Steady /\ UNCHANGED <<attempt, list, failed, breaker, ledger>>

\* The age of the lock is not looked at.
ReadAgeImpatient(w) ==
  /\ Goes(w, "readAge", IF lock = NoOne THEN "freeBreaker" ELSE "rename")
  /\ Works /\ Steady /\ UNCHANGED <<attempt, list, failed, locks, ledger>>

\* The lock is released only by a writer that failed.
FreeOnFailure(w) ==
  /\ Goes(w, "free", IF w \in failed THEN "unlink" ELSE "stored")
  /\ Works /\ Steady /\ UNCHANGED <<attempt, list, failed, locks, ledger>>

\* One attempt too many.
LosesUncounted(w) ==
  /\ Goes(w, "lost", IF attempt[w] = Attempts THEN "unavailable" ELSE "look1")
  /\ attempt' = [attempt EXCEPT ![w] = @ + 1]
  /\ Works /\ Steady /\ UNCHANGED <<list, failed, locks, ledger>>

-----------------------------------------------------------------------------
(* tryAcquireWalletLock *)

Start(w) ==
  /\ Goes(w, "idle", "look1")
  /\ undisturbed' =
       IF \/ \E v \in Writers : Live(v)
          \/ lock # NoOne /\ "lock" \notin stale
          \/ breaker # NoOne /\ "breaker" \notin stale
       THEN {} ELSE {w}
  /\ Works /\ UNCHANGED <<attempt, list, failed, locks, ledger, crashes, stalls>>

\* lockFileExists(breaker), and its age if it does.
Look(w, n) ==
  /\ Goes(w, LookAt[n], IF breaker = NoOne THEN AfterRound[n]
                        ELSE IF "breaker" \in stale THEN ClearAt[n]
                        ELSE LookAgainAt[n])
  /\ Works /\ Steady /\ UNCHANGED <<attempt, list, failed, locks, ledger>>

\* clearStaleLockFile unlinks what is there now.
Clear(w, n) ==
  /\ \/ /\ Works /\ Goes(w, ClearAt[n], LookAgainAt[n])
        /\ breaker' = NoOne /\ stale' = stale \ {"breaker"}
     \/ Fault /\ Goes(w, ClearAt[n], "error") /\ UNCHANGED <<breaker, stale>>
  /\ Steady /\ UNCHANGED <<attempt, list, failed, lock, ledger>>

LookAgain(w, n) ==
  /\ Goes(w, LookAgainAt[n], IF breaker = NoOne THEN AfterRound[n] ELSE "break")
  /\ Works /\ Steady /\ UNCHANGED <<attempt, list, failed, locks, ledger>>

\* linkSync(claim, lock); the claim file is the writer's own.
Link(w) ==
  /\ \/ /\ Works /\ lock = NoOne /\ Goes(w, "link", "read")
        /\ lock' = w /\ stale' = stale \ {"lock"}
     \/ Works /\ lock # NoOne /\ Goes(w, "link", "break") /\ UNCHANGED <<lock, stale>>
     \/ Fault /\ Goes(w, "link", "error") /\ UNCHANGED <<lock, stale>>
  /\ Steady /\ UNCHANGED <<attempt, list, failed, breaker, ledger>>

-----------------------------------------------------------------------------
(* maybeBreakStaleLock, and the loop around both *)

\* The breaker is acquired like a lock, but without a breaker of its own.
Break(w) ==
  /\ \/ /\ Works /\ breaker = NoOne /\ Goes(w, "break", "readAge")
        /\ breaker' = w /\ stale' = stale \ {"breaker"}
     \/ /\ Works /\ breaker # NoOne /\ Goes(w, "break", "lost")
        /\ UNCHANGED <<breaker, stale>>
     \/ Fault /\ Goes(w, "break", "error") /\ UNCHANGED <<breaker, stale>>
  /\ Steady /\ UNCHANGED <<attempt, list, failed, lock, ledger>>

ReadAge(w) ==
  /\ Goes(w, "readAge", IF lock # NoOne /\ "lock" \in stale
                          THEN "rename" ELSE "freeBreaker")
  /\ Works /\ Steady /\ UNCHANGED <<attempt, list, failed, locks, ledger>>

\* renameSync(lock, stale file), whichever lock is there now.
Rename(w) ==
  /\ Goes(w, "rename", "freeBreaker")
  /\ lock' = NoOne /\ stale' = stale \ {"lock"}
  /\ Works /\ Steady /\ UNCHANGED <<attempt, list, failed, breaker, ledger>>

\* releaseWalletLock reads the token, and unlinks if it is its own.
FreeBreaker(w) ==
  /\ Goes(w, "freeBreaker", IF breaker = w THEN "unlinkBreaker" ELSE "lost")
  /\ Works /\ Steady /\ UNCHANGED <<attempt, list, failed, locks, ledger>>

UnlinkBreaker(w) ==
  /\ Goes(w, "unlinkBreaker", "lost")
  /\ \/ Works /\ breaker' = NoOne /\ stale' = stale \ {"breaker"}
     \/ Fault /\ UNCHANGED <<breaker, stale>>
  /\ Steady /\ UNCHANGED <<attempt, list, failed, lock, ledger>>

\* The attempt is over; the last one throws IntakeUnavailableError.
Loses(w) ==
  /\ Goes(w, "lost", IF attempt[w] + 1 = Attempts THEN "unavailable" ELSE "look1")
  /\ attempt' = [attempt EXCEPT ![w] = @ + 1]
  /\ Works /\ Steady /\ UNCHANGED <<list, failed, locks, ledger>>

-----------------------------------------------------------------------------
(* storeRequest under the lock *)

\* A ledger that cannot be read or parsed counts as an empty one.
Read(w) ==
  /\ Goes(w, "read", "write")
  /\ \/ Works /\ list' = [list EXCEPT ![w] = ledger]
     \/ Fault /\ list' = [list EXCEPT ![w] = <<>>]
  /\ Steady /\ UNCHANGED <<attempt, failed, locks, ledger>>

\* writeJsonAtomic: all of the new list or none; chmodSync may still throw.
Store(w) ==
  /\ \/ /\ Works /\ Goes(w, "write", "free")
        /\ ledger' = Newest(Append(list[w], w)) /\ UNCHANGED failed
     \/ /\ Fault /\ Goes(w, "write", "free")
        /\ ledger' \in {ledger, Newest(Append(list[w], w))}
        /\ failed' = failed \cup {w}
  /\ list' = [list EXCEPT ![w] = <<>>]
  /\ Steady /\ UNCHANGED <<attempt, locks>>

Answer(w) == IF w \in failed THEN "error" ELSE "stored"

Free(w) ==
  /\ Goes(w, "free", IF lock = w THEN "unlink" ELSE Answer(w))
  /\ Works /\ Steady /\ UNCHANGED <<attempt, list, failed, locks, ledger>>

Unlink(w) ==
  /\ Goes(w, "unlink", Answer(w))
  /\ \/ Works /\ lock' = NoOne /\ stale' = stale \ {"lock"}
     \/ Fault /\ UNCHANGED <<lock, stale>>
  /\ Steady /\ UNCHANGED <<attempt, list, failed, breaker, ledger>>

-----------------------------------------------------------------------------
(* The environment *)

Crash(w) ==
  /\ Bounded /\ crashes' = crashes + 1
  /\ Live(w) /\ pc' = [pc EXCEPT ![w] = "dead"]
  /\ list' = [list EXCEPT ![w] = <<>>]
  /\ UNCHANGED <<attempt, failed, locks, ledger, undisturbed, stalls, faults>>

\* Five minutes pass over a lock file. A writer that runs is done long before;
\* one that is suspended meanwhile is not.
Age(file, holder) ==
  /\ holder # NoOne /\ file \notin stale /\ stale' = stale \cup {file}
  /\ \/ ~Live(holder) /\ UNCHANGED stalls
     \/ Live(holder) /\ Bounded /\ stalls' = stalls + 1
  /\ UNCHANGED <<pc, attempt, list, failed, lock, breaker, ledger, undisturbed,
                 crashes, faults>>

Writer(w) ==
  \/ \E n \in 1 .. 2 : Look(w, n) \/ Clear(w, n) \/ LookAgain(w, n)
  \/ Link(w) \/ Break(w) \/ ReadAge(w) \/ Rename(w) \/ FreeBreaker(w)
  \/ UnlinkBreaker(w) \/ Loses(w)
  \/ Read(w) \/ Store(w) \/ Free(w) \/ Unlink(w)

Next ==
  \/ \E w \in Writers : Start(w) \/ Writer(w) \/ Crash(w)
  \/ Age("lock", lock) \/ Age("breaker", breaker)

Spec == Init /\ [][Next]_vars

\* A process that runs keeps running; a lock file nobody touches grows old.
Fairness ==
  /\ \A w \in Writers : WF_vars(Writer(w))
  /\ WF_vars(lock # NoOne /\ ~Live(lock) /\ Age("lock", lock))

FairSpec == Spec /\ Fairness

-----------------------------------------------------------------------------
(* What the ledger promises *)

TypeOK ==
  /\ pc \in [Writers -> Answers \cup {"idle", "look1", "look2", "clear1", "clear2",
          "lookAgain1", "lookAgain2", "link", "break", "readAge", "rename",
          "freeBreaker", "unlinkBreaker", "lost", "read", "write", "free", "unlink"}]
  /\ attempt \in [Writers -> 0 .. Attempts]
  /\ list \in [Writers -> Seq(Writers)] /\ failed \subseteq Writers
  /\ lock \in Writers \cup {NoOne} /\ breaker \in Writers \cup {NoOne}
  /\ stale \subseteq {"lock", "breaker"}
  /\ ledger \in Seq(Writers) /\ Len(ledger) <= Cap
  /\ undisturbed \subseteq Writers
  /\ crashes \in Nat /\ stalls \in Nat /\ faults \in Nat

\* No writer was suspended, no file operation failed, and at most one writer
\* was killed: what the two lock files are built to withstand.
Withstood == stalls = 0 /\ faults = 0 /\ crashes <= 1

\* At most one writer reads and rewrites the ledger at a time, across the
\* breaking of a lock that a killed writer left behind.
OneWriter ==
  Withstood => Cardinality({w \in Writers : pc[w] \in Critical}) <= 1

\* Every change of the ledger adds one request to what was there and drops
\* nothing but requests beyond the cap: no update is lost.
LedgerAppends ==
  [][Withstood => \E w \in Writers : ledger' = Newest(Append(ledger, w))]_ledger

\* "recovers from a stale wallet ledger lock instead of blocking future intake",
\* and from a stale breaker (intake.test.ts): a writer that finds both files
\* free or stale and is left alone is never told that the lock is unavailable.
StaleFilesDoNotBlock ==
  Attempts > 1 => \A w \in undisturbed : pc[w] = "unavailable" => faults > 0

\* A lock does not stay with a writer that lives, nor with its file when the
\* writer is done, unless an unlink failed.
LockFreed ==
  \A w \in Writers : lock = w ~> lock # w \/ pc[w] = "dead" \/ faults > 0

\* "never remove another writer's lock" (intake.ts): releaseWalletLock leaves a
\* lock that is not its own.
ReleaseKeepsOthers ==
  [][\A w \in Writers : pc[w] = "unlink" /\ pc'[w] \in {"stored", "error"}
                           => lock \in {w, NoOne}]_vars
=============================================================================
