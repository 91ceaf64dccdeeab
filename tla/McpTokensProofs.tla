---------------------------- MODULE McpTokensProofs ----------------------------
(***************************************************************************)
(* Proofs about McpTokens, for any sets of tokens, wallets and terms and   *)
(* any number of failing loads and writes, kills and restarts.             *)
(*                                                                         *)
(* Every step leaves memory and file at one of a few registries: an old    *)
(* one, the empty one, or one the operation computed. The first lemmas say *)
(* what these contain; then each invariant is proved for each of them.     *)
(***************************************************************************)
EXTENDS McpTokens, TLAPS

LEMMA EmptyRegistry ==
  Empty \in Registries /\ Empty.known = {} /\ Empty.revoked = {}
BY DEF Empty, Registries

\* Revoking records keeps them known and adds to the revoked ones.
LEMMA RevokingRegistry ==
  ASSUME NEW r \in Registries, NEW ts \in SUBSET Tokens
  PROVE  /\ Revoking(r, ts) \in Registries
         /\ Revoking(r, ts).known = r.known
         /\ Revoking(r, ts).revoked = r.revoked \cup ts
BY DEF Revoking, Registries

\* Issuing a token adds it and revokes the active ones of its wallet.
LEMMA IssuingRegistry ==
  ASSUME NEW r \in Registries, NEW t \in Tokens
  PROVE  /\ Issuing(r, t) \in Registries
         /\ Issuing(r, t).known = r.known \cup {t}
         /\ Issuing(r, t).revoked = r.revoked \cup ActiveOf(r, wallet[t])
BY DEF Issuing, Registries, ActiveOf, Active

\* The registry a rotation of u into t ends with.
Rotating(r, u, t) == Issuing(Revoking(r, {u}), t)

\* What an operation makes of memory and file, however it ends.
Reaches(news) == cache' \in {cache, Empty} \cup news /\ file' \in {file, cache, Empty} \cup news

LEMMA LoadReaches == Load => cache' \in {file, Empty} /\ file' = file
BY DEF Load

LEMMA CreateReaches ==
  ASSUME NEW t \in Tokens, Create(t) PROVE Reaches({Issuing(cache, t)})
BY DEF Create, Written, Untold, Thrown, Killed, Reaches

LEMMA RevokeReaches ==
  ASSUME NEW t \in Tokens, Revoke(t) PROVE Reaches({Revoking(cache, {t})})
BY DEF Revoke, Written, Untold, Thrown, Killed, Reaches

LEMMA VerifyReaches == ASSUME NEW t \in Tokens, Verify(t) PROVE Reaches({})
BY DEF Verify, Written, Untold, Thrown, Killed, Reaches

LEMMA RotateReaches ==
  ASSUME NEW t \in Tokens, NEW u \in Tokens, Rotate(u, t)
  PROVE  \/ Reaches({Revoking(cache, {u})}) /\ UNCHANGED <<issued, first, Told>>
         \/ /\ Reaches({Revoking(cache, {u}), Rotating(cache, u, t)})
            /\ issued' = issued \cup {t}
BY DEF Rotate, Written, Untold, Thrown, Killed, Reaches, Rotating

-----------------------------------------------------------------------------
\* A registry marks no record it does not have, and has none never issued.
Sound(r) == r \in Registries /\ r.revoked \subseteq r.known /\ r.known \subseteq issued

SoundInv == TypeOK /\ Sound(cache) /\ Sound(file)

\* However a write ends, the counters keep their bounds.
LEMMA CounterStep ==
  ASSUME TypeOK, NEW before, NEW r, NEW rs,
         Written(r) \/ Thrown(before, r) \/ Killed(rs)
  PROVE  /\ loaded' \in BOOLEAN
         /\ faults' \in 0 .. MaxFaults /\ kills' \in 0 .. MaxKills
<1>1. loaded' \in BOOLEAN
  BY Zenon DEF TypeOK, Written, Thrown, Killed
<1>2. faults' \in 0 .. MaxFaults /\ kills' \in 0 .. MaxKills
  BY ConstantsAssumption DEF TypeOK, Written, Thrown, Killed
<1>3. QED BY <1>1, <1>2

LEMMA SoundStep == SoundInv /\ [Next]_vars => SoundInv'
<1> SUFFICES ASSUME SoundInv, [Next]_vars PROVE SoundInv'
  OBVIOUS
<1> USE ConstantsAssumption DEF SoundInv
<1>c. /\ loaded' \in BOOLEAN
      /\ faults' \in 0 .. MaxFaults /\ kills' \in 0 .. MaxKills
  <2>1. CASE Load BY <2>1 DEF Load, TypeOK
  <2>2. CASE Restart BY <2>2 DEF Restart, TypeOK
  <2>3. ASSUME NEW t \in Tokens, Create(t) PROVE <1>c!:
    BY <2>3, CounterStep DEF Create, Untold
  <2>4. ASSUME NEW t \in Tokens, Revoke(t) PROVE <1>c!:
    BY <2>4, CounterStep DEF Revoke, Untold
  <2>5. ASSUME NEW t \in Tokens, Verify(t) PROVE <1>c!:
    BY <2>5, CounterStep DEF Verify, Untold
  <2>6. ASSUME NEW t \in Tokens, NEW u \in Tokens, Rotate(u, t) PROVE <1>c!:
    BY <2>6, CounterStep DEF Rotate, Untold
  <2>7. ASSUME NEW m \in Terms, Expire(m) PROVE <1>c!:
    BY <2>7 DEF Expire, TypeOK
  <2>8. CASE UNCHANGED vars BY <2>8 DEF vars, TypeOK
  <2>9. QED
    BY <2>1, <2>2, <2>3, <2>4, <2>5, <2>6, <2>7, <2>8 DEF Next
<1>r. /\ wallet' = wallet /\ terms' = terms /\ issued \subseteq issued'
      /\ issued' \subseteq Tokens /\ first' \in [Tokens -> Tokens]
      /\ passed' \subseteq Terms
  <2> USE DEF TypeOK, Owners, Told
  <2>1. CASE Load BY <2>1 DEF Load
  <2>2. CASE Restart BY <2>2 DEF Restart
  <2>3. ASSUME NEW t \in Tokens, Create(t) PROVE <1>r!:
    BY <2>3 DEF Create
  <2>4. ASSUME NEW t \in Tokens, Revoke(t) PROVE <1>r!:
    BY <2>4 DEF Revoke
  <2>5. ASSUME NEW t \in Tokens, Verify(t) PROVE <1>r!:
    BY <2>5 DEF Verify
  <2>6. ASSUME NEW t \in Tokens, NEW u \in Tokens, Rotate(u, t) PROVE <1>r!:
    BY <2>6 DEF Rotate
  <2>7. ASSUME NEW m \in Terms, Expire(m) PROVE <1>r!:
    BY <2>7 DEF Expire
  <2>8. CASE UNCHANGED vars BY <2>8 DEF vars
  <2>9. QED
    BY <2>1, <2>2, <2>3, <2>4, <2>5, <2>6, <2>7, <2>8 DEF Next
<1>g. given' \subseteq issued' /\ withdrawn' \subseteq issued'
  <2> USE DEF TypeOK, Told, Untold
  <2>1. CASE Load BY <2>1 DEF Load
  <2>2. CASE Restart BY <2>2 DEF Restart
  <2>3. ASSUME NEW t \in Tokens, Create(t) PROVE <1>g!:
    BY <2>3 DEF Create, ActiveOf, Active
  <2>4. ASSUME NEW t \in Tokens, Revoke(t) PROVE <1>g!:
    BY <2>4 DEF Revoke
  <2>5. ASSUME NEW t \in Tokens, Verify(t) PROVE <1>g!:
    BY <2>5 DEF Verify
  <2>6. ASSUME NEW t \in Tokens, NEW u \in Tokens, Rotate(u, t) PROVE <1>g!:
    BY <2>6 DEF Rotate, ActiveOf, Active
  <2>7. ASSUME NEW m \in Terms, Expire(m) PROVE <1>g!:
    BY <2>7 DEF Expire
  <2>8. CASE UNCHANGED vars BY <2>8 DEF vars
  <2>9. QED
    BY <2>1, <2>2, <2>3, <2>4, <2>5, <2>6, <2>7, <2>8 DEF Next
<1>s. Sound(cache)' /\ Sound(file)'
  <2> USE EmptyRegistry DEF Sound
  <2>1. CASE Load BY <2>1, <1>r, LoadReaches
  <2>2. CASE Restart BY <2>2, <1>r DEF Restart
  <2>3. ASSUME NEW t \in Tokens, Create(t) PROVE <1>s!:
    <3>1. issued' = issued \cup {t} BY <2>3 DEF Create
    <3>2. QED BY <2>3, <3>1, CreateReaches, IssuingRegistry DEF Reaches, ActiveOf, Active
  <2>4. ASSUME NEW t \in Tokens, Revoke(t) PROVE <1>s!:
    <3>1. t \in cache.known BY <2>4 DEF Revoke
    <3>2. /\ Revoking(cache, {t}) \in Registries
          /\ Revoking(cache, {t}).known = cache.known
          /\ Revoking(cache, {t}).revoked = cache.revoked \cup {t}
      BY RevokingRegistry
    <3>3. QED BY <2>4, <3>1, <3>2, <1>r, RevokeReaches DEF Reaches
  <2>5. ASSUME NEW t \in Tokens, Verify(t) PROVE <1>s!:
    BY <2>5, <1>r, VerifyReaches DEF Reaches
  <2>6. ASSUME NEW t \in Tokens, NEW u \in Tokens, Rotate(u, t) PROVE <1>s!:
    <3> DEFINE r == Revoking(cache, {u})
    <3>1. u \in cache.known BY <2>6 DEF Rotate
    <3>2. r \in Registries /\ r.known = cache.known /\ r.revoked = cache.revoked \cup {u}
      BY RevokingRegistry
    <3>3. /\ Rotating(cache, u, t) \in Registries
          /\ Rotating(cache, u, t).known = cache.known \cup {t}
          /\ Rotating(cache, u, t).revoked \subseteq cache.known
      <4> HIDE DEF r
      <4>1. /\ Issuing(r, t) \in Registries
            /\ Issuing(r, t).known = r.known \cup {t}
            /\ Issuing(r, t).revoked = r.revoked \cup ActiveOf(r, wallet[t])
        BY <3>2, IssuingRegistry
      <4>2. ActiveOf(r, wallet[t]) \subseteq r.known
        BY DEF ActiveOf, Active
      <4>3. QED BY <3>1, <3>2, <4>1, <4>2 DEF Rotating, r
    <3> HIDE DEF r
    <3>4. CASE Reaches({r}) /\ issued' = issued
      BY <3>1, <3>2, <3>4 DEF Reaches
    <3>5. CASE Reaches({r, Rotating(cache, u, t)}) /\ issued' = issued \cup {t}
      BY <3>1, <3>2, <3>3, <3>5 DEF Reaches
    <3>6. QED BY <2>6, <3>4, <3>5, RotateReaches DEF r
  <2>7. ASSUME NEW m \in Terms, Expire(m) PROVE <1>s!:
    BY <2>7, <1>r DEF Expire
  <2>8. CASE UNCHANGED vars BY <2>8 DEF vars
  <2>9. QED
    BY <2>1, <2>2, <2>3, <2>4, <2>5, <2>6, <2>7, <2>8 DEF Next
<1>q. QED
  BY <1>c, <1>r, <1>g, <1>s DEF TypeOK, Sound

LEMMA SoundAtFirst == Init => SoundInv
<1> SUFFICES ASSUME Init PROVE SoundInv
  OBVIOUS
<1>1. Sound(cache) /\ Sound(file)
  BY EmptyRegistry DEF Init, Sound
<1>2. TypeOK
  <2>1. loaded \in BOOLEAN BY Zenon DEF Init
  <2>2. faults \in 0 .. MaxFaults /\ kills \in 0 .. MaxKills
    BY ConstantsAssumption DEF Init
  <2>3. QED BY <2>1, <2>2, EmptyRegistry DEF Init, TypeOK
<1>3. QED BY <1>1, <1>2 DEF SoundInv

LEMMA SoundAlways == Spec => []SoundInv
BY SoundAtFirst, SoundStep, PTL DEF Spec

\* Memory and file hold well-formed registries of issued tokens, whatever
\* fails.
THEOREM TypeCorrect == Spec => []TypeOK
<1>1. SoundInv => TypeOK
  BY DEF SoundInv
<1>2. QED
  BY <1>1, SoundAlways, PTL

-----------------------------------------------------------------------------
\* What is active after a token has been revoked, and after one was issued.
LEMMA RevokingActive ==
  ASSUME NEW r \in Registries, NEW ts \in SUBSET Tokens
  PROVE  Active(Revoking(r, ts)) = Active(r) \ ts
BY RevokingRegistry DEF Active

LEMMA IssuingActive ==
  ASSUME NEW r, Sound(r), NEW t \in Tokens, t \notin issued
  PROVE  Active(Issuing(r, t)) = (Active(r) \ ActiveOf(r, wallet[t])) \cup {t}
<1>1. /\ Issuing(r, t).known = r.known \cup {t}
      /\ Issuing(r, t).revoked = r.revoked \cup ActiveOf(r, wallet[t])
  BY IssuingRegistry DEF Sound
<1>2. t \notin r.known /\ t \notin r.revoked
  BY DEF Sound
<1>3. QED
  BY <1>1, <1>2 DEF Active, ActiveOf

LEMMA RotatingActive ==
  ASSUME SoundInv, NEW u \in cache.known, NEW t \in Tokens, t \notin issued
  PROVE  Active(Rotating(cache, u, t)) =
           (Active(cache) \ ({u} \cup ActiveOf(cache, wallet[t]))) \cup {t}
<1> DEFINE r == Revoking(cache, {u})
<1>1. u \in Tokens /\ cache \in Registries
  BY DEF SoundInv, Sound, Registries
<1>2. /\ r \in Registries /\ r.known = cache.known
      /\ r.revoked = cache.revoked \cup {u} /\ Active(r) = Active(cache) \ {u}
  BY <1>1, RevokingRegistry, RevokingActive
<1> HIDE DEF r
<1>3. Sound(r)
  BY <1>2 DEF SoundInv, Sound
<1>4. ActiveOf(r, wallet[t]) = ActiveOf(cache, wallet[t]) \ {u}
  BY <1>2 DEF ActiveOf
<1>5. Active(Issuing(r, t)) = (Active(r) \ ActiveOf(r, wallet[t])) \cup {t}
  BY <1>3, IssuingActive
<1>6. QED
  BY <1>2, <1>4, <1>5 DEF Rotating, r

\* One active token per wallet, in one registry.
Lone(r) == \A t, u \in Active(r) : wallet[t] = wallet[u] => t = u

LEMMA LoneStep == SoundInv /\ OneActive /\ [Next]_vars => OneActive'
<1> SUFFICES ASSUME SoundInv, OneActive, [Next]_vars PROVE OneActive'
  OBVIOUS
<1>1. Lone(cache) /\ Lone(file)
  BY DEF OneActive, Lone
<1>2. Lone(Empty)
  BY EmptyRegistry DEF Lone, Active
<1>3. ASSUME NEW u \in Tokens PROVE Lone(Revoking(cache, {u}))
  BY <1>1, RevokingActive DEF Lone, SoundInv, Sound
<1>4. ASSUME NEW t \in Tokens, t \notin issued PROVE Lone(Issuing(cache, t))
  BY <1>1, <1>4, IssuingActive DEF Lone, ActiveOf, SoundInv
<1>5. ASSUME NEW u \in cache.known, NEW t \in Tokens, t \notin issued
      PROVE  Lone(Rotating(cache, u, t))
  BY <1>1, <1>5, RotatingActive DEF Lone, ActiveOf
<1>6. Lone(cache') /\ Lone(file') /\ wallet' = wallet
  <2> USE <1>1, <1>2 DEF Owners
  <2>1. CASE Load BY <2>1, LoadReaches DEF Load
  <2>2. CASE Restart BY <2>2 DEF Restart
  <2>3. ASSUME NEW t \in Tokens, Create(t) PROVE <1>6!:
    BY <2>3, <1>4, CreateReaches DEF Create, Fresh, Reaches
  <2>4. ASSUME NEW t \in Tokens, Revoke(t) PROVE <1>6!:
    BY <2>4, <1>3, RevokeReaches DEF Revoke, Reaches
  <2>5. ASSUME NEW t \in Tokens, Verify(t) PROVE <1>6!:
    BY <2>5, VerifyReaches DEF Verify, Reaches
  <2>6. ASSUME NEW t \in Tokens, NEW u \in Tokens, Rotate(u, t) PROVE <1>6!:
    BY <2>6, <1>3, <1>5, RotateReaches DEF Rotate, Fresh, Reaches
  <2>7. ASSUME NEW m \in Terms, Expire(m) PROVE <1>6!:
    BY <2>7 DEF Expire
  <2>8. CASE UNCHANGED vars BY <2>8 DEF vars
  <2>9. QED
    BY <2>1, <2>2, <2>3, <2>4, <2>5, <2>6, <2>7, <2>8 DEF Next
<1>7. QED
  BY <1>6 DEF OneActive, Lone, Active

\* A wallet has at most one active token in memory and in the file, whatever
\* write fails and whenever the gateway is restarted.
THEOREM OneActivePerWallet == Spec => []OneActive
<1>1. Init => OneActive
  BY EmptyRegistry DEF Init, OneActive, Active
<1>2. QED
  BY <1>1, LoneStep, SoundAlways, PTL DEF Spec

-----------------------------------------------------------------------------
LEMMA RevocationStep == SoundInv /\ RevocationHolds /\ [Next]_vars => RevocationHolds'
<1> SUFFICES ASSUME SoundInv, RevocationHolds, [Next]_vars PROVE RevocationHolds'
  OBVIOUS
<1>1. /\ withdrawn \subseteq issued /\ Active(Empty) = {}
      /\ withdrawn \cap Active(cache) = {} /\ withdrawn \cap Active(file) = {}
  BY EmptyRegistry DEF SoundInv, TypeOK, RevocationHolds, Active
<1>2. withdrawn' \cap Active(cache') = {} /\ withdrawn' \cap Active(file') = {}
  <2> USE <1>1 DEF Told
  <2>1. CASE Load BY <2>1, LoadReaches DEF Load
  <2>2. CASE Restart BY <2>2 DEF Restart
  <2>3. ASSUME NEW t \in Tokens, Create(t) PROVE <1>2!:
    <3> DEFINE s == Issuing(cache, t)
    <3>1. t \notin issued
      BY <2>3 DEF Create, Fresh
    <3>2. Active(s) = (Active(cache) \ ActiveOf(cache, wallet[t])) \cup {t}
      BY <3>1, IssuingActive DEF SoundInv
    <3> HIDE DEF s
    <3>3. CASE UNCHANGED Told
      BY <2>3, <3>1, <3>2, <3>3, CreateReaches DEF Reaches, s
    <3>4. CASE Written(s) /\ withdrawn' = withdrawn \cup ActiveOf(cache, wallet[t])
      <4>1. t \notin ActiveOf(cache, wallet[t])
        BY <3>1 DEF ActiveOf, Active, SoundInv, Sound
      <4>2. QED BY <3>1, <3>2, <3>4, <4>1 DEF Written
    <3>5. QED BY <2>3, <3>3, <3>4 DEF Create, Untold, s
  <2>4. ASSUME NEW t \in Tokens, Revoke(t) PROVE <1>2!:
    <3> DEFINE r == Revoking(cache, {t})
    <3>1. Active(r) = Active(cache) \ {t}
      BY RevokingActive DEF SoundInv, Sound
    <3> HIDE DEF r
    <3>2. CASE UNCHANGED Told
      BY <2>4, <3>1, <3>2, RevokeReaches DEF Reaches, r
    <3>3. CASE Written(r) /\ withdrawn' = withdrawn \cup {t}
      BY <3>1, <3>3 DEF Written
    <3>4. QED BY <2>4, <3>2, <3>3 DEF Revoke, Untold, r
  <2>5. ASSUME NEW t \in Tokens, Verify(t) PROVE <1>2!:
    BY <2>5, VerifyReaches DEF Verify, Untold, Reaches
  <2>6. ASSUME NEW t \in Tokens, NEW u \in Tokens, Rotate(u, t) PROVE <1>2!:
    <3> DEFINE r == Revoking(cache, {u})
               s == Rotating(cache, u, t)
    <3>1. t \notin issued /\ u \in cache.known
      BY <2>6 DEF Rotate, Fresh
    <3>2. Active(r) = Active(cache) \ {u}
      BY RevokingActive DEF SoundInv, Sound
    <3>3. Active(s) = (Active(cache) \ ({u} \cup ActiveOf(cache, wallet[t]))) \cup {t}
      BY <3>1, RotatingActive
    <3> HIDE DEF r, s
    <3>4. CASE UNCHANGED Told
      BY <2>6, <3>1, <3>2, <3>3, <3>4, RotateReaches DEF Reaches, r, s
    <3>5. CASE /\ Written(s)
               /\ withdrawn' = withdrawn \cup {u} \cup ActiveOf(cache, wallet[t])
      <4>1. t \notin ActiveOf(cache, wallet[t]) /\ t # u
        BY <3>1 DEF ActiveOf, Active, SoundInv, Sound
      <4>2. QED BY <3>1, <3>3, <3>5, <4>1 DEF Written
    <3>6. QED BY <2>6, <3>4, <3>5 DEF Rotate, Rotating, Untold, s
  <2>7. ASSUME NEW m \in Terms, Expire(m) PROVE <1>2!:
    BY <2>7 DEF Expire
  <2>8. CASE UNCHANGED vars BY <2>8 DEF vars
  <2>9. QED
    BY <2>1, <2>2, <2>3, <2>4, <2>5, <2>6, <2>7, <2>8 DEF Next
<1>3. QED
  BY <1>2 DEF RevocationHolds, Active

\* No failing write and no restart makes a token acceptable again whose owner
\* was told that it is revoked.
THEOREM RevocationIsFinal == Spec => []RevocationHolds
<1>1. Init => RevocationHolds
  BY DEF Init, RevocationHolds
<1>2. QED
  BY <1>1, RevocationStep, SoundAlways, PTL DEF Spec

-----------------------------------------------------------------------------
\* While no load or write has failed or been cut off, the cache is the file.
SavedInv ==
  faults = 0 /\ kills = 0 =>
    /\ loaded => cache = file
    /\ given \ withdrawn \subseteq Active(file)

\* An undisturbed operation is an undisturbed write.
LEMMA Undisturbed ==
  ASSUME TypeOK, NEW before, NEW r, NEW rs,
         Thrown(before, r) \/ Killed(rs)
  PROVE  faults' # 0 \/ kills' # 0
BY DEF TypeOK, Thrown, Killed

LEMMA SavedStep == SoundInv /\ SavedInv /\ [Next]_vars => SavedInv'
<1> SUFFICES ASSUME SoundInv, SavedInv, [Next]_vars, faults' = 0, kills' = 0
             PROVE  (loaded' => cache' = file') /\ given' \ withdrawn' \subseteq Active(file')
  BY DEF SavedInv, Active
<1>t. TypeOK BY DEF SoundInv
<1>z. faults = 0 /\ kills = 0
  <2> USE <1>t, Undisturbed DEF Untold
  <2>1. CASE Load BY <2>1 DEF Load, TypeOK
  <2>2. CASE Restart BY <2>2 DEF Restart
  <2>3. ASSUME NEW t \in Tokens, Create(t) PROVE <1>z!:
    BY <2>3 DEF Create, Written
  <2>4. ASSUME NEW t \in Tokens, Revoke(t) PROVE <1>z!:
    BY <2>4 DEF Revoke, Written
  <2>5. ASSUME NEW t \in Tokens, Verify(t) PROVE <1>z!:
    BY <2>5 DEF Verify, Written
  <2>6. ASSUME NEW t \in Tokens, NEW u \in Tokens, Rotate(u, t) PROVE <1>z!:
    BY <2>6 DEF Rotate, Written
  <2>7. ASSUME NEW m \in Terms, Expire(m) PROVE <1>z!:
    BY <2>7 DEF Expire
  <2>8. CASE UNCHANGED vars BY <2>8 DEF vars
  <2>9. QED
    BY <2>1, <2>2, <2>3, <2>4, <2>5, <2>6, <2>7, <2>8 DEF Next
<1>1. /\ loaded => cache = file
      /\ given \ withdrawn \subseteq Active(file)
      /\ given \subseteq issued
  BY <1>z, <1>t DEF SavedInv, TypeOK
<1>2. /\ loaded' => cache' = file'
      /\ given' \ withdrawn' \subseteq Active(file')
  <2> USE <1>1 DEF Told
  <2>1. CASE Load BY <2>1, <1>z DEF Load
  <2>2. CASE Restart BY <2>2 DEF Restart
  <2>3. ASSUME NEW t \in Tokens, Create(t) PROVE <1>2!:
    <3> DEFINE s == Issuing(cache, t)
    <3>1. t \notin issued /\ cache = file
      BY <2>3 DEF Create, Fresh
    <3>2. Active(s) = (Active(cache) \ ActiveOf(cache, wallet[t])) \cup {t}
      BY <3>1, IssuingActive DEF SoundInv
    <3> HIDE DEF s
    <3>3. /\ Written(s) /\ given' = given \cup {t}
          /\ withdrawn' = withdrawn \cup ActiveOf(cache, wallet[t])
      BY <2>3, <1>t, Undisturbed DEF Create, Untold, s
    <3>4. QED BY <3>1, <3>2, <3>3 DEF Written
  <2>4. ASSUME NEW t \in Tokens, Revoke(t) PROVE <1>2!:
    <3> DEFINE r == Revoking(cache, {t})
    <3>1. Active(r) = Active(cache) \ {t}
      BY RevokingActive DEF SoundInv, Sound
    <3> HIDE DEF r
    <3>2. Written(r) /\ given' = given /\ withdrawn' = withdrawn \cup {t} /\ cache = file
      BY <2>4, <1>t, Undisturbed DEF Revoke, Untold, r
    <3>3. QED BY <3>1, <3>2 DEF Written
  <2>5. ASSUME NEW t \in Tokens, Verify(t) PROVE <1>2!:
    <3>1. Written(cache) /\ UNCHANGED Told /\ cache = file
      BY <2>5, <1>t, Undisturbed DEF Verify, Untold
    <3>2. QED BY <3>1 DEF Written
  <2>6. ASSUME NEW t \in Tokens, NEW u \in Tokens, Rotate(u, t) PROVE <1>2!:
    <3> DEFINE s == Rotating(cache, u, t)
    <3>1. t \notin issued /\ u \in cache.known /\ cache = file
      BY <2>6 DEF Rotate, Fresh
    <3>2. Active(s) = (Active(cache) \ ({u} \cup ActiveOf(cache, wallet[t]))) \cup {t}
      BY <3>1, RotatingActive
    <3> HIDE DEF s
    <3>3. /\ Written(s) /\ given' = given \cup {t}
          /\ withdrawn' = withdrawn \cup {u} \cup ActiveOf(cache, wallet[t])
      BY <2>6, <1>t, Undisturbed DEF Rotate, Rotating, Untold, s
    <3>4. QED BY <3>1, <3>2, <3>3 DEF Written
  <2>7. ASSUME NEW m \in Terms, Expire(m) PROVE <1>2!:
    BY <2>7 DEF Expire
  <2>8. CASE UNCHANGED vars BY <2>8 DEF vars
  <2>9. QED
    BY <2>1, <2>2, <2>3, <2>4, <2>5, <2>6, <2>7, <2>8 DEF Next
<1>3. QED BY <1>2

\* Without a failing or interrupted load or write a token that was shown and not
\* withdrawn stays active, also over restarts.
THEOREM TokensAreKept == Spec => []NoTokenLost
<1>1. Init => SavedInv
  BY EmptyRegistry DEF Init, SavedInv
<1>2. SavedInv => NoTokenLost
  BY DEF SavedInv, NoTokenLost, Current, Active
<1>3. QED
  BY <1>1, <1>2, SavedStep, SoundAlways, PTL DEF Spec

-----------------------------------------------------------------------------
\* The tokens of a chain of rotations have the terms of its first.
ChainInv ==
  \A t \in Tokens :
    /\ terms[t] = terms[first[t]]
    /\ t \notin issued => first[t] = t

LEMMA ChainStep == TypeOK /\ ChainInv /\ [Next]_vars => ChainInv'
<1> SUFFICES ASSUME TypeOK, ChainInv, [Next]_vars PROVE ChainInv'
  OBVIOUS
<1> USE DEF TypeOK, ChainInv, Owners
<1>1. CASE Load BY <1>1 DEF Load
<1>2. CASE Restart BY <1>2 DEF Restart
<1>3. ASSUME NEW t \in Tokens, Create(t) PROVE ChainInv'
  BY <1>3 DEF Create
<1>4. ASSUME NEW t \in Tokens, Revoke(t) PROVE ChainInv'
  BY <1>4 DEF Revoke
<1>5. ASSUME NEW t \in Tokens, Verify(t) PROVE ChainInv'
  BY <1>5 DEF Verify
<1>6. ASSUME NEW t \in Tokens, NEW u \in Tokens, Rotate(u, t) PROVE ChainInv'
  <2>1. UNCHANGED <<wallet, terms>> /\ terms[t] = terms[u]
    BY <1>6 DEF Rotate, Copies
  <2>2. CASE UNCHANGED <<issued, first>>
    BY <2>1, <2>2
  <2>3. CASE issued' = issued \cup {t} /\ first' = [first EXCEPT ![t] = first[u]]
    BY <2>1, <2>3
  <2>4. QED BY <1>6, <2>2, <2>3 DEF Rotate
<1>7. ASSUME NEW m \in Terms, Expire(m) PROVE ChainInv'
  BY <1>7 DEF Expire
<1>8. CASE UNCHANGED vars BY <1>8 DEF vars
<1>9. QED
  BY <1>1, <1>2, <1>3, <1>4, <1>5, <1>6, <1>7, <1>8 DEF Next

\* No chain of rotations outlives the expiry its first token was created with.
THEOREM RotationExtendsNothing == Spec => []RotationKeepsTerms
<1>1. Init => ChainInv
  BY DEF Init, ChainInv
<1>2. SoundInv => TypeOK
  BY DEF SoundInv
<1>3. ChainInv => RotationKeepsTerms
  <2> SUFFICES ASSUME ChainInv, NEW t \in Tokens, Accepted(t)
               PROVE  terms[first[t]] \notin passed
    BY Zenon DEF RotationKeepsTerms
  <2>1. terms[t] = terms[first[t]] BY Zenon DEF ChainInv
  <2>2. QED BY <2>1 DEF Accepted
<1>4. QED
  BY <1>1, <1>2, <1>3, ChainStep, SoundAlways, PTL DEF Spec

-----------------------------------------------------------------------------
(* What another component may rely on from one step of the registry to the     *)
(* next, whatever the step is and whatever fails.                              *)

\* An operation that counts no failure has written what it computed.
LEMMA RevokeTells ==
  ASSUME TypeOK, NEW t, Revoke(t), faults' = faults, kills' = kills
  PROVE  t \in withdrawn'
<1>1. faults \in Nat /\ kills \in Nat
  BY ConstantsAssumption DEF TypeOK
<1>2. ~Untold(file, Revoking(cache, {t}))
  BY <1>1 DEF Untold, Thrown, Killed
<1>3. QED BY <1>2 DEF Revoke

\* A token that is active neither in memory nor in the file never is again.
LEMMA RetiredStays == SoundInv /\ [Next]_vars =>
  /\ issued \subseteq issued' /\ withdrawn \subseteq withdrawn'
  /\ \A t \in issued :
       t \notin Active(cache) \cup Active(file) => t \notin Active(cache') \cup Active(file')
<1> SUFFICES ASSUME SoundInv, [Next]_vars
             PROVE  /\ issued \subseteq issued' /\ withdrawn \subseteq withdrawn'
                    /\ \A t \in issued :
                         t \notin Active(cache) \cup Active(file)
                           => t \notin Active(cache') \cup Active(file')
  OBVIOUS
<1> DEFINE Stay(r) == \A t \in issued : t \in Active(r) => t \in Active(cache) \cup Active(file)
<1>1. Stay(cache) /\ Stay(file) /\ Stay(Empty)
  BY EmptyRegistry DEF Active
<1>2. ASSUME NEW u \in Tokens PROVE Stay(Revoking(cache, {u}))
  BY RevokingActive DEF SoundInv, Sound
<1>3. ASSUME NEW t \in Tokens, t \notin issued PROVE Stay(Issuing(cache, t))
  BY <1>3, IssuingActive DEF SoundInv
<1>4. ASSUME NEW u \in cache.known, NEW t \in Tokens, t \notin issued
      PROVE  Stay(Rotating(cache, u, t))
  BY <1>4, RotatingActive
<1>5. Stay(cache') /\ Stay(file') /\ issued \subseteq issued' /\ withdrawn \subseteq withdrawn'
  <2> HIDE DEF Stay
  <2> USE <1>1 DEF Told
  <2>1. CASE Load BY <2>1, LoadReaches DEF Load
  <2>2. CASE Restart BY <2>2 DEF Restart
  <2>3. ASSUME NEW t \in Tokens, Create(t) PROVE <1>5!:
    BY <2>3, <1>3, CreateReaches DEF Create, Fresh, Reaches, Untold
  <2>4. ASSUME NEW t \in Tokens, Revoke(t) PROVE <1>5!:
    BY <2>4, <1>2, RevokeReaches DEF Revoke, Reaches, Untold
  <2>5. ASSUME NEW t \in Tokens, Verify(t) PROVE <1>5!:
    BY <2>5, VerifyReaches DEF Verify, Reaches, Untold
  <2>6. ASSUME NEW t \in Tokens, NEW u \in Tokens, Rotate(u, t) PROVE <1>5!:
    BY <2>6, <1>2, <1>4, RotateReaches DEF Rotate, Fresh, Reaches, Untold
  <2>7. ASSUME NEW m \in Terms, Expire(m) PROVE <1>5!:
    BY <2>7 DEF Expire
  <2>8. CASE UNCHANGED vars BY <2>8 DEF vars
  <2>9. QED
    BY <2>1, <2>2, <2>3, <2>4, <2>5, <2>6, <2>7, <2>8 DEF Next
<1>6. QED BY <1>5

\* Failures and kills are counted, and never uncounted.
LEMMA FailuresCount == TypeOK /\ [Next]_vars => faults <= faults' /\ kills <= kills'
<1> SUFFICES ASSUME TypeOK, [Next]_vars PROVE faults <= faults' /\ kills <= kills'
  OBVIOUS
<1>1. faults \in Nat /\ kills \in Nat
  BY ConstantsAssumption DEF TypeOK
<1> DEFINE Counts == faults <= faults' /\ kills <= kills'
<1>2. ASSUME NEW before, NEW r, NEW rs, Written(r) \/ Thrown(before, r) \/ Killed(rs) PROVE Counts
  BY <1>1, <1>2 DEF Written, Thrown, Killed
<1>3. CASE Load BY <1>1, <1>3 DEF Load
<1>4. CASE Restart BY <1>1, <1>4 DEF Restart
<1> HIDE DEF Counts
<1>5. ASSUME NEW t \in Tokens, Create(t) PROVE Counts
  BY <1>2, <1>5 DEF Create, Untold
<1>6. ASSUME NEW t \in Tokens, Revoke(t) PROVE Counts
  BY <1>2, <1>6 DEF Revoke, Untold
<1>7. ASSUME NEW t \in Tokens, Verify(t) PROVE Counts
  BY <1>2, <1>7 DEF Verify, Untold
<1>8. ASSUME NEW t \in Tokens, NEW u \in Tokens, Rotate(u, t) PROVE Counts
  BY <1>2, <1>8 DEF Rotate, Untold
<1>9. ASSUME NEW m \in Terms, Expire(m) PROVE Counts
  BY <1>1, <1>9 DEF Expire, Counts
<1>10. CASE UNCHANGED vars
  BY <1>1, <1>10 DEF vars, Counts
<1>11. Counts
  BY <1>3, <1>4, <1>5, <1>6, <1>7, <1>8, <1>9, <1>10 DEF Next, Counts
<1>12. QED BY <1>11 DEF Counts
=============================================================================
