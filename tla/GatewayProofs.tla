----------------------------- MODULE GatewayProofs -----------------------------
(***************************************************************************)
(* Proofs about the parts that MCGateway checks in one run and that have   *)
(* no module of their own for proofs: the files of a wallet (WalletMemory),*)
(* the page's conversations (Conversation) and the live smoke tools        *)
(* (SmokeTools); and about the run itself: what it shows of a part is what *)
(* the part's own specification allows.                                    *)
(*                                                                         *)
(* Each component has an inductive invariant, a conjunction of named parts *)
(* that say more than the property: MemoryInv, ShapeInv with Remembered,   *)
(* and SmokeInv. Sequences are compared position by position, since that   *)
(* is what the provers can do.                                             *)
(***************************************************************************)
EXTENDS MCGateway, ChatTurnProofs, GovernedCallProofs, ReproLabProofs,
        FiniteSetTheorems, SequenceTheorems, WellFoundedInduction, TLAPS

-----------------------------------------------------------------------------
(* The files of a wallet *)

\* A list is the end of another, position by position.
EndOf(new, list) ==
  /\ Len(new) <= Len(list)
  /\ \A i \in 1 .. Len(new) : new[i] = list[Len(list) - Len(new) + i]

\* What the last cap entries of a list are.
LEMMA NewestOf ==
  ASSUME NEW S, NEW list \in Seq(S), NEW cap \in Nat \ {0}
  PROVE  /\ Newest(list, cap) \in Seq(S)
         /\ Len(Newest(list, cap)) <= cap
         /\ Len(Newest(list, cap)) = cap \/ Newest(list, cap) = list
         /\ EndOf(Newest(list, cap), list)
<1>1. Len(list) \in Nat /\ \A i \in 1 .. Len(list) : list[i] \in S
  BY LenProperties, ElementOfSeq
<1>2. CASE Len(list) <= cap
  <2>1. Newest(list, cap) = list
    BY <1>1, <1>2 DEF Newest
  <2>2. \A i \in 1 .. Len(list) : Len(list) - Len(list) + i = i
    BY <1>1
  <2>3. \A i \in 1 .. Len(list) : list[i] = list[Len(list) - Len(list) + i]
    BY <2>2
  <2>4. QED BY <1>1, <1>2, <2>1, <2>3 DEF EndOf
<1>3. CASE Len(list) > cap
  <2> DEFINE m == Len(list) - cap + 1
  <2>1. m \in Int /\ \A i \in m .. Len(list) : list[i] \in S
    BY <1>1, <1>3
  <2>2. /\ SubSeq(list, m, Len(list)) \in Seq(S)
        /\ Len(SubSeq(list, m, Len(list))) = cap
        /\ \A i \in 1 .. cap : SubSeq(list, m, Len(list))[i] = list[m + i - 1]
    <3>1. /\ SubSeq(list, m, Len(list)) \in Seq(S)
          /\ Len(SubSeq(list, m, Len(list))) = IF m <= Len(list) THEN Len(list) - m + 1 ELSE 0
          /\ \A i \in 1 .. Len(list) - m + 1 : SubSeq(list, m, Len(list))[i] = list[m + i - 1]
      BY <1>1, <2>1, SubSeqProperties
    <3>2. Len(list) - m + 1 = cap /\ m <= Len(list)
      BY <1>1
    <3> HIDE DEF m
    <3>3. QED BY <3>1, <3>2
  <2>3. Newest(list, cap) = SubSeq(list, m, Len(list))
    BY <1>3 DEF Newest
  <2>4. Len(list) - cap \in Nat /\ \A i \in 1 .. cap : m + i - 1 = Len(list) - cap + i
    BY <1>1, <1>3
  <2> HIDE DEF m
  <2>5. \A i \in 1 .. cap : SubSeq(list, m, Len(list))[i] = list[Len(list) - cap + i]
    BY <2>2, <2>4
  <2>6. QED BY <1>1, <1>3, <2>2, <2>3, <2>5 DEF EndOf
<1>4. QED BY <1>1, <1>2, <1>3

\* Positions, instead of the reversed sequences of the library.
LEMMA SuffixByPosition ==
  ASSUME NEW S, NEW s \in Seq(S), NEW t \in Seq(S), Len(s) <= Len(t),
         \A i \in 1 .. Len(s) : s[i] = t[Len(t) - Len(s) + i]
  PROVE  IsSuffix(s, t)
<1>1. Len(s) \in Nat /\ Len(t) \in Nat
  BY LenProperties
<1> DEFINE rs == [i \in 1 .. Len(s) |-> s[(Len(s) - i) + 1]]
           rt == [i \in 1 .. Len(t) |-> t[(Len(t) - i) + 1]]
<1>2. rs \in Seq(S) /\ Len(rs) = Len(s)
  <2>1. \A i \in 1 .. Len(s) : s[(Len(s) - i) + 1] \in S
    BY <1>1, ElementOfSeq
  <2>2. rs \in [1 .. Len(s) -> S]
    BY <2>1
  <2>3. QED BY <1>1, <2>2
<1>3. rt \in Seq(S) /\ Len(rt) = Len(t)
  <2>1. \A i \in 1 .. Len(t) : t[(Len(t) - i) + 1] \in S
    BY <1>1, ElementOfSeq
  <2>2. rt \in [1 .. Len(t) -> S]
    BY <2>1
  <2>3. QED BY <1>1, <2>2
<1>4. \A i \in 1 .. Len(s) : rs[i] = rt[i]
  BY <1>1
<1>5. Reverse(s) = rs /\ Reverse(t) = rt
  BY DEF Reverse
<1> HIDE DEF rs, rt
<1>6. \A i \in 1 .. Len(s) : rs[i] \in S /\ rt[i] \in S
  BY <1>1, <1>2, <1>3, ElementOfSeq
<1>7. SubSeq(rs, 1, Len(rs)) = SubSeq(rt, 1, Len(rs))
  <2>1. /\ SubSeq(rs, 1, Len(s)) \in Seq(S) /\ SubSeq(rt, 1, Len(s)) \in Seq(S)
        /\ Len(SubSeq(rs, 1, Len(s))) = Len(s) /\ Len(SubSeq(rt, 1, Len(s))) = Len(s)
        /\ \A i \in 1 .. Len(s) : SubSeq(rs, 1, Len(s))[i] = rs[i]
        /\ \A i \in 1 .. Len(s) : SubSeq(rt, 1, Len(s))[i] = rt[i]
    BY <1>1, <1>6, SubSeqProperties
  <2>2. SubSeq(rs, 1, Len(s)) = SubSeq(rt, 1, Len(s))
    BY <1>4, <2>1, SeqEqual
  <2>3. QED BY <1>2, <2>2
<1>8. QED BY <1>1, <1>2, <1>3, <1>5, <1>7 DEF IsSuffix, IsPrefix

\* A write leaves the new list, the file as it was, or one that cannot be read.
LEMMA WriteLeaves ==
  ASSUME NEW file, NEW list, NEW spent, NEW w \in Writes(file, list, spent)
  PROVE  \/ w.file = Intact(list) /\ w.cost = 0
         \/ /\ w.file = file \/ w.file = Unreadable
            /\ w.cost = 1 /\ memoryFaults + spent < MaxMemoryFaults
BY DEF Writes

FaultsInv == memoryFaults \in 0 .. MaxMemoryFaults

\* The caps of the stores, and the bounds of the model.
LEMMA Bounds ==
  /\ HistoryCap \in Nat \ {0} /\ ConversationCap \in Nat \ {0}
  /\ RecallCap \in Nat \ {0} /\ CouncilCap \in Nat \ {0}
  /\ MaxNotes \in Nat /\ MaxSaves \in Nat /\ MaxTurns \in Nat
  /\ MaxSessions \in Nat /\ MaxMemoryFaults \in Nat
BY WalletMemoryAssumption

-----------------------------------------------------------------------------
(* History *)

\* The file is the end of what was stored, position by position.
HistoryInv ==
  /\ history \in [ok : BOOLEAN, list : Seq(1 .. MaxNotes)]
  /\ entered \in Seq(1 .. MaxNotes) /\ notes \in 0 .. MaxNotes
  /\ Len(history.list) <= HistoryCap /\ EndOf(history.list, entered)
  /\ Len(history.list) = HistoryCap \/ history.list = entered
  /\ ~history.ok => history.list = <<>> /\ entered = <<>>

\* Positions and suffixes say the same.
LEMMA HistoryHolds == HistoryInv => HistoryKept
<1> SUFFICES ASSUME HistoryInv PROVE HistoryKept
  OBVIOUS
<1>1. history.list \in Seq(1 .. MaxNotes)
  BY DEF HistoryInv
<1>2. IsSuffix(history.list, entered)
  BY <1>1, SuffixByPosition DEF HistoryInv, EndOf
<1>3. QED BY <1>2 DEF HistoryInv, HistoryKept

\* An entry is appended to a list and to what it is the end of.
LEMMA AppendedEnd ==
  ASSUME NEW S, NEW list \in Seq(S), NEW all \in Seq(S), NEW cap \in Nat \ {0}, NEW e \in S,
         EndOf(list, all), Len(list) = cap \/ list = all
  PROVE  /\ Newest(Append(list, e), cap) \in Seq(S) /\ Append(all, e) \in Seq(S)
         /\ Len(Newest(Append(list, e), cap)) <= cap
         /\ EndOf(Newest(Append(list, e), cap), Append(all, e))
         /\ \/ Len(Newest(Append(list, e), cap)) = cap
            \/ Newest(Append(list, e), cap) = Append(all, e)
<1> DEFINE longer == Append(list, e)
           every == Append(all, e)
           new == Newest(longer, cap)
<1>1. /\ longer \in Seq(S) /\ Len(longer) = Len(list) + 1
      /\ \A i \in 1 .. Len(list) : longer[i] = list[i]
      /\ longer[Len(list) + 1] = e
  BY AppendProperties
<1>2. /\ every \in Seq(S) /\ Len(every) = Len(all) + 1
      /\ \A i \in 1 .. Len(all) : every[i] = all[i]
      /\ every[Len(all) + 1] = e
  BY AppendProperties
<1>3. Len(list) \in Nat /\ Len(all) \in Nat
  BY LenProperties
<1>4. list = all => longer = every
  OBVIOUS
<1> HIDE DEF longer, every
<1>5. /\ new \in Seq(S) /\ Len(new) <= cap /\ EndOf(new, longer)
      /\ Len(new) = cap \/ new = longer
  BY <1>1, NewestOf
<1> HIDE DEF new
<1>6. Len(new) \in Nat
  BY <1>5, LenProperties
<1>7. Len(new) = cap \/ new = every
  <2>1. CASE list = all
    BY <1>4, <1>5, <2>1
  <2>2. CASE Len(list) = cap
    <3>1. new # longer
      BY <1>1, <1>3, <1>5, <2>2
    <3>2. QED BY <1>5, <3>1
  <2>3. QED BY <2>1, <2>2
<1>8. /\ Len(list) <= Len(all) /\ Len(new) <= Len(longer)
      /\ \A i \in 1 .. Len(list) : list[i] = all[Len(all) - Len(list) + i]
      /\ \A i \in 1 .. Len(new) : new[i] = longer[Len(longer) - Len(new) + i]
  BY <1>5 DEF EndOf
<1>9. \A i \in 1 .. Len(longer) : longer[i] = every[Len(every) - Len(longer) + i]
  <2>1. SUFFICES ASSUME NEW i \in 1 .. Len(longer)
                 PROVE  longer[i] = every[Len(every) - Len(longer) + i]
    OBVIOUS
  <2>2. CASE i <= Len(list)
    <3>1. i \in 1 .. Len(list) /\ Len(all) - Len(list) + i \in 1 .. Len(all)
      BY <1>1, <1>3, <1>8, <2>2
    <3>2. Len(every) - Len(longer) + i = Len(all) - Len(list) + i
      BY <1>1, <1>2, <1>3
    <3>3. QED BY <1>1, <1>2, <1>8, <3>1, <3>2
  <2>3. CASE i = Len(list) + 1
    <3>1. Len(every) - Len(longer) + i = Len(all) + 1
      BY <1>1, <1>2, <1>3, <2>3
    <3>2. QED BY <1>1, <1>2, <2>3, <3>1
  <2>4. QED BY <1>1, <1>3, <2>2, <2>3
<1>10. \A i \in 1 .. Len(new) : new[i] = every[Len(every) - Len(new) + i]
  <2>1. SUFFICES ASSUME NEW i \in 1 .. Len(new)
                 PROVE  new[i] = every[Len(every) - Len(new) + i]
    OBVIOUS
  <2>2. Len(longer) - Len(new) + i \in 1 .. Len(longer)
    BY <1>1, <1>3, <1>6, <1>8
  <2>3. Len(every) - Len(longer) + (Len(longer) - Len(new) + i) = Len(every) - Len(new) + i
    BY <1>1, <1>2, <1>3, <1>6
  <2>4. QED BY <1>8, <1>9, <2>2, <2>3
<1>11. Len(new) <= Len(every)
  BY <1>1, <1>2, <1>3, <1>6, <1>8
<1>12. EndOf(new, every)
  BY <1>10, <1>11 DEF EndOf
<1>13. QED BY <1>2, <1>5, <1>7, <1>12 DEF new, longer, every

\* A file that holds the end of what it was given, as much as its cap allows.
EndKept(file, given, cap) ==
  /\ Len(file.list) <= cap /\ EndOf(file.list, given)
  /\ Len(file.list) = cap \/ file.list = given
  /\ ~file.ok => file.list = <<>> /\ given = <<>>

\* Whatever becomes of a write, the file it leaves holds the end of what it was
\* given.
LEMMA FileStep ==
  ASSUME NEW S, NEW file \in [ok : BOOLEAN, list : Seq(S)], NEW given \in Seq(S),
         NEW cap \in Nat \ {0}, NEW x \in S, NEW spent \in 0 .. 1,
         EndKept(file, given, cap), FaultsInv, memoryFaults + spent <= MaxMemoryFaults,
         NEW w \in Writes(file, Newest(Append(file.list, x), cap), spent)
  PROVE  /\ w.file \in [ok : BOOLEAN, list : Seq(S)] /\ AfterWrite(given, w, x) \in Seq(S)
         /\ EndKept(w.file, AfterWrite(given, w, x), cap)
         /\ w.cost \in 0 .. 1 /\ memoryFaults + spent + w.cost <= MaxMemoryFaults
<1> DEFINE list == Newest(Append(file.list, x), cap)
           every == Append(given, x)
<1>1. \/ w.file = Intact(list) /\ w.cost = 0
      \/ /\ w.file = file \/ w.file = Unreadable
         /\ w.cost = 1 /\ memoryFaults + spent < MaxMemoryFaults
  BY WriteLeaves
<1>2. /\ list \in Seq(S) /\ every \in Seq(S) /\ Len(list) <= cap /\ EndOf(list, every)
      /\ Len(list) = cap \/ list = every
  BY AppendedEnd DEF EndKept
<1>3. w.cost \in 0 .. 1 /\ memoryFaults + spent + w.cost <= MaxMemoryFaults
  BY <1>1, Bounds DEF FaultsInv
<1>4. CASE w.file = Intact(list) /\ w.cost = 0
  <2>1. AfterWrite(given, w, x) = every
    BY <1>4 DEF AfterWrite, Intact
  <2> HIDE DEF list, every
  <2>2. QED BY <1>2, <1>3, <1>4, <2>1 DEF EndKept, Intact
<1>5. CASE w.file = file /\ w.cost = 1
  <2>1. AfterWrite(given, w, x) = given
    BY <1>5 DEF AfterWrite, EndKept
  <2>2. QED BY <1>3, <1>5, <2>1
<1>6. CASE w.file = Unreadable
  <2>1. /\ w.file.list = <<>> /\ w.file.ok = FALSE /\ w.file \in [ok : BOOLEAN, list : Seq(S)]
        /\ AfterWrite(given, w, x) = <<>>
    BY <1>6 DEF AfterWrite, Unreadable
  <2>2. Len(<<>>) = 0 /\ <<>> \in Seq(S)
    OBVIOUS
  <2>3. QED BY <1>3, <2>1, <2>2 DEF EndKept, EndOf
<1>7. QED BY <1>1, <1>4, <1>5, <1>6

\* Any append to the history, however its write ends.
LEMMA EntryStep ==
  ASSUME HistoryInv, FaultsInv, NEW cost \in 0 .. 1,
         memoryFaults + cost <= MaxMemoryFaults, NEW w \in HistoryWrites(cost), Entering(w)
  PROVE  /\ HistoryInv' /\ notes' = notes + 1
         /\ w.cost \in 0 .. 1 /\ memoryFaults + cost + w.cost <= MaxMemoryFaults
<1>1. /\ notes' = notes + 1 /\ notes' \in 0 .. MaxNotes /\ notes + 1 \in 1 .. MaxNotes
      /\ history' = w.file /\ entered' = AfterWrite(entered, w, notes + 1)
  BY Bounds DEF Entering, HistoryInv
<1>2. /\ history \in [ok : BOOLEAN, list : Seq(1 .. MaxNotes)] /\ entered \in Seq(1 .. MaxNotes)
      /\ EndKept(history, entered, HistoryCap)
  BY DEF HistoryInv, EndKept
<1>3. w \in Writes(history, Newest(Append(history.list, notes + 1), HistoryCap), cost)
  BY DEF HistoryWrites
<1>4. /\ w.file \in [ok : BOOLEAN, list : Seq(1 .. MaxNotes)]
      /\ AfterWrite(entered, w, notes + 1) \in Seq(1 .. MaxNotes)
      /\ EndKept(w.file, AfterWrite(entered, w, notes + 1), HistoryCap)
      /\ w.cost \in 0 .. 1 /\ memoryFaults + cost + w.cost <= MaxMemoryFaults
  BY <1>1, <1>2, <1>3, Bounds, FileStep
<1>5. QED BY <1>1, <1>4 DEF HistoryInv, EndKept

LEMMA HistoryStep ==
  ASSUME HistoryInv, FaultsInv, NEW cost \in 0 .. 1,
         memoryFaults + cost <= MaxMemoryFaults, AppendHistory(cost)
  PROVE  HistoryInv' /\ FaultsInv' /\ notes' = notes + 1
<1>1. PICK w \in HistoryWrites(cost) : Entering(w) /\ memoryFaults' = memoryFaults + cost + w.cost
  BY DEF AppendHistory
<1>2. /\ HistoryInv' /\ notes' = notes + 1
      /\ w.cost \in 0 .. 1 /\ memoryFaults + cost + w.cost <= MaxMemoryFaults
  BY <1>1, EntryStep
<1>3. FaultsInv'
  BY <1>1, <1>2, Bounds DEF FaultsInv
<1>4. QED BY <1>2, <1>3

-----------------------------------------------------------------------------
(* Conversations *)

\* Different clock readings: few are as late as a given one.
Apart(f) == \A d, e \in DOMAIN f : f[d] > 0 /\ f[d] = f[e] => d = e

\* Distinct positive readings below a bound are finitely many.
LEMMA ReadingsAreFew ==
  ASSUME NEW D, NEW f \in [D -> Nat], Apart(f), NEW top \in Nat, \A d \in D : f[d] <= top,
         NEW T, T \subseteq D, \A d \in T : f[d] > 0
  PROVE  IsFiniteSet(T)
<1> DEFINE g == [d \in T |-> f[d]]
<1>1. g \in Injection(T, 1 .. top)
  BY DEF Injection, IsInjective, Apart
<1>2. IsFiniteSet(1 .. top)
  BY FS_Interval
<1>3. QED BY <1>1, <1>2, FS_Injection

\* At most cap elements have fewer than cap others after them.
LEMMA LatestAreFew ==
  ASSUME NEW D, NEW f \in [D -> Nat], Apart(f), NEW S, S \subseteq D, IsFiniteSet(S),
         \A d \in S : f[d] > 0, NEW cap \in Nat
  PROVE  Cardinality({d \in S : Cardinality({e \in S : f[e] > f[d]}) < cap}) <= cap
<1> DEFINE after(d) == {e \in S : f[e] > f[d]}
           T == {d \in S : Cardinality(after(d)) < cap}
<1>1. IsFiniteSet(T) /\ Cardinality(T) \in Nat /\ T \subseteq S
  BY FS_Subset, FS_CardinalityType
<1>2. CASE T = {}
  <2>1. Cardinality(T) = 0
    BY <1>2, FS_EmptySet
  <2> HIDE DEF T
  <2>2. Cardinality(T) <= cap
    BY <2>1
  <2>3. QED BY <2>2 DEF T
<1>3. CASE T # {}
  <2> DEFINE readings == {f[d] : d \in T}
  <2>1. readings \subseteq Nat /\ readings # {}
    BY <1>1, <1>3
  <2>2. PICK m \in readings : \A k \in readings : m <= k
    BY <2>1, Smallest
  <2>3. PICK x \in T : f[x] = m
    OBVIOUS
  <2>4. \A d \in T : f[x] <= f[d]
    BY <2>2, <2>3
  <2>5. T \ {x} \subseteq after(x)
    <3>1. SUFFICES ASSUME NEW d \in T \ {x} PROVE d \in after(x)
      OBVIOUS
    <3>2. f[x] <= f[d] /\ f[x] # f[d] /\ d \in S /\ x \in S /\ f[x] \in Nat /\ f[d] \in Nat
      BY <1>1, <2>4 DEF Apart
    <3>3. QED BY <3>2
  <2>6. IsFiniteSet(after(x)) /\ Cardinality(after(x)) \in Nat
    BY FS_Subset, FS_CardinalityType
  <2>7. Cardinality(after(x)) < cap
    OBVIOUS
  <2> HIDE DEF after
  <2>8. Cardinality(T \ {x}) = Cardinality(T) - 1
    BY <1>1, FS_RemoveElement
  <2> HIDE DEF T
  <2>9. Cardinality(T \ {x}) <= Cardinality(after(x))
    BY <2>5, <2>6, FS_Subset
  <2>10. Cardinality(T) <= cap
    BY <1>1, <2>6, <2>7, <2>8, <2>9
  <2>11. QED BY <2>10 DEF T, after
<1>4. QED BY <1>2, <1>3

\* What was written since a reading is finitely many.
LEMMA LaterAreFew ==
  ASSUME NEW D, NEW f \in [D -> Nat], Apart(f), NEW top \in Nat, \A d \in D : f[d] <= top,
         NEW k \in Nat
  PROVE  IsFiniteSet({d \in D : f[d] > k}) /\ Cardinality({d \in D : f[d] > k}) \in Nat
<1> DEFINE T == {d \in D : f[d] > k}
<1>1. T \subseteq D /\ \A d \in T : f[d] > 0
  OBVIOUS
<1> HIDE DEF T
<1>2. IsFiniteSet(T)
  BY <1>1, ReadingsAreFew
<1>3. QED BY <1>2, FS_CardinalityType DEF T

\* One clock for the files and for the saves: what is on disk is not newer than
\* the last save written.
ClockInv ==
  /\ saves \in 0 .. MaxSaves /\ missed \in 0 .. saves
  /\ stored \in [Threads -> Nat] /\ kept \in [Threads -> Nat] /\ landed \in [Threads -> Nat]
  /\ \A d \in Threads : stored[d] <= landed[d] /\ kept[d] <= landed[d] /\ landed[d] <= saves
  /\ Apart(stored) /\ Apart(landed)

ConversationsInv == ClockInv /\ ConversationsKept

\* The conversations that are stored are finitely many.
LEMMA OnDisk ==
  ASSUME ClockInv, NEW S, S \subseteq Threads, \A d \in S : stored[d] > 0
  PROVE  IsFiniteSet(S) /\ Cardinality(S) \in Nat
<1>1. /\ stored \in [Threads -> Nat] /\ Apart(stored) /\ saves \in Nat
      /\ \A d \in Threads : stored[d] <= saves
  BY DEF ClockInv
<1>2. IsFiniteSet(S)
  BY <1>1, ReadingsAreFew
<1>3. QED BY <1>2, FS_CardinalityType

\* Who is evicted by a save was passed by others, a cap of them with that save.
LEMMA EvictedWerePassed ==
  ASSUME ClockInv, NEW c \in Threads, NEW d \in Evicted(c)
  PROVE  /\ stored[d] > 0 /\ d \in Threads /\ d # c
         /\ IsFiniteSet(WrittenSince(stored[d])) /\ Cardinality(WrittenSince(stored[d])) \in Nat
         /\ Cardinality(WrittenSince(stored[d]) \ {c}) >= ConversationCap - 1
<1> DEFINE S == {e \in Others(c) : stored[e] > stored[d]}
           W == WrittenSince(stored[d])
<1>1. /\ d \in Others(c) /\ Cardinality(S) >= ConversationCap - 1
      /\ S \subseteq Threads \ {c} /\ \A e \in S : stored[e] > 0
  BY DEF Evicted, Others
<1>2. /\ stored \in [Threads -> Nat] /\ landed \in [Threads -> Nat] /\ saves \in Nat
      /\ \A e \in Threads : stored[e] <= landed[e] /\ landed[e] <= saves
      /\ Apart(landed)
  BY DEF ClockInv
<1>3. stored[d] > 0 /\ d \in Threads /\ d # c /\ stored[d] \in Nat
  BY <1>1, <1>2 DEF Others
<1>4. S \subseteq W \ {c}
  <2>1. SUFFICES ASSUME NEW e \in S PROVE e \in W \ {c}
    OBVIOUS
  <2>2. e \in Threads \ {c} /\ stored[e] > stored[d]
    BY <1>1
  <2>3. QED BY <1>2, <1>3, <2>2 DEF WrittenSince
<1>5. IsFiniteSet(S) /\ Cardinality(S) \in Nat
  BY <1>1, OnDisk
<1> HIDE DEF S
<1>6. IsFiniteSet(W) /\ Cardinality(W) \in Nat
  BY <1>2, <1>3, LaterAreFew DEF WrittenSince
<1> HIDE DEF W
<1>7. IsFiniteSet(W \ {c}) /\ Cardinality(W \ {c}) \in Nat
  BY <1>6, FS_Subset, FS_CardinalityType
<1>8. Cardinality(S) <= Cardinality(W \ {c})
  BY <1>4, <1>7, FS_Subset
<1>9. Cardinality(W \ {c}) >= ConversationCap - 1
  BY <1>1, <1>5, <1>7, <1>8, Bounds
<1>10. QED BY <1>3, <1>6, <1>9 DEF W

\* What a save does, however it ends.
LEMMA SaveLeaves ==
  ASSUME ClockInv, NEW c \in Threads, PutConversation(c)
  PROVE  /\ saves' = saves + 1 /\ saves < MaxSaves
         /\ stored' \in [Threads -> Nat] /\ kept' \in [Threads -> Nat]
         /\ \A d \in Threads \ {c} :
              /\ kept'[d] = kept[d]
              /\ stored'[d] = stored[d] \/ (stored'[d] = 0 /\ d \in Evicted(c))
         /\ \/ /\ stored'[c] = saves + 1 /\ kept'[c] = saves + 1
               /\ \A d \in Evicted(c) : stored'[d] = 0
               /\ landed' = [landed EXCEPT ![c] = saves + 1] /\ missed' = missed
            \/ /\ landed' = landed /\ missed' = saves + 1
               /\ \/ stored'[c] = stored[c] /\ kept'[c] = kept[c]
                  \/ stored'[c] = 0 /\ kept'[c] = 0
<1>1. /\ stored \in [Threads -> Nat] /\ kept \in [Threads -> Nat] /\ saves \in Nat
  BY DEF ClockInv
<1>2. Evicted(c) \subseteq Threads \ {c}
  BY DEF Evicted, Others
<1>3. CASE /\ stored' = [d \in Threads |-> IF d = c THEN saves + 1
                                         ELSE IF d \in Evicted(c) THEN 0 ELSE stored[d]]
           /\ kept' = [kept EXCEPT ![c] = saves + 1]
           /\ landed' = [landed EXCEPT ![c] = saves + 1] /\ missed' = missed
  BY <1>1, <1>2, <1>3 DEF PutConversation
<1>4. CASE /\ landed' = landed /\ missed' = saves + 1
           /\ \E gone \in SUBSET Evicted(c) :
                stored' = [d \in Threads |-> IF d \in gone THEN 0 ELSE stored[d]]
           /\ UNCHANGED kept
  BY <1>1, <1>2, <1>4 DEF PutConversation
<1>5. CASE /\ landed' = landed /\ missed' = saves + 1
           /\ stored' = [d \in Threads |-> IF d \in Evicted(c) \cup {c} THEN 0 ELSE stored[d]]
           /\ kept' = [kept EXCEPT ![c] = 0]
  BY <1>1, <1>2, <1>5 DEF PutConversation
<1>6. QED BY <1>3, <1>4, <1>5 DEF PutConversation

\* Enough was written since a save, one less if a later save failed.
Superseded(save) ==
  \/ Cardinality(WrittenSince(save)) >= ConversationCap
  \/ missed > save /\ Cardinality(WrittenSince(save)) >= ConversationCap - 1

\* A save, which may evict others and may break off.
LEMMA SaveStep ==
  ASSUME ConversationsInv, NEW c \in Threads, PutConversation(c)
  PROVE  ConversationsInv'
<1>1. /\ ClockInv /\ saves \in Nat /\ MaxSaves \in Nat /\ missed \in 0 .. saves
      /\ stored \in [Threads -> Nat] /\ kept \in [Threads -> Nat] /\ landed \in [Threads -> Nat]
      /\ \A d \in Threads : stored[d] <= landed[d] /\ kept[d] <= landed[d] /\ landed[d] <= saves
      /\ Apart(stored) /\ Apart(landed)
  BY Bounds DEF ConversationsInv, ClockInv
<1> DEFINE written == /\ stored'[c] = saves + 1 /\ kept'[c] = saves + 1
                      /\ \A d \in Evicted(c) : stored'[d] = 0
                      /\ landed' = [landed EXCEPT ![c] = saves + 1] /\ missed' = missed
           failed == /\ landed' = landed /\ missed' = saves + 1
                     /\ \/ stored'[c] = stored[c] /\ kept'[c] = kept[c]
                        \/ stored'[c] = 0 /\ kept'[c] = 0
<1>2. /\ saves' = saves + 1 /\ saves < MaxSaves
      /\ stored' \in [Threads -> Nat] /\ kept' \in [Threads -> Nat]
      /\ \A d \in Threads \ {c} :
           /\ kept'[d] = kept[d]
           /\ stored'[d] = stored[d] \/ (stored'[d] = 0 /\ d \in Evicted(c))
      /\ written \/ failed
  BY <1>1, SaveLeaves
<1>3. /\ landed' \in [Threads -> Nat] /\ missed' \in 0 .. saves' /\ missed' >= missed
      /\ \A d \in Threads : landed'[d] = landed[d] \/ (d = c /\ landed'[d] = saves + 1)
  <2>1. CASE written
    BY <1>1, <1>2, <2>1
  <2>2. CASE failed
    BY <1>1, <1>2, <2>2
  <2>3. QED BY <1>2, <2>1, <2>2
<1>4. \A d \in Threads : stored'[d] <= landed'[d] /\ kept'[d] <= landed'[d] /\ landed'[d] <= saves'
  BY <1>1, <1>2, <1>3
<1>5. Apart(stored)'
  <2>1. \A d, e \in Threads : stored'[d] > 0 /\ stored'[d] = stored'[e] => d = e
    BY <1>1, <1>2 DEF Apart
  <2>2. QED BY <1>2, <2>1 DEF Apart
<1>6. Apart(landed)'
  <2>1. \A d, e \in Threads : landed'[d] > 0 /\ landed'[d] = landed'[e] => d = e
    BY <1>1, <1>3 DEF Apart
  <2>2. QED BY <1>3, <2>1 DEF Apart
<1>7. ClockInv'
  BY <1>1, <1>2, <1>3, <1>4, <1>5, <1>6 DEF ClockInv
<1>8. \A k \in Nat : /\ IsFiniteSet(WrittenSince(k)') /\ Cardinality(WrittenSince(k)') \in Nat
                    /\ Cardinality(WrittenSince(k)) \in Nat
                    /\ Cardinality(WrittenSince(k)) <= Cardinality(WrittenSince(k)')
  <2>1. SUFFICES ASSUME NEW k \in Nat
                 PROVE  /\ IsFiniteSet(WrittenSince(k)') /\ Cardinality(WrittenSince(k)') \in Nat
                        /\ Cardinality(WrittenSince(k)) \in Nat
                        /\ Cardinality(WrittenSince(k)) <= Cardinality(WrittenSince(k)')
    OBVIOUS
  <2> DEFINE before == {d \in Threads : landed[d] > k}
             later == {d \in Threads : landed'[d] > k}
  <2>2. saves + 1 \in Nat /\ \A d \in Threads : landed'[d] <= saves + 1
    BY <1>1, <1>2, <1>4
  <2>3. Apart(landed')
    BY <1>6 DEF Apart
  <2>4. IsFiniteSet(later) /\ Cardinality(later) \in Nat
    BY <1>3, <2>2, <2>3, LaterAreFew
  <2>5. before \subseteq later
    BY <1>1, <1>3
  <2>6. before = WrittenSince(k) /\ later = WrittenSince(k)'
    BY DEF WrittenSince
  <2> HIDE DEF before, later
  <2>7. Cardinality(before) <= Cardinality(later) /\ Cardinality(before) \in Nat
    BY <2>4, <2>5, FS_Subset, FS_CardinalityType
  <2>8. QED BY <2>4, <2>6, <2>7
<1>9. ASSUME NEW d \in Threads, kept'[d] > 0
      PROVE  \/ stored'[d] = kept'[d]
             \/ stored'[d] = 0 /\ Superseded(kept[d])' /\ kept'[d] = kept[d]
  <2>1. CASE d = c /\ kept'[c] = saves + 1 /\ stored'[c] = saves + 1
    BY <2>1
  <2>2. CASE kept'[d] = kept[d] /\ (d = c => stored'[d] = stored[d])
    <3>1. stored[d] = kept[d] \/ (stored[d] = 0 /\ Superseded(kept[d]))
      BY <1>9, <2>2 DEF ConversationsInv, ConversationsKept, Superseded
    <3>2. kept[d] \in Nat /\ kept[d] <= saves
      BY <1>1
    <3>3. CASE stored'[d] # stored[d]
      <4>1. d # c /\ d \in Evicted(c) /\ stored'[d] = 0
        BY <1>1, <1>2, <2>2, <3>3
      <4>2. /\ stored[d] > 0
            /\ IsFiniteSet(WrittenSince(stored[d])) /\ Cardinality(WrittenSince(stored[d])) \in Nat
            /\ Cardinality(WrittenSince(stored[d]) \ {c}) >= ConversationCap - 1
        BY <1>1, <4>1, EvictedWerePassed
      <4>3. stored[d] = kept[d]
        BY <3>1, <4>2
      <4> DEFINE W == WrittenSince(kept[d])
                 R == W \ {c}
                 Wn == {e \in Threads : landed'[e] > kept[d]}
      <4>4. IsFiniteSet(W) /\ Cardinality(W) \in Nat /\ Cardinality(R) >= ConversationCap - 1
        BY <4>2, <4>3
      <4>5. Wn = WrittenSince(kept[d])' \/ ~(kept'[d] = kept[d])
        BY DEF WrittenSince
      <4>6. CASE written
        <5>1. landed'[c] = saves + 1 /\ \A e \in Threads \ {c} : landed'[e] = landed[e]
          BY <1>1, <4>6
        <5>2. Wn = R \cup {c}
          BY <1>1, <3>2, <5>1 DEF WrittenSince
        <5> HIDE DEF W, Wn
        <5>3. IsFiniteSet(R) /\ Cardinality(R) \in Nat /\ c \notin R
          BY <4>4, FS_Subset, FS_CardinalityType
        <5> HIDE DEF R
        <5>4. Cardinality(R \cup {c}) = Cardinality(R) + 1
          BY <5>3, FS_AddElement
        <5>5. Cardinality(Wn) >= ConversationCap
          BY <4>4, <5>2, <5>3, <5>4, Bounds
        <5>6. QED BY <2>2, <4>1, <5>5 DEF Wn, Superseded, WrittenSince
      <4>7. CASE failed
        <5>1. Wn = W /\ missed' > kept[d]
          BY <1>1, <3>2, <4>7 DEF WrittenSince
        <5> HIDE DEF W, Wn
        <5>2. Cardinality(R) <= Cardinality(W) /\ Cardinality(R) \in Nat
          BY <4>4, FS_Subset, FS_CardinalityType
        <5> HIDE DEF R
        <5>3. Cardinality(Wn) >= ConversationCap - 1
          BY <4>4, <5>1, <5>2, Bounds
        <5>4. QED BY <2>2, <4>1, <5>1, <5>3 DEF Wn, Superseded, WrittenSince
      <4>8. QED BY <1>2, <4>6, <4>7
    <3>4. CASE stored'[d] = stored[d]
      <4> DEFINE n == Cardinality(WrittenSince(kept[d]))
                 m == Cardinality({e \in Threads : landed'[e] > kept[d]})
      <4>1. n \in Nat /\ m \in Nat /\ n <= m
        BY <1>8, <3>2 DEF WrittenSince
      <4>2. Superseded(kept[d]) <=> n >= ConversationCap \/ (missed > kept[d] /\ n >= ConversationCap - 1)
        BY DEF Superseded
      <4>3. (m >= ConversationCap \/ (missed' > kept[d] /\ m >= ConversationCap - 1)) => Superseded(kept[d])'
        BY <2>2 DEF Superseded, WrittenSince
      <4> HIDE DEF n, m
      <4>4. Superseded(kept[d]) => Superseded(kept[d])'
        BY <1>1, <1>3, <3>2, <4>1, <4>2, <4>3, Bounds
      <4>5. QED BY <2>2, <3>1, <3>4, <4>4
    <3>5. QED BY <3>3, <3>4
  <2>3. QED BY <1>2, <1>9, <2>1, <2>2
<1>10. Cardinality({d \in Threads : stored'[d] > 0}) <= ConversationCap
  <2> DEFINE S == {d \in Threads : stored[d] > 0}
             T == {d \in Threads : stored'[d] > 0}
  <2>1. IsFiniteSet(S) /\ Cardinality(S) \in Nat
    BY <1>1, OnDisk
  <2>2. Cardinality(S) <= ConversationCap
    BY DEF ConversationsInv, ConversationsKept
  <2>3. CASE written
    <3> DEFINE U == {d \in Others(c) :
                       Cardinality({e \in Others(c) : stored[e] > stored[d]}) < ConversationCap - 1}
    <3>1. /\ Others(c) \subseteq Threads /\ \A d \in Others(c) : stored[d] > 0
      BY DEF Others
    <3>2. IsFiniteSet(Others(c))
      BY <1>1, <3>1, OnDisk
    <3>3. \A d \in Others(c) : Cardinality({e \in Others(c) : stored[e] > stored[d]}) \in Nat
      <4>1. SUFFICES ASSUME NEW d \in Others(c)
                     PROVE  Cardinality({e \in Others(c) : stored[e] > stored[d]}) \in Nat
        OBVIOUS
      <4>2. IsFiniteSet({e \in Others(c) : stored[e] > stored[d]})
        BY <3>2, FS_Subset
      <4>3. QED BY <4>2, FS_CardinalityType
    <3>4. U = Others(c) \ Evicted(c)
      <4>1. ConversationCap - 1 \in Nat
        BY Bounds
      <4>2. \A d \in Others(c) :
              Cardinality({e \in Others(c) : stored[e] > stored[d]}) < ConversationCap - 1
                <=> ~(Cardinality({e \in Others(c) : stored[e] > stored[d]}) >= ConversationCap - 1)
        BY <3>3, <4>1
      <4>3. QED BY <4>2 DEF Evicted
    <3>5. Cardinality(U) <= ConversationCap - 1
      <4> DEFINE O == Others(c)
                 k == ConversationCap - 1
      <4>1. k \in Nat
        BY Bounds
      <4>2. stored \in [Threads -> Nat] /\ Apart(stored)
        BY <1>1
      <4>3. O \subseteq Threads /\ IsFiniteSet(O) /\ \A d \in O : stored[d] > 0
        BY <3>1, <3>2
      <4> HIDE DEF O, k
      <4>4. Cardinality({d \in O : Cardinality({e \in O : stored[e] > stored[d]}) < k}) <= k
        BY <4>1, <4>2, <4>3, LatestAreFew
      <4>5. QED BY <4>4 DEF O, k
    <3>6. IsFiniteSet(U) /\ Cardinality(U) \in Nat
      BY <3>2, FS_Subset, FS_CardinalityType
    <3> HIDE DEF U
    <3>7. T \subseteq U \cup {c}
      BY <1>1, <1>2, <2>3, <3>4 DEF Others
    <3>8. IsFiniteSet(U \cup {c}) /\ Cardinality(U \cup {c}) <= Cardinality(U) + 1
          /\ Cardinality(U \cup {c}) \in Nat
      BY <3>6, FS_AddElement, FS_CardinalityType
    <3>9. IsFiniteSet(T) /\ Cardinality(T) <= Cardinality(U \cup {c}) /\ Cardinality(T) \in Nat
      <4> HIDE DEF T
      <4>1. QED BY <3>7, <3>8, FS_Subset, FS_CardinalityType
    <3> HIDE DEF T
    <3>10. Cardinality(T) <= ConversationCap
      BY <3>5, <3>6, <3>8, <3>9, Bounds
    <3>11. QED BY <3>10 DEF T
  <2>4. CASE failed
    <3>1. T \subseteq S
      BY <1>1, <1>2, <2>4
    <3> HIDE DEF S, T
    <3>2. Cardinality(T) <= Cardinality(S) /\ Cardinality(T) \in Nat
      BY <2>1, <3>1, FS_Subset, FS_CardinalityType
    <3>3. Cardinality(T) <= ConversationCap
      BY <2>1, <2>2, <3>2, Bounds
    <3>4. QED BY <3>3 DEF T
  <2>5. QED BY <1>2, <2>3, <2>4
<1>11. ConversationsKept'
  BY <1>9, <1>10 DEF ConversationsKept, Superseded
<1>12. QED BY <1>7, <1>11 DEF ConversationsInv

LEMMA DeletionStep ==
  ASSUME ConversationsInv, NEW c \in Threads, DeleteConversation(c)
  PROVE  ConversationsInv'
<1>1. /\ ClockInv /\ ConversationsKept /\ saves \in 0 .. MaxSaves /\ missed \in 0 .. saves
      /\ stored \in [Threads -> Nat] /\ kept \in [Threads -> Nat] /\ landed \in [Threads -> Nat]
      /\ \A d \in Threads : stored[d] <= landed[d] /\ kept[d] <= landed[d] /\ landed[d] <= saves
      /\ Apart(stored) /\ Apart(landed)
  BY DEF ConversationsInv, ClockInv
<1>2. /\ landed' = landed /\ saves' = saves /\ missed' = missed
      /\ stored' = [stored EXCEPT ![c] = 0] /\ kept' = [kept EXCEPT ![c] = 0]
  BY DEF DeleteConversation
<1>3. /\ stored' \in [Threads -> Nat] /\ kept' \in [Threads -> Nat]
      /\ stored'[c] = 0 /\ kept'[c] = 0
      /\ \A d \in Threads \ {c} : stored'[d] = stored[d] /\ kept'[d] = kept[d]
  BY <1>1, <1>2
<1>4. Apart(stored)'
  BY <1>1, <1>3 DEF Apart
<1>5. ClockInv'
  <2>1. Apart(landed)'
    BY <1>1, <1>2 DEF Apart
  <2>2. \A d \in Threads : stored'[d] <= landed[d] /\ kept'[d] <= landed[d]
    BY <1>1, <1>3
  <2>3. QED BY <1>1, <1>2, <1>3, <1>4, <2>1, <2>2 DEF ClockInv
<1>6. \A d \in Threads : kept'[d] > 0 =>
        \/ stored'[d] = kept'[d]
        \/ stored'[d] = 0 /\ Superseded(kept[d])' /\ kept'[d] = kept[d]
  <2>1. SUFFICES ASSUME NEW d \in Threads, kept'[d] > 0
                 PROVE  \/ stored'[d] = kept'[d]
                        \/ stored'[d] = 0 /\ Superseded(kept[d])' /\ kept'[d] = kept[d]
    OBVIOUS
  <2>2. stored'[d] = stored[d] /\ kept'[d] = kept[d]
    BY <1>3, <2>1
  <2>3. QED BY <1>1, <1>2, <2>1, <2>2 DEF ConversationsKept, Superseded, WrittenSince
<1>7. Cardinality({d \in Threads : stored'[d] > 0}) <= ConversationCap
  <2> DEFINE S == {d \in Threads : stored[d] > 0}
             T == {d \in Threads : stored'[d] > 0}
  <2>1. IsFiniteSet(S) /\ Cardinality(S) \in Nat
    BY <1>1, OnDisk
  <2>2. Cardinality(S) <= ConversationCap
    BY <1>1 DEF ConversationsKept
  <2>3. T \subseteq S
    BY <1>1, <1>3
  <2> HIDE DEF S, T
  <2>4. Cardinality(T) <= Cardinality(S) /\ Cardinality(T) \in Nat
    BY <2>1, <2>3, FS_Subset, FS_CardinalityType
  <2>5. Cardinality(T) <= ConversationCap
    BY <2>1, <2>2, <2>4, Bounds
  <2>6. QED BY <2>5 DEF T
<1>8. QED BY <1>5, <1>6, <1>7 DEF ConversationsInv, ConversationsKept, Superseded

-----------------------------------------------------------------------------
(* What Leonardo recalls *)

\* What a list holds behind a position, and a list without repetitions.
After(s, i) == {s[j] : j \in i + 1 .. Len(s)}

Distinct(s) == \A p, q \in 1 .. Len(s) : s[p] = s[q] => p = q

LEMMA AfterIsSmall ==
  ASSUME NEW S, NEW s \in Seq(S), NEW i \in 0 .. Len(s)
  PROVE  /\ IsFiniteSet(After(s, i)) /\ Cardinality(After(s, i)) \in Nat
         /\ Cardinality(After(s, i)) <= Len(s) - i
         /\ Distinct(s) => Cardinality(After(s, i)) = Len(s) - i
<1> DEFINE D == i + 1 .. Len(s)
           f == [j \in D |-> s[j]]
<1>1. Len(s) \in Nat
  BY LenProperties
<1>2. IsFiniteSet(D) /\ Cardinality(D) = Len(s) - i
  <2>1. /\ i + 1 \in Int /\ Len(s) \in Int
        /\ (IF i + 1 > Len(s) THEN 0 ELSE Len(s) - (i + 1) + 1) = Len(s) - i
    BY <1>1
  <2>2. QED BY <2>1, FS_Interval
<1>3. f \in Surjection(D, After(s, i))
  BY DEF Surjection, After
<1>4. Distinct(s) => f \in Injection(D, After(s, i))
  <2>1. SUFFICES ASSUME Distinct(s) PROVE f \in Injection(D, After(s, i))
    OBVIOUS
  <2>2. f \in [D -> After(s, i)]
    BY DEF After
  <2>3. \A p, q \in D : f[p] = f[q] => p = q
    BY <1>1, <2>1 DEF Distinct
  <2> HIDE DEF f, D
  <2>4. DOMAIN f = D
    BY <2>2
  <2>5. QED BY <2>2, <2>3, <2>4 DEF Injection, IsInjective
<1> HIDE DEF f, D
<1>5. QED BY <1>2, <1>3, <1>4, FS_Surjection, FS_CardinalityType

LEMMA AfterAppend ==
  ASSUME NEW S, NEW s \in Seq(S), NEW e \in S
  PROVE  /\ \A i \in 1 .. Len(s) : After(Append(s, e), i) = After(s, i) \cup {e}
         /\ After(Append(s, e), Len(s) + 1) = {}
<1> DEFINE t == Append(s, e)
<1>1. /\ Len(t) = Len(s) + 1 /\ Len(s) \in Nat
      /\ \A j \in 1 .. Len(s) : t[j] = s[j]
      /\ t[Len(s) + 1] = e
  BY AppendProperties, LenProperties
<1> HIDE DEF t
<1>2. After(t, Len(s) + 1) = {}
  BY <1>1 DEF After
<1>3. ASSUME NEW i \in 1 .. Len(s)
      PROVE  After(t, i) = After(s, i) \cup {e}
  <2>1. ASSUME NEW x \in After(t, i) PROVE x \in After(s, i) \cup {e}
    <3>1. PICK j \in i + 1 .. Len(t) : x = t[j]
      BY DEF After
    <3>2. CASE j = Len(s) + 1
      BY <1>1, <3>1, <3>2
    <3>3. CASE j # Len(s) + 1
      <4>1. j \in i + 1 .. Len(s) /\ x = s[j]
        BY <1>1, <3>1, <3>3
      <4>2. QED BY <4>1 DEF After
    <3>4. QED BY <3>2, <3>3
  <2>2. ASSUME NEW x \in After(s, i) PROVE x \in After(t, i)
    <3>1. PICK j \in i + 1 .. Len(s) : x = s[j]
      BY DEF After
    <3>2. j \in i + 1 .. Len(t) /\ x = t[j]
      BY <1>1, <3>1
    <3>3. QED BY <3>2 DEF After
  <2>3. e \in After(t, i)
    <3>1. Len(s) + 1 \in i + 1 .. Len(t)
      BY <1>1
    <3>2. QED BY <1>1, <3>1 DEF After
  <2>4. QED BY <2>1, <2>2, <2>3
<1>4. QED BY <1>2, <1>3 DEF t

LEMMA RangeIsAfter ==
  ASSUME NEW S, NEW s \in Seq(S)
  PROVE  Range(s) = After(s, 0)
BY RangeEquality DEF After

\* delete id.conversations[c], where every key stands once.
LEMMA RemoveFirstOf ==
  ASSUME NEW S, NEW s \in Seq(S), Distinct(s), NEW e
  PROVE  /\ RemoveFirst(s, e) \in Seq(S) /\ Distinct(RemoveFirst(s, e))
         /\ Len(RemoveFirst(s, e)) <= Len(s)
         /\ Range(RemoveFirst(s, e)) = Range(s) \ {e}
         /\ \A p \in 1 .. Len(RemoveFirst(s, e)) : \E q \in 1 .. Len(s) :
              /\ RemoveFirst(s, e)[p] = s[q]
              /\ After(RemoveFirst(s, e), p) = After(s, q) \ {e}
<1>1. Len(s) \in Nat /\ (\A i \in 1 .. Len(s) : s[i] \in S) /\ Range(s) = {s[i] : i \in 1 .. Len(s)}
  BY LenProperties, ElementOfSeq, RangeEquality
<1>2. CASE ~\E i \in 1 .. Len(s) : s[i] = e
  <2>1. RemoveFirst(s, e) = s
    BY <1>2 DEF RemoveFirst
  <2>2. Range(s) = Range(s) \ {e}
    BY <1>1, <1>2
  <2>3. \A q \in 1 .. Len(s) : After(s, q) = After(s, q) \ {e}
    BY <1>1, <1>2 DEF After
  <2>4. QED BY <1>1, <2>1, <2>2, <2>3
<1>3. CASE \E i \in 1 .. Len(s) : s[i] = e
  <2> DEFINE k == SelectInSeq(s, LAMBDA v : v = e)
             r == RemoveAt(s, k)
  <2>1. k \in 1 .. Len(s) /\ s[k] = e
    <3> DEFINE I == {i \in 1 .. Len(s) : s[i] = e}
    <3>1. PICK i \in 1 .. Len(s) : s[i] = e
      BY <1>3
    <3>2. I = {i}
      BY <3>1 DEF Distinct
    <3>3. Min(I) = i
      BY <3>2 DEF Min
    <3>4. k = Min(I)
      BY <3>2 DEF SelectInSeq
    <3>5. QED BY <3>1, <3>3, <3>4
  <2>2. RemoveFirst(s, e) = r
    BY <1>3 DEF RemoveFirst
  <2> HIDE DEF k
  <2> DEFINE a == SubSeq(s, 1, k - 1)
             b == SubSeq(s, k + 1, Len(s))
  <2>3. k \in Nat /\ k >= 1 /\ k <= Len(s)
    BY <1>1, <2>1
  <2>4. a \in Seq(S) /\ Len(a) = k - 1 /\ \A i \in 1 .. k - 1 : a[i] = s[i]
    <3>1. \A i \in 1 .. k - 1 : s[i] \in S
      BY <1>1, <2>3
    <3>2. k - 1 \in Int /\ (\A i \in 1 .. k - 1 : 1 + i - 1 = i) /\ k - 1 - 1 + 1 = k - 1
      BY <2>3
    <3>3. /\ a \in Seq(S) /\ Len(a) = IF 1 <= k - 1 THEN k - 1 - 1 + 1 ELSE 0
          /\ \A i \in 1 .. k - 1 - 1 + 1 : a[i] = s[1 + i - 1]
      BY <3>1, <3>2, SubSeqProperties
    <3> HIDE DEF a
    <3>4. QED BY <2>3, <3>2, <3>3
  <2>5. /\ b \in Seq(S) /\ Len(b) = Len(s) - k
        /\ \A i \in 1 .. Len(s) - k : b[i] = s[k + i]
    <3>1. \A i \in k + 1 .. Len(s) : s[i] \in S
      BY <1>1, <2>3
    <3>2. k + 1 \in Int /\ Len(s) \in Int /\ \A i \in 1 .. Len(s) - k : k + 1 + i - 1 = k + i
      BY <1>1, <2>3
    <3>3. /\ b \in Seq(S) /\ Len(b) = IF k + 1 <= Len(s) THEN Len(s) - (k + 1) + 1 ELSE 0
          /\ \A i \in 1 .. Len(s) - (k + 1) + 1 : b[i] = s[k + 1 + i - 1]
      BY <3>1, <3>2, SubSeqProperties
    <3> HIDE DEF b
    <3>4. Len(s) - (k + 1) + 1 = Len(s) - k
      BY <1>1, <2>3
    <3>5. \A i \in 1 .. Len(s) - k : b[i] = s[k + i]
      BY <3>2, <3>3, <3>4
    <3>6. Len(b) = Len(s) - k
      BY <1>1, <2>3, <3>3
    <3>7. QED BY <3>3, <3>5, <3>6
  <2>6. r = a \o b
    BY DEF RemoveAt
  <2> HIDE DEF a, b, r
  <2>7. /\ r \in Seq(S) /\ Len(r) = Len(s) - 1
        /\ \A i \in 1 .. Len(r) : r[i] = s[IF i < k THEN i ELSE i + 1]
    <3>1. /\ r \in Seq(S) /\ Len(r) = Len(a) + Len(b)
          /\ \A i \in 1 .. Len(a) + Len(b) : r[i] = IF i <= Len(a) THEN a[i] ELSE b[i - Len(a)]
      BY <2>4, <2>5, <2>6, ConcatProperties
    <3>2. Len(a) + Len(b) = Len(s) - 1
      BY <1>1, <2>3, <2>4, <2>5
    <3>3. ASSUME NEW i \in 1 .. Len(r) PROVE r[i] = s[IF i < k THEN i ELSE i + 1]
      <4>1. CASE i < k
        <5>1. i \in 1 .. k - 1 /\ i <= Len(a)
          BY <2>3, <2>4, <4>1
        <5>2. QED BY <2>4, <3>1, <4>1, <5>1
      <4>2. CASE i >= k
        <5>1. i - Len(a) \in 1 .. Len(s) - k /\ ~(i <= Len(a)) /\ k + (i - Len(a)) = i + 1
          BY <1>1, <2>3, <2>4, <2>5, <3>1, <4>2
        <5>2. b[i - Len(a)] = s[i + 1]
          BY <2>5, <5>1
        <5>3. QED BY <2>3, <3>1, <4>2, <5>1, <5>2
      <4>3. QED BY <2>3, <4>1, <4>2
    <3>4. QED BY <3>1, <3>2, <3>3
  <2>8. \A q \in 1 .. Len(s) : q # k => s[q] # e
    BY <2>1 DEF Distinct
  <2>9. ASSUME NEW i \in 0 .. Len(r), NEW j \in 0 .. Len(s),
               IF i < k THEN j = i ELSE j = i + 1
        PROVE  After(r, i) = After(s, j) \ {e}
    <3>1. ASSUME NEW x \in After(r, i) PROVE x \in After(s, j) \ {e}
      <4>1. PICK p \in i + 1 .. Len(r) : x = r[p]
        BY DEF After
      <4> DEFINE q == IF p < k THEN p ELSE p + 1
      <4>2. p \in 1 .. Len(r) /\ q \in j + 1 .. Len(s) /\ q \in 1 .. Len(s) /\ q # k
        BY <1>1, <2>3, <2>7, <2>9
      <4>3. x = s[q]
        BY <2>7, <4>1, <4>2
      <4> HIDE DEF q
      <4>4. x # e
        BY <2>8, <4>2, <4>3
      <4>5. QED BY <4>2, <4>3, <4>4 DEF After
    <3>2. ASSUME NEW x \in After(s, j), x # e PROVE x \in After(r, i)
      <4>1. PICK q \in j + 1 .. Len(s) : x = s[q]
        BY DEF After
      <4>2. q # k
        BY <2>1, <3>2, <4>1
      <4> DEFINE p == IF q < k THEN q ELSE q - 1
      <4>3. p \in i + 1 .. Len(r) /\ p \in 1 .. Len(r) /\ q = IF p < k THEN p ELSE p + 1
        BY <1>1, <2>3, <2>7, <2>9, <4>2
      <4> HIDE DEF p
      <4>4. r[p] = s[q]
        BY <2>7, <4>3
      <4>5. QED BY <4>1, <4>3, <4>4 DEF After
    <3>3. QED BY <3>1, <3>2
  <2>10. Range(r) = Range(s) \ {e}
    <3>1. After(r, 0) = After(s, 0) \ {e}
      <4>1. 0 \in 0 .. Len(r) /\ 0 \in 0 .. Len(s) /\ 0 < k
        BY <1>1, <2>3, <2>7
      <4>2. QED BY <2>9, <4>1
    <3>2. QED BY <2>7, <3>1, RangeIsAfter
  <2>11. Distinct(r)
    <3>1. SUFFICES ASSUME NEW p \in 1 .. Len(r), NEW q \in 1 .. Len(r), r[p] = r[q]
                   PROVE  p = q
      BY DEF Distinct
    <3> DEFINE x == IF p < k THEN p ELSE p + 1
               y == IF q < k THEN q ELSE q + 1
    <3>2. x \in 1 .. Len(s) /\ y \in 1 .. Len(s) /\ s[x] = s[y]
      BY <1>1, <2>3, <2>7, <3>1
    <3>3. x = y
      BY <3>2 DEF Distinct
    <3>4. QED BY <2>3, <3>3
  <2>12. ASSUME NEW p \in 1 .. Len(r)
         PROVE  \E q \in 1 .. Len(s) : r[p] = s[q] /\ After(r, p) = After(s, q) \ {e}
    <3> DEFINE q == IF p < k THEN p ELSE p + 1
    <3>1. q \in 1 .. Len(s) /\ p \in 0 .. Len(r) /\ q \in 0 .. Len(s)
          /\ (IF p < k THEN q = p ELSE q = p + 1)
      BY <1>1, <2>3, <2>7
    <3>2. r[p] = s[q]
      BY <2>7
    <3> HIDE DEF q
    <3>3. After(r, p) = After(s, q) \ {e}
      BY <2>9, <3>1
    <3>4. QED BY <3>1, <3>2, <3>3
  <2>13. Len(r) <= Len(s)
    BY <1>1, <2>7
  <2>14. QED BY <2>2, <2>7, <2>10, <2>11, <2>12, <2>13
<1>4. QED BY <1>2, <1>3

\* A list names the last turns of its conversations, in their order.
LastOf(list, all) ==
  \A p \in 1 .. Len(list) : \E i \in 1 .. Len(all) :
    all[i] = list[p] /\ After(all, i) = After(list, p)

\* A turn whose conversation a list does not name is behind a cap of others.
Overtaken(list, all) ==
  \A i \in 1 .. Len(all) :
    all[i] \in Range(list) \/ Cardinality(After(all, i) \ {all[i]}) >= RecallCap

RecallInv ==
  /\ recall \in [ok : BOOLEAN, list : Seq(Threads), visits : 0 .. MaxTurns]
  /\ turns \in Seq(Threads) /\ Len(turns) <= MaxTurns /\ Len(recall.list) <= RecallCap
  /\ Distinct(recall.list) /\ LastOf(recall.list, turns) /\ Overtaken(recall.list, turns)
  /\ recall.ok => recall.visits <= Len(turns) /\ recall.visits >= Cardinality(Range(turns))
  /\ ~recall.ok => turns = <<>> /\ recall.list = <<>>

\* The list holds what fewer than a cap of others came after.
LEMMA RecallHolds == RecallInv => RecallKept
<1> SUFFICES ASSUME RecallInv, recall.ok PROVE RecallKept
  BY DEF RecallKept
<1> DEFINE list == recall.list
           fresh == {c \in Range(turns) :
                       \E i \in DOMAIN turns :
                         turns[i] = c /\ Cardinality({turns[j] : j \in i + 1 .. Len(turns)} \ {c}) < RecallCap}
<1>1. /\ list \in Seq(Threads) /\ turns \in Seq(Threads) /\ Len(list) \in Nat /\ RecallCap \in Nat
      /\ DOMAIN turns = 1 .. Len(turns) /\ Len(turns) \in Nat /\ Len(list) <= RecallCap
      /\ Range(list) = {list[p] : p \in 1 .. Len(list)}
      /\ Range(turns) = {turns[i] : i \in 1 .. Len(turns)}
      /\ Distinct(list) /\ LastOf(list, turns) /\ Overtaken(list, turns)
  BY Bounds, LenProperties, RangeEquality DEF RecallInv
<1> HIDE DEF list
<1>2. ASSUME NEW c \in Range(list) PROVE c \in fresh
  <2>1. PICK p \in 1 .. Len(list) : c = list[p]
    BY <1>1
  <2>2. PICK i \in 1 .. Len(turns) : turns[i] = list[p] /\ After(turns, i) = After(list, p)
    BY <1>1 DEF LastOf
  <2>3. p \in 0 .. Len(list) /\ p > 0
    BY <1>1
  <2>4. /\ IsFiniteSet(After(list, p)) /\ Cardinality(After(list, p)) \in Nat
        /\ Cardinality(After(list, p)) <= Len(list) - p
    BY <1>1, <2>3, AfterIsSmall
  <2>5. Cardinality(After(list, p) \ {c}) <= Cardinality(After(list, p))
        /\ Cardinality(After(list, p) \ {c}) \in Nat
    <3>1. (After(list, p) \ {c}) \in SUBSET After(list, p)
      OBVIOUS
    <3>2. QED BY <2>4, <3>1, FS_Subset, FS_CardinalityType
  <2>6. Cardinality(After(list, p) \ {c}) < RecallCap
    BY <1>1, <2>3, <2>4, <2>5
  <2>7. {turns[j] : j \in i + 1 .. Len(turns)} \ {c} = After(list, p) \ {c}
    BY <2>2 DEF After
  <2>8. c \in Range(turns) /\ i \in DOMAIN turns /\ turns[i] = c
    BY <1>1, <2>1, <2>2
  <2>9. QED BY <2>6, <2>7, <2>8
<1>3. ASSUME NEW c \in fresh PROVE c \in Range(list)
  <2>1. PICK i \in DOMAIN turns :
          turns[i] = c /\ Cardinality({turns[j] : j \in i + 1 .. Len(turns)} \ {c}) < RecallCap
    OBVIOUS
  <2>2. i \in 1 .. Len(turns) /\ IsFiniteSet(After(turns, i) \ {c})
    <3>1. i \in 0 .. Len(turns)
      BY <1>1
    <3>2. IsFiniteSet(After(turns, i))
      BY <1>1, <3>1, AfterIsSmall
    <3>3. QED BY <1>1, <3>2, FS_RemoveElement
  <2>3. Cardinality(After(turns, i) \ {c}) < RecallCap /\ Cardinality(After(turns, i) \ {c}) \in Nat
    BY <2>1, <2>2, FS_CardinalityType DEF After
  <2>4. QED BY <1>1, <2>1, <2>2, <2>3 DEF Overtaken
<1>4. Range(list) = fresh
  BY <1>2, <1>3
<1>5. recall.visits >= Cardinality(Range(turns))
  BY DEF RecallInv
<1>6. QED BY <1>4, <1>5 DEF RecallKept, list

\* A turn of c: it moves to the end of the list.
LEMMA MovedToTheEnd ==
  ASSUME NEW list \in Seq(Threads), NEW all \in Seq(Threads), NEW c \in Threads,
         Distinct(list), LastOf(list, all), Overtaken(list, all)
  PROVE  /\ Append(RemoveFirst(list, c), c) \in Seq(Threads)
         /\ Distinct(Append(RemoveFirst(list, c), c))
         /\ LastOf(Append(RemoveFirst(list, c), c), Append(all, c))
         /\ Overtaken(Append(RemoveFirst(list, c), c), Append(all, c))
<1> DEFINE rest == RemoveFirst(list, c)
           moved == Append(rest, c)
           every == Append(all, c)
<1>1. /\ rest \in Seq(Threads) /\ Distinct(rest) /\ Range(rest) = Range(list) \ {c}
      /\ \A p \in 1 .. Len(rest) : \E q \in 1 .. Len(list) :
           rest[p] = list[q] /\ After(rest, p) = After(list, q) \ {c}
  BY RemoveFirstOf
<1> HIDE DEF rest
<1>2. /\ moved \in Seq(Threads) /\ Len(moved) = Len(rest) + 1 /\ Len(rest) \in Nat
      /\ \A i \in 1 .. Len(rest) : moved[i] = rest[i]
      /\ moved[Len(rest) + 1] = c
  BY <1>1, AppendProperties, LenProperties
<1>3. /\ every \in Seq(Threads) /\ Len(every) = Len(all) + 1 /\ Len(all) \in Nat
      /\ \A i \in 1 .. Len(all) : every[i] = all[i]
      /\ every[Len(all) + 1] = c
  BY AppendProperties, LenProperties
<1>4. /\ \A i \in 1 .. Len(rest) : After(moved, i) = After(rest, i) \cup {c}
      /\ After(moved, Len(rest) + 1) = {}
  BY <1>1, AfterAppend
<1>5. /\ \A i \in 1 .. Len(all) : After(every, i) = After(all, i) \cup {c}
      /\ After(every, Len(all) + 1) = {}
  BY AfterAppend
<1> HIDE DEF moved, every
<1>6. \A p \in 1 .. Len(rest) : rest[p] # c
  <2>1. Range(rest) = {rest[p] : p \in 1 .. Len(rest)}
    BY <1>1, RangeEquality
  <2>2. QED BY <1>1, <2>1
<1>7. Distinct(moved)
  <2>1. SUFFICES ASSUME NEW p \in 1 .. Len(moved), NEW q \in 1 .. Len(moved), moved[p] = moved[q]
                 PROVE  p = q
    BY DEF Distinct
  <2>2. CASE p \in 1 .. Len(rest) /\ q \in 1 .. Len(rest)
    BY <1>1, <1>2, <2>1, <2>2 DEF Distinct
  <2>3. CASE p = Len(rest) + 1 \/ q = Len(rest) + 1
    <3>1. p = Len(rest) + 1 => q \notin 1 .. Len(rest)
      BY <1>2, <1>6, <2>1
    <3>2. q = Len(rest) + 1 => p \notin 1 .. Len(rest)
      BY <1>2, <1>6, <2>1
    <3>3. QED BY <1>2, <2>3, <3>1, <3>2
  <2>4. QED BY <1>2, <2>2, <2>3
<1>8. LastOf(moved, every)
  <2>1. SUFFICES ASSUME NEW p \in 1 .. Len(moved)
                 PROVE  \E i \in 1 .. Len(every) :
                          every[i] = moved[p] /\ After(every, i) = After(moved, p)
    BY DEF LastOf
  <2>2. CASE p \in 1 .. Len(rest)
    <3>1. PICK q \in 1 .. Len(list) : rest[p] = list[q] /\ After(rest, p) = After(list, q) \ {c}
      BY <1>1, <2>2
    <3>2. PICK i \in 1 .. Len(all) : all[i] = list[q] /\ After(all, i) = After(list, q)
      BY DEF LastOf
    <3>3. After(moved, p) = After(every, i)
      BY <1>4, <1>5, <2>2, <3>1, <3>2
    <3>4. every[i] = all[i] /\ moved[p] = rest[p]
      BY <1>2, <1>3, <2>2
    <3>5. i \in 1 .. Len(every)
      BY <1>3
    <3>6. every[i] = moved[p]
      BY <3>1, <3>2, <3>4
    <3>7. QED BY <3>3, <3>5, <3>6
  <2>3. CASE p = Len(rest) + 1
    <3>1. Len(all) + 1 \in 1 .. Len(every)
      BY <1>3
    <3>2. QED BY <1>2, <1>3, <1>4, <1>5, <2>3, <3>1
  <2>4. QED BY <1>2, <2>2, <2>3
<1>9. Overtaken(moved, every)
  <2>1. SUFFICES ASSUME NEW i \in 1 .. Len(every)
                 PROVE  every[i] \in Range(moved) \/ Cardinality(After(every, i) \ {every[i]}) >= RecallCap
    BY DEF Overtaken
  <2>2. Range(moved) = {moved[p] : p \in 1 .. Len(moved)} /\ Len(rest) + 1 \in 1 .. Len(moved)
    BY <1>2, RangeEquality
  <2>3. c \in Range(moved)
    BY <1>2, <2>2
  <2>4. CASE i = Len(all) + 1
    BY <1>3, <2>3, <2>4
  <2>5. CASE i \in 1 .. Len(all)
    <3>1. CASE all[i] \in Range(list)
      <4>1. all[i] = c \/ all[i] \in Range(rest)
        BY <1>1, <3>1
      <4>2. Range(rest) = {rest[p] : p \in 1 .. Len(rest)}
        BY <1>1, RangeEquality
      <4>3. Range(rest) \subseteq Range(moved)
        BY <1>2, <2>2, <4>2
      <4>4. QED BY <1>3, <2>3, <2>5, <4>1, <4>3
    <3>2. CASE Cardinality(After(all, i) \ {all[i]}) >= RecallCap
      <4> DEFINE A == After(all, i) \ {all[i]}
                 B == After(every, i) \ {every[i]}
      <4>1. A \subseteq B
        BY <1>3, <1>5, <2>5
      <4>2. IsFiniteSet(B)
        <5>1. i \in 0 .. Len(every)
          BY <1>3
        <5>2. IsFiniteSet(After(every, i))
          BY <1>3, <5>1, AfterIsSmall
        <5>3. QED BY <5>2, FS_RemoveElement
      <4> HIDE DEF A, B
      <4>3. Cardinality(A) <= Cardinality(B) /\ Cardinality(A) \in Nat /\ Cardinality(B) \in Nat
        BY <4>1, <4>2, FS_Subset, FS_CardinalityType
      <4>4. Cardinality(B) >= RecallCap
        BY <3>2, <4>3, Bounds DEF A
      <4>5. QED BY <4>4 DEF B
    <3>3. QED BY <2>5, <3>1, <3>2 DEF Overtaken
  <2>6. QED BY <1>3, <2>4, <2>5
<1>10. QED BY <1>2, <1>7, <1>8, <1>9 DEF moved, every, rest

\* Cutting the list to its cap.
LEMMA CutToTheCap ==
  ASSUME NEW list \in Seq(Threads), NEW all \in Seq(Threads),
         Distinct(list), LastOf(list, all), Overtaken(list, all)
  PROVE  /\ Newest(list, RecallCap) \in Seq(Threads) /\ Len(Newest(list, RecallCap)) <= RecallCap
         /\ Distinct(Newest(list, RecallCap)) /\ LastOf(Newest(list, RecallCap), all)
         /\ Overtaken(Newest(list, RecallCap), all)
<1> DEFINE new == Newest(list, RecallCap)
           k == Len(list) - Len(new)
<1>1. RecallCap \in Nat \ {0}
  BY Bounds
<1>2. /\ new \in Seq(Threads) /\ Len(new) <= RecallCap
      /\ Len(new) = RecallCap \/ new = list
      /\ EndOf(new, list)
  BY <1>1, NewestOf
<1> HIDE DEF new
<1>3. /\ Len(new) \in Nat /\ Len(list) \in Nat /\ Len(all) \in Nat /\ k \in Nat
      /\ Len(list) = k + Len(new)
      /\ \A p \in 1 .. Len(new) : new[p] = list[k + p]
  BY <1>2, LenProperties DEF EndOf
<1> HIDE DEF k
<1>4. \A p \in 0 .. Len(new) : After(new, p) = After(list, k + p)
  <2>1. SUFFICES ASSUME NEW p \in 0 .. Len(new)
                 PROVE  After(new, p) = After(list, k + p)
    OBVIOUS
  <2>2. ASSUME NEW x \in After(new, p) PROVE x \in After(list, k + p)
    <3>1. PICK q \in p + 1 .. Len(new) : x = new[q]
      BY DEF After
    <3>2. k + q \in k + p + 1 .. Len(list) /\ x = list[k + q]
      BY <1>3, <3>1
    <3>3. QED BY <3>2 DEF After
  <2>3. ASSUME NEW x \in After(list, k + p) PROVE x \in After(new, p)
    <3>1. PICK q \in k + p + 1 .. Len(list) : x = list[q]
      BY DEF After
    <3>2. q - k \in p + 1 .. Len(new) /\ q - k \in 1 .. Len(new) /\ k + (q - k) = q
      BY <1>3
    <3>3. x = new[q - k]
      BY <1>3, <3>1, <3>2
    <3>4. QED BY <3>2, <3>3 DEF After
  <2>4. QED BY <2>2, <2>3
<1>5. Distinct(new)
  <2>1. SUFFICES ASSUME NEW p \in 1 .. Len(new), NEW q \in 1 .. Len(new), new[p] = new[q]
                 PROVE  p = q
    BY DEF Distinct
  <2>2. k + p \in 1 .. Len(list) /\ k + q \in 1 .. Len(list) /\ list[k + p] = list[k + q]
    BY <1>3, <2>1
  <2>3. k + p = k + q
    BY <2>2 DEF Distinct
  <2>4. QED BY <1>3, <2>3
<1>6. LastOf(new, all)
  <2>1. SUFFICES ASSUME NEW p \in 1 .. Len(new)
                 PROVE  \E i \in 1 .. Len(all) : all[i] = new[p] /\ After(all, i) = After(new, p)
    BY DEF LastOf
  <2>2. k + p \in 1 .. Len(list) /\ new[p] = list[k + p] /\ p \in 0 .. Len(new)
    BY <1>3
  <2>3. QED BY <1>4, <2>2 DEF LastOf
<1>7. Overtaken(new, all)
  <2>1. SUFFICES ASSUME NEW i \in 1 .. Len(all), all[i] \notin Range(new)
                 PROVE  Cardinality(After(all, i) \ {all[i]}) >= RecallCap
    BY DEF Overtaken
  <2>2. CASE all[i] \notin Range(list)
    BY <2>2 DEF Overtaken
  <2>3. CASE all[i] \in Range(list)
    <3>1. PICK p \in 1 .. Len(list) : all[i] = list[p]
      BY <2>3, RangeEquality
    <3>2. PICK j \in 1 .. Len(all) : all[j] = list[p] /\ After(all, j) = After(list, p)
      BY DEF LastOf
    <3>3. list[p] \notin After(list, p)
      BY <1>3 DEF After, Distinct
    <3>4. ~(j < i)
      <4>1. j < i => i \in j + 1 .. Len(all)
        BY <1>3
      <4>2. j < i => all[i] \in After(all, j)
        BY <4>1 DEF After
      <4>3. QED BY <3>1, <3>2, <3>3, <4>2
    <3>5. After(all, j) \subseteq After(all, i)
      <4>1. \A q \in j + 1 .. Len(all) : q \in i + 1 .. Len(all)
        BY <1>3, <3>4
      <4>2. QED BY <4>1 DEF After
    <3>6. Len(new) = RecallCap
      BY <1>2, <2>1, <2>3
    <3>7. ~(p > k)
      <4>1. p > k => p - k \in 1 .. Len(new) /\ k + (p - k) = p
        BY <1>3
      <4>2. p > k => new[p - k] = list[p]
        BY <1>3, <4>1
      <4>3. Range(new) = {new[q] : q \in 1 .. Len(new)}
        BY <1>2, RangeEquality
      <4>4. QED BY <2>1, <3>1, <4>1, <4>2, <4>3
    <3> DEFINE A == After(new, 0)
               B == After(all, i) \ {all[i]}
    <3>8. A \subseteq After(list, p)
      <4>1. A = After(list, k)
        <5>1. 0 \in 0 .. Len(new) /\ k + 0 = k
          BY <1>3
        <5>2. QED BY <1>4, <5>1
      <4>2. \A q \in k + 1 .. Len(list) : q \in p + 1 .. Len(list)
        BY <1>3, <3>7
      <4>3. QED BY <4>1, <4>2 DEF After
    <3>9. A \subseteq B
      BY <3>1, <3>2, <3>3, <3>5, <3>8
    <3>10. Cardinality(A) = RecallCap /\ IsFiniteSet(A)
      <4>1. 0 \in 0 .. Len(new) /\ Len(new) - 0 = Len(new)
        BY <1>3
      <4>2. QED BY <1>2, <1>5, <3>6, <4>1, AfterIsSmall
    <3>11. IsFiniteSet(B)
      <4>1. i \in 0 .. Len(all)
        BY <1>3
      <4>2. IsFiniteSet(After(all, i))
        BY <4>1, AfterIsSmall
      <4>3. QED BY <4>2, FS_RemoveElement
    <3> HIDE DEF A, B
    <3>12. Cardinality(A) <= Cardinality(B)
      BY <3>9, <3>11, FS_Subset
    <3>13. QED BY <3>10, <3>12 DEF B
  <2>4. QED BY <2>2, <2>3
<1>8. QED BY <1>2, <1>5, <1>6, <1>7 DEF new

LEMMA NothingRecalled ==
  /\ <<>> \in Seq(Threads) /\ Len(<<>>) = 0 /\ Distinct(<<>>)
  /\ LastOf(<<>>, <<>>) /\ Overtaken(<<>>, <<>>) /\ Range(<<>>) = {} /\ Cardinality({}) = 0
<1>1. <<>> \in Seq(Threads) /\ Len(<<>>) = 0
  OBVIOUS
<1>2. Range(<<>>) = {<<>>[i] : i \in 1 .. Len(<<>>)}
  BY <1>1, RangeEquality
<1>3. QED BY <1>1, <1>2, FS_EmptySet DEF Distinct, LastOf, Overtaken

\* A turn is recalled, or a fault breaks the file.
LEMMA RecallStep ==
  ASSUME RecallInv, HistoryInv, FaultsInv, NEW c \in Threads, RecordTurn(c)
  PROVE  RecallInv' /\ HistoryInv' /\ FaultsInv'
<1> DEFINE moved == Append(RemoveFirst(Loaded.list, c), c)
           list == Newest(moved, RecallCap)
           visited == IF c \in Range(Loaded.list) THEN Loaded.visits ELSE Loaded.visits + 1
<1>1. PICK w \in Writes(recall, list, 0) :
        /\ recall' = IF w.cost = 1 /\ w.file.ok THEN recall
                     ELSE [ok |-> w.file.ok, list |-> w.file.list, visits |-> visited]
        /\ turns' = IF ~w.file.ok THEN <<>>
                    ELSE IF w.cost = 1 THEN turns ELSE Append(turns, c)
        /\ AppendHistory(w.cost)
  BY DEF RecordTurn, AfterWrite
<1>2. \/ w.file = Intact(list) /\ w.cost = 0
      \/ /\ w.file = recall \/ w.file = Unreadable
         /\ w.cost = 1 /\ memoryFaults + 0 < MaxMemoryFaults
  BY <1>1, WriteLeaves
<1>3. w.cost \in 0 .. 1 /\ memoryFaults + w.cost <= MaxMemoryFaults
  BY <1>2, Bounds DEF FaultsInv
<1>4. HistoryInv' /\ FaultsInv'
  BY <1>1, <1>3, HistoryStep
<1>5. Len(turns) < MaxTurns /\ Len(turns) \in Nat /\ MaxTurns \in Nat /\ turns \in Seq(Threads)
  BY Bounds, LenProperties DEF RecordTurn, RecallInv
<1>6. /\ Loaded.list \in Seq(Threads) /\ Distinct(Loaded.list)
      /\ LastOf(Loaded.list, turns) /\ Overtaken(Loaded.list, turns)
      /\ Loaded.visits \in Nat /\ Loaded.visits <= Len(turns)
      /\ Loaded.visits >= Cardinality(Range(turns))
  <2>1. CASE recall.ok
    <3>1. Loaded = recall
      BY <2>1 DEF Loaded
    <3>2. recall.visits \in Nat
      BY <1>5 DEF RecallInv
    <3>3. QED BY <2>1, <3>1, <3>2 DEF RecallInv
  <2>2. CASE ~recall.ok
    <3>1. Loaded.list = <<>> /\ Loaded.visits = 0
      BY <2>2 DEF Loaded, BlankIdentity
    <3>2. turns = <<>>
      BY <2>2 DEF RecallInv
    <3>3. /\ Loaded.list \in Seq(Threads) /\ Distinct(Loaded.list)
          /\ LastOf(Loaded.list, turns) /\ Overtaken(Loaded.list, turns)
      BY <3>1, <3>2, NothingRecalled
    <3>4. Cardinality(Range(turns)) = 0
      BY <3>2, NothingRecalled
    <3>5. QED BY <1>5, <3>1, <3>3, <3>4
  <2>3. QED BY <2>1, <2>2
<1>7. /\ moved \in Seq(Threads) /\ Distinct(moved)
      /\ LastOf(moved, Append(turns, c)) /\ Overtaken(moved, Append(turns, c))
  BY <1>5, <1>6, MovedToTheEnd
<1> HIDE DEF moved
<1>8. Append(turns, c) \in Seq(Threads) /\ Len(Append(turns, c)) = Len(turns) + 1
  BY <1>5, AppendProperties
<1>9. /\ list \in Seq(Threads) /\ Len(list) <= RecallCap /\ Distinct(list)
      /\ LastOf(list, Append(turns, c)) /\ Overtaken(list, Append(turns, c))
  BY <1>7, <1>8, CutToTheCap
<1> HIDE DEF list
<1>10. visited \in 0 .. MaxTurns /\ visited <= Len(turns) + 1
  BY <1>5, <1>6
<1>11. visited >= Cardinality(Range(Append(turns, c)))
  <2>1. /\ Range(turns) = {turns[i] : i \in 1 .. Len(turns)}
        /\ Range(turns) = After(turns, 0)
        /\ Range(Append(turns, c)) = {Append(turns, c)[i] : i \in 1 .. Len(Append(turns, c))}
    BY <1>5, <1>8, RangeEquality, RangeIsAfter
  <2>2. Range(Append(turns, c)) = Range(turns) \cup {c}
    <3>1. /\ \A i \in 1 .. Len(turns) : Append(turns, c)[i] = turns[i]
          /\ Append(turns, c)[Len(turns) + 1] = c
      BY <1>5, AppendProperties
    <3>2. \A i \in 1 .. Len(turns) + 1 : i \in 1 .. Len(turns) \/ i = Len(turns) + 1
      BY <1>5
    <3>3. 1 .. Len(turns) \subseteq 1 .. Len(turns) + 1 /\ Len(turns) + 1 \in 1 .. Len(turns) + 1
      BY <1>5
    <3>4. QED BY <1>8, <2>1, <3>1, <3>2, <3>3
  <2>3. IsFiniteSet(Range(turns)) /\ Cardinality(Range(turns)) \in Nat
    <3>1. 0 \in 0 .. Len(turns)
      BY <1>5
    <3>2. QED BY <1>5, <2>1, <3>1, AfterIsSmall
  <2>4. Cardinality(Range(turns) \cup {c}) =
          IF c \in Range(turns) THEN Cardinality(Range(turns)) ELSE Cardinality(Range(turns)) + 1
    BY <2>3, FS_AddElement
  <2>5. c \in Range(Loaded.list) => c \in Range(turns)
    <3>1. SUFFICES ASSUME c \in Range(Loaded.list) PROVE c \in Range(turns)
      OBVIOUS
    <3>2. Range(Loaded.list) = {Loaded.list[p] : p \in 1 .. Len(Loaded.list)}
      BY <1>6, RangeEquality
    <3>3. PICK p \in 1 .. Len(Loaded.list) : c = Loaded.list[p]
      BY <3>1, <3>2
    <3>4. PICK i \in 1 .. Len(turns) : turns[i] = Loaded.list[p]
      BY <1>6 DEF LastOf
    <3>5. QED BY <2>1, <3>3, <3>4
  <2>6. QED BY <1>6, <2>2, <2>3, <2>4, <2>5
<1> HIDE DEF visited
<1>12. CASE w.file = Intact(list) /\ w.cost = 0
  <2>1. recall' = [ok |-> TRUE, list |-> list, visits |-> visited] /\ turns' = Append(turns, c)
    BY <1>1, <1>12 DEF Intact
  <2>2. recall' \in [ok : BOOLEAN, list : Seq(Threads), visits : 0 .. MaxTurns]
    BY <1>9, <1>10, <2>1
  <2>3. recall'.ok = TRUE /\ recall'.list = list /\ recall'.visits = visited
    BY <2>1
  <2>4. Len(turns') <= MaxTurns
    BY <1>5, <1>8, <2>1
  <2>5. QED BY <1>4, <1>8, <1>9, <1>10, <1>11, <2>1, <2>2, <2>3, <2>4 DEF RecallInv
<1>13. CASE w.file = recall /\ recall.ok /\ w.cost = 1
  <2>1. recall' = recall /\ turns' = turns
    BY <1>1, <1>13
  <2>2. QED BY <1>4, <2>1 DEF RecallInv
<1>14. CASE ~w.file.ok /\ w.file.list = <<>>
  <2>1. recall' = [ok |-> w.file.ok, list |-> <<>>, visits |-> visited] /\ turns' = <<>>
    BY <1>1, <1>14
  <2>2. w.file.ok \in BOOLEAN
    <3>1. recall.ok \in BOOLEAN
      BY DEF RecallInv
    <3>2. Unreadable.ok = FALSE /\ Intact(list).ok = TRUE
      BY DEF Unreadable, Intact
    <3>3. QED BY <1>2, <3>1, <3>2
  <2>3. recall' \in [ok : BOOLEAN, list : Seq(Threads), visits : 0 .. MaxTurns]
    BY <1>10, <2>1, <2>2, NothingRecalled
  <2>4. ~recall'.ok /\ recall'.list = <<>>
    BY <1>14, <2>1
  <2>5. Len(turns') <= MaxTurns /\ Len(recall'.list) <= RecallCap
    BY <1>5, <2>1, <2>4, Bounds, NothingRecalled
  <2>6. QED BY <1>4, <2>1, <2>3, <2>4, <2>5, NothingRecalled DEF RecallInv
<1>15. QED
  <2>1. w.file = Unreadable => ~w.file.ok /\ w.file.list = <<>>
    BY DEF Unreadable
  <2>2. w.file = recall /\ ~recall.ok => ~w.file.ok /\ w.file.list = <<>>
    BY DEF RecallInv
  <2>3. QED BY <1>2, <1>12, <1>13, <1>14, <2>1, <2>2

-----------------------------------------------------------------------------
(* The hosted agent and the council *)

AgentInv ==
  /\ agent \in [made : BOOLEAN, ok : BOOLEAN, prompts : Nat]
  /\ answered \in [counted : Nat, uncounted : Nat]
  /\ prompting \subseteq Prompts /\ (prompting # {} => agent.made)
  /\ ~agent.made => answered.counted = 0
  /\ PromptsCounted

CouncilInv ==
  /\ capture \in Captures /\ sessions \in 0 .. MaxSessions
  /\ councilLog \in [ok : BOOLEAN, list : Seq(Nat)] /\ logged \in Seq(Nat)
  /\ EndKept(councilLog, logged, CouncilCap)

LEMMA CouncilHolds == CouncilInv => CouncilKept
BY SuffixByPosition DEF CouncilInv, EndKept, EndOf, CouncilKept

MemoryInv ==
  FaultsInv /\ HistoryInv /\ ConversationsInv /\ RecallInv /\ AgentInv /\ CouncilInv

LEMMA HistoryStays == HistoryInv /\ UNCHANGED historyVars => HistoryInv'
BY DEF HistoryInv, historyVars

LEMMA ConversationsStay == ConversationsInv /\ UNCHANGED conversationsVars => ConversationsInv'
<1> SUFFICES ASSUME ConversationsInv, UNCHANGED conversationsVars PROVE ConversationsInv'
  OBVIOUS
<1>1. stored' = stored /\ kept' = kept /\ landed' = landed /\ missed' = missed /\ saves' = saves
  BY DEF conversationsVars
<1>2. Apart(stored)' /\ Apart(landed)'
  BY <1>1 DEF ConversationsInv, ClockInv, Apart
<1>3. ConversationsKept'
  BY <1>1 DEF ConversationsInv, ConversationsKept, WrittenSince
<1>4. QED BY <1>1, <1>2, <1>3 DEF ConversationsInv, ClockInv

LEMMA RecallStays == RecallInv /\ UNCHANGED recallVars => RecallInv'
BY DEF RecallInv, recallVars

LEMMA AgentStays == AgentInv /\ UNCHANGED agentVars => AgentInv'
BY DEF AgentInv, agentVars, PromptsCounted

LEMMA CouncilStays == CouncilInv /\ UNCHANGED councilVars => CouncilInv'
BY DEF CouncilInv, councilVars

LEMMA OneMoreFault ==
  ASSUME FaultsInv, memoryFaults < MaxMemoryFaults, memoryFaults' = memoryFaults + 1
  PROVE  FaultsInv'
BY Bounds DEF FaultsInv

LEMMA ProvisionStep ==
  ASSUME AgentInv, FaultsInv, Provision
  PROVE  AgentInv' /\ FaultsInv'
<1>1. /\ ~agent.made /\ prompting' = prompting /\ answered' = answered /\ prompting = {}
      /\ answered.counted = 0 /\ answered \in [counted : Nat, uncounted : Nat]
  BY DEF Provision, AgentInv
<1>2. CASE agent' = [made |-> TRUE, ok |-> TRUE, prompts |-> 0] /\ UNCHANGED memoryFaults
  <2>1. agent' \in [made : BOOLEAN, ok : BOOLEAN, prompts : Nat] /\ agent'.prompts = 0 /\ agent'.made
    BY <1>2
  <2>2. QED BY <1>1, <1>2, <2>1 DEF AgentInv, PromptsCounted, FaultsInv
<1>3. CASE /\ memoryFaults < MaxMemoryFaults /\ memoryFaults' = memoryFaults + 1
           /\ agent' \in {agent, [made |-> TRUE, ok |-> FALSE, prompts |-> 0]}
  <2>1. FaultsInv'
    BY <1>3, OneMoreFault
  <2>2. CASE agent' = agent
    BY <1>1, <2>1, <2>2 DEF AgentInv, PromptsCounted
  <2>3. CASE agent' = [made |-> TRUE, ok |-> FALSE, prompts |-> 0]
    <3>1. agent' \in [made : BOOLEAN, ok : BOOLEAN, prompts : Nat] /\ ~agent'.ok /\ agent'.made
      BY <2>3
    <3>2. QED BY <1>1, <2>1, <3>1 DEF AgentInv, PromptsCounted
  <2>4. QED BY <1>3, <2>2, <2>3
<1>4. QED BY <1>2, <1>3 DEF Provision

LEMMA AnswerStep ==
  ASSUME AgentInv, HistoryInv, FaultsInv, NEW p \in Prompts, PromptAnswered(p)
  PROVE  AgentInv' /\ HistoryInv' /\ FaultsInv'
<1>1. /\ p \in prompting /\ prompting' = prompting \ {p} /\ agent.made
      /\ agent \in [made : BOOLEAN, ok : BOOLEAN, prompts : Nat]
      /\ answered \in [counted : Nat, uncounted : Nat]
      /\ prompting \subseteq Prompts /\ PromptsCounted
  BY DEF PromptAnswered, AgentInv
<1>2. CASE /\ agent.ok
           /\ agent' = [agent EXCEPT !.prompts = @ + 1]
           /\ answered' = [answered EXCEPT !.counted = @ + 1]
           /\ AppendHistory(0)
  <2>1. HistoryInv' /\ FaultsInv'
    <3>1. 0 \in 0 .. 1 /\ memoryFaults + 0 <= MaxMemoryFaults
      BY Bounds DEF FaultsInv
    <3>2. QED BY <1>2, <3>1, HistoryStep
  <2>2. /\ agent' \in [made : BOOLEAN, ok : BOOLEAN, prompts : Nat] /\ agent'.made
        /\ agent'.prompts = agent.prompts + 1 /\ answered' \in [counted : Nat, uncounted : Nat]
        /\ answered'.counted = answered.counted + 1
    BY <1>1, <1>2
  <2>3. QED BY <1>1, <1>2, <2>1, <2>2 DEF AgentInv, PromptsCounted
<1>3. CASE /\ ~agent.ok
           /\ answered' = [answered EXCEPT !.uncounted = @ + 1]
           /\ UNCHANGED agent /\ AppendHistory(0)
  <2>1. HistoryInv' /\ FaultsInv'
    <3>1. 0 \in 0 .. 1 /\ memoryFaults + 0 <= MaxMemoryFaults
      BY Bounds DEF FaultsInv
    <3>2. QED BY <1>3, <3>1, HistoryStep
  <2>2. answered' \in [counted : Nat, uncounted : Nat] /\ answered'.counted = answered.counted
    BY <1>1, <1>3
  <2>3. QED BY <1>1, <1>3, <2>1, <2>2 DEF AgentInv, PromptsCounted
<1>4. CASE /\ agent.ok /\ memoryFaults < MaxMemoryFaults
           /\ agent' \in {agent, [agent EXCEPT !.ok = FALSE]}
           /\ answered' = [answered EXCEPT !.uncounted = @ + 1]
           /\ AppendHistory(1)
  <2>1. HistoryInv' /\ FaultsInv'
    <3>1. 1 \in 0 .. 1 /\ memoryFaults + 1 <= MaxMemoryFaults
      BY <1>4, Bounds DEF FaultsInv
    <3>2. QED BY <1>4, <3>1, HistoryStep
  <2>2. answered' \in [counted : Nat, uncounted : Nat] /\ answered'.counted = answered.counted
    BY <1>1, <1>4
  <2>3. /\ agent' \in [made : BOOLEAN, ok : BOOLEAN, prompts : Nat] /\ agent'.made
        /\ agent' = agent \/ ~agent'.ok
    BY <1>1, <1>4
  <2>4. QED BY <1>1, <2>1, <2>2, <2>3 DEF AgentInv, PromptsCounted
<1>5. QED BY <1>2, <1>3, <1>4 DEF PromptAnswered

\* A session is logged, or not, after what the rest of the step cost.
LEMMA SessionLogged ==
  ASSUME CouncilInv, FaultsInv, NEW spent \in 0 .. 1, memoryFaults + spent <= MaxMemoryFaults,
         LogSession(spent), UNCHANGED <<capture, sessions>>
  PROVE  CouncilInv' /\ FaultsInv'
<1>1. CASE capture = "off"
  <2>1. memoryFaults' = memoryFaults + spent /\ UNCHANGED <<councilLog, logged>>
    BY <1>1 DEF LogSession
  <2>2. FaultsInv'
    BY <2>1, Bounds DEF FaultsInv
  <2>3. QED BY <2>1, <2>2 DEF CouncilInv
<1>2. CASE capture # "off"
  <2>1. PICK w \in Writes(councilLog, Newest(Append(councilLog.list, sessions), CouncilCap), spent) :
          /\ councilLog' = w.file /\ logged' = AfterWrite(logged, w, sessions)
          /\ memoryFaults' = memoryFaults + spent + w.cost
    BY <1>2 DEF LogSession
  <2>2. /\ councilLog \in [ok : BOOLEAN, list : Seq(Nat)] /\ logged \in Seq(Nat) /\ sessions \in Nat
        /\ EndKept(councilLog, logged, CouncilCap)
    BY Bounds DEF CouncilInv
  <2>3. /\ w.file \in [ok : BOOLEAN, list : Seq(Nat)] /\ AfterWrite(logged, w, sessions) \in Seq(Nat)
        /\ EndKept(w.file, AfterWrite(logged, w, sessions), CouncilCap)
        /\ w.cost \in 0 .. 1 /\ memoryFaults + spent + w.cost <= MaxMemoryFaults
    BY <2>2, Bounds, FileStep
  <2>4. FaultsInv'
    BY <2>1, <2>3, Bounds DEF FaultsInv
  <2>5. QED BY <2>1, <2>3, <2>4 DEF CouncilInv
<1>3. QED BY <1>1, <1>2

LEMMA ConcludeStep ==
  ASSUME CouncilInv, HistoryInv, FaultsInv, Conclude
  PROVE  CouncilInv' /\ HistoryInv' /\ FaultsInv'
<1>1. UNCHANGED <<capture, sessions>> /\ memoryFaults + 0 <= MaxMemoryFaults
  BY Bounds DEF Conclude, FaultsInv
<1>2. \/ UNCHANGED <<councilLog, logged, historyVars, memoryFaults>>
      \/ UNCHANGED historyVars /\ LogSession(0)
      \/ \E w \in HistoryWrites(0) : Entering(w) /\ LogSession(w.cost)
  BY DEF Conclude
<1>3. CASE UNCHANGED <<councilLog, logged, historyVars, memoryFaults>>
  BY <1>1, <1>3, HistoryStays DEF CouncilInv, FaultsInv
<1>4. CASE UNCHANGED historyVars /\ LogSession(0)
  BY <1>1, <1>4, HistoryStays, SessionLogged
<1>5. CASE \E w \in HistoryWrites(0) : Entering(w) /\ LogSession(w.cost)
  <2>1. PICK w \in HistoryWrites(0) : Entering(w) /\ LogSession(w.cost)
    BY <1>5
  <2>2. HistoryInv' /\ w.cost \in 0 .. 1 /\ memoryFaults + 0 + w.cost <= MaxMemoryFaults
    BY <1>1, <2>1, EntryStep
  <2>3. memoryFaults + w.cost <= MaxMemoryFaults
    BY <2>2, Bounds DEF FaultsInv
  <2>4. QED BY <1>1, <2>1, <2>2, <2>3, SessionLogged
<1>6. QED BY <1>2, <1>3, <1>4, <1>5

-----------------------------------------------------------------------------
(* The specification *)

LEMMA MemoryStarts == MemoryInit => MemoryInv
<1> SUFFICES ASSUME MemoryInit PROVE MemoryInv
  OBVIOUS
<1>1. FaultsInv
  BY Bounds DEF MemoryInit, FaultsInv
<1>2. HistoryInv
  <2>1. history \in [ok : BOOLEAN, list : Seq(1 .. MaxNotes)] /\ history.list = <<>> /\ history.ok
    BY DEF MemoryInit, Intact
  <2>2. <<>> \in Seq(1 .. MaxNotes) /\ Len(<<>>) = 0 /\ EndOf(<<>>, <<>>)
    BY DEF EndOf
  <2>3. QED BY <2>1, <2>2, Bounds DEF MemoryInit, HistoryInv
<1>3. ConversationsInv
  <2>1. /\ stored \in [Threads -> Nat] /\ kept \in [Threads -> Nat] /\ landed \in [Threads -> Nat]
        /\ saves = 0 /\ missed = 0
        /\ \A d \in Threads : stored[d] = 0 /\ kept[d] = 0 /\ landed[d] = 0
    BY DEF MemoryInit
  <2>2. ClockInv
    BY <2>1, Bounds DEF ClockInv, Apart
  <2>3. {c \in Threads : stored[c] > 0} = {}
    BY <2>1
  <2>4. Cardinality({c \in Threads : stored[c] > 0}) <= ConversationCap
    BY <2>3, FS_EmptySet, Bounds
  <2>5. QED BY <2>1, <2>2, <2>4 DEF ConversationsInv, ConversationsKept
<1>4. RecallInv
  <2>1. /\ recall \in [ok : BOOLEAN, list : Seq(Threads), visits : 0 .. MaxTurns]
        /\ recall.ok /\ recall.list = <<>> /\ recall.visits = 0 /\ turns = <<>>
    BY Bounds DEF MemoryInit, BlankIdentity
  <2>2. Cardinality(Range(<<>>)) = 0
    BY NothingRecalled
  <2>3. QED BY <2>1, <2>2, NothingRecalled, Bounds DEF RecallInv
<1>5. AgentInv
  BY DEF MemoryInit, AgentInv, PromptsCounted
<1>6. CouncilInv
  <2>1. councilLog \in [ok : BOOLEAN, list : Seq(Nat)] /\ councilLog.list = <<>> /\ logged = <<>>
    BY DEF MemoryInit, Intact
  <2>2. Len(<<>>) = 0 /\ <<>> \in Seq(Nat) /\ EndOf(<<>>, <<>>)
    BY DEF EndOf
  <2>3. QED BY <2>1, <2>2, Bounds DEF MemoryInit, CouncilInv, EndKept
<1>7. QED BY <1>1, <1>2, <1>3, <1>4, <1>5, <1>6 DEF MemoryInv

LEMMA MemoryStep == MemoryInv /\ [MemoryNext]_memoryVars => MemoryInv'
<1> SUFFICES ASSUME MemoryInv, [MemoryNext]_memoryVars PROVE MemoryInv'
  OBVIOUS
<1>1. FaultsInv /\ HistoryInv /\ ConversationsInv /\ RecallInv /\ AgentInv /\ CouncilInv
  BY DEF MemoryInv
<1>2. CASE PostHistory
  <2>1. UNCHANGED <<conversationsVars, recallVars, agentVars, councilVars>> /\ AppendHistory(0)
    BY <1>2 DEF PostHistory
  <2>2. 0 \in 0 .. 1 /\ memoryFaults + 0 <= MaxMemoryFaults
    BY <1>1, Bounds DEF FaultsInv
  <2>3. HistoryInv' /\ FaultsInv'
    BY <1>1, <2>1, <2>2, HistoryStep
  <2>4. QED BY <1>1, <2>1, <2>3, ConversationsStay, RecallStays, AgentStays, CouncilStays DEF MemoryInv
<1>3. ASSUME NEW c \in Threads, PutConversation(c) PROVE MemoryInv'
  <2>1. UNCHANGED <<historyVars, recallVars, agentVars, councilVars>>
    BY <1>3 DEF PutConversation
  <2>2. FaultsInv'
    <3>1. \/ memoryFaults' = memoryFaults
          \/ memoryFaults < MaxMemoryFaults /\ memoryFaults' = memoryFaults + 1
      BY <1>3 DEF PutConversation
    <3>2. QED BY <1>1, <3>1, OneMoreFault DEF FaultsInv
  <2>3. ConversationsInv'
    BY <1>1, <1>3, SaveStep
  <2>4. QED BY <1>1, <2>1, <2>2, <2>3, HistoryStays, RecallStays, AgentStays, CouncilStays DEF MemoryInv
<1>4. ASSUME NEW c \in Threads, DeleteConversation(c) PROVE MemoryInv'
  <2>1. UNCHANGED <<historyVars, recallVars, agentVars, councilVars, memoryFaults>>
    BY <1>4 DEF DeleteConversation
  <2>2. FaultsInv'
    BY <1>1, <2>1 DEF FaultsInv
  <2>3. ConversationsInv'
    BY <1>1, <1>4, DeletionStep
  <2>4. QED BY <1>1, <2>1, <2>2, <2>3, HistoryStays, RecallStays, AgentStays, CouncilStays DEF MemoryInv
<1>5. ASSUME NEW c \in Threads, RecordTurn(c) PROVE MemoryInv'
  <2>1. UNCHANGED <<conversationsVars, agentVars, councilVars>>
    BY <1>5 DEF RecordTurn
  <2>2. RecallInv' /\ HistoryInv' /\ FaultsInv'
    BY <1>1, <1>5, RecallStep
  <2>3. QED BY <1>1, <2>1, <2>2, ConversationsStay, AgentStays, CouncilStays DEF MemoryInv
<1>6. CASE Provision
  <2>1. UNCHANGED <<historyVars, conversationsVars, recallVars, councilVars>>
    BY <1>6 DEF Provision
  <2>2. AgentInv' /\ FaultsInv'
    BY <1>1, <1>6, ProvisionStep
  <2>3. QED BY <1>1, <2>1, <2>2, HistoryStays, ConversationsStay, RecallStays, CouncilStays DEF MemoryInv
<1>7. ASSUME NEW p \in Prompts, StartPrompt(p) \/ PromptFails(p) PROVE MemoryInv'
  <2>1. /\ UNCHANGED <<agent, answered, historyVars, conversationsVars, recallVars, councilVars, memoryFaults>>
        /\ prompting' \subseteq prompting \cup {p} /\ (prompting' # {} => agent.made)
    BY <1>1, <1>7 DEF StartPrompt, PromptFails, AgentInv
  <2>2. AgentInv' /\ FaultsInv'
    BY <1>1, <2>1 DEF AgentInv, FaultsInv, PromptsCounted
  <2>3. QED BY <1>1, <2>1, <2>2, HistoryStays, ConversationsStay, RecallStays, CouncilStays DEF MemoryInv
<1>8. ASSUME NEW p \in Prompts, PromptAnswered(p) PROVE MemoryInv'
  <2>1. UNCHANGED <<conversationsVars, recallVars, councilVars>>
    BY <1>8 DEF PromptAnswered
  <2>2. AgentInv' /\ HistoryInv' /\ FaultsInv'
    BY <1>1, <1>8, AnswerStep
  <2>3. QED BY <1>1, <2>1, <2>2, ConversationsStay, RecallStays, CouncilStays DEF MemoryInv
<1>9. ASSUME Convene \/ (\E s \in Seats : SeatSettles(s)) \/ SessionFails PROVE MemoryInv'
  <2>1. /\ UNCHANGED <<capture, councilLog, logged, historyVars, conversationsVars, recallVars,
                       agentVars, memoryFaults>>
        /\ sessions' = sessions \/ (sessions < MaxSessions /\ sessions' = sessions + 1)
    BY <1>9 DEF Convene, SeatSettles, SessionFails
  <2>2. CouncilInv'
    <3>1. sessions' \in 0 .. MaxSessions
      BY <1>1, <2>1, Bounds DEF CouncilInv
    <3>2. QED BY <1>1, <2>1, <3>1 DEF CouncilInv
  <2>3. FaultsInv'
    BY <1>1, <2>1 DEF FaultsInv
  <2>4. QED BY <1>1, <2>1, <2>2, <2>3, HistoryStays, ConversationsStay, RecallStays, AgentStays DEF MemoryInv
<1>10. CASE Conclude
  <2>1. UNCHANGED <<conversationsVars, recallVars, agentVars>>
    BY <1>10 DEF Conclude
  <2>2. CouncilInv' /\ HistoryInv' /\ FaultsInv'
    BY <1>1, <1>10, ConcludeStep
  <2>3. QED BY <1>1, <2>1, <2>2, ConversationsStay, RecallStays, AgentStays DEF MemoryInv
<1>11. CASE Dies
  <2>1. /\ memoryFaults < MaxMemoryFaults /\ memoryFaults' = memoryFaults + 1 /\ prompting' = {}
        /\ UNCHANGED <<agent, answered, capture, councilLog, logged, sessions, historyVars,
                       conversationsVars, recallVars>>
    BY <1>11 DEF Dies
  <2>2. AgentInv' /\ FaultsInv' /\ CouncilInv'
    <3>1. FaultsInv'
      BY <1>1, <2>1, OneMoreFault
    <3>2. AgentInv'
      BY <1>1, <2>1 DEF AgentInv, PromptsCounted
    <3>3. CouncilInv'
      BY <1>1, <2>1 DEF CouncilInv
    <3>4. QED BY <3>1, <3>2, <3>3
  <2>3. QED BY <1>1, <2>1, <2>2, HistoryStays, ConversationsStay, RecallStays DEF MemoryInv
<1>12. CASE UNCHANGED memoryVars
  <2>1. UNCHANGED <<historyVars, conversationsVars, recallVars, agentVars, councilVars, memoryFaults>>
    BY <1>12 DEF memoryVars
  <2>2. FaultsInv'
    BY <1>1, <2>1 DEF FaultsInv
  <2>3. QED BY <1>1, <2>1, <2>2, HistoryStays, ConversationsStay, RecallStays, AgentStays, CouncilStays
            DEF MemoryInv
<1>13. QED BY <1>2, <1>3, <1>4, <1>5, <1>6, <1>7, <1>8, <1>9, <1>10, <1>11, <1>12
            DEF MemoryNext, StoresNext, RecallNext, CouncilNext

LEMMA MemoryAlways == MemorySpec => []MemoryInv
<1>1. QED BY MemoryStarts, MemoryStep, PTL DEF MemorySpec

\* The files of a wallet are well formed and within their caps, whatever is
\* stored, broken off or lost (history.ts, chat/identity.ts, agents/runner.ts,
\* council-memory.ts), for any caps, threads and numbers of faults.
THEOREM MemoryTypesHold == MemorySpec => []MemoryTypeOK
<1>1. MemoryInv => MemoryTypeOK
  <2> SUFFICES ASSUME MemoryInv PROVE MemoryTypeOK
    OBVIOUS
  <2>1. stored \in [Threads -> 0 .. MaxSaves] /\ kept \in [Threads -> 0 .. MaxSaves]
    <3>1. /\ stored \in [Threads -> Nat] /\ kept \in [Threads -> Nat] /\ landed \in [Threads -> Nat]
          /\ saves \in 0 .. MaxSaves /\ MaxSaves \in Nat
          /\ \A d \in Threads : stored[d] <= landed[d] /\ kept[d] <= landed[d] /\ landed[d] <= saves
      BY Bounds DEF MemoryInv, ConversationsInv, ClockInv
    <3>2. \A d \in Threads : stored[d] \in 0 .. MaxSaves /\ kept[d] \in 0 .. MaxSaves
      BY <3>1
    <3>3. QED BY <3>1, <3>2
  <2>2. QED BY <2>1 DEF MemoryInv, MemoryTypeOK, HistoryInv, RecallInv, AgentInv, CouncilInv, FaultsInv
<1>2. QED BY <1>1, MemoryAlways, PTL

\* What a wallet stored is there, newest first, or is behind a full cap of newer
\* entries, or went with the file a fault broke; a conversation may also have gone
\* to a save that evicted it and then failed, if it was the next to go
\* (history.ts: putConversation, appendHistory; council-memory.ts). For any caps,
\* any number of saves, turns, sessions and failing writes.
THEOREM MemoryKept == MemorySpec => []MemoryIsKept
<1>1. MemoryInv => MemoryIsKept
  BY HistoryHolds, CouncilHolds, RecallHolds
  DEF MemoryInv, MemoryIsKept, ConversationsInv, AgentInv
<1>2. QED BY <1>1, MemoryAlways, PTL

-----------------------------------------------------------------------------
(***************************************************************************)
(* Conversations: first the sequences a history is built from, then the    *)
(* shape of threads and turns, then what thread, summary, turns and store  *)
(* cover between them.                                                     *)
(***************************************************************************)

-----------------------------------------------------------------------------
(* Sequences of messages *)

LEMMA SuffixIsEnd ==
  ASSUME NEW S, NEW s \in Seq(S), NEW m \in Int, m >= 1
  PROVE  /\ SubSeq(s, m, Len(s)) \in Seq(S) /\ EndOf(SubSeq(s, m, Len(s)), s)
         /\ m <= Len(s) + 1 => Len(SubSeq(s, m, Len(s))) = Len(s) - m + 1
         /\ \A i \in 1 .. Len(SubSeq(s, m, Len(s))) : SubSeq(s, m, Len(s))[i] = s[m + i - 1]
<1> DEFINE r == SubSeq(s, m, Len(s))
<1>1. Len(s) \in Nat /\ \A i \in m .. Len(s) : s[i] \in S
  BY LenProperties, ElementOfSeq
<1>2. /\ r \in Seq(S) /\ Len(r) = IF m <= Len(s) THEN Len(s) - m + 1 ELSE 0
      /\ \A i \in 1 .. Len(s) - m + 1 : r[i] = s[m + i - 1]
  BY <1>1, SubSeqProperties
<1> HIDE DEF r
<1>3. \A i \in 1 .. Len(r) : i \in 1 .. Len(s) - m + 1
  BY <1>1, <1>2
<1>4. \A i \in 1 .. Len(r) : r[i] = s[m + i - 1]
  BY <1>2, <1>3
<1>5. \A i \in 1 .. Len(r) : m + i - 1 = Len(s) - Len(r) + i
  <2>1. SUFFICES ASSUME NEW i \in 1 .. Len(r)
                 PROVE  m + i - 1 = Len(s) - Len(r) + i
    OBVIOUS
  <2>2. m <= Len(s) /\ Len(r) = Len(s) - m + 1
    BY <1>1, <1>2
  <2>3. QED BY <1>1, <2>2
<1>6. Len(r) <= Len(s)
  BY <1>1, <1>2
<1>7. EndOf(r, s)
  BY <1>4, <1>5, <1>6 DEF EndOf
<1>8. QED BY <1>1, <1>2, <1>4, <1>7 DEF r

LEMMA EndOfEnd ==
  ASSUME NEW S, NEW r \in Seq(S), NEW s \in Seq(S), NEW t \in Seq(S), EndOf(r, s), EndOf(s, t)
  PROVE  EndOf(r, t)
<1>1. Len(r) \in Nat /\ Len(s) \in Nat /\ Len(t) \in Nat /\ Len(r) <= Len(s) /\ Len(s) <= Len(t)
  BY LenProperties DEF EndOf
<1>2. ASSUME NEW i \in 1 .. Len(r) PROVE r[i] = t[Len(t) - Len(r) + i]
  <2>1. Len(s) - Len(r) + i \in 1 .. Len(s)
    BY <1>1
  <2>2. Len(t) - Len(s) + (Len(s) - Len(r) + i) = Len(t) - Len(r) + i
    BY <1>1
  <2>3. QED BY <2>1, <2>2 DEF EndOf
<1>3. QED BY <1>1, <1>2 DEF EndOf

\* A result stands behind its call, unless it is first.
Paired(s) ==
  \A i \in 2 .. Len(s) : s[i].kind = "result" => s[i - 1].kind = "call" /\ s[i - 1].n = s[i].n

\* The messages of a sequence all belong to one conversation.
AllOf(s, c) == \A i \in 1 .. Len(s) : s[i].of = c

LEMMA EndPaired ==
  ASSUME NEW S, NEW r \in Seq(S), NEW s \in Seq(S), EndOf(r, s)
  PROVE  /\ Paired(s) => Paired(r)
         /\ \A c : AllOf(s, c) => AllOf(r, c)
<1>1. /\ Len(r) \in Nat /\ Len(s) \in Nat /\ Len(r) <= Len(s)
      /\ \A i \in 1 .. Len(r) : r[i] = s[Len(s) - Len(r) + i]
  BY LenProperties DEF EndOf
<1>2. ASSUME Paired(s) PROVE Paired(r)
  <2>1. SUFFICES ASSUME NEW i \in 2 .. Len(r), r[i].kind = "result"
                 PROVE  r[i - 1].kind = "call" /\ r[i - 1].n = r[i].n
    BY DEF Paired
  <2> DEFINE j == Len(s) - Len(r) + i
  <2>2. i \in 1 .. Len(r) /\ i - 1 \in 1 .. Len(r) /\ j \in 2 .. Len(s)
        /\ Len(s) - Len(r) + (i - 1) = j - 1
    BY <1>1
  <2>3. r[i] = s[j] /\ r[i - 1] = s[j - 1]
    BY <1>1, <2>2
  <2> HIDE DEF j
  <2>4. QED BY <1>2, <2>1, <2>2, <2>3 DEF Paired
<1>3. ASSUME NEW c, AllOf(s, c) PROVE AllOf(r, c)
  <2>1. \A i \in 1 .. Len(r) : Len(s) - Len(r) + i \in 1 .. Len(s)
    BY <1>1
  <2>2. QED BY <1>1, <1>3, <2>1 DEF AllOf
<1>4. QED BY <1>2, <1>3

LEMMA AppendPaired ==
  ASSUME NEW s \in Seq(Message), NEW m \in Message, m.kind # "result"
  PROVE  /\ Append(s, m) \in Seq(Message) /\ Append(s, m) # <<>>
         /\ Len(Append(s, m)) = Len(s) + 1
         /\ Paired(s) => Paired(Append(s, m))
         /\ \A c : AllOf(s, c) /\ m.of = c => AllOf(Append(s, m), c)
<1> DEFINE t == Append(s, m)
<1>1. /\ t \in Seq(Message) /\ t # <<>> /\ Len(t) = Len(s) + 1 /\ Len(s) \in Nat
      /\ \A i \in 1 .. Len(s) : t[i] = s[i]
      /\ t[Len(s) + 1] = m
  BY AppendProperties, LenProperties
<1> HIDE DEF t
<1>2. ASSUME Paired(s) PROVE Paired(t)
  <2>1. SUFFICES ASSUME NEW i \in 2 .. Len(t), t[i].kind = "result"
                 PROVE  t[i - 1].kind = "call" /\ t[i - 1].n = t[i].n
    BY DEF Paired
  <2>2. i # Len(s) + 1
    BY <1>1, <2>1
  <2>3. i \in 2 .. Len(s) /\ i \in 1 .. Len(s) /\ i - 1 \in 1 .. Len(s)
    BY <1>1, <2>2
  <2>4. QED BY <1>1, <1>2, <2>1, <2>3 DEF Paired
<1>3. ASSUME NEW c, AllOf(s, c), m.of = c PROVE AllOf(t, c)
  <2>1. \A i \in 1 .. Len(t) : i \in 1 .. Len(s) \/ i = Len(s) + 1
    BY <1>1
  <2>2. QED BY <1>1, <1>3, <2>1 DEF AllOf
<1>4. QED BY <1>1, <1>2, <1>3 DEF t

LEMMA RoundPaired ==
  ASSUME NEW s \in Seq(Message), NEW n \in 1 .. MaxNumber, NEW c \in Conversations
  PROVE  /\ s \o Round(n, c) \in Seq(Message) /\ s \o Round(n, c) # <<>>
         /\ Len(s \o Round(n, c)) = Len(s) + 2
         /\ \A i \in 1 .. Len(s) : (s \o Round(n, c))[i] = s[i]
         /\ (s \o Round(n, c))[Len(s) + 1] = [n |-> n, kind |-> "call", of |-> c]
         /\ (s \o Round(n, c))[Len(s) + 2] = [n |-> n, kind |-> "result", of |-> c]
         /\ Paired(s) => Paired(s \o Round(n, c))
         /\ AllOf(s, c) => AllOf(s \o Round(n, c), c)
<1> DEFINE r == Round(n, c)
           t == s \o r
<1>1. /\ r \in Seq(Message) /\ Len(r) = 2
      /\ r[1] = [n |-> n, kind |-> "call", of |-> c]
      /\ r[2] = [n |-> n, kind |-> "result", of |-> c]
  <2>1. [n |-> n, kind |-> "call", of |-> c] \in Message /\ [n |-> n, kind |-> "result", of |-> c] \in Message
    BY DEF Message
  <2>2. QED BY <2>1 DEF Round
<1> HIDE DEF r
<1>2. /\ t \in Seq(Message) /\ Len(t) = Len(s) + 2 /\ Len(s) \in Nat
      /\ \A i \in 1 .. Len(s) + 2 : t[i] = IF i <= Len(s) THEN s[i] ELSE r[i - Len(s)]
  <2>1. /\ t \in Seq(Message) /\ Len(t) = Len(s) + Len(r)
        /\ \A i \in 1 .. Len(s) + Len(r) : t[i] = IF i <= Len(s) THEN s[i] ELSE r[i - Len(s)]
    BY <1>1, ConcatProperties
  <2> HIDE DEF t
  <2>2. QED BY <1>1, <2>1, LenProperties
<1> HIDE DEF t
<1>3. /\ \A i \in 1 .. Len(s) : t[i] = s[i]
      /\ t[Len(s) + 1] = r[1] /\ t[Len(s) + 2] = r[2]
  <2>1. Len(s) + 1 - Len(s) = 1 /\ Len(s) + 2 - Len(s) = 2
    BY <1>2
  <2>2. QED BY <1>2, <2>1
<1>4. t # <<>>
  BY <1>2
<1>5. ASSUME Paired(s) PROVE Paired(t)
  <2>1. SUFFICES ASSUME NEW i \in 2 .. Len(t), t[i].kind = "result"
                 PROVE  t[i - 1].kind = "call" /\ t[i - 1].n = t[i].n
    BY DEF Paired
  <2>2. CASE i \in 2 .. Len(s)
    <3>1. i \in 1 .. Len(s) /\ i - 1 \in 1 .. Len(s)
      BY <1>2, <2>2
    <3>2. QED BY <1>3, <1>5, <2>1, <2>2, <3>1 DEF Paired
  <2>3. CASE i = Len(s) + 1
    BY <1>1, <1>3, <2>1, <2>3
  <2>4. CASE i = Len(s) + 2
    <3>1. i - 1 = Len(s) + 1
      BY <1>2, <2>4
    <3>2. QED BY <1>1, <1>3, <2>4, <3>1
  <2>5. QED BY <1>2, <2>2, <2>3, <2>4
<1>6. ASSUME AllOf(s, c) PROVE AllOf(t, c)
  <2>1. \A i \in 1 .. Len(t) : i \in 1 .. Len(s) \/ i = Len(s) + 1 \/ i = Len(s) + 2
    BY <1>2
  <2>2. QED BY <1>1, <1>3, <1>6, <2>1 DEF AllOf
<1>7. QED BY <1>1, <1>2, <1>3, <1>4, <1>5, <1>6 DEF t, r

-----------------------------------------------------------------------------
(* The history the model is given *)

EntryRecord == [tells : SUBSET (1 .. MaxNumber), kind : {"ask", "say", "call", "result"}]

LEMMA EntriesAre ==
  ASSUME NEW msgs \in Seq(Message)
  PROVE  /\ Entries(msgs) \in Seq(EntryRecord) /\ Len(Entries(msgs)) = Len(msgs)
         /\ \A i \in 1 .. Len(msgs) :
              Entries(msgs)[i].tells = {msgs[i].n} /\ Entries(msgs)[i].kind = msgs[i].kind
<1>1. Len(msgs) \in Nat /\ DOMAIN msgs = 1 .. Len(msgs) /\ \A i \in 1 .. Len(msgs) : msgs[i] \in Message
  BY LenProperties, ElementOfSeq
<1>2. Entries(msgs) = [i \in 1 .. Len(msgs) |-> Entry(msgs[i])]
  BY <1>1 DEF Entries
<1>3. \A i \in 1 .. Len(msgs) : Entry(msgs[i]) \in EntryRecord
  BY <1>1 DEF Entry, EntryRecord, Message
<1>4. Entries(msgs) \in [1 .. Len(msgs) -> EntryRecord]
  BY <1>2, <1>3
<1>5. \A i \in 1 .. Len(msgs) :
        Entries(msgs)[i].tells = {msgs[i].n} /\ Entries(msgs)[i].kind = msgs[i].kind
  BY <1>2 DEF Entry
<1>6. Entries(msgs) \in Seq(EntryRecord) /\ Len(Entries(msgs)) = Len(msgs)
  BY <1>1, <1>4
<1>7. QED BY <1>5, <1>6

LEMMA ClampedEnd ==
  ASSUME NEW S, NEW entries \in Seq(S), NEW over \in Int
  PROVE  /\ Clamped(entries, over) \in Seq(S)
         /\ EndOf(Clamped(entries, over), entries)
<1> DEFINE n == Len(Latest(HardMax, entries)) - over
           rest == Latest(n, entries)
           I == {i \in 1 .. Len(rest) : FromUser(rest[i].kind)}
           first == SelectInSeq(rest, LAMBDA e : FromUser(e.kind))
<1>1. Len(entries) \in Nat /\ HardMax \in Nat
  BY LenProperties, ConversationAssumption
<1>2. Latest(HardMax, entries) \in Seq(S)
  <2> DEFINE m == IF Len(entries) > HardMax THEN Len(entries) - HardMax + 1 ELSE 1
  <2>1. m \in Int /\ m >= 1
    BY <1>1
  <2>2. Latest(HardMax, entries) = SubSeq(entries, m, Len(entries))
    BY DEF Latest
  <2> HIDE DEF m
  <2>3. QED BY <2>1, <2>2, SuffixIsEnd
<1>3. n \in Int
  BY <1>2, LenProperties
<1>4. rest \in Seq(S) /\ EndOf(rest, entries)
  <2> HIDE DEF n
  <2> DEFINE m == IF Len(entries) > n THEN Len(entries) - n + 1 ELSE 1
  <2>1. m \in Int /\ m >= 1
    BY <1>1, <1>3
  <2>2. rest = SubSeq(entries, m, Len(entries))
    BY DEF Latest
  <2> HIDE DEF m, rest
  <2>3. QED BY <2>1, <2>2, SuffixIsEnd
<1>5. Clamped(entries, over) = IF first = 0 THEN <<>> ELSE SubSeq(rest, first, Len(rest))
  BY DEF Clamped
<1>6. first = IF I # {} THEN Min(I) ELSE 0
  BY DEF SelectInSeq
<1> HIDE DEF first, rest
<1>7. CASE first = 0
  <2>1. <<>> \in Seq(S) /\ EndOf(<<>>, entries)
    BY <1>1 DEF EndOf
  <2>2. QED BY <1>5, <1>7, <2>1
<1>8. CASE first # 0
  <2>1. I # {} /\ I \subseteq Nat /\ first = Min(I)
    BY <1>6, <1>8
  <2>2. first \in I
    <3> HIDE DEF I
    <3>1. \E m \in I : \A k \in I : m <= k
      BY <2>1, Smallest
    <3>2. QED BY <2>1, <3>1 DEF Min
  <2>3. first \in Int /\ first >= 1
    BY <2>2
  <2>4. SubSeq(rest, first, Len(rest)) \in Seq(S) /\ EndOf(SubSeq(rest, first, Len(rest)), rest)
    BY <1>4, <2>3, SuffixIsEnd
  <2>5. EndOf(SubSeq(rest, first, Len(rest)), entries)
    BY <1>4, <2>4, EndOfEnd
  <2>6. QED BY <1>5, <1>8, <2>4, <2>5
<1>9. QED BY <1>7, <1>8

\* Nothing is clamped of a history that fits and starts with the user.
LEMMA ClampedWhole ==
  ASSUME NEW S, NEW entries \in Seq(S), entries # <<>>, Len(entries) <= HardMax,
         FromUser(entries[1].kind)
  PROVE  Clamped(entries, 0) = entries
<1> DEFINE I == {i \in 1 .. Len(entries) : FromUser(entries[i].kind)}
<1>1. Len(entries) \in Nat /\ Len(entries) >= 1 /\ HardMax \in Nat
  BY LenProperties, EmptySeq, ConversationAssumption
<1>2. SubSeq(entries, 1, Len(entries)) = entries
  BY SubSeqFull
<1>3. \A n \in Int : n >= Len(entries) => Latest(n, entries) = entries
  <2>1. SUFFICES ASSUME NEW n \in Int, n >= Len(entries) PROVE Latest(n, entries) = entries
    OBVIOUS
  <2>2. ~(Len(entries) > n)
    BY <1>1, <2>1
  <2>3. QED BY <1>2, <2>2 DEF Latest
<1>4. /\ Latest(HardMax, entries) = entries
      /\ Latest(Len(Latest(HardMax, entries)) - 0, entries) = entries
  <2>1. Latest(HardMax, entries) = entries
    BY <1>1, <1>3
  <2>2. Len(entries) - 0 \in Int /\ Len(entries) - 0 >= Len(entries)
    BY <1>1
  <2>3. QED BY <1>3, <2>1, <2>2
<1>5. SelectInSeq(entries, LAMBDA e : FromUser(e.kind)) = 1
  <2>1. 1 \in I /\ \A i \in I : 1 <= i /\ i \in Nat
    BY <1>1
  <2>2. Min(I) = 1
    <3> HIDE DEF I
    <3>1. \E m \in I : \A k \in I : m <= k
      BY <2>1
    <3>2. Min(I) \in I /\ Min(I) <= 1
      BY <2>1, <3>1 DEF Min
    <3>3. QED BY <2>1, <3>2
  <2>3. QED BY <2>1, <2>2 DEF SelectInSeq
<1>6. QED
  <2> DEFINE rest == Latest(Len(Latest(HardMax, entries)) - 0, entries)
             first == SelectInSeq(rest, LAMBDA e : FromUser(e.kind))
  <2>1. Clamped(entries, 0) = IF first = 0 THEN <<>> ELSE SubSeq(rest, first, Len(rest))
    BY DEF Clamped
  <2>2. rest = entries
    BY <1>4
  <2>3. first = 1
    BY <1>5, <2>2
  <2> HIDE DEF rest, first
  <2>4. QED BY <1>2, <2>1, <2>2, <2>3

\* Where a history given to the model may hold a result without its call.
CutOnly(context, through) ==
  \A i \in 1 .. Len(context) :
    context[i].kind = "result" =>
      \/ i > 1 /\ context[i - 1].kind = "call" /\ context[i - 1].tells = context[i].tells
      \/ i = 1
      \/ i = 2 /\ through > 0

\* A number is told by an entry.
Tells(context, n) == \E i \in 1 .. Len(context) : n \in context[i].tells

LEMMA EndCutOnly ==
  ASSUME NEW S, NEW r \in Seq(S), NEW s \in Seq(S), EndOf(r, s),
         NEW through \in Nat, CutOnly(s, through)
  PROVE  CutOnly(r, through)
<1>1. /\ Len(r) \in Nat /\ Len(s) \in Nat /\ Len(r) <= Len(s)
      /\ \A i \in 1 .. Len(r) : r[i] = s[Len(s) - Len(r) + i]
  BY LenProperties DEF EndOf
<1>2. SUFFICES ASSUME NEW i \in 1 .. Len(r), r[i].kind = "result", i > 1
               PROVE  \/ r[i - 1].kind = "call" /\ r[i - 1].tells = r[i].tells
                      \/ i = 2 /\ through > 0
  BY DEF CutOnly
<1> DEFINE j == Len(s) - Len(r) + i
<1>3. j \in 1 .. Len(s) /\ j > 1 /\ i - 1 \in 1 .. Len(r) /\ Len(s) - Len(r) + (i - 1) = j - 1
      /\ (j = 2 => i = 2)
  BY <1>1, <1>2
<1>4. r[i] = s[j] /\ r[i - 1] = s[j - 1]
  BY <1>1, <1>3
<1> HIDE DEF j
<1>5. QED BY <1>2, <1>3, <1>4 DEF CutOnly

LEMMA EntriesCutOnly ==
  ASSUME NEW msgs \in Seq(Message), Paired(msgs), NEW through \in Nat
  PROVE  CutOnly(Entries(msgs), through)
<1>1. /\ Len(Entries(msgs)) = Len(msgs) /\ Len(msgs) \in Nat
      /\ \A i \in 1 .. Len(msgs) : Entries(msgs)[i].tells = {msgs[i].n} /\ Entries(msgs)[i].kind = msgs[i].kind
  BY EntriesAre, LenProperties
<1>2. SUFFICES ASSUME NEW i \in 2 .. Len(msgs), Entries(msgs)[i].kind = "result"
               PROVE  Entries(msgs)[i - 1].kind = "call" /\ Entries(msgs)[i - 1].tells = Entries(msgs)[i].tells
  BY <1>1 DEF CutOnly
<1>3. i \in 1 .. Len(msgs) /\ i - 1 \in 1 .. Len(msgs)
  BY <1>1
<1>4. msgs[i].kind = "result"
  BY <1>1, <1>2, <1>3
<1>5. msgs[i - 1].kind = "call" /\ msgs[i - 1].n = msgs[i].n
  BY <1>4 DEF Paired
<1>6. QED BY <1>1, <1>3, <1>5

LEMMA WithSummaryIs ==
  ASSUME NEW recent \in Seq(Message), recent # <<>>, NEW sum \in SUBSET (1 .. MaxNumber)
  PROVE  /\ WithSummary(sum, recent) \in Seq(EntryRecord) /\ WithSummary(sum, recent) # <<>>
         /\ Len(WithSummary(sum, recent)) <= Len(recent) + 1
         /\ WithSummary(sum, recent)[1].kind = "ask"
         /\ \A n \in sum : Tells(WithSummary(sum, recent), n)
         /\ \A p \in 1 .. Len(recent) : Tells(WithSummary(sum, recent), recent[p].n)
         /\ Paired(recent) => \A through \in Nat \ {0} : CutOnly(WithSummary(sum, recent), through)
<1> DEFINE e == Entries(recent)
           ws == WithSummary(sum, recent)
<1>1. /\ Len(recent) \in Nat /\ Len(recent) >= 1
      /\ e \in Seq(EntryRecord) /\ Len(e) = Len(recent)
      /\ \A i \in 1 .. Len(recent) : e[i].tells = {recent[i].n} /\ e[i].kind = recent[i].kind
      /\ \A i \in 1 .. Len(recent) : recent[i] \in Message
  BY LenProperties, EmptySeq, EntriesAre, ElementOfSeq
<1>2. Head(recent) = recent[1] /\ recent[1] \in Message /\ recent[1].n \in 1 .. MaxNumber
  BY <1>1 DEF Message
<1> HIDE DEF e
<1>3. CASE recent[1].kind = "ask"
  <2> DEFINE x == [tells |-> sum \cup {recent[1].n}, kind |-> "ask"]
  <2>1. x \in EntryRecord /\ x.kind = "ask" /\ x.tells = sum \cup {recent[1].n}
    BY <1>2 DEF EntryRecord
  <2>2. ws = <<x>> \o Tail(e)
    BY <1>2, <1>3 DEF WithSummary, e
  <2> HIDE DEF x
  <2>3. <<x>> \in Seq(EntryRecord) /\ Len(<<x>>) = 1 /\ <<x>>[1] = x
    BY <2>1
  <2>4. /\ Tail(e) \in Seq(EntryRecord) /\ Len(Tail(e)) = Len(e) - 1
        /\ \A i \in 1 .. Len(Tail(e)) : Tail(e)[i] = e[i + 1]
    <3>1. e # <<>>
      BY <1>1
    <3>2. QED BY <1>1, <3>1, HeadTailProperties
  <2>5. /\ ws \in Seq(EntryRecord) /\ Len(ws) = Len(recent)
        /\ ws[1] = x /\ \A i \in 2 .. Len(recent) : ws[i] = e[i]
    <3>1. /\ ws \in Seq(EntryRecord) /\ Len(ws) = Len(<<x>>) + Len(Tail(e))
          /\ \A i \in 1 .. Len(<<x>>) + Len(Tail(e)) :
               ws[i] = IF i <= Len(<<x>>) THEN <<x>>[i] ELSE Tail(e)[i - Len(<<x>>)]
      BY <2>2, <2>3, <2>4, ConcatProperties
    <3> HIDE DEF ws
    <3>2. Len(<<x>>) + Len(Tail(e)) = Len(recent)
      BY <1>1, <2>3, <2>4
    <3>3. \A i \in 2 .. Len(recent) :
            i \in 1 .. Len(recent) /\ ~(i <= 1) /\ i - 1 \in 1 .. Len(Tail(e)) /\ (i - 1) + 1 = i
      BY <1>1, <2>4
    <3>4. \A i \in 2 .. Len(recent) : ws[i] = e[i]
      BY <2>3, <2>4, <3>1, <3>2, <3>3
    <3>5. ws[1] = x
      BY <1>1, <2>3, <3>1, <3>2
    <3>6. QED BY <3>1, <3>2, <3>4, <3>5
  <2> HIDE DEF ws
  <2>6. \A n \in sum : Tells(ws, n)
    BY <1>1, <2>1, <2>5 DEF Tells
  <2>7. ASSUME NEW p \in 1 .. Len(recent) PROVE Tells(ws, recent[p].n)
    <3>1. CASE p = 1
      BY <1>1, <2>1, <2>5, <3>1 DEF Tells
    <3>2. CASE p \in 2 .. Len(recent)
      <4>1. ws[p].tells = {recent[p].n} /\ p \in 1 .. Len(ws)
        BY <1>1, <2>5, <3>2
      <4>2. QED BY <4>1 DEF Tells
    <3>3. QED BY <1>1, <3>1, <3>2
  <2>8. ASSUME Paired(recent), NEW through \in Nat \ {0} PROVE CutOnly(ws, through)
    <3>1. SUFFICES ASSUME NEW i \in 1 .. Len(ws), ws[i].kind = "result", i > 1, i # 2
                   PROVE  ws[i - 1].kind = "call" /\ ws[i - 1].tells = ws[i].tells
      BY DEF CutOnly
    <3>2. i \in 2 .. Len(recent) /\ i - 1 \in 2 .. Len(recent) /\ i \in 1 .. Len(e)
      BY <1>1, <2>5, <3>1
    <3>3. ws[i] = e[i] /\ ws[i - 1] = e[i - 1]
      BY <2>5, <3>2
    <3>4. recent[i].kind = "result" /\ i \in 1 .. Len(recent) /\ i - 1 \in 1 .. Len(recent)
      BY <1>1, <3>1, <3>2, <3>3
    <3>5. recent[i - 1].kind = "call" /\ recent[i - 1].n = recent[i].n
      BY <2>8, <3>2, <3>4 DEF Paired
    <3>6. QED BY <1>1, <3>3, <3>4, <3>5
  <2>9. QED BY <1>1, <2>1, <2>5, <2>6, <2>7, <2>8 DEF ws
<1>4. CASE recent[1].kind # "ask"
  <2> DEFINE x == [tells |-> sum, kind |-> "ask"]
  <2>1. x \in EntryRecord /\ x.kind = "ask" /\ x.tells = sum
    BY DEF EntryRecord
  <2>2. ws = <<x>> \o e
    BY <1>2, <1>4 DEF WithSummary, e
  <2> HIDE DEF x
  <2>3. <<x>> \in Seq(EntryRecord) /\ Len(<<x>>) = 1 /\ <<x>>[1] = x
    BY <2>1
  <2>4. /\ ws \in Seq(EntryRecord) /\ Len(ws) = Len(recent) + 1
        /\ ws[1] = x /\ \A i \in 1 .. Len(recent) : ws[i + 1] = e[i]
    <3>1. /\ ws \in Seq(EntryRecord) /\ Len(ws) = Len(<<x>>) + Len(e)
          /\ \A i \in 1 .. Len(<<x>>) + Len(e) :
               ws[i] = IF i <= Len(<<x>>) THEN <<x>>[i] ELSE e[i - Len(<<x>>)]
      BY <1>1, <2>2, <2>3, ConcatProperties
    <3> HIDE DEF ws
    <3>2. Len(<<x>>) + Len(e) = Len(recent) + 1
      BY <1>1, <2>3
    <3>3. \A i \in 1 .. Len(recent) :
            i + 1 \in 1 .. Len(recent) + 1 /\ ~(i + 1 <= 1) /\ (i + 1) - 1 = i
      BY <1>1
    <3>4. \A i \in 1 .. Len(recent) : ws[i + 1] = e[i]
      BY <2>3, <3>1, <3>2, <3>3
    <3>5. ws[1] = x
      BY <1>1, <2>3, <3>1, <3>2
    <3>6. QED BY <3>1, <3>2, <3>4, <3>5
  <2> HIDE DEF ws
  <2>5. \A n \in sum : Tells(ws, n)
    BY <1>1, <2>1, <2>4 DEF Tells
  <2>6. ASSUME NEW p \in 1 .. Len(recent) PROVE Tells(ws, recent[p].n)
    <3>1. ws[p + 1].tells = {recent[p].n} /\ p + 1 \in 1 .. Len(ws)
      BY <1>1, <2>4
    <3>2. QED BY <3>1 DEF Tells
  <2>7. ASSUME Paired(recent), NEW through \in Nat \ {0} PROVE CutOnly(ws, through)
    <3>1. SUFFICES ASSUME NEW i \in 1 .. Len(ws), ws[i].kind = "result", i > 1, i # 2
                   PROVE  ws[i - 1].kind = "call" /\ ws[i - 1].tells = ws[i].tells
      BY DEF CutOnly
    <3> DEFINE j == i - 1
    <3>2. /\ j \in 1 .. Len(recent) /\ j - 1 \in 1 .. Len(recent) /\ j > 1 /\ i = j + 1
          /\ i - 1 = (j - 1) + 1
      <4>1. /\ Len(recent) \in Nat /\ Len(ws) = Len(recent) + 1
            /\ i \in 1 .. Len(ws) /\ i > 1 /\ i # 2
        BY <1>1, <2>4, <3>1
      <4>2. QED BY <4>1
    <3> HIDE DEF j
    <3>3. ws[i] = e[j] /\ ws[i - 1] = e[j - 1]
      BY <2>4, <3>2
    <3>4. recent[j].kind = "result" /\ j \in 2 .. Len(recent)
      BY <1>1, <3>1, <3>2, <3>3
    <3>5. recent[j - 1].kind = "call" /\ recent[j - 1].n = recent[j].n
      BY <2>7, <3>4 DEF Paired
    <3>6. QED BY <1>1, <3>2, <3>3, <3>5
  <2>8. QED BY <1>1, <2>1, <2>4, <2>5, <2>6, <2>7 DEF ws
<1>5. QED BY <1>3, <1>4

\* splitForCompaction loses nothing, and leaves a message.
LEMMA SplitIs ==
  ASSUME NEW sent \in Seq(Message), sent # <<>>
  PROVE  /\ Recent(sent) \in Seq(Message) /\ Recent(sent) # <<>> /\ EndOf(Recent(sent), sent)
         /\ Len(Recent(sent)) <= KeepRecent
         /\ Overflow(sent) \in Seq(Message) /\ Len(Overflow(sent)) < Len(sent)
         /\ Len(Overflow(sent)) + Len(Recent(sent)) = Len(sent)
         /\ \A i \in 1 .. Len(Overflow(sent)) : Overflow(sent)[i] = sent[i]
<1> DEFINE m == IF Len(sent) > KeepRecent THEN Len(sent) - KeepRecent + 1 ELSE 1
           r == SubSeq(sent, m, Len(sent))
           o == SubSeq(sent, 1, Len(sent) - Len(r))
<1>1. /\ Len(sent) \in Nat /\ Len(sent) >= 1 /\ KeepRecent \in Nat \ {0}
      /\ \A i \in 1 .. Len(sent) : sent[i] \in Message
  BY LenProperties, EmptySeq, ElementOfSeq, ConversationAssumption
<1>2. Recent(sent) = r /\ Overflow(sent) = o
  BY DEF Recent, Latest, Overflow
<1>3. m \in Int /\ m >= 1 /\ m <= Len(sent) + 1 /\ Len(sent) - m + 1 >= 1 /\ Len(sent) - m + 1 <= KeepRecent
  BY <1>1
<1> HIDE DEF m
<1>4. r \in Seq(Message) /\ EndOf(r, sent) /\ Len(r) = Len(sent) - m + 1
  BY <1>3, SuffixIsEnd
<1> HIDE DEF r
<1>5. r # <<>> /\ Len(r) <= KeepRecent /\ Len(r) \in Nat /\ Len(r) <= Len(sent) /\ Len(r) >= 1
  BY <1>1, <1>3, <1>4
<1>6. /\ o \in Seq(Message) /\ Len(o) = Len(sent) - Len(r)
      /\ \A i \in 1 .. Len(o) : o[i] = sent[i]
  <2>1. Len(sent) - Len(r) \in Nat /\ \A i \in 1 .. Len(sent) - Len(r) : sent[i] \in Message
    BY <1>1, <1>5
  <2>2. /\ o \in Seq(Message)
        /\ Len(o) = IF 1 <= Len(sent) - Len(r) THEN Len(sent) - Len(r) - 1 + 1 ELSE 0
        /\ \A i \in 1 .. Len(sent) - Len(r) - 1 + 1 : o[i] = sent[1 + i - 1]
    BY <2>1, SubSeqProperties
  <2> HIDE DEF o
  <2>3. Len(o) = Len(sent) - Len(r) /\ Len(sent) - Len(r) - 1 + 1 = Len(sent) - Len(r)
    BY <2>1, <2>2
  <2>4. \A i \in 1 .. Len(o) : 1 + i - 1 = i
    BY <2>1, <2>3
  <2>5. QED BY <2>2, <2>3, <2>4
<1> HIDE DEF o
<1>7. Len(o) < Len(sent) /\ Len(o) + Len(r) = Len(sent)
  BY <1>1, <1>5, <1>6
<1>8. QED BY <1>2, <1>4, <1>5, <1>6, <1>7

-----------------------------------------------------------------------------
(* Turns *)

\* The messages of a sequence are numbered up to k.
Numbered(s, k) == \A i \in 1 .. Len(s) : s[i].n \in 1 .. k

LEMMA NumberedStays ==
  ASSUME NEW S, NEW r \in Seq(S), NEW s \in Seq(S), EndOf(r, s),
         NEW k \in Int, NEW l \in Int, k <= l, Numbered(s, k)
  PROVE  Numbered(r, l)
<1>1. /\ Len(r) \in Nat /\ Len(s) \in Nat /\ Len(r) <= Len(s)
      /\ \A i \in 1 .. Len(r) : r[i] = s[Len(s) - Len(r) + i]
  BY LenProperties DEF EndOf
<1>2. \A i \in 1 .. Len(r) : Len(s) - Len(r) + i \in 1 .. Len(s)
  BY <1>1
<1>3. \A i \in 1 .. Len(r) : r[i].n \in 1 .. k
  BY <1>1, <1>2 DEF Numbered
<1>4. \A n \in 1 .. k : n \in 1 .. l
  OBVIOUS
<1>5. QED BY <1>3, <1>4 DEF Numbered

LEMMA NumberedAppend ==
  ASSUME NEW s \in Seq(Message), NEW m \in Message, NEW k \in Int, Numbered(s, k), m.n \in 1 .. k
  PROVE  Numbered(Append(s, m), k)
<1> DEFINE t == Append(s, m)
<1>1. /\ Len(t) = Len(s) + 1 /\ Len(s) \in Nat
      /\ \A i \in 1 .. Len(s) : t[i] = s[i]
      /\ t[Len(s) + 1] = m
  BY AppendProperties, LenProperties
<1> HIDE DEF t
<1>2. \A i \in 1 .. Len(t) : i \in 1 .. Len(s) \/ i = Len(s) + 1
  BY <1>1
<1>3. Numbered(t, k)
  BY <1>1, <1>2 DEF Numbered
<1>4. QED BY <1>3 DEF t

LEMMA NumberedRound ==
  ASSUME NEW s \in Seq(Message), NEW n \in 1 .. MaxNumber, NEW c \in Conversations,
         NEW k \in Int, Numbered(s, k), n \in 1 .. k
  PROVE  Numbered(s \o Round(n, c), k)
<1> DEFINE t == s \o Round(n, c)
<1>1. /\ Len(t) = Len(s) + 2 /\ Len(s) \in Nat
      /\ \A i \in 1 .. Len(s) : t[i] = s[i]
      /\ t[Len(s) + 1] = [n |-> n, kind |-> "call", of |-> c]
      /\ t[Len(s) + 2] = [n |-> n, kind |-> "result", of |-> c]
  BY RoundPaired, LenProperties
<1> HIDE DEF t
<1>2. \A i \in 1 .. Len(t) : i \in 1 .. Len(s) \/ i = Len(s) + 1 \/ i = Len(s) + 2
  BY <1>1
<1>3. Numbered(t, k)
  BY <1>1, <1>2 DEF Numbered
<1>4. QED BY <1>3 DEF t

\* A thread that is numbered up to k and keeps its results behind their calls.
ThreadOK(s, k) == s \in Seq(Message) /\ Numbered(s, k) /\ Paired(s)

LEMMA ThreadEnd ==
  ASSUME NEW r \in Seq(Message), NEW s, NEW k \in Int, NEW l \in Int, k <= l,
         EndOf(r, s), ThreadOK(s, k)
  PROVE  ThreadOK(r, l) /\ \A c : AllOf(s, c) => AllOf(r, c)
BY NumberedStays, EndPaired DEF ThreadOK

LEMMA ThreadGrows ==
  ASSUME NEW s, NEW k \in Int, NEW l \in Int, k <= l, ThreadOK(s, k)
  PROVE  ThreadOK(s, l)
<1>1. s \in Seq(Message) /\ Len(s) \in Nat
  BY LenProperties DEF ThreadOK
<1>2. EndOf(s, s)
  BY <1>1 DEF EndOf
<1>3. QED BY <1>1, <1>2, ThreadEnd

LEMMA ThreadAppend ==
  ASSUME NEW s, NEW m \in Message, m.kind # "result", NEW k \in Int, ThreadOK(s, k), m.n \in 1 .. k
  PROVE  ThreadOK(Append(s, m), k) /\ \A c : AllOf(s, c) /\ m.of = c => AllOf(Append(s, m), c)
BY NumberedAppend, AppendPaired DEF ThreadOK

LEMMA ThreadRound ==
  ASSUME NEW s, NEW n \in 1 .. MaxNumber, NEW c \in Conversations,
         NEW k \in Int, ThreadOK(s, k), n \in 1 .. k
  PROVE  ThreadOK(s \o Round(n, c), k) /\ (AllOf(s, c) => AllOf(s \o Round(n, c), c))
BY NumberedRound, RoundPaired DEF ThreadOK

TurnRecord ==
  [at : {"idle", "paying", "posted", "composed"}, sent : Seq(Message),
   prior : SUBSET (1 .. MaxNumber), of : Conversations \cup {"none"},
   context : Seq(EntryRecord), through : Nat]

TurnOK(r, k) ==
  /\ r \in TurnRecord
  /\ ThreadOK(r.sent, k) /\ r.prior \subseteq 1 .. k
  /\ CutOnly(r.context, r.through)
  /\ r.at = "idle" => r = Idle
  /\ r.at # "idle" => r.of \in Conversations /\ r.through < Len(r.sent)
  /\ r.at # "composed" => r.through = 0

SavedRecord == [thread : Seq(Message), summary : SUBSET (1 .. MaxNumber)]

SavedOK(r, k) == r \in SavedRecord /\ ThreadOK(r.thread, k) /\ r.summary \subseteq 1 .. k

\* Every thread, on the page, in a turn or stored, is well formed.
ShapeInv ==
  /\ number \in 0 .. MaxNumber
  /\ ThreadOK(thread, number) /\ said \subseteq Message
  /\ cards \subseteq 1 .. number /\ summary \subseteq 1 .. number
  /\ conv \in Conversations /\ busy \in BOOLEAN
  /\ turn \in [Turns -> TurnRecord] /\ \A t \in Turns : TurnOK(turn[t], number)
  /\ saved \in [Conversations -> SavedRecord]
  /\ \A c \in Conversations : SavedOK(saved[c], number)
  /\ slips \subseteq {"unread", "hiccup", "trim", "overlap", "switch", "unsaved"}

\* The fields of the records a turn goes through.
LEMMA IdleIs ==
  Idle = [at |-> "idle", sent |-> <<>>, prior |-> {}, of |-> "none", context |-> <<>>, through |-> 0]
BY DEF Idle

LEMMA IdleTyped == Idle \in TurnRecord
<1>1. <<>> \in Seq(Message) /\ <<>> \in Seq(EntryRecord) /\ 0 \in Nat
  OBVIOUS
<1>2. QED BY <1>1 DEF Idle, TurnRecord

LEMMA PostedIs ==
  ASSUME NEW msgs, NEW prior, NEW c
  PROVE  /\ Posted(msgs, prior, c) =
              [at |-> "posted", sent |-> msgs, prior |-> prior, of |-> c, context |-> <<>>, through |-> 0]
         /\ [Posted(msgs, prior, c) EXCEPT !.at = "paying"] =
              [at |-> "paying", sent |-> msgs, prior |-> prior, of |-> c, context |-> <<>>, through |-> 0]
<1> DEFINE r == Posted(msgs, prior, c)
<1>1. r \in [at : {"posted"}, sent : {msgs}, prior : {prior}, of : {c}, context : {<<>>}, through : {0}]
  BY DEF Posted, Idle
<1> HIDE DEF r
<1>2. r = [at |-> "posted", sent |-> msgs, prior |-> prior, of |-> c, context |-> <<>>, through |-> 0]
  BY <1>1
<1>3. [r EXCEPT !.at = "paying"] =
        [at |-> "paying", sent |-> msgs, prior |-> prior, of |-> c, context |-> <<>>, through |-> 0]
  BY <1>2
<1>4. QED BY <1>2, <1>3 DEF r

LEMMA ComposedIs ==
  ASSUME turn \in [Turns -> TurnRecord], NEW t \in Turns, NEW context, NEW through,
         Composed(t, context, through)
  PROVE  turn' = [turn EXCEPT ![t] =
                    [at |-> "composed", sent |-> turn[t].sent, prior |-> {}, of |-> turn[t].of,
                     context |-> context, through |-> through]]
<1> DEFINE old == turn[t]
           new == [old EXCEPT !.at = "composed", !.prior = {}, !.context = context, !.through = through]
<1>1. turn' = [turn EXCEPT ![t] = new]
  BY DEF Composed
<1>2. old \in TurnRecord
  OBVIOUS
<1> HIDE DEF old
<1>3. new \in [at : {"composed"}, sent : {old.sent}, prior : {{}}, of : {old.of},
               context : {context}, through : {through}]
  BY <1>2 DEF TurnRecord
<1> HIDE DEF new
<1>4. new = [at |-> "composed", sent |-> old.sent, prior |-> {}, of |-> old.of,
             context |-> context, through |-> through]
  BY <1>3
<1>5. QED BY <1>1, <1>4 DEF old

\* What a turn becomes when it is composed, compacted or not.
ComposesTo(t, context, through) ==
  /\ turn[t].at = "posted"
  /\ turn' = [turn EXCEPT ![t] =
                [at |-> "composed", sent |-> turn[t].sent, prior |-> {}, of |-> turn[t].of,
                 context |-> context, through |-> through]]
  /\ UNCHANGED <<thread, conv, busy, cards, saved, number, said>>
  /\ context \in Seq(EntryRecord) /\ through \in Nat /\ through < Len(turn[t].sent)
  /\ CutOnly(context, through)
  /\ slips \subseteq slips' /\ slips' \subseteq slips \cup {"unread", "trim", "hiccup"}
  /\ summary' \subseteq 1 .. number
  /\ "hiccup" \notin slips' =>
       /\ through = 0 => summary' = summary
       /\ turn[t].prior \subseteq summary' \/ through = 0
       /\ through > 0 => summary' # {}
       /\ \A i \in 1 .. through : turn[t].sent[i].n \in summary'
  /\ slips' = {} /\ (turn[t].prior = {} => FromUser(turn[t].sent[1].kind)) =>
       /\ \A i \in 1 .. Len(turn[t].sent) : Tells(context, turn[t].sent[i].n)
       /\ \A n \in turn[t].prior : Tells(context, n)

LEMMA SentIs ==
  ASSUME ShapeInv, NEW t \in Turns, turn[t].at # "idle"
  PROVE  /\ turn[t].sent \in Seq(Message) /\ turn[t].sent # <<>> /\ Len(turn[t].sent) \in Nat
         /\ Len(turn[t].sent) >= 1
         /\ turn[t].prior \subseteq 1 .. number /\ number \in 0 .. MaxNumber
         /\ Numbered(turn[t].sent, number) /\ Paired(turn[t].sent) /\ TurnOK(turn[t], number)
         /\ turn[t].of \in Conversations /\ turn[t] \in TurnRecord
         /\ MaxNumber \in Nat /\ KeepRecent \in Nat \ {0} /\ SoftMax \in Nat /\ HardMax \in Nat
         /\ KeepRecent < SoftMax /\ SoftMax <= HardMax
<1>1. turn[t] \in TurnRecord /\ turn[t].through < Len(turn[t].sent)
      /\ turn[t].prior \subseteq 1 .. number /\ number \in 0 .. MaxNumber
      /\ turn[t].of \in Conversations
      /\ Numbered(turn[t].sent, number) /\ Paired(turn[t].sent) /\ TurnOK(turn[t], number)
  BY DEF ShapeInv, TurnOK, ThreadOK
<1>2. turn[t].sent \in Seq(Message) /\ turn[t].through \in Nat
  BY <1>1 DEF TurnRecord
<1>3. Len(turn[t].sent) \in Nat /\ Len(turn[t].sent) >= 1
  BY <1>1, <1>2, LenProperties
<1>4. turn[t].sent # <<>>
  BY <1>3
<1>5. QED BY <1>1, <1>2, <1>3, <1>4, ConversationAssumption

\* A history that is sent as it is has orphans only where it was cut.
LEMMA PlainComposes ==
  ASSUME ShapeInv, NEW t \in Turns, ComposePlain(t)
  PROVE  \E context, through : ComposesTo(t, context, through)
<1> DEFINE sent == turn[t].sent
<1>1. /\ turn[t].at = "posted"
      /\ UNCHANGED <<page, saved, number, said>>
  BY DEF ComposePlain
<1>2. PICK over \in 0 .. Len(sent) - 1 :
        /\ IF over > 0 THEN Overflow(sent) = <<>> /\ Mishap(1)
           ELSE ~NeedsCompaction(sent, FALSE) /\ Mishap(0)
        /\ Composed(t, Clamped(Entries(sent), over), 0)
        /\ slips' = slips \cup Slip(turn[t].prior # {}, "unread") \cup Slip(over > 0, "trim")
  BY DEF ComposePlain
<1>3. /\ sent \in Seq(Message) /\ sent # <<>> /\ Len(sent) \in Nat /\ Len(sent) >= 1
      /\ SoftMax \in Nat /\ HardMax \in Nat /\ SoftMax <= HardMax /\ turn[t] \in TurnRecord
      /\ Paired(sent)
  BY <1>1, SentIs
<1>4. /\ turn \in [Turns -> TurnRecord] /\ summary \subseteq 1 .. number
  BY DEF ShapeInv
<1> DEFINE e == Entries(sent)
           context == Clamped(e, over)
<1>5. /\ e \in Seq(EntryRecord) /\ Len(e) = Len(sent)
      /\ \A i \in 1 .. Len(sent) : e[i].tells = {sent[i].n} /\ e[i].kind = sent[i].kind
  BY <1>3, EntriesAre
<1>6. over \in Int
  BY <1>3
<1>7. turn' = [turn EXCEPT ![t] =
                 [at |-> "composed", sent |-> sent, prior |-> {}, of |-> turn[t].of,
                  context |-> context, through |-> 0]]
  BY <1>2, <1>4, ComposedIs
<1>8. CutOnly(e, 0)
  BY <1>3, EntriesCutOnly
<1> HIDE DEF sent, e
<1>9. context \in Seq(EntryRecord) /\ EndOf(context, e)
  BY <1>5, <1>6, ClampedEnd
<1>10. over = 0 /\ FromUser(sent[1].kind) => context = e
  <2>1. SUFFICES ASSUME over = 0, FromUser(sent[1].kind) PROVE context = e
    OBVIOUS
  <2>2. ~(Len(sent) > SoftMax)
    BY <1>2, <2>1 DEF NeedsCompaction, sent
  <2>3. Len(e) <= HardMax /\ e # <<>> /\ FromUser(e[1].kind)
    BY <1>3, <1>5, <2>1, <2>2
  <2>4. QED BY <1>5, <2>1, <2>3, ClampedWhole
<1> HIDE DEF context
<1>11. CutOnly(context, 0)
  BY <1>5, <1>8, <1>9, EndCutOnly
<1>12. slips \subseteq slips' /\ slips' \subseteq slips \cup {"unread", "trim", "hiccup"}
  BY <1>2 DEF Slip
<1>13. ASSUME slips' = {}, turn[t].prior = {} => FromUser(sent[1].kind)
       PROVE  /\ \A i \in 1 .. Len(sent) : Tells(context, sent[i].n)
              /\ \A n \in turn[t].prior : Tells(context, n)
  <2>1. turn[t].prior = {} /\ ~(over > 0)
    BY <1>2, <1>13 DEF Slip
  <2>2. over = 0 /\ context = e
    BY <1>3, <1>10, <1>13, <2>1
  <2>3. \A i \in 1 .. Len(sent) : i \in 1 .. Len(context) /\ sent[i].n \in context[i].tells
    BY <1>5, <2>2
  <2>4. QED BY <2>1, <2>3 DEF Tells
<1>14. UNCHANGED <<thread, conv, busy, cards, saved, number, said, summary>>
  BY <1>1 DEF page
<1>15. ComposesTo(t, context, 0)
  <2>1. \A i \in 1 .. 0 : FALSE
    OBVIOUS
  <2>2. 0 \in Nat /\ 0 < Len(sent)
    BY <1>3
  <2> USE DEF sent
  <2>3. QED BY <1>1, <1>4, <1>7, <1>9, <1>11, <1>12, <1>13, <1>14, <2>1, <2>2 DEF ComposesTo
<1>16. QED BY <1>15

\* So has one that is sent behind a summary.
LEMMA CompactedComposes ==
  ASSUME ShapeInv, NEW t \in Turns, ComposeCompacted(t)
  PROVE  \E context, through : ComposesTo(t, context, through)
<1> DEFINE sent == turn[t].sent
           over_ == Overflow(sent)
           recent == Recent(sent)
<1>1. /\ turn[t].at = "posted" /\ over_ # <<>>
      /\ UNCHANGED <<thread, conv, busy, cards, saved, number, said>>
  BY DEF ComposeCompacted
<1>2. PICK hiccup \in BOOLEAN, long \in BOOLEAN, over \in 0 .. KeepRecent - 1 :
        /\ slips' = slips \cup Slip(hiccup, "hiccup") \cup Slip(over > 0, "trim")
        /\ \E sum \in Summaries(sent, turn[t].prior, hiccup) :
             IF sum = {}
             THEN /\ Composed(t, Clamped(Entries(sent), over), 0)
                  /\ UNCHANGED summary
             ELSE /\ Composed(t, Clamped(WithSummary(sum, recent), over), Len(over_))
                  /\ summary' = sum
  BY DEF ComposeCompacted
<1>3. PICK sum \in Summaries(sent, turn[t].prior, hiccup) :
             IF sum = {}
             THEN /\ Composed(t, Clamped(Entries(sent), over), 0)
                  /\ UNCHANGED summary
             ELSE /\ Composed(t, Clamped(WithSummary(sum, recent), over), Len(over_))
                  /\ summary' = sum
  BY <1>2
<1>4. /\ sent \in Seq(Message) /\ sent # <<>> /\ Len(sent) \in Nat /\ Len(sent) >= 1
      /\ SoftMax \in Nat /\ HardMax \in Nat /\ SoftMax <= HardMax /\ turn[t] \in TurnRecord
      /\ Paired(sent)
      /\ KeepRecent \in Nat \ {0} /\ KeepRecent < SoftMax
      /\ turn[t].prior \subseteq 1 .. number /\ number \in 0 .. MaxNumber /\ MaxNumber \in Nat
      /\ Numbered(sent, number)
  BY <1>1, SentIs
<1>5. /\ turn \in [Turns -> TurnRecord] /\ summary \subseteq 1 .. number
  BY DEF ShapeInv
<1>6. /\ recent \in Seq(Message) /\ recent # <<>> /\ EndOf(recent, sent) /\ Len(recent) <= KeepRecent
      /\ over_ \in Seq(Message) /\ Len(over_) < Len(sent) /\ Len(over_) + Len(recent) = Len(sent)
      /\ \A i \in 1 .. Len(over_) : over_[i] = sent[i]
  BY <1>4, SplitIs
<1>7. Len(over_) \in Nat /\ Len(over_) >= 1 /\ Len(recent) \in Nat
  BY <1>1, <1>6, LenProperties, EmptySeq
<1> HIDE DEF sent, over_, recent
<1>8. over \in Int /\ (over = 0 \/ over > 0)
  BY <1>4
<1>9. slips \subseteq slips' /\ slips' \subseteq slips \cup {"unread", "trim", "hiccup"}
  BY <1>2 DEF Slip
<1>10. CASE sum = {}
  <2> DEFINE e == Entries(sent)
             context == Clamped(e, over)
  <2>1. hiccup
    <3>1. SUFFICES ASSUME ~hiccup PROVE FALSE
      OBVIOUS
    <3>2. sum = turn[t].prior \cup Numbers(Range(over_))
      BY <1>3, <3>1 DEF Summaries, sent, over_
    <3>3. 1 \in DOMAIN over_
      BY <1>6, <1>7, LenProperties
    <3>4. over_[1].n \in Numbers(Range(over_))
      BY <3>3 DEF Numbers, Range
    <3>5. QED BY <1>10, <3>2, <3>4
  <2>2. "hiccup" \in slips'
    BY <1>2, <2>1 DEF Slip
  <2>3. Composed(t, context, 0) /\ summary' = summary
    BY <1>3, <1>10
  <2>4. turn' = [turn EXCEPT ![t] =
                   [at |-> "composed", sent |-> turn[t].sent, prior |-> {}, of |-> turn[t].of,
                    context |-> context, through |-> 0]]
    BY <1>5, <2>3, ComposedIs
  <2>5. e \in Seq(EntryRecord) /\ (CutOnly(e, 0))
    BY <1>4, EntriesAre, EntriesCutOnly
  <2> HIDE DEF e
  <2>6. context \in Seq(EntryRecord) /\ EndOf(context, e)
    BY <1>8, <2>5, ClampedEnd
  <2> HIDE DEF context
  <2>7. CutOnly(context, 0)
    BY <2>5, <2>6, EndCutOnly
  <2>8. 0 \in Nat /\ 0 < Len(sent)
    BY <1>4
  <2>9. ComposesTo(t, context, 0)
    BY <1>1, <1>5, <1>9, <2>2, <2>3, <2>4, <2>6, <2>7, <2>8 DEF ComposesTo, sent
  <2>10. QED BY <2>9
<1>11. CASE sum # {}
  <2> DEFINE ws == WithSummary(sum, recent)
             context == Clamped(ws, over)
  <2>1. Composed(t, context, Len(over_)) /\ summary' = sum
    BY <1>3, <1>11
  <2>2. turn' = [turn EXCEPT ![t] =
                   [at |-> "composed", sent |-> turn[t].sent, prior |-> {}, of |-> turn[t].of,
                    context |-> context, through |-> Len(over_)]]
    BY <1>5, <2>1, ComposedIs
  <2>3. \A i \in 1 .. Len(over_) : over_[i].n = sent[i].n /\ over_[i].n \in 1 .. number
    <3>1. \A i \in 1 .. Len(over_) : i \in 1 .. Len(sent)
      BY <1>4, <1>6, <1>7
    <3>2. QED BY <1>4, <1>6, <3>1 DEF Numbered
  <2>4. Numbers(Range(over_)) = {over_[i].n : i \in 1 .. Len(over_)}
    <3>1. DOMAIN over_ = 1 .. Len(over_)
      BY <1>6, LenProperties
    <3>2. QED BY <3>1 DEF Numbers, Range
  <2>5. sum \in {turn[t].prior \cup Numbers(Range(over_)), turn[t].prior, {}}
        /\ (~hiccup => sum = turn[t].prior \cup Numbers(Range(over_)))
    BY <1>3 DEF Summaries, sent, over_
  <2>6. sum \subseteq 1 .. number
    <3>1. Numbers(Range(over_)) \subseteq 1 .. number
      BY <2>3, <2>4
    <3>2. QED BY <1>4, <2>5, <3>1
  <2>7. sum \in SUBSET (1 .. MaxNumber)
    BY <1>4, <2>6
  <2>8. /\ ws \in Seq(EntryRecord) /\ ws # <<>> /\ Len(ws) <= Len(recent) + 1
        /\ ws[1].kind = "ask"
        /\ CutOnly(ws, Len(over_))
        /\ \A n \in sum : Tells(ws, n)
        /\ \A p \in 1 .. Len(recent) : Tells(ws, recent[p].n)
    <3>1. Paired(recent)
      BY <1>4, <1>6, EndPaired
    <3>2. Len(over_) \in Nat \ {0}
      BY <1>7
    <3>3. QED BY <1>6, <2>7, <3>1, <3>2, WithSummaryIs
  <2> HIDE DEF ws
  <2>9. context \in Seq(EntryRecord) /\ EndOf(context, ws)
    BY <1>8, <2>8, ClampedEnd
  <2>10. over = 0 => context = ws
    <3>1. Len(ws) \in Nat /\ Len(ws) <= HardMax
      BY <1>4, <1>6, <1>7, <2>8, LenProperties
    <3>2. FromUser(ws[1].kind)
      BY <2>8 DEF FromUser
    <3>3. QED BY <2>8, <3>1, <3>2, ClampedWhole
  <2> HIDE DEF context
  <2>11. CutOnly(context, Len(over_))
    BY <1>7, <2>8, <2>9, EndCutOnly
  <2>12. ASSUME "hiccup" \notin slips'
         PROVE  turn[t].prior \subseteq sum /\ \A i \in 1 .. Len(over_) : sent[i].n \in sum
    <3>1. ~hiccup
      BY <1>2, <2>12 DEF Slip
    <3>2. QED BY <2>3, <2>4, <2>5, <3>1
  <2>13. ASSUME slips' = {}
         PROVE  /\ \A i \in 1 .. Len(sent) : Tells(context, sent[i].n)
                /\ \A n \in turn[t].prior : Tells(context, n)
    <3>1. ~(over > 0) /\ "hiccup" \notin slips'
      BY <1>2, <2>13 DEF Slip
    <3>2. context = ws
      BY <1>8, <2>10, <3>1
    <3>3. \A n \in turn[t].prior : Tells(context, n)
      BY <2>8, <2>12, <3>1, <3>2
    <3>4. ASSUME NEW i \in 1 .. Len(sent) PROVE Tells(context, sent[i].n)
      <4>1. CASE i \in 1 .. Len(over_)
        BY <2>8, <2>12, <3>1, <3>2, <4>1
      <4>2. CASE i \notin 1 .. Len(over_)
        <5> DEFINE p == i - Len(over_)
        <5>1. p \in 1 .. Len(recent) /\ Len(sent) - Len(recent) + p = i
          <6>1. /\ Len(sent) \in Nat /\ Len(over_) \in Nat /\ Len(recent) \in Nat
                /\ Len(over_) + Len(recent) = Len(sent)
            BY <1>4, <1>6, <1>7
          <6>2. QED BY <4>2, <6>1
        <5>2. recent[p] = sent[i]
          BY <1>6, <5>1 DEF EndOf
        <5>3. Tells(ws, recent[p].n)
          BY <2>8, <5>1
        <5>4. QED BY <3>2, <5>2, <5>3
      <4>3. QED BY <4>1, <4>2
    <3>5. QED BY <3>3, <3>4
  <2>14. Len(over_) > 0 /\ Len(over_) # 0
    BY <1>7
  <2>15. ComposesTo(t, context, Len(over_))
    BY <1>1, <1>6, <1>7, <1>9, <1>11, <2>1, <2>2, <2>6, <2>9, <2>11, <2>12, <2>13, <2>14
       DEF ComposesTo, sent
  <2>16. QED BY <2>15
<1>12. QED BY <1>10, <1>11

LEMMA IdleOK == \A k \in Int : TurnOK(Idle, k)
<1>1. <<>> \in Seq(Message) /\ Len(<<>>) = 0
  OBVIOUS
<1>2. \A k \in Int : ThreadOK(<<>>, k)
  BY <1>1 DEF ThreadOK, Numbered, Paired
<1>3. CutOnly(<<>>, 0)
  BY <1>1 DEF CutOnly
<1>4. QED BY <1>2, <1>3, IdleIs, IdleTyped DEF TurnOK

\* A turn that is well formed takes the place of another.
LEMMA TurnTakes ==
  ASSUME ShapeInv, NEW t \in Turns, NEW r, NEW k \in Int, number <= k, TurnOK(r, k),
         turn' = [turn EXCEPT ![t] = r]
  PROVE  /\ turn' \in [Turns -> TurnRecord] /\ \A u \in Turns : TurnOK(turn'[u], k)
         /\ turn'[t] = r /\ \A u \in Turns \ {t} : turn'[u] = turn[u]
<1>1. /\ turn \in [Turns -> TurnRecord] /\ \A u \in Turns : TurnOK(turn[u], number)
      /\ number \in Int
  BY DEF ShapeInv
<1>2. r \in TurnRecord
  BY DEF TurnOK
<1>3. /\ turn' \in [Turns -> TurnRecord]
      /\ turn'[t] = r /\ \A u \in Turns \ {t} : turn'[u] = turn[u]
  BY <1>1, <1>2
<1>4. ASSUME NEW u \in Turns PROVE TurnOK(turn[u], k)
  <2>1. TurnOK(turn[u], number)
    BY <1>1
  <2>2. ThreadOK(turn[u].sent, k)
    BY <1>1, <2>1, ThreadGrows DEF TurnOK
  <2>3. turn[u].prior \subseteq 1 .. k
    BY <1>1, <2>1 DEF TurnOK
  <2>4. QED BY <2>1, <2>2, <2>3 DEF TurnOK
<1>5. QED BY <1>3, <1>4

LEMMA SavedGrows ==
  ASSUME ShapeInv, NEW k \in Int, number <= k
  PROVE  /\ \A c \in Conversations : SavedOK(saved[c], k)
         /\ ThreadOK(thread, k) /\ cards \subseteq 1 .. k /\ summary \subseteq 1 .. k
         /\ \A t \in Turns : TurnOK(turn[t], k)
<1>1. number \in Int /\ ThreadOK(thread, number) /\ cards \subseteq 1 .. number /\ summary \subseteq 1 .. number
  BY DEF ShapeInv
<1>2. ASSUME NEW c \in Conversations PROVE SavedOK(saved[c], k)
  <2>1. SavedOK(saved[c], number)
    BY DEF ShapeInv
  <2>2. ThreadOK(saved[c].thread, k)
    BY <1>1, <2>1, ThreadGrows DEF SavedOK
  <2>3. saved[c].summary \subseteq 1 .. k
    BY <1>1, <2>1 DEF SavedOK
  <2>4. QED BY <2>1, <2>2, <2>3 DEF SavedOK
<1>3. ASSUME NEW u \in Turns PROVE TurnOK(turn[u], k)
  <2>1. TurnOK(turn[u], number)
    BY DEF ShapeInv
  <2>2. ThreadOK(turn[u].sent, k)
    BY <1>1, <2>1, ThreadGrows DEF TurnOK
  <2>3. turn[u].prior \subseteq 1 .. k
    BY <1>1, <2>1 DEF TurnOK
  <2>4. QED BY <2>1, <2>2, <2>3 DEF TurnOK
<1>4. QED BY <1>1, <1>2, <1>3, ThreadGrows

\* A turn that waits: what the page has posted, or will post once the council answers.
LEMMA PostedOK ==
  ASSUME NEW at \in {"paying", "posted"}, NEW msgs, NEW k \in 0 .. MaxNumber, ThreadOK(msgs, k), msgs # <<>>,
         NEW prior \in SUBSET (1 .. k), NEW c \in Conversations
  PROVE  TurnOK([at |-> at, sent |-> msgs, prior |-> prior, of |-> c, context |-> <<>>, through |-> 0], k)
<1> DEFINE r == [at |-> at, sent |-> msgs, prior |-> prior, of |-> c, context |-> <<>>, through |-> 0]
<1>1. <<>> \in Seq(EntryRecord) /\ Len(<<>>) = 0 /\ 0 \in Nat /\ MaxNumber \in Nat
  BY ConversationAssumption
<1>2. msgs \in Seq(Message) /\ 0 < Len(msgs)
  BY LenProperties, EmptySeq DEF ThreadOK
<1>3. prior \in SUBSET (1 .. MaxNumber)
  BY <1>1
<1>4. r \in TurnRecord
  BY <1>1, <1>2, <1>3 DEF TurnRecord
<1>5. CutOnly(<<>>, 0)
  BY <1>1 DEF CutOnly
<1>6. /\ r.at = at /\ r.sent = msgs /\ r.prior = prior /\ r.of = c
      /\ r.context = <<>> /\ r.through = 0
  OBVIOUS
<1>7. r.at # "idle" /\ r.at # "composed"
  BY <1>6
<1> HIDE DEF r
<1>8. TurnOK(r, k)
  BY <1>2, <1>4, <1>5, <1>6, <1>7 DEF TurnOK
<1>9. QED BY <1>8 DEF r

LEMMA ComposedOK ==
  ASSUME ShapeInv, NEW t \in Turns, NEW context, NEW through, ComposesTo(t, context, through)
  PROVE  TurnOK([at |-> "composed", sent |-> turn[t].sent, prior |-> {}, of |-> turn[t].of,
                 context |-> context, through |-> through], number)
<1> DEFINE r == [at |-> "composed", sent |-> turn[t].sent, prior |-> {}, of |-> turn[t].of,
                 context |-> context, through |-> through]
<1>1. /\ turn[t].at = "posted" /\ context \in Seq(EntryRecord)
      /\ through \in Nat /\ through < Len(turn[t].sent) /\ CutOnly(context, through)
  BY DEF ComposesTo
<1>2. TurnOK(turn[t], number)
  BY DEF ShapeInv
<1>3. ThreadOK(turn[t].sent, number) /\ turn[t].of \in Conversations
      /\ turn[t].sent \in Seq(Message) /\ turn[t].of \in Conversations \cup {"none"}
  BY <1>1, <1>2 DEF TurnOK, TurnRecord
<1>4. r \in TurnRecord
  BY <1>1, <1>3 DEF TurnRecord
<1>5. /\ r.at = "composed" /\ r.sent = turn[t].sent /\ r.prior = {} /\ r.of = turn[t].of
      /\ r.context = context /\ r.through = through
  OBVIOUS
<1> HIDE DEF r
<1>6. TurnOK(r, number)
  BY <1>1, <1>3, <1>4, <1>5 DEF TurnOK
<1>7. QED BY <1>6 DEF r

-----------------------------------------------------------------------------
(* Every step leaves the threads well formed *)

LEMMA AskIs ==
  ASSUME ShapeInv, number < MaxNumber
  PROVE  /\ [n |-> number + 1, kind |-> "ask", of |-> conv] \in Message
         /\ number + 1 \in 0 .. MaxNumber /\ number + 1 \in 1 .. number + 1 /\ number <= number + 1
         /\ number \in Nat /\ MaxNumber \in Nat
         /\ \A c \in Conversations : [n |-> number + 1, kind |-> "say", of |-> c] \in Message
<1>1. number \in 0 .. MaxNumber /\ MaxNumber \in Nat /\ conv \in Conversations
  BY ConversationAssumption DEF ShapeInv
<1>2. number + 1 \in 1 .. MaxNumber
  BY <1>1
<1>3. QED BY <1>1, <1>2 DEF Message

\* Sending adds a question to the thread and posts it, or waits for a payment.
LEMMA ShapeSend ==
  ASSUME ShapeInv, NEW t \in Turns, Send(t)
  PROVE  ShapeInv'
<1> DEFINE ask == [n |-> number + 1, kind |-> "ask", of |-> conv]
           k == number + 1
           r == [at |-> "posted", sent |-> thread', prior |-> summary, of |-> conv, context |-> <<>>, through |-> 0]
<1>1. /\ number < MaxNumber /\ thread' = Append(thread, ask) /\ said' = said \cup {ask}
      /\ turn' = [turn EXCEPT ![t] = Posted(thread', summary, conv)]
      /\ number' = k /\ busy' = TRUE /\ slips' = slips \cup Slip(InFlight # {}, "overlap")
      /\ UNCHANGED <<saved, mishaps, summary, conv, cards>>
  BY DEF Send, Settled
<1>2. /\ ask \in Message /\ k \in 0 .. MaxNumber /\ ask.n \in 1 .. k /\ number <= k /\ ask.kind # "result"
  BY <1>1, AskIs
<1>3. k \in Int
  BY <1>2
<1> HIDE DEF ask, k
<1>4. /\ ThreadOK(thread, k) /\ cards \subseteq 1 .. k /\ summary \subseteq 1 .. k
      /\ \A c \in Conversations : SavedOK(saved[c], k)
  BY <1>2, <1>3, SavedGrows
<1>5. ThreadOK(thread', k) /\ thread' # <<>>
  <2>1. thread \in Seq(Message)
    BY <1>4 DEF ThreadOK
  <2>2. QED BY <1>1, <1>2, <1>3, <1>4, <2>1, ThreadAppend, AppendPaired
<1>6. conv \in Conversations /\ said \subseteq Message
      /\ saved \in [Conversations -> SavedRecord]
      /\ slips \subseteq {"unread", "hiccup", "trim", "overlap", "switch", "unsaved"}
  BY DEF ShapeInv
<1>7. turn' = [turn EXCEPT ![t] = r]
  <2>1. Posted(thread', summary, conv) = r
    BY PostedIs
  <2> HIDE DEF r
  <2>2. QED BY <1>1, <2>1
<1>8. TurnOK(r, k)
  BY <1>2, <1>4, <1>5, <1>6, PostedOK
<1> HIDE DEF r
<1>9. turn' \in [Turns -> TurnRecord] /\ \A u \in Turns : TurnOK(turn'[u], k)
  BY <1>2, <1>3, <1>7, <1>8, TurnTakes
<1>10. slips' \subseteq {"unread", "hiccup", "trim", "overlap", "switch", "unsaved"}
  BY <1>1, <1>6 DEF Slip
<1>11. QED BY <1>1, <1>2, <1>4, <1>5, <1>6, <1>9, <1>10 DEF ShapeInv

LEMMA ShapeApprove ==
  ASSUME ShapeInv, NEW t \in Turns, NEW n \in cards, Approve(t, n)
  PROVE  ShapeInv'
<1> DEFINE msgs == thread \o Round(n, conv)
           r == [at |-> "paying", sent |-> msgs, prior |-> summary, of |-> conv, context |-> <<>>, through |-> 0]
<1>1. /\ cards' = cards \ {n}
      /\ turn' = [turn EXCEPT ![t] = [Posted(msgs, summary, conv) EXCEPT !.at = "paying"]]
      /\ slips' = slips \cup Slip(busy \/ InFlight # {}, "overlap")
      /\ UNCHANGED <<saved, mishaps, thread, summary, conv, busy, number, said>>
  BY DEF Approve, Settled
<1>2. /\ number \in 0 .. MaxNumber /\ MaxNumber \in Nat /\ cards \subseteq 1 .. number
      /\ summary \subseteq 1 .. number /\ conv \in Conversations /\ ThreadOK(thread, number)
      /\ slips \subseteq {"unread", "hiccup", "trim", "overlap", "switch", "unsaved"}
  BY ConversationAssumption DEF ShapeInv
<1>3. n \in 1 .. number /\ n \in 1 .. MaxNumber /\ number \in Int /\ number <= number
      /\ thread \in Seq(Message)
  BY <1>2 DEF ThreadOK
<1>4. ThreadOK(msgs, number) /\ msgs # <<>>
  BY <1>2, <1>3, ThreadRound, RoundPaired
<1> HIDE DEF msgs
<1>5. turn' = [turn EXCEPT ![t] = r]
  <2>1. [Posted(msgs, summary, conv) EXCEPT !.at = "paying"] = r
    BY PostedIs
  <2> HIDE DEF r
  <2>2. QED BY <1>1, <2>1
<1>6. TurnOK(r, number)
  BY <1>2, <1>4, PostedOK
<1> HIDE DEF r
<1>7. turn' \in [Turns -> TurnRecord] /\ \A u \in Turns : TurnOK(turn'[u], number)
  BY <1>3, <1>5, <1>6, TurnTakes
<1>8. slips' \subseteq {"unread", "hiccup", "trim", "overlap", "switch", "unsaved"}
  BY <1>1, <1>2 DEF Slip
<1>9. cards' \subseteq 1 .. number
  BY <1>1, <1>2
<1>10. QED BY <1>1, <1>7, <1>8, <1>9 DEF ShapeInv

\* The actions that let a turn go.
LEMMA TurnEnds ==
  ASSUME ShapeInv, NEW t \in Turns, turn' = [turn EXCEPT ![t] = Idle], NEW k \in Int, number <= k
  PROVE  /\ turn' \in [Turns -> TurnRecord] /\ \A u \in Turns : TurnOK(turn'[u], k)
         /\ turn'[t] = Idle /\ \A u \in Turns \ {t} : turn'[u] = turn[u]
BY IdleOK, TurnTakes

LEMMA LastTwo ==
  ASSUME NEW s \in Seq(Message)
  PROVE  /\ \A m \in Range(Latest(2, s)) : \E i \in 1 .. Len(s) : m = s[i]
         /\ Range(s) \subseteq Message /\ \A m \in Range(s) : \E i \in 1 .. Len(s) : m = s[i]
         /\ Range(Latest(2, s)) \subseteq Message
<1>1. Len(s) \in Nat /\ DOMAIN s = 1 .. Len(s) /\ \A i \in 1 .. Len(s) : s[i] \in Message
  BY LenProperties, ElementOfSeq
<1> DEFINE m == IF Len(s) > 2 THEN Len(s) - 2 + 1 ELSE 1
           r == SubSeq(s, m, Len(s))
<1>2. m \in Int /\ m >= 1
  BY <1>1
<1>3. Latest(2, s) = r
  BY DEF Latest
<1> HIDE DEF m
<1>4. r \in Seq(Message) /\ EndOf(r, s)
  BY <1>2, SuffixIsEnd
<1> HIDE DEF r
<1>5. /\ Len(r) \in Nat /\ DOMAIN r = 1 .. Len(r) /\ Len(r) <= Len(s)
      /\ \A i \in 1 .. Len(r) : r[i] = s[Len(s) - Len(r) + i]
  BY <1>4, LenProperties DEF EndOf
<1>6. \A i \in 1 .. Len(r) : Len(s) - Len(r) + i \in 1 .. Len(s)
  BY <1>1, <1>5
<1>7. \A x \in Range(r) : \E i \in 1 .. Len(s) : x = s[i]
  <2>1. SUFFICES ASSUME NEW i \in 1 .. Len(r) PROVE \E j \in 1 .. Len(s) : r[i] = s[j]
    BY <1>5 DEF Range
  <2>2. QED BY <1>5, <1>6
<1>8. \A x \in Range(s) : \E i \in 1 .. Len(s) : x = s[i]
  BY <1>1 DEF Range
<1>9. QED BY <1>1, <1>3, <1>7, <1>8

LEMMA ShapePaid ==
  ASSUME ShapeInv, NEW t \in Turns, Paid(t)
  PROVE  ShapeInv'
<1> DEFINE r == [at |-> "posted", sent |-> turn[t].sent, prior |-> turn[t].prior,
                 of |-> turn[t].of, context |-> <<>>, through |-> 0]
<1>1. /\ turn[t].at = "paying" /\ thread' = turn[t].sent /\ busy' = TRUE
      /\ said' = said \cup Range(Latest(2, turn[t].sent))
      /\ turn' = [turn EXCEPT ![t].at = "posted"]
      /\ UNCHANGED <<saved, mishaps, summary, conv, cards, number, slips>>
  BY DEF Paid, Settled
<1>2. /\ number \in 0 .. MaxNumber /\ MaxNumber \in Nat /\ said \subseteq Message
      /\ turn \in [Turns -> TurnRecord] /\ TurnOK(turn[t], number)
  BY ConversationAssumption DEF ShapeInv
<1> DEFINE s == turn[t].sent
<1>3. ThreadOK(s, number) /\ s \in Seq(Message)
  BY <1>2 DEF TurnOK, ThreadOK
<1>4. said' \subseteq Message
  BY <1>1, <1>2, <1>3, LastTwo
<1> DEFINE new == [turn[t] EXCEPT !.at = "posted"]
<1>5. TurnOK(new, number)
  <2> DEFINE old == turn[t]
  <2>1. old \in TurnRecord /\ old.at = "paying" /\ TurnOK(old, number)
    BY <1>1, <1>2 DEF TurnOK
  <2> HIDE DEF old
  <2>2. /\ [old EXCEPT !.at = "posted"] \in TurnRecord
        /\ [old EXCEPT !.at = "posted"].at = "posted" /\ [old EXCEPT !.at = "posted"].sent = old.sent
        /\ [old EXCEPT !.at = "posted"].prior = old.prior /\ [old EXCEPT !.at = "posted"].of = old.of
        /\ [old EXCEPT !.at = "posted"].context = old.context
        /\ [old EXCEPT !.at = "posted"].through = old.through
    BY <2>1 DEF TurnRecord
  <2>3. TurnOK([old EXCEPT !.at = "posted"], number)
    BY <2>1, <2>2 DEF TurnOK
  <2>4. QED BY <2>3 DEF old
<1>6. turn' = [turn EXCEPT ![t] = new]
  BY <1>1
<1>7. number \in Int /\ number <= number
  BY <1>2
<1> HIDE DEF new
<1>8. turn' \in [Turns -> TurnRecord] /\ \A u \in Turns : TurnOK(turn'[u], number)
  BY <1>5, <1>6, <1>7, TurnTakes
<1>9. ThreadOK(thread', number)
  BY <1>1, <1>3
<1>10. QED BY <1>1, <1>4, <1>8, <1>9 DEF ShapeInv

LEMMA ShapeDecline ==
  ASSUME ShapeInv, NEW n \in cards, Decline(n)
  PROVE  ShapeInv'
<1>1. /\ cards' = cards \ {n} /\ thread' = thread \o Round(n, conv)
      /\ said' = said \cup Range(Round(n, conv))
      /\ slips' = slips \cup Slip(InFlight # {}, "overlap")
      /\ UNCHANGED <<saved, mishaps, summary, conv, busy, turn, number>>
  BY DEF Decline, Settled
<1>2. /\ number \in 0 .. MaxNumber /\ MaxNumber \in Nat /\ cards \subseteq 1 .. number
      /\ conv \in Conversations /\ ThreadOK(thread, number) /\ said \subseteq Message
      /\ slips \subseteq {"unread", "hiccup", "trim", "overlap", "switch", "unsaved"}
  BY ConversationAssumption DEF ShapeInv
<1>3. n \in 1 .. number /\ n \in 1 .. MaxNumber /\ number \in Int
  BY <1>2
<1>4. ThreadOK(thread', number)
  BY <1>1, <1>2, <1>3, ThreadRound
<1>5. Range(Round(n, conv)) = {[n |-> n, kind |-> "call", of |-> conv], [n |-> n, kind |-> "result", of |-> conv]}
  BY DEF Round, Range
<1>6. said' \subseteq Message
  <2>1. [n |-> n, kind |-> "call", of |-> conv] \in Message /\ [n |-> n, kind |-> "result", of |-> conv] \in Message
    BY <1>2, <1>3 DEF Message
  <2>2. QED BY <1>1, <1>2, <1>5, <2>1
<1>7. cards' \subseteq 1 .. number
  BY <1>1, <1>2
<1>8. slips' \subseteq {"unread", "hiccup", "trim", "overlap", "switch", "unsaved"}
  BY <1>1, <1>2 DEF Slip
<1>9. QED BY <1>1, <1>4, <1>6, <1>7, <1>8 DEF ShapeInv

\* What the page keeps of a turn that has settled.
LEMMA DroppedIs ==
  ASSUME NEW full \in Seq(Message), NEW n \in Nat, n < Len(full)
  PROVE  /\ Dropped(full, n) \in Seq(Message) /\ EndOf(Dropped(full, n), full)
         /\ Len(Dropped(full, n)) = Len(full) - n /\ Dropped(full, n) # <<>>
         /\ \A i \in 1 .. Len(full) - n : Dropped(full, n)[i] = full[n + i]
<1> DEFINE m == n + 1
           r == SubSeq(full, m, Len(full))
<1>1. m \in Int /\ m >= 1 /\ m <= Len(full) + 1 /\ Len(full) \in Nat /\ Len(full) - m + 1 = Len(full) - n
  BY LenProperties
<1>2. Dropped(full, n) = r
  BY DEF Dropped
<1>3. \A i \in 1 .. Len(full) - n : m + i - 1 = n + i
  BY <1>1
<1> HIDE DEF m
<1>4. /\ r \in Seq(Message) /\ EndOf(r, full) /\ Len(r) = Len(full) - m + 1
      /\ \A i \in 1 .. Len(r) : r[i] = full[m + i - 1]
  BY <1>1, SuffixIsEnd
<1> HIDE DEF r
<1>5. Len(r) = Len(full) - n /\ \A i \in 1 .. Len(full) - n : r[i] = full[n + i]
  BY <1>1, <1>3, <1>4
<1>6. r # <<>>
  BY <1>1, <1>5
<1>7. QED BY <1>2, <1>4, <1>5, <1>6

LEMMA ShapeSettles ==
  ASSUME ShapeInv, NEW t \in Turns, NEW full, turn[t].at = "composed", Settles(t, full),
         number' \in 0 .. MaxNumber, number <= number', ThreadOK(full, number'),
         turn[t].through < Len(full)
  PROVE  ShapeInv'
<1> DEFINE through == turn[t].through
           k == number'
<1>1. /\ thread' = Dropped(full, through) /\ said' = said \cup Range(full)
      /\ busy' = FALSE /\ turn' = [turn EXCEPT ![t] = Idle]
      /\ UNCHANGED <<saved, mishaps, summary, conv, cards, slips>>
  BY DEF Settles, Settled
<1>2. /\ turn[t] \in TurnRecord /\ said \subseteq Message /\ conv \in Conversations
      /\ saved \in [Conversations -> SavedRecord]
      /\ slips \subseteq {"unread", "hiccup", "trim", "overlap", "switch", "unsaved"}
  BY DEF ShapeInv
<1>3. through \in Nat /\ full \in Seq(Message) /\ MaxNumber \in Nat
  BY <1>2, ConversationAssumption DEF TurnRecord, ThreadOK
<1>4. k \in Int /\ k <= k
  BY <1>3
<1>5. Dropped(full, through) \in Seq(Message) /\ EndOf(Dropped(full, through), full)
  BY <1>3, DroppedIs
<1>6. ThreadOK(thread', k)
  BY <1>1, <1>4, <1>5, ThreadEnd
<1>7. said' \subseteq Message
  BY <1>1, <1>2, <1>3, LastTwo
<1>8. turn' \in [Turns -> TurnRecord] /\ \A u \in Turns : TurnOK(turn'[u], k)
  BY <1>1, <1>4, TurnEnds
<1>9. /\ \A c \in Conversations : SavedOK(saved[c], k)
      /\ cards \subseteq 1 .. k /\ summary \subseteq 1 .. k
  BY <1>4, SavedGrows
<1>10. QED BY <1>1, <1>2, <1>6, <1>7, <1>8, <1>9 DEF ShapeInv

\* An answer that is added to what was sent.
LEMMA SayIs ==
  ASSUME ShapeInv, NEW t \in Turns, turn[t].at = "composed", number < MaxNumber
  PROVE  /\ ThreadOK(Append(turn[t].sent, [n |-> number + 1, kind |-> "say", of |-> turn[t].of]), number + 1)
         /\ \A c : AllOf(turn[t].sent, c) /\ turn[t].of = c =>
              AllOf(Append(turn[t].sent, [n |-> number + 1, kind |-> "say", of |-> turn[t].of]), c)
         /\ turn[t].through < Len(Append(turn[t].sent, [n |-> number + 1, kind |-> "say", of |-> turn[t].of]))
         /\ number + 1 \in 0 .. MaxNumber /\ number <= number + 1
<1> DEFINE say == [n |-> number + 1, kind |-> "say", of |-> turn[t].of]
           k == number + 1
<1>1. /\ turn[t].sent \in Seq(Message) /\ turn[t].of \in Conversations /\ TurnOK(turn[t], number)
      /\ Len(turn[t].sent) \in Nat
  BY SentIs
<1>2. turn[t].through < Len(turn[t].sent) /\ turn[t].through \in Nat
  BY <1>1 DEF TurnOK, TurnRecord
<1>3. /\ say \in Message /\ say.kind # "result" /\ say.n \in 1 .. k /\ number <= k
      /\ k \in 0 .. MaxNumber /\ k \in Int /\ number \in Int /\ say.of = turn[t].of
  BY <1>1, AskIs
<1> HIDE DEF say, k
<1>4. ThreadOK(turn[t].sent, k)
  BY <1>1, <1>3, ThreadGrows DEF TurnOK
<1>5. /\ ThreadOK(Append(turn[t].sent, say), k)
      /\ \A c : AllOf(turn[t].sent, c) /\ say.of = c => AllOf(Append(turn[t].sent, say), c)
  BY <1>3, <1>4, ThreadAppend
<1>6. Len(Append(turn[t].sent, say)) = Len(turn[t].sent) + 1
  BY <1>1, <1>3, AppendProperties
<1>7. turn[t].through < Len(Append(turn[t].sent, say))
  BY <1>1, <1>2, <1>6
<1>8. QED BY <1>3, <1>5, <1>7 DEF say, k

LEMMA ShapeAnswered ==
  ASSUME ShapeInv, NEW t \in Turns, Answered(t)
  PROVE  ShapeInv'
<1> DEFINE full == Append(turn[t].sent, [n |-> number + 1, kind |-> "say", of |-> turn[t].of])
<1>1. turn[t].at = "composed" /\ number < MaxNumber /\ number' = number + 1 /\ Settles(t, full)
  BY DEF Answered
<1>2. /\ ThreadOK(full, number + 1) /\ turn[t].through < Len(full)
      /\ number + 1 \in 0 .. MaxNumber /\ number <= number + 1
  BY <1>1, SayIs
<1> HIDE DEF full
<1>3. QED BY <1>1, <1>2, ShapeSettles

LEMMA ShapeSilent ==
  ASSUME ShapeInv, NEW t \in Turns, Silent(t)
  PROVE  ShapeInv'
<1>1. turn[t].at = "composed" /\ number' = number /\ Settles(t, turn[t].sent)
  BY DEF Silent
<1>2. TurnOK(turn[t], number) /\ number \in 0 .. MaxNumber /\ MaxNumber \in Nat
  BY ConversationAssumption DEF ShapeInv
<1>3. ThreadOK(turn[t].sent, number) /\ turn[t].through < Len(turn[t].sent) /\ number <= number
  BY <1>1, <1>2 DEF TurnOK
<1>4. QED BY <1>1, <1>2, <1>3, ShapeSettles

LEMMA ShapeConfirms ==
  ASSUME ShapeInv, NEW t \in Turns, Confirms(t)
  PROVE  ShapeInv'
<1> DEFINE k == number + 1
<1>1. /\ number < MaxNumber /\ number' = k /\ cards' = cards \cup {k}
      /\ busy' = FALSE /\ turn' = [turn EXCEPT ![t] = Idle]
      /\ UNCHANGED <<saved, mishaps, thread, summary, conv, said, slips>>
  BY DEF Confirms, Settled
<1>2. k \in 0 .. MaxNumber /\ k \in 1 .. k /\ number <= k /\ k \in Int
  BY <1>1, AskIs
<1> HIDE DEF k
<1>3. turn' \in [Turns -> TurnRecord] /\ \A u \in Turns : TurnOK(turn'[u], k)
  BY <1>1, <1>2, TurnEnds
<1>4. /\ \A c \in Conversations : SavedOK(saved[c], k)
      /\ ThreadOK(thread, k) /\ cards \subseteq 1 .. k /\ summary \subseteq 1 .. k
  BY <1>2, SavedGrows
<1>5. QED BY <1>1, <1>2, <1>3, <1>4 DEF ShapeInv

\* A turn that ends without a word: the payment fails, or the stream breaks off.
LEMMA ShapeEnds ==
  ASSUME ShapeInv, NEW t \in Turns, PaymentFails(t) \/ BreaksOff(t)
  PROVE  ShapeInv'
<1>1. /\ turn' = [turn EXCEPT ![t] = Idle] /\ busy' \in {busy, FALSE}
      /\ UNCHANGED <<thread, summary, conv, cards, saved, number, said, slips>>
  BY DEF PaymentFails, BreaksOff, page
<1>2. number \in Int /\ number <= number
  BY DEF ShapeInv
<1>3. turn' \in [Turns -> TurnRecord] /\ \A u \in Turns : TurnOK(turn'[u], number)
  BY <1>1, <1>2, TurnEnds
<1>4. QED BY <1>1, <1>3 DEF ShapeInv

LEMMA BlankOK ==
  ASSUME NEW k \in Int
  PROVE  /\ SavedOK(Blank, k) /\ Blank.thread = <<>> /\ Blank.summary = {}
         /\ Blank \in SavedRecord /\ ThreadOK(<<>>, k)
<1>1. Blank.thread = <<>> /\ Blank.summary = {} /\ <<>> \in Seq(Message) /\ Len(<<>>) = 0
  BY DEF Blank
<1>2. ThreadOK(<<>>, k)
  BY <1>1 DEF ThreadOK, Numbered, Paired
<1>3. Blank \in SavedRecord
  BY <1>1 DEF Blank, SavedRecord
<1>4. QED BY <1>1, <1>2, <1>3 DEF SavedOK

LEMMA ShapeVisit ==
  ASSUME ShapeInv, NEW c \in Conversations, NewConversation(c) \/ OpenConversation(c)
  PROVE  ShapeInv'
<1>1. PICK found \in {Blank, saved[c]} : Visit(c, found)
  BY DEF NewConversation, OpenConversation
<1>2. /\ thread' = found.thread /\ summary' = found.summary /\ conv' = c /\ cards' = {}
      /\ slips' = slips \cup Slip(InFlight # {}, "switch") \cup Slip(Unsaved, "unsaved")
      /\ UNCHANGED <<busy, turn, saved, number, said>>
  BY <1>1 DEF Visit
<1>3. number \in Int /\ SavedOK(saved[c], number)
      /\ slips \subseteq {"unread", "hiccup", "trim", "overlap", "switch", "unsaved"}
  BY DEF ShapeInv
<1>4. SavedOK(found, number)
  BY <1>3, BlankOK
<1>5. ThreadOK(thread', number) /\ summary' \subseteq 1 .. number
  BY <1>2, <1>4 DEF SavedOK
<1>6. slips' \subseteq {"unread", "hiccup", "trim", "overlap", "switch", "unsaved"}
  BY <1>2, <1>3 DEF Slip
<1>7. QED BY <1>2, <1>5, <1>6 DEF ShapeInv

LEMMA ShapeAutosave ==
  ASSUME ShapeInv, Autosave
  PROVE  ShapeInv'
<1> DEFINE r == [thread |-> thread, summary |-> summary]
<1>1. /\ saved' = [saved EXCEPT ![conv] = r]
      /\ UNCHANGED <<thread, summary, conv, busy, cards, turn, number, said, slips, mishaps>>
  BY DEF Autosave, page
<1>2. /\ number \in 0 .. MaxNumber /\ MaxNumber \in Nat /\ ThreadOK(thread, number)
      /\ summary \subseteq 1 .. number /\ saved \in [Conversations -> SavedRecord]
      /\ conv \in Conversations /\ \A c \in Conversations : SavedOK(saved[c], number)
  BY ConversationAssumption DEF ShapeInv
<1>3. summary \in SUBSET (1 .. MaxNumber) /\ thread \in Seq(Message)
  BY <1>2 DEF ThreadOK
<1>4. r \in SavedRecord /\ r.thread = thread /\ r.summary = summary
  BY <1>3 DEF SavedRecord
<1> HIDE DEF r
<1>5. SavedOK(r, number)
  BY <1>2, <1>4 DEF SavedOK
<1>6. saved' \in [Conversations -> SavedRecord] /\ \A c \in Conversations : SavedOK(saved'[c], number)
  BY <1>1, <1>2, <1>4, <1>5
<1>7. QED BY <1>1, <1>6 DEF ShapeInv

LEMMA ShapeCompose ==
  ASSUME ShapeInv, NEW t \in Turns, NEW context, NEW through, ComposesTo(t, context, through)
  PROVE  ShapeInv'
<1> DEFINE r == [at |-> "composed", sent |-> turn[t].sent, prior |-> {}, of |-> turn[t].of,
                 context |-> context, through |-> through]
<1>1. /\ turn' = [turn EXCEPT ![t] = r]
      /\ UNCHANGED <<thread, conv, busy, cards, saved, number, said>>
      /\ slips' \subseteq slips \cup {"unread", "trim", "hiccup"} /\ summary' \subseteq 1 .. number
  BY DEF ComposesTo
<1>2. TurnOK(r, number)
  BY ComposedOK
<1>3. number \in Int /\ number <= number
  BY DEF ShapeInv
<1> HIDE DEF r
<1>4. turn' \in [Turns -> TurnRecord] /\ \A u \in Turns : TurnOK(turn'[u], number)
  BY <1>1, <1>2, <1>3, TurnTakes
<1>5. slips' \subseteq {"unread", "hiccup", "trim", "overlap", "switch", "unsaved"}
  BY <1>1 DEF ShapeInv
<1>6. QED BY <1>1, <1>4, <1>5 DEF ShapeInv

\* A step composes a turn, or is one of the others.
LEMMA ShapeStep ==
  ASSUME ShapeInv, [ConversationNext]_conversationVars
  PROVE  ShapeInv'
<1>1. CASE UNCHANGED conversationVars
  BY <1>1 DEF ShapeInv, conversationVars, page
<1>2. ASSUME NEW t \in Turns, Send(t) PROVE ShapeInv'
  BY <1>2, ShapeSend
<1>3. ASSUME NEW t \in Turns, Paid(t) PROVE ShapeInv'
  BY <1>3, ShapePaid
<1>4. ASSUME NEW t \in Turns, PaymentFails(t) \/ BreaksOff(t) PROVE ShapeInv'
  BY <1>4, ShapeEnds
<1>5. ASSUME NEW t \in Turns, ComposePlain(t) \/ ComposeCompacted(t) PROVE ShapeInv'
  BY <1>5, PlainComposes, CompactedComposes, ShapeCompose
<1>6. ASSUME NEW t \in Turns, Answered(t) PROVE ShapeInv'
  BY <1>6, ShapeAnswered
<1>7. ASSUME NEW t \in Turns, Silent(t) PROVE ShapeInv'
  BY <1>7, ShapeSilent
<1>8. ASSUME NEW t \in Turns, Confirms(t) PROVE ShapeInv'
  BY <1>8, ShapeConfirms
<1>9. ASSUME NEW t \in Turns, NEW n \in cards, Approve(t, n) PROVE ShapeInv'
  BY <1>9, ShapeApprove
<1>10. ASSUME NEW n \in cards, Decline(n) PROVE ShapeInv'
  BY <1>10, ShapeDecline
<1>11. ASSUME NEW c \in Conversations, NewConversation(c) \/ OpenConversation(c) PROVE ShapeInv'
  BY <1>11, ShapeVisit
<1>12. CASE Autosave
  BY <1>12, ShapeAutosave
<1>13. QED BY <1>1, <1>2, <1>3, <1>4, <1>5, <1>6, <1>7, <1>8, <1>9, <1>10, <1>11, <1>12
              DEF ConversationNext

LEMMA ShapeStarts ==
  ASSUME ConversationInit
  PROVE  ShapeInv
<1>1. /\ thread = <<>> /\ summary = {} /\ busy = FALSE /\ cards = {}
      /\ conv = CHOOSE c \in Conversations : TRUE
      /\ turn = [t \in Turns |-> Idle] /\ saved = [c \in Conversations |-> Blank]
      /\ number = 0 /\ said = {} /\ slips = {}
  BY DEF ConversationInit
<1>2. conv \in Conversations
  BY <1>1, ConversationAssumption
<1>3. 0 \in 0 .. MaxNumber /\ 0 \in Int
  BY ConversationAssumption
<1>4. \A c \in Conversations : saved[c] = Blank
  BY <1>1
<1>5. saved \in [Conversations -> SavedRecord] /\ \A c \in Conversations : SavedOK(saved[c], 0)
  BY <1>1, <1>3, <1>4, BlankOK
<1>6. turn \in [Turns -> TurnRecord] /\ \A t \in Turns : TurnOK(turn[t], 0)
  BY <1>1, <1>3, IdleOK, IdleTyped
<1>7. ThreadOK(thread, 0)
  BY <1>1, <1>3, BlankOK
<1>8. QED BY <1>1, <1>2, <1>3, <1>5, <1>6, <1>7 DEF ShapeInv

-----------------------------------------------------------------------------
(* What a thread and its summary cover *)

Holds(s, n) == \E i \in 1 .. Len(s) : s[i].n = n

CoversAll(s, sum, msgs, c) == \A m \in msgs : m.of = c => m.n \in sum \/ Holds(s, m.n)

Starts(s, sum) == sum = {} /\ s # <<>> => s[1].kind = "ask"

Prolongs(t, s) == Len(s) <= Len(t) /\ \A i \in 1 .. Len(s) : t[i] = s[i]

LEMMA ProlongsHolds ==
  ASSUME NEW s \in Seq(Message), NEW t \in Seq(Message), Prolongs(t, s)
  PROVE  /\ \A n : Holds(s, n) => Holds(t, n)
         /\ \A sum : s # <<>> /\ Starts(s, sum) => Starts(t, sum)
<1>1. Len(s) \in Nat /\ Len(t) \in Nat /\ Len(s) <= Len(t) /\ \A i \in 1 .. Len(s) : t[i] = s[i]
  BY LenProperties DEF Prolongs
<1>2. \A i \in 1 .. Len(s) : i \in 1 .. Len(t)
  BY <1>1
<1>3. \A n : Holds(s, n) => Holds(t, n)
  BY <1>1, <1>2 DEF Holds
<1>4. s # <<>> => 1 \in 1 .. Len(s)
  BY <1>1, EmptySeq
<1>5. QED BY <1>1, <1>3, <1>4 DEF Starts

LEMMA AppendProlongs ==
  ASSUME NEW s \in Seq(Message), NEW m \in Message
  PROVE  /\ Append(s, m) \in Seq(Message) /\ Prolongs(Append(s, m), s) /\ Holds(Append(s, m), m.n)
         /\ \A i \in 1 .. Len(Append(s, m)) : Append(s, m)[i] = m \/ i \in 1 .. Len(s)
<1> DEFINE t == Append(s, m)
<1>1. /\ t \in Seq(Message) /\ Len(t) = Len(s) + 1 /\ Len(s) \in Nat
      /\ \A i \in 1 .. Len(s) : t[i] = s[i]
      /\ t[Len(s) + 1] = m
  BY AppendProperties, LenProperties
<1> HIDE DEF t
<1>2. Prolongs(t, s)
  BY <1>1 DEF Prolongs
<1>3. Len(s) + 1 \in 1 .. Len(t) /\ t[Len(s) + 1].n = m.n
  BY <1>1
<1>4. Holds(t, m.n)
  BY <1>3 DEF Holds
<1>5. \A i \in 1 .. Len(t) : i \in 1 .. Len(s) \/ i = Len(s) + 1
  BY <1>1
<1>6. QED BY <1>1, <1>2, <1>4, <1>5 DEF t

LEMMA RoundProlongs ==
  ASSUME NEW s \in Seq(Message), NEW n \in 1 .. MaxNumber, NEW c \in Conversations
  PROVE  /\ s \o Round(n, c) \in Seq(Message) /\ Prolongs(s \o Round(n, c), s)
         /\ Holds(s \o Round(n, c), n) /\ s \o Round(n, c) # <<>>
<1> DEFINE t == s \o Round(n, c)
<1>1. /\ Len(t) = Len(s) + 2 /\ Len(s) \in Nat
      /\ \A i \in 1 .. Len(s) : t[i] = s[i]
      /\ t[Len(s) + 1] = [n |-> n, kind |-> "call", of |-> c]
      /\ t[Len(s) + 2] = [n |-> n, kind |-> "result", of |-> c]
  BY RoundPaired, LenProperties
<1>2. t \in Seq(Message) /\ t # <<>>
  BY RoundPaired
<1> HIDE DEF t
<1>3. Prolongs(t, s)
  BY <1>1 DEF Prolongs
<1>4. Len(s) + 1 \in 1 .. Len(t) /\ t[Len(s) + 1].n = n
  BY <1>1
<1>5. Holds(t, n)
  BY <1>4 DEF Holds
<1>6. QED BY <1>2, <1>3, <1>5 DEF t

LEMMA CoversLonger ==
  ASSUME NEW s \in Seq(Message), NEW t \in Seq(Message), Prolongs(t, s),
         NEW sum, NEW more, sum \subseteq more, NEW msgs, NEW c, CoversAll(s, sum, msgs, c),
         NEW new, \A m \in new : m.of = c => Holds(t, m.n)
  PROVE  CoversAll(t, more, msgs \cup new, c)
<1>1. \A n : Holds(s, n) => Holds(t, n)
  BY ProlongsHolds
<1>2. QED BY <1>1 DEF CoversAll

LEMMA CoversOther ==
  ASSUME NEW s, NEW sum, NEW msgs, NEW c, CoversAll(s, sum, msgs, c),
         NEW new, \A m \in new : m.of # c
  PROVE  CoversAll(s, sum, msgs \cup new, c)
BY DEF CoversAll

\* The messages that are dropped are those the summary covers.
LEMMA CoversDropped ==
  ASSUME NEW s \in Seq(Message), NEW full \in Seq(Message), Prolongs(full, s),
         NEW sum, NEW msgs, NEW c, CoversAll(s, sum, msgs, c), Starts(s, sum), s # <<>>,
         NEW n \in Nat, n < Len(s), \A i \in 1 .. n : s[i].n \in sum,
         NEW new, \A m \in new : \E i \in 1 .. Len(full) : m = full[i]
  PROVE  /\ CoversAll(Dropped(full, n), sum, msgs \cup new, c) /\ Starts(Dropped(full, n), sum)
         /\ Dropped(full, n) # <<>>
<1>1. Len(s) \in Nat /\ Len(full) \in Nat /\ Len(s) <= Len(full) /\ \A i \in 1 .. Len(s) : full[i] = s[i]
  BY LenProperties DEF Prolongs
<1>2. n < Len(full)
  BY <1>1
<1> DEFINE r == Dropped(full, n)
<1>3. /\ r \in Seq(Message) /\ Len(r) = Len(full) - n /\ r # <<>>
      /\ \A i \in 1 .. Len(full) - n : r[i] = full[n + i]
  BY <1>2, DroppedIs
<1> HIDE DEF r
<1>4. \A i \in 1 .. n : full[i].n \in sum
  <2>1. \A i \in 1 .. n : i \in 1 .. Len(s)
    BY <1>1
  <2>2. QED BY <1>1, <2>1
<1>5. ASSUME NEW i \in 1 .. Len(full) PROVE full[i].n \in sum \/ Holds(r, full[i].n)
  <2>1. CASE i \in 1 .. n
    BY <1>4, <2>1
  <2>2. CASE i \notin 1 .. n
    <3> DEFINE j == i - n
    <3>1. j \in 1 .. Len(r) /\ j \in 1 .. Len(full) - n /\ n + j = i
      BY <1>1, <1>3, <2>2
    <3>2. r[j] = full[i]
      BY <1>3, <3>1
    <3> HIDE DEF j
    <3>3. QED BY <3>1, <3>2 DEF Holds
  <2>3. QED BY <2>1, <2>2
<1>6. \A k : Holds(full, k) => k \in sum \/ Holds(r, k)
  BY <1>5 DEF Holds
<1>7. \A k : Holds(s, k) => Holds(full, k)
  BY ProlongsHolds
<1>8. CoversAll(r, sum, msgs \cup new, c)
  <2>1. \A m \in msgs : m.of = c => m.n \in sum \/ Holds(r, m.n)
    BY <1>6, <1>7 DEF CoversAll
  <2>2. \A m \in new : m.n \in sum \/ Holds(r, m.n)
    BY <1>5
  <2>3. QED BY <2>1, <2>2 DEF CoversAll
<1>9. Starts(r, sum)
  <2>1. SUFFICES ASSUME sum = {} PROVE r[1].kind = "ask"
    BY DEF Starts
  <2>2. n = 0
    <3>1. SUFFICES ASSUME n # 0 PROVE FALSE
      OBVIOUS
    <3>2. 1 \in 1 .. n
      BY <3>1
    <3>3. QED BY <2>1, <3>2
  <2>3. 1 \in 1 .. Len(full) - n /\ n + 1 = 1 /\ 1 \in 1 .. Len(s)
    BY <1>1, <2>2
  <2>4. r[1] = s[1]
    BY <1>1, <1>3, <2>3
  <2>5. QED BY <2>1, <2>4 DEF Starts
<1>10. QED BY <1>3, <1>8, <1>9 DEF r

-----------------------------------------------------------------------------
(* What page, turns and store have in common *)

FlightOwn(r, c) == r.at # "idle" => r.of = c /\ AllOf(r.sent, c)

\* As long as no conversation was left with a turn under way.
OwnInv ==
  "switch" \notin slips =>
    /\ AllOf(thread, conv) /\ \A c \in Conversations : AllOf(saved[c].thread, c)
    /\ \A t \in Turns : FlightOwn(turn[t], conv)

FlightWhole(r, s, sum, k, c) ==
  r.at # "idle" =>
    /\ r.at = "paying" => s # <<>> /\ \E n \in 1 .. k : r.sent = s \o Round(n, c)
    /\ r.at # "paying" => r.sent = s
    /\ r.at # "composed" => r.prior = sum
    /\ \A i \in 1 .. r.through : r.sent[i].n \in sum

Alone == \A t, u \in Turns : turn[t].at # "idle" /\ turn[u].at # "idle" => t = u

\* As long as nothing but an unread summary or a trimmed history went wrong.
Tame == slips \subseteq {"unread", "trim"}

WholeInv ==
  Tame =>
    /\ Alone /\ \A t \in Turns : FlightWhole(turn[t], thread, summary, number, conv)
    /\ CoversAll(thread, summary, said, conv) /\ Starts(thread, summary)
    /\ \A c \in Conversations \ {conv} :
         CoversAll(saved[c].thread, saved[c].summary, said, c) /\ Starts(saved[c].thread, saved[c].summary)
    /\ cards # {} => thread # <<>>

FlightTold(r, msgs) == r.at = "composed" => \A m \in msgs : m.of = r.of => Tells(r.context, m.n)

ToldInv == slips = {} => \A t \in Turns : FlightTold(turn[t], said)

Remembered == OwnInv /\ WholeInv /\ ToldInv

LEMMA AllIdle ==
  ASSUME ShapeInv, InFlight = {}
  PROVE  \A t \in Turns : turn[t] = Idle /\ turn[t].at = "idle"
<1>1. \A t \in Turns : turn[t].at = "idle"
  BY DEF InFlight
<1>2. QED BY <1>1 DEF ShapeInv, TurnOK

LEMMA IdleRests ==
  /\ \A c : FlightOwn(Idle, c)
  /\ \A s, sum, k, c : FlightWhole(Idle, s, sum, k, c)
  /\ \A msgs : FlightTold(Idle, msgs)
BY IdleIs DEF FlightOwn, FlightWhole, FlightTold

\* A step that adds a turn to none, or ends the only one, leaves it alone.
LEMMA AloneStays ==
  ASSUME ShapeInv, NEW t \in Turns, NEW r, turn' = [turn EXCEPT ![t] = r],
         \A u \in Turns \ {t} : turn[u] = Idle
  PROVE  /\ Alone' /\ turn'[t] = r /\ \A u \in Turns \ {t} : turn'[u] = Idle
<1>1. turn'[t] = r /\ \A u \in Turns \ {t} : turn'[u] = Idle
  BY DEF ShapeInv
<1>2. \A u \in Turns \ {t} : turn'[u].at = "idle"
  BY <1>1, IdleIs
<1>3. QED BY <1>1, <1>2 DEF Alone

\* Nobody else is under way.
LEMMA OthersIdle ==
  ASSUME ShapeInv, WholeInv, Tame, NEW t \in Turns, turn[t].at # "idle"
  PROVE  \A u \in Turns \ {t} : turn[u] = Idle
<1>1. \A u \in Turns \ {t} : turn[u].at = "idle"
  BY DEF WholeInv, Alone
<1>2. QED BY <1>1 DEF ShapeInv, TurnOK

\* What Remembered says while the run was tame.
LEMMA TameSays ==
  ASSUME ShapeInv, Remembered, Tame
  PROVE  /\ AllOf(thread, conv) /\ (\A c \in Conversations : AllOf(saved[c].thread, c))
         /\ (\A t \in Turns : FlightOwn(turn[t], conv))
         /\ CoversAll(thread, summary, said, conv) /\ Starts(thread, summary)
         /\ \A c \in Conversations \ {conv} :
              CoversAll(saved[c].thread, saved[c].summary, said, c) /\ Starts(saved[c].thread, saved[c].summary)
         /\ cards # {} => thread # <<>>
         /\ (\A t \in Turns : FlightWhole(turn[t], thread, summary, number, conv))
BY DEF Remembered, OwnInv, WholeInv, Tame

\* Every step remembers: one lemma for each kind of step.
LEMMA SendRemembers ==
  ASSUME ShapeInv, Remembered, NEW t \in Turns, Send(t)
  PROVE  Remembered'
<1> DEFINE ask == [n |-> number + 1, kind |-> "ask", of |-> conv]
           r == [at |-> "posted", sent |-> thread', prior |-> summary, of |-> conv, context |-> <<>>, through |-> 0]
<1>1. /\ number < MaxNumber /\ thread' = Append(thread, ask) /\ said' = said \cup {ask}
      /\ turn' = [turn EXCEPT ![t] = Posted(thread', summary, conv)]
      /\ slips' = slips \cup Slip(InFlight # {}, "overlap")
      /\ UNCHANGED <<saved, mishaps, summary, conv, cards>>
  BY DEF Send, Settled
<1>2. ask \in Message /\ ask.kind # "result" /\ ask.kind = "ask" /\ ask.of = conv
  BY <1>1, AskIs
<1> HIDE DEF ask
<1>3. /\ thread \in Seq(Message) /\ Len(thread) \in Nat /\ turn \in [Turns -> TurnRecord]
  BY LenProperties DEF ShapeInv, ThreadOK
<1>4. /\ thread' \in Seq(Message) /\ Prolongs(thread', thread) /\ Holds(thread', ask.n)
      /\ thread' # <<>> /\ (AllOf(thread, conv) => AllOf(thread', conv))
      /\ thread = <<>> => thread'[1] = ask
  <2>1. thread = <<>> => Len(thread) = 0 /\ Len(thread) + 1 = 1
    OBVIOUS
  <2>2. Append(thread, ask)[Len(thread) + 1] = ask
    BY <1>2, <1>3, AppendProperties
  <2>3. QED BY <1>1, <1>2, <1>3, <2>1, <2>2, AppendProlongs, AppendPaired
<1>5. turn' = [turn EXCEPT ![t] = r]
  <2>1. Posted(thread', summary, conv) = r
    BY PostedIs
  <2> HIDE DEF r
  <2>2. QED BY <1>1, <2>1
<1>6. /\ r.at = "posted" /\ r.sent = thread' /\ r.prior = summary /\ r.of = conv /\ r.through = 0
  OBVIOUS
<1> HIDE DEF r
<1>7. turn'[t] = r /\ \A u \in Turns \ {t} : turn'[u] = turn[u]
  BY <1>3, <1>5
<1>8. slips \subseteq slips'
  BY <1>1
<1>9. OwnInv'
  <2>1. SUFFICES ASSUME "switch" \notin slips'
                 PROVE  /\ AllOf(thread', conv) /\ \A c \in Conversations : AllOf(saved[c].thread, c)
                        /\ \A u \in Turns : FlightOwn(turn'[u], conv)
    BY <1>1 DEF OwnInv
  <2>2. /\ AllOf(thread, conv) /\ \A c \in Conversations : AllOf(saved[c].thread, c)
        /\ \A u \in Turns : FlightOwn(turn[u], conv)
    BY <1>8, <2>1 DEF Remembered, OwnInv
  <2>3. FlightOwn(r, conv)
    BY <1>4, <1>6, <2>2 DEF FlightOwn
  <2>4. QED BY <1>4, <1>7, <2>2, <2>3
<1>10. ASSUME Tame'
       PROVE  /\ Tame /\ (\A u \in Turns : turn[u] = Idle) /\ Alone'
              /\ \A u \in Turns \ {t} : turn'[u] = Idle
  <2>1. Tame /\ InFlight = {}
    BY <1>1, <1>10 DEF Tame, Slip
  <2>2. \A u \in Turns : turn[u] = Idle
    BY <2>1, AllIdle
  <2>3. QED BY <1>5, <2>1, <2>2, AloneStays
<1>11. WholeInv'
  <2>1. SUFFICES ASSUME Tame' PROVE
          /\ Alone' /\ \A u \in Turns : FlightWhole(turn'[u], thread', summary, number', conv)
          /\ CoversAll(thread', summary, said', conv) /\ Starts(thread', summary)
          /\ \A c \in Conversations \ {conv} :
               CoversAll(saved[c].thread, saved[c].summary, said', c) /\ Starts(saved[c].thread, saved[c].summary)
          /\ cards # {} => thread' # <<>>
    BY <1>1 DEF WholeInv
  <2>2. Tame
    BY <1>10, <2>1
  <2>3. FlightWhole(r, thread', summary, number', conv)
    BY <1>6 DEF FlightWhole
  <2>4. \A u \in Turns : FlightWhole(turn'[u], thread', summary, number', conv)
    BY <1>7, <1>10, <2>1, <2>3, IdleRests
  <2>5. CoversAll(thread', summary, said', conv)
    <3>1. \A m \in {ask} : m.of = conv => Holds(thread', m.n)
      BY <1>4
    <3>2. QED BY <1>1, <1>3, <1>4, <2>2, <3>1, TameSays, CoversLonger
  <2>6. Starts(thread', summary)
    <3>1. CASE thread = <<>>
      BY <1>2, <1>4, <3>1 DEF Starts
    <3>2. CASE thread # <<>>
      BY <1>3, <1>4, <2>2, <3>2, TameSays, ProlongsHolds
    <3>3. QED BY <3>1, <3>2
  <2>7. ASSUME NEW c \in Conversations \ {conv} PROVE CoversAll(saved[c].thread, saved[c].summary, said', c)
    <3>1. \A m \in {ask} : m.of # c
      BY <1>2
    <3>2. QED BY <1>1, <2>2, <3>1, TameSays, CoversOther
  <2>8. QED BY <1>4, <1>10, <2>1, <2>2, <2>4, <2>5, <2>6, <2>7, TameSays
<1>12. ToldInv'
  <2>1. SUFFICES ASSUME slips' = {} PROVE \A u \in Turns : FlightTold(turn'[u], said')
    BY DEF ToldInv
  <2>2. Tame'
    BY <2>1 DEF Tame
  <2>3. FlightTold(r, said')
    BY <1>6 DEF FlightTold
  <2>4. QED BY <1>7, <1>10, <2>2, <2>3, IdleRests
<1>13. QED BY <1>9, <1>11, <1>12 DEF Remembered

LEMMA ApproveRemembers ==
  ASSUME ShapeInv, Remembered, NEW t \in Turns, NEW n \in cards, Approve(t, n)
  PROVE  Remembered'
<1> DEFINE msgs == thread \o Round(n, conv)
           r == [at |-> "paying", sent |-> msgs, prior |-> summary, of |-> conv, context |-> <<>>, through |-> 0]
<1>1. /\ cards' = cards \ {n}
      /\ turn' = [turn EXCEPT ![t] = [Posted(msgs, summary, conv) EXCEPT !.at = "paying"]]
      /\ slips' = slips \cup Slip(busy \/ InFlight # {}, "overlap")
      /\ UNCHANGED <<saved, mishaps, thread, summary, conv, busy, number, said>>
  BY DEF Approve, Settled
<1>2. /\ number \in 0 .. MaxNumber /\ MaxNumber \in Nat /\ cards \subseteq 1 .. number
      /\ conv \in Conversations /\ thread \in Seq(Message) /\ turn \in [Turns -> TurnRecord]
  BY ConversationAssumption DEF ShapeInv, ThreadOK
<1>3. n \in 1 .. number /\ n \in 1 .. MaxNumber
  BY <1>2
<1>4. AllOf(thread, conv) => AllOf(msgs, conv)
  BY <1>2, <1>3, RoundPaired
<1>5. turn' = [turn EXCEPT ![t] = r]
  <2> HIDE DEF msgs
  <2>1. [Posted(msgs, summary, conv) EXCEPT !.at = "paying"] = r
    BY PostedIs
  <2> HIDE DEF r
  <2>2. QED BY <1>1, <2>1
<1>6. /\ r.at = "paying" /\ r.sent = thread \o Round(n, conv) /\ r.sent = msgs
      /\ r.prior = summary /\ r.of = conv /\ r.through = 0
  <2> DEFINE q == thread \o Round(n, conv)
  <2> HIDE DEF q
  <2>1. msgs = q
    BY DEF q
  <2> HIDE DEF msgs
  <2>2. QED BY <2>1 DEF q
<1> HIDE DEF msgs, r
<1>7. turn'[t] = r /\ \A u \in Turns \ {t} : turn'[u] = turn[u]
  BY <1>2, <1>5
<1>8. slips \subseteq slips'
  BY <1>1
<1>9. OwnInv'
  <2>1. SUFFICES ASSUME "switch" \notin slips'
                 PROVE  /\ AllOf(thread, conv) /\ \A c \in Conversations : AllOf(saved[c].thread, c)
                        /\ \A u \in Turns : FlightOwn(turn'[u], conv)
    BY <1>1 DEF OwnInv
  <2>2. /\ AllOf(thread, conv) /\ \A c \in Conversations : AllOf(saved[c].thread, c)
        /\ \A u \in Turns : FlightOwn(turn[u], conv)
    BY <1>8, <2>1 DEF Remembered, OwnInv
  <2>3. FlightOwn(r, conv)
    BY <1>4, <1>6, <2>2 DEF FlightOwn
  <2>4. QED BY <1>7, <2>2, <2>3
<1>10. ASSUME Tame'
       PROVE  /\ Tame /\ (\A u \in Turns : turn[u] = Idle) /\ Alone'
              /\ \A u \in Turns \ {t} : turn'[u] = Idle
  <2>1. Tame /\ InFlight = {}
    BY <1>1, <1>10 DEF Tame, Slip
  <2>2. \A u \in Turns : turn[u] = Idle
    BY <2>1, AllIdle
  <2>3. QED BY <1>5, <2>1, <2>2, AloneStays
<1>11. WholeInv'
  <2>1. SUFFICES ASSUME Tame' PROVE
          /\ Alone' /\ \A u \in Turns : FlightWhole(turn'[u], thread, summary, number, conv)
          /\ CoversAll(thread, summary, said, conv) /\ Starts(thread, summary)
          /\ \A c \in Conversations \ {conv} :
               CoversAll(saved[c].thread, saved[c].summary, said, c) /\ Starts(saved[c].thread, saved[c].summary)
          /\ cards' # {} => thread # <<>>
    BY <1>1 DEF WholeInv
  <2>2. Tame
    BY <1>10, <2>1
  <2>3. thread # <<>>
    BY <2>2, TameSays
  <2>4. FlightWhole(r, thread, summary, number, conv)
    <3>1. \E m \in 1 .. number : r.sent = thread \o Round(m, conv)
      BY <1>3, <1>6
    <3>2. \A i \in 1 .. r.through : r.sent[i].n \in summary
      BY <1>6
    <3>3. QED BY <1>6, <2>3, <3>1, <3>2 DEF FlightWhole
  <2>5. \A u \in Turns : FlightWhole(turn'[u], thread, summary, number, conv)
    BY <1>7, <1>10, <2>1, <2>4, IdleRests
  <2>6. QED BY <1>10, <2>1, <2>2, <2>3, <2>5, TameSays
<1>12. ToldInv'
  <2>1. SUFFICES ASSUME slips' = {} PROVE \A u \in Turns : FlightTold(turn'[u], said)
    BY <1>1 DEF ToldInv
  <2>2. Tame'
    BY <2>1 DEF Tame
  <2>3. FlightTold(r, said)
    BY <1>6 DEF FlightTold
  <2>4. QED BY <1>7, <1>10, <2>2, <2>3, IdleRests
<1>13. QED BY <1>9, <1>11, <1>12 DEF Remembered

LEMMA DeclineRemembers ==
  ASSUME ShapeInv, Remembered, NEW n \in cards, Decline(n)
  PROVE  Remembered'
<1> DEFINE new == Range(Round(n, conv))
<1>1. /\ cards' = cards \ {n} /\ thread' = thread \o Round(n, conv)
      /\ said' = said \cup new
      /\ slips' = slips \cup Slip(InFlight # {}, "overlap")
      /\ UNCHANGED <<saved, mishaps, summary, conv, busy, turn, number>>
  BY DEF Decline, Settled
<1>2. /\ number \in 0 .. MaxNumber /\ MaxNumber \in Nat /\ cards \subseteq 1 .. number
      /\ conv \in Conversations /\ thread \in Seq(Message)
  BY ConversationAssumption DEF ShapeInv, ThreadOK
<1>3. n \in 1 .. MaxNumber
  BY <1>2
<1>4. /\ thread' \in Seq(Message) /\ Prolongs(thread', thread) /\ Holds(thread', n) /\ thread' # <<>>
      /\ AllOf(thread, conv) => AllOf(thread', conv)
  BY <1>1, <1>2, <1>3, RoundProlongs, RoundPaired
<1>5. \A m \in new : m.n = n /\ m.of = conv
  <2>1. new = {[n |-> n, kind |-> "call", of |-> conv], [n |-> n, kind |-> "result", of |-> conv]}
    BY DEF Round, Range
  <2>2. QED BY <2>1
<1> HIDE DEF new
<1>6. slips \subseteq slips'
  BY <1>1
<1>7. OwnInv'
  BY <1>1, <1>4, <1>6 DEF Remembered, OwnInv
<1>8. ASSUME Tame' PROVE Tame /\ \A u \in Turns : turn[u] = Idle
  <2>1. Tame /\ InFlight = {}
    BY <1>1, <1>8 DEF Tame, Slip
  <2>2. QED BY <2>1, AllIdle
<1>9. WholeInv'
  <2>1. SUFFICES ASSUME Tame' PROVE
          /\ Alone /\ \A u \in Turns : FlightWhole(turn[u], thread', summary, number, conv)
          /\ CoversAll(thread', summary, said', conv) /\ Starts(thread', summary)
          /\ \A c \in Conversations \ {conv} :
               CoversAll(saved[c].thread, saved[c].summary, said', c) /\ Starts(saved[c].thread, saved[c].summary)
          /\ cards' # {} => thread' # <<>>
    BY <1>1 DEF WholeInv, Alone
  <2>2. Tame
    BY <1>8, <2>1
  <2>3. \A u \in Turns : FlightWhole(turn[u], thread', summary, number, conv)
    BY <1>8, <2>1, IdleRests
  <2>4. CoversAll(thread', summary, said', conv)
    <3>1. \A m \in new : m.of = conv => Holds(thread', m.n)
      BY <1>4, <1>5
    <3>2. QED BY <1>1, <1>2, <1>4, <2>2, <3>1, TameSays, CoversLonger
  <2>5. Starts(thread', summary)
    <3>1. thread # <<>>
      BY <2>2, TameSays
    <3>2. QED BY <1>2, <1>4, <2>2, <3>1, TameSays, ProlongsHolds
  <2>6. ASSUME NEW c \in Conversations \ {conv} PROVE CoversAll(saved[c].thread, saved[c].summary, said', c)
    <3>1. \A m \in new : m.of # c
      BY <1>5
    <3>2. QED BY <1>1, <2>2, <3>1, TameSays, CoversOther
  <2>7. Alone
    BY <2>2 DEF Remembered, WholeInv
  <2>8. QED BY <1>4, <2>2, <2>3, <2>4, <2>5, <2>6, <2>7, TameSays
<1>10. ToldInv'
  <2>1. SUFFICES ASSUME slips' = {} PROVE \A u \in Turns : FlightTold(turn[u], said')
    BY <1>1 DEF ToldInv
  <2>2. Tame'
    BY <2>1 DEF Tame
  <2>3. QED BY <1>8, <2>2, IdleRests
<1>11. QED BY <1>7, <1>9, <1>10 DEF Remembered

LEMMA PaidRemembers ==
  ASSUME ShapeInv, Remembered, NEW t \in Turns, Paid(t)
  PROVE  Remembered'
<1> DEFINE s == turn[t].sent
           r == [turn[t] EXCEPT !.at = "posted"]
           new == Range(Latest(2, s))
<1>1. /\ turn[t].at = "paying" /\ thread' = s /\ said' = said \cup new
      /\ turn' = [turn EXCEPT ![t].at = "posted"]
      /\ UNCHANGED <<saved, mishaps, summary, conv, cards, number, slips>>
  BY DEF Paid, Settled
<1>2. turn \in [Turns -> TurnRecord] /\ TurnOK(turn[t], number) /\ turn[t] \in TurnRecord
      /\ thread \in Seq(Message) /\ conv \in Conversations /\ number \in 0 .. MaxNumber /\ MaxNumber \in Nat
  BY ConversationAssumption DEF ShapeInv, ThreadOK
<1>3. /\ r.at = "posted" /\ r.sent = s /\ r.prior = turn[t].prior /\ r.of = turn[t].of
      /\ r.through = turn[t].through
  BY <1>2 DEF TurnRecord
<1>4. turn' = [turn EXCEPT ![t] = r]
  BY <1>1
<1> HIDE DEF r
<1>5. turn'[t] = r /\ \A u \in Turns \ {t} : turn'[u] = turn[u]
  BY <1>2, <1>4
<1>6. /\ s \in Seq(Message) /\ Len(s) \in Nat /\ turn[t].through = 0 /\ turn[t].at # "idle" /\ turn[t].at # "composed"
  BY <1>1, <1>2, LenProperties DEF TurnOK, ThreadOK
<1>7. \A m \in new : \E i \in 1 .. Len(s) : m = s[i]
  BY <1>6, LastTwo
<1> HIDE DEF new
<1>8. OwnInv'
  <2>1. SUFFICES ASSUME "switch" \notin slips
                 PROVE  /\ AllOf(thread', conv) /\ \A c \in Conversations : AllOf(saved[c].thread, c)
                        /\ \A u \in Turns : FlightOwn(turn'[u], conv)
    BY <1>1 DEF OwnInv
  <2>2. /\ AllOf(thread, conv) /\ \A c \in Conversations : AllOf(saved[c].thread, c)
        /\ \A u \in Turns : FlightOwn(turn[u], conv)
    BY <2>1 DEF Remembered, OwnInv
  <2>3. turn[t].of = conv /\ AllOf(s, conv)
    BY <1>6, <2>2 DEF FlightOwn
  <2>4. FlightOwn(r, conv)
    BY <1>3, <2>3 DEF FlightOwn
  <2>5. QED BY <1>1, <1>5, <2>2, <2>3, <2>4
<1>9. ASSUME Tame' PROVE Tame /\ Alone' /\ \A u \in Turns \ {t} : turn'[u] = Idle /\ turn[u] = Idle
  <2>1. Tame
    BY <1>1, <1>9 DEF Tame
  <2>2. \A u \in Turns \ {t} : turn[u] = Idle
    BY <1>6, <2>1, OthersIdle DEF Remembered
  <2>3. QED BY <1>4, <2>1, <2>2, AloneStays
<1>10. WholeInv'
  <2>1. SUFFICES ASSUME Tame' PROVE
          /\ Alone' /\ \A u \in Turns : FlightWhole(turn'[u], thread', summary, number, conv)
          /\ CoversAll(thread', summary, said', conv) /\ Starts(thread', summary)
          /\ \A c \in Conversations \ {conv} :
               CoversAll(saved[c].thread, saved[c].summary, said', c) /\ Starts(saved[c].thread, saved[c].summary)
          /\ cards # {} => thread' # <<>>
    BY <1>1 DEF WholeInv
  <2>2. Tame
    BY <1>9, <2>1
  <2>3. FlightWhole(turn[t], thread, summary, number, conv) /\ FlightOwn(turn[t], conv)
    BY <2>2, TameSays
  <2>4. PICK n \in 1 .. number : s = thread \o Round(n, conv) /\ thread # <<>>
    BY <1>1, <1>6, <2>3 DEF FlightWhole
  <2>5. turn[t].prior = summary /\ AllOf(s, conv)
    BY <1>6, <2>3 DEF FlightWhole, FlightOwn
  <2>6. n \in 1 .. MaxNumber
    BY <1>2
  <2>7. Prolongs(s, thread) /\ s # <<>>
    <3> HIDE DEF s
    <3>1. QED BY <1>2, <2>4, <2>6, RoundProlongs
  <2>8. FlightWhole(r, thread', summary, number, conv)
    <3>1. \A i \in 1 .. r.through : r.sent[i].n \in summary
      BY <1>3, <1>6
    <3>2. QED BY <1>1, <1>3, <2>5, <3>1 DEF FlightWhole
  <2>9. \A u \in Turns : FlightWhole(turn'[u], thread', summary, number, conv)
    BY <1>5, <1>9, <2>1, <2>8, IdleRests
  <2>10. \A m \in new : m.of = conv /\ Holds(s, m.n)
    BY <1>7, <2>5 DEF Holds, AllOf
  <2> HIDE DEF s
  <2>11. CoversAll(thread', summary, said', conv)
    BY <1>1, <1>2, <1>6, <2>2, <2>7, <2>10, TameSays, CoversLonger
  <2>12. Starts(thread', summary)
    BY <1>1, <1>2, <1>6, <2>2, <2>4, <2>7, TameSays, ProlongsHolds
  <2>13. ASSUME NEW c \in Conversations \ {conv} PROVE CoversAll(saved[c].thread, saved[c].summary, said', c)
    <3>1. \A m \in new : m.of # c
      BY <2>10
    <3>2. QED BY <1>1, <2>2, <3>1, TameSays, CoversOther
  <2>14. QED BY <1>1, <1>9, <2>1, <2>2, <2>7, <2>9, <2>11, <2>12, <2>13, TameSays
<1>11. ToldInv'
  <2>1. SUFFICES ASSUME slips' = {} PROVE \A u \in Turns : FlightTold(turn'[u], said')
    BY DEF ToldInv
  <2>2. Tame'
    BY <2>1 DEF Tame
  <2>3. FlightTold(r, said')
    BY <1>3 DEF FlightTold
  <2>4. QED BY <1>5, <1>9, <2>2, <2>3, IdleRests
<1>12. QED BY <1>8, <1>10, <1>11 DEF Remembered

\* A turn that settles: `full` is what was sent, and what was said since.
LEMMA SettlesRemembers ==
  ASSUME ShapeInv, Remembered, NEW t \in Turns, NEW full \in Seq(Message),
         turn[t].at = "composed", Settles(t, full), Prolongs(full, turn[t].sent),
         AllOf(turn[t].sent, conv) /\ turn[t].of = conv => AllOf(full, conv)
  PROVE  Remembered'
<1> DEFINE s == turn[t].sent
           through == turn[t].through
           new == Range(full)
<1>1. /\ thread' = Dropped(full, through) /\ said' = said \cup new
      /\ turn' = [turn EXCEPT ![t] = Idle]
      /\ UNCHANGED <<saved, mishaps, summary, conv, cards, slips>>
  BY DEF Settles, Settled
<1>2. turn \in [Turns -> TurnRecord] /\ TurnOK(turn[t], number) /\ turn[t] \in TurnRecord
      /\ thread \in Seq(Message) /\ conv \in Conversations
  BY DEF ShapeInv, ThreadOK
<1>3. turn'[t] = Idle /\ \A u \in Turns \ {t} : turn'[u] = turn[u]
  BY <1>1, <1>2
<1>4. /\ s \in Seq(Message) /\ Len(s) \in Nat /\ through \in Nat /\ through < Len(s) /\ turn[t].at # "idle"
      /\ turn[t].at # "paying"
  BY <1>2, LenProperties DEF TurnOK, ThreadOK, TurnRecord
<1>5. \A m \in new : \E i \in 1 .. Len(full) : m = full[i]
  BY LastTwo
<1>6. Dropped(full, through) \in Seq(Message) /\ EndOf(Dropped(full, through), full)
  <2>1. Len(s) <= Len(full) /\ Len(full) \in Nat
    BY LenProperties DEF Prolongs
  <2>2. through < Len(full)
    BY <1>4, <2>1
  <2>3. QED BY <1>4, <2>2, DroppedIs
<1>7. OwnInv'
  <2>1. SUFFICES ASSUME "switch" \notin slips
                 PROVE  /\ AllOf(thread', conv) /\ \A c \in Conversations : AllOf(saved[c].thread, c)
                        /\ \A u \in Turns : FlightOwn(turn'[u], conv)
    BY <1>1 DEF OwnInv
  <2>2. /\ AllOf(thread, conv) /\ \A c \in Conversations : AllOf(saved[c].thread, c)
        /\ \A u \in Turns : FlightOwn(turn[u], conv)
    BY <2>1 DEF Remembered, OwnInv
  <2>3. AllOf(full, conv)
    BY <1>4, <2>2 DEF FlightOwn
  <2>4. AllOf(thread', conv)
    BY <1>1, <1>6, <2>3, EndPaired
  <2>5. QED BY <1>3, <2>2, <2>4, IdleRests
<1> HIDE DEF new
<1>8. ASSUME Tame' PROVE Tame /\ Alone' /\ \A u \in Turns : turn'[u] = Idle
  <2>1. Tame
    BY <1>1, <1>8 DEF Tame
  <2>2. \A u \in Turns \ {t} : turn[u] = Idle
    BY <1>4, <2>1, OthersIdle DEF Remembered
  <2>3. QED BY <1>1, <2>1, <2>2, AloneStays
<1>9. WholeInv'
  <2>1. SUFFICES ASSUME Tame' PROVE
          /\ Alone' /\ \A u \in Turns : FlightWhole(turn'[u], thread', summary, number', conv)
          /\ CoversAll(thread', summary, said', conv) /\ Starts(thread', summary)
          /\ \A c \in Conversations \ {conv} :
               CoversAll(saved[c].thread, saved[c].summary, said', c) /\ Starts(saved[c].thread, saved[c].summary)
          /\ cards # {} => thread' # <<>>
    BY <1>1 DEF WholeInv
  <2>2. Tame
    BY <1>8, <2>1
  <2>3. FlightWhole(turn[t], thread, summary, number, conv) /\ FlightOwn(turn[t], conv)
    BY <2>2, TameSays
  <2>4. s = thread /\ (\A i \in 1 .. through : s[i].n \in summary) /\ AllOf(full, conv)
    BY <1>4, <2>3 DEF FlightWhole, FlightOwn
  <2>5. \A u \in Turns : FlightWhole(turn'[u], thread', summary, number', conv)
    BY <1>8, <2>1, IdleRests
  <2>6. s # <<>>
    BY <1>4
  <2>7. CoversAll(s, summary, said, conv) /\ Starts(s, summary)
    BY <2>2, <2>4, TameSays
  <2> HIDE DEF s, through
  <2>8. Prolongs(full, s)
    BY DEF s
  <2>9. CoversAll(thread', summary, said', conv) /\ Starts(thread', summary) /\ thread' # <<>>
    <3>1. /\ CoversAll(Dropped(full, through), summary, said \cup new, conv)
          /\ Starts(Dropped(full, through), summary) /\ Dropped(full, through) # <<>>
      <4>1. s \in Seq(Message) /\ through \in Nat /\ through < Len(s) /\ Prolongs(full, s) /\ s # <<>>
        BY <1>4, <2>6, <2>8
      <4>2. QED BY <1>5, <2>4, <2>7, <4>1, CoversDropped
    <3>2. QED BY <1>1, <3>1
  <2>10. ASSUME NEW c \in Conversations \ {conv} PROVE CoversAll(saved[c].thread, saved[c].summary, said', c)
    <3>1. \A m \in new : m.of # c
      BY <1>5, <2>4 DEF AllOf
    <3>2. QED BY <1>1, <2>2, <3>1, TameSays, CoversOther
  <2>11. QED BY <1>8, <2>1, <2>2, <2>5, <2>9, <2>10, TameSays
<1>10. ToldInv'
  <2>1. SUFFICES ASSUME slips' = {} PROVE \A u \in Turns : FlightTold(turn'[u], said')
    BY DEF ToldInv
  <2>2. Tame'
    BY <2>1 DEF Tame
  <2>3. QED BY <1>8, <2>2, IdleRests
<1>11. QED BY <1>7, <1>9, <1>10 DEF Remembered

LEMMA AnsweredRemembers ==
  ASSUME ShapeInv, Remembered, NEW t \in Turns, Answered(t)
  PROVE  Remembered'
<1> DEFINE say == [n |-> number + 1, kind |-> "say", of |-> turn[t].of]
           full == Append(turn[t].sent, say)
<1>1. turn[t].at = "composed" /\ number < MaxNumber /\ number' = number + 1 /\ Settles(t, full)
  BY DEF Answered
<1>2. AllOf(turn[t].sent, conv) /\ turn[t].of = conv => AllOf(full, conv)
  BY <1>1, SayIs
<1>3. turn[t].sent \in Seq(Message) /\ say \in Message
  BY <1>1, SentIs, AskIs
<1> HIDE DEF say
<1>4. full \in Seq(Message) /\ Prolongs(full, turn[t].sent)
  BY <1>3, AppendProlongs
<1> HIDE DEF full
<1>5. QED BY <1>1, <1>2, <1>4, SettlesRemembers

LEMMA SilentRemembers ==
  ASSUME ShapeInv, Remembered, NEW t \in Turns, Silent(t)
  PROVE  Remembered'
<1>1. turn[t].at = "composed" /\ Settles(t, turn[t].sent)
  BY DEF Silent
<1>2. turn[t].sent \in Seq(Message) /\ Len(turn[t].sent) \in Nat
  BY <1>1, SentIs
<1>3. Prolongs(turn[t].sent, turn[t].sent)
  BY <1>2 DEF Prolongs
<1>4. QED BY <1>1, <1>2, <1>3, SettlesRemembers

\* A turn that leaves the thread alone: a card, a payment or a stream that fails.
LEMMA EndsRemembers ==
  ASSUME ShapeInv, Remembered, NEW t \in Turns, turn[t].at # "idle",
         turn' = [turn EXCEPT ![t] = Idle],
         UNCHANGED <<thread, summary, conv, saved, said, slips>>,
         cards' = cards \/ turn[t].at = "composed"
  PROVE  Remembered'
<1>1. turn \in [Turns -> TurnRecord] /\ TurnOK(turn[t], number)
  BY DEF ShapeInv
<1>2. turn'[t] = Idle /\ \A u \in Turns \ {t} : turn'[u] = turn[u]
  BY <1>1
<1>3. OwnInv'
  <2>1. SUFFICES ASSUME "switch" \notin slips
                 PROVE  /\ AllOf(thread, conv) /\ \A c \in Conversations : AllOf(saved[c].thread, c)
                        /\ \A u \in Turns : FlightOwn(turn'[u], conv)
    BY DEF OwnInv
  <2>2. QED BY <1>2, <2>1, IdleRests DEF Remembered, OwnInv
<1>4. ASSUME Tame' PROVE Tame /\ Alone' /\ \A u \in Turns : turn'[u] = Idle
  <2>1. Tame
    BY <1>4 DEF Tame
  <2>2. \A u \in Turns \ {t} : turn[u] = Idle
    BY <2>1, OthersIdle DEF Remembered
  <2>3. QED BY <2>1, <2>2, AloneStays
<1>5. WholeInv'
  <2>1. SUFFICES ASSUME Tame' PROVE
          /\ Alone' /\ \A u \in Turns : FlightWhole(turn'[u], thread, summary, number', conv)
          /\ CoversAll(thread, summary, said, conv) /\ Starts(thread, summary)
          /\ \A c \in Conversations \ {conv} :
               CoversAll(saved[c].thread, saved[c].summary, said, c) /\ Starts(saved[c].thread, saved[c].summary)
          /\ cards' # {} => thread # <<>>
    BY DEF WholeInv
  <2>2. Tame
    BY <1>4, <2>1
  <2>3. \A u \in Turns : FlightWhole(turn'[u], thread, summary, number', conv)
    BY <1>4, <2>1, IdleRests
  <2>4. ASSUME turn[t].at = "composed" PROVE thread # <<>>
    <3>1. turn[t].sent = thread
      BY <2>2, <2>4, TameSays DEF FlightWhole
    <3>2. QED BY <2>4, <3>1, SentIs
  <2>5. QED BY <1>4, <2>1, <2>2, <2>3, <2>4, TameSays
<1>6. ToldInv'
  <2>1. SUFFICES ASSUME slips = {} PROVE \A u \in Turns : FlightTold(turn'[u], said)
    BY DEF ToldInv
  <2>2. QED BY <1>2, <2>1, IdleRests DEF Remembered, ToldInv
<1>7. QED BY <1>3, <1>5, <1>6 DEF Remembered

\* Another conversation is shown: what is left has been stored, or a slip is noted.
LEMMA VisitRemembers ==
  ASSUME ShapeInv, Remembered, NEW c \in Conversations, NewConversation(c) \/ OpenConversation(c)
  PROVE  Remembered'
<1>1. PICK found : Visit(c, found) /\ \/ found = Blank /\ c # conv /\ Of(c) = {}
                                      \/ found = saved[c]
  BY DEF NewConversation, OpenConversation
<1>2. /\ thread' = found.thread /\ summary' = found.summary /\ conv' = c /\ cards' = {}
      /\ slips' = slips \cup Slip(InFlight # {}, "switch") \cup Slip(Unsaved, "unsaved")
      /\ UNCHANGED <<busy, turn, saved, number, said>>
  BY <1>1 DEF Visit
<1>3. conv \in Conversations /\ number \in Int
  BY DEF ShapeInv
<1>4. Blank.thread = <<>> /\ Blank.summary = {} /\ Len(<<>>) = 0
  BY <1>3, BlankOK
<1>5. "switch" \notin slips' => "switch" \notin slips /\ InFlight = {}
  BY <1>2 DEF Slip
<1>6. OwnInv'
  <2>1. SUFFICES ASSUME "switch" \notin slips'
                 PROVE  /\ AllOf(thread', c) /\ \A d \in Conversations : AllOf(saved[d].thread, d)
                        /\ \A u \in Turns : FlightOwn(turn[u], c)
    BY <1>2 DEF OwnInv
  <2>2. /\ \A d \in Conversations : AllOf(saved[d].thread, d)
        /\ \A u \in Turns : turn[u] = Idle
    BY <1>5, <2>1, AllIdle DEF Remembered, OwnInv
  <2>3. AllOf(<<>>, c)
    BY <1>4 DEF AllOf
  <2>4. QED BY <1>1, <1>2, <1>4, <2>2, <2>3, IdleRests
<1>7. ASSUME Tame' PROVE /\ Tame /\ (\A u \in Turns : turn[u] = Idle)
                         /\ thread = saved[conv].thread /\ summary = saved[conv].summary
  <2>1. Tame /\ InFlight = {} /\ ~Unsaved
    BY <1>2, <1>7 DEF Tame, Slip
  <2>2. QED BY <2>1, AllIdle DEF Unsaved
<1>8. WholeInv'
  <2>1. SUFFICES ASSUME Tame' PROVE
          /\ Alone /\ \A u \in Turns : FlightWhole(turn[u], thread', summary', number, c)
          /\ CoversAll(thread', summary', said, c) /\ Starts(thread', summary')
          /\ \A d \in Conversations \ {c} :
               CoversAll(saved[d].thread, saved[d].summary, said, d) /\ Starts(saved[d].thread, saved[d].summary)
    BY <1>2 DEF WholeInv, Alone
  <2>2. Tame
    BY <1>7, <2>1
  <2>3. Alone /\ \A u \in Turns : FlightWhole(turn[u], thread', summary', number, c)
    BY <1>7, <2>1, <2>2, IdleRests DEF Remembered, WholeInv
  <2>4. \A d \in Conversations :
          CoversAll(saved[d].thread, saved[d].summary, said, d) /\ Starts(saved[d].thread, saved[d].summary)
    BY <1>7, <2>1, <2>2, TameSays
  <2>5. CoversAll(thread', summary', said, c) /\ Starts(thread', summary')
    <3>1. CASE found = saved[c]
      BY <1>2, <2>4, <3>1
    <3>2. CASE found = Blank /\ Of(c) = {}
      BY <1>2, <1>4, <3>2 DEF CoversAll, Starts, Of
    <3>3. QED BY <1>1, <3>1, <3>2
  <2>6. QED BY <2>3, <2>4, <2>5
<1>9. ToldInv'
  <2>1. SUFFICES ASSUME slips' = {} PROVE \A u \in Turns : FlightTold(turn[u], said)
    BY <1>2 DEF ToldInv
  <2>2. slips = {}
    BY <1>2, <2>1
  <2>3. QED BY <2>2 DEF Remembered, ToldInv
<1>10. QED BY <1>6, <1>8, <1>9 DEF Remembered

LEMMA AutosaveRemembers ==
  ASSUME ShapeInv, Remembered, Autosave
  PROVE  Remembered'
<1> DEFINE r == [thread |-> thread, summary |-> summary]
<1>1. /\ saved' = [saved EXCEPT ![conv] = r]
      /\ UNCHANGED <<thread, summary, conv, busy, cards, turn, number, said, slips, mishaps>>
  BY DEF Autosave, page
<1>2. saved \in [Conversations -> SavedRecord] /\ conv \in Conversations
  BY DEF ShapeInv
<1>3. r.thread = thread
  OBVIOUS
<1> HIDE DEF r
<1>4. saved'[conv] = r /\ \A c \in Conversations \ {conv} : saved'[c] = saved[c]
  BY <1>1, <1>2
<1>5. OwnInv'
  <2>1. SUFFICES ASSUME "switch" \notin slips
                 PROVE  /\ AllOf(thread, conv) /\ \A c \in Conversations : AllOf(saved'[c].thread, c)
                        /\ \A u \in Turns : FlightOwn(turn[u], conv)
    BY <1>1 DEF OwnInv
  <2>2. /\ AllOf(thread, conv) /\ \A c \in Conversations : AllOf(saved[c].thread, c)
        /\ \A u \in Turns : FlightOwn(turn[u], conv)
    BY <2>1 DEF Remembered, OwnInv
  <2>3. QED BY <1>3, <1>4, <2>2
<1>6. WholeInv'
  <2>1. SUFFICES ASSUME Tame PROVE
          /\ Alone /\ \A u \in Turns : FlightWhole(turn[u], thread, summary, number, conv)
          /\ CoversAll(thread, summary, said, conv) /\ Starts(thread, summary)
          /\ \A c \in Conversations \ {conv} :
               CoversAll(saved'[c].thread, saved'[c].summary, said, c) /\ Starts(saved'[c].thread, saved'[c].summary)
          /\ cards # {} => thread # <<>>
    BY <1>1 DEF WholeInv, Alone, Tame
  <2>2. Alone
    BY <2>1 DEF Remembered, WholeInv
  <2>3. QED BY <1>4, <2>1, <2>2, TameSays
<1>7. ToldInv'
  BY <1>1 DEF ToldInv, Remembered
<1>8. QED BY <1>5, <1>6, <1>7 DEF Remembered

LEMMA ComposeRemembers ==
  ASSUME ShapeInv, Remembered, NEW t \in Turns, NEW context, NEW through, ComposesTo(t, context, through)
  PROVE  Remembered'
<1> DEFINE s == turn[t].sent
           r == [at |-> "composed", sent |-> s, prior |-> {}, of |-> turn[t].of,
                 context |-> context, through |-> through]
<1>1. /\ turn[t].at = "posted" /\ turn' = [turn EXCEPT ![t] = r]
      /\ UNCHANGED <<thread, conv, busy, cards, saved, number, said>>
      /\ slips \subseteq slips' /\ slips' \subseteq slips \cup {"unread", "trim", "hiccup"}
      /\ "hiccup" \notin slips' =>
           /\ through = 0 => summary' = summary
           /\ turn[t].prior \subseteq summary' \/ through = 0
           /\ \A i \in 1 .. through : s[i].n \in summary'
      /\ slips' = {} /\ (turn[t].prior = {} => FromUser(s[1].kind)) =>
           /\ \A i \in 1 .. Len(s) : Tells(context, s[i].n)
           /\ \A n \in turn[t].prior : Tells(context, n)
  BY DEF ComposesTo
<1>2. turn \in [Turns -> TurnRecord] /\ TurnOK(turn[t], number) /\ thread \in Seq(Message)
  BY DEF ShapeInv, ThreadOK
<1>3. /\ r.at = "composed" /\ r.sent = s /\ r.prior = {} /\ r.of = turn[t].of
      /\ r.context = context /\ r.through = through
  OBVIOUS
<1> HIDE DEF r
<1>4. turn'[t] = r /\ \A u \in Turns \ {t} : turn'[u] = turn[u]
  BY <1>1, <1>2
<1>5. turn[t].at # "idle" /\ turn[t].at # "composed" /\ turn[t].at # "paying"
      /\ s \in Seq(Message) /\ s # <<>>
  BY <1>1, SentIs
<1> HIDE DEF s
<1>6. OwnInv'
  <2>1. SUFFICES ASSUME "switch" \notin slips'
                 PROVE  /\ AllOf(thread, conv) /\ \A c \in Conversations : AllOf(saved[c].thread, c)
                        /\ \A u \in Turns : FlightOwn(turn'[u], conv)
    BY <1>1 DEF OwnInv
  <2>2. /\ AllOf(thread, conv) /\ \A c \in Conversations : AllOf(saved[c].thread, c)
        /\ \A u \in Turns : FlightOwn(turn[u], conv)
    BY <1>1, <2>1 DEF Remembered, OwnInv
  <2>3. FlightOwn(r, conv)
    BY <1>3, <1>5, <2>2 DEF FlightOwn, s
  <2>4. QED BY <1>4, <2>2, <2>3
<1>7. ASSUME Tame'
      PROVE  /\ Tame /\ Alone' /\ \A u \in Turns \ {t} : turn'[u] = Idle
             /\ turn[t].of = conv /\ s = thread /\ turn[t].prior = summary
             /\ CoversAll(s, summary, said, conv) /\ Starts(s, summary)
  <2>1. Tame
    BY <1>1, <1>7 DEF Tame
  <2>2. \A u \in Turns \ {t} : turn[u] = Idle
    BY <1>5, <2>1, OthersIdle DEF Remembered
  <2>3. Alone' /\ \A u \in Turns \ {t} : turn'[u] = Idle
    BY <1>1, <2>2, AloneStays
  <2>4. FlightWhole(turn[t], thread, summary, number, conv) /\ FlightOwn(turn[t], conv)
    BY <2>1, TameSays
  <2>5. turn[t].of = conv /\ s = thread /\ turn[t].prior = summary
    BY <1>5, <2>4 DEF FlightWhole, FlightOwn, s
  <2>6. QED BY <2>1, <2>3, <2>5, TameSays
<1>8. WholeInv'
  <2>1. SUFFICES ASSUME Tame' PROVE
          /\ Alone' /\ \A u \in Turns : FlightWhole(turn'[u], thread, summary', number, conv)
          /\ CoversAll(thread, summary', said, conv) /\ Starts(thread, summary')
          /\ \A c \in Conversations \ {conv} :
               CoversAll(saved[c].thread, saved[c].summary, said, c) /\ Starts(saved[c].thread, saved[c].summary)
          /\ cards # {} => thread # <<>>
    BY <1>1 DEF WholeInv
  <2>2. Tame /\ s = thread /\ turn[t].prior = summary
    BY <1>7, <2>1
  <2>3. "hiccup" \notin slips'
    BY <2>1 DEF Tame
  <2>4. summary \subseteq summary' /\ \A i \in 1 .. through : s[i].n \in summary'
    BY <1>1, <2>2, <2>3
  <2>5. FlightWhole(r, thread, summary', number, conv)
    BY <1>3, <2>2, <2>4 DEF FlightWhole
  <2>6. \A u \in Turns : FlightWhole(turn'[u], thread, summary', number, conv)
    BY <1>4, <1>7, <2>1, <2>5, IdleRests
  <2>7. CoversAll(thread, summary', said, conv) /\ Starts(thread, summary')
    <3>1. CoversAll(thread, summary, said, conv) /\ Starts(thread, summary)
      BY <2>2, TameSays
    <3>2. QED BY <2>4, <3>1 DEF CoversAll, Starts
  <2>8. QED BY <1>7, <2>1, <2>2, <2>6, <2>7, TameSays
<1>9. ToldInv'
  <2>1. SUFFICES ASSUME slips' = {} PROVE \A u \in Turns : FlightTold(turn'[u], said)
    BY <1>1 DEF ToldInv
  <2>2. Tame'
    BY <2>1 DEF Tame
  <2>3. Starts(s, turn[t].prior) /\ CoversAll(s, turn[t].prior, said, turn[t].of)
    BY <1>7, <2>2
  <2>4. turn[t].prior = {} => FromUser(s[1].kind)
    BY <1>5, <2>3 DEF Starts, FromUser
  <2>5. /\ \A i \in 1 .. Len(s) : Tells(context, s[i].n)
        /\ \A n \in turn[t].prior : Tells(context, n)
    BY <1>1, <2>1, <2>4
  <2>6. \A n : Holds(s, n) => Tells(context, n)
    BY <2>5 DEF Holds
  <2>7. FlightTold(r, said)
    BY <1>3, <2>3, <2>5, <2>6 DEF FlightTold, CoversAll
  <2>8. QED BY <1>4, <1>7, <2>2, <2>7, IdleRests
<1>10. QED BY <1>6, <1>8, <1>9 DEF Remembered

LEMMA RememberedStep ==
  ASSUME ShapeInv, Remembered, [ConversationNext]_conversationVars
  PROVE  Remembered'
<1>1. CASE UNCHANGED conversationVars
  BY <1>1 DEF Remembered, OwnInv, WholeInv, ToldInv, Tame, Alone, conversationVars, page
<1>2. ASSUME NEW t \in Turns, Send(t) PROVE Remembered'
  BY <1>2, SendRemembers
<1>3. ASSUME NEW t \in Turns, Paid(t) PROVE Remembered'
  BY <1>3, PaidRemembers
<1>4. ASSUME NEW t \in Turns, PaymentFails(t) \/ BreaksOff(t) \/ Confirms(t) PROVE Remembered'
  <2>1. /\ turn[t].at # "idle" /\ turn' = [turn EXCEPT ![t] = Idle]
        /\ UNCHANGED <<thread, summary, conv, saved, said, slips>>
        /\ cards' = cards \/ turn[t].at = "composed"
    BY <1>4 DEF PaymentFails, BreaksOff, Confirms, page, Settled
  <2>2. QED BY <2>1, EndsRemembers
<1>5. ASSUME NEW t \in Turns, ComposePlain(t) \/ ComposeCompacted(t) PROVE Remembered'
  BY <1>5, PlainComposes, CompactedComposes, ComposeRemembers
<1>6. ASSUME NEW t \in Turns, Answered(t) PROVE Remembered'
  BY <1>6, AnsweredRemembers
<1>7. ASSUME NEW t \in Turns, Silent(t) PROVE Remembered'
  BY <1>7, SilentRemembers
<1>8. ASSUME NEW t \in Turns, NEW n \in cards, Approve(t, n) PROVE Remembered'
  BY <1>8, ApproveRemembers
<1>9. ASSUME NEW n \in cards, Decline(n) PROVE Remembered'
  BY <1>9, DeclineRemembers
<1>10. ASSUME NEW c \in Conversations, NewConversation(c) \/ OpenConversation(c) PROVE Remembered'
  BY <1>10, VisitRemembers
<1>11. CASE Autosave
  BY <1>11, AutosaveRemembers
<1>12. QED BY <1>1, <1>2, <1>3, <1>4, <1>5, <1>6, <1>7, <1>8, <1>9, <1>10, <1>11
              DEF ConversationNext

LEMMA RememberedStarts ==
  ASSUME ConversationInit
  PROVE  Remembered
<1>1. /\ thread = <<>> /\ summary = {} /\ cards = {}
      /\ turn = [t \in Turns |-> Idle] /\ saved = [c \in Conversations |-> Blank]
      /\ said = {} /\ Len(<<>>) = 0 /\ conv \in Conversations
  BY ShapeStarts DEF ConversationInit, ShapeInv
<1>2. /\ \A t \in Turns : turn[t] = Idle /\ turn[t].at = "idle"
      /\ \A c \in Conversations : saved[c].thread = <<>> /\ saved[c].summary = {}
  BY <1>1, IdleIs DEF Blank
<1>3. \A c : AllOf(<<>>, c) /\ CoversAll(<<>>, {}, {}, c) /\ Starts(<<>>, {})
  BY <1>1 DEF AllOf, CoversAll, Starts
<1>4. OwnInv
  BY <1>1, <1>2, <1>3, IdleRests DEF OwnInv
<1>5. WholeInv
  BY <1>1, <1>2, <1>3, IdleRests DEF WholeInv, Alone
<1>6. ToldInv
  BY <1>2, IdleRests DEF ToldInv
<1>7. QED BY <1>4, <1>5, <1>6 DEF Remembered

LEMMA ConversationAlways == ConversationSpec => [](ShapeInv /\ Remembered)
<1>1. ConversationInit => ShapeInv /\ Remembered
  BY ShapeStarts, RememberedStarts
<1>2. ShapeInv /\ Remembered /\ [ConversationNext]_conversationVars => (ShapeInv /\ Remembered)'
  BY ShapeStep, RememberedStep
<1>3. QED BY <1>1, <1>2, PTL DEF ConversationSpec

LEMMA ShapeTypes ==
  ASSUME ShapeInv
  PROVE  ConversationTypeOK
<1>1. /\ thread \in Seq(Message) /\ said \subseteq Message /\ cards \cup summary \subseteq 1 .. number
      /\ conv \in Conversations /\ busy \in BOOLEAN
      /\ slips \subseteq {"unread", "hiccup", "trim", "overlap", "switch", "unsaved"}
  BY DEF ShapeInv, ThreadOK
<1>2. ASSUME NEW t \in Turns
      PROVE  /\ turn[t].at \in {"idle", "paying", "posted", "composed"}
             /\ turn[t].sent \in Seq(Message) /\ turn[t].prior \subseteq 1 .. number
             /\ turn[t].through <= Len(turn[t].sent)
  <2>1. TurnOK(turn[t], number) /\ turn[t] \in TurnRecord
    BY DEF ShapeInv
  <2>2. turn[t].at \in {"idle", "paying", "posted", "composed"} /\ turn[t].sent \in Seq(Message)
        /\ turn[t].through \in Nat /\ turn[t].prior \subseteq 1 .. number
    BY <2>1 DEF TurnOK, TurnRecord
  <2>3. turn[t].through <= Len(turn[t].sent)
    <3>1. Len(turn[t].sent) \in Nat
      BY <2>2, LenProperties
    <3>2. turn[t].through = 0 \/ turn[t].through < Len(turn[t].sent)
      BY <2>1 DEF TurnOK
    <3>3. QED BY <2>2, <3>1, <3>2
  <2>4. QED BY <2>2, <2>3
<1>3. ASSUME NEW c \in Conversations
      PROVE  saved[c].thread \in Seq(Message) /\ saved[c].summary \subseteq 1 .. number
  BY DEF ShapeInv, SavedOK, ThreadOK
<1>4. QED BY <1>1, <1>2, <1>3 DEF ConversationTypeOK

\* What the invariants say of the properties.
LEMMA ShapeOrphans ==
  ASSUME ShapeInv
  PROVE  OrphansOnlyAtTheCut
<1>1. SUFFICES ASSUME NEW t \in Composing, NEW i \in DOMAIN turn[t].context,
                      turn[t].context[i].kind = "result"
               PROVE  \/ i > 1 /\ turn[t].context[i - 1] =
                             [tells |-> turn[t].context[i].tells, kind |-> "call"]
                      \/ i = 1
                      \/ i = 2 /\ turn[t].through > 0
  BY DEF OrphansOnlyAtTheCut
<1>2. turn[t] \in TurnRecord /\ CutOnly(turn[t].context, turn[t].through)
  BY DEF Composing, ShapeInv, TurnOK
<1>3. turn[t].context \in Seq(EntryRecord)
  BY <1>2 DEF TurnRecord
<1> DEFINE e == turn[t].context
<1>4. /\ DOMAIN e = 1 .. Len(e) /\ Len(e) \in Nat /\ \A j \in 1 .. Len(e) : e[j] \in EntryRecord
  BY <1>3, LenProperties, ElementOfSeq
<1>5. \/ i > 1 /\ e[i - 1].kind = "call" /\ e[i - 1].tells = e[i].tells
      \/ i = 1
      \/ i = 2 /\ turn[t].through > 0
  BY <1>1, <1>2, <1>4 DEF CutOnly
<1>6. CASE i > 1 /\ e[i - 1].kind = "call" /\ e[i - 1].tells = e[i].tells
  <2>1. i - 1 \in 1 .. Len(e)
    BY <1>4, <1>6
  <2>2. e[i - 1] \in EntryRecord
    BY <1>4, <2>1
  <2>3. e[i - 1] = [tells |-> e[i - 1].tells, kind |-> e[i - 1].kind]
    BY <2>2 DEF EntryRecord
  <2>4. QED BY <1>6, <2>3
<1>7. QED BY <1>5, <1>6

LEMMA RememberedTells ==
  ASSUME ShapeInv, Remembered
  PROVE  ForgettingIsExplained
<1>1. SUFFICES ASSUME NEW t \in Composing, slips = {} PROVE Forgotten(t) = {}
  BY DEF ForgettingIsExplained
<1>2. FlightTold(turn[t], said) /\ turn[t].at = "composed" /\ turn[t] \in TurnRecord
  BY <1>1 DEF Composing, Remembered, ToldInv, ShapeInv
<1>3. turn[t].context \in Seq(EntryRecord)
  BY <1>2 DEF TurnRecord
<1>4. DOMAIN turn[t].context = 1 .. Len(turn[t].context)
  BY <1>3, LenProperties
<1>5. ASSUME NEW n, Tells(turn[t].context, n) PROVE n \in Told(t)
  <2>1. PICK i \in 1 .. Len(turn[t].context) : n \in turn[t].context[i].tells
    BY <1>5 DEF Tells
  <2>2. turn[t].context[i] \in Range(turn[t].context)
    BY <1>4 DEF Range
  <2>3. QED BY <2>1, <2>2 DEF Told
<1>6. \A m \in said : m.of = turn[t].of => m.n \in Told(t)
  BY <1>2, <1>5 DEF FlightTold
<1>7. QED BY <1>6 DEF Forgotten, Numbers, Of

LEMMA RememberedIntact ==
  ASSUME ShapeInv, Remembered
  PROVE  ThreadIntact
<1>1. thread \in Seq(Message) /\ DOMAIN thread = 1 .. Len(thread)
  BY LenProperties DEF ShapeInv, ThreadOK
<1>2. ASSUME "switch" \notin slips, NEW m \in Range(thread) PROVE m.of = conv
  <2>1. AllOf(thread, conv)
    BY <1>2 DEF Remembered, OwnInv
  <2>2. QED BY <1>1, <2>1 DEF AllOf, Range
<1>3. ASSUME slips \subseteq {"unread", "trim"}
      PROVE  Numbers(Of(conv)) \subseteq Numbers(Range(thread)) \cup summary
  <2>1. CoversAll(thread, summary, said, conv)
    BY <1>3 DEF Remembered, WholeInv, Tame
  <2>2. \A n : Holds(thread, n) => n \in Numbers(Range(thread))
    BY <1>1 DEF Holds, Numbers, Range
  <2>3. QED BY <2>1, <2>2 DEF CoversAll, Of, Numbers
<1>4. QED BY <1>2, <1>3 DEF ThreadIntact

\* Threads, turns and saved conversations are sequences of numbered messages, and
\* a summary stands for messages that were said (page.tsx, openai.ts).
THEOREM ConversationTypesHold == ConversationSpec => []ConversationTypeOK
<1>1. ShapeInv /\ Remembered => ConversationTypeOK
  BY ShapeTypes
<1>2. QED BY <1>1, ConversationAlways, PTL

\* In every history a model is given, a tool's result follows its call, unless it
\* is the first message that the compaction, the clamp or an earlier cut has left
\* (buildChatContext, clampHistory), for any lengths of the windows.
THEOREM OrphansAtTheCut == ConversationSpec => []OrphansOnlyAtTheCut
<1>1. ShapeInv /\ Remembered => OrphansOnlyAtTheCut
  BY ShapeOrphans
<1>2. QED BY <1>1, ConversationAlways, PTL

\* The page shows no message of another conversation as long as none was left with
\* a turn under way, and loses none as long as turns, saves and summaries go well
\* (page.tsx), for any number of turns and conversations.
THEOREM ThreadStaysIntact == ConversationSpec => []ThreadIntact
<1>1. ShapeInv /\ Remembered => ThreadIntact
  BY RememberedIntact
<1>2. QED BY <1>1, ConversationAlways, PTL

\* The model is told, in full or in a summary, all that was said in a conversation,
\* or one of the named slips of the page explains what it is not told.
THEOREM ForgettingExplained == ConversationSpec => []ForgettingIsExplained
<1>1. ShapeInv /\ Remembered => ForgettingIsExplained
  BY RememberedTells
<1>2. QED BY <1>1, ConversationAlways, PTL

-----------------------------------------------------------------------------
(***************************************************************************)
(* The smoke tools: the registry keeps its own invariants, which are       *)
(* proved in McpTokensProofs; a run of a tool adds what it may count on.   *)
(***************************************************************************)

RegistryProofs == INSTANCE McpTokensProofs WITH
  Tokens <- SmokeTokens, Wallets <- {Wallet}, Terms <- Scopes,
  MaxFaults <- MaxRegistryFaults, MaxKills <- MaxRegistryKills,
  loaded <- regLoaded, cache <- regCache, file <- regFile, wallet <- regWallet,
  terms <- regTerms, issued <- regIssued, first <- regFirst, passed <- regPassed,
  given <- regGiven, withdrawn <- regWithdrawn, faults <- regFaults, kills <- regKills

-----------------------------------------------------------------------------
(* The registry the tools use is the registry of the proofs *)
\* The two instances of the registry are the same, definition by definition.
LEMMA SameState ==
  /\ Registry!TypeOK <=> RegistryProofs!TypeOK
  /\ Registry!Init <=> RegistryProofs!Init
  /\ \A r : Registry!Active(r) = RegistryProofs!Active(r)
  /\ \A r, w : Registry!ActiveOf(r, w) = RegistryProofs!ActiveOf(r, w)
<1> USE DEF Registry!Registries, RegistryProofs!Registries, Registry!Empty, RegistryProofs!Empty,
            Registry!Active, RegistryProofs!Active
<1>1. Registry!TypeOK <=> RegistryProofs!TypeOK
  BY DEF Registry!TypeOK, RegistryProofs!TypeOK
<1>2. Registry!Init <=> RegistryProofs!Init
  BY DEF Registry!Init, RegistryProofs!Init
<1>3. QED BY <1>1, <1>2 DEF Registry!ActiveOf, RegistryProofs!ActiveOf

LEMMA SameOperations ==
  /\ Registry!Load => RegistryProofs!Load
  /\ Registry!Restart => RegistryProofs!Restart
  /\ \A t : Registry!Create(t) => RegistryProofs!Create(t)
  /\ \A t : Registry!Verify(t) => RegistryProofs!Verify(t)
  /\ \A t : Registry!Revoke(t) => RegistryProofs!Revoke(t) /\ t \in SmokeTokens \cup regCache.known
<1> USE DEF Registry!Empty, RegistryProofs!Empty, Registry!Active, RegistryProofs!Active,
            Registry!ActiveOf, RegistryProofs!ActiveOf, Registry!Told, RegistryProofs!Told,
            Registry!Owners, RegistryProofs!Owners, Registry!Written, RegistryProofs!Written,
            Registry!Untold, RegistryProofs!Untold, Registry!Thrown, RegistryProofs!Thrown,
            Registry!Killed, RegistryProofs!Killed
<1>1. Registry!Load => RegistryProofs!Load
  BY DEF Registry!Load, RegistryProofs!Load
<1>2. Registry!Restart => RegistryProofs!Restart
  BY DEF Registry!Restart, RegistryProofs!Restart
<1>3. ASSUME NEW t, Registry!Create(t) PROVE RegistryProofs!Create(t)
  BY <1>3 DEF Registry!Create, RegistryProofs!Create, Registry!Fresh, RegistryProofs!Fresh,
              Registry!Issuing, RegistryProofs!Issuing
<1>4. ASSUME NEW t, Registry!Verify(t) PROVE RegistryProofs!Verify(t)
  BY <1>4 DEF Registry!Verify, RegistryProofs!Verify, Registry!Accepted, RegistryProofs!Accepted
<1>5. ASSUME NEW t, Registry!Revoke(t)
      PROVE  RegistryProofs!Revoke(t) /\ t \in SmokeTokens \cup regCache.known
  BY <1>5 DEF Registry!Revoke, RegistryProofs!Revoke, Registry!Revoking, RegistryProofs!Revoking
<1>6. QED BY <1>1, <1>2, <1>3, <1>4, <1>5

\* What a step of the tools does to the registry is a step of the registry.
RegistryMoves == [RegistryProofs!Next]_RegistryProofs!vars

LEMMA SilentMoves == UNCHANGED registryVars => RegistryMoves
BY DEF registryVars, RegistryMoves, RegistryProofs!vars

LEMMA OperationsMove ==
  /\ Registry!Load \/ Registry!Restart => RegistryMoves
  /\ \A t \in SmokeTokens : Registry!Create(t) \/ Registry!Verify(t) \/ Registry!Revoke(t) => RegistryMoves
BY SameOperations DEF RegistryMoves, RegistryProofs!Next

-----------------------------------------------------------------------------
(* A tool, and what it may count on *)

SmokeRecord ==
  [at : {"ready", "create", "narrow", "probe", "after", "revoke", "revoke narrow", "done", "failed"},
   before : SUBSET SmokeTokens, victims : SUBSET SmokeTokens,
   token : SUBSET SmokeTokens, narrow : SUBSET SmokeTokens,
   left : 0 .. Probes, good : BOOLEAN, cleaned : BOOLEAN]

Single(T) == \A a, b \in T : a = b

Alive == RegistryProofs!Active(regCache) \cup RegistryProofs!Active(regFile)

Unfailing == ~acknowledged /\ regFaults = 0 /\ regKills = 0

\* One run of a tool, when `ws` are withdrawn, `is` issued and `act` active.
SmokeOK(s, r, ws, is, act, quiet) ==
  /\ r \in SmokeRecord
  /\ r.at \in {"ready", "create", "narrow", "probe"} => r.left >= 1
  /\ r.at \in {"ready", "create"} => r.victims = {}
  /\ Single(r.token) /\ Single(r.narrow)
  /\ s \in BankrSmokes => r.narrow = {}
  /\ r.at = "revoke narrow" /\ r.cleaned => r.token \subseteq ws
  /\ r.at = "done" /\ r.cleaned => r.token \cup r.narrow \subseteq ws
  /\ s \in BankrSmokes /\ quiet =>
       /\ r.victims \cap r.before = {}
       /\ r.at = "create" => r.before \subseteq is /\ r.before \cap act = {}

SmokeInv ==
  /\ RegistryProofs!SoundInv /\ RegistryProofs!SavedInv /\ RegistryProofs!RevocationHolds
  /\ lost \in 0 .. MaxLost
  /\ smoke \in [Smokes -> SmokeRecord]
  /\ \A s \in Smokes : SmokeOK(s, smoke[s], regWithdrawn, regIssued, Alive, Unfailing)

\* What a step of the registry leaves of a run's grounds.
LEMMA RegistryStep ==
  ASSUME SmokeInv, RegistryMoves
  PROVE  /\ RegistryProofs!SoundInv' /\ RegistryProofs!SavedInv' /\ RegistryProofs!RevocationHolds'
         /\ regIssued \subseteq regIssued' /\ regWithdrawn \subseteq regWithdrawn'
         /\ regIssued \cap Alive' \subseteq Alive
         /\ acknowledged' = acknowledged => (Unfailing' => Unfailing)
<1>1. /\ RegistryProofs!SoundInv /\ RegistryProofs!SavedInv /\ RegistryProofs!RevocationHolds
      /\ [RegistryProofs!Next]_RegistryProofs!vars
  BY DEF SmokeInv, RegistryMoves
<1>2. RegistryProofs!SoundInv' /\ RegistryProofs!SavedInv' /\ RegistryProofs!RevocationHolds'
  BY <1>1, RegistryProofs!SoundStep, RegistryProofs!SavedStep, RegistryProofs!RevocationStep,
     SmokeToolsAssumption
<1>3. /\ regIssued \subseteq regIssued' /\ regWithdrawn \subseteq regWithdrawn'
      /\ \A t \in regIssued :
           t \notin RegistryProofs!Active(regCache) \cup RegistryProofs!Active(regFile)
             => t \notin RegistryProofs!Active(regCache') \cup RegistryProofs!Active(regFile')
  BY <1>1, RegistryProofs!RetiredStays, SmokeToolsAssumption
<1>4. Alive' = RegistryProofs!Active(regCache') \cup RegistryProofs!Active(regFile')
  BY DEF Alive, RegistryProofs!Active
<1>5. regIssued \cap Alive' \subseteq Alive
  BY <1>3, <1>4 DEF Alive
<1>6. /\ regFaults <= regFaults' /\ regKills <= regKills' /\ regFaults \in Nat /\ regKills \in Nat
  BY <1>1, RegistryProofs!FailuresCount, SmokeToolsAssumption
     DEF RegistryProofs!SoundInv, RegistryProofs!TypeOK
<1>7. acknowledged' = acknowledged => (Unfailing' => Unfailing)
  BY <1>6 DEF Unfailing
<1>8. QED BY <1>2, <1>3, <1>5, <1>7

\* Withdrawn tokens stay withdrawn, and what is retired stays so.
LEMMA SmokeOKStays ==
  ASSUME NEW s, NEW r, NEW ws, NEW is, NEW act, NEW quiet, SmokeOK(s, r, ws, is, act, quiet),
         NEW vs, NEW js, NEW alive, NEW calm,
         ws \subseteq vs, is \subseteq js, is \cap alive \subseteq act, calm => quiet
  PROVE  SmokeOK(s, r, vs, js, alive, calm)
BY DEF SmokeOK

\* A step of one run, with what it does to the registry.
LEMMA SmokeTakes ==
  ASSUME SmokeInv, RegistryMoves, NEW s \in Smokes, NEW r, SmokeBecomes(s, r),
         acknowledged' = acknowledged, lost' \in 0 .. MaxLost,
         SmokeOK(s, r, regWithdrawn', regIssued', Alive', Unfailing')
  PROVE  SmokeInv'
<1>1. /\ regIssued \subseteq regIssued' /\ regWithdrawn \subseteq regWithdrawn'
      /\ regIssued \cap Alive' \subseteq Alive /\ (Unfailing' => Unfailing)
      /\ RegistryProofs!SoundInv' /\ RegistryProofs!SavedInv' /\ RegistryProofs!RevocationHolds'
  BY RegistryStep
<1>2. smoke \in [Smokes -> SmokeRecord] /\ smoke' = [smoke EXCEPT ![s] = r] /\ r \in SmokeRecord
  BY DEF SmokeInv, SmokeBecomes, SmokeOK
<1>3. /\ smoke' \in [Smokes -> SmokeRecord] /\ smoke'[s] = r
      /\ \A u \in Smokes \ {s} : smoke'[u] = smoke[u]
  BY <1>2
<1>4. ASSUME NEW u \in Smokes \ {s}
      PROVE  SmokeOK(u, smoke'[u], regWithdrawn', regIssued', Alive', Unfailing')
  <2>1. SmokeOK(u, smoke[u], regWithdrawn, regIssued, Alive, Unfailing)
    BY DEF SmokeInv
  <2>2. SmokeOK(u, smoke[u], regWithdrawn', regIssued', Alive', Unfailing')
    BY <1>1, <2>1, SmokeOKStays
  <2>3. QED BY <1>3, <2>2
<1>5. \A u \in Smokes : SmokeOK(u, smoke'[u], regWithdrawn', regIssued', Alive', Unfailing')
  BY <1>3, <1>4
<1>6. QED BY <1>1, <1>3, <1>5 DEF SmokeInv

\* What a run of a tool could count on, it still can after a step.
LEMMA SmokeStands ==
  ASSUME SmokeInv, RegistryMoves, acknowledged' = acknowledged, NEW s \in Smokes
  PROVE  /\ smoke[s] \in SmokeRecord
         /\ SmokeOK(s, smoke[s], regWithdrawn', regIssued', Alive', Unfailing')
         /\ Unfailing' => Unfailing
<1>1. /\ regIssued \subseteq regIssued' /\ regWithdrawn \subseteq regWithdrawn'
      /\ regIssued \cap Alive' \subseteq Alive /\ (Unfailing' => Unfailing)
  BY RegistryStep
<1>2. SmokeOK(s, smoke[s], regWithdrawn, regIssued, Alive, Unfailing) /\ smoke[s] \in SmokeRecord
  BY DEF SmokeInv
<1>3. QED BY <1>1, <1>2, SmokeOKStays

\* Steps that leave the registry alone.
LEMMA RegistrySilence ==
  RegistrySilent => RegistryMoves /\ acknowledged' = acknowledged
BY SilentMoves DEF RegistrySilent

LEMMA LostWithin ==
  SmokeInv /\ (SmokeCalm \/ Lose \/ UNCHANGED lost \/ (lost < MaxLost /\ lost' = lost + 1))
    => lost' \in 0 .. MaxLost
BY SmokeToolsAssumption DEF SmokeInv, SmokeCalm, Lose

\* A run that gives up.
LEMMA FailedOK ==
  ASSUME NEW s, NEW q, NEW ws, NEW is, NEW act, NEW quiet, SmokeOK(s, q, ws, is, act, quiet)
  PROVE  SmokeOK(s, [q EXCEPT !.at = "failed"], ws, is, act, quiet)
<1> DEFINE r == [q EXCEPT !.at = "failed"]
<1>1. /\ r \in SmokeRecord /\ r.at = "failed" /\ r.victims = q.victims /\ r.before = q.before
      /\ r.token = q.token /\ r.narrow = q.narrow
  BY DEF SmokeOK, SmokeRecord
<1> HIDE DEF r
<1>2. SmokeOK(s, r, ws, is, act, quiet)
  BY <1>1 DEF SmokeOK
<1>3. QED BY <1>2 DEF r

LEMMA SmokeFails ==
  ASSUME SmokeInv, RegistryMoves, acknowledged' = acknowledged, lost' \in 0 .. MaxLost,
         NEW s \in Smokes, SmokeGoes(s, "failed")
  PROVE  SmokeInv'
<1>1. SmokeOK(s, smoke[s], regWithdrawn', regIssued', Alive', Unfailing')
  BY SmokeStands
<1>2. SmokeOK(s, [smoke[s] EXCEPT !.at = "failed"], regWithdrawn', regIssued', Alive', Unfailing')
  BY <1>1, FailedOK
<1>3. SmokeBecomes(s, [smoke[s] EXCEPT !.at = "failed"])
  BY DEF SmokeGoes
<1>4. QED BY <1>2, <1>3, SmokeTakes

\* Asking for a token, whatever comes of it.
Throws(q, failing) == [q EXCEPT !.good = FALSE, !.at = failing]
Asking(q) == [q EXCEPT !.victims = @ \cup ActiveTokens]

LEMMA Obtaining ==
  ASSUME SmokeInv, NEW s, NEW scope, NEW field, NEW next, NEW failing,
         Obtain(s, scope, field, next, failing)
  PROVE  /\ RegistryMoves /\ acknowledged' = acknowledged /\ lost' \in 0 .. MaxLost
         /\ \/ SmokeBecomes(s, Throws(smoke[s], failing))
            \/ SmokeBecomes(s, Asking(Throws(smoke[s], failing)))
            \/ \E t \in SmokeTokens :
                 SmokeBecomes(s, Asking([smoke[s] EXCEPT ![field] = {t}, !.at = next]))
<1>1. CASE RegistrySilent /\ Lose /\ SmokeBecomes(s, Throws(smoke[s], failing))
  BY <1>1, RegistrySilence, LostWithin
<1>2. ASSUME NEW t \in SmokeTokens, Registry!Create(t),
             \/ Stored /\ SmokeCalm
                /\ SmokeBecomes(s, Asking([smoke[s] EXCEPT ![field] = {t}, !.at = next]))
             \/ Stored /\ Lose /\ SmokeBecomes(s, Asking(Throws(smoke[s], failing)))
             \/ ~Stored /\ SmokeCalm /\ SmokeBecomes(s, Asking(Throws(smoke[s], failing)))
      PROVE  /\ RegistryMoves /\ acknowledged' = acknowledged /\ lost' \in 0 .. MaxLost
             /\ \/ SmokeBecomes(s, Asking(Throws(smoke[s], failing)))
                \/ SmokeBecomes(s, Asking([smoke[s] EXCEPT ![field] = {t}, !.at = next]))
  <2>1. RegistryMoves
    BY <1>2, OperationsMove
  <2>2. (SmokeCalm \/ Lose) => acknowledged' = acknowledged /\ lost' \in 0 .. MaxLost
    BY LostWithin DEF SmokeCalm, Lose
  <2>3. QED BY <1>2, <2>1, <2>2
<1>3. QED BY <1>1, <1>2 DEF Obtain, Throws, Asking

\* The tokens the new one supersedes are active in memory.
LEMMA VictimsWereAlive ==
  SmokeInv => ActiveTokens \subseteq Alive /\ ActiveTokens \subseteq SmokeTokens
BY SameState DEF SmokeInv, RegistryProofs!SoundInv, RegistryProofs!TypeOK, RegistryProofs!Registries,
   ActiveTokens, Alive, Registry!ActiveOf, RegistryProofs!Active, Registry!Active

\* The registry's tokens are all the wallet's own.
LEMMA AllOfOneWallet ==
  SmokeInv => Registry!ActiveOf(regCache, Wallet) = RegistryProofs!Active(regCache)
<1> SUFFICES ASSUME SmokeInv PROVE Registry!ActiveOf(regCache, Wallet) = RegistryProofs!Active(regCache)
  OBVIOUS
<1>1. regWallet \in [SmokeTokens -> {Wallet}] /\ regCache.known \subseteq SmokeTokens
  BY DEF SmokeInv, RegistryProofs!SoundInv, RegistryProofs!TypeOK, RegistryProofs!Registries
<1>2. \A t \in regCache.known : regWallet[t] = Wallet
  BY <1>1
<1>3. QED BY <1>2 DEF Registry!ActiveOf, Registry!Active, RegistryProofs!Active

\* A Bankr smoke goes on from its list only when nothing of the wallet's is active.
LEMMA ListStep == \A s \in BankrSmokes : SmokeInv /\ List(s) => SmokeInv'
<1> SUFFICES ASSUME NEW s \in BankrSmokes, SmokeInv, List(s) PROVE SmokeInv'
  OBVIOUS
<1>0. s \in Smokes
  BY DEF Smokes
<1>1. RegistryMoves /\ acknowledged' = acknowledged /\ lost' \in 0 .. MaxLost
  BY RegistrySilence, LostWithin DEF List
<1>2. CASE SmokeGoes(s, "failed")
  BY <1>0, <1>1, <1>2, SmokeFails
<1>3. CASE /\ ActiveTokens = {} \/ acknowledged
           /\ SmokeBecomes(s, [smoke[s] EXCEPT !.at = "create", !.before = regIssued])
  <2> DEFINE r == [smoke[s] EXCEPT !.at = "create", !.before = regIssued]
             q == smoke[s]
  <2>1. q \in SmokeRecord /\ SmokeOK(s, q, regWithdrawn', regIssued', Alive', Unfailing')
    BY <1>0, <1>1, SmokeStands
  <2>2. regIssued \subseteq SmokeTokens /\ q.at = "ready"
    BY DEF SmokeInv, RegistryProofs!SoundInv, RegistryProofs!TypeOK, List
  <2>3. /\ r \in SmokeRecord /\ r.at = "create" /\ r.before = regIssued /\ r.victims = q.victims
        /\ r.token = q.token /\ r.narrow = q.narrow /\ r.left = q.left
    BY <2>1, <2>2 DEF SmokeRecord
  <2>4. /\ regIssued' = regIssued /\ regCache' = regCache /\ regFile' = regFile
        /\ regFaults' = regFaults /\ regKills' = regKills /\ regLoaded /\ acknowledged' = acknowledged
    BY DEF List, RegistrySilent, registryVars
  <2>5. Unfailing' => Alive' = {}
    <3> SUFFICES ASSUME Unfailing' PROVE Alive' = {}
      OBVIOUS
    <3>1. /\ Unfailing /\ Alive' = Alive
      BY <2>4 DEF Unfailing, Alive, RegistryProofs!Active
    <3>2. RegistryProofs!Active(regCache) = {}
      BY <3>1, <1>3, AllOfOneWallet DEF ActiveTokens, Unfailing
    <3>3. regCache = regFile
      BY <2>4, <3>1 DEF SmokeInv, RegistryProofs!SavedInv, Unfailing
    <3>4. QED BY <3>1, <3>2, <3>3 DEF Alive
  <2> HIDE DEF r
  <2>6. SmokeOK(s, r, regWithdrawn', regIssued', Alive', Unfailing')
    BY <2>1, <2>2, <2>3, <2>4, <2>5 DEF SmokeOK
  <2>7. SmokeBecomes(s, r)
    BY <1>3 DEF r
  <2>8. QED BY <1>0, <1>1, <2>6, <2>7, SmokeTakes
<1>4. QED BY <1>2, <1>3 DEF List

\* What a token costs the others is what was active when it was asked for.
CostOK(s, q, r) ==
  /\ r \in SmokeRecord
  /\ r.at \in {"failed", "revoke", "probe", "narrow"} /\ r.left = q.left /\ r.before = q.before
  /\ r.victims = q.victims \cup ActiveTokens

\* A token was asked for, and its cost counted.
LEMMA CostStep ==
  ASSUME SmokeInv, RegistryMoves, acknowledged' = acknowledged, lost' \in 0 .. MaxLost,
         NEW s \in Smokes, NEW r, SmokeBecomes(s, r),
         CostOK(s, smoke[s], r), smoke[s].at \in {"ready", "create", "narrow"},
         s \in BankrSmokes => smoke[s].at = "create" /\ r.narrow = {},
         Single(r.token), Single(r.narrow)
  PROVE  SmokeInv'
<1> DEFINE q == smoke[s]
<1>1. /\ SmokeOK(s, q, regWithdrawn, regIssued, Alive, Unfailing)
      /\ ActiveTokens \subseteq Alive /\ (Unfailing' => Unfailing)
  BY VictimsWereAlive, SmokeStands DEF SmokeInv
<1>2. s \in BankrSmokes /\ Unfailing' => r.victims \cap r.before = {}
  BY <1>1 DEF SmokeOK, CostOK
<1>3. r.at \in {"probe", "narrow"} => r.left >= 1
  BY <1>1 DEF SmokeOK, CostOK
<1>4. SmokeOK(s, r, regWithdrawn', regIssued', Alive', Unfailing')
  BY <1>2, <1>3 DEF SmokeOK, CostOK
<1>5. QED BY <1>4, SmokeTakes

LEMMA GivenUp ==
  ASSUME NEW q \in SmokeRecord, NEW failing \in {"failed", "revoke"}
  PROVE  LET r == Throws(q, failing)
         IN /\ r \in SmokeRecord /\ r.at = failing /\ r.left = q.left /\ r.before = q.before
            /\ r.victims = q.victims /\ r.token = q.token /\ r.narrow = q.narrow
BY DEF SmokeRecord, Throws

LEMMA Costing ==
  ASSUME NEW q \in SmokeRecord, ActiveTokens \subseteq SmokeTokens
  PROVE  LET r == Asking(q)
         IN /\ r \in SmokeRecord /\ r.at = q.at /\ r.left = q.left /\ r.before = q.before
            /\ r.victims = q.victims \cup ActiveTokens /\ r.token = q.token /\ r.narrow = q.narrow
BY DEF SmokeRecord, Asking

\* A creation the tool hears nothing of, or that is refused without a trace.
LEMMA ThrowStep ==
  ASSUME SmokeInv, RegistryMoves, acknowledged' = acknowledged, lost' \in 0 .. MaxLost,
         NEW s \in Smokes, NEW failing \in {"failed", "revoke"},
         SmokeBecomes(s, Throws(smoke[s], failing))
  PROVE  SmokeInv'
<1> DEFINE q == smoke[s]
           r == Throws(q, failing)
<1>1. q \in SmokeRecord /\ SmokeOK(s, q, regWithdrawn', regIssued', Alive', Unfailing')
  BY SmokeStands
<1>2. /\ r \in SmokeRecord /\ r.at = failing /\ r.left = q.left /\ r.before = q.before
      /\ r.victims = q.victims /\ r.token = q.token /\ r.narrow = q.narrow
  BY <1>1, GivenUp
<1> HIDE DEF r
<1>3. SmokeOK(s, r, regWithdrawn', regIssued', Alive', Unfailing')
  BY <1>1, <1>2 DEF SmokeOK
<1>4. QED BY <1>3, SmokeTakes DEF r

LEMMA CreateStep ==
  ASSUME SmokeInv, NEW s \in Smokes,
         \/ s \in BankrSmokes /\ CreateBase(s)
         \/ s \in GraphSmokes /\ (CreateFull(s) \/ CreateNarrow(s))
  PROVE  SmokeInv'
<1> DEFINE q == smoke[s]
           first(t, next) == [q EXCEPT !["token"] = {t}, !.at = next]
           second(t) == [q EXCEPT !["narrow"] = {t}, !.at = "probe"]
<1>1. /\ RegistryMoves /\ acknowledged' = acknowledged /\ lost' \in 0 .. MaxLost
      /\ \/ \E failing \in {"failed", "revoke"} :
              SmokeBecomes(s, Throws(q, failing)) \/ SmokeBecomes(s, Asking(Throws(q, failing)))
         \/ \E t \in SmokeTokens :
              \/ SmokeBecomes(s, Asking(first(t, "probe")))
              \/ SmokeBecomes(s, Asking(first(t, "narrow")))
         \/ s \in GraphSmokes /\ \E t \in SmokeTokens : SmokeBecomes(s, Asking(second(t)))
  <2>1. CASE CreateBase(s) /\ s \in BankrSmokes
    BY <2>1, Obtaining DEF CreateBase
  <2>2. CASE CreateFull(s) /\ s \in GraphSmokes
    BY <2>2, Obtaining, SmokeToolsAssumption DEF CreateFull
  <2>3. CASE CreateNarrow(s) /\ s \in GraphSmokes
    BY <2>3, Obtaining DEF CreateNarrow
  <2>4. QED BY <2>1, <2>2, <2>3
<1>2. /\ q.at \in {"ready", "create", "narrow"} /\ (s \in BankrSmokes => q.at = "create")
      /\ s \in GraphSmokes => s \notin BankrSmokes
  BY SmokeToolsAssumption DEF CreateBase, CreateFull, CreateNarrow
<1>3. /\ q \in SmokeRecord /\ Single(q.token) /\ Single(q.narrow)
      /\ s \in BankrSmokes => q.narrow = {}
      /\ ActiveTokens \subseteq SmokeTokens
  BY SmokeStands, <1>1, VictimsWereAlive DEF SmokeOK
<1> HIDE DEF q
\* What a creation the registry made leaves of the run, cost included.
<1>4. ASSUME NEW r \in SmokeRecord, SmokeBecomes(s, Asking(r)),
             r.at \in {"failed", "revoke", "probe", "narrow"}, r.left = q.left, r.before = q.before,
             r.victims = q.victims, Single(r.token), Single(r.narrow),
             s \in BankrSmokes => r.narrow = {}
      PROVE  SmokeInv'
  <2> DEFINE a == Asking(r)
  <2>1. /\ a \in SmokeRecord /\ a.at = r.at /\ a.left = r.left /\ a.before = r.before
        /\ a.victims = r.victims \cup ActiveTokens /\ a.token = r.token /\ a.narrow = r.narrow
    BY <1>3, Costing
  <2>2. SmokeBecomes(s, a)
    BY <1>4
  <2> HIDE DEF a
  <2>3. CostOK(s, q, a) /\ Single(a.token) /\ Single(a.narrow)
    BY <1>4, <2>1 DEF CostOK, Single
  <2>4. s \in BankrSmokes => a.narrow = {}
    BY <1>4, <2>1
  <2>5. QED BY <1>1, <1>2, <2>2, <2>3, <2>4, CostStep DEF q
<1>5. ASSUME NEW failing \in {"failed", "revoke"}, SmokeBecomes(s, Asking(Throws(q, failing)))
      PROVE  SmokeInv'
  <2> DEFINE r == Throws(q, failing)
  <2>1. /\ r \in SmokeRecord /\ r.at = failing /\ r.left = q.left /\ r.before = q.before
        /\ r.victims = q.victims /\ r.token = q.token /\ r.narrow = q.narrow
    BY <1>3, GivenUp
  <2>2. SmokeBecomes(s, Asking(r))
    BY <1>5
  <2> HIDE DEF r
  <2>3. Single(r.token) /\ Single(r.narrow) /\ (s \in BankrSmokes => r.narrow = {})
    BY <1>3, <2>1
  <2>4. QED BY <1>4, <2>1, <2>2, <2>3
<1>6. ASSUME NEW t \in SmokeTokens, NEW next \in {"probe", "narrow"}, SmokeBecomes(s, Asking(first(t, next)))
      PROVE  SmokeInv'
  <2> DEFINE r == first(t, next)
  <2>1. /\ r \in SmokeRecord /\ r.at = next /\ r.left = q.left /\ r.before = q.before
        /\ r.victims = q.victims /\ r.token = {t} /\ r.narrow = q.narrow
    BY <1>3 DEF SmokeRecord
  <2>2. SmokeBecomes(s, Asking(r))
    BY <1>6
  <2> HIDE DEF r
  <2>3. Single(r.token) /\ Single(r.narrow) /\ (s \in BankrSmokes => r.narrow = {})
    BY <1>3, <2>1 DEF Single
  <2>4. QED BY <1>4, <2>1, <2>2, <2>3
<1>7. ASSUME NEW t \in SmokeTokens, SmokeBecomes(s, Asking(second(t))), s \in GraphSmokes
      PROVE  SmokeInv'
  <2> DEFINE r == second(t)
  <2>1. /\ r \in SmokeRecord /\ r.at = "probe" /\ r.left = q.left /\ r.before = q.before
        /\ r.victims = q.victims /\ r.token = q.token /\ r.narrow = {t}
    BY <1>3 DEF SmokeRecord
  <2>2. SmokeBecomes(s, Asking(r))
    BY <1>7
  <2> HIDE DEF r
  <2>3. Single(r.token) /\ Single(r.narrow) /\ (s \in BankrSmokes => r.narrow = {})
    BY <1>2, <1>3, <1>7, <2>1 DEF Single
  <2>4. QED BY <1>4, <2>1, <2>2, <2>3
<1>8. ASSUME NEW failing \in {"failed", "revoke"}, SmokeBecomes(s, Throws(q, failing))
      PROVE  SmokeInv'
  BY <1>1, <1>8, ThrowStep DEF q
<1> HIDE DEF first, second
<1>9. QED BY <1>1, <1>5, <1>6, <1>7, <1>8

LEMMA RequestsLeft ==
  ASSUME NEW s, NEW q, NEW ws, NEW is, NEW act, NEW quiet, SmokeOK(s, q, ws, is, act, quiet),
         q.at = "probe"
  PROVE  q.left \in Nat /\ q.left >= 1 /\ q.left <= Probes /\ Probes \in Nat
<1>1. q.left \in 0 .. Probes
  BY DEF SmokeOK, SmokeRecord
<1>2. q.left >= 1
  BY DEF SmokeOK
<1>3. Probes \in Nat
  BY SmokeToolsAssumption
<1>4. QED BY <1>1, <1>2, <1>3

\* A probe uses up one request; the last one ends the probing.
LEMMA ProbedOK ==
  ASSUME NEW s, NEW q, NEW ws, NEW is, NEW act, NEW quiet, SmokeOK(s, q, ws, is, act, quiet),
         q.at = "probe", NEW r \in SmokeRecord,
         \/ r.left = q.left - 1 /\ r.at = IF q.left = 1 THEN "after" ELSE "probe"
         \/ r.left = q.left /\ r.at = "revoke",
         r.victims = q.victims, r.before = q.before, r.token = q.token, r.narrow = q.narrow
  PROVE  SmokeOK(s, r, ws, is, act, quiet)
<1>1. q.left \in Nat /\ q.left >= 1
  BY RequestsLeft
<1>2. r.at \in {"probe", "after", "revoke"} /\ (r.at = "probe" => r.left >= 1)
  BY <1>1
<1>3. QED BY <1>2 DEF SmokeOK

LEMMA ProbeStep == \A s \in Smokes : SmokeInv /\ Probe(s) => SmokeInv'
<1> SUFFICES ASSUME NEW s \in Smokes, SmokeInv, Probe(s) PROVE SmokeInv'
  OBVIOUS
<1> DEFINE q == smoke[s]
           probed(ok) == [q EXCEPT !.left = @ - 1, !.good = @ /\ ok,
                                   !.at = IF q.left = 1 THEN "after" ELSE @]
           cut == [q EXCEPT !.at = "revoke", !.good = FALSE]
<1>1. q.at = "probe" /\ \E t \in q.token : ProbeWith(s, t)
  BY DEF Probe
<1>2. q \in SmokeRecord /\ SmokeOK(s, q, regWithdrawn, regIssued, Alive, Unfailing)
  BY DEF SmokeInv
<1>3. /\ RegistryMoves /\ acknowledged' = acknowledged /\ lost' \in 0 .. MaxLost
      /\ \/ SmokeBecomes(s, cut)
         \/ \E ok \in BOOLEAN : SmokeBecomes(s, probed(ok))
  <2> PICK t \in q.token : ProbeWith(s, t)
    BY <1>1
  <2>1. t \in SmokeTokens
    BY <1>2 DEF SmokeRecord
  <2> HIDE DEF q
  <2>2. CASE /\ Registry!Verify(t) /\ SmokeCalm
             /\ \E ok \in BOOLEAN : (ok => Stored) /\ SmokeBecomes(s, probed(ok))
    BY <2>1, <2>2, OperationsMove, LostWithin DEF SmokeCalm
  <2>3. CASE RegistrySilent /\ UNCHANGED lost /\ SmokeBecomes(s, probed(FALSE))
    BY <2>3, RegistrySilence, LostWithin
  <2>4. CASE RegistrySilent /\ Lose /\ SmokeBecomes(s, cut)
    BY <2>4, RegistrySilence, LostWithin
  <2>5. QED BY <2>2, <2>3, <2>4 DEF ProbeWith, q
<1>4. SmokeOK(s, q, regWithdrawn', regIssued', Alive', Unfailing')
  BY <1>3, SmokeStands
<1> HIDE DEF q
<1>5. CASE SmokeBecomes(s, cut)
  <2>1. /\ cut \in SmokeRecord /\ cut.left = q.left /\ cut.at = "revoke"
        /\ cut.victims = q.victims /\ cut.before = q.before /\ cut.token = q.token
        /\ cut.narrow = q.narrow
    BY <1>2 DEF SmokeRecord
  <2> HIDE DEF cut
  <2>2. SmokeOK(s, cut, regWithdrawn', regIssued', Alive', Unfailing')
    BY <1>1, <1>4, <2>1, ProbedOK DEF q
  <2>3. QED BY <1>3, <1>5, <2>2, SmokeTakes
<1>6. ASSUME NEW ok \in BOOLEAN, SmokeBecomes(s, probed(ok))
      PROVE  SmokeInv'
  <2> DEFINE r == probed(ok)
             left == q.left - 1
             good == q.good /\ ok
             at == IF q.left = 1 THEN "after" ELSE q.at
  <2>1. q.left \in Nat /\ q.left >= 1 /\ q.left <= Probes /\ Probes \in Nat
    BY <1>1, <1>4, RequestsLeft
  <2>2. left \in 0 .. Probes /\ good \in BOOLEAN /\ at \in {"after", "probe"}
        /\ at = IF q.left = 1 THEN "after" ELSE "probe"
    BY <1>1, <2>1 DEF q
  <2>3. r = [q EXCEPT !.left = left, !.good = good, !.at = at]
    OBVIOUS
  <2> HIDE DEF left, good, at
  <2>4. /\ r \in SmokeRecord /\ r.left = left /\ r.at = at
        /\ r.victims = q.victims /\ r.before = q.before /\ r.token = q.token
        /\ r.narrow = q.narrow
    <3> HIDE DEF r
    <3>1. QED BY <1>2, <2>2, <2>3 DEF SmokeRecord
  <2>5. SmokeBecomes(s, r)
    BY <1>6
  <2> HIDE DEF r
  <2>6. r.left = q.left - 1 /\ r.at = IF q.left = 1 THEN "after" ELSE "probe"
    BY <2>2, <2>4 DEF left
  <2>7. SmokeOK(s, r, regWithdrawn', regIssued', Alive', Unfailing')
    BY <1>1, <1>4, <2>4, <2>6, ProbedOK DEF q
  <2>8. QED BY <1>3, <2>5, <2>7, SmokeTakes
<1> HIDE DEF cut, probed
<1>7. QED BY <1>3, <1>5, <1>6

\* A tool that was told its token is revoked may rely on it.
LEMMA RevokingOwn ==
  ASSUME SmokeInv, NEW s, NEW t \in SmokeTokens, NEW next, RevokeOwn(s, t, next)
  PROVE  /\ RegistryMoves /\ acknowledged' = acknowledged /\ lost' \in 0 .. MaxLost
         /\ \/ SmokeGoes(s, "failed")
            \/ \E ok \in BOOLEAN :
                 /\ ok => t \in regWithdrawn'
                 /\ SmokeBecomes(s, [smoke[s] EXCEPT !.cleaned = @ /\ ok, !.at = next])
            \/ SmokeBecomes(s, [smoke[s] EXCEPT !.cleaned = FALSE, !.at = next])
<1>1. CASE RegistrySilent /\ Lose /\ SmokeGoes(s, "failed")
  BY <1>1, RegistrySilence, LostWithin
<1>2. CASE /\ RegistrySilent /\ UNCHANGED lost
           /\ SmokeBecomes(s, [smoke[s] EXCEPT !.cleaned = FALSE, !.at = next])
  BY <1>2, RegistrySilence, LostWithin
<1>3. CASE /\ Registry!Revoke(t) /\ SmokeCalm
           /\ \E ok \in BOOLEAN : ok = Stored
                /\ SmokeBecomes(s, [smoke[s] EXCEPT !.cleaned = @ /\ ok, !.at = next])
  <2>1. RegistryMoves /\ acknowledged' = acknowledged /\ lost' \in 0 .. MaxLost
    BY <1>3, OperationsMove, LostWithin DEF SmokeCalm
  <2>2. Stored => t \in regWithdrawn'
    BY <1>3, SameOperations, RegistryProofs!RevokeTells, SmokeToolsAssumption
       DEF Stored, SmokeInv, RegistryProofs!SoundInv
  <2> DEFINE cleared(ok) == [smoke[s] EXCEPT !.cleaned = @ /\ ok, !.at = next]
  <2>3. PICK ok \in BOOLEAN : ok = Stored /\ SmokeBecomes(s, cleared(ok))
    BY <1>3
  <2> HIDE DEF cleared
  <2>4. \E told \in BOOLEAN : (told => t \in regWithdrawn') /\ SmokeBecomes(s, cleared(told))
    BY <2>2, <2>3
  <2>5. QED BY <2>1, <2>4 DEF cleared
<1>4. QED BY <1>1, <1>2, <1>3 DEF RevokeOwn

LEMMA RevokedOK ==
  ASSUME NEW s, NEW q, NEW ws, NEW is, NEW act, NEW quiet, SmokeOK(s, q, ws, is, act, quiet),
         NEW r \in SmokeRecord, r.at \in {"done", "revoke narrow", "failed"},
         r.victims = q.victims, r.before = q.before, r.token = q.token, r.narrow = q.narrow,
         r.cleaned => r.token \subseteq ws /\ (r.at = "done" => r.narrow \subseteq ws)
  PROVE  SmokeOK(s, r, ws, is, act, quiet)
BY DEF SmokeOK

\* The three ways a tool revokes a token of its own.
LEMMA RevokeStep ==
  ASSUME SmokeInv, NEW s \in Smokes,
         NEW t \in SmokeTokens, NEW next \in {"done", "revoke narrow", "failed"}, RevokeOwn(s, t, next),
         \/ s \in BankrSmokes /\ t \in smoke[s].token
         \/ next \in {"revoke narrow", "failed"} /\ t \in smoke[s].token
         \/ smoke[s].at = "revoke narrow" /\ t \in smoke[s].narrow
  PROVE  SmokeInv'
<1> DEFINE q == smoke[s]
           cleared(ok) == [q EXCEPT !.cleaned = @ /\ ok, !.at = next]
           held == [q EXCEPT !.cleaned = FALSE, !.at = next]
<1>1. /\ RegistryMoves /\ acknowledged' = acknowledged /\ lost' \in 0 .. MaxLost
      /\ \/ SmokeGoes(s, "failed")
         \/ \E ok \in BOOLEAN : (ok => t \in regWithdrawn') /\ SmokeBecomes(s, cleared(ok))
         \/ SmokeBecomes(s, held)
  BY RevokingOwn
<1>2. q \in SmokeRecord /\ SmokeOK(s, q, regWithdrawn', regIssued', Alive', Unfailing')
  BY <1>1, SmokeStands
<1>3. ASSUME q.cleaned, t \in regWithdrawn'
      PROVE  q.token \subseteq regWithdrawn' /\ (next = "done" => q.narrow \subseteq regWithdrawn')
  BY <1>2, <1>3 DEF SmokeOK, Single
<1> HIDE DEF q
<1>4. CASE SmokeGoes(s, "failed")
  BY <1>1, <1>4, SmokeFails
<1>5. CASE SmokeBecomes(s, held)
  <2>1. /\ held \in SmokeRecord /\ held.at = next /\ held.cleaned = FALSE
        /\ held.victims = q.victims /\ held.before = q.before /\ held.token = q.token
        /\ held.narrow = q.narrow
    BY <1>2 DEF SmokeRecord
  <2> HIDE DEF held
  <2>2. SmokeOK(s, held, regWithdrawn', regIssued', Alive', Unfailing')
    BY <1>2, <2>1, RevokedOK
  <2>3. QED BY <1>1, <1>5, <2>2, SmokeTakes
<1>6. ASSUME NEW ok \in BOOLEAN, ok => t \in regWithdrawn', SmokeBecomes(s, cleared(ok))
      PROVE  SmokeInv'
  <2> DEFINE r == cleared(ok)
             clean == q.cleaned /\ ok
  <2>1. clean \in BOOLEAN /\ (clean => q.cleaned /\ t \in regWithdrawn')
    BY <1>6
  <2>2. r = [q EXCEPT !.cleaned = clean, !.at = next]
    OBVIOUS
  <2> HIDE DEF clean
  <2>3. /\ r \in SmokeRecord /\ r.at = next /\ r.cleaned = clean
        /\ r.victims = q.victims /\ r.before = q.before /\ r.token = q.token
        /\ r.narrow = q.narrow
    <3> HIDE DEF r
    <3>1. QED BY <1>2, <2>1, <2>2 DEF SmokeRecord
  <2>4. SmokeBecomes(s, r)
    BY <1>6
  <2> HIDE DEF r
  <2>5. r.cleaned => r.token \subseteq regWithdrawn' /\ (r.at = "done" => r.narrow \subseteq regWithdrawn')
    BY <1>3, <2>1, <2>3
  <2>6. SmokeOK(s, r, regWithdrawn', regIssued', Alive', Unfailing')
    BY <1>2, <2>3, <2>5, RevokedOK
  <2>7. QED BY <1>1, <2>4, <2>6, SmokeTakes
<1> HIDE DEF cleared, held
<1>7. QED BY <1>1, <1>4, <1>5, <1>6

LEMMA DeniedStep == \A s \in GraphSmokes : SmokeInv /\ Denied(s) => SmokeInv'
<1> SUFFICES ASSUME NEW s \in GraphSmokes, SmokeInv, Denied(s) PROVE SmokeInv'
  OBVIOUS
<1> DEFINE q == smoke[s]
           refused(good) == [q EXCEPT !.good = good, !.at = "revoke"]
<1>1. /\ RegistryMoves /\ acknowledged' = acknowledged /\ lost' \in 0 .. MaxLost
  BY RegistrySilence, LostWithin DEF Denied
<1>2. s \in Smokes
  BY DEF Smokes
<1>3. q \in SmokeRecord /\ SmokeOK(s, q, regWithdrawn', regIssued', Alive', Unfailing')
  BY <1>1, <1>2, SmokeStands
<1>4. \E good \in BOOLEAN : SmokeBecomes(s, refused(good))
  <2>1. q.good \in BOOLEAN
    BY <1>3 DEF SmokeRecord
  <2>2. ASSUME NEW t, SmokeBecomes(s, refused(q.good /\ Registry!Accepted(t)))
        PROVE  <1>4!:
    <3>1. (q.good /\ Registry!Accepted(t)) \in BOOLEAN
      OBVIOUS
    <3> DEFINE good == q.good /\ Registry!Accepted(t)
    <3>2. SmokeBecomes(s, refused(good)) /\ good \in BOOLEAN
      BY <2>2, <3>1
    <3> HIDE DEF good, refused
    <3>3. QED BY <3>2
  <2>3. CASE SmokeBecomes(s, refused(FALSE))
    BY <2>3
  <2>4. QED BY <2>2, <2>3 DEF Denied
<1> HIDE DEF q
<1>5. PICK good \in BOOLEAN : SmokeBecomes(s, refused(good))
  BY <1>4
<1> DEFINE r == refused(good)
<1>6. /\ r \in SmokeRecord /\ r.at = "revoke"
      /\ r.victims = q.victims /\ r.before = q.before /\ r.token = q.token
      /\ r.narrow = q.narrow
  BY <1>3 DEF SmokeRecord
<1>7. SmokeBecomes(s, r)
  BY <1>5
<1> HIDE DEF r
<1>8. SmokeOK(s, r, regWithdrawn', regIssued', Alive', Unfailing')
  BY <1>3, <1>6 DEF SmokeOK
<1>9. QED BY <1>1, <1>2, <1>7, <1>8, SmokeTakes

LEMMA ElsewhereStep == SmokeInv /\ (Elsewhere \/ UNCHANGED smokeVars) => SmokeInv'
<1> SUFFICES ASSUME SmokeInv, Elsewhere \/ UNCHANGED smokeVars PROVE SmokeInv'
  OBVIOUS
<1>1. RegistryMoves /\ acknowledged' = acknowledged /\ smoke' = smoke /\ lost' = lost
  BY OperationsMove, SilentMoves DEF Elsewhere, smokeVars
<1>2. RegistryProofs!SoundInv' /\ RegistryProofs!SavedInv' /\ RegistryProofs!RevocationHolds'
  BY <1>1, RegistryStep
<1>3. \A s \in Smokes : SmokeOK(s, smoke'[s], regWithdrawn', regIssued', Alive', Unfailing')
  BY <1>1, SmokeStands
<1>4. smoke' \in [Smokes -> SmokeRecord] /\ lost' \in 0 .. MaxLost
  BY <1>1 DEF SmokeInv
<1>5. QED BY <1>2, <1>3, <1>4 DEF SmokeInv

LEMMA RevokeOwnSteps ==
  /\ \A s \in BankrSmokes : SmokeInv /\ RevokeBase(s) => SmokeInv'
  /\ \A s \in GraphSmokes : SmokeInv /\ (RevokeFull(s) \/ RevokeNarrow(s)) => SmokeInv'
<1>1. ASSUME NEW s \in Smokes, SmokeInv
      PROVE  /\ smoke[s].token \subseteq SmokeTokens /\ smoke[s].narrow \subseteq SmokeTokens
  BY <1>1 DEF SmokeInv, SmokeRecord
<1>2. ASSUME NEW s \in BankrSmokes, SmokeInv, RevokeBase(s) PROVE SmokeInv'
  <2>1. s \in Smokes
    BY DEF Smokes
  <2>2. PICK t \in smoke[s].token : RevokeOwn(s, t, "done")
    BY <1>2 DEF RevokeBase
  <2>3. t \in SmokeTokens
    BY <1>1, <1>2, <2>1
  <2>4. QED BY <1>2, <2>1, <2>2, <2>3, RevokeStep
<1>3. ASSUME NEW s \in GraphSmokes, SmokeInv, RevokeFull(s) PROVE SmokeInv'
  <2>1. s \in Smokes
    BY DEF Smokes
  <2> DEFINE next == IF smoke[s].narrow = {} THEN "failed" ELSE "revoke narrow"
  <2>2. PICK t \in smoke[s].token : RevokeOwn(s, t, next)
    BY <1>3 DEF RevokeFull
  <2>0. next \in {"revoke narrow", "failed"}
    OBVIOUS
  <2> HIDE DEF next
  <2>3. t \in SmokeTokens
    BY <1>1, <1>3, <2>1
  <2>4. QED BY <1>3, <2>0, <2>1, <2>2, <2>3, RevokeStep
<1>4. ASSUME NEW s \in GraphSmokes, SmokeInv, RevokeNarrow(s) PROVE SmokeInv'
  <2>1. s \in Smokes
    BY DEF Smokes
  <2>2. PICK t \in smoke[s].narrow : RevokeOwn(s, t, "done")
    BY <1>4 DEF RevokeNarrow
  <2>3. t \in SmokeTokens /\ smoke[s].at = "revoke narrow"
    BY <1>1, <1>4, <2>1 DEF RevokeNarrow
  <2>4. QED BY <1>4, <2>1, <2>2, <2>3, RevokeStep
<1>5. QED BY <1>2, <1>3, <1>4

LEMMA SmokeStep == SmokeInv /\ [SmokeNext]_smokeVars => SmokeInv'
<1> SUFFICES ASSUME SmokeInv, [SmokeNext]_smokeVars PROVE SmokeInv'
  OBVIOUS
<1>1. BankrSmokes \subseteq Smokes /\ GraphSmokes \subseteq Smokes
  BY DEF Smokes
<1>2. ASSUME NEW s \in BankrSmokes, List(s) \/ CreateBase(s) \/ RevokeBase(s)
      PROVE  SmokeInv'
  BY <1>1, <1>2, ListStep, CreateStep, RevokeOwnSteps
<1>3. ASSUME NEW s \in GraphSmokes,
             CreateFull(s) \/ CreateNarrow(s) \/ Denied(s) \/ RevokeFull(s) \/ RevokeNarrow(s)
      PROVE  SmokeInv'
  BY <1>1, <1>3, CreateStep, DeniedStep, RevokeOwnSteps
<1>4. QED BY <1>2, <1>3, ProbeStep, ElsewhereStep DEF SmokeNext

LEMMA SmokeStarts == SmokeInit => SmokeInv
<1> SUFFICES ASSUME SmokeInit PROVE SmokeInv
  OBVIOUS
<1>1. RegistryProofs!Init
  BY SameState DEF SmokeInit
<1>2. RegistryProofs!SoundInv
  BY <1>1, SmokeToolsAssumption, RegistryProofs!SoundAtFirst
<1>3. RegistryProofs!SavedInv
  BY <1>1, SmokeToolsAssumption, RegistryProofs!EmptyRegistry
     DEF RegistryProofs!Init, RegistryProofs!SavedInv
<1>4. RegistryProofs!RevocationHolds
  BY <1>1 DEF RegistryProofs!Init, RegistryProofs!RevocationHolds
<1>5. lost \in 0 .. MaxLost /\ Probes \in Nat /\ Probes >= 1
  BY SmokeToolsAssumption DEF SmokeInit
<1> DEFINE r == SmokeReady
<1>6. /\ r \in SmokeRecord /\ r.at = "ready" /\ r.left = Probes /\ r.victims = {}
      /\ r.token = {} /\ r.narrow = {}
  BY <1>5 DEF SmokeReady, SmokeRecord
<1> HIDE DEF r
<1>7. smoke = [s \in Smokes |-> r]
  BY DEF SmokeInit, r
<1>8. ASSUME NEW s \in Smokes
      PROVE  SmokeOK(s, smoke[s], regWithdrawn, regIssued, Alive, Unfailing)
  BY <1>5, <1>6, <1>7 DEF SmokeOK, Single
<1>9. QED BY <1>2, <1>3, <1>4, <1>5, <1>6, <1>7, <1>8 DEF SmokeInv

LEMMA SmokeAlways == SmokeSpec => []SmokeInv
<1>1. QED BY SmokeStarts, SmokeStep, PTL DEF SmokeSpec

\* The runs of the tools and the registry they use are well formed, whatever
\* answers are lost and whatever writes of the registry fail.
THEOREM SmokeTypesHold == SmokeSpec => []SmokeTypeOK
<1>1. SmokeInv => SmokeTypeOK
  BY SameState DEF SmokeInv, SmokeTypeOK, RegistryProofs!SoundInv, SmokeRecord
<1>2. QED BY <1>1, SmokeAlways, PTL

\* A receipt that passes vouches for the clean-up, and a Bankr smoke whose operator
\* has not acknowledged it costs the wallet no token that was there when the tool
\* listed them (bankr-live-smoke.ts, mcp-live-smoke.ts), for any number of runs,
\* tokens, probes, lost answers, failing writes and kills.
THEOREM SmokesKeepTheirWord == SmokeSpec => []SmokeKeepsItsWord
<1>1. SmokeInv => SmokeKeepsItsWord
  <2> SUFFICES ASSUME SmokeInv PROVE SmokeKeepsItsWord
    OBVIOUS
  <2>1. regWithdrawn \cap (Registry!Active(regCache) \cup Registry!Active(regFile)) = {}
    BY SameState DEF SmokeInv, RegistryProofs!RevocationHolds
  <2>2. ASSUME NEW s \in Smokes, SmokePasses(s)
        PROVE  smoke[s].token \cup smoke[s].narrow \subseteq regWithdrawn
    BY <2>2 DEF SmokeInv, SmokeOK, SmokePasses
  <2>3. ASSUME NEW s \in BankrSmokes, Unfailing
        PROVE  smoke[s].victims \cap smoke[s].before = {}
    BY <2>3 DEF SmokeInv, SmokeOK, Smokes
  <2>4. QED BY <2>1, <2>2, <2>3 DEF SmokeKeepsItsWord, Unfailing
<1>2. QED BY <1>1, SmokeAlways, PTL

-----------------------------------------------------------------------------
(* The parts together *)

\* In a scene one part takes a step of its own, and all others stay as they are.
LEMMA SceneSteps ==
  ASSUME [GatewayNext]_<<scene, allVars>>
  PROVE  /\ [GovernedCallNext]_governedCallVars /\ [ChatTurnNext]_chatTurnVars
         /\ [ConversationNext]_conversationVars /\ [SmokeNext]_smokeVars
         /\ [ReproLabNext]_labVars /\ [MemoryNext]_memoryVars /\ scene' = scene
<1>1. CASE UNCHANGED <<scene, allVars>>
  BY <1>1 DEF allVars
<1>2. CASE GatewayNext
  <2>1. scene' = scene
    BY <1>2 DEF GatewayNext
  <2>2. CASE Governed /\ UNCHANGED <<chatTurnVars, conversationVars, smokeVars, labVars, memoryVars>>
    BY <2>1, <2>2 DEF Governed
  <2>3. CASE Chatting /\ UNCHANGED <<governedCallVars, conversationVars, smokeVars, labVars, memoryVars>>
    BY <2>1, <2>3 DEF Chatting
  <2>4. CASE Conversing /\ UNCHANGED <<governedCallVars, chatTurnVars, smokeVars, labVars, memoryVars>>
    BY <2>1, <2>4 DEF Conversing
  <2>5. CASE Smoking /\ UNCHANGED <<governedCallVars, chatTurnVars, conversationVars, labVars, memoryVars>>
    BY <2>1, <2>5 DEF Smoking
  <2>6. CASE /\ Sampling \/ Browsing
             /\ UNCHANGED <<governedCallVars, chatTurnVars, conversationVars, smokeVars, memoryVars>>
    BY <2>1, <2>6 DEF Sampling, Browsing, ReproLabNext
  <2>7. CASE /\ Storing \/ Recalling \/ Debating
             /\ UNCHANGED <<governedCallVars, chatTurnVars, conversationVars, smokeVars, labVars>>
    BY <2>1, <2>7 DEF Storing, Recalling, Debating, MemoryNext
  <2>8. QED BY <1>2, <2>2, <2>3, <2>4, <2>5, <2>6, <2>7 DEF GatewayNext
<1>3. QED BY <1>1, <1>2

\* Seen from each part, every behaviour of the composed gateway is a behaviour of
\* the part's own specification, with the fairness of the chat route: what the
\* run shows of a part is not an artefact of running the parts together.
THEOREM ScenesAreParts ==
  GatewaySpec => /\ GovernedCallSpec /\ ChatTurnSpec /\ ConversationSpec
                 /\ SmokeSpec /\ ReproLabSpec /\ MemorySpec
<1>1. GatewayInit => /\ GovernedCallInit /\ ChatTurnInit /\ ConversationInit
                     /\ SmokeInit /\ ReproLabInit /\ MemoryInit
  BY DEF GatewayInit
<1>2. [GatewayNext]_<<scene, allVars>> =>
        /\ [GovernedCallNext]_governedCallVars /\ [ChatTurnNext]_chatTurnVars
        /\ [ConversationNext]_conversationVars /\ [SmokeNext]_smokeVars
        /\ [ReproLabNext]_labVars /\ [MemoryNext]_memoryVars
  BY SceneSteps
<1>3. QED
  BY <1>1, <1>2, PTL DEF GatewaySpec, GovernedCallSpec, ChatTurnSpec, ConversationSpec,
     SmokeSpec, ReproLabSpec, MemorySpec

\* All parts of the gateway and of its page are well formed in every scene, for
\* any values of the constants that meet the assumptions of the parts.
THEOREM GatewayTypesHold == GatewaySpec => []GatewayTypesOK
<1>1. GatewayInit => scene \in Scenes
  BY DEF GatewayInit
<1>2. scene \in Scenes /\ [GatewayNext]_<<scene, allVars>> => (scene \in Scenes)'
  BY SceneSteps
<1>3. GatewayTypesOK <=> /\ scene \in Scenes /\ GovernedCallTypeOK /\ ChatTurnTypeOK
                         /\ ConversationTypeOK /\ SmokeTypeOK /\ ReproLabTypeOK /\ MemoryTypeOK
  BY DEF GatewayTypesOK
<1>4. GatewaySpec => [](scene \in Scenes)
  BY <1>1, <1>2, PTL DEF GatewaySpec
<1>5. QED
  BY <1>3, <1>4, ScenesAreParts, CallTypesHold, ChatTypesHold, ConversationTypesHold,
     SmokeTypesHold, LabTypesHold, MemoryTypesHold, PTL
=============================================================================
