---------------------------- MODULE ReproLabProofs ----------------------------
(***************************************************************************)
(* Proofs about ReproLab, for any wallets, catalog and ledger, any page    *)
(* and sample size, and any number of runs, sign-ins, requests on their    *)
(* way and restarts.                                                       *)
(*                                                                         *)
(* The two tabs share nothing but the session, and each has an invariant   *)
(* of its own: a request that is alive asks what the filter says, and the  *)
(* run on display is the one the gateway has under its id, if it still has *)
(* any. The types add the session, the page's busy flag and the offsets a  *)
(* filter can reach, which are whole pages near the ledger.                *)
(***************************************************************************)
EXTENDS ReproLab, SequenceTheorems, TLAPS

-----------------------------------------------------------------------------
(* The complete tab *)

Filters == [split : Splits \cup {"any"}, offset : Int, search : Searches \cup {""}]
Tables ==
  [shown : BOOLEAN, query : Filters, busy : BOOLEAN, failed : BOOLEAN,
   data : {Slice(q) : q \in Filters} \cup {NoData}]
TableRequests == [query : Filters, alive : BOOLEAN]

AliveAsks == \A f \in asking : f.alive => f.query = table.query
RowsAnswer ==
  table.data # NoData /\ ~table.busy /\ ~table.failed => table.data = Slice(table.query)

TableInv ==
  /\ table \in Tables /\ asking \subseteq TableRequests
  /\ AliveAsks /\ RowsAnswer

LEMMA BuriedAreDead ==
  ASSUME asking \subseteq TableRequests
  PROVE  Buried \subseteq TableRequests /\ \A f \in Buried : ~f.alive
BY DEF Buried, TableRequests

\* An effect asks for the query on display, and only its request is alive.
LEMMA EffectKeeps ==
  ASSUME asking \subseteq TableRequests, NEW t \in Tables, Effect(t)
  PROVE  TableInv'
<1>1. /\ table' = [t EXCEPT !.busy = TRUE, !.failed = FALSE]
      /\ asking' = Buried \cup {[query |-> t.query, alive |-> TRUE]}
  BY DEF Effect
<1>2. table' \in Tables /\ table'.busy /\ table'.query = t.query
  BY <1>1 DEF Tables
<1>3. t.query \in Filters
  BY DEF Tables
<1>4. asking' \subseteq TableRequests /\ \A f \in asking' : f.alive => f.query = t.query
  <2> DEFINE new == [query |-> t.query, alive |-> TRUE]
  <2>1. new \in TableRequests /\ new.query = t.query
    BY <1>3 DEF TableRequests
  <2>2. asking' = Buried \cup {new}
    BY <1>1
  <2> HIDE DEF new
  <2>3. QED BY <2>1, <2>2, BuriedAreDead
<1>5. QED BY <1>2, <1>4 DEF TableInv, AliveAsks, RowsAnswer

\* A filter that is chosen starts at the first page.
LEMMA FiltersChange ==
  ASSUME NEW f \in Filters
  PROVE  /\ \A s \in Splits \cup {"any"} : [f EXCEPT !.split = s, !.offset = 0] \in Filters
         /\ \A text \in Searches \cup {""} :
              [f EXCEPT !.search = text, !.offset = 0] \in Filters
<1>1. ASSUME NEW g \in Filters PROVE [g EXCEPT !.offset = 0] \in Filters
  <2>1. \A n \in Int : [g EXCEPT !.offset = n] \in Filters
    BY DEF Filters
  <2>2. QED BY <2>1
<1>2. ASSUME NEW s \in Splits \cup {"any"}
      PROVE  [f EXCEPT !.split = s, !.offset = 0] \in Filters
  <2> DEFINE g == [f EXCEPT !.split = s]
  <2>1. g \in Filters
    BY DEF Filters
  <2>2. [g EXCEPT !.offset = 0] \in Filters
    <3> HIDE DEF g
    <3>1. QED BY <1>1, <2>1
  <2>3. QED BY <2>2
<1>3. ASSUME NEW text \in Searches \cup {""}
      PROVE  [f EXCEPT !.search = text, !.offset = 0] \in Filters
  <2> DEFINE g == [f EXCEPT !.search = text]
  <2>1. g \in Filters
    BY DEF Filters
  <2>2. [g EXCEPT !.offset = 0] \in Filters
    <3> HIDE DEF g
    <3>1. QED BY <1>1, <2>1
  <2>3. QED BY <2>2
<1>4. QED BY <1>2, <1>3

LEMMA TableStep ==
  ASSUME TableInv, TableNext
  PROVE  TableInv'
<1>1. table \in Tables /\ asking \subseteq TableRequests /\ AliveAsks /\ RowsAnswer
  BY DEF TableInv
<1>2. CASE OpenTable
  <2>1. [table EXCEPT !.shown = TRUE] \in Tables
    BY <1>1 DEF Tables
  <2>2. QED BY <1>1, <1>2, <2>1, EffectKeeps DEF OpenTable
<1>3. CASE LeaveTable
  <2>1. table' = [table EXCEPT !.shown = FALSE] /\ asking' = Buried
    BY <1>3 DEF LeaveTable
  <2>2. /\ table' \in Tables /\ table'.data = table.data /\ table'.busy = table.busy
        /\ table'.failed = table.failed /\ table'.query = table.query
    BY <1>1, <2>1 DEF Tables
  <2>3. asking' \subseteq TableRequests /\ \A f \in asking' : ~f.alive
    BY <1>1, <2>1, BuriedAreDead
  <2>4. QED BY <1>1, <2>2, <2>3 DEF TableInv, AliveAsks, RowsAnswer
<1>4. ASSUME NEW query \in Filters, Narrow(query) PROVE TableInv'
  <2>1. CASE query = table.query
    <3>1. table' = [table EXCEPT !.data = NoData] /\ asking' = asking
      BY <1>4, <2>1 DEF Narrow
    <3>2. table' \in Tables /\ table'.data = NoData /\ table'.query = table.query
      BY <1>1, <3>1 DEF Tables
    <3>3. QED BY <1>1, <3>1, <3>2 DEF TableInv, AliveAsks, RowsAnswer
  <2>2. CASE query # table.query
    <3>1. [table EXCEPT !.query = query, !.data = NoData] \in Tables
      BY <1>1 DEF Tables
    <3>2. QED BY <1>1, <1>4, <2>2, <3>1, EffectKeeps DEF Narrow
  <2>3. QED BY <2>1, <2>2
<1>5. CASE ChooseSplit \/ TypeSearch
  <2>1. table.query \in Filters
    BY <1>1 DEF Tables
  <2>2. CASE ChooseSplit
    <3>1. \A s \in Splits \cup {"any"} :
            [table.query EXCEPT !.split = s, !.offset = 0] \in Filters
      BY <2>1, FiltersChange
    <3>2. QED BY <1>4, <2>2, <3>1 DEF ChooseSplit
  <2>3. CASE TypeSearch
    <3>1. \A text \in Searches \cup {""} :
            [table.query EXCEPT !.search = text, !.offset = 0] \in Filters
      BY <2>1, FiltersChange
    <3>2. QED BY <1>4, <2>3, <3>1 DEF TypeSearch
  <2>4. QED BY <1>5, <2>2, <2>3
<1>6. CASE TurnPage
  <2>1. table.query \in Filters /\ table.query.offset \in Int /\ LabPage \in Nat
    BY <1>1, ReproLabAssumption DEF Tables, Filters
  <2>2. \A n \in Int : [table EXCEPT !.query.offset = n] \in Tables
    <3>1. SUFFICES ASSUME NEW n \in Int PROVE [table EXCEPT !.query.offset = n] \in Tables
      OBVIOUS
    <3>2. [table.query EXCEPT !.offset = n] \in Filters
      BY <2>1 DEF Filters
    <3>3. QED BY <1>1, <3>2 DEF Tables
  <2> DEFINE n == table.query.offset
  <2>3. n - LabPage \in Int /\ n + LabPage \in Int
    BY <2>1
  <2>4. \/ Effect([table EXCEPT !.query.offset = n - LabPage])
        \/ Effect([table EXCEPT !.query.offset = n + LabPage])
    BY <1>6 DEF TurnPage
  <2>5. CASE Effect([table EXCEPT !.query.offset = n - LabPage])
    BY <1>1, <2>2, <2>3, <2>5, EffectKeeps
  <2>6. CASE Effect([table EXCEPT !.query.offset = n + LabPage])
    BY <1>1, <2>2, <2>3, <2>6, EffectKeeps
  <2>7. QED BY <2>4, <2>5, <2>6
<1>7. ASSUME NEW f \in asking, TableAnswers(f) \/ TableFails(f) PROVE TableInv'
  <2>1. asking' = asking \ {f} /\ f.query \in Filters
    BY <1>1, <1>7 DEF TableAnswers, TableFails, TableRequests
  <2>2. CASE f.alive /\ TableAnswers(f)
    <3>1. f.query = table.query
      BY <1>1, <2>2 DEF AliveAsks
    <3>2. table' = [table EXCEPT !.data = Slice(table.query), !.busy = FALSE]
      BY <2>2, <3>1 DEF TableAnswers
    <3>3. Slice(table.query) \in {Slice(q) : q \in Filters} \cup {NoData}
      BY <2>1, <3>1
    <3>4. /\ table' \in Tables /\ table'.data = Slice(table.query)
          /\ table'.query = table.query
      BY <1>1, <3>2, <3>3 DEF Tables
    <3>5. QED BY <1>1, <2>1, <3>4 DEF TableInv, AliveAsks, RowsAnswer
  <2>3. CASE f.alive /\ TableFails(f)
    <3>1. table' = [table EXCEPT !.failed = TRUE, !.busy = FALSE]
      BY <2>3 DEF TableFails
    <3>2. table' \in Tables /\ table'.failed /\ table'.query = table.query
      BY <1>1, <3>1 DEF Tables
    <3>3. QED BY <1>1, <2>1, <3>2 DEF TableInv, AliveAsks, RowsAnswer
  <2>4. CASE ~f.alive
    <3>1. table' = table
      BY <1>7, <2>4 DEF TableAnswers, TableFails
    <3>2. QED BY <1>1, <2>1, <3>1 DEF TableInv, AliveAsks, RowsAnswer
  <2>5. QED BY <1>7, <2>2, <2>3, <2>4
<1>8. QED BY <1>2, <1>3, <1>5, <1>6, <1>7 DEF TableNext

-----------------------------------------------------------------------------
(* The sample tab *)

\* Records with the fields they have, whatever those hold.
SampleRecord(s) ==
  s \in [busy : {s.busy}, call : {s.call}, run : {s.run}, receipt : {s.receipt}]
SampleCall(c) ==
  c.step \in {"create", "receipt"} =>
    c \in [step : {c.step}, by : {c.by}, again : {c.again}, args : {c.args}]

\* Ids are minted once; the harness works on one that is not recorded yet.
IdsAreFresh ==
  /\ minted \in Nat /\ DOMAIN runs \subseteq 1 .. minted
  /\ job # NoJob =>
       /\ job.id \in (1 .. minted) \ DOMAIN runs
       /\ job.page => sample.call.step = "wait"

\* The run on display is the gateway's, unless a restart forgot it.
RunIsRecorded ==
  sample.run # NoRun =>
    /\ sample.run.id \in 1 .. minted
    /\ sample.run.id \in DOMAIN runs => runs[sample.run.id] = sample.run
    /\ job # NoJob => job.id # sample.run.id

\* What the page shows while a call is under way.
CallFits ==
  /\ ~sample.busy => sample.call.step = "idle"
  /\ sample.call.step \in {"create", "wait"} => sample.run = NoRun /\ sample.receipt = NoRun
  /\ sample.call.step = "receipt" =>
       /\ sample.run # NoRun /\ sample.receipt = NoRun
       /\ sample.call.args = sample.run.id

ReceiptAnswers ==
  sample.receipt # NoRun =>
    sample.run # NoRun /\ sample.receipt = ReceiptOf(sample.run)

SampleInv ==
  /\ SampleRecord(sample) /\ SampleCall(sample.call)
  /\ IdsAreFresh /\ RunIsRecorded /\ CallFits /\ ReceiptAnswers

\* A call that ends in an error leaves the page idle, with what it shows.
LEMMA FailureKeeps ==
  ASSUME SampleInv, sample' = SampleFailed, minted' = minted,
         DOMAIN runs' \subseteq DOMAIN runs, \A id \in DOMAIN runs' : runs'[id] = runs[id],
         \/ job' = NoJob
         \/ job' = job /\ (job # NoJob => ~job.page)
  PROVE  SampleInv'
<1>1. /\ SampleRecord(sample') /\ ~sample'.busy /\ sample'.call = Quiet
      /\ sample'.run = sample.run /\ sample'.receipt = sample.receipt
  BY DEF SampleInv, SampleRecord, SampleFailed
<1>2. sample'.call.step = "idle" /\ SampleCall(sample'.call)
  BY <1>1 DEF Quiet, SampleCall
<1>3. IdsAreFresh' /\ RunIsRecorded'
  BY <1>1, <1>2 DEF SampleInv, IdsAreFresh, RunIsRecorded
<1>4. CallFits'
  BY <1>1, <1>2 DEF CallFits
<1>5. ReceiptAnswers'
  BY <1>1 DEF SampleInv, ReceiptAnswers, ReceiptOf
<1>6. QED BY <1>1, <1>2, <1>3, <1>4, <1>5 DEF SampleInv, SampleRecord, SampleCall

\* The id of a job that is spawned is new.
LEMMA SpawnIsFresh ==
  ASSUME SampleInv, job = NoJob, runs' = runs,
         NEW wallet, NEW splits, NEW size, NEW page,
         Spawns(wallet, splits, size, page)
  PROVE  /\ minted' = minted + 1 /\ job' # NoJob /\ job'.page = page
         /\ job'.id = minted + 1 /\ job'.id \in (1 .. minted') \ DOMAIN runs'
<1>1. PICK refs \in SamplePlans(splits, size) :
        /\ job' = [id |-> minted + 1, wallet |-> wallet, refs |-> refs, page |-> page]
        /\ minted' = minted + 1
  BY DEF Spawns
<1>2. minted \in Nat /\ DOMAIN runs \subseteq 1 .. minted
  BY DEF SampleInv, IdsAreFresh
<1>3. job'.id = minted + 1 /\ job'.page = page
  BY <1>1
<1>4. job' # NoJob
  BY <1>2, <1>3 DEF NoJob
<1>5. QED BY <1>1, <1>2, <1>3, <1>4

LEMMA SampleStep ==
  ASSUME SampleInv, SampleNext
  PROVE  SampleInv'
<1> USE DEF SampleInv
<1>1. CASE RunSample
  <2>1. PICK size \in 1 .. 5, split \in Splits \cup {"any"} :
          sample' = [busy |-> TRUE, run |-> NoRun, receipt |-> NoRun,
            call |-> [step |-> "create", by |-> Recovered(session), again |-> FALSE,
                      args |-> [size |-> size,
                                splits |-> IF split = "any" THEN Splits ELSE {split}]]]
    BY <1>1 DEF RunSample
  <2>2. /\ SampleRecord(sample') /\ sample'.busy /\ sample'.run = NoRun
        /\ sample'.receipt = NoRun /\ sample'.call.step = "create"
        /\ SampleCall(sample'.call)
    BY <2>1 DEF SampleRecord, SampleCall
  <2>3. runs' = runs /\ job' = job /\ minted' = minted /\ ~sample.busy
    BY <1>1 DEF RunSample
  <2>4. job # NoJob => ~job.page
    BY <2>3 DEF IdsAreFresh, CallFits
  <2>5. IdsAreFresh' /\ RunIsRecorded' /\ CallFits' /\ ReceiptAnswers'
    BY <2>2, <2>3, <2>4 DEF IdsAreFresh, RunIsRecorded, CallFits, ReceiptAnswers
  <2>6. QED BY <2>2, <2>5 DEF SampleRecord, SampleCall
<1>2. ASSUME NEW step \in {"create", "receipt"}, Refused(step) PROVE SampleInv'
  <2>1. /\ job = NoJob /\ sample.call.step = step
        /\ runs' = runs /\ job' = job /\ minted' = minted
    BY <1>2 DEF Refused, Served
  <2>2. CASE sample' = SampleFailed
    BY <2>1, <2>2, FailureKeeps
  <2>3. CASE \E s : sample' = [sample EXCEPT !.call.by = s, !.call.again = TRUE]
    <3>1. PICK s : sample' = [sample EXCEPT !.call.by = s, !.call.again = TRUE]
      BY <2>3
    <3>2. sample.call \in [step : {sample.call.step}, by : {sample.call.by},
                           again : {sample.call.again}, args : {sample.call.args}]
      BY <2>1 DEF SampleCall
    <3>3. /\ SampleRecord(sample') /\ sample'.busy = sample.busy
          /\ sample'.run = sample.run /\ sample'.receipt = sample.receipt
          /\ sample'.call.step = step /\ sample'.call.args = sample.call.args
          /\ SampleCall(sample'.call)
      BY <2>1, <3>1, <3>2 DEF SampleRecord, SampleCall
    <3>4. IdsAreFresh' /\ RunIsRecorded' /\ CallFits'
      BY <2>1, <3>3 DEF IdsAreFresh, RunIsRecorded, CallFits
    <3>5. ReceiptAnswers'
      BY <3>3 DEF ReceiptAnswers, ReceiptOf
    <3>6. QED BY <3>3, <3>4, <3>5 DEF SampleRecord, SampleCall
  <2>4. QED BY <1>2, <2>2, <2>3 DEF Refused
<1>3. CASE CreateForPage
  <2>1. job = NoJob /\ sample.call.step = "create" /\ runs' = runs
    BY <1>3 DEF CreateForPage, Served
  <2>2. CASE sample' = SampleFailed /\ job' = job /\ minted' = minted
    BY <2>1, <2>2, FailureKeeps
  <2>3. CASE ~(sample' = SampleFailed /\ job' = job /\ minted' = minted)
    <3>1. /\ Spawns(sample.call.by.wallet, sample.call.args.splits,
                    sample.call.args.size, TRUE)
          /\ sample' = [sample EXCEPT !.call = [step |-> "wait"]]
      BY <1>3, <2>3 DEF CreateForPage
    <3>2. /\ minted' = minted + 1 /\ job' # NoJob
          /\ job'.id = minted + 1 /\ job'.id \in (1 .. minted') \ DOMAIN runs'
      BY <2>1, <3>1, SpawnIsFresh
    <3>3. /\ SampleRecord(sample') /\ sample'.busy = sample.busy
          /\ sample'.run = sample.run /\ sample'.receipt = sample.receipt
          /\ sample'.call.step = "wait" /\ SampleCall(sample'.call)
      BY <3>1 DEF SampleRecord, SampleCall
    <3>4. sample'.busy /\ sample'.run = NoRun /\ sample'.receipt = NoRun
      BY <2>1, <3>3 DEF CallFits
    <3>5. IdsAreFresh' /\ RunIsRecorded' /\ CallFits' /\ ReceiptAnswers'
      BY <2>1, <3>2, <3>3, <3>4
         DEF IdsAreFresh, RunIsRecorded, CallFits, ReceiptAnswers
    <3>6. QED BY <3>3, <3>5 DEF SampleRecord, SampleCall
  <2>4. QED BY <2>2, <2>3
<1>4. ASSUME NEW w \in Holders, NEW mode \in {"sample", "smoke"}, CreateElsewhere(w, mode)
      PROVE  SampleInv'
  <2>1. job = NoJob /\ sample' = sample
    BY <1>4 DEF CreateElsewhere
  <2>2. CASE Spawns(w, Splits, 1, FALSE) /\ runs' = runs
    <3>1. /\ minted' = minted + 1 /\ job' # NoJob /\ job'.page = FALSE
          /\ job'.id = minted + 1 /\ job'.id \in (1 .. minted') \ DOMAIN runs'
      BY <2>1, <2>2, SpawnIsFresh
    <3>2. IdsAreFresh' /\ RunIsRecorded'
      BY <2>1, <2>2, <3>1 DEF IdsAreFresh, RunIsRecorded
    <3>3. QED BY <2>1, <3>2 DEF CallFits, ReceiptAnswers, SampleRecord, SampleCall, ReceiptOf
  <2>3. CASE /\ minted' = minted + 1 /\ job' = job
             /\ \E run : runs' = RunsWith(run) /\ run.id = minted + 1
    <3>1. PICK run : runs' = RunsWith(run) /\ run.id = minted + 1
      BY <2>3
    <3>2. /\ DOMAIN runs' = DOMAIN runs \cup {minted + 1}
          /\ \A id \in DOMAIN runs : runs'[id] = runs[id]
      <4>1. minted + 1 \notin DOMAIN runs
        BY DEF IdsAreFresh
      <4>2. QED BY <3>1, <4>1 DEF RunsWith
    <3>3. IdsAreFresh' /\ RunIsRecorded'
      BY <2>1, <2>3, <3>2 DEF IdsAreFresh, RunIsRecorded
    <3>4. QED BY <2>1, <3>3 DEF CallFits, ReceiptAnswers, SampleRecord, SampleCall, ReceiptOf
  <2>4. \/ Spawns(w, Splits, 1, FALSE) /\ runs' = runs
        \/ /\ minted' = minted + 1 /\ job' = job
           /\ runs' = RunsWith([id |-> minted + 1, wallet |-> w, refs |-> {},
                              report |-> [status |-> "completed", cases |-> 3]])
    BY <1>4 DEF CreateElsewhere
  <2> DEFINE smoke == [id |-> minted + 1, wallet |-> w, refs |-> {},
                       report |-> [status |-> "completed", cases |-> 3]]
  <2>5. smoke.id = minted + 1
    OBVIOUS
  <2>6. \/ Spawns(w, Splits, 1, FALSE) /\ runs' = runs
        \/ minted' = minted + 1 /\ job' = job /\ runs' = RunsWith(smoke)
    BY <2>4
  <2> HIDE DEF smoke
  <2>7. QED BY <2>2, <2>3, <2>5, <2>6
<1>5. CASE HarnessAnswers
  <2>1. job # NoJob /\ job' = NoJob /\ minted' = minted
    BY <1>5 DEF HarnessAnswers
  <2>2. PICK report \in Reports(job.refs) :
          LET run == [id |-> job.id, wallet |-> job.wallet, refs |-> job.refs,
                      report |-> report]
          IN  /\ runs' = RunsWith(run)
              /\ IF job.page
                 THEN /\ session' = [session EXCEPT !.token = Recovered(session)]
                      /\ sample' = [sample EXCEPT !.run = run,
                           !.call = [step |-> "receipt", by |-> Recovered(session),
                                     again |-> FALSE, args |-> job.id]]
                 ELSE UNCHANGED <<session, sample>>
    BY <1>5 DEF HarnessAnswers
  <2> DEFINE run == [id |-> job.id, wallet |-> job.wallet, refs |-> job.refs,
                     report |-> report]
             receiptCall == [step |-> "receipt", by |-> Recovered(session),
                             again |-> FALSE, args |-> job.id]
  <2>3. job.id \in (1 .. minted) \ DOMAIN runs /\ run.id = job.id
    BY <2>1 DEF IdsAreFresh
  <2>4. run # NoRun
    BY <2>3 DEF NoRun, IdsAreFresh
  <2>5. /\ receiptCall.step = "receipt" /\ receiptCall.args = job.id
        /\ SampleCall(receiptCall)
    BY DEF SampleCall
  <2>6. /\ runs' = RunsWith(run)
        /\ job.page => sample' = [sample EXCEPT !.run = run, !.call = receiptCall]
        /\ ~job.page => sample' = sample
    BY <2>2
  <2> HIDE DEF run, receiptCall
  <2>7. /\ DOMAIN runs' = DOMAIN runs \cup {job.id} /\ runs'[job.id] = run
        /\ \A id \in DOMAIN runs : runs'[id] = runs[id]
    BY <2>3, <2>6 DEF RunsWith
  <2>8. IdsAreFresh'
    BY <2>1, <2>3, <2>7 DEF IdsAreFresh
  <2>9. CASE job.page
    <3>1. sample.call.step = "wait" /\ sample.receipt = NoRun /\ sample.busy
      BY <2>1, <2>9 DEF IdsAreFresh, CallFits
    <3>2. /\ SampleRecord(sample') /\ sample'.busy = sample.busy /\ sample'.run = run
          /\ sample'.call = receiptCall /\ sample'.receipt = sample.receipt
      BY <2>6, <2>9 DEF SampleRecord
    <3>3. RunIsRecorded' /\ CallFits' /\ ReceiptAnswers'
      BY <2>1, <2>3, <2>4, <2>5, <2>7, <3>1, <3>2
         DEF RunIsRecorded, CallFits, ReceiptAnswers, IdsAreFresh
    <3>4. QED BY <2>5, <2>8, <3>2, <3>3 DEF SampleRecord, SampleCall
  <2>10. CASE ~job.page
    <3>1. sample' = sample
      BY <2>6, <2>10
    <3>2. RunIsRecorded'
      BY <2>1, <2>7, <3>1 DEF RunIsRecorded
    <3>3. QED BY <2>8, <3>1, <3>2 DEF CallFits, ReceiptAnswers, SampleRecord, SampleCall, ReceiptOf
  <2>11. QED BY <2>9, <2>10
<1>6. CASE HarnessThrows
  <2>1. job # NoJob /\ job' = NoJob /\ minted' = minted /\ runs' = runs
    BY <1>6 DEF HarnessThrows
  <2>2. CASE sample' = SampleFailed
    <3> HIDE DEF SampleInv
    <3>1. QED BY <2>1, <2>2, FailureKeeps
  <2>3. CASE sample' = sample
    BY <2>1, <2>3 DEF IdsAreFresh, RunIsRecorded, CallFits, ReceiptAnswers, SampleRecord,
                      SampleCall, ReceiptOf
  <2>4. QED BY <1>6, <2>2, <2>3 DEF HarnessThrows
<1>7. CASE ReceiptForPage
  <2>1. /\ job = NoJob /\ sample.call.step = "receipt"
        /\ runs' = runs /\ job' = job /\ minted' = minted
    BY <1>7 DEF ReceiptForPage, Served
  <2>2. CASE sample' = SampleFailed
    BY <2>1, <2>2, FailureKeeps
  <2>3. CASE ~(sample' = SampleFailed)
    <3>1. /\ sample' = [SampleFailed EXCEPT !.receipt = ReceiptOf(runs[sample.call.args])]
          /\ sample.call.args \in DOMAIN runs
      BY <1>7, <2>3 DEF ReceiptForPage, Visible
    <3>2. sample.run # NoRun /\ runs[sample.call.args] = sample.run
      BY <2>1, <3>1 DEF CallFits, RunIsRecorded
    <3>3. sample' = [SampleFailed EXCEPT !.receipt = ReceiptOf(sample.run)]
      BY <3>1, <3>2
    <3>4. /\ SampleRecord(SampleFailed) /\ ~SampleFailed.busy /\ SampleFailed.call = Quiet
          /\ SampleFailed.run = sample.run
      BY DEF SampleRecord, SampleFailed
    <3>5. /\ SampleRecord(sample') /\ ~sample'.busy /\ sample'.call = Quiet
          /\ sample'.run = sample.run /\ sample'.receipt = ReceiptOf(sample.run)
      BY <3>3, <3>4 DEF SampleRecord
    <3>6. sample'.call.step = "idle" /\ SampleCall(sample'.call)
      BY <3>5 DEF Quiet, SampleCall
    <3>7. IdsAreFresh' /\ RunIsRecorded' /\ CallFits'
      BY <2>1, <3>5, <3>6 DEF IdsAreFresh, RunIsRecorded, CallFits
    <3>8. ReceiptAnswers'
      BY <3>2, <3>5 DEF ReceiptAnswers, ReceiptOf
    <3>9. QED BY <3>5, <3>6, <3>7, <3>8 DEF SampleRecord, SampleCall
  <2>4. QED BY <2>2, <2>3
<1>8. QED BY <1>1, <1>2, <1>3, <1>4, <1>5, <1>6, <1>7, SampleNext DEF SampleNext

-----------------------------------------------------------------------------
(* Both tabs *)

LEMMA SampleStays ==
  ASSUME SampleInv, UNCHANGED <<runs, job, minted, sample>>
  PROVE  SampleInv'
BY DEF SampleInv, IdsAreFresh, RunIsRecorded, CallFits, ReceiptAnswers, SampleRecord,
       SampleCall, ReceiptOf

LEMMA TableStays ==
  ASSUME TableInv, UNCHANGED <<table, asking>>
  PROVE  TableInv'
BY DEF TableInv, AliveAsks, RowsAnswer

LabInv == TableInv /\ SampleInv

LEMMA LabStarts == ReproLabInit => LabInv
<1> SUFFICES ASSUME ReproLabInit PROVE LabInv
  OBVIOUS
<1>1. TableInv
  <2>1. [split |-> "any", offset |-> 0, search |-> ""] \in Filters
    BY DEF Filters
  <2>2. table \in Tables
    BY <2>1 DEF ReproLabInit, Tables
  <2>3. table.data = NoData /\ asking = {}
    BY DEF ReproLabInit
  <2>4. QED BY <2>2, <2>3 DEF TableInv, AliveAsks, RowsAnswer
<1>2. SampleInv
  <2>1. /\ SampleRecord(sample) /\ ~sample.busy /\ sample.call = Quiet
        /\ sample.run = NoRun /\ sample.receipt = NoRun
    BY DEF ReproLabInit, SampleRecord
  <2>2. sample.call.step = "idle" /\ SampleCall(sample.call)
    BY <2>1 DEF Quiet, SampleCall
  <2>3. job = NoJob /\ minted = 0 /\ DOMAIN runs = {}
    BY DEF ReproLabInit
  <2>4. QED BY <2>1, <2>2, <2>3
             DEF SampleInv, IdsAreFresh, RunIsRecorded, CallFits, ReceiptAnswers
<1>3. QED BY <1>1, <1>2 DEF LabInv

LEMMA LabSteps == LabInv /\ [ReproLabNext]_labVars => LabInv'
<1> SUFFICES ASSUME LabInv, [ReproLabNext]_labVars PROVE LabInv'
  OBVIOUS
<1>1. TableInv /\ SampleInv
  BY DEF LabInv
<1>2. CASE SessionNext \/ UNCHANGED labVars
  <2>1. UNCHANGED <<table, asking>>
    BY <1>2 DEF SessionNext, SignIn, Expires, Restart, labVars
  <2>2. CASE UNCHANGED <<runs, job, minted, sample>>
    BY <1>1, <2>1, <2>2, SampleStays, TableStays DEF LabInv
  <2>3. CASE Restart
    <3>1. DOMAIN runs' = {} /\ job' = NoJob /\ minted' = minted
      BY <2>3 DEF Restart
    <3>2. SampleInv'
      <4>1. CASE sample' = SampleFailed
        BY <1>1, <3>1, <4>1, FailureKeeps
      <4>2. CASE sample' = sample
        BY <1>1, <3>1, <4>2 DEF SampleInv, IdsAreFresh, RunIsRecorded, CallFits,
           ReceiptAnswers, SampleRecord, SampleCall, ReceiptOf
      <4>3. QED BY <2>3, <4>1, <4>2 DEF Restart
    <3>3. QED BY <1>1, <2>1, <3>2, TableStays DEF LabInv
  <2>4. QED BY <1>2, <2>2, <2>3 DEF SessionNext, SignIn, Expires, labVars
<1>3. CASE SampleNext
  <2>1. UNCHANGED <<table, asking>>
    BY <1>3 DEF SampleNext, RunSample, Refused, CreateForPage, CreateElsewhere,
                HarnessAnswers, HarnessThrows, ReceiptForPage
  <2>2. QED BY <1>1, <1>3, <2>1, SampleStep, TableStays DEF LabInv
<1>4. CASE TableNext
  <2>1. UNCHANGED <<runs, job, minted, sample>>
    BY <1>4 DEF TableNext, OpenTable, LeaveTable, ChooseSplit, TypeSearch, TurnPage,
                TableAnswers, TableFails, Narrow, Effect
  <2>2. QED BY <1>1, <1>4, <2>1, SampleStays, TableStep DEF LabInv
<1>5. QED BY <1>2, <1>3, <1>4 DEF ReproLabNext

\* Whatever the page shows answers what it asked last: rows and filter, and
\* receipt and run, belong together, for answers in any order, any wallets,
\* sign-ins, expiries and restarts (page.tsx of the Repro Lab, evals.ts).
THEOREM ShowsWhatWasAsked == ReproLabSpec => []ShownIsAsked
<1>1. LabInv => ShownIsAsked
  BY DEF LabInv, TableInv, SampleInv, RowsAnswer, ReceiptAnswers, ShownIsAsked
<1>2. QED BY <1>1, LabStarts, LabSteps, PTL DEF ReproLabSpec

-----------------------------------------------------------------------------
(* Types of the session, the sample and the table *)

Sessions == [token : Signed, cookie : Signed, age : 0 .. MaxSignIns]

LEMMA SignedOutIsSigned == SignedOut \in Signed
BY DEF Signed

\* What is negotiated or recovered is a token the browser had.
LEMMA SessionMoves ==
  ASSUME session \in Sessions
  PROVE  /\ Negotiated \in Sessions /\ [session EXCEPT !.token = Recovered(session)] \in Sessions
<1>1. session.token \in Signed /\ session.cookie \in Signed
  BY DEF Sessions
<1> DEFINE got == IF Live(session.token) THEN session.token
                  ELSE IF Live(session.cookie) THEN session.cookie ELSE SignedOut
<1>2. got \in Signed /\ Recovered(session) \in Signed
  BY <1>1, SignedOutIsSigned DEF Recovered
<1>3. \A t \in Signed : [session EXCEPT !.token = t] \in Sessions
  BY DEF Sessions
<1> HIDE DEF got
<1>4. [session EXCEPT !.token = got] \in Sessions /\ [session EXCEPT !.token = Recovered(session)] \in Sessions
  BY <1>2, <1>3
<1>5. QED BY <1>4 DEF Negotiated, got

\* Whoever signs in or is refused, the browser holds sessions of wallets that
\* signed in.
LEMMA SessionStep ==
  ASSUME session \in Sessions, [ReproLabNext]_labVars
  PROVE  session' \in Sessions
<1>1. CASE session' \in {session, Negotiated, [session EXCEPT !.token = Recovered(session)]}
  BY <1>1, SessionMoves
<1>2. ASSUME NEW w \in Holders, SignIn(w) PROVE session' \in Sessions
  <2> DEFINE s == [wallet |-> w, age |-> session.age]
  <2>1. session.age \in 0 .. MaxSignIns
    BY DEF Sessions
  <2>2. s \in Signed
    BY <2>1 DEF Signed
  <2>3. session' = [session EXCEPT !.token = s, !.cookie = s]
    BY <1>2 DEF SignIn
  <2> HIDE DEF s
  <2>4. QED BY <2>2, <2>3 DEF Sessions
<1>3. CASE Expires
  <2>1. session.age \in 0 .. MaxSignIns /\ session.age < MaxSignIns /\ MaxSignIns \in Nat
    BY <1>3, ReproLabAssumption DEF Sessions, Expires
  <2> DEFINE next == session.age + 1
  <2>2. next \in 0 .. MaxSignIns
    BY <2>1
  <2>3. session' = [session EXCEPT !.age = next]
    BY <1>3 DEF Expires
  <2> HIDE DEF next
  <2>4. QED BY <2>2, <2>3 DEF Sessions
<1>4. CASE Restart \/ UNCHANGED labVars
  BY <1>1, <1>4 DEF Restart, labVars
<1>5. CASE SampleNext
  BY <1>1, <1>5 DEF SampleNext, RunSample, Refused, CreateForPage, CreateElsewhere,
     HarnessAnswers, HarnessThrows, ReceiptForPage
<1>6. CASE TableNext
  BY <1>1, <1>6 DEF TableNext, OpenTable, LeaveTable, ChooseSplit, TypeSearch, TurnPage,
     TableAnswers, TableFails, Narrow, Effect
<1>7. QED BY <1>2, <1>3, <1>4, <1>5, <1>6 DEF ReproLabNext, SessionNext

\* The page is busy exactly while a call of its sample is under way.
Occupied == sample.busy \in BOOLEAN /\ (sample.busy <=> sample.call # Quiet)
RunsWithin == minted \in 0 .. MaxRuns

\* A call under way is not the quiet one.
LEMMA NotQuiet == \A c : c.step # "idle" => c # Quiet
BY DEF Quiet

LEMMA FailedIsIdle ==
  ASSUME SampleInv, sample' = SampleFailed
  PROVE  Occupied'
<1>1. ~sample'.busy /\ sample'.busy \in BOOLEAN /\ sample'.call = Quiet
  BY DEF SampleInv, SampleRecord, SampleFailed
<1>2. QED BY <1>1 DEF Occupied

LEMMA OccupiedStep ==
  ASSUME SampleInv, Occupied, [ReproLabNext]_labVars
  PROVE  Occupied'
<1>1. CASE sample' = sample
  BY <1>1 DEF Occupied
<1>2. CASE sample' = SampleFailed
  BY <1>2, FailedIsIdle
<1>3. CASE RunSample
  <2>1. sample'.busy = TRUE /\ sample'.call.step = "create"
    BY <1>3 DEF RunSample
  <2>2. QED BY <2>1, NotQuiet DEF Occupied
<1>4. ASSUME NEW step \in {"create", "receipt"}, Refused(step) PROVE Occupied'
  <2>1. CASE sample' = [sample EXCEPT !.call.by = Negotiated.token, !.call.again = TRUE]
    <3>1. sample.call.step = step /\ step # "idle" /\ SampleCall(sample.call) /\ SampleRecord(sample)
      BY <1>4 DEF Refused, Served, SampleInv
    <3>2. sample.busy /\ sample.busy \in BOOLEAN
      BY <3>1, NotQuiet DEF Occupied
    <3> DEFINE call == [sample.call EXCEPT !.by = Negotiated.token, !.again = TRUE]
    <3>3. sample' = [sample EXCEPT !.call = call]
      BY <2>1
    <3>4. call.step = step
      BY <3>1 DEF SampleCall
    <3> HIDE DEF call
    <3>5. sample'.busy = sample.busy /\ sample'.call = call
      BY <3>1, <3>3 DEF SampleRecord
    <3>6. QED BY <3>1, <3>2, <3>4, <3>5, NotQuiet DEF Occupied
  <2>2. QED BY <1>2, <1>4, <2>1 DEF Refused
<1>5. CASE CreateForPage
  <2>1. CASE sample' = [sample EXCEPT !.call = [step |-> "wait"]]
    <3>1. sample.call.step = "create" /\ SampleRecord(sample)
      BY <1>5 DEF CreateForPage, Served, SampleInv
    <3>2. sample.busy /\ sample.busy \in BOOLEAN
      BY <3>1, NotQuiet DEF Occupied
    <3> DEFINE call == [step |-> "wait"]
    <3>3. call.step = "wait" /\ sample' = [sample EXCEPT !.call = call]
      BY <2>1
    <3> HIDE DEF call
    <3>4. sample'.busy = sample.busy /\ sample'.call = call
      BY <3>1, <3>3 DEF SampleRecord
    <3>5. QED BY <3>2, <3>3, <3>4, NotQuiet DEF Occupied
  <2>2. QED BY <1>2, <1>5, <2>1 DEF CreateForPage
<1>6. CASE HarnessAnswers
  <2>1. CASE job.page
    <3> DEFINE call == [step |-> "receipt", by |-> Recovered(session), again |-> FALSE, args |-> job.id]
    <3>1. PICK run : sample' = [sample EXCEPT !.run = run, !.call = call]
      BY <1>6, <2>1 DEF HarnessAnswers
    <3>2. sample.call.step = "wait" /\ SampleRecord(sample)
      BY <1>6, <2>1 DEF HarnessAnswers, SampleInv, IdsAreFresh
    <3>3. sample.busy /\ sample.busy \in BOOLEAN
      BY <3>2, NotQuiet DEF Occupied
    <3>4. call.step = "receipt"
      OBVIOUS
    <3> HIDE DEF call
    <3>5. sample'.busy = sample.busy /\ sample'.call = call
      BY <3>1, <3>2 DEF SampleRecord
    <3>6. QED BY <3>3, <3>4, <3>5, NotQuiet DEF Occupied
  <2>2. CASE ~job.page
    BY <1>1, <1>6, <2>2 DEF HarnessAnswers
  <2>3. QED BY <2>1, <2>2
<1>7. CASE ReceiptForPage
  <2>1. SampleFailed.busy = FALSE /\ SampleFailed.call = Quiet
    BY DEF SampleFailed, SampleInv, SampleRecord
  <2>2. CASE sample' = [SampleFailed EXCEPT !.receipt = ReceiptOf(runs[sample.call.args])]
    <3> DEFINE receipt == ReceiptOf(runs[sample.call.args])
    <3>1. sample' = [SampleFailed EXCEPT !.receipt = receipt]
      BY <2>2
    <3> HIDE DEF receipt
    <3>2. sample'.busy = FALSE /\ sample'.call = Quiet
      BY <3>1 DEF SampleFailed, SampleInv, SampleRecord
    <3>3. QED BY <3>2 DEF Occupied
  <2>3. QED BY <1>2, <1>7, <2>2 DEF ReceiptForPage
<1>8. CASE SessionNext \/ UNCHANGED labVars
  BY <1>1, <1>2, <1>8 DEF SessionNext, SignIn, Expires, Restart, labVars
<1>9. CASE TableNext
  BY <1>1, <1>9 DEF TableNext, OpenTable, LeaveTable, ChooseSplit, TypeSearch, TurnPage,
     TableAnswers, TableFails, Narrow, Effect
<1>10. CASE SampleNext
  BY <1>1, <1>2, <1>3, <1>4, <1>5, <1>6, <1>7, <1>10 DEF SampleNext, CreateElsewhere, HarnessThrows
<1>11. QED BY <1>8, <1>9, <1>10 DEF ReproLabNext

LEMMA RunsStep ==
  ASSUME RunsWithin, [ReproLabNext]_labVars
  PROVE  RunsWithin'
<1>1. minted \in 0 .. MaxRuns /\ MaxRuns \in Nat
  BY ReproLabAssumption DEF RunsWithin
<1>2. CASE minted' = minted
  BY <1>1, <1>2 DEF RunsWithin
<1>3. CASE minted < MaxRuns /\ minted' = minted + 1
  BY <1>1, <1>3 DEF RunsWithin
<1>4. CASE SampleNext
  BY <1>2, <1>3, <1>4 DEF SampleNext, RunSample, Refused, CreateForPage, CreateElsewhere,
     Spawns, HarnessAnswers, HarnessThrows, ReceiptForPage
<1>5. CASE SessionNext \/ TableNext \/ UNCHANGED labVars
  BY <1>2, <1>5 DEF SessionNext, SignIn, Expires, Restart, labVars,
     TableNext, OpenTable, LeaveTable, ChooseSplit, TypeSearch, TurnPage,
     TableAnswers, TableFails, Narrow, Effect
<1>6. QED BY <1>4, <1>5 DEF ReproLabNext

\* What a filter may ask for, and the offsets its pages begin at.
Offsets == {n * LabPage : n \in 0 .. Len(Ledger)}
Asked == [query : Queries, alive : BOOLEAN]
PagesInv == table.query \in Queries /\ asking \subseteq Asked

\* The ledger has a length, and a page at least one row.
LEMMA LedgerHasPages == Len(Ledger) \in Nat /\ LabPage \in Nat /\ LabPage >= 1
<1>1. Ledger \in Seq([split : Splits, text : STRING]) /\ LabPage \in Nat \ {0}
  BY Zenon, ReproLabAssumption
<1>2. Len(Ledger) \in Nat
  BY <1>1, LenProperties
<1>3. QED BY <1>1, <1>2

LEMMA QueryIs ==
  /\ Queries = [split : Splits \cup {"any"}, offset : Offsets, search : Searches \cup {""}]
  /\ Len(Ledger) \in Nat /\ LabPage \in Nat /\ LabPage >= 1
  /\ 0 \in Offsets
<1>1. Len(Ledger) \in Nat /\ LabPage \in Nat /\ LabPage >= 1
  BY LedgerHasPages
<1>2. 0 \in Offsets
  <2>1. 0 \in 0 .. Len(Ledger) /\ 0 * LabPage = 0
    BY <1>1
  <2>2. QED BY <2>1 DEF Offsets
<1>3. Queries = [split : Splits \cup {"any"}, offset : Offsets, search : Searches \cup {""}]
  BY Zenon DEF Queries, Offsets
<1>4. QED BY <1>1, <1>2, <1>3

LEMMA QueriesFilter == \A q \in Queries : q \in Filters
<1>1. ASSUME NEW n \in Offsets PROVE n \in Int
  <2>1. PICK k \in 0 .. Len(Ledger) : n = k * LabPage
    BY DEF Offsets
  <2>2. k \in Int /\ LabPage \in Int
    BY LedgerHasPages
  <2>3. QED BY <2>1, <2>2
<1>2. QED BY <1>1, QueryIs DEF Filters

\* Turning the page goes on by one page, and stays near the ledger.
LEMMA NextPage ==
  ASSUME NEW n \in Offsets
  PROVE  /\ n > 0 => n - LabPage \in Offsets
         /\ n < Len(Ledger) => n + LabPage \in Offsets
<1>1. PICK k \in 0 .. Len(Ledger) : n = k * LabPage
  BY DEF Offsets
<1> DEFINE len == Len(Ledger)
<1>2. len \in Nat /\ LabPage \in Nat /\ LabPage >= 1 /\ k \in Nat /\ k <= len
  BY LedgerHasPages
<1>3. \A j \in Nat : j <= len => j * LabPage \in Offsets
  BY <1>2 DEF Offsets
<1> HIDE DEF len
<1>4. k <= n /\ n \in Nat /\ (n > 0 => k >= 1)
  BY <1>1, <1>2
<1>5. ASSUME n > 0 PROVE n - LabPage \in Offsets
  <2>1. (k - 1) * LabPage = n - LabPage /\ k - 1 \in Nat /\ k - 1 <= len
    BY <1>1, <1>2, <1>4, <1>5
  <2>2. QED BY <1>3, <2>1
<1>6. ASSUME n < len PROVE n + LabPage \in Offsets
  <2>1. (k + 1) * LabPage = n + LabPage /\ k + 1 \in Nat
    BY <1>1, <1>2
  <2>2. k + 1 <= len
    BY <1>2, <1>4, <1>6
  <2>3. QED BY <1>3, <2>1, <2>2
<1>7. QED BY <1>5, <1>6 DEF len

LEMMA QueriesChange ==
  ASSUME NEW q \in Queries
  PROVE  /\ \A s \in Splits \cup {"any"} : [q EXCEPT !.split = s, !.offset = 0] \in Queries
         /\ \A text \in Searches \cup {""} : [q EXCEPT !.search = text, !.offset = 0] \in Queries
         /\ \A n \in Offsets : [q EXCEPT !.offset = n] \in Queries
<1>1. ASSUME NEW g \in Queries, NEW n \in Offsets PROVE [g EXCEPT !.offset = n] \in Queries
  BY QueryIs
<1>2. ASSUME NEW s \in Splits \cup {"any"} PROVE [q EXCEPT !.split = s, !.offset = 0] \in Queries
  <2> DEFINE g == [q EXCEPT !.split = s]
  <2>1. g \in Queries
    BY QueryIs
  <2> HIDE DEF g
  <2>2. [g EXCEPT !.offset = 0] \in Queries
    BY <1>1, <2>1, QueryIs
  <2>3. QED BY <2>2 DEF g
<1>3. ASSUME NEW text \in Searches \cup {""} PROVE [q EXCEPT !.search = text, !.offset = 0] \in Queries
  <2> DEFINE g == [q EXCEPT !.search = text]
  <2>1. g \in Queries
    BY QueryIs
  <2> HIDE DEF g
  <2>2. [g EXCEPT !.offset = 0] \in Queries
    BY <1>1, <2>1, QueryIs
  <2>3. QED BY <2>2 DEF g
<1>4. QED BY <1>1, <1>2, <1>3

LEMMA BuriedAsk == asking \subseteq Asked => Buried \subseteq Asked
BY DEF Buried, Asked

LEMMA EffectAsks ==
  ASSUME PagesInv, NEW t \in Tables, t.query \in Queries, Effect(t)
  PROVE  PagesInv'
<1>1. /\ table' = [t EXCEPT !.busy = TRUE, !.failed = FALSE]
      /\ asking' = Buried \cup {[query |-> t.query, alive |-> TRUE]}
  BY DEF Effect
<1>2. table'.query = t.query
  BY <1>1 DEF Tables
<1>3. [query |-> t.query, alive |-> TRUE] \in Asked
  BY DEF Asked
<1>4. Buried \subseteq Asked
  BY BuriedAsk DEF PagesInv
<1>5. QED BY <1>1, <1>2, <1>3, <1>4 DEF PagesInv

LEMMA NarrowAsks ==
  ASSUME PagesInv, table \in Tables, NEW query \in Queries, Narrow(query)
  PROVE  PagesInv'
<1>1. CASE query = table.query
  <2>1. table' = [table EXCEPT !.data = NoData] /\ asking' = asking
    BY <1>1 DEF Narrow
  <2>2. table'.query = table.query
    BY <2>1 DEF Tables
  <2>3. QED BY <2>1, <2>2 DEF PagesInv
<1>2. CASE query # table.query
  <2> DEFINE t == [table EXCEPT !.query = query, !.data = NoData]
  <2>1. \A q \in Filters : [table EXCEPT !.query = q, !.data = NoData] \in Tables
    BY DEF Tables
  <2>2. query \in Filters
    BY QueriesFilter
  <2>3. t \in Tables /\ t.query = query
    BY <2>1, <2>2 DEF Tables
  <2>4. Effect(t)
    BY <1>2 DEF Narrow
  <2> HIDE DEF t
  <2>5. QED BY <2>3, <2>4, EffectAsks
<1>3. QED BY <1>1, <1>2

LEMMA TablePages ==
  ASSUME PagesInv, table \in Tables, TableNext
  PROVE  PagesInv'
<1>1. table.query \in Queries /\ asking \subseteq Asked
  BY DEF PagesInv
<1>2. CASE OpenTable
  <2> DEFINE t == [table EXCEPT !.shown = TRUE]
  <2>1. t \in Tables /\ t.query = table.query /\ Effect(t)
    BY <1>2 DEF Tables, OpenTable
  <2> HIDE DEF t
  <2>2. QED BY <1>1, <2>1, EffectAsks
<1>3. CASE LeaveTable
  <2>1. table' = [table EXCEPT !.shown = FALSE] /\ asking' = Buried
    BY <1>3 DEF LeaveTable
  <2>2. table'.query = table.query
    BY <2>1 DEF Tables
  <2>3. QED BY <1>1, <2>1, <2>2, BuriedAsk DEF PagesInv
<1>4. CASE ChooseSplit
  <2>1. PICK s \in Splits \cup {"any"} : Narrow([table.query EXCEPT !.split = s, !.offset = 0])
    BY <1>4 DEF ChooseSplit
  <2>2. [table.query EXCEPT !.split = s, !.offset = 0] \in Queries
    BY <1>1, QueriesChange
  <2>3. QED BY <2>1, <2>2, NarrowAsks
<1>5. CASE TypeSearch
  <2>1. PICK text \in Searches \cup {""} : Narrow([table.query EXCEPT !.search = text, !.offset = 0])
    BY <1>5 DEF TypeSearch
  <2>2. [table.query EXCEPT !.search = text, !.offset = 0] \in Queries
    BY <1>1, QueriesChange
  <2>3. QED BY <2>1, <2>2, NarrowAsks
<1>6. CASE TurnPage
  <2>1. table.query.offset \in Offsets
    BY <1>1, QueryIs
  <2>2. PICK n \in Offsets : Effect([table EXCEPT !.query.offset = n])
    BY <1>6, <2>1, NextPage DEF TurnPage
  <2> DEFINE q == [table.query EXCEPT !.offset = n]
             t == [table EXCEPT !.query = q]
  <2>3. q \in Queries
    BY <1>1, QueriesChange
  <2>4. Effect(t)
    BY <2>2
  <2> HIDE DEF q
  <2>5. q \in Filters
    BY <2>3, QueriesFilter
  <2>6. t \in Tables /\ t.query = q
    BY <2>5 DEF Tables
  <2> HIDE DEF t
  <2>7. QED BY <2>3, <2>4, <2>6, EffectAsks
<1>7. ASSUME NEW f \in asking, TableAnswers(f) \/ TableFails(f) PROVE PagesInv'
  <2>1. asking' \subseteq asking
    BY <1>7 DEF TableAnswers, TableFails
  <2>2. CASE table' = [table EXCEPT !.data = Slice(f.query), !.busy = FALSE]
    <3>1. table'.query = table.query
      BY <2>2 DEF Tables
    <3>2. QED BY <1>1, <2>1, <3>1 DEF PagesInv
  <2>3. CASE table' = [table EXCEPT !.failed = TRUE, !.busy = FALSE]
    <3>1. table'.query = table.query
      BY <2>3 DEF Tables
    <3>2. QED BY <1>1, <2>1, <3>1 DEF PagesInv
  <2>4. CASE table' = table
    BY <1>1, <2>1, <2>4 DEF PagesInv
  <2>5. QED BY <1>7, <2>2, <2>3, <2>4 DEF TableAnswers, TableFails
<1>8. QED BY <1>2, <1>3, <1>4, <1>5, <1>6, <1>7 DEF TableNext

LEMMA PagesStep ==
  ASSUME PagesInv, table \in Tables, [ReproLabNext]_labVars
  PROVE  PagesInv'
<1>1. CASE UNCHANGED <<table, asking>>
  BY <1>1 DEF PagesInv
<1>2. CASE SessionNext \/ UNCHANGED labVars
  BY <1>1, <1>2 DEF SessionNext, SignIn, Expires, Restart, labVars
<1>3. CASE SampleNext
  BY <1>1, <1>3 DEF SampleNext, RunSample, Refused, CreateForPage, CreateElsewhere,
     HarnessAnswers, HarnessThrows, ReceiptForPage
<1>4. QED BY <1>2, <1>3, TablePages DEF ReproLabNext

\* What the lab holds is well formed: as many runs as were minted, sessions of
\* wallets that signed in, a page that is busy exactly while its sample is asked
\* for, and filters whose offsets are whole pages within reach of the ledger.
THEOREM LabTypesHold == ReproLabSpec => []ReproLabTypeOK
<1> DEFINE Inv == LabInv /\ session \in Sessions /\ Occupied /\ RunsWithin /\ PagesInv
<1>1. ReproLabInit => Inv
  <2> SUFFICES ASSUME ReproLabInit PROVE Inv
    OBVIOUS
  <2>1. LabInv
    BY LabStarts
  <2>2. session \in Sessions
    <3>1. 0 \in 0 .. MaxSignIns
      BY ReproLabAssumption
    <3>2. QED BY <3>1, SignedOutIsSigned DEF ReproLabInit, Sessions
  <2>3. Occupied
    BY DEF ReproLabInit, Occupied
  <2>4. RunsWithin
    <3>1. minted = 0
      BY Zenon DEF ReproLabInit
    <3>2. 0 \in 0 .. MaxRuns
      BY ReproLabAssumption
    <3>3. QED BY <3>1, <3>2 DEF RunsWithin
  <2>5. PagesInv
    <3>1. table.query = [split |-> "any", offset |-> 0, search |-> ""] /\ asking = {}
      BY DEF ReproLabInit
    <3>2. [split |-> "any", offset |-> 0, search |-> ""] \in Queries
      BY QueryIs
    <3>3. QED BY <3>1, <3>2 DEF PagesInv
  <2>6. QED BY <2>1, <2>2, <2>3, <2>4, <2>5
<1>2. Inv /\ [ReproLabNext]_labVars => Inv'
  BY LabSteps, SessionStep, OccupiedStep, RunsStep, PagesStep DEF LabInv, TableInv
<1>3. Inv => ReproLabTypeOK
  <2> SUFFICES ASSUME Inv PROVE ReproLabTypeOK
    OBVIOUS
  <2>1. DOMAIN runs \subseteq 1 .. minted
    BY DEF LabInv, SampleInv, IdsAreFresh
  <2>2. QED BY <2>1 DEF ReproLabTypeOK, Sessions, Occupied, RunsWithin, PagesInv, Asked
<1>4. QED BY <1>1, <1>2, <1>3, PTL DEF ReproLabSpec
=============================================================================
