------------------------------ MODULE ReproLab ------------------------------
(***************************************************************************)
(* The Repro Lab: the page that asks (app/tools/repro/page.tsx), the web   *)
(* session it asks with (app/api/auth, lib/session.ts, evalJson of         *)
(* lib/gateway.ts) and the gateway's eval service (evals.ts), whose runs    *)
(* live in memory only.                                                    *)
(*                                                                         *)
(* The page has two tabs that ask independently.  The "sample" tab creates *)
(* a run, waits for the harness, and then fetches the receipt of that run. *)
(* The "complete" tab re-asks for a slice of the recorded ledger whenever  *)
(* its filter changes, with answers that may come back in any order.       *)
(***************************************************************************)
EXTENDS Naturals, FiniteSets, FiniteSetsExt, Sequences, SequencesExt

CONSTANTS
  Holders,        \* wallets that may sign in here
  SampleAccess,   \* the wallets of REPRO_LAB_ALLOWED_WALLETS
  Catalog,        \* the redacted case references: records [split, ref]
  MaxSample,      \* maxSampleCases
  Ledger,         \* the complete run's rows, a sequence of [split, text]
  LabPage,        \* rows per page of the complete tab (25)
  Searches,       \* what may be typed into the search field
  MaxRuns,        \* bound: runs created
  MaxSignIns,     \* bound: sign-ins and expiries
  MaxAsking,      \* bound: requests of the complete tab on their way
  MaxRestarts     \* bound: gateway restarts

Splits == {row.split : row \in Catalog}

ASSUME ReproLabAssumption ==
  /\ SampleAccess \subseteq Holders
  /\ MaxSample \in Nat \ {0} /\ LabPage \in Nat \ {0}
  /\ MaxAsking \in Nat /\ MaxRuns \in Nat /\ MaxSignIns \in Nat /\ MaxRestarts \in Nat
  /\ Ledger \in Seq([split : Splits, text : STRING])

VARIABLES
  runs,      \* EvalService.runs: a function from run ids to runs
  job,       \* the sample the harness is running, spawned synchronously
  minted,    \* how many run ids were minted
  session,   \* [token: localStorage, cookie: the browser's, age: expiries so far]
  sample,    \* the sample tab: [busy, call, run, receipt]
  table,     \* the complete tab: [shown, query, busy, failed, data]
  asking,    \* requests of the complete tab: [query, alive]
  restarts

labVars == <<runs, job, minted, session, sample, table, asking, restarts>>

(***************************************************************************)
(* Sessions.  A minted session names its wallet and dies when it expires;  *)
(* SignedOut stands for a missing cookie or token.                              *)
(***************************************************************************)
SignedOut == [wallet |-> "none", age |-> 0]

Signed == [wallet : Holders, age : 0 .. MaxSignIns] \cup {SignedOut}

Live(s) == s # SignedOut /\ s.age = session.age

\* The session a call leaves behind: a refused token is dropped and what the
\* cookie re-exposes takes its place.
Negotiated ==
  [session EXCEPT !.token = IF Live(session.token) THEN session.token
                            ELSE IF Live(session.cookie) THEN session.cookie ELSE SignedOut]

\* recoverSessionToken: the stored token, or else what the cookie re-exposes.
Recovered(s) ==
  IF s.token # SignedOut THEN s.token
  ELSE IF Live(s.cookie) THEN s.cookie ELSE SignedOut

(***************************************************************************)
(* The service.                                                            *)
(***************************************************************************)
\* validateSampleSize and the gate at the head of createSampleRun
SampleAllowed(wallet, size) == wallet \in SampleAccess /\ size \in 1 .. MaxSample

\* The eligible references of the chosen splits; the hash order of the seed
\* picks any subset of them.
Eligible(splits) == {row.ref : row \in {r \in Catalog : r.split \in splits}}

SamplePlans(splits, size) == kSubset(size, Eligible(splits))

\* finalizeRun: what the receipt hash is computed over.  The evidence rows are
\* attached afterwards and are not part of it.
ReceiptOf(run) ==
  [id |-> run.id, wallet |-> run.wallet, refs |-> run.refs, report |-> run.report]

\* defaultSampleExecutor: the harness may skip cases; a failure reports the
\* planned number and no refusals.
Reports(refs) ==
  [status : {"completed"}, cases : 0 .. Cardinality(refs)]
    \cup [status : {"failed"}, cases : {Cardinality(refs)}]

\* this.runs.set: a run is recorded under its id.
RunsWith(run) ==
  [id \in DOMAIN runs \cup {run.id} |-> IF id = run.id THEN run ELSE runs[id]]

Visible(id, wallet) == id \in DOMAIN runs /\ runs[id].wallet = wallet

\* buildCompleteRunData: the rows of a split that match the search, cut to a page
Matching(q) ==
  SelectSeq(Ledger, LAMBDA row : /\ q.split \in {"any", row.split}
                                 /\ q.search \in {"", row.text})

Slice(q) ==
  LET rows == Matching(q)
  IN  [query    |-> q,
       filtered |-> Len(rows),
       rows     |-> SubSeq(rows, q.offset + 1, IF q.offset + LabPage < Len(rows)
                                               THEN q.offset + LabPage ELSE Len(rows))]

Queries ==
  [split : Splits \cup {"any"}, offset : {n * LabPage : n \in 0 .. Len(Ledger)},
   search : Searches \cup {""}]

NoData == [query |-> "none"]
NoRun == [id |-> 0]
NoJob == [id |-> 0]
Quiet == [step |-> "idle"]

ReproLabInit ==
  /\ runs = [id \in {} |-> NoRun] /\ job = NoJob /\ minted = 0
  /\ session = [token |-> SignedOut, cookie |-> SignedOut, age |-> 0]
  /\ sample = [busy |-> FALSE, call |-> Quiet, run |-> NoRun, receipt |-> NoRun]
  /\ table = [shown |-> FALSE, busy |-> FALSE, failed |-> FALSE, data |-> NoData,
              query |-> [split |-> "any", offset |-> 0, search |-> ""]]
  /\ asking = {} /\ restarts = 0

(***************************************************************************)
(* The browser's session.  Signing in, possibly from another browser tab,  *)
(* sets the cookie and the stored token; both expire together.             *)
(***************************************************************************)
SignIn(wallet) ==
  /\ session.cookie = SignedOut \/ ~Live(session.cookie) \/ session.cookie.wallet # wallet
  /\ session.age < MaxSignIns
  /\ LET s == [wallet |-> wallet, age |-> session.age]
     IN  session' = [session EXCEPT !.token = s, !.cookie = s]
  /\ UNCHANGED <<runs, job, minted, sample, table, asking, restarts>>

Expires ==
  /\ session.age < MaxSignIns
  /\ session' = [session EXCEPT !.age = @ + 1]
  /\ UNCHANGED <<runs, job, minted, sample, table, asking, restarts>>

(***************************************************************************)
(* The sample tab: runSample, one gateway call after the other, each with  *)
(* the session recovery of evalJson.                                       *)
(***************************************************************************)
SampleFailed == [sample EXCEPT !.busy = FALSE, !.call = Quiet]

RunSample ==
  /\ ~sample.busy
  /\ \E size \in 1 .. 5, split \in Splits \cup {"any"} :
       LET args == [size |-> size, splits |-> IF split = "any" THEN Splits ELSE {split}]
           call == [step |-> "create", by |-> Recovered(session), again |-> FALSE, args |-> args]
       IN  sample' = [busy |-> TRUE, call |-> call, run |-> NoRun, receipt |-> NoRun]
  /\ session' = [session EXCEPT !.token = Recovered(session)]
  /\ UNCHANGED <<runs, job, minted, table, asking, restarts>>

\* A gateway call is served while no harness blocks the process.
Served(step) == job = NoJob /\ sample.call.step = step

\* 401: the stored token is dropped and the cookie re-exposed; one more try.
Refused(step) ==
  /\ Served(step) /\ ~Live(sample.call.by)
  /\ IF sample.call.again
     THEN sample' = SampleFailed /\ UNCHANGED session
     ELSE LET s == Negotiated.token
          IN  /\ session' = Negotiated
              /\ sample' = IF s = SignedOut THEN SampleFailed
                           ELSE [sample EXCEPT !.call.by = s, !.call.again = TRUE]
  /\ UNCHANGED <<runs, job, minted, table, asking, restarts>>

\* createSampleRun up to the harness; what the gate or the plan refuses ends in an error.
Spawns(wallet, splits, size, page) ==
  \E refs \in SamplePlans(splits, size) :
    /\ job' = [id |-> minted + 1, wallet |-> wallet, refs |-> refs, page |-> page]
    /\ minted' = minted + 1

CreateForPage ==
  /\ Served("create") /\ Live(sample.call.by) /\ minted < MaxRuns
  /\ LET wallet == sample.call.by.wallet
         args == sample.call.args
     IN  IF SampleAllowed(wallet, args.size) /\ SamplePlans(args.splits, args.size) # {}
         THEN /\ Spawns(wallet, args.splits, args.size, TRUE)
              /\ sample' = [sample EXCEPT !.call = [step |-> "wait"]]
         ELSE sample' = SampleFailed /\ UNCHANGED <<job, minted>>
  /\ UNCHANGED <<runs, session, table, asking, restarts>>

\* Another client of the same route; a full run and an unknown mode are refused.
CreateElsewhere(wallet, mode) ==
  /\ job = NoJob /\ minted < MaxRuns
  /\ \/ /\ mode = "sample" /\ SampleAllowed(wallet, 1)
        /\ Spawns(wallet, Splits, 1, FALSE) /\ UNCHANGED runs
     \/ /\ mode = "smoke"
        /\ minted' = minted + 1
        /\ runs' = RunsWith([id |-> minted + 1, wallet |-> wallet, refs |-> {},
                             report |-> [status |-> "completed", cases |-> 3]])
        /\ UNCHANGED job
  /\ UNCHANGED <<session, sample, table, asking, restarts>>

\* The harness answers: the run is recorded and the page asks for its receipt.
HarnessAnswers ==
  /\ job # NoJob
  /\ \E report \in Reports(job.refs) :
       LET run == [id |-> job.id, wallet |-> job.wallet, refs |-> job.refs, report |-> report]
       IN  /\ runs' = RunsWith(run)
           /\ IF job.page
              THEN /\ session' = [session EXCEPT !.token = Recovered(session)]
                   /\ sample' = [sample EXCEPT !.run = run,
                        !.call = [step |-> "receipt", by |-> Recovered(session),
                                  again |-> FALSE, args |-> job.id]]
              ELSE UNCHANGED <<session, sample>>
  /\ job' = NoJob
  /\ UNCHANGED <<minted, table, asking, restarts>>

\* The harness throws: nothing is recorded.
HarnessThrows ==
  /\ job # NoJob
  /\ sample' = IF job.page THEN SampleFailed ELSE sample
  /\ job' = NoJob
  /\ UNCHANGED <<runs, minted, session, table, asking, restarts>>

\* GET /api/evals/runs/:id/receipt: only the owner's own run is found.
ReceiptForPage ==
  /\ Served("receipt") /\ Live(sample.call.by)
  /\ LET id == sample.call.args
     IN  sample' = IF Visible(id, sample.call.by.wallet)
                   THEN [SampleFailed EXCEPT !.receipt = ReceiptOf(runs[id])]
                   ELSE SampleFailed
  /\ UNCHANGED <<runs, job, minted, session, table, asking, restarts>>

(***************************************************************************)
(* The complete tab: an effect asks again whenever the tab or the query    *)
(* changes; the cleanup of the old effect makes its answer a dead one.     *)
(***************************************************************************)
Buried == {[f EXCEPT !.alive = FALSE] : f \in asking}

Effect(t) ==
  /\ Cardinality(asking) < MaxAsking
  /\ table' = [t EXCEPT !.busy = TRUE, !.failed = FALSE]
  /\ asking' = Buried \cup {[query |-> t.query, alive |-> TRUE]}
  /\ UNCHANGED <<runs, job, minted, session, sample, restarts>>

OpenTable == ~table.shown /\ Effect([table EXCEPT !.shown = TRUE])

LeaveTable ==
  /\ table.shown
  /\ table' = [table EXCEPT !.shown = FALSE]
  /\ asking' = Buried
  /\ UNCHANGED <<runs, job, minted, session, sample, restarts>>

\* A filter drops the rows at once; choosing the filter already chosen changes
\* no dependency of the effect, and the table stays empty.
Narrow(query) ==
  /\ table.shown
  /\ IF query = table.query
     THEN /\ table' = [table EXCEPT !.data = NoData]
          /\ UNCHANGED <<runs, job, minted, session, sample, asking, restarts>>
     ELSE Effect([table EXCEPT !.query = query, !.data = NoData])

ChooseSplit ==
  \E s \in Splits \cup {"any"} : Narrow([table.query EXCEPT !.split = s, !.offset = 0])

TypeSearch ==
  \E text \in (Searches \cup {""}) \ {table.query.search} :
    Narrow([table.query EXCEPT !.search = text, !.offset = 0])

\* The buttons look at the rows on display, the step at the offset asked for:
\* after a failed call the two differ (bound: the offset stays near the ledger).
TurnPage ==
  /\ table.shown /\ ~table.busy /\ table.data # NoData
  /\ LET at == table.data.query.offset
         n == table.query.offset
     IN  \/ /\ at > 0 /\ n > 0
            /\ Effect([table EXCEPT !.query.offset = n - LabPage])
         \/ /\ at + Len(table.data.rows) < table.data.filtered /\ n < Len(Ledger)
            /\ Effect([table EXCEPT !.query.offset = n + LabPage])

\* Seeded bug: TableAnswers without the alive flag, so that the last answer wins.
TableAnswersLate(f) ==
  /\ job = NoJob /\ Live(Negotiated.token)
  /\ session' = Negotiated
  /\ asking' = asking \ {f}
  /\ table' = [table EXCEPT !.data = Slice(f.query), !.busy = FALSE]
  /\ UNCHANGED <<runs, job, minted, sample, restarts>>

TableAnswers(f) ==
  /\ job = NoJob /\ Live(Negotiated.token)
  /\ session' = Negotiated
  /\ asking' = asking \ {f}
  /\ table' = IF f.alive
              THEN [table EXCEPT !.data = Slice(f.query), !.busy = FALSE]
              ELSE table
  /\ UNCHANGED <<runs, job, minted, sample, restarts>>

TableFails(f) ==
  /\ ~Live(Negotiated.token) \/ restarts > 0
  /\ session' \in {session, Negotiated}
  /\ asking' = asking \ {f}
  /\ table' = IF f.alive THEN [table EXCEPT !.failed = TRUE, !.busy = FALSE] ELSE table
  /\ UNCHANGED <<runs, job, minted, sample, restarts>>

\* A restart forgets every run and breaks the sample the page is waiting for.
Restart ==
  /\ restarts < MaxRestarts
  /\ restarts' = restarts + 1
  /\ runs' = [id \in {} |-> NoRun] /\ job' = NoJob
  /\ sample' = IF job # NoJob /\ job.page THEN SampleFailed ELSE sample
  /\ UNCHANGED <<minted, session, table, asking>>

SessionNext ==
  \/ \E w \in Holders : SignIn(w)
  \/ Expires
  \/ Restart
SampleNext ==
  \/ RunSample
  \/ Refused("create")
  \/ Refused("receipt")
  \/ CreateForPage
  \/ \E w \in Holders, mode \in {"sample", "smoke"} : CreateElsewhere(w, mode)
  \/ HarnessAnswers
  \/ HarnessThrows
  \/ ReceiptForPage
TableNext ==
  \/ OpenTable
  \/ LeaveTable
  \/ ChooseSplit
  \/ TypeSearch
  \/ TurnPage
  \/ \E f \in asking : TableAnswers(f) \/ TableFails(f)
ReproLabNext == SessionNext \/ SampleNext \/ TableNext

ReproLabSpec == ReproLabInit /\ [][ReproLabNext]_labVars

(***************************************************************************)
(* Properties                                                              *)
(***************************************************************************)
\* Type invariant: minted ids, in-memory runs, a session and the two tabs.
ReproLabTypeOK ==
  /\ minted \in 0 .. MaxRuns /\ DOMAIN runs \subseteq 1 .. minted
  /\ session \in [token : Signed, cookie : Signed, age : 0 .. MaxSignIns]
  /\ sample.busy \in BOOLEAN /\ (sample.busy <=> sample.call # Quiet)
  /\ table.query \in Queries
  /\ asking \subseteq [query : Queries, alive : BOOLEAN]

\* Whatever the page shows answers what it asked last.  Rows on display, once
\* nothing is loading, are the slice of the filter on display (page.tsx: the
\* alive flag of the effect, with answers in any order, sessions expiring and
\* the gateway restarting), and the receipt on display is the receipt of the
\* run on display although the two come from two calls.
ShownIsAsked ==
  /\ table.data # NoData /\ ~table.busy /\ ~table.failed =>
       table.data = Slice(table.query)
  /\ sample.receipt # NoRun =>
       /\ sample.run # NoRun
       /\ sample.receipt = ReceiptOf(sample.run)
=============================================================================
