# A TLA+ model of chat-context-index

`chat-context-index` ("cci") keeps the messages of one conversation in one
SQLite file, summarises them into a tree with the help of a model provider, and
answers questions from them. It is a library that one process owns: several
coroutines of that process call it at the same time on one database connection
(`README.md:258` and `packages/python/README.md:58` rule out a second process).
There are two implementations of the same contract, in Python
(`src/packages/python/src/cci`) and in TypeScript
(`src/packages/typescript/src`). The modules here model the Python one; where
the twin differs, this file says so.

Everything a caller relies on comes down to a few promises: what was
acknowledged is kept, once, under a number that stays its own; a clear forgets
everything and lets nothing come back; the tree describes the messages that are
there; an answer is made of messages that are there; and no writer or clear
waits for ever. They have to survive interleavings of coroutines at every
`await`, cancellation, failing statements, timeouts and crashes.

## 1. The system

| component | state it keeps | operations | hard because |
|---|---|---|---|
| store (`store.py`, `search_metadata.py`) | tables, `store_meta` (revisions, generation, high-water mark), one connection | `open`, `migrate`, `rebuild_search_index`, `get_messages`, `view_node`, `aclose` | one connection for all coroutines, crash between statements, several processes while it is being opened or migrated |
| write gate (`store.py:235-277`) | `_write_gate`, `_inflight_writers`, `write_lock` | `begin_write`, `end_write`, `close_write_gate`, `open_write_gate`, `wait_for_writers_to_drain` | wake-ups, cancellation, deadline, several clears |
| ingest (`ingest.py`, `models.py`) | rows of `messages` and `ingest_receipts` | `ingest` | retries, two kinds of conflict, numbering |
| index (`index.py`) | `nodes`, `chunks`, `node_chunks`, `index_committed_seq`, `index_revision` | `index`, `index(rebuild)` | reads, calls a model for minutes, publishes |
| hierarchy planner (`tree.py`) | none | `plan_hierarchy` | keeps parents and their summaries from tree to tree |
| clear (`clear.py`) | empties all of it, `cache_generation` | `clear_history` | quiesces writers under a deadline, then two caches |
| export, import (`export.py`, `import_history.py`) | JSONL files | `export`, `import_history` | several transactions, old numbers |
| retrieve (`retrieve.py`, `tree_retrieval.py`, `search.py`, `relevance.py`) | none | `retrieve`, `search` | three reads with model calls in between; three limits one after the other |
| context (`memory.py`, `stats.py`) | none | `prepare_context`, `pack_context`, `stats` | one read without the lock; links between messages under two limits |
| ask (`ask.py`) | none | `ask` | deadline, budget, one repair, clears at every call |
| provider (`provider.py`, `retry.py`) | semaphore, `CallBudget`, `UsageLog` | `complete` | admission, timeout, retry |
| memo cache (`cache.py`, `cache_key.py`) | SQLite memo file, Redis, circuit breaker, `pending_cache_purges` | `get`, `set`, `clear`, `purge_prefix` | late writes, expiry, breaker |
| I/O worker (`io_worker.py`) | none of its own | `exec`, `run`, `all`, `get`, `close` | thin wrapper of apsw's connection thread |
| comparison runs (`evaluations/held_out/comparison.py`, `continue_comparison.py`) | journal of calls, rows, `stopped` | `Ledger.complete`, `run_comparison`, continuation | concurrent rows on one plan, stop and continuation |
| release runs (`evaluations/held_out/release_validation.py`, `run_allocated_*.py`) | allocation book, claims, outputs, report, accounting | claim, `ReleaseLedger`, `AllocatedLedger`, close | processes that start at once or are killed |
| other evaluation programs | files they write | generators, scorers, reports | straight line |
| TypeScript package (`packages/typescript/src`) | the same as its Python twin | the same | its own gate, slots and worker protocol |

How they interact: `ingest`, `import_history` and the second half of `index`
call `begin_write` first and `end_write` in a `finally`; `clear_history` closes
the gate, waits for the count to reach zero and opens it in a `finally`. Every
transaction, reads included, is made under `write_lock` on the one connection;
`get_messages`, `view_node`, the first check of `import_history` and the
generation check of `ask` are the reads that are not. `index`, `retrieve`,
`prepare_context` and `ask` release the lock while they wait for the provider
and compare revisions (`history_revision`, `index_revision`,
`cache_generation`) afterwards. `clear_history` wipes the memo cache after its
transaction. `ask` makes all its model calls, those of its retrieval included,
through one `MemoizedProvider` with one budget; the slots are shared by all
requests of the process, and so are the memo cache and its breaker. The
evaluation programs wrap the provider in a ledger that journals each call.

What makes each correct, and the hazards, line by line, are in
`PROJECT.json` under "hazards".

## 2. The modules

    ConversationLog      what callers may rely on            (abstract)
          ^ refined by
    HistoryStore         the store and its writers   --extends-->  IngestBatch
          ^ extended by                                            (pure part of ingest)
    ContextReaders       prepare_context beside the writers
    WriteGate            gate, drain, lock and event loop, in detail
    Maintenance          one file: open, migrate, rebuild, back up, crash
    TreePlan             plan_hierarchy and the budget of index, over many calls
    Selection            which messages reach a context, and with what
    Provider             slots, attempts and budget of a model call
          ^ extended by
    Ask                  questions beside clears, deadlines and cancellations
    MemoCache            memo file, Redis, breaker, and the wipe of a clear
    Ledger               the calls of an evaluation under a plan
          ^ extended by
    ComparisonRun        rows, review, stop and continuation
    ReleaseRun           claims, serial ledger and accounting of several processes
    HistoryProofs        theorems about IngestBatch, HistoryStore and its
                         readers, and the refinement
    WriteGateProofs, AskProofs, MemoCacheProofs, ComparisonProofs,
    ReleaseProofs, MaintenanceAndTreeProofs   theorems about one module each,
                         AskProofs about Ask and Selection, the last about
                         Maintenance and TreePlan
    SetsAndQueues        lemmas about finite sets of numbers, queues, sums and lists
    MC...                instances for TLC

**IngestBatch** is what one validated batch does to the tables
(`_ingest_locked`): which messages are skipped, which numbers the others get,
the receipt, and the answer in the order of the checks. The insert loop is
stated in closed form (a message is skipped if its external id is stored or
occurs earlier in the batch), so that theorems can be proved about it. A
request is `[key, session, msgs]`, a message `[ext, text, tools]`. `source_id` is
folded into keys and external ids, a message's own metadata into its text;
`message_id` is random and identifies nothing that `seq` does not. `RequestHash`
and `Payload` keep exactly the fields that `compute_request_hash` and
`message_payload` keep: the hash has the session metadata and not the tool calls,
the payload the tool calls and not the session. So the same message under a new
key and from another session does not conflict: it is skipped, acknowledged, and
stays in the session that stored it first.

**HistoryStore** is the store under its writers. `disk` is the committed
database and `conn` what the connection sees. Each operation of a task is cut
where the code can suspend and another coroutine can make a difference:

| code | actions |
|---|---|
| `ingest()` | `IngestCall` (with `begin_write`), `PassGate`, `IngestBody` / `IngestReplay` / `IngestRefuse`, `IngestCommit` |
| `index()` | `IndexCapture` (first locked read, then `begin_write`), `PassGate`, `IndexPropose` / `IndexNothing` (planning and the model), `IndexPublish` / `IndexStale`, `IndexCommit` |
| `clear_history()` | `ClearClose`, `ClearDrained` / `ClearTimeout`, `ClearBody`, `ClearCommit` |
| `export()` | `Export` |
| `import_history()` | `ImportCall` (the unlocked check), `PassGate`, `ImportLock`, then for each batch `ImportBody` / `ImportRefuse` and `ImportCommit` |
| an exception or cancellation anywhere | `Fail`: `immediate_transaction` rolls back, the `finally` clauses run |
| a failure after COMMIT took effect | `Unanswered` |
| the process dies, `open()` of the file | `Crash` |

The statements of a transaction are one step and its COMMIT another: between
them every other task may run, read the connection without the lock, fail, or
the process may die. Taking a free `write_lock` is part of the step that needs
it, since a task does nothing between the two.

Texts have no length, so `_chunk_messages` may cut anywhere, and the model may
have paid for any non-empty set of chunks up to `IndexLimit`; the bound
computation of `index.py:235-253` decides how many. `ends` is the set of last
sequence numbers of the chunks. A leaf records the rows it summarised, which the
code does not store: it is what `TreeDescribesHistory` compares the history with.

`AcknowledgedKept` says what a receipt is worth: every message of the batch is
stored with its text and, unless it has an external id that was stored before,
with the session it was sent in. It promises no more than the code keeps:

- a later message of a batch that repeats an external id is not stored, only the
  first one is;
- a request that differs from an earlier one in its tool calls only has the same
  hash and is answered with the earlier one's receipt: the tool calls of one of
  the two are stored;
- a message whose external id another batch has stored keeps the session of that
  batch.

**ConversationLog** is the promise: a log that accepts a batch whole and at most
once per key, under the next numbers and in its order, that can be wiped without
giving numbers back, saved, and loaded from a saved file in order. No tasks,
locks, crashes or index. `ImplementsLog` is the refinement, with
`log <- disk.messages`, `accepted <-` the keys of the receipts, `top <-` the
high-water mark and `saved <- files`.

**ContextReaders** adds coroutines in `prepare_context()`: `Capture` (snapshot
and lexical search in one locked transaction), `Navigate`, `EndNavigation`,
`FallBack` (`navigate_tree`), `Recheck` (the second look of `retrieve`),
`ReadRecent` (`get_messages`, without the lock), `ReturnContext` or `Conflict`
(the generation that `stats()` reads). A lexical search matches everything or
nothing: the properties bound what is returned from above, so these extremes
are the ones that could break them. Ranking and limits only leave things out.

**WriteGate** looks at the gate alone, with the event loop as part of the model:
`ready` is the loop's queue, a task runs from one suspension to the next, and
what a step wakes goes behind those that are ready. This is where it matters
that `Event.wait()` does not look at the event again after it was woken, that
`Condition.wait_for` does, that `asyncio.Lock` hands itself over in order, and
that a cancellation may arrive together with the wake-up it races. HistoryStore
has the same gate with every order of steps allowed, `woken` being the tasks
that the last opening has let through.

**Maintenance** is one store file and the processes that open it. `disk` is the
committed file, `writer` the process inside `BEGIN IMMEDIATE`. `open()` is
`Open`, `SetJournal`, `InitFresh` or `ResumeExisting`; `Use` is any write through
an open handle; `migrate()` and `rebuild_search_index()` are `Begin`,
`ReserveBackup`, `CopyStore`, `Commit`, with `Fail` and `Die` at every step. The
older SDK (`OldOpen`, `OldUse`) and damage from outside (`Damage`) are external:
they are what the checks of `search_metadata.py` are there for. The two search
tables are functions from row ids to messages, which is all that the checks
compare.

**TreePlan** lets chunks arrive (`Arrive`), and `Index(fan, limit)` do what
`index.py:235-291` and `plan_hierarchy` do with the call budget: count down the
new leaves until they and the new parents are payable, plan, summarise, publish.
`tree_max_children` and the limit of calls are settings of an `open()` that no file
keeps, so that each call comes with its own. `fanOut` remembers the one that the
tree was published with, which the code does not store.
`Rebuild` starts from no leaf; `Clear` drops all. A chunk is its number. One
iteration of the `while` over layers is `Pass`. The groups of a layer share no node,
so that one pass gives all of them their parents at once (`WithParents`), where
the code takes one after the other; a new parent is numbered from the highest node
on, where the code draws a random id. The passes are a fold over the first
layer, which has more nodes than there are passes. `told`
remembers what the model was shown when a summary was made, which the code does
not store: `SummariesDescribeChildren` compares it with the tree.

**Selection** is a pipeline of three pure stages, `Search`, `Retrieve` and
`Prepare`, over every small history: `search()` with its linked later mentions,
the three limits of `retrieve()`, then the candidates and `pack_context()`. What
text processing would find in a message (whether it matches, which names it
mentions, which of them is the anchor, how long it is) is arbitrary data. `Prepare`
takes any number of recent messages up to `MaxMessages`, so that a recent message
may be the source of a link, or its target. Links are returned between pieces of
evidence (`ReturnedLinks`) and then moved to the first copy of each text
(`PackLinks`); the other copies are candidates without a link.

**Provider** is `MemoizedProvider.complete` without the memo: `Begin` takes or
queues for a slot of the `asyncio.Semaphore`, `Admitted`, `Dispatch`, `Answers`,
`CallFails`, `CallTimesOut`, `BackoffEnds` are one attempt of `async_retry` each,
`AdmissionTimesOut` and `CutOff` the deadline or a cancellation. `waiters` is the
semaphore's queue; a waiter that was woken owns its slot before it runs
(`granted`), which is where a cancelled waiter must hand it on.

**Ask** adds what `ask()` does with the results: `Navigate` and `NavigationEnds`
(the tree navigation of its retrieval), `Retrieved`, `Synthesize`, `Judge` (the
validation of citations, with `JudgeOnce` for the one repair), `NoAnswer`,
`Expire`, `Cancelled`, beside `Clear`. Every emission re-reads the generation
(`Emit`), except the ones the code makes before any retrieval.

**MemoCache** follows two model calls through `get` (`Lookup`, `RedisAnswers`,
`RedisFails`, `LocalAnswers`, `Refill`), the model (`ModelAnswers`) and `set`
(`LocalSet`, `RedisSet`), and one clear through `ClearCommits`, `Wipe`, the
batches of `purge_prefix` (`PurgeBatch`, `Purged`, `PurgeFails`). Redis may be
slow, fail, `Evict`, `Corrupt` and expire entries at any time (external).

The clock ticks `Second` times a second, because `TimeToLive` is in whole seconds
and one at least (`max(1, int(.))`). A lookup or a write looks at the clock once,
when it begins (`began`): that time decides what is fresh and what remains, while
Redis counts from when it executes the command. Time passes in between, up to
`Overhead` (`Tick`): `asyncio.wait_for` cuts the step by then (`Cut`), and a command
that was sent may still take effect. `Overhead` stands for that too: a command that
Redis executes later than the overhead budget after the step began, out of a buffer
of its connection, is not modelled. `refused` counts the failures since the breaker
last opened, in order to state what the breaker shields from.

**Ledger** and **ComparisonRun**: a call is entered, dispatched, and answered,
refused, cut or cancelled; the journal `calls` keeps what was reserved and what
was reported. `BeginHistory`, `Indexed`, `NextRow`, `Navigated`, `Queried` are a
worker on one history, `Generated`, `BeginReview`, `EndReview`, `EndRun` the
rest of a run, `Abort` a cancellation of the process, `Continue` the
continuation with doubled limits and one worker.

**ReleaseRun** has processes (`Launches`) with any entry point, allocation and
output directory. `Prepare` verifies, `Claim` makes the claim directory,
`MakeOutput` the output directory, `Dispatch`, `Answered`, `Stopping`,
`Interrupted` are the ledger's calls, `Close` and `Account` what the `finally`
clauses write, `Die` a kill between any two steps.

The variants in the modules ("Variant: ...") are deliberately wrong forms of a
definition. Nothing uses them; each is what a plausible mistake in that code
would be, and shows that some property would notice it.

## 3. The runs

| run | instance | shows |
|---|---|---|
| MCHistoryStore | 2 tasks (symmetric), 2 batches of different sessions that share an external id, which the second names twice, the first once more with another tool call, a file of another store, imports in batches of 1, `IndexLimit` 2, `MaxRevision` 3 | TypeOK, RevisionLockstep, DirtyOnlyUnderLock, ReceiptsHold, TreeDescribesHistory, AcknowledgedKept, SeqsUnique, IssuedBelowHighWater, ImportAlone, and that the store implements ConversationLog (ImplementsLog) |
| MCContextReaders | 1 task and 1 reader, 2 batches, `IndexLimit` 1, 2 recent messages, `MaxRevision` 3 | EvidenceInSnapshot, RetrieveReturnsStored, ContextSurvivesNoClear |
| MCWriteGate | 2 writers, 2 clears | InflightExact, GateNotLeftClosed, DeleteFindsNoWriter, WriterEnds, ClearEnds |
| MCAsk | 2 questions, 1 slot, 2 attempts a call, a budget of 2 attempts, 1 navigation call | SlotsConserved, BudgetKept, AnswerBacked, NothingOfARetiredHistory, BudgetNeverLosesEvidence, AskEnds |
| MCMemoCache | 2 calls, 1 request, 2 generations, a lifetime of 2 s, a clock of seconds up to 2, overhead 1 s, breaker opens at 1 failure for 1 s | PurgeTruthful, BreakerShields |
| MCMemoLifetime | 2 calls, 1 request, no clear, a clock of half seconds up to 4 s, a lifetime of 2 s, overhead 1 s | LifetimeKept |
| MCComparison | 1 history, both strategies, 2 workers, reserve 2, 4 calls, 7 tokens, 1 continuation | WithinPlan, NeverSentTwice, CompleteMeansComplete, NothingSentAfterStop |
| MCReleaseRun | 2 processes, allocations, outputs; allocations of 2 and 4, baseline 6, reserve 2, 2 cases | SpendWithinBaseline, CompleteIsKnown |
| MCMaintenance | 2 processes, 2 backup paths, 3 messages, `MaxRevision` 4 | AcceptedIsExact, BackupIsWhatWasReplaced |
| MCTreePlan | 9 chunks, fan-outs 2 and 3 and limits 1, 3, 9 from call to call, 1 rebuild or clear | TreeIsWhole, SummariesDescribeChildren, BudgetBuysProgress |
| MCSelection | 4 messages over 3 texts and 2 names, every combination of what the texts say; 2 links in all, 3 messages of a context, up to 3 of them recent, room 3, evidence of 5 units | SeparationReported, NewerStatementFirst |

One more run checks a sentence that the code's own documentation says of it and
that the code does not keep; it ends with a short trace that shows how.

| run | sentence | what happens |
|---|---|---|
| MCDirtyContext | `index.py:137-139`: the connection "must be serialized through write_lock even for reads" | `prepare_context` returns recent messages of a batch that is rolled back afterwards |

**Bounds.** Every bound is a CONSTANT that appears in a guard, or the size of a
set.

- HistoryStore: `MaxRevision` bounds both revisions in the guards of the three
  bodies that raise them; everything else is then finite. Three revisions are
  enough for an ingest, an index proposal that is overtaken by a clear and
  another ingest, and a publication, or for an import in two batches beside
  another write. The batches overlap in the external id, in different
  sessions, with the same text, another text and another tool call: a message is
  skipped because the table has it or because the batch has it, conflicts, or comes
  with a request that is taken for a retry. The file of the other store adds a
  batch identity that is taken. Two tasks suffice to overtake one another; the proofs below are for any number. Tasks are interchangeable,
  hence SYMMETRY; no liveness property is checked under it.
- Ask: one slot for two questions is the smallest place where a waiter can be
  woken and cancelled; a budget of two attempts runs out inside navigation,
  inside synthesis and before the repair. `Clear` may come at any time and more
  than once.
- MemoCache: with a clock up to 2 s, records expire while a purge goes on and the
  breaker opens, is probed and opens again; one generation is retired. The
  lifetimes need more of the clock and no clear: 8 half seconds let two calls
  refill one record again and again, early, late, and in its last half second.
- ComparisonRun: 4 calls and 7 tokens stop a run at the calls and at the tokens
  (a call reserves 2 and may report more), with two calls under way.
- ReleaseRun: both allocations together are the baseline, so that one run that
  is started twice on one of them would exceed it.
- TreePlan: 9 chunks with a fan-out of 2 make four layers, and three with 3; the limits
  lie below, at and above what a new layer, or a whole new tree, costs.
- Selection: four messages make chains, shared targets, and copies of a source
  that are older and newer than what it is linked to.
- Maintenance: three numbers and four revisions let an older handle write before
  and after a migration that another process makes.

**Deadlock** is checked except in MCTreePlan (after nine chunks nothing
arrives any more) and MCSelection (a pipeline that ends). The end of a comparison
and of all release runs is a stuttering step of its own (`Stay`, `AllOver`).

**Fairness** is assumed in two places. In WriteGate (`FairGateSpec`): the event
loop runs ready tasks (weak fairness of the loop's step), what a writer or clear
that is under way waits for outside of the loop, storage or provider, completes
or times out (`provider_call_deadline_s`, the request deadline and SQLite's busy
timeout bound those waits), and `asyncio.wait_for` fires its deadline. Order in
the loop, not fairness, is what lets a writer past a gate that is closed again
at once. In Ask (`FairSpec`): a question that is under way takes another step
(weak fairness of each question's own steps): the event loop runs what can run, a
call is answered or cut by `provider_call_deadline_s`, a sleep ends. It is not
even assumed that a request's own deadline comes. Nothing is assumed of callers
in either: they need not call, cancel, nor clear. That a
question waiting for a slot gets it follows from the queue, not from fairness
towards it.

**What TLC found that is not a run.** These were met while modelling. Most are
outside of a premise that a property states; the properties above hold with that
premise. Where the code's own text says otherwise, its place is given.

- Two clears share one gate: the one that ends first opens it, and the other
  deletes beside a writer (`clear.py:117` against `clear.py:4-6`).
  DeleteFindsNoWriter has the premise that one clear runs. The rows are safe:
  the writer waits for `write_lock`.
- Links between messages form chains: packing then leaves a source without what
  corrected it, although `memory.py:80-81` says it never does. NewerStatementFirst
  exempts what is source and newer statement at once: such a source may have come
  along with another one, and such a newer statement may have been left out for its
  own. The links are those that `prepare_context` has moved to first copies
  (`memory.py:205-209`): a later copy of a superseded text may be packed when its
  newer statement no longer fits, although `retrieve.py:207-208` lets every copy
  carry the later mention with it.
- A batch that gives one external id to two contents is acknowledged and loses the
  second: the loop skips it by then, under a comment that calls it "already
  verified equal" (`ingest.py:218`), while the verification ran before the first
  insert. AcknowledgedKept exempts it.
- A refill of less than a second is one of a whole second (`cache.py:273`), so Redis
  keeps the record beyond its absolute expiry, which `cache.py:185-187` rules
  out; nobody is served with it, since readers compare the expiry. LifetimeKept
  allows for a second and the overhead.
- `index()` with a limit of 1 call and a full top layer never gets further
  (`index.py:238-249`). BudgetBuysProgress needs a limit above the number of
  levels plus one.
- After an `open()` with another `tree_max_children`, no published parent may be
  one of the new groups (`tree.py:24-38`): all summaries are to be bought again, and
  `index()` reports partial and changes nothing for limits far above the number of
  levels. BudgetBuysProgress therefore asks for the fan-out that the tree was
  published with, or for a limit above the number of indexed chunks. With less,
  `index(rebuild=True)` goes on: it publishes a first part under the new fan-out,
  and BudgetBuysProgress applies again. Until then a reader with a smaller fan-out
  than the published one answers "tree_requires_rebuild" where a layer is too wide for it
  (`tree_retrieval.py:53-54`).
- A crash of `open()` between `PRAGMA journal_mode` and the schema leaves a file
  with one page and no tables, which every later `open()` refuses
  (`store.py:299`); an interrupted backup leaves its file, and the same path is
  refused afterwards.
- A purge of Redis that fails is recorded in `pending_cache_purges`, which
  nothing reads; after a crash between COMMIT and the purge the entries of the
  retired generation are not even recorded.
- After the probe time of the breaker every concurrent call probes, not one
  (`cache.py:190-191`).
- A continuation charges 0 for a call with zero usage (`comparison.py:122-131`),
  the release ledger the reservation (`release_validation.py:155`).
- `ask()` reports its usage as known though a dispatched call was cut by the
  navigation's deadline (`tree_retrieval.py:73-77` against `ask.py:21-22`), and
  an answer whose `citations` is not a list raises TypeError (`ask.py:100`).
- Tool calls are not in the request hash (`models.py:179`), `index()` reports a
  pending range of no message after a clear (`index.py:251`), and an import may
  reuse numbers that a clear retired (`import_history.py:146`).

## 4. What is proved

TLAPS checks these for any sets of tasks, calls, requests and files, any number of
slots and any bounds:

| theorem | says |
|---|---|
| `NewRowsNumbered` (HistoryProofs) | the rows of a batch are finitely many, carry exactly the numbers from the old mark (exclusive) to the new one, each once |
| `Invariance` | `IInv` is an invariant of HistoryStore |
| `TypeCorrect` | `TypeOK` |
| `LockstepHolds` | `RevisionLockstep` |
| `NoDirtyReadUnderLock` | `DirtyOnlyUnderLock` |
| `NumbersUnique`, `HighWaterHolds` | `SeqsUnique`, `IssuedBelowHighWater` |
| `ReceiptsTrue` | `ReceiptsHold` |
| `ImportSecluded` | `ImportAlone` |
| `LogInvariance` | `LogInv` is an invariant of HistoryStore |
| `AcknowledgedStays`, `TreeStaysTrue` | `AcknowledgedKept`, `TreeDescribesHistory` |
| `CommitsAreWhole` | whenever `disk` changes, it becomes what one whole operation (a batch with its receipt, a tree, a clear, a batch of an import) makes of the `disk` that it replaces |
| `StoreImplementsLog` | `ImplementsLog`: every behaviour of HistoryStore is one of ConversationLog |
| `ReadersInvariance` | `ReaderInv` is an invariant of ContextReaders, and `IInv` and `LogInv` with it |
| `EvidenceOfSnapshot`, `RetrievedIsStored`, `ContextIsStored` | `EvidenceInSnapshot`, `RetrieveReturnsStored`, `ContextSurvivesNoClear` |
| `CounterExact`, `GateOpens` (WriteGateProofs) | `InflightExact`, `GateNotLeftClosed` |
| `OrderInvariance`, `DeletesAlone` | `OrderInv` is an invariant of WriteGate, and `DeleteFindsNoWriter` |
| `AskInvariance` (AskProofs) | `IInv` is an invariant of Ask and its provider |
| `SlotsNeverLost`, `SlotsSuffice` | `SlotsConserved`, and never more calls under way than slots |
| `BudgetNeverExceeded`, `BudgetRaisesNothing` | `BudgetKept`, `BudgetNeverLosesEvidence` |
| `AnswersAreBacked`, `NothingRetiredReturned` | `AnswerBacked`, `NothingOfARetiredHistory` |
| `SeparationsReported`, `NewerStatementsPacked` | `SeparationReported`, `NewerStatementFirst`, of Selection |
| `MemoInvariance` (MemoCacheProofs) | `IInv` is an invariant of the memo cache |
| `LifetimesKept`, `PurgesTruthful`, `BreakerProtects` | `LifetimeKept`, `PurgeTruthful`, `BreakerShields` |
| `ComparisonInvariance` (ComparisonProofs) | `IInv` is an invariant of ComparisonRun and its ledger |
| `SentOnce`, `CompleteIsComplete` | `NeverSentTwice`, `CompleteMeansComplete` |
| `StoppedSendsNothing`, `PlanKept` | `NothingSentAfterStop`, `WithinPlan` |
| `ReleaseInvariance` (ReleaseProofs) | `IInv` is an invariant of ReleaseRun |
| `SpendingBounded` | `SpendWithinBaseline`: all runs together spend no more than the baseline has left |
| `CompletenessKnown` | `CompleteIsKnown`: what is accounted for as complete is known, call by call |
| `MaintenanceInvariance` (MaintenanceAndTreeProofs) | `IInv` is an invariant of Maintenance |
| `AcceptedStoresAreExact` | `AcceptedIsExact`: a store that is accepted and was not damaged has exact search tables |
| `BackupsKept` | `BackupIsWhatWasReplaced` |
| `TreeInductive` | `TreeIInv` is an invariant of TreePlan |
| `TreeIsAlwaysWhole`, `SummariesAlwaysDescribe` | `TreeIsWhole`, `SummariesDescribeChildren` |
| `BudgetAlwaysBuys` | `BudgetBuysProgress`: a limit above the number of indexed chunks pays for a next one under any fan-out, and under the published one a limit above the levels plus one |

**The store.** The assumptions are those of HistoryStore: limits are positive, `NoReq` and
`NoTask` are not requests and tasks, a batch is not empty (`_validate_batch`
refuses an empty one) and has a key of its own (`idempotency_key` is a string that
`ingest()` requires; the rows of an import have none, `NoKey`), and a file holds finitely many rows with numbers of their
own (it is an export; the checksum in its manifest is verified before the first
insert).

None of the properties is inductive by itself. `IInv` adds, in named parts:

- `StoreInv`, of both `disk` and `conn`: the shape of the record, finitely many
  rows with distinct positive numbers, all at or below the mark, search rows at
  the history's revision, and receipts that are true. It has to hold inside a
  transaction too, since a commit makes `conn` the disk.
- `LockInv`: the tasks that are inside a transaction, or between two batches of
  an import, are exactly the holder of `write_lock`. This makes `Fail` of any
  other task harmless, and the rollback of the holder's the right one.
- `MarkInv`: the mark of the disk is not above that of the connection, so no
  commit lowers it below a number that was given out.
- `ImportInv`: between the batches of an import the history revision is the
  expected one, and the rows inserted together with those still to insert have
  distinct numbers. This is what keeps the second batch from repeating a number.
- `SnapInv`: what a proposal was made from is numbered, and its chunk ends are
  numbers of rows it has read.
- `RequestInv`, `FileInv`: what tasks and files carry around is well formed.

The proof has one lemma for what each operation does to a store (`AfterIngestInv`
rests on `NewRowsNumbered`; `AfterImportBatchInv`, `AfterPublishInv` and
`AfterClearInv`), one for each way a step treats the locks (`FinishInv` for every
step that ends a task, `MoveInv` for one that moves on, `BodyInv` for one that
takes the lock and changes the connection), and one for each action or group of
actions that are alike. `SetsAndQueues` proves that `Max` and `Min` of a non-empty finite set of
numbers are its elements and bounds, by way of the well-founded order of the
naturals.

**The log.** Whether what was acknowledged is kept depends on what a transaction
knows of the store it commits to. `LogInv` says that, beside `IInv`:

- `TransactionInv`: in an open transaction, `conn` is what the operation makes of
  `disk` as it is now, and the reason why it was let through (the receipt that is
  not there, the proposal that is current, the store that is bare) still holds of
  `disk`. This is what `write_lock` is for. Between the batches of an import,
  the stored rows and those still to come make up one file, the stored first.
- `ProposalInv`: the revisions of a proposal are none of the future, and if they
  are still the present ones, the rows it read are what the store holds. A clear
  raises the generation, an ingest the history revision, another publication
  the index revision, so what it was made from cannot have changed unnoticed.
- `StoreLaw`: the tree describes the messages up to `index_committed_seq` and no
  others, a store without messages has neither receipts nor leaves, and
  every request that hashes like the one of a receipt is `Answered`: the rows keep
  (`Keeps`) a request that differs from it in its tool calls, if at all.

`StoreLaw` is shown of each operation (`IngestLaw`, `PublishLaw`, and so on), the
step of a COMMIT takes it from `conn` to `disk` by way of `TransactionInv`.
`StepIsWhole` collects the commits as whole operations; the theorem
`CommitsAreWhole` is that, and in the refinement each of them is one step of
ConversationLog (an index changes nothing there) and every other step a stutter.

**Readers.** A reader's steps change nothing of the store, so `IInv` and `LogInv`
hold beside any number of readers (`ReadersAreStutters`). `ViewInv` relates a
snapshot to the store long after it was taken: as long as the generation is the
same, its rows are stored, and they are all that is stored up to its `maxSeq`. That
needs the imports: an import could insert numbers below `maxSeq`, but only into a
store that is bare, of which no snapshot has rows. The unlocked reads of a context
may see uncommitted rows; the theorems speak of the evidence, which is read under
the lock.

**The gate.** Finitely many writers and clears, and clears that are not writers
(`TasksAssumption`). Only where each task is matters for the counter and for the
gate being left closed, not the order of the loop: `IInv` is the two together
with the types. There is one lemma for each way a step moves a task
(`WriterBegins`, `WriterEnded`, `WriterMoves`, `ClearerMoves`), and every action is
one of them.

That a clear deletes beside no writer does depend on the order. A writer that the
last opening of the gate has woken has not run yet and is not counted; a clear
that closes the gate now and finds the counter at zero would delete beside it. It
cannot, with one clear only: the writers were made ready when that clear opened
the gate, so they run before it runs again. `OrderInv` says so:

- `LoopInv`: a task is ready once, except a writer that was cancelled just as it
  inherited `write_lock`, which is ready twice; and of a task in the lock's queue
  only the heir or a cancelled one is ready (`Fit`).
- `LockInv`, `EventInv`: both queues hold every task once, those that are there
  wait for nothing else, and who is still in the event's queue is ready only
  because it was cancelled.
- `SoleGate`, `SoleOrder`, for a clear that is the only caller: the gate is open
  exactly while it is idle or wiping, nobody is counted while it is in or in
  front of its transaction, and a writer that is ready and about to pass the gate
  stands before the clear in the queue of the loop.

The lemmas follow the loop: what it means to be taken off the head (`AfterTurn`),
to put others behind (`WakesBehind`), to take, hand on and leave the lock, to open
and close the gate, each for any task.

**Slots and budgets.** Finitely many requests, at least one slot, attempt and call
(`ProviderAssumption`). That slots add up is not inductive: the semaphore wakes
the first waiter that was not woken yet, so the proof has to know that the queue
holds every waiting or woken request once and no other (`QueueInv`). `HandedOn`
says what one release does to queue, owners and the free slots, whether a call
ends, or a woken waiter is cancelled and hands its slot on. Above it,
`AsksWithEvidence` (a request that synthesises has evidence) carries the answers;
the action properties follow from it step by step.

**Selection.** Limits are positive, and `NoName` is no name (`SelectionAssumption`);
histories, texts, names, matches, anchors and limits are any. Both properties
are about what several loops make of a list, one after the other, so most of the
proof is about loops. `FoldExists` and `FoldTraced` in `SetsAndQueues` show that a
fold over a list of any length has the results of its steps, with the step given as a
function (a lemma about an operator could not be instantiated here); each loop of
Selection is then one such step (`PutTraced`, `KeepTraced`, `LinkTraced`,
`AdmitTraced`, `ConsiderTraced`), and what holds after each step is shown by a least
counterexample (`UpTo`).

- `SeparationsReported`: the ordered list has every hit's links in it
  (`LexicalIs`), a list that was not cut is itself (`FirstIs`), and evidence that is as
  many as was offered is what was offered (`BoundedIs`); so if none of the three
  limits is reported, nothing was parted.
- `NewerStatementsPacked`: every step of `pack_context` keeps `Accompanied` (what is
  packed is linked to by another message, or has its newer statements with it)
  and `NothingOpen` (what was looked at and left out does not fit any more, or has a
  newer statement of its own; what is packed only grows).
  The first copies of all evidence are among the candidates (`CandidatesAre`), and
  `originals` come before copies, so that a newer statement that is linked to is always
  one that can be packed, and has been looked at by the end.

**The memo cache.** Finitely many calls, positive lifetime, threshold and probe time
(`MemoAssumption`); overhead, and how many ticks a second has, are any. `IInv` adds to
the three properties that a lookup or write began at most `Overhead` ago and that
what it writes back had not expired when it began (`CallsInv`), that a purge still has every entry of the retired generation
before it, apart from those written after the wipe (`PurgeInv`), and that
the commands that have failed since the breaker opened and those still under way
are no more than there are calls (`BreakerInv`).

**Comparison runs.** The strategies are a tuple without repetitions
(`STRATEGIES`, `comparison.py:35`, of which `:590` takes a rotation), and a history is no
row (`RunAssumption`); how many histories, strategies, slots, calls, tokens and
continuations there are is left open. A reservation is a positive number, and no
token count is not one (`LedgerAssumption`).

That nothing is sent twice needs to know what was sent in terms of what may
still be sent, at each stage of the run, which the journal alone does not tell:

- `LedgerInv`, `JournalInv`: a task is waiting, sleeping or has sent exactly if it
  has a scope and no result; the journal has one entry for each scope, the pending
  ones are those of the tasks that have sent, and what a waiting task asks for is
  not in it.
- `StageInv`: which tasks have a scope at which stage, and which scopes they may
  have. No two of them have the same (`Apart`).
- `SentInv`: while histories are worked on, a query that was sent for a row of this
  stage belongs to this round, and its history has come past it (`Past`); reviews
  belong to earlier rounds. While reviews are made, what was reviewed is not among
  the rows that are left. At the end nothing more may be sent, and `Continue`
  establishes it anew from `PendingRows`, which is where the variant that looks
  for answers only fails.
- `CompleteInv`: in the first round, a row that a history has come past has a
  result, a row ends as RunStopped only in a run that has stopped, and so does a
  call that claims to be free.

The limits are a second invariant on top of that, `BudgetInv`: the number of calls
and, as long as every usage was unknown or at most the reserve, the sum of what
is charged. `SumSplits` (what one element adds) and `SumMoves` (elements that are
replaced, each by one of the same value) in `SetsAndQueues` say what a sum over a
finite set is, for sets of any size: they are shown by a smallest counterexample,
since induction is out of reach. A call that is sent adds its reserve, which the
guard has left room for; a call that ends had an unknown usage and is replaced
by one that is charged at most that; a cancellation moves entries without
changing their charge; a continuation raises the limits.

**Release runs.** Finitely many processes, which are started by hand, and
allocations, which are entries of a file; `Nobody` is no process, a reserve is
positive (`ReleaseAssumption`). How many calls a run makes, what they cost, which
entry points are used and where processes die is left open. No run looks at the
others, so the invariant `IInv` is one of each run, of three parts:

- `ClaimInv`: a run that has called was verified and holds the claim of its
  allocation, to the end and beyond its death. This is where `exist_ok=False`
  goes in: claims are never given back.
- `SpendInv`: what a run has reserved is within the limit that it read, unless one
  of its calls was charged more than the reserve, and a call that is under way
  has no usage yet.
- `KnownInv`: as long as nothing has failed, every call that has ended, and counts,
  has a known usage within the reserve and an allowed model; a report says
  COMPLETE only of a run that has come through all its cases.

`SpendingBounded` then sums over runs: different runs with calls have different
allocations, each spends at most what its allocation says, and the allocations
that were verified add up to no more than the baseline. `SumBelow` in
`SetsAndQueues` is that step for sums of any size; the other new lemmas there say
that a sum does not depend on the order of its terms, which ties the fold over a
journal to the sum of its entries.

**Maintenance.** `NoProcess` is no process (`MaintenanceAssumption`); processes, backup
paths, messages and revisions are any. `IInv` has three parts beside the property
of the backups:

- `StoreInv`: the revision of the search tables is never ahead of the store's, and
  where they are equal the tables are exact, unless damaged from outside. A write
  of the older SDK raises the store's revision and leaves the other behind, and
  no later write through a current handle brings them together again; only a
  `Commit` does, which has compared the tables with the messages before.
- `WriterInv`: at most one process is between `BEGIN IMMEDIATE` and its end, the
  store stands still while it is, its backup path has replaced nothing yet, and
  when it rewrites, the backup is the store.
- `OldInv`: the older SDK has nothing open but a store.

A row that is added gets the row id after the highest one (`FreshRow`), so it
replaces no other row, and a table that was complete stays so (`CompleteAdded`).

**Tree.** Fan-outs are at least 2, limits are positive and `NoNode`
is no number (`TreeAssumption`; `plan_hierarchy` refuses a smaller fan-out); chunks,
fan-outs and limits from call to call, rebuilds and clears are any. `TreeIInv` says of the published nodes:

- `Whole`: each parent has a list of children (`Family`) whose orders count up from 0,
  of which each starts where the one before it ends, and which together make up the
  range of the parent; every other node is below a parent or on top; each chunk up
  to `indexed` has one leaf.
- `TopsInv`: the nodes on top are such a list too, of at most `fanOut`.
- `Narrow`: no parent has more children than `fanOut`. A parent that is kept may
  have been made under another fan-out, but only as a whole group of the present
  one.
- `ToldInv`: the summary of each parent was made of the list it has.
- `Shaped`: the tree has levels. The lowest is the leaves in order; each next one is
  the parents of the groups of the one below, which are full but for the last, and
  a group of one node goes up as it is. Each level has a parent above the
  first chunk, so that `Levels` counts them.

Its proof follows the code. `GroupsCut` says where `GroupsOf` cuts a layer.
`AboveIs` and `UpsFit` say that what goes up for a group is its only node, the parent
it had or a node of its own: a published parent cannot go up for two groups, nor
twice, because the children it had are without a parent in one group only. From
that, `RaisedKeeps` shows that a pass keeps the tree whole and leaves a layer of
adjacent nodes (`LayerInv`), and `SummariesStay` that it summarises exactly the
parents it makes. `GroupedKeeps` puts both together, with the fact that each pass
leaves fewer nodes, and `LayeredIs` repeats it over the passes: some pass leaves a
layer that fits under the top, which is why the loop ends.

`BudgetAlwaysBuys` rests on two lemmas. `SameFanOutBuys` compares a plan for one more leaf with the published tree, level
by level. If a layer is the published one but for its last node and perhaps one
node more (`Near`), both are cut at the same places (`SameCuts`), so that a pass finds
the published parents of all groups but the last and again leaves such a layer
(`NearUp`): at most one new summary for each level. When the published top is full
and the layer is one too long for it, one pass more makes one parent (`OneOver`).
That is at most one summary for each level and one above (`FewSummaries`), beside
the call for the leaf. Without `Shaped` it fails: a tree that is only whole may be
grouped at other places, and then no parent is found again. That is also what another
fan-out does, so the lemma is about the one that the tree was published with.

`AnyFanOutBuys` asks nothing of the published tree but `Whole`. Each new parent
has two children or more (`Pairs`), so a pass takes at least as many nodes from the
layer as it adds to the summaries (`Shrinks`), and a plan makes fewer parents than it
has leaves (`FewerThanLeaves`): with one new leaf, at most `indexed`. The limit has
to pay for these and the leaf.

**Only model-checked:** liveness (WriterEnds, ClearEnds, AskEnds). The prover does
not reason about fairness and ENABLED.

## 5. What is not modelled, and what is taken for granted

Components listed as `not_modelled` or `partly` in `PROJECT.json` give the reason
there. In addition:

- Validation that refuses a call before anything changes (batch sizes, manifest
  and checksum, `history_id`, a missing provider or an expired deadline before any
  work), rendering, logging, token counts.
- In HistoryStore the rows of the full-text tables; their revision is modelled
  there, their contents in Maintenance.
- One process beside a handle of the older SDK and maintenance in Maintenance;
  everywhere else one process, as the documentation requires.
- SQLite keeps its promises: a transaction that committed survives a crash
  (`synchronous=FULL`, WAL), one that did not leaves no trace, and one writer is
  inside `BEGIN IMMEDIATE` at a time.
- `_writer_cv` is an asyncio.Condition whose inner lock is free whenever
  `begin_write` or `end_write` asks for it; contention for it, which would add a
  suspension to each, is not modelled. Neither is a cancellation in that window.
- `asyncio.wait_for` of Python 3.12 or later, which awaits in the same task, and
  a host that does other work between two calls.
- The export of an empty history (importing it inserts nothing), `exchanges` and
  `summary_fts`, which nothing fills, and `migrate()` on a current store, which
  only validates.
- Selection: equal rank of all matches, one text part a message, and the limit of
  32 or more rows that the search for links reads.
- TreePlan: one `index()` at a time; the races are in HistoryStore.
- ComparisonRun and ReleaseRun: input and output tokens are one figure, and the
  price is proportional to it; a case makes one or more calls; prompts, scores,
  summaries and hashes of pinned files are left out. `load_module` gives each
  module its own `RunStopped`, so that a stop inside a guarded run ends it as an
  exception: `Interrupted`.
- The TypeScript package. It differs where it matters (waiters of the gate are
  resolved in a batch, `BoundedProvider` hands its slot on when a call times out
  and lets the call run, the worker has a request table), so it needs modules of
  its own and not variants of these.

## 6. Plan

Done: the store and its abstract log, the gate, the readers, maintenance, the
tree, selection, provider and ask, memo cache, both kinds of evaluation runs,
and the proofs of section 4. Left, in order of importance:

1. The TypeScript package: gate, BoundedProvider, I/O worker.
2. MemoCache under Ask: one answer of the memo for two questions, the budget left
   alone by a memo hit beside a wipe.
