# KazenAI SDK: TLA+ verification

KazenAI is an in-process SDK: it wraps OpenAI and Anthropic clients, checks each
call against a budget before it is sent, and reports what the call cost. This
directory holds TLA+ models of the parts of it where concurrency, failures and
ordering decide whether money is counted once and no evidence is lost, TLC
configurations that check small instances of them, and proofs that TLAPS checks.

    tlc -workers 2 -config SettleQueue_safety.cfg MCSettleQueue
    tlapm SettleQueueProofs.tla

`PROJECT.json` maps every definition to the lines it models, lists the runs, the
mutants (a plausible bug for each property, which the run must detect), the
findings, the hazards and the theorems.

## 1. The system

A metered call goes through five steps: the local cap takes a *hold* of the
projected cost; Agent FinOps (a service) makes a *reservation*; the signal
`provider_started` goes out before the dispatch; the provider is called; the
reservation is settled with `usage_known` (an exact amount, $0 for a definitive
4xx) or marked `outcome_unknown`. Every signal is written to a file-backed
journal before it is sent, and a background flusher redelivers what was not
acknowledged. Beside that, events go to telemetry sinks with a memory queue and an
SQLite spool.

| Component (source under `kazenai/`) | State | Operations | What makes it correct |
|---|---|---|---|
| Settlement journal (`spine/settle_queue.py`, the settle requests of `spine/guard.py`) | record, claim and lock files shared by all processes of a host | enqueue, ack, release, schedule_retry, quarantine, backfill, flush | no journaled intent is lost; every one is delivered at last; one intent per idempotency key; files are removed only for cause; one recovery pass |
| Metered call (`monitor.py`, `_async_provider.py`, reservation and signals of `spine/guard.py`) | where the call is, its reservation, its cost, its unsent signals | admission, start, dispatch, reconcile, mark, record; cancellation | started before dispatch; settled at the cost, once; evidence after every end; outcome reported at last |
| Local budget (`enforcement.py`, `budget.py`) | held and spent amounts, the rate window, shared by clients and threads | check_local, release_projection, record_call, prune | the cap holds for all concurrent calls; every hold is given back |
| Telemetry sink and spool (`sinks.py`, `retry_queue.py`) | memory queue, batch, spooled rows with leases, dead letters | emit, worker, retry worker, close | what was emitted before a close is not lost in silence; a row leaves only once delivered; the spool drains |
| Streaming (`streaming/`) | one attempt per stream: usage, outcome, finalized or in progress | proxies iterate, close, are left and collected; finalize, finalize_async | one record and one outcome per attempt, however it ends; only the provider's last counts are settled; a closed stream is finalized |
| LiteLLM gateway (`integrations/litellm_control.py`, `litellm_gateway.py`) | open reservations, stream evidence, open, pending and quarantine directories | reserve, mark_start, the success and failure hooks, flush_pending, restart | no outcome is lost, in a crash either; no amount is invented |
| Guarded wrappers (`spine/guard.py`) | one handle per call, its signals | guarded_llm_call and its async and embedding forms: reserve, start, run, settle, mark, cancel_before_call | every reservation ends settled, pending or cancelled, or the journal has the signal |
| Enforcement ownership (`enforcement_owner.py`) | a context variable: the owner and the reservation of the scope | claim, bind, skip, copy into tasks | a nested call is not charged twice |
| Client patches and dispatch gate (`monitor.py`, `_async_provider.py`, `_dispatch_gate.py`) | the layers on each client, capabilities in a context variable | patch, monitor, undo, copy, call, dispatch | nothing leaves a monitored client unheld, or reserved twice; copies spend from the same budget |
| LangGraph and CrewAI adapters (`integrations/langgraph.py`, `crewai.py`, `adapter_contract.py`) | operations of runs, a thread store (cache and file), stacks of crew scopes, object ownership | invoke, stream, kickoff, bus events, detach, restart | a resumed run keeps its operation; an event is attributed to its own run; an adapter reports one outcome of it |
| Organisation policy (`spine/org_policy.py`) | memory and file cache of one setting | remember, lookup | the newest setting wins, after a restart too |
| Loop detector, circuit breaker, forecasts | sliding windows and histories per customer | score, evaluate | windows agree with their definition |
| Price catalog (`price_catalog.py`, `catalog_*.py`, `cost_engine.py`, `request_pricing.py`) | the catalog in force, its cache, the highest version | refresh, install, price | versions never go back; projection covers cost |
| LangChain callback, authentication, transport, formats | little or none | pure transformations and requests | their formulas |

The components meet in four ways. Calls (threads and asyncio tasks) share one
`Enforcement`. A call and the flushers of all processes share the journal's files. Both talk to
FinOps over requests that may be lost with or without effect. A cancellation
can interrupt an asyncio call at each of its awaits. And layers meet in one call
through context variables: patched clients, gates, guarded wrappers, owners and
framework runs nest, and tasks copy what was set when they started. The hard
behaviours are there: file operations of several processes in an order only two
`flock` files restrain, answers lost after the effect, redelivery beside a live
sender, a process killed between two file operations, `CancelledError` between
a hold and its release, a lease that runs out during a POST, a stream that several
tasks end at once, references saved before a patch and used after its undo, and
shutdown while other threads are about to block. `PROJECT.json` lists them line by
line under "hazards".

## 2. The modules

| Module | What it is |
|---|---|
| `IntentJournal` | the abstract journal: intents on record, promised, settled, set aside, displaced |
| `SettleQueue` | the settlement journal: writers, flushers, files, locks, FinOps; implements `IntentJournal` |
| `SettleQueueProofs` | its inductive invariant, its theorems and the refinement (TLAPS) |
| `ReservationContract` | what every way of making a call promises about its reservation: the abstract call and FinOps |
| `MeteredCall`, `MeteredCallProofs` | concurrent calls under one local budget, with FinOps reservations; implement `ReservationContract` |
| `EventSpool`, `EventSpoolProofs` | sinks and the spool they share |
| `StreamAttempt`, `StreamAttemptProofs` | one streamed call: the attempt and the proxy that several actors use |
| `Gateway`, `GatewayProofs` | the LiteLLM gateway with its stores; implements `ReservationContract` |
| `GuardedCall`, `GuardedCallProofs` | guarded calls, nested in scopes of the enforcement owner; implement `ReservationContract` |
| `PatchedClient`, `PatchedClientProofs` | patches, copies and gates of provider clients |
| `FrameworkRuns`, `FrameworkRunsProofs` | runs of graphs and crews |
| `MC...` | an instance of each module for TLC: model values, definitions the `.cfg` names, symmetry |

How they fit: `SettleQueue` has the files behind the journal that `MeteredCall`,
`StreamAttempt` and `GuardedCall` keep as a set of intents, any of which may be
delivered at any time. `IntentJournal` is the contract between the two sides:
`SettleQueue` is shown to implement it, and the others use no more than it says: an
intent journaled stays until FinOps has it, or FinOps refuses it and its record is set aside in
`quarantine/` for a person, which no message brings back. Three ways of making a call (`MeteredCall`, `GuardedCall`, `Gateway`) have
different steps, signals and stores, and promise the same of a reservation: `ReservationContract` says
it without any of them. `StreamAttempt` begins where
`MeteredCall` dispatches a stream. `PatchedClient` says around which requests such a call is made at
all, `GuardedCall` which of nested calls reserves, and `FrameworkRuns` to which
operation a call is accounted.

### SettleQueue

*Actors.* A writer is a settle call (`enqueue`, POST, then `ack` or `release`),
or the start-up backfill of a process; a flusher is a recovery daemon or the CLI.
`pc[a]` says before which file operation or request the actor is. One action is
one operation that other processes can see: reading a claim (`ReadClaim`),
publishing one with `os.link` (`LinkClaim`), looking for a record and writing one
(`CheckRecord`, `WriteRecord`), looking at the claim again (`CheckBinds`,
`Withdraw`), taking `claims/.lock` with the check under it and removing the claim
(`LockClaims`, `RemoveClaim`), the POST (`PostApplied`, `PostAnswerLost`,
`PostFailed`, `PostRefused`), `AckRecord`, the read and the replace of
`release` and `schedule_retry` (`ReadForRelease`, `RewriteRecord`), and the flush
pass (`StartFlush` with `list_pending`, `FlushItem`, `Quarantine`, `EndFlush`).

*Data.* An intent is its fingerprint; `KeyOf` gives the claim identity, so that
two intents with one key are a conflicting reuse of an idempotency key. Of a
record the model keeps what decisions read: whether it is still marked `pre_send`
and whether its `next_attempt_at` has passed. The clock is nondeterministic:
`Elapse` makes a record due, `Age` makes a claim older than `STALE_CLAIM_S`. With
`PromptSenders` a send ends within the grace period, which is what the document
assumes; without it it may not.

*FinOps* is external: it applies the first intent of a key, answers the same intent
as a duplicate and refuses another, and a request given up by its sender may still
arrive (`late`).

*Crash* ends an actor anywhere; the kernel frees its locks, the files stay.

*Refinement.* `Journal == INSTANCE IntentJournal WITH ...` maps the pending records to
`onRecord`, `quarantined` to `aside`, `takenOver` to `displaced`, `held` (FinOps' record of each
key) to `settled` and `owed` to `promised`. `IntentJournal` has no claims, locks or actors: what remains
is that an intent is promised only when it is on record or need not be, that
a record goes only when FinOps has the intent, a person is to look at it or another
intent took its key, and that a key is settled once.

### MeteredCall

`at[c]` says where a call is: `reserve`, `start`, `provider`, `reconcile`,
`mark`, `record`, and for each signal a `...Sent` point between the journal write
(`Journal`) and its answer (`Acked`, `Unacked`, `StartRefused`). `mode[c]` is chosen
at the start: async or sync, and fail-closed (`strict`) or not, which is the deployment's and so the same of all
calls (`deployment.py:139-154`). Each method of
`Enforcement` runs under its lock and is one step (`CheckLocal`, `Refuse`, `Record`,
`Prune`). The cancellations `CancelReserve`, `CancelSignal`, `CancelProvider` and
`CancelReconcile` are the awaits at which `CancelledError` may surface; they follow the
`except` clauses of the code, most of which do not see it. A journal write can fail
(`StartUnjournaled`, `SettleUnjournaled`): the async path takes that for an unacknowledged signal,
the sync path raises past `record_call`.

FinOps is external: a reservation goes from `reserved` to `in_flight`, and from there to
`pending_reconciliation` or `settled`; `usage_known` and `outcome_unknown` are refused while it is still `reserved` (`Accepts`,
after `lifecycle_transitions.py:16-17`), and what is settled stays settled at its first amount. `Flush` delivers an intent of the
journal that FinOps accepts (`Deliver`) and sets aside one that it refuses (`Quarantine`): a 4xx but 408 and 429 moves the record
to `quarantine/` (`settle_queue.py:764-767`). FinOps may also refuse what fits the state, for its key (`Fault`, bounded). `aside` has
the calls of whose outcome a record is there. The fake server of
`tests/test_litellm_control.py:143` reopens a settled reservation on
`outcome_unknown`; the model takes the contract the client is written for.

### ReservationContract

For each call it has what FinOps has (`account`, `amount`), how far the call came (`ran`, `done`, `cost`, `over`), and whether
its end is `told`: FinOps knows it, or there is evidence, which may be a record that was set aside. FinOps may reserve, start, doubt, settle or cancel; the call may run,
finish, end. Its guards are the promises: settled at the cost of a call that is done, once and for good; cancelled
only if it has not run, and then it never runs; in doubt only when the function has ended; over only when that is told, which
it stays. It has no journal, no hooks, no retries and no crashes, and a step of an implementation moves one call.

| Contract | `MeteredCall` | `GuardedCall` | `Gateway` |
|---|---|---|---|
| `account` | `ledger` | `ledger`, of the lifecycle protocol (`Account`) | `ledger` |
| `ran`, `done` | `dispatched`, less those at the provider | `ran`, less those in their function | dispatched; with a `fate` |
| `cost` | the cost, or `Unknown` | known, or unknown | by `fate`: 0, `Cost`, `Guess` or none (`CostOf`) |
| `told` | FinOps, an intent in the journal or in quarantine, or a failed journal write (`Told`) | the same (`Evident`) | FinOps, or the open file (`Traced`) |
| `over` | ended with a reservation | ended with a lifecycle handle | the provider call has ended |

### EventSpool

Each sink is a process with three threads: the program (`Emit`, `Close`, `Drain`,
`PostLeft`, `Join`), the worker (`WorkerTop`, `WorkerGet`, `WorkerPost`) and the retry
worker (`RetryTop`, `LeaseSelect`, `LeaseUpdate`, `RetryPost`, `Ack`, `NackSelect`,
`NackWrite`). All of them spool through `SpoolCheck` and `SpoolInsert`. The lock of a
`RetryQueue` orders the threads of one process only. Between processes there is
SQLite, whose implicit transaction begins at the first write, so a method that
selects before it writes is two actions. A lease is a member of `leased` until
`LeaseExpires`; `PromptPosts` says whether a POST ends before its lease does. `peak`
is the size of the file, which SQLite does not give back: it is compared with
`max_disk_bytes`.

### StreamAttempt

An actor is a thread or a task on the same stream; `at[a]` says which await or call it is in,
`aim[a]` the outcome its finalization will report. `kind` fixes whether the stream is
async, made by a manager (`messages.stream`, `responses.stream`), reserved, and of which surface.
A sync finalization is one step, since the attempt's lock is held from the flag to the event
(`Finalize`); the async one decides under the lock and then awaits the settlement or the mark
outside it (`FinalizeAsync`, `ReconcileAcked`, `ReconcileUnacked`, `Marked`), while others find
`busy` and return (`FinalizeNothing`). Usage comes in snapshots of each surface
(`ChatSays`, `ResponsesSays`, `MessagesSay`) merged by `Merged`. A managed stream adds what its helper has at the
end (`HelperUsage`, `WithHelper`), which of a messages stream is what the upstream had said by then: nothing, the counts of
`message_start`, or the final ones (`upstream`). `over` is whether the stream has ended. The
stream ends by exhaustion (`End`), an error (`Fail`), the cutoff (`Chunk`), `Close`, context exit
(`Exit`, `ExitDone`, `ExitPlain`) or a helper (`HelperDone`), in any number of actors. The
cancellations are the awaits of the async proxy. `cut` records that one hit a close or a
finalization.

### Gateway

`at[a]` follows a deployment attempt: reserved and marked started before the provider. `fate`
is how the provider call ended, `due` the hooks LiteLLM will still call, in its order
(`HooksOf`, external). `Noted` and `evidence` are the bounded cache of stream evidence. A hook builds the
body of its settlement (`Body`), writes it to the pending directory, sends it (`Send`) and
handles the answer (`Answer`, `Deliver`). `flush_pending` lists the directory once and then works
through the list beside the hooks (`FlushStarts`, `FlushSends`, `FlushHandles`, `FlushExpires`). `Crash` leaves
the files. Writes to the disk succeed: the code swallows their failures.

### GuardedCall

Tasks open scopes of the enforcement owner (`Claim`, `Leave`), start tasks that copy the context (`Spawn`) and
make guarded calls, whose functions may do all of that again; `frames[t]` is that nesting, innermost first. A
call skips its reservation when the scope has one (`Skip`), reserves (`Reserve`, or `ReserveLegacy`
for deployments without the lifecycle protocol) and binds the reservation to the scope (`Bind`), signals the start, runs, and settles or
marks; a start that is required and not acknowledged gives the reservation back (`cancel`). Each signal is
journaled (`Journal`) and acknowledged or not (`Acked`, `Unacked`), cannot be journaled (`Unjournaled`), or is
cancelled on its way (`Cancel`). `Flush` delivers any journaled intent at any time, or sets it aside (`Quarantine`) when FinOps
refuses it: a cancellation after the late start was delivered, a usage before it, or, bounded, any signal for its key. A call whose
reservation cannot be made runs free when the deployment is fail-open, or the organisation chose that (`OrgOpen`, `RunFree`).

### PatchedClient

`layers[c]` are the gates on a client, outermost last, and `before[g]` is what `undo()` of a patch puts back.
A reference (`Reads`, `Save`) goes through the layers the client had when it was read. `frames[t]` is the
call stack of a task: a call on its way down the layers (`Pass`, `Enter`, `Help`), wrappers that hold budget, and requests
that were sent; the transport of a request may make further calls (`Begin`). `Send` needs the capability of every gate
the request meets (`Checks`), and the capabilities of a task are the gates of the wrappers it is in. A copy starts
with the HTTP client in force (`Shares`), and a copy of a monitored client is patched with the
budget of its original (`Copy`). The run calls create, the stream helper and client.request; the
constant also knows methods without a wrapper and free ones.

### FrameworkRuns

A run is a record (of which graph thread or crew, under which operation, in which stage, what it
reported). `frames[x]` are the runs entered in a Python context; a task that is started inherits them
(`Fork`) and may outlive them. The graph actions follow `invoke` and `stream` (`StartGraph`,
`GraphEnds`, `GraphSuspends`, `InterruptItem`, `GraphFails`, `GraphAborts`, `Yield`, `NextItem`, `Close`) and
the stores an operation is resumed from: a cache of the process, then a file whose failed write is swallowed
(`Loaded`, `Persist`). The crew actions follow `kickoff` and what its listener makes of an event on the bus
(`OwnsEvent`, `OpFor`): the event's source is an object of one crew or one that several share, it may name a shared agent
(`agent_id`), and it is emitted in the scope of a kickoff or by a worker without one. A listener is detached at any
time (`Detach`), also while its crew runs. A kickoff that ends is reported by the adapter and, if the listener hears the crew
announce it, by the listener too (`Reports`); it takes its own scope off the crew's stack, wherever it is (`Unbind`).
`Restart` leaves the files and the checkpoints. The key of a file has the id of the checkpoint store
(`_checkpointer_store_id`, `langgraph.py:101-128`), which outlives the process when it is `KAZENAI_LANGGRAPH_STORE_ID` or a path and
does not when it is the `id()` of a saver without one; `Restart` finds the files again or does not.

## 3. The runs

| Run | Instance | Shows |
|---|---|---|
| `journal_safety` | 2 writers, 2 flushers, 2 intents of one key, 1 crash, 1 stale claim, slow senders (1.7 M states) | `TypeOK`, `NoLostIntent`, `RemovalIsExact`, `OneFlusher`, `ImplementsJournal` |
| `journal_live` | 1 writer with 2 calls, 1 flusher, 2 keys, one intent of another FinOps, 1 crash (131 k states) | `EventuallySettled` |
| `call_safety` | 2 calls, each sync or async, fail-closed or fail-open, cap 2, projections 1 or 2, cost 0, 3 or unknown, 1 call per window, 1 cancellation, 1 fault: a failed journal write or a refused signal (1.7 M states) | `TypeOK`, `CapKept`, `HoldsAccounted`, `StartedBeforeDispatch`, `LocalCoversSettled`, `ImplementsContract` |
| `call_holds` | 2 calls, 1 cancellation | violates `HoldsReleased` |
| `spool_safety` | 2 sinks, 2 events, queue 1, batch 2, 2 rows, 1 close, 1 crash, slow POSTs (2.3 M states) | `TypeOK`, `ClosedFlushed`, `RowsLeaveDelivered` |
| `spool_live` | 2 sinks, 1 event, 1 crash (21 k states) | `SpoolDrains` |
| `spool_mirror` | a FinOps sink and its Agent Lens mirror on one spool | violates `RowsLeaveDelivered` |
| `stream` | 2 actors, every kind of stream, a cutoff, 1 cancellation (917 k states) | `TypeOK`, `HoldReleasedOnce`, `OnlyFinalCounts`, `AmountsAgree`, `EvidenceKept`, `ClosedIsFinalized`, `CloseFinalizes` |
| `gateway` | 2 attempts, room for 1 note of evidence, 1 crash | `TypeOK`, `OutcomeKept`, `NeverOnlyInMemory`, `TraceKept`, `SettledAtReport`, `ImplementsContract` |
| `guarded` | 2 tasks, 2 calls, one of them async, 3 frames, 1 scope in a task, 1 fault: a failed journal write, a cancellation or a refused signal (1.6 M states) | `TypeOK`, `NestedChargedOnce`, `OutcomeKept` |
| `patched` | a client and a copy, 2 tasks, 2 gates, 4 frames | `TypeOK`, `SpendIsHeld`, `ReservedOnce`, `ClonesShareBudget` |
| `frameworks` | 2 crews, 1 graph thread, 2 contexts, 1 process, 3 runs, one crew detached at any time, restarts (1.5 M states) | `TypeOK`, `ResumeKeepsOperation`, `EventsOfOwnRun`, `OneOutcome` |

*Why the bounds are enough.* The journal: every race of the claim protocol is
between a holder, one that takes over and the one that removes; with two intents of one
key, two writers and two flushers each role is filled while the others move, and
`ClaimTries = 2` lets the loop both go round and give up (the code has 8). One ageing gives one takeover; a
second needs the state the first started from. The theorems remove the bounds of the
proved properties altogether. Calls: the cap is violated by two calls or by none, because the check compares with
a sum; `Cap = 2` is met exactly (1 + 1) and passed (1 + 2), `Costs` holds a cost
above every projection, one free and one that is unknown. `PerWindow = 1` makes the
rate refuse. A cancellation, and a failed journal write or a refusal, happen at every point of one
call while the other runs; the refusals that follow from the state of a reservation are not bounded. Spool: one event in the queue, one in the batch and one spooled fill the
memory, two rows fill the spool and the disk bound, two sinks are the contenders
for a row, two attempts make a row both retried and set aside.
`Given` fills one sink in the safety run, the second sink being the other process's
retry worker. Stream: a second actor is what a first finalizer can meet, and the four counts are
different, so that a merged, doubled or partial one shows in the amount. Gateway: two attempts share
one place for evidence, so that one evicts the other; the flush meets both. Guarded: three frames are
a call, a scope in its function and a call in that, which is the nesting the ownership is
about; two tasks make the context copied and outlived, and a scope opened in a task that was started in another
one's scope finds an owner and keeps its reservation. Scopes within scopes of one task (`MaxScopes`) are left to the theorem. Patched: two gates are a client patched twice, or one and its
copy; four frames are two wrappers around a request that calls once more. Patches are made beside calls
up to two wrappers deep (`Early`) and references saved between calls (`Between`); calls use both at any depth. Frameworks: three runs are one
that suspends, one in between and one that resumes; two crews may share an agent or an LLM, or one may
hold what the other's registry still has. One crew is detached (`MaxDetached`), which makes the other one's registry
stale; when both are, nothing is heard. The proofs remove the
bounds for everything but the liveness properties; the cap, too, is kept by any number of calls.

*Deadlock.* It is checked for the journal, where something can always happen
(a flusher can start a pass). It is off elsewhere, where behaviours end: when every call
has returned, every sink is closed or dead, every attempt is over, or the bound on runs and gates is used up.

*Fairness.*
- `SettleQueue!FairSpec`: a call that began goes on and the daemon comes round (weak
  fairness of `Settle`, `Flush`, `Deliver`: threads run, every request has a timeout,
  the daemon loops every five seconds); a waiter of a `flock` gets it at last
  (strong fairness of `LockClaims`); the clock moves (`Elapse`); and FinOps, which
  may fail any number of times, answers at last an intent that is retried for ever
  (strong fairness of `Answered`). No writer is ever required to start a call.
- `StreamAttempt!FairSpec`: weak fairness of `Work`, what an actor does once it is inside a call of
  the proxy: every wait there has a timeout. Nobody is required to make a call, and
  cancellations are never required.
- `EventSpool!FairSpec`: the retry thread's loop and the clock that ends a lease. The
  service need never answer: a row that fails is set aside after its attempts.

## 4. What the models found

Two runs have `"expect": "violation"`; `PROJECT.json` quotes the text they contradict.

1. `call_holds` (code): a task cancelled while it awaits its reservation or
   `provider_started` keeps its hold for ever, because the releases are in `except
   Exception` and `CancelledError` is none. The same is true of the cancelled ends of an
   async call, which raise without `record_call`.
2. `spool_mirror` (code): with the default configuration the FinOps sink and the
   Agent Lens mirror share one spool file, and each retry worker delivers whatever row
   it leases to its own service.

Further behaviours of the models differ from what a document or a comment says. They are kept as
the code has them; the properties say in their comments what they excuse.

- A record can be withdrawn by a writer that lost its claim to a takeover although a second
  call of the same intent was told it is durable (`docs/settlement-recovery.md:57-58`). `NoLostIntent` excuses
  an intent that was taken over.
- A second call of an intent already journaled does not renew the grace period, so call and
  flusher send it together (`docs/settlement-recovery.md:32-34`).
- `release` and `schedule_retry` write back what they read earlier and can bring back an
  acknowledged record without its claim, beside which another intent of the key is then
  journaled (`docs/settlement-recovery.md:40-42`, `80-81`). `Record` of `IntentJournal` allows it.
  None of the three makes FinOps settle twice: its idempotency key decides there, and
  `held` never changes once set.
- A cancelled settlement of a known cost journals `outcome_unknown` beside `usage_known`
  (`monitor.py:938-941`, `_async_provider.py:405`), and so does a stream whose settlement is not
  acknowledged. `ImplementsContract` of a call and `AmountsAgree` of a stream show that the amount survives.
- `aclose` sets `_closed` before it awaits (`streaming/proxy.py:333`): cancelled there, the attempt is
  never finalized and keeps its hold, although `streaming/lifecycle.py:421-422` says an interrupted
  finalization stays retriable. `ClosedIsFinalized` excuses it with `cut`.
- A guarded call after a finished one in the same owner scope skips its reservation too, because the
  scope keeps the reservation of the first (`enforcement_owner.py:147` and `172`, against `163`). `NestedChargedOnce`
  is about nested calls only.
- The stream helper of a client monitored twice reserves twice (`monitor.py:2031`): the bypass at `115` covers
  the create calls inside a helper, not a helper inside a helper. `ReservedOnce` is about create wrappers.
- Under fail-open a call runs whose `provider_started` was neither acknowledged nor, with a full disk, journaled. FinOps then has its
  reservation as `reserved`, refuses its outcome and the flusher sets the record aside
  (`lifecycle_transitions.py:16-17`, `settle_queue.py:764-767`). The same happens when the flusher delivers the outcome before the start.
  The reservation stays `reserved` (or, when the start comes later, `in_flight`) and the outcome is in `quarantine/` only.
  `EvidenceKept` and `OutcomeKept` count that as evidence; under fail-closed they show that it needs a refusal for another reason.
- A guarded call that withdraws after an unacknowledged start files `cancel_before_call` beside `provider_started`; delivered after it,
  FinOps refuses the cancellation, which is set aside, and the reservation of a call that never ran stays `in_flight`
  (`OutcomeKept` counts the record as evidence).
- A helper of an Anthropic stream gives `get_final_message()` as final at every end of the iteration
  (`streaming/anthropic.py:112-121`, `257-267`), also when the upstream was cut off after `message_start`, whose output count
  is an initial one. `OnlyFinalCounts` says that this, and only this, settles a count that is not final (`CutShort`).
- `detach()` in the middle of a kickoff (`integrations/crewai.py:837-840`) leaves an LLM that two crews share to the other one as
  sole owner, whose listener then reports the events of the detached crew's workers without a scope under its own operation; and an
  event that names a shared agent is accepted by its id from every crew that has it (`257-261`), where the object itself would be
  refused as shared (`249-254`). `EventsOfOwnRun` promises nothing of workers' events in these two cases (`Distinct`), and everything of
  events emitted in a kickoff's scope.
- A kickoff reports its outcome twice under one operation: `workflow.end`, `.error` or `.suspend` by the adapter
  (`integrations/crewai.py:748-796`) and `workflow.end` or `.error` by its listener, attached by default (`283-298`, `431-439`); a denial
  is an error and a suspension. So are the starts. A graph's exception that is called `CancelledError` ends a stream with two errors
  (`integrations/langgraph.py:662-669` and `683-692`), and a stream dropped at its interrupt with a suspension and an error.
  `OneOutcome` says that there are no other pairs.
- With two processes on one LangGraph store, a process can resume a thread under an older
  operation from its own cache (`integrations/langgraph.py:173`, against `794`). `ResumeKeepsOperation` is
  checked with one process and proved for one (`OneHome`).
- After a restart of the gateway `flush_pending` delivers a settlement but leaves the open file of its attempt
  (`litellm_control.py:921`): only the cache knows which one to drop.

## 5. The proofs

Each theorem is about every value of the constants that satisfies the module's assumption, and each
`InductiveInvariant` states `Spec => []IInv` for an `IInv` that implies the properties.

### SettleQueueProofs

It proves, for all finite or infinite sets of writers, flushers, intents and
keys and all values of the bounds, from `SettleQueueAssumption` alone (the actors are
disjoint, `None` and `Absent` are neither, every intent has a key, the bounds are
natural numbers):

| Theorem | States |
|---|---|
| `InductiveInvariant` | `Spec => []IInv` |
| `TypeCorrect` | `Spec => []TypeOK` |
| `IntentsKept` | `Spec => []NoLostIntent` |
| `ClaimRemovalExact` | `Spec => []RemovalIsExact` |
| `SingleFlusher` | `Spec => []OneFlusher` |
| `RecordsRemovedForCause` | `Spec => RemovedForCause` |
| `Implementation` | `Spec => ImplementsJournal` |

*The argument.* None of the three main invariants is inductive by itself.
`NoLostIntent` speaks of intents already owed; the step that makes one owed
needs to know that its record is still there or accounted for, although another
actor may have removed it since it was written. `IInv` therefore adds:
- `Working`: an actor in the middle of a call has an intent, and a flusher has its
  record in the listing it read;
- `FlushLocked`, `ClaimsLocked`: the holder of a lock is the one at a
  point inside it. Hence one flusher at a time, and the claim that was checked under
  `claims/.lock` is still there when it is removed (`RemovalIsExact`), since nobody else
  removes one and `os.link` never replaces one;
- `ForCause`: whoever is about to ack has been answered that FinOps holds the intent; a writer that
  wrote its record and has not returned finds the intent `Safe`; one that finds its
  claim gone after it wrote knows it is settled or was taken over, because an ack and
  a takeover are the only ways a claim goes. That licenses `Withdraw`.

Every operation with several ends is first reduced to what it does to its own actor
(`EndsTyped`, `Outcomes`, `WriterMoves`, `ActorMoves`). `SteadyStep` says what no step of another
actor can take away (`HeldStays`, `HistoryGrows`, `RecordGone`, `ClaimGone`), `Bystanders` that the
others keep their cause, and each part of `IInv` has one lemma with a step for each
action.

*The refinement.* Every step changes at most one of the five parts of the abstract state, so the proof sorts the
actions by the part: a record written (`WrittenStep`), removed (`RemovedStep`), an intent applied by FinOps
(`AppliedStep`) or promised (`PromisedStep`), or none (`SameStutters`). What makes a removal an abstract one (FinOps
holds the intent, or its key was taken over) is the part `ForCause` of `IInv`, and an actor's writing back what it read
earlier is a `Record`.

### MeteredCallProofs

For any finite set of calls, any cap, projections and costs, from
`MeteredCallAssumption`:

| Theorem | States |
|---|---|
| `InductiveInvariant` | `Spec => []IInv` |
| `TypeCorrect` | `Spec => []TypeOK` |
| `DispatchedAreStarted` | `Spec => []StartedBeforeDispatch` |
| `SettlementExact` | `Spec => []SettledAtCost` |
| `EndsWithEvidence` | `Spec => []EvidenceKept` |
| `HoldsAreCounted` | `Spec => []HoldsAccounted` |
| `CapIsKept` | `Spec => []CapKept` |
| `SettledIsCovered` | `Spec => []LocalCoversSettled` |
| `ContractKept` | `Spec => ImplementsContract` |

*The argument.* Calls share the budget and the journal, but what FinOps is owed for a call
depends on that call and its own intents only. That part of `IInv` is therefore local, `CallOK(c)` for
each call, beside the types, a bound of the rate window and the budget:
- `FreshOK`: before its dispatch a call has no cost and before its reservation no ledger entry;
- `AmountOK`: the amount of a call, and of every `usage_known` of it that the journal
  still holds, is its cost. This is what makes a redelivery harmless however late it comes;
- `LedgerOK`: what FinOps has settled is the cost, and under fail-closed a dispatched
  reservation is no longer taken for unstarted;
- `ToldOK`: a call whose last signal is out has it in the journal unless FinOps took it or it was set aside.
  `EvidenceKept` speaks of ended calls only; the step that ends one needs this.

Beside `IInv` there is `AsideOK` (`AsideInvariant`): only the outcome of a dispatched call is set aside, and under fail-closed
only with a refusal for the key, since the reservation of a dispatched call was started and FinOps takes its outcome.

`Delivered` states what one applied signal does to the ledger. A step of another call
frames the call (`Others`, `Framed`); its own steps are split into those of the normal
course and the failures (`OwnAdvance`) and the cancellations (`OwnDisturb`); a delivery by the flusher is `FlushStep`.

*The budget.* `BudgetOK` speaks of all calls at once: what is pending is the total of what each call holds (`HoldOf`),
what is spent the total of what the returned ones cost (`SpentOf`), and the two together exceed the cap by no more than
the costs of returned calls exceeded their holds (`ExcessOf`). The last is the strengthening `CapKept` needs: a later check compares
with what was spent, whatever part of it was over, and a release after a cheaper call must not make
room that the sum does not have. A step changes these numbers for one call (`BudgetShape`), hence each total by
one difference (`TotalMoves`, `OneBudget`, `BudgetMoves`). A total is a recursive function over the calls, in an order that is
picked. What is needed of such sums (`SumsExist`, `TotalStep`, `TotalWithin`, `TotalMasked`) is
shown by the least number of summands for which it would fail, which exists because `<` is well-founded on the naturals;
so no induction theorem is used.

*The contract.* `IInv` says of a signal on its way what it will make of the ledger; `DoneOK` adds that a signal about the end of a
call is there only when the call has left the provider, and that its cost does not change after that. Each step is then
described by what it does to its own call: `FinopsMoves`, `CallMoves` and `EvidenceMoves` (`AdvanceKeepsContract`, `DisturbKeepsContract`,
`FlushKeepsContract`), and `Contracted` makes one step of the contract of the three, the other calls being framed.
A quarantine leaves the call `told`, by the record that was set aside, and changes nothing FinOps has.
`SettledAtCost` and `EvidenceKept` say of states what the contract says of steps, so `call_safety` runs the contract only.

### EventSpoolProofs

For any finite sets of sinks and events, any services and bounds, from
`EventSpoolAssumption`:

| Theorem | States |
|---|---|
| `InductiveInvariant` | `Spec => []IInv` |
| `TypeCorrect` | `Spec => []TypeOK` |
| `CloseFlushes` | `Spec => []ClosedFlushed` |
| `DeliveredWithOneService` | `OneService => (Spec => RowsLeaveDelivered)` |

*The argument.* `ClosedFlushed` is about the end of a close; `IInv` says for each sink where
its promised events are at every moment (`PromisesOK`: in the queue, in the batch, in what close
took, or accounted for) and that each stage of the close leaves its part of the
memory without promised events (`CloseOK`). An event emitted after the stop flag may sit
in any of them, which is why the history variable `promised` is needed. An accounted event stays
accounted for although any process may take its row out of the spool
(`AccountedStays`): a row leaves only by an ack or as a dead letter (`RowLeaves`), and an ack
follows a delivery (`AckOK`), to the service of the retrier that sends it. That service is
the row's own only under `OneService`; `spool_mirror` is the counterexample without
the condition. `FirstOK` and the uniqueness in `TypeOK` are about the window between SELECT
and write: `nack` begins with a row of its own batch, and two processes that insert one event
leave one row.

### StreamAttemptProofs

For any set of actors, any number of cancellations and any token counts: `TypeCorrect`, `HoldsReleasedOnce`,
`FinalCountsOnly`, `AmountsAlwaysAgree`, `EvidenceIsKept` and `ClosedAreFinalized` (of `TypeOK`,
`HoldReleasedOnce`, `OnlyFinalCounts`, `AmountsAgree`, `EvidenceKept`, `ClosedIsFinalized`).

*The argument.* Who may finalize: `SettlingOK` says that exactly one actor settles while `busy` is set, and only an attempt
that is not finalized, so that whoever completes it finds no hold released (`releases = 0`). What it settles: `UsageOK`
says that an authoritative snapshot has both final counts, but of a messages stream cut short, whose helper gives the
initial output count (`CutShort`), `ActorsOK` that an actor aims at COMPLETE only
when the upstream is over and at REJECTED only when there is no stream. How much: `MoneyOK` says what the
journal holds before the attempt is finalized, which is what makes the amount
counted at the end the one journaled at the beginning. And that somebody finalizes:
`ClosersOK` keeps a witness, an actor on the way to finalize, for every stream that is over.
The actions fall into those that leave the attempt and the money alone (`MoveShape`) and those that
settle (`BeginShape`, `SettleShape`).

### GatewayProofs

For any finite set of attempts, any room for evidence, any costs and any number of crashes:
`TypeCorrect`, `OutcomesKept`, `SendsAreFiled`, `TracesKept`, `SettlementsReported` (of `TypeOK`,
`OutcomeKept`, `NeverOnlyInMemory`, `TraceKept`, `SettledAtReport`) and `ContractKept` (`Spec => ImplementsContract`).

*The argument.* Copies of a body are in files, in the hands of a hook and in the list of a flush, which may send one long
after another copy was acknowledged. `BodiesOK` says of each copy that it tells how its attempt ended, whichever
evidence was evicted; hence no late copy can settle another amount. `AnswersOK` says that an acknowledgement in
memory is one FinOps gave, so that the file it removes is no longer needed. `ToldOK` is `OutcomeKept` for the time
before the last hook has run.

*The contract.* What FinOps does to an attempt comes from one copy of one body (`SendingKeepsContract`): `BodiesOK` gives it the cost of the
attempt, `TraceKept` a reservation that was started. Everything after that, a crash included, only moves copies, and
removes an open file when FinOps has settled the attempt (`Unseen`).

### GuardedCallProofs

For any finite sets of tasks and calls, any depth of nesting and any number of faults: `TypeCorrect`,
`NestingChargesOnce`, `OutcomesKept` (of `TypeOK`, `NestedChargedOnce`, `OutcomeKept`) and `ContractKept`
(`Spec => ImplementsContract`).

*The argument.* It has two halves. `Sound(c)` follows a reservation: which signals can be in the journal at each step of the
call (`ReservationOK`: never a cancellation and a settlement), so that a flusher that delivers them in
any order, or sets them aside, cannot undo the last one (`ToldOK`): what it takes from the journal FinOps has, or `quarantine/`.
Of a call that ran under fail-closed FinOps had acknowledged the start, so its outcome is set aside only for the key. The other half is about the owner variable, whose old values
are kept in the frames of the scopes and come back when they are left: `BoundOK` says that inside a call that reserved
in a scope every value the variable has or will have again is bound to a reservation, so that no call in there finds
it unbound. That needs `ScopesOK` (in a scope the variable is set) and `FramesOK` (a call has one frame).

*The contract.* To `IInv` it adds `SignalsOK`: a usage or an unknown outcome is filed only of a call whose function has ended, and
a usage only of a known cost. `ApplyMoves` says what FinOps makes of a signal that is due, whether the call sends it or the flusher,
`StepMoves` and `FlushMoves` that every step moves its call as the contract allows, `Contracted` that this is a step of it.
This one is proved and not run: on the instance of `guarded`, TLC needs more than five minutes for the contract.

### PatchedClientProofs

For any clients, tasks, patches and copies, and stacks of any depth: `TypeCorrect`, `SpendsAreHeld`, `ClonesShare`,
`ReservationsOnce` (of `TypeOK`, `SpendIsHeld`, `ClonesShareBudget`, `ReservedOnce`).

*The argument.* A request that spends needs the capability of the gates it meets, but a capability says only that
some wrapper of the task is dispatching with that gate. `GatesOK` and `StackOK` close the gap: every layer, every layer that
an undo may bring back, and every reference names gates of its own client, and the wrapper that has a gate's capability is
one of that client. So the request is `Held` the moment it is sent, and it stays so, since what is around a frame leaves
only after it. `FamilyOK` adds that the innermost layer of a copy is the one it was made with: no undo touches it,
every path of a request to it goes through it, and its budget is one the original was monitored with. `OutermostReserves`
is `ReservedOnce` for whole stacks: a wrapper that enters finds the outermost create wrapper reserved or is it.
Patches and copies change no stack (`Kept`), calls change one (`OneStack`); a frame that moves keeps what
is around it (`Shifted`, `StillReserved`).

### FrameworkRunsProofs

For any finite or infinite sets of contexts, crews, threads and processes and any number of runs, from
`RunsAssumption`:

| Theorem | States |
|---|---|
| `InductiveInvariant` | `Spec => []IInv` |
| `TypeCorrect` | `Spec => []TypeOK` |
| `EventsReachOwnRun` | `Spec => []EventsOfOwnRun` |
| `OutcomesReportedOnce` | `Spec => []OneOutcome` |
| `ResumptionsKeepOperation` | `OneHome => (Spec => ResumeKeepsOperation)` |

*The argument.* A context has in its frames runs it inherited, which may be over, and runs it entered. `FramesOK` says of
the latter that they are running and entered in one place of one context; so an end that a context
reports is the first one of that run, which `RunOK` (what was told, for each stage) turns into `OneOutcome`.
`StackOK` says that a crew's stack has the scope of each of its running kickoffs once, and that the crew's listener, unless it
was detached, owns what the crew holds while there is any: what `EventsOfOwnRun` needs of an event without a scope. Of one in a
scope `owns_event` asks for the scope first, so nothing of the registry matters. `StoreOK` says that one run at
most is under way on a thread and that the cache of its process has its operation, which is therefore what a suspension
saves. `ResumeKeepsOperation` needs `CacheOK` as well: the cache never hides the operation that is waited for.
It has that operation, or nothing, or something else while the file has something else too, as after a failed write and a
restart. With a second process, whose cache may be older, that is false, and so is the property; `OneHome` is
the condition that all contexts are in one process. Steps are sorted by their shape (`Steps`): a run
stops, resumes or is dropped, a kickoff ends, is refused or begins, a graph starts, a task is forked or ends, a
client is detached, a process restarts.

### What is only model-checked

The liveness properties (`EventuallySettled`, `SpoolDrains`, `CloseFinalizes`): TLAPS
has no rules for fairness here. Every other property of a passing run is a theorem (`RowsLeaveDelivered` and
`ResumeKeepsOperation` under the condition that their runs instantiate). The violations of section 4 are counterexamples and need no proof.

## 6. What is not modelled

Inside the modelled components:

- Journal: torn writes (the code writes to a temporary file, calls `fsync` and renames), files edited by hand,
  `stats()` and `.last_flush.json`.
- Calls: uncapped budgets, `apply_server_decision`, `record_call(enforce=True)`, `KeyboardInterrupt` in a sync
  call; a crash of the process in `MeteredCall`, which loses the local budget together with the calls. Amounts are
  whole numbers, the sliding window of the rate is a count whose oldest entry may leave at any time. The
  rate limit counts recorded calls only, so that calls in flight pass it together: the window says no
  more than that.
- Spool: an error of SQLite in `enqueue`, which catches `IntegrityError` only (`retry_queue.py:158`); a `sqlite3.OperationalError`
  leaves `_run` (`sinks.py:390-419`) and ends the worker thread with what it had in memory; sampling and in-memory sinks; events emitted after a close, which nobody is promised.
- Streams: a journal write of an attempt that fails, which finalize passes over (`lifecycle.py:348`, `369`, `502`): `EvidenceKept` is
  about a journal that can be written; the text of a chunk but for the cutoff and the usage; iterators that other code wraps around the proxy.
- Gateway: failing disk writes, the parsing of requests, the price estimates, concurrent flushes.
- Guarded calls: prices and events, the float-valued requests of the legacy protocol but for their effect.
- Patches: request validation, the stubs of unsupported surfaces, free methods in the run (the module has them).
- Frameworks: the boundary checks of the constructors, the binding of LLM clients, the stop patch, the 24 h expiry of a stored
  envelope, an explicit `operation_id`, two runs of one thread at the same time, `get_state` that fails. Which terminal event
  a kickoff emits is not told apart, nor is the doubled start of a kickoff; a listener that is registered twice, by two adapters of one
  crew. Worker events without a scope, while several kickoffs of their
  crew run, go to the latest one; `EventsOfOwnRun` excepts them.

Components not modelled at all are listed in `PROJECT.json` with the reason: the organisation policy, the
loop detector and its relatives, the price catalog and request pricing, the LangChain callback, authentication, the
deployment profile, transport, and the formats. The last five keep no state that operations of several
actors share; the first three are the rest of the plan.

## 7. Plan

In order of importance; what is done is marked.

1. `SettleQueue` with its proofs: done. `IntentJournal` and the refinement: done.
2. `EventSpool` with its proofs: done.
3. `MeteredCall` with its proofs, the sums over the calls included: done. `ReservationContract`, implemented by `MeteredCall`,
   `GuardedCall` and `Gateway`: done; `StreamAttempt`, which keeps a journal of one attempt and no ledger, is not mapped to it yet.
4. `StreamAttempt`, `Gateway`, `GuardedCall` and `PatchedClient` with their proofs: done.
5. `FrameworkRuns` with its proofs: done.
6. `OrgPolicy`: memory and file of the fail-open setting, several threads and processes.
7. `CatalogFeed`: versions across installs, cache, forks; the windows of the loop detector and
   the tier decisions of `request_pricing` as operators checked against reference
   definitions.
