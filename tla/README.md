# A TLA+ model of opencode-scale

opencode-scale hands out sandboxes (Kubernetes pods that run an OpenCode
server) to HTTP sessions and to coding tasks.  This directory holds TLA+ modules
for the parts of it where concurrency and failure decide whether it is correct,
TLC configurations that check them on small instances, and TLAPS proofs of their
safety properties for instances of every size.  Paths below are relative to `src/`.

## 1. Inventory

| Part | State | Operations | What is hard about it |
|---|---|---|---|
| **Pool manager + allocation cache** (`internal/pool/manager.go`, `cache.go`) | `Allocation` objects shared by pointer; two maps over them, `byName` and `bySession`; a mutex; `maxSize` | `Allocate` (claims an idle sandbox or creates one), `AllocateWarm`/`replenishWarm`, `Release`, `Heartbeat`, `RunGC` | Several goroutines; fields read and written with no lock; a size check minutes before the insertion it guards; deletes that fail |
| **Kubernetes provider** (`internal/pool/k8s_provider.go`) | one `SandboxClaim` per sandbox, in the API server | `CreateSandbox` (create, poll, clean up), `DeleteSandbox` | Several replicas, names taken from clocks that differ, late and lost answers, cancelled contexts |
| **Controller** (`internal/controller/reconciler.go`) | none of its own | every 60 s list claims and delete old terminal ones | works from a stale list; the owners of claims may be gone |
| **Session router + wait queue** (`internal/router/handler.go`, `queue.go`) | the shared cache; FIFO of `WaitEntry` with a one-place channel each | proxy, allocate and proxy, enqueue, stream positions, `NotifyNext` | sends outside the lock, clients that leave, a wait that must end |
| **Task API** (`internal/router/tasks.go`) | none; Temporal has it | create, get, stream | polls that fail, several clients of one task, `int64` arithmetic |
| **Coding task workflow** (`internal/workflow/task.go`, `activities.go`) | workflow locals; one pool per worker | allocate, create session, prompt, validate and re-prompt, deferred release | retries, other replicas, timeouts, cancellation at any step |
| **Reverse proxy** (`internal/router/proxy.go`) | a cache of stateless proxies | forward a request, or answer 502 | the sandbox may be released while the request runs |
| Middleware (`middleware.go`, `audit.go`) | none | API keys, body size, audit log | the audit wrapper hides `http.Flusher` |
| **Schema validation** (`internal/schema/validator.go`) | none | find the JSON document in an answer, validate it | a hand-written scanner against the grammar of JSON |
| **Mock LLM API** (`cmd/mock-llm-api/main.go`) | per key, the times and token counts of a minute | admit or refuse a request, report usage | two slices pruned by different rules, one of them elsewhere too |
| **OpenCode client** (`internal/opencode/client.go`) | the stream reader's `dataBuf`, result, token and event counts | create session, send message, read the event stream, heartbeat | events cut into lines, bodies that stall, end early or break |
| Config, telemetry, the other `cmd/*`, manifests | see `PROJECT.json` | | not modelled, or only as constants; reasons in section 6 |

How they interact.  The router process runs one `PoolManager` with a GC loop and
(in k8s mode) a warm pool; HTTP handlers call `Allocate` and read the cache.
Each worker process has a `PoolManager` of its own, with neither loop, that
activities call.  All of them create and delete claims in one namespace, where
the sandbox operator (external) moves claims through their phases and the
controller deletes terminal ones.  The task API starts workflows in Temporal
(external), which sends each activity attempt to any worker.

What makes each part correct:

* pool: a sandbox serves one session, ever; the two indexes agree; the size
  keeps to `maxSize`; no sandbox the pool was given is forgotten; the collector takes
  only what is idle; calls return and abandoned sessions are collected;
* claims: nobody polls, holds or deletes somebody else's claim; the sweep takes
  only what it should and does take it; a claim is stranded by a fault only;
* router: FIFO, positions that only shrink, no hand-off that blocks, waiters that are
  served, and sessions in use are kept;
* workflow: it cannot go on for ever, prompts a bounded number of times, reports success
  honestly, and releases its sandbox;
* OpenCode client: the answer's content and tokens exactly as they arrived, and no
  prompt that waits for ever;
* task API: timeouts that keep to the cap and the buffer, one truth about a task's outcome, streams
  that end;
* schema validation: the document that is found is the one that is there, and the
  first one is found;
* mock LLM API: no minute over its limits, and a `Retry-After` that is true.

The code does not have all of these properties; section 5 says which it lacks.
`PROJECT.json` lists the hazards line by line.

## 2. Modules

| Module | Models | Used by |
|---|---|---|
| `SandboxPool` | `PoolManager` and `AllocationCache` of one process | `MCSandboxPool`, `SandboxPool_proofs` |
| `SandboxOwnership` | what the pool promises: an abstract lifecycle | instantiated by `SandboxPool` as `Ownership` |
| `SandboxClaims` | provider calls of all replicas, the operator, the controller's sweep | `MCSandboxClaims`, `SandboxClaims_proofs` |
| `SessionRouter` | request handling, proxy, wait queue, and the pool's collector as the router sees it | `MCSessionRouter`, `SessionRouter_proofs` |
| `CodingTask` | the workflow, its activities, several workers | `MCCodingTask`, `CodingTask_proofs` |
| `PromptStream` | one prompt: `SendMessage`, `readSSEStream`, the activity's heartbeats | `MCPromptStream`, `PromptStream_proofs` |
| `TaskAPI` | the task endpoints | `MCTaskAPI`, `TaskAPI_proofs` |
| `ExtractJSON` | `ExtractJSON` and `ValidateWithFeedback` | `MCExtractJSON`, `ExtractJSON_proofs` |
| `RateLimiter` | the mock LLM API's limiter and its handlers | `MCRateLimiter`, `RateLimiter_proofs` |

Each `_proofs` module holds the theorems about the module it is named after (section 4).
The `MC` modules add symmetry sets and instance values; `MCExtractJSON` adds the
grammar of JSON that stands for `json.Valid`, independent of the scanner.  Operators named
`X_Something` next to an operator `X` are wrong variants of `X` (a dropped lock, an
off-by-one); no specification uses them.  Each one replaces `X` in a run that
must then fail, which shows that the property it is aimed at can fail.

### SandboxPool

`status`, `session` and `last` are the fields of the `Allocation` objects, indexed
by sandbox; `byName` and `bySession` are the cache; `mu` is `PoolManager.mu`; `pc` and
`box` are the goroutines' program counters and locals; `live` is the provider's
truth; `grants` records what `Allocate` has returned.

Granularity.  `AllocationCache` operations hold its own lock and are one step.
`claimIdle` is four steps (list, write `Status`, write `SessionID` and
`LastActivity`, re-index) because `RunGC` reads and `Release` writes the same fields
without `mu`.  Nobody else reads `SessionID` of an object between those two
writes except a `cache.Delete`, and no other goroutine tells apart the states
between them, so they are one step.  `Allocate`'s size check, `CreateSandbox` and
`cache.Set` are three steps; `Release` is mark, delete, remove; `RunGC` is a
snapshot, then one step per entry, then a `Release` per collected entry.  The
unlocked accesses are data races in Go's sense; a read of a string or a time
that is being written is either the old or the new value here, and the values
that are compared (`Status`, `LastActivity`) are written once per transition.
`Heartbeat` looks the session up and then locks; an allocation that leaves the
cache in between gets a time that nobody reads, so the two are one step.

Faults are constants: `CreateSandbox` may fail and leave nothing, or fail and leave
its claim behind (`createLost`: the answer to Create was lost, or the cleanup after the
poll failed); `DeleteSandbox` may fail (`deleteError`), succeed with its answer lost
(`deleteLost`), or find that somebody else deleted the claim (`vanish`, after which it is
a NotFound error).  A stray of a failed creation is in `live` and its `status` is "None":
the process has no `Allocation` for it, so no operation of the pool can reach it, and
`NothingForgotten` speaks of the others: they are in the cache, or about to be, as long
as they exist, also after a failed delete.  Provider names are used once here; that the
Kubernetes provider can use one again is the subject of `SandboxClaims`.

### SandboxClaims

A claim's name is `oc-<UnixMilli>`, so milliseconds are the name space and `phase` is
indexed by them.  `now` is the API server's clock, which stamps `born` (the creation
timestamp); a replica's clock, when it names a claim, reads anything within
`MaxSkew` of it, anew each time, and the controller's, when it computes its cutoff, anything
within `SweepSkew`.
A `Creator` is a goroutine in any replica: idle, with a Create on its way, polling,
cleaning up, or holding its sandbox.  Choosing the name (`NameClaim`) and the server's
acceptance of it (`CreateClaim`) are separate steps with any delay between them.  The
server refuses a name that is taken; nothing else keeps names apart.  `cancelled` is the
creator's context.  The sweep's list and filter are one step (the API server answers from
one snapshot), each delete another.

Three history variables say what the properties need.  `owner` is who created the
claim of a name.  `robbed` are the creators whose claim went without their being told: a
sweep took it, or their own `DeleteSandbox` took effect and its answer was lost, or
another robbed creator hit it by name.  `reused` are the names on the sweep's list that
were created again since.  `mishaps` counts the faults that can strand a claim: a lost
answer to Create, a cancelled context, a cleanup that failed, a replica that stopped.

### SessionRouter

The pool is what `SandboxPool` establishes about it: sessions stand for sandboxes
(`ExclusiveGrant`), the size test (`Admitted`) comes before the creation and the insertion
(`Grant`), so that `MaxSize` can be overshot, and a collection whose `DeleteSandbox` fails
leaves its entry `releasing`, counted and passed over ever after.  `stale` is what `RunGC`
sees (`LastActivity` older than `idleTimeout`) and `active` is the truth (a later request used
the session within `idleTimeout`); the two differ because proxying calls no `Heartbeat`.  A
request is looked up, then proxied or allocated for; a full pool, the entry's creation and
the start of its stream are separate steps, so that slots come free and clients leave
between them.  `NotifyNext` is two steps, because `Dequeue`'s lock is released before the
send; on an empty queue it returns and the allocation is nobody's (`NotifyNobody`).
`Notifiers` are the goroutines that call it.  There are none in the program, only in its
tests: what they do before the call (`Obtain`) is external.  So
`ServedInTurn` and `SendNeverBlocks` are about the queue as its interface would be used, and
`router_in_use` is about the program, without notifiers; that a queued request is served
is stated nowhere, because the program never does it (section 5).  `audited` says whether the handler is behind `AuditLog`, and so
whether its writer is `Flushable`.  The proxy's `sync.Map` of `ReverseProxy` values is not
modelled.

### CodingTask

`step` is the activity the workflow waits for; `tries` counts failed attempts
under the `RetryPolicy`; `attempt` is the validation loop's counter.  Each worker's
pool is the set of sandboxes it knows; its size test and insertion are one step (`Grab`),
because what concurrent allocations do to `maxSize` is `SandboxPool`'s subject and no
property here depends on it.  An allocation can meet a full pool (`AllocateExhausted`), fail, or
succeed with its answer lost; an attempt of the release can fail, take effect and
still answer with an error, or lose its answer.
`Return` is the workflow function's
return, including the deferred release.  Each prompt costs one token, so that
`tokens` against `prompts` shows whether the sum is right.  `cleanup` records how the
deferred release ended, `lost` the sandboxes that were made for a task whose name
never reached it.  `Stage` numbers the activities by how many can still follow, the
validation loop's by its counter, and `Budget` counts attempts: `MaxAttempts` for each stage
that is left, less the failed ones of the current activity.  That every step lowers it says
without fairness, and for every task by itself, that no workflow runs for ever.

### PromptStream

The activity `ExecutePromptActivity` that `CodingTask` sees as an outcome.  `sent` is
what the server has begun to send, an event being a kind (content, usage, both, a
usage of zero, or data that is no JSON) in one `data:` line or two; `buf` is `dataBuf`, a sequence of
(event, piece) pairs, so that two events joined in it are told apart from one;
`result` names the events whose content was written.  Every line read is a step,
and the body may end or break after any of them; the body of a refusal, which is
read to its end too (`ReadRejection`), may stall.  `quiet` is the time since the
last `RecordHeartbeat`, which Temporal compares with `HeartbeatTimeout`.

### TaskAPI

`time.Duration` is an `int64` of nanoseconds; the module uses words from
`-Half` to `Half - 1` and `Second` units to the second, with the wrap-around of two's complement.
`BufferKept` is stated for all requests, the ones that wrap included: the cap is applied
after the wrap, so adding the buffer cannot overflow again.
`Flushable` is TRUE in the runs, as in the handler's tests (see section 5).

### ExtractJSON

A text is a sequence of the eight characters that the scanner or `json.Valid` tell
apart.  `Walk` is the scanner's state (depth, in a string, escaped) after each
character; a pattern's turn of the loop (`ScanObjects`, `ScanArrays`), the regular
expression and the schema check are one step each.  `json.Valid` and `json.Compact` are
parameters (`Valid`, `Compact`), with what may stand between the brackets of a document
(`Content`) and between the quotes of a string (`Body`).  `JSONGrammar` assumes of them the
productions of JSON, each read from left to right: it says what a valid text consists of and
leaves open which texts are valid.

### RateLimiter

`requests` and `tokens` are a key's two slices.  The limiter's methods hold its lock
and are one step; a handler is `check` and, later, `stats`.  The debug endpoint prunes
`requests` only.  `admitted` is the history the limits are checked against; `promise` is
the time the last refusal for RPM told its client.

## 3. Runs

| Run | Result | What it shows |
|---|---|---|
| `pool_router` | pass | Two callers, a warm-pool goroutine, a collector and heartbeats over three sandboxes with `maxSize` 2; creations that fail and leave a claim, failing and lost deletes (306,146 states).  `ExclusiveGrant`, `IndexCoherence`, `OvershootBound`, `WarmBound`, `OfferedIsLive`, `NeverReused`, and the refinement `OwnershipSpec`. |
| `pool_liveness` | pass | A goroutine that calls `Release`, possibly again and again, next to the collector, creations that fail and leave a claim, failing deletes and claims that others delete (137,462 states): `IndexCoherence`, `NothingForgotten`, `CallsReturn`, `OverdueCollected`. |
| `pool_claim_race` | violation | `GrantIsUsable`: `RunGC` sees `Status` Active with the warm sandbox's old `LastActivity`, releases it, and `Allocate` returns it. |
| `claims` | pass | Two creators with clocks that differ, late Creates, lost answers to Create and Delete, cancellation, crashes, failing deletes, sweeps (176,198 states): `OneCreatorPerClaim`, `NoForeignDelete`, `SweepsOnlyOldTerminal`, `TerminalCollected`, and `StrandedByMishaps`: claims that nobody works with are at most as many as the faults that happened. |
| `router_queue` | pass | Two clients, two notifiers, one slot, three queue entries, collections that fail, with and without `AuditLog` (2,432,704 states): `ServedInTurn`, `SendNeverBlocks`. |
| `router_in_use` | violation | `InUseKept`, in the router as `cmd/router` builds it: a client is given a session, uses it again, and `RunGC` takes its sandbox as inactive. |
| `task_faults` | pass | Two tasks, two workers, all faults, errors and cancellation at every step (837,938 states): `HonestResult`; `LeaksExplained`: a named sandbox is left behind only by Temporal's closing the workflow, a release all of whose attempts failed, or a worker without the entry; `UnnamedBounded`: the unnamed ones come from lost answers, at most one per attempt; `AttemptsBounded`: every step of a task uses up some of a budget that is fixed at its start, so a task cannot go on for ever. |
| `prompt_stream` | pass | Answers of up to four events, cut, interrupted and ended in every way (41,376 states): `ContentExact`, `TokensExact`, `PromptEnds`. |
| `api_reports` | pass | Two streams and a poller of one task with failing calls, and requested timeouts below and above the cap, two of which wrap (11,176 states): `OutcomesAgree`, `BufferKept`, `StreamsClose`. |
| `extract_json` | pass | All texts of up to five characters and those of seven that begin with a bracket and a quote (417,480 states): `ScanMatchesGrammar`. |
| `extract_first` | violation | `FindsFirst`: in `{{}` a document begins at the second brace, and nothing is found. |
| `rate_limiter` | pass | Two handlers of one key over two windows (778,983 states): `Aligned`, `LimitsKept`, `RetryHonoured`. |

Bounds.  Three sandboxes with `maxSize` 2 let the pool be below, at and above its
limit; two callers and a warm-pool goroutine can all three be past the size check
at once, which reaches `OvershootBound`'s limit.  All safety properties are also proved for
all sizes (section 4).  `MaxTime` bounds the clock: 2 with `IdleTimeout` 1 lets an
allocation be fresh, at the limit and overdue; in `claims`, 1 gives two names and,
with `MaxSkew` 1, clocks that are early and late by one, so that a name is contended,
used again after its claim is gone, stale and swept; the controller's clock is right there
(`SweepSkew` 0), since the theorem covers every skew; `MaxMishaps` 2 lets two faults meet.  Three tickets let a waiter stand behind
an abandoned entry and move up while a third arrives; `MaxTickets` bounds how many requests
are ever queued, since entries are never reused, and one slot makes the pool full at once.
Three sessions bound the ids that are remembered at the same time; an id that nobody
remembers any more stands for a fresh one, and `Grant` waits while all are remembered.
Retry limits are the
code's own (3).  In `prompt_stream` a heartbeat every second event stands for every
tenth, and four events give two heartbeats and every order of two kinds around
them.  The 7-bit word of `api_reports` holds the cap, values beyond it and,
after wrapping, a short and a negative timeout.  Five free characters hold a document in a
document, a string with an escape, and text before and after; seven with a string
at the front hold escaped quotes and brackets inside strings.  The rate limiter's
clock runs over two windows and a bit, so that requests leave a window while
others stay.  Type invariants are checked for the modules with most state
(`SandboxPool`, `SandboxClaims`, `SessionRouter`, `CodingTask`); in the others
the properties fix the values exactly, and the proofs state the types they need.  Symmetry is used only where no liveness is
checked, and never over `Sessions` in the router, where CHOOSE picks one.

Fairness.  `SandboxPool!FairSpec`: a goroutine that can run does; `sync.Mutex`
switches to hand-off after a waiter has starved for 1 ms, so the steps that take
`mu` are strongly fair; provider calls return (client timeouts, the poll's five
minutes); tickers fire.  Nothing obliges anybody to call `Allocate`, `Release` or
`Heartbeat`, no fault must happen, and the clock may stop.
`SandboxClaims!FairSpec`: the controller's ticker fires and a delete tried again
and again succeeds once.  `PromptStream!FairSpec`: a response or the client's header
timeout comes, time passes, and Temporal acts on a missed heartbeat; the server
owes nothing more.  `TaskAPI!FairSpec`: the ticker fires and Temporal does not fail
every poll for ever.

Deadlock is checked everywhere except in `router_queue`: there the model stops when the
pool is full of Releasing entries, no ticket is left and every session id is remembered,
where the program would go on to queue further requests.  The pool and claims can always do
something; workflows and prompts that have ended stutter explicitly (`Finished`, `Ended`).

## 4. Proofs

All theorems hold for every value of the constants that satisfies the named
assumptions of the module (`PoolSizes`, `PoolSets`, `PoolDistinct`, `ClaimsAssumption`,
`RouterAssumption`, `TaskAssumption`, `StreamAssumption`, `TaskAPIAssumption`, `LimiterAssumption`, `JSONGrammar`): sets are finite
where they are counted, numbers are naturals, limits are not zero where the
configuration's validation or the code excludes it.  TLC evaluates the assumptions on every run.

| Module | Theorem | Statement |
|---|---|---|
| `SandboxPool_proofs` | `TypeCorrect` | `Spec => []TypeOK` |
| | `GrantsExclusive` | `Spec => []ExclusiveGrant` |
| | `IndexesCoherent` | `Spec => []IndexCoherence` |
| | `PoolSizeBounded` | `Spec => []OvershootBound` |
| | `HardCapAlone` | with one creating goroutine, `Spec => []HardCap` |
| | `NoSandboxForgotten` | `Spec => []NothingForgotten` |
| | `SandboxesNeverReused` | `Spec => NeverReused` |
| | `PoolImplementsOwnership` | `Spec => OwnershipSpec` |
| | `VerdictsStand` | without heartbeats and warm pool, `Spec => OnlyIdleReleased` |
| | `OfferedSandboxesLive` | if no claim vanishes, `Spec => []OfferedIsLive` |
| | `WarmPoolBounded` | with at most one warm-pool goroutine, `Spec => []WarmBound` |
| `SandboxClaims_proofs` | `TypeCorrect` | `Spec => []TypeOK` |
| | `CreatorsDistinct` | `Spec => []OneCreatorPerClaim` |
| | `OwnClaimsDeleted` | `Spec => NoForeignDelete` |
| | `SweepsSafe` | `Spec => SweepsOnlyOldTerminal` |
| | `StrandingExplained` | `Spec => []StrandedByMishaps` |
| `SessionRouter_proofs` | `TypeCorrect` | `Spec => []TypeOK` |
| | `FirstInFirstOut` | `Spec => []ServedInTurn` |
| | `SendsNeverBlock` | `Spec => []SendNeverBlocks` |
| `CodingTask_proofs` | `TypeCorrect` | `Spec => []TypeOK` |
| | `ResultHonest` | `Spec => []HonestResult` |
| | `LeaksOnlyExplained` | `Spec => []LeaksExplained` |
| | `UnnamedFew` | `Spec => []UnnamedBounded` |
| | `AttemptsAreBounded` | `Spec => AttemptsBounded` |
| `PromptStream_proofs` | `ContentIsExact` | `Spec => []ContentExact` |
| | `TokensAreExact` | `Spec => []TokensExact` |
| `TaskAPI_proofs` | `ClientsAgree` | `Spec => []OutcomesAgree` |
| | `BufferIsKept` | `Spec => []BufferKept` |
| `RateLimiter_proofs` | `WindowsAligned` | `Spec => []Aligned` |
| | `NoMinuteOverLimits` | `Spec => []LimitsKept` |
| | `RetryAfterTrue` | `Spec => []RetryHonoured` |
| `ExtractJSON_proofs` | `ScannerMatchesGrammar` | `Spec => []ScanMatchesGrammar` |

Hardly any of these properties is inductive as it stands.  What was added, and why:

**SandboxPool.**  That `claimIdle` may write to its
sandbox depends on who else can hold it.  `PoolInv` adds what does hold:
`LockInv` (a goroutine between list and re-index has `mu`), `ObjectInv` (an object
that is unbuilt or Idle carries no session), `ClaimInv` (what `claimIdle` finds in its
object at each of its steps; `RunGC` may have marked it Releasing meanwhile),
`HolderInv` (goroutines that claim or build work on different sandboxes),
`ReleaseInv` (what is being released was taken before, so it is never Idle),
`SessionInv` (sessions are not shared) and `GrantInv` (a grant's session is on its
object, and nobody is claiming or building that object).
`RunGC`'s test that skips Idle is what makes `ReleaseInv` hold, and with it
`NeverReused`: a claim never overwrites Releasing with Active, because the claim's
mark finds Idle.  `OvershootBound` follows from `SizeInv`, which counts the creators
that have passed the check together with the cache; `NothingForgotten` needs that
an entry is removed only after its sandbox is gone (`GoneInv`).  `OnlyIdleReleased` is
false in general (a heartbeat between test and release, or a claim's stamp, refutes it); `VerdictsStand` says
that heartbeats and claims of warm sandboxes are the only reasons: without them `PassInv`
holds, by which a collector's cutoff stays at least `idleTimeout` behind the clock and what
it has condemned keeps its `LastActivity`.  In the program as it is nobody calls
`Heartbeat`, so the condition is that of a router without a warm pool.  The refinement maps `status`
to the abstract phase and `grants` to `owners`; each step changes at most one status
(`LifecycleStep`) or adds one grant.  `WarmBound` is inductive by itself once
`WarmSteps` has shown that only `replenishWarm` adds idle sandboxes and that it pays for each
with one of those it still has to make.  It needs a single warm-pool goroutine,
which is what `cmd/router` starts; a second one would count before the first has created.

**SandboxClaims.**  Clocks prove nothing about names, so uniqueness rests on the
server's refusal of a name that is taken.  `OwnInv`: a goroutine that was not robbed still has
the very claim that it created; that is why two of them never have the same one, and why a delete
by name hits its own.  The two theorems say what is left: a goroutine whose claim was
deleted without its being told can work with, and delete, a claim that was made under
the name since.  TLC reaches that case (the robbed are not excluded from any action).
`DoomedInv`: a claim on the sweep's list that still exists and was not created again is
still terminal, and no younger; `RemoveKeeps` shows once, for whoever deletes, that both
survive a deletion.  For
`StrandedByMishaps`, the stranded claims alone are not inductive, because a cancelled
context strands a claim only at the `Cleanup` that follows: `RiskInv` counts the
claims of cancelled goroutines as well (`AtRisk`).

**SessionRouter.**  `QueueInv`: the queue is the last entries issued, in order, numbered by their
places; `WaitInv`: a waiting client's entry was issued, and its position has only shrunk;
`RoomInv`: entries issued and entries about to be made fit the bound; `HandInv`: an
entry in a notifier's hand was dequeued, by that notifier alone, and its channel is
empty.  `FreshSession` and `TicketLeft` show that a new session or entry is one.

**CodingTask.**  `CountInv` ties `attempt`, `prompts` and `tokens` together at each activity (the
loop re-prompts only below `maxValidationRetries`).  `LeakInv` adds `CachesApart`: a sandbox
is in one worker's cache at most, so the release that succeeds removes its only
entry; an attempt that took effect and lost its answer is followed by one that fails, or that meets a worker
without the entry.  `MadeInv` pays for every lost sandbox with a failed attempt.
For `AttemptsBounded`, `FitsInv` says that a stage is worth more than the attempts that can be
given back with the next one; that `Stage` is defined well needs `CountInv` (a re-prompt is below the limit).

**PromptStream.**  `ShapeInv`: `part` determines what `dataBuf` holds (nothing, the
first line of the last event, all of it, or `[DONE]`).  The lemma `Steps` then shows that
every step either leaves the arrived events alone (`Kept`) or completes the last one (`Taken`), from
which both properties follow.

**TaskAPI.**  `HonestInv`: each terminal report says how the workflow closed, and it closes
once, so what a client was told stays true.  For `BufferKept`, `WrapType` (whatever wraps is a
word again) and `TimeoutCapped`: a word that passes the cap has room for the buffer.

**RateLimiter.**  `InStep` describes a key's window: `requests` and `tokens` are, place by place, the
ends of what was admitted, times come in order, and what is no longer in `requests` is a
minute old.  That pruning keeps this depends on what the loops compute: `PruneIsEnd`
(what `pruneTime` drops is at the front), `TotalSums`, `TotalAppend` and `TotalSuffix`.  These are proved by
induction on the places of a slice, with an induction principle about sets of numbers (`Induction`),
which follows from the well-foundedness of `<`; the existence of each recursive function is part of
the argument.  `PromiseInv`: the oldest request of a full window has left it by the time promised.

**ExtractJSON.**  The scanner counts one kind of bracket only, and the grammar counts both; what connects them is
`Nested`: from a state outside strings a document leads back to the same depth, never
below it, and stays above it until its last character if it begins with the bracket that is
counted.  `BodyKeeps` (strings change no depth), `ContentStep` and `DocumentStep` show this for a
part of the text from its shorter parts, and `DocumentNested` puts them together by taking a shortest
counterexample.  So the scan comes back to zero at the end of a document and at no other
valid place (`ScanFinds`).  `MatchIsScanned`: a match of the regular expression begins at the
first bracket of its kind, so a valid one was found by the scan.  The invariant says for each
pass that the earlier ones found nothing because there was nothing.

Only model-checked: all liveness properties (`CallsReturn`, `OverdueCollected`,
`TerminalCollected`, `PromptEnds`, `StreamsClose`), because fairness and ENABLED are outside this prover.

## 5. Where the code and its documentation disagree

Each of these is a run that expects a violation, recorded under "findings" with the
sentence it contradicts:

* `pool_claim_race`: `claimIdle` is not atomic for `RunGC` (`manager.go:134`;
  `docs/architecture.md:340` says that it is).
* `router_in_use`: proxying is no heartbeat (`handler.go:67`, `docs/configuration.md:95`).
* `extract_first`: `ExtractJSON` looks only at the first bracket of each kind, and at objects
  before arrays, so in `{x}{}` it finds nothing and of `[{}]` it returns the inner object
  (`validator.go:51`, `docs/architecture.md:173`: the first).  `ScanMatchesGrammar` says
  what it does find.

Met while modelling, and visible in the modules; no property claims the contrary:

* `maxSize` is no "Hard cap" (`docs/configuration.md:94`) for concurrent creators, which
  test the size before any has inserted (`manager.go:88`, line 112).  `OvershootBound` and
  `PoolSizeBounded` give the exact bound, and `HardCapAlone` proves `HardCap` for a single
  creator, the one case in which the sentence is true.
* After a failed `DeleteSandbox` the allocation stays Releasing (`manager.go:157`), `RunGC`
  skips it for ever (line 187) and it counts against `maxSize`; the comment at line 144 says
  that `Release` removes it.
* `RunGC` ignores a heartbeat that arrives between its test and its release
  (`manager.go:190`; line 182 says "idle longer than idleTimeout").  `VerdictsStand` is
  the case in which the sentence is true.
* The cleanup of a failed creation ("Clean up the claim on failure", `k8s_provider.go:97`) uses
  the context whose cancellation made it fail, and drops the error: one of the mishaps of
  `StrandedByMishaps`.
* Nobody but the tests calls `NotifyNext`, so a queued request waits until its client
  leaves, also when a slot is free (`handler.go:103`; line 50 says "until a sandbox becomes
  available", `docs/architecture.md:66` "until a slot opens").
* The release may go to a worker that has no entry, where it succeeds and does nothing, so
  a sandbox is not "always released" (`task.go:21`): the `foreign` case of `LeaksExplained`.
* `NonRetryableErrorTypes` lists a message where Temporal compares type names (`task.go:46`),
  so a full pool is retried (`docs/architecture.md:147`: "Non-retryable"); `AllocateExhausted`.
* `time.Duration(req.Timeout) * time.Second` can wrap around before the cap is applied
  (`tasks.go:100`), to a short or a negative timeout; `docs/getting-started.md:172` says
  "max 7200".
* A claim's name can be used again once its claim is gone, by a request that was delayed
  or a clock that is late (`k8s_provider.go:43`); a `DeleteSandbox` that is repeated after
  its answer was lost (line 107) can then hit the new claim.  These are the exceptions that
  `OneCreatorPerClaim` and `NoForeignDelete` name.
* The controller reclaims terminal claims only, so the Ready claims of a replica
  that died stay (`reconciler.go:150`; line 120 speaks of orphans), and it measures
  age from creation, not from the terminal state (line 154 against the comment at 135).
* `statusWriter.Unwrap` does not make `w.(http.Flusher)` succeed (`audit.go:46`): behind
  `AuditLog`, as `cmd/router` builds the chain, the wait queue and the task stream
  answer "streaming not supported", and the wait entry stays in the queue.
* An entry whose client has left is still sent an allocation (`queue.go:92`), and an
  allocation that `NotifyNext` brings to an empty queue is dropped (`queue.go:87`).
* A workflow that Temporal closes at its execution timeout runs no deferred
  release (`docs/architecture.md:356`).
* A stream that ends at a line boundary without `[DONE]` is a complete answer to
  `readSSEStream` (`client.go:221`), so a server that stops early goes unnoticed.
* Heartbeats come every tenth event (`client.go:198`) and the timeout is a minute:
  an answer of fewer than ten events a minute is given up although it progresses.
* A failing poll is reported as `running` (`tasks.go:269`).
* The rate limiter suggests 30 seconds for every refusal for tokens, also to a
  request too large ever to be admitted (`main.go:76`); an `-rpm` of 0 makes `check`
  index an empty slice (`main.go:65`), which `LimiterAssumption` excludes; the debug
  endpoint sums tokens it has not pruned (`main.go:246`).

## 6. Not modelled

* Configuration: loaded once; `Validate`'s conditions are the modules' assumptions.  It does not
  reject a `gcInterval` of 0, on which `time.NewTicker` panics.
* Process wiring and shutdown (`cmd/router/main.go:171`): the contexts of the loops are
  cancelled, then `Shutdown` waits for the handlers, SSE loops included, with no
  deadline.  What a stopped process leaves behind is the `Crash` of `SandboxClaims`.
* API keys and body limits: stateless checks of one request.
* Telemetry and metrics, and the informer's handlers, which log and count: nothing
  reads what they write.
* `BuildRetryPrompt`, token estimates and canned answers of the mock servers: formatting and data.
* The JSON schema library: its verdict is a choice.
* The activity's StartToCloseTimeout (an answer of events without end), wall-clock
  jumps, API-server watches, the manifests.

## 7. Plan

1. An abstract FIFO that `SessionRouter`'s queue implements.
2. Composition: two pools over `SandboxClaims` with the controller, so that orphans
   and `maxSize` across replicas become properties of one system.
