# Formal models of m-secondbrain

TLA+ models of the parts of m-secondbrain whose correctness depends on the
order in which independent actors reach what they share. On the database: the
turn engine, the execution graph of a planned task, the summary triggers keep of
it, the dispatch outbox and the registry of live calls with the merges of them.
Around the caller's memory: the queue of captures, the resolver that reads the
graph for it, the tools the facade offers, and the controller of a voice call. TLC
checks small instances of all of them; TLAPS proves the safety of all of them for
every instance: any plan, any number of workers, sessions, calls and captures, any
budgets, any graph and any pages it is read in.

Contents: [the system](#1-the-system) · [modules](#2-modules) ·
[correspondence](#3-how-the-modules-correspond-to-the-code) ·
[runs](#4-runs) · [findings](#5-where-code-and-documents-disagree) ·
[proofs](#6-proofs) · [limits](#7-what-is-not-modelled) · [plan](#8-plan)

## 1. The system

A personal assistant whose durable state is a Postgres database (Supabase).
Edge functions (`supabase/functions/*/index.ts`) check a caller and its
arguments and then call one SQL function each, which is one transaction. n8n
workflows, a telephony provider, a voice agent, an audio bridge and a memory
service are the callers: separate processes that may crash, repeat a request
whose response was lost, or answer long after someone else took over.

| component | state | operations | who calls |
|---|---|---|---|
| turn engine | `tasks`, `task_events` | `advance_task`, `process_task_turn`, `wake_task_delivery` behind nine endpoints | n8n, voice agent, provider webhook |
| execution graph | `task_steps`, `task_step_events`, `task_gates`, `task_decisions`, `task_decision_events` | `claim_task_step`, `complete_task_step`, `fail_task_step`, `resolve_task_decision` | step workers, owners of decisions |
| execution roll-up | `tasks.execution_status` | row triggers on steps and gates | every transaction above |
| dispatch outbox | `task_dispatches` | `enqueue_`, `claim_`, `complete_`, `retry_task_dispatch` | n8n dispatch workflow, every 30 s |
| task and plan creation | all of the above | `create_task`, `create_task_plan` | voice agent, n8n |
| tool runs, protected results | `task_step_tool_runs`, result rows | `begin_`, `store_`, `read_` of a run under a step's claim | step workers |
| trust engine | grants, decisions with an audit record | security check, revoke | tool adapters |
| live calls | call sessions, participants and events | `record_live_call_status` | telephony webhook |
| live call merges | merge requests, and the sessions | propose, answer, claim execution, complete | voice agents, bridge |
| onboarding | invites, verification attempts | issue, verify, resolve caller | operator, caller |
| memory capture queue | `memory_captures`, what each worker holds | capture, claim, checkpoint, resolve, store | facade, capture worker |
| graph memory | facts and receipts of the graph | store; search and context, which list pages | capture worker, voice agent |
| memory facade | scopes it takes for ready; the graph store or the inbox behind it | the tool calls of a legacy and of a capture deployment | voice agent |
| voice service (`gpt-live-poc`) | the controller of each call and its sideband to the provider's session | webhook, acceptance, opening, enrolment, tools, approvals | telephony and model provider |
| voice bridge | requests it executes, audio in memory | conference merges, audio relay | telephony provider |
| memory context provider, speaker verifier, travel adapters | none | translate or compare what they are given | edge functions, bridge, adapters |

How they interact: a turn (`turn engine`) ends in a question to the user, in a
finished task or in an intent that is put into the outbox; the outbox calls a
provider; the provider's callback wakes the task. A call the provider makes has
a session, and two of them can be merged into a conference by the bridge. What
is said in a call may be captured through the facade; a worker, with a model that
searches and reads the graph, turns it into facts later, and the next call's agent
searches graph and inbox. A voice call is answered by a session at the model's
provider; the service only listens in on it by a socket, the sideband, and sends
it what to do. A planned task also has an
execution graph, whose workers claim steps as long as the task and its thread
are open; the decisions in front of a step are answered by their owners; each
change refreshes the summary on the task. Closing the task is the turn engine's
only influence on the graph.

What is hard here, and hard to test: leases that run out under a worker that is
slow rather than dead; requests that are repeated at any later time; two
transactions that read the same state before either commits; triggers that
compute a summary from what one transaction can see; callbacks that overtake
the step they answer; a session that is told something about a state it has left;
lists that are read page by page while others write; passages that move from one
store to another between two reads of a search. `PROJECT.json` lists these hazards line by line, with
the property that watches each.

What makes each component correct:

- *turn engine*: a call is applied once, completely, or not at all, however
  often it is delivered; a pause is answered once.
- *execution graph*: no step starts before its prerequisites and the choice of
  the decision's owner; every attempt ends exactly once and by its own worker;
  the attempt budget is neither exceeded nor cut; what was acknowledged
  happened; lost work comes back.
- *roll-up*: a final summary is true; when nothing is under way the summary is
  that of the rows.
- *outbox*: a recorded intent is settled; an execution that is in time loses its
  claim to a namesake only; the result bears the name of the last claim.
- *live calls*: a session follows the call however its callbacks arrive, and
  never goes back; nothing that happened is refused.
- *merges*: nobody is put into a room without the answer of the owner given
  through the call that asked; a session that is merging has a request that is
  executing, and that is so until the bridge reports or for as long as the bridge is
  gone.
- *capture queue*: a fact enters the graph once, after the captures before its
  own; what the caller is told is saved is there; no capture is left behind.
- *resolver*: no namesake is proposed that the model was not shown; a corrected
  fact is not taken for current; links never look broken.
- *memory facade*: no call fails without a reason, also if several create the scope
  at once; a search misses only what moved under it; nobody is told a memory is empty
  that is not.
- *voice service*: the caller is greeted once, undisturbed, and heard afterwards
  whatever is lost; memory is for trusted callers; what is reported twice is
  answered once; a result of the memory is spoken of.
- *not modelled yet*: see [plan](#8-plan).

## 2. Modules

| module | what it is |
|---|---|
| `WorkLedger` | what the execution graph promises, without leases, tokens, keys or events |
| `ExecutionGraph` | the steps, gates and decisions of one plan and the four functions over them; refines `WorkLedger` |
| `ExecutionGraphProofs` | theorems about `ExecutionGraph`, for every plan |
| `ExecutionRollup` | the summary triggers, statement by statement, with several transactions at once |
| `ExecutionRollupProofs` | theorems about it, for any finite plan and number of sessions |
| `TurnEngine` | one task, its event log and every endpoint that moves it |
| `TurnEngineProofs` | theorems about it, for any set of calls |
| `DispatchOutbox` | the outbox, its workflow executions and the provider |
| `DispatchOutboxProofs` | theorems about it, for any dispatches, budgets and worker ids |
| `LiveCalls` | the provider's legs, their callbacks and the registry |
| `LiveCallMerge` | merge requests and the bridge that executes them, composed with `LiveCalls` |
| `LiveCallMergeProofs` | theorems about both, for any calls, merge requests and callbacks |
| `CaptureQueue` | the capture queue, its workers and the receipts of the graph |
| `CaptureQueueProofs` | theorems about it, for any captures, workers, attempts and faults |
| `GraphMemory` | the graph behind the facade: transactions with receipts, and lists read in pages |
| `GraphResolver` | the model-driven resolver of one assertion, reading `GraphMemory` while others write |
| `MemoryFacade` | the tool calls of the memory server, in both of its deployments |
| `MemoryProofs` | theorems about `MemoryFacade`, for any number of calls, captures and faults, and about `GraphResolver`, for any graph, writers, pages and limits |
| `RealtimeCall` | the controller of a voice call, its sideband and the provider's session |
| `RealtimeCallProofs` | theorems about it, for any deployments, calls of tools and turns |
| `MC*` | the instances TLC checks, one for each module |
| `MCRuntime`, `MCMemory` | instances that share no state, side by side: four of the database and the voice service, and the two readers of the memory |

`ExecutionGraph` is checked with every function as one transaction; what two
transactions of it do to each other inside `tasks` is the question of
`ExecutionRollup`, which forgets leases and attempts and keeps statements.
`CloseTask` in `ExecutionGraph` stands for the terminal moves of `TurnEngine`.

The memory modules cut one path at three places. `CaptureQueue` follows a
capture from the inbox to the receipts of the graph and keeps of the resolver its
outcomes; `GraphResolver` is one such resolution, tool call by tool call, on a
graph with pages and a clock (`GraphMemory`); `MemoryFacade` is what the agent in a
call sees of both, and keeps of the worker that it claims, commits, ignores, ends
with a state, or writes another state over that when it took the end for failed.

## 3. How the modules correspond to the code

Every function below takes the lock on the row it decides about first, so one
action per *outcome* of a call is exact: the guard is the conjunction of the
function's early returns and exceptions, the primed variables its UPDATEs and
INSERTs. A refused call (`PT409`, `PT403`, `PT404`) raises and rolls back: it
has no action, unless the endpoint tells its caller something else
(`IgnorePostCall`).

Three abstractions are shared:

- *time*: `now()` is only ever compared with stored instants, so a row holds
  the outcome of the comparison, and the clock passing it is an action that is
  always possible. `now()` is the start of the transaction; a call that began
  before an instant and commits after it is a call that happened before it,
  since the row was locked in between or is read again under the lock.
- *claims*: a claim token is a random UUID. A claim raises `attempt_count`, so
  the count names it (`0` is `NULL`).
- *callers*: they are not modelled as processes. A caller that has been given a
  token, a call id or a dispatch may use it at any later time, any number of
  times or never, which covers crashes, lost responses, resends, duplicates and
  reordering. Executions are modelled where it matters what they have in
  memory or have done outside: those of the dispatch workflow, the bridge and
  the capture workers.

### ExecutionGraph

`step`, `events`, `decision` and `gate` are the rows of the four tables; `open`
is the test of `claim_task_step` on the statuses of task and thread; `picked`
are the rows a claim has selected FOR UPDATE and not yet leased; `acked` is not
state of the program but a record of the success responses workers got.

| action | code |
|---|---|
| `Pick` | the SELECT of `claim_task_step`, reading `tasks` and `threads` without a lock |
| `Claim`, `ClaimNothing` | the sweep of expired leases (one UPDATE with its event rows), then the lease |
| `ClaimLost` | the session ends before it commits |
| `Complete`, `Fail`, `Replay` | `complete_task_step`, `fail_task_step`; `Replay` is the idempotency test both start with |
| `Resolve` | `resolve_task_decision`, the decision and its gate |
| `CloseTask` | a terminal move of `advance_task` |
| `LeaseRunsOut`, `BecomeDue` | `lease_expires_at`, `available_at` pass |

`Claim` sweeps and leases in one action because no other call can tell the
two apart: the swept rows are locked until the claim commits. The order of
candidates (priority, age) is not modelled; with SKIP LOCKED any admitted row
may come first. The idempotency key of an answer is a function of the kind of
answer and the claim (`KeyOf`), as the published workers form it
(`n8n-complete:<claim>`, `n8n-fail:<claim>`).

### ExecutionRollup

`rows` is the committed state, `mine[c]` the uncommitted changes of session `c`
(and so its row locks), `pc[c]` its next statement. A trigger is `Count` (two
SELECTs over `View(c)`) and then `Write` (the UPDATE of the tasks row, which
waits for `taskLock`). `EndStep`, `Satisfy` and the sweep go through `UpdateRows`; a
statement that changes several rows (`Sweep`) owes one trigger call per row.
`StepComesDue` is the clock. Attempts are left out: `BudgetSpentExactly` of
`ExecutionGraph` says that a step in the queue always has attempts left, which
makes the roll-up's test of them true.

### TurnEngine

`status` and `timer` are `tasks.status` and `next_action_at`, `log` the
`task_events` of the task, `done` and `effects` what callers were told,
`ignored` the callbacks answered with `200 ignored`. `Moves` is the transition
table; `Replayed` and `Applied` are the two ends of `advance_task`. Process-task
is two calls of it in one transaction (`ProcessTask`), wake-task one behind a
replay test under the same lock (`WakeTask`), post-call the same for a caller
that is told nothing (`PostCall`). The event `task.created` that `create_task`
writes is left out of the log. Payloads are not modelled: a call id stands for
one operation with one payload.

### DispatchOutbox

`row` is the `task_dispatches` row of each dedupe key, `run[d][n]` the workflow
execution that made the `n`-th claim of `d`: how far it is, whether the provider
has answered, whether its five minutes are over. `Claim` releases abandoned rows
(`SweptRow`) and leases one; `Complete` and `Retry` compare the owner as the code does,
by worker id (`IdOf`), which executions may share.

### LiveCalls and LiveCallMerge

`leg` is the provider's own view of a call, `session`, `heard` and `presence`
the rows of `live_call_sessions`, `live_call_events` and the participants'
times. `Record` is `record_live_call_status`, one action, since deliveries for one
call wait for each other at the session row; a repeated one changes nothing.
The upsert of the participants does not ask whether the event applies
(`PresenceAfter`), and the table's check on their times (`Presentable`) may
refuse the whole delivery. A stream error is recorded in two steps, with what
the provider answered in between (`FetchCall`).

`LiveCallMerge` extends it: `Propose`, `Answer`, `Claim` and `Complete` are the
SQL functions, each under the locks of the request and its sessions, `Preflight` to
`Report` the steps of the bridge between two awaits. An operation at the
provider fails, or takes effect though its answer is an error or is lost
(`Redirect`); the bridge may stop before any step (`Crash`), and `expires_at` passes
(`Expire`): both are external, the one a process, the other the clock.

### CaptureQueue

`row[c]` is the row of a capture, `job[w]` what a worker has in memory, `graph`
the receipts (a receipt and its facts are one transaction of the graph).
`now()` is fixed when a transaction begins, which matters here: a checkpoint that
began while its lease was valid may be written after a claim began that found the
lease over. So a claim is `Look` and `Take`, a checkpoint `BeginCheckpoint`
(compares `lease_until`) and `WriteCheckpoint` (compares the token again). For the
same reason the lease and the back-off a checkpoint writes count from its beginning:
if fifteen seconds pass before it writes (`Stall`), the row is due as soon as it is
written, under a lease that holds for most of two minutes. (Of a row that is over
nobody asks when it is due, and `Stall` leaves it out.) `LoseCheckpoint` is a connection that breaks before or after the commit; `Raises`
says which handler gets the error: the one around a unit, which checkpoints and
goes on with the next unit, or that of `run`, which writes the whole job back.
`Prepare` and `Extract` are the models' outcomes. The heartbeats between two steps
of the resolver are left out: they write what the row has, and a lease lost
there is found lost by the next checkpoint. A graph payload is accepted or
refused for its content, so always alike; an error of the graph leaves
open whether it was written (`Store`).

### GraphMemory and GraphResolver

`graph` is the set of committed identifiers (what a record contains is a
constant, since records are created and never changed), `now` the clock,
`writing[b]` how far the writer of a bundle is, `scan` what a reader has listed.

| action | code |
|---|---|
| `CheckBundle`, `Transact`, `Confirm` | `store`: the receipt, the one check of what is referred to, the transaction, the look for a receipt when its answer is lost |
| `ReadPage` | one request of `list_records`; a list longer than its pages is an error |
| `CallTool`, `BeginSearch`, `EndSearch` | `memory_search` of one or two names, and the contexts of its first candidates |
| `BeginContext`, `EndContext` | `memory_get` and `context`, with the links it checks |
| `Deliver` | only what was delivered to the model counts as read |
| `ProposeNew`, `ProposeExisting`, `AlreadyKnown`, `NeedsClarification` | the checks of `GraphResolver` on a proposal |
| `Refused`, `OverBudget`, `Fail` | refused arguments, too many steps, errors |

The model is free to call any tool and to propose anything; the code decides what it
accepts. Matches that merely sound alike are found by every search here, which
only adds to what crowds out a namesake. The state `before` is not in the program: it
records the graph as it was when a reading began, for the properties.

### MemoryFacade

`store` is the LiteGraph of a legacy deployment, `ready` the process's
`READY_SCOPES`, `row`, `facts` and `ignored` what the readers of a capture
deployment can tell of inbox and graph, `call[r]` the variables of a handler
between two awaits. `Begin` and `Return` are the ends of `mcp`; `HeadTenant`,
`PutTenant`, `HeadGraph`, `PutGraph` are the requests of `ensure_memory_scope`,
where the conflict of two creations counts as success; `StoreMemory`, `HeadNode`,
`PutNode` those of `store_memory`, where it does not. `GetMemory` reads one memory, by
itself or for a save that is linked to it; one that is not there is an error of the
store, and the caller is told that the backend failed (`NotFound`). `SearchGraph` and
`SearchPending` are the two readings of a search, `OrientGraph` and `OrientInbox`
those of an orientation. Which of many matches a search returns is left open
(`Cut`), as is why arguments are refused. `Restart`, `StorageLost` and `TimedOut`
are faults; a request that times out may have been carried out. So is `Rewrite`: the
worker does not hear that its last checkpoint was written and writes `pending` or
`needs_attention` over it.

Some of a call's record is history, for the properties: what there was when it began
(`had`, `before`, `stale`, `since`), and the passages a worker finished between its two
readings (`moved`), which stay so though they are put back.

### RealtimeCall

`call` is the controller and the local variables of `run_realtime_sideband` and
`run_live_sideband`, `session` the session at the provider (external: modelled from the
events the code sends and handles), `inbox` and `outbox` the two ordered
streams between them. `Resolve` and `Accept` are the webhook's background task, with
`Offered` for the tools of the payloads; `Connect` opens the sideband, `OpeningTimeout`
is the deadline of `OpeningDeadline`, which fires also while events wait. Each
event has its action (`OnSpeechStarted`, `OnLocalCall`, `OnCodeSpoken`,
`OnSessionUpdated`, `OnResponseCreated`, `OnPlaybackEnded`, `OnResponseDone`,
`OnMcpResult`, `OnApprovalRequest`, `OnError`). A handler is one step: besides its sends
it awaits the verification of a code and, of a live session, the reading of the memory,
but the next event is only taken when it has ended, and what the session does meanwhile
waits in the stream, as it does before the handler begins. Any function call that
names the verification of a code is verified where callers enroll, whatever tools the
session has (`OnCodeSpoken`). The session (`Obey` and the
actions after it) has one response at a time and refuses a second, reports function
calls, approvals and results twice as the code expects, lets a caller interrupt
only with turn detection, and may fail to report the end of a playback.

## 4. Runs

| run | question | instance and bounds |
|---|---|---|
| `execution_graph` | order, budget, one ending per attempt, honest acknowledgements, refinement of `WorkLedger`, and that unlocked steps settle | 3 steps (one behind a prerequisite and a decision with 2 options), 2 workers with different filters, 2 actors, budgets 2 and 3 |
| `runtime` | four parts that share no state: | |
| – turns | applied once or never, one answer per pause | 14 calls on one task, each deliverable for ever |
| – roll-up | is a final summary true while transactions overlap, and the summary current if none do | 3 steps, 1 gate, 2 sessions |
| – outbox | every intent settles; a claim is lost to a namesake only, and the result bears the name of the last claim | 2 dispatches, one with budget 2 under an id per execution, one with budget 3 under the stable id |
| – voice call | one greeting, undisturbed; trusted memory; one answer to what is reported twice; the caller is heard, results are spoken | 5 deployments (a live session; enrolment, where callers may return or with a gate; returning callers without enrolment; neither), 2 memory calls, 1 function call, 1 turn of the caller |
| `live_call_merge` | sessions follow the calls and never go back, merges need the owner's answer, merging sessions have a request that executes | an outgoing and an incoming call, all 8 kinds of callback, 2 merge requests in any direction |
| `capture_queue` | facts once and in order, what is called saved is and stays, nothing is stranded | 2 workers, 2 captures of a unit, 2 attempts, 1 crash, overrun lease or lost connection, any number of stalled checkpoints |
| `memory` | two parts that share no state: | |
| – facade | does a call fail without a reason, what can a search miss, what is called empty | 2 calls at a time of 3 in all, each deployment, 2 memories, 2 captures, `Limit` 1, 1 fault |
| – resolver | does the resolver see every namesake and every correction, without false alarms | 3 namesakes, 9 records in 3 bundles, 3 records a page and 4 pages, 2 matches and 1 context a search, 2 tool calls, 3 instants |
| `rollup_lost_update` | is the summary current after transactions overlapped: **violated** | as the roll-up |
| `post_call_conflict` | can an ignored callback be worth a retry: **violated** | the calls around one callback |
| `dispatch_stable_id` | are claims exclusive under the stable id: **violated** | the second dispatch |
| `live_calls_refused` | is every callback recorded: **violated** | the calls, no merge |
| `live_call_merge_stranded` | does every merge end if handlers go on, time passes and callbacks come: **violated** | the calls, 1 merge |
| `capture_queue_leased` | is no job claimed while one is leased: **violated** | as the queue |
| `memory_scope` | does no call fail when the storage comes back empty: **violated** | as the facade, of a legacy deployment |

`MCRuntime` and `MCMemory` extend the instances of their parts. The initial state says
which part runs; the others stay where they begin, and in none of them anything fair is
possible there. So the states of the run are those of its parts one after the other,
and a property of a part holds in the run if it holds of the part.

Why the bounds are enough. Nothing is cut off by a state constraint: attempt
budgets bound the graph and the outbox, call ids bound the log of a task (a
call is applied once), callbacks the registry, and the roll-up has no counter. A
budget of two is the least with which a late answer meets a successor, three the
least with which an expired attempt, a failed one and a successful one follow each
other. A second worker matters only through its filter and a second session
through its locks, so two of each show every pairwise interference; the roll-up
needs a third row for the case where both transactions are outdated about
different rows. Fourteen calls include, for every pause, the call that makes it
and two that answer it, three turns, so that a task is paused again after an
answer, and a cancellation at every point. Two merge requests between the same
calls are enough for one to meet the sessions the other has changed, in both
directions. `CaptureQueue` bounds faults (`MaxFaults`), the only thing that could
go on for ever: one overrun lease gives a worker with an outdated job and a
successor, one crash or lost answer every place of a job where it can be taken up
again; the code's three attempts are two here, a first one and a retry.

`GraphResolver` bounds the clock (`MaxNow`) and the tool calls (`MaxSteps`; the code's
ten are two here, enough for a search and the reading of a candidate it left unread, or
for two searches or readings between which others write, and then a proposal; with
three the same properties hold, in a search three times as long). Three records a page and nine in all make two page boundaries, at either
of which a record can be pushed over by a write; two matches among three namesakes
make the case where one is cut off, and one context per search that where a
candidate was not read. The identifiers are chosen so that the corrected fact, its
correction and the namesakes fall on different sides of the boundaries.
`MemoryFacade` bounds calls and faults (`MaxCalls`, `MaxFaults`): two calls at once are
every interference of two requests, a third finds what they left, and one fault is
a checkpoint whose answer is lost as well as storage that comes back empty; the
theorems of section 6 hold for any bounds. `RealtimeCall` bounds the caller's turns (`MaxTurns`), and a call is made once per
identifier: two memory results are what it takes for one to arrive during the
response to the other, and a function call and a turn can fall between any two
events of the opening.

Symmetry is used of the sessions in `rollup_lost_update`, of the merge requests in
`live_call_merge` and of the workers in `capture_queue`, none of which checks liveness.

Fairness. Only the scheduler and the clock are fair. `execution_graph`
assumes that workers poll (`claim-task-step` is called on a schedule), that time
passes, that a transaction that has picked a step ends, and, *strongly*, that
such a step is claimed if that is possible again and again (`SF_vars(Claim(s))`):
picks may be lost with their sessions, but not for ever. The outbox of `runtime`
assumes that the workflow runs (every 30 seconds) and time passes. No worker,
execution or owner is fair: each may stop for ever at any point, and the liveness
properties hold all the same, because a lease that runs out is swept and a budget
ends. The voice call of `runtime` assumes that the sideband handles the events it has
received and that its deadline fires (both are the event loop of the process), that
the session takes what it is sent and that a response ends; it does not assume that
a session answers an update in a given time, that a greeting is ever played, that
the end of a playback is reported, or that the connection holds (then the
controller is over). `live_call_merge_stranded` grants more than the code justifies,
so that its counterexample does not rest on a process that merely pauses: a bridge that
has not stopped goes on (`Execute`), requests expire, and the calls go on until all their
callbacks are heard. `capture_queue` states the like as an
invariant, `NothingIsStranded`: a
state in which no step but a fault is possible has every capture ended. That it
does not also go in circles is not checked: every attempt raises `attempts`, and
a unit is repaired at most twice.

`CHECK_DEADLOCK FALSE` is set throughout: a finished plan, a finished task and
an outbox without work have nothing more to do.

Every property of a passing run is paired with a *mutant*, a plausible bug
written next to the definition it replaces and marked `Mutant:`, under which
TLC finds the property violated.

## 5. Where code and documents disagree

- **The roll-up loses updates** (`rollup_lost_update`). The trigger counts rows
  and only then locks the tasks row. Two transactions on different steps each
  count without the other's change; the later one overwrites the summary with
  an outdated count and nothing corrects it until the next change. For instance
  two last steps completed at the same time leave `running`. The tests say the
  summary follows the rows (`src/supabase/tests/turn_engine.sql:1067`, `:1085`).
  `runtime` shows what is left: a final summary is never wrong.
- **An early callback is lost** (`post_call_conflict`). A provider callback that
  arrives before the task is paused for it is answered `200 ignored`; a comment
  at `src/supabase/functions/elevenlabs-post-call/index.ts:73` says such
  conflicts "cannot improve with provider retries". One retry after the pause
  would wake the task.
- **A late callback is refused for ever** (`live_calls_refused`). When the end of
  an incoming call is recorded before any event of its stream, `joined_at` of the
  participants is the time of that end; the older stream-stopped event then sets
  `left_at` before it, breaks the table's check and is rolled back with every
  redelivery. `src/supabase/tests/live_call_registry.sql:69` says an out-of-order
  callback "is audited".
- **A claim is lost to a namesake** (`dispatch_stable_id`). `complete_` and
  `retry_task_dispatch` know a claim by its worker id, and the runbook prescribes one
  stable id (`src/docs/turn-engine-runbook.md:42`). An execution that lost its claim
  after five minutes, and then gives up, releases the claim of its successor; a third
  execution works beside that one, although "Claims are exclusive"
  (`src/docs/turn-engine.md:175`). `runtime` shows what is left: nothing but a shared
  id does this (`LostToNamesakesOnly`), and where none is shared claims are exclusive
  (`OwnIdsClaimExclusively`).
- **A merge whose bridge is gone never ends** (`live_call_merge_stranded`). Only the
  bridge's report ends a request that is executing. If the bridge stops, or the report
  does not arrive, later claims answer it as replayed, `expires_at` is not looked at again
  and no callback touches the request; it stays `executing`, and its sessions may stay
  `merging`. `src/docs/live-call-orchestration.md:125` says "Every merge command is
  idempotent, expires, and is reconciled against Twilio status callbacks".
- **A leased job can be claimed** (`capture_queue_leased`). A checkpoint that began
  fifteen seconds before it writes leaves a row that is due under a live lease, and a
  claim that looked for leases just before takes the job, since its UPDATE compares
  `available_at` only. `src/services/litegraph-memory-facade/CONVERSATIONAL_CAPTURE.md:70`
  says "One leased job runs per configured owner". The token then fences the first
  worker out, so that all other properties of the queue hold.
- **A lost scope is not created again** (`memory_scope`). The scope is remembered as
  ready for the life of the process: when LiteGraph comes back empty, legacy calls of a
  process that has used it fail, where `src/services/litegraph-poc/README.md:18` says
  the facade recreates tenant and graph automatically. `FailuresExplained` is about all
  other calls.

Two more statements of documents are not kept, and no run is given to them:

- The second redirect of a merge may take effect and its answer be lost: the request is
  reported failed and both callers are in the room, where
  `src/docs/live-call-orchestration.md:130` says a failed bridge "leaves callers
  separated".
- A job whose worker dies in its last attempt is claimed a fourth time, although
  `src/services/litegraph-memory-facade/CONVERSATIONAL_CAPTURE.md:76` says at most three
  attempts: `claim` does not look at `attempts`, and the three are counted by the worker
  at the end of a job.

Things the models do that may surprise, and of which no document says otherwise:

- *Outbox.* Under a stable id an execution that lost its claim may also complete the
  one that replaced it, with a result of its own (`ResultOfLastClaim` compares names).
- *Capture queue.* A final checkpoint that commits but whose answer is lost is written
  over by `run` with `pending`, or in the last attempt with `needs_attention`, although
  every unit is saved; nothing is lost by it (`SavedStays`, `WrittenOnce`).
- *Resolver.* A list read in several pages may show a record twice, or miss an entity a
  shown fact refers to (`missing_related_entity`), when something is written before
  the page boundary: `NoFalseAlarm` excludes the second within one page only. What the
  resolver knows of facts it never forgets, so a fact corrected *during* its run can
  still be proposed.
- *Facade.* Of two identical saves at once the second is told "unavailable"; a retry
  finds the duplicate. Who asks for a memory that is not there, or links a save to one,
  is told the same, as if the backend had failed. A search can miss a capture that is
  finished between its two readings, also one that is then put back.
- *Voice service.* If the sideband cannot be opened after a guarded call was
  accepted, turn detection stays off and the caller is not heard (`ListeningRestored`
  speaks of attached sidebands). A greeting asked for before the deadline and
  created after it is not silenced. A webhook that is delivered twice starts
  two controllers. An exception while a code is verified ends the controller. In
  a deployment without enrolment and with the older memory, callers that were not found are
  offered the memory tools (`MemoryOnlyForTrusted` is about enrolment). A response that
  answers a function call or an approval is asked for whether or not one is going
  on, and refused if one is.

## 6. Proofs

Each `...Proofs` module proves the safety of its component for every value of the
constants that the named assumptions allow. TLC checked every inductive
invariant on the instance of section 4 before it was proved.

| module | theorem | property |
|---|---|---|
| `ExecutionGraphProofs` | `TypeCorrect`, `BudgetCorrect` | rows are well formed; budgets are spent exactly |
| | `PrereqsCorrect`, `OwnersCorrect` | nothing starts before its prerequisites and its owner's choice |
| | `AttemptsCorrect`, `LateAnswersCorrect` | each attempt ends once, by its own claim |
| | `AcksCorrect` | acknowledgements are true, *if* keys are distinct per kind and claim (`DistinctKeys`) |
| | `FinalCorrect`, `CloseCorrect` | final rows stay; a closed task starts nothing it had not picked |
| | `LedgerImplemented` | the graph implements `WorkLedger` |
| `ExecutionRollupProofs` | `FinalSummaryTrue` | a final summary is true, whatever transactions interleave |
| | `SerialSummaryCurrent` | without overlap the summary is that of the rows |
| `TurnEngineProofs` | `CallsApplyOnce` | a call is applied once, completely, or not at all |
| | `PausesWokenOnce` | two wakes have a pause in between |
| | `LogTellsStatus` | the status is where the last event left it, and the log only grows |
| `DispatchOutboxProofs` | `BudgetKept` | no dispatch is handed out more often than its attempts |
| | `ClaimsKeptFromOthers` | under whatever ids, a claim that is in time is lost to a namesake only |
| | `OwnIdsClaimExclusively` | where no id is used twice, one execution is in charge |
| | `LastClaimReports` | the result bears the name of the last claim |
| `LiveCallMergeProofs` | `RoomsHaveConsent`, `MergingEnds` | no room without the owner's answer; a merging session has a request that executes, and one that executes has a bridge at work or stopped |
| | `NoCallRegresses` | a call that is over, or that somebody joined, is never set back |
| | `QuietCallsAreTrue` | when all callbacks are heard the session is what the call is, *if* the provider was asked for those that answer and end a call |
| `CaptureQueueProofs` | `FactsOnce`, `FactsInOrder` | a fact enters the graph once, after the captures before its own |
| | `SavedIsWritten`, `SavedKept` | what is called saved is in the graph and stays saved |
| | `OneHolder` | at most one worker can still write the row of a capture, although a claim may take a leased job |
| | `NobodyWaitsForEver` | as long as there is a worker, a capture that is not done can go on |
| `MemoryProofs` | `NeverEmptyCorrect` | nobody whose words were captured is told that the memory is empty |
| | `SearchCorrect` | a search misses only what was finished in the middle of it, even if it is put back after |
| | `FailuresExplainedAlways` | an undisturbed call whose scope is not lost fails only if another saved the very memory, or the one it named was not there when it began |
| | `ReferencesAreStored`, `SavedIsWhole` | nothing stored refers to what is not; what a writer is told is saved is there as a whole |
| | `ReadsWhatWasThere` | a list read in pages has all that was there when it was begun |
| | `NamesakesReadAlways` | a new entity is proposed when all its namesakes that were there have been shown |
| | `CorrectionsApplyAlways`, `NoFalseAlarmEver` | what was corrected is not known as current; only an entity may be missed, and not within one page |
| `RealtimeCallProofs` | `GreetsOnce`, `OpeningHeard` | one greeting, disturbed only when its time is up |
| | `MemoryForTrusted` | where callers enroll, memory tools are for the recognized and the confirmed |
| | `AnswersOnce` | what is reported twice is answered once |

Each module also proves that its component's state stays well formed (`TypeOK`;
`Typed` in `RealtimeCallProofs`, which also says what each stream may carry; for the
resolver it is part of `ResolverInv`). No run checks `BudgetKept`,
`OwnIdsClaimExclusively`, `LogTellsStatus`, `OneHolder`, `ReferencesAreStored`,
`SavedIsWhole` and `ReadsWhatWasThere`: they are facts about budget, claims, log and graph
that the others rest on or that follow from the same invariant; and
`NobodyWaitsForEver` is `NothingIsStranded` with the guards written out.

### The execution graph

`BaseInv` is the inductive invariant underneath: `TypeOK`,
`BudgetSpentExactly` and `PickInv`, that a picked step is still waiting and
within its budget. `PickInv` is what makes `Claim` safe: it tests nothing again,
so its guard has to have stayed true since `Pick`; it has, since a sweep by
others only makes a lost step ready. The two other conjuncts need each other
(a swept step is failed or has budget left) and neither is inductive without
the third.

A claim changes many rows at once. Lemma `EveryStepMoves` reduces `Next` to what
it does to one step, field by field (`Move`); the rest is proved from `Move`:

- *order* (`OrderInv`): a started **or picked** step has its prerequisites
  completed and its gates resolved by their owners. `Unlocked` is tested at `Pick`
  and used at `Claim`; `UnlockedStays` says that no step locks it again.
- *log* (`LogInv`): the settling events of a step are those of the attempts
  before the current one, one each, plus the current one's once it is over.
  `AttemptEndsOnce` by itself is not inductive, because it does not say that an
  event for a *future* attempt cannot exist.
- *keys* (`KeyInv`): a key in the log was put there by the claim and the kind of
  answer it encodes. `AckTruthful` needs the hypothesis `DistinctKeys`: a caller
  that uses one key for two attempts is told that the second succeeded.
- *refinement* (`NextRefines`): a sweep is `Lose`, a claim is `HandOut` with the
  same loss, a failure is `Lose` of one step; the rest are their namesakes or
  stutter.

### The roll-up

The run finds that a summary may be outdated; the theorem is why a *final* one is
not. `Truthful` says it of the summary and of every count that is still to be
written, each in the view of its transaction. It is kept because `Unfinished`: a
session changes only steps that are not over, so what one transaction counted as
over no other transaction holds, and no commit takes it back. `Locks` says that two
sessions never hold the same row and that a session that owes trigger calls has a
transaction. For `SerialRollupCurrent` the invariant adds, as long as
`overlapped` is false, that at most one session is in a transaction (`Single`) and
that its last count is that of the rows it will commit, up to steps that became
due since (`Fresh`): nothing tells a trigger that an instant has passed, so a
summary may call waiting what is ready by now.

### The turn engine

The invariant says of the log what `advance_task` never reads: the status is where the
last event left it (`StatusIsLast`) and each wake left it `ready` (`WakesGoReady`).
A wake is only applied in a waiting status, so the event before it is not a wake and
`EachPauseWokenOnce` follows for an appended event; it is not inductive without the
first. A call is applied as a whole since an operation's events are appended in one
step (`AppliedOnceOrNever`), and an effect comes with its event (`NoEffectYet`).

### The outbox

`Good(d)` describes one dispatch and the executions that claimed it; its last part,
`Led`, says who is in charge. The owner on the row is the id of the last claim
(`OwnerClaimedLast`). An execution that still is in time and has not reported has that
claim, and its row is processing or completed, unless an earlier claim was made under the
same id (`LastInCharge`). That is inductive for any ids: a report passes the comparison
of ids only for the id of the last claim, so whoever is put out by it has either reported
itself or bears the name of an earlier execution. A row that can be claimed again has
therefore nobody in charge but namesakes, which is what exclusion needs and does not say.
`OwnIdsClaimExclusively` is the case in which no id is used twice. For the result only
ids can be compared (`LastResult`). `OneMoves` reduces every step to what it does to the
executions of one dispatch.

### Live calls and merges

A request that was ever approved names the call the approval came through
(`RequestLed`); whoever is in a room is so by a request that was executed and approved
(`RoomLed`); a session that is merging names a request that is executing
(`MergingLed`). The three hold for a bridge that crashes at any point, since a crashed
execution leaves its request as it is; that it leaves it so for ever is the finding
`live_call_merge_stranded`, which `MergingEnds` does not exclude. A call that no merge was started for
(`Untouched`) is driven by its own callbacks alone, and `OutgoingLed` and
`IncomingLed` say what was recorded of it from what was heard, in any order.

`QuietCallsAreTrue` has the hypothesis `{"answered", "no-answer", "completed"}
\subseteq Kinds`: the code asks the provider for these callbacks, and without them
a call may end unheard. `CallNeverRegresses` speaks of calls somebody joined: a call
claimed for a merge *before* it was answered is ringing again when that callback comes
late, which the property leaves open.

### The capture queue

The difficulty is a worker that lost its lease and does not know it: it still holds
a plan and may still write. The invariant is about everything that *may* be written
(`Issued`): a receipt that is in the graph, or that some worker's plan lets it write,
is what the row says (`ReceiptLed`). That is so because a worker writes only from a
plan that a checkpoint made durable, and because a prepared unit keeps its payload until
a repair gives it another key. Only one worker holds the last attempt of a capture
(`OneHolder`): not because leases keep others away, since a claim may take a job that is
leased, but because every claim has an attempt of its own, in every job (`JobLed`) as in
the row, and the checkpoints of all but the last are refused. The holder's plan is
ahead of the row's (`Carries`). Order is `Behind`: when a worker has a capture, all
before it are settled in their rows **and** with every worker that still holds them
(`HoldersRest`), so that a late writer has nothing left that it would have to resolve.

That nobody waits for everybody (`NobodyWaitsForEver`) follows from the same invariant. A
worker that has a job has a step to take, since it is at an open unit or past the last.
When all are idle nobody holds a job, so a lease that is left runs out; without leases
the oldest capture that is waiting, which is the only one a claim looks at, can be taken
or becomes due. The theorem needs a worker, and nothing of the number of faults.

### The memory facade

A property of an answer speaks of what was true when
the call began, so the invariants say what a call may rely on at each of its
steps, whatever others have done meanwhile. Lemma `SharedStep` is what all steps
have in common (`Grows`): rows are never taken back, facts stay, and what is stored is
lost by a fault only. It says nothing of the state of a row, which may go from `complete`
back to `pending`. Lemma `CallStep` reduces `Next` to what it does to one call: nothing,
end it, begin it, carry it on, and then the fields say how (`Becomes`), or note that a
passage was finished between its readings (`Marks`).

- `Remembered`: rows that were there when a call began are there still, and a
  row that is complete has its facts in the graph unless there was nothing to keep
  (`Finished`). With it an orientation that finds no row at all knows that none was
  there before.
- `SearchInv`: between its two readings (`Searches`), a search that has not seen a passage
  captured before it began, and does not know that there is more, may still find it in the
  inbox, unless it was finished since the first reading, which the call notes in `moved`
  at that moment. A passage that is put back after is in the inbox again or still noted, so
  that nothing rests on `complete` being final. The property only speaks of answers
  (`Misses`), and says nothing of the reading they rest on.
- `ScopeInv`: what a call has found or created of the tenant and the graph, and the
  memories that were there when it began, are there still, as long as no fault has come
  since it began (`Scoped`); `since <= faults` (`Kind`) is what makes "no fault since" a fact
  about the present. A call that began in a process whose scope was lost is excepted.

### The resolver

A list is read page by page, by position, while writers put records before the
position as well as after it; the identifiers say nothing of age. What the reader can
count on is that records are never taken away, so that the *place* of a record, the
number of records up to it, only grows (`PlaceGrows`). Hence `NodesInv`: a record that
was there when the list was begun either has been listed or lies beyond what was
skipped (`Ahead`). A page takes those that lie on it, and a list ends only when no place
is beyond the page (`PageTakes`). A list may show a record twice; it cannot miss one
that was there. `NodesInv` is inductive only for what was in the graph at the
beginning: a record stored later may slip in behind the position.

- *Links* (`EdgesInv`): the edges are listed after the nodes, so a fact among the nodes
  was there when the edges were begun, and the same argument applies to it. In the other
  order it would not, and `NoFalseAlarm` would fail.
- *Entities* (`PageInv`, `ClosedInv`): bundles are checked before and not while they are
  committed, but nothing is ever removed, so the graph always holds what its records
  refer to (`Closed`). A list of one page is the graph at one instant, so it is closed;
  one of several pages need not be.
- *Corrections* (`CorrectionsInv`): a correction that was there and in force when the
  assertion was taken up is among the nodes of every context read since, and the clock
  does not go back, so `Current` leaves out what it corrects. The facts known are those
  that were shown, and at the first step of an attempt none is.
- *Namesakes* (`NamesInv`): a namesake that was there when its name was searched is among
  the matches, and then a candidate unless something was cut off, in which case the name
  is incomplete for good; `ProposeNew` asks for both. Ranking and limits may be anything.

`ReceiptsInv` is why a lost answer does no harm: the identifiers of receipts are those of
no record, so a receipt is in the graph only as part of its bundle.

`MemoryProofs` extends both `MemoryFacade` and `GraphResolver`, whose specification is
therefore called `ResolverSpec`; neither part uses the other.

### The voice call

Service and session meet in the two streams only. So a step is told by what it adds to
a stream: `Says(evs)` is the most the service may tell the session in one step,
`Does(evs)` the most the session may do and report; each handler is shown to be one
of them (`ServiceSays`, `SessionDoes`), and two lemmas show that they keep the
invariant (`SaysKeeps`, `DoesKeeps`). The invariant speaks of what is *on its way* as
much as of what has arrived:

- `Greeting`: a greeting is in the stream at most once, not after one was begun, and
  only where the opening is guarded. "At most one greeting" alone does not exclude
  a second one on its way.
- `Opening`: turn detection is off, and no order to listen is on its way, until the
  opening was released; and it was released for the end of the greeting only if nothing
  is being played. A report that the greeting has ended, while it waits in the stream,
  already implies that (`Stops`, `Breaks`).
- `Granted`: an update that hands out the memory is trusted while it is on its way, and
  trust is never withdrawn.
- `Answers`: what has been answered, or is about to be, the service remembers
  (`Spoken`), and what waits for the end of a response is neither.

### Assumptions, and what is not proved

The assumptions are on constants, and TLC evaluates them in the runs:
`PrereqsAssumption`, `GatesAssumption`, `BudgetAssumption`, `HandlesAssumption`,
`DecisionAssumption` and `KeyAssumption` of `ExecutionGraph` (what the tables' foreign
keys and CHECK constraints guarantee; acyclicity is *not* assumed: a plan with a cycle
is merely never finished); `RollupAssumption` (the same of steps and gates, of which
there are finitely many, as there are sessions); `OperationAssumption` (a call asks for
one operation) of `TurnEngine`; `BudgetAssumption` (an attempt at least) and
`IdAssumption` (the id of an execution is one of the ids) of `DispatchOutbox`;
`CallsAssumption` and `RoomAssumption` of the live calls (a call is made or received;
each merge has its room); `CaptureAssumption` (a capture has finitely many units,
attempts and faults are numbers); `FacadeAssumption` (the modes are the two there are; a search returns one result at
least; the bounds are numbers);
`GraphAssumption` of `GraphMemory` (entities, facts and receipts have identifiers of their
own, as they have namespaces of their own in the code; a bundle is finite, and a page has
room for a record);
`RealtimeAssumption` (a deployment is a record of its settings; a tool is the service's or
the provider's); and `NoneAssumption` of two modules (`None`, for NULL, is none of the
values).

Only model-checked:

- the liveness properties `UnlockedIsSettled`, `EveryIntentSettles`, `ListeningRestored`
  and `ResultsSpoken`: the prover has no rules for fairness;
- the refutations of section 5, which are single behaviours;
- `NothingIsStranded` as it stands, which says what is possible (`ENABLED`, for which the
  prover has no rules); `NobodyWaitsForEver` says it of the guards of the actions, which
  are repeated in `CaptureQueueProofs` (`CanWork`, `CanPass`).

## 7. What is not modelled

- Fields that decide nothing: titles, payloads, outputs, actors' names, the
  rendering of responses; the checks endpoints make of the form of arguments.
- Statuses and tables that exist in the schema and that no function writes
  (approvals, delegations, exceptions, `skipped`, `blocked`, `cancelled` steps).
- In the live calls, the status `held`, which nothing writes, the leg of the
  assistant in the conference, and `get_live_call_context`, which only reads. A
  stream that ends because its call was redirected leaves the session `ended` while
  the caller is in the room: the model has it, and no property is about it.
- In the capture queue, a graph transaction that commits long after it timed out, and
  `validation_failure` for a graph that is not provisioned.
- In the facade with an inbox, `memory_get` and `memory_capture_status`, which read one
  record and answer what it says.
- In the memory modules, ranking, the languages of names, schemas of arguments, and what
  the models behind extraction, resolution and review think: they may say anything the
  code accepts.
- In the voice service, the telephone markup, the health endpoint, the content of
  prompts, and audio. Its sideband reconnects nowhere, so neither does the model.
- The audio relay of the voice bridge (two sockets per call, the speaker evidence it
  keeps and the tools it answers); of the bridge the merges are modelled.
- The order of row locks inside one sweep: a deadlock is broken by the database
  and the claim repeated.
- The components marked `not_modelled` in `PROJECT.json`, each with its reason.
  The next section says which are planned.

## 8. Plan

Done: `WorkLedger`, `ExecutionGraph`, `ExecutionRollup`, `TurnEngine`,
`DispatchOutbox`, `LiveCalls`, `LiveCallMerge`, `CaptureQueue`, `MemoryFacade`,
`RealtimeCall`, `GraphMemory` and `GraphResolver`, each with its proofs.

Next modules, most important behaviour first:

1. `TaskCreation`: racing requests with one call id, for tasks and for plans,
   statement by statement as in `ExecutionRollup`.
2. `ToolRuns` over `ExecutionGraph`: begin, store and read of a protected result
   under a step's claim.
3. `TrustEngine` and `Onboarding`: replayed decisions after a revocation,
   attempts and expiry of an invite.
4. `PlanGraph`: the cycle trigger under concurrent inserts, against a reference
   definition of acyclicity.
5. `VoiceBridge`: the two media streams of a call, what is in flight when one of
   them stops, and the speaker evidence kept for a session.
6. The composition of `TurnEngine` with `DispatchOutbox` and a provider, with
   the question an answer is for as part of the state.
