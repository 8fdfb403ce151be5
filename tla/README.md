# Verification of madmcp

TLA+ models of [allocsys/madmcp](https://github.com/allocsys/madmcp), the
configurations that model-check them with TLC, and theorems about them that the
TLA+ proof system TLAPS checks. Paths are relative to the repository root as
`src/...`; `PROJECT.json` maps every definition to the lines it translates.

madmcp is an MCP server that runs on serverless instances (Vercel), on a
long-running host (Render), or both. Many of its tools forward one call to one
external API. The parts with a life of their own are modelled here: LLM agents whose runs
outlive the request that started them, jobs that wait for a phone, repository
scans, and the stores that several callers read, change and write back with no
transaction between the requests.

## 1. The system

### Components, state, operations

Paths in the first column are under `src/connectors/` unless they begin with `worker/`.

| Component | State | Operations | Modules |
|---|---|---|---|
| Agent delegate, background chain: `delegate/agent/agent_worker.js`, `agent_tools.js`, `agent_checkpoint.js`, `qstash_client.js` | one checkpoint record per run in Redis, QStash messages | start, one step per worker call, failure callback, poll, push | `AgentChain` |
| Agent delegate, investigation loop: `agent_delegate.js` | conversation (a Redis list), counters in the record, loop state of one call | turns of tool calls, drafts, checks, corrections, final step, resume | `AgentLoop` |
| Agent delegate, compaction, result cache, evidence | texts in the conversation, an uncut copy per cut result, cached results, in memory and in Redis | cut, serve a repeat, check a draft's quotations, resume | `HistoryCompaction` |
| Editor delegate: `delegate/editor/*`, `github/editor_tool_functions.js` | one record with the whole run, a branch | the same chain with steps that commit | `EditorChain` |
| Designer delegate: `delegate/designer/*`, `frontend/designer_tool_functions.js` | one record, a branch, a cache of reads | a loop of steps with parallel calls | `DesignerLoop` |
| Provider clients: `gemini`, `glm`, `groq`, `bai`, `exa`, `shared/cooldown.js`, `worker/src/embed/gemini.js` | cooldown records per key and model | walk over models, keys and passes | `KeyCascade` |
| Lock and throttle: `shared/lock.js`, `shared/rate-limit.js`, and the clients that use them | promise chains | queue, wait, repeat | `RequestQueue`, `EntityIndex` |
| Notion pages and index: `notion/tools.js`, `client.js` | pages with an entity marker, index rows, marked ranges, embeddings | create, update, archive, restore, retag, sync a range | `EntityIndex`, `MarkerRange`, `PageUpdate` |
| Checkpoint notes and commit log: `notion/tools.js`, `commit_log.js` | keys, parked keys, notes; log entries | save, park, restore, append, edit; record, trim, clear | `CheckpointNotes`, `CommitLog` |
| Memory tools: `mem/*` | memories in Mem0, which stores them late | add in batches, update, delete, walk relations | `MemoryStore`, `RelationWalk` |
| Memory to Notion sync: `sync/mem0_notion.js` | both stores | list, create and update pages, archive | `MemorySync` |
| Repository map worker: `worker/src/*` | Postgres: jobs, repos, files, symbols, edges, chunks | enqueue, claim, scan in two passes, heal, count; graph queries | `ScanJobs`, `CalleeLookup`, `GraphQuery` |
| Repository map connector: `repomap/*` | none of its own | compare, start a scan, follow it, query, report | `MapTool` |
| GitHub files: `github/files.js`, `client.js`, `helpers.js` | a branch | create, edit, delete, rename, several files in one commit; pages, windows, diffs | `BranchWrites`, `TextViews` |
| Termux: `termux/*`, `src/scripts/termux-agent.mjs` | list of job ids and a record per job in Redis, the agent's job | submit, claim, complete; poll, ask, run, post | `TermuxQueue` |
| Preamble and hooks, OpenAI-shape adapter, Cloudflare, fetch, Jules, Context7, TypeSafe, frontend, HTTP server | none that lives past a call | conversions and single requests | not modelled |

### How they interact

`delegate_agent` with `async` seeds a checkpoint and publishes a QStash message. QStash
POSTs it to the worker, which reads the checkpoint, stamps "step in flight",
calls `runInvestigation` for one step, reads the checkpoint again and publishes
the next message, or records the run as failed. A message that never gets an
answer comes back to the failure endpoint. Meanwhile callers poll, and with
`max_steps` they drive steps themselves when the record looks stale. Nothing is
locked: the `afterStep` in the message, compared with the record, is all that orders
two workers. Inside a step the loop asks the cascade for a turn, executes tool
calls through the connectors, and saves. The editor has the same chain, and its steps
commit to a branch that others use too.

The map tool compares the branch's head with the repository's row, enqueues a job with the scan
worker, follows it for a while and then answers a query from an index that a scan
may be rewriting. The worker embeds what it scans and, on request, Notion pages after an edit. The sync reads Mem0
and writes pages through the entity index and the marked ranges. Every GitHub write is recorded in the commit
log on the page that also holds the latest checkpoint. All Notion, GitHub and
Mem0 requests of a process go through a promise chain that spaces them.

`termux_exec`/`termux_api` write a job record, push its id and re-arm the list's
expiry as three Redis commands. The phone polls, which pops an id, reads the
record and marks it running; it asks its owner, runs the command, and posts the
result with up to three attempts.

### What is hard, and what correctness means

* **Runs.** Deliveries are repeated, lost, or outlive their caller; processes die
  between any two calls; Redis reads that fail look like a missing record and writes that fail are
  silent; polls race workers. Correct: one turn at a time, a bounded number of
  repeats, a running record that something will move, one outcome.
* **What a run says.** The record and the conversation are two keys, written separately; results
  are cut and cached; calls of one step run side by side. Correct: the conversation stays one a
  provider accepts, an answer is checked against what was really read, a cached
  read is not older than the run's own write, the files a run reports are
  those it wrote.
* **Stores without transactions.** Notion, Mem0 and GitHub are read, then changed, one
  request at a time, while others do the same. Correct: one live page per entity, no failure
  leaves a range without a text, a report names what was done, a page is archived only
  if its memory is gone, a commit leaves alone what its call did not name.
* **Scans.** Two passes of many statements, calls resolved across files that change in between. Correct: a
  file whose hash is stored is indexed whole, an edge points to the symbol it
  would resolve to now, every job ends.
* **Queues.** Correct: no command or request twice where that is not safe, none stuck behind a failed one,
  limits kept.

`PROJECT.json` lists the hazards at the lines where they bite, with the
properties that watch them.

## 2. Modules

Each component module has its state as variables, one action per request, handler or
step, a type invariant and its properties. Modules whose components share no
state are checked together: `MCDelegates`, `MCNotion`, `MCConnectors` and
`MCServices` extend several of them, and the variable `moving` picks at the start the one
component whose actions a behaviour takes, while the others stay in their one
initial state. Such a run is the sum of the components' state spaces, not
their product. `MCAgentChain` supplies instances of `AgentChain`.

### Delegates

**`RunLifecycle`** is what a caller is promised of a run: it is created with no step
taken, takes its steps one at a time, ends once, and afterwards only expires.
`AgentChain` and `AgentLoop` implement it (`RefinesLifecycle`).

**`AgentChain`.** `cp` is the meta record; `idle` the ticks since `lastStepAt`;
`queue` what QStash holds; each process has a `pc` label naming the call it makes next,
`call` (the request it serves), `snap` (the checkpoint it read last: the source of
every stale write) and `turn` (the bounds `runInvestigation` computed). The labels
follow the code: `earlyload`/`earlysave` are the retry-limit check before any
work, `load` the idempotency check, `heartbeat` the write of `stepStartedAt`,
`resume` the second read, inside `runInvestigation`, `turn` the provider call and all
that hangs on it up to the save, `reload` the third read, `giveup` or `publish` what
follows. `Save` and `Load` are the fail-open wrappers of `agent_checkpoint.js`: a
failed read yields the empty record, a failed write does nothing. Hazards are
named in `Hazards` and each strikes at most `Budget[h]` times. `attempts` is a history variable.

**`AgentLoop`.** One call of `runInvestigation` after another, caller-driven for several
steps or worker-driven for one. The conversation is a sequence of turn kinds. The
evidence checks are free verdicts here. `Save` writes the list and the record
independently. An instance is a set of modes: callers with Redis faults, and workers with steps that throw.

**`HistoryCompaction`.** What the loop remembers. A text is what it shows and the
version of the repository it was read at. The model holds the response turns, the map
of uncut results, the result cache, and the copy of each in Redis; steps call
tools, append, compact and save as the code orders these. Compaction is what
the BAI path does, and a result is longer than the 500 characters that stay. A draft's check
(`findUnverifiedClaims`, `lineIsVerbatim...`) is what the quoted texts are compared with (`ToolTexts`, `Verbatim`).

**`EditorChain`.** The blob with its log of writes, the chain of messages and its failure callback,
turns whose `write_file` calls run at once, and the branch with its commits as a
history. A call with the run's id (`Push`) reads the checkpoint itself before the loop reads it again: it only reports a failed
run and a fresh one, and works on a stalled one if it names its steps; when its read fails it works on whatever the loop then finds.
`unseen` collects the commits that are missing from the record for one of three causes: the process that knew them died (`Kill`),
the save that named them was dropped (`SaveRecord`), or GitHub's answer to the commit was lost (`WritePuts`). A save that
goes through adds nothing to it, so a save that forgot the list would be noticed. GitHub, QStash and the other writers of the
branch are external. The module allows any number of processes; the run checks one, section 4 says what holds for more.

**`DesignerLoop`.** A file is its version, which is also its sha. The calls of a step end in any
order; the cache of reads and validations belongs to the process, the record to the run. `own` counts the run's commits, those
GitHub's answer was lost for as well, and `overtaken` the files with a read cached before such a commit.

### Services

**`KeyCascade`.** One machine with a policy per client (`Clients`): what a status makes
it do (next key, next model, another pass, give up), and what it records as
cooling. Another process's effect is what it records; the day-long and the short
cooldowns both end by `Expire`.

**`RequestQueue`.** The promise chain of one process and one service: join, wait for the gap,
send, and be answered, refused or lost. `Service` distinguishes what each client repeats.

**`ScanJobs`.** A worker's step is one SQL statement, clone or embedding call. Row, symbol and chunk
ids are replaced by the job that wrote them; a content is its own hash. What parsing yields
for a content is a constant; **`CalleeLookup`** decides which symbol a call means.
`replaceFileArtifacts` is not called by anything and left out; scans always
carry a clone token (`Private`).

**`MapTool`.** One session's call from the comparison through the gate, the scan and the polls to the answer, against
an abstract scanner: its job row, the repository's row, and an index that is torn while a scan rewrites it.
**`GraphQuery`**: the recursive SQL of `who calls` / `what it calls`
over a fixed map; importers and the other edge kinds follow the same rounds.

**`TermuxQueue`.** `submit` is where each call is in `enqueueJob`; a handler in `Handlers`
serves one request of a phone through the commands of `claimJob` or
`completeJob`, and goes on when the phone has given up on it (`held`). `phone` is the
agent's loop. A claim answers as part of its last Redis command, which loses
nothing: a reply that does not arrive is `GivesUpWaiting`. Time is in ticks. One
may fall between the commands of a submission, never inside a phone's request: the
phone waits 20 seconds for a request and a serverless call ends within 60,
against records that live 600.

### Stores

**`EntityIndex`.** Callers in processes that share the per-entity lock; one action per Notion
request of create, archive, restore and retag, with the re-checks before the
page and the row and the reconciliation after. Editing an archived row or page is an error; a query
with page size 1 returns any matching row.

**`RangeContent`** says that a range that once held the text of some save always holds
one in full; **`MarkerRange`** is `replaceMarkerRange` with its insert, batches,
deletes and timestamp. Its `KeepsAText` states the promise directly, by instantiating `RangeContent`.

**`CheckpointNotes`.** Keys, index rows and ranges as sets of notes, with save,
append, edit, park, restore and retire, one session at a time. **`CommitLog`.**
Entries between two markers, numbered in the order of their insertion; the log is the set of those on the page. They are
recorded by a queue per process and trimmed from a fresh read.

**`PageUpdate`.** The parts of one `notion_update` in the order the code makes them, and the page's
embedding with the reads and requests between. `era` counts replacements of the whole body, which
give the blocks new ids; `together`, `blind` and `masked` remember what the properties except.

**`MemoryStore`.** Listing by page, search, post, and Mem0 carrying the post out late or
never; read-merge-write updates; deletes. **`RelationWalk`**: the walk over a fixed set of memories, compared with
reachability. **`MemorySync`**: a sync run item by item, with the memories changing between requests. The index of the
memories' pages is read whole; the code stops after ten pages of a hundred rows (`notion/client.js:377-411`), which a store of more
than a thousand memories would meet.

**`BranchWrites`.** A file's text is a sequence of words; an object read by its sha never
changes, so a call reads the branch in one step. GitHub refuses a contents PUT whose sha is not the file's and a
ref update that is not fast-forward; commits from outside are fast-forward. A rename looks for its file in the whole tree; GitHub
may truncate the recursive tree of a large repository (`files.js:409-417`), and a rename then misses a file that is there, at the old path or at the new one. `HistoryOf` is the least set that
has a commit and its members' parents. **`TextViews`.** Pages by offset, windows by line,
and line diffs over every text up to a length, with the thresholds scaled down.

## 3. Runs

`PROJECT.json` names each run's properties; a comment above each property says
which behaviour of the code it is about. The numbers are distinct states.

### Runs that pass

| Run | Question | States |
|---|---|---|
| `chain_serial` | If QStash hands over each message once, is the chain sequential, and a run as `RunLifecycle` describes it? Kills, failed reads and writes, a failed publish and a write outage strike. | 153k |
| `chain_delivery` | Does a running record always have something that drives it (`ChainMoves`) when a message is delivered twice, a response is given up on and the record expires? | 311k |
| `chain_settles` | Does a started run reach an outcome and keep it when responses and connections are lost, and do messages and workers stop repeating a failing step? | 220k |
| `chain_push` | Does a broken chain (kill, failed publish) recover if callers push it, and do pushes leave a step in flight alone? | 586k |
| `delegates` | The three delegates and the agent's memory of its calls, under interrupted and resumed calls, dead workers, failed reads, writes and publishes, lost answers, and other writers on the branch. | 1.44M |
| `notion` | The entity index, a marked range, the checkpoint notes, the commit log and the updates of a page, each with failed requests and overlapping callers, the index with crashes. | 1.16M |
| `connectors` | The memory tools, the sync, the walk, the map tool, the graph query, writes to a branch, and the pages and diffs of texts. | 1.73M |
| `services` | The scan worker with edits and removals between scans, failing statements and dying processes; every client's cascade; the pacing of requests. | 177k |
| `termux_queue` | Overlapping submissions, abandoned requests, retried posts, agent restarts, expiring keys. | 981k |

What the properties promise, component by component:

* **Chain.** `OneTurnAtATime`; `ChainMoves`: a running record has a message or a process to
  move it and is not past its last step; `RetriesBounded`; `Settles`; `PushesRecover`; `PollSparesWorker`; `RefinesLifecycle`.
* **Loop.** `ConversationSound`: the conversation is one a provider accepts, and the list and
  the record agree up to the commands that failed. `AnswersEarned`: a run at its ceiling yields the
  model's word, a caller's run returns a draft only after its check, and the check is asked for once.
* **Memory of calls.** `EvidenceSound`: what a run was shown stays evidence when it is cut or the
  run resumed, repeats agree with what was shown, and an answer is not served another call's text.
* **Editor.** `EditorReportTrue`: each commit of the run is in its report but for those that a death, a dropped save or a lost
  answer hid, and the report claims none that nothing backs. `EditorBounded`: caps are passed by at most the parallel calls of one turn, and
  a failing step is tried a bounded number of times. `EditorStepsSound`: the
  record only moves forward and an outcome stays, but for a call that could not read it (see the limits below), and a write never
  covers a version the caller did not name.
* **Designer.** `CacheKeepsUp`: no cached read is behind the run's own commits, answered or not, unless it was cached before a
  commit whose answer was lost. `DesignKept`: the writes the run was told of are in its record and answers, and a failed call
  says the step the record is at; the work of a step that is killed and a write whose answer is lost are no part of it.
* **Index, range, notes, log, page.** `IndexSound`: several live pages of an entity are accounted for by a
  fault or by work in progress, and what a create answered for stays findable. `RangeSound`: a
  range implements `RangeContent`, a save that is skipped finds its text, people's notes stay. `SavedTextReadable`: a saved
  text is read back from its key or its parked key. `LogKept`: bounded, and the newest entries are kept. `UpdateSound`: a failed
  update names what it did, marker lines survive, a current embedding is of the current text.
* **Memories and sync.** `MemoriesKept`: one memory per entity in a batch, and an update loses no
  field it did not name. `SyncConverges`: a clean run leaves both stores
  equal, and a second one writes nothing. `OnlyOrphansArchived`: a run alone archives only pages whose memory is gone.
* **Answers.** `AnswersExact`: the walk, the graph query, the pages and the diffs are what they are of,
  and an answer without a warning was read from a whole index of the right branch. `BranchSound`:
  a commit changes what its call named, on the branch as it was, and an answer names a commit that stays in the branch's history.
* **Scans.** `IndexHealed`: a file whose hash is stored is indexed whole, a finished job mirrors
  its clone but for what it lists, and edges point where their calls resolve now. `JobsSettle`: each job ends.
* **Requests.** `CallsSound`: a cascade that fails has tried, or found cooling, every pair, and
  marks an answer of a fallback model; requests go out singly, are applied once where the client promises it, and a failed one holds nobody up. `StartsAreSpaced`.
* **Phone.** `AtMostOnce`; `ResultStays`; `JobsFound`: a queued job's id is where a claim finds it, and a record
  outlives the work on it; `Served`.

### Runs that find a disagreement

Each checks one statement a comment of the code makes and ends with a counterexample.

| Run | What TLC shows |
|---|---|
| `chain_push_race` | No fault at all: a message that waits in QStash longer than the freshness window makes a live chain look dead; a push takes the step that the delivered worker takes too (`OneTurnAtATime`). `agent_tools.js:157-159` says a poll can never race the worker. |
| `designer_reread` | After a write conflict the model is told to re-read the file, and the re-read is served from the cache: the version the conflict was about (`RereadSeesBranch`). `designer_tool_functions.js:150`. |
| `sync_overlap` | A memory stored after a sync has listed, and given a page by another sync, is archived by the first (`NoStoredArchived`). `mem0_notion.js:249-253` says the list makes this safe. |

### Other limits of the code

The models show the following with other constants, or the reading of the code did;
the passing runs stay clear of them, by the exceptions their comments name.

*Chain and loop.*

* `ChainMoves` fails if a process dies after its step is saved and before the publish
  (`QSTASH_STEP_RETRIES` is 0 and the failure callback no longer matches the
  record), and after one failed read at a worker's start, which is taken for a missing
  record. Pushing callers are the remedy (`PushesRecover`).
* Repeats are not bounded while Redis writes are dropped: each worker sees its
  own step succeed and resets the counter.
* `Settles` fails with one duplicated delivery: the slower worker's heartbeat writes its
  copy over the finished record (`agent_worker.js:210` against its comment at 190-193), and two chains
  keep overwriting each other.
* One failed read turns a status poll into a caller that drives turns (`agent_tools.js:121`).
* Driven by workers, no draft is checked: `step < cappedSteps` is false in each
  single-step call (`agent_delegate.js:1935` against 1917-1920).
* The mark of the correction round is missing from the next save with tool calls, so that a
  resumed run is corrected again (2502 against 1613-1619); a run that
  ended without a usable answer is reported as a success to whoever reads its stored outcome (1648 against 2123-2131).
* A step whose handling throws leaves a turn of calls without results.
* Verification and correction turns advance the step without a turn of results, so fewer
  than `fullDetailSteps` turns may stay uncut (comment at 194-197). Errors of a moment are cached with the
  results; repeats within one step both run. If the record is not written after a push to
  the list, the list is a turn ahead; a push that is lost is not repeated.

*Editor.*

* Under workers its verification round never takes place either, and one failed read strands the run.
* A failed run is not refused for good. `editor_tools.js:69` says it cannot be resumed and 135-138 that its outcome is returned
  instead, but a read that fails there is taken for a missing record: `runEditorAgent`, reading again, refuses only a finished or
  a missing run (`editor_delegate.js:449-487`), goes on from the last step, and its next save names no status, which makes it
  "running" (`editor_checkpoint.js:79`). Without `Revived` in `RecordMovesForward` TLC shows it with one process and one bad read.
  In the same way a call that cannot read the record of a fresh run works beside its worker.
* A push leaves the chain's message stale, so the run goes on only as long as it is pushed.
* Where a push and a worker are at one run, the later save of the whole blob takes back what the other recorded: a step, a file
  in `writtenFiles`, even the outcome.
* The caps on files and writes are read before the calls of a turn run together, which may pass them.
* Writes without an effect count as writes.

*Designer.*

* A failed `write_file` is said to have "changed nothing on the branch" (`designer_delegate.js:420`). One whose answer was lost has,
  and the cached read of its file stays: the model is served the old text until a later write of the file is answered.
  Without `overtaken` in `CacheKeepsUp` TLC shows it.

*Notion.*

* If the page cannot be read, `replace_content` writes the new body without the entity, status and relation
  lines, and its result says they were preserved (`tools.js:678-681`).
* Relations are deleted before the new ones are added; a failure between is not in the error's list (620-622).
* An edit between an embedding's read and its upsert is not noticed by searches until the next edit; a
  page whose text is unchanged is embedded again at each search.
* A notes range torn by a failed save swallows what a person wrote below it (1636); `doCheckpoint` ignores
  a failed index write when it blanks the old page (1060 against 1011); an index row can take over another
  entity's page (457-459). None of these has a run.

*Others.*

* Two worker replicas may scan one repository at once, and a file can be left half indexed under its hash.
* Two updates of one memory that overlap lose one of them; Mem0's client repeats requests that may have been carried out.
* The map tool reports a failed job as still in progress, and `default_ref` follows the last request.
* Exa does not record the rate limit of its last key; a Gemini call that finds every key cooling
  fails without a status (`gemini/client.js:139-140` against 134-138).
* The agent's `read_file` says pages have at most 100000 characters (`agent_delegate.js:454`, 895), and allows 200000 (355).

### Bounds, and why they are enough

No run has a state constraint. Every bound is a constant or a budget that
guards an action, so a run ends where the budgets do, and the sums say `CHECK_DEADLOCK FALSE` for that
reason. `chain_*` and `termux_queue` check for deadlock.

*Chain.* Two processes are what every race here takes; message ids are reused when
free. Runs of two or three steps have a first, an ordinary and a final step;
`HardMaxSteps` 3 lets a limit equal the cap; `MaxFailures` 2 separates a first failure
from the last. Each hazard strikes once or twice. `FreshTicks` and `DeadTicks` are as small as keeps their order;
`MaxLife` 0 makes a process shorter than the freshness window, 1 lets it outlast it. The clock saturates
at `DeadTicks + 1`, beyond which no guard distinguishes values.

*Delegates.* Five steps are the fewest that hold a check, a correction, tool steps before and after,
and a final step; limits of 2, 4 and 5 make a resumed run larger or smaller than it was. Three calls resume twice; two faults reach a
list and a record that each missed a write. Three steps of one or two calls over two pages and an alias cut, repeat and
restore a result. The editor's three files and turns of two calls exceed a cap of one file;
two writes of a file and one stuck step reach the other caps. Later calls of the editor leave `max_steps` out (0, for which the default of
two steps stands) or name three; they come before, between and after the worker's steps. One process serves
it: processes that overlap at a record are what the chain's runs are about. The designer has one file,
two calls a step, five steps (enough for three repeats, the stop and an answer), and each trouble in a behaviour of its own.

*Notion.* Three callers, two of which share a process, contend for one entity; an instance with two
entities (5.1M states) passed too. A range of two lines and batches of one makes a
save of several requests; three saves overlap and retry. Notes: four texts and three operations. Log: a cap of two and five commits.

*Connectors.* Two syncs, four memories on pages of one, three pages listed: the cap cuts the list. The
walk and the graph query range over every relation among four and three nodes. Two branches, two scans, one push
and one mishap make an index stale, torn or of the wrong branch. Two calls on two paths with one other commit meet in each order. Texts of up
to four characters cross every threshold, which are scaled down in proportion.

*Services.* One replica, as the worker is deployed; two jobs over three commits in which a file is
edited or removed; one trouble per behaviour; windows of two files split the second pass. Two models
and two keys have a first and a last of each. Two requests and three services, one retry, a gap of two ticks.

*Phone.* Three jobs and two callers exceed a limit of one together and then queue
behind each other; `MaxSkips` 1 makes one dead id exhaust a poll; two posts make one retry; two
handlers let an abandoned request overlap with the next. That a second
agent starts no command twice is proved (`OnceCorrect`).

Symmetry is used only where no liveness is checked.

### Fairness

`AgentChain`: weak fairness of every process's own handler (a started process runs on
until it returns or is killed), of deliveries, of the publish that follows a
seed, and of the clock. Hazards and callers have none. `PushedSpec` adds weak
fairness of `PollCall`, a caller that keeps asking, which is what the tool's
answers tell it to do; `PushesRecover` also assumes that the provider stops failing at some time.

`ScanJobs`: weak fairness of each worker's own step: its loop runs until the queue is empty, and a
restarted process starts it again. Requests, pushes and troubles have none.

`TermuxQueue`: weak fairness of each handler and of each agent's own loop, which
polls without end. Nothing is assumed of callers or of time.

The other modules state safety and step properties only.

## 4. Proofs

All theorems hold for every value of the constants the modules' assumptions allow, unless it says
otherwise. Type correctness is never inductive alone, and hardly any other property is; each proof has a
strengthening, which TLC checked on the run's instance before it was proved. Each module's theorems stand
in a module of its own that extends it; `Commits_proofs` is about `CommitLog` and `BranchWrites`,
`Services_proofs` about `RequestQueue`, `KeyCascade` and the sum `MCServices`.

**`AgentChain_proofs`.** `TypeCorrect`: a failing turn records `step - 1`, so the count stays a
natural number only because a process in a turn has `step >= 1`, and a process at a
worker's label reads its message only because it serves one; `TypeInv` adds both
(`RoleOK`). `RetryCorrect`: `RetryInv` carries the bound through the messages that
processes hold, and through `publish`, which is reached only when the new
counter is below the limit. The others hold under a condition on what may happen, which is needed:

* `SerialTurns`, under `Serial` (no pushing callers, no duplicate, disconnected or lost response):
  `OneTurnAtATime`. `TokenInv`: the chain has one token, which is either the one message in the queue or the
  one process at work. Kills, failing reads, writes and publishes, and expiry are allowed.
  `chain_push_race` shows that the first condition is needed.
* `SerialRefines`, under `Serial` and if the record does not expire: each step of the chain is a
  step of `RunLifecycle` or a stutter. The invariant says that what the process with the token has read is still what
  the record holds. A record that expires while a process works is written back as finished.
* `AnswerAhead`: a running record has not passed its last step, if callers ask for no more
  than the default (`WithinDefault`) or the chain is serial. The invariant (`RoomInv`) says so of every
  copy a process holds.
* `ChainGoesOn`: `ChainMoves`, under `Undisturbed` (no kill, failed read, write or publish, no pushes) and
  `WithinDefault`; duplicates, disconnects, lost responses and expiry are allowed. `DriveInv`: a message or a process
  drives the run; a process that overwrites the record of another leaves itself as its driver.
* `AttemptsCorrect`: `RetriesBounded`, under `Dependable`: serial, no expiry, no dropped writes, and
  `QSTASH_STEP_RETRIES` 0, its default. Providers, reads and publishes may fail and processes die. With retries by QStash as well, a
  killed turn is repeated with the counter unraised, and with dropped writes each worker starts to count afresh.
* `PollsSpareWorkers`: `PollSparesWorker`, if the store does not fail and no process outlives
  `DeadTicks`. `BeatInv`: the time since the last write is at most the age of the process in the step.

**`TermuxQueue_proofs`**, for any number of jobs, agents, handlers and callers. `TypeCorrect`.
`DepthCorrect`: a submission that passed the length check counts like an id in the
list, and it passes only while fewer than `Callers` are at work; the proof is about
cardinalities. `OnceCorrect`: `OnceInv` says where the id of a job that has not been
started is: with its submission, then once in the list, then with one claim, then
with one agent. Each of the four steps between the places has a lemma; all other steps follow from one (`OnceKept`).
`ResultsStay`: whoever posts a job's outcome posts the one that is recorded (`WorkInv`), and a claim
that has yet to mark its job has it to itself. `AllFound`, that is `JobsFound`: the list lives as long as the records of the
jobs in it whose callers were told they wait (`ReachInv`), and a record in use is younger than its
life (`AgeInv`). The hypothesis `ApprovalWait < JobTTL`, 120 against 600 seconds in the code, is what the second part rests on.

**`Services_proofs`**, for any number of requests, interval and retries. The inductive
invariant (`ChainIsQueue`, `FirstHasTurn`, `WaitsForGap`, `NotYetApplied`) says that the promise chain is the
queue of the waiting, that only its first has a turn, and that a request
not yet over has not been applied where its client never repeats. `QueueCorrect`
and `QueueSpaced` follow. `ServicesImplement` shows that the sum of the services implements the specification of
each, so that `CallsAreSound`, `IndexIsHealed` and `ServicesAreTyped`, about the run `services`, follow
from the theorems about the parts.

The same module proves of `KeyCascade`, for every client's policy, any numbers of models and keys, and any number of concurrent
calls: `CascadeInv`: a call has met each pair before its position, or may pass over it
(a key or model that failed as a whole, a pair another call recorded as cooling), and every pair once it starts a second pass.
`WalkIsHonest` and `CascadeTyped` follow; most of the proof is the arithmetic of positions and pairs.

**`ScanJobs_proofs`**, for one worker (`Solo`), any finite set of paths, any texts, history,
concurrency and window size, and whatever fails. `ScanInv` follows each file through
the stages of the two passes: what its row, symbols, edges and chunks are at each
(`Staged`, `FileSound`), that the database of a job that ends mirrors its clone (`Mirrored`), and what the counters have
counted (`Counted`). `IndexIsTrue` follows. With two replicas the statement is false. `EdgesAreHealed`: `HealInv` adds
that the indexes against which names are resolved are still the rows and symbols when the edges are
healed, and that a job which found nothing to do leaves the edges as the last one left them. `ScanTyped`.

**`DesignerLoop_proofs`**, for any number of files, steps and calls. `DesignIsKept` and
`CacheIsFresh` (of every commit, whether its answer came back or not) rest on what each answer, cached read and record is backed by (`AnswersBacked`, `CacheBacked`,
`IsBacked`); that a path written has a newest write is by well-founded induction over the commits. The one assumption,
`NoneIsNoRun`, is that the value standing for "no record" is not a record.

**`EditorChain_proofs`**, for any numbers of files, calls, steps, tries and faults.

* Whoever pushes and however many processes are at the run: `EditorTyped`; `ClaimsAreBacked` (`NoUnbackedClaim` and
  `OvershootBounded`), by the files that the calls in flight may still add (`Prospect`); and
  `BaseIsHonoured` (`BaseShaHonoured`), because a call on its way to its PUT carries the sha its caller named.
* If no call works beside a worker (`Alone`: nobody calls with the run's id, or one process serves the run), with reads that may fail in
  the call as in the loop: `ReportIsTrue`, `EditorIsBounded`
  and `StepsAreSound`, that is `EditorReportTrue`, `EditorBounded` and `EditorStepsSound` whole. `SerialInv`: one message or one worker
  carries the run (`ChainIsOne`), what it holds is never behind the record (`Knows`), and the tries so far fit in what
  its message and the dropped saves account for (`Tries`).
* The condition is needed. With two processes and a pushing caller TLC finds `CommitsReported` and `RecordMovesForward`
  violated: the heartbeat, and any save, writes the whole blob (`editor_worker.js`), and of two processes the later one
  takes back what the other has recorded. The run `delegates` gives the editor one process.

**`Commits_proofs`.** `LogStaysKept`, for any numbers of processes, commits, saves and clears, any cap, and whatever fails.
`NewestKept` needs that what a trim or a clear is about to delete was old when it was read (`DoomedOld`). The bound on the
log is harder: trims overlap, and each allows for entries it has not seen. `Ordered` says that the processes
that are trimming are ordered by who inserted after whom had read, and that a process which has deleted its share
leaves in excess only entries of those after it. `BranchStaysSound`, for any paths, words, calls and outside commits: a
commit's history is closed (`HistoryOf`), every commit that was on the branch stays in its head's (`TipsStay`), and each
call's commit is a faithful change of its parent, on the branch or not (`CommitsFaithful`).

**`CheckpointNotes_proofs`**, for any number of keys, pages, texts, calls and faults: `NotesAreTyped` and `SavedStays`, that is
`SavedTextReadable`. `SavedTextReadable` says nothing of the call at work, which may be about to delete; `NotesInv` adds what
that call knows (`Knows`): the kept notes on the page it will overwrite are in the text it carries, the text is under its key before
anything else goes, and a park blanks, and an unpark archives, a page that the key it saved under does not name. The last
is what the comparison of pages before the blanking is for (`CheckShared`), two keys being allowed to name one page. As in the run, the
promise ends when an index row could not be written (`indexFailed`), a failure `doCheckpoint` does not look at.

Only model-checked:

* Liveness (`Settles`, `PushesRecover`, `Served`, `JobsSettle`), which is beyond the prover.
* What rests on sequences that are filtered or counted with `SelectSeq`, of which the prover knows nothing, and whose
  result for every sequence would take an induction over data: `ConversationSound` and `AnswersEarned` with the refinement by `AgentLoop`,
  `EvidenceSound`, `RangeSound` with the refinement by `MarkerRange`, `UpdateSound`, `MemoriesKept`, `SyncConverges`
  and `OnlyOrphansArchived`. The models can be rewritten with sets of positions where that stays as close to the code.
* `AnswersExact`: it compares computed walks, pages and diffs with reference definitions, for the same reason.
* `IndexSound`, and `DelegatesTypeOK`, `NotionTypeOK` and `ConnectorsTypeOK` as wholes: not done yet.

## 5. Not modelled

* Prompt texts, transcripts, formatting, authentication, signatures, rate limits of callers, the OpenAI-shape
  conversion, configuration.
* Connectors that forward one call: Cloudflare, Exa (but for its keys), fetch, Jules, Context7, TypeSafe, frontend, and
  the GitHub tools other than the writes and views of files; `ci_manage` may report the run of another dispatch.
* Notion links, views and charts, which translate one call into requests; the fallback read of a page's first hundred
  blocks for its embedding.
* What parsing, chunking and similarity search compute; which phone commands need no approval.
* `deleteCheckpoint` and `replaceFileArtifacts`, which nothing calls.
* Behaviour across the components that are summed: an overlapping pair of a sync and a checkpoint, say.

## 6. What could come next

1. `IndexSound`. Its part `RecordedStaysFindable` needs that the oldest row of an entity is in no call's `losing` set and names no
   page a call is about to archive. `DuplicatesAccounted` needs a count of the rows that lead nowhere; where only
   creates run, an entity has one row at most.
2. `SelectSeq` in `AgentLoop`, `MemoryStore` and `MarkerRange` replaced by sets of positions, and their invariants proved.
3. The editor with two processes as a run of its own, once its overlapping saves are guarded.
4. A product of `EntityIndex` with `MemorySync`, in which the sync's pages are created through the lock.
