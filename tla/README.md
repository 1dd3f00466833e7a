# A formal model of Jarvis

TLA+ models of the Jarvis assistant server, checked with TLC and, for the parts
that matter most, proved with TLAPS. The definitions are translated from the
Python code under `src/`; `PROJECT.json` names the lines of each.

Jarvis is one Python process: an asyncio event loop serving an HTTP/WebSocket
API to a browser, one SQLite connection, and a handful of singletons
(permission engine, emergency stop, tool registry, task manager, scheduler,
event bus, ...). Apart from the emergency stop, which may be pressed from
another thread, all of it interleaves only at `await`. The models use exactly
that: one action is what a coroutine does from one await to the next.

## Inventory

| Component | State it keeps | Operations | Hard part |
|---|---|---|---|
| Permission engine `core/permissions.py` | grants, table of pending confirmations | `evaluate`, `authorise`, `request_confirmation`, `resolve`, `cancel_all_pending`, `remember`, `forget` | an answer, a timer, the stop and a cancelled coroutine race for one question |
| Emergency stop `core/emergency.py` | flag, registry of cancellation events, listeners | `engage`, `release`, `register_scope`, `unregister_scope` | events registered after the stop; press, release, press |
| Tool execution `tools/registry.py` | rows of `tool_runs` | `execute` | state read before the confirmation and used after it; a row that is never finished |
| Task manager `core/tasks.py` | rows of `tasks`, handles of running tasks | `create`, `start`, `complete`, `fail`, `cancel`, `cancel_all`, `cleanup_stale`, `run`, steps and progress | cancel walks a tree in many statements while others change it |
| Orchestrator and agents `agents/` | the task, its steps, the results of the specialists | `run`, agent rounds, review and repair | cancellation between rounds, unusable reviews |
| Assistant turn `core/assistant.py`, `core/context.py` | conversation rows, partial answer | `run_turn` | a model fails after part of its answer; turns that overlap |
| Model routing and catalog `core/model_router.py`, `providers/catalog.py` | catalog rows, health of models | `select`, `fallbacks`, `refresh` | free-only policy on every path, refresh that fails half-way |
| Providers `providers/` | none | `chat`, `stream`, `list_models` | failures before, inside and after a stream |
| Scheduler `core/scheduler.py` | rows of `reminders` | `create_reminder`, `set_reminder_enabled`, `delete_reminder`, `tick`, `fire`, `next_occurrence` | stale list of due reminders, crash between UPDATE and event, month ends, clock changes |
| Event bus `core/events.py`, `api/ws_events.py` | history, a bounded queue per subscriber | `emit`, `subscribe`, `close` | full queues, no gap between history and stream |
| Proactive engine `core/proactive.py`, `core/health.py` | recent messages, rate window | `should_notify`, `notify`, `poll` | window and rate boundaries, critical bypass |
| Memory `memory/` | rows of memories, conversations, summaries | `consider`, `capture`, `store`, `update`, import, forget | what is found and what is written lie two statements apart; six ways into the table, one filter |
| Database `memory/database.py` | one connection, an `asyncio.Lock`, schema version | `execute`, `transaction`, `migrate` | order of service; a migration that fails |
| Settings and secrets `core/config.py`, `core/secrets.py` | settings in memory and on disk, keyring or file | `load`, `save`, `update`, `reset`, `set`, `get`, `delete` | a write that fails or is cut short; old values in the other store |
| Backups `core/backup.py` | archives and database copies in a directory | `create`, `rotate`, `is_due` | overlapping backups, names by the second, rotation by age |
| Tools `tools/` | the user's folders, running processes | terminal, files, git, web, memory | classification of commands, paths outside the trusted folders, operations on trees that fail half-way, processes and two time limits |
| HTTP API | none | routes | cancelled streams |
| Web interface `web/js/` | what the page shows: stop, dialogs, activity list | `connect`, `dispatch`, handlers of events | state built from events that may be lost |

How they interact. A chat stream opens an assistant turn; the turn captures the
settings and runs tools directly or hands the request to the orchestrator,
which creates a task and lets agents run tools under the task's cancellation
event. Every tool call goes through `ToolRegistry.execute`, which asks the
permission engine, which may ask the user through the event bus; the answer
comes in as another HTTP request. Pressing the stop sets the registered
cancellation events, denies the pending confirmations and has the task manager
cancel all running tasks. Everybody awaits the one database connection behind
its lock, and everybody publishes to the event bus.

What makes the components correct:

- permission engine: the strictest control decides; a consent is the user's and
  is used once, an "always" covers nothing else; questions and waiters agree;
- emergency stop: after pressing, nothing undecided is left and every registered
  event is set, also those registered late;
- tool execution: what runs is within the captured settings; every call returns;
  every run is recorded;
- task manager: what says RUNNING can be cancelled; sub-tasks go first; every
  cancel returns, the stop ends every task; a restart leaves no row RUNNING;
- scheduler: a due reminder is announced once per occurrence, whatever the user
  does in between; occurrences advance and keep to the wall clock;
- event bus: a subscriber sees a subsequence in order, loses only the oldest, and
  no event between history and stream;
- assistant turn: one answer is stored, by the model that gave it;
- routing: the cost and locality settings hold on every path, but for the price of
  the free router;
- orchestrator: the agents run in the stated order, one repair at most, and the
  task's row and steps tell what happened;
- memory: what the filter refuses is in no row, but for two ways past it (below), and
  nobody repeats what the lookup could not miss;
- settings and secrets: the old settings or the new ones, never neither; a deleted
  key stays deleted;
- catalog and backups: a refresh leaves what was listed, a reported backup is whole
  and holds what could be copied;
- tools: a call changes what its arguments name and nothing else, inside the folders
  trusted when its turn began; a process that is told to end ends.

## Modules

| Module | Models | Uses |
|---|---|---|
| `Policy` | the decision table of `PermissionEngine.evaluate` | |
| `CommandClass` | `classify_command`, and what the engine says of a command line | `Policy` |
| `Proactivity` | the proactive engine: `should_notify` and `notify`, message by message | |
| `Recurrence` | `next_occurrence` on a calendar with two clock changes | |
| `Tables` | one behaviour per input of the pure functions and per sequence of messages, with their references | `Policy`, `CommandClass`, `Proactivity`, `Recurrence` |
| `PermissionEngine` | settings, grants, confirmations | `Policy` |
| `EmergencyStop` | flag, registry, events | |
| `ToolExecution` | `ToolRegistry.execute` with engine and stop, driven by callers | `PermissionEngine`, `EmergencyStop`, `ToolGate` |
| `ToolGate` | the abstract specification: what consent and the stop promise | |
| `ToolExecutionProofs` | theorems about `ToolExecution`, and about `Policy` and `CommandClass` | |
| `TaskManager` | task rows, handles, cancel, `cancel_all`, restart; driven by `Orchestrator.run`, the endpoint and the stop | `EmergencyStop` |
| `Coordinator` | which strategy a message gets | |
| `AgentWorkflow` | one run of the orchestrator: agents, rounds, review, repair, task row and steps | `Coordinator` |
| `AgentWorkflowProofs` | theorems about `AgentWorkflow` | |
| `EventBus` | history and bounded subscriber queues | |
| `LiveUpdates` | the stream to a page, with the stop and the confirmations it is about | `EventBus`, `LossyFeed` |
| `LossyFeed` | the abstract specification: what a subscriber of the bus is promised | |
| `LiveUpdatesProofs` | theorems about `LiveUpdates`, that it implements `LossyFeed` among them | |
| `Scheduler` | rows of reminders, the ticking coroutine, the user, restarts | `Recurrence` |
| `BackgroundProofs` | theorems about `TaskManager`, `Recurrence`, `Scheduler` and `Proactivity` | |
| `ModelRouter` | which model answers and which come after it, under the cost and locality settings | |
| `AssistantTurn` | turns of one conversation, from the user's message to the stored answer | `ModelRouter` |
| `AssistantTurnProofs` | theorems about `ModelRouter` and `AssistantTurn` | |
| `Memories` | the six ways into the table of memories, and changes by hand | |
| `MemoriesProofs` | theorems about `Memories` | |
| `Coroutines` | program counters and local variables of the coroutines of `Server` | |
| `Settings` | settings in memory and on disk, the key in two stores | |
| `Catalog` | the provider clients and the model table | `Settings`, `Coroutines` |
| `Backups` | copies, archives, rotation, the clock | `Coroutines` |
| `Server` | start, background work, requests, end of the process | `Catalog`, `Backups` |
| `ServerProofs` | theorems about `Server`: settings, key, catalog, backups | |
| `FileTree` | a tree of files and what pathlib, shutil and zipfile do to it (external) | |
| `FileTools` | the sandbox's rule and every file tool that writes | `FileTree` |
| `Workspace` | turns and agents calling file tools and commands, the processes | `FileTools` |
| `WorkspaceProofs` | lemmas about paths, trees and every file tool; theorems about `Workspace` | |
| `MC*` | constants for TLC | |

### Policy, PermissionEngine, EmergencyStop, ToolExecution

`Evaluate` has the seven numbered steps of `evaluate` in three groups: `Refused`
(stop, DENY, level 0), `GrantApplies`, `Automatic`. The engine's state is
`policy` (the saved settings), `grants` and `ask`: what `_pending` holds for each
caller, with the state of the future. A caller has at most one open question,
since `execute` waits for it.

A caller of `ToolExecution` is a coroutine that issues tool calls: a turn, a
direct call, or an agent, whose calls all use the event of its task
(`TaskCallers`). `pc` says at which await it is suspended: `recording` (the
insert into `tool_runs`), `asking` (the future), `running` (the tool), `ending`
(the update). `Decide*` is the stretch from the insert to the next await,
`Resume*` the one after the answer. `Resume*` evaluates nothing again, as in the
code. `ToolRaises` keeps the event registered until the failure is recorded,
because the `finally` clause runs after `_record_end`; `ToolReturns` unregisters
first. `Abort` is the cancellation of the coroutine at an await: the statement
under way may or may not be carried out.

`ToolGate` says the same in five phases per caller and knows neither settings,
grants, timers nor rows. `GatePhase` maps a caller's state to a phase; the
consent that is in before the stop is pressed stays `approved`, which is what the
code does: the tool starts under the stop (see the observations).

### TaskManager

The database lock serves its waiters in order of arrival, so the model has a
`queue` and each action is the statement of the coroutine at its head together
with the code up to that coroutine's next statement. `frames` is the recursion of
`cancel`: one record per active call, with the listed children still to cancel.
`RequestCancel`, `Notice` (the orchestrator's own cancel after an agent noticed
the event) and `CancelAll` (the stop's listener) all enter it. `Abort` is the
cancelled coroutine of a turn, which the orchestrator does not handle. `Crash`
includes `cleanup_stale`, which runs before anything else in the new process.

Abstracted: the status WAITING and WAITING_PERMISSION (`await_permission` has no
caller), error and result texts, the read at the end of `complete` and `fail`
(it only feeds the event), and the order of `cancel_all`'s list (any order).
A stop pressed from another thread sets the events but schedules no `cancel_all`:
`PressStop` has both cases.

### EventBus, LossyFeed, LiveUpdates

An event is known by its position in `log`, the list of everything ever emitted.
`emit` runs without an await, so `Emit` is one step for the two events of
`engage` as well. `conn` is the client's connection: `connecting` until the server
has accepted it, `greeting` while `connection.ready` is on its way, then `up`.
`Subscribe` attaches the queue and takes the history in one step, as the code
does. `Pump` takes an event from the queue and `Arrive` hands it to the handlers
of `app.js`; `Greeted` replaces the page's list by the history, which no handler
sees. `http` holds the lookups a page makes when it is opened, with their replies,
and the answers it sends, so that they race with the stream.

`LossyFeed` knows only how many events there are and which one a client was given
last: the next one is always the oldest it has not had among the newest `Window`.

Abstracted: type filters (the page subscribes to everything), heartbeats, and the
two ends of a lost connection noticing it at different times. What a handler other
than the two modelled shows is wording.

### Recurrence, Tables, Scheduler

Time is counted in slots. A local time is a wall-clock reading with a fold, as in
PEP 495; `Local` and `Utc` convert, `Plus` forgets the fold as `timedelta` addition
does, `ApplyTime` keeps it as `replace` does, and comparisons look at the wall
clock only, as Python's do for two datetimes of one zone. Slots stand for minutes:
what matters is that the clock change is a whole number of them, and a day too.
A calendar is `MonthStart`, the days on which its months begin; its months have 28 to
31 days, and there are two clock changes at any moments (`Forward`, `Back`).

`Tables` checks `Evaluate` and `NextOccurrence` against references that are stated
differently: the minimum of the controls' verdicts, and the first moment after the
call whose local reading fits the rule, found by going through all moments.
`Matches` is the rule itself, said of a reading: every so many days or weeks, on a day
of each month or the last one of a shorter month. Where the code departs from that
reference, a definition says so, and each of these is a fact about the code.
`AsKept`: the number of weeks of "every few weeks" is stored and not looked at, and
the 29th, 30th and 31st become the 28th. `PassedAlready`: in the second pass of the
repeated hour a time of the first may be answered (see the observations). `Regular`:
an interval is counted on the wall clock, so that it is off across a clock change; a
reminder of every few days starts its count again at the day it is fired; a monthly
reminder that is fired late skips the month it is fired in.

`Scheduler` has one coroutine that ticks. `pc` says what it is waiting for: the
SELECT, the UPDATE of `current`, or its turn after the UPDATE; `pending` is the list
of due reminders it has read and not begun to fire. `Begin` is the
head of the loop in `tick`: it passes over a reminder whose `next_occurrence`
raises and asks for the UPDATE of the next one, with the time it takes then.
`Start` runs a tick before the application serves requests; `Halt` is both
`stop` and the death of the process. `told` and `extra` are history variables for
the properties.

### ModelRouter, AssistantTurn

`Select` yields the set of selections `ModelRouter.select` may return; a refusal
stands for the error it raises. The catalogue, the providers that are switched on
and the configured free router are constants. A score weighs words in a model's
name and the user's priorities: any order of the eligible models is possible, and
what the policy promises must not depend on it. `Barred` is the filter of the
catalogue, which `_candidates` and `_select_explicit` share in effect.
`FallbackModels` sorts what the filter leaves (`Sorted` are the orders that fit the
key of the sort), keeps the first three and appends the free router.

A turn of `AssistantTurn` is the coroutine of `run_turn`; `pc` says what it awaits.
`ReadHistory` takes the newest rows of the conversation as they are then (`Newest`: at
most `HISTORY_LIMIT`, 60 in the code, failed answers among them) and builds the prompt
from those that did not fail. `Generate` asks the selected model, `Piece` and
`CallPiece` are what its stream brings, `StreamEnds` and `StreamBreaks` how it ends.
`Tried` is the selected model with its fallbacks and `Served` the places in it that have
a provider; after a break the next of those (`Later`) starts with the same messages and
what came before stays in the answer and among the calls. `UseTool` is one call of the
executor (`ToolExecution` models what happens inside), `AgentsAnswer` the orchestrator's
whole run. Turns share the rows of the conversation and `status`. The texts are
sequences that only say which model a piece is of; `shown` is what the client got.

`room` is how many of the newest messages the context builder has a place for;
`FitHistory` keeps those and never drops the message itself.

Abstracted: titles, usage, reasoning, events, the system prompt and its sections,
and memories. `context.cancelled` is never set in the code, so the exit it
guards is left out. A conversation that is truncated or deleted during a turn, and
statements of the conversation store that fail, are not modelled. The free router
of the instance is not free: `free_router_model` may name any model (below).

### Coordinator, AgentWorkflow

`Decide` is `Coordinator.decide`: a message is its intent and what the wording patterns
find in it, and the model starts with every decision there is. A step of `AgentWorkflow`
goes from one await at which a cancellation matters to the next: `SelectModel`, `Ask`
(where the agent looks at the task's event), `Reply`, `UseTool`. `Returns` is what the
orchestrator does with an agent's result: finish its step, add the next agent's step,
and go on or conclude. `Stop` is what becomes of a cancellation that an agent notices:
the exception is handed on, past the agents, to the run. `ParseReview` has the
reviewer's verdict and what an unreadable review becomes. `Breaks` is an exception that
leaves the run (`TaskCancelled`, or JSON of the wrong shape). `TaskManager` models
create, start and cancel statement by statement; here each is one step, and `Mark` is
the row's cancellation, at any time after the event is set.

Abstracted: prompts, plans and findings, the models chosen, usage.

### Memories

A text is the set of its content words, empty for one of stop words only; `Similarity`
is the Jaccard measure of `retrieval.py` in percent. The filter reads subject and
content as one text, and what it refuses may take several words (`SecretPhrases`), so
that a subject and a content may each pass and not both. `Matching` is the full-text
search: the first terms of a statement, each the beginning of a word (`Prefixes`);
`Lookups` is what its `LIMIT` leaves, in no order. A note is a row made by hand without
a subject, which gets its `heading`, the first characters of its content. Each coroutine
(`Callers`) carries out one operation: a capture after a turn, the `remember` tool, an
import, or a row created, changed or deleted by hand. `Look` is the SELECT of the
lookup, after which `Insert`, or `Recheck` (the read inside `update`) and `Update`,
write what was decided then, however the table looks by now. A change by hand names the
fields it has (`Patches`), the subject among them. `by`, `seen` and `crossed` are
history: who wrote a row's content; which rows with the same content that writer's
lookup could not miss (`InReach`); and which rows had one of their texts checked while
an update of the other one, checked already, was still to be written.

Abstracted: the patterns of extraction and of the secrets filter, the order of words,
ranking and recall, proposals that the user confirms later, summaries.

### Settings, Catalog, Backups, Server

A handler that changes settings or the key has no await, so it is one step, inside
which the write may fail (`NotSaved`) or the process may die (`DiedSaving`, with the
file as it was or as it was to be, because `save` writes another file and renames
it). `Found` moves a broken file aside; `Overridden` is the environment.

`refresh` and `provider_statuses` walk the dictionary of clients with an await per
entry while `configure` may change it. `clients` keeps the places of entries that
were removed, so that `NextProvider` finds what the iterator would find, and
`Changed` is the `RuntimeError` of an iterator whose dictionary changed size.
DELETE and INSERT of a provider's rows are separate statements, and a crash may fall
between them or inside the INSERT.

A backup copies the database beside the archives, has a thread write the archive,
and removes the oldest; archive and copy are named for the second in which it began.
The copy may fail, and the backup goes on without it: `copied` says of an archive
whether there was a database to put into it, `db` whether it holds one.
`Down` is the end of the process at any of these points, and `Start` begins the
background work of `lifespan` again. `promised`, `deleted`, `begun`, `reported`,
`alone` and `had` are history.

### FileTree, FileTools, Workspace

`FileTree` says what the library calls do to a tree: a function from the paths that
exist to folders, files and archives. It is external: what matters is how the tools
use it (`copytree` that goes on past what it cannot make, `rename` into a folder,
`extractall` that stops half-way). `FileTools` has one operator per tool that writes,
each the set of trees the call may leave; a call of these tools has no await in it.
A text is a sequence of pieces, and sections and the read limit begin and end between
two of them. A text with a piece that is not UTF-8 (`Foreign`) is read in another
encoding as a whole (`Recoded` stands for cp1252 and latin-1) and written back as
UTF-8, and `LineEnds` is what the system makes of the ends of lines it writes: a
substitution on Windows, nothing elsewhere. `OnlyPlace` is the test of `patch_file`,
`text.count(old) == 1`: `count` goes on behind what it has found, so a section that
lies over itself counts once.
`Allowed` is `sandbox.resolve_path`: protected names and areas, containment in a
trusted root, a parent inside it for what does not exist yet. `roots` are the folders
of the settings the turn began with, `live` those of now, which `_resolve_both`
consults as well. A trusted folder need not exist: `OnlyWhatWasNamed` lets a call
make it again, with the folders above it (`OnTheWay`), because `mkdir(parents=True)`
does. `IsCall` is what the validation of the arguments leaves, `HoldsEntries` that a
tree has folders, texts and archives of texts at its paths.

In `Workspace` a caller is a turn or an agent. `UseFiles` is one file call. A command
starts a process and waits (`asyncio.wait` with the event, the process and the
command's limit); `Terminate`, five seconds, `Kill`; `CutOff` is the registry's limit
and `Abandon` the cancellation from outside, and neither touches the process.
`PressStop` may reach any part of the registered events, because `release` empties
the registry. What a process does to the files is left out.

### CommandClass, Proactivity

`CommandClass` represents each table of programs by some of its members. A line is
the sequence of its stages, whether an operator follows the last one (`open`), and
whether a dangerous pattern lies across stages (`spanning`). A stage may hold a pattern
of its own: one that is found wherever it stands, or the one that has to end the line
(`\s*$`, `tools/terminal.py:83`), which an operator behind it hides (`Hides`). A stage
on its own is classified with its pattern (`Alone`), and the property excepts that one
pattern where it is hidden (`AsItStands`), because there the code is freer with the line
than with its part, against the comment at `tools/terminal.py:191` ("taking the
highest class of all its parts").
`LineIsNoFreerThanItsStages` assumes settings in which a riskier terminal capability
is no freer than a milder one: the line is judged under the capability of its worst
class alone, so with ADMIN on ALLOW and READ on DENY a line may pass where a stage of
it would not. Whether a file is redirected into, and whether the whole line matches a
dangerous pattern, counts as one more class among those of the stages (`ClassesIn`).

`Notify` is one message to the proactive engine, a step of `Tables` (`Offer`).
`recent` has the moment of the last message passed on with each key, `sent` the
messages that still count for the rate, pruned at twice the window as in the code,
and `passed` is history: which messages were passed on. `_clock` is the system's
time; it is assumed not to be set back (`TablesAssumption`).

## Runs

| Run | Question | Bounds |
|---|---|---|
| `tables` | do `evaluate`, `classify_command`, `notify` and `next_occurrence` agree with their references? | all 840 rows of the policy; lines of every stage, of two of some and of three of a few, ended or not, four settings; four messages at the boundaries of the windows; 13 rules, every two weeks and the 31st among them, 39 days around month ends and clock changes, every slot of the day, 18 delays |
| `gate` | do consent and the stop keep the promise of `ToolGate` in every interleaving? | two callers, one an agent; two requests (ordinary, privileged), two settings; restarts |
| `policy` | is whatever runs within the captured settings; does every call return? | one caller, all seven risks, four settings, failing statements |
| `task_tree` | tree cancellation, the stop, restarts | a task and its sub-task, one request besides the worker's own cancel |
| `stream` | do history and stream fit together; does the bus keep the promise of `LossyFeed`; does what is queued arrive? | one page, one confirmation, a queue of 2, a history of 3 of which 2 are replayed, 4 events; restarts |
| `reminders` | at most one announcement per scheduled time, one more after silencing, none left out? | two reminders, four moments, two in each pass of a repeated hour, one failing statement; restarts |
| `turn` | one answer per turn, stored as shown; the cost policy; calls and results; the prompt; termination | one turn under three settings with room for no, one and all messages, and one that is refused; five models, one whose provider is off, one paid, and a free router that is not free; 2 rounds, 2 calls per round, 2 pieces of text; a past of two messages, one answered and one that failed, of which the newest four rows are read |
| `workflow` | the order of the agents, the task's row and steps, cancellation, termination | every decision of the coordinator, the code's six rounds, two tool calls per round |
| `memories` | is what is stored allowed; does nobody repeat what the lookup saw? | two operations that overlap; statements at 75, 50 and 100 percent of each other, one with a secret, one under another subject, one of stop words; a secret of two words; lookups of two rows; up to two rows before |
| `server` | settings, key, catalog and backups, all at once and with a process that may end | two coroutines, two providers, one model, one key, two seconds; two events out of requests, start and crash, beside the background work of the start; copies that fail |
| `workspace` | does a call change only what it names; does a process that is told to end do so? | two calls by two callers, two trusted folders that may be changed, two trees of eight entries with texts of up to four pieces, of which three are read (one in cp1252, one with a line end, one that repeats a section), 44 calls of the nine file tools, two commands |
| `outlives` | a statement of the documentation that the code does not keep | one command of one caller |

Bounds. Two callers are needed for a grant of one to reach the other, for the
stop to find several open questions and for one caller's cleanup to disturb the
other's; a third adds no new kind of interaction, since callers share only
grants, settings, the flag and the registry. A task with a sub-task and two
coroutines that cancel is the smallest instance in which the recursion meets a
tree that changes under it. No counter is bounded in these two models: their
state is finite by itself.

`MaxEvents` bounds the events of `stream`: with four, a queue of two overflows, the
history of three forgets one and the replay of two leaves one out, before and after
a reconnection; subscribers share nothing, so one is enough. `Horizon`, `Ahead` and
`MaxFailures` bound `reminders`: four moments let a reminder become due before,
during and after a tick and be fired in either pass of the repeated hour; two
reminders are needed for one to raise, or to fail, before the other.

`turn` sets `MAX_TOOL_ROUNDS` to 2 instead of 8: a first, a last and a next round exist,
and the rounds are alike. `MaxPieces` and `MaxCalls` bound what the providers send: two
pieces let a text be of two models, two calls let a round have a first and a second
result. `HISTORY_LIMIT` is 4 instead of 60: the past already has four rows, so that
every turn leaves one out, and which of the others failed decides what is left. The
second turn is refused while the first is anywhere, so that its rows come between any
two steps of the first. `workflow` needs no bound but the calls of a round.

`MaxOps` of `memories` is the number of operations: two overlap in every way, one of
them with two candidates, and the rows of `Before` give a third party's past. A
longer history only adds rows of the same kinds. `LOOKUP_LIMIT` is 2 instead of 20: a
third row that matches is then out of reach. `MaxEvents` of `server` counts what
comes from outside; the start and its background work (refresh, then backup) are a
third participant, so that two refreshes, two backups and a crash can meet.
`MaxSecond` lets two backups share a second or not. In `workspace`, `MaxCalls` is
two: one call may disturb another, and a call may follow on one that left half a
tree; `MaxDepth` cuts copies of folders into deeper and deeper folders. `MaxRead` is
three pieces, one less than the longest text.

The configurations check `TypeOK` in one run only; the other modules state theirs as
the base of an inductive invariant. Deadlock is checked except in `tables`, whose
behaviours end after the answer, and in `workspace` and `outlives`, where nothing is
left to do once the calls are made.

Fairness. `FairSpec` of `ToolExecution` assumes that the event loop runs a ready
coroutine and that timers fire (300 s for a confirmation, 120 s for a tool);
nothing is assumed of the user. `FairSpec` of `TaskManager` assumes that the lock
serves its queue, that a scheduled coroutine starts and that an agent's work ends,
because model calls and tools have time limits. `FairSpec` of `LiveUpdates` assumes
that the event loop runs the pump and that a sent message arrives unless the
connection is lost; nothing obliges a page to connect. `FairSpec` of `Scheduler`
assumes that the loop's pause ends, that the database answers and that the event
loop goes on; time need not pass and the process need not start. `FairSpec` of
`AssistantTurn` assumes that some turn that is ready goes on, because model calls,
agents and tools have time limits; no model needs to say anything and no client to
stay or to leave. `FairSpec` of `AgentWorkflow` is the same for the one run.
`FairSpec` of `Workspace` assumes that the event loop runs what is ready, timers
included, and that the operating system ends a process it was told to kill; no
process need end by itself or obey the first signal, and the registry's limit need
not come. `Memories` and `Server` are checked for safety only.

What the violation run shows. `outlives`: the registry's limit of 120 s starts before
the limit of the command, which is 120 s by default; it cancels the coroutine inside
`asyncio.wait`, where neither `terminate` nor `kill` is reached, so the call returns
as timed out and its process runs on. `CommandsEnd` therefore speaks of calls that
are not cut off.

### Observed while modelling, without a run of their own

Each of these is behaviour of the models, not left out of them.

Tools and the stop:

- A consent that is in when the stop is pressed still starts its tool:
  `cancel_all_pending` skips futures that are done and `execute`
  (`tools/registry.py:188`) does not look again, although `core/emergency.py:7` says
  that nothing slips through. The tool's event is set from the start.
- `EmergencyStop.release` empties the registry although tools may be running; the
  next `engage` does not set their events.
- A tool call cancelled while it waits for the user leaves its row as `started`.
- An outer cancellation (the client leaves, the server shuts down) leaves a command's
  process running; `terminate` reaches the shell and not its children.
- A turn goes on writing in a folder the user has since removed from the trusted ones,
  except for `copy_file` and `move_file`, where `_resolve_both` resolves a second time
  under the settings of now (`tools/base.py:60` promises the captured ones).
- `patch_file` on a file longer than the read limit writes the shortened text back; on
  one that is not UTF-8 it writes every letter beyond ASCII anew (`tools/files.py:51-60`
  and `330`); on Windows it rewrites all line ends. A section that lies over itself
  ("aa" in "aaa") passes for unambiguous.
- A deletion of the root behind a harmless program (`env rm -r /`) is DESTRUCTIVE where
  it ends the line and READ_ONLY before an operator, because the pattern for it has to
  end the line (`tools/terminal.py:83`).
- With nested trusted folders, what `delete_directory` takes for a root depends on
  their order; `move_file` may move a trusted root itself.
- `create_archive` inside the folder it packs packs itself; an extraction that fails
  leaves what it has written.

Tasks and agents:

- A cancel that arrives before `start` has filed the handle marks the row CANCELLED,
  then drops the handle, whose event was never set (`core/tasks.py:117`).
- `complete` and `fail` write over a row that was CANCELLED meanwhile: a run whose last
  agent was in its last round when the cancellation came ends DONE or FAILED.
- A review that cannot be read has no issues and becomes the verdict "ok", although
  the comment at `agents/review.py:121` means to avoid that; "issues" or "plan" of the
  wrong JSON type fails the whole run.
- When planning fails, the step of the execution stays PENDING on a FAILED task.
- After exactly one step `add_steps` numbers from 0 again.
- An agent that names a tool which does not exist fails; a refused tool is a result.
- The reviewer is offered tools that write.
- `TaskManager.run`, which only tests call, cancels the task it runs in.

Turns and models:

- A provider's failure inside the stream is a chunk, and any chunk makes
  `_stream_with_fallback` take the stream for an answer: the turn completes with
  nothing, or half an answer, and no other model is asked (`core/assistant.py:518`).
- When two turns of one conversation overlap, `_generate` may take the other turn's
  message for its own and drop it, and then sends its own twice
  (`core/assistant.py:297`). `PromptIsTheConversation` is stated for turns that are
  not disturbed between storing and reading.
- Tool calls and their results are never stored, so a later turn does not see them,
  although `memory/conversations.py` speaks of rebuilding the same context.
- A turn that has fallen back asks the provider of the first model for the fallback
  in its next rounds: only `selection.model` is replaced, not `selection.provider`.
- Fallbacks are offered the tools the selected model was found fit for, and get the
  prompt that was cut to the selected model's window.
- Under FREE_ONLY a paid model may be asked, if it is the free router: the settings page
  offers every model for `free_router_model` (`web/js/views/settings.js:148`), and
  `_fallback_models` and `_router_fallback` do not look at its price, although
  `core/model_router.py:14` says that a paid model is never used then. The property
  `OnlyTheRouterMayCost` says that it is no other.
- `history` counts failed answers among its 60 rows, so that a conversation with
  failures is remembered less far back.
- `status` stays THINKING or ACTING when the client leaves.

Memories:

- Two captures that overlap store twins. So does a single one, when the memory is out
  of the lookup's reach (`memory/retrieval.py:152`): it knows the first six terms, reads
  twenty of the rows that match in no stated order, and finds nothing for a text of
  stop words. `TwinsNeverSeen` excludes the twins that the lookup could not miss.
- `update` checks the new text together with the one that stays, awaits, and writes the
  new one only (`memory/manager.py:299-312`): when one change names the subject and
  another the content, the row may end with a pair that the filter refuses.
- The subject of a note is cut from its content after the filter has passed the whole
  (`api/routes_memory.py:60-73`); a cut within a word may leave what the filter would
  refuse. The `remember` tool checks the subject it has cut.
- A capture that updates a row writes back an importance it read before.
- A similar memory that is disabled is updated and stays disabled.
- The `ValueError` of one candidate's update drops the candidates after it.

Settings, keys, catalog, backups:

- Whatever the environment overrides is written into the settings file by the next
  `update` (`core/config.py:309` says it is not), and a settings file that is valid
  JSON but not valid settings makes `load` raise (`core/config.py:253`).
- When the file cannot be written, memory has the new settings, the file the old
  ones, and the clients are not rebuilt.
- A key that went to the file because the keyring failed is hidden by the keyring's
  older one later; a delete while the keyring fails keeps the key and says nothing.
- Two refreshes that overlap remove each other's rows, or one fails on the other's.
- Changing the providers during a refresh or a status request raises "dictionary
  changed size during iteration"; a crash between DELETE and INSERT leaves a provider
  without models until the catalog is stale; a refresh that nobody answers still
  counts as one.
- A backup whose copy of the database fails is reported like any other; the archive has
  no database (`core/backup.py:77-78` and `91-93`).
- Two backups of one second share their copy, and their archive if both have one
  label; a truncated archive counts for `is_due` and the rotation; with
  `keep_last` = 1, overlapping backups may remove the only whole one.

Scheduler, proactive engine, page:

- In the repeated hour `next_occurrence` takes a past time for a future one, since it
  compares wall clocks, and the reminder fires at every tick (`core/scheduler.py:267`).
- "Alle 2 Wochen" is stored as a weekly reminder with an interval of two weeks that
  `next_occurrence` does not look at: it comes every week after the first time. The
  number of "alle 3 Monate" is not stored at all (`core/scheduler.py:142-149`).
- A monthly reminder for the 29th, 30th or 31st comes on the 28th of every month, although
  `core/scheduler.py:222` means to clamp it to the last valid day.
- A monthly reminder that is fired after its month skips the month it is fired in;
  `interval_seconds` below zero is not refused.
- Deduplication ignores the importance, `_recent` is never pruned, and outside the
  tests nothing calls `notify` or `poll`.
- After a reconnection the page gives the replayed history to the activity list only
  and goes on showing the old state of the stop (`web/js/app.js:46`).

## Proofs

Every safety property that a run checks is proved for all values of the constants.
Nothing is assumed but the named assumptions of the modules, which TLC evaluates on
every run.

`ToolExecutionProofs` proves every safety property the runs `gate` and `policy`
check, and that `ToolExecution` implements `ToolGate`. The invariants do not hold one
another up by themselves: whether a running call is within its settings depends on
what was true when its question was filed, several steps earlier.
`AskedWithinSettings` records that: a call that is asked about is not refused by its
settings. With it `IInv` is inductive. There is one lemma per conjunct, each with one
step per action. `AnswersAlwaysStand` and `GateImplemented` use `IInv` of the state
before the step; the latter shows that each action moves the phase of one caller by
one action of `ToolGate`, or none.

Two functions are in `ToolExecutionProofs` as well. `StrictestControlAlwaysWins`
compares the steps of `evaluate` with the strictest of the verdicts, control by
control (`EvaluateIsTheReference`). `LineIsNeverFreerThanItsStages` says that the
verdict only gets stricter as the class gets worse (`WorseIsNoFreer`, under the
settings that `Ordered` describes); the worst class of a line exists and is at least
that of each stage, whatever the number of stages. A stage that is dangerous on its own
makes the line dangerous as well, unless its pattern has to end the line and is hidden;
then what is left of it is its program, argument and redirection (`StageAsItStands`,
`StageIsInTheLine`).

`BackgroundProofs` has the components that work while nobody looks on.

*Tasks.* `RunningIsReachable` is inductive together with `CancelsAsCanceller`, that a
worker is inside `cancel` only after it noticed its own event. Without it a worker
could leave `cancel` for "over" from between the statements of `start`, with its row
RUNNING and no handle filed. The queue of the database does not matter to the
argument, so it holds for any order of service.

*The next run.* `NextIsLater` says of every call of `next_occurrence`, in every
calendar, that the answer lies after the moment it is asked at, or in the first pass
of the repeated hour (the exception the code really makes, see the observations).
Each branch answers a reading beyond the reference (`IsBeyond`) and a later reading is
a later moment, but for that pass. `NextIsFirst` says more of the calls that `Regular`
describes: the answer is wanted by the rule as the code keeps to it, and nothing before
it is (`Fits`); that is the rule itself but for every few weeks and the 29th to 31st
(`MostRulesAreKept`). It has one lemma
per branch (`DailyIsFirst`, `WeeklyIsFirst`, `MonthlyIsFirst`, `IntervalIsFirst`), each
about wall clocks, and `FirstReading`, which carries the answer from wall clocks to
moments. The loop of the daily branch is the least number of steps that is enough,
which exists because any set of numbers has a least one; the arithmetic of days,
weeks and multiples is in lemmas about division. `NextIsAlwaysFirstMatch` is that for
the calls of `Tables`, together with `NextIsLater` for those that are not regular.

*Reminders.* The invariant of `Scheduler` (`SchedulerInv`) beside the types: the list
has a reminder once and is empty between ticks (`OneEach`); what is enabled was made
audible, and of a silenced reminder only the announcement that was under way is left
(`SilenceInv`); and what is stored is moved on before it is announced, so that the
time announced last is before whatever can be announced next (`TimesInv`). The last
rests on `NextIsLater`: an announced time is fresh unless it is in the first pass.
`SilencedSoon` and `AnnouncedOnce` follow, for any reminders and rules, those that
raise among them.

*Messages.* `EngineInv`: what `recent` and `sent` hold is what the messages passed on
so far leave of themselves (`Remembers`). Pruning `sent` loses only what no later
message can count, because the window is shorter than what is kept and messages are
offered in the order of time.

The assumptions of these: the calendar has months of 28 to 31 days and covers every
call and the month after it; the two changes are apart from each other and the second
is not at the very start; intervals are not negative where a result is stated
(`Raises`); messages come in the order of time.

`AgentWorkflowProofs`: `IInv` relates `pc` and `role` to the length of `results` and
`steps`, and says that each result made the orchestrator go on with the role that
comes next in `FullOrder`. The properties speak of positions; the code decides by the
last result only, and the invariant is what connects them. `CancelledGoesNoFurther`
speaks of two moments, the one at which the cancellation finds an agent in a round and
any later one. `StillMay` is what such a moment leaves to happen, and is kept by every
step: the agent may use the tools of its round and hand its result over, a next agent
may be begun, and there `Stop` is the only way on, but for the research agent that gives
up first.

`ServerProofs` has four arguments beside one another, since settings, key, catalog and
backups share only the coroutines. `SettingsInv`: what a start would find in the file is
promised at every moment, also in the middle of a write that fails; `KeysInv`: the
clients are never given a key that is deleted, even while no client would use it.
`RefreshInv`: a refresh that is `alone` is the only coroutine at a place of `refresh`,
and the table is what it listed or had, except for the provider between its DELETE and
its INSERT. `BackupInv` counts in `begun`: two backups under way in one second make it
two, so one that finds one there owns its copy, if it has one, and its archive until it
reports it; `AgesInv` keeps the list of ages and the directory in step, so that the
rotation removes archives and nothing else.

`MemoriesProofs`: `AllowedInv` follows a candidate from the filter to the statement
that writes it: all that is still to do has passed. An update is harder, since what it
is about to write was checked together with what the row said then. `FilteredInv` says
that the pair it would make now passes as well (`Checked`), because any other update
under way in the same row changes the same texts (`Apart`), unless the row is `crossed`;
`StoredIsAllowed` is its part about the rows. For `TwinsNeverSeen`, `TwinsInv`
says that a writer that had found twins is about to write into one of them, and that
a row which names twins in `seen` is one of them; the lemma under it is that a lookup
reads all rows in reach and `FindSimilar` finds the best of what is read.

`AssistantTurnProofs`: `SelectionSuits` is about the router alone, for any catalogue:
whatever is asked for, pinned or needed, the selected model and its fallbacks are
within the settings, but for the free router. `RequestsInv` carries that along the
turn, over rounds and fallbacks, and `SettingsHeldButForTheRouter` is the outcome, with
no assumption about the router's price. `CallsInv`: between two
requests all calls have results, and while tools run the open calls are those of this
round. `TextInv`: until an answer is stored `answer` is what was `shown`, up to the
one note that is not shown before, and there is no answer in the table.

`PromptInv`: the prompt of a turn is what its context builder makes of the
newest rows up to `seen`, and those rows never change; a message of a user is never a failed
row, so the last row of an undisturbed turn is its own message and is dropped once and
added once (`ContextIsTheEnd`). `Said` names the k-th row that did not fail instead of
filtering the sequence, since the provers cannot use the recursion of `SelectSeq`.

`LiveUpdatesProofs`: `FeedInv` says that the history and every queue are blocks: the
newest positions without a gap; that what a page was given is a replay that ends
where it subscribed and later events in order; and that the given, the waiting and
the dropped ones add up to what was published since. A queue may lack events only
when it is full, which is the step of the refinement that is not obvious: the event a
page is given is the next one, or the oldest of the newest `QueueSize` ones, as
`LossyFeed` says. `LastGiven` of the mapping, the greatest position a subscriber has,
is shown to be the last of its feed (`Mapped`), so that each action is one of
`LossyFeed` or none.

`WorkspaceProofs`: the invariant (`TreeInv`) only says what trees and settings are;
the argument is about the step. A tool `Reaches` from the names of its arguments when
whatever it changes lies at or beneath one of them, or is a new folder on the way to
one. There is a lemma for each library call (`copytree`, `copy2`, `move`, `extractall`,
`mkdir`, `rmtree`, `write`) and one for each tool, which combine in
`OutcomesConfined`; with the checks of `resolve_path` on the names themselves, what
lies beneath a path inside a trusted folder is inside it, and what lies above it is
inside or on the way. The second resolution of a destination, under other settings,
is not needed for that: it can only refuse. `PatchesOnePlace` rests on `ReadIs`: the text
read is the text of the file when that is within the limit and UTF-8; and on
`ReplacedIs`: without line ends to rewrite, what is written is the same text but for the
section (`EachOfJoined`: a substitution of pieces goes through a sequence part by part).

Only model-checked:

- the liveness properties (`CallsReturn`, `StopEndsTasks`, `EveryTurnEnds`, `RunEnds`,
  `CommandsEnd` and the others under fairness): the installed provers have neither
  ENABLED nor rules for fairness;
- `TypeOK` of the modules other than `ToolExecution`: the inductive invariants contain
  the part of it that they need.

## Not modelled, and the plan

Theorems to come: that no tool leaves an entry without its folder (`IsTree` of
`Workspace`); that the state's other types hold where an inductive invariant has only
a part of them.

Not modelled, and why:

- The emergency stop pressed from another thread in the middle of a coroutine's step,
  as opposed to between two: its listeners run in that thread, and the outcome is the
  one `PressStop` of `TaskManager` has.
- `TaskManager.run` and `await_permission`: nothing but tests calls them.
- Migrations and explicit transactions of the database: sequential code at the start.
- `select_team`, catalog queries and the model profiles: scores without a promise.
- Conversations that are deleted or cut during a turn, titles and summaries.
- Tools that only read, git and web tools (processes and requests whose effects are
  outside), texts that UTF-8 cannot write, symbolic links, relative path arguments,
  copying a folder into itself, which `copytree` may not come back from, and what
  processes do to files.
- Provider clients: HTTP, streaming protocols and their conversion; they are the
  environment of `AssistantTurn` and `Catalog`.
- Texts of prompts and messages, patterns of intents, secrets and extraction,
  redaction, logging, paths, the platform's information, health checks.
- The page beyond its event stream: rendering.
- The empty packages `desktop`, `integrations` and `voice`.
