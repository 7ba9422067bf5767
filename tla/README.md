# local-jira: a verification development

`local-jira` is an issue tracker that lives in a git repository: every issue,
sprint, comment and run is a file under a board directory, every change is a
line of a JSONL event log, and one local server gives people (a web page) and
agents (an HTTP API) a consistent view of them. Two SQLite databases beside the
files are derived or local: `index.sqlite`, which every check reads, and
`runtime.sqlite`, which holds the write journal ("outbox"), the idempotency
keys and the claims.

Paths below are relative to the repository: `storage/writer.ts` stands for
`src/storage/writer.ts`, and requirements, decisions and designs are quoted
from `jira-docs/`.

- `*.tla`: the modules; `MC*.tla` with `*.cfg`: their instances for TLC;
  `*Proofs.tla`: the theorems, checked by TLAPS.
- `PROJECT.json`: components, runs, hazards, theorems, the findings, the source
  lines each definition stands for, and for every property a mistake in the code
  (an operator `X_Y`: `X` with the mistake `Y`) that would break it.

To check: `tlc -config WriteJournal_recovery.cfg MCWriteJournal.tla`, and
`tlapm JournalPlanningProofs.tla`; likewise for the others.

## 1. Inventory

### 1.1 Components

| component | state it keeps | operations | correct when |
|---|---|---|---|
| write journal: `storage/writer.ts`, `storage/outbox.ts` | resource files, event log, `outbox` table with a stage per row, temp files | `BoardWriter.write`, `#applyFrom`, `replay` | a write is all or nothing over three stores, logged once, in order, and never on top of something its author has not seen |
| idempotency keys: `storage/outbox.ts`, `server/http.ts` | `idempotency` table | claim, note target, complete, release, resolve orphans, expire | a key makes one entity and gives one answer |
| index: `storage/reindex.ts`, `storage/board.ts` | `index.sqlite`: rows, file hashes, tombstones | `syncPath`, `incrementalSync`, `rebuildIndex` | it says what the files say, or somebody knows why not |
| outside changes: `storage/watcher.ts`, `external.ts`, `reconcile.ts`, `git-status.ts` | debounce timer, the pass in progress | watch, reconcile, report, rekey | what happened outside is in the log once |
| integrity: `storage/integrity.ts` | `state` and `problem` of rows | quarantine, release | what is hidden is what is broken |
| issue tree: `domain/issue.ts`, `update.ts`, `hierarchy.ts`, `links.ts` | issue files: key, parent, links, status | create, patch, reparent, link, delete with a strategy | keys are unique for ever, no cycles, no silent orphans, no lost update |
| status transitions: `domain/transition.ts` | status, `blocked_from` | the table, admin exception | no status is reached past the table |
| runs: `domain/run.ts` | run files | start, heartbeat, end, cancel | a run ends once, and takes its claim with it |
| claims: `domain/claim.ts`, `storage/runtime.ts` | `claims` table with leases | acquire, renew, release, reclaim | one agent at a time, told on the timeline, never for ever |
| sprints: `domain/sprint.ts` | sprint files, `sprint` of an issue | create, start, close, delete, assign | one is active; no work is left in a closed one |
| ranks and ordering: `domain/rank.ts`, `ordering.ts` | two ranks of an issue | move, spread | what a drag asked for is what the list shows |
| comments, questions, reviews: `domain/comment.ts`, `storage/records.ts` | comment files, ops files | add, edit, delete, answer, resolve | no operation is lost; what is shown is what the log says |
| key collisions: `domain/rekey.ts`, `storage/external.ts` | the plan, former keys | plan, apply | after a merge every key names one issue, the same in every clone, and old keys are still found |
| instance lock: `bootstrap/lock.ts` | a kernel lock | acquire, release | one server for a board |
| bootstrap: `bootstrap/` | the data branch, its worktree, `.gitignore`, the node identity | inspect, classify, plan, execute, roll back, doctor | one board is begun; what was there stays; what is half made is recognised and can be finished |
| users and authentication: `auth/`, `domain/users.ts` | users, tokens, sessions | log in, authorise | a caller is who it says |
| event stream: `server/stream.ts` | epoch, sequence number, buffer, open sockets | attach, publish, cut, disconnect | a window that misses something is told |
| reports: `domain/burndown.ts`, `commits.ts`, `activity.ts`, `export.ts`, `events.ts` | none | read | - |
| formats: `storage/yaml.ts`, `jcs.ts`, `records.ts`, `schema.ts`, `layout.ts`, `resource.ts`, `index-db.ts` | none | parse, print, hash | print and parse agree |
| web client: `web/app.js` | what is shown, open forms and their ETags, calls under way | load, paint, submit, recover | what it shows is the board; no save replaces what the person has not seen; one submit, one issue |
| command line: `cli.ts` | none | - | - |

### 1.2 How they interact

A request enters `server/http.ts`. The route reads what it needs from the index
(all SQLite calls are synchronous), checks, reads the file it will patch, and
awaits `BoardWriter.write`, which queues per path and then runs synchronously to
its end. The route then goes on: the claim is dropped after the run has ended,
the next child is cancelled, the next card is given its rank. So two requests
interleave exactly at their awaits. What one of them read before an await may be
stale after it; the writer's `expectedHash` is what the code relies on, per
file. Nothing protects a decision that was made over several files or over the
index.

The browser is one more set of handlers that overlap at their awaits: every
event makes the window load everything again, answers come back in any order,
and a form holds the ETag of a document it read earlier. Boards of one project
in several clones meet only in git, so what one clone decides (a new key, an op)
another may have decided as well.

Writes of the server, the watcher's reconciliation, start-up
(`bootstrap/lock.ts`, then the journal's `replay`, then orphaned keys, then
expired claims) and the editors and git of people meet in the same files. The
server may die at any point; files, the log and both databases survive.

### 1.3 What is hard

Three stores and no common transaction; a crash between any two durable
effects, also during recovery; keys and rows committed separately; leases that
run out while an answer is under way; routes of many awaited writes; an index
that trails the disk; edits by people who know of none of this. The hazards are
listed, each at its line, in `PROJECT.json`.

## 2. Modules

| module | models | built on |
|---|---|---|
| `AtomicWrites` | the promise of the journal: compare-and-swap, then one event, then finished; or abandoned | - |
| `WriteJournal` | `storage/writer.ts`, `storage/outbox.ts`, the hash column of the index | refines `AtomicWrites` |
| `Idempotency` | `withIdempotency` and the `idempotency` table | composes `AtomicWrites` |
| `IdempotencyProofs` | theorems about it | `Idempotency`, TLAPS |
| `Transitions` | `domain/transition.ts`, `patchStatus` | - |
| `ClaimLease` | runs, claims, leases and the routes over them | `Transitions` |
| `ClaimLeaseProofs` | theorems about it | `ClaimLease`, TLAPS |
| `IssueTree` | issues, parents, links, deletion, index rows, integrity pass | `Transitions` |
| `IssueTreeProofs` | theorems about it | `IssueTree`, TLAPS |
| `Ranks` | `domain/rank.ts` as functions over digit sequences | - |
| `Ordering` | `domain/ordering.ts` | `Ranks` |
| `Sprints` | `domain/sprint.ts` | - |
| `Planning` | `Ordering` and `Sprints` over the same issue files | instances of both |
| `JournalPlanningProofs` | theorems about the journal (the log, the index, the order of writes, the steps of the refinement) and about sprints on a board where everything else goes on | `WriteJournal`, `Planning`, TLAPS |
| `Reconcile` | `storage/watcher.ts`, `reindex.ts`, `reconcile.ts`, `external.ts`, the pass chain of `server/http.ts` | - |
| `ReconcileProofs` | theorems about it | `Reconcile`, TLAPS |
| `Rekey` | `domain/rekey.ts`, `allocateKey`, `patchRekey` as functions | - |
| `Comments` | the ops log of a comment and its replay, as functions | - |
| `Clones` | several servers, git between them: rekeys, comments, ops | `Rekey`, `Comments` |
| `ClonesProofs` | theorems about it | `Clones`, TLAPS |
| `Stream` | `server/stream.ts` and the EventSource of the browser | - |
| `Window` | `web/app.js`: sign-in, loaders, stream, detail | `Stream` |
| `Forms` | `web/app.js`: create, edit, assign, delete, comment, with the server's checks | `Window` |
| `FormsProofs` | theorems about it | `Forms`, TLAPS |
| `Bootstrap` | `bootstrap/`: init, repair-worktree, doctor | - |
| `BootstrapProofs` | theorems about it | `Bootstrap`, TLAPS |

Each module states its type invariant `TypeOK` where its state is not plain from
its declarations. A run checks the journal's; it is a theorem for `WriteJournal`,
`ClaimLease`, `IssueTree` and `Bootstrap` and part of a proved invariant for
`Planning` (there `PlanningTypeOK`, as its `PlanningInit`, `PlanningNext` and
`PlanningSpec`, so that one module can speak of it and of the journal) and
`Reconcile`. The types of `Clones` and `Forms` are parts of their invariants
(`Branches` and `Tables`, `FormTypes`).

### WriteJournal

One step is one durable effect: a commit of the outbox row (`Begin`), the temp
file, the rename or removal, the index step, the append to the log, each stage
marker (`Advance`). `cur` is the call of `#applyFrom` in progress: its row, its
stage and whether that stage's effect has happened; it is lost in a crash. A
crash may come after any of them (`Crash`), in the middle of the append
(`CrashInAppend`, leaving a torn line that swallows the next one), an exception
at any of them (`Fail`), and an edit from outside before or, with `RacyEditor`,
between the comparison and the rename. `Start` sweeps temp files, syncs the
index and lists the unsettled rows; `Replay` compares the file with the hash
before and after the row and goes on, starts over or gives up (`ABORTED`).
`#writeNow` has no await inside, so one row is in progress at a time.

History variables (`landed`, `lastWriter`) remember which write a file's content
came from; no action reads them.

### Idempotency

A key is reserved, the handler's write is accepted by the journal
(`J!Accept`), the key learns its target in a second commit, the response is sent
and then stored. A handler may fail after its write, the server may die
anywhere, and a key may pass its 24 hours. The journal is the abstract one: what
`Idempotency` needs of it is what `ImplementsAtomicWrites` establishes.
`exposed` collects the lives of keys that were released although the journal
would keep the write; the properties hold for the others. People edit the board
beside the server (`OutsideEdit`): a file may be gone or another's when a replay
comes to it, so `RollForward` may give a write up, while its key stays. What a
repeat is then shown (`Shown`) is whatever the file holds, and `supplanted`
remembers whose file somebody has replaced.

### ClaimLease

Handlers stand at the await they are in ("record", "ended", "cancel" and so on);
the locals they carry over the await are in the handler's record. Leases are
countdowns, so an expired claim is one whose countdown is 0; it stays in its row
until the next claim of any issue, a person's release or a start-up drops it, as
in the code. `FAILED` is not told from `DONE`, a person who moves an issue may
do what an admin may (a superset), and a heartbeat, which writes no event,
leaves only its renewal.

A step of a handler may throw (`Fail`): at the claims table, or in its write,
which then was refused, or left a journal row with nothing written or with only
the file written, or was all done; what follows it in the handler is skipped
(`releaseRun` after `endRun`, `http.ts:1399-1410`). The rows left so are in
`rows`, and start-up rolls each of them forward or gives it up (`ReplayRow`)
before it tells of expired claims. `exposed` are the runs torn from their claims
in one of these ways, `revived` those that a heartbeat begun before their end
makes RUNNING again.

### IssueTree

`files` is the disk, `index` the rows that checks read. A request checks the
rows and patches the file (`createIssue`, `updateIssue` and, for its sprint,
`planIssue`, `transitionIssue`, `addLink`, `removeLink`, `deleteIssue`); its write is a later step that fails
when the file is no longer the one that was patched. A deletion is one step per
child and one for the parent. `sprints` holds which sprints have a file and
which a row; here a sprint file goes or comes back from outside only, since
`deleteSprint` is in `Sprints`. `validateBoard` is the integrity pass, run by
`Reconcile`, `Restart` and `Rebuild`: it hides the issues whose parent or sprint
is missing (`Stranded`) and then the loops among the others.

A board to begin with is `Whole`: its keys are one issue's each, its parents are
there and of a type that may have such a child. `loose` names the keys the code
may give twice: a creation is numbered before its awaited write, so two that
overlap get one number (`domain/issue.ts:129-160`), and a rebuild forgets the
tombstones that remember deleted numbers.

### Ranks, Ordering, Sprints, Planning

A rank is a sequence of digits. `midpoint`, `append`, `between` and `spread`
are the arithmetic of the code with `BASE` for 36, over integers: the code
carries digit by digit, the model divides. A move checks its two neighbours
(`at` names them), computes a rank, or a spread of the window around the place;
each file is written in a step of its own, and the place is looked up again by
its number afterwards. A close or deletion of a sprint moves its issues one step
at a time and then writes the sprint. `Planning` joins the two over the same
files, with changes of status, creations, deletions and restarts in between:
a close moves issues between the regions in which others are being spread.
`late` are the unfinished issues that came into a sprint while it closed, or that
a merge had left in a closed one before the server started.

### Reconcile

`disk` is the issue files, `index` the three tables that follow them, `touched`
the files whose size or mtime tells that they changed. The watcher keeps one
pending hint (`Edited`, `fire`, with its escalation); the passes that have been
asked for queue up (`queue`), because `http.ts` chains one promise to the next,
and `Skip` is that chain's rejection handler: the pass after one that threw does
nothing. `Begin` reads the board and commits the index in one step (`loadScannedFile` and
`retirePath` say for all the files of the pass at once what the code does to one
after the other), and leaves
the events of what it found in `owed`; `record_` writes them one at a time while
files go on changing. `applyFrom` is a write of the server, which takes in
its one file with its own event and runs no check of the board (`createIssue`,
`updateIssue`, `deleteIssue`); the watcher sees it as it sees any change.
`Silently` is a sync nobody tells of (`openBoard`, and creating a
user); a request to verify is a pass ("manual") of the chain whose error somebody
receives. `told` is what the log last said of a path, and `lost`
and `unseen` name the paths of which something was not told or not read, and
`strayed` the uids a write found in a file known to have another, each
filled by named actions: the properties hold for all the others.

### Rekey, Comments, Clones

`planRekeys` is the plan as a function of the claimants, `replay` the state of a
comment as a function of its log. `Clones` gives each clone its files, its rows,
the plan its server is applying and the ops whose write is queued. `pull` merges
file by file, as git does: two different changes of one file become a conflict,
which a person resolves in one of three ways. A rekey is one step per file, so
a pull, a creation or a crash falls between any two. `createIssue`,
`reconcileFull`, `applyRekey`, `addComment`, `appendOp` and `writeOp` are the
code's; `push`, `pull`, `resolve` and `Touch` are git and people.

### Stream, Window, Forms

An async function of `app.js` is a task: the calls it has still to make, the
first in flight. The server answers it (`read`, `updateIssue` and so on), the
network may lose it, and one answer at a time is handed to its function (the
`...Lands` actions), which paints and makes the next call. The board is the
number of its last change and a file the number of the change that wrote it,
which stands for its ETag. `Stream` is what the window hears: attach with a
Last-Event-ID, the buffer that has moved on, a restart with a new epoch.
`stale`, `unheard`, `gap` and `hasty` name the cases in which the window is
wrong for a reason that is in the code (section 3, end). A deletion of an issue
with children is three steps of the server: `deleteIssue` checks the strategy
and the ETag, `moveChild` stands for the awaited writes of the children, which
are announced to no window (`unannounced` of `Stream`) and may fail, and
`removeParent` reads the parent again and removes it, whatever its version.

### Bootstrap

One step is one git command or one file written. `plan` looks at the repository
and classifies it (`classifyBootstrapState`), `Plan` is the list of actions of
that state, and `Step` runs them; `fail` turns to `Undo`, and `Crash` leaves
everything as it is. A branch is the sequence of its commits, of which `board`
marks the one that begins a board. `inspectBootstrap` is doctor, and `Follow` is
a person who does what it says: remove what a crash left, move a directory out
of the way, switch back, add a rule by hand (`addRule`), or run init or repair
where doctor advises them (`runAdvised`). Other people push, commit, clean and
detach, and one of the board's files may be deleted (`Loses`).

What a `.gitignore` says of a path is one of four `Rules`: nothing, a rule for
every depth (`loose`), the rule for the root (`anchored`), or that rule and its
negation after it. init and doctor read them differently, by `Covers` and by
`Accepts`. A worktree is registered, and its directory is there or not (`dir`).
A rollback removes one with `removeWorktree`, whose `git worktree prune` drops
every registered one whose directory is away (`Away`): the board's, and
`linked`, a worktree of the code that a person keeps elsewhere.

## 3. Runs

| run | shows | instance |
|---|---|---|
| `recovery` | the journal implements `AtomicWrites`; writes land in order; every accepted write is settled and has its event | 1 path, 2 contents, 2 writes, 2 crashes, 1 edit |
| `adversity` | events once, and only of changes that happened; index lag explained | 2 paths, torn appends, exceptions, racing editor |
| `retry` | one entity and one answer for a key; no key in progress for ever | 2 clients, 1 key, 2 different bodies, 3 writes, 2 crashes, 1 error, 1 expiry, 1 edit |
| `lease` | contention for one issue: ghosts are explained, live claims do not vanish | 2 agents, 2 runs, 2 clients, lease 1, 1 step that throws, 1 crash |
| `expiry` | the timeline is true while issues move; leases run out unless their own run renews them | 2 issues, 1 blocked by the other, 2 runs, 1 client, lease 2, 2 moves, 1 step that throws, 1 crash |
| `tree` | overlapping requests and deletions keep a tree, keys and the fields others wrote | 4 boards on 3 uids, of which up to 2 are free for creations, 1 sprint, 2 clients, 2 requests, 1 edit, 1 fault |
| `planning` | ordering and sprints together | base 2, ranks up to 4 digits, window 1, 4 issues, 2 sprints, 2 clients, 2 moves, 3 requests |
| `reconcile` | the index is a function of the files; each change from outside is told once or lost for a named reason, and no write of the server is; deletions are real | 2 paths, 2 uids, 3 edits or writes, 1 fault, grace 1 |
| `clones` | keys become unique, alike in both clones, the earliest issue keeps its key; ops are kept and replayed | 2 clones, 4 boards with up to 5 issues and 1 comment, 2 crashes or 2 ops |
| `client` | views are current or stale for a named reason; nothing unseen is replaced; one issue per form; windows recover | 11 scenarios, 2 issues, one with a child, buffer 1 |
| `setup` | one board is begun; nothing found is lost; doctor is right and leads to a board | 8 repositories (with and without a remote, each rule in the code and on the board, a linked worktree there or away), 2 commands, 3 temporary worktrees |
| `comment` | (violation) the same words under a second issue are not written | 1 window, 2 comments |

**Why the bounds are enough.** Two contents and "no file" are three hashes: a
replay can find the one before, the result, or neither. Two writes of one path
are the least in which order can go wrong without exceptions, three with one
(a failed write, a write, and a write that restores the content the failed one
had found). Two crashes make a replay of a replay. Two clients are what every
two-party race needs; three issues are a grandparent, parent and child, or a
parent with two children, or a loop with one outside. Base 2 with four digits
has the same cases as base 36 with 32 (adjacent ranks, no room at the end, no
room before the lowest, ranks of full length) and reaches them in one move; with
a window of 1 on each side there are issues outside the window on a board of
four. `RanksFit` is checked for every pair of the ranks there are.
Two paths and two uids are a move, a copy, a swap and a duplicate (the uids are
symmetric, the paths not: a pass tells of them in one order); three edits
make one of those and a change on top while a pass is telling. Two clones with
one doubled key are a collision, and the board with two doubled keys is a plan
of two rekeys, cut between them. `client` and `setup` start from scenarios that
each allow a few kinds of event and are checked together: every pair of hazards
that share a piece of state (the stream with a lost answer, a form with another
client's change, a crash with a second command) is in one of them. A buffer of
one event is passed by two changes. What the bounds cannot show: three-way
races, three clones, and arithmetic peculiar to 36 or 32.

**Fairness.** `recovery`: weak fairness of the server's own steps
(`#applyFrom` and `replay` are synchronous code that does not wait for
anybody, and a stopped server is started again by its operator); writes, edits
and crashes are not fair. `retry`: the same for recovery and for every handler
(the event loop runs what is ready). `expiry`: time passes, handlers go on, a
stopped server is started again; no agent has to send anything.
`LeasesRunOut` does not assume agents are silent: either the run renews for
ever, or again and again it holds nothing. `client`: the window, the server and
the network go on (an answer arrives or is lost, the browser reconnects); no
person has to do anything. `setup`: a command that has begun goes on or dies, and
the person does what doctor says, which is what `SetupSucceeds` is about. The
other runs check safety only.

**Deadlock** is off where a behaviour ends because its bounds are used up or all
runs have ended; a system nobody sends a request to stands still.

### Where the code and its documents disagree

The run `comment` is the counterexample of one property: a comment's
Idempotency-Key is made of its text and kind, and the server's fingerprint of a
request does not contain its path, so the same words under another issue are
answered with the first issue's comment (`web/app.js:2774`,
`server/http.ts:1113`).

The others are visible in the models as the named exceptions of properties that
hold without them:

- After an exception inside a write its row stays `PENDING`; later writes are
  acknowledged, and a restart can replay the old one over them when the content
  it had found happens to be back (`storage/writer.ts:224`; `WritesLandInOrder`
  is checked without exceptions).
- The outbox row and the key's target are two commits (`storage/writer.ts:120`);
  r15 says a crash between them makes no second entity (`exposed` of
  `Idempotency`).
- Two creations that overlap are given one key, and the second is written when
  the file of the first is gone again (`domain/issue.ts:129-160`; `loose` of
  `IssueTree`).
- A file that is hidden as a duplicate when it stops parsing keeps the label of
  stage B: `INSERT ... ON CONFLICT` at `storage/reindex.ts:402-406` does not
  write the stage. The next check releases it, so an unreadable file is shown,
  against the comment at `storage/integrity.ts:70-72` (`mislabelled` of
  `VisibleIsExplained`).
- A replay gives up a write whose file somebody has replaced, and keeps its
  key: the retry is answered with the issue that is now in that file, which the
  request did not make (`storage/writer.ts:235-241`, `server/http.ts:1181-1189`).
  The comment at `http.ts:166-169` says that a kept key names a resource that
  "now exists" (`shows = "foreign"` in `RepeatsGetTheFirstAnswer`).
- The claim goes after the run (`server/http.ts:1406`); a crash in between, or
  an exception once the file says DONE, leaves the ghost its comment says cannot
  be, and so does a replay that ends a run (`exposed` of `ClaimLease`).
- A heartbeat that read its run before the run ended writes RUNNING over the
  end (`domain/run.ts:330-338`), and the run may claim again: "A finished run
  cannot come back", says `domain/run.ts:183-184` (`revived`).
- DONE has no move to CANCELLED (`domain/transition.ts:28`), so a cascade stops
  at a finished child; r02a says every status has one (`GiveUp`).
- "No rank" is read as "no neighbour" (`domain/ordering.ts:113`): a card dropped
  below an unranked one lands elsewhere (`RankedMovesLandWhereAsked`).
- "Every member is quarantined", says `storage/integrity.ts:182-187` of a loop
  of parents; but rows hidden for a missing sprint are no longer looked at
  (`storage/integrity.ts:191`), so the rest of a loop with one of them is shown
  (`Sound` in `QuarantineIsExact`).
- A request looks an issue up in the index and patches the file as it is by then
  (`domain/update.ts:156-158`): if a person has put another issue's file there,
  that is what is patched, and `syncPath` (`storage/reindex.ts:517-556`) shows
  it beside the one whose uid it has, until the next pass (`strayed`). The event
  of a change from outside that a pass still owes comes after that of a later
  write of the path (`Overtaken`).
- The incremental pass makes a tombstone and writes no `issue.deleted`
  (`storage/external.ts:42-90`), which r08c asks for
  (`SilenceIsExplained` admits a file that is gone).
- A rollback deletes the branch before it detaches the worktree that is on it
  (`bootstrap/execute.ts:409-450` in the order of `plan.ts:87-115`); git
  refuses, the refusal is ignored, and the branch stays.
- "Only artifacts this run created are undone. Existing refs and user data are
  never removed", says `bootstrap/execute.ts:415-416` of a rollback. But the
  `git worktree prune` that follows each removal (`execute.ts:468`) drops every
  other worktree whose directory is away, such as one on a disk that is not
  mounted; and a directory that somebody put at `.localjira` after init looked
  takes the new worktree in (`git worktree move`) and is deleted with it
  (`execute.ts:467`). Both are exceptions of `KeepsWhatItFound`.
- init takes a rule without a leading slash for one that covers the board
  (`bootstrap/ignore.ts:100-110`, tested at `init.integration.test.ts:401-409`)
  and writes nothing; doctor accepts only the rule for the root
  (`doctor.ts:203-219`). A finished init is `E_INCOMPLETE_BOARD` there, and
  every further one is too (`"loose"` in `DoctorIsRight`); the rule has to be
  added by hand, as doctor says.
- "Git applies the *last* matching pattern", says `bootstrap/ignore.ts:23-30`,
  and init minds a negation; doctor does not, and calls a board ready whose rule
  is negated further down (`Accepts("negated")`).
- For missing files doctor advises init (`doctor.ts:144-149`), but the plans for
  a board that is there (S3, S8) have no step that restores any
  (`plan.ts:45-184`): `Stuck`, and an exception of `DoctorIsRight`.
- A board directory that was removed by hand stays registered as a worktree;
  doctor sees a worktree whose files and rules are missing and advises init. For
  init and for repair-worktree the repository is in S4, which both refuse
  (`bootstrap/commands.ts:262-272`), though the second is there for "a board
  whose worktree disappeared" (`commands.ts:93`; `Stuck`).
- Opening the board and creating a user take changes in without an event
  (`Silently`); a pass after one that threw is
  skipped (`Skip`), and a pass that throws with nobody behind it is an unhandled
  rejection, which ends the server (`Throw`).
- Two clones that create an issue with the same key write the same path, so git
  stops with an add/add conflict, against r26; so do two op logs of one comment.
- Two ops of one comment under way together lose the first, against the comment
  at `domain/comment.ts:207-208` (`raced`).
- Rekeys that were planned before a pull or creation are applied to the files as
  they are then (`crossed`, `muddled`); `patchRekey` of a file with conflict
  markers patches the first side it finds. Questions stay under the old key's
  directory and no longer block the issue that was rekeyed
  (`storage/records.ts:245`).
- A body read again after its log resets what the log said (`reread`).
- In the window: answers may land in another order than they were asked
  (`stale`); changes between the first load and the first event id are not
  heard (`gap`); if the stream is refused and the answer to `/me` is lost it
  says it is reconnecting for ever (`unheard`); a picker can be used before it
  is painted for the open issue (`hasty`).
- "Deleting anyway would destroy a version nobody in this window ever saw", says
  `web/app.js:2602-2603` of a refused ETag. With children the ETag is compared
  before they are written (`domain/update.ts:911`), each by an awaited write, and
  the parent is then read again and removed at the version it has by then
  (`update.ts:943-947`; `hasty`). The children's writes publish no event
  (`server/http.ts:2031-2038` sends one, of the parent, when all is done), so
  that a cascade which fails half-way is seen by no window (`gap`).
- A key kept for a comment or a run across a crash cannot be read back and its
  retry gets 409 until the key expires (`server/http.ts:1181`, against
  `168-169`): `ReadBack` in `Idempotency`.
- The number of a deleted last sprint is given out again (`allocateId`; the
  comment at `domain/sprint.ts:830` says otherwise).
- A deletion of a sprint reads its file at the end and removes it whatever its
  status is by then (`deleteSprint` and `WriteStatus` in `Sprints`); a close
  moves an issue that has meanwhile gone to a third sprint (`MoveOut`).
- A subtask can lose its parent in a cascade, and be created without one,
  against the comment at `domain/update.ts:892-894`.
- An issue blocked by a deleted one stays unclaimable (`domain/links.ts:197`).
- Taking any claim drops every expired claim without telling
  (`storage/runtime.ts:102`); a run whose claim was reclaimed stays RUNNING.
- A spread that is interrupted may leave the issues inside its window reordered
  among themselves (`SpreadsAreLocal` says it is not worse than that).

## 4. Theorems

Each holds for every value of the constants that its module's assumption
admits: any number of paths, issues, clients, clones, agents, keys, writes,
crashes, edits and faults.

| module | theorem | says |
|---|---|---|
| `JournalPlanningProofs` | `JournalInvariant`, `TypeCorrect` | `Spec => []JournalInv`, and `TypeOK` with it |
| | `NoDuplicateEvent` | `LoggedAtMostOnce`: no event twice, however often the server crashes and replays |
| | `EventsAreTrue` | `LoggedHasLanded`: the event of a write is in the log only if its result has been in its file |
| | `LogStaysTrue` | `LogIsTrue`: the two together, as the run `adversity` checks them |
| | `NoLostEvent` | `DoneIsLogged`, if no append is torn: a row past its event step has exactly one line |
| | `IndexIsExplained` | `IndexLagIsExplained`: a row that is not the hash of its file has one of the named causes |
| | `WritesKeepTheirOrder` | `WritesLandInOrder`, if no write throws |
| | `JournalIsAtomic` | `ImplementsAtomicWrites`, if appends are whole and no editor races: the refinement, step by step |
| | `PlanInvariant` | `PlanningSpec => []PlanInv` |
| | `SprintsStaySound` | `SprintsAreSound` |
| `IdempotencyProofs` | `KeysInStep` | `Spec => []KeyInv` |
| | `OneEntityPerKey` | `OneEntityUnlessExposed` |
| | `RepeatsAgree` | `RepeatsGetTheFirstAnswer` |
| `ClaimLeaseProofs` | `ClaimInvariant`, `TypeCorrect` | `Spec => []ClaimInv`, and `TypeOK` with it |
| | `TimelineStaysTrue` | `TimelineIsTrue` |
| | `GhostsStayExplained` | `GhostsAreExplained` |
| | `ClaimsAreKept` | `ClaimsDoNotVanish` (of steps) |
| `IssueTreeProofs` | `TreeInvariant`, `TypeCorrect` | `Spec => []TreeInv`, and `TypeOK` with it |
| | `KeysNameOneIssue` | `KeysAreNotReused` |
| | `RequestsKeepTheTree` | `TreeStaysWhole` |
| | `PatchesKeepTheRest` | `NoLostUpdate` (of steps) |
| | `PassesHideWhatIsBroken` | `QuarantineIsExact` (of steps) |
| `ReconcileProofs` | `ReconInvariant` | `Spec => []ReconInv` |
| | `IndexShowsItsFiles` | `VisibleIsExplained` |
| | `NoEditIsToldTwice` | `ChangesAreReportedOnce` |
| | `SilenceHasAReason` | `SilenceIsExplained` |
| | `HintsAreFollowed` | `NothingIsOverlooked` |
| | `TombstonesHaveAReason` | `DeletionsAreExplained` (of steps) |
| `ClonesProofs` | `ClonesHold` | `Spec => []CloneInv` |
| | `KeysHaveSettled` | `KeysSettle` |
| | `ClonesAgreeOnKeys` | `SameIssuesSameKeys` |
| | `EldersKeepTheirKeys` | `EarliestKeeps` (of steps) |
| | `AcknowledgedOpsStay` | `OpsAreKept` |
| `FormsProofs` | `FormsInvariant` | `Spec => []FormsInv` |
| | `SavesReplaceWhatWasSeen` | `NothingUnseenIsOverwritten` |
| | `OneOpeningOneIssue` | `OneIssuePerForm` |
| | `ActivityIsOfTheOpenIssue` | `TimelineIsItsIssues` |
| | `ViewsAreExplained` | `StaleViewsAreExplained` |
| `BootstrapProofs` | `BootstrapInvariant`, `TypeCorrect` | `Spec => []BootInv`, and `TypeOK` with it |
| | `OneBoardIsBegun` | `OneStructuralCommit` |
| | `CommandsKeepWhatTheyFind` | `KeepsWhatItFound` (of steps) |
| | `DoctorTellsTheTruth` | `DoctorIsRight` |

### The invariants, and why each part is needed

**`JournalInv == TypeOK /\ Handover /\ OneLine /\ WholeLine /\ FileFirst`.**

- *At most one line* fails on a state in which a fresh write is before its
  append and its line is already there. `OneLine` adds that there is none
  (a fresh write appends without looking; a replay looks first).
- A replay starts at a row of `todo`, so its row must be unsettled, not the one
  in progress, and nothing is in progress while the server is down: `Handover`.
- *A line only if landed* needs that the stages past the file step mean landed,
  for rows and for the call in progress: `FileFirst`.
- *No lost event* needs that between the append and its marker the line is
  there, and that the log does not end in a fragment: `WholeLine`.

The index, the order of writes and the refinement each add a small invariant of
their own on top of it. The refinement has a lemma for every action: it maps to
a step of `AtomicWrites` or to a stutter.

**`KeyInv == Typed /\ Journalled /\ Holding /\ Single /\ Remembered /\ Answered`.**
*One entity* (`Single`) is broken by a handler that writes for a key which
already has an entity. It cannot, because a handler that has claimed its key has
it to itself (`Holding`), and what a key has made is in its record or in the
hands of the handler that has not noted it yet (`Remembered`), so that whoever
finds the key free finds it without an entity. `Journalled` is what it uses of
the journal: a creation whose path holds nothing has not landed, unless somebody
has removed it. `Answered` carries the same over to the answers already given,
and says of each what it showed: something that had landed, or the file of
somebody else (`Real`).

**`ClaimInv == TypeOK /\ Named /\ Sweeping /\ ClaimsAreTold /\ EndsAreTold /\ Ghosts /\ Revivals`.**
The properties speak of runs that claims, requests and events name; `Named` says
that these runs are real. `ClaimsAreTold` extends the first half of
`TimelineIsTrue` to expired claims, which a heartbeat may bring back to life;
`EndsAreTold` covers the requests and journal rows that stand between the end of
a run and what is told of it; `Ghosts` covers the run that is about to be
cancelled, by a request or by a row; `Revivals` says that a run which is RUNNING
after its end, or about to be made so, is in `revived`, so that the claims it
takes then are explained; `Sweeping` makes start-up's list of expired claims stay
expired until it is swept, and says that nothing is in flight while the journal
is replayed.

**`TreeInv == TypeOK /\ Ledger /\ Handling /\ Branching`.** A request checks
rows and writes later, so the invariant says of every request in flight what it
may still rely on: a creation has a uid of its own (`Creating`), a patch keeps
what it does not name (`Patching`), and whatever hangs below an issue that is
going is on the deletion's list or is a named exception (`Covered`). `Ledger`
keeps the numbers given out and remembered. `Branching` keeps the types of a
child and its parent fitting, which is why nobody but an editor closes a loop:
`ALLOWED_PARENTS` has no cycle of types (`TypesEnd`). The attempt to prove that
keys are unique found the overlapping creations of `loose`.

**`PlanInv == Shaped /\ Starting /\ Emptying /\ S!NoWorkIsLeftBehind`.** Until
two starts meet there is one at a time, and it will find what it found
(`Starting`); whatever a close or deletion has still to find in its sprint is on
its list or came late (`Emptying`). The moves of cards, which share the files,
change no status and no sprint.

**`ReconInv == TypeOK /\ Known(index) /\ CheckedBut(index, strayed) /\ Owing /\
Counted /\ Reported /\ Hinted`.**

- `Sound` is what every way to take in a board keeps: the rows say what the
  files that were read last said (`Follows`), and stage B has been over them
  (`Checked`). A write of the server keeps the first (`WriteIs`) and of the
  second what concerns no uid in `strayed` (`WriteChecked`). It is proved for load, retire, revive, release, quarantine and
  grace each (`Loaded`, `Retired`, `Dropped`, `ReleasedIs`, `Validated`,
  `Confirmed`), and composed for the passes, the silent sync and the rebuild.
  The attempt found the file of `mislabelled`.
- *At most one report* (`Counted`) counts for a path the change that has not
  been read and the event that is still owed; it needs that a pass owes one event
  of a path at most (`Owing`), hence that `SetToSeq` lists a set without
  repetition (`ToldNames`).
- `Reported` and `Hinted` are `SilenceIsExplained` and `NothingIsOverlooked`
  while something is under way: what is still owed will be told, and what is
  still asked for will be read.

**`CloneInv == Housed /\ Tables /\ Numbered /\ Remembering /\ Planned /\
Logged /\ (\A k \in Clone : Steady(k)) /\ Destined`.**

- *Housed.* Keys settle only if nothing that a pull brings can put a second file
  of an issue beside the first. An issue keeps the place it was written at
  (`Homed`), two places of a store never hold it alone (`NoTwins`), and what two
  clones know of came through the branch (`Travelled`), so that a merge at a
  place is always one of versions of the same issues. `Numbered` says that a new
  issue is new to every clone.
- *Remembering.* That a key an issue has had still finds it needs that versions
  only gain keys: the base has no more than the clone and the branch
  (`Outgrown`), and an issue's file has all the keys its clone has given it
  (`Remembers`). It is false of an issue of which a person chose one of two
  versions, and of one that a merge leaves in two files at once. The second
  needs three clones, which the run has not; the attempt to prove `KeysSettle`
  found it, and such an issue is `muddled` since then.
- *Planned.* A plan fits the files until the board changes under it: each entry
  names a file that is there, whose issue has the key the entry takes away and an
  elder that has it, the new key is above all there are and below those of the
  entries after it (`FitsAt`), and what still collides is still to be rekeyed
  (`Fitting`). So a plan that is empty means that no two issues have one key,
  which is `KeysSettle`, and the first entry of a plan has an elder, which is
  `EarliestKeeps`.
- *Steady, Destined.* A clone that has rekeyed `i` of its losers shows the board
  it planned from with those `i` moved (`After`), the next new key being the
  highest key and the loser's turn (`Turn`); a plan that was cut short and is
  made again gives the rest the turns they had. So the new key of an issue is a
  function of the issues and keys planned from (`SameIssuesSameKeys`). That each
  loser has a turn of his own and every turn its loser is `Ranking`, a lemma on
  any strict order of a finite set.
- *Logged.* A log has the lines of the base, the branch too, and a queued op the
  lines of the log it will replace, unless another op or a pull came in between
  (`raced`): nothing acknowledged is overwritten (`OpsAreKept`).

**`FormsInv == FormTypes /\ Versions /\ AllFit /\ EditIsSafe /\ DialogIsSeen /\
PickersAreSeen /\ KeysAreKept`** and the properties themselves.

- That no save overwrites what was not seen does not hold because every form
  holds a version that was on the screen: `showConflict` puts the newest version
  of one issue into whichever form is open by then. It holds because such a
  version is `Past` for the issue of that form: versions name one issue
  (`Versions`) and are not given twice (`Later`), so the server refuses it.
  `Safe` is the two cases together and is kept by every write (`SafeStays`).
- `AllFit` says it of the saves under way too, and of every other task that it
  is made of loaders whose followers are still there (`Orderly`; `From` only
  cuts off a beginning, `FromIsOrderly`). `PickersAreSeen` needs it: between the
  two answers of `loadAssign` the loader itself is what says that the version
  is not on the screen yet.
- `KeysAreKept` ties the issues that one opening made to the keys the server has
  answered.

**`ViewsInv == StreamInv /\ Shown /\ Dated /\ Tracked`**, on top of `FormsInv`,
is what *a view at rest is the board as it is* needs.

- `StreamInv`: the numbers in the buffer and on the wire rise to the last one
  given (`Rising`, `Sent`), and the position of a source is not beyond it. So an
  attached source that has a position has nothing on its way exactly if its
  position is the last event. That is what the check of the epoch and of the
  oldest buffered event is for: without the epoch, the position of an old process
  would look current.
- `Told` says that the source will yet be told of something, and then the window
  loads everything again. `Goods` are the changes a view may have been loaded
  from: all of them while `Told`, and else the last one and those before the
  `gap`. Every view that is `Due` is `Tracked`: it is good, or a task brings a
  good one or will ask for one (`Owed`), and an answer on its way that would be
  painted over it is so as well.
- A step of the stream is `Loud` (whatever has been loaded is good after it: a
  change, a cut that loses something, a new source) or `Quiet` (what was good
  stays good). After a loud step nothing is owed. Under a quiet one every loader
  must be handed on (`Hands`): calls are answered or go on, and when one lands,
  what its function has still to load is asked for by the same function
  (`CarriedBrings`). This is where a loader is skipped, because no detail is open
  or another tab is shown, and where an answer older than what is shown makes the
  view `stale` (`LandingTracks`).
- An event asks for all that is due (`onEventShows`), whatever it says and
  whatever was under way.

**`BootInv == TypeOK /\ Exclusive /\ Whole /\ OnTheirWay`.**

- Every branch, here, at the remote or as last fetched, is a history that one
  scaffold begins (`Histories` in `TypeOK`): *one board is begun* is the case of
  the local branch. It is kept because a plan with a `commit` finds no branch,
  and `commit <=> branch = None` stays true of that command alone until it has
  committed (`Begins`): the lock keeps the others out (`Exclusive`), `track` and
  `commit` are never in one plan, and nothing else makes a branch.
- A plan is described by the set of its steps that are left and by an order of
  them, one for plans that make a board (`Making`) and one for plans that take
  the one there is (`Taking`); `PlanShape` says it of every plan, and a tail of
  a plan keeps it. `Reaches` says what the steps no longer left have brought
  about: with none left, that is a board with rules that init takes for
  covering, which doctor calls ready unless one of them is `loose` or the board
  was there before and had lost files.
- `OwnsTemp`, `OwnsBranch`, `OwnsTree` say that what a rollback would take away
  is in `made`. They need `Whole`: the rollback deletes the branch only when no
  worktree is on it, and that is safe because whoever is on the branch is the
  only one. `OwnsTree` is also where a directory that someone put in the way
  comes in: the worktree is then inside it.
  The one thing a rollback takes besides is `Away`, which `KeepsWhatItFound`
  names: what `git worktree prune` drops.
- `Whole` says of the worktrees what holds whoever has made them (a temporary
  one is never away, and one that is away was on the branch and has no files);
  the two claims about doctor with no command running follow from it alone.

### Assumptions

They are the `ASSUME`s of the modules, which TLC evaluates in every run.

- `ClonesAssumption` (`Sound`): there is a clone, the bounds are numbers, and a
  board to begin with is a branch without conflicts and clones of it that hold
  what is shared as it is there, each issue in one file; issues that were not
  pushed yet are one clone's. Nothing is asked of their keys.
- `NoneAssumption` (in `Stream`): the mark for "none" is no source.
- `WriteJournalAssumption`, `IdempotencyAssumption`: the marks for "absent" and
  "unchecked" are no contents, and there are a key and a request. Three
  theorems say more: appends are whole (`NoLostEvent`, `JournalIsAtomic`), no
  editor saves between a comparison and its rename (`JournalIsAtomic`), no write
  throws (`WritesKeepTheirOrder`). Without these the statements are false, as
  section 3 says.
- `ClaimLeaseAssumption`: there is an issue, and a lease lasts (`LEASE_MS > 0`).
- `IssueTreeAssumption`: there are finitely many uids, and the boards to begin
  with are `Whole`. The code gives no promise for a tree that was broken before.
- `PlanningAssumption`: uids are numbers (the order in which issues are listed),
  there are finitely many sprints, and "none" is none of them. Nothing is asked
  of the boards to begin with.
- `ReconcileAssumption`: there are finitely many paths, a file that does not
  parse is no issue, and the grace of a tombstone lasts (`DELETE_GRACE_MS > 0`).
- `NamesAssumption` (in `Bootstrap`): no process, path, history or worktree is
  the mark for "none", and `.localjira`, what may lie inside it, a branch and a
  directory are not temporary names. `ScenariosAssumption` (in `Bootstrap`): the
  repository to begin with has no board, or each version of its data branch was
  begun once; it has no worktree of the board there, and of the code at most
  one (`linked`). That is what git holds before the first command; what commands
  and people make of it is the model's.
- `ScenariosAssumption`, `PanelsAssumption` (in `Window`): a behaviour starts
  with a window that has just been opened or has loaded what it shows, on a
  board whose issues have versions of their own. Its source, if it has one, has
  no position yet or the one before the first event.

### Only model-checked

- Everything that must eventually happen, and fairness, which are beyond the
  prover: `EveryWriteSettles`, `NoKeyStaysInProgress`, `LeasesRunOut`,
  `WindowsRecover`, `SetupSucceeds`.
- `TypeOK` of `Idempotency`, whose bound on the lives of all keys together is a
  sum over a set.
- `RanksFit` and what else depends on the arithmetic of ranks: folds over the
  digits of a number, an induction over data.
- `CommentsAreReplayed` of `Clones`: a row is the state its log replays to, and
  `replay` is a fold over the lines after a sort of them, an induction over data.
- `OrderIsKept` of `Planning` (`SpreadsAreLocal` is a part of it), for the same reason as
  `RanksFit`.

## 5. What is abstracted

- Contents are values told apart by hash; resources other than issues and
  sprints appear only as paths. Formatting, wording and validation of single
  fields are left out.
- A write inside `Idempotency`, `ClaimLease`, `IssueTree`, `Sprints` and
  `Ordering` is one step that happens or fails. A crash in the middle of a
  write is either not begun or rolled forward by the journal before the server
  takes requests, which is the same as a crash before or after the step.
- Handlers interleave at any of their awaits. Between two awaits that are
  already resolved the engine is less free; the extra interleavings occur when
  requests that waited for an index rebuild are let go together
  (`server/http.ts:220-232`).
- Left out of `WriteJournal`: the process id in temp names, `Outbox.prune`
  (nothing calls it), hand edits of the event log, short writes without a crash.
  The size-and-time shortcut of `incrementalSync` is in `Reconcile`.
- `Idempotency` bounds the lives of a key by `MaxAges`. An exception inside
  `completeIdempotency` (`server/http.ts:1156`), which leaves the key in
  progress until the next restart, is not among its faults; nobody edits inside
  the synchronous `#writeNow`.
- `ClaimLease`: events are a set, and the clock does not go back. The file of a
  run is its state: that a heartbeat changes the hash of a file and not its
  state is in `ReplayRow`, which may always give a row up. A write whose index
  step failed is in `WriteJournal`.
- `IssueTree`: one file per uid (duplicate uids, files that do not parse,
  renames and the grace period of a tombstone are in `Reconcile`, former keys in
  `Clones`); sprints do not close (that is in `Sprints`) and their files parse;
  `If-Match` is fresh when a request arrives; the check
  and write of one child in a cascade are one step.
- `Planning`: rows equal files; two statuses, one settled and one not; sprints
  are their status. Exempt from the properties, each by name: starts in flight
  together and boards a merge left with two active sprints (`contested`), issues
  that enter a sprint while it closes or that a merge had left behind (`late`), moves that others wrote past
  (`disturbed`), moves below an unranked issue, and windows bounded by ranks of
  full length.
- `Reconcile`: issue files only; reading the board is one step; a write of the
  server is one step that does not fail (its stages are in `WriteJournal`, a
  deletion's awaits in `IssueTree`); the run has one text for each uid, so that
  it sees creations, deletions and changes of uids; a batch of the
  watcher is what it asks for, not its paths; a clock of whole ticks.
- `Clones`: a clone's server is always up but for `Crash`; a merge is per file;
  a person chooses one of two versions, or the lines of both logs; other fields
  of an issue are not followed. The watcher's full pass is due after every pull.
- `Window` and `Forms`: one window, one person; the board is a counter. Moves by
  drag and drop are left out (they read a fresh ETag just before they send it,
  which makes their check blind), and so are the panels of comments, commits and
  runs, which paint without asking whether their issue is still open, and all
  that publishes no event (sprints, claims, runs, comments). The day after which
  a key is forgotten is in `Idempotency`. That another tab signs in between the
  refusal of a stream and the answer of `/me` is left out with the other tabs.
  The children of a deletion are moved by one write, and the answer of a deletion
  under way is not lost before it has been given (`Begun`). `Panels` gives `client` one of the two
  panels that an event reloads; they are loaded by the same calls.
- `Bootstrap`: looking at the repository is one step; `git worktree remove`,
  `rm` and `mv` by people happen between commands. `E_NO_CODE_COMMIT`,
  symlinks, a dirty orphan and a start outside the primary worktree are refusals
  without effect and left out; the rewrite of `.gitignore` (not atomic,
  `bootstrap/ignore.ts:90`) is one step. The helper process that holds the flock
  is a variable. Of other worktrees one is kept, as there or away. A directory at
  the path of the board's worktree, once that is registered and away, is taken
  for it by init and by doctor alike (`inspect.ts:118-123`, `doctor.ts:182`).
- One server: the instance lock is an assumption.

Not modelled: users and authentication (who a caller is is an input), reports
and formats (pure functions of files), the command line (prints what the
modelled operations return), what a person types into bootstrap, and in the web
client everything that only lays out. In parts: runs (their bodies), sprints
(their fields), integrity (the two reports that hide nothing), questions and
reviews (who may resolve). `PROJECT.json` gives each with its reason.

## 6. Plan

Modelled and checked, in this order, the most important behaviour first:
`WriteJournal` over `AtomicWrites`; `Idempotency`; `ClaimLease` with
`Transitions`; `IssueTree`; `Ranks`, `Ordering`, `Sprints`, `Planning`;
`Reconcile`; `Rekey`, `Comments`, `Clones`; `Stream`, `Window`, `Forms`;
`Bootstrap`.

Left: `Startup` (lock, refresh, replay, keys, claims in their order, with two
processes), and drag and drop in `Forms`.

Theorems next: the order lemmas of `Ranks` (`Precedes` is a strict order), and
with them what a single move keeps of the order. An induction over sequences
that the provers can use would be needed for `RanksFit` and
`CommentsAreReplayed`.
