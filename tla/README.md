# A formal model of Trackstar

Trackstar is a story tracker: a Go server over one SQLite file, with a Svelte
board in the browser. These modules model its core in TLA+. TLC checks them on
small instances; TLAPS proves the statements that matter most for every value
of the constants. Everything is translated from the code under `src/`;
`PROJECT.json` (`map`) names the lines each definition stands for.

Contents: [the system](#the-system) · [the modules](#the-modules) ·
[the runs](#the-runs) · [the proofs](#the-proofs) ·
[disagreements](#where-the-code-and-its-comments-disagree) ·
[plan](#the-plan) · [what is left out](#what-is-not-modelled-and-why)

## The system

### Components, their state and operations

| component | code | state | operations |
|---|---|---|---|
| Positions | `internal/story/position.go`, `place` in `story.go` | `stories.position` | Between, Normalize, place |
| Stories | `internal/story/story.go`, `states.go` | rows of `stories`, the counter `Rebalances` | Create, Update, Move, MoveMany, Delete, Restore, Purge, List, Get |
| Blockers | `internal/story/tasks.go` | `story_blockers` | setBlockers, reaches, both computations of Blocked |
| Tasks, comments, labels, epics, activity | `tasks.go`, `story.go`, `epic.go` | a table each | add, change, delete; cascades |
| Projects and members | `internal/project` | `projects`, `project_members`, `saved_filters`, `project_stars` | Create, Update, SetArchived, Delete, SetMember, RemoveMember, AccessFor, SaveFilter |
| Accounts | `internal/user`, `internal/auth/auth.go` | `users`, `sessions` | Register, Login, Update, Authenticate |
| Grants and tokens | `internal/auth/oauth.go`, `token.go` | clients, codes, grants, tokens | IssueCode, ExchangeCode, Refresh, Revoke, prune |
| Limiter | `internal/auth/limiter.go` | attempts by address, in memory | Allow |
| Iterations and velocity | `internal/iteration`, `internal/velocity`, `overview.go` | none (computed) | At, Number, Velocity, Iterations |
| Change feed | `internal/events/hub.go`, `internal/api/events_handler.go` | subscribers and their channels, in memory | Subscribe, cancel, Publish, the streaming handler |
| Live board | `web/src/lib/live.ts`, `components/Board.svelte` | the list on screen, what is pending | loads, optimistic moves, the stream, the poll |
| Board arithmetic | `web/src/lib/board.ts`, `filter.ts` | none | applyMove, moveRequest, projectBacklog, filters |
| MCP server | `internal/mcpserver` | none | tools that call the services above |
| API | `internal/api` | none of its own | authentication, authorization, one handler per route |
| Database | `internal/database`, `db/` | the SQLite file | InTx, migrations, generated queries |
| Operations | `cmd/trackstar`, `scripts/`, `deploy/` | files, releases | serve, backup, restore, update |

### How they interact

A request is authenticated (the account is read once), authorized against the
project (members and the archived flag are read), and then handed to a service,
which opens a transaction of its own. SQLite transactions take the write lock
when they begin (`_txlock=immediate`), so services are serialized; what was
read before the transaction may be old by then. After the commit the handler
writes the response and only then publishes an event to the hub. The hub puts
it in the buffered channel of each stream of the project, or closes the channel
when it is full. A streaming handler takes events from its channel and writes
them to the browser. The browser does not apply events: it loads the list
again, unless the user is dragging or has a request under way, in which case it
does so afterwards. Loads, responses and events travel on separate connections
and overtake each other. A slow poll and the return of the focus load as well.

### What is hard, and what makes each part correct

* **Order.** Order is kept in sparse integers. Two neighbours may have no gap
  left, and two stories may have the same integer: accepted stories keep theirs
  while no one looks at it, and come back when reopened. A drop must land where
  it was made, nobody else may change places, accepted stories may not be
  touched, and normally one row is written.
* **Workflow.** Type, points, state, `accepted_at` and a project option are
  changed by different operations in any order. The rules that tie them
  together must hold in every row, the trash included.
* **Batches.** A failure, or the end of the process, in the middle of MoveMany.
* **Blockers.** A graph changed one list at a time, searched to a limited
  depth, some of its nodes in the trash, and ids that SQLite gives again.
* **The feed.** Goroutines around shared channels: the hub and the handler may
  both end a stream.
* **The live board.** Crash between commit and event, lost streams, loads that
  overtake each other, refetches put off; in the end the board must be right.
* **Access.** Checks and the changes they allow are separate steps; rights are
  withdrawn in between, and two people withdraw each other's at once.
* **Credentials.** A code or a refresh token that is presented twice has been
  stolen, and must be known for it although rows are pruned and their ids given
  again. Cleaning up, password changes and deactivation must end what they are
  meant to end and nothing else, and nothing may come back.
* **What hangs on stories.** Labels are found or created on the way and pruned by
  whoever is last; task positions have holes; rows go when what they hang on goes.
* **Iterations.** Boundaries are local midnights, a day may be an hour longer or
  shorter, and board, history and velocity must cut at the same one.
* **Bulk tools.** A call is a sequence of transactions that place each story next
  to the one before, while others move them about.

* **Operations.** Scripts replace the binary, the database and the configuration one
  file after the other. Anything may fail or be interrupted in between, the host
  included, while the service restarts by itself and the nightly backup opens the
  same database. What was saved must survive all of it.

`PROJECT.json` (`hazards`) lists each of these at the line where it bites, with
the properties that would catch it going wrong.

## The modules

| module | stands for | how |
|---|---|---|
| `Positions` | `position.go`, `place` | Operators, no state. A scope is a set of ids ordered by (position, id). A slot is the set of rows above it, so the code's `index` is that set's cardinality. |
| `BoardOrder` | what the board promises | Abstract: panels with a strict total order; a request moves one block or takes stories off. |
| `Stories` | `story.go`, `states.go`, the points option | One action per operation. MoveMany is one action per story with the lock held (`tx`), so that it can fail anywhere. Implements `BoardOrder`. |
| `BoardView` | `board.ts`, `dragdrop.ts`, `onDrop` in `Board.svelte` | Operators on the state of `Stories`, which it extends: the order shown, the request for a drop or a button, the rows shown until the answer. |
| `Blockers` | `tasks.go`, `load`, `List` | Rows with project, acceptance and trash; `waits` is the table of blocked-by rows. |
| `Feed` | what a stream promises | Abstract: the events of the project in order without a gap, until the stream ends. |
| `Hub` | `hub.go`, `events_handler.go` | One action per critical section of the hub; a handler's steps are separate. Implements `Feed`. |
| `LiveSync` | `live.ts`, `Board.svelte` | One tab against everybody else. The project is the log of its commits, a load is a prefix of it, the stream is what `Feed` promises. |
| `Access` | `user`, `project`, `api/access.go` | Requests that authenticate, authorize and act in separate steps. |
| `AuthStore` | the queries of `dbgen` on users, sessions, tokens and grants | Operators from a database (a record of tables) to a database, or to the rows found. No state. |
| `Credentials` | `auth.go`, `oauth.go`, `token.go` and their handlers | One action per transaction or lone statement, composed of `AuthStore`'s queries; a handler that reads, waits and acts is a request of two steps. |
| `Details` | `epic.go`, `tasks.go`, `setLabels`, comments, filters | Tables as sets of rows; one action per handler, trash, restore, purge and deletion included. |
| `Planning` | `iteration`, `velocity`, the lists cut by iteration, `projectBacklog` in `board.ts` | Operators on hours; the state is only which settings a request is about. |
| `Tools` | the bulk tools of `mcpserver` | One action per item of a call, everybody else in between. |
| `Operations` | `update.sh`, `restore.sh`, `backup.sh`, what `trackstar` does to a database it opens | A script is a sequence of commands; one action per command; faults between any two. |
| `MCStories`, `MCAccess`, `MCCredentials`, `MCDetails` | | values of constants, starting states, bounds, symmetry |
| `StoriesProofs`, `BlockersProofs`, `HubProofs`, `LiveSyncProofs`, `AccessProofs`, `CredentialsProofs`, `DetailsProofs`, `OperationsProofs` | | theorems; `StoriesProofs` has those about `Positions` and `BoardView` too, `DetailsProofs` those about `Planning`. |

Operators whose name begins with `Slip` are plausible mistakes in one
definition. They are in no specification; putting one in its definition's place
must break the property it is paired with in `PROJECT.json` (`mutants`).

### Stories and Positions

`story` and `pos` are the table `stories`. A row keeps the state, type, points,
owner, whether `accepted_at` is set, and whether it is in the trash. `Scope` is
`ListSectionPositions`, `Place` is `place` with the save that follows, and an
operation that the code refuses is no step. `tx` holds what a rollback restores,
so `Committed` is what other connections read. `Restart` forgets an open
transaction, resets the in-memory counter and purges any part of the trash: how
long a story has been there is left open. Ids are the largest plus one, as
SQLite gives them, so a purged id comes back. Points are a few model values;
titles and texts are left out.

### BoardView

What the browser works out from the rows it has. Its positions are fractions (the
mean of two neighbours); here they are twice the server's. `onDrop` is what a drop
sends, for one story or for all that are checked when the dragged one is among
them; `applyMove` and `applyState` are the rows shown at once; `Answered` is the
board after the server's `Move` or `MoveMany`, in the operators of `Stories`. No
story can be dragged while a filter is on (`Board.svelte:810`), so lists are whole.

### Blockers

`Reaches` is the recursive search, stated by the walks it takes (functions from
0..n to stories) so that it can be proved about; like the code it answers
"reached" when a walk has gone deeper than `MaxDepth`. `ShownBlocked` is the
definition used for one story, `ListedBlocked` the shortcut used for lists. The
turn of the iteration takes accepted stories off the board.

### Hub and Feed

An event is its number among the events of its project. The channel is a bounded
queue with a closed flag; a send to, or a second close of, a closed channel sets
`panicked`. `handler` says where the goroutine stands and what it has in hand.
`FeedSeen` maps it to `Feed`: what has been written to the peer.

### LiveSync

`board[s]` is the last change of story s that the screen shows; `Guess` is an
optimistic move. `unpublished` are commits whose handler has not published yet;
`RestartServer` loses them and all streams. `queue` is the stream on its way.
`loads` are requests for the list, each read at one moment and arriving later, in
any order. `refreshPending` and `busyIds` (`request`) are the board's own
variables. `asked` and `missed` are history variables for the properties.

### Access

`account` and `project` are the tables `users`, `projects` and
`project_members`; `request` is what each handler knows: first the account as it
was read, then the project and level it was authorized for. What is in the
project is one bit, flipped by a change. `Init` is a database of any age:
projects from before ownership have no members, or members none of whom is an
owner (`00005_project_owners.sql`).

### AuthStore and Credentials

`db` is the database: `active` are the accounts that may sign in; `sessions`,
`keys` (API tokens), `clients`, `codes`, `grants` and `tokens` are sets of rows.
A secret is a number that is drawn once (`drawn`); hashing, PKCE and redirect
URIs only decide who is refused, and a refusal is no step. `DropGrants` and
`DropClients` include what the foreign keys do: cascades, and a code's grant set
to NULL. `request` is what a handler knows between its two steps: the account a
login has checked, the session a password change is going to keep, the client
and user of an approval, the grant behind a token that is to be revoked. Ids of
clients and grants are chosen freely among those not in use, so they come back.
`RegisterClient` and `IssueCode` are two statements without a transaction: the
first may be done and the second not. A grant row has two columns more than the
table, the code it was given for and when that expires, which only the
properties read.

### Details

`labels`, `carries` (`story_labels`), `tasks`, `comments` and `filters` are the
tables. Labels are found by name or created in the transaction that needs them,
and pruned in those that may have taken the last use away. Moving a task numbers
its list anew, as the code does. Comments are looked up and written in two
statements, so `request` holds what was looked up; by then the story may be gone.
`Epics` is computed as the code computes it, with its pointers into a slice.

### Planning

`Midnight` counts hours, one less or one more for a day on which the clock
changes; `At` makes the guess by whole days and corrects it as `iteration.go`
does, `Number` steps from iteration 1. `Velocity`, `Iterations`, `ListDone` and
`ListActive` are functions of rows of times and points. `projectBacklog` cuts the
backlog into the iterations to come: the browser counts days of equal length from
the end of the current one and adds a margin of two hours, in case clocks change on
the way; the day is then shown in the zone of the server. Nothing is stored, so the
module's steps only choose which settings a request is about; `MCDetails` checks
it in the same run as `Details`, one or the other at a time.

### Tools

`list` is the live stories of each section in order, `call` the local variables
of a bulk call: items, results so far, and `prev`/`next`, which is where the next
story goes. Any item may be refused for a reason of its own (its text, a right).

### Operations

`disk` is the files: the binary and `trackstar.previous`, the database (its schema
and which changes it holds), the environment file, the session secret, the
snapshots, the pre-restore directories, the latest nightly archive and one with
secrets kept from earlier. `Program` lists the commands of each script in order, up
to `wait_healthy` and then those that undo; `script` is the place in it. `Started`
is a start of the service, which may fail before its migrations or after them and
takes the binary that is there now; systemd repeats it after a failure. `Opened` is
`withDB`: it makes a database where there is none and migrates, for the server and
for `trackstar backup` alike. `Interrupt` is a command that fails (`set -e`) or a
person who stops the script, `Reboot` the host; the unit is enabled, so the service
comes up. Users write while the service is healthy. A release that is installed
already, an unreadable archive and the like end a script before it touches
anything; these are guards of its beginning.

Taken as one step: the database with its `-wal` and `-shm` files, which a clean stop
has emptied, and `uploads/`, which nothing in this version writes. One of the two
scripts runs at a time; they have no lock. `MCAccess` checks the module in the same
run as `Access`, one or the other at a time.

## The runs

`expect: pass` unless said otherwise. All bounds are constants in the `.cfg`.

| run | states | what it asks |
|---|---|---|
| `stories_workflow` | 1 372 | One story, every choice of type, state, points, owner and section, batches of one, the option switched on and off, administrators and others. All rules on rows are about one row, so one story reaches every combination; positions matter only through their bounds. |
| `stories_order` | 35 405, 2 min | `BoardOrder`, and what the browser foretells, for every drop and every set of checked stories; and accepted stories beside panels that are spread out (`AcceptedFrozen`, which `stories_workflow` checks for edits). Three stories, two panels, gap 2 (the code has 2^16): every second drop spreads a panel out. Starts with a board in use so that accepting and reopening is within reach. Three stories are the least for which two others can change places around a third; positions 1..6 leave room for a panel on either side of a spread-out one. |
| `stories_batch` | 1.2 million, 1 min | Three stories, two panels, batches of one and two ids (repeated ids too), an error or a restart before, between and after. |
| `blockers` | 15 589 | Three stories, two projects, depth limit 1 (50 in the code) so that chains exceed it, lists of two (20 in the code). Three stories make a cycle that no single edit shows. |
| `hub_feed` | 81 553 | Two streams, two projects, four events, buffers of 2 (16 in the code) so that they overflow; implements `Feed` with its fairness. |
| `live` | 64 072, 20 s | One change of anybody, two loads at a time: safety, which is proved for any number of either, and liveness under `FairSpec`. With one change events cannot overtake each other: for that see `NewsIsSignalledCorrect`. (Two changes and two loads are 1.1 million states and were checked apart, with no error in 5.3 min; two changes and one load, 245 thousand.) |
| `access` | 287 077, 1 min | Three accounts, two requests at a time, one project that is deleted and created again. Three accounts let two demote each other while a third is deactivated; members of different projects do not interact. Symmetry in accounts and requests, which the code never orders. And `Operations` from an installation in use, with two versions, two scripts and two changes: one script that is broken off anywhere and one that works on what it left. (Four scripts and one change, the least for which pruning snapshots could lose something, are 5.5 million states and were checked apart, with no error in 3.5 min.) |
| `credentials` | 515 657, 2 min | Two accounts, one app, two grants, one request in two steps, five secrets, three moments (times to live of 1 or 2, so that everything runs out and a refresh token outlives an access token). Five secrets are a code, the pair it gives, and the pair of a rotation. They are drawn up only where one account is in use and has no API token, and there is one API token at a time (`Bound`): otherwise four secrets, which is two logins and an approval, or two accounts with an app each. Symmetry in accounts and grants. |
| `details` | 267 107, 2 min | Two projects, two stories, two labels and names, three tasks, one comment, one filter at most (30 in the code), three rows that hang on stories at a time. Three tasks are the least for which two could change places when a third moves. No filters while there are tasks, which share nothing. And `Planning` with days of 4 hours (longer than the browser's margin of 2 and a change of the clock) and weeks of 3 days: every first weekday, lengths 0 (default) to 2 weeks, every day on which the clock goes forward or back, every time in ten days. A guess can be wrong by one hour only, whatever the day's length. Backlogs of up to four stories. |
| `epics` | *violation* | The progress of two epics. |
| `tools` | *violation* | Three stories, a call with two items (50 in the code): one more than the anchor is enough. |
| `restore` | *violation* | A restore with configuration whose service does not come up. |

Deadlock is checked everywhere except in `hub_feed`, where the bounds on
subscriptions and events let the model come to an end that the server does not
have.

The properties, by the run that checks them:

* `RowsKeepTheRules`: no feature without points in work (`EstimatedInv`); no points
  on bugs and chores while not allowed (`PointsAllowedInv`); `accepted_at` exactly on
  accepted stories (`StampedInv`). It is stated of the working table and of the
  committed one.
* `AcceptedFrozen`, `WorkStaysCurrent`: accepted stories are history, and no drag
  takes work in progress out of the current iteration.
* `ImplementsBoardOrder`: sparse positions refine the abstract order. With
  `MoveLandsAt` (where exactly the story lands), `JoinsAtTheBottom` and
  `OneRowPerMove` this says what a user can rely on.
* `BoardForetells`: what the board lets the user drop or press, the server takes;
  rows land where they were dropped, several of them in the order of the board; and
  what is shown at once is what the answer will say. Two cases are exempt, see
  [below](#where-the-code-and-its-comments-disagree).
* `MoveManyAllOrNothing`: however a batch ends, all stories stand at the drop
  point in the order given, or all is as before.
* `EdgesAreSound` (`NoCycle`, `WithinProject`), `SomeoneCanProceed`, `BoardShowsBlocked`.
* `NeverPanics`, `NothingLeaks`, `NeverFarBehind`, `ImplementsFeed`.
* `NewsIsSignalled`: whatever others committed, the board has asked for since, or
  something is under way that makes it ask. Streams the browser has given up on
  (it does so when an answer is not 200) and changes from before the first
  subscription are exempt: the first are made good by the poll, the second wait
  for the next event, focus or poll. `NothingWaitsWhenIdle`, `EventuallyUpToDate`.
* `SomeAdmin`, `OwnedStaysOwned`.
* `OneLiveRefresh`: one holder of a grant can go on. `CodesPointHome`: a redeemed
  code ends its own grant when it is presented again, never one that was given the
  id since. `ReuseIsRemembered`: a rotated token stays known until it expires.
* `EndsForAReason`, `NothingComesBack`: what could be presented with success stops
  working only by the step made for it, and starts only if new, kept on purpose, or
  with its account. Sessions, API tokens, access and refresh tokens and codes are
  covered, and every operation, pruning and cleaning included. A password change
  ends sessions and connected apps; API tokens, and codes not yet redeemed, go on
  working, and so they do in the model. `EndsForAReason` has one exception, in which
  cleaning up does end something: a code just given to an app that had been idle
  (`Idling`) goes with the app's registration when any other app registers, as
  `IssueCode` does not touch the client. Only such a code may, and the approval has to
  be asked for again. `NothingComesBack` says nothing of a login under way while the
  account is deactivated or its password reset: its session is new.
* `LabelsInUse`, `TasksKeepTheirOrder`; `TypeOK` of `Credentials` and `Details`
  says that no row outlives what it hangs on.
* `IterationsAgree` (`AtFindsTheIteration`, `HistoryAddsUp`): the fast search finds
  the iteration that stepping defines, and board, list of what is done and history
  agree on which iteration an acceptance belongs to.
* `PlanFollowsVelocity` (`VelocityIsTheAverage`, `ProjectionIsThePlan`): the velocity
  averages the stories accepted in the completed iterations of the window, and no
  others; the backlog's iterations bear the numbers and begin on the days that the
  server will give them, hold the backlog in order, and end only where the next story
  did not fit.
* `NothingSavedIsLost`: what users had saved when a script began is in the database,
  a snapshot or a pre-restore directory, wherever scripts were broken off since.
  What is saved while an update runs is not included: a rollback takes it back.
  `EndsAsItSays`: a script that says "healthy", "rolled back" or "back in place" is
  right about version, schema, data and settings. After a script that was broken off
  the version and the schema may not match (see below).

### Fairness

`Hub`: a handler that can go on does (weak fairness per handler); its writes
have deadlines, so they end well or not. `Leave` is never forced. `Feed` states
the same of deliveries.

`LiveSync`: requests are served and answered or fail, drags end, the timer and
the poll run (weak fairness): browsers and the server's timeouts see to that. Of
loads, strong fairness of the answer and of its arrival: a single load may fail,
but not every load for ever, as the poll asks again and again. Nothing is assumed
about streams: they may break, or be dead, for ever, and `EventuallyUpToDate`
holds all the same because of the poll. No fairness is assumed of commits.

## The proofs

Each module of proofs extends the modules it is about. All assumptions are those
on the constants (`GapAssumption`, `StoryAssumption`, `NoTransactionAssumption`,
`HubAssumption`, `AccessAssumption`, `NoneAssumption`, `TTLAssumption`,
`DetailsAssumption`, `PlanningAssumption`, `OperationsAssumption` and that of
`Blockers`); TLC evaluates them in the runs. They say which sets are finite and which
values differ: that `None` is no story, no feed and no transaction, and `Absent` no
database. `PlanningAssumption` says that the calendar of the model reaches past the
projects it creates, and that a day is longer than the margin the browser adds and a
change of the clock together (24 in the code, 4 in the runs).

* **`StoriesProofs`.** `TypeCorrect`, then the three rules on rows
  (`RowsKeepTheRulesCorrect`). The inductive invariant states each rule of the working table and of the table a rollback
  would restore: without the latter a rollback could bring anything back.
  About `Positions`, for any integers with ties and any
  gap of at least 2: `Before` is a strict total order on a scope; ranks are 1..n (from
  a bijection by cardinality), so `Normalize` spreads the scope and keeps its order;
  the middle of a gap of at least 2 is strictly inside. Together, `PlacedKeepsOrder`:
  the others keep their order and the moved story is right above `below`. From it
  `MoveLandsAtCorrect`, and `PlaceOrders`, the same of `Place` in a table.
  `AcceptedFrozenCorrect` and `WorkStaysCurrentCorrect` need the extra invariant
  `SInv` that within a batch accepted and in-progress stories are as they were when
  it began, since a rollback is a step too. `JoinsAtTheBottomCorrect` and
  `OneRowPerMoveCorrect` follow from `PlaceOrders` for each operation: the bottom
  always has room, and only a full slot spreads the panel out.
* **Batches, in `StoriesProofs`.** `MoveManyAllOrNothingCorrect` speaks of the first
  and the last state of a transaction. The invariant in between, `BatchInHand`, says
  that the stories moved so far are one block in the order of the list, above what is
  below the drop and below the rest, in rows that otherwise are what they were; only
  the positions of the panel may have been written anew. A story is moved right after
  the one before it, so `PlaceOrders` keeps the block together; one that is named
  twice is skipped; a rollback and a restart bring the first state back. A batch has at
  most 200 ids (`MaxIds`), as in the code.
* **`ImplementsBoardOrder`, in `StoriesProofs`.** The committed table of `Stories` shows
  a board of `BoardOrder`: a panel is the set of its rows with the order that position
  and id give, strict and total on it. A step takes one block to a place of one panel,
  or off the board, or leaves all panels alone (`BlockStep`), and `BlockStep` is a step
  of `BoardOrder` whatever the positions are. A batch shows nothing until it commits; then
  `BatchInHand` says that it is one block. `Spec => Board!Spec` has no fairness in it.
* **`BoardView`, in `StoriesProofs`.** Rows in the same order are shown alike
  (`ShownAlike`), twice the positions are the same order, and the row that joins is
  above the highest row shown, which is the server's last: so what the browser shows
  after a button is what the answer says (`ButtonsShowWhatComesCorrect`), negative and
  equal positions included. That the server accepts the step needs `GoodTable`.
  For drops, what the browser shows is a list of rows (`Lists`: each once, in the
  order of positions and ids). Such a list is unique, and the filters, cuts and joins of
  `board.ts` make lists of the parts (`ListsSame`, `ThoseLists`, `ListsCut`, `ListsJoin`);
  `DropCut` finds the slot that the two neighbours of a drop name. The loop of `MoveMany`
  keeps `Landed`: the stories taken so far are one block at that slot in the order of
  the list, and the others keep theirs (`CarriesLands`, `AnsweredLands`). The position
  shown at once is the mean of two neighbours and so between them, unless they
  are equal (`MeanIsBetween`). Hence `DropsLandCorrect`, for any checked stories and
  positions, and `BoardForetellsCorrect`.
* **`BlockersProofs`.** Types, acyclicity and project boundaries are inductive
  together. Acyclicity is stated without paths (every non-empty set of stories
  has one that waits on none of the set). The step that replaces a list takes the
  set of stories from which the edited story is reached; `Reaches` closes it under
  one more step, so a refused cycle is the only way to make one. Any depth limit
  will do. `SomeoneCanProceed` is acyclicity applied to the open stories.
* **`HubProofs`.** Inductive: types, an open channel exactly for those in the
  hub, a handler that is gone is closed, one that sends has something in hand,
  subscribers are under their project, no panic so far, and what a handler has in hand
  and in its channel are the events after those it has written, without a gap: hence
  `NeverFarBehindCorrect`, and `ImplementsFeedSafely`, which says that each step is a
  step of `Feed` or leaves its variables alone. `None` is assumed not to be a feed.
* **`LiveSyncProofs`.** `NewsIsSignalled` and `NothingWaitsWhenIdle` are inductive with
  the types and two facts more: an answer to a load is a prefix of the log, and a
  request that was served has left a change. All ends of drags and requests go through
  `Become`, so that one lemma covers them. No bound on changes, stories or loads.
* **`AccessProofs`.** Types and `SomeAdmin` are inductive together; the count in
  `Update` gives the second administrator by cardinality of finite sets.
  `OwnedStaysOwnedCorrect` follows for each step from the check for another owner.
  How many requests race, and what they believed at their start, does not matter:
  the checks are inside the transactions.
* **`CredentialsProofs`.** Inductive: `TypeOK` and `Sound`, a statement about the
  database alone: at most one unused refresh token per grant, no row without what it
  hangs on, and a grant that came from a code still in force shares secret, expiry and
  client with the code that points at it (`Home`): so the code cannot be pruned before
  the grant may lose it. A lemma for each query says that it keeps the database sound;
  two transactions break it between two of their queries and are proved as a whole.
  Then `TypeCorrect`, `RotationIsLinear`, `CodesEndTheirOwnGrant` and, from
  what each query may remove, `RotatedStaysUsed`. For what works when, two facts more
  are inductive: a grant is known by its id (`OneGrant`), and grants are of active
  accounts (`GrantsActive`). A
  credential that works in one database and not in another misses a row or an account
  that is active (`Missing`); a lemma for each query says which rows it may take or
  bring, and the clock only ends. So every step that ends a credential is one of those
  made for it, or a registration that takes an idle app's code with it
  (`EndsForAReasonCorrect`), and none brings one back but those that make a
  new one or activate its account (`NothingComesBackCorrect`).
* **`DetailsProofs`.** One conjunct for each table (rows, foreign keys, and for
  labels that plain ones are used), inductive together: a label is on a story only if
  the link's story is there and in the same project. `ChecklistKeepsOrder` needs that
  a finite non-empty set of positions has a largest element (by well-foundedness), for
  a new task to come last.
* **`Planning`, in `DetailsProofs`.** `At` guesses and steps, a recursion over all integers
  that nothing bounds. For a zone with any finite number of short and long days, a day
  takes time (`MidnightsGrow`), so iterations follow each other without a gap and every
  time from the first on is in exactly one (`SomeIteration`, by the least number whose
  successor begins later). The function that answers that one everywhere satisfies the
  recursion, so there is one to choose; and any that does gives that answer from every
  number: the nearest where it does not would contradict its neighbour
  (`SteppingEnds`). Hence `AtFinds`, for any settings, and with it the history and the
  lists of any accepted stories (`HistoryIs`). `IterationsAgreeCorrect` applies them to
  the projects of the model.
* **Velocity and projection, in `DetailsProofs`.** A sum over a finite set is
  characterised without its recursion: `Sums` relates a set to its total, exactly one
  total fits (`SumsExist`, `SumsAgree`), and the sums of disjoint parts add up
  (`SumOfSums`); hence `VelocityIs`, as the iterations cut the acceptances in disjoint
  parts. The loop of `projectBacklog` keeps the invariant `PlanHolds`: its rows follow
  each other from the next iteration on, together hold the backlog so far, each has the
  points of its stories, exceeds the velocity only by one story, and begins where the
  next did not fit. `StartsOnTheDay` is the arithmetic of the margin of two hours: with
  at most one change of the clock each way, days of equal length added to the last
  boundary end within the right day. `PlanFollowsVelocityCorrect` has it for every
  backlog, velocity and time, not only those of the runs.
* **`OperationsProofs`.** The inductive invariant `OInv` has three parts. `Types`. `Safe`:
  each change that was saved is in the database, in a pre-restore directory or in a
  snapshot, and a script may only put back or move aside what leaves that true: while an
  update may still rewind, its newest snapshot has all of it, and while a restore may
  still drop the database in place, the directory it moved the former one to has.
  `OnItsWay`: for each stretch of a script, which version the binary is, which schema
  the database has, and what the environment file is; commands are taken one at a time,
  and what is set aside carries what was had before. Then `NothingSavedIsLostCorrect`, and
  from the last stretch of each script `EndsAsItSaysCorrect`. The number of scripts, of
  interruptions and of releases does not matter.

Every safety property of the runs is stated by a theorem. Only model-checked are
`EventuallyUpToDate`, which is liveness, and the fairness of `ImplementsFeed`: liveness
under fairness is out of the prover's reach, as is induction over data by the
library's theorems. Where a recursion had to be reasoned about, it is either done one
step at a time (`Reaches` is a set of walks of bounded length given as a function), or
by an invariant of the function it defines, counted up from 0 by the least number
that is missing (`CountsUp` and `RecursionHas` in `StoriesProofs`, `PlanHolds`), or by a
least counterexample, as for `At`. The filter of a list (`Those` in `BoardView`) is such
a recursive function for that reason.

## Where the code and its comments disagree

Three are runs that TLC must find violated (`findings` in `PROJECT.json`).

* `epics`: `epic.go:34` says that `Epics` lists epics with their progress. The loop
  keeps pointers into a slice that it goes on appending to (`epic.go:46-51`); each
  time the slice moves, what is added up through the older pointers is lost. With two
  epics the first shows no stories.
* `tools`: `tools.go:68` and `tools.go:72` say that an item that fails leaves the
  others alone. Each story is placed after the one before (`tools.go:308`,
  `tools.go:555`); when that one is trashed or moved to another section in between,
  the next one and all that follow are refused, as the anchor stays what it was.

* `restore`: `restore.sh:6-7` says that the current data is put back if the restored
  service does not become healthy, and `restore.sh:116` that it is back in place.
  With `--with-config` the session secret has been overwritten (`restore.sh:82`)
  without a copy, and it is not put back. Where the secret is the generated one,
  everybody is signed out and all API tokens and connected apps are invalid.

Nine more came up while modelling; the modules contain the behaviour, and no run asks for it:

* `story.go:35-36` says that Blocked is true while any blocker is open. Lists compute
  it from their own rows (`story.go:321`): in search results a blocker that does not
  match the search does not count. On the board the shortcut is right, which is
  proved.
* `live.ts:4-5` says that every connection triggers a refetch, and
  `events_handler.go:77-78` that the client loads the board once the stream is open.
  The board loads first and connects then; a change in between waits for the next
  event, focus or poll.
* `live.ts:2-3` ignores a tab's own events because the response has carried the
  change. A load read before the request and arriving after the response takes it off
  the screen again, until the next load.
* `dragdrop.ts:13` counts the index of a drop among the rows of the list, all but the
  dragged one. `bulkMoveRequest` (`board.ts:199-204`) looks that index up in the list
  without any story that moves. When other checked stories are above the drop in the
  same panel, the group lands as many rows too low. The test drops at the very end
  (`e2e/planning.mjs:89-90`), where the index is clamped. `BoardForetells` leaves this
  case out.
* `Board.svelte:545` says that Shift+I, B and C move to the end of a section. The end
  is that of the filtered list: with a filter on, stories land after the last one that
  is shown, and on top when none is.
* `README.md:99-101` says that nobody can change stories of an archived project. The
  flag is read before the transaction and not in it.

* `oauth.go:39-40` says that `idleClientTTL` is how long a registration nobody is
  connected through is kept, and `SECURITY.md:40` that a code expires after a minute. The
  time is counted from when an app last exchanged a code or refreshed: a registration
  used 30 days ago goes as soon as another app registers once its last grant is gone, also
  when the user has just approved it again (`oauth.go:165-183`), and the code with it.
* `README.md:508-509` and `update.sh:120-121` say that an older binary must not meet a
  newer schema. A rollback puts the binary back first and the database after
  (`update.sh:162-167`); when the host restarts in between, the older binary starts on
  the migrated database.
* `update.sh:100` says "Already running" of a release whose binary is in place. After
  an interruption between the swap and the restart (`update.sh:137-139`) the old
  version is still running, and running the script again changes nothing.

Seen while reading, and not run: `deploy.sh` repeats `update.sh` over ssh, but installs
the snapshot straight over the database where `update.sh` renames a copy; broken off
there it leaves half a database, or none, of which the next start makes an empty one.
`Create` spreads panels out without counting it in `Rebalances` (`story.go:188`),
`LargestSection` counts accepted stories though
they are in no scope (`story.go:608`), and overwriting a saved filter at the limit
of 30 is refused (`members.go:210-219`), which `SaveFilter` of `Details` models.
Dropped between two stories with the same position, a story takes that position too
(`board.ts:91`) and is shown in the order of the ids until the answer comes; the
other case `BoardForetells` leaves out.

## The plan

Done: Positions, Stories, BoardOrder, BoardView, Blockers, Hub, Feed, LiveSync, Access,
AuthStore, Credentials, Details, Planning, Tools, Operations, with the theorems above.

Next, in this order:

1. `Limiter`; `overview.go` with `Planning`; `deploy.sh` as another program of
   `Operations`, and the database's files one by one.
2. `Tools` over `Stories` instead of over sequences, with liveness of a call.
3. `LiveSync` with `BoardView`: the optimistic rows in place of `Guess`.
4. Proofs: what the new modules promise, and the drop that `BoardForetells` leaves out
   once the browser counts its index without the group.

## What is not modelled and why

* HTTP routing, JSON, rendering, text, validation of lengths and formats: no
  property is about them.
* Of the generated queries: scanning of rows, and those that only fill in what is
  shown. The others are operators on tables.
* Activity rows, which are appended in the transaction they tell of and go with their
  story; stars, set and unset by one statement each; last-used times, which are shown
  only; overview counts.
* The login limiter: see the plan. The browser's filters, formats and links
  (`filter.ts`, `format.ts`, `links.ts`) are work on strings.
* What migrations do to rows, pragmas, the parsing of configuration, the other commands:
  they run alone before the server starts. `setup.sh` and the builds.
* Several requests of one user at a time (the board serializes them by story, the
  model by tab), several tabs of one user (another tab is "other"), and the details
  of editors and dialogs.
* Database failures outside MoveMany: a transaction that fails rolls back as a
  whole, which is the same as not having begun.
