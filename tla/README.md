# Verification of es-ts-example

TLA+ modules, TLC runs and TLAPS proofs about the event-sourced example in
`src/packages` and about the rules the repository keeps on its own code. The
program is small and its rules are simple; what is hard to get right in it is
optimistic concurrency over one shared log, the two ways it reads that log, the
file the log is kept in, and what reaches a user of all this through a redirect,
a page or a list.

## The system

| Component | Source | State | Operations |
| --- | --- | --- | --- |
| Counter rules | `domain/src/counter` | none (pure) | `applyCounterEvent`; `createCounter`, `incrementCounter`, `decrementCounter`, `disableCounter` |
| User rules | `domain/src/user` | none (pure) | `applyUserEvent`; `toggleArticleBookmark` |
| Aggregates, repository | `event-sourcing/src/aggregate.ts`, `repository.ts`, `decision.ts` | an aggregate in the hands of its caller: state, version, pending events | `replayAggregate`, `recordEvent`, `load`, `save`, `commit` |
| In-memory store | `event-sourcing/src/event-store.ts` | a `Ref` holding the log | `fetch`, `fetchAll`, `append` |
| JSON-file store | same file | one file holding the log | the same, as file I/O |
| Slices | `application/src/eventStore.ts` | none | `eventStoreFor` narrows the shared log to a slice |
| Command handlers | `application/src/{counter,user}/handlers.ts` | one fiber per request | load, decide, commit, receipt |
| Queries | `application/src/*/queries`, `readModels.ts` | none | `ListCounters`, `ListArticles` |
| Projections | `event-sourcing/src/projection.ts` | none | `replayProjection` |
| Projection store | `event-sourcing/src/projection-store.ts` | a versioned checkpoint per projection | `load`, `save` |
| In-process RPC | `application/src/rpc/inProcess.ts` | a `Deferred` tying client and server together | a request and its answer |
| CLI | `cli/src/index.ts` | none; a process per call | one command, then one listing |
| Web server | `web/src`, `web/bin` | none; no session | two pages, three form posts that redirect |
| Web rendering | `web/src/{mvc,factories,models,views}` | none | read model to page model to HTML |
| Mutation gate | `scripts/mutation-timed.ts`, `scripts/lint-mutation-*.ts`, `lint-stryker-config.ts` and others | reports and timings on disk | run packages in batches, judge configurations and reports |
| Import rules | `.dependency-cruiser.js` | none | allow or forbid one import |
| Role file rule | `oxlint-plugins/.../mvc-one-export-per-role-file` | none | accept or refuse a model, factory, view or controller file |

How they interact. A form post or a terminal command becomes an RPC request to
a handler in the same process. The handler loads an aggregate (`fetch`, filtered
to its slice, replayed), asks the pure decision, and commits: a rejection is
returned as it is, an accepted decision carries exactly one pending event, which
`save` appends with the expected version `version - pendingEvents.length`. The
answer to the caller is a receipt made from the handler's own aggregate. Pages
and listings are queries that replay the whole log. Both slices share one log
and name their streams by the bare identity of the aggregate. The web server and
the CLI keep the log in a JSON file by default, which any number of processes
may open; the web server may keep it in memory instead. A web page is got, its
form is posted, the server answers a redirect whose query says whether the
command failed, and the browser gets the page it names: all the server knows of
a user is in that query and in the form. The rules and the gate act on the
source tree, before any of this runs.

What is hard:

* Handlers are fibers, and any of them may run between another one's load and
  its append. Only the version comparison inside `append` keeps a decision made
  on a stale aggregate out of the log.
* The file store reads the file, checks, and writes the whole file back in
  separate I/O calls. Nothing locks it. `writeFileString` truncates before it
  writes. A process can die anywhere.
* A version is a count of the stream's events, so two different histories of
  one length cannot be told apart.
* Two slices share streams that have the same name but replay different events
  of them; the store counts all of them.
* The queries compute from the log, in their own way, what the repository
  computes from it in another: by the identity inside the event and not by the
  stream's name; by a fold over all users and not by one user's history.
* A form is posted from a page that may be out of date, twice, or by a browser
  that no longer waits; the list the CLI prints under a receipt is another read
  of the file.
* The server of an RPC pair is built before the client it answers to.
* A text passes through an attribute, a form field or a query, and back.
* The gate judges by files that outlive the run which wrote them.
* Each rule on imports or files looks at one import or one statement; what is
  wanted of them is a property of chains of imports and of whole files.

Properties that make each part correct. *Rules*: a counter stays in range and
its life is create, change, disable. *Store*: no append on a stale version,
events numbered without gaps, nothing acknowledged is lost. *Handlers*: each
command takes effect once, at one instant, or not at all, and the answer tells
which; a conflict is answered only when somebody else acted. *Queries*: they
agree with the aggregates decisions are made on. *File*: what can be read back
is a log the program wrote; a damaged file is never taken for an empty one.
*Projections*: a resumed reader misses and repeats nothing. *RPC, CLI, web*:
each request is answered, once, truthfully, and what is shown after a command
includes it. *Pages*: what a browser reads is what was meant, whatever the texts
contain. *Gate*: a pass means that no mutant in scope went undetected, a failure
has a cause in this run. *Rules on code*: allowed imports never lead from an
inner layer to an outer one; an accepted role file owns its one thing.

`PROJECT.json` lists under `hazards` each place where one of these could go
wrong, with the properties that watch it.

## Modules

Read them in this order.

| Module | Models |
| --- | --- |
| `Decision` | `accept`, `reject`. A decision's success is the event it records; recording it on the aggregate is `recordEvent` |
| `CounterDomain` | the counter's events, reducer and decisions, with the bound as the constant `MaxValue` (5 in the source) |
| `UserDomain` | the user's events, reducer and toggle; the list of bookmarks as a set |
| `EventRecords` | the pure helpers of `event-store.ts`: versions, queries, numbering |
| `Aggregates` | `aggregate.ts` and `repository.ts` for each slice over `eventStoreFor`'s view. `history(slice, records, id)[n]` is the aggregate after the first `n` records; `load` is its last entry |
| `ReadModels` | receipts, `ListCounters`, `ListArticles` |
| `CommandSystem` | handlers as fibers over the in-memory log |
| `AtomicCommands` | what a caller is promised: a command happens at one instant, or is refused |
| `CommandSystemRefinement` | `CommandSystem` implements `AtomicCommands` |
| `JsonFileStore` | handlers as workers over the file |
| `Cli` | processes that send one command and print one list, over `JsonFileStore` |
| `AtomicCli` | what the command line promises: each command and each list at one instant |
| `CliRefinement` | `Cli` implements `AtomicCli` |
| `Repository` | copies of aggregates in the hands of callers, over the in-memory log |
| `AtomicStreams` | what the package promises those callers: whole saves, on the very events they were made on |
| `RepositoryRefinement` | `Repository` implements `AtomicStreams` |
| `Projector` | projections resumed from a stored checkpoint |
| `InProcessRpc` | client, server and the `Deferred` between them |
| `WebPages` | the factories of the two pages, their forms, the targets of redirects |
| `WebApp` | browsers, controllers and RPC over `CommandSystem` |
| `EscapedText` | texts escaped into markup, and read back |
| `Html`, `HtmlReader` | the writing of markup, and what a browser reads in it (external) |
| `PageModels`, `PageViews` | the schemas of page models, and the views |
| `HrefText` | a redirect's target as text, and as the server parses it |
| `BookmarkKey` | the text key of the bookmark projection |
| `PageChecks` | all of these, over short texts |
| `ImportRules` | which imports are allowed, and chains of them |
| `RoleFiles`, `RoleFileChecks` | what the rule says of a file; files as they are written |
| `PureChecks` | `PageChecks`, `ImportRules` and `RoleFileChecks` side by side |
| `MutationGate` | policies, the batch runner, reports and timings on disk |
| `LogProofs` | proofs: facts on logs and on replaying them |
| `DomainProofs` | proofs: rules, aggregates and read models, over any log; the bookmark key |
| `CommandSystemProofs` | proofs: `CommandSystem`, its answers and queries, its refinement |
| `JsonFileStoreProofs` | proofs: `JsonFileStore` and `Cli`, its refinement |
| `RepositoryProofs` | proofs: `Repository`, its refinement |
| `ProjectorProofs` | proofs: `Projector` |
| `WebAppProofs` | proofs: `WebApp`, and the texts of `EscapedText` and `HrefText` |
| `PolicyProofs` | proofs: `MutationGate`, `ImportRules`, `RoleFileChecks` |
| `MCCommandSystem`, `MCJsonFileStore`, `MCRepository`, `MCProjector`, `MCMutationGate` | the above for TLC (symmetry, a baseline) |

`InProcessRpc` is instantiated in `WebApp`, and each `Atomic...` module in the
`...Refinement` module of what implements it; otherwise a module extends those it
builds on.

### CommandSystem

`records` is `storedEventsRef`. Each handler `h` has a program counter and what
its fiber holds: `command[h]`, `aggregate[h]`, and `outcome[h]`, the answer of
its last command. `seen[h]` is history only: the length of the log it loaded
from.

| Action | Code |
| --- | --- |
| `Request` | a command arrives at its slice's handler |
| `LoadAndReject` | `repository.load`, `decide` and `commit` of a failure |
| `LoadAndAccept` | `repository.load`, `decide`, and `save` up to the call of `append` |
| `Append_Stored` | `append` at the expected version, then the receipt |
| `Append_Conflict` | `append` at another version |

One step of the model is what happens between two points where another fiber can
matter. `load` reads the `Ref` once and everything to the call of `append` is
pure, so load and decide are one step. `append` is a `Ref.get` and a
`Ref.update`; Effect preempts a fiber only when it has used up its operation
budget (some two thousand operations), and a request's fiber does far fewer
before it gets there, so append is one step too; `Repository` has the preempted
one. The in-memory store cannot fail,
which is why `EventStorePersistenceFailure` appears in `JsonFileStore` only.

### JsonFileStore

`file` is `Absent`, `Torn` or a stored log. `pc[w]` takes a worker from
`requested` (load) over `saving` (the append's own read and check) to `writing`
and `filling` (the two halves of `writeFileString`); `contents[w]` is the log it
writes. Two writes that overlap are made at their own file positions, so the
last one may leave the tail of a longer text behind, or a hole: `overlapped`
remembers that this can happen, and `Fill` then may leave the file torn. A torn
file never parses, for no proper prefix of a non-empty JSON array does; so a
read of one fails. A read while somebody is filling may fail as well. With
`Faults`, any read or write may fail and a worker may die at any step
(`Crash`); the next command of that worker is the next run of the program. A
worker is a request fiber of the server or a process.
`acked` is history only: the logs whose writers reported success.

### Repository

The package `event-sourcing` without the application. A handler loads, decides
and saves once; here a caller keeps its copy (`held[c]`) for as long as it
likes, hands it on (`TakeOver`), records events on it one after the other
(`RecordEvent`), saves it with any number of pending events, none included, and
may go on with the copy it saved instead of the one `save` returned. `save` is
`Check` (the `Ref.get` and the version check) and `Update` (the `Ref.update`),
or `Conflict`. With `Preemptive = FALSE` nothing runs between `Check` and
`Update`; with `TRUE` anything may. `checked[c]` is what `Update` will add. The
state of an aggregate is the list of the events reduced into it: any reducer's
state is a function of that list.

`AtomicStreams` has neither log nor versions, only the events of each stream, and
of each copy the facts it was made from and the events recorded since. A `Save`
is one step, and possible only while the stream holds those very facts.
`RepositoryRefinement` maps a stream to what `load` reads of it and the facts of
a copy to the first `expectedVersion` events of its state.

### Projector

`stored` is the value of the projection's key in the `KeyValueStore`: a
checkpoint and the version `projection-store.ts` gives it. A projector loads it
(`Load`), reads on from the next event up to `Limit` events and folds them
(`Read`), and saves: `Check` is the get and the comparison, `Set` the set of the
successor, `Conflict` the failure. It goes on from what `save` returned, and
after a failure it loads again. This loop is external: the product has none, and
it is modelled from the convention `projection.ts` states. `Fault` is a failing
call or a death at any point; a set reported to have failed may have been done.
Others run between the get and the set if the `KeyValueStore` waits for a file
or a network, and not if it is a map: `keyValueStore` is one or the other for
the whole of a behaviour.

### Cli

A worker of `JsonFileStore` is a process here. It parses its arguments
(`parseArguments`, over `Argvs`: every verb, an unknown one and none, with ids,
empty ids and too few) and is one of three kinds of run: `RunHelp` prints the
usage and is over, `RunQuery` goes straight to its list, `RunCommand` sends a
command. `Send` is `Handle` of `JsonFileStore`, step by step. The list is then
read from the file anew (`PrintLines`, `ListingFails`). Nothing is printed
before all lines are there, so a run whose list fails has stored its event and
printed no receipt. After a failed command there is no list (`CommandFailed`).
`Die` is the end of the process anywhere. `printed[w]` is the output of the last
run; `wrote[w]` is history only: the log its command wrote.

`AtomicCli` is what the person at the keyboard may rely on who types one command
after another. It has no file: it holds the aggregates. A command is carried out,
rejected or refused at one instant (`Decide`), or fails; a list shows the
aggregates of one instant (`Show`). Failing and dying may lose all that is held,
at once and for good, and nothing less. `CliRefinement` maps what is held to what
the file replays to, and to the log before, while that is being overwritten.

### InProcessRpc and WebApp

`MakeServer`, `MakeClient` and `ReturnClient` build one client and server; the
server's answers wait until `clientWrite` is set. There is a pair for the
commands and one for the queries of each slice, and requests come in when all
are `built`.

A browser shows a `page`: an address, and the length of the log it was rendered
from. `Open` and `Reload` get one; `Post` posts any form of the page shown, with
anything typed into its field. `PostBlank` is a form that asks for no command.
`PostUnread` is a form whose body the server cannot read or decode (the `catch` of
each POST in `server.ts`): no controller sees it, nothing is stored, and the
browser is sent to the plain address of the page, without an alert.
`Serve` is a step of the handler behind the RPC server, `Redirect` the answer
through the controller, `Follow` the GET of what the redirect names. A browser
may post again while it waits, in which case it sees the last answer only, or
give up (`GiveUp`) and do something else; the server carries out all it gets.
A GET reads the log once, so it is one step. Ghosts: `sent` lists the forms that
asked for a command and the log's length on the page each was posted from (a page
and a redirect say in `answers` which of them they answer, 0 if none),
`origin[i]` is the form the `i`th event is due to.

### Texts and pages

A text is a sequence of symbols. A character that HTML or a query gives a
meaning is a symbol; a name, a word or a message of the catalog is one symbol
too. `PageChecks` has one input, `made` (an element, a page model, a refused id
or a pair of bookmarks), which is written once (`written`) and read by a browser
or the server once (`found`). Nothing is said of texts that are never written.
`WebApp` does without texts: a browser there follows the redirect's record.
`RedirectsReadBack`, below, is why nothing is lost by that.

### ImportRules, RoleFiles

Both are pure rules; their state is an input that grows. In `ImportRules` it is
a `chain` of files, each importing the next as the rules allow, and `Import`
appends one. What is found in `node_modules` is `excluded` before any rule is
applied, as `options.exclude` has it; modules of the platform are not. In `RoleFileChecks` it is a file of a role, layer and name, and
`Write` appends a statement. The properties compare the verdict on the whole
with what the repository's README promises of it.

### MutationGate

`check` is lint, then mutation, then two policies on what mutation left behind;
`mutation` is the same without lint. `Begin`, `Lint`, `RunBatch` (at most
`packageConcurrency` packages), `Mutate` or `BreakDown` for each, `Summarize`
(which writes the timings, then fails if a package did), `RunReportHealth`,
`RunMutationBaselines`, `Conclude`. `reports` and `timing` are ignored by git
and survive all of it. Between commands the tree is edited (`Edit`): a mutant
changes its fate, a setting changes, a package goes or comes back. `Interrupt`
ends a command anywhere. A file holds one mutant or none.

## Runs

Every bound is a CONSTANT given in the `.cfg`: `MaxCommands` bounds the commands
issued, `MaxEvents` the events recorded or appended, `MaxPending` the pending
events of a copy, `MaxFaults` the failures of a projector, `MaxEdits` the edits
of a tree, `MaxChain` the files of a chain of imports, `MaxStatements` the
statements of a role file. The short texts of `PageChecks` are sets defined
there.

| Run | Instance | Shows |
| --- | --- | --- |
| `commands` | 2 handlers, 4 commands, two counters with range 0..1, a user named like one of them, two articles of which one is in the catalog, fair | `CommandSystem` implements `AtomicCommands`; `LegalHistory`; receipts are true; both queries agree with the aggregates; on an identity only one slice uses, conflicts mean contention; every command is answered: all this although two slices share a stream |
| `shared_ids_conflict` | as `commands` | finding 3 |
| `cli` | 2 processes, 3 commands taking turns, lists at any time, faults, fair | as long as commands do not overlap, the file keeps what was acknowledged and holds legal logs only, across failures and deaths; a printed list agrees with the receipt above it; `Cli` implements `AtomicCli`, failures and deaths included; every run ends |
| `racing_workers` | 2 workers, 5 commands, range 0..2, faults | without that condition, a readable log is still numbered without gaps and replays to a value in range |
| `lost_update` | 2 workers, 4 commands, no faults | finding 1 |
| `repository_copies` | 2 callers, 2 repositories, one identity, 4 events, 2 pending per copy | copies are past states of their stream however long they are kept; no event is stored twice; `Repository` implements `AtomicStreams` |
| `stale_append` | 2 callers, 1 repository, preemption, 3 events | finding 2 |
| `projectors` | 2 projectors, 3 events of two kinds, 2 per read, 2 faults, both kinds of store, fair | the checkpoint is exact and reaches the end of the log; over a store that answers at once it never moves back |
| `checkpoint_back` | 2 projectors, a store that waits, no faults | finding 4 |
| `web` | 1 browser, 2 requests under way, 3 commands, bodies that are not read, fair | a form is carried out once at most; an alert answers a command and tells the truth of it; a refusal has a cause; a bookmark button does what its label says unless somebody toggled in between; every form is answered, the `Deferred` included |
| `mutation_gate` | 2 packages, 2 files of which one is exempt, concurrency 1 or 2, strict, 2 edits, fair | a pass means that everything in scope was detected; a failure has a cause in the tree or in this run, but for two cases that `FailureHasCause` names; every command ends |
| `texts_and_rules` | short texts, chains of 4 files, files of 3 statements | elements, pages and keys are read back as they were meant, a refused id as the controller trimmed it; allowed imports respect layers; an accepted role file owns its thing, and statements that export nothing do not change that |

Why the bounds are enough. Every race here is between the load and the append
(or the check and the write) of one worker and the steps of another, so two
actors have all of them; a third can only act like the second. Four commands let
a counter be created, reach its maximum, be refused there and be disabled while
the other handler conflicts at any of these points; with range 0..1 both bounds
are one step away. The proofs below hold for all numbers. `racing_workers` needs
range 0..2: two histories of one length whose values differ by two, and an
increment decided on the lower one and stored on the higher, is the shortest way
to an event the clamp must absorb. One article outside the catalog is enough for
the toggles `ListArticles` must not show. Four events and two pending per copy
let a batch be stored between another one's load and its save, and each of them
be saved again; three events against a limit of two leave a rest to resume for.
Three commands of the web are a form, its double and a third in between; one
browser is enough, because the forms it no longer waits for are to it what
another user's are. Two edits change the tree and change it back, or take a
package away that has a report; durations of 130 and 140 against a baseline of
100 are on both sides of the wall-time limit. Four files of a chain go through
every layer there is; three statements are a declaration, its export and a
helper.

Fairness is weak fairness of what the runtime and the operating system must
resume, and of nothing else: in `CommandSystem` each handler's steps, in `Cli`
each process's steps (I/O calls return), in `WebApp` also the building of the RPC
pairs and the answer of a finished handler, in `Projector` each projector's
loop, in `MutationGate` each script's steps, where the tool answers or is
killed. No fairness is assumed of new commands, new events, edits,
browsers, `Crash`, `Die`, `Interrupt` or `Fault`; `MaxFaults` bounds the latter,
since a store that fails for ever lets nobody catch up. A run that stops because
its bound is used up is not an error, hence `CHECK_DEADLOCK FALSE`; the gate never
stops and is checked for it.

Each property of a passing run has a mutant: an operator in the module of the
definition it replaces, marked `Mutant:`, that is the same definition with a
plausible mistake. Put in its place, it makes TLC refute the property.

### What the runs found

1. `lost_update`. Two workers on one file both pass the version check; the later
   write drops the event the earlier one acknowledged. The package's README
   promises a conflict "instead of silently overwriting history". Once a write is
   lost, a handler's check can also pass on a history it never saw, of the same
   length, and its event is stored where the decision would have refused it.
   This is the log "the decisions never wrote" that the reducer's clamp is there
   for; `racing_workers` shows that it suffices.
2. `stale_append`. `append` gets the `Ref`, checks, and updates it in a second
   operation. A fiber that is preempted just there appends on a stale check: two
   records with one position and one version. It takes a fiber that has used up
   its operation budget, so the product's requests do not get there; a program
   that appends in a long loop can. One `Ref.modify` would do.
3. `shared_ids_conflict`. `eventStoreFor.append` compares the slice's version
   with a count over all slices. If a counter is given a user's identity (the
   web's user is `FooBar`), whichever slice comes second can never save again.
   `eventStore.ts` says that events of other slices are no failure.
4. `checkpoint_back`. Two projectors over a `KeyValueStore` that waits between
   get and set can both save on one expected version; both are told they did,
   and the later set may take the checkpoint and its version back. The state
   stays the right one for its number (`projectors`), so the harm is
   repeated work and a read model that goes back in time.

Smaller disagreements met on the way, which no run is about:

* `web/README.md` says that every POST redirects. `postCounterCommand` makes a
  `CounterId` of a blank field by a constructor that throws, and answers an
  error. No page has such a form.
* The comment in `user/readModels.ts` gives `("ab", "c")` and `("a", "bc")` as
  the pairs the length prefix keeps apart. The colon alone does; `("a:", "b")`
  and `("a", ":b")` are the ones that need it.
* A role file is to "own exactly one export in its role". The rule accepts a
  view file with a second exported view, a factory file with a second maker of
  the model, and a model file that exports another schema by `export { X }`;
  and a view's model may come from another layer. `AcceptedFilesOwnTheirThing`
  states what does hold.
* A form whose body cannot be read is answered like one that went through: the
  redirect of the `catch` in `server.ts` has no alert, though nothing was stored.
  Whoever takes the absence of an alert for success is wrong in this one case;
  `AlertsAreTruthful` is about forms whose command was sent.
* `.dependency-cruiser.js` says that production code must not depend on
  devDependencies, that domain imports no effectful runtime module, and that
  factories do no effects. `options.exclude` takes everything in `node_modules`
  out before these rules see it, so that they never apply to an installed
  package; what they say of the repository's own files, and the rule on modules
  of the platform, do apply. `PackagesAreLayers` claims no more than that.
* `web/README.md` says that attributes come out sorted; the writer leaves them in
  the order of the view. It also names the one user `user-local`, who is "FooBar"
  in the source.
* When a package is removed and its `reports` directory stays,
  `lint-mutation-baselines` throws where it should name what it found.

## Proofs

For any number of handlers, workers, callers, projectors, browsers, commands,
counters, users, articles, packages and files, any `MaxValue`, and, unless said
otherwise, with identities shared between slices or not. Assumed: `MaxValue \in
Nat`, `MaxCommands \in Nat`, `Catalog` a finite set of `ArticleIds` (it is a
literal array in the source), `GateAssumption` and the like; each is named in
the module that declares the constant and TLC evaluates it in the runs.
`PROJECT.json` lists the theorems. Where one has a hypothesis on top, it is a
condition that a finding shows to be needed: `~ Preemptive` (finding 2),
`OneCommandAtATime` (finding 1), and, in one theorem on refusals, `CounterIds
\cap UserIds = {}` (finding 3). Each is true in the run that checks the property.

**`LegalHistory`** (`CommandSystemProofs`: `Invariance`, `TypeCorrect`,
`HistoryIsLegal`) says that each event was accepted by a decision on the history
before it. It is not inductive: the append checks a number, and the proof must
get from equal numbers to equal aggregates. The strengthening `IInv` adds

* `Numbered`: records carry their position, so that a query from the first
  sequence number sees all of them;
* `HistoryGrows`: along a stream versions never fall, and an entry of the
  history with the version of the loaded aggregate *is* the loaded aggregate;
  and that version is at most what the store counts;
* `AllPrepared`: a handler about to save holds the entry of the history it
  loaded, plus the one event decided on it.

At an append the store's count equals the version the handler loaded; that is at
most the version of the aggregate now, which is at most the count; so all three
are equal, so by `HistoryGrows` the handler's aggregate is the current one, and
its event is legal now (`SaveIsFresh`). The rest is that appending a record
changes no earlier entry of any history (`HistoryAppend`), which rests on
`ReplayPrefix`: two replays that read the same records up to `n` agree up to
`n`, shown by taking the least index where they differ. The existence of the
replay function itself (`ReplayExists`) is shown by the same descent, because
the induction theorems of the library take an operator as a parameter and the
provers cannot instantiate them. `LogProofs` and `DomainProofs` have what logs,
reducers and decisions preserve, for all stores alike.

**Answers** (`CommandSystemProofs`: `ReceiptsAreHonoured`,
`ConflictsAreContention`, `CounterListMatches`, `ArticleListMatches`). `AInv`
adds to `IInv` that a handler at work has not answered, that every answer given
is true of the log, and that on an identity of one slice the slice's version is
the store's count (`ownVersions`). Answers stay true when a record is appended:
a receipt's witness keeps its place and the history up to it. A conflict means
that the count moved after the load; a stretch of the log with no event of the
aggregate leaves its history as it was (`QuietHistory`), so there was one. The
agreement of the counter list follows from `IInv` alone: every event was decided
for its stream and so names it, and grouping by the identity inside the event is
fetching the stream. The article list folds the events of all users into one
map, and so needs that after each record the map has exactly the bookmarks each
user's own history has (`MapMatchesUser`). That is an induction over the log; it
is done on the set of positions where it holds (`UpTo`), which the provers can
instantiate where an induction rule over predicates is out of their reach.

**Handlers are atomic** (`CommandSystemProofs`: `HandlersAreAtomic`). `Spec`
implies `Atomic!SafetyAtomic`: each step of a handler is a step of
`AtomicCommands` or leaves its variables alone. `LoadAndReject` refuses at the
load, `Append_Stored` carries out the whole command at the append, because by
`SaveIsFresh` the aggregate loaded earlier is the current one. The lemmas
`Same...` say that the instance's copies of the pure operators are the
originals.

**The file** (`JsonFileStoreProofs`: `FileInvariance`, `FileTypes`,
`LogStaysOrderly`, `EveryLogReplays`). The log on file and every log a worker holds
are in order: an append numbers its records after the log it read, and what is
written is one of these logs or nothing that can be read. So a lost update
loses events but leaves no gap. Any log at all replays to a value in range
(`AnyLoadType`), which is the clamp's doing.

**The CLI** (`JsonFileStoreProofs`: `CliTypes`, `AcknowledgedAreKept`,
`FileHistoryIsLegal`, `ListsFollowReceipts`). `CInv`, the type invariant with
what each phase of a run holds, is unconditional. The other three need commands
to take turns. `TInv` then says that one worker at most is at work; that the log
it holds, and the one on file unless its writer is in the middle of it, is
*sound*: every log acknowledged is a beginning of it, and all its events are
legal. A read thus starts from a sound log, a command adds one legal event, and
a writer that dies or fails leaves a sound file or none that parses. `XInv` adds
that a receipt is a true statement about the log its command wrote
(`answeredOf`), and so about the later log the list is made from (`listedOf`).

**The CLI keeps its word** (`CommandLineKeepsItsWord`, under the same hypothesis).
Each step of `Cli` is a step of `AtomicCli` or none. A command takes effect where
`writeFileString` has written the whole text: before that, readers find the log
there was, or nothing that parses, and the abstract command is still under way.
A read of a half-written file fails, which the promise allows because another
command is under way then. A death or a failure between the two halves is the
loss of everything held, and nothing else is. The step that stores needs `RInv`:
what a worker is about to write is a log it could have read, and one event
decided on it (`writes`); it fills only a file it has emptied; and where nothing
fails, an emptied file is being filled, so nothing is ever lost. `TInv` adds that
the log it read is still the one on file. That a conflict is answered for a
shared identity only is `ownVersions` again; that a list shows the aggregates
held, for each user and for all counters, is `ListShowsBookmarks` and
`ListShowsCounters`, which the proofs about the in-memory store use as well.

**Copies of aggregates** (`RepositoryProofs`: `RepositoryInvariance`,
`StableOrderHolds`, `CopiesStayHistory`, `NothingStoredTwice`,
`SavesAreLoaded`; all under `~ Preemptive`). `RInv`: the log is numbered by
position and by stream; each copy is the events of its stream up to the version
it is expected at, followed by its pending ones (`copyOK`); what a caller in the
middle of `append` has checked is still what the log says, and only one can be
there. Events are numbered in the order they are recorded, and these numbers
ascend along each stream and each copy: so a pending event that is in the log
already means that its copy is behind, and the check refuses it.

`SavesAreWhole` says that `Repository` implements `AtomicStreams`. `append`
compares two numbers, the promise two lists of events. By `copyOK` the facts of a
copy are always what its stream begins with, so with the same number of events
they are the same (`CopyParts`); the comparison then stands for the one in the
promise, and what `storedEventsForAppend` adds to the log is exactly the copy's
pending events, in its stream and in no other (`UpdateAppends`).
`SavedIsLoaded`, which `SavesAreLoaded` proves, is the same for one save: the
stream is then what the saved copy says.

**Checkpoints** (`ProjectorProofs`: `ProjectorInvariance`,
`CheckpointIsFaithful`, `SavesComeInOrder`). `PInv`: every checkpoint there is,
stored, loaded, held or about to be saved, is `faithful`, which is to say that it
is the projection of the records up to its number. Resuming from one and reading
at most `Limit` more makes a faithful one again (`ReplayCompletes`), since the
records between are all read, of one kind or another. That holds for either kind
of store. With a store that answers at once, `inTurn` adds that a projector past
its check holds the version that is stored.

**The web** (`WebAppProofs`: `WebInvariance`, `WebTypes`, `NoFormTwice`,
`AlertsTellTheTruth`, `RefusedForCause`, `ButtonsDoAsLabelled`). A form gets a
number when its command is sent. `WInv` follows the number: a fiber that serves it has
stored no event yet unless it has an answer that says so (`FibersOK`); a
redirect on its way, or a page that answers it, names it together with what
became of it, and one that answers none has no alert (`BrowsersOK`); and every event is due to a form (`GhostsOK`).
`WInv` contains `AInv`: behind the RPC server the handlers are those of
`CommandSystem`, but that the fiber of an answered request is cleared. `EInv`
says of each refusal under way or shown that it is excused; a conflict is
excused by `ConflictsAreContention`'s argument, which is about an identity of
one slice, hence the hypothesis. `LInv` says that each form sent has the label
its page gave it for the bookmarks in the log then, and each toggle did what the
label says or comes after another one of that article: `ListShowsHistory` (by
`ListShowsBookmarks`) is why the page's list and the handler's aggregate, which
are computed in two ways, agree when nothing came between.

**The gate** (`PolicyProofs`: `GateInvariance`, `PassIsDetection`, `GateTypes`,
`FailureIsCaused`). `GInv`: past lint, the tree in force passed lint; every
package that is present is queued, running or done; a package that is done
either failed or, if its report is due, its report is of this tree. At a pass
all are done and nothing failed. That batches are no larger than the concurrency
needs facts on the cardinality of finite sets, and `min` of the two bounds. For
failures, `FInv` adds that exit codes are those of this run (`RunnerTold`), that
the policies judge the timings of this run (`PoliciesTold`), and that each code
that is not 0 has a cause.

**Chains of imports** (`PolicyProofs`: `LayersHold`, `PartsStayInOrder`). The
rules are on one import; `ImportInv` is on stretches of a chain of any length.
Packages get a `height`, and no import through `src` goes up; a chain that comes
back to a package it left would have to. The verdicts on single imports
(`ImportsGoDown`, `DomainImports`, `PartImports`) are by cases. Nothing is proved
of installed packages, which the rules do not see. `PagePartsInOrder`
alone is not inductive: that a chain from a view to a model has an import of types
needs that nothing but views and models come in between.

**Role files** (`PolicyProofs`: `OwnersHold`, `PrivateIsFree`). The set of
messages on a file is empty exactly if it is good (`Verdict`, one formula per
role); what is promised of an accepted file then follows for any number of
statements of the sorts in `Statements`. A private statement added changes no
part of the verdict: a second view of the same name does not compile, and an
import after the first one that brings a name in is not looked at.

**Keys** (`DomainProofs`: `KeyTellsTheBookmark`). Two bookmarks with one
key are one bookmark, for identities of any text, if lengths are written without
a colon and different lengths differently, which decimal notation does. The key
up to its first colon is the length; the length tells where the user's identity
ends.

**Texts** (`WebAppProofs`: `TextsReadBack`, `RedirectsReadBack`). Whatever symbols a
text is made of, a browser reads back what `escapeHtml` made of it, and finds no
quote that ends the attribute and no tag. `escapeHtml` is five replacements one
after the other; what they make of a text is what they make of its symbols, one
by one (`EscapeHtmlGrows`), because the ampersand goes first and none of them
meets a character that an earlier one has written. The server reads a redirect's target as the
error and the id it was made with, whichever of them is left out and whatever is
in them: no symbol of an encoded value starts or ends a parameter
(`ParametersComeBack`). Both are inductions along the text, on the set of
beginnings for which the claim holds (`UpTo`), since writing and reading are
made piece by piece and a text that is one symbol longer is read as one piece
more.

Only model-checked:

* all liveness, and `CommandsAreAtomic` in its fairness half: `ENABLED` and
  fairness are out of the provers' reach;
* `ElementsReadAsMeant`, `PagesReadAsMade`, `TypedIdComesBack` and
  `KeysUnambiguous`: the writer and the reader of markup are recursive over
  trees, and what a recursive definition computes for every input needs
  induction over data. What these say of single texts, targets and keys is
  proved in general by `TextsReadBack`, `RedirectsReadBack` and
  `KeyTellsTheBookmark`.

## Not modelled

* Encoding to JSON and back (a file is a log or it is not; a payload arrives as
  it was sent), the wording of messages and of what the CLI prints, titles of
  articles and the order of rows, styling.
* Settings read at the start (`runtime-config`), a store made with seed
  events, and the fetch of one stream from a number on: no part of the
  application uses the last two.
* The interruption of a request by a lost connection. The web is modelled over
  the in-memory store; over the file it meets what `cli` and `racing_workers`
  show.
* Import rules on test trees other than `srcDoesNotImportTest`; the two rules on
  a directory `commands/`, which no package has;
  the rule on routes, whose pattern matches no file; `no-circular`. The
  directories `bin` of `application` and `event-sourcing` and `scripts` come
  under no package rule.
* In the role file rule: names that change on import or export, and the spelling
  of names (a name is words and what it is the name of). One message of the
  rule, on a view of an invalid name, cannot be reached. Of the schemas of a
  model file the rule sees the tagged ones and unions; an exported plain
  `Schema.Struct` is no statement of the model.
* `MUTATION_PACKAGE_SCRIPT`, which lets a run of `mutation-timed` call another
  script of the packages than `mutation`. The gate does not set it.
* Test support, and the other lint rules and policy scripts
  (`lint-unit-test-architecture`, `lint-coverage-policy`,
  `lint-policy-exceptions`, the rules on native libraries): each looks for a
  pattern in one source text or lists what one file lacks, keeps no state, and
  nothing relates one answer to another.
* `postgres-event-store` is named in the documentation and is not in the
  repository.

## Left over

Refinements of the projector and of the web. A checkpoint could be shown to
implement a counter of events consumed, and the web server the command handlers
with a browser in front. What they would promise is stated by invariants and
action properties here, which are proved.
