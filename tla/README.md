# fb2cng-web: TLA+ models, model checking and proofs

fb2cng-web is a small web server around the FB2 converter `fbc`. A browser
uploads a batch of books, the server converts them one after the other in a
background goroutine, the page polls a card until every book is settled, and a
sweeper removes old batches. Users keep their conversion settings as presets,
which they edit in a form with a live preview. This directory holds TLA+ models
of the parts that decide something, TLC configurations that check them on small
instances, and TLAPS proofs of the results that should hold for every instance.

Line numbers are those of `src/`. Tools: `tlc -config X.cfg M`, `tlapm M.tla`.

## 1. Inventory

| part | state it keeps | operations | what is hard | modelled in |
|---|---|---|---|---|
| conversion flow (`server/convert_flow.go`, `jobs/jobs.go`, `jobs/zip_sweep.go`, `server.go`, `main.go`) | one directory per job: `status.json`, `in/`, `out/`; `Server.mu`, `Server.sem`; a goroutine per batch and per retry; the sweeper | `POST /convert`, `processFiles`, `updateFile`, `POST /jobs/{id}/retry`, polls, `Sweep` | worker, retries and sweeper over the same files; failed writes; a restart; a full semaphore | `JobFlow`, `JobLedger` |
| fbc runner (`convert/runner.go`) | the output directory | `ConvertLogged`, `collectOutputs`, `Validate` | a hung or killed fbc; output left by an earlier attempt | `JobFlow` |
| file writes (`jobs.Store.Save`, `presets.Store.write`, `writeMeta`) | `<path>.tmp` and `<path>` | write, rename | concurrent writers of one temporary file; a crash in between; a full disk | `AtomicFile`, `Register` |
| names of a batch, archive, downloads (`persistInputs`, `uniqueInputName`, `collectOutputs`, `WriteZip`, `uniqueZipName`, `handleDownload`, `safeName`) | names of inputs, rows, outputs, archive entries | make a taken name fresh, find a row by name, list, serve | a suffixed name that meets a genuine one; outputs of one name; names one function accepts and another refuses | `FreshName`, `BatchFiles` |
| preset store and handlers (`presets/store.go`, `presets_http.go`, `editor.go`) | `<id>.yaml` per preset, `_meta.yaml` with the default; no lock | create, duplicate, save, set default, delete | check-then-act on files; two writes for one copy; crashes | `PresetStore`, `PresetLibrary` |
| configuration layers and editor (`convert/config_yaml.go`, `editor.go`, `effective.go`) | a preset's overrides, the open form, the generated `config.yaml` | build, flatten, unflatten, collect, preview, save | layering, sparse overrides, types of posted values, map order, rows and counts of the grid | `ConfigFlat`, `ConfigTree`, `ConfigLayers`, `EditorGrid` |
| option schema (`schema/`) | the embedded options | load, `IsDefault`, `Groups`, `InGroup` | (constants of `ConfigLayers` and `EditorGrid`) | partly |
| schema generator (`cmd/schemagen`) | `options.json` | a run: flatten, parse comments, describe, report drift, write | comments with values, asides and banners; a run cut off; annotations by hand | `SchemaGen` |
| OIDC login (`auth/`, the gate of `server.go`) | flow cookie, session cookie, key | start, login, callback, middleware, logout | tabs that share a cookie jar, expiry, a code sent twice, a restart with another key or setting | `OidcLogin`, `Gate` |
| wiring, environment, pages, container, CI | none of their own | | layout and I/O | not modelled |

**How they interact.** The handlers and the worker goroutines share the job
directories on the disk and, in the process, two locks: `Server.mu` around the
read-change-write of `status.json` in `updateFile` and `handleRetry`, and the
buffered channel `Server.sem` around each run of fbc. Nothing else is locked:
`seedPending` writes without `mu` (before any worker exists), the sweeper looks
at a directory's mtime, then at its status, then removes it, and the preset
store has no lock at all. With `AUTH_MODE=oidc` the login's middleware stands
before every route but `/static/` and its own. The browser polls
`GET /jobs/{id}` until `Done`; `Done` is also what tells the sweeper that nobody
works on a directory. A conversion reads its preset once, writes `config.yaml` and is independent of the
preset from then on.

**What makes each part correct.**
- *Conversion flow*: an upload is in the hands of one worker at most; `Done` is
  up exactly when every row is settled; a row is never pending with nobody to
  settle it; a success is never lost; the sweeper takes no batch in its first
  run; tokens come back; every batch, request and directory comes to an end.
- *File writes*: a reader sees one whole value, before, during and after a
  crash.
- *Names*: no input, row or archive entry hides another.
- *Preset store*: the default exists; a creation replaces nothing; the default
  cannot be removed; requests that overlap harm no preset but the one they are
  both about; every request is answered.
- *Configuration*: what a save keeps is sparse, shows again as it was left and
  reaches fbc; nested maps behave like sets of leaves; the grid has every option
  once, told apart, with true counts.
- *Schema generator*: the file follows the dump; the maintainer is told of every
  option that came, went or changed its kind.
- *Login*: a page on a pass only, a pass only for a login this browser asked for
  and a member of the group, and none that outlasts the group, or the answer to a
  token that still named it, by more than a session's life; a login that nothing disturbs succeeds; a tab lands on its own
  page.

## 2. Modules

### JobLedger and JobFlow (the core)

`JobLedger` is what a browser is promised: `Accept` a batch with every row
pending, `Settle` rows one at a time, `Reopen` all failed rows together,
`Forget` a done batch, and, the exception finding 1 is about, `LoseReopened`. The
promise ends when a batch is removed while a request or a worker is still at it
(`lost`): that worker may make the directory and the status again, and what is
then polled (`Stray`) is one whole card, but any.

`JobFlow` is the code. A *task* is a request together with the goroutine it
launches. The job is named by the `POST /convert` that makes it, an upload by
its place in the batch.

| variable | code |
|---|---|
| `dir`, `expired`, `saved`, `status`, `stored`, `out` | the job directory, its mtime against `JOBS_TTL`, a readable `status.json`, what it says, `in/`, `out/<input>/` |
| `hpc`, `wpc`, `target`, `todo`, `result` | where a handler and its goroutine are, the job of a retry, what is left in the loop of `processFiles`, the row it is about to record |
| `snap`, `mu`, `sem` | the `Status` loaded by the holder of `Server.mu`, that holder, the tokens |
| `sweepPc`, `sweepJob` | where `Sweep` is |
| `raced`, `crashes` | history: jobs removed under a task that used them; the bound on crashes |

The actions follow the places where another goroutine can get in between:
`MakeTree`, `InitStatus`, `StoreInputs`, `Seed`, `Launch`, `Answer` are
`handleConvert`; `RetryOpen`, `RetryConfig`, `RetryReset` (lock, load and the
reset in memory), `RetrySave` (save and unlock) are `handleRetry`; `Acquire`,
`FbcSucceeds`, `FbcFails`, `Record` (lock and load), `RecordSaves` (save and
unlock) are one turn of `processFiles`; `SweepAge`, `SweepLoad`, `SweepRemove`
are the three accesses of `Sweep`. `Crash` forgets everything but the disk,
because `main` recovers nothing at its start. A write may fail when its name is
in `FaultyWrites`. `Orphan` names what such a write or a crash may leave: a job that
is not done and nobody works on. `IInv` and `FateInv`, at the end of the module,
are the invariants the proofs use.

Abstractions, each of which a reader should know of:
- `Age` assumes that `JOBS_TTL` outlasts a *request* (not a conversion): while a
  handler of the job is open, its directory does not expire.
- `SweepRemove` is one step, although `RemoveAll` walks the tree.
- `Save` is one step here; `AtomicFile` opens it.
- A killed fbc is reaped at once. `exec.Cmd` has no `WaitDelay`, so a grandchild
  that holds the output pipe could stall `Run` beyond the timeout.
- A truncated file does not move its directory's mtime, a created one does:
  `Touch` allows both.

### AtomicFile and Register

One path, its temporary file and their inodes. `OpenTmp` is
`O_CREATE|O_TRUNC`, `Fill` the write, `Rename` the rename, `FillFails` a full
disk, `Crash` a restart anywhere. `Locked` tells whether the writers hold a lock
from before the open to after the rename: TRUE is `status.json` (`Server.mu`),
FALSE is the preset store. `OpenFinal` and `ReadDone` are the two ends of a
`Load`, which takes no lock and may go on while the file is replaced. It
implements `Register`: a save shows at one instant between its call and its
return, or never when it fails, and a read returns what was there when it began.
Only `updateFile` and `handleRetry` hold the lock; the saves of
`Create` and `seedPending` run before any other goroutine knows the job.

### FreshName and BatchFiles

`uniqueInputName` and `uniqueZipName` are one function: strip a trailing
`-<number>`, then take the first suffix that is free. A name is a stem and that
number. `BatchFiles` takes uploads with arbitrary names through `persistInputs`,
`seedPending`, one conversion after the other (`Convert`: `ConvertLogged`,
`collectOutputs` and `updateFile`, which finds a row by name), one retry of the
failed rows, and `WriteZip`: an archive may be asked for at any time after the
upload (`handleZip` does not look at `Done`), lists one directory after the other
and copies what it has listed, while conversions go on (`ZipStart`, `ZipEnter`,
`ZipNext`). `outDir` is what lies under `out/<input>`, partial
output of failed attempts included, which a row lists again after a later one.
`Served` is what the link of an output is answered with (`handleDownload`,
`safeName`). One worker at a time is enough here: `JobFlow` has the
interleavings. `collectOutputs` also skips hidden directories, which `WriteZip`
descends into; the model has output files only.

### PresetLibrary and PresetStore

`PresetLibrary` is what the presets page promises: add, update, remove, choose a
default, clear it; and that users who change one preset at the same moment
*contend* for it, which leaves open what becomes of this preset, and of nothing
else. `PresetStore` has one step for each access of a handler to
the file system, with `Requests` slots for requests in flight; `at` and `rq` are
a request's program counter and what it was asked or has read. Names matter by
their slug only. The built-in preset can be copied (it is always there, and
empty) and chosen (which clears the default); to save or delete it is refused.
`WriteFails` answers with the error, `Crash` forgets the
requests. Duplicate writes twice, first an empty preset and then the overrides,
as the code does. Two history variables say where requests meet: `met` are the
requests about to act on a preset another one has acted on since they looked,
`raced` the presets that such a request was the last to act on, which the library
knows as `contended`.

### ConfigFlat, ConfigTree and ConfigLayers

`ConfigTree` has the nested maps: `unflatten`, in whatever order Go walks its
map, `deepMerge`, `child` and `flattenOverrides`. What the code does by recursion
on maps is written there as a function of the address in the tree, so that it can
be proved about. `ConfigFlat` has the same operations on sets of leaves.
`TreesAreTheirLeaves` says that they agree, so that `ConfigLayers` may use sets
of leaves. There: `OpenEditor` (rows and preview),
`Change` and `Refresh` (the form and its debounced preview), `Save`
(`collectOverrides`), `Convert` (`buildConfigForPreset`), `Retry`
(`handleRetry`'s own configuration). A value is its YAML type and its text. A
string option whose key ends in `_template` is a textarea: the page reads CRLF as
LF and skips a first line break (`Held`), a submit posts CRLF (`Crlf`), and the
script's preview posts the text as it is. `collectOverrides` and `IsDefault` do
not normalise any of it, and neither does the model. The other controls hold one
line; a preset edited by hand so that they cannot show its value (line breaks, a
value no enum lists) is not in the model.
`Init` also has presets from an older version: leaves the schema does not know,
and an override that equals its default. `EditorGrid` adds the grid of the page:
`Groups`, `rowFor`, `rowLabel`, `sectionName`, `partition` and the counts, as
functions of the preset's overrides; the rows the schema does not know come in an
order that is fixed but not that of `sort.Strings`, which nothing depends on. `BuildConfig`'s form options are not in
the model, as no caller sets them; `Validate` only decides what the preview
says. The script of the page counts changed rows live and takes "" or "075" for
changed although a save drops them; it is not in the model.

### Gate and OidcLogin

`Gate` is what one browser is promised: a page on a pass only, a pass only for a
tab that has asked, to the user the provider vouches for, once, and for `TTL`
ticks; the provider vouches for users in the group.

`OidcLogin` is the code around one browser's cookie jar.

| variable | code |
|---|---|
| `auth` | what `auth.New` and `resolveKey` made of the environment: off, down, a configured or a random key |
| `flow`, `sess` | the flow and the session cookie: whose login or user, the key that signed it, the ticks left |
| `tab` | where each tab is, and for a callback that holds a token whether its groups name the required one; the user whose code is in its address, and whether that code is redeemed; the flow cookie its callback was sent with |
| `members` | the required group, kept by the provider |
| `restarts`, `away`, `disturbed` | the bound; ticks since a user was in the group or a callback held a token that said so; tabs something has got in the way of |

`Serve` is `Middleware`, `Login` and `Logout` are theirs, and `Callback` is five
kinds of step: `CallbackWithoutFlow`, `CallbackMismatch`, `CallbackBegins` (it
reads the request's cookies, and the exchange takes time), `Redeem` (the exchange
is back with a token, which holds the groups of that moment; `Verify` takes time
too, it may fetch keys), then `ExchangeFails`, `Forbidden` or `LogIn` (the session
ends `TTL` after *this* step, and the answer clears whatever flow cookie is in the
jar by then). Between `Redeem` and `LogIn` the user may leave the group and time
may pass; `GoneWithinTTL` counts the session's life from the latest of such
answers, not from the moment the user left. Random state, nonce and verifier are named by the tab that goes through
them, `Stale` when no tab does. `Poll` is the htmx request of a page whose
session is over: it is redirected to `/auth/login` too. `Restart` takes any
environment; a random key's cookies are void after it. The HMAC and the
provider's token are taken to do what they are specified to do, and the return
path, which names a page here, to be one of this site (`safeReturn`).

### SchemaGen and DumpTree

A run of the generator in the steps it can be cut off at: `Build` (`Flatten`,
`parseComment`, `inferKind`, `buildOptions`, `applyDescriptions`), `Report`
(`computeDrift` against the old file, none if it cannot be read), `Truncate` and
`Fill` (`os.WriteFile`), `Abort`. `Bump` is a new fbc, `Annotate` the
maintainer's hand, which describes an option or makes an enum of it. `Flatten` is a parameter: `DumpTree`, which is recursive and for
TLC, gives it the value of `flattenNode`. Its reference definitions do not follow
the code: `Scaffold` looks up each leaf of the dump by its address.

## 3. Runs

| run | instance | question and answer |
|---|---|---|
| `flow_batch` | 1 batch, 1-2 uploads, 2 retries, 2 slots, any write but `updateFile`'s may fail, 1 crash | Who owns which row, when is `Done` up, what survives, what may strand a job, does the flow implement the ledger? All hold, `IInv` and `FateInv` included |
| `flow_liveness` | 1 batch of 1-2, 1 retry, `MAX_CONCURRENT = 0`, any write may fail, 1 crash | Never two converters at once, although both have work; with fairness every batch is done, gone or an orphan, every directory is swept or an orphan's, every request answered |
| `flow_live_sweep` | 1 batch of 1, 1 retry | *Violated*: finding 1 |
| `status_file` | 3 writers, 2 readers, 4 inodes, locked | `status.json` is always read whole, and a register with atomic writes and reads |
| `batch_names` | uploads "book", "book-1", "book-007", "vol." (whose extension makes two dots of it), 1-3 of them, 1-2 in a batch that is retried or archived while it is converted; outputs "index", "index-1", one with two dots in a row and a hidden file | No two inputs, rows or entries share a name, the batch settles, and what is listed can be fetched |
| `preset_requests` | 1 slug, 2 overlapping requests, 1 preset before a new one, failing writes, crashes | The store implements the library, a race harms only the preset it is about, and every request is answered |
| `preset_default` | 1 slug, 2 requests | *Violated*: finding 2 |
| `config_tree` | 4 keys, one inside another, 3 per map | Nested maps follow their leaves |
| `config_editor` | 5 options of 4 kinds, a template of two lines among them, 2 unknown leaves | A save is sparse but for such a template, shows again as it was left, reaches fbc, and what it kept it keeps; a retry runs with its flip; the grid is true |
| `config_choice` | the same | *Violated*: finding 3 |
| `schema_runs` | every comment of two lines or less, of six classes, and three longer ones; `config.md` with two lines on a key, or none; one option annotated by hand; 2 new versions | The file follows the dump and the report tells all |
| `login` | 2 tabs, 1 user, lives of 1 tick, 1 restart, any setting | Who gets in, for how long, what may refuse a login; a tab alone gets in |

**Why the bounds are enough.** In `JobFlow` a lost update needs two tasks on one
`status.json`; two retries and the first worker are three. Two uploads let one
fail and be retried while the other still converts. In `flow_batch` the two slots
let a worker and a retry's really run together; in `flow_liveness` they compete
for one, so that there the cap binds. What batches share is the slots, the
mutex and the sweeper: one batch has all three in use, and the theorems of
section 5 hold for any number of batches. One crash comes at any point, and what
comes after it uses only the disk. In `AtomicFile` the two names and
what two readers still hold open are four inodes at most, and three writers come
between the open and the end of a read. In `BatchFiles` three uploads let a
genuine "x-1" meet the "-1" of a second "x" in every order, and "book-007" a
suffix that no candidate is written as; two in a retried batch let one keep
what the other must not take. In `PresetStore`
two requests about one name are enough for every race between a look and a write:
the second finds the first's id taken, takes it too, or is left with "book-2";
`Suffixes` is exactly as long as `freeID` can need with one preset and two
requests (`RequestsEnd` would fail otherwise). In `ConfigTree` the keys are siblings, a key inside another and a
key at each depth. In `ConfigLayers` there is an option the application sets,
a number typed as "040" or left empty, a template of two lines and one that
starts with a line break,
and an unknown leaf with and without a dot; two options of one section end in
the same segment, and sections interleave in the order of the schema. In `OidcLogin` each hazard is
one tab against another, or one against time or a restart; a cookie that lives
one tick ends at every point of a login. In `SchemaGen` each of the six classes
of lines meets each other before and after it, and two versions let an option
go and come back.

**Fairness.** `JobFlow!Fairness`: a handler and a goroutine that can go on do;
fbc ends because `FBC_TIMEOUT` kills it, so `FbcFails` is fair and `FbcSucceeds`
is not; `sync.Mutex` (which turns to first come, first served when a waiter
starves) and a channel send are granted to a waiter that could have them again
and again (SF on `Acquire`, `Record`, `RetryReset`); time passes, and the
ticker's `Sweep` walks every directory, so none is passed over for ever (SF on
`SweepAge`). Browsers are not fair: nobody has to upload or retry.
`PresetStore!FairSpec` says only that a handler runs until it has answered.
Without the orphans, `JobCompletes` and `EveryDirSwept` do not hold (section 4).

`OidcLogin!Fairness` holds for the tabs of users who keep trying (`Patient`): the
server answers, the provider answers and does not fail for ever (it gives tokens,
and they verify), a refused user
goes to the page again, does not reload for ever what is about to come, and once
in a while is done at the provider before the flow cookie's ten minutes are over,
with an account of the group if there is one. Nothing is asked of the other
tabs, of time, or of the operator; `LoneTabGetsIn` therefore speaks of a tab that
is alone in the end.

**Deadlock** is checked in every run. A flow with nothing left to do stutters in
`Quiescent`; of a finished batch of names another archive can always be asked for.

**Mutants.** Beside some definitions stands a second one, marked *Mutant*: the
way the code could plausibly be wrong there. Put in the place of the first, it
makes the run violate the property listed with it in PROJECT.json.

## 4. Findings

1. **`flow_live_sweep`** - the sweeper removes a live job. `zip_sweep.go:112`
   says "still running: never delete a live job", but `Sweep` looks at the mtime
   (108), then at `Done` (111), and removes (114), without `Server.mu`. A retry
   that saves its reset between 111 and 114 loses its batch; the handler's last
   `Load` then returns nil and `cardFor(nil)` panics (`convert_flow.go:500`).
2. **`preset_default`** - the default is a preset that is gone. `Delete` reads
   the marker and then removes the file, `SetDefault` looks for the file and then
   writes the marker, without a lock, so both pass their test.
3. **`config_choice`** - a choice that equals fbc's default is dropped on save
   (`editor.go:308`), and `BuildConfig` then puts the application default in its
   place. `insert_soft_hyphen`, `dropcaps.enable`, `images.cover.generate` and
   `footnotes.mode` cannot be set to fbc's default, against
   `config_yaml.go:22-25`.

**Known divergences without a run of their own.** Each is seen by changing a
constant of a run or by reading the line.
- A restart, an upload that fails after `Create` or a dropped error of
  `updateFile` leaves a job that is not done and has no worker: `Sweep` keeps it
  for ever and its card polls for ever. Line 154 of the design document says that
  directories are always swept. The runs allow for such an `Orphan` by name, and
  `OrphansHaveACause` says that nothing else makes one.
- `PendingHasWorker` fails with `"update"` in `FaultyWrites`: `updateFile` drops
  the error of `Save`.
- A retry builds its configuration from the one flip and leaves out the preset of
  its batch (`convert_flow.go:451`), against line 110 of the design document:
  "application defaults < preset overrides < (any per-convert override, e.g.
  retry flip)". No property says otherwise: of a retry, `OverridesReachFbc` only
  says that its flip is there. `retry # Absent => overrides \subseteq retry`, put
  in the place of its second conjunct, is violated in three states.
- Six options have templates of several lines for defaults (`options.json`). A
  submit posts their line breaks as CRLF, `IsDefault` compares with LF, and so
  saving a page nobody has touched stores all six as overrides, against lines
  112-114 of the design document: "A preset stores **only** keys whose value
  differs from the fbc default (sparse) [...] equal -> drop the key". The preview,
  which posts LF, does not show them. `SavedIsSparse` excepts such an option by
  name; without the premise of its last line it is violated by the first save. A
  template saved with a first line break loses it on the next page.
- `FinalWhole` fails in `status_file` with `Locked = FALSE`, the way the preset
  store writes: two saves of one preset share `<id>.yaml.tmp`.
- A creation does replace a preset when two of them look for an id together:
  `freeID` only looks at the id it returns. `CreateIsFresh` says that this is the
  only way.
- `handleDownload` serves the first row that lists an output of the name
  (`convert_flow.go:371`); a later row with an output of that name has no link of
  its own. The archive holds both. A failed row, too, may list what its attempts
  left.
- `safeName` refuses a name with ".." in it, `persistInputs` does not: such a
  book is converted, and only the archive has its output. The card offers the
  archive only for two outputs or more (`_convert_card.gohtml:71`): the output
  of such a book alone is there, but nothing on the card leads to it.
- The callback clears whatever flow cookie the jar holds when it answers
  (`http.go:76`), so two tabs can refuse each other again and again. A callback
  whose cookie does not verify clears nothing.
- A page whose session is over polls on: the poll is redirected to
  `/auth/login`, replaces the flow cookie of a login under way and ends at the
  provider's origin; a form posted then is lost. `docs/oidc-authelia.md:119-124`
  says that the re-check stays invisible. No template links to the logout.
- A run of the generator replaces what was annotated by hand; the report names
  the options whose kind falls back and says nothing of descriptions, values and
  defaults, against `schema/gen.go:5-6`. After a run that was cut off in its writing the
  next reports every option as added and none as removed.
- `handlePresetSave` saves a preset the preview calls invalid, against lines
  152-153 of the design document.

## 5. Proofs

All theorems hold for any values of the constants under the named assumptions
(`TasksAssumption`, `FilesAssumption`, `ConcurrencyAssumption`, ...), which TLC
evaluates in the runs.

- **`JobFlow_proofs`**: `TypeCorrect`, `OneConverterAlways`, `DoneFlagCorrect`,
  `SlotsRespected`, `DoneStaysDone`, `IInvAlways`. None of the properties is
  inductive. That
  two tasks never own the same upload rests on *OwnedPending*: a row somebody is
  going to settle says "pending" on the disk, while a retry takes only rows that
  say "failed". That this survives the window between `Load` and `Save` rests on
  *SnapOK*, which says the same of the status the lock holder is about to write,
  and on *LockOK*, that there is only one such holder. *PhaseOK* ties requests
  to goroutines (a worker runs only for a handler that has launched it, nothing
  is retried before it was answered). `IInv` is their conjunction; `flow_batch`
  checks it, and the proof has one lemma for the handlers of a conversion, one
  for those of a retry, one for the worker and one for the sweeper and the crash.
  Its second part proves `FateHolds`, `FirstRunSafe`, `DoneDownloads`,
  `PendingSettles`, `OrphansExplained`: on top of `IInv`, *HoldOK* (the directory
  of an open first request is there, young, and the sweeper looks elsewhere),
  *WorkOK* (a worker has something to do, and the job of a first worker is saved
  and not condemned by a sweep), *RowsOK* (a seeded job has rows),
  *OutputsOK* (a done row has its file in `out/`), and *OwnersOK* (whose is
  each pending row), which needs that no process died and `updateFile`'s `Save`
  did not fail. `PendingSettles` therefore assumes `"update" \notin FaultyWrites`,
  and `OrphansExplained` is what remains without it.
  Its third part proves `FlowImplementsLedger`, for any jobs, retries and
  uploads, any failing writes and any number of crashes. Every step of the flow
  is one step of the ledger or a stutter: *ResetHeld* and *MergeHeld* say that the
  status about to be saved is the one on the disk but for the lock holder's
  change, so that a save is one `Settle` or one `Reopen`; *UsersSaved* and
  *HolderSaved*, that only a job removed under its task lacks a status. Such a job
  may only stray: `DoneFlagCorrect` makes its card a whole one.
- **`AtomicFile_proofs`**: `StatusFileWhole`, `StatusFileIsRegister`, for any
  number of writers, readers and inodes, under `Locked`. The invariant says that
  the temporary file is neither the one readers find nor one a reader still has
  open, and that a file open for writing belongs to the lock holder and is the
  temporary file; so only a rename shows, and no write touches what is being read.
- **`PresetStore_proofs`**: `DefaultAlwaysThere`, `CreationIsFresh`,
  `StoreIsLibrary`, for any number of overlapping requests, slugs and presets.
  The invariant is *SeenOK*: what a request saw of its subject when it looked is
  still so, unless it is in `met`. It is kept because an act touches nothing but
  its subject and puts everybody who has looked at that subject into `met`; so an
  act by a request outside `met` is the library's act of one user, and any other
  is a `Contend`.
- **`BatchFiles_proofs`**: `FreshIsFree`, `InputsStayDistinct`,
  `EntriesStayDistinct`, `EveryRowSettles`, `OutputsReachable`, for any
  uploads, outputs and names. There is one more
  candidate than there are names in use, so one is free (the pigeonhole
  principle), and the least of them is what the loop returns; the names in use
  are finitely many because they stand in a sequence. That every row settles follows
  from distinct inputs: the row `updateFile` finds by name is the one that was
  converted. *WalkInv* says that whatever was listed when the last archive was
  asked for is in it, listed by its walk, or in a directory the walk has yet to
  enter; no step takes a file away.
- **`ConfigTree_proofs`**: `NoKeyIsLost`, `TreesAreTheirLeaves`, for any keys,
  values and paths, trees of any shape and depth, and override maps of any size,
  built in any order. A merge gives the leaves of the one tree that the other
  leaves standing, and the leaves of the other, but only where a map of the
  source is not empty: `deepMerge` lets an empty map take the place of a leaf.
  The invariant therefore says, beside that both trees are well formed, that
  every map of the overrides under construction has a leaf somewhere below it
  (*Filled*), which one more key preserves. The recursive functions of the
  model are chosen by their equations; that there are functions to choose is
  shown for each, by induction on sets of natural numbers.
- **`ConfigLayers_proofs`**: `SavesAreSparse`, `SavesRoundTrip`, `OverridesAreLaid`,
  `PreviewsAreSaves`, for any schema, defaults, texts and old presets, under
  `DocumentAssumption` (no option is the whole document), `NumbersAssumption`
  (`Atoi`'s text parses to itself), `DefaultsAssumption` (defaults are in that
  form) and `LineBreaksAssumption` (a page reads a submitted text as it reads the
  text). The invariant says that a preset that was saved is what `Collect` made of
  the form; then a value parsed, shown and parsed again is the same value, and
  laying leaves over others drops none of the leaves on top.
  Its second part proves `GridsAreTrue`, for any options in any order, under
  `OrderAssumption` (the file lists each option once), `OptionsAssumption` (no key
  repeats its first segment, and none has a section of the name "general") and
  `LegacyAssumption`; all three are true of `options.json`. `Lists(s, S)` says that the sequence *s* has each
  element of *S* once. Every operator of the grid has a lemma that says which set
  it lists; so a row has one place, the sections are as many as the pairs of group
  and name, and their counts add up to the changed rows. Labels are told apart
  because two keys of one section differ after it, and the label of a row
  the schema does not know starts with its group, which no option's label
  contains. The count is that of the overrides because a save has kept one leaf
  for each changed row. *GridInv* adds to the invariant that an open form has the
  controls of the preset's rows, and that the rows the schema does not know came with
  the old presets, so that they are finitely many.
- **`SchemaGen_proofs`**: `DriftIsTold`, for any dumps, whatever they flatten to,
  and any runs that are cut off. The invariant says what a report compares with:
  the options of the last whole file, or none, and then that file was lost to a run
  cut off in its writing, or there was none.
- **`OidcLogin_proofs`**: `LoginTypes`, `BadRequestsAreDisturbed`,
  `SessionsEndInTime`, `LoginLandsHome`, `LoginIsGate`, for any tabs, users,
  lives and restarts. The invariant says that a tab nothing has met still has its
  own flow cookie, signed by the key that verifies it (*Undisturbed*), that a flow
  cookie of a tab's login has the tab's page (*FlowOK*), and where a tab can have
  a code (*TabOK*); a session is granted only to a user whom a token vouches for
  (*AwayOK*: such a user's absence has not begun), so its ticks and those since
  the user was last vouched for add up to `TTL` at most.

Only model-checked: liveness (`JobCompletes`, `EveryDirSwept`,
`EveryRequestEnds`, `RequestsEnd`, `LoneTabGetsIn`), which is out of the
prover's reach, and `ScaffoldFollowsDump`, which is about a dump flattened by the
RECURSIVE operators of `DumpTree`. What a `ConfigTree` or grid function computes
is proved from the equations of that function, one level or one position at a
time.

## 6. Plan

Everything planned is done, in this order: `JobLedger`, `JobFlow` (composed with
`JobLedger`); `Register`, `AtomicFile`; `FreshName`, `BatchFiles`;
`PresetLibrary`, `PresetStore`; `ConfigFlat`, `ConfigTree`, `ConfigLayers` (over
`ConfigFlat`), `EditorGrid` (over `ConfigLayers`); `Gate`, `OidcLogin`;
`SchemaGen`; and a proof module for each that can be proved about. What could
still be done: the walk of `RemoveAll` in more than one step, and `DumpTree`
without recursion, for a proof of `ScaffoldFollowsDump`.

**Not modelled**, for the reasons in the notes of PROJECT.json: templates, CSS and
wording (`prettify`, the kinds of control) are layout; the router is a table; the
environment is read once; `handleLog` and the streaming of a file change nothing;
the HMAC, the token check of the OIDC library, `safeReturn` (a test on a string)
and fbc itself; the container and the CI, which do not take part in the running
program.
