# The work calendar `sched`, in TLA+

`sched` assigns the daily chores of a team to its members, round-robin, under
exclusions between chores. It is a command line program: every command is a
process of its own that loads JSON files from a data folder, works on its copy
and writes files back. This folder models what the program does to that data,
checks it with TLC and proves the core of it with TLAPS.

- `X.tla` models a component, `X_proofs.tla` holds the theorems about it,
- `MC_X.tla` gives it small constants, `MC_X*.cfg` are the runs,
- `PROJECT.json` lists components, runs, hazards, findings, theorems, the code
  lines behind every definition, and for every checked property a slip in the
  code that breaks it.

Run `tlc -workers 2 -config MC_X.cfg MC_X` and `tlapm X_proofs.tla`.

## 1. Inventory

| Component | State it keeps | Operations | What is hard about it |
|---|---|---|---|
| Assignment engine `core/scheduling` | ledger, loads, cursor (one call) | `assign` | greedy seating under one-sided exclusions, stale cursors, carried-over results |
| Day computation `assign_service`, `availability`, `day_plan` | cursors per task set, results per slot | `computeDay`, `slotsForDate`, `findSlot` | one cursor shared by categories, slots and days whose people differ |
| Data folder `assign_service`, `absence_service`, `prune_service`, `cli/main` | snapshots, cursors, absences, archive | `ensureSnapshot`, `addAbsence`, `removeAbsence`, `setWeeklyOff`, `pruneSnapshots` | read-modify-write by processes, several files per command, crashes |
| Write lock `storage/lock` | `state/.lock` | `acquire`, `release` | test-then-write, leftover locks, time, pids |
| Atomic write `storage/atomic_write` | target, `.tmp`, `.bak` | `atomicWrite` | every file operation fails or is cut short |
| Administration `admin_service` | workers, tasks, sets, categories, slots | add, edit, remove of each | references, symmetric exclusions, ids handed out again |
| JSON files `storage/json_io`, `migration` | none | `load*`, `toJsonText`, `save*`, `normalizeConflicts`, `migrateIfNeeded` | files edited by hand, fields missing or of another type, files of another version |
| Validator `domain/validator` | none | `validate`, `findTimeSlotOverlaps` | half-open intervals, implicit weekdays; it alone tells what lenient readers pass over |
| Updater `updater/main` | program folder, `.old` files, staging folder | `wmain`, `applyOne` | replacement of many files cut short |
| Update service `app/update_service`, `cli/main`, `http_win`, `semver` | staging folder, time of the last check | `update check`, `update apply`, `httpDownload` | requests and writes that fail half way, releases that come and go, no lock |
| Day view `app/day_view` | none | `findSlot`, `nextWorkdayWithSlots`, `buildDayView` | stored records under a configuration and absences of today |
| Rendering, text of JSON, utilities, platform | none | | formatting, system calls |

How they interact: `main` takes the write lock for a command that may write
(`needsLock`), loads the model, calls one service, and the lock goes when the
process ends. Services write through `save*`, that is through `atomicWrite`, one
file at a time; a command that writes two files can die in between. The engine
is called by `computeDay` once for each task set of each category of each slot;
the result of one call is input of the next (the cursor always, the assignments
within a slot). `addTimeSlot` calls the validator's overlap test. `sched update` downloads into a staging folder
without taking the lock; `updater.exe` is a second program, which empties that folder
into the program folder. People edit the data files by hand, with the lock or without.

What makes each one correct:

- *engine*: no worker holds two tasks that exclude each other, nor two seats of one task;
  every seat is given or reported; no seat is left empty that somebody could take;
  the turn is fair and goes on where it stopped;
- *days*: the calls of a slot fit together; people who are away get nothing;
  every set that is due is on record; the rotation goes on from day to day;
- *folder*: no assignment, absence or cursor is lost, or made from stale data, whatever
  fails, dies or runs at the same time;
- *lock*: one holder; the file names it; a leftover expires;
- *atomic write*: a save takes effect at once or not at all, and the backup is the
  previous content;
- *administration*: exclusions on both sides, one current slot, no reference into
  the void, one person per id;
- *data files*: a command changes what it means to and nothing else, whatever the file
  looked like, and whenever it dies;
- *validator*: what the readers pass over in silence it has reported;
- *day view*: today's screen never without an answer; a stored day shown whole;
- *update*: no program file lost, what was unpacked file by file can be completed, only a whole program
  is started, no update leads back to an older version.

`PROJECT.json` lists under `hazards` the lines where these can go wrong.

## 2. Modules and how they correspond to the code

### `AssignmentEngine` — `assignment_engine.cpp`, `policy.cpp`

One call of `assign`, one step per seat. `Start` is the preamble (cursor wrapped,
ledger seeded, groups ordered), `SeatWorker` and `LeaveUnassigned` are the two
outcomes of a scan, `NoWorkers` is the early return, `Finish` the last lines. The scan
itself is `Best`: the least load among `Qualified` steps, the first from the
cursor among equals. The stack walk that collects a conflict group is the recursive
function `Component`; the stable sort of the groups is the order `Before`. `place`
keeps what `splitIntoGroups` returned. Workers and tasks are named by their
position in the files. C++ `%` on negative numbers, and the code's correction of it,
become TLA+ `%`. `unassigned` is counted per task, as `foldUnassigned` does.

### `DayAssignment` — `computeDay`, `availability.cpp`, `day_plan.cpp`

Composes with the engine: `Engine == INSTANCE AssignmentEngine` over the same
variables. `ComputeDay` fixes the available people and lists the engine calls
of the day, `CallEngine` makes the next one, `EngineStep` is a step of it, `TakeResult`
stores cursor, row and carried-over results, `StoreDay` ends the day. A `plan` is
the content of the four configuration files. Any date may be computed at any
time and again (`show --date`, `assign --force`). The invariant `CallsAreSound` closes
the circle: every input the engine is really called with satisfies the assumption
`InputsAssumption` under which its theorems are proved. `DayAssignment_proofs` proves it,
and with it joins the two sets of theorems.

### `DayView`, which extends `DayAssignment` — `day_view.cpp`, `findSlot`

The screen is a function of the stored day, the configuration and the moment, so
`FindSlot`, `Blocks`, `Lines`, `View`, `Current`, `Past`, `Upcoming` are operators; what
moves between two looks are the steps of `DayAssignment` and `Between`: `off add`, `off
rm`, `worker off`, whole commands that the lock keeps apart from the computation of a
day. `NowOrNext` compares `FindSlot`, two loops and a search, with the set of all slots
ahead. `View` is a list of (slot, category, set) with the lines of each; blocks
without a set show nothing to check and are left out. A search ends after
`SearchLimit` days for the code's 366.

### `DataDir`, which extends `WriteLock` — commands on the folder

Each window (process) runs commands: `Enter` and `Lock` are `acquire`, `Load`
is `loadModel` and the dispatch to the command, then the steps of the command: `Answer`,
`ShowStored`, `Compute`, `SaveSnapshot`, `SaveCursors`; `SaveAbsences`,
`CheckUrgent`; `Archive`, `RemoveNext`. A save is one step that happens or does
not, as `AtomicWrite` implements `AtomicFile`; removals fail silently, as in the code. A
`Crash` is possible whenever the lock is being taken or held. The assignment of a day is
one seat (`Computed`), enough to see which cursor and which absences it was made
from. `known`, `today` and `result` are the process's own copies: that is where stale
data would come from. `registered`, `kept` and `answers` are histories.

### `WriteLock` — `lock.cpp`, `processAlive`

`ReadLock` or `Refuse` is the first half of `acquire`, `TakeLock` or `TakeFails` the
second; `Release` and `ReleaseFails` are the destructor; `Die` is a killed process. Times
are ages in minutes, cut off at `StaleMinutes + 1` because the code only asks
whether one is greater than that. `-1` is a time stamp in the future. The pid of an ended
process may be free (`Gone`) or belong to a `Stranger`.

What the environment may do is three constants: `Overlap` (a window reads the lock
between another's read and write), `Dawdle` (a command runs for longer than
`StaleMinutes`), `SetBack` (the clock goes back). With all three FALSE the environment
is *careful*: exclusion is checked and proved there; the run `lock_overlap`, and the
line on `Dawdle` in section 4, show that it needs each of the first two. That is no modelling
convenience but what the code relies on: `lock.h` says that one person's slip of
opening two windows is what the lock is for.

### `AtomicFile`, `AtomicWrite` — `atomic_write.cpp`

`AtomicFile` is the promise: begin, take effect, answer; or fail; or die. `AtomicWrite`
is the code, one file operation per step, with a failure of each of them, silent
ones included (`LookForTarget`, `DropBackup`, the removal of `.tmp` in `GiveUp`). `overlooked` is a history:
`exists` failed on a file that is there. `Torn` is a file that was
opened and not finished. The refinement maps `target` to the file and the
program counter to its phase. `Swap` is atomic because `ReplaceFileW`, `MoveFileExW` and
`rename` are taken to be; see section 8.

### `TaskAdmin`, `WorkerAdmin` — `admin_service.cpp` with `validator.cpp`

Sequences of complete commands (in the folder they run under the lock). A refused
command changes nothing; a failed save restores the model and changes nothing, so
neither is an action. Refusals over data the model leaves out (counts, spelling of
ids, names) are among them. `TaskAdmin` has `task`, `set`, `cat`, `slot`, with
`NormalizeConflicts`, `FindTimeSlotOverlaps`, `CheckReferences` and the test of `findSlot`
for the current slot. `WorkerAdmin` has `worker`, and of `off` and the assignments only
the ids in them; `person` is not in any file, it says who was meant.

### `JsonIo`, `DataFiles` — `json_io.cpp`, `migration.cpp`, `weekday.cpp`

`JsonIo` is pure: a JSON value is a pair of a type and what it holds, and every loader
and every `toJsonText` is an operator between such values and the records of
`entities.h` and `snapshot.h`. What makes reading lenient is kept: `Field` takes a missing
field for a null one, `Get` a value of another type for the default, `Strings` and
`Weekdays` drop what they do not know (each of their elements is `Pushed` or not), `Elements`
is what a range-for over a JSON value visits, `LoadSnapshot` reads an unknown weekday as Sunday. The reports are sets of what is
wrong, without wording. A time, a date and an id are strings here, unread.

`DataFiles` extends `AtomicWrite` and `JsonIo`: one file of one of the six kinds. `Command`
loads it, changes what it holds (`Changed`) and begins a save of it, `Save` is a step of
`atomicWrite` or the death of the process, `Edit` is somebody with a text editor. A file
that cannot be parsed, or is not there and has to be, ends the command (`Readable`); a
report does not, in any command, and that is what `newer_files` shows.

### `Validator`, which extends `DayView` — `validator.cpp`

`Errors` and `Warnings` are sets of pairs: what is wrong and where. Since the module
extends the day and its screen, its properties relate the report to what the program then
does with the folder: `CleanPlansWhole` says what the absence of errors promises,
`ShortageIsWarned` that seats left empty with everybody there have been announced.
`ConflictComponent` is the stack walk of `conflictComponents` as a recursive function.

### `Updater` — `updater/main.cpp`

The files of the staging folder, one by one in any order: drop an `.old`, move
aside, move in, move back; every operation fails, the process is killed anywhere,
and is started again on what is left. What is no regular file, `Folder` here, is passed over, and
removed with the staging folder at the end, if any file was moved. Each folder is a function from files to versions, so
that a mixture shows.

### `UpdateService`, which extends `Updater` — `sched update`

A window asks for the latest release (`Open`, `NothingToDo`, `Available`), empties the
staging folder (`Clear`), downloads next to the final name (`Fetch`, `Receive`), renames
(`Rename`), compares the checksum (`Verify`) and says that it is done (`Announce`); `Fail`
is every early return, `EndsEarly` a window closed. `Receive` leaves a torn file or a whole
one, since the stream's state is not looked at. `Before` is `operator<=>` of versions. The
code announces that it has unpacked the archive and that the updater takes over, but does
neither, so `Unpack` and `StartUpdater` are steps of a person, who may unpack the program files into
the staging folder itself (`unpacked`), or as `release.yml` packs them, into a folder below it, or
some here and some there. `InPeace` says, unless
`Hasty`, that windows and updater are not used at the same time: `update` takes no lock, so
only people keep them apart. `given`, `launched` and `announced` are histories.

## 3. Runs

| Run | Question | Outcome |
|---|---|---|
| `engine` | One call over every declaration of exclusions between three tasks, counts -1..2, rosters of 0 to 3, cursors 0, 1, 5, -1, carried-over results; does the loop end? | nine invariants hold, it ends |
| `days` | Three computed days, any dates in any order | all hold |
| `files` | Each kind of file with any one place changed by hand, two commands, every failure and crash: does a command change what it means to, is each save one atomic write, is the backup right? | yes, the last if the test for the file did not fail |
| `newer_files` | Is a file of a newer version left alone? | no, it is saved over |
| `lock_leftover` | Does a leftover lock stop anybody for ever, in the worst environment? | no |
| `lock_overlap` | Exclusion with overlapping reads of the lock file | violated |
| `folder` | Three commands of two windows, two months, three days, crashes, failing saves, midnight inside a command | one holder of the lock, nothing is lost |
| `view` | Is today's screen right at every moment, a stored day shown whole after any change of absences and days off, and has `validate` told of the rest? | yes |
| `same_day` | Does a day looked at again show the same? | not after `prune` |
| `tasks` | Any sequence of `task`, `set`, `cat`, `slot` commands | holds, `task edit` aside |
| `workers` | Any sequence of `worker` and `off` commands | holds, `--hard` aside |
| `update` | Downloads and replacements cut short and started again, archives unpacked in several ways, releases that come and go | nothing installed is lost, what was unpacked into the staging folder itself is not mixed, no way back |

The three runs that end in a violation are findings in `PROJECT.json`, with the line
of the documentation they refute. Every module with state has a type invariant; the runs
`engine` and `files` check it along with the rest, in the others it is there for proofs.

### What the properties say that a test hardly can

- `UnassignedForGood` speaks of the end of a call about a moment in its middle.
- `RotationContinues`, `LeftOverGoFirst` relate a call to the last call of the same
  task set, days and other calls before. They hold while the same people are there;
  `StartsAfterYesterdaysLast` is what is left without that condition, and fails
  (section 4).
- `NoHistoryLost` counts what every command ever stored, through any mixture of
  `prune`, `--force`, crashes and failures; a copy in the archive and the file at the same
  time is allowed, neither is not.
- `SeesEveryAbsence` compares what a command read before the prompt with the file at
  the moment it writes; `NoLostUpdate` does so for the absences themselves.
- `CursorOnRecord` ties `rr-cursor.json` to the snapshots: the cursor never runs ahead.
- `LeftoverExpires` is about a lock whose pid somebody else has.
- `OnlyEditsBreak` compares the validator's findings before and after every command.
- `EveryRecordShown` relates a day stored earlier to a screen built later from files
  that have changed since.
- `LoadsAsMeant` relates what a command had in its memory to what the next one reads, over
  a file that was not well formed before, and over a crash. The exception it makes, one id of two
  tasks with two lists of conflicts, is in section 4.
- `CleanPlansWhole` relates the validator to three readers that were written apart from it.
- `BackupIsPrevious` is about what earlier failures and crashes left under the same names. It makes an
  exception of saves whose test for the file failed (`overlooked`): `NeverSilent`, without it, fails.
- `NoProgramFileLost`, `CanBeCompleted` hold over any number of cut-short runs; `NoWayBack`
  over any chain of releases the server offers.

### The slips

For every property of a passing run, `mutants` names a definition and a slip an author
could have made in the code behind it: a one-sided exclusion test, an archive that is not
checked before the files go, an id that is not checked, `break` for `continue`. They are
the operators commented `A slip:`. With the slip in place the property fails in the
same run: none holds whatever the code does.

## 4. Where documents and code disagree

Besides `lock_overlap`, `same_day` and `newer_files`. Each line names a predicate at the end of its
module under "What the documents say and the code does not do"; put it into the
`.cfg` in place of the properties and TLC prints the behaviour.

| Predicate | `.cfg` | The document | The code |
|---|---|---|---|
| `WarningIsRight` | `MC_AssignmentEngine` | `validator.cpp:331`: a conflict group that needs more people than there are active leaves seats unassigned every day | A group is connected, not complete: with the chain 1-2-3, tasks 1 and 3 go to one worker and nothing is unassigned. |
| `StartsAfterYesterdaysLast` | `MC_DayAssignment` | `README.md:302`: today starts after the last one assigned yesterday | `computeDay` stores an index into the people there that day (`assign_service.cpp:82`) and uses it with those of another day. |
| `NeverSilent` | `MC_DataFiles` | `atomic_write.cpp:63`: nor is it passed over in silence | If `exists(target, ec)` fails it answers false, `ec` is not looked at, and the file is replaced without a backup (`atomic_write.cpp:64`). |
| `SaveSurvivesBackupFailure` | `MC_DataFiles` (a `PROPERTY`) | `atomic_write.cpp:63`: a failed backup does not block the save | It does (`atomic_write.cpp:68`). |
| `MutualExclusion` | `MC_DataDir`, `Dawdle = TRUE` | `README.md:329`: the second window stops safely | A lock older than ten minutes is taken over though its process lives and waits at the prompt of `assign --force` (`lock.cpp:74`, `cli/main.cpp:860`). |
| `ViewsNotBlocked` | `MC_DataDir` | `README.md:336`: commands that only look are not blocked | `now`, `today`, `show` take the write lock (`cli/main.cpp:340`). |
| `UrgentIsTold` | `MC_DataDir` | `DECISIONS.md:86`: an absence over an assignment is announced | Only if its first day is today (`absence_service.cpp:68`). |
| `NoHistoryLost` | `MC_DataDir`, `ReadFaults = TRUE` | `prune_service.cpp:135`, `DECISIONS.md:54`: nothing is deleted for good | `readWhole` takes a file it cannot open for an empty one; the archive is rewritten without it, or the snapshot removed (`prune_service.cpp:39`). |
| `NothingBroken` | `MC_TaskAdmin` | `ROADMAP.md:201`: the command line cannot make broken data | `task edit` takes `--set` and `--conflicts` as they are (`admin_service.cpp:256`). |
| `NoOneElsesName` | `MC_WorkerAdmin` | `cli/main.cpp:678`: records of a removed worker show no name any more | The number of a worker removed with `--hard` goes to the next one, who then shows in the old records (`admin_service.cpp:73`). |
| `AbsencesHaveWorkers` | `MC_WorkerAdmin` | `ROADMAP.md:200`: a deletion that cuts references is refused | `worker rm --hard` leaves absences behind, which `validate` reports as errors (`admin_service.cpp:156`). |
| `FailureChangesNothing` | `MC_UpdateService` | `updater/main.cpp:126`: the previous files are as they were | The files replaced before the failing one stay replaced (`updater/main.cpp:123`). |
| `FinishedMeansMoved` | `MC_UpdateService` | `updater/main.cpp:8`: the new files are moved in place, then the program is started | Folders are passed over (`updater/main.cpp:117`), removed with the staging folder (`:143`), and the update is reported as finished (`:145`). `release.yml:41` packs everything in a folder `sched`: unpacked like that next to the archive, nothing of the program is moved, and it is gone. |
| `AnnouncedIsInstalled` | `MC_UpdateService` | `ROADMAP.md:229`: what is found is downloaded, verified, put in place and started | `update apply` prints that it has unpacked the archive and hands over to the updater (`cli/main.cpp:457`), and ends. |

Four more are not in any document, or not as a line that could be refuted. `cat add --set b,b` passes, since `addCategory` asks
only whether each set exists (`admin_service.cpp:389`). The set is then computed twice in
that slot, and the screen, which looks for a record by its ids (`day_view.cpp:42`), shows
the first one twice and the second never. With `Plans <- MCRepeated` in `MC_DayView.cfg`
TLC prints it as a violation of `EveryRecordShown`. `validate` does not notice it either.

With `Hasty = TRUE` and two windows in `MC_UpdateService.cfg`, `NoProgramFileLost`,
`CanBeCompleted` and `RelaunchedWhole` fail: a second `update apply` empties the staging
folder under the first one (`cli/main.cpp:418`), or under the updater, which then starts a
mixed program. And an update that stopped half way, with `sched.exe` new and the rest old,
is completed by running `updater.exe` again, while `update apply` says that the program is
up to date.

Of a `tasks.json` in which two tasks have one id and different lists of conflicts, every
load makes more exclusions than it found, and every save keeps them: `normalizeConflicts`
(`json_io.cpp:581`) first writes the exclusions of the two into the tasks they exclude, by id, and
the next time these lead back to both of the two. What a command shows is then not what the next
one reads. `validate` reports repeated ids (`DATA-SCHEMA.md:264`); no
command refuses them. Take `Plain(kind, before)` out of `LoadsAsMeant` and the run `files`, which
has such a file among its edits, shows it.

`shouldCheckNow` is called by no command, and so what `recordCheck` writes is never read;
the daily check of `README.md:437` does not take place.

## 5. Bounds and why they are enough

- *Engine*: three tasks are the least with a chain and a triangle of exclusions and
  with two groups; three workers the least for which "next", "the other" and "all"
  differ. All 64 declarations between three tasks are taken. Rosters with a gap tell
  positions from people; cursors 5 and -1 need wrapping from both sides.
- *Days*: three days (two weekdays, one of them twice), two task sets sharing a task,
  two categories sharing a set, three slots out of order, one with no readable
  time; `MaxRuns = 3` computed days let a rotation go over an odd day in between.
- *View*: five days, of which the search sees two, so that a weekend and a holiday before
  or after it leave a day found, found late, or not found; six moments of a day with slots
  that adjoin, lie apart, overlap, are out of order, cannot be read, or are not there;
  one computed day, since a screen shows one. A moment is never so late that the search
  would leave the calendar.
- *Folder*: two windows, since a third only repeats the second under the lock;
  `MaxCommands = 3` is enough for view, prune and view again, or view, force and a change
  of the absences; two months are archived in one `prune`; two workers make an absence
  change the roster. `StaleMinutes = 1` lets the clock, and the date, move on once within
  a command; in `same_day` it is 0, which is enough there. `MaxCommands` bounds only the
  commands begun; every command may crash.
- *Lock*, in the runs of its own: three windows, `StaleMinutes = 2`: fresh, ageing and stale
  differ. `folder` checks it with two windows and real commands.
- *Files*: one small file of each kind in which every field differs from its default, and
  every edit of one place of it: taken out, null, a number, a string, an empty list, an
  element twice, the whole unreadable, or of version 2; and one id of two tasks with two lists of
  conflicts. One edit and two commands, in any
  order, are the least that lets a command meet an edited file, a failed save and the
  leftovers of a crash. Edits of two places at once are not tried: the readers look at one
  field at a time.
- *Validator*: the plans of `view`: every slot list of section *View*, a category that is
  not there, a conflict group that is and is not short, tasks of single weekdays.
- *Administration*: three tasks (chain), one set and one category (each reference present
  or absent), two slots over four spans that overlap, adjoin and are empty; two people and
  three ids. The number of commands is not bounded.
- *Update*: two program files, one of them new in the release, the archive, its `.part` and a folder;
  a release, a pre-release of the next and the next, each of them offered at any time; one
  window, as without `Hasty` a second does what the first would do after closing. The
  number of updates, failures and restarts is not bounded.

Symmetry is used for windows and people, never where liveness is checked.
`CHECK_DEADLOCK FALSE` only in `days` and the two runs of `DataFiles`, where the bounds end
the model.

## 6. Fairness

- `FairSpec` of the engine: weak fairness of `Step`. The loop is sequential code.
- `FairLockSpec`: time passes; a window that has begun to take the lock, or holds
  it, goes on. `LeftoverExpires` further supposes that the clock is not set back again
  and again.

## 7. Proofs

All theorems hold for every value of the constants.

`AssignmentEngine_proofs`. Assumed: `NWorkers`, `NTasks` are natural numbers; every
input has its type and brings no conflict with it (`InputsAssumption`, which TLC evaluates
for the inputs of the runs and `CallsAreSound` confirms for the calls `computeDay` makes).
`IInv` strengthens the invariants: the ledger of each worker is exactly the seats
given to him in this call and what he brought along, and is without conflict; nobody
holds a task twice; a seat is unassigned only when no available worker is eligible. It
is inductive since a ledger only grows, so that an ineligible worker stays so. From
it follow `ConflictFreedom`, `NoDoubleSeat`, `AssignsWithinInput`, `NoSeatLeftInVain` and
`TypeCorrect`. Neither the order of the groups nor the score is needed: these hold
for any policy and any order. `CountInv` adds that for each task the seats given and the
seats reported are those the loop has been through (`EverySeatAccounted`), `CursorInv` where
the cursor is (`CursorFollows`).

`Fairness` does need the score, and that one task is finished before the next: where
nobody excludes anybody, a worker's load is the number of his seats (`LoadIsSeats`). `Even`,
two people differ by one at most, is not inductive: a scan passes over those who hold the
task already, and could pass over all that have least. `WaitersHaveLess` closes the gap:
while a task is being filled, whoever does not hold it yet has no more seats than whoever
does. `HeldIsFilled` and `InTurn` say that one task is begun at a time, and held by nobody before.

`DayAssignment_proofs`. Assumed: `PlansAssumption`, the types of a plan. `DayInv` says that
the rows made and the calls left are the calls of the day, in order (`Progress`); that a
running call is the one at the head of the queue and keeps the invariant of the engine
(`CallRuns`, by the lemmas of `AssignmentEngine_proofs`, instantiated); and that what is
carried over holds no conflict (`PriorSound`) and everything given out in the slot
(`PriorCovers`). The last needs `DayCallsSound`: between two calls of a slot there is no call
of another, since `SlotsForDate` names each slot once. `FlattenSeq` is a recursive function
and `Sorted` a choice, so the lemmas before it show that the one is defined and the other
exists. From it
`CallsSound` and `DaysConflictFree`. `RecordInv` joins three more facts: the running call
keeps the engine's `CountInv` (`CallCounts`); in each row made, every task of the call has its
seats given or reported (`RowsCounted`); a stored day answers the calls of that day one by one
(`StoredWhole`). With `DayCallsCover` (whatever is due has its call) and
`DayCallsInOrder` (the calls follow the clock) it gives `EverySeatRecorded`.

The rotation needs both modules. Where exclusions do not cross the sets of a slot, the first seat
of a call is given at the cursor (`FirstSeatsInTurn`: by `FirstRound`, nobody has a seat yet
when the first one is given, so nobody is ineligible and the first from the cursor is the best), and the
first round goes on person by person. The cursor that `TakeResult` stores is behind the last worker
served (`CursorFollows`). `TurnInv` ties the two over the days between: for each task set, the
stored cursor still points past the last worker of its last row (`PointsPast`), and at somebody
left over, if there is one (`PointsAtLeft`), seen from the people who were there; the list of
those is in the order of the file (`Ascending`), so that the place after somebody is the next of
them. From it `RotationGoesOn` and `LeftOverFirst`.

The screen and the validator (`DayView`, `Validator`) are about the same state, so their theorems
follow in `DayAssignment_proofs`. Assumed besides: `ViewAssumption`, the types of what they read. `ShowInv` is
`DayInv` and `RecordInv`, which hold under `ShowSpec` too, since what `off add`, `off rm` and
`worker off` change enters a stored day nowhere, and `FromPlans`: the rest of the plan is
as loaded. From it

- `ScreenNeverEmpty`: the slots of a day are sorted by their starts, so the first that is inside, or
  later, is the least; `NextWorkdayWithSlots` is the first day with one;
- `CleanPlans`: without errors nothing is filtered out (`Blocks` is `DayCalls`), and of two slots
  at one moment the validator has reported the overlap;
- `RecordsShown`, where a plan names no category twice in a slot, no set twice in a category, and only
  sets that are defined (`NamedOnce`; the plans of `MC_DayView` do). It is needed: `cat add` and `slot add`
  can write other plans, and the property then fails (section 4), while a set that `tasks.json`
  does not define is left out of the screen on purpose. The calls of a day then differ
  pairwise (`DayCallsOnce`), so that the first record under the ids of a block is its own (`RecordIsFound`), and
  nobody has a task twice in it, so that people and open seats add up (`LinesOfRecord`);
- `ShortagesWarned`: `RowsHeldOff`, from `UnassignedForGood` of the engine, says that where a seat is left,
  whoever was there has that task or one that excludes it. The recursive walk of
  `ConflictComponent` collects all these tasks (`GroupHolds`); they have fewer people than seats
  (`SumBounds`), and everybody active is among those people.

`DataDir_proofs` begins with the lock. Assumed: the special pids are not windows, and `Careful`
(stated in each theorem). The inductive invariant: at most one window is past its reading of the
lock; the window that holds it is named in the file; and the age of that lock is the time since
it looked, less than the limit, so nobody else finds it stale.

Then the folder. Assumed: `DataAssumption`, `LockAssumption`, and `Readable`, that is
`Careful` and no `ReadFaults` (stated in each theorem). `DataInv` is the lock's invariant; the
types; `MemoryFits`, that what the window at work has in its memory agrees with the files
it was read from, at each step of its command as far as that step needs it; and `FilesOK`,
which holds `NoLostUpdate`, `NoHistoryLost` and `CursorOnRecord`. Mutual exclusion is what
keeps `MemoryFits`: nobody else writes while a window is at work. That `Computed` gives a day to
somebody present rests on `OneAtEveryPlace`, that a place below the number of people is
somebody's. From it six theorems; those on steps, `DaysAreStable` and `AbsencesSeen`, follow from
which step may write a snapshot, and from `MemoryFits` at that step.

`TaskAdmin_proofs`. Assumed: `SpanAssumption`, times are natural numbers. `AdminInv`: the
types, exclusions on both sides, every reference of a slot or category leads somewhere, and
any two slots are apart. `NormalizeConflicts` and the refusals of the removals keep it.
`EditsAlone` is about the report itself: with the references in place, slots and
categories never give one, and of the other commands none takes away what a task refers to.

`WorkerAdmin_proofs`. Assumed: `IdsAssumption`, ids are numbers from 1. `AdminInv`: the types, one
entry per id, and every absence or record leads to the person it was made for, unless the id was
taken back with `--hard` (`ReferencesLead`). What is delicate is the id a new person gets,
the first that is free: `FreeIdIsFree` shows that there is one and nobody has it.

`DataFiles_proofs` begins with the write. Assumed: a torn file is no content. The inductive
invariant says for every program counter what `.tmp` and `.bak` are: after `FillTmp` the
temporary file is the new content, after `FinishCopy` the backup is the target, and the target is
`prev` up to `Swap`; where the look for the target failed (`overlooked`), the way over the backup is not taken
and nothing is said of it. From it `TypeCorrect`, `BackupKept` and the refinement `Implements`: `Swap`
is `Commit`, the failures are `Fail`, everything else up to the answer stutters.

Then the files. Assumed: `FileTexts(J)`, that what the first files and the edits hold is a set `J`
of JSON values closed under taking parts, *any* such set, with lists and objects of any length
and strings of any kind. For each of the six kinds: loading gives a value of the type the code
declares, whatever JSON it gets; and loading what was written for such a value gives that value
(`AbsencesRoundTrip` and the others, behind `Settles`). For five kinds this holds of every value; for the tasks
the value must be one `NormalizeConflicts` leaves alone. That is where the
work lies: `NormalizedIs` says what the fold over the tasks makes of each list, `MergedKeeps` that
what was in a list stays, where it was, and `Settled` when nothing is added: the
conflicts are on both sides already. `Settles` shows that they are after one
run, if no id has two lists, and `StaysPlain` that commands keep it so. The inductive
invariant, `FilesInv`, adds to that of the write that the content on its way is the JSON of
`meant`. From it `FilesAreSaved`, that the commands and edits on a file are a behaviour of
`AtomicWrite`, so that `BackupKept` and the refinement hold of them too, and `SavedIsLoaded`, which is `LoadsAsMeant`.

`SequenceLemmas` holds what both `DayAssignment_proofs` and `DataFiles_proofs` need of the library:
`Counting`, induction over numbers for a set of numbers, from the well-foundedness of `<`; that
`FlattenSeq`, a recursive function there, is defined, what type it has and what is in it, and
when it repeats nothing (`FlattenOnce`); that a set of numbers has a least element; and bounds on
the sums of `MapThenSumSet` (`SumBounds`).

`UpdateService_proofs`. Assumed: the files are as in `NamesAssumption`, versions are numbered,
and `~Hasty` (stated in each theorem). `VersionOrder`: `operator<=>` is a strict total order.
`Inv` is the conjunction of

- `Apart`: one window or the updater is at work; the window runs what is installed and
  fetches something newer;
- `Fetched`: only what was verified is announced, and what lies under a program file's name,
  in any of the three folders, is whole;
- `Moving`: what the steps of a replacement have done at each program counter;
- `Kept`: every installed file is there, in place or as `.old`;
- `Complete`: of what was unpacked into the staging folder itself, all of a version is there, be it
  staged or in place, and the updater works on it;
- `Rising`: what is in place, moved aside, staged or announced is not older than what was
  started last;
- `RelaunchedWhole` itself.

None of the four properties the run checks is inductive alone: that the removal of an `.old` file, or a failed move back,
loses nothing rests on `Moving`, that what takes a file's place is whole on `Fetched`.

Every invariant and every action property of a passing run is so stated by a theorem. Only model-checked is
liveness (`Terminates`, `LeftoverExpires`): fairness and ENABLED are out of the prover's reach.

## 8. What is not modelled, and why

- *Text*: how JSON is spelled (`nlohmann::json`), option parsing, Korean particles, column widths, colours. Conversions
  without state, covered by unit tests. A time that cannot be parsed is a slot
  with `start = -1`, a lock file that is no JSON is no lock, a lock without a readable time
  is an old one.
- *The disk below the file system*: `atomicWrite` does not flush to the disk and
  `ReplaceFileW` may on some errors leave the target under no name. Both are hazards
  on record without a property.
- *Update*: the text of a release and of a checksum list (`parseLatestRelease`,
  `findChecksumFor`, SHA-256): reading either fails or gives the release, the checksum
  matches or not. `shouldCheckNow` is not called. What a window runs (`Open`) is taken to be the release
  that is installed: `SCHED_VERSION` is a number set by hand (`CMakeLists.txt:4`, `:36`), without a
  pre-release part, and nothing ties it to the tag. Where the two differ, `NoWayBack` says nothing.
- *A lock file that cannot be opened* though it is there, which `readLock` takes for none
  (`lock.cpp:18`): in `WriteLock` a lock that is there is read.
- *Validator*: identifiers and names defined twice (here they are positions and keys), the
  format of dates.
- *Utilities*: `date.cpp`, `display_width.cpp`, `korean.cpp`, `sha256.cpp`: functions on
  text without state, each with its unit tests. Dates are numbers in the models.
- *The save of `worker off`*: `workers.json` is saved like the other worker commands do it; what
  it changes is in `DayView`.
- *`--dry-run`, lists, `validate`*: write nothing.
- *Names*: `worker_lookup` finds an id for a name and refuses an ambiguous one; the model
  begins with the id.
- *`assign --strict`, quiet, JSON output*: exit codes and layout.

## 9. Plan

Written, in this order: `AssignmentEngine`, `DayAssignment` over it, `DayView` over that,
`Validator` over that; `AtomicFile`, `AtomicWrite`; `JsonIo`, `DataFiles` over both; `WriteLock`,
`DataDir` over it; `TaskAdmin`, `WorkerAdmin`; `Updater`, `UpdateService` over it; then the proofs:
the engine, the days and the rotation over it, the day's screen and the validator, the atomic write, the data files over it, the
lock, the folder over it, the update, the administration of tasks, slots and workers.

What is left:

1. `setWeeklyOff` and the administration commands as commands of `DataDir`, so that
   lost updates of `workers.json`, `tasks.json` and `config.json` are covered too;
2. an abstract specification of the folder (a day is assigned once, shown, replaced by
   force) that `DataDir` implements.
