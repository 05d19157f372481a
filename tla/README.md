# Loyalty PRO: a TLA+ model of the sale desk and what surrounds it

This directory holds TLA+ specifications of Loyalty PRO's core logic, the TLC
configurations that model-check them on small instances, and TLAPS proofs of
the properties that matter most. The code is the reference: every definition is
translated from it, and `PROJECT.json` names the lines each one stands for.

Contents: 1 the system, 2 the modules, 3 how each corresponds to the code,
4 runs and bounds, 5 fairness, 6 proofs, 7 disagreements between code and
comments, 8 what is not modelled, 9 the plan.

## 1. The system

A shop prints an invoice on its register; a Windows **capture agent** (C#)
reads the print job and sends it to the **API** (Fastify on SQLite, one Node
process on the manager PC). A **station** (React, at the till) scans a
customer's card; the API attributes the captured invoice to the card's holder,
works out a discount from the invoice's own amount, and issues a voucher that
accounts for it. A **manager desktop** administers cards, rules, backups and the
**licence** (a Rust crate called from the API). When the licence lapses the
product becomes read-only: captures go on, links between a sale and a customer
are held and applied on activation.

### Components

| Component | State it keeps | Operations | Hard behaviour | What makes it correct |
|---|---|---|---|---|
| Ingestion (`ingestion.service.ts`) | the `transaction` rows | `ingestInvoice`, `findPendingInvoice` | two sends of one print, answered out of order | one row per invoice, one send told "created" |
| Scan and attribution (`scan.service.ts`) | customer and discount of a row, vouchers | `identifyCard`, `scanCard`, `holdForActivation` | several stations read before one transaction writes; retry after a lost answer | one winner per sale; discount and slip appear together; the answer is true |
| Held sales (`held-sale.service.ts`) | append-only audit rows | `applyHeldSales` | a crash between a sale's credit and the row that says so; passes racing tills; lapses and renewals | a link told HELD is on file (its own, or the first card's), nothing settled twice, everything settled in the end |
| Vouchers (`voucher.service.ts`, `settlement/*`) | `voucher.status` | `redeemVoucher`, `voidVoucher` | two cashiers with one slip | ISSUED is left once |
| Batch synchronisation (`sync.service.ts`, `sync.routes.ts`) | none of its own | `processSyncBatch` | partial failure, replays, operations overtaking the captures they need | a batch can be sent again; one bad operation does not stop the rest |
| Station queue (`queue.ts`, `Scan.tsx`) | scans in browser storage, held ids in memory | `enqueue`, `flush` | a lost answer, a reload during a flush, scans queued while a batch is out, a cap | what the till was told is kept stays until it is served; the queue drains |
| Card stock (`card.service.ts`) | cards, batches | print, export, void, hand out, lose, restore, replace | an operator acts on a card read before the transaction | constraints never fire; no customer is stranded; replacements lead home |
| Customers (`customer.service.ts`) | customers, and the card each registers with | `createCustomer`, search, edit | registering and handing out a blank are one transaction | no account without a card |
| Discount engine (`shared-types/discount.ts`, `lifetime.service.ts`) | none | `computeDiscount`, ladder validation | caps, zero and equal thresholds | never above the invoice or the ceiling; a bigger basket earns no less |
| Discount administration (`discount-admin.service.ts`) | one settings row, the rules | `updateDiscountSettings`, `updateDiscountRules` | two managers at once; validation against a row read earlier | the ladder in force was submitted whole |
| Licence service and crate (`license.service.ts`, `crates/loyalty-pro-license`) | stored codes, a mirror of them and clock anchors outside the database, a remembered status | activate, unlock, evaluate, fallback, `assertCanRecord` | a missing native library, a clock set back, an older database restored, a crash between two records | no failure adds a day or stops a shop that has paid |
| Settings engine (`settings.service.ts`, `shared-types/settings.ts`) | versions and one draft per layer | save, publish, roll back, discard, resolve | managers publishing at once; values published under another build | versions numbered one by one; a true trail; every value in force admitted |
| Write transactions (`write-transaction.ts`, `prisma.ts`) | a promise chain | `writeTransaction` | re-entrance, contention, timeouts whose body runs on | in turn, whole and once, everybody answered |
| Capture agent (`agent/src/Walaa.Agent`) | a buffer, a channel of jobs, files of waiting captures | relay, parse, enqueue, deliver | full channel, crash between write and rename, refused captures, restart | printing never waits; a queued capture is delivered or set aside |
| Restore (`restore.service.ts`, `restore-apply.ts`) | files beside the database | stage, confirm, cancel; swap, try, confirm or undo at start-up | a cut between any two renames, a copy that kills the service | the shop keeps a database, and its own until the new one serves |
| Backups (`backup/*`) | encrypted copies, a schedule, a key and its ceremony | make, prune, upload, verify | half-written copies, failing destinations, a replaced key, one lock | what is listed is whole and openable; a success stands for a copy; due slots are covered |
| Database lifecycle (`migrate.ts`, `db-identity.ts`, `db-integrity.ts`, `supersede-database.ts`) | schema, ledger, identity, marker file, copies | install, supersede, migrate, check | a cut between any two steps, another build, another shop's file | only a fit database is served; rows are never replaced or migrated without a copy |
| Sign-in and users (`auth.service.ts`, `lockout.service.ts`, `user.service.ts`) | sessions, failures | log in, refresh, lock out | concurrent refreshes | a refresh token is used once |
| Stations (`station.service.ts`) | pairings, heartbeats | pair, revoke | revoking a station that is scanning | a revoked station is refused |
| Service host (`packaging/service-host`) | a count of failures alike | launch, count, park, stop | identical failures | it does not give up on a machine its starts can put right |
| Reports, storage, audit, notification, realtime, flags, demonstration shop, desktop, issuer | reads, logs, messages | | | |

### How they interact

The API is one process; requests interleave at every `await`. What is atomic is
one SQL statement or one `writeTransaction`; `WriteQueue` shows the second to be
one step that happens whole or not at all. Agent and stations reach it over
HTTP and cannot tell a request that never arrived from one whose answer was
lost, so both repeat. `applyHeldSales` runs inside the API at start-up, on
activation and from a ten-minute timer, through the same `scanCard` as the
tills. The audit log is data here, not a report: the rows
`sale.held_for_activation`, `sale.held_applied` and `sale.held_closed` are the
only place held sales live. A restore is a conversation between one process and
the next through five small files; a backup before it is the state its undo
must hold. A start of the service places and checks the database before
anything else runs, and the service host starts the API again when it fails.

## 2. The modules

| Module | Models | Kind |
|---|---|---|
| `Ledger` | what the sale desk promises the books | abstract specification |
| `SaleDesk` | ingestion, scan, held sales, vouchers | composed; implements `Ledger` |
| `StationQueue` | the station's queue, its scan screen, the sync endpoint | detailed; takes from `SaleDesk` that serving a scan is one step |
| `CardRegistry` | what the card desk promises the scanner | abstract specification |
| `CardStock` | batches, cards, the operators' requests | detailed; implements `CardRegistry` |
| `DiscountPolicy` | `computeDiscount`, ladder validation, the two administrators' operations, a till's two reads | algorithm and state machine |
| `RestoreSwap` | staging and confirming a restore, the start-up that carries it out, the template | state machine over files, with cuts |
| `LicenceRules` | the crate: `evaluate`, `evaluate_all`, anchors, `recording_allowed_at`, and the service's fallback verdict | pure operators |
| `Licence` | entering codes, the mirror, anchors, the remembered status, checks with and without the native module | state machine over disk and process; uses `LicenceRules` |
| `CaptureAgent` | the four relays, the channel, the parse loop, the queue of files, the delivery loop | three processes, with crashes |
| `SettingsEngine` | drafts, versions, the trail, resolution under the running build's registry | state machine, one statement a step |
| `WriteQueue` | `writeTransaction` before a one-writer database | state machine with timeouts |
| `Backups` | key ceremony, schedule, lock, a run step by step, destinations, restore test | processes sharing a lock, with cuts |
| `ServiceStart` | a start of the service and the host around it | state machine over files, with cuts and visits of support |
| `Absent` | `None`, what is not there, shared by the modules | constant |
| `AdministrationProofs` | theorems about `DiscountPolicy`, `SettingsEngine` and `Licence` | TLAPS |
| `QueueProofs` | theorems about `StationQueue` and `CaptureAgent` | TLAPS |
| other `*Proofs` | theorems about the module named | TLAPS |
| `MC*` | instances for TLC | |

## 3. From code to model

**SaleDesk.** A scan is a process with a stage: `Arrive` is the request,
`GatePasses`/`GateRefuses` is `assertCanRecord`, `LookForHold` and `WriteHold`
are the two halves of `holdForActivation`, `LookupCard`, `FindPending` and
`NothingPending` the reads of `scanCard`, `Price` its reading of settings and
ladder, `Claim`/`LoseClaim` the transaction around the guarded `updateMany`.
Every read is a step of its own, so all that follows may act on a stale value.
The pass of `applyHeldSales` (`Pass`) runs the same steps for each waiting hold;
`SettleHold` and `LeaveWaiting` are what `applyAll` makes of the answer. A
capture is `CheckCaptured` and `InsertCapture`; a voucher request `AskTill` and
`RedeemVoucher` or `VoidVoucher`. `ScanFails`, `SettleFails` and `Crash` end a
statement, a settlement or the process between any two steps. Abstractions:
one branch; captures are numbered in the order of `capturedAt` and `horizon`
is the half-hour window; customers are never deactivated; audit, balance and
notification rows written in the claiming transaction are part of `Claim`;
`NothingPending` merges two reads that have a common moment, `StartPass` the
read of the holds with that of the licence, `SettleHold` the last read with the
row it leads to. `CardChanges` and `LicenceChanges` let cards and licence change
at any step, more than `CardStock` and the licence service allow.

**StationQueue.** `queue` is the browser's storage, `heldIds` the memory of what
the licence holds, `flight` the batch out. `ScanAnswered`, `ScanUnanswered` and
`ScanUnreached` are the three things a scan's request can come to;
`Flush`, `Answer`, `BadRequest` and `Abandon` the life of a batch. What the
station gives up may still be served: `adrift` with `ServeAdrift`. Serving one
scan (`Serve`) is one step, which `SaleDesk`'s refinement of `Ledger` justifies.
Whether its card works is decided anew each time (`CardRefused`), and by the pass
over the holds (`CloseHeld`): a card may be lost or restored between two replays.
A scan is named by its age, so a set of names is a queue in order. A browser
write that is refused leaves no state; a reload forgets `heldIds` and the
flight.
Garbled text makes a whole batch a 400 (`Valid`). The station's branch is fixed;
the thirty-day occurrence window and operations of other kinds are left out.

**CardStock.** An operation of `card.service.ts` that reads a card before its
transaction is two steps: `Begin` remembers what was read in `desk`, and
`ReportLost`, `VoidCard`, `Restore`, `Replace` or `Export` acts on it. Batch
generation, voiding and registration read inside their transaction and are one.
`NoOtherWorks` is the partial unique index. A refusal, a rollback and a crash
all end in `GiveUp`.

**DiscountPolicy.** `Grant` over an `Applicable` bracket is `computeDiscount`; `WellFormed` and
`WithinLimits` are the two validations. `JudgeRules` validates against the
settings as read, `ReplaceRules` writes later; a till reads the settings
(`ReadSettings`) and the ladder (`ReadRules`) in two steps.

**RestoreSwap.** A database and its WAL are files known by the database they
belong to, in the live place or in a folder; `pending`, `manifest`, `apply`,
`applied` and `result` are the five files of the restore directory. `at` is the
step the process has reached. In the running shop, `BeginStaging`, `PlaceCopy`,
`Describe` are `stageRestore` around its awaits, `AskApply` and `WriteApply`
`requestApply` around its backup. A start goes through `Boot`; then `Record`,
`MoveAside`, `MoveIn`, `RemoveStaged` (swap), or `SwapDone` and `TryAgain` (an
unconfirmed one), or `GiveUp`, `Undo`, `ToFailed`, `FromKept`, `Report`,
`ForgetApplied`, `Tidy` (rollback); then `Place` (the template), `Serve` or
`ServeFails`, and `Confirm`, `ForgetApplied`, `Tidy`. Each rename or removal is
a step, and `Cut` may fall between any two. A JSON file is written whole
(`writeJson` renames it into place). Abstractions: the `-shm` file, which holds
nothing of its own; `clearStaged` is one step while serving; a folder's removal
is one step; folder names are reused once free; one staging at a time. `Disturb`
changes the staged file while the service runs or is off: before a start has
recorded the swap the change is caught by the hash; after it, when a cut left the
swap to another start, the copy is moved in unhashed, and is `spoilt`.

**Licence.** `db` is the database (codes, those whose text no longer verifies,
unlocks, the remembered status, an anchor), `mirror` the file of codes and
`outside` the registry and file anchors, `copy` an older database that may be
restored. `PasteCode`, `TypeUnlock` and `RepeatCode` begin an entry; `Commit`,
`RefreshMirror`, `ResetAnchors` and `AnswerEntry` are its awaits in order, and
`Stop` may fall between any two. A check is `ReadCodes` and `Conclude`, or
`Degrade` when the native module did not load; the row it remembers is
`inflight` until `LandStatus`. `Load` is `loadInstallation` with `syncMirror`.
Abstractions: `Load` is one step; both outside anchors are written together;
one entry at a time; emergency-code episodes, the attempts allowed for them and
the list of events are left out; signatures and device identity are taken as
given. A unit of time is shorter than any window of the rules.

**CaptureAgent.** A receipt is two parts, number and total. `StartPrinting`,
`Relay`, `Offer`, `EndJob` are `PrintRelay` and what each mode does with a
chunk (`HandOver` is `TryWrite` on the channel); `OnIdle` is the serial line's
idle rule, `SeeSpoolFileAgain` the spool watcher's second sight of a file.
`Parse` and `MoveIntoQueue` (or `MoveFails`) are the parse loop around its write to disk. `BeginPass`,
`SignIn`, `Deliver` and `ActOnReply` are the delivery loop; `NoAnswer` loses a
request or its answer. `Restart` forgets all but the files. How text is
recognised is one fact per receipt part; queue files are always readable.

**SettingsEngine.** A request of a manager is one step per statement:
`BeginSave`, `Save`; `BeginPublish` or `BeginRollback`, `LookAtPublished`,
`InsertVersion`, `CleanDraft`, `RecordAudit`; `Discard`. `Taken` is the unique
index on a layer's version. `Effective` is `resolveSettings`. `Restart` brings
a build with another registry.

**WriteQueue.** `chain` is the promise chain behind `tail`. `Call` joins it,
`Open` starts an attempt, `Statement` writes, `Commit`, `Throw`, `Contention`
end it. `Joins` is `active.getStore()`: a nested call runs in the outer
transaction. A body whose attempt timed out is not cancelled: `stray` and
`StrayStatement`. `OutsideBegins`/`OutsideEnds` is a statement that bypasses the
queue and holds the writer.

**Backups.** An actor (the scheduler or a manager) takes the lock (`Tick`,
`Press`), is refused without a confirmed key (`Refuse`), clears the scratch
directory (`Prepare`), makes a snapshot, an archive and a copy at each
destination (`TakeSnapshot`, `WriteArchive`, `BeginCopy`, `EndCopy`), and leaves
its row (`Record`), or `Verify` for a restore test. `Break` and `CopyFails` fail
a step, `Crash` ends the process and may bring another key. The database is the
number of writes committed; an archive holds that number, the key that seals it
and the time it is named after. Lists go by name, as the code's do: `ClockMoves`
may set the clock back, and a copy made then is filed behind the later names and
may be removed at once (`Filed`, `KeepNewest`). A removal may be refused: in
`prepareStaging` and in a run's own clean-up (`Prepare`, `Break`, `Record`,
`Verify`: `unswept` counts the clearings that left something), and in retention,
which then leaves the last of what it was to remove, or all of it
(`PruneFails`). A clock unit is a stretch in which archives are named in the
order they are made; the rest after a failure is timed as if the clock ran on.
Drive's own number of copies, which the merchant sets, is not told apart from
`BACKUP_KEEP`.

**ServiceStart.** `file` is the live database with its schema, ledger, rows,
owner, identity and state; `stale` is a log of another database beside it,
which a rename may fail to move (`Installing`, `MoveSidecars`), and which SQLite
then takes for the file's own: it may pass over it, damage the file or leave a
schema that is nobody's (`Replayed`);
`copies` are pre-migration snapshots and databases moved aside; `marker` is the
runtime state. `at` is the step a start has reached: `Launch` (host),
`InstallTemplate`, `AssertMigrationsMatchBuild`, `Supersede`, `MoveSidecars`,
`MarkRunning`, `Open`, `ListPending`, `ApplyMigration`, `VerifyIdentity`,
`VerifyIntegrity`, then serving. Each refusal is `Refuse` with a reason, which
the host counts (`Fails`). `Die` may end the process at any step and tear the
file when it is being written. With the service down, support may reinstall
another version, permit migrations or place a file. Abstractions: production
without `LOYALTY_DB_OVERRIDE` and not a demo; checksums of applied migrations
are `sound` and `settled`; the restore swap that runs first is `RestoreSwap`; a
stop during a start is `Die` followed by `StopHost`.

## 4. Runs and bounds

| Run | Instance | Asks |
|---|---|---|
| `stations` | 2 stations, 2 sends, 2 invoices, 2 cards, 2 ladders, clock | one winner, balanced books, true answers, one creator per invoice, `Ledger` implemented |
| `held` | 2 scans, 1 invoice, 2 cards that come and go, 2 cashiers, 1 fault, lapsing licence | holds kept, holds and slips settled truly, once, and in the end |
| `cards_desks` | 2 operators, 2 serials and a thermal card, 2 customers | stranded customers, replacements, retired stock, `CardRegistry` implemented |
| `queue` | 2 scans of every kind, batches of 1, cap 1, reloads, lapses, cards refused, 1 lost answer | kept until served; let go only when done; licensed scans are sent; spending is credited |
| `discount_editing` | 2 managers, 1 till, 6 brackets, 3 settings, 6 amounts | capped; one bracket |
| `restore_cuts` | 2 copies, 5 folders, 2 attempts, 2 cuts | shop kept, swap clean (what is opened was checked, WAL with its database, attempts counted, results true), previous kept, shop reopens |
| `licence` | a trial, a perpetual licence, an emergency code, 5 units of time, 1 mishap of any kind, any number of restarts | no day added, the paid never stopped, what is allowed is covered |
| `agent_delivery` | 2 tills, 2 receipts, one refused for good, a channel of 1, all four modes, 2 faults | nothing queued is lost; printing never waits; delivered or set aside in the end |
| `settings_publishing` | 2 managers, 1 setting, 3 builds, 2 versions and 2 drafts a layer, 1 restart | versions one by one, true trail; values in force admitted |
| `writes_till` | 3 callers, one nested, one failing, 2 attempts, 4 troubles | in turn, whole and once; everybody answered |
| `backups_nights` | the schedule and a manager, 2 destinations (the disk and Drive), 2 keys, 1 kept, 1 write, 2 clock units, 2 mishaps | scratch files; listed copies open; a success stands for a copy; slots covered |
| `service_starts` | 2 versions, every database a machine may hold, a limit of 3, 2 mishaps, 2 visits | what is served is fit; rows kept; a machine that can open does |

The bounds are the least at which the hazards occur: a race needs two actors, a
stale read one actor to overtake it, a lost answer one fault and a second lost
one two. Two invoices distinguish the newest capture from the one asked for;
two ladders a stale price from a current one. `MaxBoots` is the code's own 2,
and two cuts are a cut in the repair of a cut. A batch of one shows the order
of the queue: which of two kept scans is sent first. Symmetry is used only in
runs without liveness, over scans, sends, operators with customers, and
managers, which no definition tells apart. `Scans`, `Sends` and `Cashiers` are
used once each, so a run that has used all of them still moves. Deadlock
checking is off where the instance runs out of things to do: `agent_delivery`
(all receipts printed and delivered), `writes_till` (all callers answered) and
`settings_publishing` (versions and drafts used up).

Two versions of the database distinguish the build's own schema from an earlier
one and a later one; a limit of three is the least at which a start that fails,
and one that fails differently, can both precede giving up (the code's is five).
A destination on disk and one in the cloud distinguish a copy that failed from
one that went through, and one that passes over a refused removal from one that
does not; two times of the clock, a copy that is filed first from one that is
not; one write, a copy that holds it from one that does not. In `licence` the
windows are one or two units, so that every boundary falls inside the five: the end
of a trial, the grace after it, the tolerance of the clock and the fallback's days,
and below them the times before a trial's issue and before an emergency window.

`torn` in `RestoreSwap` is history: a cut fell while `rollbackRestore` had the
previous files half back. `ShopIsKept` and the `WalFollows` part of
`SwapIsClean` are stated outside that window, section 7 says what happens inside
it, and the rest holds either way. `spoilt` has the copies changed after a start
recorded them, `tries` the starts on an unconfirmed one. `unmarked` and `unmoved`
in `ServiceStart`, `paid` and `peak`
in `Licence`, `queued` in `CaptureAgent`, `promised` and `unswept` in `Backups`, `retired` in
`CardStock`, and `answered` and `cardRefused` in `StationQueue` are history too: what
a property has to remember.

## 5. Fairness

- `SaleDesk!FairSpec`: every await resolves (`ScanStep`, the pass's steps), and
  `StartPass` is weakly fair, because `applyHeldSales` runs at start-up, on
  activation and every ten minutes (`main.ts`, `license.service.ts`). No till,
  register, card or licence owes anything.
- `StationQueue!FairSpec`: `Flush` is weakly fair (a thirty-second timer and the
  reconnection), so is the manager PC's serving of what reached it, and
  `ApplyHeld` while it may record. Nothing makes a till scan, the agent deliver
  or the licence return: `SpendIsCredited` assumes it stays active.
- `RestoreSwap!FairSpec`: a start goes on (synchronous code, and awaits that
  resolve), and the service host starts an ended process again
  (`service-host/src/main.rs`). The host stops after five *identical* failures;
  a restore fails at most `MAX_RESTORED_BOOTS` times before it is undone, so
  that limit is not reached.

- `ServiceStart!FairSpec`: `Boot`, because the host launches the API whenever it
  is down and a start waits for nothing. No visit of support, crash or stop is
  owed, and `OpensAgain` allows each of them.
- `CaptureAgent!AgentSpec`: the print path's own steps, where only the source and
  the printer are awaited; the delivery loop, which wakes every fifteen seconds;
  and, strongly, a sign-in and a delivery that are tried again and again get
  through. Nothing is asked of the parse loop: a disk may hold it up for ever,
  which is what `PrintingNeverWaits` is about.
- `WriteQueue!Spec`: promises that can settle do, an outside statement ends.
- `Backups!Spec`: the scheduler's tick, the end of `RETRY_AFTER_MS`, and each
  step of a run in progress, which awaits a disk or a request with a timeout.
- `SettingsEngine` and `Licence` have safety properties only and no fairness.

## 6. Proofs

All theorems hold for every value of the constants under the modules' named
assumptions. Each is an induction over the module's specification, laid out by action, and
every safety property that a run checks is a theorem.

- **SaleDeskProofs.** `Shape` says which values a request's stage implies;
  `TypeOK /\ Shape` is inductive. `BooksInv` adds `Claims`: what a scan about to
  claim has read, an invoice that was there and a card's holder, stays true. From
  it: `DiscountsAreAccountedFor`, `SaleHasOneWinner`, `ScansAreToldTheTruth`, and
  `DeskImplementsLedger` (every step is a `Ledger` step or a stutter). `HeldInv`
  adds the audit log, append-only, for `HeldSalesAreOnFile` and
  `SettlementsAreTrue`. Counts are proved through witnesses: `OneCreator` and
  `OneCloser` say that a receipt's creator and a slip's closer is one and the same
  (`InvoicesAreCreatedOnce`); for holds, `HoldsCover` weighs what is closed, what
  the pass has still to do and what it has in hand against the rows that were
  written (`OnceIsEnough`).
- **CardStockProofs.** `DeskOK` is what an operator may still rely on when the
  transaction runs; it is stable because of `Progress`: owners, batch ranges and
  having left the stock are never undone. `Linked` and `NoLoop` give
  `ReplacementsLeadHome`: a replacement is always a card from the stock, so a
  loop would have to contain a card that was never handed out.
  `StockImplementsRegistry` is the refinement. `ReplacedIsFinalAlone` needs a
  single operator; section 7 says what two can do.
- **QueueProofs.** For the station, `IInv` adds that a flush settles only what was
  served, that captures stay, and that what was served with a settled status
  counted, unless its card was refused. For the agent, `AgentInv` follows one file at a time: a pass is at the
  file it has in hand until it rests, and an answer that lets a file go means that
  its invoice is recorded, so a capture in the queue is there, set aside, or on the
  manager's PC.
- **AdministrationProofs.** *Discounts.* `GrantBounds` is arithmetic over the three
  caps; `LaddersAreWhole` is carried from submission to the table. *Settings.*
  `SettingsInv`: rows are only added, a layer's are numbered from one without a gap,
  and what a waiting request has read is on file still. The unique index alone makes
  two publishes at once safe: one that inserts read the newest row there is
  (`FreeNumberIsNext`). *Licence.* `ShopInv` has the types, `InOneRun` (what a check
  or an entry has in hand belongs to the process that runs, and its row says what its
  codes say), `RowsCovered` (a time-limited row ends where a code that was issued
  ends, or earlier) and `PeakKnown`. `StatusIsSound` and `EvaluateAllOf` say of the
  crate's computation what the inductions need: its status comes from a code it was
  given, at a time no earlier than the latest anchor. `PaidInv` carries the perpetual
  licence between the database and its mirror, `PeakInv` the latest time recorded, on
  an anchor that the mishaps of the run have left; `FallbackOf` bounds what the
  service allows without the module.
- **RestoreSwapProofs.** `Stages` says what a start knows at each step: above
  all, that its memory is the record on the disk and that no copy is pending once
  it is past the swap. On it rest separate inductions. `Attempts`: the
  record counts an attempt before the database is opened for it. `Checked`: what a
  start moves in is the copy its record names, and it is spoilt only if a cut held up
  its swap (`Interrupted`). `Whole`: the live database
  is missing only while a swap is unfinished or while a record that no start
  will try again is undone, and the kept folder has the previous one in both
  cases. `NoneOverwritten` gives `NothingIsThrownAway`, in the torn window too.
  `RestoresAreClean` takes three more: `SwapInv` (the live place and the kept folder
  hold files of the two databases of the record, and a report of success names where
  they are), `Fresh` (a staged copy was never opened before, so no log elsewhere is
  its own) and `WalsApart` (a log lies beside its database, or the rename that
  brings it there is still to come), the last outside the torn window.
- **WriteQueueProofs.** `Places` says where a caller stands: those who were asked
  are those already served followed by the chain, so the head of the chain is the
  first who was not. `Stages` says that only the head's body is open and that who
  was told done is settled; `InOrder`, that those who committed were served, in that
  order. With them `AppliedOnce` is inductive (a body that outlives its attempt
  writes nowhere, because what it ran in is closed), and `InTurn` follows.
- **ServiceStartProofs.** `Ensured` says what each point of a start has made sure of
  (above all that a database is only replaced when it has no rows, and migrated only
  beside a copy of them), `Owned` whose rows they are, `Unclean` that a torn file is
  known by a marker that stays until a full check, unless a run could not write its
  marker (`unmarked`) or a template came to lie beside a log that could not be moved
  (`unmoved`). `HostRuns` keeps the host
  and its count of failures in step. `ServedIsFit` follows from all, and
  `RecordsAreKept` is read off each step under them.
- **BackupsProofs.** `Alone`: the lock admits one run. `RunGoesBy` says what that run
  relies on at each stage: it holds what was written when it began, its key is a
  confirmed one, the scratch directory is its own. The clock need not go forward, so
  nothing is said of a list but its first entry, which retention never removes
  (`FirstStays`, from `Keep > 0`) and which a new copy can only replace or come
  behind (`FiledFirst`). `Leads`: where the run's copy landed, the first entry is
  its own or has a later name. When the row is written with no later name in one of
  those lists, the first there is its own, and `Covers` what the row stands for. No
  promise is about more than the state a later run began with (`Honoured`), so
  whatever takes the first place later stands for everything the older one did.
  `Scratch`: a clearing that works leaves nothing, one that does not is counted.

What the theorems assume of the constants beyond their being of the right kind:
`None` is none of the values it stands beside; limits that the code sets to a
positive number are positive; ladders, settings and amounts are the integers
the code's schemas admit. `ServiceStart!Placeable` says which databases somebody
may put in place: one with rows is somebody's, it was not torn by this service,
and another shop's is recognisable as such (signed, with its trade in it, or of
an unknown schema), since the code could not tell an unsigned one without trade
from a fresh one. A licence has finitely many codes and unlocks.

Two theorems of the licence have hypotheses of their own. The run's instance
satisfies them, and TLC shows that none can be left out:

- `PaidIsNeverRefused` takes `PaidEnv`: a run admits at most one mishap, or does not
  combine a restored copy with a damaged code. With both, the
  purchased code's row is damaged before the mirror has it, the code entered again is
  answered as active, and the copy from before the purchase is put back: neither the
  row nor the mirror holds it then.
- `NoDayIsEverAdded` takes `PeakEnv`: at most one mishap, or not both a restored copy
  and a lost anchor. With both, and the module away, the database's anchor is an
  older one, the file is lost, and the registry, which the service's fallback does not
  read, is the only record of the later time.
`WhatIsAllowedIsCovered` has none. It needs that the tolerance of the clock is no
longer than the day by which a trial's cover precedes its issue (`LicenceRules`
assumes it; the code has two hours), and what a status says of the clock when it is
given: `Begun`, that the clock is no more than the tolerance before the trial's
issue. An emergency window has no such lower edge in the code, and the service's
fallback has none at all: `BeforeWindow` and `BeforeTrial` are those cases, and TLC
shows that neither can be left out.

The conjunction of the licence's invariants was checked by TLC on the run's instance
(4.9 million states), and without `restore` with two mishaps (11.1 million), before it
was proved.

Only model-checked are the nine liveness properties (`HeldSalesAreSettled`,
`FreshAreSent`, `SpendIsCredited`, `ShopReopens`, `PrintingNeverWaits`,
`EventuallyDelivered`, `EverybodyIsAnswered`, `SlotIsCovered`, `OpensAgain`): the
prover has no fairness and no `ENABLED`.

## 7. Where code and comments disagree, and what surprised

These were met while modelling. No run states them: each is a step of a model
above, and the properties are stated so as to hold of the code as it is.

Sales and cards

- `holdForActivation` answers HELD for any hold row of the invoice
  (`scan.service.ts:237`), another customer's or a settled one, and then writes
  nothing. `sync.ts:82` says the manager PC "has written the link down and applies
  it itself"; for the second card of a sale it has not, and the till drops the
  scan. `HeldIsOnFile` names that case; a hold that was settled (its card refused,
  say) is on file and is not tried again.
- `applyAll` closes a hold as linked elsewhere, "another customer's card claimed
  it" (`held-sale.service.ts:134`), also when the same customer's replay did.
- `restoreCard` updates by id alone (`card.service.ts:860`) and revives a card
  that was replaced after it was read.
- `exportCardBatch` writes back a status read before its transaction
  (`card.service.ts:455`): a RETIRED batch can read EXPORTED again. Its cards
  stay dead (`RetiredBatchIsDead`, stated over the batches ever voided and not over
  the status they show).
- A replay whose card is unknown, lost or void is answered APPLIED as well
  (`scan.service.ts:322-345`, `sync.service.ts:110`): the station drops the scan and
  nobody is credited, and a hold whose card is refused when the licence returns is
  closed. `LetGoIsDone` and `SpendIsCredited` name these cases.
- A replay that overtakes the agent's capture is answered APPLIED with nothing
  pending (`sync.service.ts:110`) and dropped: the sale stays uncredited.
- A card-only scan whose answer is lost is replayed onto the next capture
  (`sync.service.ts:109`), and a queued card-only scan takes the newest capture
  of the moment it is replayed (`Scan.tsx:206`), which may be another person's.
- One text over 256 characters makes every batch that carries it a 400
  (`sync.routes.ts:18`), and the station sends the same batch again; "one bad
  operation must never poison the batch" (`sync.service.ts:20`).
- Neighbouring brackets are compared only when their kinds agree
  (`discount.ts:160`), so a legal ladder may give a bigger invoice less; lowering
  the bounds leaves the ladder in force outside them
  (`discount-admin.service.ts:124`); with discounts off the answer still names
  the bracket reached (`lifetime.service.ts:110`).

Restore and backups

- A cut in `rollbackRestore` between moving the previous files back and removing
  `applied.json` (`restore-apply.ts:369-371`) makes the next start undo the
  restore again and install the empty template. The shop's own database is then
  in the `failed-` folder, until a later restore tidies it.
- "A file changed after checking is never swapped in" (`restore-apply.ts:68`): the
  hash is compared once, before the record is written (`306`). A start that goes on
  with a swap that was cut (`279-282`) moves in whatever `pending.db` has become.
  `OnlyCheckedIsOpened` names that case.
- `requestApply` writes its request after awaiting a backup, without naming the
  copy (`restore.service.ts:376`), and does not check the staged file again: a
  copy staged meanwhile is applied unconfirmed. A cut between the swap and the
  removal of the request (`restore-apply.ts:337-338`) later records the restore
  that succeeded as a failed one; nothing is replaced by it.
- A failure in `prepareStaging` or at the key gate leaves no audit row, although
  `schedule.service.ts:27-30` says every outcome is recorded and the comment at
  `349` that `runBackup` has done so; the schedule then tries again without rest.
- `ok` is to ask whether "at least one copy of this archive exist[s] somewhere"
  (`backup.service.ts:265`). Retention sorts by name (`destinations.ts:114-127`):
  with the clock set back, a new copy sorts last and may be pruned while the run
  is recorded as completed (`347`), and a restore let through whose safety copy is
  gone. `PromiseIsKept` names that case (`late`). A copy that arrived counts as
  failed if its destination cannot be pruned (`320-336`). A `.partial` file of a cut copy is never
  removed.
- `mostRecentSlot` is to make a missed run "catch up rather than vanish"
  (`schedule.service.ts:148-153`). After the clock is set back to before the last
  success, the slot counts as covered and new sales as earlier ones until the
  clock reaches that success again (`189-206`, `227-232`). The `SlotIsCovered` of
  such a time is the slot that comes round afterwards.
- A clean-up that throws in the `finally` (`386-389`) answers a run that was
  recorded as completed with an error; a restore is then not let through.

Licence

- `durableState` says a manager is told "activated" only "once the fallback would
  agree" (`license.service.ts:805-808`); it awaits the last write that a check
  issued (`745`), and a write that failed counts as done, so after a repeated
  activation the fallback may still judge by the old status.
- `recording_allowed_at` says "a sale made while the shop was licensed was made while
  the shop was licensed, whenever it syncs" (`status.rs:280-281`). A sale is refused
  there that was allowed at the till if the clock then showed a time before an
  emergency window's days (`evaluate_all` gives an unlock no lower bound, `240-256`)
  or, without the module, one before a trial's issue. In that second case the fallback
  also allows more than the module, which answers TAMPERED, where its comment says
  "never more than the module itself would allow" (`license.service.ts:902`).
  `AllowedIsCovered` names both.
- `packaging/LICENSING.md` section 9 says of rows "deleted or corrupted" that the
  mirror puts the codes back; `syncMirror` skips a licence whose row is there,
  damaged text or not (`license.service.ts:449`), and pasting the code again
  answers that it is already active. `syncMirror` also drops unlocks that have expired
  after an older database was restored.

Capture agent

- Concurrent connections share one `_current` buffer
  (`ChannelCaptureSink.cs:55`, filled from `NetworkProxyCapture.cs:88-102`): two
  receipts printed at once may be parsed as one.
- A reply that is neither 400 nor 422 but will never change (403, 404) stops
  every pass at the same file. After an I/O failure the serial bridge stays
  closed until a restart.

Settings

- `saveDraft` drops an override that is no longer admitted without the `null`
  that asks for it (`settings.service.ts:204` against `174`). "Inside one
  transaction" (`246`) is not so: a failure after the insert leaves a version in
  force, its draft and no trail; a publish may also delete a draft that a
  manager saved after it was read.

Start of the service

- `db-integrity.ts:113` says that after a marker that could not be written "the
  next boot simply assumes an unclean stop"; it reads the older marker, which
  may say stopped, and skips the full check (`unmarked` in `ServedIsFit`).
- `db-identity.ts:29-31` says a database this installation did not create is
  refused; any identity row is accepted, whoever's it is.
- A cut while the template is copied (`migrate.ts:727`) leaves a truncated file
  that the next start takes for a database and refuses: support must remove it.
  "Leaving them beside the new database would hand SQLite a write-ahead log written
  against a different schema" (`supersede-database.ts:243-244`): a sidecar that
  cannot be renamed is logged, and the template copied beside it all the same
  (`migrate.ts:715-727`; `unmoved` in `ServedIsFit`). Nor is it so that a failed
  rename leaves things as they were (`supersede-database.ts:247-257`): the database
  itself has moved, no template is installed, and SQLite makes an empty file.
- The ledger's own table is created before the refusal that says nothing was
  written (`migrate.ts:402`).

## 8. Not modelled, and why

Of the larger parts: the desktop and station screens, reports, notification,
realtime and flags are presentation and reads; sign-in, users and the pairing of
stations guard every request but decide nothing in the modules here; the consent
exchange with Drive, cryptography, device identity, archive formats, recognition
of receipt text and spool I/O are data and outside services; the seed, demo
builds, installation scripts and the updater run outside a trading shop. Within
modelled parts, section 3 names what each module abstracts; a staged file that
changes between its hash and its rename inside one start, or vanishes between the
record and a resumed swap, is left out of `RestoreSwap`. `PROJECT.json` lists
every component with its status.

## 9. Plan

Done: all modules of section 2, and a proof of every safety property checked of
them. Next, by how much depends on it:

1. A module for sign-in: the lockout counter and the refresh token's rotation.
2. A module for the pairing of stations, composed with `SaleDesk`: a station that
   is revoked while its scan runs.
3. The attempts allowed for emergency codes, as part of `Licence`.
