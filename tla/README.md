# A formal model of the order-to-delivery pipeline

The program is a FastAPI service over one PostgreSQL database. It keeps the order book of a trading business and,
around it, the money of each order (shop counter → cashier → accountant), the interior-decoration arm (VT Decor),
attendance, delegated tasks, checklists, petty cash and purchase registers.  Handlers run in a pool of threads; each
runs one READ COMMITTED transaction (`db.cursor()`), sometimes two in a row, and several of the rules live in database
triggers.  What makes the program hard to get right is therefore almost always the same thing: a decision taken on
rows that were read without a lock, or locked in one order here and another there, or in an earlier transaction.

The modules here model every part that keeps state of its own; what is left out is listed in section 6.

## 1. Inventory

| Part | State | Operations | Meets | Hard behaviour | What makes it correct |
|---|---|---|---|---|---|
| Order book (`main.py`, `bulk_entities.py`, `admin_tools.py`, `doc_numbers.py`) | `fact_orders`: serial, bill number, import batch, last edit | insert, edit, delete, upload, undo of an upload | the money of the order, number series | advisory lock 7001 held by inserts but not by edits; validation in an earlier transaction | serials unique; a number not repeated in its series |
| Order money (`o2d_cashier.py`, `main.py`, migrations 032/033/053) | amount, payment status, shop lock and confirmation of an order | screen and admin edits, shop advance, correction, confirm, take back, delete | Payments, through `payment_push` and a trigger | the trigger resets a confirmation while a merge runs; locks order → push row → entries | confirmed money is what Payments has |
| Payments (`payment_merge.py`, `payments.py`) | `payment_push` row, `fact_payment_txn` entries | stage, withdraw, merge, merge again, decide, edit, clear warning, delete | order money, VT Decor money | opposite lock orders; entries decided or deleted between merges | one entry per part, carrying what was merged; an approved entry is only flagged |
| VT Decor money (`decor.py`, migration 050) | payment or expense entry | add, edit, delete | Payments, by triggers | trigger of a delete reads the push row unlocked | Payments has the present money |
| VT Decor jobs (`decor.py`) | quotations, clients, items, revisions | quote, approve, add product, revise, complete | VT Decor money, imports | contract amount from rows read earlier | one client per quotation; the contract adds up |
| Read cache (`db.py`) | versions, copies, each thread's dirty tables | read, write, commit, bump, drop | every reader of a lookup table | a write commits while a read is loading | a finished write is visible to the next read |
| Connection pool (`db.py`) | bounded pool, waiting, savepoints | take, wait, give back, `advisory_lock` | every handler | a block that holds a connection takes a second | nobody waits forever; every lock comes back |
| Order screens (`o2d_screens.py`, `roles.py`) | stages of an order; cached answers; messages sent | save of each screen, bulk save, reminder, dispatch and receiving messages | order book, lists, alerts | "first dispatch" judged from an earlier transaction; background send recorded afterwards; one cache on top of another | an open order has one place to be worked on; the group is told; screens follow the saves |
| Bill number gaps (`doc_numbers.py`) | numbers in use and voided | check an entry, list of gaps, void | order book, settings | the rule of a series written once in SQL and once in Python | both read it alike; count and list agree |
| Login (`auth.py`) and salary PIN (`attendance.py`) | failures per person and address | check, fail, succeed | – | check, verify and record are separate | at most the allowed wrong tries |
| Attendance day (`attendance.py`) | a day's row and the message still owed | check in, check out, correct, send, automatic check-out | WhatsApp | a send holds the row while a check-out has read it | each message counted, none lost |
| Attendance employees and month (`attendance.py`) | employees, places, records, holidays | sync with members, rename, tag, merge places; correct, delete, holiday | members, lists | places saved and merged in several unlocked statements; three pieces of code work one month out | employees follow members; the month's books agree |
| Daily reports (`daily_reports.py`) | batches run and reports stored | scheduler tick, generate, send | WhatsApp | recorded before it is sent | each batch once |
| Alerts and bell (`whatsapp.py`, `notify.py`) | alert settings, log | send in the background | a provider outside | one attempt each | failure never fails the action |
| Delegation (`delegation.py`) | task: status, score, revisions, extensions; extra work | assign, complete, review, extend, edit | notifications | repeated revision and extension | score follows the history |
| Checklist (`checklist.py`) | checklists, occurrences | create on view, mark, stop, hand over, delete | notifications; the weekly off day of Setup | occurrences created from an unlocked read, on days a setting decides | no item of a stopped or moved schedule; marked items stay |
| Access and members (`access.py`, `admin.py`, `roles.py`) | members, role pages, exceptions, requests | add, demote, disable, delete; switch, request, decide | every page | checks on the sender as they were when the request came | an admin remains; both readings of a right agree |
| Settings (`config.py`) | values and maps, and their copies in memory | get, save | every part | copies without a lock | a copy follows the saves |
| Regular expenses (`expenses.py`) | entries, voided or not, and their log | add, edit, void, delete | – | corrected and back-dated in place | balance, log, statement and period totals explain each other |
| Files (`attachments.py`, `challans.py`, `purchase.py`) and document check (`doc_check.py`) | rows, stored objects; what was read of them | store, link, replace, remove, delete what they are for; read, judge | object store, orders | no transaction spans store and database; cascades know no objects | a row has its object; "perfect" is true of the order as it is |
| Imports (`admin_tools.py`, `bulk_modules.py`, `bulk_entities.py`) | batches, rows, sequences | validate, confirm, undo | every table that can be imported into | checked in one transaction, and not all of it, inserted in another; counted and deleted in two statements | numbers stay free; an undo takes no work it asks about |
| Lists (`reconcile.py`, `module_admin.py`, `admin.py`) | dimension rows | rename, merge, delete unused | orders that point at them | merge while orders are written | no order points at a removed value |
| Dashboards, reports, pages, migrations, tools | none of their own | queries, layout, set-up | – | – | – |

`PROJECT.json` lists the same parts with their state of modelling and, under `hazards`, the lines at which each hard
behaviour bites and the properties that would catch it going wrong.

## 2. Modules

```
  ReadThrough <= refined by = ReadCache          OrderBook           PaymentsMerge
                              |      \            |      \           /           \
                   MCReadCache  ReadCacheProofs   |  MCOrderBook  OrderMoney    DecorMoney
                                           OrderBookProofs       |     \            |
  AttendanceDay -- MCAttendanceDay                     MCOrderMoney  OrderMoneyProofs \
                                                                                       |
  MCPeople      Access (on Members), SignIn, Settings, ScreenCache, Files, Checklist   |
  MCOffice      Delegation, Expenses, Employees, DecorJob, DecorMoney  ----------------+
  MCRecords     OrderScreens, DispatchAlert, BillGaps, DocCheck, Lists, Payroll
  MCBackground  ConnectionPool, DailyReports, Uploads, Imports

  AttendanceProofs  on AttendanceDay
  PeopleProofs      on MCPeople       OfficeProofs      on MCOffice
  RecordsProofs     on MCRecords      BackgroundProofs  on the modules of MCBackground
```

The last four check several components in one run.  Those components share no table, so their interleavings with each
other say nothing: the variable `part` chooses one of them at the start and the behaviour is that component's alone.
The fairness of a component is restricted to the behaviours that are its own.  `Calendar` is the day in India, which
`Delegation`, `Checklist`, `Expenses` and `Payroll` compare their dates with.

`PaymentsMerge` has the Payments side of ONE source row: the push row, its entries, and the requests on them.
`OrderMoney` and `DecorMoney` extend it with the row that feeds it, which is how the program is built: `merge_row` does
not know where its row came from.  One source row is enough because every statement involved names one row and its
dependants; there is no shared counter or pool between two orders' money.

**Transactions.** A request is a `Begin…` action that takes its first row lock and makes the checks the code makes
then, and a `Finish…` action that takes the last lock, writes and commits.  Between the two any other request may run.
A request which takes several locks one after another has one step more (`LockPush`, `LockNext`).  A request that needs
one lock is one step (`AtOnce`).  `Rollback` may end any request at any time: an error, a lost connection, a restart;
nothing a transaction wrote is seen before it commits, so a crash needs no other action.

**PaymentsMerge** – `push` is the `payment_push` row, `entry` the `fact_payment_txn` rows, `job` and `locks` the
transactions in flight.  `BeginMerge`/`FinishMerge` are `merge_row` with `_load`, `_check` and `_write_leg`; `Decide`,
`UpdateTransaction`, `BeginOnEntry` + `FinishClearWarning`/`FinishDelete` are the handlers of `payments.py`.  `typed` is
history: whether somebody typed over the amount a merge wrote.

**OrderMoney** – `order` is the row of `fact_orders`, as far as it decides the money.  `delivery` stands for the four
columns the sign of the money is read from.  Every write goes through `BeginWrite`, which fires the trigger of
migration 033 when the confirmation has to go (`Resets`, `LockPush`, `FinishReset`): the guards of the five writers
(`ScreenEdit`, `AdminEdit`, `ShopAdvance`, `ShopRemovesAdvance`, `CorrectAdvance`) are those of `apply_order_update`,
`_shop_advance_change` and `correct_advance`.

**DecorMoney** – `decor` is the payment or expense, `split` the push row's `decor_split`; `Stage`, `StageAgain` and
`FinishUnstage` are the trigger functions of migration 050.

**OrderBook** – `orders` has serial and bill of each order, who numbered it, and whether it was imported or edited
since.  `LockFree` is advisory lock 7001.

**ReadCache** – `table` counts the committed writes of each table (its contents), `versions` and `cache` are the two
dictionaries of `db.py`, `txn` what each thread's transaction has written and which names `tables_written` gave,
`ask` where the thread is inside `read()`.  `finished` is history: the contents whose writer's `cursor()` has ended.
**ReadThrough** is the same service without a cache: a read answers with the rows of some moment not earlier than the
writes finished when it began, or with the reader's own uncommitted change.

**AttendanceDay** – `day` is the `fact_attendance` row of one person today (key 0 when there is none), `quiet` the tick
that keeps messages from a person, `ran` the day's row in `att_auto_run`, `job` the transactions in flight.
`BeginCheckOut` is the unlocked read of `save_checkout` and `manual_checkout`, `FinishCheckOut` their `UPDATE`, which
waits for whoever has the row (`RowFree`).  `BeginSend … SendIn, SendOut … EndSend` is `process_wa_row`: the row stays
locked while the provider is asked, and what was sent becomes visible at the end.  `BeginRun`, `AutoCheckOut` and
`RecordRun` are `run_jobs` and its three transactions, under advisory lock 7004.  `Midnight` ends the day at any moment
(`over`): from then on nothing is retried and no run looks at this day, since both ask for today's rows.  `told` is
history: what went out since the present row was made, and which sends went out without being recorded.

**OrderScreens** – `job` is an order as the screens see it (submission type, status, delivered, received, paid, old,
archived), `route` the "Goes to" setting of a status, `cleanup` the 11 PM clean-up.  `ScreenFilter` is the SQL a screen
loads, the predicates below it (`AwaitingGodown`, `ReadyForDispatch`, …) what Python then keeps; `WorkLists` puts the
two together.  A save is one transaction on a locked row, hence one step.

**DispatchAlert** – `filled` are the fields of one order that have a value.  `Screens` and `FieldsOf` say which of the
four fields a save of each screen may fill in: the godown's form takes the receiving fields, and both dispatch forms
take all four.  `req` is the save a request is making where a message may follow: it reads the order in one transaction,
saves in another and compares (`ReadBefore`, `Save`); the other screens save at once (`SaveQuietly`).  `TellsDispatch`
and `TellsReceiving` say which screens send which message.  `queue` and `worker` are `_alert_pool`; `noted` is whether
the order has a WhatsApp `order_event` of either kind, which is what `send_pending_dispatch_alert` looks for.  `Restart`
empties both and every request.  `told` and `excused` are history: `Stale` names the kinds of message a save hands over
on a reading of their fields that no longer holds.

**ScreenCache** – `page` is one entry of `_SCREEN_CACHE`, `version` the sum of `_versions`, `look` where a viewer is in
`screen_response`.  It stands on `read()`, of which only the promise stated in `ReadThrough` is used.

**BillGaps** – `Takers` is the SQL that looks for a number already used, `Present` the Python that lists a series;
`SaveBill`, `VoidGap` and the changes of a type's setting move what both read.  `GapCount` is the arithmetic of
`_gaps_in`.

**ConnectionPool** – `used`, `free` and `dead` are the pool's connections, `use` where each thread is in `cursor()`,
`lockConn` the connection of a job's `advisory_lock`, `server` who holds the session lock in the database.  `Try` and
`Late` are the tries of `_get_connection` and its time limit.  A connection may be dropped by the server at any time.

**SignIn** – `fails` is `_fails` per name and per address, `pin` and `device` the counters of an employee's salary PIN.
A try reads the count, verifies, and counts, in three steps; `Clients` tries run at once.

**Members, Access** – `member` is `dim_user`; a request (`errand`) carries its sender as `current_user` read them, its
transaction locks only its target.  `rolePages`, `exception` and `pending` are the rights to one page; `Effective`
is `effective_access`, asked of one person, `UsersWithPage` the SQL that asks for everybody.

**Settings** – `stored` counts the saves of each setting, `kept` is the copy with whether its lifetime is over, `step`
where each thread is between query, commit and copy.

**Files** – `object` is the store, `row` and `challan` the tables that name its keys, `record` which orders and purchase
entries exist, `op` the request of each worker: store, insert, link, erase are separate steps and any may be the last.
`DeleteOrder` is `delete_order` and the undo of an import: photo rows of the order go by the cascade of
`order_attachments.order_key`, whatever requests are under way.  Saving a purchase and deleting it are two steps each
(`BeginSave`/`CommitSave`, `BeginDeletePurchase`/`FinishDeletePurchase`): the delete takes the photo rows it finds before
it has the entry's row.  `strays`, `left` and `lost` are history: what a failure, a deleted order or purchase, and a
save that was not committed left behind.

**DocCheck** – `printed` is what the papers really show, `read` what `order_doc_read` has of them, `entered` the order's
own number and date.  The verdict is worked out anew each time it is asked for (`Verdict`).

**Delegation** – `task` and `extra` are the rows, `granted` the points each person was told of (history).  Every
handler takes its row first, so each is one step.  **Expenses** – `entry` and `explained`, what the audit log adds up
to.

**Checklist** – `list`, `item`, and `view`, what a request has read and not yet inserted or deleted.  A schedule is a set
of dates and whether it is daily; a view leaves out of a daily one the weekly off day of its moment (`OffDays`, a
parameter of `BeginView`), which an administrator may change between any two views.  `excuse` is history: `raced` for an
item of a view that had read the row before it changed, `marked` for one that was marked when the row changed; a
hand-over ends both.  A delete remembers which items were not marked when it counted (`unmarked`).

**DecorJob** – `site` is a client, `quote` a quotation, `deal` what a request has read; `owed` and `made` are history.

**Employees** – `person` are the members, `employee` the attendance rows, `tag` the places each may mark from;
`SyncMembers` is the whole of `sync_members`, one transaction on rows nothing else decides on meanwhile.  A save of
somebody's places (`BeginSetPlaces`, `FinishSetPlaces`) takes the rows it sees and inserts its own later; a merge of
places (`BeginMergePlaces`, `FinishMergePlaces`) moves the rows it saw and then deletes the place with whatever has been
tagged to it since.  What two of them do to the same rows follows READ COMMITTED: the later one finds them gone or moved.
`chosen` and `lost` are history.  **Payroll** – the month's `record`s, `holidays` and the
open day; the slip (`SlipDays`, `DeductedHalves`), the report (`ReportStatus`) and the streaks (`CurrentStreak`,
`AbsentThroughout`) are computed apart, as in the code.

**Lists** – `value` are the rows, `order` an order's status and `is_cancelled`, `merging` a merge between its `UPDATE`
and its `DELETE`.  **Uploads** – `rows`, and `sequence`, which no rollback moves back.

**Imports** – `batch` the rows an import brought and the work done on them, `typed` the rows of the kind's own screens,
`clerk` where a request is between validation and confirmation, or between the undo's count and its delete; `kind` is
what differs between the importable tables.  A row stands under the name it came with (`names`) or where the validator
of its kind does not find it (`aside`): renamed, a checklist that was stopped, a purchase without an invoice number.
`Asked` are the names of a file the validator asks about: all of them, except purchases without an invoice number and
clients who bring an old ID.  `PutAside`, `TakeBack` and `DeleteRow` are the edits, stops, restarts and deletes of
imported rows.  `seen` is history: which imports' rows each check could have found.

**DailyReports** – `clock`, `runs` (`daily_report_run`), `stored`, and `job`, each copy's scheduler thread between its
lock, its commit and its message.  `FailBatch` and `RestartService` may end it anywhere.

Abstractions worth knowing:

- Amounts are small numbers; the one-paisa tolerance of `_check` is left out, and so are dates, companies, remarks and
  the fields that only prefill a form (`save_row`).  A payment status has a fixed split; changing the splits or signs
  in Setup while orders use them is not modelled.
- A row joined to a locked row, without being locked itself, is read at the time the lock is taken.
- The locks a merge or the trigger takes on several entries are taken in one step.
- An entry's edit changes its amount; changes of its type, mode or company are not modelled.
- `decor` amount 0 stands for refunds and reversals, which are not staged.  Imported entries are not staged either.
- An upload is a file of one order and its batch has only that order.  `edited` stands for edited or archived.  Bill
  numbers are compared as numbers.  The suspicious-number question binds people who are not admins and is left out.
  The check of a number and the reading of the last serial happen in the step that takes the lock: between them the
  lock is held, and an order that disappears meanwhile only makes both answers safer.
- In `AttendanceDay` a check-in's look for today's row and its insert are one step: the unique key lets one of two
  through and the other is told so.  The clock is left out: the evening may begin at any time, so the run may meet any
  state of the day.  A message switched off in Setup counts as handled and not as sent (`n = 0` in `SendIn`).  A caller
  turned away by `_WA_SLOTS` or by the row lock changes nothing and is no step.  Photos, places, working hours, the
  summary message and the source of a check-out are left out.
- In `ReadCache`, time does not exist: `Drop` may remove a copy whenever it likes, which covers the lifetime and the
  size limit.  Tables written by triggers or cascades are not known to `tables_written`; those writes are
  `WriteBehind`.
- In `OrderScreens` the caps on the length of a list are taken as not reached.  In `DispatchAlert` the queue has one
  place: a second message waiting behaves as the first.  In `BillGaps` the orders of one financial year are kept, so a
  yearly series has one window and a daily one has two.
- In `ConnectionPool` a nested cursor is a savepoint on its thread's connection and ends with it; what is executed on a
  connection does not matter, only whether the server has dropped it.
- In `SignIn` the window of a counter may end at any time; verifying a secret is a free choice of its outcome.
- In `Payroll` the month is short, and a punch has one of two times, which the limits of Setup place on either side.
- In `Checklist` the frequencies are sets of dates, and what is left out of them is one of two sets; the setting is read
  after the checklists in the same transaction, and the model lets every view have any value of it.  An item's end date
  is part of the schedule's dates.
- In `Employees` all tags of one employee are taken by a save in one step, as are the rows of a merge; the cascade of a
  deleted place takes the tags committed by then.
- In `Imports` a row is its name; whether a kind's table has a unique index on it, what its rows point to and what the
  undo counts as work are the fields of `kind`, one record for each importable table.
- In `Files` and `DocCheck` a document is an identity; what a reader makes of a picture is a free choice.

## 3. Runs

| Run | Instance | What it shows |
|---|---|---|
| `order_money` | 2 requests, 2 entries, one amount, one status split both ways | The money of an order stays in agreement with Payments through every interleaving. `ConfirmedMoneyIsStaged`: confirmed money is staged as it is now, and merged money adds up to it. `OneEntryPerLeg`: no orphan and no double while the order lives. `EntriesCarryTheMerge`, `ApprovedIsOnlyFlagged`: what merging promises the accountant. |
| `order_money_live` | 2 requests, 1 entry, fairness | `RequestsEnd`: every request ends, though merges and the entry screens lock in opposite orders and do deadlock. |
| `order_money_correct` | as `order_money` | **Violated.** A cashier's correction can be written after the merge. |
| `order_money_rejected` | as `order_money` | **Violated.** Money merged again into a part that had become nothing sits in a Rejected entry. |
| `order_book` | 2 requests, 3 orders, 3 serials, 3 bills | `SerialsNeverClash`, `FormNumbersAreUnique`, with uploads, edits, deletes and undos in between. |
| `order_book_repeats` | 2 orders | **Violated.** An edit can give an order a number that is being given to another. |
| `read_cache` | 2 threads, 1 table, 3 writes | `ReadIsFresh`, and `KeepsThePromise`: the cache implements `ReadThrough`. |
| `attendance` | 2 workers, 1 row, 2 check-outs, 1 lost send, fairness | `MessagesAreCounted`: a message is repeated only as often as check-outs and lost sends explain. `MessagesGoOut`: what is owed does not stay owed while the day lasts. `OpenDayIsClosed`: a day left open is closed by the evening's run, wherever a restart hits it, unless midnight comes first. |
| `people` | 2 members, 2 requests; 3 files, 1 order, 1 purchase; 2 days, 2 schedules, 2 off days | `AdminRemains`: someone who can manage the portal stays. `HoldersAgree`: one person's pages and one page's holders are the same relation. `TriesAreLimited`: wrong tries beyond the limit are only those already in flight. `CopyFollowsSaves`, `ScreenIsFresh`: settings and screens follow the saves that had finished, in the case of a setting until a reader that overlapped a save stores the old one. `FilesAndRowsAgree`: a row has its object and what it is for, and an object without a row is one whose clean-up failed or whose order or purchase was deleted. `OpenItemsFollow`: open items follow the schedule and the assignee. `MarkedItemsSurvive`: marked work goes only with a delete that had counted before it was marked. |
| `office` | 2 staff, 1 task, 2 expenses, 2 employees, 2 places, 1 quotation, 2 clients | `ScoresAreRight`, `BalanceIsExplained`, `EmployeesInOrder`, `ContractAddsUp`, `DecorMoneyIsStaged`: each book adds up through its corrections, repeated decisions and overlapping requests. Employees are two parts, the list with its sync and the places with their tags: both change the rows, and nothing else is shared. |
| `records` | 1 order on the screens, 2 bills, 2 documents, 4 list rows, 4 days | `OneScreenAtATime`: an open order has a place where somebody works on it, and one only. `GroupsAreTold`: a completed receiving entry is announced unless a screen that tells nobody completed it, and a message is repeated only by a save whose reading was overtaken, or before the first was noted. `NumbersAreReadAlike`, `PerfectIsTrue`, `OrdersFollowTheMerges`, `MonthBooksAgree`. |
| `background` | 2 connections, 1 request and 2 jobs; 2 copies of the service, 2 days; 2 uploads of five numbers; 2 imports, 2 admins | `LocksComeBack`, `EveryoneIsAnswered`: no connection is lost and nobody waits for ever, though jobs hold one connection and need another. `BatchesAreSentOnce`, `DueBatchesRun`: at most one announcement, and both batches are built in the end. `NextNumberIsFree`, `ImportsKeepWork`. |

**Bounds.** Two requests in flight suffice to reach every pair of handlers in every order, including a deadlock; a third
only waits.  Two entries are the two parts an order can have; a merge that would need a third id starts only after one
is free (`HasRoom`).  With one amount an order has "no amount", "that amount", or "nothing merged for this part", and an
edit of the status or the sign changes the money as an edit of the amount would; `office` has two amounts for VT Decor,
since there the amount is all that can change, and typed amounts too.  The bills of `order_book` are one number in two
series, one of them daily, on two days: the least that tells a clash from a repetition that is allowed.  `MaxSerial` is
the number of orders, so serials are reused and run out.  A read in `read_cache` can be overtaken by two commits and a
third write from outside; with one table `"*"` still bumps a second version.  In `attendance` a row may be deleted under
a check-out that has read it, two check-outs let both be under way at once or one follow a correction that reopened the
day, and one lost send is the least that repeats a message.  A day that is deleted and punched again has a new row with
another key, which nothing under way touches: one row is enough for what stays owed and open, and for the count the
theorem covers any number of rows.

In the composed runs: two members are the least in which one admin acts on another and the last must not go; limits of
two and three wrong tries lie on either side of what two tries in flight add.  `MaxSaves` 2 and `MaxCommits` 3 let a
copy be overtaken, replaced and overtaken again.  Three files are one that is kept, one that replaces it and one that is
lost.  A checklist has two dates and two schedules, a daily one and one without the first date, and the off day is
either date.  One order and one purchase are what two requests on three photos can share.  A task is penalised once for
each reason (`MaxPenalties`); the formula is linear in each.  A job has one product and a contract of up to two.  The
three numbers of `records` leave a gap that can be voided or filled, and pairs "challan/invoice" from before the tag;
`SuspectJump`, `SuspectRatio` and `SuspectMinMedian` are scaled down to them.  Four list rows let a merge of two meet a
rename and a new row with the old name; two of the names are the ones the screens give a meaning.  Four days hold a
working day on either side of a weekly off and a holiday next to it, which is what a sandwich needs.  Two connections
against two jobs is the pool in which every connection is held by a job that waits for another.  Two copies of the
service and one failure let one copy fail or restart after any step of the other.  All passing runs look at the whole
state space of their instance.

**Symmetry** is over requests, entries or orders, which the specifications use only in quantifiers and as array
indices; in `people` and `office` several constants share two values (`x1`, `x2` and `y1`, `y2`) so that one pair of
permutations covers them all.  The runs with liveness use none.

**Deadlock.** `order_book`, `read_cache` and `attendance` check that the system can always go on.  In
the money runs it may really stop: an order that has been deleted and whose entries are gone has no operation left.  The
composed runs stop where a bound is reached: the last day, the last save, a deleted checklist.

**Fairness** (`LiveSpec`). PostgreSQL grants a row lock in the order it was asked for and its deadlock detector rolls
back one of the transactions that wait for each other.  So: strong fairness of each request's finishing steps – a
request whose lock is free again and again gets it – and weak fairness of `BreakDeadlock`.  Nothing is assumed of
people: no request has to begin, and no `Rollback` other than a deadlock's has to happen.

In `AttendanceDay` the scheduler's thread retries what is owed today every five minutes and, from the evening on, calls
`run_jobs` every minute until `att_auto_run` has the day.  So: strong fairness of `Retry`, of `BeginRun` and
`AutoCheckOut`, and of the ends of what was begun – an `Abort` may interrupt any of them, but not forever.  `Delivers`
says that the provider does not refuse forever: the retry can promise nothing against one that does.  None of this
outlives the day: `process_pending_whatsapp` selects by `work_date`, so `Midnight` disables all of it, at any moment, and
both liveness properties name it as the other outcome.  A message still owed at midnight is never sent.  Check-ins,
corrections, deletions, ticks and `Midnight` have no fairness.

In `ConnectionPool` a waiting thread tries again every moment and gives up after its time: weak fairness of `Try` and
`Late`.  Nobody is assumed to give a connection back.  In `DailyReports` the scheduler's loop goes on whatever a batch
does: weak fairness of each copy's step; a failure or a restart may come between any two, up to `MaxFailures` times, and
a day may end while a batch is due: `DueBatchesRun` speaks of a day that does not end.

## 4. Where the program and its words disagree

Three are violated runs; the quotations are in `PROJECT.json` under `findings`.

1. `order_money_correct`: `correct_advance` reads whether the money is merged through a join it does not lock; a merge
   that commits before the correction is not noticed.  The trigger then marks and warns, so the disagreement is with who
   may change merged money, not with the books.
2. `order_money_rejected`: `_write_leg` rejects a waiting entry whose part became nothing, and a later merge that gives
   the part money again writes into that entry and leaves it Rejected.
3. `order_book_repeats`: `apply_order_update` checks a bill number without lock 7001.

The models contain the following too; the properties are stated so that they hold with them, and name them.

- `migrations/050:91`: `decor_unstage` decides on an unlocked copy of the push row, so an entry merged meanwhile is
  deleted without its warning.
- `app/admin_tools.py:546`: `undo_batch` counts edited rows and deletes the batch in two statements; an edit in between
  is lost.
- `app/bulk_modules.py:1237`, `372`, `405`, `630`: the validators do not find a checklist that was stopped, a purchase
  without an invoice number, or a client when the file brings an old ID; the same rows can be imported again, and a
  stopped checklist then restarted, so that both stand beside each other.  A purchase or checklist renamed in between
  does the same.
- `app/bulk_modules.py:218`: an upload that reads the highest number while a higher one is not yet committed sets the
  sequence below it.
- `app/attendance.py:320`: a message still owed at midnight is never retried.
- `migrations/014:19`, `app/main.py:593`, `app/admin_tools.py:552`: deleting an order, or undoing its import, takes the
  rows of its photos by the cascade and leaves their objects in the store; so does `app/purchase.py:237` for an entry.
  A photo that a save links to an entry while it is being deleted keeps a row that names no entry.
- `app/checklist.py:76`: when the weekly off day moves, open items of daily checklists that stand on the new one stay.
- `app/checklist.py:80`: a view that read a checklist before it was changed inserts items of the old schedule and person;
  the person of those items is put right by the next hand-over.  An item marked while the row changes and then opened
  again does the same.
- `app/checklist.py:527`: an item marked between the count and the delete goes with the checklist.
- `app/reconcile.py:258`, `migrations/034:17`: a work place tagged to an employee while the place is being merged goes
  with it, and an employee left without places may mark from anywhere (`check_location`).  `app/attendance.py:973`: two
  saves of one employee's places that cross leave both sets, or are refused where the sets share a place.
- `app/module_admin.py:303`: the points for late work may be set above 0, and then the week shows late work green.
- `app/attendance.py:481`: check-out works out the message still owed from a row it has not locked, and writes it after
  the send that held the row has ended; the check-in message goes out a second time.
- `app/attendance.py:1409`: a correction that sets the status but no check-out is written over by the evening's
  automatic check-out.
- `app/config.py:130`: a value read before a save may be stored as the copy after it, and is served for the copy's
  lifetime.
- `app/o2d_screens.py:1038`: two overlapping saves may both take themselves for the one that completed the dispatch;
  and a dispatch whose date and person are filled in by two saves is announced by neither.
- `app/o2d_screens.py:876`, `840`, `1052`: Godown Dispatch and the godown form take the receiving details too, and a
  receiving entry they complete is announced by nobody.  `app/o2d_screens.py:1076`: a receiving message that was noted
  makes the dispatch message count as sent.  `app/o2d_screens.py:889` says the Receiving group hears of a dispatch;
  `_tell_dispatch_groups` (915) sends it nothing.
- `app/o2d_screens.py` elsewhere: the reminder "Awaiting receiving" is also sent for shop-side orders, which have no
  receiving desk; a return that a status keeps at the godown is on no work list (line 319).
- `app/doc_numbers.py:52`: changing a type's `bill_series` to one with two series leaves the numbers entered without a
  tag in neither.  `str.isdigit` (line 58) also accepts digits that `int` refuses; the model has plain digits only.
- `app/decor.py:850`: "two people saving at once: the later one gets the next free number" - both may find the number
  free, and the later one is refused by the unique key.  Item numbers (582) are the highest plus one without a lock, and
  the old amount a revision notes (614) is the one read before.
- `app/main.py:328`: `is_cancelled` is set when the status is chosen and does not follow when the value is renamed.
- `app/main.py:497`: the shop's own form follows the confirmation and not the merge, so after an admin's change has
  reset the confirmation of a merged advance, the shop may change it again.  The trigger marks and warns.
- `app/main.py:593`, `447`: deleting an order leaves the entries merged from it in Payments, and frees its serial if it
  was the last.
- `app/daily_reports.py:225`: a restart between the commit of a batch and its message loses the message; a batch that
  keeps failing past midnight is not made up for.
- `app/auth.py:28`, `app/attendance.py:602`: tries in flight together pass one check of the count, and wrong PINs
  counted together count once.
- `app/purchase.py`: a photo taken off an entry is erased before the save commits, and a form that was opened before
  another's save drops the photo the other added.

## 5. Theorems

Checked by TLAPS for every value of the constants that the assumptions in the modules allow: any number of requests,
threads, orders, members or files, any amounts.  Nearly every property needs an invariant of its own, since what makes
it true is usually not in the state it speaks of but in what a request in flight has locked, read or promised.  Each
module has one lemma for each kind of step; below is what the invariants add, and the step that needs it.

**OrderMoneyProofs.** `TypeCorrect`: `Spec => []TypeOK`.  `ConfirmedMoneyCorrect`:
`Spec => [](ConfirmedMoneyIsStaged /\ MergeStaysValid)`.  Neither conjunct is inductive.  A merge finishes with amounts
that were checked when it began, so `ConfirmedMoneyIsStaged` needs `MergeStaysValid`; and that holds because a merge
holds the lock of the push row (`MergeHoldsPush`) and nobody else does (`OneHolder`), so every step that changes the
row is excluded (`MergeExcludes`, `FinishExcludesMerge`).  `PartsHaveOneEntry` (`OneEntryPerLeg`), `EntriesCarryMoney`
(`EntriesCarryTheMerge`) and the action property `ApprovalStands` (`ApprovedIsOnlyFlagged`) stand on a larger invariant:
a writer of the order holds its row (`SourceHeld`) and has an order to write (`WritersHaveOrder`); the two parts point
at different entries (`LegsDiffer`), and only merges make a link (`OnlyMergesLink`), so that no entry is left over while
the order lives (`NoStrays`).  A merge meets an approved entry in two ways only, flagging it or leaving it (`Flagged`).

**OrderBookProofs.** `SerialsCorrect` and `FormNumbersCorrect`.  The strengthening: at most one request is between its
lock and its commit (`OneInserter`), and the number in the hands of an inserting form repeats no number carried by an
order that got it on a form (`InsertIsUnused`).  The second needs the first; edits do not disturb it, because an edited
number is no longer "as entered", and removals only take numbers away.

**ReadCacheProofs.** `ReadsAreFresh`: `Spec => []ReadIsFresh`.  The invariant says of every copy that, if its versions
are the present ones, it is committed and not older than what is finished (`CopiesAreGood`); the same of a question
under way, with the versions it has seen and its own floor; that whoever goes through the cache has not written the
table (`AskersAreClean`); that floors are not newer than `finished` nor `finished` than the table (`FloorsAreOld`); and
that every table written is covered by a name in `dirty` until its bump (`WritesAreTracked`).  The step that needs all
of them is `Bump`: it raises `finished`, and must at the same time make every older copy and every older question's
answer count for nothing.  `CacheKeepsThePromise`: `Spec => KeepsThePromise`, the refinement.  Every step of the cache
is a step of `ReadThrough` or leaves its variables alone; the one that answers from a copy needs, beyond freshness, that
a copy holds rows of the past (`CopiesArePast`).

**PeopleProofs.** `AdministratorStays` (`AdminRemains`) and `AnswersAgree` (`HoldersAgree`): the guards of the member
routes look at one request at a time, when it comes in, so the strengthening says of a request whose target is its own
sender that it was allowed (`OwnErrands`).  `TriesStayLimited` (`TriesAreLimited`): every try in flight was let in under
the limit, one per client, so that failures and tries together stay below it (`LoginsAreLimited`, `PinsAreLimited`);
this counts clients, which are therefore assumed finite.  `SettingsFollowSaves` (`CopyFollowsSaves`): a copy is old only
if somebody who read before a save has stored it (`UnpassedIsStored`).  `ScreensAreFresh` (`ScreenIsFresh`): what a
viewer has seen is past, and what is filed under the present version is current (`SeenIsPast`, `FiledIsCurrent`).
`FilesStayKnown` (`FilesAndRowsAgree`): between the steps of a request its object is in its hands and nobody else's
(`HandsAgree`, `HandsApart`); the photos a save moves stay as it found them and its entry stays there to hold them
(`SaveStands`), which is why no delete of the entry comes between; what a row is for has not been deleted
(`RowsHaveOwners`), which every delete keeps by taking the rows or by writing off those it did not see; and every object
is in a row, in a hand, or written off (`ObjectsAreKnown`).  `OpenItemsStayTheirs` (`OpenItemsFollow`) and the action
property `MarkedStay` (`MarkedItemsSurvive`): a view under way inserts dates of the schedule it read, whatever the off
day was, and a delete under way had found every item unmarked (`ViewsKnow`); every item without an excuse, a marked one
too, follows its checklist, since an editor may open it again (`ItemsFollow`).

**AttendanceProofs.** `MessagesCounted` (`MessagesAreCounted`): each repeated message is paid for by a check-out under
way, a correction or a lost send (`PaidFor`), and only one sender holds the row.

**OfficeProofs.** `EmployeesStayInOrder` (`EmployeesInOrder`): no two rows have a member or a name in common and every
link leads to one (`UsersDiffer`, `NamesDiffer`, `LinksLive`), followed through the statements of `sync_members` one
after another (`Found`).  Of the places: an employee none of whose tags was lost is tagged to exactly those of the
chosen places that are left (`TagsStand`), through saves that cross and merges that move (`MovedAreTagged`).
`ContractsAddUp` (`ContractAddsUp`): a request decides on a quotation it holds (`OneDecides`), what it has read of the
deal still stands (`DealsStand`), and a client is made once (`MadeOnce`).  `DecorMoneyStaged` (`DecorMoneyIsStaged`) is
the argument of OrderMoneyProofs with the triggers of migration 050: whoever is about to merge holds the push row and
the parts it checked still add up to it (`JobFits`).  The delete trigger's unlocked copy of the push row does not matter
to this property: what it leaves wrong is the Payments side of an entry that is gone.  `ScoresStayRight`
(`ScoresAreRight`) and `BalanceStaysExplained` (`BalanceIsExplained`) are about sums over finite sets.  The laws they
need - a sum loses any one element at its value (`SumWithout`), moves by what one element moves (`SumMoves`), adds up
over parts (`SumOfParts`) - are proved from the definition of the community module's fold: among the sets at which a law
fails there would be a smallest one (`SmallestSubset`, from the library's theorem that the subsets of a finite set are
well founded).  The invariants say what one row is worth: a score was earned when its task was last handed in
(`ScoreStands`), and an entry is worth what the audit log was told (`FloatInv`).  The running balance of the statement
is a fold in the order of its lines; `StatementAddsUp` follows it line by line (`LastLineIs`).

**RecordsProofs.** `MergesAreFollowed` (`OrdersFollowTheMerges`): a merge under way still finds the orders it moved
where they were, and its target cannot be deleted while there are any (`MergeHolds`); a row of the list was not merged
into another (`RowsStandForThemselves`).  The step that needs them is `FinishMerge`.  `PerfectStaysTrue`
(`PerfectIsTrue`): what has been read is what the papers show (`ReadsArePapers`).  `GroupsStayTold` (`GroupsAreTold`): a
message was handed over for fields that are complete (`ToldIsComplete`), and what a save in flight has read of the
receiving fields is still filled in, unless they were written around the screens (`ReadIsThere`).  `OrdersShowOnce`
(`OneScreenAtATime`) has no such invariant: it follows from the fields an order can have and the routes a status can be
given, by the cases the screens' filters make.  `NumbersStayAlike` (`NumbersAreReadAlike`): the condition of the SQL
statement and the reading in Python find the same number in one order, whatever its tag and its type's setting
(`NumberIsTaken`); numbers there, numbers closed and gaps are a partition of the numbers up to the highest
(`GapsAreCounted`).  `MonthBooksStayAlike` (`MonthBooksAgree`): nobody has a record of a day to come (`MonthInv`), so
slip and report judge each day alike (`DaysAlike`), and the days they count are the same sets, cut differently
(`HalvesAddUp`); the days of a streak and the last working days are both reached from the end of the month, so one
contains the other (`StreaksAlike`).

**BackgroundProofs.** `ConnectionsComeBack` (`LocksComeBack`): a connection in a thread's hands is in use and in no
other's, and only the job that holds the lock's connection holds the lock (`HandsDiffer`, `OnlyJobsLock`,
`LockIsHeld`).  `AnnouncedOnce` (`BatchesAreSentOnce`): the one who builds a batch has its lock, the one who sends it has
stored it (`BuilderHasLock`, `SenderHasBatch`).  `NumbersStayFree` (`NextNumberIsFree`): what an upload may write lies
below the sequence, unless another raced it.  `UndoKeepsWork` (`ImportsKeepWork`): an undo knows
the work it counted (`UndosKnow`), what an import was told it could not find is not in its hands (`SeenStays`), however
the other's rows are renamed, stopped or deleted afterwards, and a unique index holds at every step (`IndexHolds`).

**The shapes of the runs.** `PeopleTypeCorrect`, `OfficeTypeCorrect` and `RecordsTypeCorrect`: in the composed runs each
part keeps the shapes its module declares (`PeopleTypeOK`, `OfficeTypeOK`, `RecordsTypeOK`), since the behaviour is one
of that part's (`PeopleInv`, `OfficeInv`, `RecordsInv`).  Most shapes come with the invariants above; those of the
requests in flight (`JobsTyped`) and of what a save puts into the queue (`CommitShapes`) have an argument of their own.

**Assumptions.** Those of the modules, which TLC evaluates in the runs.  They say that amounts, dates and bounds are
numbers (the bound of the message queue too, `AlertAssumption`), that a value standing for "none" is not one of the
others (`NullAssumption`, `NobodyAssumption`, `FilesAssumption`, `NoStatus` in `ScreenAssumption`, `NoBill` in
`BillAssumption`), that the pool has a connection (`ConnsAssumption`), and that what is counted or summed is finite: the
clients whose tries are counted (`ClientsAssumption`), tasks and extra work (`ScoringAssumption`), entries
(`ExpensesAssumption`) and orders with a bill (`BillAssumption`).  Scores are any integers: where the settings reward
late work, the theorem says of a task shown green only that it was never sent back or extended.

**Model-checked only.** Liveness (`RequestsEnd`, `MessagesGoOut`, `OpenDayIsClosed`, `EveryoneIsAnswered`,
`DueBatchesRun`): the prover has no rule for `ENABLED`, which fairness is defined by.  The runs that expect a violation
state what the code does not keep.  Every invariant, action property and refinement the other runs check is stated by a
theorem above.

## 6. Not modelled

- Of the bill numbers, only those entered on the forms and not changed since are kept apart (`FormNumbersAreUnique`);
  imported and edited ones are in the model and may repeat.  `MonthBooksAgree` is about one month with one weekly off
  day; a change of that setting, and months gone by, are left out.
- Of the parts modelled: typed entries of Payments and the fields a merge only prefills; photos, assignment, stage
  percentages and monthly fixed expenses of VT Decor; the weekly plan of Delegation; sending a dispatch message again by
  hand; the alert settings form and the read marks of the bell; deleting everything at once (`data_tools.py`) and the
  archive.  Each is a single statement on a row nothing else decides on, or replaces a set of rows at once.
- The reading of uploaded files and their cell formats, which has no state.
- Dashboards, printed reports, PDFs and exports: queries and layout.
- Pages in the browser: the server enforces every rule modelled here.
- Migrations other than the triggers, and the command line tools, which run while the service is stopped or idle.
- Outside the program: hashing, tokens and signed links, psycopg2's pool class (modelled as far as `db.py` uses it), the
  object store, text recognition, the WhatsApp provider.

What is worth proving next: the safety half of the liveness properties - that what is owed or due stays recorded until
it is sent or run, and that requests wait for one another in a circle only where the database breaks it.
