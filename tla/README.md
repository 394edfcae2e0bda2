# command-handler: a verification development

`command-handler` is a Go service behind a Telegram bot.  It consumes the updates
that are commands, button presses and business-connection changes from sharded
RabbitMQ queues, runs one of its handlers for each, and answers by publishing
messages to outgoing queues.  What it keeps is in PostgreSQL (users, settings,
referrals, levels, mirrors, saved messages) and, for ten minutes at a time, in Redis.

The TLA+ modules here model the parts of that service that keep state, TLC checks
them on small instances, and TLAPS proves the most important results for every value
of the constants.  Paths below are relative to the repository (`src/application/...`);
`PROJECT.json` maps every definition to the lines it stands for.

Contents: [inventory](#1-inventory), [modules](#2-modules), [runs](#3-runs-and-bounds),
[findings](#4-where-code-and-text-disagree), [fairness](#5-fairness),
[proofs](#6-proofs), [abstractions](#7-assumptions-and-abstractions),
[not modelled](#8-not-modelled), [plan](#9-plan).

## 1. Inventory

Parts that matter for what the service keeps or for how updates reach it:

| part | source | state | operations |
|---|---|---|---|
| process | `src/main.go` | signal context, WaitGroup | start, signal, wait at most 30 s, exit |
| consumer | `src/application/init.go` | channel, consumer tags, `merged`, `errors` | dial, forward, consume, ack/nack, log errors, clean up |
| topology | `src/infrastructure/rabbitmq/models.go`, `required_models.go` | 64 shard queues with a single active consumer, exchanges | idempotent declarations |
| connection holder | `src/infrastructure/rabbitmq/client.go`, `init.go` | `Client.conn`, `Client.mu` | `connect`, `Conn`, `Channel`, singleton |
| start | `endpoints/start/messages.go` | users, settings, referrals | signup with or without a code, welcome |
| consent | `endpoints/start/consent.go` | one timestamp | insert; its gate is commented out |
| referral programme | `endpoints/businessConnection/referral.go`, `endpoints/referral/referral.go` | referrals, UserLevels, preference | count levels, fix or withdraw a reward, choose the kind of bonus, menus |
| business connection | `endpoints/businessConnection/adapters.go` | connection hash, `is_connected`, hash of every message | connect, disconnect, re-key |
| connection check | `endpoints/checkConnection` | reads `is_connected` | report |
| settings | `endpoints/settings` | four switches of UserSettings | show, turn one |
| mirrors | `endpoints/mirror` | mirrors, two kinds of Redis keys | create, token, cancel, list, view, delete |
| export | `endpoints/exportChat` | reads messages, emits invoices | list, menu, preview, restore |
| deletion | `endpoints/deleteData` | rows of all those tables | ask, cancel, confirm |
| help, installation, encryption pages | `endpoints/help`, `installation`, `howEncryption` | none | constant text |
| metrics | `src/infrastructure/metrics` | gauges, one channel | collect, serve |
| PostgreSQL, Redis, configuration | `src/infrastructure/...` | pools | start up |

How they interact.  `main` starts `ListenToRabbitmq`, which dials, consumes every shard
queue on one channel and forwards all deliveries into the Go channel `merged`
(64 goroutines, one reader).  The reader calls the router of the shared library; the
router hands the update to a routing goroutine, and the delivery is acknowledged
without waiting for the handler.  From then on a handler that fails is not repeated.
Handlers share nothing in memory: they meet in PostgreSQL (READ COMMITTED, no foreign
keys, hardly any unique index), in Redis and in the connection holder, from which the
consumer, the routing goroutines and the metrics collector take channels.

What is hard, and what makes each part correct:

- *Consumer.*  A lost channel leaves deliveries in the forwarders while the broker gives
  the same updates to another pod; nothing may be lost, first handling must keep the
  order of a queue, and a pod that is told to stop must stop although its loop may be
  stuck on `errors`.
- *Connection holder.*  The mutex is given up between `connect` and the second look at
  `c.conn`.  Goroutines must not undo each other's reconnects, nor pile up connections.
- *Referral programme.*  Several transactions per update, over rows that other
  handlers change meanwhile.  One invitation per person with two fixed ends, what is told to
  the inviter is what he has, nothing of a deleted user is left, and handlers that hold
  row locks while they wait for others never wait in a circle.
- *Mirrors.*  Count-then-insert against a limit; a wait in Redis that must admit one
  mirror per request; a deletion of the account that must take all mirrors along.
- *Archive.*  Messages are moved and the hash stored in two statements while messages
  keep coming in and others are flagged as deleted; an export must find what was saved in
  time, and nothing of anybody else; what an old page offers must still be had.
- *Settings.*  Read-modify-write of one row by two endpoints without a transaction.
- *Deletion.*  Six DELETE statements whose errors are dropped, beside handlers that insert
  rows about the same account: all or nothing, and nobody left half there.

`PROJECT.json` lists these as hazards, each at its line, with the properties that would
catch it going wrong, or with the reason why none does yet.

## 2. Modules

| module | models | composes / used by |
|---|---|---|
| `InvitationLifecycle` | abstract: what the programme promises about one invitation | implemented by `ReferralProgram` |
| `ReferralProgram` | signup with a code, connect, disconnect, bonus, deletion | `MC_ReferralProgram`, `ReferralProgramProofs`, `LockOrderProofs` |
| `AmqpClient` | the connection holder | `MC_AmqpClient`, `AmqpClientProofs` |
| `ConsumerPipeline` | broker queue to router, settling, shutdown, several pods | `MC_ConsumerPipeline`, `ConsumerPipelineProofs` |
| `Mirrors` | mirror bots | `MC_Mirrors`, `MirrorsProofs` |
| `ChatArchive` | re-keying of messages, status, the export menu and its invoices, deletion and return | `MC_ChatArchive`, `ChatArchiveProofs` |
| `Settings` | the UserSettings row and the two pages that show it | `MC_Settings`, `SettingsProofs` |
| `Erasure` | abstract: what "delete my data" promises | implemented by `DeleteData` |
| `DeleteData` | the deletion statement by statement, signups and inserts beside it | `MC_DeleteData`, `DeleteDataProofs` |

The `MC_` modules only name model values and give constants that are sets of records or
functions a value.  An operator whose comment says *Variant of X* is not part of any
next-state relation: it is a plausible bug in X, kept beside it to show that the
properties notice it (`PROJECT.json`, "mutants").

**ReferralProgram.**  `account` is `telegramusers` (the id of each user's row, 0 for none),
`pref` the column `referral_bonus_preference`, `referrals` and `levels` the rows of these
tables.  `job[w]` is the handler a routing goroutine runs: `pc` says between which two
statements or transactions it is, the other fields are its local variables.

- `Receive` hands an update over.  `StartKnown`, `StartNew`, `StartInvited`,
  `StartUnknownCode` are the paths through `run` (`start/messages.go`) up to the commit,
  `StartCommit` the commit.  A new row's id is drawn when it is inserted, so a rolled
  back signup leaves a gap.
- `Load`, `SelectOnConnect`, `SelectOnDisconnect`, `GetUntracked`, `AddLevel`, `Commit` are
  `sendReferral` with `handleLevels` in one transaction; between the second and the third a
  disconnect deletes the bonus row and the referral (`TakeRow`, `BeginReferrals`, `TakeRow`).
  `GetUntracked` is `GetUntrackedRelations`, `AddLevel` one row of `RecountLevels`.  `Reload`,
  `SaveReward`, `DropReferral` are `updateReferral`, a second transaction which reads all
  again.  `LoadFails` is every early return of `getReferralAndLinkOwner`.
- `BeginErase`, `TakeRow`, `BeginReferrals`, `EraseCommit` are `runDeleteConfirm`: levels, then
  settings, then referrals, then the row of the user and COMMIT.  `TakeRow` takes one row of the
  DELETE at hand (`left`), waits while another open transaction has it, and keeps it locked
  (`took`) until COMMIT makes the deletion visible.  A DELETE sees the rows that are there when
  it begins, so what others commit later stays.
- `BonusSave` is `makeBonusTypeHandler`, `Fail` a failed statement, commit or emission or a
  killed pod, `Expire` a level that passes its `actual_until`.

The abstract `InvitationLifecycle` has three variables (members, sponsor and reward of each
account) and four actions; its `Leave` allows that invitations made while the deletion ran
stay behind.  `Members`, `SponsorOf` and `RewardFor` are the refinement mapping.

**AmqpClient.**  One variable per field of `Client` (`conn`, `mutex`), the connections still
open, and for each goroutine where it is in `Channel` and the pointer `Conn` returned.
`Lock`, `Connected`, `Broken` (the check), `Dial`, `DialFails` and `Assign` (`c.conn = conn`) are
`connect`; the connection dialled is a local variable until `Assign`, and `BrokenUnlocked` shows
what happens without the mutex in between.  `Read` is the second half of `Conn`,
`OpenChannel`, `ChannelFails`, `NilPanic`, `Forget` the rest of `Channel`; `Lose` is the
network.

**ConsumerPipeline.**  Broker: `ready`, `active`, `unacked`, `settled`, `up` (open channels),
`consuming` (the queues a pod has a consumer on).  Pod: `buffer` (deliveries a forwarder has not
passed on), `merged`, `loop` (where the consumer loop is), `errors`, `logger`, `process`. `Dial`
opens the channel and `Consume` adds one queue after the other, as `initRabbitmqQueue` does:
deliveries come in while the later queues are still missing. `ConsumeFails` closes the channel
and gives up what the forwarders of this dial hold (in the code they may block for ever on a
`merged` nobody reads).  `Forward` is the goroutine of each queue,
`Route`/`RouteFails`/`Ack`/`Nack`/`Report` are `OnDelivery`, `SessionEnds`/`LoopStops` the loop
around it, `Log`/`LoggerStops` are `hanleError`, `Signal`/`Exit`/`Timeout` are `main`; `Kill`
and `Restart` are the orchestrator. In the code every dial has a `merged` of its own and a
delivery settles on the channel it came from.  One `merged` per pod stands for those of all its
sessions: the loop dials again only when `merged` is closed and drained (`SessionEnds`), so no
two of them hold deliveries that may still be read.

**Mirrors.**  `account`, `mirrors` are tables, `waiting` and `view` the Redis keys.
Statements and commands between which something can change are steps of their own.
`ViewMirror` (find, HSET, EXPIRE), `ReadView` (HGET, EXPIRE) and `RemoveMirror` (find, DELETE) do
several calls in one step: a key may expire at any time in the model, or never, and the
properties are checked with one worker per user.  An `info` press carries any id: the code
takes the one of the callback data as it comes and compares no owner, neither when it
is noted nor when the noted mirror is deleted.  The list of mirrors only reads and has
no action.
`Waiting`, `ClearWait`, `FindOwner`, `CountMirrors`, `InsertMirror`, `Announce` are
`runMirrorToken` and `createMirrorFromToken` in their order.

**ChatArchive.**  `link` is the hash in the user's row (0 for the empty one), `messages` the
rows with the connection they came over, the flag `is_deleted`, and whether they were saved late
(after the messages of that connection were moved), `current`, `had` and `inbox` Telegram's side
(the connection a user has, those he has had, the updates on their way), `moved` the connections
whose messages were moved on, `known` the interlocutors who are users themselves, `page` the
export menu in the chat (one message that is edited; it stays while the world changes), `bill`
what the last press brought; counts are sets of ids of messages.  `Save` is the service that
saves messages, under any connection the user has had, `Flag` a message that its sender deletes.
`Rekey` then `StoreLink` are the branch for an enabled connection, `HandleDisconnect` the other.
`ListChats` is `runShowContacts`; `CountPreview` and `ShowPreview` are `runViewChat` with
`buildMessage`, `CountChat` and `Invoice` `runRestoreChat`, both with the permission check
(`Related`); `DeleteData` is `runDeleteConfirm` and `Return` a later `/start`.

**Settings.**  `row` is UserSettings, `shown` the keyboards a user saw last, of the settings
page and of the choice of a bonus.  `ReadToggle`, `SaveToggle`, `SendKeyboard` are `runToggle`,
`ReadPage` with `SendKeyboard` or `SendChoice` `runShowSettings` and `runBonusSelect`,
`ReadBonus`, `SaveBonus`, `SendChoice` `makeBonusTypeHandler`.

**DeleteData.**  `account` is `telegramusers`, `rows` all other tables (a row is its id, its table
and the accounts it is about), `warnings` the warnings with their two buttons.  `Begin` starts the
transaction, `Delete` is the next of its statements in the order of the code (a row that
another open deletion has taken is waited for), `Commit` the last statement and COMMIT,
`Tell` and `CloseWarning` the two emissions after it.  `DeleteFails` aborts the transaction, as
PostgreSQL does, and is not noticed.  Beside it run `StartNew`/`StartCommit` (signups, with a
code) and `FindOther`/`Insert`: whatever looks an account up and then inserts a mirror, a
payment or a level about it.

The abstract `Erasure` has the accounts, the data about them, and for each handler the
account it erases and what there was about it when it began.  `Erase` takes the account and
at least all of that in one step, and nothing of anybody else; `GiveUp` changes nothing.
The mapping takes `seen`, a history variable of the handler, for the last.

## 3. Runs and bounds

| run | instance | states | what it shows |
|---|---|---|---|
| `solo` | 1 worker, inviter and two guests, 8 updates, 1 fault, 2 referrals per level, levels run out | 2.0 M | `NothingOfTheDeleted`, `ToldOnConnect`, `UncountedOnDisconnect` |
| `duo` | 2 workers, any update on either, 5 updates, 1 fault, 1 referral per level | 298 k | `OneReferralPerInvited`, `InvitedIsMember`, `ImplementsLifecycle`, `NoDeadlock`, `HandlersFinish` |
| `told` | 1 worker, three guests, no fault | until found | violated: see section 4 |
| `amqp` | 3 goroutines, 3 connections, 3 faults | 47 k | `LeaksAreFaults`, `NoWorkingReplaced`, `CallsReturn` |
| `amqp_nil` | the same | until found | violated |
| `pipeline` | 2 pods, 2 queues, 2 updates in one of them, 3 faults | 195 k | `FirstHandledInOrder`, `EverySettled`, `ExitsOnSignal` |
| `pipeline_order` | 2 pods, 2 queues, 3 updates, 1 fault | until found | violated |
| `mirrors` | 2 users, 9 updates, 1 fault | 2.2 M | `FreeLimitKept`, `OneMirrorPerRequest`, `OwnerIsMember` |
| `archive` | 2 users, 1 interlocutor, 3 connections, 1 message, 2 updates waiting, 1 fault | 3.7 M | `FoundAgain`, `StatusIsTrue`, `CountsOwnMessages`, `PreviewIsHonoured` |
| `settings` | one user on 2 workers, one on 1; 6 updates, 1 fault | 1.4 M | `BonusIsChosen`, `PressTurnsOne`, `ShownIsStored` |
| `erasure` | 2 users, 2 workers, any update on either, 5 updates, 1 fault | 193 k | `MemberHasSettings`, `ImplementsErasure`, `HandlersFinish` |
| `erasure_told` | the same, 3 updates | until found | violated |

The passing runs check the type invariant of their module as well (`ReferralProgram`'s in
`solo`); `TypeOK` of `AmqpClient` also says that the mutex is held exactly while a goroutine
looks at the connection, that of `ConsumerPipeline` that no session survives its loop or a
dial that failed, that of `DeleteData` that no other deletion takes a row under a lock.

Why the bounds are enough:

- *Updates and faults* are counted because each history has an end in practice too; the
  numbers are the smallest that let the interesting case happen with one spare step:
  eight updates are two signups, two connects, two disconnects, a deletion and a return;
  five are enough for two workers to overlap every pair of handlers on one inviter
  after the signups that make them possible; nine let a user create, pay for, view
  and delete two mirrors, delete his data and come back; six let a user sign up,
  press twice, delete, sign up and press again while another press is still open; five
  let a deletion be asked for, confirmed twice and meet a signup or an insert on the
  other worker.
- *Threshold* (the code has a constant of the shared library) is 2 referrals per level in
  `solo`, so that a level is earned by two guests and lost by one; it is 1 in `duo`, so that a
  disconnect, which then has a level to delete, meets deletions within five updates.
- *Capacities.*  `merged` and `errors` hold one element instead of 1000, `Prefetch` is 2
  instead of 50: a full channel, which the code reaches after thousands of updates, is
  an everyday state of the model.
- *The second queue of `pipeline` is empty*: it is there for the dial, which may fail, or be
  killed, between the two consumers while the first already delivers.  The queues meet
  in `merged` only; with an update in the second one the invariants hold too, but
  TLC's liveness check takes too long.
- *Three connections, two users* let one user reconnect while the other has messages of his
  own; only one of them opens the export menu.  One message is enough, as each property
  speaks of one message at a time; two messages and two connections were checked once
  (2.7 M states).
- *Three goroutines, three connections* are what two failing goroutines and a third that
  has just dialled need; the proofs of section 6 remove the bound.

`CHECK_DEADLOCK FALSE` is set where the system really may stop: the updates of a model are
bounded, an idle service waits, and a panic (`amqp`) ends the process.  Symmetry sets
are not used.

Properties, by module; each is stated in words above its definition.

- `OneReferralPerInvited` no account is invited twice, whatever codes it starts the bot with
  and on whatever worker; `InvitedIsMember` a referral never outlives the person invited;
  `NothingOfTheDeleted` nothing refers to a deleted account; `ToldOnConnect` the level in the
  message is the level in the database; `UncountedOnDisconnect` after a disconnect no level
  counts the guest, neither an old row nor one the recount of the same transaction makes;
  `ImplementsLifecycle` the refinement; `NoDeadlock` handlers that wait for rows, for the
  settings or for an open signup never wait for each other in a circle, while each of them
  may hold rows; `HandlersFinish` every handler ends.
- `NoWorkingReplaced` what the check before a dial has seen still holds at the assignment:
  nobody replaces a working connection; `LeaksAreFaults` connections that are dropped without
  being closed are no more than the faults; `CallsReturn`.
- `FirstHandledInOrder` no update is handled for the first time before an earlier one of its
  queue was; `EverySettled`; `ExitsOnSignal`.
- `FreeLimitKept`, `OneMirrorPerRequest`, `OwnerIsMember` as their names say.
- `FoundAgain` an export counts every message of the chat that is not flagged as deleted and
  was saved before the messages of its connection were moved (one that is saved later
  stays under the old hash and is never counted); `StatusIsTrue` what `/check` says is
  what Telegram knows.  Both are about users of whom no update failed half way
  (the code repairs nothing then), who have not deleted their data in between (their
  messages stay, but under a hash nobody has any more), and of whom nothing is waiting.
  `PreviewIsHonoured` whoever presses "restore" is billed for each message his page counts,
  however old it is, but those flagged since; `CountsOwnMessages` nobody, without
  exception, is ever shown or sold messages of another user.
- `MemberHasSettings` signup and deletion, in any interleaving, leave no member without the
  settings row his pages need; `ImplementsErasure` nothing about an account goes without
  the account, and all that was there at the beginning goes with it; `HandlersFinish`
  deletions that wait for each other's rows do not wait for ever (all clean the
  tables in one order).
- `BonusIsChosen` the preference of a row changes only to what its user chose for that very
  row, though switches are turned in copies of it and accounts are deleted and made
  anew in between; `PressTurnsOne` and
  `ShownIsStored` for users whose updates are handled in order: what either page shows is
  what is stored when it is sent.

## 4. Where code and text disagree

Four runs end in a violation, each of one property that quotes the repository:

1. `told` / `ToldOnDisconnect`: when a disconnect removes a level and the recount adds one
   from other referrals, the inviter is told `Level + levelsAdded`
   (`businessConnection/referral.go:155-156`); he has one less.  The other branch (line 150)
   does subtract.
2. `amqp_nil` / `ChannelHasConnection`: "Channel opens a new channel on the current connection"
   (`client.go:56`); between the two critical sections of `Conn` another goroutine may set
   `c.conn = nil`, and `conn.Channel()` is called on a nil connection.
3. `pipeline_order` / `HandledInOrder`: single active consumers are there for "keeping
   per-queue ordering" (`required_models.go:60-61`); deliveries that were in `merged` when a
   channel was lost are handled, and handled again by the next consumer, behind their
   successors.  The weaker `FirstHandledInOrder` does hold.
4. `erasure_told` / `ToldIsErased`: the errors of the DELETE statements are dropped
   (`deleteData.go:159-185`).  After one that fails, PostgreSQL rolls back at COMMIT without an
   error, and the user is told "Данные удалены успешно!" (line 192) with all his rows in place.

What the models show besides, without a run of its own:

- With two workers, an inviter may delete his data between the lookup of his code and the
  commit of the signup; the referral is then inserted with an inviter who is gone, since
  the schema has no foreign keys.  `NothingOfTheDeleted` is therefore checked with one
  worker; `InvitedIsMember`, its other half, holds with two and is proved for any number.
  Between the DELETE of referrals and the COMMIT of the deletion the inviter is still there for
  everybody else, so a connect of the guest may even fix a reward for him.
- With two workers, two transactions that recount for one inviter may both read the same
  untracked referrals (`businessConnection/referral.go:136`, `175`) and link one referral to two
  levels.  Nothing in the repository keeps them apart.
- With two workers, two guests of one level may disconnect at the same time.  The second
  has looked the UserLevels row up before the first deleted it (`referral.go:109`); its own
  DELETE then finds nothing, while its referral is linked in the level that the recount
  of the first has made.  `UncountedOnDisconnect` is therefore checked with one worker.
- `handleLevels` "adds or removes levels based on connected status" (line 98), but is called only
  while the inviter's preference is levels (lines 275-285): a level earned before he
  chose money stays after its guest has left.
- The deletion says it covers messages and their versions (`deleteData.go:104-106`); these two
  statements are commented out (134-156), which `ChatArchive` and `DeleteData` follow.
- A press of the kind of bonus that is stored already is only acknowledged
  (`referral.go:397-400`): if the answer to the press that stored it was lost, the page keeps
  the old tick until it is opened again.

## 5. Fairness

- *ReferralProgram*: weak fairness of each worker's step.  A routing goroutine that can run
  is scheduled; a row lock or an open signup is given up when its holder commits, which
  is again such a step.  No fairness on arrivals, faults or expiry.
- *AmqpClient*: weak fairness per goroutine, and strong fairness of the steps that take the
  mutex: `sync.Mutex` hands itself over to a waiter that has waited for a millisecond.
  None on losing connections.  Calls are not forced to happen.
- *ConsumerPipeline*: the broker activates and delivers, forwarders, loop, logger and `main` are
  scheduled, the 30-second timer fires, the orchestrator restarts a pod that ended.
  Faults are bounded but never forced; a signal is a fault.
- *DeleteData*: weak fairness of each worker's step, as in `ReferralProgram`; a row is given up at
  the COMMIT or rollback of the deletion that holds it.  No statement is forced to fail.
- *Mirrors*, *ChatArchive*, *Settings* state safety only and have no fairness.

## 6. Proofs

Eight modules hold theorems; all proofs go down to leaves that SMT, Zenon or the
temporal prover check.  They hold for any value of the constants that the named
assumptions of the modules allow: any number of users, workers, goroutines, pods, queues
or messages, any routing of users to workers, any bounds, and any behaviour of the
external recount.  Most invariants and action properties that a passing run checks are
theorems, and so are both refinements; where a theorem has a hypothesis of its own it is
the one under which the run checks the property:

- `AccountIds = Nat \ {0}` (the refinements): ids are any positive numbers; in a run they
  are the interval that the bound can reach.
- `OneWorker` (`OnePerRequest`, `LimitKept`, `NoOrphans`): each user's updates reach one worker.

**`ReferralProgramProofs`**

- `TypeCorrect`: `Spec => []TypeOK`.  Inductive is `TInv`, which adds that a busy
  worker works for a user.
- `OneReferral`: `Spec => []OneReferralPerInvited`.  The check in `createReferralModels` and its
  insert are two statements, and nothing but the wait of `GetOrCreate` and the sequence of ids
  keeps a second referral from slipping in between.  The inductive invariant `IInv` says why
  it cannot: `TInv` (all ids in rows and jobs were drawn from the sequence), `UniqueAccounts` (no
  two users share a row id), `OpenSignups` (the account of an open signup belongs to nobody yet,
  to no other open signup, no referral is about it, and nobody knows the id of its
  referral), `UniqueIds` (the primary key), `ReferralRows` (both ends are real and different
  ids), `OrderlyJobs` (an open transaction deletes only what it is about, and a deletion that
  has come to the referrals has its own invitation among its rows), `InvitedIsMember` and
  `OneReferralPerInvited` themselves.
- `InvitedSurvives`: `Spec => []InvitedIsMember`, from the same `IInv`.  `OrderlyJobs` is what it
  rests on: the referral about an account cannot come while the account is being
  deleted, because it is committed with the account itself.
- `Refinement`: `Spec => ImplementsLifecycle`.  `ReadOff` turns the CHOOSE of the mapping into "the
  sponsor of an account is the inviter of its only referral"; then one lemma per kind of
  commit (signup, withdrawal, reward, deletion) gives the abstract step, and all the
  statements in between are stutters.  Referrals committed since the DELETE of a deletion
  began are the ones its abstract `Leave` lets stay.

**`LockOrderProofs`**: `DeadlockFree`, `Spec => []NoDeadlock`.  The inductive `Ordered` says
that ids of levels are never those of referrals, that nobody holds a row while he wants a level
of a smaller id, and that whoever is at the referrals holds levels and smaller referrals only.
In a circle, consider the handler that waits for the greatest referral anybody in it waits for:
whoever holds that one waits for a greater referral.  So nobody in the circle waits at the
referrals, hence nobody for the settings or to save a reward, and the same argument about levels
ends it.  The greatest element comes from the well-foundedness of the natural numbers.

**`DeleteDataProofs`**: the inductive `IInv` is `TypeOK`, `Counted` (each warning has cost an
update), `Signups` (the account of an open signup is nobody's), `Deletions` (deletions in
progress have taken different rows, and one that has not failed has taken what it has seen, or
has the statement for it ahead) and `MemberHasSettings`.  From it `TypeCorrect`, `SettingsStay`
and `Refinement`: `Spec => ImplementsErasure`, where the commit is the abstract `Erase` and
everything else a stutter, a signup, an insert or a `GiveUp`.  This proof found a mistake of the
model: without ids a row that was deleted and inserted again alike, by a writer who had looked
the account up before, counted as seen by the first deletion and left over by it.  The rows have
ids now.

**`MirrorsProofs`**: `TypeCorrect` for any routing, and under `OneWorker`: `OnePerRequest` by
counting (`Credits`: mirrors made, plus waits and tokens that may still make one, are no more
than the requests), `LimitKept` and `NoOrphans` from `UniqueMirrors`, `Accounts` (an id is one
user's), `Found` (the account a creation has looked up is still its user's) and `Room` (a free
mirror about to be inserted still fits).

**`ConsumerPipelineProofs`**: `TypeCorrect` and `InOrderAtFirst` (`FirstHandledInOrder`).  The
inductive `PInv` has `Turns` (what is unsettled of a queue is with its active consumer and older
than what is ready), `Known` (what a pod with an open channel holds is unsettled on it),
`Ordered` (`loop`, `merged` and `buffer`, one after the other, are in the order of each queue),
`Kept` (no message is lost, and only handled ones are settled) and `NoGap` (a pod that holds a
message holds all earlier ones of its queue that were not handled).  The last is what keeps the
first handling in order although a lost channel leaves any prefix of the buffers behind.

**`ChatArchiveProofs`**: the inductive `CInv` has the types, `Separate` (connections of two
users, in rows, at Telegram, in the inbox or in a handler, have nothing in common) and
`Followers`, about users of whom no update has failed: `Followed` (the newest update waiting
says what Telegram knows), `Carried` (their connections that were not moved, and with them all
messages saved in time, are the stored connection or one still waiting) and `Shown` (what a page
or a count shows is still under the user's connection, flagged or not).  `Later`, a fact about
every step, says that a flag is never taken back.  From it `TypeCorrect`, `OnlyOwn`
(`CountsOwnMessages`), `AllFound` (`FoundAgain`), `StatusKnown` (`StatusIsTrue`) and `Honoured`
(`PreviewIsHonoured`).

**`AmqpClientProofs`**: `TypeCorrect` is inductive as it stands, because it says who holds the
mutex.  `WorkingConnectionStays` is `Spec => NoWorkingReplaced`: check, dial and assignment are
three steps, in which others lose connections, open channels and wait to forget.  The
inductive `DialInv` adds `Known` (every connection anybody holds was dialled) and `Dialling` (while
somebody dials, the stored connection stays broken, and what he has dialled is known to
nobody else).  `LeaksBounded` is `Spec => []LeaksAreFaults`.  Forgetting an open connection leaves
one more behind, so `LeakInv` adds that while a goroutine is about to do so (`Doomed`) its
fault is already counted.

**`SettingsProofs`**: the inductive invariant is `TypeOK`, `Business` (what a busy worker is
about: an update routed to it) and `Fresh` (if no other worker has updates of the user,
the copy a handler holds is the row, up to the switch it has turned or the kind it was
asked for).  `TypeCorrect`, `ChosenBonus`,
`OneTurned` and `TrueKeyboard` follow.

Only model-checked: `NothingOfTheDeleted`, `ToldOnConnect` and `UncountedOnDisconnect`, which do
not hold with two workers (section 4), liveness (`HandlersFinish` of both modules,
`CallsReturn`, `EverySettled`, `ExitsOnSignal`), as ENABLED and fairness are beyond the prover,
and the four properties that are violated.  No module declares a RECURSIVE operator.

## 7. Assumptions and abstractions

Common to all modules:

- Codes, tokens, hashes and encrypted names are the identity of their owner or a number:
  the shared library decodes them without losing information.
- Database steps are at the level of statements, READ COMMITTED.  A transaction is one step
  where nothing in it can be told apart from outside; where something can (signup,
  recount) the statements are steps of their own.
- `Fail` ends a handler between any two steps: a failing statement, commit, emission or
  Redis command, or a killed pod.  The delivery was acknowledged before, so there is no retry.
- Texts, keyboards and logging are left out, except the level that is told
  (`ReferralProgram`), the positions of the switches and the ticked
  bonus (`Settings`), the counts on a preview and on an invoice (`ChatArchive`), the
  warnings and the message of success (`DeleteData`).
- `Routes` says which worker may get whose updates.  The shard key is made by another
  service, so the modules are parametric: `ReferralProgram` is checked and proved for
  any routing, `Mirrors` is checked with one worker per user (`FreeLimitKept` and `OwnerIsMember`
  need it: the count, the owner's id and the insert are separate statements),
  `Settings` with both kinds of users.

The shared library (`github.com/ChatDetectiveORG/shared`) is not in the repository.  Where its
behaviour is not determined by how the code uses it, a constant leaves it open:

- `AnySubset`: `GetUntrackedRelations` may leave relations out (those too old, say).
- `NilIsPointer`: `referralMain` compares an `*ErrorInfo` with nil (`referral.go:309`); whether
  `e.Nil()` is such a nil pointer decides whether `updateReferral` runs after a disconnect.
  The proofs hold for both values; the passing runs take the value in which more steps
  happen, the violating one the value in which fewer do.
- `GetOrCreate` is assumed to wait for an open signup of the same user, as a unique
  `telegram_id_hash` makes it do, and to insert the settings row in the same transaction as
  the user (`MemberHasSettings` of `DeleteData` rests on that).
- A UserLevels row counts one level, with the referrals it was given for in
  `linked_referral_ids`.

Per module:

- `ReferralProgram`: `makeBonusTypeHandler` is one step; `Settings` has its steps.  A DELETE is
  assumed to take its rows in the order of the table, the same for all transactions (of
  two plans with different orders PostgreSQL would have to cancel one; its deadlock
  detector, which ends a handler as `Fail` does, is not modelled), and `NoDeadlock` is
  about the order of the statements.  Ids of users, referrals and levels come from one
  sequence; only their being different matters.
- `Mirrors`, `ChatArchive` and `Settings` see the deletion of an account as one step.
- `ConsumerPipeline`: `merged` is closed when the forwarders are done, so the loop drains it
  before it dials again; the library may still hand over a prefix of the buffered deliveries
  after the channel is gone (from none up to `Prefetch` deliveries of each queue).  Broker and
  `RunConsumerLoop` are modelled from their use.
- `Mirrors`: the payment service turns a pending mirror that has an invoice into a paid
  one; Redis keys may run out at any time, or never.
- `ChatArchive`: another service saves messages, at any time and under any connection the user
  has had, and sets `is_deleted`; a disconnect keeps the hash in the row.  A row of
  user_relations is there from the first message on and is never deleted (`deleteData.go:108`).
  Whether an old button still finds an interlocutor who left and came back depends on how codes
  are made; in the model it does.  An export may start at any time between two connection
  updates of the user.
- `DeleteData`: ids of accounts and of rows come from one sequence (in the database from one per
  table; only their being different matters).  A DELETE sees the rows that are committed when it
  runs and waits for those another open deletion has taken.  The message of success and the
  removal of the warning are two emissions, either of which may be lost.

## 8. Not modelled

- Help, installation and encryption pages, the pages about levels and the contacts page of
  `/start`: they read and show, or show constants.
- Consent: its gate is commented out; what is left is one insert.
- Buying a level: one invoice, from a number that was parsed; the payment service does
  the rest.
- Start-up of PostgreSQL, Redis, configuration and topology: once, before anything else.
- Metrics: gauges.  The collector takes part only as a goroutine of `AmqpClient`; that it never
  opens its channel again after the broker has closed it is listed as a hazard.
- The emissions of `/start`: the inviter is told of an invitation before the signup commits
  (`start/messages.go:311`), so he may hear of one that is rolled back.
- The outgoing session that `OnConnect` makes: a call of the shared library.
- Forwarders that block for ever after a dial that failed: `ConsumeFails` forgets them, as nothing
  they hold can be settled any more; the goroutines that leak are not counted.

## 9. Plan

Done, in this order: the referral programme (the code with the most transactions and the
most to get wrong), the connection holder, the pipeline, mirrors, archive, settings;
proofs of the first, the second and the last; then the deletion statement by statement with
its abstract promise, the dial of the pipeline, the export menu, the page of bonuses;
then the proofs of the invariants, action properties and refinements that were only
checked before; then the statements and row locks of `ReferralProgram`, with the absence
of circles of waiting handlers.

Next:

1. `ReferralProgram` with the hypotheses on its workers weakened: `NothingOfTheDeleted` for inviters
   whose updates, and those of their guests, reach one worker, whatever the others do.
2. `AmqpClient` and `ConsumerPipeline` composed: the channel that the loop dials is one of the
   holder's.
