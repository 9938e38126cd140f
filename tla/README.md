# A TLA+ specification of yara

yara is a password manager: a desktop application with an encrypted vault, a
broker that lets AI agents use credentials with the user's consent, and an
optional sync service. This directory specifies the parts of it where the
difficulty is in the order of things - prompts, locks, timeouts, crashes,
concurrent saves, concurrent machines - and checks them with TLC and TLAPS.

## The system

| component | state | operations | who it meets |
| --- | --- | --- | --- |
| grant store (`yara-broker/src/grant.rs`) | a list of grants: item, field, scope, program, deadline, uses | issue, redeem, prune, revoke, clear | the broker, under one mutex |
| agent broker (`transport.rs`, `audit.rs`, desktop `broker.rs`) | the grant store, the audit log in memory, the prompts waiting for an answer | a pipe connection per agent: status, list, access; lock hook, revoke, restore | the vault (through `AppState`), the user (approval dialogs) |
| approval dialogs (`Vault.tsx`, `ApprovalDialog.tsx`) | a queue of prompts | show the first, answer it | the broker |
| application state (`state.rs`, `remembered.rs`) | the unlocked vault, the profile registry, files and backups | create, unlock, lock, save, recover, select, remove, remember | every command; the broker; sync |
| clipboard (`clipboard.rs`) | what was copied, and the count of copies | copy, clear, lock | a timer thread per copy, the lock, other programs |
| vault data (`yara-core/src/vault.rs`) | items, folders, tombstones, audit records, wrapped key, sync state | add, update, remove, file, reorder, import, adopt a key, seal, open | sync; enrolment; the broker's audit |
| sync client (`sync.rs`, `yara-sync-client`) | last revision, last sync time, device key | enrol, join, sync (pull, reconcile, push), forget | the server; the vault, shared with the user's edits |
| sync server (`yara-sync`) | accounts, devices, invitations, records, revision, nonces, rate limits | enrol, invite, register, push, pull, purge, revoke | clients, several at a time |
| icon proxy (`yara-sync/src/icons.rs`) | a directory of icons, and of domains without one | look up, fetch, store, sweep | callers, several at a time; the limiter |
| import (`import.rs`) and generator (`generate.rs`) | none | read an export row by row; draw a password | the commands that preview, import and generate |
| health, HMAC of TOTP, QR, search, CLI, MCP server, deployment | none that matters here | pure functions and adapters | - |

What is hard in it: an access request crosses four mutexes and a prompt that
may stay up for two minutes, against a user who locks, unlocks, revokes and
edits meanwhile; a save is four file operations any of which may be the last;
a sync, and enrolling for one, holds no lock while it waits for the network; two
machines write the same records; requests to the server are late, repeated and
served while the operator deletes what they are about; timers outlive what they
were started for.

## Modules

| module | models | proofs |
| --- | --- | --- |
| `GrantStore` | the grant store, as operators on a set of grants | used by `BrokerProofs` |
| `Broker` | requests, prompts, lock and unlock, audit records | `BrokerProofs` |
| `Consent` | what the broker promises: uses never exceed the answers | used by `BrokerProofs` |
| `BrokerConsent` | the refinement mapping from `Broker` to `Consent` | `BrokerProofs` |
| `MCBroker` | instances of the four above for TLC, about one command | - |
| `MCAgents` | two instances of `Broker`: grants, and records | - |
| `PipeServer` | the loop that keeps the agents' named pipe open, its connections | `DesktopProofs` |
| `MCLive` | the liveness of `Broker` and of `PipeServer` | - |
| `VaultFiles` | a vault's three files, the registry, tombstones, crashes | `VaultFilesProofs` |
| `MCVaultFiles` | instances of `VaultFiles` for TLC | - |
| `Session` | remembered passwords: what opens by itself, after which failures | `SessionProofs` |
| `MCSession` | instances of `Session` for TLC | - |
| `Sync` | machines, a server, edits, deletions and conflict copies | `SyncProofs` |
| `MCSync` | instances of `Sync` for TLC | - |
| `Accounts` | the server's accounts, devices, invitations, signatures and nonces; restarts | `ServerProofs` |
| `Icons` | the icon proxy's cache, its sweeps, the limiter in front of it | `ServerProofs` |
| `MCServer` | instances of the two above for TLC | - |
| `Clipboard` | the clipboard, the timers of copies, other programs | `DesktopProofs` |
| `Enrolment` | enrolling a vault for sync and joining with a recovery kit | `DesktopProofs` |
| `VaultItems` | items, folders, deletions and imports of an open vault | `VaultItemsProofs` |
| `Importer` | what becomes of a row of an export | `DesktopProofs` |
| `Generator` | passwords out of bytes | `DesktopProofs` |
| `MCDesktop` | instances of the five above for TLC | - |
| `Lists` | what `retain` and `filter` do, for the two modules that use it | `ListsProofs` |

### GrantStore and Broker

A grant's `id` is its issue number. The code uses random ids and a `Vec`; the
order of the `Vec` is the order of issue because grants are only pushed at the
end, so "the first that authorises" (`redeem`) is the one with the least id. A
path is a member of `Program`, an item and a field together a `Target`, a
command line or the reveal a `Scope`; which scopes disclose
(`exposure.rs`) is the constant `Disclosing`.

Each pipe connection is served by a task, and the broker keeps nothing per
connection, so a connection that sends several requests behaves like several
connections: a `Request` is one request with a task of its own. `pc` is the
critical section it enters next. `want`, what the agent is going to ask, is
chosen in `Init`. An action is one critical section: what the code does under one
mutex, or between two awaits when it takes none.

| action | code |
| --- | --- |
| `List`, `Receive`, `Resolve`, `Redeem` | `handle` and `handle_access` up to the prompt |
| `Ask`, `Timeout`, `Denied`, `Mint` | `seek_approval` and `UiApprover::ask` |
| `CheckUnlocked`, `Fetch`, `CommandEnds` | `dispatch` and `run_command` |
| `RevokeOwn` | the revoke after `dispatch` |
| `PushAudit`, `SaveAudit`, `LogAudit` | `record`: the vault in memory, its file, the log in memory |
| `Unlock`, `RestoreAudit` | `unlock_vault` |
| `Lock`, `AbandonAll`, `ForgetGrants`, `ForgetLog` | `lock_everything` and `on_lock` |
| `Answer`, `AnswerTooLate` | `resolve_approval` and the queue of dialogs |
| `RevokeGrant`, `Edit` | the permissions screen, and any command that changes an item and saves |

Commands that are not `async` run one at a time on the main thread (`ui` says
where a command is that takes several mutexes), so no command starts within
another; every task may move in between. `interrupted` is a history variable:
the requests a lock caught between their action and their record.

`AuditCapacity` is the 500 records that either log keeps (`vault.rs:781`,
`audit.rs:186`): what is recorded beyond it pushes the oldest out. `newer` is
history: whose records were pushed after a request's.

Left out: `create_vault` (an unlock of an empty vault that skips `restore_audit`),
the read and the refill in `restore_audit` as two steps, the page-reload lock
(the same steps as a lock).

The properties:

* `LockedGrantsAreInFlight` - with the vault locked and the lock finished, a
  grant in the store belongs to a task that has not looked at the vault since:
  it will find it locked and revoke. This is what the comment at
  `transport.rs:272` is about; the stronger reading of it is refuted below.
* `DisclosuresNeverStand`, `DisclosureWasAsked` - a request that hands the
  value over has its own answer, whatever grants other answers left.
* `ReuseWasConsented` - whoever is let through is covered by an answer given
  for the same target, scope and identified program.
* `ImplementsConsent` - and no more often than the answers bought. `Consent`
  knows only numbers: `granted[k]`, `used[k]`. The mapping counts them from what
  each request has been answered and let through, so it does not mention the
  grant store at all: that uses are charged to the wrong grant (below) does not
  break it, that one use is charged to none would.
* `SavedEntriesStay`, `AuditedUnlessInterrupted` - tasks and commands push
  records and save the whole vault on top of each other. A save leaves the
  records of a file in their order and takes only the oldest of a log that the
  newer ones fill; and an answered access is in a file, unless a lock interrupted
  it or the log is full of records that all came after it. So the capacity is the
  one thing that removes a record; that listings, which need no approval, count
  towards it is what `docs/agent-access.md` accepts.
* `RequestsEnd` - every request is answered, or is a running process.

Refuted: `OneShotIsSpent` (run `oneshot`). An approval for one use is "not
immediately spendable a second time" (`transport.rs:395`), but when two prompts
for one command are answered, first with a window, then with "once", the second
charge goes to the window's grant and the one-shot grant serves a third request.
The total of uses is right (`ImplementsConsent`); the one-shot outlives its
request.

Also refuted on the way, with the model as it is, and no run kept for each: not
every access is written to the audit log (`docs/agent-access.md:139`), because
the record of a command the vault locked under is dropped - deliberately, see
`broker.rs:134`, and `AuditedUnlessInterrupted` is what is left; a
grant minted while locking outlives the key if the vault is unlocked again
before `dispatch` looks (`transport.rs:272`); a reuse can name a grant that no
other record names, because the command that earned it failed to start
(`transport.rs:407`); a task that records after `forget_grants` leaves a
readable log in a locked app (`transport.rs:151`); a dialog whose request timed
out cannot be answered, stays, and hides the queue behind it until the vault
locks (`transport.rs:23`, `ApprovalDialog.tsx:75`); a request that finds the
vault locked is refused, where `docs/agent-access.md:117` says the user is
prompted to unlock.

### VaultFiles

`file` says what is at each of the three paths of each profile: nothing, a
sealed vault (whose, and how many changes it has seen), or bytes that do not
parse. `job` is the file work the process is in the middle of and its next file
operation; each operation is an action that may fail, with `Crash` between any
two. Only what was written and not synced is torn by a crash; renames and
removals are taken to be atomic and to reach the disk in order, which is what
the code relies on too (it never syncs a directory).

Jobs never overlap: `persist` runs with the vault's mutex held, for commands and
tasks alike, and the other jobs are commands of the main thread that run with
nothing unlocked.

| action | code |
| --- | --- |
| `Launch`, `Reconcile`, `Reconciled` | `AppState::new`: the registry, a vault older than the registry, the tombstones of an interrupted removal |
| `WriteTmp`, `SyncTmp`, `CopyBackup`, `SyncBackup`, `Rename` | `persist_at` |
| `BeginAdd`, `CommitAdd`, `UndoAdd`, `FinishAdd` | `create_vault` and `add_profile` |
| `Open`, `Lock`, `Edit`, `Select`, `Deselect` | `unlock_vault`, `clear`, any change with its save, `select_profile`, `deselect_profile` |
| `Recover`, `SyncRecovered` | `recover` |
| `BeginRemove`, `Stage`, `Undo`, `CommitRemove`, `Clean` | `remove_profile` |

A removal starts with a registry on disk (`durable # {}` in `BeginRemove`): the
picker that offers it is reached through `deselect_profile` or after an unlock,
and both write it.

The properties:

* `NothingSavedIsLost` - whatever was reported as saved is at the live path, or
  in a tombstone of it, at that version or later, unless it was removed. It
  holds as long as the cleaning-up whose errors nothing acts on does not fail
  (`CleanupFails = FALSE`): see below.
* `LiveOnlyMovesForward` - no step replaces a usable file by another vault's or
  by an older one: not recovery, not a rollback, not the start after a crash.
* `OpenVaultIsSelected` - the path the next save will replace holds the vault
  that is open, no newer than what is in memory.

Also refuted, and no run kept for it: "an interruption during
recovery still leaves something to recover from next time" (`state.rs:589`), but
recovery writes the live file in place; a torn one makes `startup_for` say
Locked, and recovery is not offered again.

Also refuted on the way, and no run kept for each: any temporary file makes the
app offer recovery, the torn one of a first creation too, with nothing to
recover (`Recover.tsx:57`); that same file makes a second attempt to create the
vault fail (`state.rs:425`); a tombstone that could not be deleted is renamed
back at the next start, onto a path of a vault created since (`state.rs:297`);
and with two tombstones of one path, restoring one makes the start delete the
other, which may be the one the registry still owns (`state.rs:107`).

### Session

What opens a vault without its password: a password in the credential store of
the system, an expiry in the registry, and a flag in memory that a lock sets.
Three places, written one after the other by commands that may fail at each
write and die between any two. So a command is a list, `todo`, of the writes it
still has to do, and each kind of write is an action that succeeds or fails the
way the code treats its error: `?` empties the list, `let _ =` goes on.

| action | code |
| --- | --- |
| `Startup` | `vault_startup`, `remembered_password` |
| `Unlock`, `Create` | `unlock_vault`, `create_vault` |
| `ClearExpiry`, `DeleteCredential`, `Forgotten` | `forget_remembered`, and the command that reports it |
| `StoreCredential`, `SetExpiry` | `set_remembered` |
| `Lock`, `Logout`, `ChooseAnother`, `Select`, `Remove`, `Reload` | the commands of those names |
| `ChangePassword`, `Save`, `Refresh` | `change_master_password`, `refresh_remembered` |

`allowed[v]` is history: the time until which the user's answers let `v` open by
itself. A yes sets it when the command starts, a no, a log-out or a removal
clears it when the command has reported success (`Forgotten`).

* `OpensOnlyIfAllowed` - whatever fails, and wherever the app ends, a vault
  opens by itself only before that time. The first profile's id is used again
  after a removal, so a credential the system refused to delete meets a new
  vault: the model has it.

Also refuted, and no run kept for it: `verify_master_password` relies on a change of the password always being written (`lib.rs:762`). When the save
fails, the command reports an error, memory keeps the new password, and the next
save of anything makes it the file's.

Also refuted on the way, and no run kept for each: a change of the password that
was saved is reported as failed when the credential store refuses the new one;
"a manual lock lasts for the rest of this process" (`state.rs:159`) does not
hold through the picker, where selecting the vault that was locked resumes it;
a stop between `StoreCredential` and `SetExpiry` leaves a password in the
credential store that nothing in the app will read, or delete.

### Sync

`vault[m]` and `disk[m]` are a machine's open vault and its file; `server` is
the account's revision and records. A `sync[m]` goes through a request at a
time and a lock at a time: nothing is held between the actions below, so other
machines, the user and a lock of the vault come in between.

| action | code |
| --- | --- |
| `PullItems`, `PullRevision` | the server's `pull_items`, which takes the store's lock twice |
| `Decide`, `Apply` | one record: what is here (`sync.rs:281`), `merge::reconcile`, what is done about it |
| `Collect`, `Push`, `End` | `merge::to_push`, the server's `push_items`, the state that is saved |
| `Lost`, and the second branch of `Push` | a request or a response that does not arrive |
| `Add`, `Edit`, `Delete` | the commands, with their save |
| `Relock`, `Purge` | `clear` or a crash, then an unlock; `yara-sync purge` |

A failed save is the first choice of `disk'` in `End`. A body is a number, a new
one for each write of a user, so "the same content" is decidable; `current` and
`buried` are history: what users wrote and did not replace or delete.

The user changes items and locks the vault at any step of a sync, as nothing in
the code keeps them from it, and two things are lost by it. What is changed
between `Collect` and `End`, or in the second a sync ends, is not later than the
time `End` remembers (`sync.rs:413`): it is never pushed, and the next pull of
the item replaces it without a copy. And a conflict copy is only in memory until
`End` saves it, with times too old to be pushed, while the winner has gone out
(`sync.rs:341`, `402`): a lock, or the app ending, before that loses it, and so
does a save that fails with a lock after it. `risked` is history: the ids of items
that met one of the two, changed by a user while a sync of that machine was
running or in the second it ended (`Quiet`), or dropped by a lock with what had
not been saved (`Relock`). The properties speak of the other items, in the same
runs, and of those at risk where they can:

* `NoEditLost` - what a user wrote is on some machine or the server until a user
  replaces it or deletes its item, through conflicts, retries of pushes whose
  response was lost, clocks that disagree and tombstones forgotten. Items at risk
  excepted.
* `SyncedIsSeen` - a machine never asks from a revision whose records it does not
  have, in memory or in its file. Items at risk included: an edit beside a sync
  may be lost, and hides nothing the server has.
* `SyncedMachinesAgree` - a machine that has synced and has nothing to push has
  what the server has. Items at risk excepted.

`Perils` are two things more that the code allows, under which the properties do
not hold; the run `sync` and the proofs leave them out (`Perils = {}`):

* `"torn"`: a push lands between the two reads of a pull. Refuted by the run
  `sync_torn`: the machine takes over a revision without its records and never
  asks for them again, where `pull` promises "everything above the revision this
  machine last saw" (`client.rs:338`).
* `"outlived"`: a vault is locked and opened again while a sync is on its way,
  loses by it what the sync had brought, and the sync goes on in it, as
  `with_vault_mut` takes whatever vault is open: it writes the new revision into
  an older vault (`sync.rs:410`), and `SyncedIsSeen` fails. No run is kept for it;
  in `MCSync_sync.cfg`, set `Perils = {"outlived"}`. A sync that goes on in a vault
  that lost nothing, or that ends because it finds the vault locked, is in the run.

### PipeServer

The name of the pipe exists as long as one instance of it does, and whoever
creates it first owns it. So between connections there must be no moment without
an instance. `loop` is where `serve` is, the instance that listens (`server`, and
by which client it is taken) and the one just connected; `caller` is each
client's connection.

| action | code |
| --- | --- |
| `OpenPipe` | the first instance, with the name reserved |
| `Accept`, `AcceptFails` | `connect()` in `serve` and the count of its failures |
| `Reopen`, `ReopenFails` | `listen_again` and its retries; then the task of the connection is spawned |
| `Arrive`, `Take`, `HangUp` | clients, who take a free instance, and leave when they like |

* `NameIsOwned` - while `serve` runs, some instance exists: "a gap here is a gap
  anyone can step into" (`transport.rs:682`). `DesktopProofs` proves it. During the
  retries of `listen_again` that instance is the one that failed, or the one just
  connected, which the caller still owns. The comments of the file disagree about
  this: `transport.rs:681` says "the name is never unowned", as the property does,
  but the one at the backoff says that "every wait is a window in which the name
  is unclaimed" (`transport.rs:580`), and a comment of its test says the same
  (`transport.rs:726`). The run `live` goes through those waits, after failures to
  accept and to reopen, and finds no such window: the latter two are wrong of the
  code, or older than it (a finding of that run).
* `ConnectedAreServed` - a client that has connected is served, is cut off by a
  failure, or leaves, however long others sit on their connections.

Also refuted, and no run kept for it: a failure of `listen_again` drops the
client that was just accepted with it, although nothing is wrong with its
connection.

### Accounts

Who may write to the sync server. `key`, `owner`, `expires` and `usedBy` are
columns of its tables; `seen` is the nonce cache. A client's message is in `sent`
for ever, and may be received late, twice, or never. A handler takes the store's
mutex once per action below, so other handlers and the operator, who works on the
database from another process, come in between; `now` in `handler` is when it
read the clock. A client's clock may be up to `Drift` ahead (`Stamps`); one that is
behind is the same as a message that is late.

| action | code |
| --- | --- |
| `SendEnrol`, `SendClaim`, `SendRegister`, `SendRevoke`, `SendPush` | what clients sign and send |
| `Receive`, `FindKey`, `Verify` | the routes, `authenticate`: which key, then the time and the nonce |
| `Enrol`, `Claim`, `Register`, `Revoke`, `Push` | the transactions of `store.rs` |
| `CreateInvite`, `RevokeDevice`, `DeleteAccount` | the operator's commands |
| `Restart`, `Tick` | the process ends, and with it the nonces; a second passes |

* `InvitesBuyOnce` - an invitation pays for one thing, ever, whatever is
  delivered twice and whatever is deleted after.
* `DeletedForGood` - neither an account that was deleted nor a device of it comes
  back by what was authorised before and served after.
* `RemovedStaysOut` - a device that was removed is not attached again by a copy
  of the message that attached it, with three exceptions, which are what the nonces
  do not cover. A restart forgets them, and a copy sent within `CLOCK_SKEW_SECS` of
  it is new again (`stale`). A nonce is forgotten `CLOCK_SKEW_SECS` after its
  message arrived, but a message stamped ahead of the server is accepted until as
  long after its own timestamp; and a handler reads the time before it waits for
  the nonces' lock (`api.rs:423`), so it may look at them with an older time than
  they were pruned for (`loose`, both).
* `PushedOnce` - a push is applied once, restarts notwithstanding.
* `PushesAreMembers` - a push changes an account only if its device belonged to
  the account at some time while it was served. That it may have been removed
  between `Verify` and `Push` is what the code allows.

Refuted: `ForgottenIsRefused` (run `replay`). A nonce that is forgotten "can never
be accepted again on timestamp grounds alone" (`auth.rs:106`), and "past the window
a replay is refused on the timestamp anyway" (the test at `auth.rs:404`), but a
registration stamped one second ahead, within what `verify` accepts, is still near
when its nonce has gone: the device it attached, removed meanwhile, is attached
again by a copy, and the server did not restart.

### Icons

One unit of time is a window of the limiter. `file` says of each path when it was
written and whether it has content; a request (`serving`) is at one of the steps
below. `let`, `late`, `spoiled` and `kept` are history.

| action | code |
| --- | --- |
| `Ask`, `Limit` | a request reads the clock, and then takes the limiter's lock |
| `Look`, `Fetch` | `favicon`: a file fresh enough, or the network |
| `Create`, `Fill` | `std::fs::write`, which empties a file before it fills it |
| `List`, `Sweep` | `evict`: a listing of the directory, then the oldest of it one by one |

* `CacheBounded` - sweeps that overlap, from listings other requests made stale,
  leave no more than the ceilings, beyond what is being written and what the code
  lets stand after a failure: a file that could not be filled, for which nothing is
  swept (`icons.rs:126`), and a sweep that did not happen because the directory
  could not be listed (`icons.rs:177`), each once (`spoiled`); a file whose metadata
  a listing could not read, or that could not be removed (`icons.rs:217`), until it
  is (`kept`). `evict` goes on to the next file after one it cannot remove, so such
  a file costs its own room and no more.
* `BudgetPerWindow` - a window lets an address through as often as its budget
  says; a request that read the clock before a window ended and came to the lock
  after puts the limiter back, and the bound counts those (`late`).

Also refuted, and no run kept for each: "a burst of clients asking about the same
site" is one fetch (`icons.rs:106`) only once the first has ended - two at once
both fetch; a request that looks while another is between `Create` and `Fill`
serves an empty or a torn icon; and a file that could not be filled is served,
empty, until it is `MaxAge` old.

### Clipboard

`board` is what is on the system's clipboard and which copy put it there; `ours`
and `token` are `SecretClipboard`'s two fields, which have a lock each.

| action | code |
| --- | --- |
| `Write`, `Count`, `Record` | `copy`: the clipboard, the token, then what was copied |
| `ClearCopy`, `TimerWipes` | the timer of a copy: is it the newest, then `wipe` |
| `ClearNow` | a lock, an exit, a reload, "clear now" |
| `Others` | another program copies, maybe the same text |

`Wipe` is what a timer and a lock share: it fails, with the clipboard held by
another program, or takes off what is still ours.

* `NeverForgotten` - while a copied secret is on the clipboard, the application
  remembers what to compare with, whichever timers ran, failed or were overtaken.
* `HonestReports` - nothing is reported gone that is there.
* `StillWatched` - a secret on the clipboard has a timer to come, or its timer
  has said that it is still there.

Also refuted, and no run kept for each: a timer that has seen that its copy is
the newest and then waits for the lock takes off a copy made since, before its
time; and a lock drops the report of a wipe that failed, so a secret may be on
the clipboard of a locked app and only a timer that may be long done said so.

### Enrolment

`vaultFile[v]` and `mem` are what a vault says of its own key: the key of its
payload, that key wrapped under a password, and the sync state. `account` and
`device` are the server's rows; `task[t]` is an `enrol` or a `join` and where it
is. Both are asynchronous and take the state's mutex anew for each action below;
between any two the user may lock, open another vault, or start a second one.
Keys and ciphers are perfect.

| action | code |
| --- | --- |
| `OpenVault`, `CloseVault`, `SaveVault`, `Forget` | the commands, and any save |
| `StartEnrol`, `WrapKey`, `CreateAccount`, `SetSync`, `SaveEnrolled` | `sync_enrol`: check, wrap, request, the state, the save |
| `StartJoin`, `RegisterDevice`, `Adopt`, `SaveJoined` | `sync_join`: the kit, the request, `adopt_vault_key`, the save |

* `StillOpens` - every file opens with its vault's password to the key its
  payload is sealed with, whatever was adopted, half adopted, or saved by others:
  what `vault.rs:690` calls "a vault that saves cleanly and never opens again".
* `SignsAsRegistered` - the device a vault signs as is one the server has for
  that account.
* `SyncsUnderItsKey` - a vault that syncs has the key the account's other
  machines read with, except the vaults in `strayed`.

`strayed` is what is refuted here, with no run kept: `SetSync` and `SaveEnrolled`
write into whatever vault is open by then, which may not be the one whose key was
wrapped (`sync.rs:107`). Also: an invitation is spent and no kit shown when the
save fails or the vault was locked meanwhile; the password given to enrol is not
compared with the vault's, so a kit may go with a password the vault does not
have; and the view's "busy" is a state of one component, so two of these can run
at once.

### VaultItems

What an open vault holds: `items` in the user's order, `folders`, `tombstones`
with their age. `fresh` says that `updated_at` is the current second.

| action | code |
| --- | --- |
| `Add`, `Update`, `RemoveItem`, `ReorderItems` | the commands on items |
| `Upsert` | what a sync brings |
| `CreateFolder`, `RenameFolder`, `DeleteFolder`, `ReorderFolders`, `SetFolder` | the commands on folders |
| `FileChanges`, `Preview`, `RunImport` | an import: the preview, its token, the edits by index, duplicates, filing |
| `Reopen`, `Tick` | opening again, with the folders no list has and the deletions too old; a second |

* `FiledWhereListed` - an item is in a folder the list has (`vault.rs:933`).
  Excepted (`brought`) is what a sync brings, and the codes of an authenticator
  filed by an edit: that import does not create the folder (`lib.rs:1392`), so
  they are out of sight until the vault is opened again.
* `ItemsStay` - only a removal takes an item away; no stale order, and no folder
  that goes, costs one.
* `ChangesAreStamped` - what the user changes is stamped, filing included: a sync
  keeps the newer of two.
* `ForgottenLast`, `NeverBothHereAndBuried` - which deletions are forgotten, and
  an id that comes back while its deletion is remembered.
* `ImportsAddNoTwins` - an import adds nothing it would call the same as what is
  there, whatever was renamed in the preview.

Two callers the interface does not have are left out: a folder order that names a
folder twice would list it twice, and an item added under an id that is there. An item an import adds counts as `fresh`,
although one of Proton Pass keeps the export's own modification time
(`import.rs:319`): `ChangesAreStamped`, which alone reads `fresh`, is about items
that were there before.

### Importer and Generator

Rows do not depend on each other, so `Importer` reads one, keeps what became of
it, and goes on. A text is a word with or without blanks around it, which is all
that trimming, comparing and keeping secrets exact tell apart.

| action | code |
| --- | --- |
| `ReadPassRow`, `ReadTornRow` | `from_proton_pass`, `proton_pass_item` and what it applies |
| `ReadEntry` | `from_proton_authenticator` |

* `NothingLostSilently` - each cell is in the item, in a warning, or the row is
  reported as skipped (`import.rs:12`). Excepted are the user name, the address
  and the autofill URLs of a card, which `apply_card_fields` does not look at
  (`import.rs:258`): they go without a word.
* `SecretsStayMasked` - nothing that is a secret in the export, or is in a card
  that could not be taken apart, is in a name, a folder or a plain field. A word
  that a plain cell has as well is no secret, and an item without a name is
  reported as "Unnamed item", even if that is somebody's password.
* `AskedForByName` - fields of an item have distinct labels, and entries a name.

`Generator` makes one password out of all the bytes that may come, or looks at
which bytes select what out of 1 to 256 characters.

| action | code |
| --- | --- |
| `Index` | `index`: the bytes that are drawn again, and what the others select |
| `Refuse`, `Generate` | `password`: one of each class, the rest, the shuffle |

* `PasswordsAreFair` - each of `len` values is selected by as many bytes as every
  other; the draws of the shuffle lead to each order once; each class asked for
  is there.

## Runs and bounds

| run | instance | why it is enough |
| --- | --- | --- |
| `agents` | `grants`: 2 requests with any wants out of a reveal and a command, of an identified or an unidentified program; clock 0..1; one vault. `records`: 2 requests of one want, 2 vaults, logs of one record | two requests are enough for every race between two tasks and for one task to reuse what another left; a one-shot grant expires at 1 and a window does not. Two writers, a second vault for records that arrive late, and the second record is one too many |
| `consent` | 3 requests of one command, the vault open | three are needed to charge the wrong grant and use the right one |
| `live` | 1 request, 2 vaults, saves may fail; the pipe: 2 clients, 2 attempts to reopen, 2 failures to accept | progress of a task depends on no other task; one client sits on its connection while the other waits, and each limit is reached and missed by one |
| `files_saves` | 2 profiles, 2 vaults ever created, 3 versions | a save over a save over a creation; one vault removed while another stays |
| `files_faults` | the same with 2 versions, a vault older than the registry, failing cleanups | at most one stray tombstone at a time (`FewTombs`) |
| `session` | 2 vaults, 2 passwords, `Remember` 2, clock to 5 | a choice expires, is renewed and expires again; one vault's id is used again |
| `sync` | 2 machines, one of them new and one with a clock ahead; 3 pushes, 3 writes, 3 ids, clock to 3; no perils | two pushes that conflict and one that follows; a conflict and a copy of it pulled on the other machine |
| `server` | accounts: 2 (one older than account keys), 2 devices, 1 invitation, 3 messages, 2 handlers, clock to 2, `Skew`, `Drift` and `InviteLife` 1. Icons: 2 addresses, 2 domains, 3 requests of which 2 at once, 2 windows, ceilings of 1 | an enrolment and a claim race for one invitation; a message is repeated inside and outside the skew, and one stamped ahead after its nonce is gone; an invitation expires. Two requests sweep at once and a third refills; one arrives a window late |
| `desktop` | the clipboard: 3 copies, 2 secrets. Enrolment: 2 vaults, 2 passwords, 3 tasks. Items: 2 ids, names, folders; retention and capacity 1; exports of 1 and 2 entries. Importer: some 11000 rows. Generator: 3 classes, lengths 3 and 4 | a timer overtaken twice; an enrolment, a join with its kit and a third task between them; a list of deletions that overflows; rows that differ in whose they are, and in what they keep; every length of an alphabet and every subset of classes |
| the refutations | the smallest instance with the behaviour | - |

Bounds by name: `MaxClock` bounds the clock; `StaysOpen` (the vault is unlocked
once and no field edited) and `Attended` (no listing, no timeout) bound the runs
they are named in, as action constraints; in the second part of `agents`
(`RecordsMove`) the clock stands still and a prompt is refused, dropped or answered
with a window, which is all the same to a record. `AuditCapacity` stands for 500:
with 1, the second record of two is already the one that does not fit. `MaxOwner` and `MaxVersion` bound the
vaults created and the changes to each; `NoHistory` leaves out the history
variables, which no step reads and the properties of that run do not mention. `GrantView` leaves the audit logs
out of the state of runs that are about grants, which never read the logs, and
`AgentsView` the log in memory, which nothing reads;
`RequestSymmetry` is used where no liveness is checked. In `Sync`, `MaxRev`,
`MaxId` and `MaxBody` bound pushes, items and writes, and `IdsLeft` stops at the
last id, so that no conflict goes without its copy for want of one. `Prompt`
makes a machine finish with a page before anything else moves but its own user: what
it does with a page reads and writes only its own vault, so the steps of other
machines commute with it. Its user changes and locks the vault at every step of it,
until the last second (`MaxClock`), in which a user moves before a sync, while it
waits for its push, or after it. `OneAtRisk` and `SavedInTime` bound what goes wrong:
one item is put at risk, after which users write nothing new but sync, lock and
delete as before; and the clock does not move on from an item at risk, nor, on a
machine that is not syncing, from a save that failed. `SyncView` drops the
time the server wrote a live record at: `Purge` reads that of dead ones only. In
`Session`, time passes between commands only: a command takes seconds, and a
choice lasts two weeks.

`MCLive`, `MCServer` and `MCDesktop` each explore several machines that read
nothing of each other's: `part`, chosen in the initial state, says which one
moves, and the others stay where they start. So the states of such a run are the
sum of its machines', each property is about one of them, and the symmetry is in
sets that are interchangeable in each. `MCServer` explores the accounts twice:
`AccountsMove` has every mix of three messages, from clocks that are right and with
handlers that end within the second they began in, and the clock stops at 1;
`TimesMove` has clocks that are ahead, by `Drift`, and handlers that take their time,
with what attaches devices or any two messages. In `Accounts`, `Nonce` bounds messages,
`Handler` the requests served at once; the history counters stop at 2, which is
enough to say "more than once". In `Icons`, `LastWindow`, `MaxRequests` and
`MaxSpoiled` bound the windows, the requests, and how often a file could not be
filled or the directory not listed; in `Clipboard`, `MaxCopies` the copies. In `Enrolment` each task is one
command.

## Fairness

`WF` of each task's own steps: tokio polls every task that is ready, and the
timer of a prompt is one of its steps. `WF` of `CommandStep`: a command that has
begun on the main thread ends. No fairness for what the user does, for an agent
to send anything, or for a spawned process to end (`run_command` has no
timeout).

The pipe (`FairPipe`): `WF` of `ConnectReturns`, because `connect()` completes
once a client has taken the instance, and `WF` of `Reopen \/ ReopenFails`,
because `listen_again` retries a bounded number of times with bounded waits.
Clients owe nothing: one may connect, say nothing and never leave.

## Proofs

All of it holds for every value of the constants, from the assumptions the modules
name. `BrokerProofs` proves `TypeCorrect`, `DisclosuresAskEachTime`,
`DisclosuresLeaveNothing`, `NothingWithoutConsent`, `LockDestroysGrants`,
`RecordsAreNeverLost`, `ServedIsRecorded` and the refinement, `NoUseWithoutAnswer`.

The arguments. A disclosing request is only ever let through by `Mint`, because
no disclosing grant of an identified client survives the mutex it was issued
under: it is issued with one use, and the redeem in the same critical section
charges it or an older one of the same kind, of which there is none
(`DisclosureInv`). Consent: a grant in the store carries the id, target, scope
and client of the request whose answer bought it (`GrantsHaveApprovals`), and redeem only
returns grants that match. The lock: `LockInv` says of every grant in the store
that, once `forget_grants` has run, its request is at `dispatch` or `revoke`,
and between the beginning of the lock and `forget_grants` it says nothing. The
audit log: the log in memory of the open vault goes on from the one on disk, with
the oldest gone only as far as newer records fill it (`LogIsAhead`), so that is all
a save takes out of a file, whichever vault is open by then
(`RecordsAreNeverLost`, for any capacity). A log is in the order in which its
records were pushed (`LogsInOrder`), so what follows a record that is drained came
after it; and while a task is between its use and its answer, the record it owes is
in memory, or in a file, or outgrown there, or a lock has cleared the log since
(`RecordsAreDue`). `ServedIsRecorded` assumes `~DiskFails`: a save that fails is
reported to nobody (`broker.rs:142` of the application), and then the property is false, as it
should be.

`NoUseWithoutAnswer` says `Spec => ImplementsConsent`: for any number of requests,
and whatever is issued, charged, expired, revoked and forgotten between them, the
uses of a target under a scope by a program never exceed what the answers bought.
The mapping counts grants, so the proof is about cardinalities, and needs that
there are finitely many requests (`RequestAssumption`). For an identified program,
a target and a scope, the uses left in the store (pairs of a grant's id and a
number, so that they can be counted: `LeftIn`) and the requests let through are
together no more than the uses the answers bought (`Backed`): an issue adds to the
store what the answer adds on the other side, a charge moves one, and expiry,
pruning and revocation only take away. An unidentified program uses what its own
answer bought and nothing else. Every action maps to a step of `Consent` or to a stutter
(`MappedStep`).

`SessionProofs` proves `TypeCorrect` and `OpensOnlyWhenAllowed`, assuming only
that the constants are well-formed (`IdAssumption`, `TimeAssumption`). `OpensOnlyIfAllowed` is not inductive: what is opened is
decided by the registry, what is allowed by the answers. `Inv`, which
`SessionInvariant` proves, joins them. No expiry is later than what is allowed
(`ExpiriesAllowed`), and the two effects that could break that do not: a
`SetExpiry` carries out a yes given when the command began, and commands take no
time (`YesStands`); a report that a vault is forgotten stands behind the
`ClearExpiry` of that vault, whose failure ends the command, or comes after its
expiry is gone (`ReportsAreTrue`). That a new vault under an old id starts
without an expiry is `RememberedExist`, and that the vault a log-out forgets is
the open one is `OpenIsSelected`. The lists are handled by three lemmas: what a
command starts with is orderly (`NewList`), and what a step leaves is shorter
(`StepsShorten`, `ShorterList`).

`ServerProofs` is about the two machines of the server. Of `Accounts` it proves
`TypeCorrect`, `InvitationsBuyOnce`, `DeletionIsFinal`, `RemovalIsFinal`,
`PushesApplyOnce` and `OnlyMembersPush`. `Inv` has five parts
besides the types. `WellSent`: messages are from the past, a device is named by
one message that attaches it, an account by one that creates it. `RowInv`: the
tables, and that an account that exists or was deleted was paid for. `AppliedInv`:
a push that was applied is superseded - its account has gone past the revision
it expects, or is gone for good - so a copy of it is refused without any nonce.
`AttachInv`: an enrolment or a claim that attached its device has spent its
invitation; a registration not sent before a restart, and never checked for a time
before its own or before one that nonces were pruned for, has its nonce remembered
from no earlier than its timestamp, or nonces have been pruned for a time that it is
too old for (`Remembered`), before any handler is at `register` with it, and no two
handlers are. Both exceptions are needed: without them it is what the run `replay`
refutes. `MemberInv`: a
handler at `push` is one whose device was the account's while it was served.

Of `Icons` it proves `CacheStaysBounded` and `BudgetsHold`. What the limiter has
let through of an address is what it counts now, and at most a budget for each
time the window it counts was set back by a request that had read the clock
earlier (`Allowance`). The cache is harder: a sweep bounds what it listed, but
others write while it lists, remove what it listed, and sweep in turn. The
invariant takes the listing of the request that was the last to list, of those
that are done. The sweeps under way that listed after it are `open`, and those that
listed after the sweep `h` are `later[h]` (`Nested`). What is in the cache and not
still ahead of `h` was written by requests that have not listed, or that listed
later, or failed; and those done left no more than the ceilings
(`Accounted`). All of it counts without `kept`, the files that a listing passed over
or that could not be removed: those are counted by nobody, so whatever fails to go
is in `kept` when a sweep passes on to the next. A sweep never believes that less is
ahead of it than there is (`Believed`), so it does not stop early. It assumes that
finitely many requests are served at once (`LimitAssumption`).

`DesktopProofs` is about the small machines of the application. Of `Clipboard` it
proves `CopiesAreRemembered`, `ReportsAreHonest` and `CopiesAreWatched`, from the
facts that only the newest copy can be on the clipboard (`OnlyTheNewest`) and
that no timer has done anything before its copy was counted
(`NotBeforeItsTime`). Of `PipeServer` it proves `TheNameIsKept`: in each step of
the loop, which of the two instances it owns (`AlwaysAnInstance`).

Of `Enrolment` it proves `VaultsStillOpen`, `VaultsSignAsRegistered` and
`VaultsSyncUnderTheirKey`. What is in memory is as good as what is in the file: it
opens with the vault's password (`MemoryOpens`), so saving it at any moment is
harmless; tasks that are past their request have rows at the server (`RowsAreThere`), so the sync state they write,
into whatever vault, names a device of its account (`SyncsSign`, with
`Registered`). That a vault syncs under its account's key needs to know whose key
each kit and each task carries (`KeysAreKnown`): a task whose account is settled,
and that had its vault to itself, leaves the vault sealed with the key the account
was enrolled under; any other counts as having strayed, in the terms of
`SyncsUnderItsKey`.

Of `Importer` it proves `NothingIsLost`, `SecretsMasked` and `ImportedByName`, for
any words, exports, codes and cards. They assume that a cell is a text
(`ExportsAssumption`), and that the names the program gives, such as "Untitled",
are no blanks (`WordAssumption`). What was last read is a row and what the program
made of it (`ReadingInvariant`), so the rest is about `PassItem` and
`Authenticated` as functions: which values an item's fields have, where a value is
plain or secret; that `Distinct` keeps every URL but blanks and the row's own;
that the labels count up, so no two are alike.

Of `Generator` it proves `PasswordsFair`, for any classes and for any lengths an index
can be drawn for (`LengthAssumption`, after the assertion at `generate.rs:33`). A byte
that is accepted is `value + k * len` for one `value` and one `k` (`Division`,
`Unique`), and each `value` has every `k < 256 \div len` (`Selecting`). A swap
keeps the characters (`ShuffledIs`), so one of each class is still there
(`EachClass`). And draws correspond to orders: a slot is final once it has been
swapped (`SlotSettled`), so from the order the draws can be told, last slot first
(`DrawsTold`), and for any order there are draws that reach it (`Reached`).

`SyncProofs` proves `TypeCorrect`, `WhatIsSyncedIsSeen`, `EditsAreKept` and
`SyncedMeansAgreed`, the last three for `Perils = {}`, which is that of the run
`sync`: no push between the two reads of a pull, and no sync that goes on in a
vault that lost what it had brought. With either they are false (see Sync above; the
run `sync_torn`). Users change items and lock vaults at any moment, saves fail, and
machines, clocks, retention and bounds are any (`BoundAssumption` asks that there is
room for the first item). The invariant goes
from versions to machines to writes. A version is an id with a body, or with none
once it is deleted: where a write is found under another id than its own, it is a
conflict copy, which nothing replaces (`CopiesStay`). A sync begins from what the
vault remembers (`SyncShape`) and a page that is complete for its revision
(`Pages`); a live record that is dropped is one whose item a user deleted
(`Resolved`), and a user's change removes no write but the one it replaces
(`Changes`). So what a user wrote, and the server has at or below the revision of a
vault, the vault shows, and its file (`Seen`); and a file is in order and remembers
no later sync than the vault, so a vault may be opened from it at any time
(`Filed`). That much, `SeenInv`, holds of every item and users cannot disturb it.
The rest is about items not at risk. What was decided of such a record is still
right when it is applied, and what is collected still complete when it is pushed
(`Decided`), so what the server has the vault agrees with, or changed later
(`Agreement`), and what the server has at the revision of the file, the file agrees
with (`Saved`), which is what a lock in the middle of a sync falls back to. Last,
each write that still stands is a copy, or the server's, or on a machine that will
push it (`Kept`): a push that replaces it is by a machine that has seen it, a record
that replaces it meets it either unchanged, and so at the server, or as a conflict,
and a lock that drops it puts its item at risk.

`VaultFilesProofs` proves `TypeCorrect`, `TheOpenVaultIsSelected` and
`NoOlderCopyReplacesOne`, whatever fails. `IInv` says how far each job has got:
while a vault is open only a save of it runs, to the selected path, and the file
there is that vault's and no newer (`OpenIsSaved`, `SaveIsOpen`); a creation
works on a path where nothing is (`AddIsAlone`); what is renamed is what was to be
written (`WrittenIsNew`); a removal moves each file once and leaves its path free
(`MovesAreOnce`), so rolling it back puts nothing over anything.

The same module proves `SavedVaultsAreKept`, which is `NothingSavedIsLost`, from
the assumption `~CleanupFails`: without it the property is false (see VaultFiles
above). `SavedIsRegistered` is the part that matters: the copy that counts is
synced at the live path of some profile, or in a tombstone of it, and the registry
in memory and the one the next start reads both have that profile. It needs that
tombstones are those of the removal under way or of one that was interrupted, one
for each path, whose file is then missing (`TombsAreMoves`, `TombsAreMoved`), so
the next start puts the right one back; that what a rename brings is synced
(`RenamedIsSynced`); that the owner of a vault being created was never reported as
saved (`AddIsUntold`, `OwnersWereBorn`), so undoing the creation costs nothing;
that a removal is committed only when the files are out of the way
(`RemovalIsStaged`); and that a vault is open only under a registry that is on
disk (`OpenIsCommitted`).

`VaultItemsProofs` proves every property of `VaultItems`: `NeverBoth`, `FiledInList`,
`ItemsStayHolds`, `ForgottenLastHolds`, `ChangesAreStampedHolds` and
`ImportsAddNoTwinsHolds`, for any items, folders, exports, retention and capacity.
It assumes that ids and folder names are finitely many (`FiniteAssumption`: a
`Uuid` has 16 bytes and a `String` no more than memory), because the lists that
the interface sends are drawn from all arrangements of a finite set. The invariant
(`ItemsInv`) says what the commands rely on without looking: no list holds
anything twice, so `position` finds the one item there is; an id is held or
buried; and deletions stand in the order of their age (`OldestFirst`), which no
line of the code checks. `prune_tombstones` drops from the front, so that order is
why what it forgets is the oldest (`PruneIs`), and why the deletion just recorded,
which is last, stays (`ItemsStayHolds`).

These lists are made by functions over lists: `Kept` (in `Lists`) leaves elements out, `Filed`
and `Imported` take one element after another. The model defines each as a
recursive function, `f[n]` from `f[n - 1]`. `Recursion` says that such a function
exists, by induction over how far it is defined (`Upwards`, which is well-founded
induction stated for sets); so the one that `Kept` names satisfies its own
definition (`KeptRuns`), and a second induction says what it returns: the elements
asked for, in their order and each where it was (`KeptIs`). `ListsProofs` has the
lemmas about `Kept`, which is also how `Generator` picks the classes asked for.

The type invariants of `Broker`, `Session`, `Accounts`, `VaultFiles` and `Sync` are
proved, and no run repeats them.

So every invariant and every action property that a passing run checks is proved.
Model-checked only: `RequestsEnd` and `ConnectedAreServed`, because liveness needs
ENABLED, which is out of the prover's reach.

## Not modelled

* `restore_audit` as a read and a refill: its two steps are one action of
  `Broker`, and a record made in between is in memory twice until the next start.
* `can_disclose` (`exposure.rs`): a table of program names and flags. `Broker`
  takes its answers as the constant `Disclosing`.
* Two copies of the app on one directory: nothing in the code looks for another.
* In `Sync`: a sync that goes on in a vault opened again without what it had brought
  (`"outlived"`, which no run explores), records that do not decode or whose proof does not open, two syncs at
  once on one machine, and another vault opened while a sync waits.
* The CLI, the MCP server and the broker's client send one request and print the
  answer. The views of the frontend are over the commands; what of them has state
  that matters (the queue of dialogs, "busy") is said where it does.
* Health reports, the HMAC of a code, reading QR images, search, subscriptions:
  functions without state whose data is what their tests are about.
* TLS, body limits, the scripts of the hosted instance.
