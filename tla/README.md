# ZervHub: specifications and proofs

TLA+ models of the stateful parts of ZervHub (desktop application and licence
server), TLC configurations that check them on small instances, and TLAPS proofs
of what they guarantee for every instance. Paths below are relative to the
repository; `server/src/routes` is abbreviated to `routes`.

    tlc -config Journal_crash.cfg MCJournal       # any run: see "What is checked"
    tlapm WebhookProofs.tla                       # any *Proofs module

## 1. Inventory

| Part | State | Operations | Hard because |
|---|---|---|---|
| Activity journal, `src-tauri/src/journal.rs` | a `Vec` of entries, head hash, sequence number and a flag, each in its own Mutex; a JSONL file | record, query, verify, export, stats, clear, load | blocking threads, lock order, crashes around file writes, retention |
| Licence endpoints, `routes/license.ts` | tables `licenses`, `activations` | activate, verify, deactivate, lookup, reset-hardware | handlers interleave at every `await`; check and write are separate statements |
| Administration, `routes/admin.ts` | the same tables, `coupons`, audit log, settings, sessions in memory | generate, revoke, extend, reset, delete, bulk actions, coupons, login | stale reads against client requests |
| Payment webhook, `routes/webhook.ts` | `licenses`, `webhook_dlq`; the store's pending deliveries | process, revoke, mail, enqueue, retry | redelivery, lost answers, failing mail, crashes, reordering |
| Administrator's password, `routes/admin.ts` | stored hash, `ADMIN_SECRET`, sessions and failed attempts in memory | login, change, clean-up | limits checked before and counted after awaits, first login against a change |
| Rate limiter, `server/src/middleware/rateLimiter.ts` | a window of timestamps per client | admit, exempt, collect garbage | boundaries of a sliding window, spellings of an address |
| Mail, notifier, signer, key generator, `server/src` | none that lasts | outgoing calls | hardly |
| Workspace sync, `renderer/src/lib/cloudSync` | local storage, passphrase in memory, status, revision | unlock, lock, syncNow, import, export | calls that overlap, lost answers, restarts, another device |
| Organizer, `src-tauri/src/organizer.rs` and its page | file system, undo list | scan, execute, undo | each move can fail, two commands at once, test-then-move |
| File shredder and vault, `src-tauri/src/crypto.rs` and their page | file system, the selected file, the confirmation | shred, encrypt, decrypt | test-then-rename, writes that stop half way, a page that changes meanwhile |
| Licence of the desktop, `src-tauri/src/license.rs`, `LicenseContext.tsx` | key and trial in the secrets file, the page's status, a timer | check, activate, remove, heartbeat | answers that cross, a timer set up anew at every render |
| Secret storage, `src-tauri/src/safe_storage.rs` | one encrypted file under a Mutex | store, retrieve, delete | non-atomic write, unreadable file read as empty |
| Scratchpad, `Scratchpad.tsx` | notes, the active tab, snapshots | edit, lock, unlock, drop an image | state read before an await and written after it |
| Workflow chains, `renderer/src/lib/workflowChains` and page | chains in local storage, the page's copy, a run | edit, reset, run | edits during the awaits of a run |
| Cron schedule, `renderer/src/lib/cronEngine.ts` | the search's position | validate, match, next occurrences | jumps over months, days and hours |
| Password vault, `PasswordGenerator.tsx`, `lib/vaultCrypto.ts` | the page's list, one encrypted key of local storage, a backup file | load, save, delete, export, import | each change stores the whole list behind awaits nothing orders |
| API studio, `ApiStudio.tsx`; backups of `Account.tsx` | environments and saved requests, in local storage and in the secrets file | edit, load, store, restore | two copies, of which the encrypted one wins whenever it arrives |
| Updater, `src-tauri/src/updater.rs` | download flag, downloaded path | check, download, install | error paths that leave the flag set |
| Seat licences, roles, collections, telemetry (`renderer/src/lib`) | local storage, ring buffers | allocate, release, check roles, count | sequential |
| Desktop tools (network, PDF, image, ...) | none that lasts | conversions and I/O | out of scope: pure I/O |

The desktop application reaches the server over HTTP (activate, verify); the store
(LemonSqueezy) reaches the webhook; the webhook and the administration write the
`licenses` table that the client endpoints read. Inside the desktop application
the renderer calls the Rust commands over the Tauri IPC; the journal is called by
every tool, from any number of IPC calls at once. The licence check keeps its key and
the trial in the same secrets file as every other page; the sync client posts its
envelope to a server of the user's choice and takes back a newer one.

What makes each part correct:

- **Journal**: whatever is read verifies as one hash chain; memory and file agree;
  what was acknowledged survives; every command returns.
- **Licences**: a licence is active on no more devices than it allows; verify does
  not answer from the past; a revocation stays; a coupon counts once.
- **Webhook**: a paid order gets exactly one licence and its mail; success is
  never reported for work not done; late events do not revive a revoked licence.
- **Administration**: only the right password opens, a changed one stays, the limit
  of failures holds but for attempts in flight. **Limiter**: no window sees more than
  its number of requests, and who waits as told is let in.
- **Sync**: a revision means one content, the stored envelope opens, 'synced' is true.
- **Organizer and vault**: undo restores what execute moved, nothing is overwritten or
  lost, no result is cut off, the confirmation is for the file shown.
- **Licence page**: page and store agree, secrets survive each other, a licence that
  has ended is noticed. **Scratchpad**: a note is locked with its own text.
  **Chains**: a run is of the steps it began with. **Cron**: no occurrence is missed.
- **Password vault and API studio**: page and storage hold what the user saved, however
  often the page is left and opened.

`PROJECT.json` lists every component, and under "hazards" each place where one of
these can go wrong.

## 2. Modules

| Module | Models | State in the code |
|---|---|---|
| `AuditLog` | what the journal promises: a chain that grows at its end, loses its oldest entries, or is emptied | - |
| `Journal` | `journal.rs` | `entries`, `lastHash`, `curSeq`, `initialized` are the four statics; `file` is the JSONL file; `owner` says who holds each Mutex; `draft` is the local `record` |
| `LicenseServer` | `routes/license.ts`, keys and coupons of `routes/admin.ts` | `licenses`, `activations`, `coupons` are tables; `req` holds each handler's locals and what it awaits |
| `Webhook` | `routes/webhook.ts` | `licenses`, `dlq` are tables; `req` as above; `paid`, `refunded`, `pending`, `mailbox` are the store and the buyers |
| `AdminAccess` | login, password change and attempt limit of `routes/admin.ts` | `adminHash` is the row of `admin_settings`, `adminSecret` the environment's, `loginAttempts` and `activeSessions` the maps; `inFlight` holds each request's locals |
| `RateLimiter` | `middleware/rateLimiter.ts` | `timestamps` is the map of buckets |
| `SyncClient` | `syncManager.ts`, its context and dialogue | `activePassphrase`, `syncStatus` are the manager's fields, `envelope`, `revision`, `localData` are local storage, `shown` is the dialogue's state, `op` the calls under way |
| `Organizer` | `organizer.rs`, `BulkOrganizer.tsx` | `disk` is the file system, `undoStack` the static, `cmd` the commands' locals, the rest the page |
| `FileVault` | the `fortress_` commands of `crypto.rs`, `CyberFortress.tsx` | `files` is the file system, `task` the commands' locals, the rest the page |
| `DesktopLicense` | `license.rs`, `safe_storage.rs`, `LicenseContext.tsx` | `secrets` is the file, `status`, `shownKey`, `beat` the page and its timers, `answers` what is under way to it |
| `Scratchpad` | `Scratchpad.tsx` | `notes`, `activeNoteId` and the dialogue are React state; `encrypting`, `decrypting`, `reading` are what awaits |
| `WorkflowChains` | `chainStore.ts`, `chainExecutor.ts`, `WorkflowChains.tsx` | `storedChains` is local storage, `chains` the page's copy, the run its locals |
| `CronEngine` | matching, validation and search of `cronEngine.ts` | `current`, `results`, `iterations` are the loop's variables |
| `PasswordVault` | the vault of `PasswordGenerator.tsx`, `vaultCrypto.ts` | `vaultItems` and the dialogue are React state, `stored` the key in local storage; `loading`, `saving`, `importing` are what awaits |
| `ApiWorkspace` | a list of `ApiStudio.tsx`, `store_secret` and `retrieve_secret`, the backup of `Account.tsx` | `list` is React state, `local` and `secure` the two copies, `calls` and `retrieved` what is under way |
| `MC*` | the instances TLC checks; `MCDesktopFiles`, `MCDesktopClient` and `MCAccess` hold several modules that share no state, `scene` chooses one | - |
| `*Proofs` | the theorems | - |

**Journal.** A step of a thread takes one Mutex or runs to the next file
operation. `Wants` holds the order in which each command takes the Mutexes.
`EnsureInitialized`, then `Acquire` three times, then `Load` is
`ensure_initialized`; `AppendToFile`, `Commit`, `Truncate`, `Rewrite` are
`journal_record`; `Wipe`, `WipeFile` are `journal_clear`; `Read` stands for the
four commands that look at the entries once. `fs::write` is two steps, because it
truncates before it writes. The file keeps its lines and whether the last one has
its newline, since an append to an unterminated line makes both unreadable. A
hash is the chain it seals (an injective `HashOf`): SHA-256 has no collisions in
this model. One write call is not split by the death of the process itself, only
by an I/O error ("io" in `Faults`), which may also make a restart's read fail:
`ensure_initialized` then starts an empty journal and tells nobody. `acked`, `glued` and
`damaged` are history: what callers were told, which of it went to the end of a torn line,
and whether the file missed a rewrite, a clear or a load. `CUSTOM_STORAGE_PATH` is left
out: `set_custom_storage_path` has no caller.

**LicenseServer.** A step of a handler is one SQL statement or one
`withTransaction` block, with the code up to the next `await`. A request may fail
at any of them (`Abort`: a statement throws, or the process restarts). Keys come
in spellings: activate, verify and deactivate find the licence by the normalised
key but the activations by the key as sent, and the foreign key, where it is
enforced, refuses rows for anything but a stored key. `Refused` gathers the early
returns of activate, verify and reset-hardware. Bulk actions are sequences of the
single-key statements; a bulk delete, which is one transaction over its keys, is
modelled key by key. `max_activations` is fixed per key, days added are positive,
`/lookup` only reads. Not modelled: the audit rows, notes, settings, sessions.

**Webhook.** The store sends an event until it is answered with success; any
number of copies may be in work. One action per `await` of
`processWebhookPayload` and `retryWebhookDlqEntry`; each statement may throw. An
order's event is always of a paid order (others are ignored by the code);
`order_refunded` stands for all three events that revoke. A queue entry of a
failed mail carries no event the processor knows. Mails resent by hand
(`admin.ts`, resend-email) are not modelled. `dropped` and `acked` are history
variables: what a crash dropped, what was answered.

**AdminAccess.** One step per statement `verifyAdminPassword` and the two routes
await; the code before the first await (limit, session) and after the last belongs to
its neighbours. A failing statement, a restart and both clean-up timers are actions.
`saw` in a request is what the right password was since it came (history).

**RateLimiter.** Each request is one step, as in the code, which has no await. An
address has spellings (`NormalizeIp`). The array of timestamps is a set whose elements
carry their place (`nr`); `admitted` and `retryAt` are history.

**SyncClient.** A step is the code between two awaits (key derivation with AES,
`fetch`, the body). Only the sync button is disabled while its call runs, so the
calls of the dialogue overlap; `crossed` records which kinds did. What the buttons
offer is `shown`, read at each broadcast as in `CloudSyncContext.tsx`. An answer may
be lost after the server took the envelope; a restart may come at any step. No page
writes the lists that `gatherLocalPayload` collects yet, so `Edit` is external, as
are the server, which keeps the highest revision, and the other device. `autoSyncTimer` is never
set; the check of `syncNow` for a locked vault is unreachable from the dialogue.

**Organizer, FileVault.** A step is one system call or one critical section; every
system call may fail and the process may die at each step. A name is a folder, the
prefixes it collected and the number `get_unique_path` appended. A move across volumes
copies and removes; a copy may stop half way (`Torn`, `Half`). The page does not keep a
second command from starting, which two organizer commands and two vault tasks show.
`alone`, `sound`, `disturbed`, `agreed`, `snapshot` and `shredded` are history: who
interfered, what was agreed to, what was there.

**DesktopLicense.** The licence commands are synchronous: the main thread runs them
one after the other and answers in that order, so a call and its command are one
step and `answers` is a queue. A render that changes the status clears the heartbeat
and sets up a new one while the old one's answer may be on its way (`Rearm`). The
backoff (LicenseContext.tsx:113) cannot be reached, since the command never fails,
nor can the 'expired' branch (license.rs:470); no code emits `license:revoked`.
`load_secrets_map` gives an empty map for a torn file, and also when the read or the
decryption of a whole one fails; `store_secret` then saves that map with one entry.
Every load and save of a command may fail, within `MaxFailures`; `failures` counts them.

**Scratchpad, WorkflowChains.** One action per handler; a handler that awaits is two,
and the first keeps what the second uses. A chain step is an outcome and an output.

**PasswordVault.** A store is one step when it is asked for and one when it ends, in any
order: key derivation and AES run on other threads. A list decrypted late replaces
whatever the page has by then, and a page that was left goes on with its stores. One
backup is read at a time. `kept` is what the user saved and did not delete, `crossed`
that two of these overlapped so that the code loses entries (history).

**ApiWorkspace.** The environments and the saved requests are kept by the same code
under two keys; the model has one of them, and a change is a new version of the list.
The commands of `safe_storage.rs` are synchronous, so they run in the order of the calls. `stale`,
`touched` and `undone` are history: why a change may be gone. Sending requests is left out.

**CronEngine.** One iteration of the loop is one step. Dates are minutes since
1 January 2023 in a time zone without clock changes.

## 3. What is checked

| Run | Result | Question |
|---|---|---|
| `Journal_crash` | holds | crashes between any two steps |
| `Journal_faults` | holds | crashes, and reads and writes that fail or stop half way: restarts that read what is left; liveness |
| `Journal_rewrite_cut` | violated | do acknowledged entries always survive? |
| `Journal_clear_deadlock` | violated | does every command return? |
| `LicenseServer_handlers` | holds | all endpoints interleaved |
| `LicenseServer_slot_race` | violated | is the device limit kept? |
| `Webhook_delivery` | holds | redelivery, failures, crashes, retries |
| `Webhook_mail_retry` | violated | was a resolved mail sent? |
| `DesktopFiles` | holds | failing calls, deaths and a second command around the user's files |
| `DesktopClient` | holds | awaits and edits in the renderer, lists kept in two places, the licence page over a secrets file that fails; liveness of its heartbeat |
| `Access` | holds | password, limiter and vault interleaved at every await |
| `SyncClient_locked` | violated | does a locked vault show as locked? |

**Properties that hold.** *Journal*: `VisibleChainVerifies` (readers never see a
chain that `verify_audit_chain` rejects), `RestartRecoversMemory`,
`HeadMatchesEntries`, `AckedSurvive` (below), `ImplementsAuditLog` (refinement of `AuditLog` by the file; while
the file is being rewritten the log is what is about to be written),
`CallsReturnWithoutClear`. With crashes and failing writes together a restart may leave a
gap where a line was torn, so the chain and the agreement of file and memory are checked
with crashes alone, the head, the acknowledged entries and liveness with both.
`AckedSurvive` says what a failure may cost: an append that stops half way takes the entry
appended next with it (`glued`) and no other; only a cut rewrite, a clear that did not
reach the file and a restart that could not read it (`damaged`) may cost more, until the
next clear. *Licences*: `SlotOvershootBounded`,
`CouponOveruseBounded` (the limits can be exceeded, but only by handlers in flight
at once), `VerifyNotStale`, `RevocationSticks`. *Webhook*: `DuplicatesBounded`,
`SuccessMeansStored`, `MailedKeysAreStored`, `MailSentOrQueued`,
`RevokedStaysRevoked`.

*Files*: `FilesVanishOnlyByInterference` (a content disappears only if a second command
or the user took its name in between, or in an undo after something failed in it or in
its batch),
`UndoRestores`, `UndoIsOffered`; `NothingReplaced`, `ResultsAreWhole`,
`TickIsForShownFile`. The hypotheses are about interference the code does not prevent:
leaving the page and starting a second encryption of a file can replace the result of the first, an undo
whose restore fails has already emptied its list (organizer.rs:345), although
`README.md:78` calls the rollback atomic, and an empty file whose removal fails is
reported as shredded (crypto.rs:565).

*Renderer*: `SecretsLostOnlyByFailure` (a command all of whose reads and writes succeed
on a whole file keeps everybody else's secrets; one failing read, or decryption, is enough to lose
them all at the next store), `PageAgreesWithStore` (as long as no read or write failed),
`LapseIsNoticed` (liveness), `VaultKeepsText`, `ReportsFollowTheChain`, `NoOccurrenceMissed` (the search
against the listing of what the five fields denote, all five required),
`VaultKeepsEntries`, `EditsSurvive`. What they leave open, since the code does: a
password saved before the vault is decrypted, while a backup is read, or whose store is
overtaken by an older one, is lost; a change in the API studio is undone if it was made
before the encrypted copy came, if its store failed or was cut off, and a backup
restored in `Account.tsx`, which writes local storage only, gives way to the encrypted
copy as soon as the studio is opened; text typed into a note while it is encrypted is
lost; a report is shown under whatever chain is open by then; ranges of week days that
end in 7 never match Sunday (the expressions checked hold 7 only by itself).

*Access*: `FailuresBounded`, `LockIsKept`, `PasswordWasRight`, `ChangeSticks`;
`WindowBounded`, `RetryAfterHolds`; `RevisionsNotReused`, `EnvelopeOpens`,
`SyncedMeansStored`. `EnvelopeOpens` exempts runs of the program in which setting the
passphrase, an import or an early export overlapped another call, and
`SyncedMeansStored` those in which anything but unlocks overlapped: such an overlap can
store an envelope of the other passphrase, or report 'synced' of what it replaced.

**Violations.**

1. *Cut rewrite.* Pruning rewrites the file with `fs::write` under the comment
   "Atomic rewrite file"; a crash after its truncation loses the whole journal.
2. *Deadlock.* `journal_record` takes SEQUENCE, HASH, ENTRIES; `journal_clear`
   takes ENTRIES, HASH, SEQUENCE. Each can hold what the other waits for.
3. *Slot race.* Two activations count before either inserts: one licence for one
   device is active on two, which `server/tests/challenger.test.ts` denies.
4. *Mail retry.* Retrying the queue entry of a failed mail marks it resolved and
   sends nothing.
5. *Lock not shown.* A call under way when the vault is locked ends with status
   'synced', which `cloudSync/types.ts:61` reserves for an open vault.

**Bounds.** *Journal*: three threads (a writer, one of another command, and one
waiting), entries numbered up to `MaxSequence = 3` (4 for the rewrite) with
`MAX_JOURNAL_ENTRIES = 2`, so the retention limit is passed and pruned; two
contents where the chain matters. With both kinds of fault one entry is retained and two are
numbered: enough for a torn line with another glued to it, a good line after them, and a
pruning that may fail; the theorems cover longer journals. *Licences*: two handlers, one key for one device
in two spellings, three devices, one coupon, a clock of two instants; each race
needs two handlers, and the proofs cover more. *Webhook*: two handlers, a good
and a malformed order, three keys (more than two handlers can use for one order),
one queue entry, so the queue is both available and full. Handlers, devices, keys,
threads and contents are interchangeable; the runs with safety properties alone
use that symmetry, the liveness runs do not. *Files*: two commands or tasks, two
contents, two names of a document's file, one failing call or death per run; `MaxCalls`,
`MaxTasks` stop after two operations, enough for every overlap of two and for
an execute followed by its undo. *Renderer*: two keys (one ends, one never), three hours, two calls of the user
and two heartbeats under way, one failing read or write; two notes, two texts, two passwords;
two templates of two steps, up to three steps and chains, two runs and three edits; 75
cron expressions from four starting points over 48 months, three occurrences each,
with the code's own `MAX_ITERATIONS`; two passwords, two stores under way and one failure; two
changes of a list, four calls waiting and one that fails. *Access*: three requests (so that one
may overtake two), two passwords, a limit of two failures; a limiter of two requests per
three instants over nine; two calls of the vault under way, two revisions, and one
overlap per run of the program (`MaxCrossed`). The bounds on time, calls and
revisions end a run, so these four runs do not check deadlock; nothing in their code
waits for another.

**Fairness.** Two runs need it. `LicenseFairness` says that answers arrive and timers
fire: the main thread works off its queue, and the browser fires a due `setTimeout`;
nothing is assumed of the user, the clock or the disk. `FairSpec` has strong fairness
for each thread's steps. The blocking pool runs every runnable thread; a Mutex is
not first-come first-served, but its waiters are woken whenever it is released,
and the next command of another caller goes through the IPC first, so a thread for
which the Mutex is free again and again gets it. Calls themselves are not fair,
and after a crash no command is left to return. The other runs check
safety only. Deadlock is checked except in the runs named above and in `Journal_faults` and
`Journal_clear_deadlock`: there, clear and record may block each other, which is
the finding of the latter.

## 4. What is proved

For all values of the constants, under the assumptions the modules name (finite
sets of handlers, a positive retention limit, `None` and torn lines distinct from
data):

- **`JournalProofs`**. Whatever fails and whenever the process dies: `TypeCorrectness`,
  `HeadsAgree` and `AcknowledgedEntriesSurvive`. For the last, the invariant (`Intact`)
  says where an acknowledged entry is at each point of each command: at rest in memory and
  in a line of the file that a restart reads and no append can reach (`Safe`), after the
  append in the file, before the rewrite in what memory has kept. It needs that no two lines
  that parse have the same number, so that sorting them and keeping the newest keeps
  what the caller was promised; the numbers may have gaps, so the retention lemma
  (`NewestKeeps`) has to count them (`Spaced`).
  Without failing reads and writes, crashes included: `ReadersSeeAChain`, `RestartsRecover` and
  `JournalImplementsAuditLog`, the refinement of `AuditLog`, step by step. The
  inductive invariant says, for each point a thread can be at, which Mutexes it
  holds, how entries, head and file then differ (the file is ahead by the draft
  after the append, untrimmed before the rewrite, empty during it), and that both
  sequences are chains. Without the per-point part a crash at an arbitrary step
  could not be shown to leave a loadable chain. Loading sorts the file; that a
  file without torn lines and with consecutive numbers loads as itself is a lemma.
  Without crashes: `FailedWritesKeepTheChain`, a statement on memory alone, since the file
  is read once, before anything is written.
- **`LicenseServerProofs`**: `TypeCorrectness`; `SlotOvershoot`, assuming foreign
  keys are enforced (`ForeignKeys`), by counting: the slots of a key and the
  handlers about to insert one are together at most the limit and the handlers
  less one, because a handler joins them only having seen a free slot;
  `CouponOveruse` by the same counting; `VerifyAnswers`, where what a handler has
  passed is tied to what was once true; `RevocationsStick`, an action property.
- **`WebhookProofs`**: `TypeCorrectness`, `Duplicates` (an order's licences and
  the handlers about to insert one are at most the handlers), `SuccessIsStored` and
  `MailsAreStored` (each point after the work carries a stored licence with it),
  `MailsAreSeenTo`, `RevocationsStay`. The type invariant includes what each point
  carries, and that a queue entry being retried is the entry of that event.
- **`ServerAccessProofs`**. The login: `AdminTypeCorrect`, `ChangeAlwaysSticks`,
  `PasswordAlwaysRight`, by an invariant that ties each request's point to what it
  carries and to the passwords it saw, and the stored hash to the last change: a first
  login about to store ADMIN_SECRET has seen no change. `FailuresAreBounded` by
  counting, as for the slots: a client's failures and its admitted requests together
  stay below limit plus requests, since a request is admitted only below the limit.
  `LocksAreKept`, an action property. The limiter: `WindowAlwaysBounded`,
  `RetryAfterAlwaysHolds`. Neither is inductive: the buckets are thinned out by requests
  and collector, so the invariant ties them to what was admitted (whatever counts at this
  moment is still in the bucket), bounds every span, and says of a refused client that by
  the time it was told its bucket has room.
- **`SyncClientProofs`**: `SyncTypeCorrect`, `RevisionsAreNotReused`,
  `EnvelopeAlwaysOpens`, `SyncedIsStored`. The invariant's parts: what a call carries
  fits its kind and point (`CallsFit`), the active passphrase opens the envelope and
  every envelope about to be stored (`KeyFits`, `VaultFits`), a revision under way is above
  all that were sent (`RevisionsFit`), and what is stored is what was gathered
  (`StoredFits`); the history of overlaps is what lets two calls be told from one.
- **`DesktopFilesProofs`**. The vault: `WrittenFilesAreWhole`, `TickFollowsFile`,
  `NoFileReplaced`, from `VaultInv`: until the page was left during an operation, at most
  one command codes, so the name it found free stays free; a command knows at each of its
  points what is at its names. The organizer: `UndoAlwaysRestores`, `UndoAlwaysOffered`,
  `FilesOnlyVanishByInterference`, from `OrganizerInv`: while one command runs alone, its
  target is free and the moves it made, or has left to revert, lead one after the other
  from the disk before the batch to that of now (`Trace`). That a batch can be taken
  back from its end is a lemma on such traces (`LastMove`); in the order it was made it
  could not.
- **`DesktopLicenseProofs`**: `PageAgrees`, `SecretsStay`, with reads, decryption and writes
  that fail any number of times. What is proved inductive is
  what the page will show once the answers under way have come, the last one deciding
  (`WillAgree`), with the heartbeat of an earlier render told from the present one.
- **`RendererProofs`**, one invariant for each page. API studio: `StudioEditsSurvive`, from
  which version each copy, call and answer carries. Password vault: `VaultEntriesKept`,
  from the last store under way having the user's list until two calls crossed. Chains:
  `ReportsFollow`, the results so far being those of the steps the run began with, for
  chains of any length. Scratchpad: `VaultTextKept`, an action property, from what is
  being encrypted or decrypted being what its note has, unless that is marked.

The assumptions are those the modules name (`ASSUME`, evaluated by TLC): positive limits
and bounds, finite sets of requests, values for nothing or a torn content that are not
data, templates that are chains, a set of note ids that is not empty. `LicenseServerProofs`
and `JournalProofs` state their further hypotheses (`ForeignKeys`, kinds of `Faults`) in
the theorems.

Only model-checked: `NoOccurrenceMissed`, whose calendar is a recursive definition
(induction over data is out of the provers' reach), and `CallsReturnWithoutClear` and
`LapseIsNoticed`, since liveness is (fairness, ENABLED). The violations are
counterexamples and need no proof.

## 5. Plan

Done: the server (licences, webhook, administrator's access, limiter), the journal, the
sync client, the organizer and the vault, the desktop licence with its secrets, the
scratchpad, the chains, the cron search, the password vault, the lists of the API studio;
for each of them but the cron search, theorems for all safety properties. Left:

1. The search of `CronEngine` over an arbitrary calendar, given by its first days of the
   months, so that a jump over a month can be proved to miss nothing.
2. An abstract specification of the licence table (what a buyer is promised) that
   `LicenseServer` and `Webhook` implement.
3. The audit rows of the administration, and undo under a failing restore.

## 6. Not modelled

- *Updater*: no page calls `downloadNow` (`tauriBridge.ts:146` only exposes it); what
  goes wrong in it (the flag stays set on the error paths of updater.rs:257-280) cannot
  be reached by the program.
- *Seat licences, roles, collections*: sequential handlers on local storage of one
  machine, without an await; the quota is contended only by sample data.
- *Telemetry, activity logger, dispatcher, audit reports*: ring buffers changed in one
  synchronous step and pure functions on text.
- *Key generation, signatures, mail, notifier*: cryptography and outgoing calls; their
  outcomes are choices in the models that use them.
- *Dashboard, landing page, pages of the converters, website*: generated HTML and
  presentation. With the converters (text, colours, images, PDF, regular expressions,
  the password generator, network tools) they are most of the repository's lines and hold no state
  that a sequence of events could break.
