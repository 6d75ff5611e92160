# FirMapache in TLA+

This directory is a verification development of FirMapache: a local signing
service (axum, HTTPS on localhost) with a Tauri desktop that asks a person to
approve each request, signs with a PKCS#11 token or a PKCS#12 file, and keeps
tokens, certificates and configuration in memory. Paths below are relative to
the repository.

- `SigningSessions`, `SigningCore`, `TokenCache`, `TokenWatcher`, `ConfigStore`,
  `EmbeddedServer`, `SigningWindow`, `ManualOutput`: one module per component,
  written from the code; `PdfSignature`: the algorithm that puts a signature into a PDF.
- `CompatibleSign`: the whole POST /sign handler, composed with the session table;
  `TokenWatcher` is composed with `TokenCache` in the same way, `ManualOutput` uses
  `PdfSignature`.
- `SigningDecision`: what the session table promises, without its mechanism;
  `ConfigRegister`: what the configuration promises, without file and copies.
- `*Proofs`: theorems about them, one module for each component (section 4).
- `MC*.tla`, `*.cfg`: the instances TLC checks.
- `PROJECT.json`: components, runs, hazards, findings, theorems, and the lines
  of code each definition stands for.

Run `tlc -config CompatibleSign_flow.cfg CompatibleSign` and likewise for the
others; `tlapm CompatibleSignProofs.tla` checks one module of proofs.

## 1. Inventory

| component | state | operations | interacts with |
|---|---|---|---|
| Signing sessions, `src/core/signing/session_manager.rs` | table id -> session + `Option<oneshot::Sender>` behind one `RwLock` | `create_and_wait`, `list`, `get`, `approve_with_signature`, `approve_temporarily`, `reject`, `expire`, clean-up | POST /sign handler (waits on the channel), desktop commands and `/sign/sessions` endpoints (resolve), JWS/PDF signing |
| Token and certificate cache, `src/core/cache.rs` | two lists, three timestamps, fingerprint behind one `RwLock`; `refresh_lock` | `refresh_fast`, `refresh_tokens_and_certificates`, `force_...`, `invalidate`, reads | PKCS#11 provider (reads), every handler and command, `replace_config` (clears) |
| Token watcher, `src/core/watcher/mod.rs`, `src-tauri/src/commands.rs:1966-2216` | PC/SC reader states, reader names, `previous_fingerprint` | start-up refresh, event loop, polling fallback | PC/SC, cache |
| Configuration, `src/config/mod.rs`, `src/server/mod.rs:41-47` | `Arc<RwLock<AppConfig>>`, `config.toml` | `load` (two migrations), `apply_update`, `validate`, `save`, `replace_config` | POST /config, ten desktop commands, cache |
| Identities, `src/core/identity/manager.rs` | none (a view of the cache) | build, mark default, resolve | cache, configuration, PKCS#12 |
| PKCS#11 provider, `src/core/pkcs11/provider.rs` | `PKCS11_ACCESS` mutex; sessions are opened per call | detect driver, list tokens/certificates, `sign_hash`, `sign_rs256`, batch | the driver and the token |
| JWS and PDF signing, `src/core/signing/jws.rs`, `src/core/pdf` | none | sign one, sign batch | cache (x5c), provider, PKCS#12 |
| PKCS#12 virtual tokens, `src/core/pkcs12` | files | generate, read, sign | configuration |
| Development auto-sign, `src/core/development` | none | `try_auto_sign` | POST /sign, before the session table |
| Embedded server, `src/server`, `src-tauri/src/commands.rs:1937-1963` | the server task, last restart error, certificate files | start, restart, serve, abort, certificate generation | configuration, other programs' ports |
| Tray and windows, `src-tauri/src/main.rs` | selected session, windows | start, quit, menus | all of the above |
| Signing window, `ui/app.js` | session on display, PIN field, buttons, queue | one-second poll, approve, reject, pick | desktop commands |
| Manual signing and output, `ui/app.js:1591-1703`, `src-tauri/src/commands.rs:1015-1266, 1816-1888` | results on display, files of a folder | batch signing, naming, one file or ZIP | signing, file system |
| Verification, validation, diagnostics | none | pure | - |

### What is hard here

*Concurrency.* Handlers run on several tokio workers; PKCS#11 and signing run in
blocking tasks; no lock spans more than one critical section of the table, the
cache state or the configuration. *Time.* A POST /sign waits at most five
minutes on a channel that others may fill at that very moment. *Failure.*
Clients disconnect, tokens are pulled out during a read, drivers fail, saves
fail half way, processes end. *Staleness.* Configurations are cloned at the start of
an operation and used after awaits; cached lists outlive the token they came from.
*Windows.* JavaScript tasks share one form and interleave at every await; a person
clicks and types in between.

What makes each component correct:

- sessions: one outcome per request, told alike to the requester and, while the wait
  lasts, to the approver; nobody waits for ever; nothing pending leaks but by a disconnect;
- cache: never goes back in time, flags match contents, no deadlock, empty
  after a change of driver or a failed reload (as documented);
- watcher: what PC/SC reported is reflected; an identity offered as available
  has its token's certificates; the fallback catches up;
- configuration: an update changes what was sent and nothing else, memory and
  file agree, a restart brings settings back;
- signing: one refused login per call at most, nothing left logged in, all files or
  none, the certificate shipped is the key's, a signed PDF verifies;
- output: nothing is overwritten and the message is true;
- server: no server is forgotten, a failure to start is shown, no error means a server
  unless something came between the probe and the binding;
- signing window: the PIN goes with the session it was typed under, once at a time;
  the display follows the selection and the table.

`PROJECT.json` lists the hazards one by one, at their lines, with the properties
that would catch them; where the code lets a hazard happen, or where a property only
confines it, a note says so.

## 2. Modules

### SigningSessions, SigningDecision

One action per critical section of the table's lock, or per step taken without
it. `pc[r]` is where request r's handler is in `create_and_wait`; `status`,
`sender` are the table entry; `channel[r]` is the call whose result is in the
oneshot channel; `step`, `op`, `target`, `outcome` describe the approve and
reject calls. The steps that matter: `ApproveWithSignature` reads the status and
releases the lock; `SignPreparedFiles` signs with no lock; `ResolveSigned` takes
the lock, checks again, sets the status and takes the sender; `SendResult` sends
after the unlock. Meanwhile `TimeoutElapses`, `DropReceiver`, `Expire`, `Disconnect`
and the clean-ups interleave. Rejection is `Reject` + `SendResult`.

The end of a wait has three steps, since other threads run beside it: tokio polls the
receiver and finds it empty, then the timer and finds it elapsed (`TimeoutElapses`: the wait
cannot be saved any more); the await ends and drops the receiver (`DropReceiver`); `expire` takes
the lock (`Expire`). `send()` fails only once the receiver is dropped (`ReceiverAlive`). Between
the first step and the second it succeeds: the approver is told "approved" and the request
"expired". The window is a few instructions of `create_and_wait` and the code does not close
it; no document of the repository says otherwise. `OkMeansHandedOver` states what is left: a
success is handed over, is the only one, and is the answer unless the wait had ended.

The clock is discrete: `Tick` advances the age of every session and the wait of
every handler, saturating at `Timeout`. Ids are the requests themselves, so
uuid collisions are left out; a poisoned lock (`StateLock`) is left out since no code
panics while holding one. An approval through the HTTP endpoint
(`approve_temporarily`) and through the desktop are both there.

`SigningDecision` is the promise: a request is accepted, then decided once, by
one call that learns of it in the same step, or lapses and expires, or is abandoned. While it
has lapsed and not yet expired, one call may take itself for the decider (`DecideTooLate`). The
refinement maps the decision to the moment the channel is filled, and the lapse to
`TimeoutElapses`: the status under the lock is only an intent.

### CompatibleSign

Extends `SigningSessions` by what happens before the table: `Arrive` clones the
configuration, `TryAutoSign` is the blocking task (its inside is `SigningCore`; here it
signs or fails), `AfterAutoSign` what the handler does with the result, `EnterTable`
the call of `create_and_wait`. `LeaveEarly` is a client that goes while the task
runs: the handler is dropped, the task is not. `mode` is `config.development` and constant:
requests that see different settings do not meet. The safety and the refinement of
the table are checked here, under the handler, and no longer alone.

### SigningCore

What `SigningSessions` has as one step that may fail, and what POST /sign/hash,
auto-sign and manual signing do as well: from the identity chosen to the answer. A
worker's `job` is one call. It resolves the identity in the cache (`Resolve`,
`ResolveOrReload`), a batch reads and sorts its files, and then come the portions,
each signed under one login: look the certificate up, refresh on a miss, prepare
the documents, take `PKCS11_ACCESS`, open a session, log in, find the key, sign,
log out. `todo` are the portions left, `out` the signatures made. A session makes
one portion of each file, a batch at most two; a hash has no certificate to look
up. Everything `?` may return from is a disjunct that ends the call.

The hardware is one reader slot: a token is plugged in or out between any two steps,
and with it goes the session. `session` is the PKCS#11 session and whether it is
logged in. The user's PIN is that of the token chosen or none; tokens may share a PIN,
as they do when it is the factory's. The driver is chosen in two ways, as in the code:
listing tries drivers until one sees a token, signing takes the configured one
or the first that is installed. Of the cache only its two lists are kept, with what its
other users do to them; a refresh is one step here, its locking is in `TokenCache`.
All files of a session have its format (`FormatsAssumption`), by which `sign_prepared_files`
chooses, and only a PDF can be unsound: bytes are signed as they are.
PKCS#12 identities, which touch no token, are left out; an identity that has
expired, a file that cannot be read, a PIN missing from the environment and a
session resolved meanwhile are failures after `Resolve`.

Two things the model shows and no property excludes. "Un solo intento de login por
solicitud" (README.md:914-916) is true of POST /sign/hash, which it is written
about; a session of several files logs in once for each, and what holds is
`AtMostOneRefusal`. And the PIN is given to the token in the slot, whether or
not it is the one of the identity.

### TokenCache

`cache` holds the lists (which token they show), the flags, and ghosts: the
number of token moves before each listing was taken. A worker's `job` is one
call: check the flag, check the expiry, take `refresh_lock`, probe the drivers
one by one, list tokens, list certificates, publish; a failing listing drops
the lock and the result. `Invalidate` is a critical section that does not take
`refresh_lock`. The configuration is a driver choice, cloned when the call
starts; `ReplaceConfig` changes it and clears the cache in one step, since
the configuration's write lock is held over both and the cache takes no part in it.
Tokens, drivers and which driver recognises which token are constants; one
slot. `FIRMAPACHE_PKCS11`, which overrides the choice, and the hit counters are
left out. `TtlElapses` may happen at any time: the 300 seconds are not counted.

### TokenWatcher

Extends `TokenCache` with the watcher as one of its workers, so that its
refreshes compete with the other callers'. `known`/`unseen` are PC/SC's current
state and event counter for the reader; `attached`/`listed` the reader and the
watcher's list of readers. `WaitForEvents` turns the difference into the events
of one wake-up, `NextEvent` handles them one after the other (deep refresh, or
clear and fast refresh), each by the cache's own actions. `WaitFails` leads to
`Poll`, the fallback loop. The model has one reader and, as at start-up, one
watcher; delays are not timed. Because the fingerprint is a digest it is never empty once a
refresh has succeeded, so the branches that test for an empty one after that
are not modelled.

A token inserted after the start-up refresh has read the reader and before
the watcher is armed belongs to the watcher's first state and is announced by no
event; the model shows it and no property excludes it. Likewise the certificates
of a removed token may stay cached when another caller published them.

### ConfigStore, ConfigRegister

A configuration is a function from settings to values; `config.toml` holds a
function on some of them, the empty one just after `fs::write` truncated it.
`Update` clones and edits the active configuration; `TakeCopy`/`EditCopy` is
the same with time in between (driver detection, or the settings page that
sends a whole configuration back); `Truncate`, `Write`, `SaveFails` are the
steps of `save_to`; `Replace` is `replace_config`, whose effect on the cache
is in `TokenCache`. `LoadFile` and `CreateFile` are `load()`, with the port
migration and the take-over of the former program's file, which save through
the same steps; `Stop` ends the process anywhere. The take-over keeps the settings but one:
`pin_env`, when it has the former default, gets the new one (`TakenOver`,
`config/mod.rs:167-169`); the file that is there already is not rewritten like this. The kernel
is assumed to keep what was written (no power cuts: the code never syncs). Two saves that
interleave inside the file leave a mixture that does not parse, or the second one's text,
depending on lengths. Hand edits of the file while the program runs are not modelled.

Two ghosts say when file and memory may differ. `met` are the writers between truncation and
replacement who are there, or were, with another one; `astray` that such a pair, or a save cut
short, has left the file to itself. The next update that goes through that section alone
resets it, and so does a start.

`ConfigRegister` is the promise, for any number of writers: one value that outlives the program,
and updates that plan a configuration from the one in force and then have it put in force as
a whole, or not at all. Plans may be out of date, for nothing ties two updates together. At the
end of the program one update under way may be granted and the others are forgotten. `damaged`
is a save that was cut short or met another; it costs nothing before the end of the program. The
refinement takes the value from `active` while the program runs, and from what a
start would load otherwise, so that an update is granted by `replace_config`, or by the file
if the program ends between save and replacement.

### EmbeddedServer

Three kinds of actors. The main thread starts a server at set-up or on request:
`Start` takes the previous task's handle, aborts it and sleeps; the probe binds the
address and lets go of it (`ProbeFails`, `ProbeSucceeds`, `Spawn`). Commands and menu
events run on that thread one at a time, so starts do not overlap. Each task t is
one run of `serve`, with its `pc` and the address it read for itself: it reads the
configuration again, makes or loads the certificate, binds, listens. An abort
acts only where the task awaits (`Suspended`), so an aborted task may go on writing
certificate files beside its successor. The world changes the configuration, takes and
leaves addresses, ends the program (`Exit`) at any point. `cert` and `key` say which
task wrote each file whole, or `Partial`. The 150 ms of the sleep are not timed: the
previous task may be gone by then or not.

`serve` may also fail where nothing is wrong with its configuration or its files: the second
`bind_address` resolves the name anew, and the certificate directory, a file or a socket may be
refused (`SystemRefuses`). All these errors are only logged.

Two ghosts record what the code does not: `undisturbed`, that nothing came between the
last probe and its binding, no other party and no such refusal, and `interrupted`, that a generation of
certificates stopped with a broken pair or two overlapped. `Ok(())` of
`start_embedded_server` only means that the probe worked, and "Activo" in the window
(`ui/app.js:425-442`) only that no error was recorded; `NoErrorMeansServing` says
when that is enough. After an interruption the pair on disk is never made again,
since `ensure_certificate_files` only asks whether the files exist: HTTPS
fails at every start, without a recorded error, until they are deleted.

### SigningWindow

`windowMode === "signing"` of `ui/app.js`. Every task is cut at its awaits:
`loadSessions` (the interval's, and the one that ends a decision) is
`ListSigningSessions`, `ListArrives`, `SelectionArrives`, `CertificatesArrive`;
`resolveSigningSession` is `ClickApprove`, `ApproveSigningSession`,
`ApprovalSucceeded` or `ApprovalFails`, `ApprovalHides`, and likewise for a
rejection; the queue button is `ClickQueue`, `PickArrives`. `pin` does not hold characters
but the session on display when they were typed. `approveEnabled` and
`rejectEnabled` are the buttons as the DOM has them. The table is reduced to a
status per session. The certificate list, the progress texts and the main window
are left out; one identity is always selected.

What the model shows and no property excludes: after approving A the form is cleared
and the window hidden even if a poll already shows B; an error of A
appears under B and empties the PIN field typed for B; while a rejection is in flight a PIN typed
enables the approve button again; the `finally` of a decision
enables the reject button during another approval; a hidden window keeps a typed
PIN; and the interval skips its turns while one of its own polls waits for a reading of the
certificates.

### ManualOutput, PdfSignature

A run r is one click on the button: the dialog for the folder, the batch, the name, the
file. Files on disk are `Absent`, `Other` (another program's), or a run's output, whole or
in part. `UniqueOutputPath` tests one name per step and `Create` uses it
later; a ZIP gets its entries one by one. The button is disabled only after
the dialog has closed (`ui/app.js:1616-1622`), so runs overlap, and the end of one enables
the button for another. The selection may change meanwhile: "Quitar" stays enabled, and adding
or removing a file clears the results on display (`ChangeManualFiles`). The final message
counts the results on display, which all runs share (`counted`); `mixed` records that runs
overlapped or the selection changed in mid-run, and then the number may be another's. A batch is its JSON files and its PDF files, as
`sign_manual_batch` separates them before it signs (`commands.rs:1032-1090`), and has at
least one, or the button stays disabled (`BatchesAssumption`). What the batch
does with the token is `SigningCore`.

`PdfSignature` is a pure algorithm: the document is rewritten with placeholders, the
byte range is patched in, the digest taken, the CMS inserted, each at the first
occurrence of a placeholder. A document is a sequence of tokens, a replacement has
the length of what it replaces, as the code pads it, and documents with equal digests are equal.

What they show besides: `README.md:551-553` says that a failing file is skipped, the
code stops the whole batch; an error while a ZIP is written leaves part of it behind;
signing rewrites the document, so that signatures the source already had stop verifying;
a source with a placeholder left over from an unfinished signature gets that
one patched instead of its own; `append_field_to_acroform_dict` (`signing.rs:353-363`)
replaces an indirect `Fields` entry; the names are `-firmado.pdf` and `.jws`, not those of `README.md:545-548`.

## 3. Runs

| run | checks | expected |
|---|---|---|
| `compatible_sign` | 2 requests, 2 calls, timeout 1: handler and table, safety, refinement, liveness | pass, 411,974 states |
| `signing_calls` | 2 workers, 2 calls of 5 kinds, 2 tokens, 2 drivers, 2 moves: safety | pass, 763,964 states |
| `signing_window` | 2 sessions, 2 loaders, an approval, a rejection, a pick: safety, liveness | pass, 768,418 states |
| `cache_interleavings` | 2 workers, 2 tokens, 2 drivers, 3 calls, 2 moves: safety, every call returns | pass, 996,532 states |
| `watcher_events` | the watcher and one other caller, 2 tokens, 2 moves: safety, liveness | pass, 988,716 states |
| `config_updates` | 2 updaters, 3 settings, 2 values + 1 invalid: safety, refinement, up to symmetry | pass, 82,293 states |
| `server_lifecycle` | 3 starts, 2 addresses, 1 change: safety, every start settles | pass, 720,723 states |
| `manual_output` | 3 runs, 2 batches, counters to 2, 1 foreign file: safety, up to symmetry | pass, 678,887 states |
| `cache_driver` | README.md:481 | violated |
| `config_lost` | 2 updaters: README.md:160 | violated |
| `config_crash` | README.md:327 | violated |
| `window_opens` | README.md:743-744 | violated |

*Bounds.* Sessions: interference needs two calls on one session,
and a second session shows that clean-ups and calls on one leave the other alone; a timeout
of one tick already separates "before" from "after" for age and wait, which
start at different moments. Signing: two calls compete for the lock, and
two portions are the least that can go wrong half way; two moves exchange the
tokens during a call. The requests are a hash, two files of a session as JWS and
as PDF (the second not sound), a batch with both halves, and one
with a single PDF that is not sound. One
driver is in a known place and sees both tokens, the other is only probed.
Cache: a lost race needs two workers; two moves of
the token (in and out, or the reverse) are enough for an older reading to differ
from a newer one; two drivers, of which one knows only one token, make the
probe's order matter. Watcher: the slot starts empty or
not, so two moves are an insertion and a removal in either order, or an exchange of
one token for another. Server: three starts are a predecessor that hangs, its successor and
one that comes after both; one change is a new configuration or a foreign listener, and
two addresses tell the probed one from the bound one. Window: two
sessions are the selected one and the other, also the least that makes a queue; one
approval, one rejection and one pick may be under way at once, as many as the
buttons allow but for repeated rejections; the loader of a decision waits for the
last one's. Manual output: two runs race for a name and a third comes after;
the batches are one PDF signed before, and four files, JSON and PDF, whose names collide, in
a ZIP, with a counter of their own too; runs are symmetric and a foreign file may
take a name once, one of those the runs save under first or second (`OtherNames`). Configuration: two updaters are the
least that can overlap, and are symmetric; the three settings are those the migrations look at;
"old" stands for the former defaults and for any other value; the requests change a setting to and
fro, two at once, or ask for a refused value, and the first files are none, the former
program's, and one edited by hand. `MaxMoves`, `MaxCalls`, `MaxStarts`, `MaxChanges`, `MaxIndex` and `MaxOthers`
bound the environment and stand in guards; deadlock checking is off in the runs where the
program rests when these are used up.

*What the runs show.* The session table is right in every interleaving of the
bound, with two limits: a session whose client went away stays pending for ever
(`PendingOutlivesOnlyDisconnect` is the strongest statement that holds), and a result
sent between the end of the wait and the drop of its receiver is a success for the approver
and an expiry for the requester. A signing
call, however it ends, leaves the reader as it found it, answers all of its files or none,
and never shows a wrong PIN twice; that the certificate in `x5c` is the key's rests on
CKA_IDs being different, which is all the code compares. The
cache's lock discipline is right; two sentences of the README about when it
is emptied are not what the code does. The watcher reflects what it is told,
but an exchange of tokens between two waits is not told. Configuration
updates are atomic to readers, two at a time too, and across the end of the program: they
implement `ConfigRegister`, `save` and `replace_config` being in the right order and `?` between
them. What they are not is aware of each other: `config_lost` shows the setting that a second
updater takes back, and after two saves that overlapped file and memory may differ until the
next lone update; and a crash in the middle of a save costs the settings (`config_crash`). The
handler hands a request to the table only as a fallback and loses none. No restart leaves
a server running unknown, and a start that failed is reported; a recorded success can be
untrue only in the ways the ghosts name, refusals of the operating system among them. The signing window never uses a PIN for another session
than the one it was typed under, nor two approvals at once, and comes back to what
the table says; but it does not open by itself. A save changes no
complete file unless somebody takes the name in between, and what the window reports is so, the
number of files in its message only for runs that did not overlap and whose selection stayed.

Four more things the models show, which no run states:

- `README.md:481-483` says that the cache is invalidated when a read fails; a
  failing listing leaves by `?` and the lists stay (`cache.rs:153`).
- An exchange of tokens between two waits of the watcher is logged as
  "unchanged reader state" (`watcher/mod.rs:85-93`) and refreshes nothing.
- Two updates may be written to the file in one order and become active in the
  other (`handlers/config.rs:18`): file and memory then differ until the next update that is
  alone (`SettledIsPersisted` has the limit, `astray`).
- Resolved sessions leave the table only when somebody lists or asks again.

*Fairness.* Sessions: weak fairness of each handler's steps and of the clock. A
tokio task whose future is ready is polled, `timeout` fires, and the clock runs; a
call is not fair, because a person may walk away and a token may hang, and the
requester must be answered all the same. CompatibleSign: the handler goes on when the
blocking task is over, and nothing is assumed of that task. Signing: no liveness is checked.
Server: `WF(MainStep)`, for a probe returns, and `WF(TaskStep(t))`, for the runtime
polls a ready task and drops an aborted one; nobody has to restart anything,
and a generation need not fail. Window: `WF(LoadStep(l))` only: the interval fires every second
(`ui/app.js:2322-2330`) and commands other than the approval return; nothing is assumed of the
person, the sessions or the token. Manual output: none.
Cache: weak fairness of a started call; a driver call
returns, with a list or an error. Watcher: its task's steps, and its refreshes,
as above; nothing is assumed of people and readers. ConfigStore checks no liveness.

*Mutants.* Each property of a passing run has a mutant, defined just before the
definition it replaces under the heading "Wrong variant": a dropped
guard, a forgotten reset, an ignored error. They are not part of any specification.

## 4. Proofs

Every invariant and every action property of the passing runs is also a theorem, for
every value of the constants; so are the refinement of `ConfigRegister` and the safety part of
that of `SigningDecision`. The
assumptions are the `ASSUME`s of the module a theorem is about, which TLC evaluates
in every run, and nothing else unless the theorem's statement says so: one about CKA_IDs
(they differ) and one about source documents (no placeholder is left over).

| module | about | result |
|---|---|---|
| `CompatibleSignProofs` | SigningSessions, SigningDecision, CompatibleSign | types, five invariants, an action property, the refinement; all of it again under the handler |
| `SigningCoreProofs` | SigningCore | types, four invariants, an action property |
| `TokenCacheProofs` | TokenCache | types, flags, an action property; in any surroundings |
| `TokenWatcherProofs` | TokenWatcher | the cache's theorems in the composition; types, two invariants |
| `ConfigStoreProofs` | ConfigStore, ConfigRegister | types, an invariant and the refinement, for any number of writers |
| `EmbeddedServerProofs` | EmbeddedServer | types, four invariants |
| `SigningWindowProofs` | SigningWindow | types, two invariants |
| `ManualOutputProofs` | PdfSignature, ManualOutput | the signature of any PDF; types, two invariants, an action property |

TLC agrees with each inductive invariant on the instance of the run it belongs to, but for
membership in sets of sequences, which it cannot enumerate.

### The session table and the handler

None of the invariants is inductive alone: that a success was handed over depends
on who held the sender before. `IInv` says where each sender is:

- `SenderWithPending`: the table has it exactly while the session is pending;
- `OneCarrier`: between unlock and send exactly one call carries it, the session
  being resolved and the channel empty;
- `ChannelOrigin`: a filled channel was filled by the call that reports success,
  for a handler that waited, or whose wait was over and whose receiver was not dropped yet;
- `HandlerOrder`, `CallOrder`: nothing is known of a request before its insert;
  calls work on known requests and have an outcome when done.

`InvStep` goes through the actions one by one. `VerdictsAreFinal` and
`Refinement` then follow step by step from `IInv`; for the refinement, three
lemmas classify a step by what it changes of the mapped state.

What the refinement is good for: `DecisionsAreFinal` (what became of a request is what became of
it for good; one that has lapsed expires, whatever call thinks it decided it) and
`SuccessesAreSingle` (every reported success has decided a request, or come too late for
it, no two of them the same one) use `SigningDecision!Next` and the types of the table, and no
other fact about the mechanism.

`TableUnderFlow` says that the handler's behaviours are the table's, its own steps
being stutters there; `TableKeepsItsPromises` lists what is therefore true of the
composition. `AskedOnlyAsFallback` rests on `FlowInv`, which ties the result of
the attempt and the mode to each request that is at or in the table.

### Signing calls

For every set of workers, tokens, drivers and requests of any length. `IInv` adds to
the properties:

- of each job (`JobInv`): a refused call is over; only a hash has no certificate; the
  certificate found has the id asked for; each signature's key has its
  certificate's id; the lists a stage takes apart are there;
- of the session and its owner (`KeyFits`): while a worker signs, the key of the
  session has the id asked for.

`KeyFits` is why an exchange of tokens in mid-call does no harm: it closes the
session, and the next one searches the id again. Three lemmas say what a step
owes by its relation to `PKCS11_ACCESS`: `QuietStep` without it, `HoldingStep` with
it, `ReleaseStep` when giving it up. Every action is one of these.
`DistinctIdsMatch` assumes in its statement that no two tokens share a CKA_ID; the
code compares nothing else.

A second invariant, `WorkInv`, is about one job's files and leads to
`SoundDocumentsOnly` and `SuccessIsComplete`. `Planned` says that there is an order of the
files such that the signatures made are its beginning and the portions left are the rest,
one after the other (`Follows`), and that each portion is of PDFs only or sound
(`Sound`); a batch that is still sorting has the two halves of what it has read, each in
the order of the request (`HalfSorted`), and the order exists from the moment the
halves are put one behind the other. What a step may do to a job's work is one of
eight moves (`Moves`), and the invariant is proved for each move once, not for
each action. A broken PDF never reaches a login because only "preparing", which parses the
documents, leads from "looking" to "locking" when the portion is of PDFs.

### The cache and its watcher

`TokenCacheProofs` is about `OpenSpec`: the refreshes of `cache.rs` among callers that may
ask for anything at any time, clear the cache and move tokens. `CacheSpec` is a case of it
and so is the watcher's composition, which is how the theorems serve both.

- `CacheTypeOK` is inductive and includes the mutual exclusion: `refresh_lock` is
  held by exactly the worker that is between the first probe and the publication.
- `FlagsTellTheContents` is inductive relative to it: every step publishes, clears
  the cache, lets its lifetime pass or leaves it alone (`CacheSteps`), and three
  lemmas say what each leaves behind.
- `ReadingsNeverGoBack` needs more, since a step sees only the two caches: `IInv`
  adds that no listing is from the future (`CacheReadingsArePast`,
  `JobReadingsArePast`) and that a listing in flight is not older than the
  cache it will go into (`JobReadingsAreNewer`). The last is where the lock is
  needed: a publication may leave other listings outdated, but there are none, as
  their owner would hold `refresh_lock` too. `invalidate()`, which does not take
  the lock, only resets the dates.
- `ListingsAreTrue`: a listing dated now shows the token in the slot, or none.

For `HandledEventsAreReflected`, `EventInv` follows one event from `WaitForEvents` to the
end of its refresh: between events the cache is not older than the last change told
(`TokensReflected`), while the watcher's own refresh is past the token listing its
listing is not either (`OwnReadingsReflected`), and the certificates are new enough, or a
deep refresh is still due, or the change was a removal (`DeepIsDue`, `TokenGone`).
`NoReadingGoesBack` closes the argument: other callers publish too, but
nothing older. `AvailableIdentityIsConnected` follows from the flags and `ListingsAreTrue`.

### Configuration

No lock orders two updates, and the theorems do not assume one: they hold for any set of
writers in any order. `SaveInv` says who answers for the file. A writer in its section, from
truncation to replacement, that has met nobody is the only one there (`UnmetAreAlone`), and the
file holds what it has put there (`FileFollowsWriter`). With nobody in a section, and no overlap or
cut-short save since the last lone update, the file loads as the configuration in force
(`UntouchedFileTellsActive`); a file that does not parse comes from such an overlap or cut
(`OnlyStrayFilesGarble`); a start that has to save first saves what the files give
(`BootSavesExpected`). The cases that matter are a writer entering while another one is inside,
which puts both into `met`, and one leaving: as long as a writer of `met` is left, the
file is not trusted, and when the last one goes it leaves `astray` behind.
`SettledMeansPersisted` is then one conjunct.

`UpdatesAreAtomic` is the refinement of `ConfigRegister`, which has no liveness and is
therefore proved whole. Replacing grants a plan; the end of the program grants one plan or
none, by `SaveInv`, unless the register is damaged; the steps of a start, which may save
what they migrate, leave the register alone. It says more than the invariant: a
configuration whose save failed never comes back, since the register has
forgotten the plan. It says nothing of lost updates, which the register allows and
`config_lost` shows.

### Server

For every set of addresses, number of starts and changes:

- `ServerInv`: types, `NoForgottenServer` and `StoppedMeansReported`, with what they
  need of a start under way: tasks are spawned in order, and during the probe the
  previous handle is gone.
- `FilesInv`: a task that writes or loads finds the files there; as long as nothing
  was interrupted one task writes at a time, what it wrote is its own, and a pair that does
  not load has somebody writing it. From it `StoredPairLoads`.
- `ServingInv`: the current task was not aborted; while undisturbed nobody
  else is alive, the address the task will bind is the one probed and is free
  until then, and the task runs. From it `NoErrorMeansServing`. A task may end dropped (it was
  not aborted), for want of a certificate (`FilesInv`) or of its address (`ServingInv`), each
  excluded in turn, or by a refusal of the operating system, which disturbs.

### Signing window

For every set of sessions: `WindowInv` adds to the two
properties that the PIN field holds the session on display or nothing, that
`signingInProgress` is set from the click to the end of the approval, and that the
button is enabled only over a PIN and while it is not set.
Every action that changes the display empties the field in the same
task, with no await between: that is the whole argument. The types need that a
set of sessions, of any size, has a first one in the list's order; `OldestExists` has it
from the library's theorem that `<` on the naturals is well founded.

### Manual output

`SignedPdfsVerify` is not about behaviours but about every
source document. If it has no placeholder, the first ones found are those just
added, after the rewritten source; the patch leaves the other placeholder where it was; the
digest is of the patched file, and inserting the CMS changes none of the bytes digested.

`OutputInv` is about the runs, any number of them in one folder: how many documents a run has
(`Progress`), that the entries of its ZIP differ (`Listed`) and what its name holds from the test on,
provided nobody took it (`Holds`). The hard part is `unique_zip_entry_name`, whose
loop must find a free name: a pigeonhole argument, with one name more to try than there are
entries. `Counts` is a second invariant: until runs mix one of them works at a time, and the results
on display are its own from the batch on. `ReportsAreTrue` and `CompleteFilesAreKept` follow.

### Only model-checked

Liveness, since fairness is out of the prover's reach: `EveryCallReturns`,
`EveryAttemptLeadsToAnAnswer`, `PollingCatchesUp`, `ServersSettle`, `SelectionIsShown`,
`EndedSessionLeaves` and the liveness conjunct of `ImplementsDecision`. The properties of
the four runs that expect a violation are false and have no theorem.

## 5. Plan

What is left, in this order:

1. For `SigningCore`, that a call is one atomic answer.
2. That the answer of `SigningCore` is what `SigningSessions` assumes of its step
   `SignPreparedFiles`.

## 6. Not modelled

- ASN.1, the PDF object graph, HTTP formatting, certificate parsing: data.
- PKCS#12 virtual tokens (`core/pkcs12`): sequential file and OpenSSL work; no
  state survives a call. A PKCS#12 identity touches no token and takes no lock.
- Validation and diagnostics (`core/validation`), verification: pure functions over
  bytes and ASN.1; there is nothing between the input and the verdict for a
  model to abstract from but the parsing itself.
- The desktop's pages other than the signing window and manual signing: forms that
  invoke one command each; the commands that change the configuration are `ConfigStore`'s.
- Several watcher loops (`main.rs:50` starts one more each time).
- Packaging, scripts, styles.
