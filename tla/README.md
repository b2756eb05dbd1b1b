# TLA+ model of SnapDog OS

SnapDog OS is a Buildroot image for Raspberry Pi with two root file systems.
Its controller `snapdog-ctrl` (Rust) serves the web UI and the API, fetches and
installs firmware bundles through RAUC, edits the configuration of the audio
server and sets up the network; shell scripts and units decide, boot by boot,
which slot runs; `snapdog-update` drives an update from another computer. The
modules here model these parts. This file says what is in them, what TLC and
TLAPS show, and what is left out.

Paths below are relative to the repository; `ctrl/` stands for
`snapdog-ctrl/src/` and `rauc/` for `buildroot/package/snapdog-rauc/`.

## 1. Inventory

| Component | State it keeps | Operations | Hard behaviour | What makes it correct | Module |
|---|---|---|---|---|---|
| **A/B backend and health gate**: `rauc/boot-handler.sh`, `rauc-commit.sh`, `rauc-mark-good.service`, `rauc-trial-failed.service`, `tryboot-reboot.c` | `cmdline.txt`, `tryboot.txt`, `tryboot-cmdline.txt` (on the FAT boot partition), the slot-state file (on `/data`), the firmware's one-shot flag, the rootfs slots | `set-primary` (arm), `set-state`, `commit` (promote or drop), probe loop, reboot on failure | power loss between and inside file operations that are synced only at their end; probes against crashes and restarts of the controller; hung boots | the committed slot always holds a proven image; a trial is promoted only by the gate, and is decided; nothing of a trial is forgotten before its verdict | `TryBoot` |
| **Automatic update and rollback tracking**: `ctrl/auto_update.rs`, `ctrl/system.rs` (`reboot`, `reconcile_pending_update`, `decide_update`, `factory_reset`) | `snapdog-os.pending-update`, `snapdog-os.failed-update`, the last run in `ctrl.toml` | daily tick, install and reboot, reboot by the owner, reconcile at start | the verdict is inferred at the next start, from files another program also writes | a release that never starts is not installed over and over; a sound release is taken in the end | `OtaLoop` |
| **Update coordinator**: `ctrl/update.rs`, `ctrl/rauc.rs`, update handlers of `ctrl/routes.rs` | `BUSY`/`ACTIVE`, recovery marker in `/run`, four staging files, the progress last published; RAUC's operation, last error, primary | upload, install uploaded, install online, status poll | async handlers interleaved at every await; restart of the controller under a running RAUC; stale answers | one installation at a time; the guard comes back; an interrupted update is settled; "ready" means armed and written to its end, as far as RAUC's error tells | `UpdateCoordinator` |
| **Server configuration**: `ctrl/server_config.rs`, the server card of `webui/src/app/page.tsx` | `snapdog.toml`, its backup, the staged candidate, the apply lock, the pages' copies | parse, edit, validate, write, stage, check, activate, try out, roll back; enable and disable | a page's copy gets stale; lists are rebuilt by position; a stop between activation and verdict; concurrent saves and a lockless switch | a save changes what its user changed; no page's save is lost to another's; what is active was checked; the way back is kept | `ServerDocument`, `ServerApply` |
| **Network and setup access point**: `ctrl/network.rs`, `captive_dns.rs`, the access point task of `main.rs` | networkd profiles, `wpa_supplicant.conf`, hostapd, supplicant, the DNS responder | start/stop AP, connect, disconnect, scan, wired profile | start unlocked against stop locked; deferred teardown; 30 s wait | an unreachable device opens the AP; a connection asked for ends in client mode | `NetworkSetup` |
| **Controller configuration and authentication**: `ctrl/system.rs` (`ctrl.toml`), `auth.rs`, `settings.rs` (import) | `ctrl.toml` and its `.tmp`, password hash, tokens, lockout counters, the SSH flag and unit | read-modify-write by several handlers and startup tasks, login, change of password, import | one `.tmp` name, no lock; memory changed before disk; lockout check apart from its count | a save changes its section only; the password asked for is the one on disk; the lockout fits the count | `ControllerConfig` |
| **Command-line updater**: `snapdog-update/src/` | what it saw of the device before and since | checks, upload, install, poll, reboot, wait | answers lost or stale, short installations missed by polling, the deadline | ends, with the right verdict | `UpdateClient` |
| **Startup**: `ctrl/main.rs` | – | reconcile, migrations, setup access point, serve | startup reboots inside a trial | reconcile before anything reads its files | parts in `OtaLoop`, `NetworkSetup`, `ControllerConfig` |
| **Boot file editing**: `ctrl/tuning/`, `config_txt.rs` | `cmdline.txt`, `config.txt`, the read-only mount of `/boot` | apply tuning, set DAC | runs beside `commit`; two writers remount | never rewrites the slot selection from a stale copy | – |
| **Schedule and versions**: `ctrl/schedule.rs`, `version_is_newer` | last-run date | gates, ordering | boundaries, clock set back | the order is total where it must be | – |
| **Release storage tools**: `tools/r2_*.py`, `scripts/release_manifest.py` | lock object, aliases, manifests | lease lock, retention, repair | lost lease, two holders | a live release is never deleted | – |
| WebSocket, mDNS, now playing; mock backend; data-partition scripts; other pages of the web UI; build and CI | – | pass-through, or once and alone | – | – | – |

### How they interact

`auto_update::tick` and the HTTP handlers call the coordinator, which asks RAUC
over D-Bus. RAUC writes the slot that is not booted and calls
`boot-handler.sh set-state` and `set-primary`, which edit the boot partition.
`system::reboot` records the pending version and asks the firmware (through
`tryboot-reboot`) for one boot with `tryboot.txt`. In that boot systemd starts
`snapdog-ctrl` and `rauc-commit.sh`; the latter probes the former's
`/api/system/health`, and `rauc status mark-good` ends in `boot-handler.sh
commit`. If `snapdog-ctrl` exhausts its start limit, `rauc-trial-failed.service`
reboots the machine into the committed slot. The next start of `snapdog-ctrl`
reads the verdict from which version is running (`reconcile_pending_update`).
`snapdog-update` uploads, installs, polls and reboots through the same HTTP API
and judges by what it reads of the version and the slots.

Beside this, pages of the web UI read and save `snapdog.toml` (through the
apply lock and the server's own `--check-config`), sections of `ctrl.toml`
(which the startup tasks and the automatic update write too) and the network
settings; the startup task of `main.rs` opens the setup access point and the
requests that reach the device through it close it.

## 2. Modules

| Module | Models | Composes |
|---|---|---|
| `SlotTrial` | the abstract A/B trial: committed slot, slot on trial, running slot, one-shot request | – |
| `TryBoot` | the backend, the units, the probe loop, `/api/system/reboot` and factory reset as far as they reach it, the firmware, RAUC's calls of the backend, power | implements `SlotTrial` (refinement mapping) |
| `OtaLoop` | auto-update tick, pending and failed markers, reconcile, owner's installs and reboots, releases | extends `TryBoot`, whose actions it constrains and adds to |
| `UpdateCoordinator` | guard, recovery marker, staging files, three ways to install, status poll, RAUC as seen on the bus | – |
| `UpdateClient` | the command-line updater against a device | `SlotTrial` as the way the device boots |
| `ServerDocument` | reading, editing, validating and writing `snapdog.toml`, revisions | – |
| `ServerApply` | the lock, staging, check, activation, trial and rollback of a save; the server's switch | names the documents of `ServerDocument` only |
| `NetworkSetup` | setup access point, Wi-Fi and wired requests, scans | – |
| `ControllerConfig` | `ctrl.toml`, password, tokens, lockout, SSH switch, import | – |
| `TryBootProofs`, `OtaLoopProofs`, `UpdateCoordinatorProofs`, `ServerApplyProofs`, `ControllerConfigProofs`, `UpdateClientProofs`, `NetworkSetupProofs`, `ServerDocumentProofs` | theorems | the module of that name, `TLAPS` |
| `MC…` | the instances for TLC | the module of that name |

### TryBoot

The variables are the files (`cmdline`, `tryCmdline`, `tryTxt`, `slotState`),
the images in the slots, the firmware's `booted` and `flag`, one program counter
per process (`ctrl`, `commitPc`, `installPc`, `rebootPc`) and bounds. One action
is one file operation where a power loss may fall between two of them: `commit`
is `CommitRead`, `CommitTruncate`/`CommitWrite` (the plain `cp`),
`CommitClearState`/`CommitSetBad` (`set_state` deletes the line and then appends
it), `CommitRmTxt`, `CommitRmCmdline`, `CommitSync`. `write_cmdline` writes a
temporary file and moves it, one step to the programs that look at it.

Neither it nor `rm` nor `cp` syncs; the one `sync` is at the end of
`with_boot_rw` (`boot-handler.sh:73`), and `/boot` is vfat, mounted without
`sync`. So every file is there twice: as programs see it, and as the medium
has it since the last sync (`cmdlineSynced` and so on). `PowerLoss` may fall at
every step and leaves each file, on its own and in any order, as it is, as it was
at the last sync, or without its content (`Left`); inside `cp` also when
`TornCopy` is TRUE. The slot state, on `/data`, may be lost or kept in the same
way. `GoDown`, a reboot by systemd or by the tryboot helper (which calls `sync`
first), writes everything out.

An image is one of four kinds, by what a boot of it does: `Boots` reach
userspace, `Serves` answer the probe at least at first, `Sound` stay up. `proven`
is auxiliary: the image of a slot has passed the gate.

`early` counts the installations begun while the trial of the running boot is
not settled, up to `MaxEarly`. No code prevents them (finding 2), so the
properties say "as long as `early = 0`", the theorems hold with any number of
them, and the run `TryBoot_early` shows that `CommittedGood`, which has no such
condition, is false.

### OtaLoop

An image stands for its version. Every action of `TryBoot` appears in `OtaNext`,
with what it does to the markers and the tick (`Die`: the process is gone; the
markers are files and stay). `RecordTrial` is what `reboot()` writes before the
request. `ran` and `lost` are auxiliary: the recorded trial started last, and
the versions whose recorded trial was rolled back since the owner last
installed something or reset the device, less those whose controller has started
since and those newer than a version the tick has installed since: its trial
replaces the one record there is. A version whose controller starts in its trial
is confirmed by that start, as in `reconcile_pending_update`. A factory reset
removes the state files one after the other (`ResetMarkers`).

### UpdateCoordinator

Handlers are cut at their awaits. `busy` is `BUSY` with `ACTIVE`: nobody, an
upload, or an installation; `op` and `src` say where the holder of the guard is
and which bundle it works on; `passed` are requests that have passed their
checks and have not taken the guard yet. A status poll (`poll`) holds no guard and
reads `is_active`, RAUC's operation, its error, its primary and the marker at
five different moments, and everything else may happen in between. Percentages
and texts are left out; an error is `NoError` or a member of `Errors`, because
`terminal_recovery_progress` compares it with its baseline. `Restart` loses the
memory of the controller and leaves RAUC, `/run` and the staging files alone.
`fit` and `blind` are auxiliary: whether the slot RAUC writes was last written to
its end, and whether nothing tells the end of the last installation from a
success (below).

### UpdateClient

The device boots by the actions of `SlotTrial` – the abstraction that `TryBoot`
is shown to implement – and its requests are one step each, with what
`UpdateCoordinator` details left out. The updater's `pc` follows
`perform_update` from `preflight_auth` to `wait_for_reboot`; `prev` is what it
read before, `saw` whether it has seen "installing". `mishaps` names what went
wrong, each kind at most once: a power cut, a crash of the controller, a lost
answer, a rejected bundle, a bus error, another client, an installation over
before the first look. Every property says which of these it excepts.
A power cut may lose a trial or bring the file of an old one back. The sleep
before a look of `wait_for_reboot` ends with the deadline; the look after it is
still made and may succeed (`update.rs:264-270`, the label `last`); requests that are
not under the deadline end with the HTTP client's own 30 s. At the start no slot
is armed by an earlier run of the tool.

### ServerDocument

A document is what its tables hold. `Top` to `Radio`, one per struct of
`server_config.rs`, joined in `Tables`, are the table of contents of
`parse_document` and `apply_config`: for every key its type, what is shown when
it is missing, and whether it is left out at that value, when blank as well, or
never (`Key`). `Read` is what a page shows, `Write` what a save puts into the
document on disk, `Valid` what `validate` refuses; `Edit…`, `Toggle`, `AddEntry`, `RemoveEntry` are the
fields and buttons of the page, and an entry of a list remembers the position
it was read from (`source`), by which a save finds its unknown keys again. The
revision, a hash of the text, is the document itself.

### ServerApply

One `pc` per `PUT /server` with a label for each operation of
`apply_and_restart` after which another task, a hang-up (`Drop`), a restart of
the controller or a failing operation (`Fault`) can come in. The configuration
a page saves is named after the page. `proven` observes which configurations
were found healthy. A dropped handler's file write goes on in tokio's blocking
pool, after the lock is free: `Drop` leaves it in `late`, `Land` ends it at any
later moment, and `stray` remembers that it ended while another save held the
lock. A durable write that fails may have happened (its directory sync is last).
`Enable`, `Create`, `Fill`, `Disable`, `SetFlag` and `SetUnit` are the switch,
which takes no lock; `covered` remembers that it wrote the template over a file
that was not there when it looked.

### NetworkSetup

`setup` follows `manage_setup_ap` and `start_ap`, `teardown[t]` the run of
`stop_ap` by a task (the startup task or the deferred one of a connection),
`pc[r]` a request. `loaded` and `applied` are the wireless profile networkd has
read and applied, so that a file, a reload and a reconfigure are three things.
A failing command (a reconfigure and a restart of the supplicant included) ends
its task and undoes nothing. `ConnectCheck` and `ConnectRestart` are apart: the
look at the access point and what a connection does then have awaits between
them, and `start_ap` takes no lock. `ScanResults` is what
`parse_scan_results` may make of the lines of a scan: `Best` is its map, the
fold over the lines, and since the map is read out in no particular order and
the sort is stable, any listing by strength is a result.

### ControllerConfig

A file is a record with one value per section; a file cut off does not parse
and is read as an empty one, so both are `Blank`. A save is `Read` (read, parse,
change), `Truncate`, `Write`, `Rename` on the one name `ctrl.toml.tmp`; `fd` is
the file a task has open, which a rename by another task moves under it. A
dropped handler's write goes on in its thread (`lastwrite`). A read that fails is
an empty file too (`unwrap_or_default`), and the save after it wipes the other
sections; each step of `set_service` can fail and end it (`SwitchFails`).
`trouble` observes, since the controller last started, which kinds of overlap
have happened, what was cut off or failed in its middle, and whether a section
can have been lost (`lost`), so that a property can say exactly when it does not
hold.

## 3. Runs

| Run | Question | Bounds |
|---|---|---|
| `TryBoot` | Is the committed slot always a proven one (`LastKnownGood`), `tryboot.txt` left dangling by nothing but a power loss inside an unsynced script (`TrialConfigUsable`), and a hung boot then followed by a good one (`FallsBack`)? Is a trial never forgotten without verdict (`NoTrialForgotten`) nor promoted without the gate (`PromoteOnlyHealthy`)? Is every trial decided (`TrialDecided`)? Do files and scripts implement `SlotTrial` (`ImplementsSlotTrial`)? | 2 installs, none early, 2 power losses, 1 transient failure, 2 reboots or resets, 4 kinds of image, gate 2 of 3 |
| `OtaLoop` | Is a version rolled back before its controller started not installed again by itself (`NoReinstallLoop`)? Is a sound release taken in the end, past a broken one and the owner's own doings (`UpdateTaken`)? | 1 install, 1 reboot or reset by the owner, 1 power loss (inside `cp` too), 1 failure; two sound releases and one between them whose controller fails as it starts, before or after it is confirmed |
| `Coordinator` | Is only an armed slot reported ready, and one written to its end where RAUC's error tells (`ReadyIsArmed`), no truncated bundle opened (`OnlyWholeBundles`), one installation at a time (`OneInstallation`), the guard handed back (`GuardReleased`), a marker settled (`MarkerSettles`)? | 1 restart, 1 death of RAUC, 1 failing bus call |
| `Document_saves` | Is what a form saved what the next page shows (`EditsTake`)? Does a save change only what its user changed (`OnlyEditsChange`)? Does what the editor does not know stay with its entry (`UnknownFollows`)? | 2 pages, 2 edits, 1 save each; for every key the documents with that key missing, mistyped, at each value, legacy or inline |
| `Apply` | One holder of the lock (`ApplyTypeOK`), only checked files active (`OnlyChecked`), the way back kept (`WayBack`), nothing but the active file runs between trials, as long as no template was written over it (`RunsActive`), no page's save lost to another's (`NoSaveLost`), every save answered (`Answered`), the server back after a bad one (`ComesBack`)? | 3 pages (a good, a failing, a rejected configuration), 1 click on the switch, 1 fault at any step |
| `Network` | Does a scan show the strongest beacon of each name (`StrongestShown`)? Does a connection end for good in client mode (`Connects`), an unreachable device open its access point (`ApOpens`), the radio settle (`RadioSettles`)? | 2 requests, 1 fault, 1 change of the wired link, 1 look for a link; a scan that hears one name better the second time and one worse, a beacon without a name, and two names equally well |
| `Settings` | Is the password asked for the one on disk (`PasswordOnDisk`), does its change end older sessions (`TokensCurrent`), does the lockout fit the count (`LockFits`), the SSH server the file (`SshAsSaved`), a save its section (`OneSection`), and is the legacy channel kept (`ChannelKept`)? | 2 requests, one of any kind beside a login or a switch of SSH, the three startup tasks, 1 fault, 0, 3 or 9 failed logins before |
| `Client` | Is a success the user's own image (`SuccessIsMine`), a reboot asked for only into a whole slot (`RebootsWhole`), a failure a real one (`FailureIsReal`)? Does every run end (`Decided`), a sound update in success (`Succeeds`)? | 3 mishaps of 7 kinds; a newer image, a twin of the running one, one that may not come up |

Why the bounds are enough. The hazards of the A/B backend are about *one* trial
and what the next one finds: two installs let a second trial follow a promoted,
a failed and a dropped one; two power losses let the second fall in the
clean-up after the first; two reboots cover the request and one that comes at
the wrong moment. The slots are two by construction. The gate needs two probes
in a row so that a reset of the count matters; its real numbers (`NEED_OK`,
`MAX_PROBES`, `RestartSec` against `INTERVAL`) enter as ratios and the proofs
hold for all of them. In the update loop the broken release is published
between two sound ones, and automatic installs are not bounded by anything but
the releases. In the coordinator the guard admits one flow, the requests not yet
at the guard are a set of the two bundles, and one poll at a time already has
every step of an installation between its reads; two polls would share only the
marker and the files, which each of them settles alone. In `Apply` the third
page matters: one on trial, one waiting, one refused for its revision.
`Document_saves` varies one key at a time: the reader and the writer treat keys
one by one, and entries of a list as wholes, which is why the edits of a run are
those of that key and the list it is in; there is a second zone and a second
client so that positions can shift. `Network` looks for a link once instead of
ten times before it opens the access point: more looks change nothing that is
read, and requests come before, during and after the start all the same. `Settings` starts at the counts
where the delay begins and where it is capped; two changes of the password that
overlap are among the exceptions, and the proofs have any number of requests. Seven kinds of mishap, three of
them at a time, are what `Client` needs for a crash, a lost answer and an
installation that fails to meet.

Deadlock is not checked: in every module the environment is bounded or acts
when it likes (installs, requests, saves, mishaps), and a machine, a device or
a page with nothing left to do stops. That nothing stops while work is left is
what the liveness properties say.

### Disagreements found (runs that must be violated)

1. `TryBoot_password`: with a web UI password set the probe of
   `/api/system/health` gets 401 (`ctrl/auth.rs:158`), although
   `rauc-commit.sh:16-17` calls it unauthenticated. No trial is ever committed.
2. `TryBoot_early`: nothing makes an installation wait for the running trial to
   be committed; it then overwrites the slot `cmdline.txt` selects
   (`CommittedGood`), against `boot-handler.sh:4-7`.
3. `Apply_cut`: the rollback is the tail of the request's handler. A client that
   hangs up, a stop of the controller or an activation whose directory cannot be
   synced leaves the new configuration active though it never proved healthy,
   against `ctrl/server_config.rs:400-401`.
4. `Settings_tmp`: all writers of `ctrl.toml` share `ctrl.toml.tmp`, so the rename
   of one can publish what the other has just truncated, against "atomically" at
   `ctrl/system.rs:1959`.

Behaviour of this kind that the models contain and no run of its own shows:

- `commit` copies onto `cmdline.txt` in place (`boot-handler.sh:165`): a power
  loss inside leaves a normal boot nothing to read. `LastKnownGood` excepts a
  torn `cmdline.txt`; `OtaLoop` and the proofs include it.
- The pending version is confirmed when `snapdog-ctrl` starts in the trial, not
  when the gate passes (`ctrl/system.rs:1260`). A release whose controller starts
  and then fails is rolled back, leaves no record and is installed again at the
  next due tick, over and over, against `ctrl/system.rs:908-911`. The run
  `OtaLoop` contains it (the release `crash`, which may fail as it starts or just
  after); `NoReinstallLoop` states it as its exception: it is about versions
  lost before their controller started.
- For the backend a trial that never started is a failed one: `commit` cannot tell
  (`boot-handler.sh:166`), marks its slot bad and removes it. `SlotTrial` allows
  this too (`Forget`).
- The record of a failed update holds one version. An installation by the owner
  that fails in its turn, or a re-installation of the running version, replaces
  or drops it, and the automatic update tries the broken release once more;
  hence "since the owner last installed" in `lost`. So does the trial of an older
  version: a release tried before the channel named it is forgotten when the
  channel's own, older one is tried, and is met again as the next release.
- A power loss between `record_pending` and the trial boot marks a version failed
  that never ran; a reboot asked for during an unsettled trial records the
  version of the wrong slot.
- A status poll with an old terminal marker deletes an upload that waits to be
  installed (`ctrl/update.rs:773`), against `ctrl/routes.rs:1104-1106`; and a poll
  that began before a second installation judges it by stale answers
  (`ctrl/routes.rs:1003`).
- After a restart of the controller a failed installation is reported as ready to
  reboot, into a slot that may be half written, when an earlier one has armed
  that slot and nothing tells the failure apart (`ctrl/update.rs:864-880`): RAUC was
  not asked any more or refused, it died, it failed with the text it showed before,
  its error could not be read, or a poll was under way. `ReadyIsArmed` excepts
  these (`blind`) and no others.
- A RAUC that cannot be read is taken for an idle one (`ctrl/routes.rs:1080`), and two
  installations may then be under way; `OneInstallation` excepts it.
- A poll may remove the very file RAUC is about to open. `OnlyWholeBundles` says
  that a file that is there is whole.
- `has_connectivity` counts the access point's own address (`ctrl/system.rs:375`),
  so the loop that should wait for a real link closes the access point at its
  first look, against `ctrl/main.rs:183-184`. `ApOpens` asks that it opens, not
  that it stays.
- Inline tables and lists of `snapdog.toml` are shown as absent. The next save
  drops an inline list with all its entries, an inline integration and an inline
  KNX table, with the keys the editor does not know, against `README.md:183-186`;
  `UnknownFollows` excepts these three. An inline section (`http = { .. }`) keeps
  its keys and takes no edit: the save succeeds and changes nothing in it
  (`Frozen`).
- A KNX address under its older name comes back when its field is cleared
  (`Shadowed`). Worse, a blank newer name beside an older one, which is shown as
  no address, is removed by any save, whatever it edits, and the older one is
  then shown and used (`Overruled`; `get_optional_str_alias`,
  `ctrl/server_config.rs:1738`). Both are against `README.md:184-186`. `Frozen`,
  `Shadowed` and `Overruled` are the only exceptions `EditsTake` and
  `OnlyEditsChange` make, and the proofs show that there are no others.
- Disabling the server while a configuration is on trial can leave a disabled
  server running: the rollback restarts it. Enabling it can write the template
  over a configuration saved since it looked for the file
  (`ctrl/routes.rs:1647-1653`); the saved one runs until the next restart and is gone
  then (`covered`).
- The write of a client that hung up can end under the lock of another save: the
  server then checks the one's candidate, and the other's text becomes active
  (`stray`).
- A scan that had found no configuration writes its own over one a connection has
  just made (`ctrl/network.rs:203-214`); the teardown only starts a supplicant, which
  may already run with the old configuration; and a cable pulled after the page was
  reached through it may leave hostapd running without its profile. `Connects`
  and `RadioSettles` except these.
- Two saves of `ctrl.toml` that cross lose one's section, and a save after a read
  that failed loses all the others. This happens at startup as well: the setup
  access point's read (`ctrl/main.rs:129`, `200`) runs beside the migration of the update
  channel (`ctrl/main.rs:294`), whose file is then removed. A change of the password
  that fails or is dropped leaves hash, file and tokens at odds (the tokens are
  then not revoked); a switch of SSH that fails or is dropped leaves the unit and
  the file at odds; two failed logins recorded at once can shorten the delay. Each
  lasts until the controller starts again, a lost section for good. The properties
  of `Settings` except each of them, named in their comments, and hold
  otherwise.
- `snapdog-update` calls an update a success when the new slot has come up, which
  is before the gate has committed it; a device that has forgotten the session
  after its reboot (web password) looks to it like one that is down until the
  deadline; and an installation shorter than its polling interval is never
  taken for done. `Succeeds` excepts the latter two.

## 4. Fairness

All of it is weak fairness, and nothing is assumed of owners, pages, other
clients, power losses, restarts or failing operations.

| Specification | Assumed | Because |
|---|---|---|
| `TryBoot!FairSpec` | the firmware boots a machine that is off, the units start and restart, scripts and RAUC take their next step, a hung boot is reset, an unsound image eventually fails, `OnFailure=` fires, an accepted reboot happens | firmware and watchdog; `Restart=on-failure`, `WantedBy=` in the units; the shell runs on |
| `OtaLoop!OtaFairSpec` | the same, and days pass and the tick runs | the timer loop of `auto_update.rs` |
| `UpdateCoordinator!FairSpec` | tokio runs a task that can go on, RAUC ends an installation it has begun, some page polls the status | the web UI polls while it is open; `MarkerSettles` is about what it is then told |
| `ServerApply!FairSpec` | a handler or click that can go on does; fairness between the waiters of the lock is not assumed | tokio; the pages save once, so no waiter can be overtaken for ever |
| `NetworkSetup!FairSpec` | the startup task, teardowns and requests go on | tokio; commands have an exit. Joining a network is not assumed |
| `UpdateClient!FairSpec` | the device finishes what it has begun (boots, serves, settles, ends an installation), the updater's next step is taken, its deadline passes when it waits in vain | as above; the loops of `update.rs` run until the deadline |

`ServerDocument` and `ControllerConfig` state no fairness: their properties are
invariants and action properties.

## 5. Proofs

All are for every value of the constants under the named assumptions of their
modules; what more a theorem assumes is in the last column. The assumptions say
what the constants are (sets of images, pages, beacons, bounds that are numbers)
and no more than the code gives: that a slot has another one beside it
(`SlotsAssumption`, `system.conf.in`), that the order of versions is by numbers
(`RankAssumption`), that a beacon has a name and a strength (`AirAssumption`).
For `snapdog.toml`: that what the file holds at first, and what the advanced editor
writes, is TOML whose keys have a value of their type or an odd one
(`DocumentsAssumption`), that what is typed is of the type of its field
(`TypedAssumption`), and that the marks `Missing` and `Odd` are no values
(`AbsentAssumption`).

What a property excepts is in its formula and in its comment, and a theorem about
it says no more: those of `TryBootProofs` and `OtaLoopProofs` are about behaviours in
which no installation has begun early (`early = 0`), which the code does not
prevent; those of `ControllerConfigProofs` about what has not overlapped or
failed.

| Module | Theorem | States | Assumes more |
|---|---|---|---|
| `TryBootProofs` | `TypeCorrect` | `[]TypeOK` | – |
| | `Invariant` | `[](early = 0 => IInv)` | – |
| | `CommittedIsKnownGood` | `[]LastKnownGood` | – |
| | `TrialPointerSound`, `PromotionIsHealthy`, `VerdictBeforeForgetting` | `TrialConfigUsable`, `PromoteOnlyHealthy`, `NoTrialForgotten` | – |
| | `Refinement` | `ImplementsSlotTrial` | `MaxEarly = 0`, `~TornCopy` |
| `OtaLoopProofs` | `LoopInvariant` | `OtaSpec => []LoopSafe` | – |
| | `LoopKnownGood`, `LoopPointerSound`, `LoopPromotions`, `LoopForgetsNothing` | `OtaSpec =>` `[]LastKnownGood`, `TrialConfigUsable`, `PromoteOnlyHealthy`, `NoTrialForgotten` | – |
| | `UnstartedStayRefused` | `OtaSpec => NoReinstallLoop` | – |
| | `LoopRefines` | `OtaSpec => ImplementsSlotTrial` | `MaxEarly = 0`, `~TornCopy` |
| `UpdateCoordinatorProofs` | `CoordinatorInvariant` | `[]CInv` | – |
| | `CoordinatorTyped`, `NoFalseReady`, `NoCutBundle`, `OneAtATime` | `[]TypeOK`, `[]ReadyIsArmed`, `[]OnlyWholeBundles`, `[]OneInstallation` | – |
| `ServerApplyProofs` | `ApplyInvariant` | `[]AInv` | – |
| | `OneHolder`, `ActiveIsChecked`, `WayBackKept`, `ActiveIsRunning` | `[]ApplyTypeOK`, `[]OnlyChecked`, `[]WayBack`, `[]RunsActive` | – |
| | `EverySaveSeen` | `NoSaveLost` | – |
| `ControllerConfigProofs` | `SettingsInvariant` | `[]SInv` | – |
| | `PasswordPersists`, `SessionsEnd`, `SshFollows` | `[]PasswordOnDisk`, `[]TokensCurrent`, `[]SshAsSaved` | – |
| | `SavesApart`, `ChannelSurvives` | `OneSection`, `ChannelKept` | – |
| | `LockoutFits` | `[]LockFits` | – |
| `UpdateClientProofs` | `TypesHold`, `SuccessIsTheSentImage` | `[]TypeOK`, `[]SuccessIsMine` | – |
| | `RebootsOnlyWhole`, `FailuresAreReal` | `RebootsWhole`, `FailureIsReal` | – |
| `NetworkSetupProofs` | `ScansShowStrongest` | `[]StrongestShown` | – |
| `ServerDocumentProofs` | `DocumentInvariant` | `[]IInv` | – |
| | `SavedIsShown` | `[]EditsTake` | – |
| | `SavesChangeEdits`, `UnknownKept` | `OnlyEditsChange`, `UnknownFollows` | – |

**TryBoot.** `LastKnownGood` is not inductive: that a copy in progress writes a
proven slot needs to know why `commit` is where it is, and that nobody writes
that slot meanwhile. `IInv`, which holds as long as `early = 0`, is the conjunction
of `TypeOK` with six named parts: `Gate_OK` (the ranges of the probe counters;
`commit` copies a file that is there), `Phases` (an installation does not run
beside an undecided trial), `Medium_OK` (what the medium may still hold of each
file, while a script is before its sync), `Images_OK` (a proven image boots, the
slot `cmdline.txt` names is proven, there and on the medium, and it is torn only
while `commit` writes it or after a stop inside that), `Commit_OK` (what `commit`
knows at each of its steps, and that it still holds) and `Trial_OK` (a slot
other than the committed one runs only as the armed trial). `TypeStep` and
`InvStep` have one step per action; lemmas about `GoDown` and `PowerLoss` are
shared by the ways the machine stops. That a power loss keeps `IInv` is the
lemma `PowerLossStep`: whatever mixture of old, new and empty files it leaves,
the next normal boot is of a proven slot.

**OtaLoop.** `LoopStep` shows that a step of the loop is a step of `TryBoot`, a
stutter on its variables, or a `TickStep`, an installation or reboot that the
tick begins; those are not steps of `TryBoot`, because there the owner's are
counted. `TickInv` shows that they keep `IInv` too and `TickHidden` that the
abstract trial does not see them, so the invariant and the refinement over, and with them the pointer, the promotions and the traces of a trial.
`Loop_OK` has the types of what the loop adds.

That a lost version is not installed again is an argument about three pieces of
state none of which stays: the slot it is in, the pending marker, the failed
marker. `Attempted` says that a trial whose controller has not confirmed it leaves
its marker for the next boot, `Remembered` that from then on a lost version stays
in its slot and is either still pending with `reconcile` not past its verdict
(`Unjudged`), or recorded as failed with nothing about to replace that
(`Recorded`) – unless the channel has gone past it – and `Superseded` that
nothing is installed, and so no slot overwritten and no record replaced, before it
has. `Cleared` is why `lost` says no more than the code keeps: a version whose
controller starts is no longer in it, since `reconcile` confirms it by that start.
Most steps touch none of this (`Quiet`); `NotAgain` is the step of the tick. It holds
for any releases, those that fail after their controller has started included;
about these it says nothing, as the list above does. The proof did not go through
with `lost` as it first was: a version the owner tried before the channel named
it loses its record to the trial of an older one, so `lost` leaves it out.

**UpdateCoordinator.** `ReadyIsArmed` and `OneInstallation` each need more than
they say: that an installation whose success is known to anybody (the signal,
the handler on its way to publish it, a poll that has read the primary) is armed
(`Armed_OK`); and that, as long as the bus has always answered, RAUC is busy
only with the installation the guard's holder waits for, or after a restart
while nobody is past the checks (`Guard_OK`). `Done_OK` says that what the
coordinator itself calls ready was written to its end, `Fit_OK` what tells a slot
left half written from a success afterwards: a new error, or no marker that could
still become one – unless the installation was `blind`. That a bundle has its final name
only when it is whole is `Staged_OK`.

**ServerApply.** `AInv` adds to the properties what the holder of the lock has made
sure of at each of its steps (`Holder_OK`: the candidate under the check is its
own, what it activates was accepted, nobody replaced the file it compared, the
backup is what it found) and, as long as nothing failed, that there is something
proven to go back to and that the server was restarted with the active file
(`Undisturbed_OK`). It holds for any number of pages, clicks and faults.

**ControllerConfig.** Each property of `SInv` has a part of its own. As long as no
two saves have overlapped, the text a save is about to write is the file as it
is now with its own section changed, and the shared `ctrl.toml.tmp` is the one
it filled (`Saving_OK`): that is why a rename changes one section
(`RenameWrites`), and the channel, the password and the SSH switch follow from
what that section is (`Channel_OK`, `Password_OK`, `Last_OK`). `Change_OK` says
that the hash in memory is the one of the change under way, `Tokens_OK` that a
login let in has shown it. For the SSH server the invariant looks ahead: a
switch that is the last to act wants what the file says (`Last_OK`), and what
half of it has done stays (`Half_OK`), so nothing is left to be wrong once
nobody is at it (`Quiet_OK`). `SavingKept` and `SwitchKept` are shared by the
steps that touch neither; there is one lemma per action. `LockoutFits` has two
halves: what a login that records a failure finds and leaves (`Lock_OK`), and that
`backoff_delay_secs`, a shift with a limit and a cap, is the doubling it is
meant to be at every count (`DelayIsDoubled`).

**UpdateClient.** The updater judges by memory, so the invariant is about what it
remembers and what that still says of the device. `Memory`: the image it read
first is the old one, and a slot other than the one it remembers holds the
bundle, so a device that comes up elsewhere, or describes itself otherwise, has
run what was sent. `Install`: the bundle is all an installation writes, into the
slot that does not run, and a slot on trial is whole. `Blame`: while a slot is
armed nothing says "failed". `Steady`, which a power cut ends: until the reboot is
asked for, the device runs the committed slot, and "ready" is armed. Each part is
claimed only for as long as the mishap that would break it has not happened, and
mishaps only accumulate (`Later`). One lemma per action.

**NetworkSetup.** That the fold of `parse_scan_results` is defined for every
list of lines (`FoldExists`) and after each line holds the strongest beacon of every
name so far, and no other (`BestStrongest`), then that a listing of a finite set
by strength shows each of its elements once (`ListsAreComplete`, `ResultsFit`). The
sort was first written with a strict order, which has no result when two names
are equally strong: the proof stopped there, and the instance had no such scan.
Now both have.

**ServerDocument.** The keys of the tables are of six kinds (`SortsHold`), and the
argument about one key is by kind: what is written is read back
(`ReadWritten`), what is left out is shown at the value it was left out for
(`ReadLeftOut`), and so a table read back means what was written (`RoundTrip`),
except where an older name of a key is behind it. From tables to sections,
integrations and entries this gives `SaveTakes`, `EditsTake` for one save of any
configuration over any document. `OnlyEditsChange` also needs to know what a page
holds: its entries come from different entries of the document it was read from,
in their order, and have a KNX table only if that one had (`Follows`). Every
field, switch and button of the page keeps this (`SectionEdited` to
`EntryRemoved`), and it is why an unedited list is written over itself: an increasing
map of its positions to themselves moves none (`SelfMap`, by the pigeonhole
principle; `ListKept`). `SaveChanges` and `SaveKeepsUnknown` are the two action
properties for one save; a save happens only on the document the page was read
from (`Accepted`), which the file still is. The proof found the third exception:
`OnlyEditsChange` was stated without `Overruled`, and the step for KNX addresses
did not go through.

**Induction.** The library's induction theorems take the statement as an operator,
which the provers cannot instantiate. `Best` and the reference of the lockout
are recursive functions of a number, and for those a least counterexample does:
the numbers where the statement fails are a set, a set of numbers has a least
element (`LeastNat`, from `WFMin`), and the step before it contradicts it.

The `IInv` of `TryBoot`, `CInv`, `AInv`, `SInv`, `Verdicts` and the
`IInv` of `UpdateClientProofs` and `ServerDocumentProofs` are no properties of a
run: the properties they imply are, in `TryBoot`, `Coordinator`, `Apply`, `Settings`,
`OtaLoop`, `Client` and `Document_saves`.

Only model-checked: liveness (`FallsBack`, `TrialDecided`, `UpdateTaken`, `GuardReleased`,
`MarkerSettles`, `Answered`, `ComesBack`, `Connects`, `ApOpens`, `RadioSettles`,
`Decided`, `Succeeds`), which is out of the prover's reach. Every safety property
that a passing run checks is a theorem.

## 6. Not modelled, and why

- `TryBoot`: remounting `/boot` and edits of `config.txt` and `cmdline.txt` by the
  tuning pages; the content of command lines other than the slot they select.
- `OtaLoop`: the arithmetic of dates and versions (`Rank` is a constant, a due
  run is a Boolean).
- `UpdateCoordinator`: reboots of the machine (its marker is in `/run` and its
  variables are new after one), progress numbers. Steps with no await between
  them (taking `BUSY` and then `ACTIVE`, the checks of a request) are one step,
  and so is the removal of the four staging files.
- `UpdateClient`: looking up and downloading a release, progress output, exit
  codes. Other clients act once in all.
- `ServerDocument`: comments, order and white space; two keys edited at odds with
  each other in one document beyond those of the same list.
- `ServerApply`: what `systemctl` prints; a server that fails later than its trial.
- `NetworkSetup`: the country, names and passphrases, the contents of DNS packets,
  several interfaces of a kind.
- `ControllerConfig`: hostname, time zone, tuning and the other settings of one
  value, which are alike; the archive format.
- Boot file editing (`ctrl/tuning/`, `config_txt.rs`): sequential edits of two
  text files; their one hazard, beside `commit`, is listed and waits for the
  module named below.
- Schedule and version arithmetic: pure, with unit tests.
- Release storage tools: build-side Python against an object store, apart from
  the device.
- WebSocket, mDNS and now playing pass events on; the mock backend stands in for
  development; the other pages of the web UI are clients of the modelled
  handlers; image build, CI and first-boot scripts run once and alone.

## 7. Plan

Next, in this order:

1. `BootFiles`: tuning and `config.txt` beside `commit`, remounts, the startup
   reboots for EEPROM and DAC; would extend `TryBoot`.
2. `ReleaseLock`: lease lock and retention against publication.
3. `Schedule`: interval gate and version order as functions, against a reference.

Theorems worth proving next: that the device of `UpdateClient`, whose boots are
actions of `SlotTrial`, implements it.
