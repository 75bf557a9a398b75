# Verification of vless-api

vless-api is a small HTTP service that manages the VLESS users of an Xray node.
It keeps the users in Xray's own `config.json`, in the client list of a primary
(REALITY) inbound and of any number of mirror inbounds (ws, grpc, xhttp), and
brings the running Xray in step with the file after every change: user by user
through Xray's gRPC API, or by restarting the unit when the API is not there. If
that fails it puts the file back and restarts Xray.

This directory holds TLA+ modules that model that program, configurations with
which TLC checks them on small instances, and theorems about them that TLAPS
checks for every value of the constants. `PROJECT.json` maps every definition
to the lines it models, and lists runs, mutants, findings, hazards and theorems.

    tlc -workers 2 -config ConfigStore_safety.cfg MCConfigStore.tla
    tlapm ConfigStoreProofs.tla

The modules with theorems are those whose names end in `Proofs`.


## 1. Inventory

### Components

| component | source | state | operations | status |
|---|---|---|---|---|
| User store: mutations | `store.go` | the mutex `s.mu`; the document a mutation loaded and its rewrite; `liveAPI`, `mirrors` | `List`, `Add`/`AddBulk`, `Delete`, `Rotate`, `DeleteAll`, `persistAndApply`, `applyLive` | `ConfigStore` |
| User store: mirror reconciliation | `store.go` | the mirror it is at, the users missing there | `ReconcileMirrorInbounds`, `reconcileMirror`, `persist` | `Node` |
| User store: atomic file replacement | `store.go` | `config.json`, the temporary file beside it | `writeAtomic`, `fileOwnership`, `persist` | `AtomicFile` under `AtomicReplace`; one step of `ConfigStore` |
| User store: JSON document | `store.go` | a client list: an ordered array with foreign members | `findUserList`, `decodeUserRecords`, `addUsersToList`, `removeUsersFromList`, `rotateUserInList`, `sameUserSet` | sets of users in `Clients`; arrays in `ClientLists`, under `ClientSets` |
| Xray process and systemd | `runtime.go` | the unit; what the process accepts | `Start`, `Stop`, `Restart`, `Validate`, `IsActive`, `Version` | `Xray` |
| Xray live API client | `xrayapi.go` | none of its own | `Probe`, `AddUsers`, `RemoveUsers`, `InboundUsers`, `Stats` | `Xray`, `Node`, `Stats` |
| Process lifecycle | `main.go`, `vless-api.service` | how far startup is; whether it serves | settings, probe, load, reconcile, serve, shut down | `Settings`, `Node`; partly |
| HTTP API | `server.go`, `openapi.yml` | one goroutine a request | users, stats, health, status, service endpoints | `HttpApi`, `Health`, `Stats`; the store behind it in `ConfigStore` |
| Traffic statistics | `xrayapi.go`, `server.go` | Xray's counters | `GET /api/stats`, with or without reset | `Stats` |
| Settings | `settings.go` | environment | `loadSettings`, `parseExtraInbounds`, `Validate` | `Settings` |
| Relay installer | `install-relay.sh` | configuration, unit and logrotate file; log directory; whether the unit is enabled | staged install, rollback, cleanup | `RelayInstaller` |
| Node installer, build | `install.sh`, `build.sh` | none | - | not modelled: straight-line scripts |

### How they interact

A request runs in a goroutine of `net/http` (`server.go`), calls one method of
`ConfigStore`, and waits for `s.mu` there; the mutex is held over the file
write *and* every `xray api` and `systemctl` command. Start, stop and restart of
the service go straight to `CommandRuntime` and take no mutex. Xray and vless-api
share `config.json`: vless-api writes it, Xray reads it when it boots. A change
made through the gRPC API lives in the process only and is lost when it exits.
Every command runs under a context of 15 seconds (`runtime.go:73-93`).

### What is hard here, and what makes each part correct

- **Mutations.** A mutation is a load, a computation, a file write, a call
  per inbound to remove and a call per inbound to add, and possibly a
  rollback. Every one can fail, a failing call may have had all, part or none
  of its effect, and Xray may restart in between and read the half-committed
  file. Correct means: file and process agree when nothing is in flight; a
  revoked credential never returns, not even through the rollback of another
  mutation; a rotation never lets two credentials of one name work; mirrors
  carry what the primary carries; a reply tells the truth; the mutex is always
  given back; a request looks atomic to the clients.
- **Reconciliation.** It writes the file and the process mirror by mirror while
  Xray may restart, and can be cut short. Correct means: when it returns without
  error the mirrors are at parity, in the file and by name in the process.
- **Lifecycle.** A death at any step takes the mutation and its rollback along;
  what is on disk and what Xray runs outlive it.
- **Commands.** A timeout kills the client of the command, not the job that
  systemd or Xray has accepted.
- **File replacement.** A failed system call, a death or a power failure at every
  step, a second write after a failed first one. Correct means: the file is whole
  and accepted at every moment and keeps its owner, and the caller is told the truth.
- **Client lists.** A person edits them too: duplicates, nameless clients, values
  that are no objects, inbounds of another protocol, an order, a `flow` that
  mirrors must not have. Correct means: the operations on arrays are those on sets
  where the array is a set of users, and touch nothing of others where it is not.
- **HTTP API.** Lost responses and clients that retry (`WriteTimeout` is 30 s, a
  mutation may run several commands of 15 s), handlers that outlive their caller;
  status codes chosen from the text of an error. Correct means: a backend that
  reads the statuses as they are meant never believes in a wrong key.
  `health` is made of three observations at three moments, and must neither
  praise a node that was not healthy nor raise a false alarm.
- **Statistics.** A reset clears counters before the answer is delivered; two
  pollers; a restart between two polls. Correct means: no byte is billed twice.
- **Settings.** Many texts, checked in two places. Correct means: no environment
  that starts makes the store mirror an inbound onto itself or use a port nobody
  asked for.
- **Relay installer.** Any command fails, a signal comes, the power goes; and the
  script is run again. Correct means: what was there stays, what it put there
  goes, and what it reports installed survives a reboot.


## 2. The modules

| module | what it is |
|---|---|
| `Clients` | client lists and the list helpers of `store.go`, as sets of users |
| `Xray` | the Xray process, its unit, and the commands that act on it, with their failures |
| `ConfigStore` | the store in one life of vless-api: handlers, mutex, mutations, rollback |
| `UserRegistry` | the abstract specification: what the HTTP API promises |
| `Node` | many lives of vless-api: startup, reconciliation, death |
| `ConfigStoreInv` | the inductive invariant of `ConfigStore` |
| `ConfigStoreProofs` | the invariants of `ConfigStore`, and that it implements `UserRegistry`: theorems and their proofs |
| `NodeInv` | the inductive invariant of `Node` |
| `NodeProofs` | the invariants of `Node`, that it implements a registry that dies, and what every environment comes to |
| `AtomicReplace` | the abstract specification of a file write: whole or not at all |
| `AtomicFile` | `writeAtomic` and its two callers, one system call a step |
| `AtomicFileProofs` | its invariant, and that it implements `AtomicReplace` |
| `ClientSets` | the abstract specification of the list operations: on sets, with `Clients` |
| `ClientLists` | the operations on the arrays of config.json |
| `ClientListsProofs` | what the operations do to every array, and that they implement `ClientSets` |
| `HttpApi` | the HTTP side of the user endpoints, over `UserRegistry`, and the backend that calls it |
| `HttpApiProofs` | what the backend believes |
| `Health` | `GET /api/health` and `GET /api/status` |
| `HealthProofs` | what their answers are worth |
| `Stats` | `GET /api/stats`, Xray's counters, and those who poll them |
| `StatsProofs` | that nobody counts too many bytes |
| `Settings` | `loadSettings` as operators on an environment |
| `RelayInstaller` | `install-relay.sh` |
| `RelayInstallerProofs` | what its runs leave on the host |
| `MCConfigStore`, `MCNode`, `MCStartup`, `MCAtomicFile`, `MCClientLists`, `MCHttpApi`, `MCHealth`, `MCStats`, `MCRelayInstaller` | instances for TLC |

`Xray` extends `Clients`; `ConfigStore` composes it with the store and
instantiates `UserRegistry` under a refinement mapping; `Node` extends
`ConfigStore` and reuses its steps whole; `MCStartup` gives `Node` the mirrors that
`Settings` makes of an environment. `Health` extends `Xray`. `HttpApi` extends
`UserRegistry`, which `ConfigStore` is proved to implement, so that its calls take
effect in one step as they do in the registry. `AtomicFile` and `ClientLists` open up
what `ConfigStore` has as one step: its `Write` is the `Replace` of `AtomicReplace`,
and its lists are the sets of `ClientSets`.

### Xray

`file` is config.json, a client list for every managed inbound it has; `xray` is
the unit (`up`, `booting`, `down`); `live` is what the running process accepts on
each inbound. A booting process reads whatever the file holds at that moment. The
commands come in pairs: `Restart` and `RestartFails`, `AddUsers` and
`AddUsersFails`, and so on. The failing form covers an error and a timeout: a
restart that failed may have restarted Xray, left it stopped or done
nothing; a batch of `adu` or `rmu` that failed may have had effect for any
subset of its users. That `adu` refuses a name the inbound has, and `rmu` passes
over a name it lacks, is taken from how `xrayapi.go` reads their answers.

One thing is assumed of Xray and not checked by the code: an `rmu` that exits with 0
has removed every name that was there. `RemoveUsers` looks at the exit status only and
drops the "Removed N" that `rmu` prints (xrayapi.go:119), where `AddUsers` compares the
count of `adu` with the number it sent. If a partial removal could exit
with 0, `LiveFollowsFile` and `RevokedStaysRevoked` would not hold.

A command that gave up may take effect later still. A late restart is an Xray
that restarts by itself (`Dies`), a late stop is a `ServiceAction`, both possible
at every moment. A late `adu` or `rmu` cannot outlive the process it was sent to,
and the rollback that follows restarts that process, so it is no different
from one that took effect before the command gave up; where the rollback fails
too, `adrift` excuses the difference.

### ConfigStore

| state | code |
|---|---|
| `lock` | `s.mu` |
| `pc[h]`, `op[h]`, `reply[h]` | where handler `h` is, the request it serves, its answer |
| `work[h]` | the locals of a mutation: `original`, `updated`, the `userDelta`, the inbounds `applyLive` has still to visit |
| `liveAPI` | `s.liveAPI != nil`, fixed by the probe in `main.go` |
| `issued`, `revoked`, `adrift` | history: ids handed out; ids whose removal was acknowledged; a failed rollback was reported and Xray has not reloaded since |

| action | code |
|---|---|
| `Call`, `Return` | a request arrives, its response leaves |
| `LoadFails`, `List`, `AddBulk`, `Delete`, `Rotate`, `DeleteAll` | the methods, from `s.mu.Lock()` to their early return or to `persistAndApply` |
| `Write`, `WriteFails` | `writeAtomic` of the new document, with `Validate` |
| `Remove`, `Add`, `Applied` | one call of `applyLive` each, and its end |
| `RestartXray` | the `Restart` that applies the file where there is no live API |
| `Restore`, `RestoreFails`, `RestartRestored` | the rollback |
| `XrayBoots`, `XrayFails` | Xray and systemd by themselves |
| `ServiceAction` | `/api/start`, `/api/stop`, `/api/restart` |

From taking the mutex to `persistAndApply` is one step: the code there only reads
the file and computes, and nobody else writes the file. Every write and every
command after that is a step, and the two groups in the last three rows may come
between any two of them.

Slots 0, 1, 2, ... are the primary inbound and the configured mirrors. A
configured mirror that config.json lacks is not `Present`, and the code skips
it; a tag configured twice has two slots, and is visited twice, as in the code.

### UserRegistry

One set of users, and requests that take effect in one step between their arrival
and their answer. `ok` means the request took effect and returned these users;
`notFound`, `error` and `restored` mean nothing changed; `rollbackFailed` is the
one answer that leaves the caller in doubt. `Spec` is a process that does not die;
`MortalSpec` adds a death, in which the requests under way vanish unanswered and
at most one of them has taken effect.

`ConfigStore` implements it with `users` mapped to the primary list of the file,
or, while a mutation is past its write and not yet decided, to the list that
mutation loaded. The mapping is the argument that nobody sees an uncommitted file.

### Node

`main` says how far the process is: `down`, `probe`, `load`, `reconcile`,
`query`, `register`, `serving`. Reconciliation goes mirror by mirror: skip it if
it is absent, bring its list in the file to the primary's (`ReconcileFile`), and
with the live API ask for its live names (`QueryLiveMirror`) and add the missing
ones (`RegisterMissing`). An error ends it, and the process serves all the same.
`Die` can happen at every step, in the middle of a mutation too; besides a crash
it is what SIGTERM does: `ListenAndServe` returns as soon as `Shutdown` starts,
and `main` returns then (`main.go:81-106`). Serving is a step of `ConfigStore`.


### AtomicFile

`config` is the file under its name, `stable` what the disk has under that name,
`temp` the temporary file. A file has a content, whether it is synced, and which of
the first file's permissions it has kept. `pc` runs through the system calls of
`writeAtomic` (create, chmod, chown, write, sync, close, validate, rename); each can
fail, whereupon the deferred `os.Remove` runs and the caller goes on: `persist` writes
the original and reports an error however that ends, `persistAndApply` returns. After
a success `persistAndApply` applies, and writes the original back if that fails.
`Begin` is the load with `fileOwnership`, whose `os.Stat` may fail unnoticed. `Die` and
`PowerFailure` come between any two steps; a file that is not synced may be torn
afterwards, and a name that has not reached the disk (`Writeback`) is the old file's.

### ClientLists

`document` has, for each inbound, whether `findUserList` accepts it and its array of
clients and foreign values. One action an operation, with each helper as an operator
on sequences: `AddUsersToList` passes over names that are there, `RotateUserInList`
changes the first client of the name in place or appends one, `SameUserSet` compares
lengths and the last id of each name, and reconciliation rebuilds the mirror from
clients stripped of their flow. `Keep` is the loop that copies the entries of a list
that are in a set, `Others` the entries no operation on these names may touch. `Sound`
says when a document is sets of users; `ListsAreSets` is the refinement of
`ClientSets` as far as documents are sound.

### HttpApi

One goroutine a call. `Send` is a call with what may be wrong with it (key, method,
body, name); `Dispatch` is `authenticate`, `require`, `decodeBody` and the checks of
names, which answer at once; `Handle` is the store, `Responses` the choice of a status.
`addUsersBulk` answers 400 to any error with "name" in its text, hence either 400
or 500. The backend's side is external: it keeps a key for each name (`view`), is `Unsure` of
the names whose answer was lost or ambiguous, and has one call out for a name. It tells
the 404 of a handler, a JSON body, from the plain text of `http.NotFound` that answers a
wrong key; openapi.yml:150 describes one 404 for both, and a backend that goes by the
status alone would take a mistyped key for the absence of the user.
`GiveUp` loses a response while the handler goes on, `Die` loses all of them.

### Health

A call lists the users (waiting for `s.mu`), asks systemd, and dials; between the
three, mutations, the service endpoints, Xray and a person with an editor change all
of it. `held` and `smooth` record what was true during the call.

### Stats

`counter` is in the Xray process; `Query` is `xray api statsquery`, with or without
`-reset`, through the document it prints and `parseUserTraffic`. `QueryFails` is a
command that failed or was killed, before or after the reset. The pollers are
external: one adds up what resets return, one the differences it sees.

### Settings

`SettingsOf` and `Valid` are `loadSettings` and `Validate`, `Parses` the entries of
`parseExtraInbounds`, `MirrorsOf` what `main` passes to the store. It has no state; a
property is a statement on all environments with which a process starts.

### RelayInstaller

`pc` is the command the script is at. `OnError` is the ERR trap, `Disable` and
`Delete` the rollback it runs for a new installation, `Cleanup` the EXIT trap; a
signal runs the EXIT trap alone and a power cut none. `before` is what the run found.


## 3. What the runs check

| run | instance | states | shows |
|---|---|---|---|
| `store_safety` | 2 handlers, 2 names, 3 ids, 1 mirror | 686,792 | `LiveFollowsFile`, `RevokedStaysRevoked`, `OneKeyPerName`, `MirrorsInParity`, `IInv`, `RegistryImplemented` |
| `store_liveness` | 2 handlers, 1 name, 2 ids | 248,903 | `EveryRequestIsAnswered` |
| `node_reconcile` | 1 handler, 2 names, 3 ids, mirrors `grpc-in, ws-in, ws-in` | 752,100 | `NodeTypeOK`, `PrimaryFollowsFile`, `RevokedStaysOutOfFile`, `NInv`, `ReconcileReachesParity`, `RegistrySurvives`; `MirrorsAreSound`, `PortsAreAsked` over 122,800 environments |
| `node_silent`, `node_running`, `node_drift` | 1 handler, 1 mirror | - | three sentences of the documentation that do not hold (section 5) |
| `file_replace` | 3 documents, one of them refused by Xray | 4,120 | `AInv`, `AlwaysWhole`, `PermissionsKept`, `ReplaceImplemented` |
| `lists` | lists of up to 2 entries to start with, 2 names, 3 ids, 2 mirrors | 97,705 | `ListsTypeOK`, `ReconciledIsPrimary`, `ListsAreSets`, `OthersUntouched`, `FlowStaysHome`, `StaysDecodable`, `NoneIsLeft` |
| `http_backend` | 2 calls at a time, 2 names, 3 ids | 673,919 | `HttpTypeOK`, `ViewIsTrue`, `NoSurprises`, `HInv` |
| `health_answers` | 2 calls at a time, 1 name, 2 ids | 46,584 | `HealthyIsEarned`, `NoFalseAlarm`, `HealthInv` |
| `stats_once` | 1 user, 2 pollers with reset and one without, 2 goroutines, 2 bytes a direction | 680,854 | `EveryByteOnce`, `NeverOvercounts`, `StatsInv` |
| `relay_reruns` | 2 settings, any number of runs | 1,250 | `FoundIsKept`, `FailureUndone`, `InstalledBoots`, `RInv` |

The store and its node:

- `LiveFollowsFile`: a running Xray accepts on every inbound exactly the users of
  the file, but for those a mutation is working on. It is stated for every moment,
  so it covers the restart that reads a half-committed file as well as the state
  after the last rollback.
- `RevokedStaysRevoked`: an id whose deletion or rotation was acknowledged is
  never again in the file, nor, `adrift` aside, accepted by Xray.
- `OneKeyPerName`: at no moment do two ids of one name work, on whichever inbounds.
- `MirrorsInParity`: every mirror in the file has the primary's users.
- `RegistryImplemented`: no lost update, no dirty read, and no answer that says
  "nothing changed" after a lasting change.
- `EveryRequestIsAnswered`: no return path keeps the mutex.
- `PrimaryFollowsFile`, `RevokedStaysOutOfFile`, `RegistrySurvives`: what of this
  survives the death of vless-api. The primary inbound is excused only after a
  death inside a mutation (`cut`), until Xray reloads: that this excuse is needed
  is a finding.
- `ReconcileReachesParity`: what a reconciliation that returns without error has
  reached.
- `MirrorsAreSound`, `PortsAreAsked`: what every environment comes to, if `main` gets
  past `loadSettings`. No inbound is mirrored onto itself, the ws inbound is mirrored
  once, and an extra one twice only where `EXTRA_INBOUNDS` has that very tag twice;
  every port is the one asked for. Both are statements on all environments of the
  instance, the same in every state of a running process.

The file and its lists:

- `AlwaysWhole`: Xray can boot from config.json at every moment, a power failure
  included. `PermissionsKept`: its owner and mode stay; the one excuse is a failed
  `os.Stat`, which the code does not report. `ReplaceImplemented`: whole or not at
  all, and an answer that says which.
- `ListsAreSets`: on documents that are sets of users, arrays are as good as sets, which
  justifies the other modules. On documents a person has spoilt: `OthersUntouched`
  (nothing but the named users moves), `StaysDecodable` (no operation makes a list
  that the next one rejects), `NoneIsLeft` (a deleted user is gone with every duplicate,
  on all mirrors; a rotated one is on all), `FlowStaysHome` (a mirror without a flow
  never gets one, though its clients come from the primary), `ReconciledIsPrimary`
  (two lists that pass for the same have the same names and ids).

The endpoints and the script:

- `ViewIsTrue`: the key the backend has for a name is the key that works, unless it
  has reason to doubt. `NoSurprises`: 409 and 404 never contradict what a backend
  without doubt knows.
- `HealthInv` and `RInv` include the types of their modules.
- `HealthyIsEarned`: each part of a "healthy" was true at some moment of the call.
  `NoFalseAlarm`: if all was well throughout and no command failed, the answer says
  so, a mutation under way or not.
- `EveryByteOnce`: a byte is in Xray, under way, billed once, or lost; among callers
  with reset there may be any number. `NeverOvercounts`: a caller that reads a
  decrease as a new start counts no byte too many.
- `FoundIsKept`: a run that finds any file of an installation leaves all as they
  are. `FailureUndone`: a failed first run leaves nothing. `InstalledBoots`: what a
  run reported installed can start after a reboot; so can every whole installation,
  unless a signal or a power cut hit the script while it waited (`slipped`).

`IInv`, `NInv`, `AInv`, `HInv`, `HealthInv`, `StatsInv` and `RInv` are the inductive
invariants of section 4: a run that checks one shows that it holds on the states TLC
reaches, before the proof shows that it holds on all.

Every property has a mutant, a changed definition such as a bug in that code
would make (a rollback that does not restart, an addition that does not wait for
the removals, a temporary file that is not synced, a rotation that changes only
the lists that have the name, a port that defaults when it is mistyped), under
which TLC finds the property violated.

### Bounds

- *Two handlers.* Handlers meet only at the mutex, and what one leaves for the next
  is in `file`, `live`, `revoked` and `adrift`; two give every order of two
  mutations, and the theorems cover any number.
- *Two names, three ids.* Enough for a batch of two that succeeds for one, for a
  name that keeps its id while another's is removed, and for an add, a rotation
  and one id to spare. Ids are drawn from those never issued, so `UUIDs` bounds
  the number of credentials in a behaviour; when they run out, adds and rotations
  are no longer possible and all else goes on.
- *One mirror, or three configured.* Reconciliation and `applyLive` visit the
  inbounds in order; the awkward lists have one absent and one repeated mirror,
  which makes the second registration fail each time, an error after successes.
- *Starting lists of at most one user.* Longer lists are reached by adding.
- In `Node` every inbound starts with at most one user: a mirror may start empty, in
  step, with an older id, or with a user of its own, in the file and, independently,
  in the process.
- *Three documents* are an old one, a new one and one that Xray refuses; the theorems
  are for any number.
- *Lists of two entries* from two names, a nameless client and a foreign value have
  every kind of duplicate, and grow by additions; the mirror that is looked for
  first is absent, the other may be unreadable.
- *Two goroutines* of `HttpApi` are a call and the abandoned one it may retry or meet.
  *Three ids* let a rotation take effect after it was abandoned and again as its retry.
- *Two bytes a direction* (`MaxBytes`) make counters that differ, grow between two
  polls, and fall below what a poller has seen. *One user*: counters do not interact.
- *Two settings* of the relay are those of the run and other ones.
- *Environments* have two entries in `EXTRA_INBOUNDS`, three tags, and ports that are
  0, 1, 65536, absent or mistyped; the theorems are for all.
- `SYMMETRY` is over names, ids, handlers and the like where the modules never tell them
  apart; the liveness run, `lists` and the runs for the findings use none.

Behaviours do not deadlock and the deadlock check stays on.

### Fairness

`FairSpec` is used by `store_liveness` only. `WF(Proceed(h))`: a file write ends,
and every command ends, since `CommandRuntime.run` gives it 15 s.
`WF(Return(h))`: a goroutine with an answer writes it. `SF(Begin(h))`: `sync.Mutex`
hands itself over to a waiter that has starved for a millisecond, so a handler that
finds it free again and again gets it. Nothing is assumed of Xray, of systemd, or
of the success of anything.


## 4. What is proved

### The store

`ConfigStoreProofs` proves for every number of handlers, names, ids and mirrors, absent and repeated mirrors included, and every set of
well-formed initial lists:

| theorem | statement |
|---|---|
| `TypeCorrect` | `Spec => []TypeOK` |
| `Invariance` | `Spec => []IInv` |
| `LiveFollowsFileAlways` | `Spec => []LiveFollowsFile` |
| `OneKeyPerNameAlways` | `Spec => []OneKeyPerName` |
| `RevokedStaysRevokedAlways` | `Spec => []RevokedStaysRevoked` |
| `MirrorsInParityAlways` | `Spec => []MirrorsInParity` |
| `StoreImplementsRegistry` | `Spec => RegistryImplemented`, the refinement of `UserRegistry` |

The assumptions are those of `ConfigStore`: the primary inbound exists, every
managed inbound is the primary or a configured mirror, "free" is no handler, and
the initial lists are well formed (`main` refuses to start otherwise).

None of the safety properties is inductive. `LiveFollowsFile` says nothing of the
users in flight, so it cannot tell why the process and the file agree when a
mutation ends. `IInv` adds that:

- `Mutex`: exactly the handler inside `persistAndApply` holds the mutex, and only
  it has a mutation under way.
- `WorkInv`: its document, rewrite and delta belong together (`Sound`), the file is
  the one or the other by its place in the code (`FileOf`), and the calls left
  to make are those `applyLive` would make (`Remaining`).
- `FileInv`: the file is well formed, the same on every inbound, and free of
  revoked ids.
- `LiveInv`: where Xray can be in the middle of all this. The key fact is `Midway`:
  on every inbound Xray has all users the mutation keeps, and beyond them all
  inbounds have old users only, or all have new users only. Removing everywhere
  before adding anywhere preserves it, and so does a restart at any moment, which
  loads the old or the new document. `Done` says what the calls made so far have
  reached on each inbound, so that a finished `applyLive` has reached the new file.

The proof that a step preserves `IInv` has one lemma an action. `OneKeyPerName`
follows from `Midway` and the well-formedness of both documents; the others from
`LiveInv` and `FileInv`.

The refinement needs two more invariants, proved beside the step simulation.
`Stages` relates where a handler is to its request and its answer. `Promise` says
that the mutation under way, from the moment it has computed its rewrite, is an
effect the registry allows for that request on the registry as it still is: the
file it loaded, because the mutex keeps everyone else from changing it, and
`revoked`, which only an answer extends. Each step is then either a stutter (all
steps inside `persistAndApply`, since the registry shown is the loaded document
until the decision) or one step of the registry: `Serve` when the mutation is
acknowledged, `Refuse` when the original is back or was never replaced,
`LeaveInDoubt` when the rollback fails.

### The file

`AtomicFileProofs` proves for every set of documents, whichever of them Xray accepts:

| theorem | statement |
|---|---|
| `AInvariance` | `Spec => []AInv` |
| `AlwaysWholeAlways` | `Spec => []AlwaysWhole` |
| `PermissionsKeptAlways` | `Spec => []PermissionsKept` |
| `FileImplementsReplace` | `Spec => ReplaceImplemented` |

`AlwaysWhole` is about `config` and `stable` only and cannot tell why a rename keeps it.
`AInv` adds how far the temporary file is at each system call (`TempSoFar`: written by
`sync`, synced by `close`, accepted by `rename`, with its mode and owner after `chmod`
and `chown`) and what the callers remember (`CallerSoFar`: as long as `persist` writes,
the file is still the original, so that writing it again changes nothing). The
refinement maps the document wanted to what the caller may still bring about.

### The client lists

`ClientListsProofs` proves for every number of names, ids and mirrors, and for every
document to start with, its lists of any length and as spoilt as may be:

| theorem | statement |
|---|---|
| `ListsTypeCorrect` | `Spec => []ListsTypeOK` |
| `ReconciledIsPrimaryAlways` | `Spec => []ReconciledIsPrimary` |
| `StaysDecodableAlways` | `Spec => StaysDecodable` |
| `NoneIsLeftAlways` | `Spec => NoneIsLeft` |
| `OthersUntouchedAlways` | `Spec => OthersUntouched` |
| `FlowStaysHomeAlways` | `Spec => FlowStaysHome` |
| `ListsImplementSets` | `Spec => ListsAreSets`, the refinement of `ClientSets` |

The assumptions are those of `ClientLists`: the primary is an inbound and every other
is a configured mirror, names are finitely many, a blank is neither a name nor an id
(`ListsAssumption`); documents are made of clients and of entries that are no client
(`DocumentsAssumption`).

The type is the only invariant needed. `ReconciledIsPrimary` is about two arrays of one
state and follows by a pigeonhole argument: a list as long as the primary's, in which
every user of the primary, none of them twice, has a place of its own, has no place left
for anything else. The others are facts about one operation, with a lemma for each helper and,
above it, one for each operation on a document.

What a helper does to *every* list needs induction over lists, and the induction
theorems of the library take an operator, which no prover here can instantiate. The
module argues by a least counterexample instead: if a set of lists is not empty, it
has the empty list or a list whose front is not in it (`LeastList`, from the
well-founded order of the numbers, `WFMin`). A lemma names the lists it fails for as a
set and derives a contradiction from each case. `Keep` is a recursive function because
the provers cannot unfold `SelectSeq`.

### The node

`NodeProofs` proves for every number of handlers, names, ids and mirrors, every node
that vless-api may be installed on, and any number of lives:

| theorem | statement |
|---|---|
| `NodeInvariance` | `NodeSpec => [](NodeTypeOK /\ NInv)` |
| `NodeTypeCorrect` | `NodeSpec => []NodeTypeOK` |
| `PrimaryFollowsFileAlways` | `NodeSpec => []PrimaryFollowsFile` |
| `RevokedStaysOutOfFileAlways` | `NodeSpec => []RevokedStaysOutOfFile` |
| `ReconcileReachesParityAlways` | `NodeSpec => ReconcileReachesParity` |
| `NodeImplementsRegistry` | `NodeSpec => RegistrySurvives`, the refinement of `MortalSpec` |

`IInv` does not survive a death: the rollback dies with the process, and a
reconciliation that fails leaves mirrors that are not the primary's, or that
`decodeUserRecords` would reject, while the process serves all the same. `NInv` keeps
of it what does not depend on the mirrors (`CoreInv`: the mutex, and where the file is
by the place of the code) and says the rest of the primary inbound alone:

- `MutationInv`: the delta of the mutation under way is that of the primary list, and
  no list gets more than what is kept and what is added (`Consistent`).
- `ListsInv`: no list has a revoked id. Since a deletion goes by the names of the
  primary list, this needs `Tidy`: an id of the primary list stands under no other name
  on a mirror.
- `PrimaryInv`: what `Midway` and `Done` say of all inbounds, for the primary, and
  excused after a death inside a mutation (`cut`).
- `ReconciledInv`: how far the reconciliation is. It holds in the middle of an Xray
  that restarts, because the lists it reads then are at parity already.

Beyond those of `ConfigStore` there is one assumption, `InitialNodesAssumption`: where
vless-api is first started, Xray runs with the file's primary list, and the file is
`Tidy`. Mirrors may otherwise hold anything. `Tidy` is not idle: had a person put a
user's id under another name on a mirror, deleting the user would leave the id there
(`removeUsersFromList` goes by name), until the next start reconciles that mirror.

The refinement reuses the one of the store step by step, with `Promise` proved from
`NInv` in place of `IInv`; a death maps to the registry's, in which the request past its
write has taken effect or not as the file has it.

`NodeProofs` ends with the settings a node starts with. For every environment, with any
number of extra inbounds, `MirrorsAlwaysSound` (the definition `SoundMirrors`) and
`PortsAlwaysAsked` (`AskedPorts`) hold of one that starts; therefore `MirrorsAreSoundAlways` and
`PortsAreAskedAlways`: `NodeSpec => []MirrorsAreSound`, `NodeSpec => []PortsAreAsked` of
`MCStartup`, whatever set of environments it is given. The lemma `MirrorSlots` says
which slot of the store's mirrors comes from which variable.

### The HTTP API

`HttpApiProofs` proves for every number of calls, names and ids:

| theorem | statement |
|---|---|
| `HttpInvariance` | `HttpSpec => [](HttpTypeOK /\ HInv)` |
| `HttpTypeCorrect` | `HttpSpec => []HttpTypeOK` |
| `ViewIsTrueAlways` | `HttpSpec => []ViewIsTrue` |
| `NoSurprisesAlways` | `HttpSpec => []NoSurprises` |

`ViewIsTrue` is silent on names with a call out, so it cannot tell what their answers
will do to it. `HInv` adds that what an answer settles is so until it is received
(`Truthful`), that a belief which is wrong meanwhile is about to be corrected by the
answer under way (`Believed`), and that no belief, nor any answer that counts, is about
a name an abandoned call may still change (`Haunting`). The last two hold because
callers that are out never share a name (`Apart`). The assumption is that the initial
users are entries.

The behaviour proved about is that of `HttpApi` over `UserRegistry`. The store
implements the registry, so what is proved of the registry's answers is so of the
store's; that the two compose is an argument of this text and no theorem.

### Health

`HealthProofs` proves for all names, ids, inbounds and any number of callers
`HealthInvariance` (`Spec => []HealthInv`), `HealthyIsEarnedAlways` and
`NoFalseAlarmAlways`. The two properties speak of answers only; `HealthInv` says,
besides the types, at every step of a call that what it has seen has held
(`Evidence`) and that a call which nothing has disturbed has seen nothing amiss
(`Undisturbed`).

### Statistics

`StatsProofs` proves for any number of users, any finite number of pollers and
goroutines, and any bound on the traffic:

| theorem | statement |
|---|---|
| `StatsInvariance` | `Spec => []StatsInv` |
| `NeverOvercountsAlways` | `Spec => []NeverOvercounts` |
| `EveryByteOnceAlways` | `Spec => []EveryByteOnce` |
| `NoByteCountedTwice` | `Spec => []NoByteTwice` |

`StatsInv` has `OneCallEach`, that a poller has one call out at most, and `Credit`: a
poller's sum covers, with what it would add if it heard the counters now, no more than
the traffic, and still does after the answer on its way. `EveryByteOnce` is inductive
together with it, but it is an equation of sums over the pollers and over the
goroutines: that a step changes one summand and so the sum by as much is again proved
by a least counterexample, here among the subsets that are summed over, by their size.
Being sums, they are of finitely many (`StatsAssumption`). `NoByteTwice`, that the sums
of two pollers with reset are together no more than the traffic, follows from it.

### The relay installer

`RelayInstallerProofs` proves for any set of settings and any number of runs
`RelayInvariance` (`Spec => []RInv`), `FoundIsKeptAlways`, `FailureUndoneAlways` and
`InstalledBootsAlways`. What one run may undo depends on what earlier ones have left:
`RInv` has the types and says what the three flags of the script mean (`FlagsInv`), how far the installation is (`ProgressInv`), that between
installations the host has none or a whole one (`HostInv`), and what the outcome says
of it (`OutcomeInv`).

### Only model-checked

Liveness under fairness, `EveryRequestIsAnswered`: it is beyond the prover, as is
`ENABLED`. Every invariant, every action property and every refinement that a passing
run checks is stated by a theorem too.

A note for whoever extends the proofs: the SMT translation of tlapm 1.4.5 treats
`[f EXCEPT ![c].a = x, ![c].b = y]`, two updates at one index, as if the two held of
`f[c]` independently, from which it proves anything. The modules that proofs reach
write `[f EXCEPT ![c] = [@ EXCEPT !.a = x, !.b = y]]`, which it translates correctly.


## 5. Findings

1. `node_silent`. README.md:58-59 of vless-api says that "the file and the running
   process can never silently disagree". The rollback runs inside the process: if
   vless-api dies, or is sent SIGTERM, after the file is written and before the live
   apply is through, nobody rolls back, nothing is logged, and the next start
   reconciles mirrors only. The primary inbound disagrees until Xray restarts.
2. `node_running`. store.go:104-106 says reconciliation brings mirrors to parity "on
   disk and in the running process". Without the live API it writes the file and
   does not restart Xray.
3. `node_drift`. store.go:118-119 says drift is "corrected on the next boot".
   Reconciliation compares names, so a mirror that runs with an old id keeps it.


Reading the code for the models brought up more such differences. Each is in the
module named, as the code has it; no run is spent on them.

- README.md:46 says "User mutations are durable." `writeAtomic` syncs the temporary file
  but never the directory (store.go:667): after a power failure an acknowledged
  mutation may be gone, and a deleted user be back (`AtomicFile`, `PowerFailure`).
  `AlwaysWhole` and `ReplaceImplemented` allow that.
- settings.go:65-66 says a mirror is kept in sync "flow stripped". `sameUserSet`
  (store.go:243) does not look at the flow: a mirror copied by hand from the
  primary passes for reconciled and keeps it (`ClientLists`, `SameUserSet`). No
  operation brings a flow to a mirror that has none (`FlowStaysHome`).
- openapi.yml:136 has 400 for "Invalid request." and openapi.yml:138 has 500 for failed
  persistence. `addUsersBulk` (server.go:137) answers 400 to every error with "name" in
  it, and the error of a failed `os.Rename` has it (`HttpApi`, `Statuses`).
- server.go:276-277 and README.md:90-91 say that a decrease of a counter means a
  restart of Xray. A reset by another caller decreases it too (`Stats`, `Query`).
- settings.go:83 asks for `tag:port`; `:8443`, a mirror with an empty tag, is
  accepted. settings.go:91 refuses "the primary inbound" but compares with the
  default tag, before it knows `VLESS_INBOUND_TAG`. settings.go:156 allows an
  empty `VLESS_FLOW`, but `envOr` makes the default of it (`Settings`).


## 6. What is left out, and why

- Names, ids and documents are taken whole: trimming, patterns, the formatting of
  JSON and of share URIs, and what is padded in a name when a person wrote the file.
  `ClientLists` has a client's flow as a yes or no, and a primary that hands one out.
- The temporary files with which the live API client passes users to `xray api`.
- In `Settings`, variables that are checked by a pattern of their own are one flag.
- In `RelayInstaller`, everything before the first change to the host (questions,
  packages, Xray itself). A file that `install` has put in place is whole.
  A signal while `verify_relay` waits leaves the relay enabled without its rollback,
  and without its log directory; `slipped` excuses it.
- `install.sh` and `build.sh` are straight-line scripts with no state to interleave.
- The 10 s that `Shutdown` allows: `main` does not wait for it. The listener itself.
- `IsActive` and `Version` change nothing. `Validate` is a way for a write to fail.
- What a person does to config.json by hand while a mutation runs; `Health` has the
  editor, since it only reads.
- Some hazards have no property, because it is what the code does. All but the partial
  `rmu` and the temporary file are in the modules:
  - A rollback undoes an operator's stop (store.go:568; nothing says which should win).
  - A probe made while Xray boots turns the live API off for the life of the process
    (main.go:31).
  - A mirror that already runs with a name makes every add of that name fail until
    reconciliation (store.go:757), and a tag that `EXTRA_INBOUNDS` repeats every add of
    any name (settings.go:74). Each is rolled back and refused, which is all that
    `RegistrySurvives` asks.
  - `DeleteAll` leaves the strays of a drifted mirror running (store.go:484).
  - An `os.Stat` that fails once costs config.json its owner and mode (store.go:623);
    `PermissionsKept` excuses it with `statFailed`.
  - An acknowledged mutation is lost with the power, and a death leaves the temporary
    file with its credentials (store.go:667).
  - A signal in `verify_relay` (install-relay.sh:32), which `slipped` excuses.
  - An `rmu` that removes some names only and exits with 0 (xrayapi.go:119); it is
    assumed away (section 2, `Xray`).
  - `health` reports a restart under way as a failure (server.go:225).
  - The empty tag and the empty `VLESS_FLOW` above.

## 7. Plan

Done: the modules above, their runs, and the theorems of section 4. Next: `HttpApi` over
`ConfigStore`, the composition as a module, so that the step from the registry's answers
to the store's is checked as well.
