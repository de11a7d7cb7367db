# Formal models of name_manager

TLA+ models of [name_manager](https://github.com/hchauvin/name_manager), a
program that hands out unique names for shared test resources, with TLC runs
and TLAPS proofs about them.

    tlc -workers 2 -config local_safety.cfg MCLocalBackend.tla     # check a run
    tlapm LocalBackendProofs.tla                                   # check the proofs

`PROJECT.json` lists the components, the runs, the source lines each definition
translates, the hazards of the code and the findings.

## The system

A *backend* keeps a table of names per family and offers `Acquire`,
`TryAcquire`, `KeepAlive`, `Release`, `List` and `Reset`. Clients are separate
processes, so whatever they do interleaves, and any of them may die at any
point. `Hold` and `TryHold` add a goroutine that keeps an acquired name alive
until the client calls the release function. A name without a sign of life for
longer than `autoReleaseAfter` is a *zombie*, and the next acquisition of its
family frees it.

| component | state | operations | interacts with | hard behaviours | what makes it correct |
|---|---|---|---|---|---|
| interface (`pkg/name_manager/name_manager.go`) | registered names, those in use | the six above | implemented by the backends | - | a name in use is not granted; it stops being in use only by release, reset or, when stale, automatic release; released names come before new ones |
| local backend (`pkg/local_backend`) | a Bolt file: metadata, free names, counters, in buckets ordered by `family:name` | one transaction per call, under the file lock; `Reset` unlinks the file | other processes through the file | interleaving, death with the lock, unlink under open calls, the age boundary, families that begin alike or have a colon | transactions are atomic; buckets agree; live names are not swept; zombies come back; a cursor keeps to its family |
| holding mechanism (`pkg/internal/hold`) | goroutine, two channels, error channel, timer | `Hold`, `TryHold`, keep-alive with retries, release function | calls the backend; error channel to the client | slow or failing calls against the age of the name; goroutine against release function; full channel | a held name never gets old; no send after close; no loss without an error; release returns |
| Firestore backend (`pkg/firestore_backend`) | a document per family (count) and per name (free flag, UpdateTime) | a transaction per call; a walk that releases zombies; a walk that resets | other processes through the database | decisions on a listing that is out of date; walks between transactions | exclusivity, counts, nothing revived |
| MongoDB backend (`pkg/mongo_backend`) | collections of names, leases and counters | sequences of single-document operations | other processes through the database | every interleaving of those; dates read before an operation is applied; two counters for a family; partial failure; ids of leases | exclusivity by the unique id of a lease; a live lease is not swept; new names are new |
| REST backend and server (`pkg/rest_backend`, `pkg/server`) | none | relays each call over HTTP | between a client and another backend | lost answers, repeated requests, no keep-alive by default | two clients never hold a name; a fault costs one name at most |
| command line (`cmd/name_manager`) | none | `hold` around a command; one command per call | uses `Hold` | exits that skip the release function; a command that outlives the process | an interrupt releases the name; a process that lost its name ends; a command that outlives its process has time to clean up |
| registry and URLs | table of backends | registration, parsing | - | - | covered by table tests |
| test support, examples | - | - | - | - | not part of the program |

## Modules

`NameManager` is the abstract specification: a table of names and what each
client believes it holds. The backends are shown to implement it where they do.

    NameManager        <- LocalBackend, FirestoreBackend, MongoBackend (refinement)
    LocalStore         <- LocalKeys (refinement) <- MCLocalKeys
    LocalStore         <- LocalBackend <- MCLocalBackend
    LocalStore         <- LocalStoreProofs <- LocalBackendProofs (with LocalBackend)
    LocalKeys          <- LocalKeysProofs
    Hold               <- HoldCommand
    Hold               <- HoldProofs
    HoldCommand        <- HoldCommandProofs (with HoldProofs)
    FirestoreBackend   <- MCFirestoreBackend
    FirestoreBackend   <- FirestoreProofs
    MongoBackend       <- MCMongoBackend
    MongoBackend       <- MongoProofs
    RestRelay          <- MCRestRelay, RestProofs

**LocalStore** has the Bolt database as a value (`freeBucket`, `free`, `data`,
`counter`: the three buckets of `local_backend.go:76-99`) and each function that
runs inside a transaction as an operator on it, with the names of the source.
Of an entry's metadata only the age of `UpdatedAt` is kept, in ticks and capped
at the first age that exceeds `autoReleaseAfter`. `acquire` is a set of
outcomes because `Seek` may find any free name.

**LocalBackend** runs those operators. A call is `Begin` (the file is opened,
created if `Reset` removed it), `Lock` (Bolt's file lock; the transaction reads
the file into `working`), one of `Acquire`, `TryAcquire`, `KeepAlive`,
`Release` (the transaction writes its result back whole) and `Return`. `Reset`
changes what the path names and nothing else; `Crash` drops the lock and the
uncommitted transaction. Nothing in the model makes a transaction atomic but
the lock. `List` matters only because it too may create the file.

**LocalKeys** is what lies under `LocalStore`: buckets that are sets of byte
strings in the order of Bolt, keys that are `family:name` put together and taken
apart, and the two cursor loops (`Scan` of `releaseZombies`, `Seek` of
`getAnyFreeName`). A name is the decimal numeral of a counter, but clients may
pass any string. `Decoded` reads the buckets as the database of `LocalStore`, and
`ImplementsStore` says that every operation is then the operator of that name. A
panic of `keyToFamilyName` rolls the transaction back and is an action of its own.

**Hold** is the goroutine of `holdCommon` over a table of names with ages. The keeper
goes from `waiting` (the select) over `calling` and `applied` (a `KeepAlive` sent, and
applied) back, or through `Attempts` failures to `sending` and `done`; `Fail` covers
attempts that fail before and after they took effect. Over REST an attempt that failed
may also take effect later, whatever has become of its sender (`delayed`, `Deliver`).
The release function is `CallRelease`, `Stopped`, `Release`. Everything may take any
time; `late` records that a call took longer than `Latency` ticks or that a goroutine
that was ready did not run before the next tick. The interval is a third of the period,
as the local, Firestore and MongoDB backends have it, or `RestInterval`, which a REST
URL gives whatever the period of its server. With it the keeper may also give up before
its last attempt: `get` makes a body it cannot read an error that is not retried. TLC
checks this module as it is, its constants are small sets.

**FirestoreBackend** makes every function given to `RunTransaction` one step.
An `Acquire` with auto-release first walks: `StartAcquire` reads the clock,
`ListFamilies` and `ListNames` take the snapshots of the two queries,
`ReleaseZombie` is one release transaction on the list, and `AcquireFree` or
`AcquireNew` is the final transaction. `Reset` is the same walk with
deletions. `Fail` is an error return in the middle of a walk.

**MongoBackend** makes every operation on a document one step: `Sweep` deletes
one lease of the `DeleteMany`; `Find`, `Try`, `LeaseOld`/`TryNext` are the loop over
the known names, which an error of the cursor ends early (`CursorFails`); `CountName`,
`LeaseNew`, `Register` make a new one; `TryLease`, `FoundName`, `LookupFails`,
`Unlease` are `TryAcquire`. A date is read in one step (`Start`, `Try`, `ReadClock`,
`StartKeepAlive`) and written in another, at any later time (`asOf`): a lease may be
older than the moment it comes into being, and `KeepAlive` may set `lastHeartBeatDate`
back. `counter` is a sequence of documents per family, since the upsert may find none
(`MissCounter`) and insert one next to another (`InsertCounter`). `data` is a set: that a
name registered twice is listed and tried twice is left out. `leaseId` is the
concatenation the code makes.

**RestRelay** is the client and the handlers of the server around a table of names.
`Get` puts a request on a connection, a handler (`HandleAcquire` and so on)
makes its one call and answers, `Receive` is the rest of `get` and what the
method makes of the body. `Break` ends the wait of the client with an error while
its request and the handler go on; `Resend` is Go's transport sending a GET again
when its connection fails; `Drop` loses what nobody waits for.

**HoldCommand** extends `Hold` with the process around it. `phase` is where the
action of the `hold` command is: `printed`, `notified`, `selecting` without a
command, `running` with one, `leaving` in the release function. `SeeError`,
`CommandFails` and `Killed` end a process that does not release its name. `orphan`
follows a command that survives its process: the ticks since then, or
`Unprotected` when the name was lost before or released by somebody else. `Grace` is
what the longest silence of a keeper leaves of the period, nothing if it does not fit.
`Interrupt` is Ctrl-C, `Killed` any signal nobody catches.

### History variables

`hold[c]` is what a client was granted and believes it still has, with the time
or age of its last sign of life that came *in time*. A sign of life that comes
too late succeeds in the code like any other but does not make the hold valid
again. `misreleased` records that a client released a name that was not its own
while its holder was in time; the code cannot tell holders apart, so exclusivity
is only promised without it. A Firestore or MongoDB `Reset` voids the holds at
each of its steps. `calm` records that nobody was about to free a name on old
grounds when it was granted, and in MongoDB also that no older `KeepAlive` of another
client was applied after the holder's last sign of life (`SetBack`).

## Runs

| run | instance | checks |
|---|---|---|
| `local_safety` | 2 clients, 2 names, period 1, one file, clients also release and keep alive names they do not hold, fairness | types; buckets agree (`StoreConsistent`); `LeaseExclusive`; `ReuseFirst`; `ZombieReclaimed`, `LockComesBack` |
| `local_promise` | 2 clients, 2 names, period 1, two files (one reset) | `Isolated`, `LeaseBacked` and `ImplementsPromise`, with calls left in a removed file |
| `local_keys` | families `a`, `ab`, `a:1` and the empty one, 2 names, clients also pass `1:0` and the empty name, period 1 | types, `PanicsExplained`, `ImplementsStore` |
| `hold_keepalive` | 2 clients, 1 name, period 5, REST interval 1, latency 1, 3 attempts, fairness | types; `HeldNameKept` and `OwnRelease` while nothing is late; `QuietAfterStop`, `LossReported`, `ReleaseReturns` whatever is late |
| `hold_command` | 2 `hold` processes, 1 name, period 2, REST interval 1, 2 attempts, other commands, fairness | types; `CleanUpTime`; `LossEndsProcess` |
| `rest_relay` | 2 clients, 2 names, 3 connections, 2 faults, auto-release | types, `RemoteExclusive`, `LossesBounded` |
| `firestore_promise` | 2 clients, 2 families, 3 names, no auto-release, no reset | types, `CountIsNext`, `LeaseExclusive`, `ImplementsPromise` |
| `firestore_sweep` | 2 clients, 2 names, period 1, clock to 3, resets | `CalmLeaseBacked`, `ReuseFirst`, `OnlyGrants` |
| `mongo_promise` | 3 clients, 2 names, no auto-release, no reset | types, `LeaseExclusive`, `SingleCounterUnique`, `ImplementsPromise` |
| `mongo_sweep` | 2 clients, 1 name, period 1, clock to 4, strays, resets, counter failures | `CalmLeaseBacked`, `CalmLeaseExclusive`, `OnlyGrants` |

The remaining runs end in a counterexample, which is a finding:

| run | what it shows |
|---|---|
| `firestore_families` | a walk frees a name of its family because a name of another family is old |
| `mongo_empty_name` | a failed counter update is answered with an empty name and no error |

`firestore_sweep` and `mongo_sweep` complement them: apart from the mechanisms
named in the comment of `CalmLeaseBacked`, no interleaving of the instance takes
a live name away.

### Other limits of what the code promises

The properties are worded so that they hold; what their wording leaves out does
happen in the models, and has no run of its own:

* A `TryAcquire` of a name that was never acquired answers `ErrInUse` in the local
  backend, once any name was: `isNameFree` (line 387) asks only whether the name
  is in the free bucket. The interface documents `ErrNotExist`.
* A Firestore walk decides on the listing it made (line 363) and its transaction
  (line 325) does not look at the age again: a name that was released and granted
  after the listing is freed under its new holder. `CalmLeaseBacked` leaves out
  such holds.
* A family with a colon is accepted and stored. From then on `List` panics for
  everybody, and so does the sweep of the family before the first colon once the
  name is old; `Acquire` of family `a` may then grant the name `1:0`, which is
  name 0 of family `a:1`. `Separated` is the hypothesis that leaves this out. The
  empty family is refused by Bolt, as an empty key of the counters.
* When a command of `hold` fails, when the error channel delivers, or when a signal
  kills the process, the name stays in use: until it is swept or, with the default
  backend of the command line (`local://~/.name_manager`, no `autoReleaseAfter`), until
  somebody releases it by hand. A command that outlives `hold`, because the signal went
  to `hold` alone, has `CleanUpTime`. The usage text says "releasing it on Ctl-C": an
  interrupt before `signal.Notify`, or while a command runs, kills the process like any
  other signal (`Interrupt`), and one between `signal.Notify` and the select is dropped,
  since the channel has no buffer. After `Break` of an acquisition over REST the name
  granted stays in use until it is swept.
* A `$release` that the transport sends twice may free the name under its next holder
  (`resent`). A `KeepAlive` that failed over REST may refresh the name after the release
  function, under its next holder: `QuietAfterStop` speaks of the goroutine. Without a
  timeout of the HTTP client a server that never answers blocks a keeper, and the
  release function behind it. With the default `keepAliveInterval` of 0 a REST client
  keeps nothing alive: `HeldNameKept` then needs a server without auto-release.
* A client whose name was automatically released and given to a second one frees
  it under that one when it comes back to release it (`misreleased`); a
  `KeepAlive` that late refreshes the name of the new holder and is a success to
  the goroutine that sent it (`late` in `Hold`). `OwnRelease` speaks of the first
  client that is deprived so: that one may do the same to the next. After a `Reset` of
  the local backend, the holder of a name of the removed file keeps its namesake in the
  new file alive, which is why `Abandoned` asks for no such client.
* A Firestore `Reset` that races an `Acquire` can leave a name without a count,
  which is then granted as a free name and again as a new one. `CountIsNext` and
  `LeaseExclusive` are claimed without resets, `ReuseFirst` only of counted names.
* While a MongoDB `TryAcquire` of an unregistered name has its lease, others are
  answered `ErrInUse`, and the `Acquire` that was to make the name fails. An acquisition
  that a `Reset` runs through may be granted a name without a lease. A client that
  acquires a name only to find its lease older than the period, because the operation
  was slow, may lose it at once: it is not in time.
* In MongoDB a `KeepAlive` of a former holder that is applied late sets the date of the
  lease back under the new one (`SetBack`), and a sweep then deletes the lease of a
  client that is in time. A `TryAcquire` that is late to take back the lease it probed
  an unregistered name with deletes that of a client that made the name meanwhile
  (`Unlease`), and a third client may acquire the name under it. `CalmLeaseBacked`
  leaves out the holds this happened to.
* "We ensure the uniqueness of the new name by atomically updating the family entry"
  (`mongo_backend.go:137-139`) is not met: the upsert has no unique index, and the first
  two `Acquire`s of a family may insert a counter each (`InsertCounter`). They both make
  name 0, and each number is given twice from then on; the second `Acquire` fails on the
  lease of the first or registers the name again. `SingleCounterUnique` leaves such
  families out. Exclusion does not rest on the counter: `mongo_promise` has such counters.
* A MongoDB lease id does not separate family and name: `Release("s", "10")`
  deletes the lease of name 0 of family `s1`. `Release` in the model does the
  same and counts it under `misreleased`.

### Bounds

Two clients give every race between two calls; a client that dies and comes back is the
abandoned name and its sweeper at once. The theorems of the local backend hold for any
number. Two names make "reuse or new" a choice and let the counter move. A period of one
tick has all three kinds of age: younger than the period, exactly as old, older. The
local clock is unbounded (ages are capped); the clocks of the databases stop at
`MaxTime`: 3 in `firestore_sweep`, late enough for a name to become a zombie, be granted
again and be one tick short of a zombie again; 4 in `mongo_sweep`, where it becomes one
again, and a date of the first holder may be written over that of the second or third.
`mongo_sweep` has one name, which every call is about: all that costs a client its lease
happens to one lease. That the loop of `Acquire` goes on to another name and that the
counter moves is in `mongo_promise`, which needs no clock and has two names and three
clients, two that race for a counter and one that has a name. Two files are one `Reset`
with calls on both sides of it. One family is enough for the runs of the local backend
because its theorems hold for any set of families. The period of `hold_keepalive` is the
smallest that an interval of 1 and three attempts with their latency fit: the margin the
code needs is `autoReleaseAfter >= KeepAliveInterval + (Attempts + 1) * Latency`.
`hold_command` has no latency; its period leaves the command that survives its process a
time of one tick, with an interval of one tick; one name makes every grant a rival of
the holder. The families of `local_keys` are one that is a prefix of another, one with a
separator inside, and the empty one; a third counter value would only repeat. Three
connections in `rest_relay` are a call of each client and a request nobody waits for any
more, and two faults are a loss and a repetition; the theorems hold for any number of
them.

### Fairness

`local_safety` assumes that time passes (`WF Tick`) and that a process that does not die
goes on with its call (`WF Step`). Bolt polls for its file lock, so a waiting process
may lose every race: no strong fairness is assumed of `Lock`, and no property promises a
given process the lock. `ZombieReclaimed` has the use of the family as its hypothesis,
since only an acquisition sweeps. `hold_keepalive` assumes that goroutines run and calls
to the backend are answered, with success or not. Go's `select` picks at random among
the branches that are ready, hence `SF SeeStop`. `QuietAfterStop`, `LossReported` and
the other safety properties do not rest on it. No client is assumed ever to call
anything, or to read the error channel. `hold_command` assumes the same of keepers, and
that a process takes the steps it can take by itself (`Process`): it goes on to its
select, sees an error that is there, and ends. Nobody has to send a signal, no command
has to end, and time need not pass.

## Proofs

`LocalStoreProofs` has the lemmas about the operators: each preserves the type
of the database and `Consistent`, and what each does to which names are in use
and live. `LocalBackendProofs` has the theorems, for any number of clients,
families, names, files and any period:

* `TypeCorrect`, `IsolationCorrect`, `StoreCorrect`: `Spec => []TypeOK`,
  `[]Isolated`, `[]StoreConsistent`, from the inductive invariant `StoreInv`.
  `Isolated` is not inductive alone: that a transaction's copy is still what is
  in the file needs that no two calls have the lock of a file (`OneLock`) and
  that exactly the calls in state `locked` have a copy (`CallShape`). A file is
  consistent after a transaction because the copy was the file, and the file was
  consistent.
* `LeaseExclusiveCorrect` and `LeaseBackedCorrect`, from `LeaseInv`, which adds
  to `StoreInv` that while nobody released another's name, two clients in time
  hold different names and each of these is in use and not older than its
  client's last sign of life. Each needs the other: a name is not granted twice
  because it is in use and not yet to be swept, and it is in use because only its
  holder releases it.
* `ReuseFirstCorrect`: only a transaction that made a name changes a counter of a
  file, and it made one because no name was free after the sweep. That the file is
  the one the transaction read is `Isolated`.
* `BackendKeepsPromise`: the whole of the refinement of `NameManager`, stale names
  and automatic release included, with no assumption. The table is the file at the
  path. A transaction on that file is a step of the table, with the zombies it
  swept; one on a file that was unlinked is none, since names of such a file are
  void; an unlink is `Reset`. Besides `StoreInv` this needs
  `FileInv`: files are made in order, nobody has opened or been granted a name from a
  file that is not there yet, which is why a new file is an empty table, and a client
  whose call may be granted a name holds none.

`HoldProofs` is about `Hold`, for any clients, names, period, interval, latency
and number of attempts: `HoldTypeCorrect`, `QuietCorrect`, `LossReportedCorrect`,
`HeldNameKeptCorrect` and `OwnReleaseCorrect`. The inductive invariant has three
parts. `TypeOK`; `Shapes`, which ties the places of the two goroutines to each
other and to the channels (no keeper after the release function goes on, one
error at most, from a keeper that ended); and `HeldInv`, which bounds the age of a
held name by where its keeper is: the ticks of its timer while it waits, that and
a latency per attempt while it retries. The last two theorems assume `Margin`,
that the interval and all the attempts of a keep-alive fit the period. It holds of
the constants of the run. Without it the properties fail.

`HoldCommandProofs` is about `HoldCommand`, on top of `HoldProofs`: every step is one
of `Hold` or of a command that works on the table of names without a hold
(`HoldOrInterfere`), and for the latter `HeldInv` needs a proof of its own.
`CommandTypeCorrect` adds to the types that the phase of a process agrees with its
goroutines. `CommandHeldNameKept` carries `HeldNameKept` over to processes that exit,
are killed or leave their command behind. `CleanUpTimeCorrect` needs `OrphanInv`: a
name whose process died while its command ran is no older than `Silence`, the longest
time a keeper that fits its period goes without a successful call, and the time since
the death. The last two assume `Margin`; the first assumes nothing, and holds also of a
period of 0 or one that is shorter than the interval, where `Grace` is 0.

`LocalKeysProofs` is about `LocalKeys`, for any families, strings, numerals and
period. `KeyInjective`: two keys are equal only if family and name are, for names
without a separator and any families; two decompositions of a string at different
separators would put one inside a name. `ScanExact` and `SeekExact`: a cursor that
starts at a prefix meets the keys with the prefix first and together, since a
string without the prefix differs from it at a first place and compares there with
all of them alike; a finite bucket has a least key. `KeysTypeCorrect` and
`PanicsExplainedCorrect` follow from the invariant `KeysInv`, that each key
belongs to a name some counter gave. `ImplementsStoreCorrect` decodes the buckets:
every operation is that of `LocalStore`, so that what is proved of `LocalStore`
holds of the code's buckets while no family has a separator.

`FirestoreProofs` is about `FirestoreBackend`, for any clients, families, names,
instants and period. `FirestoreTypeCorrect` from `Shapes`: types, and that without
auto-release no call walks. `CountIsNextCorrect`, without resets.
`CalmLeaseBackedCorrect` from `CalmHolds`, which adds to the property that no walk has
the name on its list: `CalmLeaseBacked` alone is not inductive, since a walk releases
what it has listed without a second look. A list that is made during the hold spares
the name, whose last write is not old enough for any deadline fixed by then. The
theorem assumes `OwnWalks`, that there is one family or no auto-release; with two
families it is false, and `firestore_families` shows how.
`CalmLeaseExclusiveCorrect` follows with `CountIsNext`, without resets: what is
granted is not in use, and the name of a client in time is.
`FirestoreLeaseExclusiveCorrect` is exclusion without auto-release and resets.
`OnlyGrantsCorrect` and the refinement rest on `AskingHoldsNothing`: a client makes no
other call until its `Acquire` has returned. `ReuseFirstCorrect`, which assumes nothing,
rests on `WalkSweeps`: once a walk has left its own family behind, each name the family
counts has been written since the deadline or is still on the walk's list. A name that
is counted only now was written with its count (`DocsAge`). `FirestoreKeepsPromise`
assumes no auto-release and no resets. With auto-release a walk may free a name after its
holder has kept it alive, with resets a name disappears before the others do, and the
table of `NameManager` allows neither.

`MongoProofs` is about `MongoBackend`, for any clients, families, names, instants
and period; a lease id is opaque, and different names may have equal ids.
`MongoTypeCorrect` from `Shapes`, which also has that a client with a name makes no
call that acquires. `SingleCounterUniqueCorrect`, without resets, from `CountersAhead`:
the only counter of a family is ahead of every name that is registered or being made.
It says nothing of a family with two counters, whose names are not unique.
`MongoCalmLeaseBackedCorrect` and `MongoCalmLeaseExclusiveCorrect` assume
nothing: `CalmHolds` and `ClaimsExclusive` follow a lease from the operation that takes
it, through the registration or the lookup of the name, to the hold. While this claim
is young enough the lease is there, is not older than the last sign of life, is out of
reach of other clients' `Unlease`, and nobody else claims it. A `KeepAlive` with an older
date than that sign of life would break this; `SetBack` says when, and ends the claim.
`MongoLeaseExclusiveCorrect`, without auto-release, resets and failing counters, comes
from `Owned`: who has a lease, also a `TryAcquire` that will delete it again, is alone
with it. `MongoOnlyGrantsCorrect` assumes nothing. `MongoKeepsPromise` is the refinement,
without auto-release, resets, failing counters and strays, and with `DistinctIds`, that
no two names share the id of their lease (no family ends in a digit, say). An `Acquire`
is the step of the table that gets the lease of an old name or registers a new one, a
`TryAcquire` the one that gets a lease, provided the name is registered then; so does an
`Acquire` whose number another counter gave before, when the name is registered already.
Nothing a call does before shows in the table. This needs that who uses a lease is alone
with it and nobody misreleases (`Faithful`), and that the loop only tries registered names
(`LoopsOverData`); the counters play no part. The hypotheses are needed: a stray
release of the lease of a name that is about to be registered would leave that name
registered and free, and a lease that two names share would put both in use; the table
has no step for either.

`RestProofs` is about `RestRelay`, for any clients, finite sets of names and
connections, and number of faults. `RestTypeCorrect` from `Shapes`: a connection has
one client, and who acquires or releases holds nothing. For the other two it says who
counts on a name: the client that has it or whose answer grants it (`Has`), and the
release on its way (`Asks`). `RemoteExclusiveCorrect`: one party at most counts on a
name, and the name is in use (`Exclusive`); `RemoteExclusive` is not inductive, since
a name would be granted again before the first grant has been read.
`LossesBoundedCorrect`: the names lost and the requests adrift (those nobody waits for
any more that can still cost a name) are together no more than the faults
(`Bounded`). A fault comes first, the loss when the request lands; the server
answers every request once, so that it lands once.

The assumptions are those on the constants in the modules; every run evaluates those
of its modules.

Every invariant, action property and refinement that a passing run checks is a theorem.
Only model-checked is liveness, which the prover does not handle under fairness:
`ZombieReclaimed` and `LockComesBack` of `LocalBackend`, `ReleaseReturns` of `Hold`,
`LossEndsProcess` of `HoldCommand`.

## Not modelled

* The clocks of clients and servers are one clock, which the MongoDB clients read before
  they send an operation and the models of the others when it takes effect. That
  Firestore stamps a write that changes nothing is taken from the code, not from its
  server.
* `List` but for its panic and its lock, `serve` and `/health`, which change no name;
  `CreatedAt`, logging, the tables the command line prints.
* URLs and the registry of backends: options are parsed once, before there is a
  backend, and are constants here. Test support and examples have no state.
* Lease ids of different families that are equal: with families that share ids
  `ImplementsPromise` of `MongoBackend` fails at once, by the release above. The
  theorems about `MongoBackend` but `MongoKeepsPromise` hold of such families too.
* The release function called twice, which panics; no caller does.

## Plan

Done: `NameManager`; `LocalStore`, `LocalBackend` and `LocalKeys` with their
proofs; `Hold` and `HoldCommand` with their proofs; `RestRelay`, `FirestoreBackend` and
`MongoBackend` with their proofs, the refinements of `NameManager` among them.

Left:

1. A bound on the skew of the clocks of Firestore and MongoDB clients, and the exclusion that is
   left with it.
2. The refinements of `NameManager` by the Firestore and MongoDB backends with
   auto-release, against a table that allows a late sweep.
