# Guatiao: a TLA+ model of its concurrent core

Guatiao lets a host program load *libraries* that offer *providers* of *kinds*,
from files, from its own binary, from *sources* (scripts, wasm, a remote
server), and call them through C tables. This directory models the parts of it
where threads, processes, messages and lifetimes meet, and the algorithms on
values that two pieces of code must agree on; checks them with TLC; and proves
part of what is checked with TLAPS. Paths below are relative to `src/crates/`;
`remote/` stands for `guatiao-source-remote/src/`, `library/` for
`guatiao/src/library/`, `value/` and `schema/` for `guatiao/src/value/` and
`guatiao/src/schema/`.

Contents: [the system](#the-system), [modules](#modules),
[runs](#runs), [bounds](#bounds), [fairness](#fairness), [proofs](#proofs),
[findings](#where-the-code-and-its-words-differ), [not modelled](#not-modelled),
[plan](#plan).

## The system

| component | state it keeps | operations | what makes it hard | modules |
|---|---|---|---|---|
| thread pool, `remote/link/pool.rs` | places in use, thread count, idle list, queue, one channel per thread | `run`, `place`, `work`, `when_idle` | a submitter sends to a thread whose wait is timing out; a spawn fails after it was counted | Pool |
| write gate, `remote/link/gate.rs` | the writer or who has it, queued frames, closed | `send*`, `retract`, `close`, `try_with` | whoever finds the writer free writes for everybody; a write fails part way; a caller takes its frame back | Gate, Outbox |
| shared-memory ring, `remote/transport/shm.rs` | head, tail, the sleeping flag, the bell, `gone` | `read`, `write_vectored`, the closer | lock-free, two processes, counters that wrap, a bell that may end | ShmRing, ByteStream |
| link, `remote/link/mod.rs`, `proxies.rs` | calls and mailboxes, running and late calls, exported objects, handles, permits, places | `call`, `exchange`, `wait`, `cancel`, `route`, `serve`, `end` | calls nest in both directions on the same threads; timeouts race answers; RELEASE races pool threads; the link ends anywhere | Link |
| entry to an exported object, `remote/link/mod.rs` | a lock and an `inside` mark an object | `enter`, `call_export`, `take_export` | an object calling itself comes back on the same thread | ObjectGuard |
| buffers and waiting, `remote/link/buffers.rs`, `waiting.rs` | kept and parked buffers; pollers and the typical wait | `give`, `take`, `park`, `release`, `close`; `poll`, `saw` | a count read without its lock; a close beside the reader | Buffers |
| handshake, `remote/link/handshake.rs`, `mod.rs` | where each end is, the bound on a frame | HELLO, WELCOME, PROOF and their refusals | four trust levels, keys and tokens at two ends configured apart; a call sent before the server read the PROOF | Handshake |
| server, `remote/server.rs` | live links, `ends`, generations, tables held per link, known kinds | `serve`, `end_links`, `refresh`, LIST, OPEN, CLOSE | links end while they are set up; refresh under two locks; kinds two requests learn at once | Server, KnownKinds |
| client, `remote/client.rs` | the current link and its catalogue, disconnects, generations; peers by manifest, those leaving | `link`, `list`, `open`, `close`, `disconnect` | connecting runs outside the lock; manifests change while their libraries are held | Remote, Described |
| RDMA ring, `remote/transport/rdma/ring.rs` | two rings, positions, credits, requests under way | `read`, `write`, `post`, `reap`, shutdown | positions wrap; credits share the send queue with data; writes lost with the queue pair | RdmaRing |
| deferred, QUIC and web transports, `remote/transport/{deferred,quic,web}.rs` | what is set up, what has ended, who waits | set-up on first read, `end`, `shut`, `close`, a race of addresses | an end at any point of a set-up | Deferred, QuicLink, QuicRace, WebLink |
| registry, `library/registry.rs`, `raw/{lease,image,host}.rs` | libraries, providers, the key index, the snapshot libraries read, libraries leaving, leases | `load_file`, `register_*`, `retire`, `collect`, `unload*`, `keyed_by`, `libraries_keyed_by` | other threads pin and drop while the registry counts; one image by two paths | Registry |
| sources, `library/source.rs`, `raw/source.rs` | per candidate the stamp served and the stamp tried | `refresh` | the listing changes between list and open; one step of several fails | Registry |
| calls of a table's slots, `library/kind/{runtime,shim}.rs` | a call's arguments as both sides have them, its answer, lent trees; the cell of a lent object | `Caller::call_raw`, `dispatch`, `share`, `LentHandle::call` | what is handed over exists twice while the slot runs, and any of seven steps may fail; a handle called as its lend ends | SlotCall |
| language bridge, `guatiao-bridge` | builds by stamp; an engine's thread and queue | `list`, `open`, `close`; `run` | stale stamps; engines that call each other | Bridge, Engines |
| wasm source, `guatiao-source-wasm` | a store behind a lock, ids of objects, what is deferred; the ticking thread | `call`, `release`, `enter`, `discard`; `running` | guests re-enter hosts on several threads; a stop takes a store's objects | Wasm, Ticker |
| JavaScript source, `guatiao-source-js` | frames, what waits for them, the meter's stops | calls, releases, opens, closes, `settle` | re-entered from scripts, from cleanup and while it settles | Script |
| objects in scripts' handles, `guatiao-bridge/src/calling.rs`, `guatiao-source-lua` | what each handle holds, a call's arguments | `argument`, `put_back`, `hand_back`, `share`, `call_raw` | a call takes objects out of handles that scripts nested in it also have | Handing |
| merge, `value/merge/mod.rs` | the merged value and who gave what | `merge_value`, `record_claims`, `source_of` | two walks of one pair that must stay in step | Values, Merge |
| wire of values, `value/wire/` | output with remembered key ranges; input with open containers | `encode`, `decode`; `Encoder`, `Decoder` | counts put in late move everything behind them; a builder leaves what it likes | Wire, Encoder, Decoder |
| schema, `schema/` | none: documents and values | reading, `validate_*`, `redact`, `inline_refs` | three walks of one document written apart; references that multiply | Schema |
| intake, `guatiao-intake` | a flat store others write to; a form and what is filled in | `flatten`, `unflatten`, `resolve*`; `check`, `is_visible` | keys left by another arm; conditions on conditions | Flat, Form |

How they meet: a **link** runs over one transport (such as a pair of **rings**),
reads frames on one thread, runs the peer's calls on its **pool** and writes
through its **gate**. A remote client is a **source** of the **registry**; a
server answers a link out of a registry of its own. A **bridge** is a source
too, whose libraries run in **engines**. Composed here: Remote extends Server
(both sides of several links under a registry's refresh); Link uses what Gate
and Pool promise (one ordered outbox with retraction; a bounded count of places)
rather than their code, which is why those promises are shown separately;
Registry includes the source's side of a refresh; Form extends Schema and Flat.

## Modules

Every action's comment names the function it models; `PROJECT.json` maps each
definition to its lines. Modules whose constants a `.cfg` can spell (Pool, Gate,
ShmRing, Link) are checked as they are; `MC*.tla` give the others their small
instance. `*Proofs.tla` hold the theorems and extend what they are about.

The link:

* **Pool** (proved about in **PoolProofs**). Each critical section of
  `PoolState` is one action; the atomic update of the places, the spawn, each
  send outside the lock and each step of a job are actions of their own. A job
  that panics gives back and returns as any other.
* **Outbox** says what the gate promises; **Gate** (**GateProofs**) is the gate.
  A frame stands for itself and the thread that sends it. `TakeBatch`,
  `WriteFrame`, `GiveBack` are `drain`; a write may fail after any part of its
  frame has gone. `Gate` implements `Outbox` with `pending` the batch in hand
  followed by the queue.
* **ByteStream** says what a stream transport promises; **ShmRing** is one
  direction of the shared-memory one. Every atomic access is an action. The
  `SeqCst` fences on both sides forbid the one reordering that matters, so
  accesses interleave. Counters are kept modulo `Ring * Laps`, as the code's
  are modulo 2^64, a multiple of `RING`.
* **Link** has both ends, which run the same code. A call is a record (who made
  it, during which call, on what, passing what); an object is named by the call
  that first carried it. Each critical section of `Inner.state` is an action,
  and so is each step between: a reply may be routed between a caller's timeout
  and its `cancel`, a RELEASE before the pool thread of an earlier call starts.
  A LIST or an OPEN (`Ask`) is a call on the peer's `Catalog` that waits for no
  permit and takes a place of the peer's pool like any other, and either is
  refused where the pool has none, or starts no thread for it.
* **ObjectGuard** is the lock and the mark of an exported object, each taken and
  read in a step of its own, with threads whose calls nest.
* **Buffers**, and the pollers of `waiting.rs`, by their locks and atomics.
  **Handshake** runs any two configurations against each other; a proof is a key
  and a label.

Remote:

* **Server** has each critical section of `ServerInner`'s locks as an action;
  **Remote** adds the host's side (`Peer`), one peer, under a refresh. A load is
  numbered, a provider table is its load.
* **Described** is a source of peers described by manifests: peers made, kept,
  replaced, dropped, and listed from memory when they cannot be reached; a
  disconnect ends them one after the other. **KnownKinds** is what two concurrent requests of a link learn and give it.
* **RdmaRing** has both sides: posts, completions, credits, cut and loss.
  **Deferred**, **QuicLink**, **QuicRace**, **WebLink** each end a connection from
  several threads at any point of its set-up; the libraries under them (quinn,
  the web channel) are external and answer as they like.

Libraries and languages:

* **Registry** has the registry's operations, which exclude each other
  (`&mut`), interleaved with the handles of other threads. `unload` is split
  where a pin may come between, `refresh` at each candidate. A lease is its
  count, worked out from who holds it (`StrongCount`), and compared with what
  the code subtracts (`HoldsBesidesOwn`).
* **SlotCall** is one call of a slot from image to image, or from C: each argument
  as the caller's `Pending` and as the callee's read of it, the answer with the
  allocator it is in, at every step where the call may fail. Arguments are of
  five sorts by who owns them; widths of numbers, the words of errors and
  descriptions are left out. At its end, threads that call a lent object's handle
  while `share` ends the lend.
* **Bridge** is `BridgeSource` under a refresh, its manifest edited between any
  two steps; **Engines** is `Runner`: calls of pinned and shared engines from
  several threads and from each other.
* **Wasm** has the lock of a library, entries of a thread into several libraries
  and what is let go later; **Ticker** the epoch thread and its condition
  variable. **Script** is the JavaScript engine's stack, with cleanup, reactions
  and destruction that wait for it to empty.
* **Handing** is the ownership of objects between a host and a Lua state:
  `Held::argument`, `with_args`, `PreparedArgs::drop`, `give_back`, the lends of
  `share`, and the userdata borrow that is held while a handle's method runs.

Values, as functions rather than steps:

* **Merge** folds layers and records claims, over the trees of **Values**.
* **Wire** has `encode` and `decode`; **Encoder** and **Decoder** do the same by
  events and choices of a builder, and are compared with them.
* **Schema** reads documents, validates, redacts and inlines, and says
  independently what a document means (`Valid`, `Describing`, used by the
  properties only). **Flat** and **Form** use it. **MCParts** holds the
  documents, values and forms that are checked.

**MCParts** and **MCOutside** put components that share no state into one run: a
variable says which component a behaviour is about, the others stay as they
begin.

Mutants (definitions named `...Mutant`, `...Silent`) are plausible mistakes,
each defined before the definition it would replace; each makes one property
fail, which shows that the property looks at that code.

## Runs

`tlc -workers 2 -config Link.cfg Link`, `... -config MCParts.cfg MCParts`: a cfg is
named after its module (`LinkEnds` and `LinkLive` are of Link, `MCRegistryRefresh`
of MCRegistry, `MCQuicRace` of MCOutside); the longest, `parts` and `outside`, take
about three minutes. A property is a conjunction of named parts, each with its own
comment in its module.

| run | property | made of |
|---|---|---|
| `pool` | `PoolIsExact` | places, threads and the idle list counted exactly |
| | `JobsAreKept` | a queued job has a thread that will take it; no accepted job is lost |
| | `AcceptedRuns` | every accepted job runs |
| `gate` | `GateIsExact` | one writer, nothing waits while it is free |
| | `WireIsInOrder` | order of acceptance, a retracted frame never goes |
| | `AcceptedGoes`, `QuietAfterShutdown`, `ImplementsOutbox` | an accepted frame goes unless a write fails; silence after the shutdown; the refinement |
| `shm_ring` | `RingIsSound` | counters never refused, no lost wake-up, the awaited byte comes, the bell bounded |
| | `IsByteStream`, `RingGoesOn` | the refinement; neither side is left waiting |
| `link` | `ObjectsAreKept` | handles are held; what is held somebody will let go |
| | `CallsAreAnswered` | calls within `max_calls` leave each other a place, "too busy" takes a LIST or an OPEN; an answer is coming |
| `link_ends` | `EndLeavesNothing` | no object let go in use; an ended side holds and awaits nothing |
| `link_live` | `EveryCallReturns` | however calls nest over one place and one permit |
| `registry` | `HandlesReachCode` | no handle outlives its code |
| | `CountIsTrue`, `IndexIsExact`, `SourceIsTold` | `unload` counts the handles there are; keys, snapshot and libraries agree; a source hears of each close once |
| `remote` | `ServerEndsLinks` | `end_links` ends all that was served as it began; `live` is exact |
| | `OpenedIsServed` | a stamp tells one load from the next; what the host holds its peer holds |
| | `ClientKeepsOne` | one link, none kept past a disconnect |
| `parts` | `HandshakeAgrees` | both up or both failed; an end that is up has what its level asks; the first call fits |
| | `PeersAreKept`, `OutageRetiresNothing` | peers live as long as described or held; a failed listing retires nothing |
| | `KindsAreKnown` | the link knows what its answers name; listed is held |
| | `ObjectsAreGuarded` | a call of an object on itself is refused, and no other; what a slot call hands over, lends and answers has one owner, is at home and is wiped where secret, but for a text made into a tree, however the call fails; a lent object is called only while lent |
| | `SharedIsBounded` | buffers counted, gone with the link; pollers within the cores |
| | `AttributionHolds` | every leaf attributed, truly; interior nodes as their leaves agree |
| | `BytesAreTheValue` | `Encoder` writes what `encode` does, its keys stay put; `Decoder` decides as `decode` does |
| | `SchemaIsMeant` | secrets hidden, verdicts as meant, inlining bounded; stores read back, reading settles, keys resolve; a form that fits can be shown, hidden hides, cycles are found |
| `outside` | `RdmaIsSound` | bytes in order, positions accepted, a clean end complete, standstill only where named |
| | `DeferredEnds`, `QuicEnds`, `WebEnds` | a connection ended at any point is over; a clean QUIC end delivered everything |
| | `RaceAnswers` | a race of addresses answers what its attempts came to |
| | `BuildsAreFiled` | every build filed under the stamp it is closed by; what is held is open; what is served is fresh |
| | `EngineCallsGoOn` | a waiting call is queued once; a circle only where two engines are written as one |
| | `WasmHolds` | ids are those of the store's guest; what is let go the guest is told; no circle of locks; the ticker sleeps only unneeded |
| | `ScriptsAreSound` | nothing waits once the engine is left, cleanup runs alone, a stop is its call's; objects in handles have one owner, outlive their uses, and find their handle free |
| `registry_refresh`, `quic_race` | `ChangedStaysServed`, `EveryAttemptStops` | expected to fail, see [findings](#where-the-code-and-its-words-differ) |

Where the code is known to break the plain statement of a property, the property
names the exception (`OpenedTwice`, `CircularWait`, an early return's mark, ...)
and holds without it; the exceptions are listed under
[findings](#where-the-code-and-its-words-differ).

## Bounds

Bounds are constants of the modules and guard the actions that would pass them:
`Calls` (calls ever made), `MaxPart`, `MaxLate`, `Regs`, `MaxHolds`, `MaxOpens`,
`MaxEdits`, `MaxBuilds`, `MaxFrames`, `MaxEntries`, `MaxStack`, `MaxNest`,
`MaxEvents`, `MaxLayers`, `MaxStrays`. Limits of the code (`Max`, `Limit`,
`MaxQueued`, `MaxDepth`, `Ring`, `RING`, `CHUNK`, `CREDIT_EVERY`,
`KEEP_AT_MOST`, `BUDGET_FACTOR`, `Base`) are set to their smallest interesting
value: one place forces refusals, a depth of one or two forces "too deep", a
ring of two or four bytes wraps at once, a length of base two needs several
bytes at four entries.

* `pool`: more jobs than places, and a thread still ending while another starts;
  slots are reused, so runs are unbounded. `gate`: one thread writing, two queued
  behind it, one more arriving or taken back, the end beside them all.
  `shm_ring`: unbounded traffic over two laps.
* `link`, `link_live`: three calls are a call, one nested in it and one beside;
  `link_ends`: two, with timeouts, oversize bodies and the end. `Requests` says
  which of them may be a LIST or an OPEN: the first two, so that one takes the
  only place before a call and after it, and the first in `link_live`. In `link`
  and `link_ends` the pool may also fail to start a thread (`Starves`).
* `registry`: two libraries are enough for every clash it decides pairwise, one
  handle tells counted from not counted.
* `remote`: two links (a kept one and its successor or rival), one library, two
  threads in `Server::refresh`, two hosts that connect, two opens, one call under
  way; `MCRemote` narrows who reconnects, reloads, fails and ends in each scope,
  and two loads with two opens have a link that does not fail.
* `parts`: all pairs of the listed configurations; three peers of one name over
  three edits, over two links, ended at any time; two requests and three providers with a clashing kind; two
  threads and two objects lent in opposite orders; slots of up to
  two arguments of each pair of sorts read in different steps, with each kind of
  answer; two threads with a lent object's handle; three layers; events to
  length seven; the documents, values, writes and forms of `MCParts`,
  chosen so that each keyword and each of its combinations that the
  code treats apart occurs.
* `outside`: rings that wrap twice; two or three enders at every step; three
  addresses; two stamps edited to and back with three builds; two pinned engines
  and a shared one; two wasm libraries on two threads; stacks of three; for
  `Handing` two objects, two handles and four nested calls, enough for a handle
  to be used inside a call of its own method.

Deadlock is not checked where a component finishes its work: every frame sent,
every call returned, every connection ended, every document judged.

## Fairness

Weak fairness only, of steps that wait for nothing but a lock or a returning
function. *Pool*: a submitter inside `run` and a thread that lives go on; that a
job returns is the provider's. *Gate*: a thread inside a send goes on, a
transport's write returns or fails, `Inner::end` finishes. *ShmRing*: reader and
writer go on, a reader that ended closes its side, and the writing side's own
reader sees the bell end (it waits on the same connection). *Link*: callers,
running calls and reader threads go on; no program has to make a call, drop a
handle or end the link, and no timeout has to pass. The registry, the remote
source and the components of `parts` and `outside` are checked for safety; what
they must eventually do is stated as what is true once everybody has returned
(`EndReachesChannel`, `NothingWaits`, `WaitIsKept`, `StandstillIsQueues`).

## Proofs

`tlapm M.tla` for each `*Proofs` module (Link, Library, Parts and Outside take up to
fifteen minutes each). Every theorem holds for every value of the constants within the named
assumption of its module; TLC evaluates that assumption in the runs. In each
module one inductive invariant carries the theorems: what is checked by the runs
is not inductive as it stands, and what had to be added is said below.

| module | theorem | states of the run | needs |
|---|---|---|---|
| PoolProofs | `PoolExact`, `JobsKept` | `PoolIsExact`, `JobsAreKept` | `PoolAssumption` |
| GateProofs | `GateExact`, `WireInOrder`, `Quiet`, `Refinement` | `GateIsExact`, `WireIsInOrder`, `QuietAfterShutdown`, `ImplementsOutbox` | `GateAssumption` |
| ShmRingProofs | `RingSound`, `RingIsPipe` | `RingIsSound`, `IsByteStream` | `RingAssumption` |
| LinkProofs | `LinkInvariance`, `EndLeaves`, `HandlesHeld` | `EndLeavesNothing`; `HandlesAreHeld` also with timeouts | `LinkAssumption` |
| | `CallsAnswered` | `CallsAreAnswered` | also no timeouts |
| | `ObjectsKept` | `ObjectsAreKept` | also no timeouts, no oversize bodies |
| LibraryProofs | `HandlesReach`, `CountTrue`, `IndexExact`, `SourceTold` | `HandlesReachCode`, `CountIsTrue`, `IndexIsExact`, `SourceIsTold` | `RegistryAssumption` |
| | `WasmIsSound` | `WasmHolds` | `WasmAssumption` |
| | `EnginesGoOn` | `EngineCallsGoOn` | `EnginesAssumption` |
| | `ObjectsAreHanded` | `HandingIsSound`, of `ScriptsAreSound` | `HandingAssumption` |
| RemoteProofs | `ServerEnds`, `ClientKeeps` | `ServerEndsLinks`, `ClientKeepsOne` | `RemoteAssumption` |
| | `OpenedServed` | `OpenedIsServed` | also no `Reloads` |
| OutsideProofs | `DeferredIsOver`, `WebIsOver` | `DeferredEnds`, `WebEnds` | |
| | `QuicIsOver`, `RaceIsRight` | `QuicEnds`, `RaceAnswers` | `QuicAssumption`, `RaceAssumption` |
| | `RdmaNeverTears` | `RdmaIsSound` | `RingAssumption` |
| | `BridgeIsFiled` | `BuildsAreFiled` | `BridgeAssumption` |
| | `ScriptsSettle` | `ScriptIsSettled`, of `ScriptsAreSound` | `ScriptAssumption` |
| PartsProofs | `HandshakeIsAgreed`, `PeersKept` | `HandshakeAgrees`, `PeersAreKept` | `HandshakeAssumption`, `DescribedAssumption` |
| | `KindsKnown` | `KindsAreKnown` | `KindsAssumption` |
| | `SharedBounded` | `SharedIsBounded` | `BuffersAssumption`, `WaitingAssumption` |
| | `ObjectsGuarded` | `ObjectsAreGuarded` | `GuardAssumption` |

**Pool.** Finite sets of jobs and thread names, `Max` positive. `IInv` is
`TypeOK`, both counts, and `Shape`: a thread has a job in hand exactly while it
runs one, no two the same (`InHand`); a channel has at most one job, sent to a
thread that will look (`InChannel`); a thread being started belongs to one
submitter (`Starting`); queued jobs are marked so, each once (`InQueue`); and
`IdleAreWaiting`. The counts alone are not inductive: giving a place back needs
that the job in hand is one that still has its place, and taking an idle thread
needs that its channel is empty. For `JobsKept`, `KInv` adds the converses: a
job the pool took is where its state says, and a thread that waits is listed or
has been sent something. A queued job then has a finishing thread of its own
because `place` refused it an idle one, which is a fact about the cardinality of
the finishing threads against the length of the queue.

**Gate.** Any set of frames; the null values are no frames. `GInv` adds to the
three invariants of `GateIsExact` what a shut writer (`EndedState`) and a failed
one (`BrokenState`) imply: without them a failed write could be followed by a
batch. `OInv` adds for the order that frames are accepted once and that wire,
batch and queue, one behind the other (`Sent`), are in the order of acceptance
(`Before`) and leave out nothing but what was taken back. For the refinement
each action maps to one step of `Outbox` or none; retracting needs that
`Without` removes exactly one position of the queue.

**ShmRing.** Any capacity, any multiple of it as the range of the counters, any
length of a write. `RInv`: no more than `Ring` is held; what the writer copies
fits beside it; what the reader copies is there; and a flag up, a swap taken and
a byte on the bell are one wake-up each, which cover a waiting reader
(`WakeUps`) and exceed it by no more than the waits that ended late
(`BellCount`). `RingIsPipe` maps the held cells to the pipe's content; it rests
on `Division` and `Remainder`, by which counters that wrap at a multiple of the
capacity name the same cells as numbers that never wrap.

**Link.** Any finite set of calls, any places, permits, queue and depth, at both
ends. No property of a link is about the order in its gates and mailboxes, so
the proof has three layers: lemmas about what appending, taking and cutting do
to the set of a sequence without repetitions; `Step`, which says what each kind
of action does to the sets of frames under way and in mail, and is shown to keep
every part of `LinkInv`; and one lemma an action that it is such a step.
`LinkInv` says where a request (`Requested`), its answer (`Replied`), a cancel
and an object can be. Its centre is `HasOne`: one thing at most, a handle, a
RELEASE, a call that hands it over or back, or an answer, stands for an object
with the peer of the side that holds it; with `HasHeld` (it is held meanwhile)
this is why a RELEASE or a refusal never takes an object from under a handle.
`Patient` adds what is true while nobody gives up: an answer is coming
(`Coming`), the calls of a side that are under way or have one of the peer's
places are no more than its limit (`Roomy`), and where a side was refused as too
busy it has asked for a LIST or an OPEN (`Bidden`), for `NeverTooBusy`. `AllBorne` is the converse of `HasHeld`.
The hypotheses are not for the proof's ease. A caller that times out leaves an
answer nobody takes and a nested call nobody runs, and a body that is too large
leaves its object exported: in these cases the code does not do what
`ObjectsAreKept` and `CallsAreAnswered` say ([findings](#where-the-code-and-its-words-differ)).
`EndLeaves` and `HandlesHeld` need neither.

**Registry.** Any libraries, builds, images, candidates and numbers of handles;
places of one sort are not of another, offers are finite. `RInv` is `TypeOK`;
`Counted`, the loader's count covers every library in use of an image and the
source's is the number it has opened; `HeldAreInUse`; `Indexed`, the key index
lists each provider at its position, of a loaded library; `Apart`, keys and
paths tell loaded libraries apart; `SnapshotAgrees`; `UnloadIsQuiet`, a library
counted to no handles has none while its slot is asked; and `ServedAreKnown`.
`CountTrue` follows from what `strong_count` is made of: every hold that `unload`
subtracts as its own is there once.

**Remote.** Finitely many links and opens. `RemInv` is in parts that read few
variables each, so that a step disturbs few: `Settled` (links set up, kept and
ended), `Stocked` (what the served registry has, with the refreshes that loaded and have
not counted yet), `Carried` (what frames,
requests and answers say), `ClientIs`, `Counted` and `KeepsOne` (the client's
link and its disconnects), `Held` (what its host has open). `OpenedServed` adds
`Told`: what is held under the stamp of the current generation is the last load.
It is stated without `Reloads`. With them TLC finds `OpenedIsServed` violated: a
host that retires a library and loads it again through `Server::registry`
(`server.rs:581`) between two refreshes leaves its generation, so its stamp,
unchanged; `MCRemote` does not allow such reloads either.

**Transports.** Any closers, enders and shutters. Each invariant says, for each
point of the set-up, which of the enders is left to close what is open:
`CloserOrder`, `SomebodyWill`, `EndCloses`; for QUIC also that a handshake asleep
has left a waker somebody will take (`SleepIsHeard`). For a race of any finite
number of addresses (`RaceInv`): they are tried in their order, none before its
turn; an attempt that ended has its outcome among those heard or on the way to
be; and the answer is made of what was heard.

**RDMA.** A ring of any size, any multiple of it as the range of positions, queues
of any length, writes of any sizes that are not zero. `RdmaInv` says there are
numbers that never wrap behind every position in sight, one path for each queue
(`Chained`): how many of a side's bytes are posted, and how far its peer was told
it read, after so many of its requests are carried out (`q`, `t`); how many bytes
its reader heard of after so many completions (`r`); how far it read when it last
was to tell (`d`). `Asked`, `Written`, `Telling` and `Landed` tie each queue,
staging area and inbox to those paths, and put them in one order,
`t[p] <= d[p] <= got[p] <= r[p] <= q[s] <= sent[s] <= t[p] + RING` (`OnItsWay`):
what `room` computes from two wrapped counts leaves staged bytes in staging and
unread bytes in the inbox. A step makes one path longer or shorter by one. The
standstill needs `Settled` as well: receives posted and completed are as many as
were made unless a request failed, so a queue that waits for a receive has a peer
with completions it does not drain, which waits in `post` itself. The sum `drain`
takes is a recursive function; that it is what the path says (`TotalIs`) is
induction over a set of numbers, by the well-foundedness of `<` (`AgreeOn`).

**Handshake.** Any configurations of two ends, any transport, any read-ahead.
What a client sends is a script that its options and the server's decide, HELLO,
PROOF where one is asked, the call. `HandInv` says how much of it has been sent
and read, and that what is between, in the message channel and behind it, is the
rest in order (`ReadSoFar`); and what the state of each end implies of the two
configurations (`Judged`): a WELCOME is only on its way where the server admits
the client and the bound is no more the handshake's. So the frame the server
judges is the one its state is for, and the only large one, the call, comes to a
channel whose bound is raised or is second behind the PROOF.

**Described.** A finite set of names, any bounds. `PeersAreKept` is not inductive:
that a close gives back exactly what its open took needs that a peer is of one
name (`OneName`, a witness `f` from peers to names that every mention of a peer
agrees with) and a generation of one peer (`OneSource`): then, of all the peers a
name has or had, which a close asks one after the other, only the one that opened
the library counts anything under its stamp, and it is asked. That the peer is
still known needs the other direction, from what is held to what is counted
(`Counted`, with `HeldCounts`): the entry of a replaced peer stays while something
is held of it. During a listing the old names and the new coexist; `Fate` says
what becomes of a peer named before it: named again, leaving, or dropped and
without a link for good, since only what is asked in the listing gets one.
`Young` (nothing is known of a peer to come) keeps new peers apart from all
others. Counts of libraries are compared by their ids (`ById`, `OneMore`,
`OneLess`). Once a library was opened from another peer than its stamp's
(`crossed`) the counts are stated no longer, the rest is.

**Kinds.** Any kinds and requests, a finite set of providers. A request learns
kinds before it gives them to its link, and another learns and gives in between.
`KindsInv` says of each request (`AskIs`) that what it will answer is known and,
before it answers, the link's, and that an OPEN has what was promised; and of each
table, also of those a LIST told (`listed`), that its kinds are ones the provider
serves and the link has or is about to be given, and that all the provider's own
document says is known (`TableIs`, `CoveredBy`). What is known only grows and keeps
its documents (`Keeps`), which carries all of it over another request's steps. What
a catalogue of several providers learns, one after the other, is a recursive
function over numbers; that each step keeps what was known, and leaves what it
served covered, is `HandedOn`, by well-foundedness. The proof corrected
`ListedIsHeld`: stated of what is listed now, it fails of an OPEN answered before a
later LIST lists more; a request now carries what had been listed when it opened
(`promised`).

**Buffers and pollers.** Any threads, sizes and budget. A count of bytes is the
sum of a list that grows at its end and shrinks at both, while threads stand
between its change and that of the count. `Accounts` says it by running sums
(`Sums`), one more or one less at a step; `Gone` what the two steps of `close`
leave beside a reader that parks. For pollers, `polling` counts those between
adding and taking back too (`Adding`), and who polls for good read a number that
no more than `Cores` had added before.

**Objects.** Any objects, any threads, calls that lend any number of objects and
are on one or none. `SelfCallRefused` and `BusyIsInside` look at one lock and one
mark; that they hold needs the whole stack of a thread. `CallsHold`: the calls of
a thread, all but the innermost waiting inside their slot, have locked what they
entered and have not left, in the order of `Enters` going in and of `Leaves`
coming out (`LocksOf`); no object is among it twice. `MarksFit`: a mark is a lock
the thread has, an early return's, or the one being cleared, and a lock has its
mark but where `mark` is to come or a handler cleared it. A call of a slot needs
an invariant by its step alone (`SlotInv`): which of its arguments were read,
taken, put back or dropped so far, in which allocator each part of the answer is,
and who is left to let go of it. A lend (`LendInv`): who reads its lock, none once
it has ended.

**Wasm and its ticker.** Any threads and libraries, entries of any depth. Each of
the three properties is about the top of a stack of entries; what makes them
inductive is about the whole of it (`StackFits`): a thread's entries but its last
are inside a guest or telling one, it is inside a library once, it has exactly
the locks of the libraries it is inside, and it waits for a lock inside none. So
who holds a lock waits for no other, and no circle of locks comes about.
`KnowsGuest` has the ids of a store from numbers it answered, and what is deferred
from those nobody holds; `WasmTold` what has not reached the guest yet in a
`deferred` or in the hands of a thread that settles, however deep in its stack,
unless the lock is poisoned. A step changes the top of one stack and one library
(`StackSteps`), and is one of three: a thread goes on inside (`StaysInside`),
comes out (`StepsOut`) or has no lock yet (`Outside`). The ticker sleeps only
while the set its count counts is empty (`TickerInv`).

**Engines.** Any threads and engines, written to call each other in any way, any
depth. `EnginesInv`: whoever waits for an engine is once in its queue or the one
it runs for (`Queued`), and runs or waits for nothing but what its engine's code
comes to (`RunsItsOwn`). That a circle of waits is one of code is then a fact about
two relations: what comes after a thread is said without a path, as what is in
every set closed under the relation (`ComesTo`), so that no induction is needed.

**Bridge.** Any contents of a manifest, any number of builds. A close names a
build by its stamp alone, and takes the first of that stamp, so what is filed
agrees with what the registry has by how many there are of each stamp, not build
by build (`FiledFor`). Closing what is no longer held takes as many of a stamp as
are asked for: the numbers of a finite set are ranked by how many are no larger,
and the ranks are an injection into `1 .. n`, so a surjection (`PastTheFirst`);
no induction is needed. That the engine still has what is held, unless another
build had its stamp, is then that a set as large as one that is not empty is not
empty. What is served is what was listed because what was tried last is what was
listed last whenever nothing is being opened (`TriedAsListed`).

**Handing.** Any objects, handles, arguments and depth of calls. That an object has
one owner, that what is called is there and that its handle is free for it again
are each about two frames of the stack or a frame and a handle; `HandInv` says for
all of them what is where. An object in a handle that owns it is nowhere else; one
lent is in the host, or in a call further out that lent it on (`HandleFits`). An
argument taken out is nobody's, and its handle is empty, owns, and has no method
running on it until the argument is back (`KeptFits`); two arguments, of one call
or of two, share neither object nor handle (`ArgsApart`). A method's object stays
in the handle it was called through, and a handle lent to a call is called inside
that call only (`FrameFits`). It is an invariant of values it is given rather than
of the variables, because an action that changes several places is taken in parts,
through values the state never has: a call that ends is popped, then its arguments
go back (`CallIsOver`), then what was lent is taken from its handles.

**Script.** Any libraries, objects and depth of activities; `NoObject` is not an
object. `ScriptInv` reads the stack as a path: what runs alone has no frame below
it, each frame remembers the stop of the frame right below it, and the stop now
set is that of the topmost (`StackIs`). An object of a library is held by a host,
about to be answered by a frame or waiting to be released, under a number of its
own (`ServedFits`); an object of a host is in one place, and one still in a closed
library's handle has a collection to come (`HostFits`). Settling is not an
activity in two frames at once, and what it released is never the first thing the
engine is entered with, which is why leaving the engine empties it
(`SettledWhen`). Like `HandInv`, it is of values given: an activity ends before
the engine is left.

Only model-checked, and why:

* liveness under fairness and `ENABLED` (`AcceptedRuns`, `AcceptedGoes`,
  `RingGoesOn`, `EveryCallReturns`): out of the proof system's reach;
* what is defined by recursion over data (Merge, Wire, Encoder, Decoder,
  Schema, Flat, Form): those modules have `RECURSIVE` operators, which no theorem
  may reach. Where recursion is over numbers (`drain` of RdmaRing, catalogues of
  KnownKinds, sums of Buffers) a recursive function and the well-foundedness of
  `<` do instead.

## Where the code and its words differ

Shown by a run:

* `registry_refresh`. A changed candidate's old build is retired once the new one
  has opened, not once it has loaded (`library/source.rs:559`, against `:420`):
  a new build refused for a key leaves nothing served, and is not tried again
  until its stamp changes.
* `quic_race`. `Ending` keeps one waker, so the end of a race wakes only the
  attempt that registered last (`remote/transport/quic.rs:1112`, against
  `:1109`); the others go on until their handshake answers or times out.

Met while modelling, and left in the models as the code has them. Link and
remote:

* A spawn that fails after it was counted can leave `when_idle` unrun
  (`link/pool.rs:292`).
* An answer routed between a call's timeout and its `cancel` keeps its object
  until the link ends (`link/mod.rs:1414`, `:1449`); so does a call retracted
  after it exported one (`:1436`, `:2104`); a nested call in a dropped mailbox
  is neither run nor refused (`:1528`).
* `call_export`'s early returns leave an object's mark (a later call is refused
  as busy), and two calls that lend two objects in opposite orders wait for each
  other (`link/mod.rs:1831`).
* A LIST or an OPEN is a job of the pool that calls run in, and asking for one
  waits for no permit (`link/mod.rs:1554-1579`, `:1347-1382`): a call within
  `max_calls` is refused `GUATIAO_ERR_BUSY` while one has the last place, against
  `docs/remote.md:1092-1094` ("a caller keeping to `max_calls` may call again the
  moment it has an answer"). `NeverTooBusy` says what is left of that: calls do
  not take each other's places, and only LISTs and OPENs of the same side can.
  A thread that does not start is the other refusal, which the same page names.
* `typical` never grows from five nanoseconds or less (`link/waiting.rs`).
* A library reloaded between a server's loading and its counting is opened twice
  under one stamp, and one CLOSE drops the tables of both (`server.rs:573`,
  `link/mod.rs:950`); an OPEN answered after the link's end leaves its entry; a
  build that fails after its OPEN is never closed (`client.rs:385-456`); a library
  retired and loaded again through `Server::registry` between two refreshes keeps
  its stamp (`server.rs:581`), so a client goes on with tables of the old load; a
  `disconnect` during a list misses a peer made after it (`client.rs:814`).
* A candidate of a described peer is opened by its name (`client.rs:663-679`): if
  the peer has lost its link since it listed, as a disconnect that ends peers one
  after another does first to the named ones, `open` takes the last replaced peer
  that lists the library. The build is then counted at that peer's link and
  closed by the stamp of the other's (`:458-470`), so the replaced peer is never
  let go of, against `:116-117` (it keeps its link while something it opened is
  held). In Described such an open sets `crossed`, and what a peer counts and what an
  outage retires are stated of behaviours without it.
* RDMA: both readers may wait in `post` for room that only the other's reading
  gives (`rdma/ring.rs:172-190`, `:318`); they wait with `sends` locked, so their
  writers' stall bound and a shutdown's second (`:386-435`, `:481-490`) wait too,
  whatever they say (`Spins`); a credit that cannot be posted because
  the peer has gone leaves bytes that landed unread.
* QUIC: a second end cuts the first's wait for delivery (`quic.rs:572-575`).

Libraries and languages:

* Two builds under one stamp: `close` takes the first
  (`guatiao-bridge/src/source.rs:268-279`, against `engine.rs:157`); a manifest
  edited and edited back around an open is served as it was in between.
* Wasm: a poisoned lock is never cleared, so every entry after one panic
  discards its store (`engine.rs:205-215`); a release refused while the library
  is busy is settled by the next call, not "at the library's next entry".
* A call refused after `with_args` destroys the objects it was to hand over
  (`calling.rs:173-178` says they go back): in Lua `h:eat(h)`, or a slot the
  table does not fill.
* An object answered by a slot is lost, its `destroy` never called, when a tree
  lent to the same call cannot be settled (`library/kind/runtime.rs:1868`); a lent
  object is laid out for a slot that takes an object by value (`:1785`), of which
  the model says nothing further.
* A handler that answers a sensitive slot's tree with a text leaves it in memory:
  `write_answer` copies the `String` into a `Value` and drops it as it is
  (`library/kind/runtime.rs:1278`), where a text slot overwrites its own
  (`:1219-1239`) and `value_ret` everything that it copies, "the original
  overwritten and freed" (`shim.rs:669-678`). In SlotCall such an answer sets
  `spilled` to `"text"`; `SecretIsWiped` allows that and nothing else.
* A lent handle passed on takes the read side of its lock and its call takes it
  again; if the lender comes to wait for the write side in between
  (`library/kind/runtime.rs:1415-1425`, another thread's call of a kept handle),
  both wait. A call begun between the return of `share`'s closure and that write
  still goes through. Handing is on one thread and does not show
  these; in SlotCall the wait can happen, and no property excludes it.
* A path that comes to name another file gives two registered libraries one
  `path`; `pass_over` does not look at retired libraries.

Values:

* Merge: an empty map that a later layer fills keeps its own leaf, which
  `source_of` then answers (`merge/mod.rs:570`, against `:253-254`).
* Decoder: a repeated key is refused before its value is read, `decode` refuses
  it after (`wire/stream.rs:339`).
* Schema: a scalar's `not` is also compared by spelling, so 5 is refused by
  `{type: integer, not: {type: string}}` (`validate.rs:134-148`); redaction takes
  tuple elements past `prefixItems` as described by nothing, overlooks `allOf`,
  `anyOf` and `oneOf` beside a type, and keeps a scalar no arm accepts
  (`redact.rs:49-51`, `:178`); a property whose schema is `false` accepts any
  value unless `additionalProperties` is false; keys beside a `$ref` are not
  charged to the inline budget; `validate_map` finds no field in a root that
  wraps its object.
* Flat: keys of an optional open map do not resolve (`flat.rs:604-607`); a field
  named `a.b` shadows member `b` of `a`, and the first arm that declares a name
  answers for all; a tuple with an absent position loses the later ones.
* Form: `check` accepts conditions that `current` never reads (on members of
  objects, lists and open maps), and conditions of one variant that ask for
  different arms.

## Not modelled

`PROJECT.json` lists every component. Most of the repository's lines are not in
the model, because there is nothing in them for a model to decide:

* derive macros and code generation, C exports, bindings in ten languages,
  examples and benchmarks: one function per operation over the parts above;
* the layout of vtables and C signatures, tables built at run time, their
  descriptions, instances and the numbers they take, the reading of object files and of descriptors in mapped
  images, the allocator under values: memory layout and pointers;
* sockets, TLS, HTTP, and the libraries under QUIC, WebSocket and RDMA: I/O that
  models take as external;
* codecs of frames, catalogues and arguments, serde bridges, number and calendar
  formatting, paths and configuration: conversions of single values, pure;
* the interpreters of Lua, Python and Rhai and the conversion of their values.

Left out of modelled parts: CLOSE and PING on a link, what the host asks (only
the client lists and opens there), requests made inside a call, several objects in one call, the decoding of
arguments, ranking and digests in the registry, watched directories, notes of
sources; patterns, lengths and formats of scalars; layout and texts of forms;
the memory a wasm request is written to and its table of host objects (which
uses the same `calling.rs` that Handing models over Lua's handles).

## Plan

Done: the modules above, in the order link, ring, registry, remote, transports,
bridges, values, slots; proofs of every safety property and every refinement of
Pool, Gate, ShmRing, Link, Registry and Remote, of all transports that are
modelled, of wasm libraries, engines' threads, bridges, scripts and objects handed to them, and of the parts of the remote
and of slot calls that the run `parts` has beside values.

What is left is what no theorem may reach here: the modules with `RECURSIVE`
operators and liveness, both listed under [Proofs](#proofs), and the parts under
[Not modelled](#not-modelled), of which CLOSE and PING on a link and several
objects in one call would be the first to add.
