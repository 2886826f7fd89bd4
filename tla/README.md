# A TLA+ development of pnpd

`pnpd` is the network-policy observatory of Peios: a daemon that taps every
interface, streams the kernel's verdicts from `/dev/peios-ntfe`, matches both to
the registry's policy and serves a single-page viewer over HTTP. This directory
holds TLA+ modules translated from its source, TLC configurations that check
them, and TLAPS proofs of what matters most.

Everything in a module stands for the lines that `PROJECT.json` names under
`map`; line numbers in comments refer to the file the module's header names.

## 1. The system

### Components, their state and their operations

| Component | Source | State | Operations |
|---|---|---|---|
| Packet ring | `ring.rs` | `history`, `next_seq`, `subscribers` behind one mutex; one bounded channel per subscriber | `push`, `since`, `subscribe`; `recv`/drop on the receiving side |
| Capture thread | `capture.rs` | socket buffer and drop tally in the kernel; three relaxed atomic counters; interface-name cache | `run` (recvfrom, harvest, classify, push), `is_own_flow`, `name_of` |
| Verdict ring | `engine.rs`, `Engine` | `events`, `own_hidden`, `subscribers`, status, `connected`, `dev_fd` behind one mutex | `push`, `since`, `subscribe`, `set_status`, `status` |
| Device link | `engine.rs`, `run` | the open device file, its duplicate in `dev_fd` | open, STATUS, ABI check, dup, publish, stream, withdraw; `counters`, `flows`, `listeners` |
| HTTP server and event stream | `http.rs` | a thread per connection, its two receivers and a stats timer | routing; `stream_events` |
| Viewer page | `ui/index.html` | `lastSeq`, `lastVerdictSeq`, the packet list and `ringCap`, parked verdicts and their timers, the table's rows | connect, backfill, add, match, pause, filter, clear; the rule editor |
| Policy authoring | `policy.rs` | the registry's `Peios\Network` subtree (external) | `read_policy`, `set_rule`, `delete_rule`, value typing |
| Service-SID resolver | `sid.rs` | a map with a 30 s lifetime, behind a mutex | `service_name`, `read_services`; SID texts |
| Start-up | `main.rs` | none | argument parsing, thread creation |
| Formatting | `json.rs`, `log.rs` | none | escaping, printing |

### How they interact

The capture thread is the packet ring's only writer and the engine thread the
verdict ring's. Each connection has a thread of its own; a stream connection
subscribes to both rings and drains its two channels, while other requests call
`since`, copy counters, or copy `dev_fd` and make an ioctl. All shared state is
behind two mutexes, the rings', except the capture counters, which are relaxed
atomics that one thread writes, and the map of service names, which has a mutex
of its own. No thread holds two of them. The page joins by
opening the stream and then asking for what it missed, by number; it rejoins the
same way after any break.

### What is hard here

- *Slow and vanishing consumers.* A producer must never wait for a connection.
  The packet ring cuts a full subscriber off while its thread still drains what
  it was sent; the verdict ring drops the event and keeps the subscriber. Which
  holes may a client see, and can it tell?
- *Numbers.* The ring's numbers are consecutive, the kernel's are not. Rejoin
  is by number, and eviction, subscription and push interleave with it.
- *The tap is lossy and sees itself.* Drops are learnt late, at the next
  harvest, and serving a packet makes packets.
- *The device comes and goes.* Opening it has five steps that may each fail. It
  admits a single reader, whose gate a leaked duplicate would keep shut, and
  descriptor numbers are reused by connections meanwhile.
- *Two-way races in the page.* A verdict and its packet come over one stream in
  either order, and both may come again in a backfill; whichever is first waits
  for the other, but not for ever, and numbers are not compared. The limit of the
  list changes under it.
- *Conversions that must undo each other.* A rule's value goes through the
  page's URL, the daemon's typing, the registry and back into the editor.
- *Reads without a transaction.* `read_policy` and `read_services` walk keys
  that other requests delete meanwhile, the latter while holding a mutex.
- *Clients that stall.* A stream's thread writes without a time limit.
- *Sections that do not extend to the use.* `dev_fd` is copied under the lock
  and used after it; the page reads `lastVerdictSeq` after an `await`.

`PROJECT.json` lists each as a hazard at its line, with the properties that
would catch it going wrong, or the reason why none does.

## 2. The modules

```
Feed                     what a stream promises         (abstract)
  ^ extended by
  |   Viewer ----------- ui/index.html, the data feed    MCViewer
  |     ^ extended by
  |   ViewerRestart ---- the same over a restarted daemon MCViewerRestart, ViewerProofs
  ^ implemented by
PacketRing ------------- ring.rs
  ^ extended by
Tap -------------------- capture.rs, on top of the ring MCTap, TapProofs
VerdictRing ------------ engine.rs, Engine              MCVerdictRing, VerdictRingProofs
DeviceLink ------------- engine.rs, run and the ioctls  MCDeviceLink, DeviceLinkProofs
ServiceNames ----------- sid.rs, the map of services
  ^ extended by
StreamEvents ----------- http.rs, stream_events         MCStreamEvents, ServiceNamesProofs
PacketList ------------- ui/index.html, the Packets tab MCPacketList, PacketListProofs
Policy ----------------- policy.rs, set and delete      MCPolicy
  ^ extended by
PolicyWalk ------------- policy.rs, read_policy         MCPolicyWalk, PolicyProofs
Values ----------------- editor, URL, typing and back   MCValues
Selections ------------- Iterator::filter, used by both rings and the list
Lemmas ----------------- induction, and what a selection does to a sequence
```

The theorems about `PacketRing` are in `TapProofs`, which extends both modules,
and those about `Viewer` in `ViewerProofs`, which extends `ViewerRestart`.

**Feed** is the abstract specification: packets are numbered as they are made;
a connected client is sent the ones made since it joined, in order, until it
leaves or is cut off. A client that was cut off may still receive what it was
due before, and nothing after. There are no queues, bounds or senders in it.

**PacketRing** has one action per operation of `Ring` and of a receiver. A
packet is its sequence number, so "consecutive" and "complete" can be said
directly; timestamps, names and bytes ride along in the code and decide
nothing. `Push` is the whole critical section: number, evict, append, fan out
with `try_send`, prune. `Since` is an operator because it only reads. The
receiving end (`Recv`, `EndOfStream`, `HangUp`) is what `stream_events` does
with `packets`. The module is instantiated as a `Feed` with the ring's channels
mapped to what a client is owed (`FeedOf`). It is checked and proved about inside
`Tap`, which drives its `Push`.

**Tap** extends PacketRing with the kernel's socket buffer and the capture
thread. The four steps of the loop of `run` are four actions, so a frame can
arrive, and clients can subscribe and read, between any two: this is the point,
since the drop tally is read in one step, the counter another thread shows is
written in a second, and the packet becomes visible in a third. A frame is
its bytes, and `IsOwnFlow` reads them as `is_own_flow` does: a tag or none, the
EtherType, the protocol, an IPv4 header's own length, two ports. What the
server's frames look like is stated beside it from the protocols (`Served`), not
from the code, and is external. `lost` and `arrived` are histories of the
environment, and each queued frame remembers how many were lost before it.

**VerdictRing** is not an instance of PacketRing, because its `push` differs:
numbers come from the kernel with holes, events about the daemon's own traffic
return early (before the pruning), and a full channel keeps its subscriber.

**DeviceLink** is the engine thread's hold on the device, over a table of
descriptors handed out lowest first as on Unix. A device that is replaced
leaves an open file `stale`. `set_dev_fd` is one step, as its critical section
is; the ioctl of an HTTP thread is two, because the copy is made under the lock
and used after it.

**Viewer** composes the page with the abstract feed, so what it shows rests on
`RingImplementsFeed` and not on channels again; verdicts come over a stream that
may lose some, as `VerdictRing` has it. The stretches of `backfill()` between
its awaits are separate steps, and so are the moment a request is sent, the
moment the daemon looks at its backlog and the moment the answer is processed.
What the page can never have got is recorded in `excused` and `vexcused` with
the step that caused it.

**ViewerRestart** adds a daemon that goes away at any moment and comes back with
empty rings and packets numbered from 1, while the page keeps its `lastSeq` and
whatever of its backfills survives: a request not yet sent reaches the new
daemon, an answer that has come is processed late, and any other may fail. The
histories of packets are then those of the new daemon, and `carried` is the
largest old number that the page has or may still process.

**PacketList** is what the page does with what it is brought: the list of at
most `ringCap` packets, the verdicts parked by flow with a timer each, and the
rows of the table. A handler of the page is one step, the loop over a whole
backfilled answer included, since nothing else runs in between. Flows are model
values; a packet or a verdict that the stream and the backfill both bring is two
copies, each followed by itself, as `onVerdict` and `add` do. `SetStats` is the
last step of a backfill and every `stats` event: the daemon's capacity replaces
`ringCap`, which the list then obeys packet by packet and the table at once.
`Viewer` says which numbers arrive, so this module lets any interval of
them be backfilled.

**ServiceNames** and **StreamEvents** are one event stream's thread. The former
is `service_name`: a thread that finds the map stale reads the registry key by
key while it holds the mutex. The latter extends it with the loop of
`stream_events`, of which only channel lengths are kept (`PacketRing` and
`VerdictRing` have the rest), a socket that blocks when it is full, and a client
that reads, stalls, closes or resets. Every write may fail: the header's, those
of verdicts and packets, and the two of the stats.

**Policy** has the registry's tree below the Rules key. `set_rule` does all it
does inside one transaction and is one step; `delete_rule` opens the rule before
its transaction begins and is two, with other requests between. The registry is
external: that its transactions are serializable is an assumption, the one the
header of `policy.rs` makes, and any step may be refused.
**PolicyWalk** adds one client that reads. `read_policy` uses no transaction, so
enumerating a name, opening it and querying its values are steps of their own,
and the key that is open may be deleted under it. The loop over a layer treats
its rules independently, so one round of it is modelled, for any rule.

**Values** follows one value of one rule from the editor through
the page's trimming, `encodeURIComponent`, the query string, `policy_mutation`'s splits and decoding,
`encode_value`, the registry, `decode_value` and back into the editor. A text is
a sequence of tokens, one for each character that some step looks at; what the
steps do to them is pure, and is checked against a reference of its own
(`Convention`, `Lossy`), written from the comment above `encode_value`.

Operators whose names say what is wrong with them (`RetainUnlessGone`,
`HarvestOverwrites`, ...) stand next to the definition they distort. They occur
in no specification: each is a plausible mistake in that code, and each property
of a passing run is known to fail under the one `PROJECT.json` pairs it with.

## 3. What TLC checks

| Run | Instance | Shows |
|---|---|---|
| `tap` | buffer 2, ring 2, channel 1, two connections, 6 frames: tagged IPv4 with options, the daemon's own and one that differs from it in the protocol | `FramesAccounted`, `GapsConfessed`, `HeaderCoversStream`, `NoFeedback`, and under fairness `DropsConfessed`. Of the ring below it: `HistoryExact`: the backlog is the newest packets, as many as fit. `NoSilentGap`: a connection the ring still serves has missed nothing, and what a cut-off one received is a prefix of what it was due. `GapVisible`: what `since(n)` answers is complete, or its first number shows how much is gone. `ImplementsFeed` |
| `verdicts` | ring 2, channel 1, kernel queue 2, two connections, 5 events | `BacklogIsNewestKept`, `RejoinBySeq`, `StreamIsKeptMinusMissed` |
| `link` | four descriptors, two HTTP threads, connections using up to three | `DescriptorsOwned`: no descriptor is leaked, closed twice or closed for another, and the gate is free when the device is reopened. `StrayOnlyAfterLoss`: a borrowed number goes astray only if the device was lost. Under fairness `Reconnects`, `LossIsNoticed`, `StatusSettles` |
| `stream` | channels and a socket of one event, the stream's thread and another one, one service, a map that lasts one tick and a reading that takes one | under fairness `HangUpNoticed`, `LookupsEnd`, and, unless the client stalls again and again or one round of a drain never ends, `CutStreamEnds` and `StatsFlow`; `AnswersAreRecent`: a name is wrong for no longer than the map and its reading may be old |
| `page` | two packets, one of them without a flow, and two verdicts of one flow, live and in a backfill; a list of three at first and a daemon whose ring is one, a window of one | `VerdictsConserved`: each reception of a verdict is parked, on one packet of its flow, gone with it, or given up; a verdict that came once is in one such place, and only one that came twice may be in two. `NoMissedMatch`: no packet and verdict of one flow wait for each other. `RowsFollowList`, also when the limit falls below the list's length; under fairness of timers `VerdictsSettle` |
| `viewer` | two packets and two verdicts over backlogs of one, one break and any cut-offs of the stream, one failed request, two backfills | `PacketHolesExplained`, `VerdictHolesExplained`, and under fairness `EveryPacketShown` |
| `restart` | the same numbers, one restart, one break, one backfill at a time | `LossesEndAtCarried`: what the page misses of the new daemon without a cause that `viewer` knows lies at or below the number it had reached of the old one, and verdicts keep all of `VerdictHolesExplained`. Under fairness `ShownAfterRestart`: everything above that number is shown in the end |
| `policy` | one layer, two names, `MAX_DEPTH` 2, two edits, two deleting threads, one reading | `NeverMixed`, `OneRuleAtATime`; `ReadAnswers`: a rule nobody adds to or deletes from while it is read is answered whole |
| `values` | every text of up to four tokens, and rules and values other programs may have stored, among them names with a slash and with outer spaces | `SavedAsWritten`: a save reaches its rule and value, unless the rule's name is one of those two. `TypedByConvention`, with `int:` before another text as its exception. `KeptUnlessLossy`: opening and saving keeps a value unless it is one of the named forms. `Settles`: it never goes on changing |
| `viewer_retry`, `policy_depth`, `verdicts_slow` | small | disagreements 1 to 3 of section 6, each a property that a comment states and TLC refutes |

Each module's types are the first conjunct of one of these, or stand alone.

### Bounds, and why they suffice

A ring of two wraps with the third packet, and six frames leave room for a
subscription before, during and after. A channel of one is full after one send,
so every answer of `try_send` occurs in every order; with two connections one
can be dropped or gone while the other is served or joining in the same push.
The tap
needs a buffer of two so that a frame waits behind the one in hand, and six
frames so that the tally is harvested twice with losses both times, which is
what tells adding from overwriting. The own frame of the run has a VLAN tag and
an IPv4 header of six words, so its ports are where neither a fixed offset nor an
untagged one finds them, and the foreign frame differs from it in one byte; the
proof covers every other frame and port. With four descriptors, three of them
at most connections', the table of the device link can be full when the thread
opens or duplicates, and a number withdrawn by one side is reused by the other. The page needs two
packets for a live one to overtake a missed one, and two verdicts likewise; a
backlog of one lets the missed one expire before it is asked for. A second
backfill can overlap the first after one break. Across a restart one backfill
at a time is enough, since those of the old daemon may stay under way or fail
whatever the new one does. Rule trees three segments deep
reach the deepest level that `set_rule` accepts with `MAX_DEPTH` 2 and one more
than `delete_recursive` does; two names make siblings for the walk to stumble
between. Two packets in two copies each fill the page's list of three and push one out,
or find its limit lowered to one while three are in it: the last then leaves it
two too long. A window of one leaves an older packet of the flow outside.
Channels and a socket of one are full after one event, so that each of them
blocks, cuts off or loses at every place of the stream's loop, and a map that
lasts one tick is read again and again. Texts of four tokens hold a prefix, its
colon and two more, or a pair of parentheses around a comma; the longer ones
that matter are listed in `MCValues` beside them. `MaxSeq`, `MaxFrames`, `MaxEvents`, the four
bounds of `Viewer` and `MaxRestarts` limit runs, not the system: the guards they occur in are the environment's.
`PacketList` is bounded by the sequences of flows it is given, `ServiceNames` by `ReadTicks`,
which its property quotes. `DeviceLink`, `Policy` and `PolicyWalk` need none.

Deadlock checking is off where a bounded environment runs out of input.

### Fairness

`TapSpec` assumes weak fairness of the capture thread and `LinkSpec` of the
engine thread. Each is a loop on a thread of its own that `main` starts for the
life of the daemon (`main.rs:42-72`), takes only short critical sections, and
never waits for a client. Nothing is assumed of the kernel, the device, the
connections or their clients: no frame need ever arrive and no device need ever
appear. `DropsConfessed` holds without assuming more frames because a drop
implies a full buffer, and so at least one more `recvfrom` and harvest. `Reconnects`
is conditional on a device that eventually stays in order.

`ViewerSpec` assumes that the stream thread delivers what is due and closes a
stream it was cut from (`http.rs:222-248`), that a browser reopens a broken
`EventSource`, and that a request the network does not fail is answered and
processed. The network may break the stream and fail requests, finitely often.
`RestartSpec` assumes the same of every daemon in turn; a daemon that went away is
started again because its service asks for that (`RestartPolicy` 2, "always", in
`registry.d/pnpd-service.reg`).

`StreamSpec` assumes that threads are scheduled, the clock goes on, a registry
read ends, a client that reads takes what is in its socket, and that a mutex
which is free again and again is given to each thread that waits for it
(strong fairness of `Lock`). A client may stall for ever, and the rings owe
nothing: `CutStreamEnds` and `StatsFlow` hold of every behaviour but two kinds: the client
stalls again and again, or one round of a drain never ends, so that the thread
takes verdicts (or packets) for ever and from some time on always finds another
one (`VerdictsNeverEnd`, `PacketsNeverEnd`). Traffic that goes on for ever but
lets the channel run empty now and then is not excepted. `ListSpec` assumes only that a browser fires a timer that has run out.

## 4. What TLAPS proves

Each theorem holds for every value of its module's constants. What is assumed of
them is the named `ASSUME` of each module (`RingAssumption`, `TapAssumption`, `FrameAssumption`,
`VerdictAssumption`, `LinkAssumption`, `NamesAssumption`, `StreamAssumption`,
`PolicyAssumption`, `ViewerAssumption`, `ListAssumption`) and, where said, that the capacity is not 0.
That hypothesis is not an artefact: with capacity 0 the statements are false
(section 6).

| Theorem | Argument |
|---|---|
| `TypeCorrect` | `RingTypeOK` is inductive |
| `StreamsHaveNoSilentGap` | `GapFree(c)` for each connection: taken and waiting packets are consecutive from the number at which `c` joined, and reach the newest as long as `c` is a subscriber. Inductive with the types |
| `BacklogExact` | inductive with the types: `history` is a window that slides by one. Needs capacity # 0 |
| `AnswersShowGaps` | from `HistoryExact`: the backlog is a run of consecutive numbers, so what `since(n)` selects from it is its end. Needs capacity # 0 |
| `PushLetsGo` | from `Retain`, by the types |
| `NumbersAreAssigned` | no cursor and no waiting number is past `next_seq` |
| `RingImplementsFeed` | each ring action maps to a step of `Feed` or to a stutter, under `GapFree`. Needs capacity # 0 |
| `TapDrivesRing` | every step of the tap is a step of the ring or leaves it alone, so all of the above hold of the composition |
| `TapTypeCorrect` | inductive; the frame in hand is tied to the thread's place |
| `EveryFrameAccounted` | inductive as it stands |
| `EveryGapConfessed` | `GapsConfessed` is not inductive. `GapInv` adds that no queued frame's gap exceeds what is lost so far, and that between harvest and push the gap of the frame in hand is within what is confessed |
| `FeedbackIsBroken` | `OwnInv` adds that what is about to be pushed has passed `is_own_flow`. That this is no frame of the server's is `ServedIsFound`: a frame in which a TCP segment with the port lies where RFC 791, 8200 and 802.1Q put it (`Served`, all that `FrameAssumption` says of own frames) is found by following the code's offsets, for each number of tags, each header length and either side |
| `HeaderIsHonest` | `CountInv`: `captured` is the ring's count, plus one between counting and pushing; with `NumbersAreAssigned` |
| `VerdictBacklogExact` | `VerdictInv`: the types with the sum of the counters, the backlog entry by entry as the last of `kept` (`BacklogIsWindow`, a window that slides by one), and that nothing of the daemon's own was kept |
| `RejoiningIsExact` | `InOrder`: the kept events ascend, those in the kernel's queue ascend, and every one of the former is below every one of the latter; so selecting by number cuts the backlog at a place |
| `StreamsMissOnlyTheLost` | `InOrder` with the histories of the connections (`HistoriesOK`). A push adds the new event on both sides or, when the channel is full, to `missed`; there it takes nothing away that the stream has, since its number is a new one |
| `NoDescriptorLeaks`, `LentDescriptorStays` | `LinkInv`: `DescriptorsOwned` with `PlaceOK`, which of the three descriptors the thread has at each place of its loop, and `LentOK`, that a copy whose device was never lost is the one lent now. That a lowest free descriptor exists is `LeastNatural` |
| `NamesAreRecent` | `NamesInv`: what the map says of a service was true at most its age plus a reading ago, and of the reading under way, at most `reading` ticks ago. The stream's steps are steps of any thread that looks names up |
| `StreamTypeCorrect` | the bounds of channels and socket per place of the thread (`ConnOK`), and that it waits for a name only while it has a verdict to write |
| `TreeIsClosed`, `EditsNeverMix` | `PolicyInv` (types, and every key's parent is a key) from facts about prefixes of paths; values are those of one edit since `ReplaceValues` leaves nothing of the old ones |
| `RequestsChangeOneRule` | an action property from `PolicyInv`: a request deletes what is below its path and sets what is at it |
| `ReadsAreWhole` | `WalkInv` follows the walk of a rule that stays undisturbed (`Undisturbed`): what is above the open key is in the answer, and all children of an exception that has been closed are. When the walk is over every listed exception has been closed, so of one that is not listed take the shortest key above it that is not: its parent is listed and has an unlisted child, which cannot be (`ClosedIsWhole`) |
| `PageInStep` | `Bounded`: no number of the page, of a stream or of an answer is past what the daemon published |
| `PacketHolesAreExplained` | `PacketHolesExplained` speaks of `lastSeq` only and is not inductive. `PacketsCovered` says the same of every number the page *will* be past when what is under way arrives: what its open stream has delivered, and the end of every answer |
| `VerdictHolesAreExplained` | `VerdictsCovered` does that for verdicts: those on the stream are increasing, and as long as no backfill has yet to ask, every number up to the newest on an open stream is known or on its way |
| `LossesEndAtARestart` | `RestartInv`: `Bounded` and `PacketsCovered` take a number `old` up to which packets may be an older daemon's. The two theorems above are the case of 0; here it is `carried`, and a restart changes it to what the page has reached (`RestartKeeps`) |
| `EveryVerdictHasOnePlace`, `NoMatchIsMissed` | `ListOK` is an invariant of a page (`PageOK`, `NoMissed`) that `Add` and `OnVerdict` keep, so it holds after a live arrival and after every entry of a backfilled answer (`FillInvariant`). Neither property is inductive alone: that a flow's parked verdict finds no free packet needs every reception in one place, and that needs to know which ones have come. `GaveUp` adds the timer that fires, drawn or not. By number: two receptions of one number are a live and a backfilled one, so the number is in `CameTwice` (`OnlyTwice`) |
| `TableFollowsList` | `TableInv`: rows and list agree entry by entry when both are counted from their ends (`Aligned`), which survives that either loses its oldest and that a row of an orphan is put anywhere; a number is twice in the list only if it came in both copies; orphans are finitely many and pay for the rows beyond the limit. The list may be longer than `ringCap` once that was lowered; what bounds it is the higher of the two limits (`Limits`), and the alignment does not depend on either. It is inductive given `ListOK` |

Model-checked only:

- the liveness properties `DropsConfessed`, `Reconnects`, `LossIsNoticed`,
  `StatusSettles`, `HangUpNoticed`, `CutStreamEnds`, `StatsFlow`, `LookupsEnd`,
  `VerdictsSettle`, `EveryPacketShown` and `ShownAfterRestart`, since fairness
  and leads-to are beyond the prover;
- the four properties of `Values`, an action property each, which compare
  functions over texts.

Every safety invariant that a run checks is stated by a theorem, and so are the
refinement and `OneRuleAtATime`.

Some proofs need induction over data, and the library's theorems take a
predicate, which the provers cannot instantiate. `Lemmas` has it with a *set* in the predicate's
place: a set of numbers that is not empty has a least element (`LeastNatural`), so one that
has 0 and every successor has all numbers (`Induction`), and likewise for sequences
(`SequenceInduction`). `SelectSeq` is opaque to the prover because its recursion is
inside a `LET`; `Filtered` is the same selection by a recursive function. What its
proofs need is shown once: it commutes with appending and
concatenation, keeps types and distinctness, has the entries of the sequence that are in
the set, and is the end of the sequence when the set is what its end has. An answer of
a backfill is a fold over its entries, and `FillInvariant` is the same
induction over a family of sets of pages.

## 5. What is abstracted

- Packet contents beyond what `is_own_flow` reads, timestamps (but for their order in
  the table), interface names, and text on the wire.
- Poisoned mutexes: no code panics while it holds one.
- Sleeps, which only delay; errors of `recvfrom`, which lead back to it.
- `getsockopt(PACKET_STATISTICS)` is taken to succeed: on an open packet socket
  with a buffer of the right size the kernel has no failure to report.
- The status counters are reduced to `connected`, and the once-a-second refresh
  during streaming, which sets what is set, is left out.
- The kernel's device keeps a single-reader gate until every descriptor of the
  reader is closed, as `engine.rs:416-417` relies on.

- A verdict may take one lookup of a service name or none in `StreamEvents`, where
  `owner_json` may make two; each is a step like the first.

Not modelled, and why:

- `json.rs`, `log.rs`: pure formatting. `main.rs`: a straight line; what it decides
  is in the constants and the fairness.
- The interface-name cache of the capture thread: nothing depends on the name it
  answers, and the kernel puts no order between a rename and the next frame.
- Reading a request within ten seconds, routing, and the layout of answers: each
  connection has its own thread and holds nothing before it is routed.
- The derivation of a SID (a hash) and the texts of SIDs.
- The dissectors, styles, rendering and read-only tabs of the page (presentation:
  they replace what they show by what they fetched last), and packaging.

## 6. Where code and documentation disagree

1. **A reconnect does not retry a failed backfill** (`viewer_retry`). It asks
   from a `lastSeq` that live packets have moved past the hole.
2. **The deepest rule cannot be deleted** (`policy_depth`). `set_rule` accepts
   `MAX_DEPTH + 1` segments, `delete_recursive` starts at the path's length and
   refuses more than `MAX_DEPTH`; the rule's ancestors cannot be deleted either.

3. **A slow verdict subscriber is not cut off** (`verdicts_slow`). The comment at
   `engine.rs:486` says it is and that it rejoins by number; `retain` keeps it and
   drops the event, and since verdict numbers have holes anyway the client cannot
   notice. `StreamIsKeptMinusMissed` says exactly what such a stream lacks.

Three more are findings of passing runs, whose property has to except them by name:

4. **`int:` does not force a type** (`NotForced` in `TypedByConvention`). Before a text
   that is not a 64-bit integer it is removed and the rest stored as a string, where
   `policy.rs:176` and the editor's placeholder say that prefixes force a type.
5. **A verdict that came twice can be given and declared an orphan** (`CameTwice` in
   `VerdictsConserved`). The stream is subscribed before the backfill is asked for and
   `onVerdict` compares no numbers, so the second copy is given to another packet of
   the flow, or drawn as a row that says "no tap packet" beside the packet that has
   the first, where `index.html:757-759` speaks of a verdict that never finds one.
6. **An orphan due while the page is paused is not drawn**, then or later (`undrawn` in
   `VerdictsConserved`), where the same comment says that it is rendered; and
   `rebuild` wipes those that were.

Others are visible in the models and have no finding of their own:

- **A smaller ring than 4096 leaves the list too long.** `setStats` lowers `ringCap` after
  packets are in; `add` then takes one packet off for each that comes, so the list
  keeps its length until it is cleared, while the table is cut to the limit (until resuming or
  filtering rebuilds it from the whole list). `RowsFollowList` holds all the same.
- **`--port 0`** would make the own-flow filter look for port 0. `FrameAssumption` excludes it.
- **`--ring 0` never evicts.** `push` evicts when the length *equals* the
  capacity; with 0 that is true only of the first packet, when there is nothing
  to evict. The man page promises "at most N" packets. The theorems about the
  backlog assume a capacity other than 0 for this reason.
- **`connected` can outlive the device.** `refresh_status` sets it before the ABI
  check, and no failure path but the end of a stream clears it; `StatusSettles`
  excepts a device of another ABI, and is false without that.
- **An ioctl can miss the device.** The duplicate may be closed between the copy
  and the ioctl, and its number be a connection's by then. `StrayOnlyAfterLoss`
  says that it takes a loss of the device.
- **A restarted daemon starts below the page.** Nothing in the stream says that the
  daemon is another one, so the page asks the new one for what follows the old
  `lastSeq`: of the backlog, packets up to that number are never fetched. `carried` in
  `LossesEndAtCarried` is this, and the property is false without it.
- **Stats can starve.** Both drain loops run until their channel is empty, so one round
  of a drain that never does starves what comes after it: `StatsFlow` excepts that,
  though the comment at `http.rs:209-211` speaks of every two seconds.
- **A failed read of the services is cached** for thirty seconds like a good one.
- **Rows of orphans** are not counted against the limit of the table.
- **A packet that came twice** has its verdict's badge on the first row of its
  number, whichever copy the verdict was given to; verdicts of one flow are given
  to its newest packet first and so may swap.
- **Values that do not survive** being opened and saved are those of `Lossy`: texts
  that read as an integer or a list, one-element lists outside `Actions`, integers
  beyond 2^53, types of other programs. A slash in a key's name leads to another rule, and so do
  spaces around the rule's own name, which the page trims before it saves.
- **A read rule can be a mixture**, or an error, when others delete and create
  under the walk.
- A live verdict that arrives before `backfill` has sent its second request makes
  the page skip the verdicts before it (the third case of `vexcused`), and while
  no Rules key exists no rule can be set, because `set_rule` opens the key, though
  the page says "Creating a first rule arms enforcement" (`present`).

## 7. Plan

The order was what a mistake would cost: the ring and the tap, the verdicts and
the device, the page, then policy, values, the stream's thread and the names.
All of these are modelled. What is left:

1. `Values`: that the decoding of the URL undoes its encoding, and that the clamped depth of
   `SplitTopLevel` is what `DepthAt` defines, by `SequenceInduction`; with these
   `SavedAsWritten` and `TypedByConvention` would be theorems.
2. Two pages on one daemon: the feeds are independent by `RingImplementsFeed`, but
   both pages edit one policy, which `Policy` has as requests without an editor.

Runs: one passing run per component or composition and one per disagreement
that a document words as a promise, with bounds as small as the cases above allow.

## 8. Running it

```
tlc -workers 2 -config tap.cfg MCTap
tlapm TapProofs.tla
```

Each run's module and configuration are under `runs` in `PROJECT.json`. The
largest have about 605,000 (`policy`), 537,000 (`viewer`), 396,000 (`page`),
250,000 (`restart`), 131,000 (`tap`) and 117,000 (`stream`) distinct states.
