# TLA+ verification of AnalogConnect

AnalogConnect lets an Android handset use the calls, messages and notifications
of an iPhone through a Linux daemon. The daemon (`crates/analogconnectd`) talks
to the phone over Bluetooth (HFP, MAP, PBAP, ANCS), serves an HTTPS API and a
media WebSocket to the handset, and keeps no state of its own across restarts
(contacts, conversation ids and operation ids are in memory; only the store of
imsg is on disk); shared vocabulary is in
`crates/analogconnect-core`; the client is `android/`. The models are written
from the source; paths below are relative to `src/`.

## 1. Inventory

| Component | State | Operations | Hard part | Correct when |
|---|---|---|---|---|
| Call-media authorization (`media_auth.rs`) | the registry's one current grant under a mutex; per grant the atomics `revoked`, `claimed` and a deadline; leases held by sockets | `issue`, `claim`, `revoke`, drop of a lease | the checks and the compare-exchange of a claim run after the mutex is released, while a replacement swaps and revokes | one connection per grant, one live owner of the audio, a truthful `claimed` flag |
| Live media connection (`lib.rs` `media_socket`, `audio.rs`) | two shared bounded queues; per connection two pw-cat children, two worker threads, stop flag, failure slot, two socket loops | reset, start, receive, playout tick, worker loops, teardown | six concurrent activities per connection, two connections at a replacement; threads blocked on pipes; a send suspended on a slow peer | lease released last, no stale audio after a reconnect, a revoked connection is soon cut off from the shared queues, teardown ends, failures end the connection |
| Outbound messages (`lib.rs` `send_message`, `messages.rs` registry, `MessageSendDraft.java`, `ComposeActivity.java`) | in-flight and accepted operation ids, eviction order; the composer's draft | begin, blocking `imsg send`, accepted/failed; review, submit, retry | client timeout drops the handler in the middle; retries overlap; eviction; restart | at most one send of an operation at a time, at most one in all where the daemon can know |
| Runtime status (`lib.rs` `refresh_runtime_status`, `hfp.rs`, `audio.rs` watchdog) | `SystemStatus`, the watchdog's `inconsistent_since` | refresh from three helpers, apply, `status`, `create_audio_session` | snapshots are torn (several helpers) and applied in any order; the watchdog only runs on requests | no active audio for a finished call, the stall diagnostic neither early nor lost, the status converges |
| Call commands (`lib.rs` `execute_call_command`, `hfp.rs` `execute`) | none in the daemon: the calls are the phone's | answer, hang up or reject, dial, DTMF | check-then-act over D-Bus, one busctl process per question, killed at a time limit | 202 only for what the phone took (the checks protect no other call, section 6) |
| Rate limit and tokens (`auth.rs`) | start of a fixed window and a count, under a mutex | `allow_at`, `matches` | the clock is read before the lock; requests crowd around the end of a window | within one window of time at most twice the quota read the clock and pass the lock |
| Message synchronization (`messages.rs`, core `state.rs`) | sync state, scheduler deadline and failures; cursor and rows in imsg's store | tick, synchronize | the lock is released around the backend; notification and timer overlap; the phone's datetimes are in no order | the cursor skips no message that arrives in front of it, `Syncing` is truthful |
| Contact synchronization (`contacts.rs`, `lib.rs` task) | SQLite in memory, summary | pull, replace all, sleep; list | statements fail half-way; a client pages meanwhile | readers see one whole pull, which catches up with the phone |
| ANCS transport and correlation (`ancs_transport.rs`, `ancs_bluez.rs`, `ancs_groups.rs`) | queue, pending request, completed set, reconnect backoff; notifications and messages waiting for a partner | notification, response, reconnect; ingest | responses lost with a connection; bounded sets forget; pairs arrive in either order | no notification lost or doubled within the bounds, unambiguous pairing |
| Jitter buffers (`audio.rs`, `AudioJitterBuffer.java`, `CallAudioPump.java`) | expected sequence, reordered frames, counters; the pump's trimming | insert, tick, trim | lost, repeated and reordered frames, overflow, the last sequence number, stalls | frames in order and all accounted for, playout in step with the sender |
| Conversations (`lib.rs`, `conversations.rs`, `imsg-store`) | two alias maps under a mutex; cursors are offsets in the client's hands | list, page, expose ids | rows arrive and change their conversation between two pages, a restart forgets the ids | an id never means another conversation, only departures make a page skip |
| Android Telecom and audio session (`AnalogTelecomConnection.java`, `AndroidCallAudioSession.java`, ...) | session life cycle, connection state | start, stop, close | close races creation | no session outlives its call (not modelled) |
| Android UI, storage, discovery; entry point; MAP and OBEX of the vendored imsg | views, caches, keys | | platform I/O | not modelled |

How they interact: `create_audio_session` refreshes the runtime status, checks
that call and SCO are active and only then issues a media grant; the WebSocket
claims it and holds the lease for as long as its bridge exists; every API request
that shows or uses the status runs its own refresh; the message registry and the
status are shared under separate mutexes that no handler holds across an await.
The ANCS ingest task and the 30 s task both run `imsg sync` through one coordinator;
the ingest pairs notifications with the rows that appear and regroups them in the
store, from where conversation pages are cut. All mutations of the API pass the
one limiter. PROJECT.json lists the hazards with the line at which each bites.

## 2. Plan

Ordered by what hurts most if it is wrong. A module per component; `X -> Y` means
X EXTENDS Y and composes with its steps.

| # | Module | State |
|---|---|---|
| 1 | `MediaSession`, implementing `ExclusiveOwner`; `LiveMediaProofs` | done, proved |
| 2 | `LiveMedia -> MediaSession`; `LiveMediaProofs` | done, safety proved |
| 3 | `MessageSend`; `MessageSendProofs` | done, proved |
| 4 | `RuntimeStatus`; `CallAudioProofs` | done, safety proved |
| 5 | `AncsIngest -> MessageSync`; `AncsIngestProofs` | done, proved |
| 6 | `AncsTransport`; `AncsTransportProofs` | done, safety proved |
| 7 | `CallControl`; `CallControlProofs` | done, proved |
| 8 | `JitterBuffer`; `CallAudioProofs` | done, proved |
| 9 | `ContactBook -> Paging`; `PagingProofs` | done, safety proved |
| 10 | `Conversations -> Paging`; `PagingProofs` | done, proved |
| 11 | `CallController`; `CallControllerProofs` | done, proved |

Every invariant and action property that a passing run checks is now a theorem;
liveness stays with TLC (section 5). The life cycle of Android's audio session and Telecom connection is left out for
want of a model of the platform (section 7).

## 3. Modules and code

**MediaSession** (`media_auth.rs`). `lock`, `active`, `revoked`, `claimed` and
`expires_at` are the fields of the registry and its grants; `pc`, `session`,
`token_ok` and `asked` are the locals of a claim. `DrawGrant`, `ReplaceActive`
and `RevokePrevious` are the three steps of `issue` (secret drawn before the
lock; swap; revocation of the displaced grant), `BeginClaim` to `TakeClaim` the
steps of `claim`: the registry's mutex is held only to look the grant up.
`DropLease` is `Drop for MediaSessionLease`. `ExclusiveOwner` is the abstract
promise: a variable `owner` that passes from nobody to one connection and back;
the mapping takes the one connection whose lease is active.

**LiveMedia** (`lib.rs` `media_socket`, `audio.rs`). Adds the shared queues, the
pw-cat children, workers, stop flag, failure slot and the socket's two loops. A
frame is tagged with the connection and grant it came through. Teardown is four
steps in the order of the drops: stop, kill, join, release. `late_in` and
`late_out` are history: the messages a connection has put into, or taken out of,
the shared queues since its grant was revoked.

**MessageSend** (`send_message`, `MessageOperationRegistry`, the composer). The
handler before and after its one await is a step each; a client that gives up
makes the server drop the handler there, while the blocking send goes on.
`sent`, `excused`, `evicted` are history.

**RuntimeStatus** (`refresh_runtime_status`, `hfp.rs`, the SCO watchdog). A
refresh is one step per helper it asks and one for the write under the lock; the
phone moves in between.

**MessageSync** (`messages.rs`, core `state.rs`, vendored `imsg sync`). An actor
("task" or "ingest") starts imsg, which reads the cursor and lists the inbox, and
later writes rows and cursor or fails part-way. A failing imsg may have written
any of its rows; a succeeding one shows its rows to the other actor at once,
which is coarser than row by row. The store's rows are `synced_at` and
`conversation_key`. The `datetime` of a message is what the phone's listing says:
local, to the second, read without its zone (`util.rs:5-14`) and perhaps absent or
malformed, so a message gets any of its `Datetimes`, whatever the clock and the messages
before it; the proofs are for every choice of them. An undated entry is never skipped (`fetch.rs:178`) and gets the time of the
imsg process (`fetch.rs:67`), which the cursor may take over. `overtaken` is
history: the messages that were listed behind a cursor, or behind the one an imsg
under way is going to write.

**AncsIngest** (`lib.rs` ingest, `ancs_groups.rs`, the group tables of the
store). One task runs observe, synchronize, list, correlate, each a step, and
every step that touches the store may fail there. `forgotten` and `evicted` are
history: uids and handles that the bounded lists have dropped. `Restart` clears what is in
memory and keeps the store. A message's notification has the message as its uid;
equal names and equal subtitles are equal values, so normalization and the
SHA-256 group id are left to the unit tests.

**AncsTransport** (`ancs_transport.rs`, `ancs_bluez.rs`). The two GATT streams
are sequences of events and of fragments; taking a value, changing the protocol
state and writing the next request is one step, because the bearer awaits the
write before it selects again. `EndSession` is `disconnected()`, reached from any
failure and from a full channel. It takes the answers still owed with it: the
streams of notified values are dropped and subscribed to anew. The bearer itself
is never disconnected (`ancs_bluez.rs:170`, `:183`), so this supposes that the phone
does not finish an old answer after the new subscription; such an answer would be
taken for that of the next request. The channel is what `Deliver` of `AncsIngest`
stands for: any notification of a received message, any number of times.

**CallControl** (`execute_call_command`, `auth.rs`, `WirePlumberBackend::execute`,
`run_bounded`). A request is one step per helper process: objects, calls, state
of the one call, method; the phone and other requests move in between. `Deliver`
is the phone's side of the method, after which busctl may still be killed
(`TimeOut`). `Authorize` reads the limiter's clock and `Admit` takes its lock; any
time may pass in between, as nothing in `auth.rs:107-114` bounds it. `recent` is
history: how many requests read the clock so many ticks ago and were let through.

**Paging** (`PageCursor`, `page_limit`) has the cursor arithmetic, and the record
of a client that follows `next_cursor`: what it saw, what stayed in place since it
began and how much departed (`MaxDeparted` ends the count only where no walk can
need more). A list is a set in an order (`Ordered`), the `ORDER BY` of its query. **ContactBook** and **Conversations** extend it.

**ContactBook** (`start_contact_sync_task`, `replace_all`, `search_names_page`,
`parse_imsg_contacts`). A statement of the transaction is a step; pages wait for
the store's mutex, which is held for the whole transaction. A contact is a number
in the order of the names; without a usable number it is dropped by the parser.
The order is fixed and strict. The code orders equal names by a row id that every
replacement assigns anew (`contacts.rs:231-233`), so contacts of one name may also
change places at a pull, which the model leaves out.

**Conversations** (`conversation_page`, `conversation_messages`,
`ConversationAliases`, `Store::threads`). A page is cut in one step and gets its
ids in a later one, after the awaits of the name lookups. `Arrive` and `Rekey`
are what synchronization and correlation do to the rows. `IdFor` is
`expose_stable_id` for groups and `id_for` for the others; a restart empties both
maps. 128 random bits are taken not to repeat an id of an earlier run.

**CallController** (`hfp.rs` `CallController`, `AtCommandBackend`, core `CallState`)
is the library's other call control, which speaks AT commands and which the daemon
does not wire up. `Check` takes the lock and asks `next_state`; the lock is held
until `SendReturns` or `SendFails`. `Deliver` and `Refuse` are the phone's side of
a send, so a failure may come before or after the phone has the command. `apart`
and `unsure` are history: the phone moved by itself, or a result was wrong, since
the last command that went through.

**JitterBuffer** (`audio.rs` `JitterBuffer`, `AudioJitterBuffer.java`,
`CallAudioPump.java`). One module for both buffers: `side` picks one, and the
disjuncts of insert and tick say where they differ (what gives way at the limit,
what an empty buffer does, what follows the last sequence). `Write` and `Trim`
are the playout's second half, which may take another frame after packets have
come in between.

Definitions whose comment begins "Seeded fault" are wrong variants of the
definition after them. They are in no specification; each shows that a property
notices the fault.

## 4. Runs

| Run | Instance | Shows |
|---|---|---|
| `live_media` | registry and bridges together: 2 connections, 2 issuers, 2 grants, queues of 1, bursts of 2 messages | every interleaving of issue, claim, drop, revoke and teardown: one connection per grant, one active lease, truthful `claimed`, refinement of `ExclusiveOwner`; a running bridge holds its lease; a revoked connection puts at most one more message into the shared queues and takes out no more than the burst under way; after a reconnect the queues hold nothing of the grant's earlier connection |
| `live_media_liveness` | 1 connection, 2 grants, queues of 2, 1 tick, which ends a grant's lifetime | a replaced connection ends, teardown ends, a failed worker ends the connection |
| `message_send` | 2 composers, 2 texts, 2 ids, 2 requests, capacity 1 | no concurrent sends, at most once, truthful 202 |
| `runtime_status` | 1 call, 2 refreshes, grace period 1 | no active audio without a call, stall reported neither early nor never, status converges |
| `ancs_ingest` | 2 messages, 2 senders, 2 groups, 3 deliveries, 1 tick, datetime 1 of one message, 0 or none of the other, in either order, limits of 1 and 2 | cursor skips nothing that arrives in front of it, `Syncing` not left behind, one pairing per notification and per message while it is remembered, stable assignments |
| `ancs_ingest_misgrouped` | same | **violated**: with two messages of one sender and one notification so far, the first message listed takes it |
| `ancs_transport` | 3 notifications (2 of Messages), limits of 1, answers of 1 fragment and of one too many | metadata is attributed to its own notification, no repeats within a session, the queue is served |
| `call_control` | 2 requests, 2 calls, phone states incoming and active, quota 2 in 2 ticks, 4 ticks | truthful 202; at most twice the quota within a window, whatever the requests wait for the lock |
| `contacts` | 6 contacts, 5 with a usable number, 5 with a name, 5 phonebooks, pages of 1 and 2, cursor limits within reach | readers see one whole pull, the store catches up, a walk misses at most one contact per departure |
| `conversations` | 2 private keys, 1 group, 2 ids, 2 timestamps, 3 messages, pages of 1 and 2, cursor limits within reach | ids keep their meaning, a walk misses at most one row per departure |
| `jitter` | capacity 3, depth 2, 6 sequences, batches of 2, 9 frames | both buffers: order, conservation, and the client's playout in step with its sender |
| `call_controller` | 2 requests, 2 gains, any initial state | state and microphone are the phone's between commands, nothing carried out is called invalid |

Why the bounds suffice: the claims are about two parties meeting (two
connections, two requests, two actors, two messages of one sender), and a
reconnect, a second grant or a third delivery lets one of them come back (more
grants and issuers are the proofs' matter). Limits are set to 1 or 2 so that
eviction happens; clocks have one tick because every window is open before it and
closed after (four in `call_control`, two windows long: windows follow each other,
and a request can wait for longer than one). `live_media` has no tick at all: all
that expiry does is to refuse a claim, which a wrong token does at the same step.
Pages of
1 and 2 over lists of 3 to 5 rows give walks of several pages; nine frames over
six sequences fill the buffer, reach the last sequence and leave room for
repeats. `jitter` checks no deadlock: a failed session, or one that has had its
frames, stops. The proved properties do not depend on bounds at all.

**Fairness.** `DaemonFairness` (`LiveMedia`) is weak fairness of the steps the
daemon takes alone: threads are scheduled, timers fire, a killed child's pipe
ends. `PeerResponsive` adds that the peer reads what it is sent, as nothing in the code
bounds `sender.send` (section 6). `Fairness`
(`RuntimeStatus`) is that the clock runs, a client polls (as
`CallStateMonitorService` does during a call) and a helper answers or is killed
at its time limit. `Fairness` of
`AncsTransport` is that the select loop gets to both streams, the backoff's sleep
ends and the ingest takes what it is sent. Of the phone only `AncsTransport`
assumes something: that it answers a request whose write succeeded. The bearer
has no time limit for the answer, so without it the queue of a session is stuck.
`Fairness` of `ContactBook` is that the task is never starved (weak), and that a
phone asked again and again answers at last and a statement tried again and again
succeeds at last (strong, per statement: the task comes back to each only after
failures elsewhere). `BookCatchesUp` further supposes that the phonebook and the
daemon are left alone from some moment on. Elsewhere nothing is assumed of imsg.

## 5. Proofs

`tlapm` checks all of them; constants are arbitrary, under the named ASSUMEs.

**LiveMediaProofs**, the registry - `TypeCorrect`, `OneConnection`, `SingleOwner`,
`ClaimedFlagTruthful`, `Refinement`, for any sets of connections, issuers and
grants and any clock. Assumed: the values for "nobody" are not members of those
sets, a positive lifetime. "At most one active lease" is not inductive: it
follows because an unrevoked grant that anyone can hold is the current one, or
the one being displaced (`UnrevokedIsCurrent`), which in turn needs
that only the mutex holder swaps (`MutexDiscipline`), that a drawn grant is
nobody's yet (`FreshGrants`), that clients present only issued grants
(`PresentedGrants`) and that a grant has one holder (`OneConnectionPerGrant`,
`ClaimedMeansHeld`). The refinement maps a step to a step of `ExclusiveOwner` or
a stutter by comparing the sets of active connections before and after.

The bridge - `LiveTypeCorrect`, `LiveSingleOwner`, `LeaseOutlivesBridge`,
`ReconnectsStartClean`, for any number of connections and any capacity. `LInv`
carries over the registry's `IInv`, which the steps of the bridge leave alone, and
adds that a socket runs under its lease and has a bridge only between start and
join (`Attached`), and that a queue a connection has reset holds nothing of its
grant from another connection (`Clean`). The uplink is reset a step before the
downlink, so `Clean` speaks of them apart; that no other connection can push a
frame with the same grant is `OneConnectionPerGrant`.

`ReplacedIsCutOff`: `RevokedIsCutOff`, for any burst of a playout tick. Each loop
asks the lease at its top only, so the bound rests on where a loop can be when the
revocation comes (`CutOff`): only an inactive connection has moved anything late,
nothing has come in late while the loops run, and what went out late belongs to
the tick under way.

Refinement along the composition - `LiveImplementsRegistry`: with sockets, workers
and queues around it the registry still behaves as `MediaSession` says. So
`LiveImplementsExclusiveOwner` and `LiveOneConnection` follow from the registry's
own theorems.

**MessageSendProofs** - `TypeCorrect`, `SendsAreExclusive`,
`DuplicatesSuppressed`, `AcknowledgementsTruthful`, for any number of composers,
requests, ids and retries and any positive capacity. "At most once" is not
inductive: a new send must know that the phone has not taken the message. `IInv`
says where a taken message is remembered (accepted or in flight, unless excused or
evicted), that an unrecorded send has its id in flight alone, also without its
handler, that accepted ids were taken, and that whatever was taken was invoked,
so that a restart excuses it.

**CallAudioProofs**, the jitter buffers - `TypeCorrect`, `InOrder`, `AllAccounted`, `TracksSender`,
for every capacity, depth, range of sequences and trimming. "In order" needs that
what came out is behind what is expected and what is buffered is not (`Ordered`);
conservation needs the cardinality of a finite set of at most `Capacity` frames
(`Bounded`); that the playout does not overtake the sender needs that what is
buffered was received (`Tracking`).

The runtime status - `AudioHasCall`, `StallIsPersistent`, for any number of
calls and refreshes and any grace period; the watchdog has never waited for longer
than the status disagrees (`WatchdogInStep`).

**CallControlProofs** - `TypeCorrect`, `ResponsesTruthful`, `LimiterBoundsRate`, for
any number of requests and calls, any quota, window and delay before the lock.
`RateBounded` says twice the quota because the limiter's windows are fixed, and it
counts by the instant a request read, which decides in which window it is counted.
Such an instant is never ahead of the clock (`InstantsRead`), but may be older than
the current window. So the admitted requests are not split by their age: there is
a division of them (`Split`) into at most a quota from earlier windows, which all
read the clock before this window began, and those this window has counted
(`Windows`). When a window is restarted the former have left the span.

**CallControllerProofs** - `ControllerInStep`, `GainStaysInStep`,
`EffectIsNotRefused`, for any number of requests and any gains. `Serial` says that who is sending has the lock and a transition that is still
valid, `Effects` that only what was sent took effect,
`CallInStep` and `GainInStep` how state and gain relate while the lock is held.

**PagingProofs** - `StoreIsWhole`, for any phonebooks; between commit and
summary the pull that is held is the one committed (`CommittedIsPulled`).

`NamesAreNotSkipped` and `ConversationsAreNotSkipped`: `MissedAtMostDeparted` for
the contacts, the conversations and the messages of one, whatever the lists, page
sizes and limits. The argument is one, about a set in a strict order. While a walk
is open, the steady items before its offset that it has not seen number at most
the departures counted so far (`OnTrack`). A page keeps that: what it shows are the
items at the places from the offset to the offset after it. A change keeps it
because at most as many of the items that keep their order slip before an offset
as have left or moved (`ListChange`, from the cardinalities of the sets of
predecessors). A conversation page is cut before its ids are found, and the list
changes in between, so a request carries the same claim about the page it holds
(`Waiting`). Completion then has nothing behind the last page but what was counted.
Assumed of `MaxDeparted`: that it counts as many departures as there can be items
to miss.

`IdsStayTrue`: `IdsNameOneConversation`, for any number of keys, ids and restarts.
A key that has an id is found under that id, and the id of a group is the group's
key, also after a restart (`Aliases`).

**AncsIngestProofs** - `NothingSkipped`, `StateTruthful`, `AssignmentsStay`, for
any messages, datetimes, inboxes and limits. A cursor may move back, or be written
by an imsg that started long ago. What is needed is that an imsg under way has
listed every message without a row that is older than the cursor it will write
(`ListedEnough`). A message that arrives meanwhile keeps that, or is `overtaken`:
`Behind` compares with the cursors of the imsg processes under way as well.

`IngestTypeCorrect` and `PairsAreUnique`, with the bounds of every list. A pair is
made when one half meets the other that waits, so each must wait
once (`NoticedOnce`, `WaitingOnce`), a waiting message must be unpaired unless its
handle was evicted (`WaitingUnpaired`), and a paired uid or handle must still be in its bounded list
unless it was dropped from there (`PairsRemembered`).

**AncsTransportProofs** - `TypeCorrect`, `AttributesAreOwn`, `NoRepeats`, for any
notifications and limits. The consumer does not compare the uid in an answer with
the one it asked about, so `MetadataIsOwn` rests on the stream: it holds at most
one answer, to the pending request, whose fragments continue those that are held,
and nothing without a request (`OneAnswer`). `NoRepeats` needs that a uid is in at most one place, queued, pending or
completed (`OnePlace`), and that what was delivered is remembered as long as
the bounded list of completed uids keeps it (`Remembered`). Assumed:
`AnswerLengthsAssumption`, answers of at most one fragment over the limit. From two
fragments over it on, what remains of one answer could be taken for the start of
the next one's; `attribute_request` asks for at most 256 bytes of title and of
subtitle, which keeps an answer far below the 4096 bytes of the limit.

Only model-checked are the liveness properties (`ReplacedGivesUp`,
`TeardownCompletes`, `FailureEndsConnection`, `StuckScoIsReported`,
`StatusConverges`, `QueuedIsServed`, `BookCatchesUp`): the prover has neither a
rule for fairness nor `ENABLED`. The type invariants of `MediaSession`,
`LiveMedia`, `MessageSend`, `CallControl` and `JitterBuffer` (with the capacities
of queues and buffers and the limiter's quota) are only proved.

## 6. Where documents and code differ

Shown by a run: `ancs_ingest_misgrouped` (the finding in PROJECT.json). Not made
into runs, because the documents contradict each other or describe it loosely:

- A lease outlives its grant's expiry: `docs/control-plane-security.md:109` says
  leases observe expiry, `docs/milestone6-audio-bridge.md:66-67` and a unit test
  say a claimed connection stays valid for the call. The model follows the code.
- During a replacement two leases exist for a moment, the older one revoked
  (`docs/control-plane-security.md:106-107`). `AtMostOneActiveLease` counts the
  unrevoked ones.
- The comment at `messages.rs:308` says accepted ids last for the daemon's
  lifetime; the registry keeps 256. `AtMostOnce` excuses evicted ids.
- A peer that stops reading suspends `sender.send` (`lib.rs:1060`), and a replaced
  connection keeps its bridge until TCP gives up;
  `docs/milestone6-audio-bridge.md:231-232` says replacement terminates the
  active lease. `ReplacedGivesUp` is checked for peers that read.
- pw-cat that ends cleanly ends the capture worker without a failure code
  (`audio.rs:575`), and the connection goes on silently;
  `docs/milestone6-audio-bridge.md:83-84` speaks of a worker failure.
- A handler that is dropped at its await leaves its operation in flight until the
  daemon restarts (`lib.rs:608`): every retry of the draft is refused as
  simultaneous, although `docs/milestone4-map-send.md:11-15` means a retry to be
  acknowledged or sent.
- `upsert` writes the private key of a message that is fetched again
  (`vendor/imsg-store/src/query.rs:146`), so the newest message, which every sync
  lists once more, loses its group's key; `docs/group-chat-detection-report.md:499-501`
  has one correlation move it for good. The recorded assignment stays
  (`AssignmentIsStable`).
- `docs/api-v2-messaging.md:93-94` promises pages that neither skip nor repeat
  rows with equal timestamps. Cursors are offsets: arriving rows repeat some, departing
  ones skip some (`MissedAtMostDeparted` bounds that), and `threads()` orders by
  time alone; the model takes ties in the order of the keys.
- `docs/current-state.md:389-390` says live state gating blocks answer, dial, DTMF or
  hang up in incompatible states. The state is read by one busctl process and the
  command sent by another: two dials can both read the empty list and both be sent,
  an answer or a tone can meet a call that came since, and hang up and reject call
  `HangupAll` (`hfp.rs:212-217`), which ends every call there is by then. No property
  claims protection of a call that a command was not meant for.
- The playout of the Rust jitter buffer runs on while it is empty, so after a
  stall a steady sender's frames are all late; the client's holds the expected
  sequence (`AudioJitterBuffer.java:71-76`).
  `docs/milestone6-audio-bridge.md:174-178` says that Android matches the Pi and that
  an empty tick after the start makes a later packet of that slot late on both Rust
  and Android; lines 49-51 of the same document say that Android holds.
  `PlayoutTracksSender` follows the code and lines 49-51, and would be false of what
  lines 174-178 describe.
- The doc comment of `backfill_folder` (`vendor/imsg-session/src/sync.rs:38-44`) has a
  sync fetch all messages since the cursor. The cursor is the highest timestamp
  seen, so a message that arrives later but is listed with an earlier datetime (the
  phone's zone or clock went back, or an undated message moved the cursor to the
  daemon's clock, which need not be the phone's local time) is skipped for good.
  `CursorSkipsNothing` is about the messages that arrive in front of the cursor.
- The limiter restarts its window at an instant read before the lock
  (`auth.rs:107-114`). `RateBounded` is about requests that read the clock and pass
  the lock within one window; requests that waited for longer come on top, and
  nothing but the number of waiting requests bounds them.
- The deadline of a grant is compared with an instant read at the start of `claim`;
  the compare-exchange may come after the deadline, by as much as the handler is
  delayed. No property says otherwise.
- At a replacement the older connection's workers go on until their stop flag is
  set, on the queues of the new call (`docs/milestone6-audio-bridge.md:231-232` says
  that replacement terminates the active lease). `NoStaleAudioOnReconnect` is about
  connections of one grant, `RevokedIsCutOff` about the socket's loops; frames the
  workers move in that time are not bounded.
- `CallController` changes its state by commands only: a call that the other party
  ends, or begins, stays unknown to it, and after `Ended` or in `Error` it takes no
  command. `StateInStep` excuses what the phone does by itself. An unmute whose
  failure is reported after the phone took it leaves the phone live and the
  backend muted (`MicrophoneInStep` excuses it).
- `create_audio_session` checks call and SCO and issues the grant afterwards,
  without a lock in between (`docs/current-state.md:493-495`).

## 7. Not modelled

- Android's Telecom connection, call monitor and audio-session life cycle: their
  steps are callbacks of the platform whose order the repository does not show.
- Views, offline caches, token vault, service discovery, TLS and start-up: no state
  machine of their own.
- `ContactSynchronizer` (`contacts.rs`), which the daemon does not use: its own task
  is `ContactBook`. (After a failure of the store it refuses every sync, since
  `Error` does not lead to `Syncing`.)
- The state tables of core `state.rs` that nothing drives: Bluetooth, HFP control,
  audio transport, Android client.
  `FramedPcmMediaBridge` is not wired to a socket, which uses the bounded
  queue of `LiveMedia`; its jitter buffer is modelled as the counterpart of the
  client's.
- Samples, concealment, pacing and packet layouts; phone numbers and caller lookup;
  the texts helpers print, beyond whether they can be used.
- Of the vendored imsg crates all but the inbox cursor, `upsert`, the reads and the
  ANCS tables; MAP and OBEX are third-party protocols.
