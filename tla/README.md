# Verification of the PQC bridge: device, gateway, cloud

TLA+ models of the device–gateway–cloud pipeline in `src/`, TLC runs that check
them on small instances, and TLAPS proofs of what matters most for every
instance. The models follow the code, not its documents; where the two
disagree, section 6 says so.

## 1. The system

A **device** (`device/device.py`, `device/state.py`) connects to the gateway
over TCP, introduces itself with an authenticated hello and sends one encrypted
reading after another, each under the next sequence number, which it persists
in a file. The **gateway** (`gateway/gateway.py`, `processing.py`) serves every
device connection with a thread: it looks the device up in a key registry,
applies the fallback policy to the hello, opens each reading, passes it through
a replay guard and forwards it. All these threads share one **cloud channel**
(`gateway/cloud_channel.py`), an ML-KEM session over one TCP connection that is
repaired in the background when a write fails. The **cloud** (`cloud/cloud.py`,
`processing.py`, `store.py`) serves every gateway connection with a thread:
handshake, session registry, a second replay guard, a bounded store. The
gateway trusts the cloud by the fingerprint of its key, which a **bootstrap
script** (`scripts/docker_bootstrap.py`) carries from the cloud's log into the
gateway's environment.

| Component | State | Operations | Interacts with |
|---|---|---|---|
| `CloudChannel` | `state`, `_sock`, `session_key`, `session_id`, `_send_lock`, `_reconnecting` | `connect_and_establish`, `send_reading`, `_invalidate`, `_start_reconnect`, `_reconnect_loop` | called by the device handlers, read by the health page; messages to the cloud |
| `DeviceServer` | per thread: device, key; shared: replay guard, `_seen_devices`, counters | `_handle`, `_admit_or_serve`, `_serve_legacy` | messages from devices; calls `send_reading` |
| gateway `processing` | none | `parse_hello`, `evaluate_hello`, `decrypt_legacy_message`, reply checks, pin check | called by the two above |
| `CloudServer` | per thread: session; shared: registry, replay guard, store, counters; key file | `_handle`, `_establish_session`, `_receive_readings`, `load_or_generate_keypair` | messages from gateways |
| `ReplayGuard` | highest sequence per device | `check_and_update` | shared by the threads of a server |
| device | counter in memory and in a file | `run`, `load_sequence`, `save_sequence` | messages to the gateway |
| `protocol`, `crypto` | none | framing, field checks, AEAD with associated data, ML-KEM | used by all |
| `Metrics` | counters, stats | `inc`, `observe`, `snapshot` | every thread |
| `health` | none | `do_GET` | reads the channel without a lock, and `Metrics` |
| `config` | none; documents in the environment and in files | `load_device_keys`, `device_key`, `gateway_key` | read again for every hello |
| bootstrap script | `.env` | `main` | the cloud's log, docker compose, the health pages |
| sensor, logging, compose files | – | – | section 8 |

**What is hard here.**

* The fields of `CloudChannel` have no lock: `is_established`, the encryption and
  the write read them one at a time while another thread replaces them.
* A failed write must start exactly one repair, and not for a session that has
  been replaced already.
* The first write to a peer that has left succeeds.
* Replay check and use of a reading are separate steps of concurrent threads,
  on the gateway and again in the cloud; old connections go on being drained
  after a restart.
* The device sends first and saves afterwards; the file is emptied before it is
  written; the guards live in memory. The cloud's key file and the script's
  `.env` are written in the same way.
* Partial failure in a handshake: something is registered, and then a write
  fails.
* Nothing in the handshake proves to one side that the other has derived the
  same key: decapsulation does not fail.
* A message is cut at a newline or at a size limit, whichever the reader meets
  first, while the bytes arrive in pieces.
* A key registry is rewritten while connections are judged by it.

**What makes each component correct.** The channel: coherent fields, one repair
at a time, every failure repaired; both ends with the same key and name. The
device server: nobody is served on the weaker path without having asked for it,
readings accepted as sealed and once, every message counted. The cloud server:
the registry holds exactly the live sessions, each reading stored at most once,
departed gateways evicted. The path as a whole: no wedge after a crash, and
replay rejections only for real overtaking. The trust anchor: an announced
fingerprint stays true. The pages: consistent with what happened. The
registries: a broken document admits nobody and rejects nobody.

## 2. Modules

| Module | Models | Run | Proofs |
|---|---|---|---|
| `CloudChannel` | `cloud_channel.py`, thread by thread | `channel`, `channel_retries`, `channel_lost_wakeup` | `CloudChannelProofs` |
| `SessionLifecycle` | abstract: what the channel promises | property of `channel` | `CloudChannelProofs` |
| `GatewayHealth` | `/health` of the gateway, on top of `CloudChannel` | `health` | `CloudChannelProofs` |
| `SessionSetup` | the handshake, message by message | `setup` | `SessionSetupProofs` |
| `CloudServer` | `cloud.py`, `store.py`, `replay.py` | `cloud` | `CloudServerProofs` |
| `TrustAnchor` | key file, announcement, bootstrap script | `trust` | `TrustAnchorProofs` |
| `DeviceServer` | `gateway.py`, `gateway/processing.py` | `device_server` via `MCDeviceServer` | `DeviceServerProofs` |
| `DevicePath` | one device end to end, with crashes | `device_path` | `DevicePathProofs` |
| `ReadingLog` | abstract: what the path promises | property of `device_path` | `DevicePathProofs` |
| `Framing` | `encode_message`, `read_message` | `framing` | `CommonProofs` |
| `Metrics` | `metrics.py` and its callers in the gateway | `metrics` | `MetricsProofs` |
| `Credentials` | key registries of `config.py` | `credentials` | `CommonProofs` |

How they fit together. `CloudChannel` and `CloudServer` detail what the threads
*inside* the gateway and *inside* the cloud do to each other; `SessionSetup` has
both ends and the messages between them, with sequential ends. `DevicePath`
composes device, gateway, channel and cloud for one device and takes a hello and
a `send_reading` for one step each, which `DeviceServer` and `CloudChannel`
detail. `GatewayHealth` extends `CloudChannel`: its steps interleave with the
channel's own. `TrustAnchor` delivers the pin under which `SessionSetup` starts;
the run of `SessionSetup` also starts without one.

Operators named in a comment "Mutant" are wrong versions of the definition
after them. They are not part of a specification; each property is known to
fail when one of them takes the place of the definition.

### CloudChannel and SessionLifecycle

A session is a number: attempt *n* of `_establish_once` creates socket, key and
identifier *n*, and 0 is `None`. Three kinds of threads:

* establishers (the main thread and the reconnect threads): `BeginAttempt`,
  `Connect`, `Handshake` (the reply is in, `session_key` is stored), `SetId`,
  `SetSock`, `SetState`; failures go through `AttemptFails`,
  `MarkAttemptFailed`, `Retry`; `Finish` and `Unwind` are the `finally` clause
  of `_reconnect_loop`;
* senders (device handlers): `CheckState`, `CheckSock`, `CheckKey` are the three
  reads of `is_established`, `ReadKey` and `ReadId` the arguments of
  `build_protected_reading`, `Acquire`, `Deref`, `Sendall` or `SendallRaises`
  the `with` block, `DropSock`, `DropKey`, `MarkFailed` the assignments of
  `_invalidate`, `StartReconnect` the rest of it and the release of the lock;
* the network: `Break`, which either makes the next write raise (`reset`) or
  be swallowed (`gone`).

Every read or write of a shared field is its own step. `skipped` and the parts
of `frame` other than the socket are there for the properties.

`SessionLifecycle` has three variables and three actions: an identifier is
published (`Announce`), the session it names becomes usable (`Install`) and is
given up (`Drop`). `ImplementsLifecycle` maps the installed socket to the usable
session and the published identifier to the latest one. It rules out two usable
sessions, an identifier used twice, a session that comes back after it was
dropped, and a session usable before it has a name.

### GatewayHealth

The dictionary that `gateway.main` hands to `make_health_server`, evaluated in
its order: `is_established` (three reads), `session_id`, `is_established` again,
`state`, all without a lock, each a step between the steps of the channel.

### SessionSetup

One gateway, one cloud, a connection per attempt with at most one message in
each direction. `Begin`, `ReadPubKey`, `ReadConfirm`, `RejectReply`, `SendReading`
are the gateway's; `AnswerRequest`, `ReadEncaps`, `RejectHandshake`,
`AcceptReading`, `DropReading` the cloud's. Faults: a message is damaged into any
other well-typed or malformed one (`Damage`), a wait times out, a connection
ends, the cloud restarts with the same or another key pair. The gateway's pin
(`pin`) is chosen at the start from `Pins`, which includes having none, and never
changes, as the environment of a running gateway does not. ML-KEM is symbolic with implicit rejection. `WellFormed` also stands for the length checks. The
tag of a request and the seal of a reading are records of what went into them.

### CloudServer

One slot per concurrent handler thread. `Accept` … `SendReply` is
`_establish_session`, cut at every message and at `registry.add`;
`AcceptReading` is the step up to and including `check_and_update`,
`StoreReading` is `store.add` and the counter. `RejectFrame`, `RejectReplay`,
`MalformedFrame` and `LookupDies` are what else becomes of a message: dropped and
counted, a counted error that ends the connection, or a `device_id` on which the
replay guard raises a TypeError that ends the thread and is counted nowhere.
`died` remembers the sessions that ended in this way. `EndOfFile` and `ReadFails`
are the two ways out of a blocking read, `Close` the `finally` clause. A gateway may
leave (`EndOfFile` follows) or vanish silently (only the timeout of 60 s, part of
`ReadFails`, helps). The session identifier of a connection is the connection's
number, which rests on `secrets.token_hex` being fresh.

### TrustAnchor

The cloud's `main` (`Load` … `PrintFingerprint`), the script's `main` (`UpCloud` …
`ReadingStored`), and between them the key file, the log, `.env` and the
gateway's container. `write_bytes` and `write_text` are two steps each. The cloud
may die between any two steps, a read of the key file may fail, the script may
be interrupted or time out and run again, volumes may be wiped. `UpAll` and
`GatewayHealthy` are what the script relies on from `docker compose up -d`.

### DevicePath and ReadingLog

One device and its way to the cloud, with the history of what both guards
accepted and rejected. Each life of the device process has its own connection,
handler thread and channel; each cloud session has its own wire. All of them may
be busy at the same time, which is how an older one overtakes a newer one.
`Truncate` and `Write` are the two halves of `Path.write_text`. `Die` may happen
between any two steps.

`ReadingLog` says what is left when processes, connections and sessions are
forgotten: the cloud records readings the gateway has taken, and between two
restarts of the cloud each one is newer than all before it.

### DeviceServer

Message content matters here, so hellos and readings are records with every
combination of good, absent and malformed fields. An AEAD output is the record
of what went into it and opens under the same key, nonce and associated data
only. The capability list is abstracted to the set of what it names: the modern
capability, the legacy one, and one (`Other`) that stands for any the gateway
does not know; order and repetition make no difference to `in`. Any of the eight
sets may be claimed. `Malformed`, `Refused` and `Welcome` sort all hellos into
those that `_handle` counts as errors, those that are rejected and those that are
admitted. `send_reading` is one of three outcomes: `Forwarded`, `SendRefused`
(CryptoError), `SendCrashes` (what `CrashOnlyIfInvalidated` of `CloudChannel` is
about). One step is one message with all its counters, except that forwarding is
a step of its own: it takes time and others move meanwhile.

### Framing

A byte remembers the message it is of and its place in it. `Encode` puts a line
together, `Deliver` lets any number of its bytes arrive, `Leave` ends the writer
anywhere. The reader's `readline(MAX_MESSAGE_BYTES + 1)` returns at a newline,
at the limit or at the end of the stream, and `read_message` returns a message or
raises one of its errors.

### Metrics

The lock and every step under it: `inc` is a read and a write, `_Stats.add` the
total and then the range, `snapshot` one copy after the other. The handlers call
in the order of `_serve_legacy`, so the counters of one message follow each
other; `MaxMessages` bounds the messages.

### Credentials

`Resolved` is `_keys_from_env_or_file`: the variable with the document, then the
file it names, then the committed demo file. Each hello resolves and parses it
again (`LookupDies`, `LookupFails`, `RejectPeer`, `Admit`: an exception nobody
catches, one that is caught, a rejection, service). `Truncate` and `Write` are an
operator's edit. `current` remembers every registry that was in force since the
peer connected.

## 3. Runs

| Run | Bounds | What it shows |
|---|---|---|
| `channel` | 2 senders, 2 reconnect threads, 2 faults, the cloud may hang up in a handshake | five invariants over every interleaving, `CrashOnlyIfInvalidated`, refinement of `SessionLifecycle`, recovery, dead links dropped, lock released |
| `channel_retries` | as `channel` | violation, section 6 |
| `channel_lost_wakeup` | as `channel`, the cloud does not hang up | violation, section 6 |
| `health` | 1 sender, 1 reconnect thread, 3 faults | what a health page may say |
| `setup` | 3 attempts, 2 faults, 2 key pairs, with the pin of one and without a pin | agreement on key and name, the pin, progress |
| `cloud` | 2 handlers, 2 connections, 2 devices × 2 numbers, 4 frames, capacity 2 | registry, store, guard, counters, eviction |
| `trust` | 4 key pairs, 3 faults | durability of an announced key, the script's success and progress |
| `device_path` | 2 lives, numbers up to 3, 3 sessions, 2 faults | guards, counter file, restarts, refinement of `ReadingLog` |
| `device_server` | 2 handlers, 2 devices and an unknown one, all sets of 3 capabilities, 2 nonces, 2 connections, 2 messages | hello policy, sealing, counters |
| `framing` | limit 3, lines up to 5 bytes, 3 messages | messages and errors at the limit |
| `metrics` | 2 handlers, 1 health request, 3 messages, 2 values | pages against a reference definition, consistent cuts |
| `credentials` | 2 handlers, 2 devices, 2 keys, 2 connections, 1 edit | lookups while the registry changes |

Why the bounds suffice. Two senders and two reconnect threads are the least at
which a repair can race with a second failure and with the end of the previous
repair; with the second fault the repaired session fails again. The health page
needs one thread of each kind, and a third fault lets two sessions go by during
one request. In `setup` the bounds leave an attempt for every fault and one
more. Two connections and two handlers of the cloud overlap in every way, and
capacity 2 is exceeded by 4 readings. Four key pairs serve three faults, each of which
can cost one. Two lives, three sessions and two faults let one
overtaking happen at the gateway and another at the cloud, and the sequence
bound 3 lets a counter be reset, catch up and pass. Two nonces distinguish a tag
from one under another nonce. A limit of 3 has lines below, at, one above and
two above it, and three messages let an error meet a stream in which something
was returned before and something follows. Two values give a minimum that
differs from the maximum. One edit gives documents before, during and after it,
of every form. The theorems of section 5 hold for all values.

`CHECK_DEADLOCK FALSE` stands where the bounds (connections, messages, lives,
attempts, faults) or the end of a thread let the model stop; that the channel's
lock does not block anybody for ever is a property, `LockReleased`.
`metrics` and `credentials` check for deadlock: there something is always
possible.

`NothingUnaccounted` exists in two modules because cloud and gateway count
differently; each is stated as the pair of inequalities that holds between the
single `inc` calls. Where the code loses a message from the counts, the property
says how many: one for each thread that died in `send_reading` (`crashes`), one
for each connection whose thread died at the cloud's replay guard (`died`).

`DepartedEvicted` speaks of the session a handler had when its gateway left, not
of whatever the handler's slot holds later: `Close` clears the slot, whether or
not it removes the session.

All type invariants are proved (section 5); those of `Framing` and `Credentials`
are run as well.

## 4. Fairness

`CloudChannel`: weak fairness of every thread. Establishing threads are run by
the interpreter, and each of their blocking calls ends by the socket's 10 s
timeout. For the senders it also assumes that devices go on sending, as the loop
in `device.py` does. No fairness of the network: `Break` need not happen, and
faults are finite (`MaxFaults`), so the liveness results say "once the faults
stop".

`CloudServer`: weak fairness of every handler thread, which is the 60 s timeout
on every connection. None of the gateways, which may be silent for ever.

`SessionSetup`: weak fairness of the gateway and of each handler thread, whose
blocking calls end by an answer or by a timeout. None of faults, and none of
readings. `Establishes` starts from a moment when more attempts than faults are
left, because the bound on attempts is the model's.

`TrustAnchor`: weak fairness of the cloud's start and of the script's steps,
which are sequential programs, of establishing (retried every 3 s) and of
readings (sent every 5 s). None of faults, operators and timeouts: a cloud that
died starts again only if the script or an operator starts it.

`DevicePath`, `DeviceServer`, `GatewayHealth`, `Framing`, `Metrics` and
`Credentials` state safety only.

## 5. Proofs

Everything below holds for all values of the constants, under the named ASSUME
of each module, which TLC evaluates in the runs.

`CloudChannelProofs`: all safety properties of `channel`, among them the
refinement. The invariants are not inductive: that a live socket has the
matching key needs to know who may write the key. The strengthening says where
the single "repair token" is. Either the main thread has not finished, or at
most one reconnect thread is out of `idle`, and then `_reconnecting` is set; no
thread can be about to install anything while a socket is installed; a sender
that invalidates holds the lock and works on the installed socket. Each part is
a lemma with a step per action. The refinement adds that numbers of attempts
grow (`FreshInv`), and maps `SetId` to `Announce`, `SetSock` to `Install`,
`DropSock` to `Drop` and every other step to a stutter. From `SessionLifecycle`
alone then follows `DroppedNeverReturns`: once a session was given up it is not
the usable one again, whatever the threads do.

The same module proves `ShowsInstalledSession` of `GatewayHealth`, on top of the
invariant of the channel. After a request has found a socket, some session was installed during
it (`StatusInv`). From then on the published identifier is that of such a session
or of the attempt whose socket is installed next (`SeenInv`); so is the
identifier on the page, and when the second `is_established` finds a socket it
must be the former (`IdInv`).

`SessionSetupProofs`: the four invariants of `setup`. The strengthening follows
the secret: the gateway's is for the pinned key and its current attempt, and
there is none, nor a finished handshake, without a pin (`GatewayInv`), what is on its way to the cloud carries it (`WireInv`), the
cloud's is for its own key and equal to the gateway's unless a message was
damaged (`CloudInv`), the confirmation repeats the cloud's name of the session
(`NameInv`), and only a reading sealed by the gateway itself opens
(`AcceptedInv`).

`CloudServerProofs`: `RegistryMatches`, `StoresNewReading` and
`NothingUnaccounted`. The registry needs that live connections have different
numbers below `nextConn` and that a registered session belongs to the thread
that created it. `StoresNewReading` needs that the guard's `last` is at least the
number of every reading stored or held. The counters are an argument about the
cardinality of two sets: the threads that hold a message not counted yet, and
the sessions that ended at the replay guard. A session in service is not in the
latter (`DiedInv`), so each of them costs exactly one message.

`TrustAnchorProofs`: `AnnouncedIsDurable` and `DoneMeansPinned`. Between the
generation of a key pair and its saving, no announcement stands (`FileInv`); a pin
or a fingerprint that is not the one announced last belongs to a key that never
comes back (`PinInv`); a session or a stored reading is evidence that the running
cloud has the container's pin (`EvidenceInv`).

`DeviceServerProofs`: all four invariants of `device_server`: whoever is served
has itself sealed a list with the legacy path and without the modern one, a
reading in a thread's hands is one the
device sealed, and the counters account for every message and every device.

`DevicePathProofs`: the four invariants of `device_path` and the refinement. They
are not inductive, because a rejection is decided long after the reading left
the device. The strengthening follows a reading on its way: the readings of one
life are sent, read, accepted, forwarded and received in the order of their
numbers, so what waits in a connection, in a handler thread or on a wire is
newer than everything of that life ahead of it (`ReadInv`, `HoldInv`, `WireInv`).
The value of each guard is the number of a reading it accepted (`GuardInv`,
`CloudInv`); a later reading can therefore only be rejected because of another
life, or in the cloud another session. And whatever exists anywhere was sent,
while the counter file trails the largest number sent by at most one at each
point of the device's loop (`OriginInv`, `CounterInv`), which gives `NoWedge`. A
crash inside `write_text` may leave the file empty; `NoWedge` says nothing from
then on, the other properties still hold. For the refinement, a reading on a
wire was taken by the gateway and what the cloud accepts is newer than all it
accepted before.

`MetricsProofs`: `PageIsACut`, `StatsExact`, and that no count is lost
(`CountersExact`). A handler whose next effect is a count at one stage has counted at the stage
before; so the count of a stage and the number of handlers that owe it one never
exceed the count before it (`OwedInv`), and what a snapshot has copied stays true
under the lock (`PageInv`). For `StatsExact`, a stat is the summary of what was observed
except between the two steps of an `add`, when it is that of all but the last
value, with the last one counted and added but not yet compared (`StatsInv`).
That the summary follows needs the sum of a sequence, which `Functions` defines
by recursion over subsets of the indices in an order left to CHOOSE: it is shown
that such a function exists (`SumsExist`), that any index may be taken out last
(`SumsTake`) and that appending adds (`SumOfAppend`).

`CommonProofs`, on `src/common`. For `Framing`, `Faithful` and `RightOutcome`. The
reader and the writer each stand at a place in the sequence of all bytes of all
messages; the bytes on the wire lead from the one to the other without a gap
(`WireInv`), the line begun is the start of the next message (`LineInv`), what is
still to be written is the end of the last one (`RestInv`), and each way to end
keeps the reason for it (`OutcomeInv`). For `Credentials`, `ServedUnderCurrentKey`
and `RejectedForCause`: what is in force is in the history of every connection
that waits for its verdict (`KeyInv`), so a lookup that finds a complete document
finds one of the history.

Each of these modules also proves its type invariant.

With that, every invariant and every action property of the passing runs, and
both refinements, are theorems. Induction is used in one place, the sums of
`MetricsProofs`, and goes through a least counterexample (`WFMin`), since the
library's induction theorems take an operator.

Left to TLC: liveness, that is `RecoversUnlessSkipped`, `DeadLinkDropped`,
`LockReleased`, `DepartedEvicted`, `Establishes` and `Provisions`. Each rests on
fairness, hence on ENABLED, which the proof system does not reason about. That
no deadlock occurs in `metrics` and `credentials` is left to TLC for the same
reason.

## 6. Where the code does not do what it says

Shown by a run that must find a violation:

1. `channel_retries`: a clean close during the handshake ends the retry loop
   (`cloud_channel.py:88`).
2. `channel_lost_wakeup`: a reconnect request is lost when it meets the previous
   reconnect thread on its way out (`cloud_channel.py:183`). `SkippedIsLost`
   shows that *every* request dropped there is lost in this way, and
   `RecoversUnlessSkipped` that with 1 these are the only ways recovery fails.

Found while modelling; the properties hold with the exception each one states:

3. `send_reading` raises AttributeError or TypeError when another thread
   invalidates the session under it (`cloud_channel.py:165`);
   `CrashOnlyIfInvalidated` says that nothing else makes it raise them.
4. A session whose last handshake reply cannot be written stays registered
   (`cloud.py:166`); `RegistryMatches` counts these leaked sessions and allows no
   other.
5. A device that dies between sending and saving has its next reading rejected
   as a replay (`device.py:72`); `NoWedge` says that it is one reading at most.
6. An existing key file that cannot be read for a moment is replaced by a new
   key pair (`cloud.py:216`), which makes the announced fingerprint worthless;
   `AnnouncedIsDurable` holds but for this (`disturbed`).
7. The script takes a session line of an earlier run for evidence
   (`docker_bootstrap.py:110`); it ends well all the same only with the right pin
   (`DoneMeansPinned`), because of the stored reading it waits for as well.
8. The health page may say ok although no moment of the request had a usable
   session: the state read may be the old session's, the socket and key the
   next one's (`gateway.py:180-181`). `ShowsInstalledSession` says what is left.
9. A registry that is cut short or malformed raises an exception nobody counts
   (`gateway.py:81`): the connection is dropped without a trace in the counters
   (`LookupDies` of `Credentials`).
10. An authenticated reading whose `device_id` is a list or an object raises a
   TypeError at `cloud.py:190`: `parse_reading_bytes` asks only that the field be
   there (`protocol.py:163`). `_handle` does not catch it, so the thread dies and
   the message stays counted as received alone, although "errors" are "unexpected
   failures (exceptions, faults)" (`metrics.py:13`). The session is evicted all
   the same. `LookupDies` of `CloudServer`; `NothingUnaccounted` allows for one
   such message per connection and no other.
11. `determine_path` (`processing.py:66-74`) answers "legacy" for any list with
   the legacy capability and without the modern one, whatever else it names. The
   documents ask for more: "legacy-only + known device + valid tag -> FALLBACK",
   "modern / both / unknown caps [...] -> REJECT" (`gateway.py:14-15`), and
   "authenticated legacy-only hello; everything else rejected" (`README.md:40`).
   A device that claims `chacha20-poly1305` and, say, `ml-kem-1024` is served on
   the fallback path. `ServedAsClaimed` states what holds: the device itself
   claimed the legacy path and did not claim the modern one.

## 7. Abstractions to keep in mind

* TCP keeps order and loses data only with the connection. Framing errors are
  a cause of `ReadFails`; `Framing` details them.
* ML-KEM, HKDF and ChaCha20-Poly1305 do what they promise.
* A reading that opens at the cloud is not JSON, lacks a field, has a `sequence`
  that is no integer (`RejectFrame`), has a `device_id` that cannot be a
  dictionary key (`LookupDies`), or is of one of `Devices` with a number; its
  other fields are stored and never looked at.
* Python threads switch between any two field accesses; single attribute
  accesses and single calls under a lock are atomic. `Metrics` shows what the
  lock is needed for; elsewhere `inc` is one step.
* `DevicePath` takes the hello for admitted and `send_reading` for one step;
  the other modules detail them.
* `SessionSetup` has one message per direction on a connection, which is all
  the strict request and reply of the handshake allows.

## 8. Not modelled

* Sensor, logging set-up, `parse_args`, hosts, ports and intervals: no state and
  no decision.
* JSON and base64 themselves, HTTP, the layout of pages and the cloud's own
  pages (locked calls and their formatting).
* Docker Compose: external, modelled by what the script relies on.
* `_Stats.add` on a change of unit: no caller changes one.
* The gauge `device_connections`, which nothing depends on.
* A `Thread.start` that raises in `_start_reconnect` (`cloud_channel.py:186`).
* Tests: read for what they expect, not part of the program.

## 9. Plan

1. `System`: several devices over one channel, composed from `DeviceServer`,
   `CloudChannel` and `CloudServer`; the counters of gateway and cloud related to
   each other, and the theorem that goes with it.
2. Store order against guard order when two threads hold readings of one
   device.
3. A failing `Thread.start` as an action of `CloudChannel`, and what is left of
   `AlwaysRepairing` then.
4. An abstract specification of `CloudServer` (sessions come and go, readings are
   recorded once) and the proof that it is implemented.
