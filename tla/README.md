# A TLA+ model of the peer-to-peer file transfer

These modules describe and check the behaviour of the desktop application in this repository: two peers that find
each other on a local network, connect over QUIC and send each other files in chunks.
Every definition is translated from the code; `PROJECT.json` names, for each, the lines it stands for.

## The system

### Inventory

| Component | State | Operations | What is hard, and what makes it correct |
|---|---|---|---|
| **Transfer** (`p2p_engine.rs`, `send_file`, `handle_incoming_transfer` and the five commands) | the session table (a `DashMap`) of each peer: status, completed chunks, retry counts, save path; `pending_incoming`, a table of one-shot channels; the position of each task; the stream; the files | send, accept, reject, pause, resume, cancel; the request, response, chunk and acknowledgement handlers; verification | two tasks on two machines and two users act on the session at once, a task releases the session at every `await`. What either peer counts must be on disk; a completed transfer must be whole; nobody gets data without consent; every wait ends |
| **Peer connections** (`p2p_engine.rs`, `connect_to_peer`, `accept_loop`, `idle_cleanup_loop`) | `active_connections`, one per peer | dial, accept, exchange of peer information, open and accept a stream, clean up | both peers may dial at once, an insert replaces a connection in use, the cleanup collects first and removes later; a connection in the table should be one that both peers serve |
| **Engine lifecycle** (`commands.rs`, `state.rs`, `p2p_engine.rs` `start`, `shutdown`) | `RwLock<Option<P2PEngine>>`, background tasks, bound port | start, stop, and every command, which holds the read lock while it runs | check, unlock, lock, check; a stop that queues behind a transfer blocks the commands the transfer waits for |
| **Discovery and registry** (`discovery.rs`, `peer_registry.rs`) | the table of peers: address, status, last seen | mDNS resolve and remove, status of a connection, eviction | two threads and the tasks of connections write one table; an announcement replaces the status of a connected peer; eviction collects first and removes later; the eviction thread outlives its engine |
| **Chunk layout** (`transfer/src/session.rs`) | none | `compute_chunk_layout`, `chunk_offset` | boundaries: empty files, exact multiples, the top of `u64` |
| **Storage** (`storage/src/lib.rs`) | the files, a semaphore of write permits | allocate, write and read a chunk, file size | truncation of an older file, partial writes, two writers of one file |
| **Transfer manager** (`transfer/src/manager.rs`) | a session table under an `RwLock`, a rate controller | upload: initiate, receive a chunk, retry, finalize; download: initiate, send a chunk; resume, insert | status checked, lock released, acted upon; chunks counted, not compared; budget acquired and not given back. What is counted must be on disk, what is reported must be whole, for good |
| **Rate controller** (`transfer/src/rate_control.rs`) | token buckets, pending queue, backpressure flag | acquire, report | refund when the second bucket refuses, hysteresis, a saturating subtraction. The budget must balance |
| **Settings**, **certificates** (`settings.rs`, `cert_manager.rs`) | a file on disk and its copy in memory; two files | load, validate, save; load or generate | every write truncates first; concurrent saves, failed writes, a crash between two writes. The engine must get valid settings, a save must last, the identity must never change |
| **Frontend state** (`AppStateProvider.tsx`, hooks, `p2pBridge.ts`) | lists of peers, requests and transfers | apply events, list, send, accept | answers of commands arrive after newer events; what is shown must be known or about to be lost |
| Protocol codec, integrity, retry policy, observability, types, database schema, screens | none, or none of their own | pure functions, formatting, presentation | covered by the property tests of their crates, or nothing to check |

### How the components interact

A user's command enters through the frontend's bridge as a Tauri command, which takes the engine's read lock and calls the
engine. `send_file` looks up a connection in `active_connections`, records a session and opens a stream; at the other
peer the connection's loop reads the first message of the stream and starts `handle_incoming_transfer`, which
records a session of its own, leaves a one-shot channel in `pending_incoming` and waits. `accept_transfer` and
`reject_transfer` take the channel out of the table and send the decision through it; all else goes over the stream:

    sender                                   receiver
      TransferRequest  ------------------->    session, wait for the user
                       <-------------------    TransferAccept | TransferReject
      ChunkData(i)     ------------------->    verify the chunk's hash, write it
                       <-------------------    ChunkAck(i)
      ... until i = total_chunks               read the file back, compare its hash

The two tasks meet their users only in the status of the session: a command writes it, a task reads it at the head of
its loop. Sessions meet on disk and on the connection, which all transfers to a peer share.

## The modules

| Module | What it is |
|---|---|
| `P2PTransfer` | the transfer: one action per step of the two tasks, per command and per event of the network; its properties |
| `MCP2PTransfer` | small instances for TLC: sessions, sizes of files, choices of save paths |
| `FileDelivery` | what a transfer promises, without tasks, messages or statuses: chunks are stored in order, counted when stored, reported when whole |
| `P2PTransferRefinement`, `MCP2PTransferRefinement` | the refinement mapping from `P2PTransfer` to `FileDelivery` |
| `P2PTransferProofs`, `P2PTransferStorage`, `P2PTransferRefinementProofs` | the proofs: types, turn-taking, ledgers, waits and outcomes; what is on disk; the refinement |
| `PeerConnections`, `MCPeerConnections` | the connections: one action per step of `connect_to_peer`, of the task that answers it, of the clean-up, and per writer of the registry |
| `PeerConnectionsProofs` | its proofs |
| `EngineLifecycle`, `MCEngineLifecycle` | the lock around the engine: start, stop, and every other command with its guard |
| `EngineSwitch` | what the commands promise, without a lock: an engine runs or not, is worked with only while it runs, and takes the requests made of it with it |
| `EngineLifecycleProofs` | the proofs about the lock, and that it implements `EngineSwitch` |
| `ChunkLayout` | how a file is cut into chunks, and what that should mean |
| `RateController` | the token buckets, the queue and backpressure: operations without a system of their own |
| `TransferManager`, `MCTransferManager` | the manager's calls over the layout, the rate controller and the disk, by any number of callers |
| `TransferManagerProofs` | the proofs of these three |
| `PeerDiscovery`, `MCPeerDiscovery` | the registry of peers, the two threads of discovery, and the interface's list of peers, over restarts of the engine |
| `PeerDiscoveryProofs` | its proofs |
| `DataDirectory`, `MCDataDirectory` | the settings file and the identity's two files, with saves, starts, failing writes and crashes |
| `DataDirectoryProofs` | its proofs |

### `P2PTransfer` and the code

State. `sndPc` and `rcvPc` say where `send_file` and `handle_incoming_transfer` stand; `sndIdx`, `rcvIdx`, `rcvCur` and
`rcvGood` are their locals. `sndStatus`, `sndDone`, `rcvStatus`, `rcvDone`, `rcvRetries` and `savePath` are the fields of
the two `P2PTransferSession`s that the code decides by. `choice` is the session's entry in `pending_incoming` with
the channel behind it: `"open"` until the user decides, then the decision, which the task has yet to take (`"rejected"` once the command
has set the status too). `toRcv`, `toSnd` are the two directions of the stream, `link` the connection, `disk` the files.

Granularity. An action is what a task does between two points at which another actor may be seen: an `await`, or the
release of the session's entry in the `DashMap`. So the write of a chunk, its acknowledgement and its entry in
`completed_chunks` are three actions with the users' commands, the other session and failures in between, while
the check of a status and the first poll of the write behind it are one. An answer is written (`HandleAccept`, `HandleReject`)
before the status follows (`BeginReceive`, `EndRefused`), over a cancel that came in between; a reject goes into the channel before `RejectStatus`, which
the task may overtake. An accept is one step: what its command writes after the channel is the path that the task got through the channel and writes itself.

Data. A chunk is its index; its bytes are the session they come from, so two sessions have different contents and no two
chunks of a session are mixed up unless their indices are. A hash comparison compares what was hashed: a chunk on
the wire is intact or not, and the whole-file hash agrees when every chunk of the file is the session's. A file on
disk is a function from the chunks it has, counted from 0, to the session that wrote them or `Hole`. Chunks of one
session all count alike: the offsets are the subject of the chunk layout. Chunk sizes agree between the peers, as the request
carries the sender's.

The network. QUIC delivers a stream's messages once and in order. `LinkLost` ends the connection with all that is in flight; with
`LossPossible` it may happen at any time, which also stands for a peer that shuts down or crashes (sessions live in memory
only) and for a connection that a newer one replaces, and without it only when `Quiet` holds. The sessions of one `Connection` share it, as `send_file` takes
the one entry of `active_connections` for a peer (`p2p_engine.rs:363`): a loss is one for all of them, and the idle timeout, for which the transport
configuration sets no keep-alive, is due only when every one of them is `Silent`, with nothing in flight and nobody about to send. A
write on a connection that is lost, or to a task that has returned, either fails or vanishes: QUIC
reports the loss at once or later. A read fails once nothing is left and the other task has dropped the stream.
`DamageChunk` makes the bytes of a chunk differ from its hash (bad memory, a peer whose file reads differently); at most
`MaxDamage` times.

Failures of the disk. With `DiskMayFail` each disk operation of the receiver may fail; a failed allocation may have truncated the file,
a failed write may have left a part of the chunk.

Left out: branches no run can take (a peer of the same code sends no unexpected message type, the one-shot channel is never dropped
before it is used), `chunk_hashes`, timestamps and names, logging. The engine is modelled at its own interface; the lock that the
Tauri commands hold around it is the subject of `EngineLifecycle`.

### `PeerConnections` and the code

State. A connection is one call of `connect_to_peer`: who dials whom is a constant, whether and when is not. `pc` says
where the tasks of its two ends stand, `up` at which ends it is not closed (`close_reason()` is `None`), `refs` how many handles to it a peer has. `active` is
`active_connections`, `status` the statuses in the peer registry, `sweep` what a round of `idle_cleanup_loop` has
collected or removed, `sends` how far a `send_file` over the connection is, `incoming` whether its other end receives files over it.

Handles. A `quinn::Connection` is closed when its last handle is dropped, and where handles are taken and dropped is what the code decides. So each
step counts its own: `Take` where the code clones one or opens a stream, `Drop` where a task, a transfer or an entry of the table gives one up, `Rehold` for both at once (the insert of
`Store` drops the handle of the entry it replaces, and gives the table the dialler's own or a clone of the accepting task's). Dropping the last one closes the
connection at that end, and nothing else looks at who should have one: a step that forgot to drop its handle would leave the connection open, which is what `LiveIsListed` is about.

Streams. The loop of the accepting end takes up a stream with `ServeStream`; it ends when the connection is closed (`ServingEnds`), and also when the first message
of a stream cannot be read (`ServingBreaks`), without closing the connection. The latter needs a stream that ends or breaks within its first message (`BadRequests`).
Requests are taken up in any order; in the code one that is slow to arrive delays those behind it.

Granularity. The registry and the table are two `DashMap`s, so ensuring the peer, setting its status and storing the connection are three
actions, and so are the collection, the removal and the reset of the status in the clean-up. The test and the insert of the first are
taken as one: whatever comes between them, the status is set right after.

The network. An end whose peer closed learns of it later (`LearnClosed`). With `LossPossible` either end may lose the connection
at any time; this stands for the idle timeout, the network and a peer that stops. A request is on the
stream once `OpenStream` has run, and what has arrived can be read after a loss: an answer of the exchange may reach
the dialler of a connection that is closed by then.

Left out: failures before the connection is there, fingerprints that are empty or stand for two peers, addresses and names. An eviction is one
step that may come at any time.

### `EngineLifecycle` and the code

State. `Calls` are tasks of an instance that run commands, one after another and any number of times. `pc` says where a task
stands; who has a guard follows from it (`Readers`, `Writers`). `queue` holds the tasks that wait for the instance's lock, readers and writers
in the order of their requests, as tokio's `RwLock` serves them. `slot` is `AppState.engine`, `engines` the
number of engines of the instance that were started and not shut down, `request` what has become of a `TransferRequest`.

Granularity. A step goes from one `await` to the next: to get a guard and look into the slot is one step, to give the read guard of
`start_engine` back and to ask for the write guard are two. `stop_engine` takes the engine out and shuts it down in two steps, with the guard.

The commands. `"askUse"` stands for every command that reads and does not wait for a user; one that finds a request may answer it
(`accept_transfer`, `reject_transfer`). A `send_file` makes its request of an instance that has an engine, and waits with its read guard until the answer, the shutdown of
that instance or the loss of its connection (`ConnectionLost`), which the idle timeout is one of. All sends between two instances share a connection, so that one whose data flows
(`Traffic`) keeps it open for those that wait. What follows an answer needs no command and is one step, `P2PTransfer` has the rest of it. Pauses and
cancels are commands that read: they can end a transfer sooner, not later. `stop_engine` is registered as a command, the frontend's
bridge has no wrapper for it yet.

`EngineSwitch` is the abstract view: which instances have an engine that runs, which tasks work with it, which of these wait for the other instance. The refinement
mapping (`Switch`) reads the first from `engines`, the second from the stages with a read guard and an engine, the third from `request`. The lock is not in it: that no engine is turned off while
somebody works with it is what the lock is for. `CanGoOn(c)` says when a task can take its next step, and `AwaitsAnswer(c)` when it waits for the user of the other instance. On the run's instance `CanGoOn` was compared with `ENABLED Run(c)`, in every state.

Left out: what `P2PEngine::start` and `shutdown` do inside, which may fail before anything is left behind, and the lock around the settings, which no
command holds across an `await`.

### `TransferManager`, `RateController`, `ChunkLayout` and the code

State. A session of the table is `direction`, `status`, `size` (`file_meta.size`) and `progress`: its `completed_chunks`, the
`retry_counts`, and of its `chunk_hashes` those that are not the hash of the file's bytes (`spoiled`: a download hashes what it
reads). `stored` says of which chunks a file has the right bytes. `call` is what each caller is in: which operation, on which session and chunk,
and at what stage. `reported` and `trusting` are history: who was told that an upload is complete, and who began to download after that.

Granularity. The session table is behind a `RwLock` that no operation keeps across an `await`. `receive_chunk` is so the steps `Acquire`
(the budget), `Check` (the hash, the status), `TakePermit`, `Write`, `Record`, each with everybody else in between, and `receive_chunk_with_retry`
has the look at the count of failures before and `CountFailure` after them. `finalize_upload` and `resume_transfer` read
the session, read the chunks back one by one and write the session's status. The rate controller's mutex makes each of its calls a step.

Data. A chunk that is received comes with a hash, so its bytes are the file's or found to be damaged. `MayMatch` and `MayDiffer` say how a comparison of
hashes may come out when the bytes on disk, or those that were hashed before, are not the file's. Chunk indices include the one past
the end, as nothing compares an index with the number of chunks. Sizes are counted in bytes, with `SizeLimit` for 2^64: `TotalChunks` wraps as the sum in
`compute_chunk_layout` does in a release build. Time is a `Tick` that refills all buckets; the code refills when asked, which comes to the same.

Failures. A damaged chunk, a failed write or allocation, a crash, a copy of a session taken at some time before the crash and inserted after
it as `Paused`, as the tests of `resume_transfer` do. A write that fails halfway leaves no more than a chunk that is not counted as stored; a
failed allocation has truncated the file, and its length is not told apart.

Left out: the content of acknowledgements, metadata other than the size, a resume with another size than the session's (an error at once), a download
session that somebody sends chunks to, `recommended_parallelism` and `set_memory_usage` of the rate controller, which nothing calls.

### `PeerDiscovery` and the code

State. `registry` has, for each engine that was started, which peers it knows and whether `last_seen` is past the stale timeout. `browse` and `evict` say
where the two threads of its `DiscoveryService` are: what they have changed and not yet told the interface. `events` are the Tauri events on their way, `listing` the
answer to `listPeers`, `dial` a `connect_to_peer` that the user called by an address, `shown` the interface's list. `handle` is `app_handle`, which
`start_engine` sets when the threads already run.

Granularity. A change of the registry and the event that reports it are two steps, and so are the collection and each removal in `evict_stale`, since the
registry is a `DashMap` that all threads change. A connection enters its peer unless it is there (`enter`) and sets its status in a step of its own (`StatusSet`, `DialStatus`), which does not
bring back a peer that was evicted in between; the look and the entry are one step, as an entry made between them is as new. A restart waits for the
calls of `connect_to_peer` under way, which hold the engine's read guard. `stop_engine` ends the browsing thread's input, not the eviction thread: the model keeps the
threads of every engine that was started, and their reports go to the same interface.

`tangled` is history: the peers of whose loss the interface was not told, because it had not subscribed, or was told before it learnt
something older: the listing or an answer that was on its way, or a discovery that the other thread was about to report. For them the interface may
show a peer that nobody knows, until it is discovered and lost again; `ShownIsKnown` is about all others. (A loss that an engine without `app_handle` does not
report is covered without it: such an engine has nobody to show yet.)

Left out: names and addresses, peers without a fingerprint (a removal then takes any such peer for the one removed, `discovery.rs:298-300`),
`update_display_name`, and the resolution of one's own announcement. One peer suffices: nothing but the queue of events is shared by two.

### `DataDirectory` and the code

State. `file` is `settings.json`, by what it parses to and its length, `memory` is `AppState.settings`, `saving` the calls of `save_settings` on their way.
`cert` and `key` are the two files, by the key pair they belong to; `start` is where `P2PEngine::start` stands and which settings it was called with (copied before it loads the identity), `identity` and `config` what the engine that runs
was started with. `kept` and `published` are history: what the last save wrote if no other overlapped it and it succeeded, and
all key pairs that an engine ever ran with.

Granularity. `std::fs::write` truncates, then writes: two steps, with the other calls, a failure (`SaveFails`, `WriteFails`) or a crash
between. A write goes to the start of the file whatever another call wrote there since; what was longer sticks out and the file does not parse. The start of the engine is alone,
under the engine's lock (`EngineLifecycle`). A process has one data directory, and a directory one process.

A crash ends the process, not the machine: what was written stays.

## The runs

| Run | Instance | Shows |
|---|---|---|
| `transfer_one` | 1 session of 3 chunks, an older file of 4 chunks at the path, all commands, losses, disk failures, 2 damaged chunks, `max_retries` 1 | `TypeOK`, `CountedIsStored`, `SentIsStored`, `ReceivedFileIsExact`, `LedgersAgree`, `NoDataWithoutConsent`, `OneMessageInFlight`, `DamagedIsNotCounted`, `NobodyWaitsInVain`, `OutcomeIsFinal`, `SendReturns`, `ReceiveReturns` |
| `transfer_pair` | 2 sessions of 2 chunks over one connection, 2 paths, any choice of paths, cancels, 1 damaged chunk, no retry, an older file of 3 chunks | `OneWriterWins`: of two writers with one save path that both report completion, one's whole file is there |
| `transfer_refine` | 2 sessions with paths of their own, disk failures, a damaged chunk, cancel and reject | `DeliversFile`: the transfer implements `FileDelivery`; `AcceptedIsDelivered` |
| `conn_mutual` | 2 peers that dial each other, one sends, losses, bad messages, announcements, evictions | `ConnectedIsBacked`, `LiveIsListed` |
| `conn_live` | one peer dials the other twice and sends, announcements, evictions, no loss | `DialledStays`, `ClosedIsForgotten`, `DialerIsServed`, `UnlistedEnds` |
| `engine` | 2 instances, 3 tasks of one and 1 of the other, that run any commands again and again | `OneEngine`, `PendingIsServed`, `NobodyStuck`, `SwitchesEngine`: the commands implement `EngineSwitch`; `CommandsReturn`, with its exception |
| `manager` | 2 callers, an upload and a download of one file of 2 chunks (2 bytes and 1) and an index past the end, 4 calls, one failure (a damaged chunk, a failed operation or a crash); sizes up to 4 bytes | `LayoutTiles`, `CountedIsStored`, `ReportedIsWhole`, `TrustedIsRight`, `QueueCoversGranted`, `RetriesBounded`, `SpentIsQueued` |
| `peers` | 1 peer, 2 engines in turn, 1 event on its way | `ShownIsKnown`, `GoneIsForgotten`, `HeardIsShown` |
| `data_dir` | 2 calls of `save_settings`, 3 settings of which one is longer and one not valid, 4 key pairs, 3 crashes or failures | `EngineSettingsAreValid`, `SavedIsKept`, `IdentityIsStable`, `StartsUnlessTorn` |
| `doc_*` | the smallest instance of each | the disagreements below |

Eight invariants are left to their proofs, which hold for every instance: the types of `PeerConnections`, `EngineLifecycle`, `TransferManager`, `PeerDiscovery` and `DataDirectory`, `UsedIsRunning` (which `SwitchesEngine`
contains), `QueueIsBounded` and `KeyFollowsCert`.

`CHECK_DEADLOCK FALSE` everywhere but in `engine`, `peers` and `data_dir`: a transfer ends, and when both tasks have returned and no command applies nothing is left to do.
The waits that would be deadlocks are the subject of `SendReturns` and `ReceiveReturns`.

**The bounds.** Three chunks have a first, a middle and a last one, and two
damaged chunks exceed `max_retries` = 1, so that both branches of the retry count are taken. An older file longer
than the new one is needed for a missing truncation to show. Two sessions are enough for one to disturb another: the
properties speak of one session and its rivals, and a rival does nothing that one other cannot. `MaxDamage`, `OldChunks`, the commands and
the failures are constants: every run names which it allows. `transfer_pair` leaves out losses and disk failures, which
`transfer_one` has, to stay small (about 410 000 states). `OneWriterWins` is about files of one length: where one is shorter, its session reads back its own chunks only
and may report completion of a file that goes on with the rest of the longer one. Retry counts are bounded by `MaxDamage`; no other counter is unbounded.

Two connections are enough for `PeerConnections`: the tables have one entry for each peer, what one connection does to another is to replace
it, and a third could do no more. Two peers are all that share state. The handles of a peer to a connection are at most those of the task, the table, a
transfer it sends and those it receives, which count as one. `conn_mutual` has 2.1 million states, most of them from the order in which handles go.

Three tasks of one instance and one of the other are what it takes for everyone to wait on everyone: `a1` and `b1` send to each other and
keep their read guards, a stop of `a` waits for `a1`, and the accept that `b1` needs waits behind the stop. (`b1`'s user is busy with the send
itself.) TLC reaches this state, and `CommandsReturn` holds since QUIC's idle timeout ends the sends: a transport with a keep-alive, or a lock
that is not fair, would leave the instances stuck. Two more tasks of `a` can keep sending to `b` and be answered, which keeps the connection of an unanswered `a1` open for good: that is the exception in
`CommandsReturn`, without which TLC finds a counterexample. It is the only one: a stop of `a` that waits for `a1` has the further sends of `a`
behind it in the queue, so that the traffic ends, the connection times out and the stop gets its turn. The run has 86 864 states. Two starts at once, and a start beside a stop, need two of the tasks. `engines` is bounded by `OneEngine`.

In `manager` the two marks of backpressure, the buckets and the refill are so small that two calls at once are refused for each of the three
reasons (`HighWater` = 1, capacities of 2). A chunk of two bytes and one of a single byte tell a report of too many bytes; the index past the end makes two
chunks by number of which one is missing. Four calls are two chunks, a finalization and one more: a resume after
a crash, a third chunk, or a download. One failure of any kind shows what it leaves behind; its theorems hold for any number. Sizes up to 4 bytes with chunks of 2 have empty files, exact multiples, remainders and the size that wraps. The two callers are symmetric; no liveness is checked there.

In `peers` two engines are what it takes for an old thread to report to a new engine's interface, and one event on its way for every order of the
threads' reports, as a thread waits to emit the next: a longer queue only delays what is reported (about 419 000 states).

In `data_dir` two overlapping saves are all that share a file, a setting longer than another is what sticks out, and three faults cut off a certificate, a key
and a save, or three starts in a row; the four pairs are one more than the faults.

**Fairness.** `Fairness` of `P2PTransfer` is weak fairness of each task (the runtime polls a task whose future is ready) and of the idle
timeout while all sessions of the connection are silent (`Quiet`). Users owe nothing: no command and no decision is fair. Nor is any loss other than the
timeout. `SendReturns` rests on `Sessions` being finite: each session falls silent or ends, so the connection does idle. With an endless supply of new transfers to the same peer
it would not, and an unanswered send would wait on; this is what `EngineLifecycle`, whose sends repeat, makes an exception of. `AcceptedIsDelivered` needs no more than that, since after the accept both tasks
can always move.

`Fairness` of `PeerConnections` is weak fairness of the tasks, of the clean-up (its interval ticks) and of an end's learning that the
other closed (by the close frame or by the timeout). Dials, sends, losses and the other writers of the registry are not fair.

`FairSpec` of `EngineLifecycle` is weak fairness of each task that has called a command, which includes the lock's
handing the guard to the task at the head of its queue, and of the loss of a connection that carries no traffic, by its idle timeout. A send on a
connection that other sends keep busy is owed nothing. That a command is called is not fair, so no answer ever has to come.

`FairSpec` of `PeerDiscovery` is weak fairness of the two threads of every engine, of the aging of entries, of `set_app_handle` and of the interface (its
subscription, its listing, its handlers and the answers it waits for). Neither the network nor the user nor a restart is fair; `HeardIsShown` assumes in its own premise
that the peer is announced again and again, `GoneIsForgotten` that it is not heard of any more.

`FairSpec` of `DataDirectory` is weak fairness of the launch and of the steps of a start: the user starts the program again, and the interface
starts the engine when it mounts. No save, fault or stop is fair.

### Where documents and code disagree

Each of these runs checks a sentence of the repository, which TLC refutes:

- `doc_retry`: a failing chunk gets *"exactly max_retries + 1 total attempts"* (`p2p_properties.rs:289-290`). The receiver counts the failure and tells nobody; there is no second attempt.
- `doc_both_send`: *"Each instance acts as both sender and receiver"* (`README.md:3`). `connect_to_peer` starts no loop for the streams of the other end, so the peer that was dialled cannot send.
- `doc_mutual_dial`: `connect_to_peer` *"Establishes a QUIC connection [...] and stores the connection"* (`p2p_engine.rs:301-302`). When two peers dial each other, each may replace its own connection by the other's, and both are closed.

More is plain from the models and has no run:

- Files are *"chunks sent across multiple QUIC streams"* (`README.md:36`) and `send_file` *"sends chunks in parallel streams"* (`p2p_engine.rs:354-356`). It opens one stream (`p2p_engine.rs:429-432`) and
  waits for the acknowledgement of each chunk before it sends the next: `OneMessageInFlight` states the contrary of these sentences, and holds.
- The history logs *"all completed and failed transfers"* (`README.md:40`). A `send_file` that fails on the connection leaves by `?` and sets no status
  (`p2p_engine.rs:442`), and the history leaves the session out; the session's status InProgress then does not mean *"actively sending/receiving chunks"* (`p2p_engine.rs:70`).
- *"Interrupted transfers resume from the last completed chunk"* (`README.md:37`). `resume_transfer` sets the status and starts no task (`p2p_engine.rs:619`).
- *"Whole-file hash is verified after all chunks are received"* (`README.md:125`). The receiver of an empty file skips the verification and stays `InProgress` (`p2p_engine.rs:115`).
- The accept and the end of a task set the status without looking at it, so a cancelled transfer may complete, although Cancelled counts among the *"terminal states"* (`commands.rs:378`).
- The clean-up removes the entry of a peer whatever it holds by then, an open connection too (*"Removed closed/idle connection"*, `p2p_engine.rs:1308`).
- No code emits the events for transfers that the interface listens to (`p2p_engine.rs:884` has a TODO): it neither shows an incoming request nor the progress of a transfer. So
  the model of the interface is that of its list of peers.
- `connect_to_peer` and the task of an incoming connection enter a peer into the registry and emit no event; the interface learns of a peer that dialled only by its announcement.
- The eviction thread of a stopped engine never ends (`discovery.rs:335`), and reports peers as lost that the next engine knows. They are shown again with their next announcement (`HeardIsShown`).
- `receive_chunk` keeps what it acquired when the hash, the status or the write is bad (`manager.rs:213`): nothing ever reports those bytes, and with enough failures backpressure stays engaged. Hence
  `QueueCoversGranted` says "at least" and not "exactly".
- `receive_chunk_with_retry` refuses a chunk after `max_retries` failures; the test counts an initial attempt and the retries (`property_manager.rs:165-167`).
- A per-transfer rate limit of 0 means unlimited in `settings.rs:12`, and a bucket that never grants anything in `rate_control.rs:39`. The two are not connected yet.
- A key that was cut off while it was written makes every later start fail, until the user deletes a file: both files exist, so that none is generated (`cert_manager.rs:40`). `StartsUnlessTorn` says
  that nothing else does.
- Saves that overlap may leave the file torn, or with the other's settings than the memory (`commands.rs:433-437`): `SavedIsKept` is about a save that ran alone.
- An upload initiated for a file id in use truncates it (`manager.rs:170`): the promises about uploads are for one that is `Alone` on its file.

The parameter `_idle_timeout` of `idle_cleanup_loop` is not used, against its comment (`p2p_engine.rs:1279-1280`): what closes an idle connection is the
transport's own timeout. The model has that timeout as a loss.

## The proofs

Every theorem holds for any values of its module's constants under the module's named assumption (that of the refinement also under `OwnPathAssumption`), and
every proof is checked by TLAPS to the last leaf.

- `P2PTransferProofs` proves `TypeCorrect` (`Spec => []TypeOK`), by one lemma for each group of actions and group of variables, and
  `StreamInTurns`, `LedgersInStep`, `ConsentFirst`, `DamageUncounted`, `SomebodyMoves` and `OutcomesFinal` from `TurnInv`. None of
  these properties is inductive alone: that a chunk is acknowledged once depends on who may speak. `TurnInv`
  says for each session where the two tasks may stand relative to each other and what is then in flight: `StreamAt` lists the
  turns (the sender waits for an answer and the receiver holds the request, the chunk or the answer in one of its forms, or the
  connection or one task is gone), `SenderAt` and `ReceiverAt` say which chunks each ledger then holds
  (all below the index), `LedgerAt` how they differ, `ConsentAt` what the user's choice allows, `DamageAt` that a damaged chunk
  is the last thing that happens on a stream. `OutcomeInv` adds what makes an outcome final: a session is
  Completed or Failed only when its task has returned, or is about to by a reject. `WaitInv` adds what turns do not say: a request
  is on its way until it is taken, and whoever has taken it left a channel for the decision. Then a task that waits has its message in flight, a peer that can
  move, one that has stopped, or one that waits as well, in silence, which the connection's idle timeout ends: `SomebodyMoves` (`NobodyWaitsInVain`) is the part of the liveness of a transfer that
  needs no fairness. On the instance of `transfer_one`, `SenderCanMove` and `ReceiverCanMove` were compared with ENABLED of the two tasks' steps.
- `P2PTransferStorage` proves `NothingLost`, `SentIsWhole` and `ReceivedIsExact` from `StoreInv`: in a session that is alone on its path, every chunk from the
  write on is stored, the file has exactly the session's chunks after the allocation, and a file read back as good is good.
  `PathFrame` shows that another session's step leaves the path alone.
  `WinnerTakesAll` (`OneWriterWins`) is about sessions that share a path, where no chunk stays stored. A session verifies a chunk only after its own last write and allocation, hence the three parts of `WriterInv`: of
  two sessions that have both verified chunks, not each can hold one (`NoMixture`), a chunk that all writers have verified is one writer's (`VerifiedIsHeld`), and files of one length leave no tail (`NoTail`).
  Steps are sorted by their effect, on the disk (`DiskEffect`) and on what is verified (`VerifyEffect`).
- `P2PTransferRefinementProofs` proves `TransferDelivers`: the transfer implements `FileDelivery`. The mapping reads what is stored off the
  disk, so the argument is about bytes: `DeliveryInv` adds to `OutcomeInv` and `StoreInv` that a session's bytes are
  only at its own path (`OwnAt`), and there only the chunks the receiver has counted and the one it is writing. Then a write is
  `FileDelivery`'s store of the next chunk, the entry in either ledger its count, and the two ends' verdicts its reports; all else is a stutter.
  It needs `OwnPathAssumption`, no path for two sessions, since sessions that share a path overwrite each other.
- `PeerConnectionsProofs` proves, for any number of peers and dials, `TypeCorrect`, `StatusesBacked` (`ConnectedIsBacked`, inductive with the types and
  `IdleTogether`: a dial starts the tasks of both ends), `NothingLeaks` (`LiveIsListed`, from `HandleInv`: every peer's count of handles is what its tasks, its entry and its
  transfers need, and an end that is open has one; each action is shown to keep the balance), and `RedialsAreSafe`: `DialledStays` under `OneWay`, no losses, no bad messages and no two peers
  that dial each other. Its invariant `DialInv` says that as long as a dialler makes or lists a connection both ends hold it (`HeldIsOpen`), so that the
  clean-up never finds the entry (`NeverSwept`) and later dials only replace it by one as good. `doc_mutual_dial` shows that `OneWay` is needed.
- `EngineLifecycleProofs` proves `TypeCorrect`, `NeverTwoEngines` (`OneEngine`), `GuardKeepsEngine` (`UsedIsRunning`) and `RequestsAreServed` (`PendingIsServed`)
  from `IInv`: a write guard excludes every other (`Exclusive`), commands that hold one see no engine (`HiddenWhileWriting`), and the engine
  found under a read guard stays (`FoundStays`). The steps are of three kinds, and each has its lemma: those that leave without a guard (`LeaveHolds`),
  that go on reading (`ReadHolds`), and that write while they are alone (`WriteHolds`).
  `AlwaysAWay` (`NobodyStuck`) rests on `OrderInv`: the tasks that ask at a lock are exactly those in its queue, each once, and a send waits as long as it has a request. So the head of
  a queue can be served when nobody has a guard, and whoever has one waits for no lock. It says nothing of other instances: a send that waits for another's user counts as a way.
  `CommandsSwitch` is the refinement of `EngineSwitch`. `EngineSwitched` shows that a start turns an engine on that was off, and that a shutdown turns it off while
  nobody works with it, from `OneEngine`, `HiddenWhileWriting` and `FoundStays`; `WorkSwitched` that commands begin, end, ask and answer; `Unswitched` that all other steps stutter.
- `TransferManagerProofs` proves `Layout` from the uniqueness of quotient and remainder: the chunk of a byte is the quotient of its position, all chunks before the last
  are full and the last ends where the file does. The rest is about the system. All steps change the rate controller in one of two ways
  (`RateStep`), which gives `QueueBounded` (it needs that the low mark is not above the high one, which no constructor checks) and `SpentQueued`.
  `GrantedIsQueued` (`QueueCoversGranted`) is about a sum, that of the bytes all calls hold, which the module states as the size of a set: of the bytes of each call that holds any. A step moves the bytes of one call and leaves
  the others' (`Parts`, `BytesMove`); it takes no more out of the queue than that call gives up (`StepQueue`), in particular a report does not saturate, since what it reports is among what was granted.
  `ShapeInv` says which session a call may be on, and at what stages. On it stand `TriesBounded` (failures and attempts on their way together stay below the limit plus the
  callers: what makes `RetriesBounded` inductive) and three invariants about the disk, each of the promise and of what the calls that hold no lock
  know: `Written` (a chunk about to be counted is stored) for `CountedStored`, `ReadIsStored` (what a finalization has read back is stored) for `ReportedWhole`,
  `SentIsSound` (what is read for a trusting download is right) for `TrustedRight`.
- `PeerDiscoveryProofs` proves `TypeCorrect` and `ShownKnown` (`ShownIsKnown`), for any number of peers and engines and any bound on the events. `ShownIsKnown` is about the peers shown now; to keep it, something must be
  said of all that may put a peer into the list later. `ShownInv` does so for each peer that is not `tangled`: if it is shown, or an answer which no loss overtook will put it there (`Announced`), then an engine with a handle
  knows it or is about to report its loss (`Vouched`), or such a report is among the events (`LossAfter`); the same holds for each event that will put it there, with the events behind it; and the browsing thread
  reports only a discovery of a peer that its registry has (`Discovering`).
  Appending an event behind and handling the first keep the order of the rest, which is all the lemmas about the queue say.
- `DataDirectoryProofs` proves `TypeCorrect`, `ConfigValid` and `SaveKept` from `SettingsInv`: every setting anywhere is valid or torn (`OnlyValid`), a save that is alone is the only one
  that has touched the file (`AloneWrites`), and while a save is kept none is on its way (`KeptIsQuiet`). `KeyFollows` and `IdentityStable` follow from `IdentityInv`: at each stage of
  `persist` the files are as the order of the writes leaves them (`StageInv`), and a pair that an engine ran with is on disk whole (`OnDisk`), so that the next start finds it.

Only model-checked: liveness (`SendReturns`, `ReceiveReturns`, `AcceptedIsDelivered`, `CommandsReturn`, `StartsUnlessTorn`, and that of
`PeerConnections` and `PeerDiscovery`), which needs ENABLED and fairness. Every invariant, action property and refinement that a run checks has its theorem.

## Not modelled

- The protocol codec and the hash functions: conversions of bytes, covered by the property tests of their crates; messages are records and hashes compare what was hashed.
- `RetryPolicy`, a pure function that nothing calls; logging, plain types, the database migration, the screens.
- The interface's lists of requests and transfers: no event ever changes them.
- Machine failures: a crash ends a process and loses nothing that was written. Two processes that share a data directory.
- `update_display_name`, and what `P2PEngine::start` does while it binds its port and starts its tasks, other than the certificate.

## The plan

1. *(done)* `P2PTransfer`, its refinement of `FileDelivery`, their proofs.
2. *(done)* `PeerConnections`: tables, dials, replacement, clean-up, its safety proofs.
3. *(done)* `EngineLifecycle`: the fair lock, start and stop, commands that hold the read guard for a whole transfer, its refinement of `EngineSwitch`, their proofs.
4. *(done)* `PeerDiscovery`: registry, discovery, the interface's list, with its liveness, its safety proofs.
5. *(done)* `ChunkLayout`, `RateController` and `TransferManager`, composed, their safety proofs.
6. *(done)* `DataDirectory`: settings and identity over crashes, its safety proofs.
7. The task that waits for its user after a shutdown (`p2p_engine.rs:894`), which composes `P2PTransfer` with `EngineLifecycle`.

Runs stay few: a run is one question about the system, and the safety and liveness properties of a module share a run where its instance can be small enough.
