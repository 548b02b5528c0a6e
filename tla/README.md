# A verification development of Torrentor

Torrentor is a BitTorrent client for Haiku: a C++ application
(`src/source/torrentor`) with a list view of its own
(`src/source/InterfaceKitEx`) around a C library that does the work,
libtransmission 2.76 (`src/source/libtransmission`). This directory holds TLA+
models of the parts whose correctness depends on the order in which things
happen, the TLC configurations that check them, and proofs of invariants that
TLAPS checks.

The models are written from the code. A definition has the name of the function
it stands for wherever TLA+ allows it; `PROJECT.json` gives, for each
definition, the lines it translates.

- [Parts of the system](#parts-of-the-system): the inventory
- [The modules](#the-modules): what models what, and how
- [The runs](#the-runs): what TLC checks, with which bounds
- [Fairness](#fairness)
- [The proofs](#the-proofs)
- [What the code gets wrong](#what-the-code-gets-wrong)
- [Not modelled](#not-modelled)
- [What comes next](#what-comes-next)

To run: `tlc -config Lifecycle.cfg MCLifecycle`, `tlapm TorrentQueueProofs.tla`,
and so on; a configuration is checked with the MC module of the same prefix, or the module itself. The proofs
are in the modules `...Proofs` and in `SequenceLemmas`; `SwarmProofs` takes a quarter of
an hour from nothing, the others a few minutes.

## Parts of the system

libtransmission runs three kinds of threads. The *event thread* (`trevent.c`)
owns a libevent loop: sockets, timers, and a pipe on which other threads put
functions (`tr_runInEventThread`). The *verify thread* (`verify.c`) hashes the
files of one torrent after the other. The *web thread* (`web.c`) runs curl. The
application's window and replicant threads call the public functions of
`transmission.h` directly. A recursive lock of the session serialises most of
what they do, and the hard behaviours come from what it does not: values read
before the lock is taken, functions on the pipe that arrive late, callbacks
that find their object changed or gone.

Within the event thread a handler is atomic; there the hard part is the order
of the handlers: several peers, web transfers, trackers and timers act on the
same tables, any of them may fail, stall, answer twice or vanish.

| component | state | operations | talks to | what is hard, and what makes it right |
|---|---|---|---|---|
| block requests (`peer-mgr.c`, `webseed.c`) | the list of requests, the list of wanted pieces with their counts, a pending count for each peer, endgame, the webseed's transfers | get next requests, got block, reject, choke, timeout, connect, disconnect, start, stop, select files | peer wire protocol, completion, lifecycle | a request leaves the tables on six paths that all must book it once; nobody may be left waiting for a block that no one sends |
| piece list order and replication (`peer-mgr.c`) | the sort order of the wanted pieces, how many peers have each piece | rebuild, resort, bitfield, have, disconnect | block requests | counters kept by increments over reconnections; binary searches in an array that must stay sorted |
| connections and rechoke (`peer-mgr.c`) | the pool of known addresses, handshakes, open peers, choke and interest flags | reconnect pulse, rechoke pulse, bans, pruning | handshake, blocklist | two connections to one address, atoms that are freed under their users; limits that a pulse sets while peers come and go between two |
| peer wire protocol (`peer-msgs.c`) | choke and interest flags, queues of requests from and to us, extension state | one handler for each message, the pulse, the output buffer | block requests, cache | two parties whose messages cross; no request may be forgotten |
| handshake (`handshake.c`, `peer-io.c`, `crypto.c`) | a state for each connection | read handlers, timeout, retry in plain text | connections | both ends must agree on the encryption, or fail both |
| magnet metadata (`torrent-magnet.c`) | the metadata pieces still needed | request, got piece, bad checksum | peer wire protocol | retries, peers that lie, reset after a bad checksum |
| write cache (`cache.c`, `inout.c`) | a sorted array of blocks, a limit | write, read, flush a file, a torrent, what is done | disk, block requests, resume file | data that were acknowledged must be in the cache or on the disk, also when writes fail |
| open files (`fdlimit.c`) | a bounded set of descriptors | check out, close a file or a torrent | inout, verifier | a slot that is reused while an error leaves it open |
| lifecycle (`torrent.c`, `verify.c`, `trevent.c`) | flags of each torrent, the verify list, the pipe | start, stop, verify, remove, recheck done, close the session | everything | three threads; a wait loop under a lock; deferred functions on freed objects |
| completion (`completion.c`, `torrent.c`) | blocks, cached sizes, what is wanted, seeding limits | add block, remove piece, choose files, recheck | everything | sizes that are computed lazily; limits that stop a torrent |
| bitfields (`bitfield.c`) | the bits of a torrent's blocks and of a peer's pieces, an array that may be short or missing | add, remove, count, save, load, exchange | completion, resume file, peer wire protocol | bitfields that were made before anybody knew how many bits there are |
| blocklist (`blocklist.c`, `session.c`, `rpcimpl.c`) | text files, sorted files of ranges, what is mapped of them | load, update, enable, search | connections | lists that are updated under those that have mapped them |
| torrent queue (`torrent.c`, `rpcimpl.c`) | the queue position of each torrent | add, remove, move one, move a batch | lifecycle | positions must number the torrents (asserted in the code) |
| piece checks, resume file (`torrent.c`, `resume.c`) | when each piece was tested, the mtime of each file, what the resume file folds into one time | download, upload, verify, save, load | verifier | a file modified behind our back must be tested before it is uploaded, also after a restart |
| locations (`torrent.c`, `inout.c`, `utils.c`) | the folders of a torrent, which of its files are where, open and complete | find a file, complete a file, move, remove with the data | cache, open files | moves file by file, renames or copies, under open descriptors and with blocks still in the cache |
| announcer (`announcer.c`, `announcer-http.c`, `announcer-udp.c`) | for each tier a queue of events and times, slots for web tasks; for a UDP tracker its address, connection and requests | upkeep, response, start, stop, completed, reannounce, edit, remove | web client, lifecycle | late, lost and failed responses; retries behind newer events; removal with requests in flight |
| session (`session.c`), web client (`web.c`) | settings, limits, queue slots, alternative speeds; tasks, close mode | set, save, load, tick, close | everything | toggles that are posted; a shutdown of four threads |
| bandwidth (`bandwidth.c`, `peer-io.c`) | a tree of allowances | allocate, clamp, use | peers | a limit shared by many peers in several rounds |
| port forwarding (`port-forwarding.c`, `natpmp.c`, `upnp.c`) | a state machine for each protocol | pulse, start, stop, port changed | router | timeouts, renewal, unmapping on stop |
| peer discovery (`tr-lpd.c`, `tr-dht.c`, `tr-udp.c`) | announce times, flood counter; DHT status, saved nodes, bootstrap threads | upkeep, datagrams, toggle, bootstrap | network, session | threads that outlive what they were started for |
| values and encodings (`bencode.c`, `json.c`) | values, the file they are saved in | edit, merge, write, parse | settings, resume file, RPC | types that a text does not have, saves that fail half way |
| RPC (`rpc-server.c`, `rpcimpl.c`) | requests, tasks, torrents removed lately | one handler for each method | lifecycle, session, a remote client | each request is answered once; a client that polls misses nothing |
| Torrentor | a list of torrents, items, windows, message queues | user actions, messages, a refresh timer | library, InterfaceKitEx | loopers that hold pointers to what others delete |
| InterfaceKitEx (`ColumnListView.cpp`) | rows, columns, selection, focus, a sorting thread | add, remove, expand, select, sort, drag, save, load | Torrentor | a sort that others interrupt; state that refers to rows that are gone |
| metadata, statistics, platform | | | | sequential; see [Not modelled](#not-modelled) |

`PROJECT.json` lists every component with its files and what is left out of it,
and under `hazards` the places where the code is hard to test.

## The modules

A component has one module. Constants are parameters, with named assumptions where
a proof or a definition needs them; an operator named `..._Something` that is marked
*Mutant* in a comment is a plausible bug, which a property is tried on (`mutants` in
`PROJECT.json`): the property is violated when the definition is replaced by its
mutant.

Five components are large enough for a run of their own. The others are put
together in four *composites*, each of which is a specification of its own with one
run: `Swarm` (a client and its peers), `Services` (a session beside its torrents),
`Storage` (a torrent and its disk), `Interface` (what the user and remote clients
see). The parts of a composite interact through inputs that each takes in any
order; their product would multiply the states and add no behaviour. So a behaviour
is one of the part that a variable names (`part`, or `focus` in `Swarm`), the
variables of the other parts are `Absent`, and a property of the composite is the
conjunction of those of its parts, which are stated and explained in the part's module.

| module | models | checked by |
|---|---|---|
| `BlockRequests` | the request tables of `peer-mgr.c`, with `webseed.c` and the callers in `peer-msgs.c`, `torrent.c`, `verify.c` | `BlockRequests` |
| `BlockRequestsProofs` | theorems about it | `tlapm` |
| `BlockStore` | what a write cache promises (abstract) | through `BlockCache` |
| `BlockCache` | `cache.c` over `inout.c`, with its callers | `BlockCache` |
| `BlockCacheProofs` | theorems about it | `tlapm` |
| `Lifecycle` | `torrent.c`, `verify.c`, `trevent.c`, the queue slots of `session.c` and the queue pulse of `peer-mgr.c` | `MCLifecycle` |
| `LifecycleProofs` | theorems about it | `tlapm` |
| `TorrentQueue`, `TorrentQueueProofs` | the queue positions, and theorems about them | `TorrentQueue`, `tlapm` |
| `Announcer` | the tiers of `announcer.c` | `Announcer` |
| `AnnouncerProofs` | theorems about it | `tlapm` |
| `SequenceLemmas` | lemmas about numbers, sets and sequences that the proofs share | `tlapm` |
| `Swarm` | composite of the next seven | `Swarm` |
| `SwarmProofs` | theorems about six of them | `tlapm` |
| `PeerMsgs` | two clients and the messages between them (`peer-msgs.c`) | `Swarm` |
| `PeerExchange` | the extension handshake and peer exchange | `Swarm` |
| `Magnet` | `torrent-magnet.c`, with the `ut_metadata` messages | `Swarm` |
| `Connections` | atoms, handshakes and peers of `peer-mgr.c` | `Swarm` |
| `PieceList` | the order of the piece list and the replication counts | `Swarm` |
| `Rechoke` | `rechokeUploads`, `rechokeDownloads` | `Swarm` |
| `Handshake` | both ends of `handshake.c` | `Swarm` |
| `Services` | composite of the next seven | `Services` |
| `ServicesProofs` | theorems about them | `tlapm` |
| `Settings` | the settings of `session.c`, `TorrentPreferences.cpp`, `PreferencesWindow.cpp` | `Services` |
| `Turtle` | the alternative speed limits and their schedule | `Services` |
| `Bandwidth` | `bandwidth.c` with the buffers of `peer-io.c` | `Services` |
| `PortMapping` | `port-forwarding.c`, `natpmp.c`, `upnp.c` and a router | `Services` |
| `UdpTracker` | one tracker of `announcer-udp.c` | `Services` |
| `Discovery` | `tr-lpd.c`, `tr-dht.c`, `tr-udp.c` | `Services` |
| `Shutdown` | `tr_sessionClose`, `sessionCloseImpl`, `web.c` | `Services` |
| `Storage` | composite of the next seven | `Storage` |
| `PieceChecks` | `timeChecked`, mtimes and the progress entry of `resume.c` | `Storage` |
| `OpenFiles` | `fdlimit.c` | `Storage` |
| `CacheResume` | `BlockCache` composed with the blocks in the resume file, and crashes | `Storage` |
| `Location` | the folders of a torrent's files in `torrent.c`: `tr_torrentFindFile2`, `setLocation`, `tr_torrentFileCompleted`, `deleteLocalData` | `Storage` |
| `Progress` | `completion.c`, the selection of files and the seeding limits of `torrent.c` | `Storage` |
| `Bitfield` | `bitfield.c`, with what `peer-msgs.c`, `completion.c` and `resume.c` do with one | `Storage` |
| `Blocklist` | `blocklist.c`, with the lists of `session.c` and their update in `rpcimpl.c` | `Storage` |
| `Interface` | composite of the next five | `MCInterface` |
| `OutlineView` | the rows of `ColumnListView.cpp` and its sorting thread | `Interface` |
| `Columns` | its columns | `Interface` |
| `Application` | the loopers of Torrentor | `Interface` |
| `Rpc` | `rpc-server.c`, `rpcimpl.c` and a remote client | `Interface` |
| `Bencode` | the values of `bencode.c` and `json.c`, and the files they are saved in | `Interface` |

### BlockRequests

`requests` is `Torrent::requests` (as a set of blocks for each peer), `pieces` is
`Torrent::pieces` (wanted piece to `requestCount`, the empty function for NULL),
`pending` is `pendingReqsToPeer`, `tasks` the transfers of each webseed. A step is
a handler: `RequestBlocks` (`updateBlockRequests` with
`tr_peerMgrGetNextRequests`), `PeerSendsBlock`, `PeerRejects`, `PeerChokes`,
`RefillUpkeep`, `Connect`, `Disconnect`, the three callbacks of a webseed, `Start`,
`Stop`, `CompletenessCheck`, `SetFileDLs`, `SetFilePriorities`, and what a
verification does to the bitfield. `GetNextRequests` walks the piece list in any
order, because the weights of the pieces are abstracted (they are the subject of
`PieceList`); within a piece the blocks are taken in order, and a call stops in the
middle of one piece at most. The endgame is entered as in `updateEndgame`.

### BlockCache, BlockStore, CacheResume

The cache is a sorted sequence of blocks, of each of which the model keeps
whether its data are what the hashes ask for. A handler is one step; inside it
`tr_cacheWriteBlock` inserts, `cacheTrim` flushes runs in the order of their rank
until a quarter of the limit is free, `tr_cacheFlushFile` and
`tr_cacheFlushTorrent` flush ranges. One write of a step may fail, at any run and
any block, and may spoil the block it breaks off in. `BlockStore` says what this
amounts to: reads return what was written; data get lost only in torrents that
the same step marks with an error. `IsStore` is the refinement, with
`content` (what a read finds in the cache or else on the disk) as the mapping.
A `Start` takes the mark away and keeps the pieces that the torrent claims; the history
variable `forgiven` remembers such torrents, which are unmarked and may claim lost pieces.
Only a verification repairs that, and verifications are left out of this module.
`CacheResume` adds what the resume file says and a `Restart` that may come
between any two handlers. Its `exposed` remembers the torrents whose `.resume` was
written although a flush had failed.

### Lifecycle

`calls` is what the event thread has yet to do of the function it is in: a
function that calls `tr_verifyRemove`, which may wait for the verify thread, is
split there, and the rest has its name in brackets. While `calls` is not empty the
session is locked. The user's thread reads the activity of a torrent without the
lock in `UserStart` and goes on, when it gets the lock, in `StartLocked`. The
verify thread is a program counter with the steps between which others can get in:
take a torrent from the list, mark it, verify it, look at `stopCurrentNode`, post
the callback. A call on a torrent that has been freed is undefined behaviour; the
model drops it (`CallOnFreed`), and `RecheckedTorrentExists` shows that it happens.

### TorrentQueue

`tr_torrentSetQueuePosition` is translated as the walk over all torrents that it
is: the others shift, and the torrent goes to the wanted position or behind the
last of the others. The batch moves are sequences of such moves, between which a
torrent may be added by another thread.

### Announcer

A tier has its queue of events, a time for the next announce and scrape, the two
in-flight flags, its current tracker, and the key by which a late response finds
it. `announceMore` is the upkeep, `AnnounceFails`/`AnnounceSucceeds`/`ScrapeDone`
the responses, in any order; the rest is what the torrent and the user do. Some
tiers are reliable: their trackers answer each request, with success.

### The parts of Swarm

`PeerMsgs` has both ends of a connection. `msgs` is `tr_peermsgs` with the flags of
`tr_peer`; `outMessages` is the buffer that the pulse flushes into `wire`, past
which blocks are written, so that a block overtakes the messages that wait there.
`ReadMessage` is `readBtMessage`, `Pulse` is `peerPulse` with `fillOutputBuffer`.
`PeerExchange` sends the differences that `tr_set_compare` finds, cut to the size
of a message; its messages carry the id that the other end's handshake named, or 0,
and the switch of peer exchange moves at any time. `Magnet` has the nodes of the needed pieces in the order of the code,
with peers that are honest, have nothing, or lie. `Connections` counts the open
sockets of each address, so that one that leaks shows. `PieceList` keeps the list
sorted by the moves that the code makes, never by sorting it, and recomputes the
replication counts only to compare. `Rechoke` leaves the ranking open, and which of
the chokes changed too recently to change again; a peer carries whether the last pulse
ranked it, which is what the slots bound. Its second half is `rechokeDownloads`, with the
peers' fields that it has to do with: how many peers to be interested in follows from the
cancels of the last minutes, which are left open, and from what the last pulse counted.
`Handshake` has the state of each end
with one action for each handler that `canRead` calls in it, messages that carry the
encryption they were written under, the random padding among them, the reconnections by
TCP and in plain text, and every pair of encryption modes, with a peer that speaks no
encryption among them.

### The parts of Services

`Settings`: each posted call is in `queue`; `missed` names the races of the code that
lose a change, and the properties say that there are no others. `Turtle`: a week of
minutes as the bitfield of the code. `Bandwidth`: the bands of the session, a
torrent and its peers; `tr_bandwidthAllocate` grants, then `Flush` in three lists of
priorities in turns, then `EnableOnDemand`. `PortMapping`: `natPulse` runs both
state machines; the router carries a command out, refuses it, loses it, loses the
answer, or sends it twice or too late, so that it is taken for the next one (`Late`);
and it forgets mappings, and need not delete the ones that it is told to. `UdpTracker`: ages instead of times, and `tau_tracker_upkeep` as the
function it is. `Discovery`: a unit of time is an upkeep; each call of `tr_dhtInit`
starts a thread that asks the event thread for the status before every ping.
`Shutdown`: the caller of `tr_sessionClose`, the event thread and the web thread,
with two deadlines.

### The parts of Storage

`CacheResume` has two instances, a torrent whose runs have several blocks and two torrents
that share the cache, so that a flush which fails for one is followed by the save of both;
`PieceChecks` has two as well. `PieceChecks`: time is in seconds. `saveProgress` and `loadProgress` fold the times
of the pieces of a file as the code does, its sampling loop that leaves out the last
piece included. Other programs modify files that are complete (`Modify`), in a
second in which no piece of the file is tested, as an mtime cannot tell more than
that. Two history variables hold when each piece was really hashed and each file
really modified. `OpenFiles`: each slot of the cache has the file it is for and the
file its descriptor is really of. `Progress`: a layout is the lengths of the files;
three instances share the module, one for downloads over files that share blocks,
one for the selection of files with their priorities, one for the seeding limits.
`Location`: a path is a folder, a file and its suffix, and each path that there is
holds the blocks that were written to it; a descriptor goes on with its file when that
is renamed, and with an unlinked one when it is copied to another file system. A move
may fail at any file. `missed` names the five ways in which the code loses track of
files, at which a behaviour ends; `DataAreFound`, `CompleteHasItsName` and
`NothingIsLeftBehind` say that there are no others, through downloads, changes of the
folders, moves, restarts and removals in any order. `Bitfield` is one bitfield, with the
array that it has, or has not: the blocks of a torrent, which are added, removed with their
piece, saved and loaded, or the pieces of a peer, which it tells of before or after the
metadata are there. Both count and look up bits by the bytes, as the code does, and a history
variable holds the bits that were given. `Blocklist` reads the folder of the lists entry by
entry, as the entries that it makes may or may not be read in their turn; `content` holds the
lines that each `.bin` file was made of.

### The parts of Interface

`OutlineView`: the window's lock makes a method a step, and the sorting thread gives it
up after each list; `missed` names the calls that lose track of the height, the
selection, the focus or the mouse, and the properties say that there are no others.
The field of a row that is not in the list is of no interest, and set when the row is added.
`Columns`: the title's drags and resizes, and `SaveState`/`LoadState` over messages that fit
or do not; what is saved is loaded into every other list of the same columns
(`StateRoundTrips`, over `LaterLists`). `Application`: one queue for the application's looper and one for
the main window's, the library's event thread, and the windows that add a torrent or
tell of one. `Rpc`: a request goes through the checks of `handle_request` and is
answered at once or by its task; the client polls for what was active lately. `Bencode`:
a dictionary is its list of keys and values as in the code, the writers are the walk with
its stack, the parsers consume a token at a time, and a save writes a temporary file that
replaces the old one in one step, or fails before.

## The runs

| run | instance | shows |
|---|---|---|
| `block_requests` | 2 peers (one with the fast extension), 1 webseed with 1 transfer; 3 blocks in 2 pieces | the tables agree: `PendingExact`, and `RequestsAreExact` (the count of a piece bounds its requests, none is for a block we have, none that a webseed will not answer, none asked of three); no request of a peer that is gone (`NoRequestOfDeadPeer`); no wanted piece drops out of the list (`WantedPiecesStayListed`) |
| `block_requests_download` | the two peers, one reliable, under fairness | `DownloadCompletes` |
| `block_requests_reselect` | 1 peer, 2 pieces | *violated*: `SeedHasDesiredPieces` |
| `block_cache` | a torrent of 1 block, one of 3 blocks with 2 files that share a piece, which is also started again; limits 1 and 2; writes fail | the refinement `IsStore`, `LimitIsKept`, and `FinishedDataIsSafe` (unless writes of the torrent have failed, the pieces that it claims are good and its finished files on the disk; freed torrents leave nothing) |
| `lifecycle` | 2 torrents (1 is added later), 1 slot, 3 commands of the user or the RPC server | `ThreadsAgree` (what is shown of the verification is true, the verifier holds no freed torrent, its list is served, a stop is on its way); `ThreadsGetOn` (the event thread comes back from its waits, a verification ends); `QueueIsServed` |
| `lifecycle_recheck` | 2 torrents, 3 commands of the user | *violated*: `RecheckedTorrentExists` |
| `torrent_queue` | 4 torrents, positions -1 to 4, every batch | `queueIsSequenced`, `MovesAreExact`, `AtMostOneMoves` |
| `announcer` | 1 tier of 2 trackers, reliable or not; 1 slot, 1 scrape, 4 commands | `TiersAreSound` (tidy queues, slots that come back), `EventsAreTold` ("completed" and "stopped" are not lost), `KeepsAnnouncing` |
| `swarm` | see below | `EndsAgree`, `NoRequestIsForgotten` (`PeerMsgs`), `ToldIsHeard` (`PeerExchange`), `MetadataAreAskedFor` (`Magnet`), `ConnectionsAreOwned`, `BlockedAreLeftAlone` (`Connections`), `PieceListIsExact` (`PieceList`), `SlotsAreKept` (`Rechoke`), `HandshakesAgree` (`Handshake`) |
| `services` | see below | `SettingsAreHonoured` (`Settings`), `LimitsAreKept` (`Turtle`, `Bandwidth`), `PeersFindTheirWay` (`PortMapping`, `Discovery`), `NothingIsLostAtTheEnd` (`Shutdown`, `UdpTracker`), `EverythingEnds` (liveness of `Shutdown`, `UdpTracker` and the bootstrap threads) |
| `storage` | see below | `ChecksAreDone` (`PieceChecks`), `DiskIsTrue` (`CacheResume`, `OpenFiles`, `Location`, `Blocklist`), `ProgressIsTrue` (`Progress`, `Bitfield`) |
| `interface` | see below | `OutlineIsTrue`, `SortIsComplete` (`OutlineView`), `ColumnsAreKept` (`Columns`), `WhatIsShownIsTrue` (`Application`, `Rpc`, `Bencode`) |

Every passing run also checks the type invariants of its modules (except
`block_requests_download`, whose states `block_requests` types).

**Why the bounds are enough.** `block_requests`: three sources are what it takes
to break the limit of two requests for one block; a piece of two blocks and one of
a single block (the last one) show partly requested pieces and piece boundaries;
wishes of 1 and 3 blocks show a peer that takes part of a piece and one that takes
all. No counter is bounded: the state space is finite by itself. `block_cache`:
limits below the number of blocks force a flush at almost every write; the file
boundary inside a piece and the neighbour torrent whose block numbers continue
those of the first are the cases in which runs may be cut wrongly; only the long torrent
is started again (`Startable`), which keeps the run short. `lifecycle`:
`MaxCommands` = 3 lets a start, a verification and a removal overlap on one
torrent, or two of them on it and one on its competitor for the only slot.
`torrent_queue`: four torrents let a batch of two be separated, adjacent and at
either end; the theorems below hold for any number. `announcer`: `MaxCommands` = 4
lets "started", "completed", "stopped" and "started" follow each other while
requests are lost; `MaxScrapes` = 1 bounds the drift of the slots that is described
[below](#what-the-code-gets-wrong).

`swarm`: two pieces and `REQQ` = 2 let a queue of requests be full, and
`MaxInFlight` = 2 messages of each kind of action cross; in peer exchange one end knows
two addresses and the other one, and a message holds one, so that it overflows and both ends
tell something, while either switch moves; the metadata have two
pieces, a true size, a false one and none, an honest peer and a liar; two addresses with room
for one atom and one peer make pruning and bans happen; three peers compete for one
slot and the chance of one more, and then for an interest in two of them, of whom one is the least
that we are interested in; a handshake may be tried twice, and `MaxConnections`
= 2 is where the code stops too.

`services`: two flags, one of them posted, and a queue of three calls let a toggle
overtake another; the week has two days of three minutes, so that schedules wrap around both;
two peers of different priority share a limit of one unit, with two units in each
buffer; the router has UPnP and answers in time, or has not and answers twice or late,
and it knows one public port and the session two private ones; three
requests, one silent, are in each state of the UDP tracker at once; three torrents
end, two of which announce by HTTP. In `Discovery` four torrents, one of them
private, share an interval of three upkeeps; the bootstrap has two nodes of IPv4, one
of IPv6 and two names of up to three addresses each, over one start and stop of the
DHT; a search begins after two upkeeps at most and is repeated after three, or one, while the DHT is switched
three times.

`storage`: `MaxTime` = 2 is a test in the first second and a modification in the
second one, with time before 1 meaning never; a file of three pieces has two that are
sampled, so that its times are saved as one or as a list, and two files that begin in the same
piece show which of them sets its time; a cached torrent has three blocks in two pieces, and
where two torrents share the cache, one piece and two, of a block each; three files of two torrents compete for two slots
of descriptors; two files of two blocks have folders on one file system, and one on
another, so that a move may be a rename or a copy and break off between the files or
in the middle of one; the layouts have empty files, files that share a block or a piece,
and a last block that is short; a bitfield has seven bits in bytes of two, so that the last byte has
one to spare and the two pieces, of five blocks and of two, begin and end within bytes; it is not told
of more than nine haves (`MaxHaves`). The blocklists are two text files over five addresses, whose
ranges touch, contain each other or are the wrong way round, and updates that go to one of their
lists or to a third.

`interface`: two rows, one of which may hold the other, for a user with mouse and
keys; for the sorting thread three rows in every shape (up to three in the root list, which
`AddSorted` searches, and up to three levels), and five of which the root list holds two,
with a list of one below one and of two below the other, so that lists below the root are out
of order, are sorted one after the other, and change in between; two columns with two
widths, and messages in either order, with a column left out or named twice and a width out
of range; two torrents that may be magnet links, one of an earlier run; for RPC one
torrent and two connections over a restart of the server, and then two torrents with
two files for the arguments of each method, one of which has no `.torrent` file that can be
read; values with two keys, reals that are nearly whole and that have more digits than are
written, and two updates that nest a dictionary and a list.

The deadlock check is off where a system may stop: in `block_cache` nothing is
defined once a freed torrent's block is used (`Dangling`), in `lifecycle` a session
that is closed stops, in `announcer` the commands run out and a removed torrent has
nothing to announce; in the composites connections end, sessions close, and bounds
that are named in the guards are reached.

## Fairness

`DownloadSpec` of `BlockRequests`: each connection's pulse, the completeness check
and the refill upkeep are timers of the event loop (`peer-msgs.c`, `peer-mgr.c`),
hence weakly fair; the upkeep is fair for each request that may be too old. That
the *reliable* peer connects and sends each block it is asked for again and again
is an assumption about that peer (strong fairness, since requests for a block come
and go), without which no download completes. The other peer may keep silent,
choke, reject or vanish for ever. `TimedSpec`, of the violated run, has the timers
only.

`Lifecycle`: the event thread, the verify thread and a user's call that has begun
are scheduled (weak fairness). Commands are not fair.

`Announcer`: the upkeep timer runs, time passes, and every request is answered or
times out, which `web.c` guarantees with its timeouts (weak fairness for each tier
and key). Whether the answer is an error is open unless the tier is reliable.

`Services`: the upkeep of the UDP trackers is a timer, and time passes; no tracker
need ever answer. The caller of `tr_sessionClose`, the event thread, the web thread
and each bootstrap thread are scheduled, and the clock reaches the deadline (weak
fairness).

The other composites have safety properties only.

## The proofs

TLAPS proves, for every value of the constants that the named assumptions allow, the
theorems below. The assumptions say what the code takes for granted, and TLC evaluates
them on each run: sets of peers and of pieces are finite, pieces and sizes are natural
numbers, a connection has two ends, a queue has room for at least one request.

The library's induction theorems are out of the provers' reach, so `SequenceLemmas` gets
what the proofs need from cardinalities: every set of natural numbers that is not empty has
a least one (`LeastNumber`), and if it is bounded a greatest one (`GreatestNumber`); the
ranks of the elements of a finite set of numbers are 0, 1, ... (`Ranks`), which is why a
sequence that lists a set in its order leaves none out; and what taking an element out of a
sequence leaves (`WithoutElement`).

**`BlockRequestsProofs`**, from `CountsAssumption` and `PeersAssumption`: any finite sets of
peers and webseeds, any number of blocks.

- `TypeCorrect` (`TypeOK`), `PendingReqsExact` (`PendingExact`), `RequestsOfLivePeers`
  (`NoRequestOfDeadPeer`). The inductive invariant is `IInv`, the three together:
  `PendingExact` is not inductive alone, since a stop drops the requests of the connected
  peers and only `NoRequestOfDeadPeer` says that no others have any. `DropCount` and
  `AddCount` relate the hand-kept count to the set of requests; `NextRequestsTables` says
  that the requests added for a peer are new ones, `DropRequests` that removing requests
  lowers the count by those that were in the list.
- `ListIsExact` (`RequestsAreExact`), from `IInv`. The count of a piece goes down by one for
  each request dropped and never below zero (`CountGoesDown`, `DropIsBounded`), so it stays
  a bound when a webseed's block had no request. Where a webseed is asked, its requests are
  cut into runs of consecutive blocks, and every block lies in one of them: the run from the
  greatest gap below it to the least one above it (`RunsCover`).
- `NothingWantedIsForgotten` (the action property `WantedPiecesStayListed`): step by step, a
  handler keeps the pieces that are listed (`SameList`), or makes the list anew (`NewList`), or
  drops a piece whose last block is there (`GotBlockKeepsList`); `StepKeepsList` puts them
  together.

**`TorrentQueueProofs`**: `QueueIsSequenced` (the assertion `queueIsSequenced` of
`torrent.c`), `TypeCorrect` (`TypeOK`), `OneMoves` (`AtMostOneMoves`), for any number of
torrents and any requested positions. The invariant carries `Numbering` (all positions in
range, none twice) in place of the set equation; `NumberingIsSequence` shows by the
pigeonhole principle that they are the same. `ShiftKeepsOrder` and `BackIsLast` are about the
walk, `MoveKeepsNumbering` puts them together.

`BatchesMoveExactly` (`MovesAreExact`) needs to know where a batch stands between its single
moves, which the property does not say. `MoveInv` does: those moved so far (`Moved`) are where
`ShouldPrecede` has them for a batch of them alone (`Precedes`), those left are in the order in
which the code takes them (`IsFirst`), and what was added since the batch began is behind all
torrents that it has not moved. One more move then places one torrent (`PlaceIs`): to the front
before those that went there (`FrontIsFirst`), to the back behind all (`BackIsBehind`), or past
one neighbour. That neighbour has not been moved yet (`StepAhead`, `StepBack`, by the torrent
outside of the batch that is nearest, which `LeastNumber` and `GreatestNumber` find); in the
excepted cases there is none outside, and the second torrent takes the place of the first. TLC
checked `MoveInv` with the instance of `torrent_queue` (12,805 states) before it was proved.

**`LifecycleProofs`**: `ThreadsAlwaysAgree` (`ThreadsAgree`), from `LifecycleAssumption`: any
finite set of torrents, any queue and slots, any commands. `closeTorrent` does not look
whether the verify thread has the torrent that it frees; the calls that came before have seen to it.
So the inductive invariant `LInv` is about the stack of the event thread's calls:

- `Stack`: what is to find a torrent let go by the verify thread (`Behind`: the rest of
  `stopTorrent`, `removeTorrent` and `verifyTorrent`) finds it so, or a `tr_verifyRemove` of that
  torrent is before it on the stack. It is `verifyTorrent` that gives a torrent to the verify
  thread, so it must not come between the two: it is only called from the pipe and the RPC
  server, and is always at the bottom of the stack (`Outermost`). That is what the proof rests on;
  nothing else in the code would stop `verifyTorrent` from being called in between.
- `CallsInv`: while `tr_verifyRemove` waits, the torrent is not in the list, and either the
  verify thread has turned to something else or `stopCurrent` is still set, so that the flag's
  reset means what the caller takes it for. `tr_verifyClose`, which empties the list and leaves
  the torrents' flags behind, only comes with `closing`.
- `VerifyInv`: the torrent that is verified is not in the list as well, and a verify thread with
  something to do has a torrent.

`Returns` says once what a call that returns, having called more, must show; `OtherKeeps` says what a
step of another thread must leave as it is. Each action is then a lemma of its own. TLC checked `LInv`
on the instance of `lifecycle` (78,642 states) before it was proved.

**`AnnouncerProofs`**: `EventsAreAlwaysTold` (`EventsAreTold`), from `AnnouncerAssumption`: any
finite set of tiers, any number of trackers, slots and commands. The property speaks of a torrent
that exists, and of what is still in a queue or on its way, not of its arrival, which takes the
fairness of `KeepsAnnouncing`; the inductive invariant `AInv` says which of the requests on their
way a tier will listen to, and what comes last:
- `KeysAreOld`: a request has the key of its tier or an older one. An edit gives each tier a new
  key, so the answers of the requests before it are not taken for those after it.
- `FirstTracker`: a reliable tier never turns to another tracker, so that the one that was told
  of the torrent is the one that is told of its stop.
- `TierInv`: "completed" is in the queue or in a request whose answer is taken; a reliable tier has
  at most one such request. When the torrent is stopped and nothing completes late, "stopped" is
  the last event of the queue, or else the one on its way (`StopIsLast`): "in the queue somewhere"
  is not inductive, since a later "started" would go to the tracker behind it.

`PushIs` is about `tier_announce_event_push`, `BagGrows` and `BagShrinks`
about the requests, `TierKept` about the tiers that a step leaves alone; each action is a lemma.
TLC checked `AInv` on the instance of `announcer` (145,305 states), and on one of two tiers, before
it was proved.

`TiersStaySound` (`TiersAreSound`) rests on `AInv` and on two more conjuncts (`SoundInv`). A queue
is `Tidy`: `TidyPush` is what `tier_announce_event_push` makes of it, which only cuts off its end
(`WithoutEnds`) or keeps but the "completed" of it, and `TidyParts` what pulling an event leaves. The
slots are `Counted`: `InFlight` has each copy of each request by itself, since two announces of one
tier may be the same request; `CopiesGrow` and `CopiesShrink` say that a request sent adds one copy
and an answer takes one away.

**`SwarmProofs`**: a behaviour of `Swarm` is one of the part in `focus`, so each theorem has an
invariant of one part and a lemma that a step of that part keeps it.

- `SlotsStayKept` (`SlotsAreKept`), from `PeersAssumption`, `SlotsAssumption` and
  `InterestAssumption`. A pulse of
  `Rechoke` ranks the peers and unchokes as it walks; the proof counts those served (`Served`),
  which a pulse chooses anew, and those that leave between the pulses. For the interest it is
  those we are interested in (`Courted`): a pulse counts the ones it chooses (`PulseCountsInterest`),
  within the limits (`HowManyFits`), and nothing between two pulses adds to them
  (`LessInterestIsCounted`).
- `ConnectionsStayOwned` (`ConnectionsAreOwned`) and `BlockedStayAlone`
  (`BlockedAreLeftAlone`), for any addresses, limits and blocklists. `ConnsInv` says of each
  address that its open sockets are its handshakes and its peer, that each of them has an
  atom, and that what an atom remembers of the blocklist is true unless the list was replaced
  behind it (`Remembered`): without the last one the action property does not follow, as the
  code asks the atom and not the list.
- `AllToldIsHeard` (`ToldIsHeard`), from `EndsAssumption`. `ExchangeInv` follows each difference
  through the channel (`Flow`): what was sent is what was heard, what is on its way and what
  was not taken, also for messages that are cut to their size, and a peer that dropped out and
  came back is told of again, later. That nothing is missed unless the reader's own switch was
  moved needs what each end knows of the other (`Knows`): the id comes with the first message
  and with that one only, and a list that goes out under the id 0 answers a list that was sent
  against the handshake (`Fits`).
- `NeverStuck` (`MetadataAreAskedFor`), from `MetadataAssumption`. `MagnetInv` says that each
  metadata piece is needed, once, or there, that the ones asked for lately are behind the
  others, and that reset metadata need everything. `RequestIsSound`, `WaitIsSound` and
  `PieceIsSound` are about the node that moves to the end of the list or leaves it.
- `HandshakeAgreement` (`HandshakesAgree`), for every pair of encryption modes, from
  `TriesAssumption`. `AgreeInv` holds whatever goes wrong: what each side knows follows from
  what it has read (`AKnows`, `BKnows`), and each message in flight is one that its sender may
  have sent in the encryption it is in. `Goes` is about handshakes in which nothing goes wrong, and
  says how far they have come: in plain text it lists the phases (`Plain`); encrypted, each side
  sends a fixed stream, of which the other has read a part that its state tells, and the rest of
  what was sent is on its way (`Between`). Every handler reads the next message of the stream
  (`AReadsOn`, `BReadsOn`), and two sides that read nothing have read all (`StuckIsDone`).
- `EndsStayAgreed` (`EndsAgree`) and `NoRequestForgotten` (`NoRequestIsForgotten`), for any two ends
  and any torrent, from `WireAssumption` and `PiecesAssumption`. `WireInv` says of both directions
  of the connection, with all that is on its way (`OneWay`):
  - `FlagsAgree`: what an end has set is what the other believes once it has read the messages
    in flight. A flag *turns on* with them if the last message about it says so, and *stays on*
    if none says the opposite. `EndsAgree` only speaks of an empty wire, and is no invariant
    without this.
  - `StartsFirst`, `HavesAreTold`: the bitfield (or "have all") comes before any "have", when
    the other knows of nothing, so it cannot undo one.
  - `RequestsLive`: a piece that is waited for is in a request on its way, in the other's queue,
    or in a block or reject on its way back.
  - `CancelsAreOver`: when a cancel is in flight for a piece that is waited for, the piece is
    asked for again behind it. This is what makes `RequestsLive` inductive: a cancel takes the
    piece out of the queue with no reject, and a cancel of an *earlier* request may arrive when
    the piece has been asked for again.
  - `OwnIsKept`: nobody waits for a piece that it has, a choked peer's queue is empty, and the
    queue is below its limit.

  The pulse writes blocks past the messages that wait (`Adds`: more messages, anywhere, in the
  old order), so that a lemma for each predicate says what appending, reading the first and
  inserting do to it (`AppendIs`, `TailIs`, `InsertIs`, `AddsNoFlag`, `AddsRest`). Then there
  is a lemma for each handler. TLC checked `WireInv` on the instance of the run (69,207 states)
  before it was proved.

**`ServicesProofs`**: as for `Swarm`, each part has an invariant of its own.

- `NothingIsEverLostAtTheEnd` (`NothingIsLostAtTheEnd`), from `TorrentsAssumption` and
  `TrackersAssumption`: any finite set of torrents, any times. `EndInv` says where each last
  announce is (`OnePlace`: in one place, and there once: a list of stops, the tasks of the web
  thread, curl, the pipe, or it is answered or dropped), which messages a pipe may hold and in
  which order (`CallsInOrder`), and how far the other threads are when one takes a step
  (`StepsInOrder`): the property speaks of the threads at the end, and only their whole
  order makes it inductive. `CallerKeeps`, `EventKeeps` and `WebKeeps` are the three threads.
  TLC checked `EndInv` on the instance of the run (4,800 states) before it was proved. `UdpInv`
  says that a request has been told of once if it is done and somebody waits for it, and not
  before; a pulse of the tracker is a composition of stages, with a lemma for each.
- `SettingsAreAlwaysHonoured` (`SettingsAreHonoured`), from `SettingsAssumption`: `SetInv`
  counts for each flag the calls in the queue of the event thread (`Occurs`) and says what the
  flag will be `After` them.
- `LimitsAreAlwaysKept` (`LimitsAreKept`), from `ScheduleAssumption` and `BandwidthAssumption`: a
  week of any number of days and minutes, where `TableIsSchedule` is the arithmetic of the table
  of minutes that wraps around the week (`turtleUpdateTable` against the schedule as the user
  means it), and `TurtleInv` says whose word was last, the schedule's or the user's. `BandInv`
  says of the session and of the torrent that what was used and what is left is no more than
  was granted; `ClampBounds` is `bandwidthClamp` up the chain of bands.
- `PeersAlwaysFindTheirWay` (`PeersFindTheirWay`), from `PortsAssumption` and `PeersAssumption`,
  which say that times and bounds are numbers and the torrents a sequence. Four invariants:
  - `MapInv`, of the two state machines that forward the port: for each what it may have
    mapped, by where it is (`Where`, `Held`), and how that agrees with what the router lets in
    (`Lets`, and `Known` unless it may be `left`: an answer failed or was not the one awaited, a
    deletion failed, a stop was hasty). A pulse is a composition of stages (`DiscoveredOk` to `NatPulseOk`, `UpPulseOk`).
  - `LpdInv`, of the announcements in the local network: the longer a torrent has been due, the
    more of the others were announced in the meantime, and they are `Ahead`: an announced
    torrent is not due again before an interval is over. `NoneWaitsLong` does not say by whom
    a torrent is held up, and is not inductive.
  - `BootInv`, of the threads of the bootstrap: a thread that has pinged since the DHT was
    closed is at a point from which it gets to no other ping (`Spent`) as nobody answers but
    `tr_dhtStatus` itself. `ToldIs` goes through what it does when it is told of a status.
  - `FindInv`, of a torrent that is searched for: what it has waited and what it has still to
    wait is no more than the interval that its last try called for.

**`BlockCacheProofs`**, from `CacheAssumption`: any number of torrents of any size, with any
files, limits and faults of the disk.

- `CacheIsStore` (the refinement `IsStore`: `BlockCache` implements `BlockStore` with `content`
  as the mapping), for disks that report a write that is cut short (`~MayWriteShort`; the code
  takes one for a success, see the next chapter). `LimitStaysKept` (`LimitIsKept`) and
  `CacheStaysSorted` (`TypeOK`) need no such condition.
- `DataStaysSafe` (`FinishedDataIsSafe`, which excuses the torrents whose writes have failed,
  marked or started again since: `Failed`), if also the webseeds deliver good data
  (`WebseedData \subseteq {TRUE}`): a webseed may overwrite a block that we have, and nothing
  hashes it again. The property is inductive as it stands, but only as a whole: that a claimed
  piece is good rests on the sorted array, where each block is at most once; that a file is on
  the disk when its last block has come in rests on the pieces that the torrent claims before
  that.

The argument is about what a flush leaves of what it began with (`Flushed`): nothing is new in
the array, which stays sorted, and in a torrent that is not marked each block reads as before,
and is on the disk as before or as it was read. This holds of one run (`FlushIs`), of the walk
along a file or a torrent (`FlushFromIs`), after which no block of it is left (`FlushFileIs`,
`FlushTorrentIs`), and of the ranked runs (`FlushRunsIs`). For the last one the proof has to find
the runs again: their positions were computed before parts of the array were erased, in an order
that is not theirs. `Without` is the array without what was flushed, `MovedRun` says that a run
of it is where the code looks for it, since as many blocks are gone `Before` it as the code has
counted, and `RunsApart` that no two runs have a block in common. The walks are recursive
functions over the number of runs, which are unfolded one step at a time (`FlushFromSteps`,
`FlushRunsSteps`); the induction is over natural numbers, by the least one at which the claim
would fail (`Counting`). `PeerBlockIs`, `WebseedBlockIs`, `SaveTimerIs`, `SetLimitIs` and
`StopIs` then say what each handler does, and `ClaimsAreKept`, `FlushIsSafe`, `ArrivalIsSafe` and
`StartIsSafe` that what was claimed stays true and what is newly claimed is.

**Model-checked only.** All liveness (the prover has no rules for fairness). What recursive
operators and folds compute for every input, which is induction over data: `Bencode` and
`Rpc` in `Interface`. `PieceListIsExact`
is about a list that folds walk and that is sorted when it is made.
`Interface` reaches the recursive operators of `Bencode`, so nothing in it can be a theorem.
The invariants of `Storage` (`DiskIsTrue`, `ProgressIsTrue`) could be proved and are not.

## What the code gets wrong

Two runs show the code at odds with what its own comments and assertions say
(`findings` in `PROJECT.json`):

- **A new file for a seed is never fetched** (`block_requests_reselect`).
  `torrent.c:2272` does not recheck the completeness after the selection changed,
  and `pieceListRebuild` trusts the stale one (`peer-mgr.c:1081`).
- **A callback on a freed torrent** (`lifecycle_recheck`). The end of a
  verification is reported through the pipe, which may hold the removal already.

Some properties are stated in their modules and kept by no run, since TLC refutes
them; each can be checked by naming it in a configuration:

- `Lifecycle!NotStartedWhileVerified`: `torrentStart` looks for a verification before
  it posts the start, and one that is still on the pipe is not seen
  (`torrent.c:1654`, `1687`).
- `Connections!BlocklistIsObeyed`: an address keeps its cached answer when the
  blocklist is enabled, disabled or loaded anew without `tr_peerMgrOnBlocklistChanged`
  (`session.c:2289`, `2310`, against `peer-mgr.c:627`).
- `PortMapping!TimerIsHeld`: forwarding that is switched on while it is on starts a
  second timer, which fires after the first one is freed (`port-forwarding.c:120`).
- `Shutdown!StopsAreSent`: the web thread ends when its own list is empty, also if
  curl still has the last announces (`web.c`, against the comment in
  `sessionCloseImpl`).

While modelling we met more places of this kind, which the passing runs leave out
by conditions; where a condition or a constant is named, dropping or changing it
shows the behaviour.

Torrents and their data:

- A verification that finds a wanted piece missing does not bring it back into a
  piece list that is not empty (`peer-mgr.c:1346`, against `peer-mgr.c:729`);
  `WantedPiecesStayListed` leaves verifications out.
- A short `pwrite` is success (`inout.c:133`, against `inout.h:42`); with
  `MayWriteShort = TRUE`, `IsStore` is violated.
- `tr_cacheFlushTorrent` stops at the first error, so that a closed torrent leaves
  blocks in the cache that point to it (`cache.c:463`, against the assertion at
  `cache.c:286`); `FlushedWhenFreed` excepts torrents with an error.
- `torrentStartImpl` clears the error of a torrent whose write has failed
  (`torrent.c:1593`) and keeps its bitfield: the torrent runs again, unmarked, and claims
  pieces that are lost (`forgiven` in `BlockCache`).
- `onSaveTimer` saves the resume files also if the flush before them failed
  (`session.c:542`). A torrent without an error whose blocks that flush has left in the
  cache then claims pieces that a kill of the program loses (`exposed` in `CacheResume`).
- `setLocation` (`torrent.c:2978`) closes the files and flushes the cache after the
  move, not before: a block that is still in the cache is written to a new file in the
  old folder, or to the unlinked original of a copy, and is deleted with it. A move that
  breaks off leaves the files that were moved where they are not looked for, or half a
  copy that is found before the whole file (there is a FIXME about it at
  `torrent.c:2936`). A move to the folder where the torrent is forgets the one for
  incomplete files, with the files in it, if that is where it is. Without a move
  nothing is tested, although the comment says "set the new location and reverify"
  (`torrent.c:2981`). `deleteLocalData` looks in the current folder only, so that files
  in the other one are left. All are `missed` in `Location`.
- The last piece of a file is saved as tested if the others are: the sampling loop in
  `saveProgress` stops one piece early (`resume.c:445`); `ChecksAreSaved` excepts it
  (`Unseen`).
- `tr_torrentFileCompleted` gives all pieces of a file but the last the time now
  (`torrent.c:3048`): when a file that was modified loses a piece and gets it again, the
  modification of its other pieces is forgotten. `ModifiedIsRechecked` excepts this
  step, and restarts.
- `cached_file_open` returns an error and leaves the descriptor open when
  `ftruncate` fails; the slot keeps the key of its previous file, whose later reads
  and writes go to the wrong one (`stale` in `OpenFiles`).
- `torrentStartImpl` sets `isRunning` again after a stop that came in between
  (`torrent.c:1590`, against `transmission.h:1165`): the torrent shows as running
  with no peers.
- Free slots are counted before the lock is taken (`torrent.c:1661`), so that more
  torrents may run than `transmission.h:794` allows.
- A queued torrent whose files have disappeared stays first in the queue and
  keeps those behind it waiting (`peer-mgr.c:3593`); the run has
  `Disappeared = {}`.
- A batch that holds the first two torrents of the queue and is moved up is
  reordered, and so is one that holds the last two and is moved down
  (`torrent.c:3290`, `3301`, against `transmission.h:782`, `785`);
  `MovesAreExact` leaves the two cases out.
- A torrent that is restarted after it reached its ratio stops again at the next
  pulse, and "completed" is announced both when the wanted files are there and when
  all are.

Trackers, peers and the session:

- Scrapes take no slot and give one back (`announcer.c:1439`, `1371`), so the limit
  of concurrent web tasks grows with each scrape; `SlotsNeverLost` is the half of
  the balance that holds.
- A failed event goes back to the queue behind newer ones (`announcer.c:1004`): a
  retried "stopped" may dump the "started" of a torrent that runs again, which is
  then shown as queued for ever, and a retried "started" may follow a "stopped".
  `KeepsAnnouncing` and `StoppedIsTold` are therefore about reliable tiers.
- A handshake that is retried "in plaintext" after the key exchange (`gotError`,
  `handshake.c:1154`) is sent encrypted, since `tr_peerIoReconnect` does not reset
  that: the other side takes it for a key that never comes, and both wait for the
  timeout. A connection by uTP that is tried again by TCP is given up as soon as that
  works, since `gotError` goes on to `tr_handshakeDone` (`handshake.c:1171`). `Handshake`
  has both; `Succeeds` leaves them out by `reliable` and by `~conf.utp`.
- A last piece that is shorter than the others and turns out bad is not sorted again,
  although its weight changed: the list is taken for sorted and is not (`shortBad` in
  `PieceList`, excepted in `ListStaysSorted`).
- A bitfield that is made before the metadata keeps `bit_count` 0, since
  `tr_peerMgrOnTorrentGotMetainfo` does not look at `peer->have`. After "have none" all later
  haves of that peer are lost, and so is a bitfield that comes when the metadata are there, as it
  is cut to no bits (`lost` in `Bitfield`); and as long as there are none one piece is enough to
  be taken for a seed (`tr_peerUpdateProgress`), which is not taken back.
  `HoldsItsBits` is about the bitfields that know their size. `tr_bitfieldRem` has
  its test the wrong way round, and nobody calls it.
- `loadBlocklists` looks for a name in a list of blocklists (`session.c:2208`, against "if we
  don't already have this blocklist"), so a `.bin` file that is made of a text file may be listed
  twice. If one of the two is then given a shorter text, the other has mapped more than there is
  (`IsTorn`). An update replaces the first list whose *path* ends with `blocklist.bin`, which may
  be a list of the user's. A line whose range is the wrong way round goes through, up to the
  assertion.
- A peer that is chosen for the optimistic unchoke while its choke is too recent to be
  changed stays choked for its whole turn (`rechokeUploads`, `tr_peerMsgsSetChoke`).
- `stopTorrent` makes replication counts anew while peers are leaving, so that they
  are too high after the stop (`stopped` in `PieceList`). The ban of a peer is
  forgotten with its atom. Only the first size that is told of the metadata counts, and
  a first size of 0 is taken for one (`torrent-magnet.c:82`): then no piece is ever asked
  for, no other size is listened to, and the magnet link waits for ever.
  `MetadataAreAskedFor` says so by `pieceCount > 0`.
- A peer list that comes while peer exchange is switched off is dropped, and what it told is
  not told again, as the sender notes it as known (`parseUtPex`). An end that is switched on
  after its handshake and gets the other's handshake then sends a list, although it named no
  id; the other end takes this for support and sends its lists with the id 0, which is that of
  a handshake, so that they are read as one (`parseLtep`, `sendPex`). Both are `missed` in
  `PeerExchange`, and the exceptions of `ToldIsHeard`.
- The flags that the window posts are toggles, compared before they are posted: two
  requests, or the window and the RPC interface, may leave the opposite of what was
  asked (`missed` in `Settings`). The window's boxes are never read again.
- A port that changes between a NAT-PMP request and its answer is mapped as it was
  until the renewal (`overtaken` in `PortMapping`); an answer of an earlier request that
  waits in the socket is taken for the one awaited (`natpmp.c` reads whatever comes), so that
  the mapping asked for is forgotten, and the result of deleting a UPnP mapping is not looked
  at (`upnp.c:165`; both `left`); forwarding that is stopped within
  eight seconds of a command leaves the mapping (`left`); an error state is never
  left, although a comment says "wait 60 seconds and retry".
- `tr_webClose` asks for the web thread and then uses it, which may be gone; the
  session is freed three seconds after the deadline even if its thread runs.
- `tr_lpdAnnounceMore` announces the first torrent that is due and no other: with more
  running torrents than an interval has upkeeps the last are never announced
  (`NoneWaitsLong` is about fewer). The old bootstrap thread goes on beside the new
  one when the DHT is started again; `tr_dhtUninit` gives up the saved nodes of one
  family when the run knew enough of the other only, although its comment wants to
  "avoid erasing older data" (`SomeNodesAreKept` says that one family's are kept);
  a thread that waits for `getstatus` when the event loop ends waits for ever.
- `bandwidthClamp` looks at the download speed whatever the direction is.

The interface:

- `AddRow` under an open row that is itself hidden adds to the height; `RemoveRow`
  leaves selected rows below the removed one selected, and `fTargetRow` and the
  anchor of a selection dangling; `Clear` keeps the row with the focus; rows that go
  while the thread sorts leave its stack dangling (`missed` in `OutlineView`).
- `LoadState` loses a column that a message names twice, or behind one that is not there, and
  takes widths that are out of range; a removed column stays among those that are sorted by
  (`forgotten` in `Columns`; a message that fits loses none).
- The callback for completeness is set for torrents of earlier runs only; metadata
  that arrive between `IsMagnet` and `SetMetadataCallbackHandler` are never shown;
  `OnMenuTorrentRemove` uses an item that has been deleted; "start when added" is
  ignored since a new torrent is being checked (`missed` in `Application`).
- A `torrent-add` with neither name nor data is never answered, nor is a GET without a query or
  a request that is neither GET nor POST, and an upload with a
  wrong session id is answered twice (all excepted in `EachIsAnswered`); after an
  error in one torrent `torrent-set` leaves the lists of the others alone, and it says success
  when it changes no trackers, since the `.torrent` file cannot be read, as that of a magnet
  link (`tr_torrentSetAnnounceList`; `SetIsKept` says what holds); `torrent-start` of a torrent that is being stopped
  says success, and the torrent stops.
- A real is cut to four digits in a json text, rounded to six in bencoded data, and to an integer
  when it is that near (`FileReadsAsSaved` is as exact as that).
- `tr_jsonParse` takes a text that breaks off for a whole one; `tr_bencMergeDicts` into a
  dictionary that has a key twice may stay hidden behind the other value
  (`MergeIsDone`).

## Not modelled

- Vendored libraries (`third_party`): what they do is an input.
- uTP and the TCP sockets (`tr-utp.c`, `net.c`): calls of the system and of libutp,
  whose results are inputs of `Handshake`, `Connections` and `Bandwidth`.
- `metainfo.c`, `torrent-ctor.c`, `makemeta.c`, `magnet.c`: parsing and building in one
  pass over data that nobody else changes; the repository tests them.
- The ring of speed samples (`history.c`), statistics: functions of one caller, of which the
  models use the result, or leave it open (`rechokeUploads`, `rechokeDownloads`).
- The subfolders of a torrent, the temporary one through which `deleteLocalData` moves
  the files, and what is left there by others: `Location` has files and their folder.
- The wording and layout of RPC answers, drawing in InterfaceKitEx and Torrentor, the
  lists of files, peers and trackers in the info window.
- What the router and libnatpmp do beside what `PortMapping` needs: requests that come twice
  are carried out in the order in which they were sent, one late answer is kept at a time, and
  where a router takes or drops one protocol of a UPnP mapping only it is always the same one.
- The random delays between the DHT announces of a torrent (`Discovery`: `Again` and `Retry` are
  the longest; the delay of the first one is drawn, up to `First`), and the hash table itself.
- The arguments of the RPC methods beyond a limit, the wanted files and the trackers (`Rpc`: the
  other fields of `torrent-set` and `session-set` are set in the same pass, without a check of
  their own), and the fields that `torrent-get` returns.
- The order of the bits in a byte, the lines of a blocklist as text, strings, paths, character sets, random numbers.

## What comes next

Proofs: the invariants of `Storage`, with `HandleIsOfFile` of `OpenFiles` first, and those of
`CacheResume`, to which `BlockCacheProofs` carries over; `ListStaysSorted` of `PieceList`. These
invariants are close to inductive: the runs check them with the type invariants that they rest on.
