# BasicTV in TLA+

BasicTV is a node of a decentralised TV system: it keeps small typed objects
("ids") in memory and on disk, exchanges them with peers, and shows or records
streams built of them. It is one C++11 process. A single thread runs the main
loop (`main.cpp:82-102`), which calls every subsystem in turn inside one `try`
block; every TCP connection adds a receiving and a sending thread.

This directory holds the specification of the parts whose correctness does not
follow from looking at one function at a time: how data moves between memory and
disk, how sockets hand bytes from thread to thread, how datagrams cross a byte
stream, what the servers on top of sockets do with their connections, how the
subsystems of a node meet in its main loop, and whether what is written as bytes is
what is read back. Each module is translated from the source; `PROJECT.json` ties
each definition to the lines it stands for (`map`).

Contents:

1. [Inventory of the system](#1-inventory-of-the-system)
2. [Modules](#2-modules)
3. [Runs: what is checked, bounds, fairness](#3-runs)
4. [Where the code and its documentation disagree](#4-where-the-code-and-its-documentation-disagree)
5. [Proofs](#5-proofs)
6. [What is not modelled](#6-what-is-not-modelled)
7. [Where to go on](#7-where-to-go-on)

Running the checks, from this directory:

    tlc -workers 2 -config IdTier_core.cfg MCIdTier.tla
    tlc -workers 2 -config NetSocket_conn.cfg MCNetSocket.tla
    tlc -workers 2 -config NetLink_channel.cfg MCNetLink.tla
    tlc -workers 2 -config NetHttp_server.cfg MCNetHttp.tla
    tlc -workers 2 -config Node_loop.cfg MCNode.tla
    tlc -workers 2 -config Formats.cfg MCFormats.tla
    tlapm IdTierProofs.tla
    tlapm NetSocketProofs.tla
    tlapm NetLinkProofs.tla
    tlapm NetHttpProofs.tla
    tlapm StationProofs.tla
    tlapm NodeProofs.tla
    tlapm FormatProofs.tla
    tlapm SequenceLemmas.tla

## 1. Inventory of the system

Paths are relative to `src/src/`. "Errors" below: `print(..., P_ERR)` and
`P_UNABLE` throw, `P_WARN` and lower only log, `P_CRIT` kills the process.

### IDs and data (`id/`)

| Part | State | Operations | Correct when |
|---|---|---|---|
| `data_id_t` (`id/id.{h,cpp}`, `id_api.cpp`) | id (uuid, hash, type), `modification_incrementor`, linked list of neighbours, pointers to the typed fields | `mod_inc` by every setter; linked-list edits | one version number never stands for two contents; lists stay symmetric |
| export, import, transport (`id_export.cpp`, `id_import.cpp`, `id_transport*.cpp`) | none | object to bytes and back, by extra and field | import after export gives the object back; a truncated payload throws before it changes anything |
| ID sets (`id/set/`) | none | compact and expand lists of ids | expand after compact is the identity; the ids of a buffer stay with their versions |
| Tier states: memory (`id/tier/memory/`) | `id_vector` of objects, `id_buffer` index of (id, version), two transport queues | `mem_add_id`, `mem_del_id`, `get_ptr`, import of data (`id_tier_mem_add_data`), `loop` | index has one entry per object and is never ahead of it |
| Tier states: disk (`id/tier/disk/`) | an index, a data folder with one file per (id, version), two queues | add, get, `update_cache`, `loop`, `init` | the index names only files that exist; what is accepted is written or kept |
| Tier logic (`id/tier/id_tier.cpp`, `id_tier_define.h`, `move/`) | none of its own | `id_tier_loop`, `shift_data_to_state`, `get_id_ptr`, `id_tier_init` | what memory has reaches the disk; lookups find what the disk has; nothing goes back in version |
| Tier states: network (`id/tier/network/`) | peer, connection (address, software device), queues | pull datagrams, dispatch on a type byte, answer requests, update the cache | datagrams are handled in order and once; a state that cannot be served holds up no other |
| Tier storage bookkeeping (`id/tier/storage/`) | buffer of ids, allowed extras | add, delete, refresh | permission checks agree with the kind of the tier |
| Cache tier, smart lookup, requests, benchmark | declared | not initialised, or without a user | |

Interaction: everything above finds objects with `get_ptr`/`PTR_DATA`, which
falls back to `id_tier::operation::get_id_ptr` (a synchronous shift from the
disks to memory); the main loop calls `id_tier_loop` once per turn. Hard: two
disk tier states share one folder (`id_tier_init` runs twice, `main.cpp:81`); a
write may fail or be cut short; a restart finds whatever the folder holds, in any
order; exceptions leave queues half processed.

### Network (`net/`)

| Part | State | Operations | Correct when |
|---|---|---|---|
| `net_socket_t` (`net_socket.{h,cpp}`) | `recv_buffer`, `send_buffer`, `thread_mutex`, `thread_running`, SDL socket, two threads | `send`, `recv`, `recv_all_buffer`, `connect`, `set_tcp_socket`, `disconnect`; the loops of the threads | each stream keeps every byte once, in order; a method returns; what is sent leaves |
| Escaping and TCP packet scheme (`escape.cpp`, `net/interface/net_interface_tcp.cpp`) | none | frame a datagram, cut a stream into datagrams | datagrams arrive unchanged, once, in order, wherever the stream is cut; what can break that is known |
| IP interface (`net/interface/net_interface_ip.cpp`, `net_interface.cpp`) | hardware and software devices with buffers, raw and cut data of each device | `SEND`, `RECV_ALL`, `ADD_ADDRESS`, `ACCEPT`, `DROP`, costs | a device is listed once, belongs to one address, is dropped for a cheaper one only |
| Peers (`net/proto/`) | list of peers, own peer, bound tier states | bootstrap, bind, accept | one tier state per peer, also after a failed connection attempt; a peer that cannot be reached stops nothing else |
| HTTP (`net/http/`) | per server: connections without a complete header, file driver states with a response of chunks with sent flags | accept, read headers, bind to a file driver, packetize, remove stale | each chunk is sent once, in order; a connection closes only when its answer is out |
| Console (`console/`) | a listening socket, connections with the input not yet run, registers | accept, read a line, run a command | a line is run once it is complete; an error does not end other connections; the main thread comes back |

Interaction: sockets are driven by two threads each and by the main thread; the
network tier puts datagrams in the queue of a software device, and finds the
arrived ones in `inbound_data`. Hard: the order of the three threads; the peer may
end one or both halves of the connection at any moment; TCP keeps no message
boundaries.

### TV (`tv/`)

| Part | State | Operations | Correct when |
|---|---|---|---|
| Windows, frames, items (`tv.cpp`, `tv_window.cpp`, `tv_frame_standard.{h,cpp}`, `tv_item.cpp`, `tv_meta.cpp`) | active streams per window, linked lists of frames, comments | pull new frames from a sink, link them, walk to a moment, push | what was recorded is in the frames, in order; a walk finds the frame of its moment |
| Numerical TCP sink (`tv/sink/numerical/tcp/`) | connections, one buffer of lines, samples | accept, parse lines, make frames | every sample of a whole line gets into a frame, once |
| Audio sink (`tv/sink/audio/`) | `playback_vector` under a lock, frames pushed | push, the callback of the device | sound is heard in order, nothing twice |
| Transcoding (`tv/transcode/`) | states of encoders and decoders | file to samples, samples to snippets, snippets to frames, and back | a frame plays what the file held; a decoder hears frames without gaps |

Interaction: the console creates windows and items; `tv_loop` walks over the windows
of the type cache and moves samples from a sink to frames or from frames to a sink; the
callback of the audio device runs in a thread of PortAudio's. Hard: time goes on
between two turns, and the walk along linked frames has no bound.

### Process

| Part | State | Operations | Correct when |
|---|---|---|---|
| Start, loop, close (`main.cpp`, `init.cpp`, `loop.cpp`, `close.cpp`, `settings.cpp`, `input/`) | running flag, own key pair, settings | initialise each subsystem, make or load the key pair, the main loop | one key pair per node, the same after every restart; each subsystem gets its turn |
| Encryption, compression (`encrypt/`, `compress/`) | none | choose a scheme; calls of OpenSSL, zstd, xz | what was sealed can be opened, or it is known why not |
| Numbers (`math/`) | none | typed numbers as bytes, comparison | a number is read back; the order is that of the values |
| Helpers (`convert.cpp`, `util.cpp`, `settings.cpp`; `lock.cpp`, `thread.cpp`, `file.cpp`) | settings | ids, numbers and lines as text | text is read back |
| Wallets, escrow, legacy network cache, tests | | | |

Interaction: `main.cpp:80-95` calls `tv_loop`, `net_loop` (interfaces, peers, HTTP),
`console_loop` and `id_tier_loop`, in this order, in one `try` block: what throws out
of one of them takes the turn away from all behind it. That is the most important
coupling of the system, and `Node` is about it.

`PROJECT.json` lists the hazards of the code line by line with the properties that
cover them, and its components with what is left out of each.

## 2. Modules

| Module | What it is |
|---|---|
| `IdTier` | the memory tier, the disk tiers, `id_tier_loop`, `get_id_ptr`, faults and restarts |
| `VersionStore` | abstract: each datum has a version its users see and a set of durable versions |
| `MCIdTier` | constants for the runs of `IdTier` |
| `IdTierProofs` | the theorems about `IdTier`: its invariants, that it implements `VersionStore`, that a version stands for one content, that a loop without a failed write persists what it started from |
| `NetSocket` | one connected `net_socket_t`: both threads, the main thread, the peer |
| `MCNetSocket` | constants for its runs |
| `NetSocketProofs` | the theorems about both byte streams |
| `Escape` | `escape.cpp` as pure operators (no `RECURSIVE`, so that it can be proved about) |
| `DatagramChannel` | abstract: a first-in-first-out channel of datagrams, which some of them may break |
| `SequenceLemmas` | lemmas about sequences, folds and the operators of the community modules, for the proofs |
| `NetLink` | sending device, TCP, receiving device, `RECV_ALL`; composes `Escape`, implements `DatagramChannel` |
| `NetLinkProofs` | the theorems about escaping, cutting and the link: it implements `DatagramChannel` |
| `NetHttp`, `MCNetHttp` | the HTTP server over its connections: lists, drivers, responses, closing |
| `NetHttpProofs` | the theorems about its lists and responses |
| `MCNetLink` | constants for its runs |
| `MainLoop` | where the main thread is, and what an exception does to it |
| `Console` | `console_loop` over its consoles: lines, commands, exit |
| `Peers` | the peers of a node, their tier states, the devices that connect to them |
| `TierNetwork` | the network states in `id_tier_loop`: datagrams and cache updates; extends `Peers` |
| `Recorder` | the numerical sink: meters, lines, samples, frames |
| `Frames` | linked lists of frames and every walk along them |
| `Station` | windows, `tv_loop`, what the console binds, the audio sink and its callback; extends `Recorder` and `Frames` |
| `Node` | the main thread over all of these, and everyone outside; extends `Console`, `TierNetwork`, `Station` |
| `MCNode` | nine scenes for `Node` |
| `StationProofs` | the invariants of `Station` and its parts: frames and walks, sound, recordings |
| `NodeProofs` | the theorems about `Node`: types, peers, datagrams, commands, sound and recordings |
| `Results` | what a call comes to: a value or an exception |
| `IdSets` | lists of ids as bytes, vectors of ids, the buffer of a tier state |
| `IdTransport` | objects as bytes: export, layers of encryption and compression, stripping, import |
| `Media` | sound from a file to frames and out of the sink again |
| `Conversions` | ids and lines as text, settings, comments, numbers and their order |
| `Bootstrap` | the key pair of a node across starts, failing writes and ends of the process |
| `FormatProofs` | the theorems about `Bootstrap`, the layers of `IdTransport`, and the lists and walks of `Frames` |
| `MCFormats` | the modules about data side by side, with their inputs |

Definitions marked `Mutant:` are plausible bugs. No specification uses them:
`PROJECT.json` pairs each with a property it breaks.

### IdTier

A datum is a record of its id, its `modification_incrementor` (`mod`) and a
value, which is the number of the edit that made the content, so that two contents
can be told apart. One action is one step of the only thread that runs this code.

| Variable | Code |
|---|---|
| `id_vector` | `id_vector` of the memory tier, in creation order |
| `storage[t]` | `storage.get_id_buffer()` of tier state `t` |
| `files[x][m]` | content of the file of version `m` of `x` in the data folder, which all disk states share |
| `inbound[t]`, `outbound[t]` | `inbound_transport`, `outbound_transport` |
| `pc`, `row`, `col`, `moves`, `call`, `looking` | where the thread is: `i` and `c` of `id_tier_loop`, the moves left of the current pair, the medium loop being run and where it returns to, and whether `get_id_ptr` is the caller |
| `hist` | history: ids loaded in a version that was not the newest on disk; what the last `id_tier_loop` started from, and whether a write failed in it |

| Action | Code |
|---|---|
| `Create`, `Edit`, `Churn` | `mem_add_id` of a new object; a setter with `mod_inc`; creation or deletion of an object that is never exported, which regenerates the index |
| `Lookup` | `get_id_ptr` of an object that is not in memory: a shift from each disk state in turn |
| `ShiftFetch`, `ShiftTake`, `ShiftEnd`, `NextMove` | `shift_data_to_state`: request from one tier state, take the answer, queue it for the other, and return to the caller |
| `FlushMem`, `FlushDisk`, `FlushFails`, `FlushEnd` (with the operator `CallLoop`) | `ID_TIER_LOOP_STANDARD`: fill the inbound queue, then add the outbound entries one by one; an unfillable entry throws before the outbound half |
| `BeginTierLoop`, `VisitPair`, `Turn`, `Refresh` | `id_tier_loop`: for each tier state, move data between it and every other, run its own loop, refresh its index when the timer is due |
| `Crash` | the process dies at any step, also in the middle of a write, and starts over the same folder |

What is abstracted: payload bytes (a value, or "no file", "no bytes", "does not
import"); the timer of the cache, which may be due at any time and is due once the
index exceeds `MaxIndex`; encryption and compression of exports. Who owns an id
is a constant set (`Own`), because the hash of a datum never changes;
`Loadable` are the ids of a type that `id_tier_mem_add_data` can construct.

### VersionStore

What the tiers promise without tiers: `New`, `Change`, `Persist` (only versions
the users have seen), `Load` (only durable versions, and only when nothing is
loaded), `Spoil` (a write cut short destroys at most the version it writes) and
`Restart`. `IdTier` maps `view` to what a lookup in memory returns, and `durable`
to the versions whose file is intact. `IdTierProofs` proves the refinement.

### NetSocket

A byte is the number of its place in its stream. Critical sections that touch only
what `thread_mutex` guards are one step, enabled when the mutex is free; only the
send thread keeps the mutex over several steps, those of `SDLNet_TCP_Send`.

| Variable | Code |
|---|---|
| `mutex`, `running`, `recvBuf`, `sendBuf` | `thread_mutex`, `thread_running` (shared by both threads), `recv_buffer`, `send_buffer` |
| `recvPc`, `chunk` | `recv_to_buffer` and its local buffer |
| `sendPc`, `copy`, `sent` | `send_from_buffer`, its local copy, the progress of `SDLNet_TCP_Send` |
| `main`, `arg`, `open` | the method the main thread is in, the argument of `send`, whether `socket` is set |
| `peer`, `netIn`, `taken`, `seen` | external: the other end and the operating systems |
| `said`, `heard`, `got`, `closed` | history |

Actions: `Recv*` and `Send*` of the two threads; `CallSend`/`Send`,
`CallRecv`/`Recv`, `Disconnect`, `JoinRecv`, `JoinSend`, `Close` of the main
thread; `PeerSend`, `PeerRead`, `PeerEnds`. The model starts when
`set_tcp_socket` has created the threads. Left out: `connect` and address lookup,
listening sockets, failed allocations, and `recv` without
`NET_SOCKET_RECV_NO_HANG`, which nothing calls.

### Escape, NetLink, DatagramChannel

`Escape` has `escape_vector`, `unescape_vector` and `unescape_all_vectors` on
sequences of bytes, with the 32-bit length in network byte order. In `NetLink`,
`Send` is the `SEND` of the IP medium with `packetize`; `RecvAll` is `RECV_ALL`
with `depacketize`: it adds the bytes of the device to what the last call has left
(`Pieces`), cuts off every complete frame, and keeps the rest. It adds them with
`add_raw_inbound_data`, the setter of `id.h:28`, which drops a piece that is there
already (`Repeated`), while `recv_buffer` is cleared in any case: `lost` is the history
of that. When the bytes that follow do not begin with the escape character, the `ASSERT`
of `escape.cpp:48` throws (`Throws`) before anything is cut off. `Take` is the network
tier clearing `inbound_data`. The two threads that move bytes between devices and
TCP (`net_interface_ip_thread`) are not in the repository: `SendThread` and
`RecvThread` are external, and deliver the stream in pieces of every size.

`Channel` maps the queue of `DatagramChannel` to the datagrams sent and not yet
arrived, and `broken` to `lost`. `Fragile` are the datagrams whose frame, with the first
byte of the next one behind it, begins with some bytes and the same bytes again, the
second time at least their beginning: cut there and there, it makes the piece that is
dropped.

### NetHttp

A turn of the server is `accept`, `push`, `serve`, with `stale` after each driver
state that has been served. A file driver state is named by its connection, of which
it has exactly one.

| Variable | Code |
|---|---|
| `listening`, `backlog` | whether `conn_socket_id` has an open socket; external: what `SDLNet_TCP_Accept` will return |
| `nonBound`, `bound` | `non_bound_sockets` (with whether the payload has its header), `bound_file_driver_states` |
| `scan`, `serving` | the copies of these that `net_http_push_conn_to_file` and `net_http_loop` work on, with their position |
| `response` | the chunks of `response_payload` with their sent flags |
| `recv`, `running`, `sender`, `buf`, `taken` | the socket as `NetSocket` shows it: `recv_buffer`, `thread_running`, the send thread (which holds the mutex while it sends and, after a short send, for ever), `send_buffer`, and the bytes the system has taken |
| `request`, `peer` | external: what the client asks for, and how far it has left |
| `closed` | history |

| Action | Code |
|---|---|
| `Listen`, `AcceptConn`, `AcceptThrows` | `net_http_accept_conn`, with `set_tcp_socket` failing on any of the waiting connections |
| `PushLater`, `PushBind`, `PushEnd` | one iteration each of `net_http_push_conn_to_file`: nothing yet or an exception; a driver state, with the erase and the increment; the copy is written back |
| `ServeNull`, `PacketizeNothing`, `Packetize`, `ServeEnd` | the inner loop of `net_http_loop` |
| `RemoveStale` | `net_http_remove_stale` with `disconnect` |
| `Arrive`, `RecvEnd`, `SendStart`, `SendWhole`, `SendShort`, `SendEnd` | the threads of a socket |

What the drivers do is read off the code: the page adds its only chunk once; the feed
throws on every turn, because its `init` does not keep the request whose `service_id`
its loop asks for; the `init` of the download calls `ogg_stream_init` with a null
pointer, which fails. A URL that fits no driver gets the page, whose prefix is empty.

### Node: Console, Peers, TierNetwork, Station

The main thread is at one place (`pc` of `MainLoop`): `tv`, `net`, `proto`, `bind`,
`accept`, `each`, `lines`, `tier`. An action takes it on to the next place, or, where
the code throws, back to `tv` (`NextTurn`). So the order of the subsystems, and what
an exception in one of them means for the others, is in the model itself. HTTP has its
own module: its loop lies between `bind` and `accept`, and what keeps it from
returning is `LoopTurns` of `NetHttp`.

*Console.* `each` is the copy of the type cache that `console_loop` works on; `recv`
and `input` are `recv_buffer` and `working_input`; `alive` are the consoles with an
open socket. A command is one element of the stream, with the two bytes of its line
end after it. `Execute` and `ExecuteExit` are one iteration of `run` with its
`execute`; `Left` is what the iteration leaves in `working_input`, with its rule for
two bytes at most. `exit` destroys the socket, and then the table that `execute`
prints has no socket to go to: the exception of the exception handler ends the turn.
`ahead` records the consoles that got more bytes behind a line end: for them the rule
does not work, and the properties say so.

| Module | Variable | Code |
|---|---|---|
| `Peers` | `peers`, `located` | the type cache of `net_proto_peer_t`; the peers whose address object is here |
| | `devices` | `net_interface_software_dev_t`: its address, whether it has a medium and a socket, and its datagrams: `mail` (all that were sent), `arrived` (taken off the socket), `cleared` (gone from `inbound_data`), `handled` (history) |
| | `listed`, `callers` | the length of `soft_dev_list`; connections that wait at the server socket |
| | `states` | the network tier states in the order of the type cache: peer, device, whether the cache update is due, whether the other side waits for our cache |
| `TierNetwork` | `tierAt` | the index of `id_tier_loop`, over the network states |
| `Recorder` | `flight`, `buffer`, `samples` | what the meters have sent; the buffer all of them share; `data_buffer` |
| `Station` | `windows`, `windowAt` | the windows with their stream, in the order of the type cache; the index of `tv_loop` |
| | `lists`, `spans`, `content` | the linked lists, times and samples of the frames |
| | `playback`, `pushedTo`, `called` | `playback_vector`, `push_history`, when the device wants sound again |

| Action | Code |
|---|---|
| `NetInterfaceLoop` | `net_interface_loop` with `RECV_ALL`: devices in order, up to one that throws |
| `AcceptConnection` | `net_proto_loop_accept_connection` with `ACCEPT` and `bind`: the device is listed twice |
| `BindPeer` (`BindRefused`, `BindNoWay`, `BindUnconnected`, `BindConnected`), `BindEnd` | one iteration of `net_proto_loop_bind_peers`, by how far `address_to_hardware` gets; the tier state exists, and has its peer, before that |
| `ServeConnected`, `ServeUnconnected`, `ServeThrows`, `TierEnd` | one network state in `id_tier_loop`: the medium's loop (caught) and `update_cache` (not caught) |
| `Inward`, `Outward`, `OutwardNothing`, `OutwardThrows`, `TvEnd` | one window in `tv_loop` |
| `BindRecord`, `BindView`, `PlayItem` | what a command does to the windows |
| `Callback` | the callback of the audio device, with `playback_lock` |
| `Learn`, `Mail`, `Call`, `Measure`, `Tick`, `RecvThread`, `Type` | everyone outside |

A datagram is its kind (an object, a request for the cache, one that cannot be
handled), because what it carries is `IdTier`'s and `IdTransport`'s business, and its
way through the stream is `NetLink`'s: the devices here are those whose channel has not
broken (a broken one makes `RECV_ALL` throw on every turn, as a device without a medium
does here). A sample is a number, and the time of the TV
is counted in samples. `budget` is the scene a behaviour is about.

### Data: IdSets, IdTransport, Frames, Media, Conversions

These are the parts whose difficulty is in what a function computes. Functions are
operators, with exceptions as `Results`; the state is what the calls leave behind (a
set that ids are added to and removed from, an object that is exported, stripped,
sealed and imported into an object that holds older data, a decoder that keeps its
format and its remainder). Histories say what was put in, and the properties compare
it with what is read back. A byte is a digit of a small base, and the sizes of ids,
hashes and headers are constants. `MCFormats` chooses at the start which of them a
behaviour is about, because none calls into another one's state.

### Bootstrap

`FirstBoot`, `LoadKeys` and `RefuseStart` are the three ways through
`bootstrap_production_priv_key_id`, which look only at the data folder. A pair that is
made is queued for every disk state, the private key first
(`id_tier_memory_special.cpp:8-17`), and `id_tier_loop` writes one file at a time:
`WriteKey`, `WriteFails` (the file cannot be opened, and the entry stays queued),
`WriteCut` (the file system is full, which nobody asks the stream). `Stop` and
`StopInWrite` end the process at any point.

## 3. Runs

| Run | Module, config | Properties | Expected |
|---|---|---|---|
| `core` | `MCIdTier`, `IdTier_core.cfg` | `TypeOK`, `MemIndexLags`, `ViewGrows`, `LoopPersists`, `VersionIdentifiesContent`, `QueuedUntilStored` | pass |
| `two_disks` | `MCIdTier`, `IdTier_two_disks.cfg` | `DiskIndexSound`, `ImplementsStore` | pass |
| `live` | `MCIdTier`, `IdTier_live.cfg` | `EventuallyOnDisk` | pass |
| `coupled` | `MCIdTier`, `IdTier_coupled.cfg` | `IndexCoupled` | violation |
| `socket` | `MCNetSocket`, `NetSocket_conn.cfg` | `InStream`, `OutStream`, `StaleIsFlushed`, `CallReturns`, `SentWhileOpen` | pass |
| `socket_answer` | `MCNetSocket`, `NetSocket_answer.cfg` | `AnswerSent` | violation |
| `link` | `MCNetLink`, `NetLink_channel.cfg` | `InStep`, `ImplementsChannel`, `EveryDatagramArrives` | pass |
| `link_assert` | `MCNetLink`, `NetLink_assert.cfg` | `FirstByteIsEscape` | violation |
| `http` | `MCNetHttp`, `NetHttp_server.cfg` | `OneAnswer`, `InOneList`, `LoopTurns`, `EveryRequestBound`, `Answered` | pass |
| `http_driver` | `MCNetHttp`, `NetHttp_driver.cfg` | `EveryDriverServed` | violation |
| `node` | `MCNode`, `Node_loop.cfg` | `TypeOK`, `CommandsKept`, `RecordedKept`, `PeersBoundOnce`, `DatagramsOnce`, `HeardInOrder`, `NodeTurns`, `EveryCommandRun`, `EveryDatagramHandled` | pass |
| `formats` | `MCFormats`, `Formats.cfg` | `IdSetsReadBack`, `ObjectsTravel`, `SealsOpen`, `ListsWalk`, `ScrollFinds`, `SoundIsPlayed`, `TextsReadBack`, `NumbersOrdered`, `KeysStay` | pass |

### What the properties say

*Tiers.*
`MemIndexLags`: the memory index lists the objects of `id_vector` one to one, in
versions that lag behind at most.
`DiskIndexSound`: no disk state lists a file that is not there, although two states
write the folder and neither sees the other's index.
`ViewGrows`: as long as the process runs, an object found in memory stays found, in
a version that never goes back, although every shift from a disk appends another
copy.
`QueuedUntilStored`: an entry leaves the queue of a disk only when its file holds
it (or was cut short by the system).
`LoopPersists`: an `id_tier_loop` in which no write failed has persisted every own
object the memory index listed when it began, in that version or a later one. The
two exceptions it names are real: a request that only an empty file could answer
makes the `ASSERT` in `ID_TIER_LOOP_STANDARD` throw before the outbound half of
every loop, so a disk with such a request takes no data any more (`Wedged`); and a
damaged file is listed as an intact one, so its version is never written again.
`VersionIdentifiesContent`: equal id and version means equal content, anywhere in
memory, queues and files, except for objects the process has loaded in a version
older than the newest on disk: an edit then reuses a version number. (Old files
are never removed, and `find` lists them in any order.)
`ImplementsStore`: the refinement of `VersionStore`.
`EventuallyOnDisk`: what the memory index lists reaches the disk, although opens
fail for a while.

*Socket.*
`InStream` and `OutStream`: no byte is lost, doubled or moved between the two
buffers, the local copies of the threads and the system.
`StaleIsFlushed`: `net_http` closes a connection when it reads, without the mutex,
that `send_buffer` is empty; everything has been accepted by the system then.
`CallReturns`: a method stays inside for ever only in two cases: a short send has
left the mutex locked (`net_socket.cpp:75-78`), or the peer has stopped reading in
the middle of a send, which holds the mutex. In both the whole main loop stops.
`SentWhileOpen`: as long as the peer has ended neither half and nobody has
disconnected, what is sent reaches the system.

*Link.*
`InStep`: what the receiver holds and what is on the way are always whole frames of
the outstanding datagrams: no length or body is ever read as the beginning of a
frame, and the `ASSERT` on the first byte does not throw. Bytes are lost only when one
of the datagrams sent is `Fragile`.
`ImplementsChannel`, `EveryDatagramArrives`: as their names say, until a `Fragile`
datagram breaks the channel. Afterwards anything may come out of it, or nothing.

*HTTP.*
`OneAnswer`: a driver state is served many times, also in one turn, and yet its
response enters the socket once; a connection is closed only when the system has taken
all of it, although the decision reads sent flags and an unlocked `send_buffer`.
`InOneList`: between turns each connection waits, is unbound, is bound or is closed,
and only one of these, although the unbound ones are edited on a copy and exceptions
leave the loop in the middle. (A connection whose accept throws is in none.)
`LoopTurns`: `net_http_loop` returns, unless the client it serves stops reading or
breaks the connection in the middle of a send; `write` then waits for the mutex.
`EveryRequestBound`: a complete request for a page or a feed is bound, whatever other
requests are in the list; the skip after an erase only delays.
`Answered`: a bound page is answered or its client leaves, unless the driver state at
the head of the list can never be finished (see the finding).

*Node.*
`NodeTurns`: the main loop comes round to the tiers again and again exactly as long as
no device is broken. A command that fails, an exit, a connection that cannot be
accepted, a frame that cannot be decoded, a tier state without a device and a datagram
that throws each cost at most this turn. One device without a medium or without a
connection (a peer that could not be reached once, or any peer learned from others)
ends `net_interface_loop` on every turn, and with it peers, HTTP, console and tiers for
good. "Exactly as long" is both directions: the property says that recovery is
impossible, too.
`PeersBoundOnce`: no peer has two tier states, our own has none; the device of a state
is open, belongs to its peer and to no other state. It holds although binding fails in
three places after the state exists.
`DatagramsOnce`: datagrams are handled in order and none is passed over; one is handled
a second time only if it came before one that throws.
`EveryDatagramHandled`: no datagram waits for good, except behind one that throws and
behind a state without a device in the loop over the tiers (its cache update throws out
of `id_tier_loop`, and the flag stays set).
`CommandsKept`: a console has run the commands that were typed first, in order and each
once, and the bytes of its buffers and of the stream are exactly the lines of the others,
wherever the stream is cut, as long as its client waits for a line to be run.
`EveryCommandRun`: each command on an open console is run, also when other consoles exit
or cannot be accepted.
`RecordedKept`: every sample whose line has arrived whole is in a frame, in the sink or
in its buffer, in order, while the list of frames grows, with lines from several meters
in one buffer.
`HeardInOrder`: the callback and the main thread share `playback_vector`, and yet sound
is heard in order and nothing twice, until the device first comes to the end of
what there is, if play was run once.

*Data and keys.*
`IdSetsReadBack`: a set reads back as what was put in, with its order and repetitions,
unless an id in it is invalid; and the ids of a tier's buffer stay with their versions
although the two are kept in two vectors.
`ObjectsTravel`: an import leaves the sender's members where these had bytes, were
allowed to travel and could be read, and the receiver's own everywhere else, with the
sender's version. (So a member that the sender has emptied keeps its old value at the
receiver, under the new version.)
`SealsOpen`: what was sealed can be opened, except in the cases named: the compression
lies around the encryption, or was taken off from under it (`ENCRYPT_RSA` and
`COMPRESS_NONE` are both 1, so that an RSA body loses a byte instead of being refused),
the key is missing, or has not the 4096 bits the AES header takes for granted; and an
import that fails changes nothing.
`ListsWalk`, `ScrollFinds`: walks along linked frames list what is there, in order; the
search for a moment finds the frame that lasts then, and does not end if the moment lies
in a gap between two frames of one vector.
`SoundIsPlayed`: a frame is played once and whole, frames have the samples of the file in
order, decoders hear runs of frames without gaps; with the size of the WAVE data as one
sound too many in each frame, as the code has it.
`TextsReadBack`: ids, lines, settings and comments; a replacement is found, and the old
value is not.
`NumbersOrdered`: numbers that are not negative are in order; equal ones with fractional
parts make the comparison run for ever, and negative ones count as greater than those that
are not.
`KeysStay`: a node never has two private keys, runs only with the pair it once had on
disk, and refuses to start only after a write that was cut short or a stop between the
two keys. (Then it never starts again: the missing half is nowhere else.)

### Bounds, and why they are enough

| Run | Bounds |
|---|---|
| `core` | 2 own ids, one of them of a type memory cannot import; 1 disk; 2 edits; 1 fault of any kind (open fails, write cut short, crash); tier loops start with at most 2 objects and queues of 2; refresh forced beyond 2 index entries |
| `two_disks` | the same with 2 disk states, one own id and one of another node |
| `live` | 1 id, 2 disks, 2 edits, 2 failing opens |
| `socket` | 2 bytes in, 3 bytes out by sends of 1 or 2, 2 bytes of buffering between the ends |
| `http` | 2 clients, each with any of the four kinds of request; responses of 2 bytes (`http_driver`: pages and feeds, 1 byte) |
| `link`, `link_assert` | 2 datagrams out of three payloads: seven plain bytes, two adjacent escape characters, and one that looks like the beginning of its own frame, the only `Fragile` one (`OneFragile`) |
| `node` | nine scenes, below |
| `formats` | sets of up to 3 of 5 ids; one member of each shape and two changes; owner keys too short to encrypt, fitting the AES header, and not, and two sizes of compressed bodies, one on each side of what RSA takes; 6 frames; files of up to 11 samples; 3 comments; 2 disk states, 3 pairs, 2 faulty writes |

The ids interact only through exceptions that cut a queue short, for which two are
enough (one entry that throws before or after one that does not). Versions need
"older, same, newer", so two edits. `MaxObjects` and `MaxQueue` bound the duplicates
and the copies that pile up in the code without limit; the states where a further
duplicate or copy exists are reached (a call that is under way is not cut off), only
the next loop is not begun. In the socket run a send of two bytes with a window of two, and a second one
appended while the first is being sent, are all that the copy, send and clear of the
send thread can distinguish. On the link every cut of two frames occurs, hence every
cut inside a header, inside a body and between frames, with one frame before and
after. HTTP connections meet in the two lists and in the head that is served: with two,
one is behind the other in each list, and one is skipped by an erase. A response of two
bytes can leave in part.

The whole node at once is too much for exhaustive search, and most of its parts do not
touch each other's state. A behaviour therefore has one scene (`budget`), which says who
takes part: one client with three lines, two clients with two (a command behind a command
behind an exit; one behind the other in the list); one reachable peer with two datagrams
and a caller, and one reachable and one learned peer (every order of states with and
without a device); a recorder with a viewer; a recorder with two meters; one with three
samples, which makes two frames; lines that arrive in parts; and a clip of three frames,
one of which cannot be decoded, beside an exit and a peer. What meets in `NodeTurns`,
the exceptions, is in each of them. The theorems of `NodeProofs` have no scenes: they hold for
every budget.

In `formats` the inputs are chosen for the case distinctions of the functions: the owner
that needs no hash, an invalid type, an id twice; empty, short and two-digit sizes, rows
with none, one and two that are not empty; frames in one vector and across several, with
and without a gap; sound of zero samples, of less than a snippet, and of more than two;
texts with blanks in front and behind, with a wrong character at a separator; numbers
around the carry of a byte, negative, with and without a fractional part. A pair of keys
has four entries to write with two disk states, each of which may fail, be cut or be the
last one.

`CHECK_DEADLOCK FALSE` appears in the socket and HTTP runs because the code really may
stop (mutex left locked, all threads waiting), which `CallReturns` and `LoopTurns`
describe, and in `formats`, whose behaviours end when the inputs are used up. The tier model, the link and the node never deadlock.

### Fairness

* `IdTier`: `WF(Busy)`, the thread does not stop inside a call, and
  `SF(BeginTierLoop)`, the main loop reaches `id_tier_loop` again and again whatever
  other subsystems do in between. Strong fairness is what an endless loop over all
  subsystems gives: the other actions of a turn (`App`) are finitely many between two
  calls. That no earlier subsystem throws on *every* turn is what `NodeTurns` is about:
  it is true as long as no device is broken.
* `NetSocket`: weak fairness of the two threads (they are scheduled by the system)
  and of a method that has been called. Nothing is assumed of the callers, of
  the peer reading or of it sending. The peer sends finitely many bytes, which hides
  one hazard on purpose: `recv_to_buffer` does not look at `thread_running` while
  bytes keep coming.
* `NetHttp`: weak fairness of the main thread and of the socket threads. A send is not
  fair (it ends when the client reads or leaves), and nothing is assumed of the clients.
* `NetLink`: weak fairness of both threads and of `RECV_ALL`, which every turn of the
  main loop calls.
* `Node`: weak fairness of the main thread where it is in the network, the console and
  the tiers, of the recv threads and of time. In the TV the same is written as
  `[]<>(pc # "tv") \/ []<><<TvTurn>>_nodeVars`: some step of the TV is always possible
  there, so that this is weak fairness without its `ENABLED`. The audio device is not
  fair, and nothing is assumed of clients, peers and meters. The scenes let each of them do
  finitely many things, so that "is run" and "is handled" are about what was sent.

## 4. Where the code and its documentation disagree

* `coupled` / `IndexCoupled`. The comment at `id/tier/memory/id_tier_memory.cpp:32-36`
  says `id_vector` and `id_buffer` are kept coupled. A setter (`mod_inc`,
  `id/id.h:258`) leaves the index behind; it catches up only when another object is
  created or deleted. Consequence: an edited object is not written to disk until
  then. `MemIndexLags` is what does hold.
* `socket_answer` / `AnswerSent`. `net/http/net_http.h:40-42` says new data of a
  response is sent down the socket. When the peer has ended its sending half (a
  client that shuts down writing after its request), the recv thread clears
  `thread_running`, which the send thread reads too: the answer stays in
  `send_buffer`.
* `http_driver` / `EveryDriverServed`. `net/http/net_http.h:40-42` says that new data
  of a file driver is pushed to its response and sent. The inner loop of `net_http_loop`
  reads `bound_file_driver_states[i]` (`net_http.cpp:187`) with the index of the server:
  only the driver state at the head of the list is served. When that one can not be
  finished (its client has left with bytes still in `send_buffer`, or it is a feed),
  every other client waits for ever. `Answered` is what does hold.
* `link_assert` / `FirstByteIsEscape`. `escape.cpp:48` asserts that a frame begins with
  the escape character. The payload `AB 00 00 00 08 AB` has the frame
  `AB 00 00 00 08 AB | AB 00 00 00 08 AB | AB`. When it arrives in these pieces, the second
  one equals the rest of the first, so that `add_raw_inbound_data` drops it
  (`net_interface_ip.cpp:174`, `id.h:28`), and `recv_buffer` is cleared all the same.
  The frame that seems to begin there takes its last bytes from the next one, and what is left of
  that does not begin with the escape character: `RECV_ALL` throws, on this turn and on all
  others, and no datagram arrives on the link any more. (In the run the escape character is 7.)

What follows came up while translating. It is in the models as the code has it, and no
document says otherwise, so that no run is expected to fail for it.

*Escaping.*
The frame of the empty vector is five bytes long and taken for an incomplete one
(`escape.cpp:42`): `test/test_escape.cpp` draws payloads from length 0 on and asserts that
nothing is left, which fails about once in a million runs. On a link the place is not
lost: the frame waits for the next bytes and is then skipped, so that an empty datagram is not
delivered, which is why `NetLink` assumes payloads that are not empty, as all of the
network tier's are.

*The loop and the network.*
One failed connection, or any learned peer (`required_intermediary` is not exported, so
that `set_address_id` finds no medium), stops all of `net_interface_loop` and what comes
behind it, for good; a learned peer with the address of a configured one also keeps that
one from being made. A network state without a device throws out of `id_tier_loop` once its
cache update is due. `inbound_data` is not cleared when a datagram throws: those before it
are handled again on every turn. A request as `get_hint_id` writes it has its type byte
behind the id; a request for an id that this node holds recurses without end.
`soft_dev_list` counts an accepted device twice, and `ACCEPT` does not look at the limit.
Metadata that ask for a difference of the caches (`SEND_CACHE_DIFF`) end in a print with `P_CRIT`
(`id_tier_network.cpp:266-271`), and `print` then raises `SIGKILL` (`util.cpp:160-163`): such a
datagram ends the process.

*The TV.*
`last_pushed_id` points into a copy, so that numerical frames are pushed on every turn,
although `tv_sink.cpp:71` says there are no duplicates; the branch that looks ahead for
audio frames compares an id type with a frame type and is never taken, so that the device
comes to the end of what there is with every frame, and hears the last entry again. What is
left in `playback_vector` is heard with the next play; a second play of an item is silent
for frames already pushed. A frame whose sound is shorter than it says makes `to_raw` throw, and the
turn ends there as long as that frame is current. Walking to a moment in a gap never ends
(`tv_frame_standard.h:58` knows). A sample with an earlier time than the first of its frame makes a
frame of 2^32 microseconds. Lines of two meters that arrive in parts mix; a line that is
not a number is put back and stays in front for good. A second recorder of an item
overwrites the list of the first.

*Data.*
Sets in the scheme of uuid lists are never read back; invalid ids are written and make the
set unreadable. Members that were emptied are not exported. Rows are read back only with exactly one
row that is not empty, the second. `force_to_extra` takes off the layers in another order than
it puts them on. The header of AES data assumes a key of 4096 bits. Whether RSA
or AES is used goes by the size alone, also for a compressed body, and taking compression off from under
RSA tears it, because `ENCRYPT_RSA` and `COMPRESS_NONE` are both 1. `del_id_buffer` compares a number of versions
with a number of bytes. `smart_id_export` always returns nothing. WAVE data are decoded with
their size in front. `add_param` with replace erases from the i-th comment its i-th character, instead of the comment.
Comparing equal numbers with fractional parts does not return. `set_settings` ignores the
arguments when the settings file cannot be read. `set_standard` assigns `start_time` to
itself, and `file::to_raw` returns nothing.

*Keys.*
A stop between the writes of the two keys, or a cut write of either, locks a node out:
`P_CRIT`, a null pointer or an exception that nobody catches, at every later start.

## 5. Proofs

| Theorem | States |
|---|---|
| `IdTierProofs!TypeCorrect` | `Spec => []TypeOK` |
| `IdTierProofs!Invariance` | `Spec => []IInv` |
| `IdTierProofs!DiskIndexIsSound` | `Spec => []DiskIndexSound` |
| `IdTierProofs!MemIndexOnlyLags` | `Spec => []MemIndexLags` |
| `IdTierProofs!ViewOnlyGrows` | `Spec => ViewGrows` |
| `IdTierProofs!QueuedIsStored` | `Spec => QueuedUntilStored` |
| `IdTierProofs!TiersImplementStore` | `Spec => ImplementsStore` |
| `IdTierProofs!VersionNamesContent` | `Spec => []VersionIdentifiesContent` |
| `IdTierProofs!LoopPersistsAlways` | `Spec => []LoopPersists` |
| `NetSocketProofs!InStreamAlways` | `Spec => []InStream` |
| `NetSocketProofs!OutStreamAlways` | `Spec => []OutStream` |
| `NetSocketProofs!StaleIsFlushedAlways` | `Spec => []StaleIsFlushed` |
| `NetLinkProofs!EscapeRoundTrip` | `Unescaped(Escaped(v)) = v` for every vector of bytes |
| `NetLinkProofs!WholeFramesCut` | any number of whole frames is cut apart into their datagrams, and the rest is kept |
| `NetLinkProofs!LinkInStep` | `Spec => []InStep` |
| `NetLinkProofs!LinkImplementsChannel` | `Spec => ImplementsChannel` |
| `NetHttpProofs!OneAnswerAlways` | `Spec => []OneAnswer` |
| `NetHttpProofs!InOneListAlways` | `Spec => []InOneList` |
| `NodeProofs!NodePeersBoundOnce` | `Spec => []PeersBoundOnce` |
| `NodeProofs!NodeDatagramsOnce` | `Spec => []DatagramsOnce` |
| `NodeProofs!NodeTypeOK` | `Spec => []TypeOK` |
| `NodeProofs!NodeCommandsKept` | `Spec => []CommandsKept` |
| `NodeProofs!NodeHeardInOrder` | `Spec => []HeardInOrder` |
| `NodeProofs!NodeRecordedKept` | `Spec => []RecordedKept` |
| `FormatProofs!NodeKeepsItsKeys` | `KeysSpec => []KeysStay` |
| `FormatProofs!DataIsOpened` | `TransportSpec => []SealsOpen` |
| `FormatProofs!FramesInOrder` | `FramesSpec => []VectorsInv` |
| `FormatProofs!WalksRight` | `FramesSpec => []ListsWalk` |
| `FormatProofs!ScrollRight` | `FramesSpec => []ScrollFinds` |

### The tiers

For every finite set of ids, any number of disk states and any order of tier states, all
bounds and all faults. Assumptions: those of `IdTier` (`IdsAssumption`,
`TiersAssumption`, `BoundsAssumption`, and for `LoopPersistsAlways` also `OrderAssumption`),
which TLC evaluates on every run of `MCIdTier`.

The argument. `TypeOK` is not inductive: that a version stays within `Mods` after one
more edit needs that no copy anywhere is newer than the number of edits so far, and
that `ShiftTake` finds the answer it takes needs the control point to be tied to the
queue. `IInv` has four parts:

* `DataInv`: objects, indexes and files are of the past (`0..edits`), the memory
  index lags behind `id_vector`, and each disk index names existing files;
* `QueueInv`: queue entries are of the past, and what is on its way out carries a
  payload that imports (no torn and no empty copy), so that a write makes the file the
  index is about to list;
* `EnvInv`: counters, `born` and history are within their sets;
* `CtlInv` and `Answered`: the return point of a running medium loop, the positions
  in a move list, and that the thread is at (or returns to) `take` only when the
  request of the current move is in the inbound queue.

One lemma per action (`CreateInv` to `CrashInv`) shows that it preserves each part;
`NextInv` collects them. The theorems on `DiskIndexSound`, `MemIndexLags` and
`TypeOK` are consequences. `ViewOnlyGrows` uses that a lookup returns the object with
the least index, which an append cannot change (`VersionAppend`) and an edit
increments (`VersionEdit`, resting on `MinUnique`); `QueuedIsStored` that an entry
is removed only at the position that has just been written.

### The tiers as a store

For the same constants and faults. That every step of `IdTier` is a step of `VersionStore` or
leaves it alone does not follow from `IInv`: an append to `id_vector` is a `Load` only if the file
it came from is still there and intact, and a write is a `Persist` only if the users have seen that
version. `RInv` says where copies on their way have come from:

* `CopiesKnown`: what goes to a disk, and what memory has answered, is a version a lookup has
  reached (`Seen`); what goes to memory, and what a disk has answered, is what the file holds, as long
  as its object is not in memory (`Fresh`);
* `BornFirst`: no object, file or copy has an id that was never created, so that a creation is a
  `New`;
* `MovesKnown`: moves are between memory and a disk, so that each answer goes where it is good for.

These last because of `Forward`: short of a restart no version goes back, and a file is only written
while its object is in memory (`StepForward`), so that a `Fresh` copy stays fresh until it stops
mattering. One lemma per kind of step (`StoreCreate` to `StoreCrash`) maps it; all other steps change
neither `id_vector` nor the folder.

### Contents of versions

`VersionIdentifiesContent` is about every copy at once: objects, both queues of every tier state,
files. It is not inductive, as an edit makes a new version from whatever a lookup finds:
`EditsNewest` adds that this is the newest of all readable copies. The proof has two halves.

* Nothing but `Create` and `Edit` makes content: every readable copy after a step was there before it,
  or is the new object or the edited one (`CopySources`, from `QueueSources`, `ObjectSources` and
  `FileSources`). A cut write makes no readable copy.
* What comes into memory is the newest (`SeenNewest`), unless `hist.stale` says otherwise. With nothing in
  memory, all copies in queues are of files as they still are (`StoredWhenUnseen`, from `CopiesKnown`), so that
  comparing the loaded version with the folder is enough. An edit then makes a version that no
  copy has, and a creation is of an id of which there is no copy (`NothingUnborn`).

The exception is real: `get_id_ptr` takes the version that the first disk lists, and nothing
compares the two indexes.

### What a loop persists

`LoopPersists` speaks of the end of an `id_tier_loop`; `PersistInv` says at each step of it what
is still to be done. Let `e` be an entry that the memory index listed when the loop began, and `d` a
disk state. Until the folder has `e.mod` or a newer version (`Written`, which stays true:
`FilesStay`), the entry is `Tracked`, in one of three ways:

* `Ahead(d)`: the loop still comes to the pair of memory and `d`. `OrderAssumption` gives that at
  the start: `id_tier_loop` gets all tier states from the type cache. When the pair is visited, `MoveFound` shows that
  `tier_standard_move_logic` lists `e`: an index of a disk names no missing file (`DiskIndexSound`), so that the version
  it has of `e` is older;
* `Pending(d, e)`: the shift is in progress or among those left. The request cannot fail: memory
  answers in the same call (`MemAnswers`, `MemFetch`), from the object a lookup finds, and that object is at
  least as new as `e`. `Backed` is needed here: a copy newer than what a lookup finds has come from the
  folder, so then `e` is written;
* `Queued(d, e)` and `Engaged(d)`: the copy is in the outbound queue of `d`, and `d` either runs its
  loop or is blocked (`Wedged`). As no write has failed, the running loop is always at its first entry (`LoopState`), so
  that it does not end before `e` is written; and a blocked disk stays blocked, because the entry without an answer
  is never taken (`TakeEngages`) and stops each call again (`FilledWedge`).

At the end of the loop nothing is ahead or pending and no loop of a tier runs, so an entry that is not written
finds every disk blocked, which is the exception `LoopPersists` names.

### Sockets

For streams of any length, sends of any sizes, any window and any behaviour of the peer.
Assumptions: `WindowAssumption`, `ChunksAssumption`, `MaxAssumption`, which TLC evaluates on
the runs of `MCNetSocket`. `SocketInv` adds to the three properties the types and what the
threads rely on without saying so:

* `CopyIsBuffer`: from the copy to the clear the mutex is taken, so that the copy the send
  thread works on is still `send_buffer`, and nothing of the buffer is marked as
  sent while the mutex is free. Without it `OutStream` is not inductive: `SendDone` clears a
  buffer that may have grown since it was copied. It is the reason the mutex has to be held across the
  blocking send, which the scenario of `CallReturns` pays for;
* `ChunkInHand`: the recv thread holds bytes only between `SDLNet_TCP_Recv` and the append;
* `ArgIsNext` and `ClosedIsQuiet`: who calls `send` continues the stream, and nobody calls it
  after a disconnect.

The steps are identities of streams: a byte goes from the front of one to the end of the one before
it (`ByteMoves`), a stream is its first bytes and the rest (`SplitStream`), the numbers of a
longer stream begin with those of a shorter one (`NumbersGrow`). `StaleIsFlushed` follows from
`OutStream` by counting (`OutLengths`): an empty buffer, even one read without the mutex, leaves nothing
that has been said and is not accepted.

### Escaping and the link

For every set of datagrams that are not empty and fit a header of four bytes, every number of
them, and every way to cut the stream. Assumptions: `PayloadsAssumption`, `MaxAssumption`,
`LengthAssumption` (a length whose first byte does not fit a byte could not be read back;
`escape_vector` takes the low 32 bits of it), which TLC evaluates on the run `link`. Where the set has
no `Fragile` datagram, the two theorems are about a channel that never breaks.

`EscapeRoundTrip` is about the two loops of `escape.cpp`. The erasing loop looks only at whether the
last byte kept is an escape character that nothing has used up (`Starts`), so that the escaped text and the text itself
end alike (`SameEnd`): with that, one more byte keeps the round trip. `WholeFramesCut` goes
by the number of frames: a whole frame is taken off the front (`UnescapeVector` of a frame and
what follows it), and what remains is one frame less.

`LinkInv` says, as long as nothing is `lost`, that what has arrived is a prefix of what was sent, that the
bytes on the way (`Coming`: what the last call left, the receiving device, TCP, the queue of the sender) are the
frames of the rest, and that what the last call left is no whole frame (`Held`). Only `RecvAll` needs the codec: the bytes in
hand are whole frames and a piece that is not one (`CutAnywhere`), and by `WholeFramesCut` they become exactly the
datagrams that are missing; the piece begins with the escape character (`HeldBegins`), so that nothing throws.
A piece that is dropped (`LossStep`) equals the one in hand, and both together begin the frame of the first
datagram that is missing and the next one: that is what `Fragile` says, and it stays true of what was sent
(`LostStep`). `InStep` follows, and so does the refinement: `Send` puts a
datagram at the end of `Channel`'s queue, `RecvAll` takes as many off its front as it cuts or breaks it, the threads of the
sockets change neither.


### HTTP

For any number of clients, any size of a response, any kinds of request and whatever the
clients do. Assumptions: `KindsAssumption` and `SizeAssumption`, evaluated on the runs of
`MCNetHttp`. `HttpInv` has, besides the types:

* `Listed`: the lists are apart in every state. While `push_conn_to_file` works, the connections
  without a driver state are those of its copy (`Unbound`), and the list the copy was taken from, which still names
  those that have been bound meanwhile, does not count: `InOneList` holds between two turns only because
  the copy is written back before anybody reads the list;
* `NotYet`: who has not connected is in no list, and who waits to be accepted has no thread yet,
  so that `accept` starts the threads of a connection once;
* `Account`: the bytes of a response that was handed over are with the socket or with the
  system, until the connection breaks; a connection is closed with none left.

What makes the steps go through are facts about lists without repetitions: taking an entry out removes its
connection (`RemoveAtOnce`), and appending a list that shares nothing with it keeps it free of repetitions.

### Peers and datagrams

For every set of peers, consoles and meters, every limit of devices and every budget, with
everything else the node does in between. Assumptions: `PeersAssumption`,
`KindsAssumption` and `BudgetsAssumption`, which TLC evaluates on the run `node`.
`NodeStep` says once what a step of the node can do to the network: a step of the main
thread in the network, a call, a datagram, a learned peer, a step over the tiers, or
nothing; all other lemmas are about these.

`BoundInv` adds to `PeersBoundOnce` the types and that a state's device exists
(`DevicesThere`): a new state has the next free number, and without `DevicesThere` an
earlier state might have it already. That a new state has a new peer is
`UnboundPeer`, from the guard of `BindPeer`; everything that leaves devices open and with
their address keeps the property (`KeptStates`), and one more state keeps it if it is
like this (`OneMoreState`).

`MailInv` adds to this that each device is `MailWell`: what has left `inbound_data` was
handled once, what is behind the first bad datagram never. `DatagramsOnce` is what follows from it.
The work is in one lemma (`WalkedMail`): a walk handles a contiguous piece behind what
has been handled before, or the same piece again in front of a bad datagram.

### Types of the node

`NodeTypeOK` is where the theorems about the node meet: `NodeInv` is the conjunction of
`StationInv`, `ConsoleInv`, `LoopTyped`, `MailInv` and the budget, and one lemma per action
shows that each keeps it. That a window's frame exists is the part that takes work, because
a window moves to wherever a walk ends. For any number of clients, peers, meters, frames and commands;
assumptions: those of the modules of `Node`, evaluated on the run `node`. What `RecorderAssumption`, `StationAssumption` and
`BudgetsAssumption` ask for is that the sets of meters and clients are finite and the lengths are natural numbers.

`StationInv` says that every frame has a time and lists of frames that exist, and that those of the clip
are as loading made them (`FramesInv`): each is linked to the next and begins where the
one before it ends. So the walk to a moment, which has no bound in the code, ends
here: `Ahead` is the number of rounds it still has to make, back to the first frame of
the clip and on from there, and each round makes it smaller (`WalkEnds`). A frame that was recorded
has at most one neighbour behind it, and the walk stays where it is.

### Commands

`ConsoleInv` says of each client who waits for its lines: the commands are those it has run and
`r`, and the bytes in its buffers and in the stream are the lines of `r` (`Waiting`); and that a line end in
its buffer is the last byte there, and only there while its lines are run (`EndsOnce`). The
last part makes the rule of `Left` harmless: a line is erased with whatever follows it
if that is two bytes at most, and here nothing follows it. That no command contains a
line end (`CommandsAssumption`) makes the first line end in the buffer that of the first command.

### Sound

`SoundInv` speaks of a node whose console has run `play` at most once (`SoundKeptInv` ties the two: a
second run would add a second window, and then `HeardInOrder` claims nothing). One window plays; the frames that were
pushed are not behind the one it shows; what is left of each in `playback_vector` is the end of its
samples (`LeftOf`). Two facts carry the proof. The last entry is the one that starts last, so that all in front of it
are older and a push goes behind all of them, whatever the sort does
to entries that are equal. And what was heard is in front of what is left of the last entry (`HeardBefore`). Only that entry is ever
due: its frame had begun when it was pushed, and the frames before it have ended
then. A callback takes the next samples of it, or reaches the end of the
vector, after which `HeardInOrder` makes no claim.

### Recordings

`RecordInv` speaks of a node whose console has run `record` at most once. The frames behind the item's are
one chain (`ChainLinked`), the window that records is at its end (`LastRecorded`), and the
fronts of the frames, the samples of the sink and the lines in its buffer are, one behind the other, what the meters
sent. `ByDistance`, by which the property finds the frames, is a walk with a bound; it lists the whole chain
because no frame occurs twice in it (`ChainWalked`). A pull makes frames out of the samples and keeps the
last sample for the next (`Front`); accepting and reading lines only moves samples from the buffer to the
sink, as long as lines arrive whole (`WholeInv`, `RowRead`).

### Keys

For any number of disk states, pairs and faults. `KeysInv` has, besides the types,
`LastPairOnly` (a private key in the folder is that of the last pair, and stays if its
pair has been on disk) and `StartIsKnown` (a damaged file, and a missing public key while no process runs, are in
the history). One lemma per action. Assumption: `BootstrapAssumption`, evaluated on the
run `formats`.

### Layers of encryption and compression

For every object, rule, key (of any length), size that zstd compresses to and order of calls; assumption
`TransportAssumption`. `SealInv` says
that what travels has the layers its extra byte names (`Layered`), in one order or the other, and that only what counts as
encrypted may be torn. From the
layers alone follows whether `force_to_extra` can open them (`ForceOpens`), which are the exceptions that `SealsOpen`
names. What the ciphers do is not part of it: sealed bytes are a value that remembers what it was made of.

### Lists of frames

For deliveries of any number of frames, any number of times, any `Depth` and any gaps; assumption
`FramesAssumption`, evaluated on the run `formats`. `VectorsInv` has three parts:

* `BatchesInv`: the vectors are intervals of frames, one behind the other, and cover them all;
* `ChainsInv`: the list in front of a frame is empty at the start of its vector and otherwise begins with the
  frame `Depth` before it, or the first of the vector; the list behind begins with the next
  frame, in whatever vector that came; nothing in front is newer (`Chained`);
* `SpansInv`: a frame lasts `Span` and begins when the one before has ended, or later.

`VectorLinked` says what `link_vector` makes of any vector of frames without lists, which is where its three
ways (one frame, two, more) and its assertions are dealt with; a delivery then only adds the vector behind
the last frame (`Delivered`). The walks of `ListsWalk` are followed round by round: the frames seen forward are always the
next ones (`ForwardWalk`), backward each is where the one before leads (`Behind`), and the walk to a target
sees the same as the one without until it is there.

A search for a moment may turn once: back while the time has not come, then forth. `Left` counts the rounds
it has left: all frames in front and behind while it goes back, those behind once it goes forth. Outside a gap it falls
with every round, and starts at no more than twice the number of frames (`LeftFalls`, `ScrollEnds`), the bound at which
`ScrollToTime` calls a walk endless. A frame that lasts, or one that stands behind a gap, keeps the search from
running off the list (`Within`): hence it finds the one, and circles in front of the other for ever.

### Induction without induction theorems

Facts about all sequences or numbers are proved in set form: the set of those that satisfy a
fact contains the first one and is closed under the next (`NumberInduction`, `AppendInduction`,
`Recursion` of `SequenceLemmas`). The folds and filters of the community modules are recursive functions, whose
existence comes from the same lemmas (`Recursion` for lists, `SubsetRecursion` for finite sets), so that `FoldLeft`, `FlattenSeq`,
`SetToSeq` and the loops of `Escape` can be reasoned about for every input.

### Only model-checked

* Liveness: `EventuallyOnDisk`, `CallReturns`, `SentWhileOpen`, `EveryDatagramArrives`, `LoopTurns`,
  `EveryRequestBound`, `Answered`, `NodeTurns`, `EveryCommandRun`, `EveryDatagramHandled`. Fairness is beyond the prover.
* What functions compute for every input, where it goes through operators the prover has no facts of:
  `SelectSeq` and sorting (`IdSetsReadBack`, `SoundIsPlayed`), powers of the base in which
  sizes are written (`ObjectsTravel`, `NumbersOrdered`, `TextsReadBack`).

No module declares a `RECURSIVE` operator.


## 6. What is not modelled

* Deletion of objects with a stored copy: `del_id_from_state` only queues an operation
  that nothing processes, so no deletion takes place.
* What libraries compute: ciphers, compressors, the Opus codec, PortAudio, Tox, SDL.
* `net_interface_ip_thread.{h,cpp}` and `id_tier_network_cache_diff_*`: included by
  the code, not in the repository.
* The cache tier, smart lookup, requests, benchmark: not initialised or not called, so that
  there is no behaviour to state a property of. Likewise `DROP` of an interface, number sets and
  statistics, wallets, escrow, the download cache.
* Unlocked reads while a vector is being moved (`net_http_parse.cpp:161`): their
  outcome depends on the memory layout; listed as a hazard.
* A comparison, a scroll or a request that never returns is a value (`Never`,
  `Forever`) where it is computed; `Node` uses clips without gaps, where the walk ends.
* In `NetHttp`: several servers (`net_http_init` makes one), the driver states that a
  failing `init` leaves behind, lines, forms and the text of pages. In `Console`: registers, tables, the
  questions of `tv_manager` between two commands, and clients that leave without
  `exit` (their consoles stay for ever, `is_alive` only asks whether `socket` is set).
* The set-up in `init.cpp` apart from the keys, which runs once in a fixed order; `close.cpp`;
  input, whose key and signals only end the loop; the statistics that `loop.cpp` prints.
* A datagram that asks for a difference of the caches, which ends the process (section 4).
* UDP, NAT, the proxy setting, host names.

`PROJECT.json` says for each component what is left out of it.

## 7. Where to go on

The order in which the modules came to be is that of importance: tiers; sockets and links;
servers; the node; data and keys. What would add most now is `NetHttp` as a part of
`Node`, between `bind` and `accept`, with the changes its pages make to windows.

The next proof: the copying scheme of `IdSets`, whose sets read back for every list of valid ids. The clip
of `Station` is a vector of frames behind the item's, so that its part of `StationProofs` could be drawn from
`VectorLinked`.
