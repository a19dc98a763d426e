# A TLA+ verification of remotecmd-cli

`remotecmd` runs shell commands on other machines through a *relay*: target
daemons keep a WebSocket to the relay open and register a name and a token;
clients connect to the same relay, name a target, present its token, and get the
output back. The same connections carry files, tunnels and pairing; the same
program updates and restarts itself and keeps its configuration and a cache in
files. This directory models that system in TLA+, checks the models with TLC on
small deployments, and proves with TLAPS, for deployments of any size, the types of every
model and nearly all of their safety properties.

Everything is translated from the Go source. File and line references are to
`src/`. What the modules stand for, definition by definition, is in
`PROJECT.json` under `map`; what is hard to test in the code, line by line, is
there under `hazards`.

## 1. Inventory

### 1.1 Components

| Component | State it keeps | Operations that change state | What makes it correct | Module |
|---|---|---|---|---|
| **Relay hub** (`relay.go`, `relay_handler.go`, `relay_client.go`) | `rs.clients` (name → connection), `rs.pending` (request id → client connection and its id), per connection `rc.name`, `rc.token`, `authenticated` | register, execute, result, stream_chunk, stream_end, disconnect, unregister | the table is exact after any mixture of reconnections; a reply reaches the one client that asked; the token that was checked is the token of the daemon that runs the command | `RelayHub` |
| **Multi-target execute** (`relay_multi.go`, `handleResult`) | `rs.multiPending`, `rs.subToMulti`, `entry.remaining`, `entry.timer`, `entry.results` | fan-out, sub-result, batch timer | one answer per batch, a truthful one, and always one | `MultiExec` |
| **Target daemon** (`daemon.go`) | `td.conn`, running commands, pair code, inflight count | dial, register, run, stream, reconnect, exit on `replaced` / `disconnect`, restart on a signal | output is attributed to its own request, in order; duplicates do not fight over a name; an update does not cut commands | `RelayHub`, and the part of it that each other module needs |
| **Clients** (`client.go`, `cli_exec.go`, `cli_pair_disconnect.go`) | the request waited for | send, receive, time out | what is printed is the target's output | `RelayHub`, `Clients` |
| **Client session** (`client_session.go`) | `pending` (id → channel), closed flag | Exec, readLoop, Close | a caller gets its own reply or an error, never waits on a dead socket | its protocol only, in `RelayHub` |
| **File transfer** (`filetransfer*.go`, `daemon_filetransfer.go`, part of `relay_handler.go`) | chunk routes of a connection, the daemon's reassemblies and pending binary chunk, the files | announcement, chunks, completion, time-out | the file at the far end is the file sent, or an error is reported | `FileTransfer` |
| **Write queue** (`relay_client.go`) | `writeQueue`, `writeErr` | startWriter, sendRaw*, closeWriter | order of frames, no send after close | `FileTransfer` |
| **Tunnels** (`tunnel*.go`, `relay_tunnel.go`) | `rs.tunnels`, `td.activeTunnels`, `ct.activeConns`, `ct.pendingOpens`, `ct.conn` | open, opened, data, close, reconnect | bytes arrive in order and without a hole; a closed tunnel is gone at all three parties | `Tunnel` |
| **Pairing** (`pair.go`, `activation_keys.go`, `daemon.go`, `handlePair*`) | `rs.pairListeners`, the cached activation keys, the key file, the `pair_code` file | pair_listen, pair, retry, confirm, expire, add-key, remove-key | a listener gets one daemon, with a valid key; a code is not lost by a failed attempt | `Pairing` |
| **Update** (`update.go`, `procupdate.go`, `restarthelper.go`, `signal_*.go`) | the binary, its `.bak`, the running processes | install, restart, confirm, roll back | afterwards some working version runs | `Host` |
| **Background processes** (`daemonize_*`, `spawn_*`) | PID files | start, stop, status | at most one daemon; the PID file names it | `Host` |
| **Configuration** (`config.go`, `cli_config.go`) | `config.json` | load, change, save | no change is lost, groups hold targets | `Clients` |
| **Health, versions** (`health.go`, `daemonversion.go`) | `health.json` | probe, merge, note, save | what is listed was answered; the last version is kept | `Clients` |
| **MCP server** (`mcp*.go`) | none of its own that matters here | tools/call | a tool says what the daemon said | `Clients`, in part |
| Service managers (`systemd.go`) | unit files | install, remove | what exits is started again (`Restart=always`) | that much in `RelayHub` |
| Aliases, command line | files | wrappers, flags | pure I/O | none |

### 1.2 How they interact

All communication is JSON messages, and binary frames for chunks, on WebSockets.
The relay runs one goroutine per connection (`handleWS`): it reads a frame,
dispatches it to a handler, and the handlers meet in the maps of `RelayServer`,
guarded by the one lock `rs.mu`. Several of them release the lock between a
lookup and its use, and one writes a map under the read lock. File chunks leave
the relay through a queue with a goroutine of its own, which every transfer to
one daemon shares. A daemon runs each command, each tunnel and each pairing offer
in a goroutine; these share `td.conn`, which `run` replaces at every reconnection,
so that work started on one connection answers on another. The end of a
connection is noticed by either side on its own, in any order, and the relay's
handler of an old socket runs `unregister` when it likes.

On one machine, invocations of the program share files: `config.json`,
`health.json`, the activation keys, the pair code, PID files and the binary
itself. None is locked, and only the binary is replaced by a rename.

### 1.3 What is hard

Stale sockets and late `unregister`; take-over of a name by a duplicate;
commands that outlive the connection they came by; replies to clients that have
stopped waiting and asked again; the race between the last result, the batch
timer and the assignment of `entry.remaining`; partly failed fan-outs; a queue
that is overtaken when it is full and closed while others use it; a file shared by
streams that do not know of each other; frames that come before the socket they
are for is registered; a listener that is taken out of a table and put back; files
that are read between truncation and write, or written over from an old copy; a
binary that is swapped, restarted and rolled back by several invocations at once.

## 2. The modules

| Module | What it is |
|---|---|
| `ExecService` | abstract specification: what a caller of `execute` may rely on |
| `RelayHub` | relay, daemons and clients, connection by connection, and their properties; instantiates `ExecService` |
| `MultiExec` | `execute_multi` at the relay, lock by lock |
| `FileTransfer` | `cp`: client streams, the relay's read loops and write queue, the daemon's reassembly and disk |
| `Tunnel` | `tunnel`: client, relay and daemon, goroutine by goroutine, with both relay connections lost and regained |
| `Pairing` | `pair listen`, `pair accept`, the key commands, `handlePair`, the daemon's offers |
| `Host` | one machine: `daemon start`, `stop`, `status`, `update`, `daemon update`, the restart helper, the daemons' processes, the disk |
| `Clients` | the invocations on a client machine and the two files they share |
| `MCRelayHub`, `MCMultiExec`, `MCFileTransfer`, `MCTunnel`, `MCPairing`, `MCHost`, `MCClients` | constants and scenarios for TLC |
| `RelayHubProofs` | proved: types, the exact routing table |
| `RelayAuthProofs` | proved on top of it: authorisation, what can replace a daemon, that the hub implements `ExecService` with each output that of its own run, and that streams are shown as they were printed |
| `MultiExecProofs` | proved: types, the counting of results, the single answer, its truth |
| `PairingProofs` | proved: types, one daemon per listener, valid keys, codes that are kept |
| `ClientsProofs` | proved: types, and what overlapping commands keep in `config.json` and `health.json` |
| `TunnelProofs` | proved: types, and streams without holes |
| `FileTransferProofs` | proved: types, chunks that stay in their file and place, the queue's end, and that a copy reported to have succeeded is the source |
| `HostProofs` | proved: types, a binary that runs, PID files, restarts that wait, and that no daemon is left without a process that works |

The modules meet where the code does. `RelayHub` has connections and the
registry in full; `FileTransfer`, `Tunnel` and `Pairing` take from it what they
need (one daemon, its successive connections and its entry in `rs.clients`) and
add the handlers of their own messages. `Host` and `Clients` stand beside them:
what a machine's files do to what runs there.

Two conventions of the newer modules. *Scenarios*: what the users do and what may
fail is a record `scn`, taken in `Init` from the constant `Scenarios` and never
changed, so that one run explores many small set-ups without exploring their
product. *Causes*: where the code breaks a promise in circumstances that can be
named, a history variable (`why`, `lost`) collects the circumstances that applied,
each set in the action where it arises, and the property holds *unless* one of
them did. Such a property is stronger than it looks: it says that these are all
the ways. No action reads a history variable.

### 2.1 RelayHub

**Sockets.** A client has one connection `<<cl, 1>>`, a daemon one for every dial,
`<<d, 1>> .. <<d, MaxDials>>`. `peerEnd[c]` and `relayEnd[c]` say whether each end
is open, `up[c]` and `down[c]` are the frames under way. A frame arrives only if
both ends are open; a write to a socket whose far end has gone may fail or may
succeed and be lost (`SendFails`, `SendReturnsNil`). When a peer abandons a socket,
any prefix of what it wrote still reaches the relay (`Abandon`).

**Relay.** `clients`, `pending` and `reg` are `rs.clients`, `rs.pending` and the
`name`/`token` fields of the connections. `h[c]` is where the handler of `c`
stands: `read` is the read loop; a handler that releases `rs.mu` between two
effects has one position for each part:

| Code | Actions |
|---|---|
| `handleWS`, no secret and a client-only message | `RejectClient` |
| `handleRegister` | `RejectRegister`; `AcceptRegister` (map, take-over notice, under the lock), then `Deliver` of `registered` |
| `handleExecute` | `LookupFails`; `LookupFinds` (RLock), `InsertPending` (Lock), `ForwardSent` or `ForwardFails` |
| `handleDisconnect` | `LookupFails`; `LookupFinds`, `ForwardKill` |
| `handleResult`, `handleStreamChunk`, `handleStreamEnd` | `HandleReply` (Lock), `Deliver` |
| the read fails, `unregister` | `HandlerEOF`, `HandlerBreak`, both by way of `Unregister` |
| the process ends and comes back | `RelayRestart` |

**Daemons.** `run` is `DaemonDial` (from here on `td.conn` is the new
connection, and commands of earlier ones write to it), `DaemonRegister`, and the
read loop: `DaemonCommand`, `DaemonNotice`, `DaemonExit`; it ends with `DaemonEOF`
or `DaemonBreak`. The daemons in `Supervised` run as the service the program
installs, whose unit says `Restart=always` (systemd.go:27): they may crash
(`DaemonCrash`), and whatever made them exit, a `replaced` notice and the kill
switch included, they are started again (`SupervisorRestarts`). Another daemon that
dies is one whose connection breaks and that takes no step any more. A command
(`job`) prints chunks and may end (`EmitChunk`, `EmitFinal`), on whatever
connection the daemon has at that time; nothing forces it to end (3.4).

**History.** `origin` is who asked for a request id, `heard` the run whose output a
client took for its answer, `replaced` the connections that lost their name, and
`overtaken` those that lost it to an *older* socket of the same daemon. No action
reads them.

**Clients.** `ClientSend`, `ClientRecv` with the filter of the reader goroutine
(`Accepts`, `ReturnsOn`), `ClientTimeout`, `ClientClose`. A client may go on to
send on the same socket, as a session does; the stream reader is the one of
`client.go`. `pair disconnect` dials a socket of its own and sends one message
(cli_pair_disconnect.go); an answer to it has no id, so that on a shared socket it
could end another request's wait.

Abstractions. A frame is its type, its id, the execution whose output it carries
(`run`) and a sequence number; the words of an output are not modelled. `newID`
draws 128 random bits and is taken never to repeat. A configured secret without an
exempt list is checked before the upgrade; the model connects and then
rejects, which no peer can tell from its answers. Names and tokens are fixed per
process, because each comes from that process's configuration.

### 2.2 MultiExec

One `execute_multi` per caller; one without targets, or without a command
(`NoCommand`), is answered with an error and leaves nothing (`Refuse`). `pc[m]` is the position of `handleExecuteMulti`;
`created`, `loop`, `insert`, `send`, `unlocked`, `arm` lie between its
accesses to shared state. The loop over the targets holds the read lock, so the
actions that take the write lock (`Create`, `TimerFires`, `HandleResult`,
`NothingPending`, `TargetLeaves`, `TargetJoins`) wait for every loop, while two
loops run side by side. A Go map write under RLock has an action for its beginning
and one for its end; two of them at once may end the process (`MapRace`).
`entry.remaining` is set outside any lock, after the results may have begun to
come in; so is `entry.timer`. Daemons answer or never do. `handleResult` stops the
timer after it has unlocked (relay_handler.go:289-294); the model does so in the step
that deletes the entry, because a timer that fires in between looks the entry up,
finds none and does nothing.

### 2.3 ExecService

A request is made once, runs at most once, and only where its caller is entitled;
it is answered at most once. Output comes from its own run; a refused request has
not run and never will. `RelayHub` refines it with the mapping at its end: the
runs of a request are the executions of the request ids drawn for it, the reply
is what the client was told, and the output is the execution the frame that answered
it came from (`heard`), which the abstract `Reply` requires to be the request's own
run: two requests at one daemon that were answered with each other's output would
violate it.

### 2.4 FileTransfer

A scenario says what is copied: for each transfer its mode (`scp` over one
connection, `par` over `Streams` connections, `rsync` as an archive), its size in
chunks and its destination, what the destination holds before, and whether the
file can be created (`writable`), a write may fail (`full`), a client is killed and
its copy repeated (`kill`), and the daemon loses the relay (`drop`).

| Code | Actions |
|---|---|
| `handleFileTransfer` at the client and the relay | `RelayAnnounces` |
| `handleFileChunk` at the relay, `sendRawHeaderAndBinary` | `RelayDropsChunk` (no route); `RelayTakesQueue`, then `RelayEnqueues`, `RelayWritesSync` (no queue, or a full one) or `RelayPanics` (closed in between) |
| the goroutine of `startWriter` | `WriterWrites` |
| `handleFileTransferResult`, `closeWriter` | `RelayRelaysResult` |
| a client's or a daemon's connection ends at the relay | `RelayEnds`, `RelayUnregisters` |
| `beginChunkedTransfer`, `handleFileChunk`, `handleBinaryChunk` with `writeChunkData` and `finishReassembly` | `DaemonBegins`, `DaemonReadsHeader`, `DaemonReadsPayload` |
| the wait for the result in `handleFileTransfer` and `sendFileParallel`, its time-out, the process killed | `ClientReads`, `ClientTimesOut`, `ClientDies` |
| `run`: the connection lost, dialled again | `LinkBreaks`, `DaemonReconnects` |

A file is a sequence of cells; a cell is the chunk it holds (transfer and number),
a preallocated zero or old content, so that a chunk in the wrong file, at the wrong
place or missing can be told. The client reads nothing until it has sent
everything, so sending a chunk and reading it at the relay are one step. `why`
collects why a copy may be reported to have succeeded and not be the source:
`overtaken` (written before a chunk of it that was still in the queue), `shared`
(another transfer to the same file), `recreated` (a stream began after an earlier
one had finished, and created the file again), `unopened` (the file of a parallel
copy could not be created), `full` (a write failed and was diverted to a buffer),
`tail` (an archive member written over a longer file).

### 2.5 Tunnel

One tunnel is one local TCP connection. `loc` and `rem` are the two ends
(`handleLocalConnection`, `handleTunnelOpen` and `tunnelReadLoop`); a write to
either socket may fail, since the program behind it may have gone at any time, and
closes that end (`AfterFrame`, `WriteFails`). `cl` and `dm` the relay connections of client and daemon with a counter of dials, `sess`
is `rs.tunnels`. The frames of the four directions are queues that are emptied
when their connection breaks.

| Code | Actions |
|---|---|
| `handleLocalConnection` | `LocalOpens`, `LocalAnswered`, `LocalRefused`, `LocalGivesUp`; `LocalStores` (`activeConns.Store`); `LocalPipes`, `LocalEnds` |
| the client's `readLoop`, `dropConn`, `maintain` | `ClientReads`, `ClientDrops`, `ClientRedials` |
| `handleTunnelOpen` at the relay | `RelayLooksUp` (under the lock), `RelayForwardsOpen` |
| `handleTunnelRelay`, `handleTunnelClose` | `RelayFromClient`, `RelayFromDaemon` |
| `handleRegister`, `unregister` | `RelayRegisters`, `RelayUnregisters` |
| the daemon's `run`, `handleTunnelData`, `closeTunnel` | `DaemonReads`, `DaemonRedials` |
| `handleTunnelOpen`, `registerTunnel`, `tunnelReadLoop` at the daemon | `DaemonDials`, `DaemonStores`, `RemotePipes`, `RemoteEnds` |
| external | `PeerLeaves`, `ClientLinkBreaks`, `DaemonLinkBreaks` |

Payload is counted: the k-th piece read from a socket is the number k, so that a
hole or a swap can be seen. The causes: `early` and `soon` (a frame came before the
local, or the remote, socket was registered), `relink` (the daemon lost its relay
connection), `lost` (the client did), `late` (it did when `tunnel_opened` was there
and `activeConns.Store` was not yet done), `gave up` (the client's time-out).

### 2.6 Pairing

`tab` is `rs.pairListeners`, `hand[d]` is `handlePair` in the read loop of daemon
`d`: `Takes` (the listener is taken out under the lock); `Stats`, `Reads`, `Stores`
and `Checks` are `activationKeyStore.isValid`, between whose parts no lock is
held, with the two ways it may go wrong: `Clears` (there was no key file: the cached
keys are dropped, their time stamp stays) and `ReadFails` (the file cannot be read:
the old keys stay). A scenario may begin without a key file (`bare`) and may let
reading fail (`unread`), once for each daemon; a key command that cannot read the
file takes it for empty. `Rejects` puts the listener back, `Matches` tells both. The key file is
rewritten by `CliReads` and `CliWrites`, in two steps, since `os.WriteFile`
truncates first; so is the code file by `Accepts`. The daemon's `Offers` and
`Sends` are `sendPairIfNeeded` (read the files, send what was read), `Retries`
and `Expires` are `pairRetryLoop`, `Confirmed` is the `pair_confirmed` case of
`run`. The causes for which a code is given up without a pairing: `expired` (24
hours), `young` (deleted as expired although it was left later: the loop took its
start from an earlier code), `deaf` (confirmed although the listener had
gone), `crossed` (the confirmation of one code deletes another). Of the key cache:
`raced` (set back by a slower reload), `unread` (the file could not be read), and
`cleared` (a reload that had found no file cleared what another had stored since).

### 2.7 Host

Invocations (`inv`) are processes with a program counter before their next access
to what they share: processes (`proc`), PID files (`pidf`) and the binary (`file`
names inodes, `ino` is what they hold). Files are inodes because two invocations
write *one* temporary file, and a rename takes away what another is writing.

| Code | Actions |
|---|---|
| `isRunning` | `Probes`, `Sweeps` |
| `startBackground` | `Spawns`, `Truncates`, `Writes`, and `WriteFails`, which kills the child |
| `stopBackground` | `Terminates`, `GivesUpWaiting`, `Unlinks` |
| `handleUpdate`, `handleProcUpdate`, `installRelease` | `Updates`, `Downloads`, then `copyFile` as `CopyOpens`, `CopyWrites`, `CopyRenames`, any of which may fail (`CopyFails`), then `Swaps` |
| `restartProc` | `Restarts` (`Signalled`, or a helper is spawned) |
| `handleRestartHelper`, `startAndConfirm` | `HelperStops`, `HelperStarts`, `HelperConfirms`, `HelperRescues`, and `copyFile` again |
| `listenForRestartSignal`, `waitIdle` | `Notifies`, `MinutePasses`, `GoesIdle`, `Reexecs` |
| commands and transfers at a daemon | `WorkArrives`, `WorkEnds` |

`usr2` says how far a restart in place has come: `sent`, `late` (a minute has
passed), `idle` (`waitIdle` has returned). `more` is a second signal, which the
channel keeps; it is lost in the exec, and taken if the exec fails and the process
goes on (`Continued`). `FirstPid` says which pid each daemon has at first.

The causes: `double` (started while one ran), `swept` (a PID file removed on the
strength of an earlier look), `moved` (a helper kills the daemon, maybe before its
start has written the PID file, starts another and writes none), `again` (a second
update writes `.bak`), `crowd` (two helpers roll back one binary), `rolled` (a
helper has begun to roll back), `failed` (the copy of a rollback failed, with the
binary renamed away before: "ROLLBACK FAILED", restarthelper.go:91-95), `unready`
(SIGUSR2 before `signal.Notify` kills the process, maybe before its start has
written the PID file).

### 2.8 Clients

A shell runs a script of invocations one after the other; two shells share
`config.json` and `health.json`. A command that edits is `Loads` (load, check,
change), `Truncates`, `Writes`; `set-relay` does it twice. A file between
truncation and write is `Half`. `os.WriteFile` writes at offset 0 of what is there by
then (`Written`): after two truncations the text that is written last may be the
shorter one, and the tail of the longer stays behind it. Such a file is `Torn`; it
cannot be parsed, any more than `Half`, and only the cache is ever written again by
a command that could not read it. `Finds`, `Finds2` and
`Asks` are the loads and the request of `exec`, `exec --group` and the MCP tools;
`Notes` is `noteDaemonVersion`. `list-targets` is `ListLoads`, `ListResolves`,
`ListAsks`, `ListProbes`, and both save the cache by `HTruncates` and `HWrites`.
The relay and the daemons are external: of those asked, any may answer.
`known` remembers for each alias the version a save recorded last; it is reset by a
save that was based on a cache read before somebody else's save or half-written.

## 3. The runs

Every passing run explores its whole state space. Deadlock is not checked: a
deployment in which everybody has done what it had to and nothing breaks any more
rightly stands still.

| Run | Shows | Instance, and why it is enough |
|---|---|---|
| `hub_reconnect` | types; the table is exact; a stream reported complete is the one asked for, unmixed, without repetition, and whole and in order unless the daemon dialled again | one supervised daemon with two connections, a client with two requests on one socket (`execute`, streams or a `pair disconnect`), two-line streams, time-outs and failures of every kind. Two connections are a stale and a fresh one; two requests, an old and a new one; two lines can be put out of order |
| `hub_takeover` | exits as "replaced" only with a duplicate or after a late register frame; one daemon is routed to for good | two daemons with the same name and token, one supervised, five connections each: 3.3 |
| `hub_answered` | no command reaches a daemon whose token its client does not have; every request is answered if nothing breaks, or its command goes on; the contract of `execute`, with the output that of the request's own run | two daemons with one name, which the relay's secret exempts, and different tokens; two clients at one of them, so that replies can be crossed, either of which may switch it off (and so let the other daemon have the name) while the command of the other is between check and send; a third client without the secret. That the contract also holds when things break, for any number of requests, is proved (`ServiceImplemented`) |
| `multi_race` | types; every batch is answered, once, with the truth, and not later than it could be | three callers, one without a command, two targets: one named twice, to which each send may fail, a wrong token, silent targets, map race included |
| `copy_chunks` | types and queue capacity; chunks stay in their file and place; the queue is closed only by others; success means the source; every copy ends | 19 scenarios: each mode alone with fewer, as many and more chunks than the queue holds, an empty file, fewer chunks than streams, two copies beside each other to different files and to one, and each failure |
| `tunnel_pipes` | types; both streams whole; hang-ups and lost connections are passed on | one tunnel, two pieces each way, two relay connections at each side, local sockets whose writes may fail; no failure, each alone, and all together. Tunnels share no state but the connections, which one tunnel sees lost at every point of its life |
| `pair_codes` | types; one daemon per listener; only valid keys; codes are kept; who waits is paired | 12 scenarios of two listeners and two daemons: rivals for one code, a change of code, keys required, added and removed during the check, a key file that does not exist yet or cannot be read, a listener started again, a day that passes |
| `host_machine` | types; the binary runs; PID files; no daemon left down; commands not cut; everything ends | 50 scenarios: every pair of start, stop and status; updates in place with work and beside another invocation; updates by helper, of a release that comes up or not, or slowly; two daemons of one binary; two updates of one daemon. Every copy and every write of a PID file may fail |
| `client_files` | types; in a file that can be parsed, what nobody is about is kept and groups hold targets; the last version is kept; the list is honest | scenarios of two shells with up to three invocations each, over three aliases of two daemons and one group |

Three runs show that the code does *not* do what the repository says. Each checks
one property and TLC finds it violated:

| Run | Disagreement |
|---|---|
| `hub_late_register` | "a replacement notice on the live one means another process registered this name" (daemon.go:226). The register frame of a socket the daemon has given up may be read after that of its new one: the relay takes the name over for the dead socket and tells the live one. The only daemon exits. |
| `multi_premature` | A result handled before `entry.remaining` is set (relay_multi.go:90) sends the aggregate without the other targets. |
| `copy_writer_closed` | `closeWriter` runs when a result has come, "meaning all chunks have been forwarded" (relay_client.go:71). The result is one stream's: the queue is closed under the other stream, whose last chunk is then written at once, before the chunks of it that are still queued. The daemon finishes the stream with that chunk; the copy is reported to have succeeded and has holes. |

### 3.1 What holds only with an excuse

The properties with causes name what the code gives away. In order of consequence:

- A parallel copy may succeed with holes: a chunk overtakes the queue, a stream
  creates the file again after an earlier one has finished, or the file could
  not be created at all (`OkMeansSource`).
- A copy whose write failed is reported as done (`full`), since
  `finishReassembly` of a streamed file looks at no error.
- A parallel copy with fewer chunks than streams never ends, nor does one whose
  daemon is lost: `sendFileParallel` has no time-out (`MustEnd`).
- A tunnel loses what comes before `activeConns.Store` or `registerTunnel`; its
  remote connection may stay open when the client gives up or loses the relay, and
  when the daemon does (`StreamsWhole`, `HangUpReachesRemote`).
- A pair code is confirmed to a daemon though its listener has gone, and a
  confirmation deletes whatever code is on file by then (`CodeKept`).
- A removed key may be admitted when two reloads overlap, or while the key file
  cannot be read (`KeyWasValid`); an added one may be refused for good
  (`WaitingPairsUp`, cause `cleared`; 3.2).
- A rollback whose copy fails leaves the machine without its binary and the daemon
  down (`ExeRunnable`, `NeverLeftWithout`, cause `failed`).
- A second update overwrites the `.bak` of the first with the new release, so that
  there is nothing to roll back to; a restart in place has no rollback, and a
  SIGUSR2 that comes before `signal.Notify` kills (`NeverLeftWithout`).
- A PID file may not name the daemon after two starts at once, after a stop beside a
  start, after an update whose signal killed a daemon that had just been started, and
  always after a helper's restart (`PidFileExact`).
- `list-targets` saves over what `exec` has noted meanwhile: `VersionKept` starts
  afresh after a save that was based on an older cache. Of two aliases of one daemon
  one has no entry (`ListHonest`).
- A daemon that has dialled again may have dropped lines of a stream that is
  reported complete (`StreamFaithful`; 3.2).
- A request whose daemon is switched off by somebody else is not answered, nor one
  whose command goes on for ever (`EveryRequestAnswered`).

### 3.2 What was met on the way

These follow from the code as modelled and are shown by no run of their own.

- Two supervised daemons with one name need never settle. "Newest wins — stop
  competing" (daemon.go:230), but the unit the program installs starts the loser again
  (systemd.go:27), which takes the name back after five seconds, and so on for ever.
  `hub_takeover` has one of them supervised.
- Output is "forwarded line by line" (README.md:331), but what is printed while the
  daemon has no connection is only logged (daemon.go:397), and the stream then ends
  as complete: the case `StreamFaithful` excuses.
- Two saves of `config.json` that both truncate before either writes may leave a
  file nobody can parse (config.go:87): all targets and the secret are out of reach
  until somebody repairs it. `UntouchedKept` speaks of files that can be parsed.
- "The file is re-read on every validation call so keys can be added/removed without
  restarting the relay" (activation_keys.go:17). A reload that found no file clears the
  keys that another has just read from the new one, and leaves their stamp: the first
  key is refused until the file changes again.
- A command does not have to end at its time-out. `exec.CommandContext` kills the
  shell (daemon.go:283, shell_unix.go:12), and neither `WaitDelay` nor a process
  group is set: a process the command has left behind with its pipes keeps `Run`, and
  the readers of a stream (daemon.go:366), waiting. The client's own time-out is its
  only answer then.
- `unregister` runs for registered connections only (relay.go:242): entries of
  vanished clients stay in `rs.pending`, `rs.tunnels` and `rs.pairListeners`.
- `pair disconnect` is confirmed once the frame is written (relay_handler.go:420).
- A target whose send failed is still counted: the batch waits for the timer with
  all results in (relay_multi.go:76). Two batches write `rs.subToMulti` under the
  read lock (relay_multi.go:64): the runtime may end the relay, and nobody is
  answered.
- Results are kept by name, and a failed send writes one (relay_multi.go:82): a
  target named twice may be reported as unsent although its other command runs.
- Chunked transfers are not counted in `td.inflight` (daemon.go:192), so that a
  restart cuts them off at once, although waitIdle's comment names transfers.
- `mcpHealth` looks at the exit code only, which an error reply has as well: it
  says healthy (mcp_tools.go).
- An empty group leads to `targetList[0]` (cli_exec.go:195).

### 3.3 Bounds

| Constant | Bounds |
|---|---|
| `MaxDials`, `MaxBreaks` | connections of a daemon, and how many of them may break (`MayBreak`: those with a number up to `MaxBreaks`), which makes "failures are finitely many" part of the model. In `hub_takeover` one connection of each daemon may break. The other four are what a daemon may need besides: one to come back with, and one for each time it is replaced, by the other daemon's first and second and by a late frame of its own first; no state of the run is stopped by the bound. In `hub_answered` nothing breaks, but a daemon may be switched off |
| `Supervised` | daemons that are started again: one in the runs with failures, none in the others |
| `MaxExec` | requests of a client |
| `MaxReq` | request ids drawn; a handler that finds none left stops, so that runs with liveness give every request an id |
| `Chunks` | lines of a streamed command |
| `Breaks`, `Timeouts` | whether anything fails, whether clients stop waiting |
| `Streams`, `QueueCap` | two parallel streams, a queue of two frames (128 in the code), so that copies of three or four chunks find it full. Six in `copy_writer_closed`, where it must not be full |
| `MaxLink` | connections of a daemon (`FileTransfer`), of client and daemon (`Tunnel`): one to lose, one to come back with |
| `MaxData` | pieces each end of a tunnel writes: two, one of which may go missing before the other |
| `MaxStamp` | writes of the key file: one command's two after the first |
| `MaxPid`, `MaxIno` | processes and files ever created: as many as two invocations and two helpers can make |
| `MaxVer` | versions of a daemon: one that reports no version (`SelfVer` is the first that does) and two that do |

### 3.4 Fairness

`FairSpec` of `RelayHub` assumes weak fairness of every relay handler (a goroutine
that can run is scheduled), of every daemon's steps (its loop reads, redials every
five seconds, the pong deadline ends a dead connection, a supervisor restarts it) and
of a client's reads. Nothing is assumed of failures, time-outs, sending, closing, nor
of the output and the end of a command (3.2): `EveryRequestAnswered` promises an
answer or a command that runs, and an answer once it does not run any more, unless
the daemon has been switched off meanwhile. In `MultiExec`
the handler, the timer and the handling of results are fair; a daemon's answer is
not.

In the other modules weak fairness is assumed of what a running program does by
itself: read loops, the goroutines of the write queue, of a tunnel's two ends and of
a restart, started timers, redials, and the streams of a copy that has begun. It is
assumed of no start of anything, no piece of data that a user's program may or may
not write, no failure, no hang-up and no kill. In `Host` the operating system runs
every process and commands end, but they may keep arriving (`EverythingEnds`). In
`Pairing` `pair accept` and the key commands, once in the scenario, are carried
out; listeners need not give up, connections need not break and the day need not
pass. `Clients` has no liveness property and no fairness.

## 4. The proofs

Everything is proved for all values of the constants under the named assumptions of
the modules (`PeersAssumption`, `ConfigAssumption` and `BoundsAssumption` of
`RelayHub`, `MultiAssumption`, `TransferAssumption`, `TunnelAssumption`,
`PairingAssumption`, `HostAssumption`, `ClientsAssumption`). They say that the
constants have their types, that what has different roles is different (clients and
daemons, commands and helpers, the "no such" values and the real ones), that a daemon
installed with a code has one, that tunnels and aliases are finitely many, and that no
two daemons have the same pid at first. TLC evaluates them in every run. Each
strengthened invariant was first checked by TLC on the run of its module, and each
is proved to hold initially and to be preserved action by action.

**`HubTypes`, `RegistryAlwaysExact`** (`RelayHubProofs`). `RegistryExact` is not
inductive: a second register frame on one connection, one on a client's, or one
on a connection already replaced would make it false. The inductive invariant
adds

- `QueueInv`: a socket carries at most one register frame, and only if it is a
  daemon's, dialled, announced and not yet registered; execute, stream and
  disconnect only come from clients;
- `RegInv`: a registered connection is a dialled, announced one of a daemon that
  has this name and token; a replaced connection is registered.

**`CommandsAuthorised`** (`RelayAuthProofs`). The handler checks a token and then
acts on it without the lock. What saves it is that the token belongs to the
*connection*, which never changes hands, and not to the name. `AuthInv` follows
the command: `HandlerInv` for a handler between check and send, `DownInv` for the
frame, `JobInv` for the execution, `DaemonInv` for the daemon switched off.

**`ReplacedIsExplained`** (`RelayAuthProofs`), without any hypothesis on what the
network delays. A daemon reads its last socket only, so the notice that makes it exit
was written to that one; `TakeoverInv` keeps, of each such notice on its way
(`NoticeInv`) and of each daemon that has exited (`GoneInv`), that there is an
explanation: a duplicate, or an older socket of its own that registered late. That it
is older follows from `QueueInv` (a socket registers once) and `FreshInv` (a socket
not yet dialled is closed and empty); explanations last, because registrations and
`overtaken` are never taken back (`ExplainedKept`).

**`ServiceImplemented`** (`RelayAuthProofs`): `RelayHub` implements `ExecService`, for
any daemons, clients, reconnections, failures and relay restarts. The mapping makes
`ClientSend` the abstract `Ask`, `DaemonCommand` the `Run`, the
`ClientRecv`, `ClientTimeout` or `ClientClose` that settles a request its `Reply`, and every other step a
stutter. `Run` needs that the request has not run and has not been refused, a `Reply`
of output that it has run, one of a refusal that it has not; but the daemon and the
client know only the frame before them. `ServeInv` is what makes the frame enough:

- `OrderInv`: a client numbers its requests upwards, and the queue to the relay, the
  handler and the ids drawn hold them in that order, the drawn ones the oldest. So a
  number is drawn an id at most once;
- `OriginInv`: an id has one origin, and `rs.pending` never holds another;
- `OnceInv`: the command of an id is in one place, in the hands of the handler that
  drew it, in one queue or begun at one daemon;
- `ReplyInv`: what a daemon sends and a handler delivers is output of an execution that
  has begun, at the connection the id was drawn for;
- `SaysInv`: so is any output on the way to a client, and a refusal on the way is one of
  a request that is in no queue, in no handler's hands and in no daemon's (`Never`). The two
  refusals, after the look-up and after the failed send, come before or instead of
  the command, and by `OrderInv` nobody can draw that number again;
- `SoloInv`: who sends `disconnect` sends nothing else on that socket;
- `WaitInv`: who waits has no answer yet, and what was refused stays refused;
- `HeardInv`: the run a client has heard is that of an id drawn for the very request it
  answered, and nothing else was heard of a request without output.

With `OnceInv` the last makes the output the request's *own*: of the ids drawn for it
one at most was ever run, and `heard` is it (`HeardIsRan`).

The attempt to prove it showed that the model had let one socket send both
`disconnect` and `execute`, whose unnumbered errors a waiting `execute` would have taken for its
own. The code never does (2.1), and the guard of `ClientSend` now says so.

**`StreamsFaithful`** (`RelayAuthProofs`). The lines of a command are numbered, and
what ends it counts as one more. `MarkInv` says that every frame of a command fits what
it has printed and comes by a connection of the daemon that runs it; a final frame, only
when it is over. `LineInv` puts the places one after the other: shown, on the way to the
client, in a handler's hands, on the way to the relay. A number is in one of them only,
whatever connections were lost, so nothing is shown twice. While the daemon has
dialled once (`Steady`) the places are in order too: with a second connection
the relay has two handlers for one command, and they overtake each other. `WholeInv` says
that nothing is missing before a frame, *as far as it can still be passed on*: on the way
to the client always, in a handler's hands unless the client has gone, on the way to the
relay unless the entry is deleted, at the daemon unless its connection is lost. Each
step moves one frame from one place to the next, and a place from which one is lost
has just become one of the exceptions. That a client waits for one command (`WaitsOne`) and
takes its frames and no others (`OutputTaken`) is `ServeInv` again. What is shown are
pairs, a run and a number; `OwnInv` says that all of them are of the one run the
client waits for (`OwnLines`), so that the argument about numbers is one about lines.

**`MultiTypes`, `AnsweredOnce`** (`MultiExecProofs`). `AnswerInv`: whoever
answers takes the entry out under the write lock, so that a batch has one answer
exactly if its entry is deleted, and none before. The delicate case is
`NothingPending`, which answers without looking whether the entry is still there:
it is, because an entry is used up only by a sub-result or the timer, and both need
`pendingCount > 0`. `CountInv` carries that and the range of `entry.remaining`.

**`NobodyWaitsInVain`, `HonestAggregates`** (`MultiExecProofs`). `OutInv` counts: of
an entry that stands after the fan-out, `entry.remaining` is the number of
sub-requests still outstanding or never sent, whatever the order of results and
assignment. `HonestInv` follows each sub-request from the send to its record
(`Commands`), says of each record in `entry.results` what must have happened
(`Records`), and of the loop which targets it has passed (`FanOut`). The second
theorem is about steps: the aggregate that a step sends.

**`PairTypes`, `OneDaemon`** (`PairingProofs`). `OneDaemonPerListener` is not
inductive: a rejection puts its listener back without looking at what is in the
table by now, and a match tells it without looking at the table at all. `Where`
follows each listener: in the table, and then under its own code, started, told of
nobody and in nobody's hands (`InTable`); at hand for a single daemon, and then
started, under its code and told of nobody (`InHand`); or told, once (`Told`). That
a code has one place in the table and a listener one code makes the two moves,
`Takes` and `Rejects`, safe in any order.

**`KeysWereValid`, `CodesAreKept`** (`PairingProofs`). `KeyInv` ties the history to
the file: what the file holds now counts as held by every check under way
(`HeldNow`), a cache with the file's stamp has the file's keys (`Current`), a key found
in anything at least as new as what a check has looked at was held during it
(`Vouched`), and at the look-up the cache is that new, or a slower reload set it back,
or the file could not be read (`Caught`). A cache whose keys were cleared has fewer
keys than its stamp promises, which admits nobody; while there is no file there are
no keys either (`Bare`). `CodeInv` says where
a code is that was left by `pair accept`: in the file, or given up for a reason
(`Answered`), and that a confirmation on its way is one of a pairing (`OnTheWay`).

**`UntouchedAlways`** (`ClientsProofs`). A command that writes `config.json` writes
back what it read before others wrote. The invariant `ConfigInv` therefore says of
*every* configuration there is, on file (if it can be parsed) and in the hands
of each invocation that is about to write, that it `Agrees` with the first one on
every alias, group and secret no script is about. An invocation that writes is
always at one of its edits (`EditLeft`), and an edit changes what its command is
about and nothing else (`EditedAgrees`). A file that is half-written, or torn by two
writers, is never taken for a configuration: that is where `Loads` has to stop. That
such a file comes about is not excluded (3.2).

**`ClientTypes`, `MembersStayTargets`, `VersionsAreKept`, `ListsAreHonest`**
(`ClientsProofs`). `ClientInv` says of every configuration and every cache there is,
in the files and in the hands of each invocation, what a reader may rely on: members
of groups are targets or were removed by a script (`Grouped`), targets stand for
daemons some script or the first configuration gave them (`Stands`), an entry that
is up came from such a daemon (`Answered`), and a cache about to be saved has the
recorded versions or was read before another save (`AsSaved`). `Holds` adds for each
step of an invocation what it has established by then.

**`TunnelTypes`, `StreamsAreWhole`** (`TunnelProofs`). The pieces of one direction
are in three places: read, in the queue next to the reader, in the queue next to the
writer. `Flow` says that they come in this order; `Unbroken` that nothing is missing
before a piece *as far as it matters*: in the first queue if the reader still takes
pieces, in the second if the relay still passes them on, and before the next one
written if the writer's frames still ride. Without these conditions it is false, since a
broken connection loses whatever it likes; with them it is inductive, because a
connection that is lost is never the one a later piece is passed on by. `Opened`
says that a tunnel is opened once, in order, so that the remote end cannot read for
an earlier one.

**`CopyTypes`, `ChunksStayPut`, `OwnResultLast`** (`FileTransferProofs`). A header and
its payload are two frames, and the daemon keeps one pending header. `PairInv` says
that each header is followed by its payload on the wire and that the pending one is
that of the frame at its head; the relay writes them under one lock of the
connection, so that other streams and the goroutine of the queue come between pairs
and not into them. `OnceInv` gives each stream one announcement, and `CellInv`
then places the chunks. `SentInv` is about the end: no final chunk, result or
closed queue exists before the stream has handed its last chunk to the relay.
For this it has to know that a frame of a stream finds its announcement at the
daemon or on the way there (`HeadersKnown`, `QueuesKnown`, `RoutesKnown`): otherwise
the daemon would answer an unknown stream with an early result.

**`OkIsTheSource`** (`FileTransferProofs`) is `OkMeansSource`: the one property of
`cp` a user relies on, and one that no code establishes, since neither end compares
anything. What is said is about copies that are still `Going`: none of the causes
applied to them, no stream has failed, and not all are "ok" yet. `CopyInv` accounts
for every chunk of such a copy. A chunk that was handed over is in the file or held
back for the archive (`Kept`), on the wire (`OnWay`) or in the queue (`Queues`):
`NoneMissing`, which can only be said while the stream is `Carried`, that is, while its
connection is up and the daemon has its announcement in front of it or an entry
that keeps what arrives. The
frames are in order, those of the wire before those of the queue (`InOrder`; this is
what the cause "overtaken" takes away), so the next payload is exactly the chunk
after the last one written (`NextInOrder`), a single stream fills its file without a
gap, and the final chunk of a stream finds all others of it in place. `Exact` says what
the file or the buffer is meanwhile, `Unrivalled` that nobody else has it open
(without the cause "shared"), and `Delivered` what a positive answer means from the
moment the daemon gives it: the chunks of *this* stream are in the file, which has
its full length. They stay there until the last stream is answered, which in a
parallel copy takes the cause "recreated" to be excluded. `ChunksCover` (every
chunk number belongs to some stream, by division with remainder) closes the
argument when the last answer is read (`OkStep`).

**`HostTypes`, `RestartsWait`, `BinaryRunnable`, `PidFilesExact`** (`HostProofs`).
`WorkInv`: `waitIdle` gives up only when a minute has passed, or when nothing it
counts is left. `ExeInv` divides the life of a machine in two. Until there is a `.bak`
nobody rolls back, the binary is whole, and one update writes `.bak.tmp`
(`BeforeBak`; a second one is the cause `again`). From then on `.bak` is whole and
every file that is at the binary's path, or about to be renamed to it, is whole or
being completed from `.bak` (`AfterBak`), also when several helpers roll back and
write one temporary file, and a copy that fails takes the temporary file of both away.
Both halves end with a second update (`Again`) or a failed rollback (`Failed`).
`WholeInv` is what is left after `Again`: as long as no helper has begun to roll back
(`Rolled`) the binary has only been swapped by renames and is whole, whatever `.bak`
holds. `PidInv`: pids are fresh, so that a start owns the one it is
about to write (`OwnPids`) and a pid that stands in a file (`FiledPids`) or is about to
be sent SIGTERM (`TermPids`) is owned by no start any more; then, unless a cause
applies, a daemon has one process at most and its pid is on file or about to be written
(`OneEach`). The attempt to prove `PidFileExact` without the cause `unready` failed and
showed the fourth way of 3.1: two starts are not needed, an update is enough.

**`NobodyLeftWithout`** (`HostProofs`) is `NeverLeftWithout`, the promise of the
automatic rollback. `LeftInv` has two halves. `ReleaseInv` says which release is
where: `.bak` is the one the machine began with, and so is the binary until the one
update that wrote `.bak` swaps it (`BeforeRelease`, `AfterRelease`); a second update
("again"), a second rollback at once ("crowd") or one whose copy fails ("failed") ends
this, and each is counted
against every daemon (`BlamedAlike`). `ServedEach` says that a daemon that ran at the
beginning and was neither stopped nor excused is `Served`: it has a process that
works, or a helper that `Stands` for it, between the kill and the end of its
rollback. Processes are taken away by a stop that was asked for (`StopPids`,
`Asked`), a helper, or a signal that came too early ("unready") and by nothing else
(`Taken`, `Fates`), and a helper lets go of its daemon only with a start that it has seen
come up, or after putting the first release back (a PID file that cannot be written
kills no child but its own start's: `ConfirmPids`).

**Only model-checked.** Liveness (`SomeDaemonRouted`, `EveryRequestAnswered`,
`EveryMultiAnswered`, `EveryCopyEnds`, `InFlightClosed`, `HangUpReachesLocal`,
`HangUpReachesRemote`, `WaitingPairsUp`, `EverythingEnds`), which is out of the
prover's reach; and what three runs refute. Every invariant, every action property and
the refinement of a passing run is proved.

## 5. Not modelled

- Formatting, flags, help, TLS, the HTTP endpoints, wrapper scripts (aliases) and
  service units are plain I/O.
- Sockets have unbounded buffers: a peer that does not read never blocks a
  writer. The notices written under `rs.mu` (relay_handler.go:54, relay.go:397)
  are a hazard that needs bounded ones.
- In `MultiExec` only the insertion into `rs.subToMulti` can race; the deletion
  after a failed send, one line of the same critical section, is atomic.
- `ClientSession`: the protocol it speaks is in `RelayHub`, its table of waiters is
  not. Its one caller runs one `Exec` after the other.
- File transfer: whole-file transfers in one message and base64 chunks, which this
  client does not send; compression, and with it the chunk that fails to decompress
  (daemon_filetransfer.go:196-213), which no client that compressed it itself and no
  WebSocket that delivers whole frames makes; the format of archives.
- Update: restarts by systemd, Windows, the remote forms (the command run through
  `exec`), the contents of release and checksum files. PIDs are not used again.
- `versionLess` and the comparison of versions in the list; the age of cache
  entries, which acts like `--refresh`.
- MCP: JSON-RPC, protocol versions, tools that print what is on file.

## 6. Plan

Done: all modules of section 2 with their runs, and the proofs of section 4.

Next, in this order:

1. The table of waiters of `ClientSession`; `versionLess` against a reference
   definition.
2. Bounded sockets in `RelayHub`.

The runs are a dozen, nine of which pass; a new module takes over a run's question
rather than adding one.
