# A TLA+ verification of gateway-socket

gateway-socket is a two-threaded layer-2 gateway between the inside network of a
site and the outside. It replaces the MAC address of each user by the *static
MAC* the outside knows for the user's IP address, drops what is not authorised,
and is the site's DHCP server, with registered machines and addresses kept in
MySQL.

All source paths below are relative to `src/gateway-socket/`.

## 1. Inventory

| Part | State | Operations | Correct when |
|---|---|---|---|
| Request queues (7 copies, `gateway.cpp`, `database.cpp`) | a `std::queue`, a mutex, an eventfd | caller: lock, push, `eventfd_write`, unlock; handler: lock, `eventfd_read`, pop as often as read, unlock | requests arrive in order, none lost or doubled, no wakeup lost, no thread blocks with the mutex held |
| Gateway thread (`gateway.cpp`) | `staticIPMap`, `userMap`, `current_time` | `serve` (inside burst, outside burst, one turn of the event loop); handlers `add_static_ip`, `del_static_ip`, `add_user`, `del_user`, `send_packet` | only the owner's frames cross under a site address; replies and grants get their turn; no invalid iterator |
| Database thread (`database.cpp`) | tables `static_ip`, `user`; local request lists | `update_time`, `create_dhcp` | no address held by two machines; reclaimed only from an idle one; access times not lost; every request answered |
| `main.cpp` | the options, the two objects | options, daemonise, wait for mysqld, load tables, start threads, signals, join, delete | it starts with all options or not at all; the gateway starts from what the tables hold; a signal ends the process in order; no object is used before it is there or after it is deleted |
| Header views and packet building (`ethernet`, `arp`, `ip`, `udp`, `dhcp`, `packet`) | a byte buffer | getters, setters, `makePacket`, `writeResponse` | no decision on bytes that were not received; replies a client understands, with nothing left unwritten; checksums a receiver accepts; MAC text read back as written |
| `Device` (`socket.cpp`) | a packet socket; flags and MTU of the interface, which outlive the process | open, `readPacket`, `writePacket`, close | the interface is given back as it was found; lengths beyond the buffer are noticed |

Interaction: the gateway calls `Database::createDHCP` and `updateTime`; the
database calls `Gateway::addUserInfo`, `delUserInfo` and `sendPacketRequest`;
`main` calls `addStaticIP` and `addUserInfo` before the threads exist. All of
these only append to a queue of the other side. The maps belong to the gateway
thread, the tables to the database thread and to an administrator who edits them
with SQL while the program runs.

What is hard: requests from both sides cross each other; removals name an address
and not a user; `create_dhcp` runs up to five SQL statements without a
transaction; the gateway works on a copy of the tables; statements fail; the
process may end between any two statements and starts again on the same tables and
network interfaces; signals interrupt `main` anywhere, other signals interrupt their
handler; lengths, offsets and header fields come from the network.
`PROJECT.json` lists each hazard at its line with the properties that watch it.

## 2. Modules

| Module | Content |
|---|---|
| `Channel` | what one request queue promises |
| `EventQueue` | the mutex, queue and eventfd of the code, one action per statement; refines `Channel` |
| `EventQueueProofs` | its inductive invariant, its safety and the refinement, proved |
| `Shared` | process state, clock, the six queues in use, at the level of `Channel` |
| `Gateway` | the gateway thread |
| `Database` | the database thread and the two tables |
| `System` | both threads with `main`'s start-up, the clock, crashes and restarts, and the administrator; the properties |
| `AddressPool` | what the program promises about addresses and access times, without threads, queues or statements; `System` refines it |
| `SystemProofs` | type correctness and address uniqueness, proved |
| `GrantProofs` | the gateway's user of an address is the last one granted, proved |
| `PoolProofs` | the refinement of `AddressPool`, proved |
| `GatewayProofs` | only the owner's frames cross, and no iterator is invalid, proved |
| `AccessProofs` | access times are not lost and active machines keep their address, proved |
| `Lifecycle` | the process from the wait for mysqld to its end: objects, threads, signals, devices, restarts |
| `Options` | `main`'s reading of the command line |
| `Main` | `Options`, then `Lifecycle`: `main` from its first to its last statement |
| `MainProofs` | types, live objects, restored flags, and the count of the options, proved |
| `Packet` | the size of a buffer and of an Ethernet header |
| `Headers` | one frame through the length checks and getters of `serve` |
| `Reply` | the bytes of a DHCP reply, and the client that reads them |
| `Checksum` | the Internet checksum with deferred carries against RFC 1071 |
| `MACText` | `printMAC` and `readMAC` |
| `Wire` | `Headers`, `Reply`, `Checksum` and `MACText`, each followed on its own in one specification: they share no state |
| `WireProofs` | the length checks suffice, replies have no hole, checksums are accepted, addresses are read back, proved |
| `MCEventQueue`, `MCSystem`, `MCMain` | small instances for TLC; `Wire` is run as it is |

The modules on the level of threads (`EventQueue`, `System`, `Main`) share no
variables: a queue's correctness enters `System` as the `Channel` it implements,
`System`'s `Kill` and `Restart` stand for everything `Lifecycle` knows about the end
of the process, and `Wire` and `Options` justify what `System` takes as decoded: a
frame with fields, a reply that says what was meant, an address that reads back, and
settings that are there.

### How the models correspond to the code

**EventQueue.** `Lock`, `Push`, `Write`, `Unlock` are the four statements of a
caller (`gateway.cpp:737-746`); `Dispatch`, `HandlerLock`, `Read`, `Pop`,
`HandlerUnlock` the event loop and a handler (`gateway.cpp:91-125`). `Write` and
`Read` are disabled where the real call blocks (the eventfds are created with
`eventfd(0,0)`). `Quiet` marks the end of the bounded number of requests, so that
TLC still reports every other deadlock.

Because `EventQueue` implements `Channel`, the other modules treat a call as one
`Append` and a handler as one step that takes everything queued. For the gateway's
handlers the work is part of that step: nobody else reads the maps. The database's
handlers copy the requests (`updates`, `requests`) and work on them step by step.

**Gateway.** `gpc` is the phase of the loop in `serve`, `burst` the loop counter,
`ready` the eventfds that the current `event_base_loop` turn found readable; their
handlers run in any order. A frame is a record of its decoded fields; `type` says
which branch of `serve` it takes and `ok` whether it passes the branch's header
check. `runt` is a frame shorter than an Ethernet header (dropped inside, passed
outside), `dhcp` is UDP 68 to 67, `dhcpreply` UDP 67 to 68. Every frame is either
answered with ICMP, handed to the database, dropped or forwarded; `wire` holds what
the last step wrote. `InsideBadIterator` is the dereference of `end()` at 443-444
and 527.

**Database.** `dpc` names the next SQL statement, `cand` is `ip_str`. Every
statement is one step, so anything else can happen between two. `executeUpdate`
returns the number of *changed* rows. A statement may fail when `SqlErrors` holds:
in `update_time` the exception is caught and leads to `delUserInfo` (`ret` is 0),
in `create_dhcp` it ends the process (`ExitProcess`). `InsertFails` is the foreign key violation
when the chosen address has left `static_ip`. The order in which MySQL returns rows
is left open, except for the `ORDER BY` of `selectUsingDynamicIP`.

**System.** `LoadStaticIP` and `LoadUser` are `main.cpp:288-301`. `Kill` ends the
process at any point (it also stands for the uncaught exceptions of the two
start-up queries) and loses what was in memory, `Restart` starts it on the tables as
they are. `AddUser`,
`RemoveUser`, `AssignIP`, `AddIP`, `RemoveIP` are the administrator, restricted by
`AdminOps`. Three variables are history and influence nothing: `granted` (the last
MAC `addUserInfo` was called with, per address), `lastSent` (when the gateway's user
of an address last sent a frame outside) and `wire`.

**AddressPool.** `Grant`, `Reclaim` and `Access` are what `create_dhcp` and
`update_time` may do to the tables in one step, `Tick` is the clock and the rest the
administrator. The refinement mapping is the identity on the five variables they share.

**Lifecycle.** `phase` is the next statement of `main`; every constructor, device,
thread start, join, destructor and delete is a step. `exit_handle` runs on the main
thread between any two of them (`handlers` is the stack of its activations, since
`signal` blocks only the signal being handled), first inside `syslog`, then
`terminate` on each object, which faults on an object that is not live. A thread is
`while(!event_base_got_exit) event_base_loop`: `EnterLoop` clears the exit flag, as
libevent does, `terminate_handler` runs once per process because `term_event` is not
persistent, and the gateway's loop also returns when nothing is readable. Flags and
MTU of a device survive `Kill`, `exit(1)` and `Restart`. `syslog` calls of `main`
itself are not steps: they would only add more ways into the deadlock of two handlers
(section 3).

**Options.** One action per kind of option; `given` is the set of variables that have
been assigned, `neccessary` is `main`'s count. In `Main` no signal arrives while
options are read: the handler would find what it finds during the wait for mysqld,
no object.

**Headers.** `readable` is the range test of `Packet::readByteArray`; each getter has a
definition that says whether it reads and what it returns if not. A getter whose local
variable has no initial value goes into `garbage` when its result is used without
having been read; ports that were not read may be anything. The content of a frame is
what its bytes say where they exist.

**Reply.** The buffer is a function on the offsets that were written: what is not in
its domain is what `malloc` returned. The header and option statements of
`writeResponse` are a sequence of "write these bytes, move by so many"; `WriteDNS` is
the loop over `dns_vector`. The host is little-endian, as the deployment (x86 Linux)
is. The client that walks the options, one per `ReadOption`, is an independent reading of
RFC 2132; it may stop at any point, as a client may.

**Checksum.** `sum` is the code's variable and `ones` the sum RFC 1071 defines, of the
same words.

**MACText.** `readMAC`'s loop, one character per step, on what `printMAC` writes and on
lower-case rows with any or no separator.

Definitions marked "Variant" are plausible mistakes in the definition that follows
them. No specification uses them; each one, put in place of that definition,
violates the property that `PROJECT.json` names.

## 3. Runs

| Run | Checks | Distinct states |
|---|---|---|
| `queue` (`EventQueue.cfg`) | `QueueSafe`, `IInv`, `ChannelSpec`, `ChannelLive` | 2 211 |
| `leases` (`Leases.cfg`) | `ReclaimOnlyIdle`, `PoolSpec`, `TypeOK`, `AccessRecorded` with a running clock, failing statements and crashes | 1.6 million |
| `grants` (`Grants.cfg`) | `NoSharedIP`, `OwnerIsLatest`, `PoolSpec` with users and addresses added and removed | 1.2 million |
| `frames` (`Frames.cfg`) | `CrossingByOwner`, `SrcIterValid` over every kind of frame | 365 thousand |
| `progress` (`Progress.cfg`) | `DHCPAnswered`, `GrantInstalled` under fairness | 23 thousand |
| `main` (`Main.cfg`) | `TypeOK`, `ThreadsUseLiveObjects`, `FlagsRestored`, `StartsWhenComplete`, `TerminationIsKept` | 300 thousand |
| `wire` (`Wire.cfg`) | `WithinCapacity`, `DecidedOnFrame`, `ClientUnderstands`, `ReplyWritten`, `ReceiverAccepts`, `ReadsBack` | 383 thousand |

What the properties say:

* `QueueSafe`: `front()` is never called on an empty queue; no thread waits in an
  eventfd call while it holds the mutex; whenever the mutex is free the counter
  announces exactly what is queued.
* `AccessRecorded`: the gateway's throttle never believes an access recorded that
  the database does not know and that is not on its way.
* `ReclaimOnlyIdle`: an address is taken only from a machine that sent nothing for a
  lease, give or take the throttle, or whose newer access time is still queued.
* `NoSharedIP`: no two rows of `user` hold the same address. The schema does not
  enforce it (the index on `ip` is not unique).
* `OwnerIsLatest`: whoever the gateway holds for an address is the last one granted.
* `CrossingByOwner`: out of the site under a static address only from the machine it
  was granted to and under its static MAC; into the site to such an address only to
  that machine, and nothing that claims a static address as its source.
* `SrcIterValid`: while frames are handled every user has a static MAC.
* `DHCPAnswered`, `GrantInstalled`: a registered machine's request is answered and a
  grant reaches `userMap`.
* `PoolSpec`: every step changes the tables as `AddressPool` allows: a grant goes to a
  registered machine without an address and is of an address nobody has, a dynamic
  address is taken back only from a holder idle for a lease, access times only grow and
  never pass the clock.
* `ThreadsUseLiveObjects`: while a thread runs, both objects are live.
* `TerminationIsKept`: once `exit_handle` has returned while both objects exist, the
  process ends, even if the signal came before the threads entered their loops.
* `FlagsRestored`: a process that returns from `main` leaves the interfaces' flags as
  it found them.
* `WithinCapacity`: headers are looked at only when the packet's length is within its
  buffer, though `recvfrom` returns the length on the wire.
* `DecidedOnFrame`: nothing is decided on a variable that no header assigned, except
  for an ARP packet shorter than its addresses.
* `ClientUnderstands`: up to 63 name servers, the client finds exactly the options that
  were meant, the lease time with its bytes reversed. `ReplyWritten`: every byte of a
  reply was written, the gateway address apart.
* `ReceiverAccepts`: words and stored checksum add up to all ones.
* `StartsWhenComplete`: `main` starts only with every required variable assigned, and
  refuses only when one is missing, if no required option but `--dns` is repeated.
* `ReadsBack`: `readMAC` returns the address that was written and stops at the end of
  the text.

Five runs show where the program does not do what its own text says; each is a
finding in `PROJECT.json`:

| Run | What the source says | What happens |
|---|---|---|
| `lease_broken` | `dhcp.cpp:105` "IP Address Lease Time" | `insertDynamic` does not refresh `accessed`; a new lease looks idle and is reclaimed before its acknowledgement is sent |
| `stale_removal` | `database.cpp:167` "User removed from the database" | the removal names an address; a machine granted it meanwhile is removed instead |
| `orphan` | `gateway.cpp:621`, `682` "we don't have static IP anymore" | the inside direction dereferences `end()` for such a user |
| `startup` | `gateway.cpp:449` "unauthorized user is using our ip" | frames are handled before the maps are filled |
| `signal` | `main.cpp:36` "Exiting..." | a signal during the wait for mysqld, or after the deletes, calls `terminate` on no object |

Smaller deviations have no run of their own. The models contain them, and a property
of a passing run excludes exactly that case, so that anything beyond it is reported:

| Source | Deviation | Where it shows |
|---|---|---|
| `database.cpp:167` "User removed from the database" | a failed update also gives `ret == 0` and removes a user whose row exists | `leases` runs with failing statements |
| `main.cpp:36` "Exiting..." | a second, different signal inside `syslog` waits for the lock of the first for ever | `TerminationIsKept` starts when a handler has returned |
| `socket.cpp:137` "recover prev setting of %s" | the MTU is never restored; after a crash the next process saves and restores the gateway's own flags | `FlagsRestored` is about flags, and the ones that were found |
| `gateway.cpp:457` "too short ip packet" | the Ethernet header is counted twice, so packets with a complete IP header are dropped | `DecidedOnFrame` needs those very bytes, see `LengthChecksSuffice` |
| `gateway.cpp:413` "malformed arp filltered" | an ARP packet without addresses passes, and unassigned addresses are looked up | exception in `DecidedOnFrame` |
| `dhcp.cpp:68` "Server IP Address + Gateway IP Address" | four of eight bytes are written | exception in `ReplyWritten` |
| `dhcp.cpp:105` "IP Address Lease Time" | host byte order | `ClientUnderstands` |
| `main.cpp:69` "--dns [dns IP] [--dns another]" | 64 servers have the length byte 0 | bound in `ClientUnderstands` |
| `main.cpp:209` "Missing options (%d)" | an option given twice counts for a missing one | `StartsWhenComplete` is checked with only `--dns` repeated (`MayRepeat`) |

### Bounds

* `queue`: two callers (`main` and the database thread both call `addUserInfo`),
  four requests and a counter limit of four, so that the limit is reached.
* `leases`, `grants` and the violation runs of `MCSystem`: two machines and one dynamic address,
  the smallest site in which an address is contested. `IO_BURST = 1` and
  `MaxQueue = 1`: one frame per phase and one waiting request per queue still allow
  a second request while the first is being processed, and every crossing of grant,
  removal and update. `leases` lets the clock take three values, enough for a lease
  (`DHCP_TIMEOUT = 1`) and a throttle interval (`Timeout = 1`) to pass in either order;
  in `grants` it stands still.
* `frames`: one dynamic and one fixed address, 17 inside and 15 outside frames that
  reach every branch of `serve`; the clock stands still because no branch but the
  throttle depends on it.
* `progress`: as many addresses as machines, since a request for an exhausted pool is
  rightly not answered; frames of type `other` keep the inside device busy for ever.
* `main`: eight options, two more than are required; two signals, because nesting needs
  two; two lives, because what a process finds on a device is what the last one left;
  two looks for mysqld, one to fail and one to give up.
* `wire`: frame lengths on both sides of every boundary a getter or a check has, header
  lengths below the minimum, at it, one above and at the maximum; both sides of 63 name
  servers (the length byte) and of 299 (the capacity); up to six words at the edges of
  byte and sign; four byte values, with both kinds of digits in either half.
* Where a run does not tell two addresses apart, its cfg gives both names the same
  model value. No symmetry is used.

### Fairness

`progress` assumes weak fairness of each thread as a whole (`GatewayStep`,
`DatabaseStep`) and of `main`'s start-up. That is the kernel scheduling a runnable
thread: `serve` never blocks (non-blocking reads and `EVLOOP_NONBLOCK`), and the
database thread blocks only when nothing is queued for it. No fairness is assumed of
frames, of the clock or of the administrator. `main` and `signal` assume
it of the main thread, in its handlers or outside them, and of each other thread; none
of signals, of `Kill` or of `Restart`. `queue` assumes it of the consumer and
of a caller that holds the mutex.

## 4. Proofs

`EventQueueProofs`, for every set of callers and requests and every `FDMax`, from
`EventQueueAssumption` (no more requests in flight than the counter holds):

* `QueueInvariant`: `Spec => []IInv`. `QueueSafe` is not inductive: that the counter
  matches the queue when the mutex is free needs to know what each thread inside its
  critical section has pushed and not announced, or read and not popped (`Balance`),
  that only one thread is inside (`LockOwner`), and that the counter cannot fill up
  (`Budget`).
* `QueueIsSafe`: `Spec => []QueueSafe`.
* `QueueRefinesChannel`: `Spec => ChannelSpec`. A push is a send; the drain is the
  `eventfd_read`, because the handler keeps the mutex until it has popped all it read.

`SystemProofs`, for every finite set of addresses and MACs, every set of frames and
every value of the other constants:

* `TypeCorrect`: `Spec => []TypeOK`, which includes that an address is written and
  sent only when one was found.
* `AddressesAreNotShared`: if `"assignIP" \notin AdminOps`, then
  `Spec => []NoSharedIP`. The inductive invariant `LeaseInv` adds that a machine
  without a row has no address (`NoRowNoIP`) and that between choosing an address and
  writing it nobody but the asking machine has it (`CandReserved`). The assumption is
  needed: an administrator who moves an address between `selectUserIPfromMAC` and
  `insertDynamic` makes the program write it back, and two machines have it.

`GrantProofs`, from the same assumptions:

* `GrantsTakeEffectInOrder`: `Spec => []OwnerIsLatest`. The inductive invariant
  `GrantInv` adds that the last queued grant of an address is the last one made
  (`QueuedIsLatest`), which makes `add_user`'s replacement the right one, and that the
  map is empty while `main` loads (`EmptyWhileLoading`). The lemmas `AppendFor` and
  `AppendLastFor` say what one more request changes.

`PoolProofs`, if `"assignIP" \notin AdminOps`:

* `ImplementsAddressPool`: `Spec => PoolSpec`. Besides `TypeOK` and `LeaseInv` the
  step needs `PoolInv`: the foreign key holds, a machine whose request is being worked
  on has no address until it gets the chosen one (`StillWithout`), the holder of an
  address about to be released has been idle since it was selected (`HolderIdle`:
  `update_time` runs on the same thread and cannot come between), and access times in
  the queue, in the handler and in the table are in the order they were taken
  (`TimesInOrder`). `StillWithout` and `HolderIdle` are what separate statements
  without a transaction rely on.

`GatewayProofs`, from the same assumptions:

* `CrossingsAreByOwner`: `Spec => []CrossingByOwner`, with no condition on the
  administrator. What was sent is judged when it is sent, so the proof follows one frame
  through each branch of `serve`; what it needs of the state is `OwnerIsLatest`, and
  `CrossingInv`: the database asks only for DHCP replies to be sent (`RepliesOnly`), and
  nothing is sent before the gateway's thread runs (`SilentWhileLoading`).
* `SrcIterIsValid`: if `"addIP" \notin AdminOps`, then `Spec => []SrcIterValid`. The
  inductive invariant `StaticInv` says that every address of `static_ip`, of a user or of
  a queued grant has a static MAC in the gateway's map or on its way to it (`TableKnown`,
  `UsersKnown`), and that what `main` queued is carried out in the first turn of the event
  loop (`StaticFirst`): within the turn the handlers may run in any order, but no frame
  comes between them.
* `NoFrameEndsProcess`: the same, for `FramesSurvived`. The condition is needed: run
  `orphan` adds an address, and ends the process.

`AccessProofs`:

* `NoAccessIsLost`: `Spec => []AccessRecorded`, if the administrator does not both
  remove and add users (`NoReturn`). The inductive invariant `AccessInv` says for every
  user the gateway holds, or is told to hold, that the table has its access time, or an
  update is on its way through the queue or the handler, or a removal is
  (`UsersRecorded`, `GrantsRecorded`). The condition is needed: a machine that is taken
  out of the table and put back in starts with access time 0, while the gateway still
  has the old one and keeps its throttle by it.
* `ActiveUsersKeepAddress`: `Spec => ReclaimOnlyIdle`, if also
  `"assignIP" \notin AdminOps`: from `AccessInv`, and from `PoolInv`, which says that the
  holder is still as idle when its address is released as when it was selected.

`MainProofs`, for any set of signals and any bounds:

* `LifecycleTyped`: `Spec => []TypeOK`; in particular `fail` stays below its limit
  while `main` waits.
* `ObjectsOutliveThreads`: `Spec => []ThreadsUseLiveObjects`, from `PhaseInv`, which
  ties `main`'s phase to which objects are live and which threads have ended.
* `DevicesGivenBack`: `Spec => []FlagsRestored`, from `DeviceInv`, which follows the
  found flags from the device into `prevFlag` and back.
* `StartsComplete`: `OptionsSpec => []StartsWhenComplete`, for command lines of any
  length, if `MayRepeat \cap Required \subseteq {"dns"}`. `CountInv` says that
  `neccessary` is the number of required options that are missing, and that `dnsList` is
  empty exactly until `--dns` was given. Any other option that may be repeated breaks it.
* `MainIsSafe`: the four together for `MainSpec`, which the run `main` checks: every step
  of `main` is one of `Lifecycle` or one of `Options`, and leaves the other alone.

`WireProofs`:

* `ReadsStayInBuffer`: `HeadersSpec => []WithinCapacity`, for every set of lengths, every
  header length a frame can announce and every buffer of at least 14 bytes.
* `LengthChecksSuffice`: `HeadersSpec => []DecidedOnFrame`, from `CheckedSoFar`, which says
  what each later header may rely on. The lemma `LongEnough` shows that the strange test
  at `gateway.cpp:455` is what makes the ports readable: 14 bytes behind the IP header
  cover them, while the header alone would not.
* `ChecksumsAccepted`: `ChecksumSpec => []ReceiverAccepts`, for any 16-bit words and up to
  32768 of them. The invariant `SumsAgree` says that
  the 32-bit sum and the end-around sum are congruent modulo 65535 and vanish together;
  `FoldKeepsAgreement` and `CarryIsOnes` carry it through the two folds.
* `RepliesAreWritten`: `ReplySpec => []ReplyWritten`, for any number of name servers and
  any size of a packet. `ReplyInv` says that all before `current_offset` is written but
  the gateway address (`NothingLeftOut`), unless the reply has outgrown the buffer, which
  `makePacket` then refuses, and where each group of statements writes (`OffsetInv`).
* `ClientsUnderstand`: `ReplySpec => []ClientUnderstands`, for any size of a packet and up
  to 63 name servers. `ClientInv` says that the options written so far lie in the buffer,
  code, length and value (`OptionsLie`), which later writes leave alone (`KeepsOptions`),
  and that the client has read the first of them and is at the start of the next
  (`WalkInv`). The bound on the servers is used once, in `OptionSeen`: the length byte
  is the length only below 256.
* `MACsReadBack`: `TextSpec => []ReadsBack`, for every address and any characters between
  the bytes of a row. `TextInv` says where in the row `readMAC` is, byte by byte and half
  by half (`RestOfRow`), and what it has of the address (`BytesRead`).
* `BytesAreRight`: all of these for `WireSpec`, which the run `wire` checks.

Only model-checked: liveness (`ChannelLive`, `DHCPAnswered`, `GrantInstalled`,
`TerminationIsKept`), which is out of the prover's reach. Every invariant and every
action property of the passing runs is proved. The five disagreements of section 3 are
counterexamples, which need no proof.

## 5. Not modelled

* `delStaticIP` and its handler `del_static_ip`, which nothing calls, and
  `Packet::readBit`, `Packet::setData` and `ARP::setHeader`, likewise.
* The constant header fields `makePacket` and `icmp_mtu` write; their addresses, ports
  and checksums are modelled.
* Freeing of `userInfo` and `Packet`; failures of `malloc`.
* A clock that is set back; the clock is assumed to be past `DHCP_TIMEOUT`
  (`ClockAssumption`), below which the `uint64_t` subtraction at `database.cpp:231`
  would wrap.
* How MySQL compares a MAC written by an administrator in another spelling with the
  text of `printMAC`; rows with fewer than twelve digits, on which `readMAC` runs past
  the string.
* The same device for inside and outside; arguments longer than the buffers of `main`.
* The lock inside `syslog` as taken by `main` outside its handler and by the threads.

## 6. Plan

Done, in this order: `Channel` and `EventQueue` with proofs; `Shared`, `Gateway`,
`Database`, `System` with their runs; `TypeCorrect`, `AddressesAreNotShared` and
`GrantsTakeEffectInOrder`; `Lifecycle`; `AddressPool` and its refinement; `Headers`,
`Reply`, `Checksum`, `MACText` and their composition `Wire`; `Options` and `Main`; the
proofs of section 4.

Next: ownership of `userInfo` and `Packet` objects: freed once, never used after.
