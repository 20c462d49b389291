# A verification of t_tcp

t_tcp is a small TCP/IP stack after lwIP that runs as a Linux user program over
libpcap. This directory holds TLA+ models of its core, TLC configurations that
check them on small instances, and proofs, checked by TLAPS, that the parts
everything else stands on are right for every instance. File names below are
relative to `src/`.

## The system

Three threads run (`port/for_linux.c`, `api/t_tcpip.c`, `user/s_main.c`):

| thread | code | what it does |
|---|---|---|
| receive | `pcap_recv_thread`, `ether0_recv_data`, `t_tcpip_input` | copies each frame into a pbuf, wraps the pbuf in a message, posts it |
| tcpip task | `t_tcpip_task`, `t_raw_input` and below | fetches messages; ARP, IP, ICMP, UDP and TCP input; answers; frees the pbuf, then the message |
| main | `main` | start-up, then one UDP or TCP test per key pressed, from this thread and without the task's knowledge |

They share two kinds of pool, guarded by one process-wide mutex
(`TASKSUSPENDALL`), a mailbox, which is a System V queue, and the lists of
protocol control blocks, which nothing guards.

| component | state | operations | makes it correct | here |
|---|---|---|---|---|
| block pools, `core/t_memp.c` | `memp_tab`, the link word before each block | init, malloc, free | the chain is exactly the free blocks; NULL only when exhausted | `Memp`, `BlockPool`, `MempProofs` |
| threads and mailbox, `api/t_tcpip.c`, `include/arch/t_sys.c` | the queue, who holds which buffer | input, task, post, fetch | one owner per buffer, none lost, frames in order, nothing stops for good | `Tcpip`, `FrameQueue`, `TcpipProofs` |
| TCP connection, `core/t_tcp*.c` | the pcb, its queues `unsent` and `unacked` | connect, write, enqueue, output, input, keepalive | a byte stream after one handshake; exact accounting; never beyond the window | `TTcp`, `TcpStream`, `TTcpProofs`, `TTcpThreads`, `TTcpThreadsProofs` |
| list of TCP pcbs, `include/t_tcp.h`, `core/t_tcp_in.c` | `tcp_active_pcbs`, the links | register, search, move to the front | no registered pcb lost or missed; a search ends | `TTcpPcbs`, `TTcpPcbsProofs`, `LinkedLists` |
| packet buffers, `core/t_pbuf.c` | the pool's chain, payload pointer, u16 lengths | alloc, free, header, cat | payload and lengths agree; a length wraps in no case but those named below | `Pbuf`; the pool in `Tcpip`, `TTcp` |
| start-up and user program, `user/s_main.c`, `core/t_netif.c` | `netif->output`, the interfaces | netif_add, the two tests | nothing runs before it is set up | in `Tcpip`, `TTcpThreads`, `TTcpPcbs`, `TRoute` |
| IP, ICMP, `core/t_ip.c`, `core/t_icmp.c` | the packet's buffer | input, output, answer, route | the whole packet, to the right one | `TIp`, `IpProofs`, `TRoute` |
| ARP, `core/t_arp.c` | the table | request, reply, print | one entry an address, the last one told; no half entry shown | `TArp`, `ArpCache`, in `TIp`, `IpProofs` |
| UDP, `core/t_udp.c` | the list of pcbs | new, bind, connect, send, input, remove | the list has the bound pcbs and no freed one, also for a walk under way | `TUdp`, `UdpProofs`, `LinkedLists`; `t_udp_send` as a user of a buffer in `Tcpip` |
| checksum, `core/t_inet.c` | a sum, `swapped` | over a header, over a chain with pseudo header | a receiver accepts it | `TInet`, `IpProofs` |
| netconn and sockets, `api/t_api_lib.c`, `t_api_msg.c`, `t_sockets.c` | | | | not compiled (`Makefile`), and the task ignores their messages: not modelled |

What is hard about it: the threads and the unguarded pcb; ownership of a buffer
that passes through four layers and two threads; pools that run dry in the
middle of an operation; the order in which `t_tcp_connect` makes a half-built
connection visible; lists that one thread changes while the other follows them;
a window and an MSS that change under data already cut into segments; payload pointers and u16 lengths moved by one layer on what
another reserved or a received header says; byte order and carries in the
checksum. `PROJECT.json` lists each hazard at its
line.

## The modules

**`Memp`** is `core/t_memp.c` line by line: `memp_tab` and the header words
`next`, one action for `t_memp_malloc` (both branches) and one for
`t_memp_free`. A call is atomic because the code holds the mutex throughout. The
detail that matters is that freeing into an empty pool does not write the link
(lines 105-107), so the chain is right only because malloc cleared it (line 77);
`HeldUnlinked` says so, and the proof (`HeldLinksNull`) needs it. Callers are
taken to free what they hold, under the type they allocated it with, which
module `Tcpip` checks for messages. **`BlockPool`** is what a caller may rely
on; `PoolSpec` is the refinement, with `free <- Pool(t) \ held`.

**`Tcpip`** has the three threads, with the pools as sets, which `Memp`
justifies. One action is one critical section or one system call: `RxAlloc`,
`RxMsg`/`RxNoMsg`, `RxPost`; `TaskFetch`, then by kind of frame `TaskReply`
(ARP and ICMP answer in the request's buffer), `TaskAckAlloc` and `TaskAckSend`
(a bare ACK needs a buffer while the frame still holds one) or `TaskQuiet`,
then `TaskFreePbuf` and `TaskFreeMsg`; `AppStart` (the last assignment of
`t_netif_add`, made when the receive thread already runs), `AppAlloc`,
`AppNoBuffer`, `AppSend`, `AppExit`. What a connection holds for long is the
buffer of its SYN: `AppConnect` takes a pcb, which nothing ever gives back, and
the buffer; `AppSynSent` leaves the buffer on `unacked`, from where `TaskSynAck`
frees it if the peer ever answers. `TaskSynAckTooEarly` and `AppNoPcb` are calls
that read or write through NULL. `mbox_id` is "null" when `msgget` failed;
then every post fails and leaks, as in the code. A call through an unset
pointer ends the process (`up`). **`FrameQueue`** is the promise of the
hand-over, with its fairness: `FifoSpec` maps the queue of messages to the
frames in their buffers, so that a buffer reused too early shows as a frame
whose content changed.

**`TTcp`** is one connection, a call an action: `t_tcp_connect`,
`t_tcp_write`, made only once `t_tcp_connect` has returned ERR_OK (the code
does not ask, see below), `Output` (`t_tcp_output` called by the application) and
`Input` (`t_tcp_input`, with the `t_tcp_output` at its end). The functions in C
are operators on a record `pcb` and the pools, named as in C: `t_tcp_enqueue`
and `t_tcp_output`, with `MayEnqueue` its early returns, `Room` the conditions
under which its loop does not reach `memerr`, `Cut` the segments, `Merges` and
`Queued` the tail end, `Within` the window test, `OnUnacked` the insertion. A
write that fails has run some bodies of the loop to the end (`Whole`) and one in
part (`Half`); `Failed` takes what these took from the pools and gives back what
`memerr` finds. The variable `wire` is what has been transmitted, `acked` how far
the peer has acknowledged; both only grow and are read by properties and the
peer. `lost` counts the calls of `t_pbuf_cat` (`Cats`, `CatsOfFailed`), each of
which copies a pbuf that its caller then forgets, and nothing else:
`PbufsAccounted` says that these, the queues and what is lent are all that is
missing from the pool. The peer
sends whatever the wire allows, any number of times, in any order. `Lend` and
`Return` are the rest of the program using the pool. From the second segment
on `t_tcp_output_segment` uses an uninitialised `netif` (line 248, read at 295):
it is the right interface by luck or the process ends, and the model has both.
**`TcpStream`** is what the calls promise together; `StreamSpec` maps
`accepted` to `snd_lbb - ISS` and `sent` to `snd_nxt - ISS`.

**`TTcpThreads`** takes `t_tcp_connect` and `tcp_keepalive` in the main thread
and `t_tcp_input` in the task apart into their pool operations, the
transmission, and the stretches between, for a connection on which nothing is
written (no caller of `t_tcp_write` exists in the compiled program). It
shows what the atomic calls of `TTcp` hide: the SYN is sent before it is on
`unacked`.

**`TUdp`** is the list of UDP pcbs. The main thread's calls take effect in one
step, except where the task can see them half done: `BindTo` sets address, port
and link, `Push` the head; `Remove` unlinks, `Free` gives the block back.
`SetRecv` stores a callback or NULL. A datagram comes for a port and an address
(`Begin`); `t_udp_input` takes a step per pcb (`Step`), compares port and
`local_ip` (`Wanted`), decides (`Stop`) and reads the callback a second time to
call it (`Call`). A freed block keeps its fields until `New` clears it, so a walk
that stands on a removed pcb goes on from there. History, for the properties:
`steady` is the pcbs the walk should not miss, `fresh` says whether a block was
handed out under it, `unset` whether the callback was taken off between the two
reads. `t_udp_bind` writes the address before the port, which is one step here: a
pcb whose old or new values a datagram is for is never `steady`.

**`TTcpPcbs`** is the list of TCP pcbs under both threads, a step for each
access to the head or to a link: `New`, `RegLink`, `RegPush` and `ConnectEnds`
in the main thread; `Begin`, `Step`, `Found` (which unlinks), `MoveLink` and
`MovePush` in the task. `overlapped` records that a registration and a move to
the front were under way together. Then a pcb may be lost, or the list be closed
to a ring in which the next search never ends; it takes a third pcb while two
are on the list, and the build has two (`Undisturbed`).

**`Pbuf`** is one buffer as the layers see it, `t_pbuf_alloc`, `t_pbuf_header`
and `t_pbuf_cat` with their u16 arithmetic and the window in which
`t_pbuf_header` lets payload be. **`TIp`** takes a buffer through the layers. Up:
`Receive`, `t_ip_input`, then `t_icmp_input`, `t_udp_input`, `t_tcp_input`, or
the ARP actions. Down: `SendUdp`, `SendAck`, `SendSyn`, `SendData`, `Merge`,
`SendSegment`, `SendArpRequest`, all but the last through `t_ip_output`. The
constants they move payload by are those of the code; the header lengths are
what the frame says, any of the sixteen a header can say and any length of a UDP
datagram, whether they fit in it or not, as nothing in the code makes sure they
do. A frame may end anywhere behind its Ethernet header; what is read behind its
end is what the buffer held before, and may be anything. `dst` follows one content, the sender's
address in an echo request, through the places where it is overwritten.

**`TArp`**, which `TIp` extends, is the table: a reply is entered in up to four
accesses (`EnterIp`, `EnterMac`, `EnterCount`) while the main thread prints the
table line by line, as `t_arp_test` does in the build with `T_TEST_ARP`.
**`ArpCache`** is what the table promises, a cache that never gives up an entry;
`CacheSpec` reads the rows below `table_count` as a function. **`TRoute`** is the
list of interfaces and `t_ip_route`.

**`TInet`** is the checksum as the machine computes it: words read from memory
in little-endian order, an odd byte put where `htons` puts it, u32 sums, folds,
and the byte swaps of `t_inet_chksum_pseudo` over a chain (`AddBuffer`, one step
of its loop; `AddPseudoHeader`, what follows it). Bytes are digits to any base above
2, 256 in the code; to base 2 the seven words that `AddPseudoHeader` adds up would
not fit a u32, which four bytes hold from base 3 on. It is held against RFC 1071, in
network order. The sums are recursive functions on an index, for the proofs.

The `MC*` modules give the constants their values. An operator or action named
for a mistake (`LinkKept`, `RxPostFrees`, `OddByteHigh`) comes right before the
one it varies. No specification uses it; each property is known to fail when it
takes the place of the correct one (`PROJECT.json`, "mutants").

## What the runs check

| run | bounds | what holds |
|---|---|---|
| `memp` | pools of 4 and 1 | `FreeListExact`, `PoolSpec` |
| `tcpip` | 3 buffers, 3 messages, a queue of 2, 2 TCP pcbs, with and without a mailbox | `OneOwner`, `NoLeak`, `FifoSpec`, `PoolRecovers` |
| `tcp_full` | 7 bytes of send buffer in segments of 2, 7 pbufs, 6 tcp_segs, a queue limit of 6, 32 sequence numbers, windows 0, 1, 4, MSS options 0, 1, none, both values of `copy` | `SendBufConserved`, `SegsConserved`, `QueueLenSound`, `QueuesContiguous`, `InFlightWithinWindow`, `HandshakeAckOwed`, `PbufsAccounted`, `StreamSpec` |
| `tcp_threads` | 3 pbufs, 2 keepalives | `PbufsExact`, `HandshakeAckOwed`, `FaultOnlyWhileSending` |
| `tcp_pcbs` | 4 pcbs | `ListExact`, `SearchFinds`, `SearchEnds` |
| `udp` | 3 pcbs, symmetry, the address of the interface and 0.0.0.0, datagrams for the first, 1 port to bind to, 2 ports given out, the same and, wrapping, 0 | `ListExact`, `NotMissed`, `NullCallOnlyIfTakenAway` |
| `ip` | the build's buffer (1514) and MSS (1400), some 200 kinds of IP frame, with headers of every sort of length, cut off, padded, longer than the buffer, requests and replies of ARP, a table of 2 for 3 hardware and 2 IP addresses, symmetry | `EndInPlace`, `DataExact`, `SentWhole`, `EchoToSender`, `PrintedWasTold`, `OneEntryPerMac`, `CacheSpec` |
| `chksum` | base 3; packets of up to 4 bytes, in one or three pieces, and of up to 8 of the highest byte; 3 addresses, 2 protocols | `ReceiverAccepts`, `HeaderAccepted` |

Each passing run checks its module's `TypeOK` too.

Why these bounds are enough. In `memp` the pool of one block goes through the
empty chain at every call, the pool of four has chains in every order. Three
buffers let the receive thread, the task and its ACK exhaust the pool with the
application left without, and two pcbs let SYNs that are never answered hold all
buffers but one; all three messages are in use when a frame arrives
that needs a fourth, once the task holds one and the queue two, so that
`t_tcpip_input` meets its own shortage; a queue of two has an order to keep and
blocks the poster, which the configured limits never do (255 is ignored and the
kernel's limit is far above 30 messages). In `tcp_full` a write makes up to
four segments, two writes merge, each of the shortages (send buffer, queue length,
tcp_segs, pbufs) is reached alone, and the sequence numbers wrap at the SYN
(`ISS` is 0, the SYN's number is `ISS - 1`), which in the build they do not:
`t_tcp_next_iss` always answers 6510, and a connection takes fewer numbers than
`SND_BUF`. The connection is never given
acknowledged send buffer back (see below), so its history is bounded by
the code itself, and no state constraint is needed. In `udp` three
pcbs are one removed, one behind it and one bound in front meanwhile, which is
what a walk can meet. In `tcp_pcbs` two pcbs move past each other while a third is
registered, and a fourth after that. In `ip` the headers of frames say no
length, the least, the greatest and, for the echo, each from 0 to 32 and 60; a UDP
header less than its own 8 bytes, them alone, exactly what is there, and more; a
TCP header nothing, less than is there and more; frames end in, at and behind each
header, and just fit a buffer or just do not; three hardware addresses fill the
table of two. In `chksum` every pair of bytes meets every other in one word and
across pieces of odd length; to base 3 two digits already carry, and eight bytes of
the highest digit need the second fold. Deadlock is not checked
where the process or the computation ends (`memp` and `ip` never do).

Fairness is assumed in `Tcpip` and `TTcpPcbs`. In `Tcpip` weak fairness of the
receive thread once it has a frame, of the task, and of the main thread during
start-up and while it sends (`RxRest`, `Task`, `AppRest`). The kernel schedules all
three and none holds the mutex across a wait. No fairness is assumed of the network, of
the user or of allocation by the application, and none of answers: a SYN may stay on
`unacked` for ever. `FifoSpec` and `PoolRecovers` hold under that; `PoolRecovers`
because there are more buffers than pcbs (30 and 2 in the build), each of which
holds one SYN at most. That would not be so if a program wrote data, of which up to 40
buffers may stay on a connection's queues (`t_lwipopts.h:16`); this one does not. In
`TTcpPcbs` the task runs on once it has a segment; nothing makes a segment come
or the user press a key.

### Where the code does not do what it says

Four runs are expected to fail; each shows a statement of the source that the
code does not keep.

* `tcp_null`: `t_tcp.h:169` calls `unacked` the "Sent but unacknowledged
  segments.", but the SYN is put there after it is sent. The task may process
  the answer in between and reads through NULL (`t_tcp_in.c:73`). Run
  `tcp_threads` shows that this window is the only one: before it, and after a
  failed connect, the comparison of `local_ip` keeps segments away.
* `tcp_unacked`: the same line; `t_tcp_process` handles no state but
  `SYN_SENT`, so acknowledged data stays on `unacked`, and neither `lastack`
  nor `snd_buf` moves again.
* `tcp_leak`: `t_tcp_out.c:141` says the header and data pbufs are concatenated;
  `t_pbuf_cat` copies, and the data pbuf of every zero-copy segment is lost.
* `route`: `t_ip.c:10` asks "network mask matches?", but `t_ip_addr_netcmp`
  (`t_ip_addr.h:4`) is true when the networks differ: with two interfaces the
  wrong one is chosen. With the program's single one it makes no difference.

What else the models show, without a statement of the source to hold it against:

* A failed post leaks buffer and message (`t_tcpip.c:58`).
* An answer before `netif->output` is set calls through NULL (`t_netif.c:56`).
* A zero-copy write that fails midway keeps the data pbufs of its earlier
  segments, neither free nor counted (`t_tcp_out.c:134`), and the pbuf of a merged
  segment is lost as well (line 197).
* A failed `t_tcp_connect` leaves the pcb in `SYN_SENT`, where `t_tcp_enqueue`
  takes data, which then goes out without a handshake (`t_tcp_out.c:7`, `t_tcp.c:142`).
  `TTcp` takes the application to heed the error.
* Data queued before the SYN|ACK keeps the MSS of before, whatever the peer
  announces (`t_tcp_in.c:80`).
* An echo request with exactly eight bytes of IP options is answered to a
  destination `t_ip_output` has half overwritten (`t_ip.c:120-123`);
  `EchoToSender` shows that no other length does this.
* A UDP header that gives less than its own length makes the callback print nearly
  2^16 bytes (`s_main.c:63`), and a TCP header that claims to be longer than its
  segment makes `tot_len`, and with it the segment's length, as large
  (`t_tcp_in.c:132`). `DataExact` and `EndInPlace` show that these are the only two.
* The answer to an echo request that claims less than 20 bytes of IP header has no
  room for one: with 4 it is sent with the header over the message, with 8 to 16 it
  is not sent (`t_ip.c:116`, `SentWhole`).
* The padding of a short Ethernet frame counts as data of its TCP segment
  (`t_tcp_in.c:142`, `168`), as `t_ip_input` does not cut the packet to its total
  length; `DataExact` says by how much. UDP goes by its own length.
* A registration that overlaps a move to the front can lose a pcb or close the
  list to a ring, with three pcbs or more (`t_tcp.h:64`, `t_tcp_in.c:155`).
* Ports for port 0 count past the end of their range (`t_udp.c:65`, a name
  nothing uses) and wrap to port 0, which `udp` includes; the list is right
  nevertheless.
* A UDP pcb connected without having been bound gets a port but keeps the local
  address 0.0.0.0 (`t_udp.c:90`), which `t_udp_input` takes literally: no datagram
  for the interface's address finds it (line 183). `NotMissed` promises nothing
  for it.
* Nothing consults the ARP table: `get_mac_from_ip` answers a fixed address.

## What is proved

`MempProofs`, `TcpipProofs`, `TTcpProofs`, `TTcpThreadsProofs`, `UdpProofs` and
`TTcpPcbsProofs` each prove a module's properties, `IpProofs` those of `TIp`, `TArp` and
`TInet`, and `LinkedLists` what two of them say of lists, for all values of the
constants that satisfy the modules' assumptions (pool sizes are positive; NULL is not
a block; the queue holds at least one message; there are more buffers than TCP pcbs; a
buffer has room for the headers at their longest and for a full segment; a frame has its
Ethernet header, and replies tell addresses the cache is for; a connection's send buffer and a segment take less than
half the sequence space; a packet to be summed up has less than Base^2 bytes).

* **`Memp`**: `TypeCorrect`, `FreeListCorrect`, `HeldLinksNull`,
  `ImplementsPool`. The invariant `IInv` is the conjunction of `TypeOK`,
  `HeldUnlinked` and `FreeListExact`. `FreeListExact` alone is not
  inductive: freeing into an empty pool leaves the link word as it is, so
  the new chain ends only if the word of a held block is NULL, which is
  `HeldUnlinked`. The chain is a witness `fl \in [1..k -> Pool(t)]`; malloc
  drops its head, free puts one in front. That `k` never passes `Num[t]` is
  `ChainBound`, from the injection of `1..k` into the pool. `ImplementsPool` is
  the refinement: initial states map to initial states, and each action to the
  abstract action of the same branch or to a stutter.
* **`Tcpip`**: `TypeCorrect`, `SingleOwner`, `NothingLost`, `FramesInOrder`. The
  invariant adds to the first three what ties program counters to pointers (a thread
  holds a buffer exactly at the counters where it should, and a message that is queued
  or held has its buffer in `inp`). A buffer on `unacked` is an owner's like the others. It is proved in a flat form in
  which the quantifiers over threads and queue positions are written out
  (`Flat`), with one lemma per action. `FramesInOrder` is the refinement of
  `FrameQueue` without its fairness: single ownership is why `RxAlloc` and `RxMsg`
  leave the frames that wait as they are, and `Carried`, that a buffer on its way to
  `t_raw_input` holds a frame, is what a fetch and a free need to be `Begin` and `End`.
* **`TTcp`**: `TypeCorrect`, `SegsAreConserved`, `PbufsAreAccounted`,
  `QueueLenIsSound`, `QueuesAreContiguous`, `InFlightIsWithinWindow`,
  `HandshakeAckIsOwed`, `SendBufIsConserved` and `StreamImplemented`, for any sizes of
  segments, send buffer, window, queue and pools, any ISS, and whatever the peer
  announces. Sequence numbers wrap, so the proof measures each by its distance from
  the SYN (`Off`). As nothing replenishes `snd_buf`, a connection takes less than
  `SND_BUF` numbers, and `SizeAssumption`, 2 * (SND_BUF + MSS + 2) < SeqSpace, is all it
  takes for distances to add up and `SEQ_LT` to compare them: in the build 36404 against
  2^32. The invariant `IInv` says that `unacked` and `unsent`
  are chains of distances that meet at `snd_nxt` (`Chain`), that the two counters
  and the pools balance with their lengths (`Conn`, `Pools`), and what holds before
  the SYN is queued, while it is out, and once it is answered (`Unused`, `SynOut`,
  `Open`): none of the properties is inductive without the chains, because
  `OnUnacked` and the merge in `t_tcp_enqueue` compare sequence numbers to decide
  where a segment goes. Each function in C has lemmas of its own under that
  invariant: what `t_tcp_enqueue` cuts is a chain behind `snd_lbb` (`CutIs`), merging
  keeps it one (`QueuedIs`), and by induction over the segments sent `t_tcp_output`
  appends a prefix of `unsent` to `unacked` (`UnackedIs`). A write that fails has
  returned what it took but for the calls of `t_pbuf_cat`, whichever allocation failed
  (`FailedIs`). That `Bytes` of a chain is
  its length but for the SYNs, again by induction, gives `SendBufConserved`.
  `StreamImplemented` maps each call to one step of
  `TcpStream` or none.
* **`TTcpPcbs`**: `TypeCorrect`, `ListCorrect`, `SearchCorrect`, for any number of pcbs.
  `ListExact` and `SearchFinds` are inductive only with where each thread stands. As
  long as no registration has overlapped a move to the front, `Whole` says that the
  list is all of `registered` but the pcb being moved, and that the search has the
  pcb it looks for on its way. An overlap takes three pcbs out of the pool
  (`Threads`): one being registered, one being moved, and the one in front of it;
  hence `Undisturbed` excludes it.
* **`TUdp`**: `TypeCorrect`, `ListCorrect`, `NoneMissed`, `CallbackCalled`, for any number
  of pcbs, ports and addresses. `Listed` is the list as a set; `Caller` is what the main thread
  may count on between two steps of a call. The walk may stand on a pcb that has been
  removed, or be led from one such pcb to the next, so that what it has before it is
  no part of the list: `Ahead` gives it a list of its own, with every pcb it must not
  miss and none in use that is not bound.
* **`LinkedLists`** is what both need of a list: `Leads`, that the links lead from
  an element through a given set and end. Pushing, dropping, stepping and writing
  to an element that is not on the list are lemmas about that set; the numbering
  of the elements (`Trail`) is used nowhere else. `FollowingMeets` ties it to
  the properties, which number the list by following links, with the `CHOOSE` of
  a recursive function. Induction over indices is `Induct`, stated about a set of
  numbers.
* **`TTcpThreads`**: `TypeCorrect`, `PbufsCorrect`, `AckCorrect`, `FaultCorrect`, for
  a pool of any size and any number of keepalives. The four are inductive only with
  what each thread may assume of the other: `Connecting` and `Connected` give
  the pcb and the SYN's memory at every point of `t_tcp_connect` and after it, and
  `Working` says that the task stays idle until the pcb has an address and holds a
  frame whenever it does not. The pbufs are counted as a sum of ones (`Held`), which
  `ExactIsHeld` shows to be the cardinality in `PbufsExact`.
* **`TIp`**: `TypeCorrect`, `EndKept`, `DataCorrect`, `SentCorrect`,
  `EchoCorrect`, for any sizes of buffer, struct and MSS, and any frames, whatever their
  headers say, where the run has some two hundred. The invariant `BufferInv` says for
  each point of the way where payload is and how many bytes follow, always in the form
  that `t_pbuf_alloc` would leave; `HeaderKeepsEnd` and `CatAppends` are what the
  layers use of `Pbuf` where the length moved by fits, `PastTheEnd` and `UdpWraps` where
  it does not. `Overlaps` decides which header lengths let an answer overwrite the
  address it goes to.
* **`TArp`**: `PrintedCorrect`, `OneEntryCorrect`, and `ImplementsCache`, for a
  table of any size. `ArpInv` adds that every row below `table_count` was told by
  one reply, and that the row being filled is the one behind the last, for an
  address the search did not find. The refinement rests on `CacheOfLearned`:
  one row more, or one brought up to date, is one entry learnt; that there is room
  for it follows from counting the rows (`CacheOfSize`).

* **`TInet`**: `ChksumTypeCorrect`, `ReceiverAcceptsAlways`, `HeaderAcceptedAlways`,
  for packets of any bytes, cut into any number of pieces of any, also odd, lengths,
  to any base above 2. All is counted modulo Base^2 - 1 (`Cong`), which end-around
  carry keeps a sum to. Base is its own inverse there (`CongTwice`), so that exchanging
  the bytes of a word multiplies it by Base (`SwapCong`), and what
  `lwip_standard_chksum` reads in memory order is Base times the sum in network order
  (`ChksumCong`). Behind an odd number of bytes the next buffer's bytes change places
  in their words (`ConcatSum`), which is what `swapped` is for: the invariant
  `ChksumInv` says that `acc` is the sum of the buffers done, in network order while
  `swapped` is set and in memory order otherwise, and that `swapped` is the parity of
  their length. `ReceiverAccepts` needs more than the remainder, that the sum is not
  zero: no fold makes a zero of what was none, and `ChksumInv` carries along that a
  packet that sums up to zero leaves a zero `acc`. What sums over data of any length
  are is proved by induction on a set of indices (`Induct`), the recursive functions
  in `NetworkSum` and `WordSum` shown to be what they say by uniqueness (`AgreeOn`).
  The u32 never wraps (`FoldedCong`, `PseudoAccepted`), and two folds are enough.

Model-checked only: the liveness half of `FifoSpec`, `PoolRecovers` and
`SearchEnds` (liveness is beyond the prover here); and routing, whose one property
fails. Every invariant a passing run checks is a theorem.

## Not modelled, and why

* Contents of frames and headers, addresses and ports, except what decides
  about lengths, the protocol, the destination and the connection a segment
  belongs to. Fields that are written and never read (`snd_max`, `snd_wl1`,
  `rttest`, the timers, which nothing drives).
* A restart over the mailbox of the previous process (`t_sys.h:26`): the
  messages left in it are pointers of a process that is gone, and what they
  point to in the new one is the loader's business. The eight bytes `msgrcv`
  writes behind the task's `msg` variable are below the level of the models too.
* A second `t_tcp_connect` on the same pcb, and writes from a thread of their
  own: no caller in the compiled program makes either (`t_tcp_write` has none at
  all). A callback that returns an error from `connected`; the one in the program
  returns 0.
* Chains of pbufs and `ref`: nothing builds a chain, and `ref` is 1 from
  allocation to release. (`TInet` does follow chains, as `t_inet_chksum_pseudo` does.)
* The unbuilt API (`api/`, except `t_tcpip.c`): the Makefile leaves it out and
  `t_tcpip_task` ignores its messages, so that there is no program to model.
* Memory orders weaker than the interleavings above.

## Plan

Done: the pools; the threads and the mailbox; one TCP connection, by calls and
under threads; the lists of UDP and TCP pcbs; buffers, IP, ICMP and ARP; routing;
the checksum; the proofs above.

Left: what `TTcpPcbs` still promises once a registration has overlapped a move. A
writing application thread in `TTcpThreads`, should the program get one; the API,
should it be built.
