# Verification of the AR6k host driver

TLA+ models of the host side of the AR6kSDK 3.1 WLAN driver, checked with TLC,
with theorems proved with TLAPS. Paths below are relative to
`src/AR6kSDK.build_3.1_RC.563/host/`.

## The system

The driver runs on the host of an AR600x WLAN chip (the *target*). From the bus up:

| Component | Code | State it keeps | Operations | What makes it correct |
|---|---|---|---|---|
| SDIO host interface (HIF) | `hif/sdio/linux_sdio` | list of free bus requests, queue of submitted ones, scatter requests | `HIFReadWrite`, the `async_task` thread, `HIFAckInterrupt` | a submitted request is completed once, in order; a request is freed once |
| AR6K device layer | `htc2/AR6000/ar6k.c`, `ar6k_events.c` | shadow of the interrupt enable registers, recheck counter, pool of I/O packets | `DevDsrHandler` and its asynchronous chain, `DevStopRecv`, `DevEnableRecv` | each interrupt is acknowledged once; the device ends up with the enables last asked for |
| HTC core | `htc2/htc.c`, `htc_services.c` | endpoints, control buffers, start and stop flags | `HTCWaitTarget`, `HTCConnectService`, `HTCStart`, `HTCStop` | the handshake happens in order; no buffer is lost at stop |
| HTC transmit | `htc2/htc_send.c` | per endpoint: TX queue, drainer count, sequence number | `HTCSendPkt(sMultiple)`, `HTCProcessCreditRpt`, `HTCFlushEndpoint`, `HTCIndicateActivityChange`, send completion | every packet completes once; order per endpoint; no stalled queue; credits conserved |
| Credit policy | `miscdrv/credit_dist.c` | free pool; per service: credits, limit, norm, credits to distribute | init, send complete, activity change, seek | credits neither created nor lost; priorities and minimums respected |
| HTC receive | `htc2/htc_recv.c` | RX buffers, indication queue, drainer count, blocked flag | look-ahead fetch, `HTCAddReceivePktMultiple`, `HTCUnblockRecv` | order kept; the receiver is blocked only while buffers are missing |
| WMI | `wmi/wmi.c` | active priority streams, command state | one function per command and event | stream bookkeeping agrees with what HTC was told |
| RX reordering | `reorder/rcv_aggr.c` | per TID: window start, held frames, timer flags | frame, BAR, ADDBA, DELBA, timeout | frames delivered in order, once, and never held for ever |
| BSS node table | `wlan/src/wlan_node.c` | hash table and list of scan results, reference counts | find, setup, reclaim, refresh | a node in use is not freed |
| Linux driver | `os/linux` | cookies, pending counts, stopped network queues, connection state | transmit, completions, ioctls, suspend and resume | the network queue is not left stopped; cookies are returned |
| Boot, tools and others | `bmi`, `hif/common`, `miscdrv/ar3kps`, `dfs`, `p2p`, `lib/wac` | | | see `PROJECT.json` |

How they interact: the Linux driver calls HTC from transmit contexts, from
process context (stream changes through WMI, flushes) and from HTC's callbacks.
HTC transmit calls the credit policy with the TX lock held, and HIF without it.
The HIF thread runs completions, which call back into HTC and the driver. The
receive path parses the trailers of received messages and calls
`HTCProcessCreditRpt`. Shared state is guarded by the TX lock, the RX lock, the
device lock and HIF's own; several decisions are taken on values read before the
lock is taken, or used after it is released. That is where the behaviour is hard, and the
hazards of `PROJECT.json` list those places one by one.

## What is modelled

### `CreditDist`: the credit policy

The policy is called with the TX lock held and never blocks, so each callback is
an operator from a credit state to a credit state. A credit state is a record
with the pool (`free`) and one function per field of `HTC_ENDPOINT_CREDIT_DIST`
that changes (`credits`, `assigned`, `toDist`). `InitCredits`, `SendComplete`,
`RedistributeCredits` and `SeekCredits` are the four callbacks; `ReduceCredits`
and `GiveCredits` the primitives. The code walks linked lists of fixed length
five. A walk in which the services do not affect one another is a single step for all
services; the walk of `SeekCredits`, where each victim sees what the pool gained
from the one before, is `PoolAt`. Nothing is recursive, so the prover can expand it all.

`TxCreditsNorm` and `TxCreditsMin` never change after start and are definitions.
The configuration is the one of the makefiles, with
`CONFIG_GIVE_LOW_PRIORITY_STREAMS_MIN_CREDITS`. `TxCreditsPerMaxMsg` is the same for
every service (`PerMaxMsg`), as `ar6000_credit_init` itself assumes.

### `HTCSend`: the transmit path

State and code:

| Variable | Code |
|---|---|
| `cs`, `active`, `depth` | the credit state, `HTC_EP_ACTIVE`, `CreditDist.TxQueueDepth` |
| `txQueue`, `txProcessCount`, `seqNo` | `TxQueue`, `TxProcessCount`, `SeqNo` of an endpoint |
| `pktSeq` | `AsTx.SeqNo` of a packet |
| `where` | who owns a packet: an observation for the properties; only the calls from above read it, to choose packets they own, and the completion of a bundle, for the packets it hands back |
| `atTarget` | credits of delivered packets that the target has not reported yet |
| `hif`, `hifStatus` | HIF's queue of submitted transfers and the outcome of the one at its head |
| `txLock` | the TX lock, held over several steps by a drain or a flush |
| `pc`, `ep`, `sendQueue`, `overflow`, `refused`, `toCheck` | the position and the local variables of each thread in `HTCTrySend`, `HTCCheckEndpointTxQueues` or `HTCFlushEndpointTX` |

Actions are what a thread does between two points at which another may run. A short
region under the lock is one action; the draining loop, which is long, takes one
packet per step with the lock held, and unlocked reads of the queue depth are
steps of their own.

| Action | Code |
|---|---|
| `SendPktsMultiple`, `MeasureOverflow`, `OfferOverflow`, `EnterTrySend` | `HTCSendPktsMultiple` and `HTCTrySend` up to the drain loop: two unlocked looks at the depth, `EpSendFull` for each packet that overflows, then the append and the test of `TxProcessCount` |
| `GetHTCSendPacket`, `EndOfPass` | `GetHTCSendPackets`, and the end of a pass of the drain loop |
| `IssueSend`, `IssueSendBundle`, `Relock` | the inner loop, `HTCIssueSend` and `HTCIssueSendBundle` |
| `ReturnToCaller` | completion with an error of the packets that did not get in, or were flushed |
| `CheckEndpointTxQueue` | one iteration of `HTCCheckEndpointTxQueues`; a nested `HTCTrySend` returns to it through `toCheck` |
| `HTCProcessCreditRpt`, `HTCIndicateActivityChange` | the functions of those names, up to the check of the queues |
| `FlushEndpointTX`, `FlushPacket`, `FlushDone` | `HTCFlushEndpointTX` |
| `TransferDone`, `CompleteSentPacket` | the HIF thread: `async_task`, then `HTCSendPktCompletionHandler` or `HTCAsyncSendScatterCompletion` |

Abstractions. A packet is a value with a fixed endpoint and cost in credits, the
padded length divided by the credit size. How many packets of the local queue a
bundle takes depends on lengths and free scatter requests: any number from two
to `MaxMsgPerBundle`. Credit reports return any part of what the target owes.
`EpSendFull` may answer anything in `FullActions`; which, the driver decides on state
HTC does not see. Services without traffic (`UsedServices`) keep empty queues, so
threads do not stop at them.

`Queues` has the queue operations; `MCHTCSend` the tables of packets for TLC.

### `CreditLedger`: what the transmit path promises

The abstract specification of credit flow control. It has three variables (credits
with the host, packets that carry credits, the target's account of each service)
and four actions: a packet is charged, arrives, is reclaimed, or the target reports.
It knows nothing of queues, threads, locks or the policy.

`HTCSend` implements it (`Ledger == INSTANCE CreditLedger WITH ...`, `KeepsTheLedger`).
The host's credits are the pool plus those of the services, the packets that carry
credits are those from the moment they are charged to their outcome (`ChargedPackets`; one that a failed
submission lost carries them for ever), and the
target's account is `atTarget`. A drained bundle that completes is several arrivals in
the code's loop, one per step here as well.

### `HIF`: the bus, and `BusQueue`

| Variable | Code |
|---|---|
| `freeList`, `scatterReqs`, `scatter` | `s_busRequestFreeQueue`, `ScatterReqHead`, the bus requests with a `pScatterReq` |
| `asyncreq`, `inusenext` | the list of queued requests: its head and links (`Queue` is what `Followed` finds along them) |
| `sync`, `semReq`, `semAsync` | `HIF_SYNCHRONOUS` of a request, its `sem_req`, `sem_async` |
| `shutdown`, `completion`, `asyncTask`, `disabled` | `async_shutdown`, `async_completion`, `async_task`, `is_disabled` |
| `host`, `irqClaimed`, `irqHandling` | who has claimed the SDIO host; whether the handler is registered; `irqHandling` |
| `at`, `hand`, `current`, `stage` | position and request of each thread, the request `async_task` works on, progress of start and stop |
| `done`, `ahead`, `stranded` | observations for the properties |

| Action | Code |
|---|---|
| `HIFReadWrite`, `ReadWriteScatter`, `AddToAsyncList`, `Wake`, `Awake`, `ReturnStatus`, `Interrupted` | `HIFReadWrite` and `HifReadWriteScatter`, cut at each lock and each semaphore |
| `Down`, `Claim`, `Pull`, `PerformSync`, `PerformAsync`, `CallbackReturns`, `Release`, `Exit` | `async_task`; the completion may submit again |
| `Interrupt`, `EnterDsr`, `LeaveDsr`, `InterruptDone` | `hifIRQHandler`, which gives up the host while the DSR runs |
| `EnableFunc`, `SetupScatter`, `UnMaskInterrupt`, `MaskInterrupt`, `StopTask`, `TaskStopped`, `DisableFunc`, `CleanupScatter` | the functions of those names, in the order of start and stop |

Abstractions. What a request reads or writes is left out, and transfers succeed: their status is only passed on. A
scatter request is its bus request. Callers keep the rule of `hif.h:191` (no request when powered down). A wait can
be interrupted only in process context; kernel threads take no signals. The DSR always reads the interrupt status.

`BusQueue` is what the HIF promises: requests are carried out one at a time, in the order of submission, once.
`HIF` implements it (`KeepsOrder`) with its linked list, where a request that is queued again must not bring its
old link along.

### `HTCRecv`: interrupts and receiving

| Variable | Code |
|---|---|
| `mbox`, `sent`, `other`, `reg` | external: the target's mailbox, what it sent, another interrupt source, its enable register |
| `shadow` | `IrqEnableRegisters` |
| `taken`, `acks`, `recheck` | the interrupt between `DevDsrHandler` and `HIFAckInterrupt`; `RecheckIRQStatusCnt` |
| `bus` | HIF's queue of requests: status reads, mailbox reads, register writes |
| `rxBuffers`, `withUser`, `lost` | depth of `RxBuffers`; observations of where the other buffers are |
| `waiting`, `waitingEp` | `HTC_RECV_WAIT_BUFFERS`, `EpWaitingForBuffers` |
| `indication`, `draining`, `indicated` | `RecvIndicationQueue`, `RxProcessCount`; an observation |
| `pc`, `loc` | position and locals of each thread |

Threads: the `dsr`; contexts in which the HIF calls completions; the `user` who gives
buffers back. In "sync" mode (`HIF_DEVICE_IRQ_SYNC_ONLY`) the handler waits for each
transfer. In "async" mode a chain of completions continues it.

| Action | Code |
|---|---|
| `TakeInterrupt`, `ReadStatus`, `ProcessPendingIRQs`, `MessagesHandled`, `ServiceOthers` | `DevDsrHandler`, `ProcessPendingIRQs` |
| `AllocPackets`, `FetchPackets`, `AllFetched` | `AllocAndPrepareRxPackets`, `HTCIssueRecvPacketBundle` and the loop around it |
| `IndicateSync`, `BadHeaderSync`, `FollowLookAhead`, `CheckWaiting` | the rest of `HTCRecvMessagePendingHandler` |
| `QueueIndication`, `BadHeader`, `CheckMorePackets`, `TakeIndications`, `Indicate` | `HTCRecvCompleteHandler`, `HTCAsyncRecvCheckMorePackets`, `DrainRecvIndicationQueue` |
| `HandleEvents`, `ChainContinues` | `DevGetEventAsyncHandler`, `DevCheckPendingRecvMsgsAsync` |
| `AddReceivePkts`, `RecyclePkts` | `HTCAddReceivePktMultiple`, `HTC_RECYCLE_RX_PKT` |
| `SetShadow`, `WriteEnable` | `DevDoEnableDisableRecvNormal`: under the lock, then after it |
| `BusStatus`, `BusRead`, `BusReadFails`, `BusWrite` | the HIF and the target: requests are carried out in order |

### `RxReorder`: reordering of aggregates

| Variable | Code |
|---|---|
| `aggr`, `seqNext`, `holdQ`, `q`, `lock` | the fields of `RXTID` |
| `progress`, `timerMon`, `timerScheduled` | the timer's flags, shared without a lock |
| `timerPending` | the kernel's timer |
| `connected` | `dev` |
| `job`, `pc`, `frame`, `event`, `visit`, `hand` | positions and locals of the receive thread and of the timer's handler |
| `peer`, `base`, `arrived` | external: the sender, its window, what reached the host |
| `delivered`, `freed` | observations |

`AimDeque`, `ReleaseSlot` and the steps from `DispatchFrames` to `EndDispatch` are `aggr_deque_frms`:
the range is computed before the lock is taken, the slots are emptied under it, the frames
dispatched after it. `DispatchFrames` looks once whether there is a device; then `DrainFrame` and `DeliverFrame` take
one frame after the other to the stack, or `FreeFrame` frees them. `ReceiveFrame`, `PullWindow`, `StoreFrame` and the steps from
`NoteProgress` to `MonitorTid` are `aggr_process_recv_frm`. `ProcessBar`, `RecvAddbaReq`,
`RecvDelbaReq`, `ResetState`, `DeleteTidState` and `InstallTid` are the functions of similar names;
the steps from `Expire` to `RearmTimer` are `aggr_timeout`, one per unlocked access.
`ResetState` is called with NULL on a disconnect and with the device on a connect; a connect event may come while
connected, and what is held is then delivered as by DELBA (`"reconnect"`). `InstallTid` may fail to allocate
`hold_q` (`"nomem"`): the window is then set, but the session is off.
`Peers` lists what may be at the other end: first number, number of frames,
block-ack requests, session events, and whether a timeout may pass.

### `DriverTx`: the driver's transmit side and WMI streams

| Variable | Code |
|---|---|
| `freeCookies`, `msg` | `arCookieList`, and the packet of each cookie |
| `pending`, `totalPending`, `ctlFull` | `arTxPending`, `arTotalTxDataPending`, `arWMIControlEpFull` |
| `active`, `hiPri` | `arAcStreamActive`, `arHiAcStreamActivePri` |
| `stopped` | the network queues of the devices |
| `serves` | the device a call or event is for, which ends up in the header of its packets |
| `fat`, `thin` | `wmi_fatPipeExists`, `wmi_streamExistsForAC` |
| `htc`, `pipes`, `timeouts` | external: packets HTC holds; the target's implicit pipes and the timeouts it reported |
| `todo` | what each thread still has to do after its present step |
| `stage`, `hand`, `verdict`, `flushing`, `copy` | position inside `HTCSendPkt` or a completion, and locals; `flushing` has an entry per device, `"unset"` until a completion writes it |

The threads are one transmit thread per device, one ioctl at a time, the receive thread
(with the target's events) and the HIF's completions. Each function of `wmi.c` is a list of
steps in `todo`. A step is what happens under one lock, so any other thread may run between two of
them: `wmi_delete_pstream_cmd`, for example, is `delete`, `sync`, one `dataSync` per
pipe, `command`, `forget`, `inactive`, `readMap`, `writeMap`. A command refused for lack of
a cookie removes the rest of its sync point from the list and lets the caller go on, as the code does.

HTC is external here: `SendPkt` accepts a packet, or offers it to `ar6000_tx_queue_full` when
it holds enough packets of that endpoint, and completions take any batch of one
endpoint. `HTCSend` has the details of HTC, with this driver as its environment.
The two meet at `HTCSendPkt`, at `EpSendFull` and at the completion callback.

`Scenarios` lists combinations of network type, devices, kinds of events and bounds;
a run explores all of them.

## What the runs check

Every run has `CHECK_DEADLOCK FALSE`: packets, frames, messages and calls are bounded, so
traffic may legitimately end. Small parameters make the rare cases common: queues
overflow with one packet, one or two packets use up an endpoint's credits, and
sequence numbers wrap modulo 2 when sending and modulo 16 when receiving.

| Run | Instance | What it shows |
|---|---|---|
| `send_threads` | two senders and the receive thread, three packets on two endpoints, costs of one and two credits, bundles of two, one stream that goes active and inactive | `TypeOK`; `PacketsPlaced`: each packet is in exactly the one place `where` names; `OneDrainer`; `SentInOrder`; `NoStalledQueue`, when limits change under traffic too |
| `send_faults` | one sender, flushes, failing transfers, one bus request, two streams | `CreditConservation`: pool, services, in-flight packets and target add up to the grant at every step; `FreeCreditsInRange`, the assertions of the policy; `PacketsPlaced`; `KeepsTheLedger`: the refinement of `CreditLedger` |
| `send_live` | two senders, one free credit, fairness | `QueuedPacketsLeave`: no queued packet is forgotten |
| `recv` | two endpoints with two buffers and one, three messages, bundles of two, both interrupt modes, two contexts, one failure | `FetchesAnnounced`: what is fetched was announced, for the endpoint whose buffers it fills; `IndicatedInOrder`; `BuffersAccounted`; `AckedOnce` and `AckedWhenQuiet`; `DrainedWhenQuiet` |
| `rx_order` | a window of 2 in a ring of 4, numbers modulo 16, four peers: eight frames that wrap, with loss, renegotiation, resets and sessions without memory; block-ack requests and every session event, the connect event while connected among them, while the numbers wrap; the timer alone; the timer with all of these | `DeliveredInOrder`, `NoFrameLost`, `HeldInWindow` while no timeout passes; `HeldIsTimed` and `QueueEmptyAtAddba` always |
| `rx_live` | two TIDs, two frames each, fairness | `HeldFramesLeave`: no frame is held for ever |
| `hif` | an interruptible caller, a sender, the interrupt thread, start and stop twice, three bus requests of which one belongs to a scatter request, two calls besides those of start and stop, fairness | `RequestsAccounted`, `WokenAfterTransfer`, `FlushedOnReturn`, `MaskedIsQuiet`; `KeepsOrder`: the refinement of `BusQueue`; `QueuedCarriedOut`, `DisableReturns` |
| `drv` | three cookies, two access classes, thin streams 1 and 9 in each, nine scenarios: implicit pipes that time out, with three packets of two devices and failing transfers, and with five of one; the user's streams with failures, admission events and host sleep; ad-hoc; bypasswmi with two devices, and with failures | `CookiesAccounted`, `PendingCounted`, `ControlEpFullClears`, `HighestActive`, `QueueResumes`, `NoBackToBackCreate`, `ActiveHasPipe` |

`send_threads` uses the symmetry of the two senders. Two senders are enough for the
hand-over between threads, which involves the drainer and one other; the receive
thread adds a third that can drain. Two packets on one endpoint let one
wait, overflow or be bundled while the other is in flight, and their numbers wrap; the third competes for
the same credits.

For receiving, two contexts are enough for a completion to run while another drains, and three
messages for a bundle and a message that follows it; one buffer makes
an endpoint run out in the middle of a bundle. The ring of four slots has the holes, the overtaking and
the wrapping that larger windows have; eight frames go round it twice and wrap the
numbers. Two TIDs are needed only where the one timer is shared. For the driver,
three packets let two devices race to create a pipe again that timed out; three cookies let two packets of different
endpoints be out while a third is refused or dropped; `QueueDepth` 1 offers the second packet to the full callback; and
stream 9 is one that `wmi_cac_event_rx` takes for inactive. For the HIF, two calls and the one of
`HTCStop` are enough for a request to be queued behind two others, for a bus request to be used again
after an interrupted wait or with an old link, and for an interrupt to arrive while others wait; a second start finds
what the first left in the queue.

`NoStalledQueue` says that once every thread is idle, the bus is idle and the target
has returned all credits, no packet waits. It is the safety half of liveness:
nothing in HTC would ever look at the queue again. `send_live` shows the other half
on a smaller instance.

Fairness (`FairSpec`): a thread inside HTC keeps running, the HIF thread keeps
transferring, and the target keeps returning the credits it owes, which the host asks
for with `HTC_FLAGS_NEED_CREDIT_UPDATE` whenever it runs low. All three are
weak. Nothing obliges the layer above to call, so its calls are unfair.
In `HIF` the kernel runs every thread that is not asleep: a call in progress, `async_task`, the end of an
interrupt, and `hifDisableFunc` once the thread has ended; calls, interrupts and stops are unfair.
In `RxReorder`, `FairSpec` is weak fairness of the receive thread inside this code and of the timer: the
kernel runs both, and a timer that was started expires. The peer owes nothing: a hole may never be
filled, which is what the timer is for.

`DeliveredInOrder` is claimed for a peer that gives up no more frames than there are numbers
(`Numbered`), while nothing but the window releases frames (`OnlyTheWindow`), and where no window
is shifted to start at number 0 (`ShiftsToZero`; `rx_shift` shows what that does). `OnlyTheWindow` excludes a timeout,
a block-ack request, DELBA, and a connect event while connected: each of them delivers frames that wait behind a hole, and the
frame they wait for may still come. A reset by a disconnect frees them, and renegotiation comes when nothing is missing. The other properties of
the reordering need less: `NoFrameLost` and `HeldInWindow` only that no timeout passes.

`NoBackToBackCreate` and `ActiveHasPipe` are claimed where only the code that holds the WMI lock
changes the map of pipes (data and timeouts); `drv_create` shows what happens with the
others. `QueueResumes` is claimed for bypasswmi without failures, and for the first device, the one whose entry of
`flushing[]` a completion then writes: see the observations below.

Where the code and what it says of itself differ, a run shows it; `PROJECT.json`
quotes each claim under "findings".

| Run | Claim refuted | How |
|---|---|---|
| `send_leftovers` | credits stay available for the leftover packets of an inactive stream | the limit is raised to the minimum without giving credits; if the norm equals the minimum, seeking is then refused and the packets wait for ever |
| `rx_shift` | "dequeue only those frames that are outside the new shifted window" | 0 stands for "no number" in `aggr_deque_frms`, so a window shifted to start at number 0 releases everything |
| `recv_stop` | before leaving, check whether the host ran out of buffers and the receiver is to be stopped | the flag is read without the lock; a buffer added before the stop enables the receiver first |
| `drv_create` | "To prevent the driver from sending the back-to-back CREATE_PSTREAM cmd" | going to sleep writes back a stale copy of the map of pipes; the bit of a pipe created in between is lost |

The passing runs state what holds in spite of that: `PacketsPlaced` accounts for a
lost packet under `where[p] = "lost"`, and `CreditConservation` for the
credits it carries away. `NoStalledQueue` and `QueuedPacketsLeave` are checked with
transfers that succeed: after a failed transfer the code reclaims credits without
looking at the queues (`htc_send.c:90-97`), and a packet may wait until the next call.
`send_threads` uses a norm larger than the minimum, which excludes the
situation of `send_leftovers`.

Observations made while modelling; the models behave like the code, and no property is claimed
against it.

- Transmit. The depth of a queue is tested before the lock is taken (`htc_send.c:512`), so it can exceed
  `MaxSendQueueDepth` (`htc_api.h:148`). It is read twice (`:517`), so `A_ASSERT(goodPkts >= 0)` can
  fail. The status of `HTCIssueSend` is ignored (`:651`): without a bus request the packet ends as
  `where[p] = "lost"`, although `htc_api.h:375-376` promises its callback. `SeekCredits` may lower
  more limits than it needs when credits are in flight (`credit_dist.c:368`).
- Receive. A packet whose header is bad, or that is read alone and fails, in the synchronous path
  is on no queue any more when the rest are recycled (`htc_recv.c:1244-1247`, `1282-1293`); the model counts it in `lost`.
- Reordering. A block-ack request for the number the window starts with releases the whole window
  (`rcv_aggr.c:361`); a repeated frame is delivered twice if the first was already released; a frame in
  the slot of another replaces it (`:583`), which happens only after a timeout moved the window; a late
  frame is delivered behind its successors when a window shifted to number 0 was released whole (with
  `Peer(SeqSpace - 3, 10, FALSE, {}, FALSE)`, frame 5 after frame 6); DELBA
  frees `hold_q` while the timer may be inside it (`:134`): the model stops that thread there. `aggr_dispatch_frames`
  tests `dev` once (`:710`) and reads it again for each frame (`:717`): if a disconnect resets it meanwhile,
  the timer's handler passes NULL to `ar6000_deliver_frames_to_nw_stack`, which dereferences it (`ar6000_drv.c:5005-5006`);
  the model stops that thread too. A connect event while connected delivers what is held (`ar6000_drv.c:5693`,
  `6045`), ahead of the frame it waits for.
- HIF. An interrupted wait (`hif.c:384-387`) leaves the caller's buffer queued and never frees the bus
  request; the wake-up that comes later stays with the lost request, which is what keeps it from a later
  user. `HTCStop` ignores the status of `DevMaskInterrupts` (`htc.c:475`), so after an interrupted wait, or with
  no bus request free, it flushes while I/O is pending. Requests queued when the thread stops stay in the queue until
  another request wakes the next thread. If `sdio_disable_func` fails (`Outcomes` = {"failed"}),
  `is_disabled` stays FALSE, the next `hifEnableFunc` starts no thread, and a second `hifDisableFunc`
  waits for ever: `!IS_ERR(NULL)` holds (`hif.c:1128`). `DisableReturns` is checked with successful outcomes.
- Driver. With an ad-hoc network the queue is stopped whenever an endpoint is full
  (`ar6000_drv.c:4413-4420`, "the queue will resume in ar6000_tx_complete()"), but completions
  wake only infrastructure networks and bypasswmi (`:4578`). `flushing[]` is not initialised
  (`:4439`), and a completion writes only the entries of the devices whose packets were sent or flushed, with
  bypasswmi only entry 0 (`:4510`). Whether the queue of any other device is woken is up to what is on the stack, and the
  model has both outcomes: with bypasswmi a second device's queue can stay stopped with nothing left to complete,
  contrary to the comment at `:4402`. `wmi_cac_event_rx` keeps whether a stream existed in eight bits (`wmi.c:2802`, `2807`): when the
  access point deletes a stream from 8 on, and it was the last, the pipe keeps its bit and its activity (`CacDeleted`).
  `wmi_create_pstream_cmd` sets the bit of a pipe before the command is accepted, so a command
  refused leaves a pipe the target never heard of. A sync point whose data syncs run out of
  cookies sends fewer than its map announces. With bypasswmi `arTotalTxDataPending` only grows.
  A thin stream can end up in an access class without its bit, because the bit is also cleared outside the
  lock (`wmi.c:2817`, `4342`).

## What is proved

The theorems hold for every value of the constants that satisfies the assumptions of
the module: `CreditAssumption` and `SendAssumption` for the transmit path (any number of threads,
packets and credits, any costs, depths and bundle sizes), `DriverAssumption` for the driver (any finite
number of cookies, devices and streams, any scenario), `HIFAssumption` for the HIF (distinct threads, any finite
number of bus requests, of which some belong to scatter requests), `ReorderAssumption` for the reordering (any
TIDs and window, at least two rings of numbers, a multiple of the ring, any peers), `RecvAssumption` for the receive path (any
finite number of endpoints and of contexts, which are none of the other threads, any buffers, messages and failures). `CreditAssumption` is the check
`ar6000_credit_init` makes, that some credits are left in the pool after the initial
distribution, and that a maximum message takes at least one credit. `SendAssumption`
gives types and says that packets are finite in number and cost at least a credit.

- `CreditDist_proofs`: each callback of the policy maps credit states to credit
  states, where all counts are natural numbers, and keeps the sum `HeldCredits`
  unchanged (`InitCreditsCorrect`, `SeekCreditsCorrect`, `SendCompleteCorrect`,
  `RedistributeCreditsCorrect`). The credits to be distributed are part of the
  sum, so collecting them keeps it. `PoolPastType` and `PoolAtType` follow the pool along the
  walk of `SeekCredits`, each step of which takes at most what the victim has.
- `Queues_proofs`: which elements the queue operations return, and that they keep
  queues free of duplicates.
- `HTCSend_proofs`: `TypeCorrect == Spec => []TypeOK`. `TypeOK` is not
  inductive alone: a queue must be non-empty for its head to be a packet, and
  who holds the lock decides which thread may be where. `Control` adds what is needed, and
  `TypeInv == TypeOK /\ Control` is inductive; each action has a lemma. The same
  module proves, action by action, what each does to the sum of credits held
  by the host and returned by the target (`GetHTCSendPacketCredits`,
  `HTCProcessCreditRptCredits`, `CompleteSentPacketCredits`, ...).
- `HTCSend_proofs`: `OneDrainerCorrect == Spec => []OneDrainer`. With the types,
  `OneDrainer` is inductive (`DrainInv`). Only `EnterTrySend` and `EndOfPass` change who
  drains; any other step of a thread outside a pass is `OutsidePass`.
- `HTCSend_proofs`: `PacketsPlacedCorrect == Spec => []PacketsPlaced`. The
  inductive invariant `PlaceInv` splits `PacketsPlaced` into the sets of packets in each
  place (`Placed`) and the absence of repetitions (`Unrepeated`), and adds
  `OnEndpoint`: what a thread collected belongs to the endpoint it works on, or
  `EnterTrySend` would queue it on the wrong one. One lemma, `MovePlaced`, shows
  that a step that moves a set of packets to a new owner keeps `Placed`; each
  action has to show only which sets it changes, from the lemmas of `Queues_proofs`.
- `HTCSend_proofs`: `CreditConservationCorrect == Spec => []CreditConservation` and
  `FreeCreditsCorrect == Spec => []FreeCreditsInRange`. Only `GetHTCSendPacket` and
  `CompleteSentPacket` change which packets are charged; that the one they move was
  uncharged, or charged, follows from `PlaceInv` (`CreditsOfAdd` then counts its credits).
  The other steps keep the packets charged (`SameCharged`) and, by the
  lemmas of `HTCSend_proofs`, the rest of the sum.

- `HTCSend_proofs`: `KeepsTheLedgerCorrect == Spec => KeepsTheLedger`, the refinement. Initial
  states map to initial states by `InitCreditsCorrect`. `GetHTCSendPacket` is a charge,
  `CompleteSentPacket` an arrival or a reclaim, `HTCProcessCreditRpt` a report, and every other
  action leaves the three mapped variables unchanged. The lemmas used are those of conservation.
- `HTCSend_proofs`: `SentInOrderCorrect == Spec => []SentInOrder`, for every width of the sequence number. With `PlaceInv` and
  `OneDrainer`, `SentInOrder` is inductive (`OrderInv`): a packet gets the next number while it is in a TX queue, so not
  in HIF or collected; a thread that starts to drain finds nothing but what HIF has, because nobody else drains; and
  submitting moves packets from the thread to the end of HIF without changing how many are behind each (`SubmitKeepsCount`). The
  premise that HIF refused nothing is needed: `HTCTrySend` ignores the refusal, and the number of that packet is never sent.
- `HTCSend_proofs`: `NoStalledQueueCorrect`, for grants that are ample: `AmpleGrant` asks that the norm is at least two
  messages and that the grant exceeds the norm by more than six messages less three credits. With messages of
  one credit any grant from 6 on is ample, with messages of two one of 20; the premises `CostsFit` (no packet costs more
  than the largest message), transfers that succeed and `NoneRefused` are those of the run `send_threads`, whose grant is smaller.
  The invariant has two parts. `AttendInv`: a queue with packets in it is drained, about to be, or
  still to be visited by a thread, or credits are out, whose report makes HTC visit every queue. It is kept because
  a sender leaves its packets only to a drainer that exists (`OneDrainer`), and a drainer gives up only
  what is not covered; `UncoveredIsOutstanding` says that credits are out then. For that, `BalanceInv` (`Balanced`) relates the limits
  of the policy to the credits a service holds and has out: a service was given its limit, except the message that
  `RedistributeCredits` grants VO and VI without giving it. With every credit back, a service that lacks
  credits is then below its norm, and either the pool has them or the limits of the lower services
  give them up (`AllHomeCovers`). Each callback of the policy keeps the balance (`SeekBalanced`, `SendCompleteBalanced`, `RedistributeBalanced`).
- `DriverTx_proofs`: `CookiesAccountedCorrect`, `PendingCountedCorrect` and
  `ControlEpFullClearsCorrect`. None of the three is inductive alone: a completion returns a cookie
  only if HTC or the thread had it, and a thread has one only at certain stages. `CookieInv` is their
  conjunction with `Staged`, which says what each stage of a thread implies for its hand. The counts
  follow because every action moves cookies between sets whose cardinalities are added and removed alike.
- `DriverTx_proofs`: `TypeCorrect` and `HighestActiveCorrect`, by `Types`: a step that a thread has before it names
  the class, stream and command it needs (`Usable`), and so does a packet that carries a command (`Sendable`).
  `QueueResumesCorrect` (of the first device) by `Resuming`: what will wake its stopped queue is a packet with HTC, one that the thread that
  stopped it is about to leave there, or a completion under way. `NoBackToBackCreateCorrect` and `ActiveHasPipeCorrect`
  by `Pipes`, where only the code under the lock changes the map: a transmit thread then has one of six
  lists of steps before it (`Simple`); the command for a pipe is with one thread, or in one packet, or has become a pipe or a
  timeout, and in each case the bit is set (`OnePipe`); a class that is active without its bit is about to be
  indicated inactive (`Indicating`).
- `HIF_proofs`: `MaskedIsQuietCorrect`. `HIFMaskInterrupt` sees only a free host and the flag
  `irqHandling`; `QuietInv` says that at every point inside `hifIRQHandler` one of the two betrays it, and that
  `async_task` releases only its own claim of the host.
- `HIF_proofs`: `TypeCorrect`, `Accounted`, `WokenCorrect`, `Flushed`, and the refinement `OrderCorrect ==
  Spec => KeepsOrder`. The inductive invariant `HIFInv` adds to the types and `QuietInv` that the links from `asyncreq`
  are a chain without repetition (`Listed`); that a request is in one place, and in the hands of one
  thread (`Pools`); that a request somebody waits for stays his until its transfer (`Calls`); and how the states of `async_task`,
  the flags of start and stop and the positions of their thread go together (`Life`). They need each other: a request
  is linked to the tail only if it is not on the list yet, which `Pools` says, and is in one place because nobody
  else submits it, which `Calls` says. `Queue` is a recursive function over the links; `FollowedChain`, that it returns
  the chain there is, is an induction over a least counterexample, and the lemmas behind it say what appending and
  taking the head do to the chain. `Rank` gives each waiter his place in the queue; with it
  `FlushedOnReturn` follows.
- `RxReorder_proofs`: every safety property of the reordering. `TypeCorrect` needs who holds the lock of a TID and
  where (`Control`). `TimedCorrect` (`HeldIsTimed`) needs `TimerInv`: while a frame is held, the timer runs or one of
  the threads is at a point from which it will look and start it, although each sets and clears the flags without a lock.
  `WindowCorrect` (`HeldInWindow`) needs `Ring`: at each step of a release, which slots are still to be
  emptied, in terms of the numbers between the window and its end, modulo the number space. `NothingLost` (`NoFrameLost`) needs
  `Flow`: the frame in hand is on no slot, and each step moves frames from one place to the next. `OrderKept` (`DeliveredInOrder`)
  needs `Order`: there is an unwrapped number at which the window of the session starts; everything released is below it, everything held
  not, and every frame below it has arrived. `InstalledEmpty` (`QueueEmptyAtAddba`)
  needs `Race`: which slots may still hold a frame while either thread, or each in turn, walks round the ring.

- `HTCRecv_proofs`: `AckedOnceCorrect`, `AckedWhenQuietCorrect` and `DrainedWhenQuietCorrect`. `Base` says where each thread
  can be, what its locals hold there and who waits for which request; each action has a lemma that it keeps `Base` and where it leaves
  its thread. On it rest two invariants. `Chain`: the duty to acknowledge the interrupt is with at most one thread (`Holds`)
  or one request on the bus (`Live`), it is there as long as the interrupt is masked and nothing failed, and each step keeps it, hands it on or
  discharges it (`Passes`). `Draining`: the mark of a drainer is set exactly while a context drains, of which there is one,
  and some context is still to come to a queue that is not empty.
- `HTCRecv_proofs`: `FetchesAnnouncedCorrect == Spec => []FetchesAnnounced`. What is asked of the bus was taken from the
  look-aheads by whoever asks, so the invariant has to speak of the threads too. `Hands` says which threads may have
  messages or announcements in hand at all, and where; `Reading` adds to `FetchesAnnounced` (`OnBus`) that the messages a thread is about to ask
  for (`Fetching`) are at the head of the mailbox, of one endpoint, and that nobody else asks meanwhile. That is so
  because the thread has the duty of `Chain`, of which there is one; a chain of completions that
  asked for more with every message would have two. Most steps touch no message (`Calm`), and one lemma disposes of them.
- `HTCRecvData_proofs`: `BuffersAccountedCorrect == Spec => []BuffersAccounted`. The sums over threads and
  requests are `Total`, the cardinality of a set of pairs, so what a step changes in a sum is what it changes at one point (the lemmas
  on `Total`). `Contents` says that no message is among those of another endpoint; with it and `Reading`, a read takes from
  the mailbox as many messages of the endpoint as it returns buffers.
- `HTCRecvData_proofs`: `TypeOKCorrect == Spec => []TypeOK`, from `BuffersAccounted`: only the accounts bound the counts of buffers, each
  of which is what the others leave of `NumBufs`. `ModeHolds`: the mode that `DevSetup` reads never changes.
- `HTCRecvData_proofs`: `IndicatedInOrderCorrect == Spec => []IndicatedInOrder`. The messages of an endpoint are in one line
  from its user back to the mailbox: indicated, in the hands of the thread that drains, in the
  queue, in the hands of the thread that is to queue them, and in the mailbox (`Where`, with a rank for each place and `Before` for the order of
  places). `Lined` says that the numbers rise along the line and, without failures, that none is missing. Each step moves messages from
  a place to the next (`PlacesMoved`). This needs that each place is one: one drainer, which is `Draining`, and one thread with
  messages to queue, which is `Carriers`: a completion routine queues all of its messages and only then asks for more
  (`HTCRecvCompleteHandler`), and one that will not ask has them when the chain of requests is at its end. The conclusion that without
  failures the numbers indicated are 1, 2, 3 and so on is an induction over a least counterexample.

`FetchesAnnounced` and `BuffersAccounted` are stated with `Total` instead of folds, about which the provers know nothing.
`FetchesAnnounced` asks more than that the messages asked for, one after the other, match the mailbox: all of the requests on
the bus are of one endpoint, as one chain has them.

Only model-checked: liveness (out of the prover's reach), and `NoStalledQueue` of `HTCSend` for grants that are not ample, as in
`send_threads`. It is not a theorem for all values of the constants: with a norm of one message, the credits a service
is left with do not cover its leftover packets (`send_leftovers`).

## Not modelled

`PROJECT.json` lists every component with its status and reason.

- Transmit path: `ENDPOINT_0`, whose credits bypass the policy; the length arithmetic of
  bundles and credit padding; `HTCStop`.
- Receive path: stopping and flushing, the refill and per-packet allocation callbacks, yielding,
  `HTCUnblockRecv`, the wait for a control message, and scatter lists with room for a part of a bundle.
  In the device layer the HIF's overrides `GetPendingEventsFunc` and `HifMaskUmaskRecvEvent`, and
  status reads that fail.
- Reordering: A-MSDUs are one frame, the connection's state is there from the start to the end, one window size serves all sessions.
- Driver and WMI: connecting and disconnecting, power save, the mapping of ad-hoc power save, the suspend gates,
  the HCI stream of endpoint ping, failed allocations of network buffers, devices of different network
  types at once. `HTCIndicateActivityChange`, which the activity of a stream leads to, is in `HTCSend`.
- The handshake of `htc_services.c`, `HTCStart` and `HTCStop` are run once, by one thread, before and after
  the traffic.
- HIF: insertion and removal of the card, suspend and resume, `ReinitSDIO`, and failing transfers, whose status
  it only passes on.
- Register definitions, firmware images, the parsers and formatters, the user-space tools and the
  command-by-command WMI code, most of the lines of the repository, have no protocol of their own.

## How the modules fit together

`HTCSend` extends `CreditDist` and `Queues` and implements `CreditLedger`; `RxReorder` extends
`Queues`; `HIF` implements `BusQueue`, and
`HTCRecv` and `DriverTx` stand alone. Each component has one `MC` module with its instances.
Where two components meet, each has the other as its environment, with every
behaviour the other one may show: credit reports for `HTCSend` come from the trailers
`HTCRecv` follows, its callers are the threads of `DriverTx`, and its `hif` and the `bus` of `HTCRecv` are
queues as `BusQueue` describes.

Left for an extension: the handshake with its control buffers, the BSS node table, and the
composition of `DriverTx` with `HTCSend` in one state space.
