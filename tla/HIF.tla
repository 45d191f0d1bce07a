-------------------------------- MODULE HIF ---------------------------------
(***************************************************************************)
(* The SDIO host interface (hif/sdio/linux_sdio/src/hif.c, hif_scatter.c): *)
(* bus requests are taken from a pool, queued, and carried out by the      *)
(* thread "AR6K Async", which holds the SDIO host while there is work.     *)
(* The submitter of a synchronous request sleeps on the semaphore of its   *)
(* request; asynchronous ones end in a completion callback.  A few bus     *)
(* requests belong to the pool of scatter requests.                        *)
(*                                                                         *)
(* Threads: the Users, in process context, read and write registers        *)
(* synchronously and can be interrupted by a signal; the Senders submit    *)
(* mailbox writes; the interrupt thread Irq runs the DSR, which waits for  *)
(* its transfers (HIF_DEVICE_IRQ_SYNC_ONLY) and, as a kernel thread, takes *)
(* no signals; the Admin starts and stops HTC and the SDIO function; the   *)
(* Task is the thread that carries out the requests and runs completions,  *)
(* which may submit.                                                       *)
(*                                                                         *)
(* A step is what happens under one lock, or one operation on a semaphore. *)
(***************************************************************************)
EXTENDS Integers, Sequences, FiniteSets, SequencesExt

CONSTANTS Users, Senders, Irq, Admin, Task,     \* threads
          NoThread,
          Requests,         \* busRequest[]
          NoRequest,        \* NULL
          ScatterRequests,  \* MAX_SCATTER_REQUESTS
          Outcomes,         \* of sdio_disable_func: "ok", "failed"
          MaxCalls,         \* bound on the calls, but for Admin's
          MaxStarts         \* bound on the starts of the function

Callers == Users \cup Senders \cup {Irq, Admin}
Threads == Callers \cup {Task}

ASSUME HIFAssumption ==
    /\ IsFiniteSet(Requests) /\ NoRequest \notin Requests
    /\ NoThread \notin Threads
    /\ Task \notin Callers /\ Irq # Admin
    /\ Users \cap Senders = {} /\ {Irq, Admin} \cap (Users \cup Senders) = {}
    /\ ScatterRequests \in 0..Cardinality(Requests)
    /\ Outcomes \subseteq {"ok", "failed"}
    /\ MaxCalls \in Nat /\ MaxStarts \in Nat

VARIABLES
    freeList,     \* s_busRequestFreeQueue
    scatterReqs,  \* ScatterReqHead: the bus requests of the free scatter requests
    scatter,      \* bus requests with a pScatterReq
    asyncreq,     \* head of the list of queued requests
    inusenext,    \* their links
    sync,         \* requests in use with HIF_SYNCHRONOUS
    semReq,       \* request -> sem_req
    semAsync,     \* sem_async
    shutdown,     \* async_shutdown
    completion,   \* async_completion
    asyncTask,    \* async_task # NULL
    disabled,     \* is_disabled
    host,         \* the thread that has claimed the SDIO host
    irqClaimed,   \* hifIRQHandler is registered
    irqHandling,  \* irqHandling
    at,           \* thread -> where it is
    hand,         \* thread -> the request it is submitting or waiting for
    current,      \* the request async_task is working on
    stage,        \* progress of Admin in starting and stopping
    calls,        \* calls left
    starts,       \* starts left
    done,         \* requests in use whose transfer was made
    ahead,        \* caller -> requests before its own that are not complete
    stranded      \* requests were left in the queue by a shutdown

listVars  == <<asyncreq, inusenext>>
poolVars  == <<freeList, scatterReqs, scatter>>
taskVars  == <<shutdown, completion, asyncTask, disabled>>
hostVars  == <<host, irqClaimed, irqHandling>>
boundVars == <<calls, starts>>
vars == <<poolVars, listVars, sync, semReq, semAsync, taskVars, hostVars,
          at, hand, current, stage, boundVars, done, ahead, stranded>>

\* hifDeviceInserted, up to hifEnableFunc.
Init ==
    /\ freeList = SetToSeq(Requests)
    /\ scatterReqs = <<>> /\ scatter = {}
    /\ asyncreq = NoRequest
    /\ inusenext = [r \in Requests |-> NoRequest]
    /\ sync = {}
    /\ semReq = [r \in Requests |-> 0]
    /\ semAsync = 0
    /\ shutdown = FALSE /\ completion = 0
    /\ asyncTask = FALSE /\ disabled = TRUE
    /\ host = NoThread /\ irqClaimed = FALSE /\ irqHandling = FALSE
    /\ at = [t \in Threads |-> IF t \in {Irq, Task} THEN "none" ELSE "out"]
    /\ hand = [t \in Threads |-> NoRequest]
    /\ current = NoRequest
    /\ stage = "off"
    /\ calls = MaxCalls /\ starts = MaxStarts
    /\ done = {} /\ ahead = [t \in Threads |-> 0] /\ stranded = FALSE

At(t, where) == at[t] = where
Goto(t, where) == at' = [at EXCEPT ![t] = where]
Hold(t, r) == hand' = [hand EXCEPT ![t] = r]

\* Threads that wait for their transfers, and those a signal may wake.
Synchronous(t) == t \in Users \cup {Irq, Admin}
Interruptible(t) == t \in Users \cup {Admin}

\* The list that begins with head, followed along its links.
Followed(head, links) ==
    LET nth[i \in 1..Cardinality(Requests)] ==
            IF i = 1 THEN head
            ELSE IF nth[i - 1] = NoRequest THEN NoRequest ELSE links[nth[i - 1]]
    IN  [i \in {j \in 1..Cardinality(Requests) : nth[j] # NoRequest} |-> nth[i]]

\* The queued requests.
Queue == Followed(asyncreq, inusenext)

\* hifFreeBusRequest.
FreeBusRequest(r) ==
    /\ freeList' = <<r>> \o freeList
    /\ inusenext' = [inusenext EXCEPT ![r] = NoRequest]

\* Mutant: async_task frees a request whose scatter request HTC gives back too.
GiveBackTwice(r) ==
    /\ FreeBusRequest(r)
    /\ scatterReqs' = IF r \in scatter THEN Append(scatterReqs, r) ELSE scatterReqs

\* r is given back: to the free list, or by HTC to the pool of scatter requests.
GiveBack(r) ==
    IF r \in scatter
    THEN /\ scatterReqs' = Append(scatterReqs, r)
         /\ UNCHANGED <<freeList, inusenext>>
    ELSE FreeBusRequest(r) /\ UNCHANGED scatterReqs
Forget(r) == sync' = sync \ {r} /\ done' = done \ {r}

-----------------------------------------------------------------------------
(***************************************************************************)
(* Submitting.                                                             *)
(***************************************************************************)
\* "The caller must guarantee that no HIF read/write requests will be made
\* after the device is powered down" (hif.h).  The DSR, HTC's start and stop,
\* and the completions make theirs at fixed places.
Powered == stage \in {"running", "masked", "stopping"}

Counted(t) == t # Admin /\ ~At(t, "status")

MayCall(t) ==
    /\ Counted(t) => calls > 0
    /\ CASE t = Irq -> At(t, "status") \/ At(t, "dsr")
         [] t = Task -> At(t, "callback")
         [] t = Admin -> stage = "masked"
         [] OTHER -> Powered /\ At(t, "out")

\* HTCStop masks the interrupts at the device with one request, and goes on
\* whatever its status (DevMaskInterrupts).
CountCall(t) ==
    /\ calls' = IF Counted(t) THEN calls - 1 ELSE calls
    /\ stage' = IF t = Admin THEN "stopping" ELSE stage

\* HIFReadWrite up to the request: it fails at once when there is none.
HIFReadWrite(t) ==
    /\ MayCall(t)
    /\ CountCall(t)
    /\ IF freeList = <<>>
       THEN /\ IF t = Irq THEN Goto(t, "dsr") ELSE UNCHANGED at
            /\ UNCHANGED <<freeList, sync, hand>>
       ELSE LET r == Head(freeList)
            IN  /\ freeList' = Tail(freeList)
                /\ sync' = IF Synchronous(t) THEN sync \cup {r} ELSE sync \ {r}
                /\ Hold(t, r)
                /\ Goto(t, "add")
    /\ UNCHANGED <<scatterReqs, scatter, listVars, semReq, semAsync, taskVars,
                   hostVars, current, starts, done, ahead, stranded>>

\* AllocScatterReq by HTC, which fills it and calls HifReadWriteScatter.
ReadWriteScatter(t) ==
    /\ t \in Senders \/ At(t, "dsr")
    /\ MayCall(t)
    /\ scatterReqs # <<>>
    /\ CountCall(t)
    /\ LET r == Head(scatterReqs)
       IN  /\ scatterReqs' = Tail(scatterReqs)
           /\ sync' = IF Synchronous(t) THEN sync \cup {r} ELSE sync \ {r}
           /\ Hold(t, r)
           /\ Goto(t, "add")
    /\ UNCHANGED <<freeList, scatter, listVars, semReq, semAsync, taskVars,
                   hostVars, current, starts, done, ahead, stranded>>

\* Mutants: r goes in after the head; its old link stays when it is the first.
LinkedAfterHead(r) ==
    IF asyncreq = NoRequest THEN [inusenext EXCEPT ![r] = NoRequest]
    ELSE [inusenext EXCEPT ![asyncreq] = r, ![r] = inusenext[asyncreq]]
LinkedUncleared(r) ==
    IF asyncreq = NoRequest THEN inusenext
    ELSE [inusenext EXCEPT ![Last(Queue)] = r, ![r] = NoRequest]

\* The links after r is appended; its own link may still be that of the time
\* it was last queued.
Linked(r) ==
    IF asyncreq = NoRequest THEN [inusenext EXCEPT ![r] = NoRequest]
    ELSE [inusenext EXCEPT ![Last(Queue)] = r, ![r] = NoRequest]

AddToAsyncList(t) ==
    /\ At(t, "add")
    /\ asyncreq' = IF asyncreq = NoRequest THEN hand[t] ELSE asyncreq
    /\ inusenext' = Linked(hand[t])
    /\ done' = done \ {hand[t]}
    /\ ahead' = [ahead EXCEPT ![t] =
                   IF Synchronous(t)
                   THEN Len(Queue) + (IF current = NoRequest THEN 0 ELSE 1)
                   ELSE 0]
    /\ Goto(t, "up")
    /\ UNCHANGED <<poolVars, sync, semReq, semAsync, taskVars, hostVars, hand,
                   current, stage, boundVars, stranded>>

\* up(&sem_async); an asynchronous caller returns and forgets the request.
Wake(t) ==
    /\ At(t, "up")
    /\ semAsync' = semAsync + 1
    /\ IF Synchronous(t)
       THEN Goto(t, "wait") /\ UNCHANGED hand
       ELSE /\ Goto(t, IF t = Task THEN "callback" ELSE "out")
            /\ Hold(t, NoRequest)
    /\ UNCHANGED <<poolVars, listVars, sync, semReq, taskVars, hostVars,
                   current, stage, boundVars, done, ahead, stranded>>

\* down_interruptible(&sem_req) succeeds.
Awake(t) ==
    /\ At(t, "wait")
    /\ semReq[hand[t]] > 0
    /\ semReq' = [semReq EXCEPT ![hand[t]] = @ - 1]
    /\ Goto(t, "woken")
    /\ UNCHANGED <<poolVars, listVars, sync, semAsync, taskVars, hostVars, hand,
                   current, stage, boundVars, done, ahead, stranded>>

\* The rest of a synchronous call: read the status, give the request back.
ReturnStatus(t) ==
    /\ At(t, "woken")
    /\ GiveBack(hand[t]) /\ Forget(hand[t])
    /\ Hold(t, NoRequest)
    /\ Goto(t, IF t = Irq THEN "dsr" ELSE "out")
    /\ ahead' = [ahead EXCEPT ![t] = 0]
    /\ UNCHANGED <<scatter, asyncreq, semReq, semAsync, taskVars, hostVars,
                   current, stage, boundVars, stranded>>

\* Mutant: the request is freed although it is still queued.
FreedAfterSignal(r) == <<r>> \o freeList

\* A signal ends the wait with an error.  The request stays where it is, and is
\* not freed then or later.
FreeAfterSignal(r) == freeList

Interrupted(t) ==
    /\ Interruptible(t)
    /\ At(t, "wait")
    /\ semReq[hand[t]] = 0
    /\ freeList' = FreeAfterSignal(hand[t])
    /\ Hold(t, NoRequest)
    /\ Goto(t, "out")
    /\ ahead' = [ahead EXCEPT ![t] = 0]
    /\ UNCHANGED <<scatterReqs, scatter, listVars, sync, semReq, semAsync,
                   taskVars, hostVars, current, stage, boundVars, done, stranded>>

-----------------------------------------------------------------------------
(***************************************************************************)
(* async_task.                                                             *)
(***************************************************************************)
Down ==
    /\ At(Task, "down")
    /\ semAsync > 0
    /\ semAsync' = semAsync - 1
    /\ Goto(Task, IF shutdown THEN "exit" ELSE "claim")
    /\ UNCHANGED <<poolVars, listVars, sync, semReq, taskVars, hostVars,
                   hand, current, stage, boundVars, done, ahead, stranded>>

Claim ==
    /\ At(Task, "claim")
    /\ host = NoThread
    /\ host' = Task
    /\ Goto(Task, "pull")
    /\ UNCHANGED <<poolVars, listVars, sync, semReq, semAsync, taskVars,
                   irqClaimed, irqHandling, hand, current, stage, boundVars,
                   done, ahead, stranded>>

Pull ==
    /\ At(Task, "pull")
    /\ asyncreq # NoRequest
    /\ current' = asyncreq
    /\ asyncreq' = inusenext[asyncreq]
    /\ Goto(Task, "perform")
    /\ UNCHANGED <<poolVars, inusenext, sync, semReq, semAsync, taskVars,
                   hostVars, hand, stage, boundVars, done, ahead, stranded>>

\* The queue is empty: release the host and wait for work.  A shutdown seen
\* only after the loop's test ends the thread in Down, to the same effect.
Release ==
    /\ At(Task, "pull")
    /\ asyncreq = NoRequest
    /\ host' = NoThread
    /\ Goto(Task, IF shutdown THEN "exit" ELSE "down")
    /\ stranded' = FALSE
    /\ UNCHANGED <<poolVars, listVars, sync, semReq, semAsync, taskVars,
                   irqClaimed, irqHandling, hand, current, stage, boundVars,
                   done, ahead>>

\* The current request is complete: one less is ahead of the others who wait.
Completed(others) ==
    /\ current' = NoRequest
    /\ ahead' = [t \in Threads |->
                    IF t \in others /\ ahead[t] > 0 THEN ahead[t] - 1 ELSE ahead[t]]

\* The transfer of a synchronous request (__HIFReadWrite, DoHifReadWriteScatter),
\* and the wake-up of its submitter.
PerformSync ==
    /\ At(Task, "perform")
    /\ current \in sync
    /\ done' = done \cup {current}
    /\ semReq' = [semReq EXCEPT ![current] = @ + 1]
    /\ Completed({t \in Threads : hand[t] # current})
    /\ Goto(Task, "pull")
    /\ UNCHANGED <<poolVars, listVars, sync, semAsync, taskVars, hostVars, hand,
                   stage, boundVars, stranded>>

\* The transfer of an asynchronous request, which is given back before its
\* completion is called; a scatter request by its completion routine, in HTC.
PerformAsync ==
    /\ At(Task, "perform")
    /\ current \notin sync
    /\ GiveBack(current) /\ Forget(current)
    /\ Goto(Task, "callback")
    /\ UNCHANGED <<scatter, asyncreq, semReq, semAsync, taskVars, hostVars,
                   hand, current, stage, boundVars, ahead, stranded>>

CallbackReturns ==
    /\ At(Task, "callback")
    /\ Completed(Threads)
    /\ Goto(Task, "pull")
    /\ UNCHANGED <<poolVars, listVars, sync, semReq, semAsync, taskVars, hostVars,
                   hand, stage, boundVars, done, stranded>>

\* complete_and_exit.
Exit ==
    /\ At(Task, "exit")
    /\ completion' = completion + 1
    /\ Goto(Task, "none")
    /\ UNCHANGED <<poolVars, listVars, sync, semReq, semAsync, shutdown, asyncTask,
                   disabled, hostVars, hand, current, stage, boundVars, done,
                   ahead, stranded>>

-----------------------------------------------------------------------------
(***************************************************************************)
(* The interrupt thread of the bus driver.                                 *)
(***************************************************************************)
\* It calls hifIRQHandler with the host claimed.  The DSR always reads the
\* interrupt status; that call is counted here.
Interrupt ==
    /\ calls > 0
    /\ At(Irq, "none")
    /\ irqClaimed
    /\ host = NoThread
    /\ host' = Irq
    /\ Goto(Irq, "entered")
    /\ calls' = calls - 1
    /\ UNCHANGED <<poolVars, listVars, sync, semReq, semAsync, taskVars,
                   irqClaimed, irqHandling, hand, current, stage, starts,
                   done, ahead, stranded>>

\* Mutant: the host is kept during the DSR.
HostKept == Irq

\* hifIRQHandler gives the host to async_task while the DSR runs.
HostDuringDsr == NoThread

EnterDsr ==
    /\ At(Irq, "entered")
    /\ irqHandling' = TRUE
    /\ host' = HostDuringDsr
    /\ Goto(Irq, "status")
    /\ UNCHANGED <<poolVars, listVars, sync, semReq, semAsync, taskVars,
                   irqClaimed, hand, current, stage, boundVars, done, ahead, stranded>>

LeaveDsr ==
    /\ At(Irq, "dsr")
    /\ host = NoThread
    /\ host' = Irq
    /\ Goto(Irq, "leaving")
    /\ UNCHANGED <<poolVars, listVars, sync, semReq, semAsync, taskVars,
                   irqClaimed, irqHandling, hand, current, stage, boundVars,
                   done, ahead, stranded>>

InterruptDone ==
    /\ At(Irq, "leaving")
    /\ irqHandling' = FALSE
    /\ host' = NoThread
    /\ Goto(Irq, "none")
    /\ UNCHANGED <<poolVars, listVars, sync, semReq, semAsync, taskVars,
                   irqClaimed, hand, current, stage, boundVars, done, ahead, stranded>>

-----------------------------------------------------------------------------
(***************************************************************************)
(* Start and stop.                                                         *)
(***************************************************************************)
\* hifEnableFunc; the thread is started only if the function was disabled.
EnableFunc ==
    /\ stage = "off" /\ At(Admin, "out")
    /\ starts > 0
    /\ starts' = starts - 1
    /\ stage' = "setup"
    /\ IF disabled
       THEN /\ disabled' = FALSE
            /\ IF asyncTask THEN UNCHANGED <<shutdown, asyncTask, at>>
               ELSE shutdown' = FALSE /\ asyncTask' = TRUE /\ Goto(Task, "down")
       ELSE UNCHANGED <<disabled, shutdown, asyncTask, at>>
    /\ UNCHANGED <<poolVars, listVars, sync, semReq, semAsync, completion, hostVars,
                   hand, current, calls, done, ahead, stranded>>

\* SetupHIFScatterSupport: all the scatter requests get a bus request, or those
\* that did, and any left in the pool, are given up (CleanupHIFScatterResources).
SetupScatter ==
    /\ stage = "setup"
    /\ IF Len(freeList) >= ScatterRequests
       THEN LET mine == SubSeq(freeList, 1, ScatterRequests)
            IN  /\ freeList' = SubSeq(freeList, ScatterRequests + 1, Len(freeList))
                /\ scatterReqs' = scatterReqs \o mine
                /\ scatter' = scatter \cup Range(mine)
            /\ UNCHANGED inusenext
       ELSE /\ freeList' = Reverse(scatterReqs \o freeList)
            /\ scatterReqs' = <<>>
            /\ scatter' = scatter \ Range(scatterReqs)
            /\ inusenext' = [r \in Requests |->
                    IF r \in Range(scatterReqs \o freeList) THEN NoRequest ELSE inusenext[r]]
    /\ stage' = "unmask"
    /\ UNCHANGED <<asyncreq, sync, semReq, semAsync, taskVars, hostVars, at, hand,
                   current, boundVars, done, ahead, stranded>>

\* HIFUnMaskInterrupt, at the end of HTCStart.
UnMaskInterrupt ==
    /\ stage = "unmask"
    /\ host = NoThread
    /\ irqClaimed' = TRUE
    /\ stage' = "running"
    /\ UNCHANGED <<poolVars, listVars, sync, semReq, semAsync, taskVars, host,
                   irqHandling, at, hand, current, boundVars, done, ahead, stranded>>

\* Mutant: HIFMaskInterrupt does not wait.
MayMaskAtOnce == host = NoThread

\* HIFMaskInterrupt releases the host and sleeps while an interrupt is handled.
MayMask == host = NoThread /\ ~irqHandling

MaskInterrupt ==
    /\ stage = "running"
    /\ MayMask
    /\ irqClaimed' = FALSE
    /\ stage' = "masked"
    /\ UNCHANGED <<poolVars, listVars, sync, semReq, semAsync, taskVars, host,
                   irqHandling, at, hand, current, boundVars, done, ahead, stranded>>

\* Mutant: the thread is not woken.
NotWoken == semAsync

\* hifDisableFunc tells the thread to stop, wakes it, and waits for it.
WokenToStop == semAsync + 1

StopTask ==
    /\ stage = "stopping" /\ At(Admin, "out")
    /\ completion' = 0
    /\ shutdown' = TRUE
    /\ semAsync' = WokenToStop
    /\ stage' = "awaitTask"
    /\ UNCHANGED <<poolVars, listVars, sync, semReq, asyncTask, disabled, hostVars,
                   at, hand, current, boundVars, done, ahead, stranded>>

TaskStopped ==
    /\ stage = "awaitTask"
    /\ completion > 0
    /\ completion' = completion - 1
    /\ asyncTask' = FALSE
    /\ semAsync' = 0
    /\ stranded' = (asyncreq # NoRequest)
    /\ stage' = "disabling"
    /\ UNCHANGED <<poolVars, listVars, sync, semReq, shutdown, disabled, hostVars,
                   at, hand, current, boundVars, done, ahead>>

DisableFunc(outcome) ==
    /\ stage = "disabling"
    /\ host = NoThread
    /\ disabled' = IF outcome = "ok" THEN TRUE ELSE disabled
    /\ stage' = "cleanup"
    /\ UNCHANGED <<poolVars, listVars, sync, semReq, semAsync, shutdown, completion,
                   asyncTask, hostVars, at, hand, current, boundVars, done, ahead,
                   stranded>>

\* CleanupHIFScatterResources: one free scatter request, or the end.
CleanupScatter ==
    /\ stage = "cleanup"
    /\ IF scatterReqs = <<>>
       THEN stage' = "off" /\ UNCHANGED <<poolVars, inusenext>>
       ELSE /\ scatterReqs' = Tail(scatterReqs)
            /\ scatter' = scatter \ {Head(scatterReqs)}
            /\ FreeBusRequest(Head(scatterReqs))
            /\ UNCHANGED stage
    /\ UNCHANGED <<asyncreq, sync, semReq, semAsync, taskVars, hostVars, at, hand,
                   current, boundVars, done, ahead, stranded>>

-----------------------------------------------------------------------------
\* A call in progress.
CallStep(t) ==
    \/ AddToAsyncList(t) \/ Wake(t)
    \/ Awake(t) \/ ReturnStatus(t)

BeginCall(t) == HIFReadWrite(t) \/ ReadWriteScatter(t)

TaskStep ==
    \/ Down \/ Claim \/ Pull \/ Release
    \/ PerformSync \/ PerformAsync \/ CallbackReturns \/ Exit

IrqStep == EnterDsr \/ LeaveDsr \/ InterruptDone

AdminStep ==
    \/ EnableFunc \/ SetupScatter \/ UnMaskInterrupt \/ MaskInterrupt
    \/ StopTask \/ TaskStopped
    \/ \E outcome \in Outcomes : DisableFunc(outcome)
    \/ CleanupScatter

Next ==
    \/ \E t \in Threads : CallStep(t) \/ BeginCall(t)
    \/ \E t \in Users \cup {Admin} : Interrupted(t)
    \/ TaskStep
    \/ Interrupt \/ IrqStep
    \/ AdminStep

Spec == Init /\ [][Next]_vars

(***************************************************************************)
(* The kernel runs every thread that is not asleep: calls in progress, the *)
(* thread of the HIF, the end of an interrupt, and hifDisableFunc once it  *)
(* waits for the thread.  Nothing obliges anybody to call, to interrupt or *)
(* to stop the device.                                                     *)
(***************************************************************************)
Fairness ==
    /\ \A t \in Threads : WF_vars(CallStep(t))
    /\ WF_vars(TaskStep)
    /\ WF_vars(IrqStep)
    /\ WF_vars(TaskStopped)

FairSpec == Spec /\ Fairness

-----------------------------------------------------------------------------
\* Type invariant.
Locations == {"none", "out", "add", "up", "wait", "woken",
              "entered", "status", "dsr", "leaving",
              "down", "claim", "pull", "perform", "callback", "exit"}

Stages == {"off", "setup", "unmask", "running", "masked", "stopping",
           "awaitTask", "disabling", "cleanup"}

MaybeRequest == Requests \cup {NoRequest}

TypeOK ==
    /\ freeList \in Seq(Requests) /\ scatterReqs \in Seq(Requests)
    /\ scatter \subseteq Requests /\ sync \subseteq Requests /\ done \subseteq Requests
    /\ asyncreq \in MaybeRequest
    /\ inusenext \in [Requests -> MaybeRequest]
    /\ semReq \in [Requests -> 0..1]
    /\ semAsync \in Nat
    /\ completion \in 0..1
    /\ {shutdown, asyncTask, disabled, irqClaimed, irqHandling, stranded} \subseteq BOOLEAN
    /\ host \in {Irq, Task, NoThread}
    /\ at \in [Threads -> Locations]
    /\ hand \in [Threads -> MaybeRequest]
    /\ current \in MaybeRequest
    /\ stage \in Stages
    /\ calls \in Nat /\ starts \in Nat
    /\ ahead \in [Threads -> 0..Cardinality(Requests)]

(***************************************************************************)
(* Every bus request is in exactly one place: free, in the pool of scatter *)
(* requests, being submitted, queued, being carried out, or complete and   *)
(* waiting for its submitter (for ever, if a signal took the submitter     *)
(* away).  One that is in two places is given to two callers.              *)
(***************************************************************************)
Submitting(t) == At(t, "add") \/ At(t, "woken")

Places(r) ==
    {<<"free", i>> : i \in {j \in DOMAIN freeList : freeList[j] = r}}
    \cup {<<"pool", i>> : i \in {j \in DOMAIN scatterReqs : scatterReqs[j] = r}}
    \cup {<<"queue", i>> : i \in {j \in DOMAIN Queue : Queue[j] = r}}
    \cup {<<"caller", t>> : t \in {u \in Threads : Submitting(u) /\ hand[u] = r}}
    \cup {<<"task", i>> : i \in {j \in {1} : At(Task, "perform") /\ current = r}}
    \cup {<<"complete", i>> : i \in 1..semReq[r]}

RequestsAccounted == \A r \in Requests : Cardinality(Places(r)) = 1

(***************************************************************************)
(* A synchronous caller that is woken has had its own transfer made: a     *)
(* semaphore never holds the wake-up of an earlier use of the request.     *)
(***************************************************************************)
WokenAfterTransfer == \A t \in Threads : At(t, "woken") => hand[t] \in done

(***************************************************************************)
(* "Masking interrupts is a synchronous operation, when this function      *)
(* returns all pending HIF I/O has completed, we can safely flush the      *)
(* queues" (HTCStop): when a synchronous caller is woken, every request    *)
(* that was submitted before its own is complete, callback included.       *)
(***************************************************************************)
FlushedOnReturn == \A t \in Threads : At(t, "woken") => ahead[t] = 0

\* "We don't want a stray interrupt taken while we zero out our shadow
\* registers" (DevMaskInterrupts): once masked, no interrupt is being handled.
MaskedIsQuiet == ~irqClaimed => At(Irq, "none")

(***************************************************************************)
(* The list of queued requests implements a queue.                         *)
(***************************************************************************)
Order == INSTANCE BusQueue
             WITH pending <- Queue,
                  serving <- IF At(Task, "perform") THEN current ELSE NoRequest

KeepsOrder == Order!Spec

(***************************************************************************)
(* Every queued request is carried out while there is a thread to do it:   *)
(* no wake-up is lost.  Only requests left behind by a shutdown wait until *)
(* another one wakes the next thread.                                      *)
(***************************************************************************)
InQueue(r) == \E i \in DOMAIN Queue : Queue[i] = r

QueuedCarriedOut ==
    \A r \in Requests : InQueue(r) ~> (~InQueue(r) \/ stranded \/ ~asyncTask)

\* hifDisableFunc returns: the thread it waits for ends, whatever it was doing.
DisableReturns == (stage = "awaitTask") ~> (stage # "awaitTask")
=============================================================================
