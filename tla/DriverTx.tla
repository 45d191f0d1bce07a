------------------------------ MODULE DriverTx ------------------------------
(***************************************************************************)
(* The transmit side of the Linux driver (os/linux/ar6000_drv.c) and the   *)
(* streams of the WMI layer that it keeps (wmi/wmi.c).                     *)
(*                                                                         *)
(* Every packet needs a cookie, from ar6000_data_tx or ar6000_control_tx   *)
(* until ar6000_tx_complete.  The first packet of an access class creates  *)
(* its "fat pipe" at the target; the target reports when it was idle, and  *)
(* the user may create and delete "thin streams" inside it.                *)
(*                                                                         *)
(* The transmit threads of the devices, an ioctl and the receive thread    *)
(* run these functions, and the bus completes packets.  arLock and the WMI *)
(* lock are held for one action each.  What a thread still has to do after *)
(* it is a sequence of steps, todo[th].                                    *)
(*                                                                         *)
(* HTC and the target are external: HTC holds the packets it accepted and  *)
(* asks what to do with one that finds its queue full; the target learns   *)
(* of an implicit pipe when its command completes and may time it out.     *)
(***************************************************************************)
EXTENDS Integers, FiniteSets, Sequences

CONSTANTS Cookies,      \* MAX_COOKIE_NUM of them
          NoCookie,
          MaxHiCookies, \* MAX_HI_COOKIE_NUM
          QueueDepth,   \* MaxSendQueueDepth of an endpoint
          ACs,          \* access classes used, of "BE", "BK", "VI", "VO"
          Tsids,        \* thin streams the user may create in each
          Devs,         \* devices, with a transmit thread each
          FirstDev,     \* device 0
          Scenarios     \* what the system is and what happens to it:
                        \*   net     network type, or "bypass" for bypasswmi
                        \*   devs    devices in use
                        \*   ops     kinds of events besides data
                        \*   faults  transfers may fail or be flushed
                        \*   packets bound on the packets of the network stack
                        \*   calls   bound on ioctls
                        \*   events  bound on admission events

Threads == Devs \cup {"ioctl", "rx", "hif"}
Control == "control"
Endpoints == ACs \cup {Control}
NoAC == "none"

\* WMI_IMPLICIT_PSTREAM.
Implicit == 255

ASSUME DriverAssumption ==
    /\ IsFiniteSet(Cookies) /\ NoCookie \notin Cookies
    /\ MaxHiCookies \in Nat /\ QueueDepth \in Nat
    /\ ACs \subseteq {"BE", "BK", "VI", "VO"}
    /\ Devs \cap {"ioctl", "rx", "hif"} = {} /\ Tsids \subseteq 0..15
    /\ FirstDev \in Devs
    /\ Scenarios \subseteq [net : {"infra", "adhoc", "bypass"},
                            devs : {D \in SUBSET Devs : FirstDev \in D},
                            ops : SUBSET {"timeout", "qos", "sleep", "cac"},
                            faults : BOOLEAN, packets : Nat, calls : Nat, events : Nat]

VARIABLES
    freeCookies,    \* arCookieList
    msg,            \* cookie -> the packet it carries
    htc,            \* cookies whose packets HTC holds
    pending,        \* endpoint -> arTxPending
    totalPending,   \* arTotalTxDataPending
    ctlFull,        \* arWMIControlEpFull
    active,         \* access classes with arAcStreamActive
    hiPri,          \* arHiAcStreamActivePri
    stopped,        \* devices whose network queue is stopped
    fat,            \* wmi_fatPipeExists
    thin,           \* access class -> wmi_streamExistsForAC
    pipes,          \* the target's implicit pipes
    timeouts,       \* access classes whose timeout the target has reported
    todo,           \* thread -> steps it has before it
    serves,         \* thread -> device its call or event is for
    stage,          \* thread -> how far HTCSendPkt or a completion is
    hand,           \* thread -> cookie of the packet it is sending
    verdict,        \* thread -> what the full callback decided
    flushing,       \* thread -> device -> local of ar6000_tx_complete
    copy,           \* thread -> local copy of wmi_fatPipeExists
    scenario, packets, calls, cacs

countVars  == <<freeCookies, msg, htc, pending, totalPending, ctlFull>>
activeVars == <<active, hiPri>>
wmiVars    == <<fat, thin>>
targetVars == <<pipes, timeouts>>
sendVars   == <<stage, hand, verdict, flushing>>
boundVars  == <<scenario, packets, calls, cacs, serves>>
vars == <<countVars, activeVars, stopped, wmiVars, targetVars, todo, sendVars, copy,
          boundVars>>

\* arAcStreamPriMap.
Pri(ac) == CASE ac = "BK" -> 0 [] ac = "BE" -> 1 [] ac = "VI" -> 2 [] ac = "VO" -> 3

\* The access classes in S, in the order of the loops over WMM_NUM_AC.
InOrder(S) ==
    LET Class(ac) == IF ac \in S THEN <<ac>> ELSE <<>>
    IN  Class("BE") \o Class("BK") \o Class("VI") \o Class("VO")

Msgs == [ep : Endpoints, tag : {"data", "control"},
         cmd : {"none", "implicit", "explicit", "sleep"}, ac : ACs \cup {NoAC}, dev : Devs]
NoMsg == [ep |-> Control, tag |-> "data", cmd |-> "none", ac |-> NoAC, dev |-> FirstDev]

(***************************************************************************)
(* Steps of a thread.                                                      *)
(***************************************************************************)
Step(do, ac) == <<[do |-> do, ac |-> ac, tsid |-> Implicit, what |-> "none"]>>
OnStream(do, ac, tsid) == <<[do |-> do, ac |-> ac, tsid |-> tsid, what |-> "none"]>>

\* ar6000_control_tx of a command, and the second half of ar6000_data_tx.
Command(cmd, ac) == <<[do |-> "command", ac |-> ac, tsid |-> Implicit, what |-> cmd]>>
Data(ac, tag) == <<[do |-> "data", ac |-> ac, tsid |-> Implicit, what |-> tag]>>

Kinds == {"lookup", "create", "active", "inactive", "command", "dataSync", "data",
          "delete", "sync", "forget", "readMap", "keepThin", "writeMap", "noResponse"}
Steps == [do : Kinds, ac : ACs \cup {NoAC},
          tsid : Tsids \cup {Implicit},
          what : {"none", "implicit", "explicit", "sleep", "data", "control"}]

Idle(th) == todo[th] = <<>> /\ stage[th] = "go"

\* The thread's next step, and it goes on with the others after "first".
Does(th, do) == stage[th] = "go" /\ todo[th] # <<>> /\ Head(todo[th]).do = do
Now(th) == Head(todo[th])
Continue(th, first) == todo' = [todo EXCEPT ![th] = first \o Tail(@)]

Begin(th, steps) == Idle(th) /\ todo' = [todo EXCEPT ![th] = steps]

\* The call is, or the event leads to commands, for any of the devices.
Serve(th) == \E d \in scenario.devs : serves' = [serves EXCEPT ![th] = d]

Unset == [d \in Devs |-> "unset"]

Init ==
    /\ freeCookies = Cookies
    /\ msg = [c \in Cookies |-> NoMsg]
    /\ htc = {}
    /\ pending = [e \in Endpoints |-> 0]
    /\ totalPending = 0
    /\ ctlFull = FALSE
    /\ active = {}
    /\ hiPri = 0
    /\ stopped = {}
    /\ fat = {}
    /\ thin = [ac \in ACs |-> {}]
    /\ pipes = {}
    /\ timeouts = {}
    /\ todo = [th \in Threads |-> <<>>]
    /\ stage = [th \in Threads |-> "go"]
    /\ hand = [th \in Threads |-> NoCookie]
    /\ verdict = [th \in Threads |-> "keep"]
    /\ flushing = [th \in Threads |-> Unset]
    /\ serves = [th \in Threads |-> IF th \in Devs THEN th ELSE FirstDev]
    /\ copy = [th \in Threads |-> {}]
    /\ scenario \in Scenarios
    /\ packets = 0
    /\ calls = 0
    /\ cacs = 0

-----------------------------------------------------------------------------
(***************************************************************************)
(* Cookies and counts.                                                     *)
(***************************************************************************)
\* Mutant: a data sync is sent with a control tag and not counted as data.
CountsAsDataTagged(m) == m.tag = "data"

\* arTotalTxDataPending counts all that is sent on the data endpoints, the data
\* syncs of ar6000_control_tx too.
CountsAsData(m) == m.ep # Control

\* Take a cookie for m and count it; HTCSendPkt comes next.
Allocate(th, m) ==
    \E c \in freeCookies :
        /\ freeCookies' = freeCookies \ {c}
        /\ msg' = [msg EXCEPT ![c] = m]
        /\ pending' = [pending EXCEPT ![m.ep] = @ + 1]
        /\ totalPending' = totalPending + (IF CountsAsData(m) THEN 1 ELSE 0)
        /\ hand' = [hand EXCEPT ![th] = c]
        /\ stage' = [stage EXCEPT ![th] = "send"]

\* What a thread goes on with when a command is refused: the other commands and
\* data syncs of its sync point are given up.
IsCommand(s) == s.do \in {"command", "dataSync"}

AfterCommands(steps) ==
    LET n == CHOOSE i \in 1..(Len(steps) + 1) :
                 /\ \A j \in 1..(i - 1) : IsCommand(steps[j])
                 /\ i \in DOMAIN steps => ~IsCommand(steps[i])
    IN  SubSeq(steps, n, Len(steps))

\* ar6000_control_tx: without a cookie, or with the control endpoint full, the
\* command fails, and with it the rest of its sync point.
ControlTx(th) ==
    LET s == Now(th)
        m == IF s.do = "dataSync"
             THEN [ep |-> s.ac, tag |-> "control", cmd |-> "none", ac |-> NoAC,
                   dev |-> serves[th]]
             ELSE [ep |-> Control, tag |-> "control", cmd |-> s.what, ac |-> s.ac,
                   dev |-> serves[th]]
        refused == freeCookies = {} \/ (ctlFull /\ m.ep = Control)
    IN  /\ Does(th, "command") \/ Does(th, "dataSync")
        /\ IF refused
           THEN /\ todo' = [todo EXCEPT ![th] = AfterCommands(@)]
                /\ UNCHANGED <<freeCookies, msg, pending, totalPending, hand, stage>>
           ELSE /\ Allocate(th, m)
                /\ Continue(th, <<>>)
        /\ UNCHANGED <<htc, ctlFull, activeVars, stopped, wmiVars, targetVars, verdict,
                       flushing, copy, boundVars>>

\* The second half of ar6000_data_tx.
DataTx(th) ==
    LET m == [ep |-> Now(th).ac, tag |-> Now(th).what, cmd |-> "none", ac |-> NoAC,
              dev |-> serves[th]]
    IN  /\ Does(th, "data")
        /\ IF freeCookies = {}
           THEN UNCHANGED <<freeCookies, msg, pending, totalPending, hand, stage>>
           ELSE Allocate(th, m)
        /\ Continue(th, <<>>)
        /\ UNCHANGED <<htc, ctlFull, activeVars, stopped, wmiVars, targetVars, verdict,
                       flushing, copy, boundVars>>

Held(ep) == {c \in htc : msg[c].ep = ep}

\* HTCSendPkt: the packet is accepted, or finds the queue of its endpoint
\* full.  What HTC holds may be on the bus and out of its queue.
SendPkt(th) ==
    /\ stage[th] = "send"
    /\ \/ /\ htc' = htc \cup {hand[th]}
          /\ hand' = [hand EXCEPT ![th] = NoCookie]
          /\ stage' = [stage EXCEPT ![th] = "go"]
       \/ /\ Cardinality(Held(msg[hand[th]].ep)) >= QueueDepth
          /\ stage' = [stage EXCEPT ![th] = "full"]
          /\ UNCHANGED <<htc, hand>>
    /\ UNCHANGED <<freeCookies, msg, pending, totalPending, ctlFull, activeVars, stopped,
                   wmiVars, targetVars, todo, verdict, flushing, copy, boundVars>>

\* The cases of ar6000_tx_queue_full.
DropsBypass(m) == m.tag = "data" /\ m.ep \in {"BE", "BK"}
StopsBypass(m) == m.tag = "data" /\ m.ep \notin {"BE", "BK"}
DropsLower(m) ==
    /\ m.ep # Control /\ m.tag = "data"
    /\ Pri(m.ep) < hiPri
    /\ Cardinality(freeCookies) <= MaxHiCookies

TxQueueFull(th) ==
    LET m == msg[hand[th]]
        bypass == scenario.net = "bypass"
        drops == IF bypass THEN DropsBypass(m) ELSE DropsLower(m)
        stops == IF bypass THEN StopsBypass(m) ELSE scenario.net = "adhoc"
        what == IF drops THEN "drop" ELSE "keep"
    IN  /\ stage[th] = "full"
        /\ ctlFull' = (ctlFull \/ (~bypass /\ m.ep = Control))
        /\ verdict' = [verdict EXCEPT ![th] = what]
        /\ stage' = [stage EXCEPT ![th] = IF stops THEN "stop" ELSE what]
        /\ UNCHANGED <<freeCookies, msg, htc, pending, totalPending, activeVars, stopped,
                       wmiVars, targetVars, todo, hand, flushing, copy, boundVars>>

\* netif_stop_queue, after the locks of the callback.
StopQueues(th) ==
    /\ stage[th] = "stop"
    /\ stopped' = scenario.devs
    /\ stage' = [stage EXCEPT ![th] = verdict[th]]
    /\ UNCHANGED <<countVars, activeVars, wmiVars, targetVars, todo, hand, verdict,
                   flushing, copy, boundVars>>

\* HTC keeps the packet after all.
KeepPkt(th) ==
    /\ stage[th] = "keep"
    /\ htc' = htc \cup {hand[th]}
    /\ hand' = [hand EXCEPT ![th] = NoCookie]
    /\ stage' = [stage EXCEPT ![th] = "go"]
    /\ UNCHANGED <<freeCookies, msg, pending, totalPending, ctlFull, activeVars, stopped,
                   wmiVars, targetVars, todo, verdict, flushing, copy, boundVars>>

-----------------------------------------------------------------------------
(***************************************************************************)
(* ar6000_tx_complete.                                                     *)
(***************************************************************************)
\* Mutant: only a packet that was sent gives its cookie back.
ReapedIfSent(batch, status) == IF status = "ok" THEN batch ELSE {}

Reaped(batch, status) == batch

\* Mutant: a failed packet leaves the flag set.
ClearsFullIfSent(batch, status) == status = "ok" /\ \E c \in batch : msg[c].ep = Control

\* A packet left the control endpoint: it is no longer full.
ClearsFull(batch, status) == \E c \in batch : msg[c].ep = Control

\* Mutant: only the packets that were sent are taken off the counts.
CompletedIfSent(batch, status) == IF status = "ok" THEN batch ELSE {}

Completed(batch, status) == batch

\* The device in the packet's header; with bypasswmi there is none.
DevId(c) == IF scenario.net = "bypass" THEN FirstDev ELSE msg[c].dev

\* flushing[] is not initialized: only the devices of packets that were sent or
\* flushed are set.
Flushing(batch, status) ==
    [d \in Devs |-> IF status = "failed" \/ \A c \in batch : DevId(c) # d THEN "unset"
                    ELSE IF status = "flushed" THEN "yes" ELSE "no"]

\* Everything under arLock.
Complete(th, batch, status) ==
    LET done == Completed(batch, status)
    IN  /\ freeCookies' = freeCookies \cup Reaped(batch, status)
        /\ msg' = [c \in Cookies |-> IF c \in batch THEN NoMsg ELSE msg[c]]
        /\ pending' = [e \in Endpoints |->
                          pending[e] - Cardinality({c \in done : msg[c].ep = e})]
        /\ totalPending' =
               IF scenario.net = "bypass" THEN totalPending
               ELSE totalPending - Cardinality({c \in done : msg[c].ep # Control})
        /\ ctlFull' = (ctlFull /\ ~ClearsFull(batch, status))
        /\ stage' = [stage EXCEPT ![th] = "wake"]
        /\ flushing' = [flushing EXCEPT ![th] = Flushing(batch, status)]

\* What the target makes of a command that reached it.
Learns(m) ==
    CASE m.cmd = "implicit" -> pipes \cup {m.ac}
      [] m.cmd = "explicit" -> pipes \ {m.ac}
      [] m.cmd = "sleep" -> {}
      [] m.cmd = "none" -> pipes

\* HTC completes packets of one endpoint, alike.
TxComplete(batch, status) ==
    /\ Idle("hif") /\ batch # {}
    /\ \A c, d \in batch : msg[c].ep = msg[d].ep
    /\ status # "ok" => scenario.faults
    /\ status = "ok" /\ msg[CHOOSE c \in batch : TRUE].ep = Control => Cardinality(batch) = 1
    /\ Complete("hif", batch, status)
    /\ pipes' = IF status = "ok" THEN Learns(msg[CHOOSE c \in batch : TRUE]) ELSE pipes
    /\ htc' = htc \ batch
    /\ UNCHANGED <<activeVars, stopped, wmiVars, timeouts, todo, hand, verdict, copy,
                   boundVars>>

\* The sending thread completes a packet that the callback dropped.
DropPkt(th) ==
    /\ stage[th] = "drop"
    /\ Complete(th, {hand[th]}, "failed")
    /\ hand' = [hand EXCEPT ![th] = NoCookie]
    /\ UNCHANGED <<htc, activeVars, stopped, wmiVars, targetVars, todo, verdict, copy,
                   boundVars>>

\* Mutant: the queues are woken in infrastructure networks only.
WakesInfra == scenario.net = "infra"

\* In an ad-hoc network nobody wakes the queues.
Wakes == scenario.net \in {"infra", "bypass"}

\* After the lock, the queue of each device that is not flushing; for a device
\* whose flag was not set, what is on the stack decides.
WakeQueues(th) ==
    /\ stage[th] = "wake"
    /\ \E stack \in SUBSET {d \in Devs : flushing[th][d] = "unset"} :
           LET flushed == stack \cup {d \in Devs : flushing[th][d] = "yes"}
           IN  stopped' = IF Wakes THEN stopped \ (scenario.devs \ flushed) ELSE stopped
    /\ flushing' = [flushing EXCEPT ![th] = Unset]
    /\ stage' = [stage EXCEPT ![th] = "go"]
    /\ UNCHANGED <<countVars, activeVars, wmiVars, targetVars, todo, hand, verdict, copy,
                   boundVars>>

-----------------------------------------------------------------------------
(***************************************************************************)
(* ar6000_indicate_tx_activity.                                            *)
(***************************************************************************)
Highest(S) == CHOOSE p \in 0..3 :
                  /\ \A ac \in S : Pri(ac) <= p
                  /\ p = 0 \/ \E ac \in S : Pri(ac) = p

IndicateActive(th) ==
    LET ac == Now(th).ac
    IN  /\ Does(th, "active")
        /\ active' = active \cup {ac}
        /\ hiPri' = IF Pri(ac) > hiPri THEN Pri(ac) ELSE hiPri
        /\ Continue(th, <<>>)
        /\ UNCHANGED <<countVars, stopped, wmiVars, targetVars, sendVars, copy, boundVars>>

\* Mutant: the search starts from the stream that went inactive.
NextHighestKept(ac) == Highest(active)

NextHighest(ac) == Highest(active \ {ac})

IndicateInactive(th) ==
    LET ac == Now(th).ac
    IN  /\ Does(th, "inactive")
        /\ active' = active \ {ac}
        /\ hiPri' = IF hiPri = Pri(ac) THEN NextHighest(ac) ELSE hiPri
        /\ Continue(th, <<>>)
        /\ UNCHANGED <<countVars, stopped, wmiVars, targetVars, sendVars, copy, boundVars>>

-----------------------------------------------------------------------------
(***************************************************************************)
(* Streams.                                                                *)
(***************************************************************************)
\* A packet of the network stack, if its queue runs.
StartTransmit(d, ac, tag) ==
    LET bypass == scenario.net = "bypass"
        send == Data(ac, tag)
    IN  /\ d \in scenario.devs \ stopped /\ packets < scenario.packets
        /\ tag = "control" => bypass
        /\ Begin(d, IF bypass THEN send ELSE Step("lookup", ac) \o send)
        /\ packets' = packets + 1
        /\ UNCHANGED <<countVars, activeVars, stopped, wmiVars, targetVars, sendVars,
                       copy, scenario, calls, cacs, serves>>

\* wmi_implicit_create_pstream.
LookUpPipe(th) ==
    LET ac == Now(th).ac
    IN  /\ Does(th, "lookup")
        /\ Continue(th, IF ac \in fat THEN <<>> ELSE OnStream("create", ac, Implicit))
        /\ UNCHANGED <<countVars, activeVars, stopped, wmiVars, targetVars, sendVars,
                       copy, boundVars>>

\* Mutant: an implicit pipe is created whatever happened since it was looked up.
AlreadyThereUnchecked(ac, tsid) == FALSE

\* The second look, under the lock that sets the bit.
AlreadyThere(ac, tsid) == tsid = Implicit /\ ac \in fat

\* Mutant: the driver is told after the target.
CreateStepsLate(ac, cmd) ==
    Command(cmd, ac) \o (IF ac \in fat THEN <<>> ELSE Step("active", ac))

CreateSteps(ac, cmd) ==
    (IF ac \in fat THEN <<>> ELSE Step("active", ac)) \o Command(cmd, ac)

\* wmi_create_pstream_cmd.
CreatePstream(th) ==
    LET ac == Now(th).ac
        tsid == Now(th).tsid
    IN  /\ Does(th, "create")
        /\ IF AlreadyThere(ac, tsid)
           THEN /\ Continue(th, <<>>)
                /\ UNCHANGED wmiVars
           ELSE /\ fat' = fat \cup {ac}
                /\ thin' = IF tsid = Implicit THEN thin
                           ELSE [thin EXCEPT ![ac] = @ \cup {tsid}]
                /\ Continue(th, CreateSteps(ac, IF tsid = Implicit THEN "implicit"
                                                ELSE "explicit"))
        /\ UNCHANGED <<countVars, activeVars, stopped, targetVars, sendVars, copy,
                       boundVars>>

\* wmi_delete_pstream_cmd, up to the command: a sync point comes before it.
DeletePstream(th) ==
    LET ac == Now(th).ac
        tsid == Now(th).tsid
    IN  /\ Does(th, "delete")
        /\ Continue(th, IF tsid \notin thin[ac] THEN <<>>
                        ELSE Step("sync", NoAC) \o Command("none", NoAC)
                                 \o OnStream("forget", ac, tsid))
        /\ UNCHANGED <<countVars, activeVars, stopped, wmiVars, targetVars, sendVars,
                       copy, boundVars>>

\* wmi_sync_point: a command, and a data sync on the endpoint of every pipe.
SyncPoint(th) ==
    LET syncs == InOrder(fat)
    IN  /\ Does(th, "sync")
        /\ Continue(th, Command("none", NoAC)
                            \o [i \in DOMAIN syncs |-> Step("dataSync", syncs[i])[1]])
        /\ UNCHANGED <<countVars, activeVars, stopped, wmiVars, targetVars, sendVars,
                       copy, boundVars>>

\* Forget a thin stream.  With the last one the fat pipe goes, without the
\* lock: its bit is cleared in a copy of the map, which is then written back.
ForgetTsid(th) ==
    LET ac == Now(th).ac
        tsid == Now(th).tsid
    IN  /\ Does(th, "forget")
        /\ thin' = [thin EXCEPT ![ac] = @ \ {tsid}]
        /\ Continue(th, IF thin[ac] \subseteq {tsid}
                        THEN Step("inactive", ac) \o Step("readMap", NoAC)
                                 \o Step("writeMap", ac)
                        ELSE <<>>)
        /\ UNCHANGED <<countVars, activeVars, stopped, fat, targetVars, sendVars, copy,
                       boundVars>>

ReadMap(th) ==
    /\ Does(th, "readMap")
    /\ copy' = [copy EXCEPT ![th] = fat]
    /\ Continue(th, <<>>)
    /\ UNCHANGED <<countVars, activeVars, stopped, wmiVars, targetVars, sendVars, boundVars>>

WriteMap(th) ==
    /\ Does(th, "writeMap")
    /\ fat' = copy[th] \ {Now(th).ac}
    /\ copy' = [copy EXCEPT ![th] = {}]
    /\ Continue(th, <<>>)
    /\ UNCHANGED <<countVars, activeVars, stopped, thin, targetVars, sendVars, boundVars>>

\* wmi_set_host_sleep_mode_cmd, going to sleep: a pipe in the copy of the map
\* stays if it has thin streams now.
KeepThin(th) ==
    LET ac == Now(th).ac
        goes == ac \in copy[th] /\ thin[ac] = {}
    IN  /\ Does(th, "keepThin")
        /\ copy' = [copy EXCEPT ![th] = IF goes THEN @ \ {ac} ELSE @]
        /\ Continue(th, IF goes THEN Step("inactive", ac) ELSE <<>>)
        /\ UNCHANGED <<countVars, activeVars, stopped, wmiVars, targetVars, sendVars,
                       boundVars>>

\* The ioctls, one at a time.
Ioctl(steps) ==
    /\ calls < scenario.calls
    /\ Begin("ioctl", steps) /\ Serve("ioctl")
    /\ calls' = calls + 1
    /\ UNCHANGED <<countVars, activeVars, stopped, wmiVars, targetVars, sendVars, copy,
                   scenario, packets, cacs>>

CreateQos(ac, tsid) == "qos" \in scenario.ops /\ Ioctl(OnStream("create", ac, tsid))
DeleteQos(ac, tsid) == "qos" \in scenario.ops /\ Ioctl(OnStream("delete", ac, tsid))

HostSleep ==
    /\ "sleep" \in scenario.ops
    /\ Ioctl(Step("readMap", NoAC)
                 \o [i \in DOMAIN InOrder(ACs) |-> Step("keepThin", InOrder(ACs)[i])[1]]
                 \o Step("writeMap", NoAC) \o Command("sleep", NoAC))

-----------------------------------------------------------------------------
(***************************************************************************)
(* Events of the target.                                                   *)
(***************************************************************************)
\* The target found an implicit pipe idle.
TargetTimesOut(ac) ==
    /\ "timeout" \in scenario.ops /\ ac \in pipes
    /\ pipes' = pipes \ {ac}
    /\ timeouts' = timeouts \cup {ac}
    /\ UNCHANGED <<countVars, activeVars, stopped, wmiVars, todo, sendVars, copy, boundVars>>

\* wmi_pstream_timeout_event_rx.
PstreamTimeout(ac) ==
    /\ ac \in timeouts
    /\ Begin("rx", Step("inactive", ac))
    /\ fat' = fat \ {ac}
    /\ thin' = [thin EXCEPT ![ac] = {}]
    /\ timeouts' = timeouts \ {ac}
    /\ UNCHANGED <<countVars, activeVars, stopped, pipes, sendVars, copy, boundVars>>

CacEvent ==
    /\ "cac" \in scenario.ops /\ cacs < scenario.events
    /\ cacs' = cacs + 1
    /\ Serve("rx")
    /\ UNCHANGED <<countVars, activeVars, stopped, fat, targetVars, sendVars, copy,
                   scenario, packets, calls>>

\* wmi_cac_event_rx: the access point refused a stream.
CacRefused(ac, tsid) ==
    /\ Begin("rx", OnStream("delete", ac, tsid))
    /\ UNCHANGED thin
    /\ CacEvent

\* It did not answer: the first stream of the access class is deleted.
CacNoResponse(ac) ==
    /\ Begin("rx", IF thin[ac] = {} THEN <<>>
                   ELSE OnStream("delete", ac, CHOOSE t \in thin[ac] : \A u \in thin[ac] : t <= u))
    /\ UNCHANGED thin
    /\ CacEvent

\* It deleted a stream.  Whether the stream existed is kept in eight bits, which
\* lose the streams from 8 on: the pipe of such a stream stays.
CacDeleted(ac, tsid) ==
    /\ thin' = [thin EXCEPT ![ac] = @ \ {tsid}]
    /\ Begin("rx", IF thin[ac] = {tsid} /\ tsid < 8
                   THEN Step("inactive", ac) \o Step("readMap", NoAC)
                            \o Step("writeMap", ac)
                   ELSE <<>>)
    /\ CacEvent

-----------------------------------------------------------------------------
ThreadStep(th) ==
    \/ ControlTx(th) \/ DataTx(th) \/ SendPkt(th) \/ TxQueueFull(th) \/ StopQueues(th)
    \/ KeepPkt(th) \/ DropPkt(th) \/ WakeQueues(th)
    \/ IndicateActive(th) \/ IndicateInactive(th)
    \/ LookUpPipe(th) \/ CreatePstream(th) \/ DeletePstream(th) \/ SyncPoint(th)
    \/ ForgetTsid(th) \/ ReadMap(th) \/ WriteMap(th) \/ KeepThin(th)

Next ==
    \/ \E th \in Threads : ThreadStep(th)
    \/ \E d \in Devs, ac \in ACs, tag \in {"data", "control"} : StartTransmit(d, ac, tag)
    \/ \E batch \in SUBSET htc, status \in {"ok", "flushed", "failed"} :
           TxComplete(batch, status)
    \/ HostSleep
    \/ \E ac \in ACs :
           \/ TargetTimesOut(ac) \/ PstreamTimeout(ac) \/ CacNoResponse(ac)
           \/ \E tsid \in Tsids :
                  \/ CreateQos(ac, tsid) \/ DeleteQos(ac, tsid)
                  \/ CacRefused(ac, tsid) \/ CacDeleted(ac, tsid)

Spec == Init /\ [][Next]_vars
-----------------------------------------------------------------------------
TypeOK ==
    /\ freeCookies \subseteq Cookies /\ htc \subseteq Cookies
    /\ msg \in [Cookies -> Msgs]
    /\ pending \in [Endpoints -> 0..Cardinality(Cookies)]
    /\ totalPending \in Nat
    /\ ctlFull \in BOOLEAN
    /\ active \subseteq ACs /\ hiPri \in 0..3
    /\ stopped \subseteq Devs
    /\ fat \subseteq ACs /\ thin \in [ACs -> SUBSET Tsids]
    /\ pipes \subseteq ACs /\ timeouts \subseteq ACs
    /\ todo \in [Threads -> Seq(Steps)]
    /\ stage \in [Threads -> {"go", "send", "full", "stop", "keep", "drop", "wake"}]
    /\ hand \in [Threads -> Cookies \cup {NoCookie}]
    /\ verdict \in [Threads -> {"keep", "drop"}]
    /\ flushing \in [Threads -> [Devs -> {"unset", "yes", "no"}]]
    /\ serves \in [Threads -> Devs]
    /\ copy \in [Threads -> SUBSET ACs]
    /\ scenario \in Scenarios
    /\ packets \in 0..scenario.packets /\ calls \in 0..scenario.calls
    /\ cacs \in 0..scenario.events

InHand == {hand[th] : th \in Threads} \ {NoCookie}

\* A cookie is on the free list, with the one thread that sends its packet, or
\* with HTC, on every path of ar6000_tx_queue_full and ar6000_tx_complete.
CookiesAccounted ==
    /\ freeCookies \cap (htc \cup InHand) = {} /\ htc \cap InHand = {}
    /\ freeCookies \cup htc \cup InHand = Cookies
    /\ \A th, u \in Threads : th # u /\ hand[th] = hand[u] => hand[th] = NoCookie

\* arTxPending and arTotalTxDataPending, on which disconnect and suspend wait,
\* count the packets that are out; with bypasswmi the total only grows.
PendingCounted ==
    LET out == Cookies \ freeCookies
    IN  /\ \A e \in Endpoints : pending[e] = Cardinality({c \in out : msg[c].ep = e})
        /\ scenario.net # "bypass" =>
               totalPending = Cardinality({c \in out : msg[c].ep # Control})

\* While arWMIControlEpFull refuses all commands (ar6000_control_tx), there is a
\* command out whose completion will clear it, although the callback sets the
\* flag when others may just have completed.
ControlEpFullClears == ctlFull => \E c \in Cookies \ freeCookies : msg[c].ep = Control

\* arHiAcStreamActivePri, which decides whose packets are dropped when cookies
\* run out, is the priority of the highest active stream, whatever the order of
\* the indications of several threads.
HighestActive == hiPri = Highest(active)

Quiet == (\A th \in Threads : Idle(th)) /\ htc = {} /\ timeouts = {}

\* With bypasswmi the network queue of the first device, which is stopped without a
\* common lock with the completions, runs again once the packets are sent, if none
\* failed: it is the device whose flag ar6000_tx_complete sets.
QueueResumes ==
    Quiet /\ scenario.net = "bypass" /\ ~scenario.faults => FirstDev \notin stopped

\* The streams are only changed under the WMI lock.
OnlyLocked == scenario.ops \subseteq {"timeout"}

Creating(ac) == {th \in Threads : \E i \in DOMAIN todo[th] :
                    todo[th][i].do = "command" /\ todo[th][i].what = "implicit"
                    /\ todo[th][i].ac = ac}
Created(ac) == {c \in Cookies \ freeCookies : msg[c].cmd = "implicit" /\ msg[c].ac = ac}

\* Whatever threads transmit in an access class, and however late the report of
\* a timeout is, there is one CREATE_PSTREAM for a pipe of the target, never
\* two back to back (wmi_create_pstream_cmd), and the target has no pipe that
\* the host does not know of.  This is so while nothing changes the map outside
\* the lock.
NoBackToBackCreate ==
    OnlyLocked =>
        /\ pipes \cup timeouts \subseteq fat
        /\ \A ac \in ACs :
               Cardinality(Creating(ac)) + Cardinality(Created(ac))
                   + (IF ac \in pipes THEN 1 ELSE 0) + (IF ac \in timeouts THEN 1 ELSE 0) <= 1

\* A stream that keeps the priority of others down (ar6000_tx_queue_full) still
\* has its pipe when all is quiet, although it is indicated after the map
\* changed.
ActiveHasPipe == OnlyLocked /\ Quiet => active \subseteq fat

\* What the comment in wmi_create_pstream_cmd says (wmi.c:4242-4245), with every
\* kind of call and event: the target is not told twice to create a pipe.
NeverBackToBack ==
    \A ac \in ACs : Cardinality(Created(ac)) + (IF ac \in pipes THEN 1 ELSE 0) <= 1
=============================================================================
