------------------------------- MODULE Virtio -------------------------------
(***************************************************************************)
(* The VirtIO drivers: block, network, graphics, input and host console on  *)
(* RISC-V, block and network on x86.  Each has the same rings; a driver      *)
(* either sends one request at a time and waits for the device to use it,   *)
(* or keeps the device supplied with buffers and polls for filled ones.     *)
(*                                                                         *)
(* Queue 0 carries buffers for the device to fill, queue 1 requests.  The   *)
(* device reads a request when it takes it from the ring and answers later, *)
(* in order, or never; it is external.  The rings' indices wrap at IDX_MOD.  *)
(* A request is named by the number of the call that made it, 0 is none.    *)
(***************************************************************************)
EXTENDS Naturals, Sequences, FiniteSets

CONSTANTS
    Drivers,    \* the drivers of the instance; one is present at a time
    VQ_SIZE,    \* slots of a ring
    IDX_MOD,    \* the indices of the rings have 16 bits
    MAX_CALLS,  \* bound of the exploration: requests
    MAX_OWED,   \* bound of the exploration: requests the device is behind
    MAX_FRAMES, \* bound of the exploration: buffers the device fills
    MAX_EVENTS  \* bound of the exploration: requests and filled buffers together

ASSUME VirtioSizes ==
    /\ VQ_SIZE \in Nat \ {0}
    /\ IDX_MOD \in Nat /\ IDX_MOD % VQ_SIZE = 0 /\ IDX_MOD > VQ_SIZE
    /\ {MAX_OWED, MAX_CALLS, MAX_FRAMES} \subseteq Nat /\ MAX_OWED < IDX_MOD
    /\ Drivers \subseteq {"blk", "pci_blk", "gpu", "net", "pci_net", "console", "input"}

VARIABLES
    drv,     \* the driver
    ready,   \* blk_ready, net_ready, ...
    live,    \* the device has accepted the queues
    q,       \* q[i]: avail, used and last_used, and the device's own position
    ring,    \* avail->ring of queue 0: slots the driver offers
    uring,   \* used->ring of queue 0: slots the device has filled
    pool,    \* what each buffer holds
    hdr,     \* the request in the driver's only request buffer
    served,  \* whose completion wrote the status last, and whether it is good
    reply,   \* what rx_buf of the console holds: the request it answers and its form
    step,    \* the command virtio_gpu_init is at, 0 when it is not running
    work,    \* the request the device is at
    host,    \* requests the host has received and not answered
    pc,      \* where the driver is in a call or a poll, idle between them
    slot,    \* the buffer the driver copies from
    clean,   \* the device owed nothing when the call in progress looked at the rings
    rc,      \* what the last call returned
    filled,  \* frames the device has delivered
    got,     \* frames the driver has handed on
    runts,   \* frames that are too short
    calls

pvars == <<ring, uring, pool, slot, filled, got, runts>>
cvars == <<reply, host>>
vars == <<drv, ready, live, q, hdr, served, step, work, pc, clean, rc, calls, pvars, cvars>>

Slots == 0 .. VQ_SIZE - 1

Served(req, ok) == [req |-> req, ok |-> ok]

Unserved == Served(0, FALSE)

-----------------------------------------------------------------------------
(* How the drivers differ: whether a call first skips the completions it    *)
(* has not waited for, whether the completion carries a status, whether the *)
(* answer comes in a buffer of queue 0; and whether initialisation gives up *)
(* when a queue is refused and whether it offers a pool of buffers.         *)
(* Each driver has its own copy of the operations on the rings; what is     *)
(* named after its initialisation stands for its copies, too.               *)

Calls(resync, status, replies) == [resync |-> resync, status |-> status, reply |-> replies]
Setup(strict, rxpool) == [strict |-> strict, rxpool |-> rxpool]

blk_transfer          == Calls(TRUE, TRUE, FALSE)
virtio_blk_init       == Setup(TRUE, FALSE)
pci_blk_transfer      == Calls(FALSE, TRUE, FALSE)
pci_blk_init          == Setup(TRUE, FALSE)
gpu_cmd               == Calls(FALSE, TRUE, FALSE)
virtio_gpu_init       == Setup(FALSE, FALSE)
virtio_net_send_frame == Calls(TRUE, FALSE, FALSE)
virtio_net_init       == Setup(FALSE, TRUE)
pci_net_send_frame    == Calls(TRUE, FALSE, FALSE)
pci_net_init          == Setup(TRUE, TRUE)
virtio_exchange       == Calls(TRUE, FALSE, TRUE)
virtio_console_init   == Setup(FALSE, FALSE)
virtio_input_init     == Setup(FALSE, TRUE)

Driver(io, init) == [io |-> io, init |-> init]
NoCalls == Calls(FALSE, FALSE, FALSE)

Table ==
    [blk     |-> Driver(blk_transfer, virtio_blk_init),
     pci_blk |-> Driver(pci_blk_transfer, pci_blk_init),
     gpu     |-> Driver(gpu_cmd, virtio_gpu_init),
     net     |-> Driver(virtio_net_send_frame, virtio_net_init),
     pci_net |-> Driver(pci_net_send_frame, pci_net_init),
     console |-> Driver(virtio_exchange, virtio_console_init),
     input   |-> Driver(NoCalls, virtio_input_init)]

D == Table[drv].io
S == Table[drv].init

\* The answers of the host each call over the console accepts.
virtio_llm_exchange  == {"LLMR"}
virtio_llm_stream    == {"LLMR", "lines"}
virtio_http_exchange == {"LLMR", "lines", "error line"}
Exchanges == {virtio_llm_exchange, virtio_llm_stream, virtio_http_exchange}
Forms == virtio_http_exchange \cup {"short"}

-----------------------------------------------------------------------------
(* The rings                                                               *)

inc(i) == (i + 1) % IDX_MOD

\* vq_bind and vq_setup: empty rings.
vq_bind == [avail |-> 0, used |-> 0, last_used |-> 0, seen |-> 0]

Owed(n) == (q[n].avail + IDX_MOD - q[n].used) % IDX_MOD

vq_submit(vq) == [vq EXCEPT !.avail = inc(@)]

vq_has_used(vq) == vq.used # vq.last_used

vq_consume(vq) == [vq EXCEPT !.last_used = inc(@)]

\* Slip: completions nobody waited for are left in the ring.
NoResync(vq) == vq

\* Some drivers start a call by skipping what the device has used so far.
Resync(vq) == IF D.resync THEN [vq EXCEPT !.last_used = vq.used] ELSE vq

Init ==
    /\ drv \in Drivers
    /\ ready = FALSE /\ live = FALSE
    /\ q = [n \in 0 .. 1 |-> vq_bind]
    /\ ring = [s \in Slots |-> s] /\ uring = [s \in Slots |-> 0] /\ pool = [s \in Slots |-> 0]
    /\ hdr = 0 /\ served = Unserved /\ step = 0 /\ work = 0
    /\ reply = [req |-> 0, form |-> "short"] /\ host = <<>>
    /\ pc = "idle" /\ slot = 0 /\ clean = TRUE /\ rc = "OK"
    /\ filled = 0 /\ got = <<>> /\ runts = {} /\ calls = 0

\* The device is looked for, reset, asked for its features and given its
\* queues.  Without a device, or when the features are refused, the driver
\* stays off; when a queue is refused only the strict ones do.  A pool is
\* offered whole.  The graphics driver goes on to set up its frame buffer.
virtio_init(found) ==
    /\ ~ready /\ pc = "idle" /\ step = 0
    /\ LET on == found = "ok" \/ (found = "no queue" /\ ~S.strict)
       IN  IF drv = "gpu" THEN step' = (IF on THEN 1 ELSE 0) /\ ready' = FALSE
           ELSE ready' = on /\ step' = 0
    /\ live' = (found = "ok")
    /\ work' = 0
    /\ q' = [n \in 0 .. 1 |-> IF S.rxpool /\ n = 0 THEN [vq_bind EXCEPT !.avail = VQ_SIZE] ELSE vq_bind]
    /\ UNCHANGED <<drv, hdr, served, pc, clean, rc, calls, pvars, cvars>>

\* The rest of virtio_gpu_init.  The first command asks for the display's size,
\* and the frame buffer is allocated then, if there is memory; the others are
\* gpu_setup_framebuffer's.  The answers to the first and the last are only
\* looked at.  A failure of the second or the third resets the device, as the
\* failed allocation does.
gpu_setup(code) ==
    \/ step = 0 /\ UNCHANGED <<ready, live, step>>
    \/ /\ step = 1 \/ (step \in {2, 3} /\ code # "OK")
       /\ step' = 0 /\ live' = FALSE /\ UNCHANGED ready
    \/ /\ step \in {1, 4} \/ (step \in {2, 3} /\ code = "OK")
       /\ step' = (step + 1) % 5 /\ ready' = (step = 4) /\ UNCHANGED live

-----------------------------------------------------------------------------
(* A call                                                                  *)

\* Header, data and status are written into the buffers all calls share.  The
\* answer to a graphics command is a variable on the stack that holds
\* anything until the device writes it.
Prepare ==
    /\ calls < MAX_CALLS /\ calls + filled < MAX_EVENTS /\ Owed(1) < MAX_OWED
    /\ ready \/ step # 0
    /\ drv # "input" /\ pc = "idle"
    /\ calls' = calls + 1
    /\ hdr' = calls'
    /\ served' \in IF drv = "gpu" THEN {Unserved, Served(0, TRUE)} ELSE {Unserved}
    /\ pc' = "prepared"
    /\ UNCHANGED <<drv, ready, live, q, step, work, clean, rc, pvars, cvars>>

OwesNothing ==
    /\ Owed(1) = 0
    /\ D.reply => Owed(0) = 0 /\ host = <<>>
    /\ D.resync \/ ~vq_has_used(q[1])

\* The used index is read some statements before the request is submitted; a
\* driver that expects a reply reads that of queue 0 first.
SkipUsed(n) ==
    /\ \/ n = 0 /\ D.reply /\ pc = "prepared" /\ pc' = "rx skipped"
       \/ n = 1 /\ pc = (IF D.reply THEN "rx skipped" ELSE "prepared") /\ pc' = "skipped"
    /\ clean' = IF pc = "prepared" THEN OwesNothing ELSE clean
    /\ q' = [q EXCEPT ![n] = Resync(@)]
    /\ UNCHANGED <<drv, ready, live, hdr, served, step, work, rc, calls, pvars, cvars>>

\* A driver that expects a reply offers a buffer for it before the request.
Submit(n) ==
    /\ \/ n = 0 /\ D.reply /\ pc = "skipped" /\ pc' = "offered"
       \/ n = 1 /\ pc = (IF D.reply THEN "offered" ELSE "skipped") /\ pc' = "waiting"
    /\ q' = [q EXCEPT ![n] = vq_submit(@)]
    /\ UNCHANGED <<drv, ready, live, hdr, served, step, work, clean, rc, calls, pvars, cvars>>

\* vq_wait_used found the request used.
Reap ==
    /\ pc = "waiting" /\ vq_has_used(q[1])
    /\ q' = [q EXCEPT ![1] = vq_consume(@)]
    /\ pc' = IF D.reply THEN "answering" ELSE "reaped"
    /\ UNCHANGED <<drv, ready, live, hdr, served, step, work, clean, rc, calls, pvars, cvars>>

\* The reply is used as well; the exchange accepts it by its form.
ReapReply(accepts) ==
    /\ pc = "answering" /\ vq_has_used(q[0])
    /\ q' = [q EXCEPT ![0] = vq_consume(@)]
    /\ served' = Served(reply.req, reply.form \in accepts)
    /\ pc' = "reaped"
    /\ UNCHANGED <<drv, ready, live, hdr, step, work, clean, rc, calls, pvars, cvars>>

\* Slip: the wait has no end.
TimeoutNever == FALSE /\ UNCHANGED vars

\* vq_wait_used gives up; whatever was submitted stays with the device.
Timeout ==
    /\ \/ pc = "waiting" /\ ~vq_has_used(q[1])
       \/ pc = "answering" /\ ~vq_has_used(q[0])
    /\ rc' = "ETIMEDOUT"
    /\ gpu_setup(rc')
    /\ pc' = "idle"
    /\ UNCHANGED <<drv, q, hdr, served, work, clean, calls, pvars, cvars>>

\* The status is read, the data copied.
Return ==
    /\ pc = "reaped"
    /\ rc' = IF (D.status \/ D.reply) /\ ~served.ok THEN "EIO" ELSE "OK"
    /\ gpu_setup(rc')
    /\ pc' = "idle"
    /\ UNCHANGED <<drv, q, hdr, served, work, clean, calls, pvars, cvars>>

-----------------------------------------------------------------------------
(* The device (external)                                                   *)

\* It takes the next request from the ring and reads the header then.
Fetch ==
    /\ live /\ work = 0 /\ q[1].seen # q[1].avail
    /\ work' = hdr
    /\ q' = [q EXCEPT ![1].seen = inc(@)]
    /\ UNCHANGED <<drv, ready, live, hdr, served, step, pc, clean, rc, calls, pvars, cvars>>

\* It is done with it, well or not; a request to the console goes on to the host.
Complete(ok) ==
    /\ live /\ work # 0
    /\ work' = 0
    /\ q' = [q EXCEPT ![1].used = inc(@)]
    /\ IF D.reply THEN host' = Append(host, work) /\ UNCHANGED served
       ELSE served' = Served(work, ok) /\ UNCHANGED host
    /\ UNCHANGED <<drv, ready, live, hdr, step, pc, clean, rc, calls, pvars, reply>>

\* The host answers through the buffer the driver offered.
HostAnswers(form) ==
    /\ host # <<>> /\ q[0].seen # q[0].avail
    /\ reply' = [req |-> Head(host), form |-> form]
    /\ host' = Tail(host)
    /\ q' = [q EXCEPT ![0].seen = inc(@), ![0].used = inc(@)]
    /\ UNCHANGED <<drv, ready, live, hdr, served, step, work, pc, clean, rc, calls, pvars>>

\* A frame or an event fills the next buffer offered; without one it is lost
\* and not counted.  A frame may be shorter than its header.
Fill(whole) ==
    /\ live /\ S.rxpool /\ filled < MAX_FRAMES /\ calls + filled < MAX_EVENTS
    /\ q[0].seen # q[0].avail
    /\ whole \/ drv # "input"
    /\ filled' = filled + 1
    /\ runts' = IF whole THEN runts ELSE runts \cup {filled'}
    /\ LET s == ring[q[0].seen % VQ_SIZE]
       IN  /\ pool' = [pool EXCEPT ![s] = filled']
           /\ uring' = [uring EXCEPT ![q[0].used % VQ_SIZE] = s]
    /\ q' = [q EXCEPT ![0].seen = inc(@), ![0].used = inc(@)]
    /\ UNCHANGED <<drv, ready, live, hdr, served, step, work, pc, clean, rc, calls, cvars, ring, slot, got>>

-----------------------------------------------------------------------------
(* A poll of a driver with a pool                                          *)

PollDue == ready /\ S.rxpool /\ pc = "idle" /\ vq_has_used(q[0])

\* Slip: a runt is refused before its used element is taken.
PollLeavesRunt ==
    /\ PollDue
    /\ slot' = uring[q[0].last_used % VQ_SIZE]
    /\ IF pool[slot'] \in runts THEN rc' = "EIO" /\ pc' = "idle" /\ q' = q
       ELSE pc' = "copying" /\ rc' = rc /\ q' = [q EXCEPT ![0] = vq_consume(@)]
    /\ UNCHANGED <<drv, ready, live, hdr, served, step, work, clean, calls, cvars, ring, uring, pool, filled, got, runts>>

\* The used element is taken; a runt is dropped here, and its buffer with it.
Poll ==
    /\ PollDue
    /\ slot' = uring[q[0].last_used % VQ_SIZE]
    /\ q' = [q EXCEPT ![0] = vq_consume(@)]
    /\ IF pool[slot'] \in runts THEN rc' = "EIO" /\ pc' = "idle" ELSE pc' = "copying" /\ rc' = rc
    /\ UNCHANGED <<drv, ready, live, hdr, served, step, work, clean, calls, cvars, ring, uring, pool, filled, got, runts>>

\* Slip: the slot is taken to be the one next in the ring.
RefillNextSlot(r) == [r EXCEPT ![q[0].avail % VQ_SIZE] = q[0].avail % VQ_SIZE]

\* net_rx_refill and input_refill: the slot goes back on the ring.
net_rx_refill(r) == [r EXCEPT ![q[0].avail % VQ_SIZE] = slot]

Copied == pool[slot]

Copy ==
    /\ pc = "copying"
    /\ got' = Append(got, Copied)
    /\ pc' = "refilling"
    /\ UNCHANGED <<drv, ready, live, q, hdr, served, step, work, clean, rc, calls, cvars, ring, uring, pool, slot, filled, runts>>

Refill ==
    /\ pc = "refilling"
    /\ ring' = net_rx_refill(ring)
    /\ q' = [q EXCEPT ![0] = vq_submit(@)]
    /\ rc' = "OK" /\ pc' = "idle"
    /\ UNCHANGED <<drv, ready, live, hdr, served, step, work, clean, calls, cvars, uring, pool, slot, filled, got, runts>>

-----------------------------------------------------------------------------
CallStep ==
    \/ \E n \in 0 .. 1 : SkipUsed(n) \/ Submit(n)
    \/ Reap \/ (\E accepts \in Exchanges : ReapReply(accepts)) \/ Timeout \/ Return
    \/ Copy \/ Refill

Next ==
    \/ \E found \in {"nothing", "no queue", "ok"} : virtio_init(found)
    \/ Prepare
    \/ Poll
    \/ CallStep
    \/ Fetch
    \/ \E ok \in BOOLEAN : Complete(ok) \/ Fill(ok)
    \/ \E form \in Forms : HostAnswers(form)

Spec == Init /\ [][Next]_vars

\* A call or a poll in progress goes on.  Nothing is assumed of the device, and
\* nobody has to make a call or to poll.
FairSpec == Spec /\ WF_vars(CallStep)

-----------------------------------------------------------------------------
(* Properties                                                              *)

Indices == 0 .. IDX_MOD - 1
Requests == 0 .. MAX_CALLS

TypeOK ==
    /\ drv \in Drivers /\ {ready, live, clean} \subseteq BOOLEAN
    /\ q \in [0 .. 1 -> [avail : Indices, used : Indices, last_used : Indices, seen : Indices]]
    /\ ring \in [Slots -> Slots] /\ uring \in [Slots -> Slots] /\ slot \in Slots
    /\ pool \in [Slots -> 0 .. MAX_FRAMES]
    /\ {hdr, served.req, work, calls} \subseteq Requests
    /\ reply \in [req : Requests, form : Forms]
    /\ step \in 0 .. 4 /\ (step # 0 => drv = "gpu" /\ ~ready)
    /\ host \in Seq(Requests \ {0}) /\ got \in Seq(0 .. MAX_FRAMES)
    /\ pc \in {"idle", "prepared", "rx skipped", "skipped", "offered", "waiting", "answering", "reaped"} \cup
              {"copying", "refilling"}
    /\ rc \in {"OK", "EIO", "ETIMEDOUT"}
    /\ filled \in 0 .. MAX_FRAMES /\ runts \subseteq 1 .. filled

\* A call that does not time out returns the answer to its own request, and
\* not before the device gave it, as long as the device owed nothing when the
\* call read the used index.  For the drivers that skip old completions
\* (virtio_blk.c, both network drivers, the console) a timeout in the past does no
\* harm once the device has caught up by then; what it catches up with between
\* that read and the submission is taken for the answer.  For virtio_pci_blk.c
\* and virtio_gpu.c no completion may be left in the ring either.
OwnAnswer == pc = "reaped" /\ clean => served.req = hdr

\* vq_wait_used bounds every wait: whatever the device does, a call returns.
CallReturns == (pc # "idle") ~> (pc = "idle")

\* Net and input polling hands over what the device delivered: every frame
\* longer than its header, once, in order.
InOrder ==
    LET Whole == {f \in 1 .. filled : f \notin runts}
    IN  /\ \A i \in 1 .. Len(got) : got[i] \in Whole
        /\ \A i, j \in 1 .. Len(got) : i < j => got[i] < got[j]
        /\ \A f \in Whole, i \in 1 .. Len(got) : f < got[i] => \E j \in 1 .. i : got[j] = f

Pending(from, to) == {(from + k) % IDX_MOD : k \in 0 .. ((to + IDX_MOD - from) % IDX_MOD) - 1}

SlotsAt(r, indices) == {r[i % VQ_SIZE] : i \in indices}

OnOffer == Pending(q[0].seen, q[0].avail)
Unpolled == Pending(q[0].last_used, q[0].used)

\* The buffers on offer to the device, filled and not yet taken, with the
\* driver, and dropped with a runt.
Offered == SlotsAt(ring, OnOffer)
Waiting == SlotsAt(uring, Unpolled)
InHand == IF pc \in {"copying", "refilling"} THEN {slot} ELSE {}
Dropped == {s \in Slots : pool[s] \in runts /\ s \notin Waiting \cup Offered}

\* The buffers of a pool are never lost or offered twice: each is on offer to
\* the device, filled and not yet taken, or with the driver, and only one of
\* these; one buffer is gone for every runt polled, which virtio_net_poll_frame
\* drops without net_rx_refill.
SlotsConserved ==
    ready /\ S.rxpool =>
        /\ Offered \cap Waiting = {} /\ (Offered \cup Waiting) \cap InHand = {}
        /\ \A i, j \in OnOffer : i # j => ring[i % VQ_SIZE] # ring[j % VQ_SIZE]
        /\ \A i, j \in Unpolled : i # j => uring[i % VQ_SIZE] # uring[j % VQ_SIZE]
        /\ Slots = Offered \cup Waiting \cup InHand \cup Dropped

\* A driver with a pool that is polled again and again hands over every frame
\* longer than its header, and the device finds a buffer again and again, until
\* there have been as many runts as the pool has buffers: each costs one, so
\* nothing is received after that (virtio_net_poll_frame).
KeepsReceiving ==
    SF_vars(Poll) =>
        /\ \A n \in 1 .. MAX_FRAMES :
               (filled = n) ~> (\A f \in (1 .. n) \ runts : \E i \in 1 .. Len(got) : got[i] = f)
        /\ (ready /\ S.rxpool /\ Cardinality(runts) < VQ_SIZE) ~> (q[0].seen # q[0].avail)

\* The state invariants of the queues: indices within their width, no buffer of
\* a pool lost or offered twice, frames handed over once and in order.
VirtioInv == TypeOK /\ InOrder /\ SlotsConserved
=============================================================================
