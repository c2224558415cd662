---------------------------- MODULE VirtioProofs ----------------------------
(***************************************************************************)
(* A call gets the answer to its own request, for any ring size and width   *)
(* of its indices: what is on the rings while a call is under way that      *)
(* found the device owing nothing.                                         *)
(***************************************************************************)
EXTENDS Virtio, Integers, TLAPS

Queue == [avail : Indices, used : Indices, last_used : Indices, seen : Indices]

\* What is needed of the types.
RingTypes == q \in [0 .. 1 -> Queue] /\ calls \in Nat /\ drv \in Drivers

\* The device is at no request, or at the one behind those it has used.
DeviceInv ==
    /\ work = 0 => q[1].seen = q[1].used
    /\ work # 0 => q[1].seen = inc(q[1].used) /\ q[1].used # q[1].avail
    /\ q[0].seen = q[0].used

\* Between the read of the used index and the submission of the request.
Sending == {"rx skipped", "skipped", "offered"}

\* There is room for the request being prepared, and it has a number; before
\* the first one the ring is empty.
CallInv ==
    /\ pc \in {"prepared"} \cup Sending => inc(q[1].avail) # q[1].used
    /\ pc \in {"prepared", "waiting", "answering", "reaped"} \cup Sending => hdr # 0
    /\ hdr = 0 => work = 0 /\ q[1].avail = q[1].used

\* A queue with one buffer on it that the device has not used, and with one
\* that it has used and the driver has not taken.
OneLeft(vq) == vq.used = vq.last_used /\ vq.avail = inc(vq.used)
OneDone(vq) == vq.used = vq.avail /\ vq.avail = inc(vq.last_used)
NoneLeft(vq) == vq.used = vq.avail

\* The reply to the request: not asked for yet, with the host, or there.
Unasked == D.reply => host = <<>> /\ OneLeft(q[0])
Answered ==
    IF D.reply THEN \/ host = <<hdr>> /\ OneLeft(q[0])
                    \/ host = <<>> /\ OneDone(q[0]) /\ reply.req = hdr
    ELSE served.req = hdr

\* The request is not on the ring yet, and nothing else is.
Unsent ==
    /\ work = 0 /\ NoneLeft(q[1]) /\ (pc # "rx skipped" => q[1].last_used = q[1].used)
    /\ D.reply => /\ host = <<>> /\ q[0].last_used = q[0].used
                  /\ pc # "offered" => NoneLeft(q[0])
                  /\ pc = "offered" => OneLeft(q[0])

\* A call that found the device owing nothing: its request is to be sent, on
\* the ring, with the device, or done.
CleanInv ==
    /\ clean /\ pc \in Sending => Unsent
    /\ clean /\ pc = "waiting" =>
          \/ work \in {0, hdr} /\ OneLeft(q[1]) /\ Unasked
          \/ work = 0 /\ OneDone(q[1]) /\ Answered
    /\ clean /\ pc = "answering" => work = 0 /\ NoneLeft(q[1]) /\ D.reply /\ Answered
    /\ clean /\ pc = "reaped" => work = 0 /\ NoneLeft(q[1]) /\ served.req = hdr

RingInv == RingTypes /\ DeviceInv /\ CallInv /\ CleanInv

-----------------------------------------------------------------------------
(* Remainders                                                              *)

\* Division with remainder, as the provers need it stated.
LEMMA DivMod ==
  \A x, m \in Int : m > 0 => x = m * (x \div m) + (x % m) /\ x \div m \in Int /\ x % m \in 0 .. m - 1
OBVIOUS

\* A remainder is unique.
LEMMA Unique ==
  ASSUME NEW m \in Int, m > 0, NEW a \in Int, NEW b \in Int, NEW r \in 0 .. m - 1, NEW s \in 0 .. m - 1,
         m * a + r = m * b + s
  PROVE  r = s
<1>1. ASSUME NEW c \in Int, NEW d \in Int, c < d PROVE m * c + m <= m * d
  <2>1. d - c - 1 \in Nat
    BY <1>1
  <2>2. m * (d - c - 1) >= 0
    BY <2>1
  <2>3. m * (d - c - 1) = m * d - m * c - m
    BY <1>1
  <2> QED BY <2>2, <2>3
<1>2. ~(a < b)
  BY <1>1
<1>3. ~(b < a)
  BY <1>1
<1> QED BY <1>2, <1>3

Split(x, m, a, r) == x = m * a + r

\* The remainder of a multiple and a rest is the rest.
LEMMA ModOf ==
  ASSUME NEW m \in Int, m > 0, NEW a \in Int, NEW r \in 0 .. m - 1, NEW x, Split(x, m, a, r)
  PROVE  x % m = r
<1>1. x \in Int /\ x = m * a + r
  BY DEF Split
<1>2. x = m * (x \div m) + (x % m) /\ x \div m \in Int /\ x % m \in 0 .. m - 1
  BY <1>1, DivMod
<1> QED BY ZenonT(60), <1>1, <1>2, Unique

\* A remainder may be taken before adding as well as after: inc of an index is
\* the index of the next position.
LEMMA ModSum ==
  ASSUME NEW m \in Int, m > 0, NEW x \in Int, NEW k \in Int
  PROVE  ((x % m) + k) % m = (x + k) % m
<1> DEFINE d == x \div m
           y == (x % m) + k
           e == y \div m
           r == y % m
<1>1. x = m * d + (x % m) /\ d \in Int /\ x % m \in 0 .. m - 1
  BY DivMod
<1>2. y \in Int
  BY <1>1
<1>3. y = m * e + r /\ e \in Int /\ r \in 0 .. m - 1
  BY <1>2, DivMod
<1> HIDE DEF d, e, r
<1>4. x + k = m * d + y
  BY <1>1
<1> HIDE DEF y
<1>5. Split(x + k, m, d + e, r)
  BY <1>1, <1>2, <1>3, <1>4 DEF Split
<1>6. (x + k) % m = r
  <2>1. d + e \in Int
    BY <1>1, <1>3
  <2> QED
    BY Zenon, <1>3, <1>5, <2>1, ModOf
<1> QED BY <1>6 DEF r, y

\* An index modulo the ring size finds the slot of its position, because the
\* width of the indices is a multiple of the ring size.
LEMMA ModMod ==
  ASSUME NEW m \in Int, m > 0, NEW v \in Int, v > 0, m % v = 0, NEW x \in Int
  PROVE  (x % m) % v = x % v
<1> DEFINE d == x \div m
           c == m \div v
           y == x % m
           e == y \div v
           r == y % v
<1>1. x = m * d + y /\ d \in Int /\ y \in 0 .. m - 1
  BY DivMod
<1>2. m = v * c /\ c \in Int
  BY DivMod
<1>3. y = v * e + r /\ e \in Int /\ r \in 0 .. v - 1
  BY <1>1, DivMod
<1> HIDE DEF d, c, e, r, y
<1>4. Split(x, v, c * d + e, r)
  BY <1>1, <1>2, <1>3 DEF Split
<1>5. c * d + e \in Int
  BY <1>1, <1>2, <1>3
<1>6. x % v = r
  BY Zenon, <1>3, <1>4, <1>5, ModOf
<1> QED BY <1>6 DEF r, y

\* The indices of positions less than m apart differ by their distance.
LEMMA ModDistance ==
  ASSUME NEW m \in Int, m > 0, NEW x \in Int, NEW y \in Int, x <= y, y < x + m
  PROVE  ((y % m) + m - (x % m)) % m = y - x
<1> DEFINE d == x \div m
           e == y \div m
           r == x % m
           s == y % m
<1>1. x = m * d + r /\ d \in Int /\ r \in 0 .. m - 1
  BY DivMod
<1>2. y = m * e + s /\ e \in Int /\ s \in 0 .. m - 1
  BY DivMod
<1> HIDE DEF d, e, r, s
<1>3. y - x \in 0 .. m - 1
  OBVIOUS
<1>4. Split(s + m - r, m, d + 1 - e, y - x) /\ d + 1 - e \in Int
  BY <1>1, <1>2 DEF Split
<1>5. (s + m - r) % m = y - x
  BY Zenon, <1>3, <1>4, ModOf
<1> QED BY <1>5 DEF r, s

\* Positions less than m apart are told apart by their indices.
LEMMA ModNear ==
  ASSUME NEW m \in Int, m > 0, NEW x \in Int, NEW y \in Int, x <= y, y < x + m, x % m = y % m
  PROVE  x = y
<1> DEFINE r == x % m
           s == y % m
<1>1. r \in Int /\ s = r
  BY DivMod
<1>2. (s + m - r) % m = y - x
  BY Zenon, ModDistance
<1> HIDE DEF r, s
<1>3. Split(m, m, 1, 0) /\ s + m - r = m /\ 0 \in 0 .. m - 1 /\ 1 \in Int
  BY <1>1 DEF Split
<1>4. m % m = 0
  BY Zenon, <1>3, ModOf
<1>5. y - x = 0
  BY Zenon, <1>2, <1>3, <1>4
<1> QED BY <1>5

-----------------------------------------------------------------------------
(* Indices                                                                 *)

\* An index and its successor are indices; they differ; no two indices have
\* the same successor.
LEMMA IncFacts ==
  /\ 0 \in Indices /\ VQ_SIZE \in Indices
  /\ \A i \in Indices : inc(i) \in Indices /\ inc(i) # i
  /\ \A i, j \in Indices : inc(i) = inc(j) => i = j
<1>1. \A i \in Indices : inc(i) = IF i = IDX_MOD - 1 THEN 0 ELSE i + 1
  BY VirtioSizes DEF inc, Indices
<1> QED
  BY <1>1, VirtioSizes DEF Indices

\* Owed counts what is between used and avail: nothing if they are equal, and
\* less than all indices if one more leaves them different.
LEMMA OwedFacts ==
  ASSUME RingTypes, NEW n \in 0 .. 1
  PROVE  /\ Owed(n) = 0 => q[n].avail = q[n].used
         /\ Owed(n) < MAX_OWED => inc(q[n].avail) # q[n].used
<1> DEFINE a == q[n].avail
           u == q[n].used
<1>1. a \in Indices /\ u \in Indices
  BY DEF RingTypes, Queue
<1>2. Owed(n) = IF a >= u THEN a - u ELSE a + IDX_MOD - u
  <2>1. IDX_MOD \in Nat \ {0} /\ a \in 0 .. IDX_MOD - 1 /\ u \in 0 .. IDX_MOD - 1
    BY <1>1, VirtioSizes DEF Indices
  <2> HIDE DEF a, u
  <2>2. CASE a >= u
    <3>1. a - u \in 0 .. IDX_MOD - 1 /\ a + IDX_MOD - u = (a - u) + IDX_MOD
      BY <2>1, <2>2
    <3>2. ((a - u) + IDX_MOD) % IDX_MOD = a - u
      BY <2>1, <3>1
    <3> QED
      BY <2>1, <2>2, <3>1, <3>2 DEF Owed, a, u
  <2>3. CASE ~(a >= u)
    <3>1. a + IDX_MOD - u \in 0 .. IDX_MOD - 1
      BY <2>1, <2>3
    <3>2. (a + IDX_MOD - u) % IDX_MOD = a + IDX_MOD - u
      BY <2>1, <3>1
    <3> QED
      BY <2>1, <2>3, <3>2 DEF Owed, a, u
  <2> QED
    BY <2>2, <2>3
<1>3. inc(a) = IF a = IDX_MOD - 1 THEN 0 ELSE a + 1
  BY <1>1, VirtioSizes DEF inc, Indices
<1> QED
  BY <1>1, <1>2, <1>3, VirtioSizes DEF Indices

\* How the drivers differ, as far as it matters: a reply is awaited only by a
\* driver that skips old completions and has no pool on queue 0.
LEMMA DriverFacts ==
  ASSUME drv \in Drivers
  PROVE  D.reply => D.resync /\ ~S.rxpool
<1>1. drv \in {"blk", "pci_blk", "gpu", "net", "pci_net", "console", "input"}
  BY VirtioSizes
<1> QED
  BY <1>1 DEF D, S, Table, Driver, Calls, Setup, NoCalls, blk_transfer, virtio_blk_init, pci_blk_transfer,
     pci_blk_init, gpu_cmd, virtio_gpu_init, virtio_net_send_frame, virtio_net_init, pci_net_send_frame,
     pci_net_init, virtio_exchange, virtio_console_init, virtio_input_init

\* Only virtio_gpu_init changes anything by the end of a command.
LEMMA GpuFacts ==
  ASSUME NEW code, gpu_setup(code)
  PROVE  step = 0 => ready' = ready /\ live' = live /\ step' = step
BY DEF gpu_setup

-----------------------------------------------------------------------------
(* The driver                                                              *)

LEMMA InitRing == Init => RingInv
<1> SUFFICES ASSUME Init PROVE RingInv
  OBVIOUS
<1>1. /\ q = [n \in 0 .. 1 |-> vq_bind] /\ vq_bind \in Queue 
      /\ vq_bind.seen = 0 /\ vq_bind.used = 0 /\ vq_bind.avail = 0
  BY IncFacts DEF Init, vq_bind, Queue
<1>2. q[0].seen = q[0].used /\ q[1].seen = q[1].used /\ q[1].avail = q[1].used
  BY <1>1
<1>3. RingTypes
  BY <1>1 DEF Init, RingTypes
<1> QED
  BY Zenon, <1>2, <1>3 DEF Init, RingInv, DeviceInv, CallInv, CleanInv, Sending

LEMMA InitStep ==
  ASSUME RingInv, NEW found, virtio_init(found)
  PROVE  RingInv'
<1> DEFINE offer == [vq_bind EXCEPT !.avail = VQ_SIZE]
<1>a. /\ vq_bind \in Queue /\ offer \in Queue /\ vq_bind.seen = vq_bind.used /\ offer.seen = offer.used
      /\ vq_bind.avail = vq_bind.used
  BY IncFacts DEF vq_bind, Queue
<1>b. q' = [n \in 0 .. 1 |-> IF S.rxpool /\ n = 0 THEN offer ELSE vq_bind]
  BY Zenon DEF virtio_init
<1> HIDE DEF offer
<1>1. q' \in [0 .. 1 -> Queue]
  BY <1>a, <1>b
<1>2. q'[0].seen = q'[0].used /\ q'[1].seen = q'[1].used /\ q'[1].avail = q'[1].used
  BY <1>a, <1>b
<1>3. RingTypes'
  BY <1>1 DEF virtio_init, RingInv, RingTypes
<1> QED
  BY Zenon, <1>2, <1>3 DEF virtio_init, RingInv, DeviceInv, CallInv, CleanInv, Sending

LEMMA PrepareStep ==
  ASSUME RingInv, Prepare
  PROVE  RingInv'
<1>1. inc(q[1].avail) # q[1].used
  BY OwedFacts DEF RingInv, Prepare
<1>2. calls' \in Nat /\ hdr' # 0
  BY DEF Prepare, RingInv, RingTypes
<1> QED
  BY Zenon, <1>1, <1>2 DEF Prepare, RingInv, RingTypes, DeviceInv, CallInv, CleanInv, inc, Sending

LEMMA SkipStep ==
  ASSUME RingInv, NEW n \in 0 .. 1, SkipUsed(n)
  PROVE  RingInv'
<1>1. q[0] \in Queue /\ q[1] \in Queue /\ drv \in Drivers
  BY DEF RingInv, RingTypes
<1>2. /\ q' \in [0 .. 1 -> Queue]
      /\ q'[1].seen = q[1].seen /\ q'[1].used = q[1].used /\ q'[1].avail = q[1].avail
      /\ q'[0].seen = q[0].seen /\ q'[0].used = q[0].used /\ q'[0].avail = q[0].avail
      /\ D.resync => q'[n].last_used = q[n].used
      /\ ~D.resync => q'[n].last_used = q[n].last_used
      /\ n = 1 => q'[0].last_used = q[0].last_used
  <2> DEFINE vq == IF D.resync THEN [q[n] EXCEPT !.last_used = q[n].used] ELSE q[n]
  <2>1. q' = [q EXCEPT ![n] = vq]
    BY Zenon DEF SkipUsed, Resync
  <2>2. /\ vq \in Queue /\ vq.seen = q[n].seen /\ vq.used = q[n].used /\ vq.avail = q[n].avail
        /\ vq.last_used = IF D.resync THEN q[n].used ELSE q[n].last_used
    BY <1>1 DEF Queue
  <2> HIDE DEF vq
  <2> QED
    BY <1>1, <2>1, <2>2 DEF RingInv, RingTypes
<1>3. /\ pc' \in Sending /\ pc \in {"prepared"} \cup Sending /\ pc' # "offered" /\ pc # "offered"
      /\ UNCHANGED <<work, hdr, drv, calls>>
  BY Zenon DEF SkipUsed, Sending
<1>4. DeviceInv' /\ CallInv'
  BY Zenon, <1>2, <1>3 DEF RingInv, DeviceInv, CallInv, inc
<1>5. ASSUME clean' PROVE Unsent'
  <2>1. D' = D /\ host' = host
    BY Zenon DEF SkipUsed, D, cvars
  <2>2. D.reply => D.resync
    BY Zenon, <1>1, DriverFacts
  <2>3. CASE pc = "prepared"
    <3>1. Owed(1) = 0 /\ (D.reply => Owed(0) = 0 /\ host = <<>>) /\ (D.resync \/ q[1].used = q[1].last_used)
      BY Zenon, <1>5, <2>3 DEF SkipUsed, OwesNothing, vq_has_used
    <3>2. q[1].avail = q[1].used /\ (D.reply => q[0].avail = q[0].used)
      BY <3>1, OwedFacts DEF RingInv
    <3>3. work = 0
      BY Zenon, <3>2 DEF RingInv, DeviceInv
    <3>4. (D.reply => n = 0 /\ pc' = "rx skipped") /\ (~D.reply => n = 1)
      BY Zenon, <2>3 DEF SkipUsed
    <3> QED
      BY Zenon, <1>2, <1>3, <2>1, <2>2, <3>1, <3>2, <3>3, <3>4 DEF Unsent, NoneLeft
  <2>4. CASE pc # "prepared"
    <3>1. n = 1 /\ D.reply /\ pc = "rx skipped" /\ clean
      BY Zenon, <1>5, <2>4 DEF SkipUsed
    <3>2. Unsent
      BY Zenon, <3>1 DEF RingInv, CleanInv, Sending
    <3> QED
      BY Zenon, <1>2, <1>3, <2>1, <2>2, <3>1, <3>2 DEF Unsent, NoneLeft
  <2> QED
    BY Zenon, <2>3, <2>4
<1> QED
  BY Zenon, <1>2, <1>3, <1>4, <1>5 DEF RingInv, RingTypes, CleanInv, Sending

LEMMA SubmitStep ==
  ASSUME RingInv, NEW n \in 0 .. 1, Submit(n)
  PROVE  RingInv'
<1>1. q[0] \in Queue /\ q[1] \in Queue /\ drv \in Drivers
  BY DEF RingInv, RingTypes
<1>2. /\ q' \in [0 .. 1 -> Queue]
      /\ q'[1].seen = q[1].seen /\ q'[1].used = q[1].used /\ q'[1].last_used = q[1].last_used
      /\ q'[0].seen = q[0].seen /\ q'[0].used = q[0].used /\ q'[0].last_used = q[0].last_used
      /\ n = 0 => q'[0].avail = inc(q[0].avail) /\ q'[1].avail = q[1].avail
      /\ n = 1 => q'[1].avail = inc(q[1].avail) /\ q'[0].avail = q[0].avail
  BY <1>1, IncFacts DEF Submit, vq_submit, Queue, RingInv, RingTypes
<1>3. /\ pc \in Sending /\ UNCHANGED <<work, hdr, drv, calls, clean>>
      /\ \/ n = 0 /\ D.reply /\ pc = "skipped" /\ pc' = "offered"
         \/ n = 1 /\ pc = (IF D.reply THEN "offered" ELSE "skipped") /\ pc' = "waiting"
  BY Zenon DEF Submit, Sending
<1>4. DeviceInv' /\ CallInv'
  <2>1. DeviceInv'
    BY Zenon, <1>2, <1>3 DEF RingInv, DeviceInv, CallInv
  <2>2. CallInv'
    BY Zenon, <1>2, <1>3 DEF RingInv, CallInv, Sending, inc
  <2> QED
    BY Zenon, <2>1, <2>2
<1>5. D' = D /\ host' = host
  BY Zenon DEF Submit, D, cvars
<1>6. ASSUME clean PROVE Unsent
  BY Zenon, <1>3, <1>6 DEF RingInv, CleanInv
<1>7. CASE n = 0
  <2>1. ASSUME clean PROVE Unsent'
    BY Zenon, <1>2, <1>3, <1>5, <1>6, <1>7, <2>1 DEF Unsent, NoneLeft, OneLeft
  <2>2. pc' = "offered"
    BY <1>3, <1>7
  <2> QED
    BY Zenon, <1>2, <1>3, <1>4, <2>1, <2>2 DEF RingInv, RingTypes, CleanInv, Sending
<1>8. CASE n = 1
  <2>1. ASSUME clean PROVE work = 0 /\ OneLeft(q'[1]) /\ Unasked'
    BY Zenon, <1>2, <1>3, <1>5, <1>6, <1>8, <2>1 DEF Unsent, Unasked, NoneLeft, OneLeft
  <2>2. pc' = "waiting"
    BY <1>3, <1>8
  <2> QED
    BY Zenon, <1>2, <1>3, <1>4, <2>1, <2>2 DEF RingInv, RingTypes, CleanInv, Sending
<1> QED
  BY <1>7, <1>8

LEMMA ReapStep ==
  ASSUME RingInv, Reap
  PROVE  RingInv'
<1>1. q[1] \in Queue
  BY DEF RingInv, RingTypes
<1>2. /\ q' \in [0 .. 1 -> Queue]
      /\ q'[0] = q[0] /\ q'[1].seen = q[1].seen /\ q'[1].used = q[1].used /\ q'[1].avail = q[1].avail
  BY <1>1, IncFacts DEF Reap, vq_consume, Queue, RingInv, RingTypes
<1>3. DeviceInv' /\ CallInv'
  BY Zenon, <1>2 DEF Reap, RingInv, DeviceInv, CallInv, Sending
<1>4. D' = D
  BY Zenon DEF Reap, D
<1>5. ASSUME clean PROVE work = 0 /\ NoneLeft(q'[1]) /\ Answered'
  <2>1. work = 0 /\ OneDone(q[1]) /\ Answered
    BY Zenon, <1>5 DEF Reap, vq_has_used, RingInv, CleanInv, OneLeft
  <2> QED
    BY Zenon, <1>2, <1>4, <2>1 DEF Reap, cvars, NoneLeft, Answered, OneDone, OneLeft
<1> QED
  BY Zenon, <1>2, <1>3, <1>4, <1>5 DEF Reap, RingInv, RingTypes, CleanInv, Answered, Sending

LEMMA ReapReplyStep ==
  ASSUME RingInv, NEW accepts, ReapReply(accepts)
  PROVE  RingInv'
<1>1. q[0] \in Queue
  BY DEF RingInv, RingTypes
<1>2. /\ q' \in [0 .. 1 -> Queue]
      /\ q'[1] = q[1] /\ q'[0].seen = q[0].seen /\ q'[0].used = q[0].used
  BY <1>1, IncFacts DEF ReapReply, vq_consume, Queue, RingInv, RingTypes
<1>3. DeviceInv' /\ CallInv'
  BY Zenon, <1>2 DEF ReapReply, RingInv, DeviceInv, CallInv, Sending
<1>4. ASSUME clean PROVE work = 0 /\ NoneLeft(q'[1]) /\ served'.req = hdr
  <2>1. work = 0 /\ NoneLeft(q[1]) /\ D.reply /\ Answered
    BY Zenon, <1>4 DEF ReapReply, RingInv, CleanInv
  <2>2. reply.req = hdr
    BY Zenon, <2>1 DEF ReapReply, vq_has_used, Answered, OneLeft
  <2> QED
    BY Zenon, <1>2, <2>1, <2>2 DEF ReapReply, Served
<1> QED
  BY Zenon, <1>2, <1>3, <1>4 DEF ReapReply, RingInv, RingTypes, CleanInv, Sending

\* Steps that end in idle, or stay outside a call, and leave queue 1 alone.
LEMMA OutsideStep ==
  ASSUME RingInv, q' \in [0 .. 1 -> Queue], q'[1] = q[1], q'[0].seen = q'[0].used,
         pc' \in {"idle", "copying", "refilling"}, UNCHANGED <<drv, work, calls, hdr>>
  PROVE  RingInv'
BY Zenon DEF RingInv, RingTypes, DeviceInv, CallInv, CleanInv, Sending

LEMMA ReturnStep ==
  ASSUME RingInv, Timeout \/ Return \/ Copy
  PROVE  RingInv'
<1>1. q' = q /\ pc' \in {"idle", "copying", "refilling"} /\ UNCHANGED <<drv, work, calls, hdr>>
  BY Zenon DEF Timeout, Return, Copy
<1>2. q' \in [0 .. 1 -> Queue] /\ q'[0].seen = q'[0].used
  BY Zenon, <1>1 DEF RingInv, RingTypes, DeviceInv
<1> QED
  BY Zenon, <1>1, <1>2, OutsideStep

LEMMA PoolStep ==
  ASSUME RingInv, Poll \/ Refill
  PROVE  RingInv'
<1>1. q[0] \in Queue
  BY DEF RingInv, RingTypes
<1>2. q' \in [0 .. 1 -> Queue] /\ q'[1] = q[1] /\ q'[0].seen = q[0].seen /\ q'[0].used = q[0].used
  BY <1>1, IncFacts DEF Poll, Refill, vq_consume, vq_submit, Queue, RingInv, RingTypes
<1>3. pc' \in {"idle", "copying", "refilling"} /\ UNCHANGED <<drv, work, calls, hdr>>
  BY Zenon DEF Poll, Refill
<1>4. q'[0].seen = q'[0].used
  BY Zenon, <1>2 DEF RingInv, DeviceInv
<1> QED
  BY Zenon, <1>2, <1>3, <1>4, OutsideStep

-----------------------------------------------------------------------------
(* The device                                                              *)

LEMMA FetchStep ==
  ASSUME RingInv, Fetch
  PROVE  RingInv'
<1>1. q[1] \in Queue
  BY DEF RingInv, RingTypes
<1>2. /\ q' \in [0 .. 1 -> Queue] /\ q'[0] = q[0] /\ q'[1].seen = inc(q[1].seen)
      /\ q'[1].used = q[1].used /\ q'[1].avail = q[1].avail /\ q'[1].last_used = q[1].last_used
  BY <1>1, IncFacts DEF Fetch, Queue, RingInv, RingTypes
<1>3. work = 0 /\ q[1].seen = q[1].used /\ q[1].used # q[1].avail /\ work' = hdr /\ hdr # 0
  BY Zenon DEF Fetch, RingInv, DeviceInv, CallInv
<1>4. DeviceInv' /\ CallInv'
  BY Zenon, <1>2, <1>3 DEF Fetch, RingInv, DeviceInv, CallInv
<1>5. D' = D
  BY Zenon DEF Fetch, D
<1>6. ASSUME clean, pc = "waiting" PROVE OneLeft(q'[1]) /\ Unasked'
  <2>1. OneLeft(q[1]) /\ Unasked
    BY Zenon, <1>3, <1>6 DEF RingInv, CleanInv, OneDone
  <2> QED
    BY Zenon, <1>2, <1>5, <2>1 DEF Fetch, cvars, OneLeft, Unasked
<1>7. clean => pc \notin {"answering", "reaped"} \cup Sending
  BY Zenon, <1>3 DEF RingInv, CleanInv, NoneLeft, Unsent
<1> QED
  BY Zenon, <1>2, <1>3, <1>4, <1>6, <1>7 DEF Fetch, RingInv, RingTypes, CleanInv

LEMMA CompleteStep ==
  ASSUME RingInv, NEW ok, Complete(ok)
  PROVE  RingInv'
<1>1. q[1] \in Queue
  BY DEF RingInv, RingTypes
<1>2. /\ q' \in [0 .. 1 -> Queue] /\ q'[0] = q[0] /\ q'[1].used = inc(q[1].used)
      /\ q'[1].seen = q[1].seen /\ q'[1].avail = q[1].avail /\ q'[1].last_used = q[1].last_used
  BY <1>1, IncFacts DEF Complete, Queue, RingInv, RingTypes
<1>3. work # 0 /\ work' = 0 /\ q[1].seen = inc(q[1].used) /\ q[1].used # q[1].avail /\ hdr # 0
  BY Zenon DEF Complete, RingInv, DeviceInv, CallInv
<1>4. q[1].avail \in Indices /\ q[1].used \in Indices
  BY <1>1 DEF Queue
<1>5. DeviceInv' /\ CallInv'
  <2>1. inc(q[1].used) # q[1].used /\ inc(q[1].avail) # inc(q[1].used)
    BY Zenon, <1>3, <1>4, IncFacts
  <2>2. DeviceInv'
    BY Zenon, <1>2, <1>3 DEF RingInv, DeviceInv
  <2>3. CallInv'
    BY Zenon, <1>2, <1>3, <2>1 DEF Complete, RingInv, CallInv
  <2> QED
    BY Zenon, <2>2, <2>3
<1>6. D' = D
  BY Zenon DEF Complete, D
<1>7. ASSUME clean, pc = "waiting" PROVE OneDone(q'[1]) /\ Answered'
  <2>1. work = hdr /\ OneLeft(q[1]) /\ Unasked
    BY Zenon, <1>3, <1>7 DEF RingInv, CleanInv
  <2>2. OneDone(q'[1])
    BY Zenon, <1>2, <2>1 DEF OneDone, OneLeft
  <2>3. CASE D.reply
    <3>1. host = <<>> /\ OneLeft(q[0]) /\ host' = Append(host, hdr)
      BY Zenon, <2>1, <2>3 DEF Unasked, Complete
    <3>2. host' = <<hdr>>
      BY <3>1
    <3> QED
      BY Zenon, <1>2, <1>6, <2>2, <2>3, <3>1, <3>2 DEF Complete, Answered, OneLeft
  <2>4. CASE ~D.reply
    <3>1. served' = Served(hdr, ok) /\ hdr' = hdr
      BY Zenon, <2>1, <2>4 DEF Complete
    <3>2. served'.req = hdr
      BY Zenon, <3>1 DEF Served
    <3> QED
      BY Zenon, <1>6, <2>2, <2>4, <3>1, <3>2 DEF Answered
  <2> QED
    BY Zenon, <2>3, <2>4
<1>8. clean => pc \notin {"answering", "reaped"} \cup Sending
  BY Zenon, <1>3 DEF RingInv, CleanInv, Unsent
<1> QED
  BY Zenon, <1>2, <1>3, <1>5, <1>7, <1>8 DEF Complete, RingInv, RingTypes, CleanInv

LEMMA HostStep ==
  ASSUME RingInv, NEW form, HostAnswers(form)
  PROVE  RingInv'
<1>1. q[0] \in Queue
  BY DEF RingInv, RingTypes
<1>2. /\ q' \in [0 .. 1 -> Queue] /\ q'[1] = q[1]
      /\ q'[0].used = inc(q[0].used) /\ q'[0].seen = inc(q[0].seen)
      /\ q'[0].avail = q[0].avail /\ q'[0].last_used = q[0].last_used
  BY <1>1, IncFacts DEF HostAnswers, Queue, RingInv, RingTypes
<1>3. DeviceInv' /\ CallInv'
  BY Zenon, <1>2 DEF HostAnswers, RingInv, DeviceInv, CallInv
<1>4. D' = D /\ host # <<>> /\ q[0].used # q[0].avail
  BY Zenon DEF HostAnswers, D, RingInv, DeviceInv
<1>5. Unasked => ~D.reply /\ Unasked'
  BY Zenon, <1>4 DEF Unasked
<1>6. ASSUME Answered PROVE Answered'
  <2>1. CASE D.reply
    <3>1. host = <<hdr>> /\ OneLeft(q[0])
      BY Zenon, <1>4, <1>6, <2>1 DEF Answered
    <3>2. reply'.req = hdr /\ host' = <<>>
      BY <3>1 DEF HostAnswers
    <3>3. OneDone(q'[0])
      BY Zenon, <1>2, <3>1 DEF OneDone, OneLeft
    <3> QED
      BY Zenon, <1>4, <2>1, <3>2, <3>3 DEF HostAnswers, Answered, OneDone
  <2>2. CASE ~D.reply
    BY Zenon, <1>4, <1>6, <2>2 DEF HostAnswers, Answered
  <2> QED
    BY Zenon, <2>1, <2>2
<1>7. CleanInv'
  <2>1. ASSUME Unsent PROVE Unsent'
    BY Zenon, <1>2, <1>4, <2>1 DEF HostAnswers, Unsent, NoneLeft
  <2> QED
    BY Zenon, <1>2, <1>4, <1>5, <1>6, <2>1 DEF HostAnswers, RingInv, CleanInv, OneLeft, OneDone, NoneLeft
<1> QED
  BY Zenon, <1>2, <1>3, <1>7 DEF HostAnswers, RingInv, RingTypes

LEMMA FillStep ==
  ASSUME RingInv, NEW whole, Fill(whole)
  PROVE  RingInv'
<1>1. q[0] \in Queue /\ drv \in Drivers
  BY DEF RingInv, RingTypes
<1>2. q' \in [0 .. 1 -> Queue] /\ q'[1] = q[1] /\ q'[0].used = inc(q[0].used) /\ q'[0].seen = inc(q[0].seen)
  BY <1>1, IncFacts DEF Fill, Queue, RingInv, RingTypes
<1>3. DeviceInv' /\ CallInv'
  BY Zenon, <1>2 DEF Fill, RingInv, DeviceInv, CallInv
<1>4. D' = D /\ ~D.reply
  BY Zenon, <1>1, DriverFacts DEF Fill, D
<1>5. (Unasked => Unasked') /\ (Answered => Answered') /\ (Unsent => Unsent')
  BY Zenon, <1>2, <1>4 DEF Unasked, Answered, Unsent, NoneLeft, Fill
<1>6. CleanInv'
  BY Zenon, <1>2, <1>4, <1>5 DEF Fill, RingInv, CleanInv, OneLeft, OneDone, NoneLeft
<1> QED
  BY Zenon, <1>2, <1>3, <1>6 DEF Fill, RingInv, RingTypes

-----------------------------------------------------------------------------
LEMMA RingInductive == Spec => []RingInv
<1>1. RingInv /\ [Next]_vars => RingInv'
  <2> SUFFICES ASSUME RingInv, [Next]_vars PROVE RingInv'
    OBVIOUS
  <2>1. CASE UNCHANGED vars
    <3>1. D' = D
      BY Zenon, <2>1 DEF vars, D
    <3> QED
      BY ZenonT(60), <2>1, <3>1 DEF vars, cvars, RingInv, RingTypes, DeviceInv, CallInv, CleanInv, Unasked, Answered,
         Unsent, OneLeft, OneDone, NoneLeft
  <2>2. CASE Next
    BY Zenon, <2>2, InitStep, PrepareStep, SkipStep, SubmitStep, ReapStep, ReapReplyStep, ReturnStep, PoolStep,
       FetchStep, CompleteStep, HostStep, FillStep DEF Next, CallStep
  <2> QED
    BY Zenon, <2>1, <2>2
<1> QED
  BY <1>1, InitRing, PTL DEF Spec

\* blk_transfer, gpu_cmd, the send_frame and exchange functions: a call that
\* does not time out returns the answer to its own request if the device owed
\* nothing when the call read the used index, whatever timed out before, however
\* the indices wrap and whatever the device does meanwhile.
THEOREM CallGetsOwnAnswer == Spec => []OwnAnswer
<1>1. RingInv => OwnAnswer
  BY Zenon DEF RingInv, CleanInv, OwnAnswer
<1> QED
  BY <1>1, RingInductive, PTL

-----------------------------------------------------------------------------
(* The pool: positions are counted from 0 and never wrap, their indices do.  *)
(* l buffers were polled, filled ones filled, End ones offered.             *)

Held == pc \in {"copying", "refilling"}
End == VQ_SIZE + Len(got) - (IF pc = "refilling" THEN 1 ELSE 0)
At(r, k) == r[k % VQ_SIZE]

PoolTypes ==
    /\ ring \in [Slots -> Slots] /\ uring \in [Slots -> Slots] /\ slot \in Slots
    /\ pool \in [Slots -> Nat] /\ filled \in Nat /\ runts \subseteq 1 .. filled
    /\ got \in Seq(Nat)
    /\ step # 0 => drv = "gpu"

\* Before the device is found, and in drivers without a pool, nothing happens.
PoolOff ==
    ~(ready /\ S.rxpool) =>
        /\ filled = 0 /\ got = <<>> /\ runts = {} /\ ring = [s \in Slots |-> s]
        /\ ~Held /\ ~(live /\ S.rxpool)

Positions(l) ==
    /\ l <= filled /\ filled <= End /\ End - l <= (IF Held THEN VQ_SIZE - 1 ELSE VQ_SIZE)
    /\ q[0].used = filled % IDX_MOD /\ q[0].last_used = l % IDX_MOD /\ q[0].avail = End % IDX_MOD

\* No buffer is in two places.
OnRings(r, u, off, wait) ==
    /\ \A j, k \in off : At(r, j) = At(r, k) => j = k
    /\ \A j, k \in wait : At(u, j) = At(u, k) => j = k
    /\ \A j \in off, k \in wait : At(r, j) # At(u, k)
OffRings(r, u, off, wait, s) == (\A j \in off : At(r, j) # s) /\ \A k \in wait : At(u, k) # s
Apart(l) ==
    /\ OnRings(ring, uring, filled .. End - 1, l .. filled - 1)
    /\ Held => OffRings(ring, uring, filled .. End - 1, l .. filled - 1, slot)

\* Every buffer is somewhere, or was dropped with a runt.
Placed(l, s) ==
    \/ \E j \in filled .. End - 1 : s = At(ring, j)
    \/ \E k \in l .. filled - 1 : s = At(uring, k)
    \/ Held /\ s = slot
    \/ pool[s] \in runts

\* A buffer filled at position k holds frame k + 1.
Frames(l) ==
    /\ \A k \in l .. filled - 1 : pool[At(uring, k)] = k + 1
    /\ pc = "copying" => pool[slot] = l /\ l \notin runts /\ l # 0

\* What was handed on are the frames polled, without the runts and the one
\* being copied.
Handed(l) ==
    /\ \A i \in 1 .. Len(got) : got[i] \in (1 .. l) \ runts /\ (pc = "copying" => got[i] # l)
    /\ \A i, j \in 1 .. Len(got) : i < j => got[i] < got[j]
    /\ \A f \in (1 .. l) \ runts : (pc = "copying" /\ f = l) \/ \E j \in 1 .. Len(got) : got[j] = f

PoolOn(l) == Positions(l) /\ Apart(l) /\ (\A s \in Slots : Placed(l, s)) /\ Frames(l) /\ Handed(l)

PoolInv ==
    /\ PoolTypes /\ PoolOff
    /\ ready /\ S.rxpool => \E l \in 0 .. filled : PoolOn(l)

-----------------------------------------------------------------------------
\* The index of a position finds its slot, and the next index is that of the
\* next position; positions of one ring's length apart differ in their slots,
\* and in their indices anyway.
LEMMA PositionFacts ==
  /\ VQ_SIZE \in Nat \ {0} /\ IDX_MOD \in Nat /\ VQ_SIZE < IDX_MOD
  /\ \A k \in Nat : k % VQ_SIZE \in Slots /\ k % IDX_MOD \in Indices
  /\ \A k \in Nat : (k % IDX_MOD) % VQ_SIZE = k % VQ_SIZE /\ inc(k % IDX_MOD) = (k + 1) % IDX_MOD
  /\ \A j, k \in Nat : j <= k /\ k < j + VQ_SIZE /\ j % VQ_SIZE = k % VQ_SIZE => j = k
  /\ \A j, k \in Nat : j <= k /\ k <= j + VQ_SIZE /\ j % IDX_MOD = k % IDX_MOD => j = k
<1>1. VQ_SIZE \in Int /\ VQ_SIZE > 0 /\ IDX_MOD \in Int /\ IDX_MOD > 0 /\ VQ_SIZE < IDX_MOD /\ IDX_MOD % VQ_SIZE = 0
  BY VirtioSizes
<1>2. ASSUME NEW k \in Nat
      PROVE  /\ k % VQ_SIZE \in Slots /\ k % IDX_MOD \in Indices
             /\ (k % IDX_MOD) % VQ_SIZE = k % VQ_SIZE /\ inc(k % IDX_MOD) = (k + 1) % IDX_MOD
  <2>1. k \in Int
    OBVIOUS
  <2>2. k % VQ_SIZE \in 0 .. VQ_SIZE - 1 /\ k % IDX_MOD \in 0 .. IDX_MOD - 1
    BY <1>1, <2>1, DivMod
  <2>3. (k % IDX_MOD) % VQ_SIZE = k % VQ_SIZE
    BY Zenon, <1>1, <2>1, ModMod
  <2>4. ((k % IDX_MOD) + 1) % IDX_MOD = (k + 1) % IDX_MOD
    <3>1. 1 \in Int
      OBVIOUS
    <3> QED
      BY ZenonT(60), <1>1, <2>1, <3>1, ModSum
  <2> QED
    BY <2>2, <2>3, <2>4 DEF Slots, Indices, inc
<1>3. ASSUME NEW j \in Nat, NEW k \in Nat, j <= k, NEW m \in Int, m > 0, k < j + m, j % m = k % m
      PROVE  j = k
  <2>1. j \in Int /\ k \in Int
    OBVIOUS
  <2> QED
    BY Zenon, <1>3, <2>1, ModNear
<1>4. ASSUME NEW j \in Nat, NEW k \in Nat, j <= k, k <= j + VQ_SIZE PROVE k < j + IDX_MOD
  BY <1>1, <1>4
<1> QED
  BY ZenonT(60), <1>1, <1>2, <1>3, <1>4, VirtioSizes

\* Drivers with a pool await no reply and are not the graphics driver.
LEMMA PoolDriver ==
  ASSUME drv \in Drivers, S.rxpool
  PROVE  ~D.reply /\ drv # "gpu"
<1>1. ~D.reply
  BY ZenonT(60), DriverFacts
<1>2. drv # "gpu"
  BY DEF S, Table, Driver, Setup, virtio_gpu_init
<1> QED
  BY Zenon, <1>1, <1>2

\* Steps of calls leave the pool as it is.
LEMMA PoolKept ==
  ASSUME PoolInv, UNCHANGED <<drv, pvars>>, S.rxpool => q'[0] = q[0] /\ ready' = ready /\ live' = live,
         step' # 0 => drv = "gpu", pc' = pc \/ (~Held /\ ~Held')
  PROVE  PoolInv'
<1>1. /\ S' = S /\ (Held' <=> Held)
      /\ (pc' = "copying" <=> pc = "copying") /\ (pc' = "refilling" <=> pc = "refilling")
  BY Zenon DEF S, Held
<1>2. End' = End
  BY Zenon, <1>1 DEF End, pvars
<1>3. \A k : At(ring', k) = At(ring, k) /\ At(uring', k) = At(uring, k)
  BY Zenon DEF pvars, At
<1>4. PoolTypes'
  BY Zenon, <1>1 DEF PoolInv, PoolTypes, pvars
<1>6. PoolOff'
  <2>1. CASE S.rxpool
    BY Zenon, <1>1, <2>1 DEF PoolInv, PoolOff, pvars
  <2>2. CASE ~S.rxpool
    BY Zenon, <1>1, <2>2 DEF PoolInv, PoolOff, pvars
  <2> QED
    BY Zenon, <2>1, <2>2
<1>5. ASSUME NEW l, PoolOn(l), S.rxpool PROVE PoolOn(l)'
  <2>1. Positions(l)'
    BY Zenon, <1>1, <1>2, <1>5 DEF PoolOn, Positions, pvars
  <2>2. Apart(l)'
    BY Zenon, <1>1, <1>2, <1>5 DEF PoolOn, Apart, pvars
  <2>3. \A s \in Slots : Placed(l, s)'
    BY Zenon, <1>1, <1>2, <1>3, <1>5 DEF PoolOn, Placed, pvars
  <2>4. Frames(l)' /\ Handed(l)'
    BY Zenon, <1>1, <1>3, <1>5 DEF PoolOn, Frames, Handed, pvars
  <2> QED
    BY Zenon, <2>1, <2>2, <2>3, <2>4 DEF PoolOn
<1> QED
  <2>1. ASSUME ready', S'.rxpool PROVE \E l \in 0 .. filled' : PoolOn(l)'
    <3>1. ready /\ S.rxpool /\ filled' = filled
      BY Zenon, <1>1, <2>1 DEF pvars
    <3> QED
      BY Zenon, <1>5, <3>1 DEF PoolInv
  <2> QED
    BY Zenon, <1>4, <1>6, <2>1 DEF PoolInv

LEMMA InitPool == Init => PoolInv
<1> SUFFICES ASSUME Init PROVE PoolInv
  OBVIOUS
<1>1. 0 \in Slots /\ 0 \in Nat
  BY VirtioSizes DEF Slots
<1>2. PoolTypes
  BY <1>1 DEF Init, PoolTypes
<1>3. PoolOff
  BY Zenon DEF Init, PoolOff, Held
<1> QED
  BY Zenon, <1>2, <1>3 DEF Init, PoolInv

\* The pool is offered whole.
LEMMA InitPoolStep ==
  ASSUME RingInv, PoolInv, NEW found, virtio_init(found)
  PROVE  PoolInv'
<1>1. drv \in Drivers /\ S' = S /\ drv' = drv /\ ~ready /\ pc = "idle" /\ pc' = pc
  BY Zenon DEF RingInv, RingTypes, virtio_init, S
<1>2. UNCHANGED pvars /\ ~Held /\ ~Held'
  BY Zenon, <1>1 DEF virtio_init, Held
<1>3. step' # 0 => drv = "gpu"
  BY Zenon DEF virtio_init
<1>4. PoolTypes'
  BY Zenon, <1>1, <1>2, <1>3 DEF PoolInv, PoolTypes, pvars
<1>5. filled = 0 /\ got = <<>> /\ runts = {} /\ ring = [s \in Slots |-> s]
  BY Zenon, <1>1 DEF PoolInv, PoolOff
<1>6. S.rxpool /\ live' => ready'
  BY Zenon, <1>1, PoolDriver DEF virtio_init
<1>7. PoolOff'
  BY Zenon, <1>1, <1>2, <1>5, <1>6 DEF PoolOff, pvars
<1>8. ASSUME S.rxpool PROVE PoolOn(0)'
  <2> DEFINE offer == [vq_bind EXCEPT !.avail = VQ_SIZE]
  <2>0. q' = [n \in 0 .. 1 |-> IF S.rxpool /\ n = 0 THEN offer ELSE vq_bind]
    BY Zenon DEF virtio_init
  <2> HIDE DEF offer
  <2>1. q'[0] = offer
    BY <1>8, <2>0
  <2>2. q'[0].used = 0 /\ q'[0].last_used = 0 /\ q'[0].avail = VQ_SIZE
    BY <2>1 DEF vq_bind, offer
  <2>3. filled' = 0 /\ End' = VQ_SIZE /\ VQ_SIZE \in Nat /\ got' = <<>> /\ runts' = {} /\ ring' = [s \in Slots |-> s]
    BY <1>1, <1>2, <1>5, VirtioSizes DEF End, pvars
  <2>4. 0 % IDX_MOD = 0 /\ VQ_SIZE % IDX_MOD = VQ_SIZE /\ \A k \in Slots : k % VQ_SIZE = k
    BY VirtioSizes DEF Slots
  <2>5. Positions(0)'
    BY <1>2, <2>2, <2>3, <2>4 DEF Positions
  <2>6. 0 .. filled' - 1 = {} /\ filled' .. End' - 1 = Slots
    BY <2>3 DEF Slots
  <2>7. \A k \in Slots : At(ring', k) = k
    BY Zenon, <2>3, <2>4 DEF At
  <2>8. Apart(0)'
    BY Zenon, <1>2, <2>6, <2>7 DEF Apart, OnRings, OffRings
  <2>9. \A s \in Slots : Placed(0, s)'
    BY Zenon, <2>6, <2>7 DEF Placed
  <2>10. Frames(0)'
    BY Zenon, <1>1, <2>6 DEF Frames
  <2>11. Handed(0)'
    BY <1>1, <2>3 DEF Handed
  <2> QED
    BY Zenon, <2>5, <2>8, <2>9, <2>10, <2>11 DEF PoolOn
<1>9. 0 \in 0 .. filled'
  BY <1>2, <1>5 DEF pvars
<1> QED
  BY Zenon, <1>1, <1>4, <1>7, <1>8, <1>9 DEF PoolInv

\* The types and numbers the steps below reason with.
PoolNumbers(l) ==
    /\ l \in Nat /\ filled \in Nat /\ End \in Nat /\ Len(got) \in Nat
    /\ VQ_SIZE \in Nat \ {0}
    /\ l <= filled /\ filled <= End /\ End <= l + VQ_SIZE

LEMMA PoolNumbersHold ==
  ASSUME PoolTypes, NEW l \in 0 .. filled, Positions(l)
  PROVE  PoolNumbers(l)
<1>1. Len(got) \in Nat
  BY DEF PoolTypes
<1>2. l \in Nat /\ filled \in Nat /\ VQ_SIZE \in Nat \ {0}
  BY VirtioSizes DEF PoolTypes
<1>3. End \in Nat
  BY <1>1, <1>2 DEF End
<1> QED
  BY <1>1, <1>2, <1>3 DEF Positions, PoolNumbers

\* The next buffer offered is filled with the next frame.
LEMMA FillPool ==
  ASSUME RingInv, PoolInv, NEW whole, Fill(whole)
  PROVE  PoolInv'
<1>1. S.rxpool /\ S' = S /\ ready' = ready /\ live /\ live' = live /\ drv' = drv /\ pc' = pc /\ step' = step
  BY Zenon DEF Fill, S
<1>2. ready
  BY Zenon, <1>1 DEF PoolInv, PoolOff
<1>3. PICK l \in 0 .. filled : PoolOn(l)
  BY Zenon, <1>1, <1>2 DEF PoolInv
<1>4. PoolNumbers(l) /\ PoolTypes
  BY Zenon, <1>3, PoolNumbersHold DEF PoolInv, PoolOn
<1> DEFINE s == At(ring, filled)
<1>5. q[0].seen = filled % IDX_MOD /\ q[0].used = filled % IDX_MOD /\ q[0].avail = End % IDX_MOD
  BY Zenon, <1>3 DEF RingInv, DeviceInv, PoolOn, Positions
<1>6. filled # End
  BY Zenon, <1>5 DEF Fill
<1>7. filled \in filled .. End - 1 /\ filled + 1 \in Nat /\ filled + 1 <= End /\ filled < l + VQ_SIZE
  BY <1>4, <1>6 DEF PoolNumbers
<1>8. (filled % IDX_MOD) % VQ_SIZE = filled % VQ_SIZE /\ filled % VQ_SIZE \in Slots
  BY Zenon, <1>4, PositionFacts DEF PoolNumbers
<1>9. /\ filled' = filled + 1 /\ pool' = [pool EXCEPT ![s] = filled + 1]
      /\ uring' = [uring EXCEPT ![filled % VQ_SIZE] = s]
      /\ ring' = ring /\ got' = got /\ slot' = slot
      /\ runts' \in {runts, runts \cup {filled + 1}}
  BY Zenon, <1>5, <1>8 DEF Fill, At
<1>10. s \in Slots
  BY Zenon, <1>4, <1>8 DEF PoolTypes, At
<1> HIDE DEF s
<1>11. PoolTypes'
  <2>1. runts' \subseteq 1 .. filled'
    BY <1>4, <1>9 DEF PoolTypes, PoolNumbers
  <2>2. uring' \in [Slots -> Slots] /\ pool' \in [Slots -> Nat]
    BY <1>4, <1>7, <1>8, <1>9, <1>10 DEF PoolTypes
  <2> QED
    BY Zenon, <1>1, <1>4, <1>7, <1>9, <2>1, <2>2 DEF PoolTypes
<1>12. End' = End /\ Held' = Held
  BY Zenon, <1>1, <1>9 DEF End, Held
<1>13. \A k : At(ring', k) = At(ring, k)
  BY Zenon, <1>9 DEF At
<1>14. \A k \in l .. filled - 1 : At(uring', k) = At(uring, k)
  <2> SUFFICES ASSUME NEW k \in l .. filled - 1 PROVE At(uring', k) = At(uring, k)
    OBVIOUS
  <2>1. k \in Nat /\ k <= filled /\ filled < k + VQ_SIZE /\ k # filled
    BY <1>4, <1>7 DEF PoolNumbers
  <2>2. k % VQ_SIZE # filled % VQ_SIZE /\ k % VQ_SIZE \in Slots
    BY Zenon, <1>4, <2>1, PositionFacts DEF PoolNumbers
  <2> QED
    BY Zenon, <1>4, <1>9, <2>2 DEF At, PoolTypes
<1>15. At(uring', filled) = s
  BY Zenon, <1>4, <1>8, <1>9 DEF At, PoolTypes
<1>16. \A k \in l .. filled' - 1 : k \in l .. filled - 1 \/ k = filled
  BY <1>4, <1>9 DEF PoolNumbers
<1>17. \A k \in filled' .. End' - 1 : k \in filled .. End - 1 /\ k # filled
  BY <1>4, <1>9, <1>12 DEF PoolNumbers
<1>18. Positions(l)'
  <2>1. q[0] \in Queue /\ q'[0] = [q[0] EXCEPT !.seen = inc(@), !.used = inc(@)]
    BY DEF RingInv, RingTypes, Fill
  <2>2. q'[0].used = inc(q[0].used) /\ q'[0].last_used = q[0].last_used /\ q'[0].avail = q[0].avail
    BY <2>1 DEF Queue
  <2>3. q'[0].used = (filled + 1) % IDX_MOD
    BY Zenon, <1>4, <1>5, <2>2, PositionFacts DEF PoolNumbers
  <2>4. l <= filled + 1
    BY <1>4 DEF PoolNumbers
  <2> QED
    BY ZenonT(60), <1>3, <1>7, <1>9, <1>12, <2>2, <2>3, <2>4 DEF PoolOn, Positions
<1>19. \A k \in l .. filled - 1 : At(uring, k) # s
  BY Zenon, <1>3, <1>7 DEF PoolOn, Apart, OnRings, OffRings, s
<1>20. Apart(l)'
  <2>1. \A j, k \in filled' .. End' - 1 : At(ring', j) = At(ring', k) => j = k
    BY Zenon, <1>3, <1>13, <1>17 DEF PoolOn, Apart, OnRings, OffRings
  <2>2. \A j, k \in l .. filled' - 1 : At(uring', j) = At(uring', k) => j = k
    <3>1. \A j, k \in l .. filled - 1 : At(uring, j) = At(uring, k) => j = k
      BY Zenon, <1>3 DEF PoolOn, Apart, OnRings, OffRings
    <3> QED
      BY Zenon, <1>14, <1>15, <1>16, <1>19, <3>1
  <2>3. \A j \in filled' .. End' - 1 : At(ring, j) # s
    BY Zenon, <1>3, <1>7, <1>17 DEF PoolOn, Apart, OnRings, OffRings, s
  <2>4. \A j \in filled' .. End' - 1, k \in l .. filled' - 1 : At(ring', j) # At(uring', k)
    <3>1. \A j \in filled .. End - 1, k \in l .. filled - 1 : At(ring, j) # At(uring, k)
      BY Zenon, <1>3 DEF PoolOn, Apart, OnRings, OffRings
    <3>2. ASSUME NEW j \in filled' .. End' - 1, NEW k \in l .. filled' - 1 PROVE At(ring', j) # At(uring', k)
      <4>1. CASE k = filled
        BY Zenon, <1>13, <1>15, <2>3, <4>1
      <4>2. CASE k # filled
        BY Zenon, <1>13, <1>14, <1>16, <1>17, <3>1, <4>2
      <4> QED
        BY Zenon, <4>1, <4>2
    <3> QED
      BY Zenon, <3>2
  <2>5. Held => s # slot
    BY Zenon, <1>3, <1>7 DEF PoolOn, Apart, OnRings, OffRings, s
  <2>6. Held' => /\ \A j \in filled' .. End' - 1 : At(ring', j) # slot'
                 /\ \A k \in l .. filled' - 1 : At(uring', k) # slot'
    BY ZenonT(60), <1>3, <1>9, <1>12, <1>13, <1>14, <1>15, <1>16, <1>17, <2>5 DEF PoolOn, Apart, OnRings, OffRings
  <2> QED
    BY Zenon, <2>1, <2>2, <2>4, <2>6 DEF Apart, OnRings, OffRings
<1>21. \A k \in l .. filled - 1 : k \in l .. filled' - 1
  BY <1>4, <1>9 DEF PoolNumbers
<1>22. filled \in l .. filled' - 1 /\ \A k \in filled .. End - 1 : k = filled \/ k \in filled' .. End' - 1
  BY <1>4, <1>9, <1>12 DEF PoolNumbers
<1>23. ASSUME NEW t \in Slots PROVE Placed(l, t)'
  <2>1. CASE t = s
    BY Zenon, <1>15, <1>22, <2>1 DEF Placed
  <2>2. CASE t # s
    <3>1. pool'[t] = pool[t] /\ (pool[t] \in runts => pool[t] \in runts')
      BY Zenon, <1>4, <1>9, <1>10, <2>2 DEF PoolTypes
    <3>2. Placed(l, t)
      BY Zenon, <1>3 DEF PoolOn
    <3> QED
      BY Zenon, <1>9, <1>12, <1>13, <1>14, <1>21, <1>22, <2>2, <3>1, <3>2 DEF Placed, s
  <2> QED
    BY Zenon, <2>1, <2>2
<1>24. \A k \in 0 .. filled : k \in runts' => k \in runts
  BY <1>4, <1>9 DEF PoolNumbers
<1>25. Frames(l)'
  <2>1. \A k \in l .. filled - 1 : At(uring, k) \in Slots
    <3> SUFFICES ASSUME NEW k \in l .. filled - 1 PROVE At(uring, k) \in Slots
      OBVIOUS
    <3>1. k \in Nat
      BY <1>4 DEF PoolNumbers
    <3> QED
      BY Zenon, <1>4, <3>1, PositionFacts DEF At, PoolTypes
  <2>2. \A k \in l .. filled' - 1 : pool'[At(uring', k)] = k + 1
    BY ZenonT(60), <1>3, <1>4, <1>9, <1>10, <1>14, <1>15, <1>16, <1>19, <2>1 DEF PoolOn, Frames, PoolTypes
  <2>3. pc = "copying" => slot # s
    BY Zenon, <1>3, <1>7 DEF PoolOn, Apart, OnRings, OffRings, Held, s
  <2>4. pc' = "copying" => pool'[slot'] = l /\ l \notin runts' /\ l # 0
    BY Zenon, <1>1, <1>3, <1>4, <1>9, <1>10, <1>24, <2>3 DEF PoolOn, Frames, PoolTypes
  <2> QED
    BY Zenon, <2>2, <2>4 DEF Frames
<1>26. Handed(l)'
  <2>1. \A f \in 1 .. l : f \in runts' <=> f \in runts
    BY <1>4, <1>9 DEF PoolNumbers
  <2> QED
    BY Zenon, <1>1, <1>3, <1>9, <2>1 DEF PoolOn, Handed
<1>27. l \in 0 .. filled'
  BY <1>4, <1>9 DEF PoolNumbers
<1>28. PoolOff'
  BY Zenon, <1>1, <1>2 DEF PoolOff
<1> QED
  BY Zenon, <1>11, <1>18, <1>20, <1>23, <1>25, <1>26, <1>27, <1>28 DEF PoolInv, PoolOn

\* The next buffer filled is taken, or dropped when its frame is a runt.
LEMMA PollPool ==
  ASSUME RingInv, PoolInv, Poll
  PROVE  PoolInv'
<1>1. /\ S.rxpool /\ S' = S /\ ready /\ ready' = ready /\ live' = live /\ drv' = drv /\ step' = step
      /\ pc = "idle" /\ pc' \in {"idle", "copying"}
  BY Zenon DEF Poll, PollDue, S
<1>2. /\ ring' = ring /\ uring' = uring /\ pool' = pool /\ filled' = filled /\ got' = got /\ runts' = runts
      /\ pc' = "copying" <=> pool[slot'] \notin runts
  BY Zenon, <1>1 DEF Poll
<1>3. PICK l \in 0 .. filled : PoolOn(l)
  BY Zenon, <1>1 DEF PoolInv
<1>4. PoolNumbers(l) /\ PoolTypes
  BY Zenon, <1>3, PoolNumbersHold DEF PoolInv, PoolOn
<1>5. q[0].used = filled % IDX_MOD /\ q[0].last_used = l % IDX_MOD /\ q[0].avail = End % IDX_MOD
  BY Zenon, <1>3 DEF PoolOn, Positions
<1>6. l # filled
  BY Zenon, <1>5 DEF Poll, PollDue, vq_has_used
<1> DEFINE n == l + 1
<1>7. l \in l .. filled - 1 /\ n \in 0 .. filled /\ n # 0 /\ End - n <= VQ_SIZE - 1 /\ End - n <= VQ_SIZE /\ n <= filled
  BY <1>4, <1>6 DEF PoolNumbers
<1>8. slot' = At(uring, l)
  BY Zenon, <1>4, <1>5, PositionFacts DEF Poll, At, PoolNumbers
<1>9. slot' \in Slots
  BY Zenon, <1>4, <1>8, PositionFacts DEF At, PoolNumbers, PoolTypes
<1>10. pool[slot'] = n
  BY Zenon, <1>3, <1>7, <1>8 DEF PoolOn, Frames
<1>11. PoolTypes'
  BY Zenon, <1>1, <1>2, <1>4, <1>9 DEF PoolTypes
<1>12. End' = End /\ ~Held /\ (Held' <=> pc' = "copying")
  BY Zenon, <1>1, <1>2 DEF End, Held
<1>13. \A k \in n .. filled - 1 : k \in l .. filled - 1 /\ k # l
  BY <1>4 DEF PoolNumbers
<1>14. Positions(n)'
  <2>1. q[0] \in Queue /\ q'[0] = [q[0] EXCEPT !.last_used = inc(@)]
    BY DEF RingInv, RingTypes, Poll, vq_consume
  <2>2. q'[0].used = q[0].used /\ q'[0].last_used = inc(q[0].last_used) /\ q'[0].avail = q[0].avail
    BY <2>1 DEF Queue
  <2>3. q'[0].last_used = n % IDX_MOD
    BY Zenon, <1>4, <1>5, <2>2, PositionFacts DEF PoolNumbers
  <2>4. filled <= End
    BY Zenon, <1>4 DEF PoolNumbers
  <2> HIDE DEF n
  <2> QED
    BY ZenonT(60), <1>2, <1>5, <1>7, <1>12, <2>2, <2>3, <2>4 DEF Positions
<1> HIDE DEF n
<1>15. Apart(n)'
  <2>1. /\ \A j, k \in filled .. End - 1 : At(ring, j) = At(ring, k) => j = k
        /\ \A j, k \in l .. filled - 1 : At(uring, j) = At(uring, k) => j = k
        /\ \A j \in filled .. End - 1, k \in l .. filled - 1 : At(ring, j) # At(uring, k)
    BY Zenon, <1>3 DEF PoolOn, Apart, OnRings, OffRings
  <2>2. /\ \A j \in filled .. End - 1 : At(ring, j) # slot'
        /\ \A k \in n .. filled - 1 : At(uring, k) # slot'
    BY Zenon, <1>7, <1>8, <1>13, <2>1
  <2>3. /\ \A j, k \in n .. filled - 1 : At(uring, j) = At(uring, k) => j = k
        /\ \A j \in filled .. End - 1, k \in n .. filled - 1 : At(ring, j) # At(uring, k)
    BY Zenon, <1>13, <2>1
  <2>4. /\ OnRings(ring, uring, filled .. End - 1, n .. filled - 1)
        /\ OffRings(ring, uring, filled .. End - 1, n .. filled - 1, slot')
    BY Zenon, <2>1, <2>2, <2>3 DEF OnRings, OffRings
  <2> QED
    BY Zenon, <1>2, <1>12, <2>4 DEF Apart
<1>16. \A k \in l .. filled - 1 : k = l \/ k \in n .. filled - 1
  BY <1>4 DEF PoolNumbers, n
<1>17. ASSUME NEW t \in Slots PROVE Placed(n, t)'
  <2>1. Placed(l, t)
    BY Zenon, <1>3 DEF PoolOn
  <2>2. CASE t = slot'
    BY Zenon, <1>2, <1>12, <2>2 DEF Placed
  <2>3. CASE t # slot'
    BY Zenon, <1>2, <1>8, <1>12, <1>16, <2>1, <2>3 DEF Placed
  <2> QED
    BY Zenon, <2>2, <2>3
<1>18. Frames(n)'
  BY Zenon, <1>2, <1>3, <1>7, <1>10, <1>13 DEF PoolOn, Frames
<1>19. Handed(n)'
  <2>1. \A f \in 1 .. n : f \in 1 .. l \/ f = n
    BY <1>4 DEF PoolNumbers, n
  <2>2. \A f \in 1 .. l : f \in 1 .. n /\ f # n
    BY <1>4 DEF PoolNumbers, n
  <2>3. pc # "copying"
    BY Zenon, <1>1
  <2> QED
    BY Zenon, <1>2, <1>3, <1>10, <2>1, <2>2, <2>3 DEF PoolOn, Handed
<1>20. PoolOff'
  BY Zenon, <1>1 DEF PoolOff
<1> QED
  BY Zenon, <1>2, <1>7, <1>11, <1>14, <1>15, <1>17, <1>18, <1>19, <1>20 DEF PoolInv, PoolOn

\* The frame is handed on.
LEMMA CopyPool ==
  ASSUME PoolInv, Copy
  PROVE  PoolInv'
<1>1. /\ S' = S /\ ready' = ready /\ live' = live /\ drv' = drv /\ step' = step /\ q' = q
      /\ pc = "copying" /\ pc' = "refilling"
  BY Zenon DEF Copy, S
<1>2. /\ ring' = ring /\ uring' = uring /\ pool' = pool /\ filled' = filled /\ runts' = runts /\ slot' = slot
      /\ got' = Append(got, pool[slot])
  BY Zenon DEF Copy, Copied
<1>3. ready /\ S.rxpool
  BY Zenon, <1>1 DEF PoolInv, PoolOff, Held
<1>4. PICK l \in 0 .. filled : PoolOn(l)
  BY Zenon, <1>3 DEF PoolInv
<1>5. PoolNumbers(l) /\ PoolTypes
  BY Zenon, <1>4, PoolNumbersHold DEF PoolInv, PoolOn
<1>6. pool[slot] = l /\ l \notin runts /\ l # 0
  BY Zenon, <1>1, <1>4 DEF PoolOn, Frames
<1>7. /\ got' \in Seq(Nat) /\ Len(got') = Len(got) + 1 /\ got'[Len(got')] = l
      /\ \A i \in 1 .. Len(got) : i \in 1 .. Len(got') /\ i < Len(got') /\ got'[i] = got[i]
      /\ \A i \in 1 .. Len(got') : i \in 1 .. Len(got) \/ i = Len(got')
      /\ Len(got') \in 1 .. Len(got')
  <2>1. got \in Seq(Nat) /\ l \in Nat
    BY Zenon, <1>5 DEF PoolTypes, PoolNumbers
  <2> QED
    BY <1>2, <1>6, <2>1
<1>8. PoolTypes'
  BY Zenon, <1>1, <1>2, <1>5, <1>7 DEF PoolTypes
<1>9. End' = End /\ Held' /\ Held
  <2>1. End = VQ_SIZE + Len(got) - 0 /\ End' = VQ_SIZE + Len(got') - 1
    BY <1>1 DEF End
  <2> QED
    BY <1>1, <1>5, <1>7, <2>1 DEF PoolNumbers, Held
<1>10. Positions(l)' /\ Apart(l)' /\ \A s \in Slots : Placed(l, s)'
  <2>1. Positions(l)'
    BY Zenon, <1>1, <1>2, <1>4, <1>9 DEF PoolOn, Positions
  <2>2. Apart(l)'
    BY Zenon, <1>2, <1>4, <1>9 DEF PoolOn, Apart
  <2>3. \A s \in Slots : Placed(l, s)'
    BY Zenon, <1>2, <1>4, <1>9 DEF PoolOn, Placed
  <2> QED
    BY Zenon, <2>1, <2>2, <2>3
<1>11. Frames(l)'
  BY Zenon, <1>1, <1>2, <1>4 DEF PoolOn, Frames
<1>12. Handed(l)'
  <2>1. /\ \A i \in 1 .. Len(got) : got[i] \in (1 .. l) \ runts /\ got[i] # l
        /\ \A i, j \in 1 .. Len(got) : i < j => got[i] < got[j]
        /\ \A f \in (1 .. l) \ runts : f = l \/ \E j \in 1 .. Len(got) : got[j] = f
    BY Zenon, <1>1, <1>4 DEF PoolOn, Handed
  <2>2. l \in 1 .. l /\ \A i \in 1 .. Len(got) : got[i] < l
    BY <1>5, <1>6, <2>1 DEF PoolNumbers
  <2>3. \A i \in 1 .. Len(got') : got'[i] \in (1 .. l) \ runts
    BY ZenonT(60), <1>6, <1>7, <2>1, <2>2
  <2>4. ASSUME NEW i \in 1 .. Len(got'), NEW j \in 1 .. Len(got'), i < j PROVE got'[i] < got'[j]
    <3>1. i \in 1 .. Len(got)
      BY <1>5, <1>7, <2>4 DEF PoolNumbers
    <3> QED
      BY Zenon, <1>7, <2>1, <2>2, <2>4, <3>1
  <2>5. \A f \in (1 .. l) \ runts : \E j \in 1 .. Len(got') : got'[j] = f
    BY ZenonT(60), <1>7, <2>1
  <2> QED
    BY Zenon, <1>1, <1>2, <2>3, <2>4, <2>5 DEF Handed
<1>13. PoolOff'
  BY Zenon, <1>1, <1>3 DEF PoolOff
<1> QED
  BY Zenon, <1>2, <1>8, <1>10, <1>11, <1>12, <1>13 DEF PoolInv, PoolOn

\* The buffer is offered again.
LEMMA RefillPool ==
  ASSUME RingInv, PoolInv, Refill
  PROVE  PoolInv'
<1>1. /\ S' = S /\ ready' = ready /\ live' = live /\ drv' = drv /\ step' = step
      /\ pc = "refilling" /\ pc' = "idle"
  BY Zenon DEF Refill, S
<1>2. ready /\ S.rxpool
  BY Zenon, <1>1 DEF PoolInv, PoolOff, Held
<1>3. PICK l \in 0 .. filled : PoolOn(l)
  BY Zenon, <1>2 DEF PoolInv
<1>4. PoolNumbers(l) /\ PoolTypes
  BY Zenon, <1>3, PoolNumbersHold DEF PoolInv, PoolOn
<1> DEFINE n == End
<1>5. q[0].avail = n % IDX_MOD /\ q[0].used = filled % IDX_MOD /\ q[0].last_used = l % IDX_MOD
  BY Zenon, <1>3 DEF PoolOn, Positions
<1>6. (n % IDX_MOD) % VQ_SIZE = n % VQ_SIZE /\ n % VQ_SIZE \in Slots
  BY Zenon, <1>4, PositionFacts DEF PoolNumbers
<1>7. /\ ring' = [ring EXCEPT ![n % VQ_SIZE] = slot]
      /\ uring' = uring /\ pool' = pool /\ filled' = filled /\ runts' = runts /\ slot' = slot /\ got' = got
  BY Zenon, <1>5, <1>6 DEF Refill, net_rx_refill
<1>8. Held /\ ~Held' /\ n - l <= VQ_SIZE - 1
  BY Zenon, <1>1, <1>3 DEF Held, PoolOn, Positions
<1>9. End' = n + 1
  <2>1. End = VQ_SIZE + Len(got) - 1 /\ End' = VQ_SIZE + Len(got) - 0
    BY <1>1, <1>7 DEF End
  <2> QED
    BY <1>4, <2>1 DEF PoolNumbers
<1> HIDE DEF n
<1>10. n \in Nat /\ l \in Nat /\ filled \in Nat /\ VQ_SIZE \in Nat \ {0} /\ l <= filled /\ filled <= n
  BY Zenon, <1>4 DEF PoolNumbers, n
<1>11. PoolTypes'
  <2>1. ring' \in [Slots -> Slots]
    BY <1>4, <1>6, <1>7 DEF PoolTypes
  <2> QED
    BY Zenon, <1>1, <1>4, <1>7, <2>1 DEF PoolTypes
<1>12. At(ring', n) = slot
  BY Zenon, <1>4, <1>6, <1>7 DEF At, PoolTypes
<1>13. \A k \in filled .. n - 1 : At(ring', k) = At(ring, k)
  <2> SUFFICES ASSUME NEW k \in filled .. n - 1 PROVE At(ring', k) = At(ring, k)
    OBVIOUS
  <2>1. k \in Nat /\ k <= n /\ n < k + VQ_SIZE /\ k # n
    BY <1>8, <1>10
  <2>2. k % VQ_SIZE # n % VQ_SIZE /\ k % VQ_SIZE \in Slots
    BY Zenon, <1>10, <2>1, PositionFacts
  <2> QED
    BY Zenon, <1>4, <1>7, <2>2 DEF At, PoolTypes
<1>14. \A k \in filled .. (n + 1) - 1 : k \in filled .. n - 1 \/ k = n
  BY <1>10
<1>15. n \in filled .. (n + 1) - 1 /\ \A k \in filled .. n - 1 : k \in filled .. (n + 1) - 1
  BY <1>10
<1>16. Positions(l)'
  <2>1. q[0] \in Queue /\ q'[0] = [q[0] EXCEPT !.avail = inc(@)]
    BY DEF RingInv, RingTypes, Refill, vq_submit
  <2>2. q'[0].used = q[0].used /\ q'[0].last_used = q[0].last_used /\ q'[0].avail = inc(q[0].avail)
    BY <2>1 DEF Queue
  <2>3. q'[0].avail = (n + 1) % IDX_MOD
    BY Zenon, <1>5, <1>10, <2>2, PositionFacts
  <2>4. filled <= n + 1 /\ (n + 1) - l <= VQ_SIZE
    BY <1>8, <1>10
  <2> QED
    BY Zenon, <1>5, <1>7, <1>8, <1>9, <1>10, <2>2, <2>3, <2>4 DEF Positions
<1>17. Apart(l)'
  <2>1. /\ \A j, k \in filled .. n - 1 : At(ring, j) = At(ring, k) => j = k
        /\ \A j, k \in l .. filled - 1 : At(uring, j) = At(uring, k) => j = k
        /\ \A j \in filled .. n - 1, k \in l .. filled - 1 : At(ring, j) # At(uring, k)
        /\ \A j \in filled .. n - 1 : At(ring, j) # slot
        /\ \A k \in l .. filled - 1 : At(uring, k) # slot
    BY Zenon, <1>3, <1>8 DEF PoolOn, Apart, OnRings, OffRings, n
  <2>2. \A j, k \in filled .. (n + 1) - 1 : At(ring', j) = At(ring', k) => j = k
    BY Zenon, <1>12, <1>13, <1>14, <2>1
  <2>3. \A j \in filled .. (n + 1) - 1, k \in l .. filled - 1 : At(ring', j) # At(uring, k)
    BY Zenon, <1>12, <1>13, <1>14, <2>1
  <2> QED
    BY ZenonT(60), <1>7, <1>8, <1>9, <2>1, <2>2, <2>3 DEF Apart, OnRings, OffRings
<1>18. ASSUME NEW t \in Slots PROVE Placed(l, t)'
  <2>1. Placed(l, t)
    BY Zenon, <1>3 DEF PoolOn
  <2> QED
    BY Zenon, <1>7, <1>9, <1>12, <1>13, <1>15, <2>1 DEF Placed, n
<1>19. Frames(l)' /\ Handed(l)'
  BY Zenon, <1>1, <1>3, <1>7 DEF PoolOn, Frames, Handed
<1>20. PoolOff'
  BY Zenon, <1>1, <1>2 DEF PoolOff
<1> QED
  BY Zenon, <1>7, <1>11, <1>16, <1>17, <1>18, <1>19, <1>20 DEF PoolInv, PoolOn

\* A driver with a pool has no business with the host.
NoReplies == S.rxpool => host = <<>> /\ pc # "answering"

LEMMA NoRepliesStep ==
  ASSUME RingInv, NoReplies, Next
  PROVE  NoReplies'
<1> SUFFICES ASSUME S'.rxpool PROVE host' = <<>> /\ pc' # "answering"
  BY Zenon DEF NoReplies
<1>1. drv' = drv /\ drv \in Drivers
  BY Zenon DEF RingInv, RingTypes, Next, CallStep, virtio_init, Prepare, SkipUsed, Submit, Reap, ReapReply, Timeout, Return,
     Poll, Copy, Refill, Fetch, Complete, Fill, HostAnswers
<1>2. S.rxpool /\ ~D.reply
  BY Zenon, <1>1, PoolDriver DEF S
<1>3. host = <<>> /\ pc # "answering"
  BY Zenon, <1>2 DEF NoReplies
<1>4. host' = <<>>
  BY Zenon, <1>2, <1>3 DEF Next, CallStep, virtio_init, Prepare, SkipUsed, Submit, Reap, ReapReply, Timeout, Return,
     Poll, Copy, Refill, Fetch, Complete, Fill, HostAnswers, cvars
<1>5. pc' # "answering"
  BY Zenon, <1>2, <1>3 DEF Next, CallStep, virtio_init, Prepare, SkipUsed, Submit, Reap, ReapReply, Timeout, Return,
     Poll, Copy, Refill, Fetch, Complete, Fill, HostAnswers
<1> QED
  BY Zenon, <1>4, <1>5

\* The steps of a call and of the device on queue 1, and the host's.
LEMMA CallPool ==
  ASSUME RingInv, PoolInv, NoReplies, NEW ok, NEW form, NEW accepts, NEW n,
         \/ Prepare \/ SkipUsed(n) \/ Submit(n) \/ Reap \/ ReapReply(accepts) \/ Timeout \/ Return
         \/ Fetch \/ Complete(ok) \/ HostAnswers(form)
  PROVE  PoolInv'
<1>1. UNCHANGED <<drv, pvars>> /\ drv \in Drivers
  BY Zenon DEF RingInv, RingTypes, Prepare, SkipUsed, Submit, Reap, ReapReply, Timeout, Return, Fetch, Complete, HostAnswers, cvars
<1>2. pc' = pc \/ (~Held /\ ~Held')
  BY Zenon DEF Prepare, SkipUsed, Submit, Reap, ReapReply, Timeout, Return, Fetch, Complete, HostAnswers, Held
<1>3. step # 0 => drv = "gpu"
  BY Zenon DEF PoolInv, PoolTypes
<1>4. step' # 0 => drv = "gpu"
  BY Zenon, <1>1, <1>3, GpuFacts DEF Prepare, SkipUsed, Submit, Reap, ReapReply, Timeout, Return, Fetch, Complete, HostAnswers
<1>5. ASSUME S.rxpool PROVE q'[0] = q[0] /\ ready' = ready /\ live' = live
  <2>1. ~D.reply /\ drv # "gpu" /\ step = 0
    BY Zenon, <1>1, <1>3, <1>5, PoolDriver
  <2>2. ready' = ready /\ live' = live
    BY Zenon, <2>1, GpuFacts DEF Prepare, SkipUsed, Submit, Reap, ReapReply, Timeout, Return, Fetch, Complete, HostAnswers
  <2>3. host = <<>> /\ pc # "answering"
    BY ZenonT(60), <1>5 DEF NoReplies
  <2>4. CASE SkipUsed(n) \/ Submit(n)
    <3>1. n = 1
      BY Zenon, <2>1, <2>4 DEF SkipUsed, Submit
    <3>2. q' = [q EXCEPT ![1] = q'[1]]
      BY <2>4, <3>1 DEF SkipUsed, Submit, RingInv, RingTypes
    <3> QED
      BY <2>2, <3>2 DEF RingInv, RingTypes
  <2>5. CASE Reap \/ Fetch \/ Complete(ok)
    BY <2>5 DEF Reap, Fetch, Complete, RingInv, RingTypes
  <2>6. CASE Prepare \/ Timeout \/ Return
    BY Zenon, <2>2, <2>6 DEF Prepare, Timeout, Return
  <2>7. ~ReapReply(accepts) /\ ~HostAnswers(form)
    BY Zenon, <2>3 DEF ReapReply, HostAnswers
  <2> QED
    BY Zenon, <2>2, <2>4, <2>5, <2>6, <2>7
<1> QED
  BY Zenon, <1>1, <1>2, <1>4, <1>5, PoolKept

LEMMA PoolInductive == Spec => [](RingInv /\ PoolInv /\ NoReplies)
<1>1. Init => RingInv /\ PoolInv /\ NoReplies
  <2>1. Init => NoReplies
    BY Zenon DEF Init, NoReplies
  <2> QED
    BY Zenon, <2>1, InitRing, InitPool
<1>2. PoolInv /\ RingInv /\ NoReplies /\ Next => PoolInv'
  BY Zenon, InitPoolStep, FillPool, PollPool, CopyPool, RefillPool, CallPool DEF Next, CallStep
<1>3. PoolInv /\ NoReplies /\ UNCHANGED vars => PoolInv' /\ NoReplies'
  <2> SUFFICES ASSUME PoolInv, NoReplies, UNCHANGED vars PROVE PoolInv' /\ NoReplies'
    OBVIOUS
  <2>1. /\ UNCHANGED <<drv, pvars>> /\ q'[0] = q[0] /\ ready' = ready /\ live' = live /\ pc' = pc
        /\ (step' # 0 => drv = "gpu") /\ S' = S /\ host' = host
    BY Zenon DEF vars, cvars, S, PoolInv, PoolTypes
  <2> QED
    BY Zenon, <2>1, PoolKept DEF NoReplies
<1>4. PoolInv /\ RingInv /\ NoReplies /\ [Next]_vars => PoolInv' /\ NoReplies'
  BY Zenon, <1>2, <1>3, NoRepliesStep
<1> QED
  BY <1>1, <1>4, RingInductive, PTL DEF Spec

-----------------------------------------------------------------------------
(* What the pool promises                                                  *)

\* Frames are handed over once and in order.
LEMMA PoolInOrder ==
  ASSUME PoolInv
  PROVE  InOrder
<1> DEFINE Whole == {f \in 1 .. filled : f \notin runts}
<1>1. CASE ~(ready /\ S.rxpool)
  <2>1. got = <<>>
    BY Zenon, <1>1 DEF PoolInv, PoolOff
  <2> QED
    BY <2>1 DEF InOrder
<1>2. CASE ready /\ S.rxpool
  <2>1. PICK l \in 0 .. filled : PoolOn(l)
    BY Zenon, <1>2 DEF PoolInv
  <2>2. Handed(l) /\ PoolTypes
    BY Zenon, <2>1 DEF PoolOn, PoolInv
  <2>3. l \in Nat /\ filled \in Nat /\ l <= filled /\ Len(got) \in Nat
    BY <2>2 DEF PoolTypes
  <2>4. \A i \in 1 .. Len(got) : got[i] \in Whole /\ got[i] \in 1 .. l
    BY <2>2, <2>3 DEF Handed
  <2>5. \A i, j \in 1 .. Len(got) : i < j => got[i] < got[j]
    BY Zenon, <2>2 DEF Handed
  <2>6. ASSUME NEW f \in Whole, NEW i \in 1 .. Len(got), f < got[i] PROVE \E j \in 1 .. i : got[j] = f
    <3>1. f \in (1 .. l) \ runts /\ f # l
      BY <2>3, <2>4, <2>6
    <3>2. PICK j \in 1 .. Len(got) : got[j] = f
      BY Zenon, <2>2, <3>1 DEF Handed
    <3>3. j <= i
      BY <2>3, <2>4, <2>5, <2>6, <3>2
    <3>4. j \in 1 .. i
      BY <2>3, <3>3
    <3> QED
      BY Zenon, <3>2, <3>4
  <2> QED
    BY Zenon, <2>4, <2>5, <2>6 DEF InOrder
<1> QED
  BY Zenon, <1>1, <1>2

\* What lies between two indices are the indices of the positions between.
LEMMA PendingPositions ==
  ASSUME NEW x \in Nat, NEW y \in Nat, x <= y, y <= x + VQ_SIZE
  PROVE  Pending(x % IDX_MOD, y % IDX_MOD) = {k % IDX_MOD : k \in x .. y - 1}
<1>1. IDX_MOD \in Int /\ IDX_MOD > 0 /\ x \in Int /\ y \in Int /\ y < x + IDX_MOD
  BY VirtioSizes
<1>2. ((y % IDX_MOD) + IDX_MOD - (x % IDX_MOD)) % IDX_MOD = y - x
  BY Zenon, <1>1, ModDistance
<1>3. \A k \in Int : ((x % IDX_MOD) + k) % IDX_MOD = (x + k) % IDX_MOD
  BY Zenon, <1>1, ModSum
<1>4. Pending(x % IDX_MOD, y % IDX_MOD) = {((x % IDX_MOD) + k) % IDX_MOD : k \in 0 .. (y - x) - 1}
  BY Zenon, <1>2 DEF Pending
<1>5. \A k \in 0 .. (y - x) - 1 : k \in Int /\ x + k \in x .. y - 1
  OBVIOUS
<1>6. \A k \in x .. y - 1 : k - x \in 0 .. (y - x) - 1 /\ x + (k - x) = k
  OBVIOUS
<1>7. ASSUME NEW i, i \in Pending(x % IDX_MOD, y % IDX_MOD) PROVE i \in {k % IDX_MOD : k \in x .. y - 1}
  BY ZenonT(60), <1>3, <1>4, <1>5, <1>7
<1>8. ASSUME NEW k \in x .. y - 1 PROVE k % IDX_MOD \in Pending(x % IDX_MOD, y % IDX_MOD)
  <2>1. (x + (k - x)) % IDX_MOD = ((x % IDX_MOD) + (k - x)) % IDX_MOD
    BY Zenon, <1>3, <1>5, <1>6
  <2> QED
    BY Zenon, <1>4, <1>6, <2>1
<1> QED
  BY Zenon, <1>7, <1>8

\* The slots of a ring at the pending indices are those at the positions; when
\* no slot is at two positions, none is at two indices.
Filled(r, K) == {At(r, k) : k \in K}
Distinct(r, K) == \A j, k \in K : At(r, j) = At(r, k) => j = k
DistinctAt(r, P) == \A i, j \in P : i # j => r[i % VQ_SIZE] # r[j % VQ_SIZE]

LEMMA PendingSlots ==
  ASSUME NEW r, NEW x \in Nat, NEW y \in Nat, x <= y, y <= x + VQ_SIZE,
         NEW P, P = Pending(x % IDX_MOD, y % IDX_MOD),
         Distinct(r, x .. y - 1)
  PROVE  /\ SlotsAt(r, P) = Filled(r, x .. y - 1)
         /\ DistinctAt(r, P)
<1>1. P = {k % IDX_MOD : k \in x .. y - 1}
  BY Zenon, PendingPositions
<1>2. \A k \in x .. y - 1 : k \in Nat
  OBVIOUS
<1>3. \A k \in x .. y - 1 : k % IDX_MOD \in P /\ r[(k % IDX_MOD) % VQ_SIZE] = At(r, k)
  BY Zenon, <1>1, <1>2, PositionFacts DEF At
<1>4. \A i \in P : \E k \in x .. y - 1 : i = k % IDX_MOD /\ r[i % VQ_SIZE] = At(r, k)
  BY Zenon, <1>1, <1>3
<1>5. DistinctAt(r, P)
  <2> SUFFICES ASSUME NEW i \in P, NEW j \in P, r[i % VQ_SIZE] = r[j % VQ_SIZE] PROVE i = j
    BY Zenon DEF DistinctAt
  <2>1. PICK k \in x .. y - 1 : i = k % IDX_MOD /\ r[i % VQ_SIZE] = At(r, k)
    BY Zenon, <1>4
  <2>2. PICK n \in x .. y - 1 : j = n % IDX_MOD /\ r[j % VQ_SIZE] = At(r, n)
    BY Zenon, <1>4
  <2> QED
    BY Zenon, <2>1, <2>2 DEF Distinct
<1> DEFINE T == Filled(r, x .. y - 1)
           U == SlotsAt(r, P)
<1>6. ASSUME NEW u \in U PROVE u \in T
  <2>1. PICK i \in P : u = r[i % VQ_SIZE]
    BY Zenon DEF SlotsAt
  <2>2. PICK k \in x .. y - 1 : r[i % VQ_SIZE] = At(r, k)
    BY Zenon, <1>4
  <2> QED
    BY Zenon, <2>1, <2>2 DEF Filled
<1>7. ASSUME NEW t \in T PROVE t \in U
  <2>1. PICK k \in x .. y - 1 : t = At(r, k)
    BY Zenon DEF Filled
  <2>2. k % IDX_MOD \in P /\ t = r[(k % IDX_MOD) % VQ_SIZE]
    BY Zenon, <1>3, <2>1
  <2> QED
    BY Zenon, <2>2 DEF SlotsAt
<1> HIDE DEF U, T
<1>8. U = T
  BY Zenon, <1>6, <1>7
<1> QED
  BY Zenon, <1>5, <1>8 DEF U, T

\* Every buffer of the pool is in one place.
LEMMA PoolConserves ==
  ASSUME RingInv, PoolInv
  PROVE  SlotsConserved
<1> SUFFICES ASSUME ready, S.rxpool PROVE SlotsConserved
  BY Zenon DEF SlotsConserved
<1>1. PICK l \in 0 .. filled : PoolOn(l)
  BY Zenon DEF PoolInv
<1>2. PoolNumbers(l) /\ PoolTypes
  BY Zenon, <1>1, PoolNumbersHold DEF PoolInv, PoolOn
<1>3. q[0].seen = filled % IDX_MOD /\ q[0].used = filled % IDX_MOD /\ q[0].last_used = l % IDX_MOD /\ q[0].avail = End % IDX_MOD
  BY Zenon, <1>1 DEF RingInv, DeviceInv, PoolOn, Positions
<1>4. End <= filled + VQ_SIZE /\ filled <= l + VQ_SIZE
  BY <1>2 DEF PoolNumbers
<1>5. /\ Offered = Filled(ring, filled .. End - 1)
      /\ DistinctAt(ring, OnOffer)
  <2>1. Distinct(ring, filled .. End - 1)
    BY Zenon, <1>1 DEF PoolOn, Apart, OnRings, Distinct
  <2>2. OnOffer = Pending(filled % IDX_MOD, End % IDX_MOD)
    BY Zenon, <1>3 DEF OnOffer
  <2>3. End \in Nat /\ filled \in Nat /\ filled <= End
    BY Zenon, <1>2 DEF PoolNumbers
  <2> QED
    BY ZenonT(60), <1>4, <2>1, <2>2, <2>3, PendingSlots DEF Offered
<1>6. /\ Waiting = Filled(uring, l .. filled - 1)
      /\ DistinctAt(uring, Unpolled)
  <2>1. Distinct(uring, l .. filled - 1)
    BY Zenon, <1>1 DEF PoolOn, Apart, OnRings, Distinct
  <2>2. Unpolled = Pending(l % IDX_MOD, filled % IDX_MOD)
    BY Zenon, <1>3 DEF Unpolled
  <2>3. l \in Nat /\ filled \in Nat /\ l <= filled
    BY Zenon, <1>2 DEF PoolNumbers
  <2> QED
    BY Zenon, <1>4, <2>1, <2>2, <2>3, PendingSlots DEF Waiting
<1>7. InHand = (IF Held THEN {slot} ELSE {})
  BY Zenon DEF Held, InHand
<1>8. Offered \cap Waiting = {} /\ (Offered \cup Waiting) \cap InHand = {}
  BY ZenonT(60), <1>1, <1>5, <1>6, <1>7 DEF PoolOn, Apart, OnRings, OffRings, Filled
<1>9. Offered \subseteq Slots /\ Waiting \subseteq Slots /\ InHand \subseteq Slots
  <2>1. \A k \in filled .. End - 1 : k \in Nat
    BY <1>2 DEF PoolNumbers
  <2>2. \A k \in l .. filled - 1 : k \in Nat
    BY <1>2 DEF PoolNumbers
  <2>3. \A k \in Nat : At(ring, k) \in Slots /\ At(uring, k) \in Slots
    BY Zenon, <1>2, PositionFacts DEF At, PoolTypes
  <2> QED
    BY Zenon, <1>2, <1>5, <1>6, <1>7, <2>1, <2>2, <2>3 DEF PoolTypes, Filled
<1>10. \A s \in Slots : s \in Offered \cup Waiting \cup InHand \cup Dropped
  BY Zenon, <1>1, <1>5, <1>6, <1>7 DEF PoolOn, Placed, Dropped, Filled
<1>11. Slots = Offered \cup Waiting \cup InHand \cup Dropped
  BY Zenon, <1>9, <1>10 DEF Dropped
<1> QED
  BY Zenon, <1>5, <1>6, <1>8, <1>11 DEF SlotsConserved, DistinctAt

-----------------------------------------------------------------------------
(* Types                                                                   *)

PCs == {"idle", "prepared", "rx skipped", "skipped", "offered", "waiting", "answering", "reaped"} \cup {"copying", "refilling"}
Codes == {"OK", "EIO", "ETIMEDOUT"}

CallTypes ==
    /\ ready \in BOOLEAN /\ live \in BOOLEAN /\ clean \in BOOLEAN
    /\ hdr \in Requests /\ served.req \in Requests /\ work \in Requests /\ calls \in Requests
    /\ reply.req \in Requests /\ reply.form \in Forms /\ reply = [req |-> reply.req, form |-> reply.form]
    /\ host \in Seq(Requests \ {0})
    /\ pc \in PCs /\ rc \in Codes

StepTypes == step \in 0 .. 4 /\ (step # 0 => drv = "gpu" /\ ~ready)

FrameTypes == filled \in 0 .. MAX_FRAMES /\ pool \in [Slots -> 0 .. MAX_FRAMES] /\ got \in Seq(0 .. MAX_FRAMES)

LEMMA InitTypes == Init => CallTypes /\ StepTypes /\ FrameTypes
<1> SUFFICES ASSUME Init PROVE CallTypes /\ StepTypes /\ FrameTypes
  OBVIOUS
<1>1. 0 \in Requests /\ 0 \in 0 .. 4 /\ 0 \in 0 .. MAX_FRAMES
  BY VirtioSizes DEF Requests
<1>2. served.req = 0 /\ reply.req = 0 /\ reply.form = "short" /\ reply = [req |-> reply.req, form |-> reply.form]
  BY DEF Init, Served, Unserved
<1>3. host \in Seq(Requests \ {0}) /\ got \in Seq(0 .. MAX_FRAMES)
  BY DEF Init
<1>4. "short" \in Forms
  BY Zenon DEF Forms
<1> QED
  BY Zenon, <1>1, <1>2, <1>3, <1>4 DEF Init, CallTypes, StepTypes, FrameTypes, PCs, Codes

LEMMA StepTypesStep == StepTypes /\ [Next]_vars => StepTypes'
<1> SUFFICES ASSUME StepTypes, [Next]_vars PROVE StepTypes'
  OBVIOUS
<1>1. ASSUME drv' = drv, NEW code, gpu_setup(code) PROVE StepTypes'
  <2>1. (step + 1) % 5 \in 0 .. 4 /\ 0 \in 0 .. 4 /\ ((step + 1) % 5 # 0 => step # 4)
    BY DEF StepTypes
  <2>2. step \in {1, 2, 3, 4} => step # 0
    OBVIOUS
  <2>3. CASE step' = 0
    BY Zenon, <1>1, <2>1, <2>3 DEF StepTypes
  <2>4. CASE step' = step /\ ready' = ready
    BY Zenon, <1>1, <2>4 DEF StepTypes
  <2>5. CASE step \in {1, 2, 3, 4} /\ step' = (step + 1) % 5 /\ ready' = (step = 4)
    BY Zenon, <1>1, <2>1, <2>2, <2>5 DEF StepTypes
  <2> QED
    BY Zenon, <1>1, <2>3, <2>4, <2>5 DEF gpu_setup
<1>2. ASSUME NEW found, virtio_init(found) PROVE StepTypes'
  <2>1. 0 \in 0 .. 4 /\ 1 \in 0 .. 4
    OBVIOUS
  <2> QED
    BY Zenon, <1>2, <2>1 DEF virtio_init, StepTypes
<1>3. CASE Timeout \/ Return
  BY Zenon, <1>1, <1>3 DEF Timeout, Return
<1>4. ASSUME UNCHANGED <<drv, step, ready>> PROVE StepTypes'
  BY Zenon, <1>4 DEF StepTypes
<1>5. CASE Prepare \/ (\E n \in 0 .. 1 : SkipUsed(n) \/ Submit(n)) \/ Reap \/ (\E accepts \in Exchanges : ReapReply(accepts)) \/ Fetch
  BY Zenon, <1>4, <1>5 DEF Prepare, SkipUsed, Submit, Reap, ReapReply, Fetch
<1>6. CASE Poll \/ Copy \/ Refill \/ UNCHANGED vars
  BY Zenon, <1>4, <1>6 DEF Poll, Copy, Refill, vars
<1>7. CASE (\E ok \in BOOLEAN : Complete(ok) \/ Fill(ok)) \/ \E form \in Forms : HostAnswers(form)
  BY Zenon, <1>4, <1>7 DEF Complete, Fill, HostAnswers
<1> QED
  BY Zenon, <1>2, <1>3, <1>5, <1>6, <1>7 DEF Next, CallStep

LEMMA FrameTypesStep == FrameTypes /\ PoolTypes /\ [Next]_vars => FrameTypes'
<1> SUFFICES ASSUME FrameTypes, PoolTypes, [Next]_vars PROVE FrameTypes'
  OBVIOUS
<1>1. ASSUME UNCHANGED <<filled, pool, got>> PROVE FrameTypes'
  BY Zenon, <1>1 DEF FrameTypes
<1>2. ASSUME NEW whole, Fill(whole) PROVE FrameTypes'
  <2>1. filled' \in 0 .. MAX_FRAMES
    BY <1>2, VirtioSizes DEF Fill, FrameTypes
  <2>2. pool' \in [Slots -> 0 .. MAX_FRAMES] /\ got' = got
    BY Zenon, <1>2, <2>1 DEF Fill, FrameTypes
  <2> QED
    BY ZenonT(60), <2>1, <2>2 DEF FrameTypes
<1>3. CASE Copy
  <2>1. Copied \in 0 .. MAX_FRAMES
    BY Zenon DEF Copied, FrameTypes, PoolTypes
  <2>2. got' \in Seq(0 .. MAX_FRAMES)
    BY <1>3, <2>1 DEF Copy, FrameTypes
  <2> QED
    BY Zenon, <1>3, <2>2 DEF Copy, FrameTypes
<1>4. CASE \/ Prepare \/ (\E n \in 0 .. 1 : SkipUsed(n) \/ Submit(n)) \/ Reap
           \/ (\E accepts \in Exchanges : ReapReply(accepts)) \/ Fetch \/ Timeout \/ Return
  BY Zenon, <1>1, <1>4 DEF Prepare, SkipUsed, Submit, Reap, ReapReply, Fetch, Timeout, Return, pvars
<1>5. CASE Poll \/ Refill \/ UNCHANGED vars
  BY Zenon, <1>1, <1>5 DEF Poll, Refill, vars, pvars
<1>6. CASE \/ \E ok \in BOOLEAN : Complete(ok)
           \/ \E form \in Forms : HostAnswers(form)
           \/ \E found \in {"nothing", "no queue", "ok"} : virtio_init(found)
  BY Zenon, <1>1, <1>6 DEF Complete, HostAnswers, virtio_init, pvars
<1> QED
  BY Zenon, <1>2, <1>3, <1>4, <1>5, <1>6 DEF Next, CallStep

\* What a step may change, one group of variables at a time.
LEMMA CallTypesStep == CallTypes /\ RingInv /\ [Next]_vars => CallTypes'
<1> SUFFICES ASSUME CallTypes, RingInv, [Next]_vars PROVE CallTypes'
  OBVIOUS
<1>1. ASSUME UNCHANGED <<hdr, served, work, calls, reply, host>>, ready' \in BOOLEAN, live' \in BOOLEAN, clean' \in BOOLEAN,
             pc' \in PCs, rc' \in Codes
      PROVE  CallTypes'
  BY Zenon, <1>1 DEF CallTypes
<1>2. "OK" \in Codes /\ "EIO" \in Codes /\ "ETIMEDOUT" \in Codes
  BY Zenon DEF Codes
<1>3. ASSUME NEW code, gpu_setup(code) PROVE ready' \in BOOLEAN /\ live' \in BOOLEAN
  BY Zenon, <1>3 DEF gpu_setup, CallTypes
<1>4. ASSUME NEW found, virtio_init(found) PROVE CallTypes'
  <2>1. 0 \in Requests
    BY VirtioSizes DEF Requests
  <2> QED
    BY Zenon, <1>4, <2>1 DEF virtio_init, CallTypes, cvars
<1>5. CASE Prepare
  <2>1. calls' \in Requests /\ 0 \in Requests
    BY <1>5, VirtioSizes DEF Prepare, CallTypes, Requests
  <2>2. Unserved.req = 0 /\ Served(0, TRUE).req = 0
    BY DEF Unserved, Served
  <2>3. served' \in {Unserved, Served(0, TRUE)}
    BY Zenon, <1>5 DEF Prepare
  <2>4. served'.req \in Requests
    BY Zenon, <2>1, <2>2, <2>3
  <2> QED
    BY ZenonT(60), <1>5, <2>1, <2>4 DEF Prepare, CallTypes, cvars, PCs
<1>6. ASSUME NEW n \in 0 .. 1, SkipUsed(n) \/ Submit(n) PROVE CallTypes'
  <2>1. clean' \in BOOLEAN
    BY Zenon, <1>6 DEF SkipUsed, Submit, OwesNothing, CallTypes
  <2> QED
    BY Zenon, <1>1, <1>6, <2>1 DEF SkipUsed, Submit, CallTypes, cvars, PCs
<1>7. CASE Reap
  BY Zenon, <1>1, <1>7 DEF Reap, CallTypes, cvars, PCs
<1>8. ASSUME NEW accepts, ReapReply(accepts) PROVE CallTypes'
  <2>1. served'.req = reply.req
    BY <1>8 DEF ReapReply, Served
  <2> QED
    BY ZenonT(60), <1>8, <2>1 DEF ReapReply, CallTypes, cvars, PCs
<1>9. CASE Timeout
  BY Zenon, <1>1, <1>2, <1>3, <1>9 DEF Timeout, CallTypes, cvars, PCs
<1>10. CASE Return
  BY Zenon, <1>1, <1>2, <1>3, <1>10 DEF Return, CallTypes, cvars, PCs
<1>11. CASE Fetch
  BY Zenon, <1>11 DEF Fetch, CallTypes, cvars
<1>12. ASSUME NEW ok, Complete(ok) PROVE CallTypes'
  <2>1. 0 \in Requests
    BY VirtioSizes DEF Requests
  <2>2. served'.req \in Requests
    <3>1. Served(work, ok).req = work
      BY DEF Served
    <3> QED
      BY Zenon, <1>12, <3>1 DEF Complete, CallTypes
  <2>3. host' \in Seq(Requests \ {0})
    <3>1. Append(host, work) \in Seq(Requests \ {0})
      BY <1>12 DEF Complete, CallTypes
    <3> QED
      BY Zenon, <1>12, <3>1 DEF Complete, CallTypes
  <2> QED
    BY Zenon, <1>12, <2>1, <2>2, <2>3 DEF Complete, CallTypes
<1>13. ASSUME NEW form \in Forms, HostAnswers(form) PROVE CallTypes'
  <2>1. Head(host) \in Requests /\ Tail(host) \in Seq(Requests \ {0})
    BY <1>13 DEF HostAnswers, CallTypes
  <2>2. reply'.req = Head(host) /\ reply'.form = form /\ reply' = [req |-> reply'.req, form |-> reply'.form]
    BY <1>13 DEF HostAnswers
  <2> QED
    BY Zenon, <1>13, <2>1, <2>2 DEF HostAnswers, CallTypes
<1>14. ASSUME NEW whole, Fill(whole) PROVE CallTypes'
  BY Zenon, <1>1, <1>14 DEF Fill, CallTypes, cvars
<1>15. CASE Poll
  BY Zenon, <1>1, <1>2, <1>15 DEF Poll, CallTypes, cvars, PCs
<1>16. CASE Copy
  BY Zenon, <1>1, <1>16 DEF Copy, CallTypes, cvars, PCs
<1>17. CASE Refill
  BY Zenon, <1>1, <1>2, <1>17 DEF Refill, CallTypes, cvars, PCs
<1>18. CASE UNCHANGED vars
  BY Zenon, <1>1, <1>18 DEF CallTypes, vars, cvars
<1> QED
  BY ZenonT(60), <1>4, <1>5, <1>6, <1>7, <1>8, <1>9, <1>10, <1>11, <1>12, <1>13, <1>14, <1>15, <1>16, <1>17, <1>18 DEF Next, CallStep

\* The queues of every driver are in order, for any ring size, width of the
\* indices and number of requests and frames: the indices keep within their
\* width, no buffer of a pool is lost or offered twice, and the frames the
\* device delivers are handed on once and in order, whatever the device does
\* and whenever it does it.
THEOREM QueuesInOrder == Spec => []VirtioInv
<1>1. Init => CallTypes /\ StepTypes /\ FrameTypes
  BY Zenon, InitTypes
<1>2. CallTypes /\ StepTypes /\ FrameTypes /\ RingInv /\ PoolInv /\ [Next]_vars => (CallTypes /\ StepTypes /\ FrameTypes)'
  BY Zenon, CallTypesStep, StepTypesStep, FrameTypesStep DEF PoolInv
<1>3. CallTypes /\ StepTypes /\ FrameTypes /\ RingInv /\ PoolInv => VirtioInv
  <2> SUFFICES ASSUME CallTypes, StepTypes, FrameTypes, RingInv, PoolInv PROVE VirtioInv
    OBVIOUS
  <2>1. {ready, live, clean} \subseteq BOOLEAN /\ {hdr, served.req, work, calls} \subseteq Requests
    BY Zenon DEF CallTypes
  <2>2. reply \in [req : Requests, form : Forms]
    BY DEF CallTypes
  <2>3. q \in [0 .. 1 -> [avail : Indices, used : Indices, last_used : Indices, seen : Indices]]
    BY Zenon DEF RingInv, RingTypes, Queue
  <2>4. TypeOK
    BY Zenon, <2>1, <2>2, <2>3 DEF TypeOK, CallTypes, StepTypes, FrameTypes, RingInv, RingTypes, PoolInv, PoolTypes, PCs, Codes
  <2> QED
    BY Zenon, <2>4, PoolInOrder, PoolConserves DEF VirtioInv
<1> QED
  BY <1>1, <1>2, <1>3, PoolInductive, PTL DEF Spec

=============================================================================
