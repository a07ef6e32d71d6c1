----------------------------- MODULE BusManager -----------------------------
(***************************************************************************)
(* The ESP's single-master bus (firmware-esp/src/bus_manager.cpp,          *)
(* bus_response.cpp, firmware_handoff.cpp) with the commands that          *)
(* network_commands.cpp puts on it, and the two that take the bus away     *)
(* from it: the flasher (avr_flasher.cpp) and the console (console.cpp).   *)
(*                                                                         *)
(* One request is outstanding at a time.  Requests come from a FIFO of     *)
(* QueueCapacity entries, from the raw sweep and from polling; the         *)
(* quadrants answer, answer late, refuse, or stay silent.  Deadlines are   *)
(* not counted: Timeout may strike whenever a request is outstanding, so   *)
(* every reply may come before or after its deadline.  Payloads are left   *)
(* out; what a request is FOR is kept beside the correlation the code      *)
(* copies, to tell whose reply answered whom.                              *)
(***************************************************************************)
EXTENDS Integers, Sequences, FiniteSets

CONSTANTS
    Nodes,              \* quadrant addresses (kQuadrantCount)
    Corrs,              \* correlation ids the server may send
    NoCorr,             \* the empty correlation
    Everyone,           \* kBroadcastAddress
    NoRequest,          \* pending_ = false
    QueueCapacity,      \* kQueueCapacity
    OfflineThreshold,   \* kOfflineTimeoutThreshold
    SeqMod,             \* frame sequences are modulo this (2^8 in the code)
    HealthPolls,        \* kMaximumHealthPollRetries
    MaxAir,             \* bound: replies on the wire at once
    MaxHandoffs,        \* bound: firmware handoffs in a behaviour; 0 leaves them out
    MaxSweeps           \* bound: raw sweeps nobody gave a correlation

ASSUME NodesAssumption == Nodes \subseteq Nat /\ Everyone \notin Nodes
ASSUME CorrsAssumption == NoCorr \notin Corrs
ASSUME CapacityAssumption == QueueCapacity \in Nat /\ QueueCapacity >= 3
ASSUME ThresholdAssumption == OfflineThreshold \in Nat \ {0}
ASSUME SeqModAssumption == SeqMod \in Nat \ {0}
ASSUME BoundsAssumption ==
    MaxAir \in Nat /\ MaxHandoffs \in Nat /\ MaxSweeps \in Nat /\ HealthPolls \in Nat

VARIABLES
    online,     \* nodes_[n].online
    misses,     \* nodes_[n].consecutive_timeouts, up to the threshold
    needsSync,  \* nodes_[n].needs_sync
    queue,      \* queue_
    pending,    \* the outstanding request, with the sequence it went out under
    sequence,   \* sequence_
    raw,        \* raw_active_ and the sweep's masks
    handoff,    \* programming_handoff_ is set unless "no"; history: how it was set
    flasher,    \* AvrFlasher: its phase, the quadrants not confirmed, its polls
    air,        \* replies the quadrants have sent and the ESP has not read
    told,       \* history: the prompt answer to each command
    results,    \* history: the terminal results of each command
    reach,      \* history: the nodes each command was sent to
    took,       \* history: the nodes that carried each command out
    handoffs, sweeps    \* counters of the bounds

bus  == <<online, misses, needsSync, queue, pending, sequence, raw, handoff, flasher>>
hist == <<told, results, reach, took>>
vars == <<bus, air, hist, handoffs, sweeps>>

(***************************************************************************)
(* Requests.  corr is the correlation the entry carries; for names the     *)
(* command it serves (the two differ on all but the last target of a       *)
(* fan-out, and on the slots of a raw sweep).                              *)
(***************************************************************************)
SyncFrames == {"Orientation", "RuntimeMode", "Info"}
PollFrames == {"Status", "Poll"}
Handoff    == {"FwPrepare", "FwEnterBootloader"}
AfterBoot  == {"FwHealth", "FwConfirm"}
Types == SyncFrames \cup PollFrames \cup Handoff \cup AfterBoot
           \cup {"Command", "Ping", "GetRawScan", "MaintenanceBegin"}

Anybody == Corrs \cup {NoCorr}

\* No caller of the bus gives a correlation to a frame of the flasher or a
\* broadcast, and a slot of a raw sweep carries none.
Entry ==
    {r \in [node : Nodes \cup {Everyone}, type : Types, corr : Anybody, for : Anybody] :
        r.node = Everyone \/ r.type \in Handoff \cup AfterBoot \cup {"GetRawScan"}
            => r.corr = NoCorr}

Requests == [req : Entry, seq : 0..(SeqMod - 1)]

ASSUME NoRequestAssumption == NoRequest \notin Requests

Plain(n, t) == [node |-> n, type |-> t, corr |-> NoCorr, for |-> NoCorr]

Reply == [node : Nodes, seq : 0..(SeqMod - 1), ok : BOOLEAN, of : Entry]

\* The ascending enumerations of a set of naturals no larger than the queue:
\* one, or none when the set is too large.
Ascending(S) ==
    {f \in UNION {[1..k -> S] : k \in 0..QueueCapacity} :
        /\ \A i, j \in DOMAIN f : i < j => f[i] < f[j]
        /\ \A x \in S : \E i \in DOMAIN f : f[i] = x}

NoSweep == [active |-> FALSE, corr |-> NoCorr, target |-> {}, done |-> {},
            valid |-> {}, from |-> {}]

\* kProgram stands for the three phases the UART is the flasher's in: kSync,
\* kProgram and kVerify.  todo is empty while the image of fw-flash-all comes in:
\* whom it is for is settled when it is complete.
Phases == {"Idle", "ReceiveHex", "AwaitHandoff", "Program", "AwaitBoot", "Health",
           "Confirm"}

NoFlash == [phase |-> "Idle", todo |-> {}, tries |-> 0]

Init ==
    /\ online = {}
    /\ misses = [n \in Nodes |-> 0]
    /\ needsSync = {}
    /\ queue = <<>>
    /\ pending = NoRequest
    /\ sequence = 0
    /\ raw = NoSweep
    /\ handoff = "no"
    /\ flasher = NoFlash
    /\ air = {}
    /\ told = [c \in Corrs |-> "none"]
    /\ results = [c \in Corrs |-> <<>>]
    /\ reach = [c \in Corrs |-> {}]
    /\ took = [c \in Corrs |-> {}]
    /\ handoffs = 0
    /\ sweeps = 0

-----------------------------------------------------------------------------
(***************************************************************************)
(* Results.  commandComplete for correlation c with what the ESP took for  *)
(* its evidence: the commands whose replies led to it.                     *)
(***************************************************************************)
Result(c, status, from) ==
    IF c = NoCorr THEN results
    ELSE [results EXCEPT ![c] = Append(@, [status |-> status, from |-> from])]

\* finishRawIfReady for a sweep whose slots are all retired: the sweep ends and
\* its command is answered; otherwise the sweep goes on.
Swept(r) ==
    IF r.active /\ r.target \subseteq r.done
    THEN /\ raw' = [r EXCEPT !.active = FALSE]
         /\ results' = Result(r.corr,
                              IF r.target \subseteq r.valid THEN "applied" ELSE "timeout",
                              r.from)
    ELSE raw' = r /\ UNCHANGED results

-----------------------------------------------------------------------------
(***************************************************************************)
(* Sending.  A frame takes the next sequence; a reply still on the wire    *)
(* under the same number is a whole turn of the counter old and is taken   *)
(* to be gone.  The quadrant then misses the request, carries it out in    *)
(* silence, answers it, or refuses it.                                     *)
(***************************************************************************)
NextSeq(k) == (sequence + k) % SeqMod

Gone(k) == {e \in air : \E i \in 1..k : e.seq = NextSeq(i)}

\* k broadcasts: numbers are used up and nothing replies.
Broadcasts(k, heard) ==
    /\ sequence' = NextSeq(k)
    /\ air' = air \ (heard \cup Gone(k))

Send(r) ==
    LET s   == NextSeq(1)
        old == air \ Gone(1)
    IN  /\ pending' = [req |-> r, seq |-> s]
        /\ sequence' = s
        /\ \E done, reply \in BOOLEAN :
            /\ air' = IF reply /\ Cardinality(old) < MaxAir
                      THEN old \cup {[node |-> r.node, seq |-> s, ok |-> done, of |-> r]}
                      ELSE old
            /\ took' = IF done /\ r.for # NoCorr
                       THEN [took EXCEPT ![r.for] = @ \cup {r.node}] ELSE took

-----------------------------------------------------------------------------
(***************************************************************************)
(* Replies.                                                                *)
(***************************************************************************)
\* Seeded fault: any reply of the node asked will do.
Expected_AnySeq(e) == pending # NoRequest /\ e.node = pending.req.node

Expected(e) ==
    /\ pending # NoRequest
    /\ e.node = pending.req.node
    /\ e.seq = pending.seq

SyncOf(n) == <<Plain(n, "Orientation"), Plain(n, "RuntimeMode"), Plain(n, "Info")>>

\* Seeded fault: the frames are queued without room for them.
WithSync_NoRoom(n) == queue \o SyncOf(n)

\* queueNodeSync: all three frames or none.
WithSync(n) ==
    IF Len(queue) <= QueueCapacity - 3 THEN queue \o SyncOf(n) ELSE queue

\* enqueue: the frames that find room.
Put(q, frames) == IF Len(q) + Len(frames) <= QueueCapacity THEN q \o frames ELSE q

\* purgeQueuedFirmwareCommands: what is kept keeps its order.
Kept(q) == {i \in DOMAIN q : q[i].type \notin Handoff}

(***************************************************************************)
(* handleResponse.  The reply retires the outstanding request and proves   *)
(* the node present.  A node that was offline, or whose STATUS shows an    *)
(* uptime that went backwards (a fact of the node: any STATUS may), has    *)
(* its configuration queued again, or is marked to have it queued later.   *)
(* next is what the flasher queues on hearing of the reply.                *)
(***************************************************************************)
Respond(e, next) ==
    LET r == pending.req
        n == r.node
    IN  /\ pending' = NoRequest
        /\ online' = online \cup {n}
        /\ misses' = [misses EXCEPT ![n] = 0]
        /\ \E rebooted \in BOOLEAN :
            /\ rebooted => e.ok /\ r.type = "Status"
            /\ LET back == n \notin online \/ rebooted
                   q    == IF back THEN WithSync(n) ELSE queue
               IN  /\ needsSync' = IF ~back THEN needsSync
                                   ELSE IF q # queue THEN needsSync \ {n}
                                   ELSE needsSync \cup {n}
                   /\ IF ~e.ok /\ r.type = "FwPrepare"
                      THEN \E f \in Ascending(Kept(q)) :
                              queue' = [i \in DOMAIN f |-> q[f[i]]]
                      ELSE queue' = Put(q, next)
        /\ IF r.type = "GetRawScan"
           THEN Swept(IF e.ok
                      THEN [raw EXCEPT !.done = @ \cup {n}, !.valid = @ \cup {n},
                                       !.from = @ \cup {e.of.for}]
                      ELSE [raw EXCEPT !.done = @ \cup {n}])
           ELSE /\ raw' = raw
                /\ results' = Result(r.corr, IF e.ok THEN "applied" ELSE "rejected",
                                     {e.of.for})
        /\ UNCHANGED <<told, reach, took, sweeps>>

\* Seeded fault: the quiet lease is ended and the bus is not taken back.
EndFirmwareMaintenance_Kept(heard) ==
    /\ UNCHANGED handoff
    /\ Broadcasts(1, heard)

\* endFirmwareMaintenance: framed traffic goes on.
EndFirmwareMaintenance(heard) ==
    /\ handoff' = "no"
    /\ Broadcasts(1, heard)

\* node_: the lowest quadrant the flasher has yet to hear confirm.
Flashed(n) == n \in flasher.todo /\ \A m \in flasher.todo : n <= m

\* The replies onFwResponse acts on: a refused handoff, and what it asked the
\* quadrant for after the boot.
Heeded(e) ==
    LET type == pending.req.type
    IN  /\ Flashed(pending.req.node)
        /\ \/ flasher.phase = "AwaitHandoff" /\ type \in Handoff /\ ~e.ok
           \/ flasher.phase = "Health" /\ type = "FwHealth"
           \/ flasher.phase = "Confirm" /\ type = "FwConfirm"

\* An acknowledged FW_ENTER_BOOTLOADER hands the UART to the programmer, whether or
\* not the flasher still waits for it.
Entered(e) ==
    IF ~(e.ok /\ pending.req.type = "FwEnterBootloader") THEN "no"
    ELSE IF flasher.phase = "AwaitHandoff" THEN "owned" ELSE "adrift"

\* A healthy quadrant is told to confirm its image; the image confirmed by the last
\* of them ends the flash.
Passes(e) ==
    LET n == pending.req.node
    IN  /\ e.ok
        /\ \/ /\ flasher.phase = "Health"
              /\ Respond(e, <<Plain(n, "FwConfirm")>>)
              /\ flasher' = [flasher EXCEPT !.phase = "Confirm", !.tries = 0]
           \/ /\ flasher.phase = "Confirm"
              /\ Respond(e, <<>>)
              /\ flasher' = IF flasher.todo = {n} THEN NoFlash
                            ELSE [phase |-> "AwaitBoot", todo |-> flasher.todo \ {n},
                                  tries |-> 0]

Receive(e) ==
    /\ handoff = "no"
    /\ e \in air
    /\ Expected(e)
    /\ \/ /\ ~Heeded(e)
          /\ Respond(e, <<>>)
          /\ handoff' = Entered(e)
          /\ air' = air \ {e}
          /\ UNCHANGED <<sequence, flasher>>
       \/ /\ Heeded(e)
          /\ Passes(e)
          /\ air' = air \ {e}
          /\ UNCHANGED <<sequence, handoff>>
       \/ /\ Heeded(e)
          /\ ~e.ok \/ flasher.phase = "Health"     \* not the image that was sent
          /\ Respond(e, <<>>)
          /\ flasher' = NoFlash
          /\ EndFirmwareMaintenance({e})
    /\ UNCHANGED handoffs

\* A reply nobody waits for is counted and dropped; one that arrives during a
\* handoff is eaten by the programmer.
Stray(e) ==
    /\ e \in air
    /\ handoff # "no" \/ ~Expected(e)
    /\ air' = air \ {e}
    /\ UNCHANGED <<bus, hist, handoffs, sweeps>>

\* Seeded fault: a node is given up one silent request too early.
Expire_Early ==
    LET r    == pending.req
        n    == r.node
        miss == IF misses[n] < OfflineThreshold THEN misses[n] + 1 ELSE misses[n]
    IN  /\ pending' = NoRequest
        /\ misses' = [misses EXCEPT ![n] = miss]
        /\ online' = IF miss + 1 >= OfflineThreshold THEN online \ {n} ELSE online
        /\ IF r.type = "GetRawScan"
           THEN Swept([raw EXCEPT !.done = @ \cup {n}])
           ELSE raw' = raw /\ results' = Result(r.corr, "timeout", {})
        /\ UNCHANGED <<needsSync, queue, told, reach, took, sweeps>>

(***************************************************************************)
(* handleTimeout.  One silent request is forgiven an online node until     *)
(* OfflineThreshold of them come in a row.                                 *)
(***************************************************************************)
Expire ==
    LET r    == pending.req
        n    == r.node
        miss == IF misses[n] < OfflineThreshold THEN misses[n] + 1 ELSE misses[n]
    IN  /\ pending' = NoRequest
        /\ misses' = [misses EXCEPT ![n] = miss]
        /\ online' = IF miss >= OfflineThreshold THEN online \ {n} ELSE online
        /\ IF r.type = "GetRawScan"
           THEN Swept([raw EXCEPT !.done = @ \cup {n}])
           ELSE raw' = raw /\ results' = Result(r.corr, "timeout", {})
        /\ UNCHANGED <<needsSync, queue, told, reach, took, sweeps>>

Timeout ==
    /\ handoff = "no"
    /\ pending # NoRequest
    /\ Expire
    /\ UNCHANGED <<handoff, flasher, air, sequence, handoffs>>

-----------------------------------------------------------------------------
(***************************************************************************)
(* schedule: with nothing outstanding, the render window when it is due,   *)
(* else the queue, else a configuration still owed, else the raw sweep,    *)
(* else a poll.  Render and poll timers are left out: each may be due.     *)
(***************************************************************************)
Idle == handoff = "no" /\ pending = NoRequest

RenderWindow ==
    /\ Idle
    /\ Broadcasts(1, {})
    /\ UNCHANGED <<online, misses, needsSync, queue, pending, raw, handoff, flasher,
                   hist, handoffs, sweeps>>

StartQueued ==
    /\ Idle
    /\ queue # <<>>
    /\ queue' = Tail(queue)
    /\ IF Head(queue).node = Everyone
       THEN Broadcasts(1, {}) /\ UNCHANGED <<pending, took>>
       ELSE Send(Head(queue))
    /\ UNCHANGED <<online, misses, needsSync, raw, handoff, flasher,
                   told, results, reach, handoffs, sweeps>>

\* Seeded fault: a configuration that found no room is forgotten.
SyncDue_Never == {}

SyncDue == needsSync \cap online

QueueSync ==
    /\ Idle
    /\ queue = <<>>
    /\ \E n \in SyncDue :
        /\ \A m \in SyncDue : n <= m
        /\ queue' = WithSync(n)
        /\ needsSync' = needsSync \ {n}
    /\ UNCHANGED <<online, misses, pending, sequence, raw, handoff, flasher,
                   air, hist, handoffs, sweeps>>

Scheduled(r) ==
    /\ Idle
    /\ queue = <<>>
    /\ SyncDue = {}
    /\ Send(r)
    /\ UNCHANGED <<online, misses, needsSync, queue, raw, handoff, flasher,
                   told, results, reach, handoffs, sweeps>>

\* A sweep is closed by the reply or the timeout that retires its last slot, so
\* while it is active a slot is left to ask.
RawNext ==
    /\ raw.active
    /\ \E n \in raw.target \ raw.done :
        Scheduled([node |-> n, type |-> "GetRawScan", corr |-> NoCorr, for |-> raw.corr])

PollNext ==
    /\ ~raw.active
    /\ \E n \in Nodes :
        \E t \in IF n \in online THEN PollFrames ELSE {"Ping"} : Scheduled(Plain(n, t))

Schedule == RenderWindow \/ StartQueued \/ QueueSync \/ RawNext \/ PollNext

-----------------------------------------------------------------------------
(***************************************************************************)
(* Commands of the server.  Each is answered at once, accepted or          *)
(* rejected, in the same handler.                                          *)
(***************************************************************************)
May(c) == told[c] = "none"

Answer(c, word, nodes) ==
    /\ told' = [told EXCEPT ![c] = word]
    /\ reach' = [reach EXCEPT ![c] = nodes]

\* The frames of a fan-out to the nodes f lists: the last of all carries the
\* correlation, which is lost with it when only the first k fit.
Frames(f, k, t, c) ==
    [i \in 1..k |-> [node |-> f[i], type |-> t, for |-> c,
                     corr |-> IF i = Len(f) THEN c ELSE NoCorr]]

\* lighting.set, lighting.clear and the commands naming one node: the online
\* nodes among those addressed, if there are any and all their frames fit.
Fanout(c, nodes) ==
    /\ May(c)
    /\ \E f \in Ascending(nodes \cap online) :
        IF f # <<>> /\ Len(queue) + Len(f) <= QueueCapacity
        THEN /\ queue' = queue \o Frames(f, Len(f), "Command", c)
             /\ Answer(c, "accepted", nodes \cap online)
        ELSE /\ Answer(c, "rejected", {})
             /\ UNCHANGED queue
    /\ UNCHANGED <<online, misses, needsSync, pending, sequence, raw, handoff, flasher,
                   air, results, took, handoffs, sweeps>>

\* Seeded fault: accepted if any of the frames fits.
EveryNode_Any(c, t) ==
    \E f \in Ascending(online), k \in 0..QueueCapacity :
        /\ k <= Len(f)
        /\ Len(queue) + k <= QueueCapacity
        /\ k = Len(f) \/ Len(queue) + k = QueueCapacity
        /\ queue' = queue \o Frames(f, k, t, c)
        /\ Answer(c, IF k > 0 THEN "accepted" ELSE "rejected",
                     IF k > 0 THEN online ELSE {})
        /\ UNCHANGED <<online, misses, needsSync, pending, sequence, raw, handoff,
                       flasher, air, results, took, handoffs, sweeps>>

\* calibration.start "all" and device.mode.set put their frames one by one on
\* every online node, and are accepted if all of them fit.
EveryNode(c, t) ==
    \E f \in Ascending(online), k \in 0..QueueCapacity :
        /\ k <= Len(f)
        /\ Len(queue) + k <= QueueCapacity
        /\ k = Len(f) \/ Len(queue) + k = QueueCapacity
        /\ queue' = queue \o Frames(f, k, t, c)
        /\ Answer(c, IF k = Len(f) THEN "accepted" ELSE "rejected",
                     IF k = Len(f) THEN online ELSE {})
        /\ UNCHANGED <<online, misses, needsSync, pending, sequence, raw, handoff,
                       flasher, air, results, took, handoffs, sweeps>>

\* calibration.start "all" needs somebody to be online.
CalibrateAll(c) ==
    /\ May(c)
    /\ \/ online # {} /\ EveryNode(c, "Command")
       \/ /\ online = {}
          /\ Answer(c, "rejected", {})
          /\ UNCHANGED <<bus, air, results, took, handoffs, sweeps>>

SetMode(c) ==
    /\ May(c)
    /\ EveryNode(c, "RuntimeMode")

\* requestRawScan, for a client or for the raw stream, which asks with no
\* correlation and asks again later when it is refused.  The flasher holds sweeps
\* off (raw_scans_blocked_) from the start of an upload to its end.
RequestRawScan(c) ==
    /\ IF c = NoCorr THEN sweeps < MaxSweeps ELSE May(c)
    /\ sweeps' = IF c = NoCorr THEN sweeps + 1 ELSE sweeps
    /\ LET granted == ~raw.active /\ flasher.phase = "Idle" /\ online # {}
       IN  /\ raw' = IF granted THEN [NoSweep EXCEPT !.active = TRUE, !.corr = c,
                                                     !.target = online]
                     ELSE raw
           /\ IF c = NoCorr THEN granted /\ UNCHANGED <<told, reach>>
              ELSE Answer(c, IF granted THEN "accepted" ELSE "rejected",
                             IF granted THEN online ELSE {})
    /\ UNCHANGED <<online, misses, needsSync, queue, pending, sequence, handoff, flasher,
                   air, results, took, handoffs>>

-----------------------------------------------------------------------------
(***************************************************************************)
(* Firmware handoffs, begun by the flasher or by the console.              *)
(***************************************************************************)
HandoffFrames(n) == <<Plain(Everyone, "MaintenanceBegin"),
                      Plain(n, "FwPrepare"), Plain(n, "FwEnterBootloader")>>

BeginFirmwareHandoff(n) ==
    /\ handoffs < MaxHandoffs
    /\ n \in online
    /\ ~raw.active
    /\ Len(queue) <= QueueCapacity - 3
    /\ handoff = "no"
    /\ queue' = queue \o HandoffFrames(n)
    /\ handoffs' = handoffs + 1
    /\ UNCHANGED <<online, misses, needsSync, pending, sequence, raw, handoff, air, hist,
                   sweeps>>

(***************************************************************************)
(* beginFirmwareHandoffAll first waits out the request in flight: it is    *)
(* answered, or retired as timed out.  Then the three broadcasts go out    *)
(* and the UART is the programmer's.                                       *)
(***************************************************************************)
BeginFirmwareHandoffAll ==
    /\ handoffs < MaxHandoffs
    /\ online # {}
    /\ ~raw.active
    /\ queue = <<>>
    /\ handoff = "no"
    /\ \/ /\ pending = NoRequest
          /\ Broadcasts(3, {})
          /\ UNCHANGED <<online, misses, needsSync, queue, pending, raw, hist, sweeps>>
       \/ \E e \in air : Expected(e) /\ Respond(e, <<>>) /\ Broadcasts(3, {e})
       \/ pending # NoRequest /\ Expire /\ Broadcasts(3, {})
    /\ handoff' = "owned"
    /\ handoffs' = handoffs + 1

-----------------------------------------------------------------------------
(***************************************************************************)
(* The flasher.  fw-flash and fw-flash-all take an image in; when it is    *)
(* complete the handoff begins.  From then on the flasher's own deadlines  *)
(* drive it; fw-abort and a bad record end it at any time.                 *)
(***************************************************************************)
FwFlash ==
    /\ MaxHandoffs > 0
    /\ flasher.phase = "Idle"
    /\ handoff = "no"
    /\ online # {}
    /\ \E todo \in {{}} \cup {{n} : n \in online} :
        flasher' = [NoFlash EXCEPT !.phase = "ReceiveHex", !.todo = todo]
    /\ UNCHANGED <<online, misses, needsSync, queue, pending, sequence, raw, handoff, air,
                   hist, handoffs, sweeps>>

FinishReceive ==
    /\ flasher.phase = "ReceiveHex"
    /\ \/ \E n \in flasher.todo :
            /\ BeginFirmwareHandoff(n)
            /\ flasher' = [flasher EXCEPT !.phase = "AwaitHandoff"]
       \/ /\ flasher.todo = {}
          /\ BeginFirmwareHandoffAll
          /\ flasher' = [flasher EXCEPT !.phase = "AwaitHandoff", !.todo = online]

\* fail: nothing has been handed over before the image is complete.
Fails ==
    /\ flasher' = NoFlash
    /\ IF flasher.phase = "ReceiveHex" THEN UNCHANGED <<handoff, sequence, air>>
       ELSE EndFirmwareMaintenance({})

Still == <<online, misses, needsSync, pending, raw, hist, handoffs, sweeps>>

\* fw-abort, a bad record, an empty image, a handoff the bus refuses to begin.
Abort ==
    /\ flasher.phase # "Idle"
    /\ Fails
    /\ UNCHANGED <<Still, queue>>

\* kAwaitHandoff: the bus is the flasher's, or the frames were not answered in
\* time.  They may still be queued then, and be answered yet.
TickAwaitHandoff ==
    /\ flasher.phase = "AwaitHandoff"
    /\ IF handoff # "no"
       THEN /\ flasher' = [flasher EXCEPT !.phase = "Program"]
            /\ UNCHANGED <<handoff, sequence, air>>
       ELSE Fails
    /\ UNCHANGED <<Still, queue>>

\* kSync, kProgram, kVerify: retries run out, or the image reads back as sent.
TickProgram ==
    /\ flasher.phase = "Program"
    /\ flasher' \in {NoFlash, [flasher EXCEPT !.phase = "AwaitBoot"]}
    /\ EndFirmwareMaintenance({})
    /\ UNCHANGED <<Still, queue>>

\* queueNextHealth: tried again at the next tick when the queue is full.
TickAwaitBoot ==
    /\ flasher.phase = "AwaitBoot"
    /\ Len(queue) < QueueCapacity
    /\ \E n \in flasher.todo : Flashed(n) /\ queue' = Append(queue, Plain(n, "FwHealth"))
    /\ flasher' = [flasher EXCEPT !.phase = "Health"]
    /\ UNCHANGED <<Still, handoff, sequence, air>>

\* kHealth, kConfirm: no answer in time; asked again, room or not, or given up.
TickAnswer ==
    /\ flasher.phase \in {"Health", "Confirm"}
    /\ IF flasher.tries < HealthPolls
       THEN /\ flasher' = [flasher EXCEPT !.tries = @ + 1]
            /\ \E n \in flasher.todo :
                /\ Flashed(n)
                /\ queue' = Put(queue, <<Plain(n, IF flasher.phase = "Health"
                                                  THEN "FwHealth" ELSE "FwConfirm")>>)
            /\ UNCHANGED <<handoff, sequence, air>>
       ELSE Fails /\ UNCHANGED queue
    /\ UNCHANGED Still

FlasherTick == TickAwaitHandoff \/ TickProgram \/ TickAwaitBoot \/ TickAnswer

\* The console's own way in and out.  While an image comes in every line is the
\* flasher's; fw-end is refused as long as it is active.
FwEnter(n) ==
    /\ flasher.phase # "ReceiveHex"
    /\ BeginFirmwareHandoff(n)
    /\ UNCHANGED flasher

FwEnd ==
    /\ handoffs > 0
    /\ flasher.phase = "Idle"
    /\ EndFirmwareMaintenance({})
    /\ UNCHANGED <<Still, queue, flasher>>

-----------------------------------------------------------------------------
Command ==
    \/ \E c \in Corrs :
        \/ \E nodes \in SUBSET Nodes \ {{}} : Fanout(c, nodes)
        \/ CalibrateAll(c)
        \/ SetMode(c)
    \/ \E c \in Anybody : RequestRawScan(c)

Firmware ==
    \/ FwFlash
    \/ FinishReceive
    \/ Abort
    \/ FlasherTick
    \/ \E n \in Nodes : FwEnter(n)
    \/ FwEnd

Next ==
    \/ \E e \in air : Receive(e) \/ Stray(e)
    \/ Timeout
    \/ Schedule
    \/ Command
    \/ Firmware

Spec == Init /\ [][Next]_vars

(***************************************************************************)
(* The loop calls tick() of the bus and of the flasher for ever: a         *)
(* deadline passes and is seen, what is due is sent, and a phase of the    *)
(* flasher that has a deadline or a retry count ends.  Nothing is assumed  *)
(* of the quadrants, of replies, or of the console.                        *)
(***************************************************************************)
Fairness ==
    /\ WF_vars(Timeout)
    /\ WF_vars(StartQueued)
    /\ WF_vars(QueueSync)
    /\ WF_vars(RawNext)
    /\ WF_vars(FlasherTick)

LiveSpec == Spec /\ Fairness

-----------------------------------------------------------------------------
(***************************************************************************)
(* Properties.                                                             *)
(***************************************************************************)
Terminal == [status : {"applied", "rejected", "timeout"}, from : SUBSET Anybody]

\* Every variable keeps its type; the queue holds no more than its slots.
TypeOK ==
    /\ online \subseteq Nodes
    /\ misses \in [Nodes -> 0..OfflineThreshold]
    /\ needsSync \subseteq Nodes
    /\ queue \in Seq(Entry)
    /\ Len(queue) <= QueueCapacity
    /\ \/ pending = NoRequest
       \/ /\ pending \in Requests
          /\ pending.req.node # Everyone
    /\ sequence \in 0..(SeqMod - 1)
    /\ raw \in [active : BOOLEAN, corr : Anybody, target : SUBSET Nodes,
                done : SUBSET Nodes, valid : SUBSET Nodes,
                from : SUBSET Anybody]
    /\ handoff \in {"no", "owned", "adrift"}
    /\ flasher \in [phase : Phases, todo : SUBSET Nodes, tries : 0..HealthPolls]
    /\ air \subseteq Reply
    /\ told \in [Corrs -> {"none", "accepted", "rejected"}]
    /\ results \in [Corrs -> Seq(Terminal)]
    /\ reach \in [Corrs -> SUBSET Nodes]
    /\ took \in [Corrs -> SUBSET Nodes]
    /\ handoffs \in Nat
    /\ sweeps \in Nat

\* Where a command waits for its terminal result.
Queued(c)   == \E i \in DOMAIN queue : queue[i].corr = c
Asked(c)    == pending # NoRequest /\ pending.req.corr = c
Sweeping(c) == raw.active /\ raw.corr = c
Waiting(c)  == Queued(c) \/ Asked(c) \/ Sweeping(c)

\* A command that was accepted with work for some node either waits or has its
\* one terminal result; any other command does neither.  Enqueueing, the purge of
\* a failed handoff, timeouts, replies and the raw sweep lose and repeat nobody's
\* correlation.
AcceptedIsOwed ==
    \A c \in Corrs :
        IF told[c] = "accepted" /\ reach[c] # {}
        THEN IF Waiting(c) THEN results[c] = <<>> ELSE Len(results[c]) = 1
        ELSE ~Waiting(c) /\ results[c] = <<>>

\* A command waits in one place only, so no second result is to come.
WaitsOnce ==
    \A c \in Corrs :
        /\ \A i, j \in DOMAIN queue : queue[i].corr = c /\ queue[j].corr = c => i = j
        /\ ~(Queued(c) /\ Asked(c))
        /\ Sweeping(c) => ~Queued(c) /\ ~Asked(c)

\* The result a command gets rests on replies to its own requests, never on a late
\* reply to an earlier request or to an earlier sweep.
AnswerIsOwn ==
    \A c \in Corrs : \A i \in DOMAIN results[c] : results[c][i].from \subseteq {c}

\* A node known to need its configuration is not polled before the frames that
\* carry it have gone out.
SyncBeforePolls ==
    pending # NoRequest /\ pending.req.type \in PollFrames
        => /\ pending.req.node \notin needsSync
           /\ \A i \in DOMAIN queue :
                ~(queue[i].node = pending.req.node /\ queue[i].type = "Info")

\* An active raw sweep always has a slot left to ask: whatever retires the last
\* slot also closes the sweep, so schedule() never spins on a finished one.
SweepHasSlot == raw.active => raw.target \ raw.done # {}

\* A handoff the flasher did not wait for, because it had given up while its frames
\* were queued or because the console began it, ends only if somebody ends it.
Adrift == handoff = "adrift"

\* Unless such a handoff keeps the bus for ever, every accepted command with work for
\* some node is answered in the end and every raw sweep ends, whatever the nodes do
\* and however the flasher fares: the handoffs it owns it gives back.
AnswersCome ==
    \A c \in Corrs :
        (told[c] = "accepted" /\ reach[c] # {}) ~> (results[c] # <<>> \/ []Adrift)

SweepsEnd == raw.active ~> (~raw.active \/ []Adrift)

(***************************************************************************)
(* What the documents say of the same code.                                *)
(***************************************************************************)
\* docs/websocket-api.md:148: "then with `applied` or `timeout` after the addressed
\* nodes respond": a command reported applied was carried out by every node it
\* was sent to.
AppliedByAll ==
    \A c \in Corrs : \A i \in DOMAIN results[c] :
        results[c][i].status = "applied" => reach[c] \subseteq took[c]

\* firmware-esp/src/avr_flasher.cpp:324-326: fail "Ends the quiet lease for the other
\* quadrants even when bootloader entry was never acknowledged": a flash that gives up
\* leaves no frame queued that would begin the lease, or enter the bootloader, anew.
LeaseEndsWithFlash ==
    [][flasher.phase = "AwaitHandoff" /\ flasher'.phase = "Idle"
        => \A i \in DOMAIN queue' :
            queue'[i].type \notin Handoff \cup {"MaintenanceBegin"}]_flasher
=============================================================================
