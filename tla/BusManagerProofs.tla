-------------------------- MODULE BusManagerProofs --------------------------
(***************************************************************************)
(* Proofs about the ESP bus.  The types come first; then the ledger of     *)
(* correlations, per action; the order of configuration and polls; and     *)
(* whose answer an answer is.                                              *)
(***************************************************************************)
EXTENDS BusManager, SequenceTheorems, TLAPS

LEMMA ConstantsOK ==
  /\ Nodes \subseteq Nat /\ Everyone \notin Nodes /\ NoCorr \notin Corrs
  /\ QueueCapacity \in Nat /\ QueueCapacity >= 3
  /\ OfflineThreshold \in Nat /\ OfflineThreshold > 0
  /\ SeqMod \in Nat /\ SeqMod > 0
  /\ NoRequest \notin Requests
BY NodesAssumption, CorrsAssumption, CapacityAssumption, ThresholdAssumption,
   SeqModAssumption, NoRequestAssumption

\* An ascending enumeration is a sequence without repetition of the whole set.
LEMMA AscendingType ==
  ASSUME NEW S, NEW f \in Ascending(S)
  PROVE  /\ f \in Seq(S)
         /\ Len(f) \in 0..QueueCapacity
         /\ DOMAIN f = 1..Len(f)
         /\ \A i \in 1..Len(f) : f[i] \in S
         /\ \A i, j \in 1..Len(f) : i < j => f[i] < f[j]
         /\ \A x \in S : \E i \in 1..Len(f) : f[i] = x
<1>1. PICK k \in 0..QueueCapacity : f \in [1..k -> S]
  BY DEF Ascending
<1>2. k \in Nat
  BY <1>1, ConstantsOK
<1>3. f \in Seq(S) /\ Len(f) = k /\ DOMAIN f = 1..k
  BY <1>1, <1>2
<1> QED  BY <1>1, <1>2, <1>3 DEF Ascending

LEMMA NextSeqType ==
  ASSUME NEW k \in Nat, TypeOK
  PROVE  NextSeq(k) \in 0..(SeqMod - 1)
BY ConstantsOK DEF NextSeq, TypeOK

LEMMA BroadcastsType ==
  ASSUME NEW k \in Nat, NEW heard, TypeOK, Broadcasts(k, heard)
  PROVE  sequence' \in 0..(SeqMod - 1) /\ air' \subseteq Reply
BY NextSeqType DEF Broadcasts, TypeOK

LEMMA SendType ==
  ASSUME TypeOK, NEW r \in Entry, r.node # Everyone, Send(r)
  PROVE  /\ pending' \in Requests
         /\ pending'.req = r
         /\ sequence' \in 0..(SeqMod - 1)
         /\ air' \subseteq Reply
         /\ took' \in [Corrs -> SUBSET Nodes]
<1> DEFINE s == NextSeq(1)
<1>1. s \in 0..(SeqMod - 1)
  BY NextSeqType
<1>2. r.node \in Nodes
  BY DEF Entry
<1>3. pending' = [req |-> r, seq |-> s] /\ sequence' = s
  BY DEF Send
<1>4. pending' \in Requests /\ pending'.req = r
  BY <1>1, <1>3 DEF Requests
<1>5. \A ok \in BOOLEAN : [node |-> r.node, seq |-> s, ok |-> ok, of |-> r] \in Reply
  BY <1>1, <1>2 DEF Reply
<1>6. air \subseteq Reply /\ took \in [Corrs -> SUBSET Nodes]
  BY DEF TypeOK
<1>7. air' \subseteq Reply
  BY <1>5, <1>6 DEF Send
<1>8. took' \in [Corrs -> SUBSET Nodes]
  <2>1. took' = took
        \/ (r.for # NoCorr /\ took' = [took EXCEPT ![r.for] = @ \cup {r.node}])
    BY DEF Send
  <2>2. r.for \in Corrs \cup {NoCorr}
    BY DEF Entry, Anybody
  <2> QED  BY <1>2, <1>6, <2>1, <2>2
<1> QED  BY <1>1, <1>3, <1>4, <1>7, <1>8

LEMMA PlainType ==
  ASSUME NEW n \in Nodes \cup {Everyone}, NEW t \in Types
  PROVE  Plain(n, t) \in Entry /\ Plain(n, t).corr = NoCorr /\ Plain(n, t).node = n
BY DEF Plain, Entry, Anybody

RawType == [active : BOOLEAN, corr : Anybody, target : SUBSET Nodes,
            done : SUBSET Nodes, valid : SUBSET Nodes, from : SUBSET Anybody]

LEMMA ResultType ==
  ASSUME TypeOK, NEW c \in Anybody, NEW st \in {"applied", "rejected", "timeout"},
         NEW from \in SUBSET Anybody
  PROVE  Result(c, st, from) \in [Corrs -> Seq(Terminal)]
<1>1. [status |-> st, from |-> from] \in Terminal
  BY DEF Terminal
<1>2. CASE c = NoCorr
  BY <1>2 DEF Result, TypeOK
<1>3. CASE c \in Corrs
  <2>1. results[c] \in Seq(Terminal)
    BY <1>3 DEF TypeOK
  <2>2. Append(results[c], [status |-> st, from |-> from]) \in Seq(Terminal)
    BY <1>1, <2>1
  <2>3. c # NoCorr
    BY <1>3, ConstantsOK
  <2> QED  BY <1>3, <2>2, <2>3 DEF Result, TypeOK
<1> QED  BY <1>2, <1>3 DEF Anybody

LEMMA SweptType ==
  ASSUME TypeOK, NEW r \in RawType, Swept(r)
  PROVE  raw' \in RawType /\ results' \in [Corrs -> Seq(Terminal)]
<1>1. results \in [Corrs -> Seq(Terminal)]
  BY DEF TypeOK
<1>2. [r EXCEPT !.active = FALSE] \in RawType /\ r.corr \in Anybody /\ r.from \in SUBSET Anybody
  BY DEF RawType
<1>3. \A st \in {"applied", "rejected", "timeout"} :
        Result(r.corr, st, r.from) \in [Corrs -> Seq(Terminal)]
  BY <1>2, ResultType
<1>4. CASE r.active /\ r.target \subseteq r.done
  BY <1>2, <1>3, <1>4 DEF Swept
<1>5. CASE ~(r.active /\ r.target \subseteq r.done)
  BY <1>1, <1>5 DEF Swept
<1> QED  BY <1>4, <1>5

LEMMA SyncOfType ==
  ASSUME NEW n \in Nodes
  PROVE  /\ SyncOf(n) \in Seq(Entry) /\ Len(SyncOf(n)) = 3
         /\ \A i \in 1..3 : SyncOf(n)[i] \in Entry /\ SyncOf(n)[i].corr = NoCorr
<1>1. {"Orientation", "RuntimeMode", "Info"} \subseteq Types
  BY DEF Types, SyncFrames
<1>2. \A t \in Types : Plain(n, t) \in Entry /\ Plain(n, t).corr = NoCorr
  BY PlainType
<1> QED  BY <1>1, <1>2 DEF SyncOf

\* A queue of entries that fits its slots.
Fit(q) == q \in Seq(Entry) /\ Len(q) <= QueueCapacity

LEMMA ConcatType ==
  ASSUME NEW q \in Seq(Entry), NEW p \in Seq(Entry)
  PROVE  q \o p \in Seq(Entry) /\ Len(q \o p) = Len(q) + Len(p)
BY ConcatProperties

LEMMA ConcatFits ==
  ASSUME NEW q \in Seq(Entry), NEW p \in Seq(Entry), Len(q) + Len(p) <= QueueCapacity
  PROVE  Fit(q \o p)
BY ConcatType DEF Fit

LEMMA WithSyncType ==
  ASSUME TypeOK, NEW n \in Nodes
  PROVE  Fit(WithSync(n))
<1>1. queue \in Seq(Entry) /\ Len(queue) <= QueueCapacity /\ Len(queue) \in Nat
  BY DEF TypeOK
<1>2. SyncOf(n) \in Seq(Entry) /\ Len(SyncOf(n)) = 3
  BY SyncOfType
<1>3. Len(queue) + 3 <= QueueCapacity => Fit(queue \o SyncOf(n))
  BY <1>1, <1>2, ConcatFits
<1> QED  BY <1>1, <1>3, ConstantsOK DEF WithSync, Fit

\* The frames of a handoff and of the flasher: none of them carries a correlation.
FwFrames(p) ==
    /\ p \in Seq(Entry)
    /\ \A i \in 1..Len(p) :
        /\ p[i].type \in Handoff \cup AfterBoot \cup {"MaintenanceBegin"}
        /\ p[i].corr = NoCorr

LEMMA FwFramesType ==
  ASSUME NEW n \in Nodes
  PROVE  /\ FwFrames(<<>>)
         /\ \A t \in AfterBoot : FwFrames(<<Plain(n, t)>>) /\ Len(<<Plain(n, t)>>) = 1
         /\ FwFrames(HandoffFrames(n)) /\ Len(HandoffFrames(n)) = 3
<1>1. Handoff \cup AfterBoot \cup {"MaintenanceBegin"} \subseteq Types
  BY DEF Types
<1>2. \A t \in Types, m \in {n, Everyone} :
        Plain(m, t) \in Entry /\ Plain(m, t).corr = NoCorr /\ Plain(m, t).type = t
  BY PlainType DEF Plain
<1>3. FwFrames(<<>>)
  BY DEF FwFrames
<1>4. \A t \in AfterBoot : FwFrames(<<Plain(n, t)>>) /\ Len(<<Plain(n, t)>>) = 1
  <2> TAKE t \in AfterBoot
  <2>1. t \in Types
    BY <1>1
  <2> DEFINE r == Plain(n, t)
  <2>2. r \in Entry /\ r.corr = NoCorr /\ r.type = t
    BY <1>2, <2>1
  <2> HIDE DEF r
  <2>3. FwFrames(<<r>>) /\ Len(<<r>>) = 1
    BY <2>2 DEF FwFrames
  <2> QED  BY <2>3 DEF r
<1>5. FwFrames(HandoffFrames(n)) /\ Len(HandoffFrames(n)) = 3
  <2> DEFINE a == Plain(Everyone, "MaintenanceBegin")
             b == Plain(n, "FwPrepare")
             d == Plain(n, "FwEnterBootloader")
  <2>1. /\ a \in Entry /\ a.corr = NoCorr /\ a.type = "MaintenanceBegin"
        /\ b \in Entry /\ b.corr = NoCorr /\ b.type \in Handoff
        /\ d \in Entry /\ d.corr = NoCorr /\ d.type \in Handoff
    BY <1>1, <1>2 DEF Handoff
  <2>2. HandoffFrames(n) = <<a, b, d>>
    BY DEF HandoffFrames
  <2> HIDE DEF a, b, d
  <2> QED  BY <2>1, <2>2 DEF FwFrames
<1> QED  BY <1>3, <1>4, <1>5

LEMMA RoomType ==
  ASSUME NEW q, Fit(q), NEW p \in Seq(Entry)
  PROVE  Fit(Put(q, p)) /\ Put(q, p) \in {q, q \o p}
<1>1. CASE Len(q) + Len(p) <= QueueCapacity
  BY <1>1, ConcatFits DEF Put, Fit
<1>2. CASE ~(Len(q) + Len(p) <= QueueCapacity)
  BY <1>2 DEF Put
<1> QED  BY <1>1, <1>2

LEMMA PurgeType ==
  ASSUME NEW q, Fit(q), NEW f \in Ascending(Kept(q))
  PROVE  /\ Fit([i \in DOMAIN f |-> q[f[i]]])
         /\ Len([i \in DOMAIN f |-> q[f[i]]]) = Len(f)
<1>1. /\ f \in Seq(Kept(q)) /\ Len(f) \in 0..QueueCapacity /\ DOMAIN f = 1..Len(f)
      /\ \A i \in 1..Len(f) : f[i] \in Kept(q)
  BY AscendingType
<1>2. \A i \in 1..Len(f) : q[f[i]] \in Entry
  BY <1>1 DEF Kept, Fit
<1>3. Len(f) \in Nat /\ Len(f) <= QueueCapacity
  BY <1>1, ConstantsOK
<1>4. [i \in 1..Len(f) |-> q[f[i]]] \in Seq(Entry)
      /\ Len([i \in 1..Len(f) |-> q[f[i]]]) = Len(f)
  BY <1>2, <1>3
<1> QED  BY <1>1, <1>3, <1>4 DEF Fit

LEMMA PendingType ==
  ASSUME TypeOK, pending # NoRequest
  PROVE  /\ pending.req \in Entry /\ pending.seq \in 0..(SeqMod - 1)
         /\ pending.req.node \in Nodes /\ pending.req.corr \in Anybody
         /\ pending.req.for \in Anybody /\ pending.req.type \in Types
BY DEF TypeOK, Requests, Entry

\* What Respond and Expire leave to their callers: the wire and the handoff.
LEMMA RespondType ==
  ASSUME TypeOK, NEW e \in air, Expected(e), NEW next, FwFrames(next), Respond(e, next)
  PROVE  /\ pending' = NoRequest
         /\ online' \subseteq Nodes /\ misses' \in [Nodes -> 0..OfflineThreshold]
         /\ needsSync' \subseteq Nodes
         /\ Fit(queue')
         /\ raw' \in RawType /\ results' \in [Corrs -> Seq(Terminal)]
<1> DEFINE n == pending.req.node
<1>1. pending # NoRequest /\ n \in Nodes /\ pending.req.corr \in Anybody
  BY PendingType DEF Expected
<1>2. e.of.for \in Anybody
  BY DEF TypeOK, Reply, Entry
<1>3. pending' = NoRequest /\ online' \subseteq Nodes
      /\ misses' \in [Nodes -> 0..OfflineThreshold]
  BY <1>1, ConstantsOK DEF Respond, TypeOK
<1>4. Fit(queue) /\ Fit(WithSync(n))
  BY <1>1, WithSyncType DEF Fit, TypeOK
<1>5. needsSync' \subseteq Nodes
  <2>1. needsSync \subseteq Nodes
    BY DEF TypeOK
  <2>2. needsSync' \in {needsSync, needsSync \ {n}, needsSync \cup {n}}
    BY DEF Respond
  <2> QED  BY <1>1, <2>1, <2>2
<1>6. Fit(queue')
  <2>1. PICK q \in {queue, WithSync(n)} :
          \/ queue' = Put(q, next)
          \/ \E f \in Ascending(Kept(q)) : queue' = [i \in DOMAIN f |-> q[f[i]]]
    BY DEF Respond
  <2>2. Fit(q) /\ next \in Seq(Entry)
    BY <1>4 DEF FwFrames
  <2> QED  BY <2>1, <2>2, PurgeType, RoomType
<1>7. raw' \in RawType /\ results' \in [Corrs -> Seq(Terminal)]
  <2>1. raw \in RawType
    BY DEF TypeOK, RawType
  <2>2. CASE pending.req.type = "GetRawScan"
    <3> DEFINE good == [raw EXCEPT !.done = @ \cup {n}, !.valid = @ \cup {n},
                                   !.from = @ \cup {e.of.for}]
               bad  == [raw EXCEPT !.done = @ \cup {n}]
    <3>1. good \in RawType /\ bad \in RawType
      BY <1>1, <1>2, <2>1 DEF RawType
    <3>2. Swept(IF e.ok THEN good ELSE bad)
      BY <2>2 DEF Respond
    <3> HIDE DEF good, bad
    <3>3. (IF e.ok THEN good ELSE bad) \in RawType
      BY <3>1
    <3> QED  BY <3>2, <3>3, SweptType
  <2>3. CASE pending.req.type # "GetRawScan"
    <3>1. raw' = raw
          /\ results' = Result(pending.req.corr, IF e.ok THEN "applied" ELSE "rejected",
                               {e.of.for})
      BY <2>3 DEF Respond
    <3> QED  BY <1>1, <1>2, <2>1, <3>1, ResultType
  <2> QED  BY <2>2, <2>3
<1> QED  BY <1>3, <1>5, <1>6, <1>7

LEMMA ExpireType ==
  ASSUME TypeOK, pending # NoRequest, Expire
  PROVE  /\ pending' = NoRequest
         /\ online' \subseteq Nodes /\ misses' \in [Nodes -> 0..OfflineThreshold]
         /\ raw' \in RawType /\ results' \in [Corrs -> Seq(Terminal)]
<1> DEFINE n == pending.req.node
<1>1. n \in Nodes /\ pending.req.corr \in Anybody
  BY PendingType
<1>2. pending' = NoRequest /\ online' \subseteq Nodes
  BY <1>1 DEF Expire, TypeOK
<1>3. misses' \in [Nodes -> 0..OfflineThreshold]
  <2>1. misses \in [Nodes -> 0..OfflineThreshold] /\ misses[n] \in 0..OfflineThreshold
    BY <1>1 DEF TypeOK
  <2>2. (IF misses[n] < OfflineThreshold THEN misses[n] + 1 ELSE misses[n])
          \in 0..OfflineThreshold
    BY <2>1, ConstantsOK
  <2> QED  BY <2>1, <2>2 DEF Expire
<1>4. raw' \in RawType /\ results' \in [Corrs -> Seq(Terminal)]
  <2>1. raw \in RawType
    BY DEF TypeOK, RawType
  <2> DEFINE bad == [raw EXCEPT !.done = @ \cup {n}]
  <2>2. bad \in RawType
    BY <1>1, <2>1 DEF RawType
  <2>3. CASE pending.req.type = "GetRawScan"
    <3>1. Swept(bad)
      BY <2>3 DEF Expire
    <3> HIDE DEF bad
    <3> QED  BY <2>2, <3>1, SweptType
  <2>4. CASE pending.req.type # "GetRawScan"
    <3>1. raw' = raw /\ results' = Result(pending.req.corr, "timeout", {})
      BY <2>4 DEF Expire
    <3> QED  BY <1>1, <2>1, <3>1, ResultType
  <2> QED  BY <2>3, <2>4
<1> QED  BY <1>2, <1>3, <1>4

LEMMA FramesType ==
  ASSUME NEW S \in SUBSET Nodes, NEW f \in Ascending(S), NEW k \in 0..Len(f),
         NEW t \in {"Command", "RuntimeMode"}, NEW c \in Corrs
  PROVE  Frames(f, k, t, c) \in Seq(Entry) /\ Len(Frames(f, k, t, c)) = k
<1>1. Len(f) \in 0..QueueCapacity /\ DOMAIN f = 1..Len(f) /\ \A i \in 1..Len(f) : f[i] \in S
  BY AscendingType
<1>2. k \in Nat /\ 1..k \subseteq 1..Len(f)
  BY <1>1, ConstantsOK
<1>3. t \in Types /\ t \notin Handoff \cup AfterBoot \cup {"GetRawScan"}
  BY DEF Types, SyncFrames, Handoff, AfterBoot
<1>4. \A i \in 1..k :
        [node |-> f[i], type |-> t, for |-> c,
         corr |-> IF i = Len(f) THEN c ELSE NoCorr] \in Entry
  BY <1>1, <1>2, <1>3, ConstantsOK DEF Entry, Anybody
<1> QED  BY <1>2, <1>4 DEF Frames

LEMMA AnswerType ==
  ASSUME TypeOK, NEW c \in Corrs, NEW word \in {"accepted", "rejected"},
         NEW nodes \in SUBSET Nodes, Answer(c, word, nodes)
  PROVE  /\ told' \in [Corrs -> {"none", "accepted", "rejected"}]
         /\ reach' \in [Corrs -> SUBSET Nodes]
BY DEF Answer, TypeOK

-----------------------------------------------------------------------------
(* One step per action. *)

\* A reply is taken: the flasher may have queued a frame of its own on it.
Answered(e) == Expected(e) /\ \E next : FwFrames(next) /\ Respond(e, next)

FlasherType == [phase : Phases, todo : SUBSET Nodes, tries : 0..HealthPolls]

LEMMA NoFlashType == NoFlash \in FlasherType
BY BoundsAssumption DEF NoFlash, FlasherType, Phases

LEMMA PassesType ==
  ASSUME TypeOK, NEW e \in air, Expected(e), Passes(e)
  PROVE  Answered(e) /\ flasher' \in FlasherType
<1> DEFINE n == pending.req.node
<1>1. n \in Nodes
  BY PendingType DEF Expected
<1>2. flasher \in FlasherType /\ 0 \in 0..HealthPolls
  BY BoundsAssumption DEF TypeOK, FlasherType
<1>3. CASE Respond(e, <<Plain(n, "FwConfirm")>>)
           /\ flasher' = [flasher EXCEPT !.phase = "Confirm", !.tries = 0]
  <2>1. flasher' \in FlasherType
    BY <1>2, <1>3 DEF FlasherType, Phases
  <2>2. "FwConfirm" \in AfterBoot
    BY DEF AfterBoot
  <2> QED  BY <1>1, <1>3, <2>1, <2>2, FwFramesType DEF Answered
<1>4. CASE /\ Respond(e, <<>>)
           /\ flasher' = IF flasher.todo = {n} THEN NoFlash
                         ELSE [phase |-> "AwaitBoot", todo |-> flasher.todo \ {n},
                               tries |-> 0]
  <2>1. [phase |-> "AwaitBoot", todo |-> flasher.todo \ {n}, tries |-> 0] \in FlasherType
    BY <1>2 DEF FlasherType, Phases
  <2> QED  BY <1>1, <1>4, <2>1, FwFramesType, NoFlashType DEF Answered
<1> QED  BY <1>3, <1>4 DEF Passes

LEMMA ReceiveAnswers ==
  ASSUME TypeOK, NEW e \in air, Receive(e)
  PROVE  Answered(e)
<1>1. Expected(e) /\ pending.req.node \in Nodes
  BY PendingType DEF Receive, Expected
<1> QED  BY <1>1, FwFramesType, PassesType DEF Receive, Answered

\* A reply leaves the server's view of the command alone.
LEMMA AnsweredType ==
  ASSUME TypeOK, NEW e \in air, Answered(e), sequence' \in 0..(SeqMod - 1),
         air' \subseteq Reply, flasher' \in FlasherType,
         handoff' \in {"no", "owned", "adrift"}, handoffs' \in Nat
  PROVE  TypeOK'
<1>1. PICK next : FwFrames(next) /\ Respond(e, next)
  BY DEF Answered
<1>2. told' = told /\ reach' = reach /\ took' = took /\ sweeps' = sweeps
  BY <1>1 DEF Respond
<1>3. Expected(e)
  BY DEF Answered
<1> QED  BY <1>1, <1>2, <1>3, RespondType DEF TypeOK, RawType, FlasherType, Fit

LEMMA TypeReceive ==
  ASSUME TypeOK, NEW e \in air, Receive(e)
  PROVE  TypeOK'
<1>1. Answered(e) /\ Expected(e) /\ handoffs' \in Nat
  BY ReceiveAnswers DEF Receive, TypeOK
<1>2. sequence \in 0..(SeqMod - 1) /\ flasher \in FlasherType /\ air \subseteq Reply
  BY DEF TypeOK, FlasherType
<1>3. CASE ~Heeded(e)
  <2>1. /\ handoff' = Entered(e) /\ air' = air \ {e}
        /\ sequence' = sequence /\ flasher' = flasher
    BY <1>3 DEF Receive
  <2>2. handoff' \in {"no", "owned", "adrift"}
    BY <2>1 DEF Entered
  <2> QED  BY <1>1, <1>2, <2>1, <2>2, AnsweredType
<1>4. CASE Passes(e) /\ air' = air \ {e} /\ UNCHANGED <<sequence, handoff>>
  <2>1. flasher' \in FlasherType /\ handoff' \in {"no", "owned", "adrift"}
    BY <1>1, <1>4, PassesType DEF TypeOK
  <2> QED  BY <1>1, <1>2, <1>4, <2>1, AnsweredType
<1>5. CASE flasher' = NoFlash /\ EndFirmwareMaintenance({e})
  <2>1. /\ sequence' \in 0..(SeqMod - 1) /\ air' \subseteq Reply
        /\ handoff' \in {"no", "owned", "adrift"}
    BY <1>5, BroadcastsType DEF EndFirmwareMaintenance
  <2> QED  BY <1>1, <1>5, <2>1, NoFlashType, AnsweredType
<1> QED  BY <1>3, <1>4, <1>5 DEF Receive

LEMMA TypeTimeout ==
  ASSUME TypeOK, Timeout
  PROVE  TypeOK'
<1>1. Expire /\ pending # NoRequest
      /\ handoff' = handoff /\ air' = air /\ sequence' = sequence /\ handoffs' = handoffs
      /\ flasher' = flasher
  BY DEF Timeout
<1>2. needsSync' = needsSync /\ queue' = queue /\ told' = told /\ reach' = reach /\ took' = took
      /\ sweeps' = sweeps
  BY <1>1 DEF Expire
<1> QED  BY <1>1, <1>2, ExpireType DEF TypeOK, RawType

LEMMA TypeStartQueued ==
  ASSUME TypeOK, StartQueued
  PROVE  TypeOK'
<1>1. queue \in Seq(Entry) /\ queue # <<>> /\ Len(queue) <= QueueCapacity
  BY DEF TypeOK, StartQueued
<1>2. Head(queue) \in Entry /\ Tail(queue) \in Seq(Entry) /\ Len(Tail(queue)) = Len(queue) - 1
  BY <1>1, HeadTailProperties
<1>3. queue' \in Seq(Entry) /\ Len(queue') <= QueueCapacity
  BY <1>1, <1>2, ConstantsOK DEF StartQueued
<1>4. CASE Head(queue).node = Everyone
  <2>1. Broadcasts(1, {}) /\ pending' = pending /\ took' = took
    BY <1>4 DEF StartQueued
  <2> QED  BY <1>3, <2>1, BroadcastsType DEF TypeOK, StartQueued
<1>5. CASE Head(queue).node # Everyone
  <2>1. Send(Head(queue))
    BY <1>5 DEF StartQueued
  <2> QED  BY <1>2, <1>3, <1>5, <2>1, SendType DEF TypeOK, StartQueued
<1> QED  BY <1>4, <1>5

LEMMA TypeScheduled ==
  ASSUME TypeOK, NEW r \in Entry, r.node # Everyone, Scheduled(r)
  PROVE  TypeOK'
<1>1. Send(r)
  BY DEF Scheduled
<1> QED  BY <1>1, SendType DEF TypeOK, Scheduled

\* The requests of the raw sweep and of polling.
LEMMA SweepEntry ==
  ASSUME TypeOK, NEW n \in Nodes
  PROVE  [node |-> n, type |-> "GetRawScan", corr |-> NoCorr, for |-> raw.corr] \in Entry
BY DEF TypeOK, Entry, Anybody, Types

LEMMA TypeSchedule ==
  ASSUME TypeOK, Schedule
  PROVE  TypeOK'
<1>1. CASE RenderWindow
  BY <1>1, BroadcastsType DEF RenderWindow, TypeOK, hist
<1>2. CASE StartQueued
  BY <1>2, TypeStartQueued
<1>3. CASE QueueSync
  <2>1. PICK n \in SyncDue : queue' = WithSync(n) /\ needsSync' = needsSync \ {n}
    BY <1>3 DEF QueueSync
  <2>2. n \in Nodes
    BY DEF SyncDue, TypeOK
  <2>3. Fit(queue')
    BY <2>1, <2>2, WithSyncType
  <2> QED  BY <1>3, <2>1, <2>3 DEF QueueSync, TypeOK, Fit, hist
<1>4. CASE RawNext
  <2>1. PICK n \in raw.target \ raw.done :
          Scheduled([node |-> n, type |-> "GetRawScan", corr |-> NoCorr, for |-> raw.corr])
    BY <1>4 DEF RawNext
  <2>2. n \in Nodes
    BY DEF TypeOK
  <2> QED  BY <2>1, <2>2, SweepEntry, TypeScheduled, ConstantsOK
<1>5. CASE PollNext
  <2>1. PICK n \in Nodes, t \in PollFrames \cup {"Ping"} : Scheduled(Plain(n, t))
    BY <1>5 DEF PollNext
  <2>2. t \in Types
    BY DEF Types
  <2> QED  BY <2>1, <2>2, PlainType, TypeScheduled, ConstantsOK
<1> QED  BY <1>1, <1>2, <1>3, <1>4, <1>5 DEF Schedule

LEMMA TypeFanout ==
  ASSUME TypeOK, NEW c \in Corrs, NEW nodes \in SUBSET Nodes, Fanout(c, nodes)
  PROVE  TypeOK'
<1>1. PICK f \in Ascending(nodes \cap online) :
        IF f # <<>> /\ Len(queue) + Len(f) <= QueueCapacity
        THEN /\ queue' = queue \o Frames(f, Len(f), "Command", c)
             /\ Answer(c, "accepted", nodes \cap online)
        ELSE /\ Answer(c, "rejected", {})
             /\ UNCHANGED queue
  BY DEF Fanout
<1>2. Len(f) \in Nat
  BY AscendingType, ConstantsOK
<1>3. Frames(f, Len(f), "Command", c) \in Seq(Entry)
      /\ Len(Frames(f, Len(f), "Command", c)) = Len(f)
  BY <1>2, FramesType
<1>4. queue \in Seq(Entry) /\ Len(queue) <= QueueCapacity
  BY DEF TypeOK
<1>5. Fit(queue')
  BY <1>1, <1>3, <1>4, ConcatFits DEF Fit
<1>6. /\ told' \in [Corrs -> {"none", "accepted", "rejected"}]
      /\ reach' \in [Corrs -> SUBSET Nodes]
  BY <1>1, AnswerType DEF TypeOK
<1> QED  BY <1>5, <1>6 DEF Fanout, TypeOK, Fit

LEMMA TypeEveryNode ==
  ASSUME TypeOK, NEW c \in Corrs, NEW t \in {"Command", "RuntimeMode"}, EveryNode(c, t)
  PROVE  TypeOK'
<1>1. PICK f \in Ascending(online), k \in 0..QueueCapacity :
        /\ k <= Len(f)
        /\ Len(queue) + k <= QueueCapacity
        /\ queue' = queue \o Frames(f, k, t, c)
        /\ Answer(c, IF k = Len(f) THEN "accepted" ELSE "rejected",
                     IF k = Len(f) THEN online ELSE {})
  BY DEF EveryNode
<1>2. Len(f) \in Nat /\ k \in 0..Len(f)
  BY <1>1, AscendingType, ConstantsOK
<1>3. Frames(f, k, t, c) \in Seq(Entry) /\ Len(Frames(f, k, t, c)) = k
  <2>1. online \in SUBSET Nodes
    BY DEF TypeOK
  <2>2. f \in Ascending(online)
    BY <1>1
  <2> QED  BY <1>2, <2>1, <2>2, FramesType
<1>4. queue \in Seq(Entry)
  BY DEF TypeOK
<1>5. Fit(queue')
  BY <1>1, <1>3, <1>4, ConcatFits
<1>6. /\ told' \in [Corrs -> {"none", "accepted", "rejected"}]
      /\ reach' \in [Corrs -> SUBSET Nodes]
  BY <1>1, AnswerType DEF TypeOK
<1> QED  BY <1>5, <1>6 DEF EveryNode, TypeOK, Fit

LEMMA TypeRawScan ==
  ASSUME TypeOK, NEW c \in Anybody, RequestRawScan(c)
  PROVE  TypeOK'
<1> DEFINE fresh == [NoSweep EXCEPT !.active = TRUE, !.corr = c, !.target = online]
<1>1. fresh \in RawType
  BY DEF NoSweep, RawType, TypeOK
<1>2. raw' \in {fresh, raw}
  BY DEF RequestRawScan
<1>3. raw \in RawType
  BY DEF TypeOK, RawType
<1>4. sweeps' \in Nat
  BY DEF RequestRawScan, TypeOK
<1>5. /\ told' \in [Corrs -> {"none", "accepted", "rejected"}]
      /\ reach' \in [Corrs -> SUBSET Nodes]
  BY DEF RequestRawScan, Answer, TypeOK
<1> HIDE DEF fresh
<1>6. raw' \in RawType
  BY <1>1, <1>2, <1>3
<1> QED  BY <1>4, <1>5, <1>6 DEF RequestRawScan, TypeOK, RawType

\* The bus is taken back with one broadcast, or nothing had been handed over.
LEMMA TypeFails ==
  ASSUME TypeOK, Fails
  PROVE  /\ sequence' \in 0..(SeqMod - 1) /\ air' \subseteq air
         /\ flasher' \in FlasherType /\ handoff' \in {"no", "owned", "adrift"}
<1>1. flasher' \in FlasherType
  BY NoFlashType DEF Fails
<1>2. CASE UNCHANGED <<handoff, sequence, air>>
  BY <1>1, <1>2 DEF TypeOK
<1>3. CASE EndFirmwareMaintenance({})
  BY <1>1, <1>3, BroadcastsType DEF EndFirmwareMaintenance, Broadcasts
<1> QED  BY <1>2, <1>3 DEF Fails

\* What the flasher and the console do to the bus when no request is closed by it.
Quiet ==
    /\ UNCHANGED <<online, misses, needsSync, pending, raw, told, reach, results, took,
                   sweeps>>
    /\ air' \subseteq air
    /\ queue' = queue \/ \E p : FwFrames(p) /\ queue' = queue \o p

\* With it, the rest of what the types ask.
Sound ==
    /\ Fit(queue')
    /\ sequence' \in 0..(SeqMod - 1)
    /\ flasher' \in FlasherType
    /\ handoff' \in {"no", "owned", "adrift"}
    /\ handoffs' \in Nat

LEMMA QuietTick ==
  ASSUME TypeOK, FlasherTick
  PROVE  Quiet /\ Sound
<1> DEFINE seen == /\ flasher \in FlasherType /\ sequence \in 0..(SeqMod - 1)
                   /\ handoff \in {"no", "owned", "adrift"} /\ handoffs \in Nat
                   /\ Fit(queue)
<1>1. seen
  BY DEF TypeOK, FlasherType, Fit
<1>2. \A ph \in Phases : [flasher EXCEPT !.phase = ph] \in FlasherType
  BY <1>1 DEF FlasherType
<1>3. CASE TickAwaitHandoff
  <2>1. queue' = queue /\ UNCHANGED Still
    BY <1>3 DEF TickAwaitHandoff
  <2>2. CASE Fails
    BY <1>1, <2>1, <2>2, TypeFails DEF Quiet, Sound, Still, hist
  <2>3. CASE /\ flasher' = [flasher EXCEPT !.phase = "Program"]
             /\ UNCHANGED <<handoff, sequence, air>>
    <3>1. flasher' \in FlasherType
      BY <1>2, <2>3 DEF Phases
    <3> QED  BY <1>1, <2>1, <2>3, <3>1 DEF Quiet, Sound, Still, hist
  <2> QED  BY <1>3, <2>2, <2>3 DEF TickAwaitHandoff
<1>4. CASE TickProgram
  <2>1. queue' = queue /\ UNCHANGED Still
    BY <1>4 DEF TickProgram
  <2>2. sequence' \in 0..(SeqMod - 1) /\ air' \subseteq air /\ handoff' = "no"
    BY <1>4, BroadcastsType DEF TickProgram, EndFirmwareMaintenance, Broadcasts
  <2>3. flasher' \in FlasherType
    BY <1>2, <1>4, NoFlashType DEF TickProgram, Phases
  <2> QED  BY <1>1, <2>1, <2>2, <2>3 DEF Quiet, Sound, Still, hist
<1>5. CASE TickAwaitBoot
  <2>1. PICK n \in flasher.todo : queue' = Append(queue, Plain(n, "FwHealth"))
    BY <1>5 DEF TickAwaitBoot
  <2>2. n \in Nodes /\ "FwHealth" \in AfterBoot
    BY <1>1 DEF FlasherType, AfterBoot
  <2> DEFINE p == <<Plain(n, "FwHealth")>>
  <2>3. FwFrames(p) /\ Len(p) = 1 /\ p \in Seq(Entry)
    BY <2>2, FwFramesType DEF FwFrames
  <2>4. queue' = queue \o p
    <3>1. Plain(n, "FwHealth") \in Entry
      BY <2>2, PlainType DEF Types
    <3> QED  BY <1>1, <2>1, <3>1 DEF Fit
  <2> HIDE DEF p
  <2>5. Len(queue) + Len(p) <= QueueCapacity
    BY <1>1, <1>5, <2>3, ConstantsOK DEF TickAwaitBoot, Fit
  <2>6. Fit(queue')
    BY <1>1, <2>3, <2>4, <2>5, ConcatFits DEF Fit
  <2>7. flasher' \in FlasherType
    BY <1>2, <1>5 DEF TickAwaitBoot, Phases
  <2> QED  BY <1>1, <1>5, <2>3, <2>4, <2>6, <2>7
           DEF TickAwaitBoot, Quiet, Sound, Still, hist
<1>6. CASE TickAnswer
  <2>1. UNCHANGED Still
    BY <1>6 DEF TickAnswer
  <2>2. CASE Fails /\ UNCHANGED queue
    BY <1>1, <2>1, <2>2, TypeFails DEF Quiet, Sound, Still, hist
  <2>3. CASE flasher.tries < HealthPolls
    <3> DEFINE t == IF flasher.phase = "Health" THEN "FwHealth" ELSE "FwConfirm"
    <3>1. PICK n \in flasher.todo : queue' = Put(queue, <<Plain(n, t)>>)
      BY <1>6, <2>3 DEF TickAnswer
    <3>2. n \in Nodes /\ t \in AfterBoot
      BY <1>1 DEF FlasherType, AfterBoot
    <3> HIDE DEF t
    <3> DEFINE p == <<Plain(n, t)>>
    <3>3. FwFrames(p) /\ p \in Seq(Entry)
      BY <3>2, FwFramesType DEF FwFrames
    <3> HIDE DEF p
    <3>4. queue' = Put(queue, p)
      BY <3>1 DEF p
    <3>5. Fit(queue') /\ queue' \in {queue, queue \o p}
      BY <1>1, <3>3, <3>4, RoomType
    <3>6. flasher' \in FlasherType /\ UNCHANGED <<handoff, sequence, air>>
      <4>1. /\ flasher' = [flasher EXCEPT !.tries = @ + 1]
            /\ UNCHANGED <<handoff, sequence, air>>
        BY <1>6, <2>3 DEF TickAnswer
      <4> QED  BY <1>1, <2>3, <4>1, BoundsAssumption DEF FlasherType
    <3> QED  BY <1>1, <2>1, <3>3, <3>5, <3>6 DEF Quiet, Sound, Still, hist
  <2> QED  BY <1>6, <2>2, <2>3 DEF TickAnswer
<1> QED  BY <1>3, <1>4, <1>5, <1>6 DEF FlasherTick

LEMMA QuietHandoff ==
  ASSUME TypeOK, NEW n \in Nodes, BeginFirmwareHandoff(n), flasher' \in FlasherType
  PROVE  Quiet /\ Sound
<1>1. queue \in Seq(Entry) /\ Len(queue) \in Nat /\ Len(queue) + 3 <= QueueCapacity
  BY ConstantsOK DEF BeginFirmwareHandoff, TypeOK
<1>2. /\ queue' = queue \o HandoffFrames(n)
      /\ FwFrames(HandoffFrames(n)) /\ Len(HandoffFrames(n)) = 3
      /\ HandoffFrames(n) \in Seq(Entry)
  BY FwFramesType DEF BeginFirmwareHandoff, FwFrames
<1>3. Fit(queue')
  BY <1>1, <1>2, ConcatFits
<1>4. Quiet
  <2>1. UNCHANGED <<online, misses, needsSync, pending, air, raw, hist, sweeps>>
    BY DEF BeginFirmwareHandoff
  <2> QED  BY <1>2, <2>1 DEF Quiet, hist
<1>5. sequence' \in 0..(SeqMod - 1) /\ handoff' \in {"no", "owned", "adrift"}
      /\ handoffs' \in Nat
  BY DEF BeginFirmwareHandoff, TypeOK
<1> QED  BY <1>3, <1>4, <1>5 DEF Sound

\* The fleet's handoff closes the request in flight, when there is one.
LEMMA HandoffAllIs ==
  ASSUME TypeOK, BeginFirmwareHandoffAll
  PROVE  /\ sequence' \in 0..(SeqMod - 1) /\ air' \subseteq air
         /\ handoff' = "owned" /\ handoffs' \in Nat
         /\ \/ UNCHANGED <<online, misses, needsSync, queue, pending, raw, hist, sweeps>>
            \/ \E e \in air : Answered(e)
            \/ pending # NoRequest /\ Expire
<1>1. sequence' \in 0..(SeqMod - 1) /\ air' \subseteq air
  BY BroadcastsType DEF BeginFirmwareHandoffAll, Broadcasts
<1>2. handoff' = "owned" /\ handoffs' \in Nat
  BY DEF BeginFirmwareHandoffAll, TypeOK
<1>3. (\E e \in air : Expected(e) /\ Respond(e, <<>>)) => \E e \in air : Answered(e)
  <2>1. FwFrames(<<>>)
    BY DEF FwFrames
  <2> QED  BY <2>1 DEF Answered
<1> QED  BY <1>1, <1>2, <1>3 DEF BeginFirmwareHandoffAll

\* Whatever the flasher and the console do, the request in flight is closed as a
\* reply or a deadline would close it, or left alone.
LEMMA FirmwareIs ==
  ASSUME TypeOK, Firmware
  PROVE  \/ Quiet
         \/ \E e \in air : Answered(e)
         \/ pending # NoRequest /\ Expire
<1>1. flasher \in FlasherType
  BY DEF TypeOK, FlasherType
<1>2. CASE FwFlash
  BY <1>2 DEF FwFlash, Quiet, hist
<1>3. CASE FinishReceive
  <2>1. CASE \E n \in flasher.todo :
               BeginFirmwareHandoff(n) /\ flasher' = [flasher EXCEPT !.phase = "AwaitHandoff"]
    <3>1. PICK n \in flasher.todo :
            BeginFirmwareHandoff(n) /\ flasher' = [flasher EXCEPT !.phase = "AwaitHandoff"]
      BY <2>1
    <3>2. n \in Nodes /\ flasher' \in FlasherType
      BY <1>1, <3>1 DEF FlasherType, Phases
    <3> QED  BY <3>1, <3>2, QuietHandoff
  <2>2. CASE BeginFirmwareHandoffAll
    BY <2>2, HandoffAllIs DEF Quiet, hist
  <2> QED  BY <1>3, <2>1, <2>2 DEF FinishReceive
<1>4. CASE Abort
  BY <1>4, TypeFails DEF Abort, Quiet, Still, hist
<1>5. CASE FlasherTick
  BY <1>5, QuietTick
<1>6. CASE \E n \in Nodes : FwEnter(n)
  BY <1>1, <1>6, QuietHandoff DEF FwEnter
<1>7. CASE FwEnd
  BY <1>7 DEF FwEnd, EndFirmwareMaintenance, Broadcasts, Quiet, Still, hist
<1> QED  BY <1>2, <1>3, <1>4, <1>5, <1>6, <1>7 DEF Firmware

LEMMA TypeQuiet ==
  ASSUME TypeOK, Quiet, Sound
  PROVE  TypeOK'
<1>1. air' \subseteq Reply
  BY DEF Quiet, TypeOK
<1> QED  BY <1>1 DEF Quiet, Sound, TypeOK, FlasherType, Fit

LEMMA TypeFirmware ==
  ASSUME TypeOK, Firmware
  PROVE  TypeOK'
<1>1. /\ flasher \in FlasherType /\ sequence \in 0..(SeqMod - 1) /\ handoffs \in Nat
      /\ handoff \in {"no", "owned", "adrift"} /\ Fit(queue) /\ air \subseteq Reply
  BY DEF TypeOK, FlasherType, Fit
<1>2. CASE FwFlash
  <2>1. PICK todo \in {{}} \cup {{n} : n \in online} :
          flasher' = [NoFlash EXCEPT !.phase = "ReceiveHex", !.todo = todo]
    BY <1>2 DEF FwFlash
  <2>2. todo \in SUBSET Nodes
    BY DEF TypeOK
  <2>3. flasher' \in FlasherType
    BY <2>1, <2>2, NoFlashType DEF FlasherType, Phases
  <2>4. Quiet /\ Sound
    BY <1>1, <1>2, <2>3 DEF FwFlash, Quiet, Sound, hist
  <2> QED  BY <2>4, TypeQuiet
<1>3. CASE \E n \in flasher.todo :
             BeginFirmwareHandoff(n) /\ flasher' = [flasher EXCEPT !.phase = "AwaitHandoff"]
  <2>1. PICK n \in flasher.todo :
          BeginFirmwareHandoff(n) /\ flasher' = [flasher EXCEPT !.phase = "AwaitHandoff"]
    BY <1>3
  <2>2. n \in Nodes /\ flasher' \in FlasherType
    BY <1>1, <2>1 DEF FlasherType, Phases
  <2> QED  BY <2>1, <2>2, QuietHandoff, TypeQuiet
<1>4. CASE /\ BeginFirmwareHandoffAll
           /\ flasher' = [flasher EXCEPT !.phase = "AwaitHandoff", !.todo = online]
  <2>1. flasher' \in FlasherType
    BY <1>1, <1>4 DEF TypeOK, FlasherType, Phases
  <2>2. /\ sequence' \in 0..(SeqMod - 1) /\ air' \subseteq Reply
        /\ handoff' \in {"no", "owned", "adrift"} /\ handoffs' \in Nat
    BY <1>1, <1>4, HandoffAllIs
  <2>3. CASE UNCHANGED <<online, misses, needsSync, queue, pending, raw, hist, sweeps>>
    BY <2>1, <2>2, <2>3 DEF TypeOK, FlasherType, hist
  <2>4. CASE \E e \in air : Answered(e)
    BY <2>1, <2>2, <2>4, AnsweredType
  <2>5. CASE pending # NoRequest /\ Expire
    <3>1. needsSync' = needsSync /\ queue' = queue
          /\ told' = told /\ reach' = reach /\ took' = took /\ sweeps' = sweeps
      BY <2>5 DEF Expire
    <3> QED  BY <2>1, <2>2, <2>5, <3>1, ExpireType DEF TypeOK, RawType, FlasherType
  <2> QED  BY <1>4, <2>3, <2>4, <2>5, HandoffAllIs
<1>5. CASE Abort
  <2>1. Quiet /\ Sound
    BY <1>1, <1>5, TypeFails DEF Abort, Quiet, Sound, Still, hist
  <2> QED  BY <2>1, TypeQuiet
<1>6. CASE FlasherTick
  BY <1>6, QuietTick, TypeQuiet
<1>7. CASE \E n \in Nodes : FwEnter(n)
  BY <1>1, <1>7, QuietHandoff, TypeQuiet DEF FwEnter
<1>8. CASE FwEnd
  <2>1. sequence' \in 0..(SeqMod - 1) /\ air' \subseteq air /\ handoff' = "no"
    BY <1>8, BroadcastsType DEF FwEnd, EndFirmwareMaintenance, Broadcasts
  <2>2. Quiet /\ Sound
    BY <1>1, <1>8, <2>1 DEF FwEnd, Quiet, Sound, Still, hist
  <2> QED  BY <2>2, TypeQuiet
<1> QED  BY <1>2, <1>3, <1>4, <1>5, <1>6, <1>7, <1>8 DEF Firmware, FinishReceive

\* A calibration of everybody with nobody online.
Nobody(c) ==
    /\ May(c)
    /\ Answer(c, "rejected", {})
    /\ UNCHANGED <<bus, air, results, took, handoffs, sweeps>>

LEMMA FromEveryNode ==
  ASSUME NEW c \in Corrs, CalibrateAll(c) \/ SetMode(c)
  PROVE  May(c) /\ (Nobody(c) \/ \E t \in {"Command", "RuntimeMode"} : EveryNode(c, t))
BY DEF CalibrateAll, SetMode, Nobody

LEMMA TypeStep ==
  ASSUME TypeOK, [Next]_vars
  PROVE  TypeOK'
<1>1. CASE \E e \in air : Receive(e)
  BY <1>1, TypeReceive
<1>2. CASE \E e \in air : Stray(e)
  BY <1>2 DEF Stray, bus, hist, TypeOK
<1>3. CASE Timeout
  BY <1>3, TypeTimeout
<1>4. CASE Schedule
  BY <1>4, TypeSchedule
<1>5. CASE Command
  <2>1. CASE \E c \in Corrs, nodes \in SUBSET Nodes : Fanout(c, nodes)
    BY <2>1, TypeFanout
  <2>2. CASE \E c \in Corrs, t \in {"Command", "RuntimeMode"} : EveryNode(c, t)
    BY <2>2, TypeEveryNode
  <2>4. CASE \E c \in Corrs : Nobody(c)
    BY <2>4, AnswerType DEF Nobody, bus, TypeOK
  <2>3. CASE \E c \in Anybody : RequestRawScan(c)
    BY <2>3, TypeRawScan
  <2> QED  BY <1>5, <2>1, <2>2, <2>3, <2>4, FromEveryNode DEF Command
<1>6. CASE Firmware
  BY <1>6, TypeFirmware
<1>7. CASE UNCHANGED vars
  BY <1>7 DEF vars, bus, hist, TypeOK
<1> QED  BY <1>1, <1>2, <1>3, <1>4, <1>5, <1>6, <1>7 DEF Next

LEMMA TypeInit == Init => TypeOK
<1> SUFFICES ASSUME Init PROVE TypeOK
  OBVIOUS
<1>1. <<>> \in Seq(Entry) /\ Len(<<>>) = 0 /\ <<>> \in Seq(Terminal)
  OBVIOUS
<1>2. NoSweep \in RawType
  BY DEF NoSweep, RawType, Anybody
<1>3. results \in [Corrs -> Seq(Terminal)] /\ queue \in Seq(Entry)
  BY <1>1 DEF Init
<1>4. Len(queue) <= QueueCapacity /\ sequence \in 0..(SeqMod - 1)
  BY <1>1, ConstantsOK DEF Init
<1>5. misses \in [Nodes -> 0..OfflineThreshold]
  BY ConstantsOK DEF Init
<1>6. flasher \in [phase : Phases, todo : SUBSET Nodes, tries : 0..HealthPolls]
  BY NoFlashType DEF Init, FlasherType
<1> QED  BY <1>2, <1>3, <1>4, <1>5, <1>6 DEF Init, TypeOK, RawType

\* Whatever the server, the operator and the quadrants do, the queue never holds
\* more than its slots and the state of the bus keeps its types.
THEOREM BusTypeCorrect == Spec => []TypeOK
BY TypeInit, TypeStep, PTL DEF Spec

-----------------------------------------------------------------------------
(***************************************************************************)
(* The ledger.  Where a correlation waits, one correlation at a time.      *)
(***************************************************************************)
Has(q, c)  == \E i \in DOMAIN q : q[i].corr = c
Once(q, c) == \A i, j \in DOMAIN q : q[i].corr = c /\ q[j].corr = c => i = j

Owed(c) ==
    IF told[c] = "accepted" /\ reach[c] # {}
    THEN IF Waiting(c) THEN results[c] = <<>> ELSE Len(results[c]) = 1
    ELSE ~Waiting(c) /\ results[c] = <<>>

OnePlace(c) ==
    /\ Once(queue, c)
    /\ ~(Queued(c) /\ Asked(c))
    /\ Sweeping(c) => ~Queued(c) /\ ~Asked(c)

Ledger(c) == Owed(c) /\ OnePlace(c)

LEMMA LedgerIs ==
  AcceptedIsOwed /\ WaitsOnce <=> \A c \in Corrs : Ledger(c)
BY DEF AcceptedIsOwed, WaitsOnce, Ledger, Owed, OnePlace, Once

LEMMA SeqDomain ==
  ASSUME NEW q \in Seq(Entry)
  PROVE  DOMAIN q = 1..Len(q) /\ Len(q) \in Nat /\ \A i \in 1..Len(q) : q[i] \in Entry
OBVIOUS

\* What is appended without c leaves c where it was.
LEMMA ConcatWithout ==
  ASSUME NEW q \in Seq(Entry), NEW p \in Seq(Entry), NEW c,
         \A i \in 1..Len(p) : p[i].corr # c
  PROVE  /\ Has(q \o p, c) <=> Has(q, c)
         /\ Once(q, c) => Once(q \o p, c)
<1>1. /\ q \o p \in Seq(Entry) /\ Len(q \o p) = Len(q) + Len(p)
      /\ \A i \in 1..Len(q) + Len(p) :
           (q \o p)[i] = IF i <= Len(q) THEN q[i] ELSE p[i - Len(q)]
  BY ConcatProperties
<1>2. /\ DOMAIN (q \o p) = 1..(Len(q) + Len(p)) /\ DOMAIN q = 1..Len(q)
      /\ Len(q) \in Nat /\ Len(p) \in Nat
  BY <1>1, SeqDomain
<1>3. \A i \in 1..(Len(q) + Len(p)) :
        /\ i <= Len(q) => (q \o p)[i] = q[i] /\ i \in 1..Len(q)
        /\ i > Len(q) => (q \o p)[i].corr # c
  <2> TAKE i \in 1..(Len(q) + Len(p))
  <2>1. CASE i <= Len(q)
    BY <1>1, <1>2, <2>1
  <2>2. CASE i > Len(q)
    <3>1. i - Len(q) \in 1..Len(p)
      BY <1>2, <2>2
    <3>2. (q \o p)[i] = p[i - Len(q)]
      BY <1>1, <1>2, <2>2
    <3> QED  BY <1>2, <2>2, <3>1, <3>2
  <2> QED  BY <1>2, <2>1, <2>2
<1>4. \A i \in 1..Len(q) : i \in 1..(Len(q) + Len(p)) /\ i <= Len(q)
  BY <1>2
<1>5. Has(q \o p, c) <=> Has(q, c)
  BY <1>2, <1>3, <1>4 DEF Has
<1>6. ASSUME Once(q, c), NEW i \in 1..(Len(q) + Len(p)), NEW j \in 1..(Len(q) + Len(p)),
             (q \o p)[i].corr = c, (q \o p)[j].corr = c
      PROVE  i = j
  <2>1. i <= Len(q) /\ j <= Len(q)
    BY <1>2, <1>3, <1>6
  <2>2. q[i].corr = c /\ q[j].corr = c /\ i \in 1..Len(q) /\ j \in 1..Len(q)
    BY <1>3, <1>6, <2>1
  <2> QED  BY <1>2, <1>6, <2>2 DEF Once
<1> QED  BY <1>2, <1>5, <1>6 DEF Once

\* A whole fan-out puts its correlation into the queue once.
LEMMA ConcatFrames ==
  ASSUME NEW q \in Seq(Entry), NEW S \in SUBSET Nodes, NEW f \in Ascending(S),
         NEW t \in {"Command", "RuntimeMode"}, NEW c \in Corrs, f # <<>>, ~Has(q, c)
  PROVE  /\ Has(q \o Frames(f, Len(f), t, c), c)
         /\ Once(q \o Frames(f, Len(f), t, c), c)
<1> DEFINE m == Len(f)
           p == Frames(f, m, t, c)
<1>1. f \in Seq(S) /\ m \in Nat /\ m # 0 /\ Len(f) \in 0..Len(f)
  BY AscendingType, ConstantsOK
<1>2. p \in Seq(Entry) /\ Len(p) = m
  BY <1>1, FramesType
<1>3. \A i \in 1..m : p[i].corr = c <=> i = m
  BY <1>1, ConstantsOK DEF Frames
<1> HIDE DEF m, p
<1>4. /\ q \o p \in Seq(Entry) /\ Len(q \o p) = Len(q) + m
      /\ \A i \in 1..Len(q) + m : (q \o p)[i] = IF i <= Len(q) THEN q[i] ELSE p[i - Len(q)]
  BY <1>2, ConcatProperties
<1>5. DOMAIN (q \o p) = 1..(Len(q) + m) /\ DOMAIN q = 1..Len(q) /\ Len(q) \in Nat
  BY <1>4, SeqDomain
<1>6. \A i \in 1..(Len(q) + m) : (q \o p)[i].corr = c <=> i = Len(q) + m
  <2> TAKE i \in 1..(Len(q) + m)
  <2>1. CASE i <= Len(q)
    <3>1. (q \o p)[i] = q[i] /\ i \in DOMAIN q /\ i # Len(q) + m
      BY <1>1, <1>4, <1>5, <2>1
    <3> QED  BY <3>1 DEF Has
  <2>2. CASE i > Len(q)
    <3> DEFINE j == i - Len(q)
    <3>1. (q \o p)[i] = p[j] /\ j \in 1..m
      BY <1>1, <1>4, <1>5, <2>2
    <3>2. j = m <=> i = Len(q) + m
      BY <1>1, <1>5
    <3> HIDE DEF j
    <3>3. p[j].corr = c <=> j = m
      BY <1>3, <3>1
    <3>4. (q \o p)[i].corr = p[j].corr
      BY <3>1
    <3> QED  BY <3>2, <3>3, <3>4
  <2>3. i <= Len(q) \/ i > Len(q)
    BY <1>1, <1>5
  <2> QED  BY <2>1, <2>2, <2>3
<1>7. Len(q) + m \in 1..(Len(q) + m)
  BY <1>1, <1>5
<1>8. Has(q \o p, c) /\ Once(q \o p, c)
  BY <1>5, <1>6, <1>7 DEF Has, Once
<1> QED  BY <1>8 DEF p, m

\* A fan-out cut short, or another command's, adds nothing of c.
LEMMA FramesWithout ==
  ASSUME NEW S \in SUBSET Nodes, NEW f \in Ascending(S), NEW k \in 0..Len(f),
         NEW t \in {"Command", "RuntimeMode"}, NEW c \in Corrs, NEW d \in Corrs,
         k # Len(f) \/ c # d
  PROVE  \A i \in 1..Len(Frames(f, k, t, c)) : Frames(f, k, t, c)[i].corr # d
<1>1. Len(f) \in Nat /\ k \in Nat
  BY AscendingType, ConstantsOK
<1>2. Len(Frames(f, k, t, c)) = k
  BY FramesType
<1> QED  BY <1>1, <1>2, ConstantsOK DEF Frames

LEMMA TailLedger ==
  ASSUME NEW q \in Seq(Entry), q # <<>>, NEW c, Once(q, c)
  PROVE  /\ Once(Tail(q), c)
         /\ Head(q).corr = c => ~Has(Tail(q), c) /\ Has(q, c)
         /\ Head(q).corr # c => (Has(Tail(q), c) <=> Has(q, c))
<1>1. /\ Tail(q) \in Seq(Entry) /\ Len(Tail(q)) = Len(q) - 1
      /\ \A i \in 1..Len(Tail(q)) : Tail(q)[i] = q[i + 1]
  BY HeadTailProperties
<1>2. /\ DOMAIN q = 1..Len(q) /\ DOMAIN Tail(q) = 1..(Len(q) - 1) /\ Len(q) \in Nat
      /\ Len(q) >= 1 /\ Head(q) = q[1]
  BY <1>1, SeqDomain
<1>3. \A i \in 1..(Len(q) - 1) : Tail(q)[i] = q[i + 1] /\ i + 1 \in 1..Len(q) /\ i + 1 # 1
  BY <1>1, <1>2
<1>4. \A i \in 1..Len(q) : i # 1 => i - 1 \in 1..(Len(q) - 1) /\ (i - 1) + 1 = i
  BY <1>2
<1>5. 1 \in 1..Len(q)
  BY <1>2
<1>6. Once(Tail(q), c)
  <2> SUFFICES ASSUME NEW i \in 1..(Len(q) - 1), NEW j \in 1..(Len(q) - 1),
                      Tail(q)[i].corr = c, Tail(q)[j].corr = c
               PROVE  i = j
    BY <1>2 DEF Once
  <2>1. i + 1 = j + 1
    BY <1>2, <1>3 DEF Once
  <2> QED  BY <1>2, <2>1
<1>7. Head(q).corr = c => ~Has(Tail(q), c) /\ Has(q, c)
  BY <1>2, <1>3, <1>5 DEF Has, Once
<1>8. Head(q).corr # c => (Has(Tail(q), c) <=> Has(q, c))
  <2> SUFFICES ASSUME Head(q).corr # c PROVE Has(Tail(q), c) <=> Has(q, c)
    OBVIOUS
  <2>1. ASSUME NEW i \in 1..(Len(q) - 1), Tail(q)[i].corr = c PROVE Has(q, c)
    BY <1>2, <1>3, <2>1 DEF Has
  <2>2. ASSUME NEW i \in 1..Len(q), q[i].corr = c PROVE Has(Tail(q), c)
    <3>1. i - 1 \in 1..(Len(q) - 1) /\ (i - 1) + 1 = i
      BY <1>2, <1>4, <2>2
    <3>2. Tail(q)[i - 1].corr = c
      BY <1>3, <2>2, <3>1
    <3> QED  BY <1>2, <3>1, <3>2 DEF Has
  <2> QED  BY <1>2, <2>1, <2>2 DEF Has
<1> QED  BY <1>6, <1>7, <1>8

\* A purge drops no correlation.
LEMMA PurgeLedger ==
  ASSUME NEW q, Fit(q), NEW f \in Ascending(Kept(q)), NEW c \in Corrs, Once(q, c)
  PROVE  /\ Has([i \in DOMAIN f |-> q[f[i]]], c) <=> Has(q, c)
         /\ Once([i \in DOMAIN f |-> q[f[i]]], c)
<1> DEFINE p == [i \in DOMAIN f |-> q[f[i]]]
<1>1. /\ DOMAIN f = 1..Len(f) /\ Len(f) \in Nat
      /\ \A i \in 1..Len(f) : f[i] \in Kept(q)
      /\ \A i, j \in 1..Len(f) : i < j => f[i] < f[j]
      /\ \A x \in Kept(q) : \E i \in 1..Len(f) : f[i] = x
  BY AscendingType, ConstantsOK
<1>2. DOMAIN q = 1..Len(q) /\ Len(q) \in Nat /\ \A i \in 1..Len(q) : q[i] \in Entry
  BY SeqDomain DEF Fit
<1>3. \A i \in DOMAIN q : q[i].corr = c => i \in Kept(q)
  BY <1>2, ConstantsOK DEF Kept, Entry
<1>4. Kept(q) \subseteq DOMAIN q /\ Kept(q) \subseteq Nat
  BY <1>2 DEF Kept
<1>5. DOMAIN p = 1..Len(f) /\ \A i \in 1..Len(f) : p[i] = q[f[i]]
  BY <1>1
<1> HIDE DEF p
<1>6. Has(p, c) <=> Has(q, c)
  BY <1>1, <1>3, <1>4, <1>5 DEF Has
<1>7. Once(p, c)
  <2> SUFFICES ASSUME NEW i \in 1..Len(f), NEW j \in 1..Len(f), p[i].corr = c, p[j].corr = c
               PROVE  i = j
    BY <1>5 DEF Once
  <2>1. f[i] = f[j]
    BY <1>1, <1>4, <1>5 DEF Once
  <2>2. ~(i < j) /\ ~(j < i)
    BY <1>1, <1>4, <2>1
  <2> QED  BY <1>1, <2>2
<1> QED  BY <1>6, <1>7 DEF p

-----------------------------------------------------------------------------
(* One step per action, for one correlation. *)

\* What closing a request or a slot may do to c: nothing, or end its wait with one
\* result.
Closed(c) ==
    /\ told' = told /\ reach' = reach
    /\ ~Asked(c)'
    /\ Once(queue', c) /\ (Has(queue', c) <=> Has(queue, c))
    /\ \/ /\ ~Asked(c)
          /\ Sweeping(c)' <=> Sweeping(c)
          /\ results'[c] = results[c]
       \/ /\ Asked(c)
          /\ Sweeping(c)' <=> Sweeping(c)
          /\ results[c] = <<>> => Len(results'[c]) = 1
       \/ /\ ~Asked(c)
          /\ Sweeping(c) /\ ~Sweeping(c)'
          /\ results[c] = <<>> => Len(results'[c]) = 1

LEMMA ClosedLedger ==
  ASSUME NEW c \in Corrs, Ledger(c), Closed(c)
  PROVE  Ledger(c)'
<1>1. /\ Queued(c) <=> Has(queue, c)
      /\ Queued(c)' <=> Has(queue', c)
  BY DEF Queued, Has
<1>2. OnePlace(c)'
  BY <1>1 DEF Ledger, Closed, OnePlace
<1>3. Owed(c)'
  BY <1>1 DEF Ledger, Closed, OnePlace, Owed, Waiting
<1> QED  BY <1>2, <1>3 DEF Ledger

LEMMA ResultAt ==
  ASSUME TypeOK, NEW d \in Anybody, NEW st, NEW from, NEW c \in Corrs
  PROVE  /\ c # d => Result(d, st, from)[c] = results[c]
         /\ c = d /\ results[c] = <<>> => Len(Result(d, st, from)[c]) = 1
<1>1. results \in [Corrs -> Seq(Terminal)]
  BY DEF TypeOK
<1>2. CASE c # d
  BY <1>1, <1>2 DEF Result, Anybody
<1>3. CASE c = d
  <2>1. Result(d, st, from)[c] = Append(results[c], [status |-> st, from |-> from])
    BY <1>1, <1>3, ConstantsOK DEF Result
  <2>2. results[c] = <<>> => Len(Append(results[c], [status |-> st, from |-> from])) = 1
    OBVIOUS
  <2> QED  BY <1>3, <2>1, <2>2
<1> QED  BY <1>2, <1>3

LEMMA SweptLedger ==
  ASSUME TypeOK, NEW r \in RawType, r.corr = raw.corr, r.active = raw.active, Swept(r),
         NEW c \in Corrs
  PROVE  \/ (Sweeping(c)' <=> Sweeping(c)) /\ results'[c] = results[c]
         \/ /\ Sweeping(c) /\ ~Sweeping(c)'
            /\ results[c] = <<>> => Len(results'[c]) = 1
<1>1. CASE ~(r.active /\ r.target \subseteq r.done)
  BY <1>1 DEF Swept, Sweeping
<1>2. CASE r.active /\ r.target \subseteq r.done
  <2> DEFINE st == IF r.target \subseteq r.valid THEN "applied" ELSE "timeout"
  <2>1. results' = Result(r.corr, st, r.from) /\ raw' = [r EXCEPT !.active = FALSE]
    BY <1>2 DEF Swept
  <2>2. r.corr \in Anybody
    BY DEF RawType
  <2>3. ~raw'.active
    BY <2>1 DEF RawType
  <2> HIDE DEF st
  <2>4. CASE c = r.corr
    BY <1>2, <2>1, <2>2, <2>3, <2>4, ResultAt DEF Sweeping
  <2>5. CASE c # r.corr
    BY <2>1, <2>2, <2>3, <2>5, ResultAt DEF Sweeping
  <2> QED  BY <2>4, <2>5
<1> QED  BY <1>1, <1>2

LEMMA RespondLedger ==
  ASSUME TypeOK, NEW e \in air, Expected(e), NEW next, FwFrames(next), Respond(e, next), NEW c \in Corrs, Ledger(c)
  PROVE  Ledger(c)'
<1> DEFINE n == pending.req.node
           p == pending.req.corr
<1>1. /\ pending # NoRequest /\ pending.req \in Entry /\ n \in Nodes /\ p \in Anybody
  BY PendingType DEF Expected
<1>2. pending' = NoRequest /\ told' = told /\ reach' = reach
  BY DEF Respond
<1>3. ~Asked(c)' /\ (Asked(c) <=> p = c)
  BY <1>1, <1>2 DEF Asked
<1>4. Once(queue, c)
  BY DEF Ledger, OnePlace
<1>5. Once(queue', c) /\ (Has(queue', c) <=> Has(queue, c))
  <2>1. Fit(queue) /\ queue \in Seq(Entry)
    BY DEF Fit, TypeOK
  <2>2. \A i \in 1..Len(SyncOf(n)) : SyncOf(n)[i].corr # c
    BY <1>1, SyncOfType, ConstantsOK
  <2>3. SyncOf(n) \in Seq(Entry)
    BY <1>1, SyncOfType
  <2>4. /\ Has(queue \o SyncOf(n), c) <=> Has(queue, c)
        /\ Once(queue \o SyncOf(n), c)
    BY <1>4, <2>1, <2>2, <2>3, ConcatWithout
  <2>5. /\ Has(WithSync(n), c) <=> Has(queue, c)
        /\ Once(WithSync(n), c) /\ Fit(WithSync(n))
    <3>1. WithSync(n) \in {queue, queue \o SyncOf(n)}
      BY DEF WithSync
    <3> QED  BY <1>1, <1>4, <2>4, <3>1, WithSyncType
  <2>6. PICK q \in {queue, WithSync(n)} :
          \/ queue' = Put(q, next)
          \/ \E f \in Ascending(Kept(q)) : queue' = [i \in DOMAIN f |-> q[f[i]]]
    BY DEF Respond
  <2>7. Fit(q) /\ Once(q, c) /\ (Has(q, c) <=> Has(queue, c))
    BY <1>4, <2>1, <2>5, <2>6
  <2>8. Once(Put(q, next), c) /\ (Has(Put(q, next), c) <=> Has(q, c))
    <3>1. /\ next \in Seq(Entry) /\ q \in Seq(Entry)
          /\ \A i \in 1..Len(next) : next[i].corr # c
      BY <2>7, ConstantsOK DEF FwFrames, Fit
    <3>2. Once(q \o next, c) /\ (Has(q \o next, c) <=> Has(q, c))
      BY <2>7, <3>1, ConcatWithout
    <3> QED  BY <2>7, <3>1, <3>2, RoomType
  <2> QED  BY <2>6, <2>7, <2>8, PurgeLedger
<1>6. CASE pending.req.type = "GetRawScan"
  <2>1. p # c
    BY <1>1, <1>6, ConstantsOK DEF Entry
  <2> DEFINE good == [raw EXCEPT !.done = @ \cup {n}, !.valid = @ \cup {n},
                                 !.from = @ \cup {e.of.for}]
             bad  == [raw EXCEPT !.done = @ \cup {n}]
             r    == IF e.ok THEN good ELSE bad
  <2>2. raw \in RawType /\ e.of.for \in Anybody
    BY DEF TypeOK, RawType, Reply, Entry
  <2>3. /\ good \in RawType /\ good.corr = raw.corr /\ good.active = raw.active
        /\ bad \in RawType /\ bad.corr = raw.corr /\ bad.active = raw.active
    BY <1>1, <2>2 DEF RawType
  <2>4. Swept(r)
    BY <1>6 DEF Respond
  <2> HIDE DEF good, bad
  <2>5. r \in RawType /\ r.corr = raw.corr /\ r.active = raw.active
    BY <2>3
  <2> HIDE DEF r
  <2>6. \/ (Sweeping(c)' <=> Sweeping(c)) /\ results'[c] = results[c]
        \/ /\ Sweeping(c) /\ ~Sweeping(c)'
           /\ results[c] = <<>> => Len(results'[c]) = 1
    BY <2>4, <2>5, SweptLedger
  <2>7. Closed(c)
    BY <1>2, <1>3, <1>5, <2>1, <2>6 DEF Closed
  <2> QED  BY <2>7, ClosedLedger
<1>7. CASE pending.req.type # "GetRawScan"
  <2> DEFINE st == IF e.ok THEN "applied" ELSE "rejected"
  <2>1. raw' = raw /\ results' = Result(p, st, {e.of.for})
    BY <1>7 DEF Respond
  <2>2. Sweeping(c)' <=> Sweeping(c)
    BY <2>1 DEF Sweeping
  <2> HIDE DEF st
  <2>3. /\ c # p => results'[c] = results[c]
        /\ c = p /\ results[c] = <<>> => Len(results'[c]) = 1
    BY <1>1, <2>1, ResultAt
  <2>4. Closed(c)
    BY <1>2, <1>3, <1>5, <2>2, <2>3 DEF Closed
  <2> QED  BY <2>4, ClosedLedger
<1> QED  BY <1>6, <1>7

LEMMA ExpireLedger ==
  ASSUME TypeOK, pending # NoRequest, Expire, NEW c \in Corrs, Ledger(c)
  PROVE  Ledger(c)'
<1> DEFINE n == pending.req.node
           p == pending.req.corr
<1>1. pending.req \in Entry /\ n \in Nodes /\ p \in Anybody
  BY PendingType
<1>2. pending' = NoRequest /\ told' = told /\ reach' = reach /\ queue' = queue
  BY DEF Expire
<1>3. ~Asked(c)' /\ (Asked(c) <=> p = c)
  BY <1>2 DEF Asked
<1>4. Once(queue', c) /\ (Has(queue', c) <=> Has(queue, c))
  BY <1>2 DEF Ledger, OnePlace
<1>5. CASE pending.req.type = "GetRawScan"
  <2>1. p # c
    BY <1>1, <1>5, ConstantsOK DEF Entry
  <2> DEFINE bad == [raw EXCEPT !.done = @ \cup {n}]
  <2>2. bad \in RawType /\ bad.corr = raw.corr /\ bad.active = raw.active
    BY <1>1 DEF TypeOK, RawType
  <2>3. Swept(bad)
    BY <1>5 DEF Expire
  <2> HIDE DEF bad
  <2>4. \/ (Sweeping(c)' <=> Sweeping(c)) /\ results'[c] = results[c]
        \/ /\ Sweeping(c) /\ ~Sweeping(c)'
           /\ results[c] = <<>> => Len(results'[c]) = 1
    BY <2>2, <2>3, SweptLedger
  <2>5. Closed(c)
    BY <1>2, <1>3, <1>4, <2>1, <2>4 DEF Closed
  <2> QED  BY <2>5, ClosedLedger
<1>6. CASE pending.req.type # "GetRawScan"
  <2>1. raw' = raw /\ results' = Result(p, "timeout", {})
    BY <1>6 DEF Expire
  <2>2. Sweeping(c)' <=> Sweeping(c)
    BY <2>1 DEF Sweeping
  <2>3. /\ c # p => results'[c] = results[c]
        /\ c = p /\ results[c] = <<>> => Len(results'[c]) = 1
    BY <1>1, <2>1, ResultAt
  <2>4. Closed(c)
    BY <1>2, <1>3, <1>4, <2>2, <2>3 DEF Closed
  <2> QED  BY <2>4, ClosedLedger
<1> QED  BY <1>5, <1>6

\* A wait that moves, at most, from the queue to the outstanding request.
LEMMA MovedLedger ==
  ASSUME NEW c \in Corrs, Ledger(c),
         told'[c] = told[c], reach'[c] = reach[c], results'[c] = results[c],
         Sweeping(c)' <=> Sweeping(c),
         Once(queue', c), ~(Has(queue', c) /\ Asked(c)'),
         Has(queue', c) \/ Asked(c)' <=> Has(queue, c) \/ Asked(c)
  PROVE  Ledger(c)'
<1>1. (Queued(c) <=> Has(queue, c)) /\ (Queued(c)' <=> Has(queue', c))
  BY DEF Queued, Has
<1>2. Waiting(c)' <=> Waiting(c)
  BY <1>1 DEF Waiting
<1>3. Owed(c)'
  BY <1>2 DEF Ledger, Owed
<1>4. OnePlace(c)'
  BY <1>1 DEF Ledger, OnePlace
<1> QED  BY <1>3, <1>4 DEF Ledger

\* Nothing of c's wait is touched.
LEMMA SameLedger ==
  ASSUME NEW c \in Corrs, Ledger(c), queue' = queue, pending' = pending, raw' = raw,
         told' = told, reach' = reach, results' = results
  PROVE  Ledger(c)'
<1>1. (Asked(c)' <=> Asked(c)) /\ (Sweeping(c)' <=> Sweeping(c))
  BY DEF Asked, Sweeping
<1>2. Once(queue', c) /\ ~(Has(queue', c) /\ Asked(c)')
  BY <1>1 DEF Ledger, OnePlace, Queued, Has
<1> QED  BY <1>1, <1>2, MovedLedger

\* A command nobody has answered waits nowhere.
LEMMA NewLedger ==
  ASSUME NEW c \in Corrs, Ledger(c), told[c] = "none"
  PROVE  ~Has(queue, c) /\ ~Asked(c) /\ ~Sweeping(c) /\ results[c] = <<>>
BY DEF Ledger, Owed, Waiting, Queued, Has

LEMMA AppendedLedger ==
  ASSUME TypeOK, NEW c \in Corrs, Ledger(c), NEW p \in Seq(Entry),
         \A i \in 1..Len(p) : p[i].corr # c, queue' = queue \o p,
         pending' = pending, raw' = raw, told'[c] = told[c], reach'[c] = reach[c],
         results' = results
  PROVE  Ledger(c)'
<1>1. queue \in Seq(Entry)
  BY DEF TypeOK
<1>2. Once(queue, c) /\ ~(Has(queue, c) /\ Asked(c))
  BY DEF Ledger, OnePlace, Queued, Has
<1>3. (Has(queue', c) <=> Has(queue, c)) /\ Once(queue', c)
  BY <1>1, <1>2, ConcatWithout
<1>4. (Asked(c)' <=> Asked(c)) /\ (Sweeping(c)' <=> Sweeping(c))
  BY DEF Asked, Sweeping
<1> QED  BY <1>2, <1>3, <1>4, MovedLedger

LEMMA SentLedger ==
  ASSUME TypeOK, NEW r \in Entry, r.node # Everyone, Send(r), NEW c
  PROVE  Asked(c)' <=> r.corr = c
BY SendType, ConstantsOK DEF Asked

LEMMA LedgerStartQueued ==
  ASSUME TypeOK, StartQueued, NEW c \in Corrs, Ledger(c)
  PROVE  Ledger(c)'
<1>1. queue \in Seq(Entry) /\ queue # <<>> /\ queue' = Tail(queue)
  BY DEF TypeOK, StartQueued
<1>2. Head(queue) \in Entry
  BY <1>1
<1>3. ~Asked(c)
  BY DEF StartQueued, Idle, Asked
<1>4. Once(queue, c)
  BY DEF Ledger, OnePlace
<1>5. /\ Once(queue', c)
      /\ Head(queue).corr = c => ~Has(queue', c) /\ Has(queue, c)
      /\ Head(queue).corr # c => (Has(queue', c) <=> Has(queue, c))
  BY <1>1, <1>4, TailLedger
<1>6. told' = told /\ reach' = reach /\ results' = results /\ raw' = raw
  BY DEF StartQueued
<1>7. Sweeping(c)' <=> Sweeping(c)
  BY <1>6 DEF Sweeping
<1>8. CASE Head(queue).node = Everyone
  <2>1. Head(queue).corr # c
    BY <1>2, <1>8, ConstantsOK DEF Entry
  <2>2. pending' = pending
    BY <1>8 DEF StartQueued
  <2>3. ~Asked(c)'
    BY <1>3, <2>2 DEF Asked
  <2> QED  BY <1>3, <1>5, <1>6, <1>7, <2>1, <2>3, MovedLedger
<1>9. CASE Head(queue).node # Everyone
  <2>1. Send(Head(queue))
    BY <1>9 DEF StartQueued
  <2>2. Asked(c)' <=> Head(queue).corr = c
    BY <1>2, <1>9, <2>1, SentLedger
  <2> QED  BY <1>3, <1>5, <1>6, <1>7, <2>2, MovedLedger
<1> QED  BY <1>8, <1>9

LEMMA LedgerScheduled ==
  ASSUME TypeOK, NEW r \in Entry, r.node # Everyone, r.corr = NoCorr, Scheduled(r),
         NEW c \in Corrs, Ledger(c)
  PROVE  Ledger(c)'
<1>1. Send(r) /\ ~Asked(c)
  BY DEF Scheduled, Idle, Asked
<1>2. ~Asked(c)'
  BY <1>1, SentLedger, ConstantsOK
<1>3. /\ queue' = queue /\ raw' = raw /\ told' = told /\ reach' = reach
      /\ results' = results
  BY DEF Scheduled
<1>4. Once(queue', c)
  BY <1>3 DEF Ledger, OnePlace
<1>5. Sweeping(c)' <=> Sweeping(c)
  BY <1>3 DEF Sweeping
<1> QED  BY <1>1, <1>2, <1>3, <1>4, <1>5, MovedLedger

LEMMA LedgerQueueSync ==
  ASSUME TypeOK, QueueSync, NEW c \in Corrs, Ledger(c)
  PROVE  Ledger(c)'
<1>1. PICK n \in SyncDue : queue' = WithSync(n)
  BY DEF QueueSync
<1>2. n \in Nodes
  BY DEF SyncDue, TypeOK
<1>3. pending' = pending /\ raw' = raw /\ told' = told /\ reach' = reach /\ results' = results
  BY DEF QueueSync, hist
<1>4. SyncOf(n) \in Seq(Entry) /\ \A i \in 1..Len(SyncOf(n)) : SyncOf(n)[i].corr # c
  BY <1>2, SyncOfType, ConstantsOK
<1>5. CASE queue' = queue
  BY <1>3, <1>5, SameLedger
<1>6. CASE queue' = queue \o SyncOf(n)
  BY <1>3, <1>4, <1>6, AppendedLedger
<1> QED  BY <1>1, <1>5, <1>6 DEF WithSync

LEMMA LedgerSchedule ==
  ASSUME TypeOK, Schedule, NEW c \in Corrs, Ledger(c)
  PROVE  Ledger(c)'
<1>1. CASE RenderWindow
  BY <1>1, SameLedger DEF RenderWindow, hist
<1>2. CASE StartQueued
  BY <1>2, LedgerStartQueued
<1>3. CASE QueueSync
  BY <1>3, LedgerQueueSync
<1>4. CASE RawNext
  <2>1. PICK n \in raw.target \ raw.done :
          Scheduled([node |-> n, type |-> "GetRawScan", corr |-> NoCorr, for |-> raw.corr])
    BY <1>4 DEF RawNext
  <2>2. n \in Nodes
    BY DEF TypeOK
  <2> QED  BY <2>1, <2>2, SweepEntry, LedgerScheduled, ConstantsOK
<1>5. CASE PollNext
  <2>1. PICK n \in Nodes, t \in PollFrames \cup {"Ping"} : Scheduled(Plain(n, t))
    BY <1>5 DEF PollNext
  <2>2. t \in Types
    BY DEF Types
  <2> QED  BY <2>1, <2>2, PlainType, LedgerScheduled, ConstantsOK
<1> QED  BY <1>1, <1>2, <1>3, <1>4, <1>5 DEF Schedule

\* The words and nodes noted for a command are its own.
LEMMA AnswerAt ==
  ASSUME TypeOK, NEW d \in Corrs, NEW word, NEW nodes, Answer(d, word, nodes), NEW c \in Corrs
  PROVE  IF c = d THEN told'[c] = word /\ reach'[c] = nodes
                  ELSE told'[c] = told[c] /\ reach'[c] = reach[c]
BY DEF TypeOK, Answer

\* A command answered without anything put down for it.
LEMMA IdleLedger ==
  ASSUME NEW c \in Corrs, Ledger(c), told[c] = "none",
         ~Has(queue', c), pending' = pending, raw' = raw, results' = results,
         told'[c] # "accepted" \/ reach'[c] = {}
  PROVE  Ledger(c)'
<1>1. ~Has(queue, c) /\ ~Asked(c) /\ ~Sweeping(c) /\ results[c] = <<>>
  BY NewLedger
<1>2. ~Queued(c)' /\ ~Asked(c)' /\ ~Sweeping(c)'
  BY <1>1 DEF Queued, Has, Asked, Sweeping
<1>3. Once(queue', c)
  BY DEF Has, Once
<1> QED  BY <1>1, <1>2, <1>3 DEF Ledger, Owed, OnePlace, Waiting

\* A command accepted with the whole of its fan-out.
LEMMA OpenedLedger ==
  ASSUME NEW c \in Corrs, Ledger(c), told[c] = "none",
         Has(queue', c), Once(queue', c), pending' = pending, raw' = raw, results' = results,
         told'[c] = "accepted", reach'[c] # {}
  PROVE  Ledger(c)'
<1>1. ~Asked(c) /\ ~Sweeping(c) /\ results[c] = <<>>
  BY NewLedger
<1>2. Queued(c)' /\ ~Asked(c)' /\ ~Sweeping(c)'
  BY <1>1 DEF Queued, Has, Asked, Sweeping
<1> QED  BY <1>1, <1>2 DEF Ledger, Owed, OnePlace, Waiting

LEMMA MayNew ==
  ASSUME NEW c \in Corrs, May(c)
  PROVE  told[c] = "none"
BY DEF May

\* An enumeration is empty when there is nothing to enumerate.
LEMMA AscendingEmpty ==
  ASSUME NEW S, NEW f \in Ascending(S)
  PROVE  f = <<>> <=> S = {}
<1>1. f \in Seq(S) /\ Len(f) \in Nat /\ (\A i \in 1..Len(f) : f[i] \in S)
      /\ \A x \in S : \E i \in 1..Len(f) : f[i] = x
  BY AscendingType, ConstantsOK
<1>2. f = <<>> => S = {}
  BY <1>1
<1>3. f # <<>> => Len(f) > 0
  BY <1>1, EmptySeq
<1>4. Len(f) > 0 => f[1] \in S
  BY <1>1
<1> QED  BY <1>2, <1>3, <1>4

\* k frames of a fan-out for d to the nodes of S, all of them or too few.
LEMMA PutLedger ==
  ASSUME TypeOK, NEW d \in Corrs, told[d] = "none", NEW c \in Corrs, Ledger(c),
         NEW S \in SUBSET Nodes, NEW f \in Ascending(S), NEW k \in 0..Len(f),
         NEW t \in {"Command", "RuntimeMode"},
         queue' = queue \o Frames(f, k, t, d),
         Answer(d, IF k = Len(f) THEN "accepted" ELSE "rejected",
                   IF k = Len(f) THEN S ELSE {}),
         pending' = pending, raw' = raw, results' = results
  PROVE  Ledger(c)'
<1>1. queue \in Seq(Entry)
  BY DEF TypeOK
<1>2. Frames(f, k, t, d) \in Seq(Entry) /\ Len(Frames(f, k, t, d)) = k
  BY FramesType
<1>3. Once(queue, c)
  BY DEF Ledger, OnePlace
<1>4. CASE c # d
  <2>1. told'[c] = told[c] /\ reach'[c] = reach[c]
    BY <1>4, AnswerAt
  <2>2. \A i \in 1..Len(Frames(f, k, t, d)) : Frames(f, k, t, d)[i].corr # c
    BY <1>4, FramesWithout
  <2> QED  BY <1>2, <2>1, <2>2, AppendedLedger
<1>5. CASE c = d /\ k # Len(f)
  <2>1. told'[c] = "rejected"
    BY <1>5, AnswerAt
  <2>2. \A i \in 1..Len(Frames(f, k, t, d)) : Frames(f, k, t, d)[i].corr # c
    BY <1>5, FramesWithout
  <2>3. ~Has(queue', c)
    BY <1>1, <1>2, <1>5, <2>2, ConcatWithout, NewLedger
  <2> QED  BY <1>5, <2>1, <2>3, IdleLedger
<1>6. CASE c = d /\ k = Len(f) /\ f = <<>>
  <2>1. reach'[c] = {}
    BY <1>6, AnswerAt, AscendingEmpty
  <2>2. Len(Frames(f, k, t, d)) = 0
    BY <1>2, <1>6
  <2>3. \A i \in 1..Len(Frames(f, k, t, d)) : Frames(f, k, t, d)[i].corr # c
    BY <2>2
  <2>4. ~Has(queue', c)
    BY <1>1, <1>2, <1>6, <2>3, ConcatWithout, NewLedger
  <2> QED  BY <1>6, <2>1, <2>4, IdleLedger
<1>7. CASE c = d /\ k = Len(f) /\ f # <<>>
  <2>1. told'[c] = "accepted" /\ reach'[c] = S
    BY <1>7, AnswerAt
  <2>2. S # {}
    BY <1>7, AscendingEmpty
  <2>3. ~Has(queue, c)
    BY <1>7, NewLedger
  <2>4. Has(queue', c) /\ Once(queue', c)
    BY <1>1, <1>7, <2>3, ConcatFrames
  <2> QED  BY <1>7, <2>1, <2>2, <2>4, OpenedLedger
<1> QED  BY <1>4, <1>5, <1>6, <1>7

LEMMA LedgerFanout ==
  ASSUME TypeOK, NEW d \in Corrs, NEW nodes \in SUBSET Nodes, Fanout(d, nodes),
         NEW c \in Corrs, Ledger(c)
  PROVE  Ledger(c)'
<1>1. PICK f \in Ascending(nodes \cap online) :
        IF f # <<>> /\ Len(queue) + Len(f) <= QueueCapacity
        THEN /\ queue' = queue \o Frames(f, Len(f), "Command", d)
             /\ Answer(d, "accepted", nodes \cap online)
        ELSE /\ Answer(d, "rejected", {})
             /\ UNCHANGED queue
  BY DEF Fanout
<1>2. told[d] = "none"
  BY MayNew DEF Fanout
<1>3. pending' = pending /\ raw' = raw /\ results' = results
  BY DEF Fanout
<1>4. nodes \cap online \in SUBSET Nodes /\ Len(f) \in 0..Len(f)
  <2>1. Len(f) \in Nat
    BY AscendingType, ConstantsOK
  <2> QED  BY <2>1
<1>5. CASE f # <<>> /\ Len(queue) + Len(f) <= QueueCapacity
  <2>1. /\ queue' = queue \o Frames(f, Len(f), "Command", d)
        /\ Answer(d, "accepted", nodes \cap online)
    BY <1>1, <1>5
  <2> DEFINE k == Len(f)
  <2>2. Answer(d, IF k = Len(f) THEN "accepted" ELSE "rejected",
                  IF k = Len(f) THEN nodes \cap online ELSE {})
    BY <2>1
  <2> QED  BY <1>2, <1>3, <1>4, <2>1, <2>2, PutLedger
<1>6. CASE ~(f # <<>> /\ Len(queue) + Len(f) <= QueueCapacity)
  <2>1. Answer(d, "rejected", {}) /\ queue' = queue
    BY <1>1, <1>6
  <2>2. CASE c = d
    <3>1. ~Has(queue', c)
      BY <1>2, <2>1, <2>2, NewLedger
    <3> QED  BY <1>2, <1>3, <2>1, <2>2, <3>1, AnswerAt, IdleLedger
  <2>3. CASE c # d
    <3>1. told'[c] = told[c] /\ reach'[c] = reach[c]
      BY <2>1, <2>3, AnswerAt
    <3>2. (Asked(c)' <=> Asked(c)) /\ (Sweeping(c)' <=> Sweeping(c))
      BY <1>3 DEF Asked, Sweeping
    <3>3. Once(queue', c) /\ ~(Has(queue', c) /\ Asked(c)')
      BY <2>1, <3>2 DEF Ledger, OnePlace, Queued, Has
    <3> QED  BY <1>3, <2>1, <3>1, <3>2, <3>3, MovedLedger
  <2> QED  BY <2>2, <2>3
<1> QED  BY <1>5, <1>6

LEMMA LedgerEveryNode ==
  ASSUME TypeOK, NEW d \in Corrs, told[d] = "none", NEW t \in {"Command", "RuntimeMode"},
         EveryNode(d, t), NEW c \in Corrs, Ledger(c)
  PROVE  Ledger(c)'
<1>1. PICK f \in Ascending(online), k \in 0..QueueCapacity :
        /\ k <= Len(f)
        /\ queue' = queue \o Frames(f, k, t, d)
        /\ Answer(d, IF k = Len(f) THEN "accepted" ELSE "rejected",
                     IF k = Len(f) THEN online ELSE {})
  BY DEF EveryNode
<1>2. k \in 0..Len(f)
  BY <1>1, AscendingType, ConstantsOK
<1>3. pending' = pending /\ raw' = raw /\ results' = results
  BY DEF EveryNode
<1>4. online \in SUBSET Nodes
  BY DEF TypeOK
<1> QED  BY <1>1, <1>2, <1>3, <1>4, PutLedger

LEMMA LedgerRawScan ==
  ASSUME TypeOK, NEW d \in Anybody, RequestRawScan(d), NEW c \in Corrs, Ledger(c)
  PROVE  Ledger(c)'
<1> DEFINE granted == ~raw.active /\ flasher.phase = "Idle" /\ online # {}
           fresh   == [NoSweep EXCEPT !.active = TRUE, !.corr = d, !.target = online]
<1>1. pending' = pending /\ queue' = queue /\ results' = results
  BY DEF RequestRawScan
<1>2. raw' = IF granted THEN fresh ELSE raw
  BY DEF RequestRawScan
<1>3. fresh.active /\ fresh.corr = d
  BY DEF NoSweep
<1>4. Once(queue', c) /\ (Asked(c)' <=> Asked(c)) /\ ~(Has(queue', c) /\ Asked(c)')
  BY <1>1 DEF Ledger, OnePlace, Asked, Queued, Has
<1>5. CASE d = NoCorr
  <2>1. told' = told /\ reach' = reach
    BY <1>5 DEF RequestRawScan
  <2>2. Sweeping(c)' <=> Sweeping(c)
    BY <1>2, <1>3, <1>5, ConstantsOK DEF RequestRawScan, Sweeping
  <2> QED  BY <1>1, <1>4, <2>1, <2>2, MovedLedger
<1>6. CASE d # NoCorr
  <2>1. d \in Corrs /\ told[d] = "none"
    BY <1>6, MayNew DEF RequestRawScan, Anybody
  <2>2. Answer(d, IF granted THEN "accepted" ELSE "rejected",
                  IF granted THEN online ELSE {})
    BY <1>6 DEF RequestRawScan
  <2> HIDE DEF fresh
  <2>3. CASE c # d
    <3>1. told'[c] = told[c] /\ reach'[c] = reach[c]
      BY <2>1, <2>2, <2>3, AnswerAt
    <3>2. Sweeping(c)' <=> Sweeping(c)
      BY <1>2, <1>3, <2>3 DEF Sweeping
    <3> QED  BY <1>1, <1>4, <3>1, <3>2, MovedLedger
  <2>4. CASE c = d /\ ~granted
    <3>1. told'[c] = "rejected"
      BY <2>1, <2>2, <2>4, AnswerAt
    <3>2. raw' = raw
      BY <1>2, <2>4
    <3> QED  BY <1>1, <2>1, <2>4, <3>1, <3>2, NewLedger, IdleLedger
  <2>5. CASE c = d /\ granted
    <3>1. told'[c] = "accepted" /\ reach'[c] = online /\ online # {}
      BY <2>1, <2>2, <2>5, AnswerAt
    <3>2. ~Queued(c)' /\ ~Asked(c)' /\ Sweeping(c)' /\ results'[c] = <<>>
      BY <1>1, <1>2, <1>3, <2>1, <2>5, NewLedger DEF Queued, Has, Asked, Sweeping
    <3> QED  BY <1>4, <3>1, <3>2 DEF Ledger, Owed, OnePlace, Waiting
  <2> QED  BY <2>3, <2>4, <2>5
<1> QED  BY <1>5, <1>6

LEMMA AnsweredLedger ==
  ASSUME TypeOK, NEW e \in air, Answered(e), NEW c \in Corrs, Ledger(c)
  PROVE  Ledger(c)'
BY RespondLedger DEF Answered

LEMMA LedgerFirmware ==
  ASSUME TypeOK, Firmware, NEW c \in Corrs, Ledger(c)
  PROVE  Ledger(c)'
<1>1. CASE Quiet
  <2>1. CASE queue' = queue
    BY <1>1, <2>1, SameLedger DEF Quiet, hist
  <2>2. CASE \E p : FwFrames(p) /\ queue' = queue \o p
    <3>1. PICK p : FwFrames(p) /\ queue' = queue \o p
      BY <2>2
    <3>2. p \in Seq(Entry) /\ \A i \in 1..Len(p) : p[i].corr # c
      BY <3>1, ConstantsOK DEF FwFrames
    <3> QED  BY <1>1, <3>1, <3>2, AppendedLedger DEF Quiet
  <2> QED  BY <1>1, <2>1, <2>2 DEF Quiet
<1>2. CASE \E e \in air : Answered(e)
  BY <1>2, AnsweredLedger
<1>3. CASE pending # NoRequest /\ Expire
  BY <1>3, ExpireLedger
<1> QED  BY <1>1, <1>2, <1>3, FirmwareIs

LEMMA LedgerNobody ==
  ASSUME TypeOK, NEW d \in Corrs, told[d] = "none", Nobody(d), NEW c \in Corrs, Ledger(c)
  PROVE  Ledger(c)'
<1>1. /\ queue' = queue /\ pending' = pending /\ raw' = raw /\ results' = results
  BY DEF Nobody, bus
<1>2. CASE c # d
  <2>1. told'[c] = told[c] /\ reach'[c] = reach[c]
    BY <1>2, AnswerAt DEF Nobody
  <2>2. /\ Sweeping(c)' <=> Sweeping(c)
        /\ Asked(c)' <=> Asked(c)
    BY <1>1 DEF Sweeping, Asked
  <2>3. Once(queue', c) /\ ~(Has(queue', c) /\ Asked(c)')
    BY <1>1, <2>2 DEF Ledger, OnePlace, Queued, Has
  <2> QED  BY <1>1, <2>1, <2>2, <2>3, MovedLedger
<1>3. CASE c = d
  <2>1. told'[c] = "rejected"
    BY <1>3, AnswerAt DEF Nobody
  <2> QED  BY <1>1, <1>3, <2>1, NewLedger, IdleLedger
<1> QED  BY <1>2, <1>3

LEMMA LedgerStep ==
  ASSUME TypeOK, [Next]_vars, NEW c \in Corrs, Ledger(c)
  PROVE  Ledger(c)'
<1>1. CASE \E e \in air : Receive(e)
  BY <1>1, ReceiveAnswers, AnsweredLedger
<1>2. CASE \E e \in air : Stray(e)
  BY <1>2, SameLedger DEF Stray, bus, hist
<1>3. CASE Timeout
  BY <1>3, ExpireLedger DEF Timeout
<1>4. CASE Schedule
  BY <1>4, LedgerSchedule
<1>5. CASE Command
  <2>1. CASE \E d \in Corrs, nodes \in SUBSET Nodes : Fanout(d, nodes)
    BY <2>1, LedgerFanout
  <2>2. CASE \E d \in Corrs : CalibrateAll(d) \/ SetMode(d)
    BY <2>2, MayNew, FromEveryNode, LedgerEveryNode, LedgerNobody
  <2>3. CASE \E d \in Anybody : RequestRawScan(d)
    BY <2>3, LedgerRawScan
  <2> QED  BY <1>5, <2>1, <2>2, <2>3 DEF Command
<1>6. CASE Firmware
  BY <1>6, LedgerFirmware
<1>7. CASE UNCHANGED vars
  BY <1>7, SameLedger DEF vars, bus, hist
<1> QED  BY <1>1, <1>2, <1>3, <1>4, <1>5, <1>6, <1>7 DEF Next

LEMMA LedgerInit ==
  ASSUME Init, NEW c \in Corrs
  PROVE  Ledger(c)
<1>1. DOMAIN <<>> = {}
  OBVIOUS
<1>2. ~Queued(c) /\ Once(queue, c)
  BY <1>1 DEF Init, Queued, Once
<1>3. ~Asked(c) /\ ~Sweeping(c)
  BY DEF Init, Asked, Sweeping, NoSweep
<1> QED  BY <1>2, <1>3 DEF Init, Ledger, Owed, OnePlace, Waiting

\* The server gives every command an id of its own (May): a command accepted
\* with work for some node waits in exactly one place or has exactly one terminal
\* result, for any number of nodes, commands, queue slots and handoffs.
THEOREM AcceptedAnsweredOnce ==
  Spec => [](AcceptedIsOwed /\ WaitsOnce)
<1> DEFINE IInv == TypeOK /\ \A c \in Corrs : Ledger(c)
<1>1. Init => IInv
  BY TypeInit, LedgerInit
<1>2. IInv /\ [Next]_vars => IInv'
  BY TypeStep, LedgerStep
<1>3. IInv => AcceptedIsOwed /\ WaitsOnce
  BY LedgerIs
<1> QED  BY <1>1, <1>2, <1>3, PTL DEF Spec

-----------------------------------------------------------------------------
(* The raw sweep. *)

LEMMA SweptHasSlot ==
  ASSUME NEW r \in RawType, Swept(r)
  PROVE  SweepHasSlot'
<1>1. CASE r.active /\ r.target \subseteq r.done
  BY <1>1 DEF Swept, RawType, SweepHasSlot
<1>2. CASE ~(r.active /\ r.target \subseteq r.done)
  BY <1>2 DEF Swept, SweepHasSlot
<1> QED  BY <1>1, <1>2

LEMMA RespondHasSlot ==
  ASSUME TypeOK, SweepHasSlot, NEW e \in air, Expected(e), NEW next, FwFrames(next), Respond(e, next)
  PROVE  SweepHasSlot'
<1> DEFINE n    == pending.req.node
           good == [raw EXCEPT !.done = @ \cup {n}, !.valid = @ \cup {n},
                               !.from = @ \cup {e.of.for}]
           bad  == [raw EXCEPT !.done = @ \cup {n}]
<1>1. n \in Nodes /\ e.of.for \in Anybody /\ raw \in RawType
  BY PendingType DEF Expected, TypeOK, Reply, Entry, RawType
<1>2. good \in RawType /\ bad \in RawType
  BY <1>1 DEF RawType
<1>3. CASE pending.req.type = "GetRawScan"
  <2>1. Swept(IF e.ok THEN good ELSE bad)
    BY <1>3 DEF Respond
  <2> HIDE DEF good, bad
  <2> QED  BY <1>2, <2>1, SweptHasSlot
<1>4. CASE pending.req.type # "GetRawScan"
  BY <1>4 DEF Respond, SweepHasSlot
<1> QED  BY <1>3, <1>4

LEMMA ExpireHasSlot ==
  ASSUME TypeOK, SweepHasSlot, pending # NoRequest, Expire
  PROVE  SweepHasSlot'
<1> DEFINE bad == [raw EXCEPT !.done = @ \cup {pending.req.node}]
<1>1. bad \in RawType
  BY PendingType DEF TypeOK, RawType
<1>2. CASE pending.req.type = "GetRawScan"
  <2>1. Swept(bad)
    BY <1>2 DEF Expire
  <2> HIDE DEF bad
  <2> QED  BY <1>1, <2>1, SweptHasSlot
<1>3. CASE pending.req.type # "GetRawScan"
  BY <1>3 DEF Expire, SweepHasSlot
<1> QED  BY <1>2, <1>3

LEMMA SlotStep ==
  ASSUME TypeOK, SweepHasSlot, [Next]_vars
  PROVE  SweepHasSlot'
<1>1. CASE raw' = raw
  BY <1>1 DEF SweepHasSlot
<1>2. CASE \E e \in air : Answered(e)
  BY <1>2, RespondHasSlot DEF Answered
<1>3. CASE pending # NoRequest /\ Expire
  BY <1>3, ExpireHasSlot
<1>4. CASE \E c \in Anybody : RequestRawScan(c)
  <2>1. raw' = raw \/ (raw'.target = online /\ raw'.done = {} /\ online # {})
    BY <1>4 DEF RequestRawScan, NoSweep
  <2> QED  BY <2>1 DEF SweepHasSlot
<1>5. Schedule => raw' = raw
  BY DEF Schedule, RenderWindow, StartQueued, QueueSync, RawNext, PollNext, Scheduled
<1>6. Command => raw' = raw \/ \E c \in Anybody : RequestRawScan(c)
  BY DEF Command, Fanout, CalibrateAll, SetMode, EveryNode, bus
<1>7. Firmware => \/ raw' = raw
                  \/ \E e \in air : Answered(e)
                  \/ pending # NoRequest /\ Expire
  BY FirmwareIs DEF Quiet
<1>8. (\E e \in air : Receive(e)) => \E e \in air : Answered(e)
  BY ReceiveAnswers
<1>9. (\E e \in air : Stray(e)) \/ UNCHANGED vars => raw' = raw
  BY DEF Stray, bus, vars
<1>10. Timeout => pending # NoRequest /\ Expire
  BY DEF Timeout
<1> QED  BY <1>1, <1>2, <1>3, <1>4, <1>5, <1>6, <1>7, <1>8, <1>9, <1>10 DEF Next

\* schedule() always finds a slot to ask in an active sweep: replies, refusals and
\* timeouts that retire the last one close the sweep in the same step.
THEOREM SweepNeverSpins == Spec => []SweepHasSlot
<1>1. Init => TypeOK /\ SweepHasSlot
  BY TypeInit DEF Init, NoSweep, SweepHasSlot
<1>2. TypeOK /\ SweepHasSlot /\ [Next]_vars => (TypeOK /\ SweepHasSlot)'
  BY TypeStep, SlotStep
<1> QED  BY <1>1, <1>2, PTL DEF Spec

-----------------------------------------------------------------------------
(***************************************************************************)
(* Whose reply answers whom, and what goes out before a poll.  The queue   *)
(* holds no poll and no slot of a sweep; what it carries under a           *)
(* correlation is for that command; a reply that matches the outstanding   *)
(* request was made for it, since a sequence is used again only when the   *)
(* replies under it are gone; and a slot is asked only for the sweep that  *)
(* is active.                                                              *)
(***************************************************************************)
Serves(r) ==
    /\ r.type \notin PollFrames \cup {"GetRawScan"}
    /\ r.corr # NoCorr => r.for = r.corr

AllServe(q) == \A i \in DOMAIN q : Serves(q[i])

AirIsFresh ==
    pending # NoRequest => \A e \in air : Expected(e) => e.of = pending.req

AskedIsOwn ==
    pending # NoRequest =>
        /\ pending.req.corr # NoCorr => pending.req.for = pending.req.corr
        /\ pending.req.type = "GetRawScan" => raw.active /\ pending.req.for = raw.corr

SweepIsOwn == raw.from \subseteq {raw.corr}

LEMMA ConcatServes ==
  ASSUME NEW q \in Seq(Entry), NEW p \in Seq(Entry), AllServe(q), AllServe(p)
  PROVE  AllServe(q \o p)
<1>1. /\ q \o p \in Seq(Entry) /\ Len(q \o p) = Len(q) + Len(p)
      /\ \A i \in 1..Len(q) + Len(p) :
           (q \o p)[i] = IF i <= Len(q) THEN q[i] ELSE p[i - Len(q)]
  BY ConcatProperties
<1>2. /\ DOMAIN (q \o p) = 1..(Len(q) + Len(p)) /\ DOMAIN q = 1..Len(q)
      /\ DOMAIN p = 1..Len(p) /\ Len(q) \in Nat /\ Len(p) \in Nat
  BY <1>1, SeqDomain
<1> SUFFICES ASSUME NEW i \in 1..(Len(q) + Len(p)) PROVE Serves((q \o p)[i])
  BY <1>2 DEF AllServe
<1>3. CASE i <= Len(q)
  <2>1. i \in DOMAIN q /\ (q \o p)[i] = q[i]
    BY <1>1, <1>2, <1>3
  <2> QED  BY <2>1 DEF AllServe
<1>4. CASE i > Len(q)
  <2>1. i - Len(q) \in DOMAIN p /\ (q \o p)[i] = p[i - Len(q)]
    BY <1>1, <1>2, <1>4
  <2> QED  BY <2>1 DEF AllServe
<1> QED  BY <1>2, <1>3, <1>4

LEMMA SyncServes ==
  ASSUME NEW n \in Nodes
  PROVE  AllServe(SyncOf(n))
BY DEF SyncOf, AllServe, Serves, Plain, PollFrames

LEMMA FramesServe ==
  ASSUME NEW f, NEW k \in Nat, NEW t \in {"Command", "RuntimeMode"}, NEW c
  PROVE  AllServe(Frames(f, k, t, c))
BY DEF Frames, AllServe, Serves, PollFrames

LEMMA FwFramesServe ==
  ASSUME NEW p, FwFrames(p)
  PROVE  AllServe(p)
BY DEF FwFrames, AllServe, Serves, PollFrames, Handoff, AfterBoot

LEMMA TailServes ==
  ASSUME NEW q \in Seq(Entry), q # <<>>, AllServe(q)
  PROVE  AllServe(Tail(q)) /\ Serves(Head(q))
<1>1. /\ Tail(q) \in Seq(Entry) /\ Len(Tail(q)) = Len(q) - 1
      /\ \A i \in 1..Len(Tail(q)) : Tail(q)[i] = q[i + 1]
  BY HeadTailProperties
<1>2. /\ DOMAIN q = 1..Len(q) /\ DOMAIN Tail(q) = 1..(Len(q) - 1) /\ Len(q) \in Nat
      /\ Len(q) >= 1 /\ Head(q) = q[1]
  BY <1>1, SeqDomain
<1>3. \A i \in 1..(Len(q) - 1) : Tail(q)[i] = q[i + 1] /\ i + 1 \in 1..Len(q)
  BY <1>1, <1>2
<1> QED  BY <1>2, <1>3 DEF AllServe

LEMMA PurgeServes ==
  ASSUME NEW q, Fit(q), AllServe(q), NEW f \in Ascending(Kept(q))
  PROVE  AllServe([i \in DOMAIN f |-> q[f[i]]])
<1>1. DOMAIN f = 1..Len(f) /\ \A i \in 1..Len(f) : f[i] \in Kept(q)
  BY AscendingType
<1> QED  BY <1>1 DEF Kept, AllServe

LEMMA WithSyncServes ==
  ASSUME TypeOK, AllServe(queue), NEW n \in Nodes
  PROVE  AllServe(WithSync(n))
<1>1. queue \in Seq(Entry) /\ SyncOf(n) \in Seq(Entry)
  BY SyncOfType DEF TypeOK
<1>2. AllServe(queue \o SyncOf(n))
  BY <1>1, SyncServes, ConcatServes
<1> QED  BY <1>2 DEF WithSync

LEMMA RespondServes ==
  ASSUME TypeOK, AllServe(queue), NEW e \in air, Expected(e), NEW next, FwFrames(next), Respond(e, next)
  PROVE  AllServe(queue')
<1> DEFINE n == pending.req.node
<1>1. n \in Nodes
  BY PendingType DEF Expected
<1>2. PICK q \in {queue, WithSync(n)} :
        \/ queue' = Put(q, next)
        \/ \E f \in Ascending(Kept(q)) : queue' = [i \in DOMAIN f |-> q[f[i]]]
  BY DEF Respond
<1>3. Fit(q) /\ AllServe(q)
  BY <1>1, WithSyncType, WithSyncServes DEF Fit, TypeOK
<1>4. next \in Seq(Entry) /\ AllServe(next) /\ q \in Seq(Entry)
  BY <1>3, FwFramesServe DEF FwFrames, Fit
<1>5. AllServe(Put(q, next))
  BY <1>3, <1>4, ConcatServes, RoomType
<1> QED  BY <1>2, <1>3, <1>5, PurgeServes

LEMMA EveryNodeServes ==
  ASSUME TypeOK, AllServe(queue), NEW c \in Corrs, NEW t \in {"Command", "RuntimeMode"},
         EveryNode(c, t)
  PROVE  AllServe(queue')
<1>1. PICK f \in Ascending(online), k \in 0..QueueCapacity :
        k <= Len(f) /\ queue' = queue \o Frames(f, k, t, c)
  BY DEF EveryNode
<1>2. k \in 0..Len(f) /\ k \in Nat
  BY <1>1, AscendingType, ConstantsOK
<1>3. queue \in Seq(Entry) /\ online \in SUBSET Nodes
  BY DEF TypeOK
<1>4. Frames(f, k, t, c) \in Seq(Entry)
  BY <1>2, <1>3, FramesType
<1> QED  BY <1>1, <1>2, <1>3, <1>4, FramesServe, ConcatServes

LEMMA FanoutServes ==
  ASSUME TypeOK, AllServe(queue), NEW c \in Corrs, NEW nodes \in SUBSET Nodes,
         Fanout(c, nodes)
  PROVE  AllServe(queue')
<1>1. PICK f \in Ascending(nodes \cap online) :
        queue' = queue \/ queue' = queue \o Frames(f, Len(f), "Command", c)
  BY DEF Fanout
<1>2. Len(f) \in 0..Len(f) /\ Len(f) \in Nat
  BY AscendingType, ConstantsOK
<1>3. queue \in Seq(Entry) /\ nodes \cap online \in SUBSET Nodes
  BY DEF TypeOK
<1>4. Frames(f, Len(f), "Command", c) \in Seq(Entry)
  BY <1>2, <1>3, FramesType
<1>5. AllServe(queue \o Frames(f, Len(f), "Command", c))
  BY <1>2, <1>3, <1>4, FramesServe, ConcatServes
<1> QED  BY <1>1, <1>5

LEMMA ServeStep ==
  ASSUME TypeOK, AllServe(queue), [Next]_vars
  PROVE  AllServe(queue')
<1>1. CASE queue' = queue
  BY <1>1
<1>2. CASE \E e \in air : Answered(e)
  BY <1>2, RespondServes DEF Answered
<1>3. CASE StartQueued
  BY <1>3, TailServes DEF StartQueued, TypeOK
<1>4. CASE QueueSync
  BY <1>4, WithSyncServes DEF QueueSync, SyncDue, TypeOK
<1>5. CASE Command
  <2>1. CASE \E c \in Corrs, nodes \in SUBSET Nodes : Fanout(c, nodes)
    BY <2>1, FanoutServes
  <2>2. CASE \E c \in Corrs : CalibrateAll(c) \/ SetMode(c)
    BY <1>1, <2>2, FromEveryNode, EveryNodeServes DEF Nobody, bus
  <2>3. CASE \E c \in Anybody : RequestRawScan(c)
    BY <1>1, <2>3 DEF RequestRawScan
  <2> QED  BY <1>5, <2>1, <2>2, <2>3 DEF Command
<1>6. CASE Firmware
  <2>1. CASE \E p : FwFrames(p) /\ queue' = queue \o p
    <3>1. PICK p : FwFrames(p) /\ queue' = queue \o p
      BY <2>1
    <3>2. queue \in Seq(Entry) /\ p \in Seq(Entry) /\ AllServe(p)
      BY <3>1, FwFramesServe DEF TypeOK, FwFrames
    <3> QED  BY <3>1, <3>2, ConcatServes
  <2>2. Expire => queue' = queue
    BY DEF Expire
  <2> QED  BY <1>1, <1>2, <1>6, <2>1, <2>2, FirmwareIs DEF Quiet
<1>7. Timeout \/ (\E e \in air : Stray(e)) \/ UNCHANGED vars => queue' = queue
  BY DEF Timeout, Expire, Stray, bus, vars
<1>8. RenderWindow \/ RawNext \/ PollNext => queue' = queue
  BY DEF RenderWindow, RawNext, PollNext, Scheduled
<1>9. (\E e \in air : Receive(e)) => \E e \in air : Answered(e)
  BY ReceiveAnswers
<1> QED  BY <1>1, <1>2, <1>3, <1>4, <1>5, <1>6, <1>7, <1>8, <1>9 DEF Next, Schedule

\* What schedule() may put on the wire: the head of the queue, a slot of the active
\* sweep, or a poll when nothing else is due.
FromQueue(r) == queue # <<>> /\ r = Head(queue)

FromSweep(r) ==
    /\ raw.active
    /\ r.type = "GetRawScan" /\ r.corr = NoCorr /\ r.for = raw.corr

FromPolling(r) ==
    /\ queue = <<>> /\ queue' = <<>>
    /\ SyncDue = {}
    /\ r.type \in PollFrames \cup {"Ping"} /\ r.corr = NoCorr
    /\ r.type \in PollFrames => r.node \in online

Asks(r) ==
    /\ r \in Entry /\ r.node # Everyone
    /\ Send(r)
    /\ raw' = raw /\ results' = results /\ needsSync' = needsSync
    /\ FromQueue(r) \/ FromSweep(r) \/ FromPolling(r)

\* A step asks, or closes the request that is outstanding, or leaves it alone.
Closes ==
    \/ \E e \in air : Answered(e)
    \/ pending # NoRequest /\ Expire

Leaves ==
    /\ pending' = pending /\ air' \subseteq air /\ results' = results
    /\ \/ raw' = raw
       \/ ~raw.active /\ raw'.from = {}
    /\ pending # NoRequest =>
         /\ needsSync' = needsSync
         /\ \/ queue' = queue
            \/ \E q \in Seq(Entry) :
                 /\ queue' = queue \o q
                 /\ \A i \in 1..Len(q) : q[i].type # "Info"

LEMMA ScheduledAsks ==
  ASSUME TypeOK, NEW r \in Entry, r.node # Everyone, Scheduled(r),
         FromSweep(r) \/ (queue' = <<>> => FromPolling(r))
  PROVE  Asks(r)
<1>1. queue = <<>> /\ queue' = queue
  BY DEF Scheduled
<1> QED  BY <1>1 DEF Scheduled, Asks

LEMMA SomeOther ==
  ASSUME NEW q \in Seq(Entry), queue' = queue \o q,
         \A i \in 1..Len(q) : q[i].type # "Info"
  PROVE  \E p \in Seq(Entry) :
            /\ queue' = queue \o p
            /\ \A i \in 1..Len(p) : p[i].type # "Info"
OBVIOUS

LEMMA FramesOther ==
  ASSUME NEW S \in SUBSET Nodes, NEW f \in Ascending(S), NEW k \in 0..Len(f),
         NEW t \in {"Command", "RuntimeMode"}, NEW c \in Corrs
  PROVE  /\ Frames(f, k, t, c) \in Seq(Entry)
         /\ \A i \in 1..Len(Frames(f, k, t, c)) : Frames(f, k, t, c)[i].type # "Info"
<1>1. Frames(f, k, t, c) \in Seq(Entry) /\ Len(Frames(f, k, t, c)) = k
  BY FramesType
<1>2. k \in Nat
  BY AscendingType, ConstantsOK
<1> QED  BY <1>1, <1>2 DEF Frames

LEMMA ScheduleStep ==
  ASSUME TypeOK, Schedule
  PROVE  Leaves \/ \E r \in Entry : Asks(r)
<1>1. CASE RenderWindow
  BY <1>1 DEF RenderWindow, Broadcasts, Leaves, Idle, hist
<1>2. CASE StartQueued
  <2>1. queue \in Seq(Entry) /\ queue # <<>> /\ Head(queue) \in Entry
    BY <1>2 DEF StartQueued, TypeOK
  <2>2. CASE Head(queue).node = Everyone
    BY <1>2, <2>2 DEF StartQueued, Broadcasts, Leaves, Idle
  <2>3. CASE Head(queue).node # Everyone
    BY <1>2, <2>1, <2>3 DEF StartQueued, Asks, FromQueue
  <2> QED  BY <2>2, <2>3
<1>3. CASE QueueSync
  BY <1>3 DEF QueueSync, Leaves, Idle, hist
<1>4. CASE RawNext
  <2>1. PICK n \in raw.target \ raw.done :
          Scheduled([node |-> n, type |-> "GetRawScan", corr |-> NoCorr, for |-> raw.corr])
    BY <1>4 DEF RawNext
  <2> DEFINE r == [node |-> n, type |-> "GetRawScan", corr |-> NoCorr, for |-> raw.corr]
  <2>2. n \in Nodes /\ raw.active
    BY <1>4 DEF TypeOK, RawNext
  <2>3. r \in Entry /\ r.node # Everyone
    BY <2>2, SweepEntry, ConstantsOK
  <2>4. FromSweep(r)
    BY <2>2 DEF FromSweep
  <2> HIDE DEF r
  <2>5. Scheduled(r)
    BY <2>1 DEF r
  <2> QED  BY <2>3, <2>4, <2>5, ScheduledAsks
<1>5. CASE PollNext
  <2>1. PICK n \in Nodes :
          \E t \in (IF n \in online THEN PollFrames ELSE {"Ping"}) : Scheduled(Plain(n, t))
    BY <1>5 DEF PollNext
  <2> PICK t \in (IF n \in online THEN PollFrames ELSE {"Ping"}) : Scheduled(Plain(n, t))
    BY <2>1
  <2> DEFINE r == Plain(n, t)
  <2>2. t \in PollFrames \cup {"Ping"} /\ t \in Types
    BY DEF Types
  <2>3. t \in PollFrames => n \in online
    BY DEF PollFrames
  <2>4. r \in Entry /\ r.node # Everyone /\ r.node = n /\ r.type = t /\ r.corr = NoCorr
    BY <2>2, PlainType, ConstantsOK DEF Plain
  <2> HIDE DEF r
  <2>5. Scheduled(r)
    BY DEF r
  <2>6. FromPolling(r)
    BY <2>2, <2>3, <2>4, <2>5 DEF FromPolling, Scheduled
  <2> QED  BY <2>4, <2>5, <2>6, ScheduledAsks
<1> QED  BY <1>1, <1>2, <1>3, <1>4, <1>5 DEF Schedule

LEMMA CommandStep ==
  ASSUME TypeOK, Command
  PROVE  Leaves
<1>1. CASE \E c \in Corrs, nodes \in SUBSET Nodes : Fanout(c, nodes)
  <2>1. PICK c \in Corrs, nodes \in SUBSET Nodes : Fanout(c, nodes)
    BY <1>1
  <2>2. PICK f \in Ascending(nodes \cap online) :
          queue' = queue \/ queue' = queue \o Frames(f, Len(f), "Command", c)
    BY <2>1 DEF Fanout
  <2>3. Len(f) \in 0..Len(f) /\ nodes \cap online \in SUBSET Nodes
    BY AscendingType, ConstantsOK DEF TypeOK
  <2>4. queue' = queue \/ \E q \in Seq(Entry) :
                             /\ queue' = queue \o q
                             /\ \A i \in 1..Len(q) : q[i].type # "Info"
    BY <2>2, <2>3, FramesOther
  <2> QED  BY <2>1, <2>4 DEF Fanout, Leaves
<1>2. CASE \E c \in Corrs, t \in {"Command", "RuntimeMode"} : EveryNode(c, t)
  <2>1. PICK c \in Corrs, t \in {"Command", "RuntimeMode"} : EveryNode(c, t)
    BY <1>2
  <2>2. PICK f \in Ascending(online), k \in 0..QueueCapacity :
          k <= Len(f) /\ queue' = queue \o Frames(f, k, t, c)
    BY <2>1 DEF EveryNode
  <2>3. k \in 0..Len(f) /\ online \in SUBSET Nodes
    BY <2>2, AscendingType, ConstantsOK DEF TypeOK
  <2>4. \E q \in Seq(Entry) :
          /\ queue' = queue \o q
          /\ \A i \in 1..Len(q) : q[i].type # "Info"
    BY <2>2, <2>3, FramesOther
  <2> QED  BY <2>1, <2>4 DEF EveryNode, Leaves
<1>3. CASE \E c \in Anybody : RequestRawScan(c)
  <2>1. raw' = raw \/ (~raw.active /\ raw'.from = {})
    BY <1>3 DEF RequestRawScan, NoSweep
  <2> QED  BY <1>3, <2>1 DEF RequestRawScan, Leaves
<1>4. CASE \E c \in Corrs : Nobody(c)
  BY <1>4 DEF Nobody, bus, Leaves
<1> QED  BY <1>1, <1>2, <1>3, <1>4, FromEveryNode DEF Command

LEMMA FirmwareStep ==
  ASSUME TypeOK, Firmware
  PROVE  Leaves \/ Closes
<1>1. CASE Quiet
  <2>1. queue' = queue \/ \E q \in Seq(Entry) :
                             /\ queue' = queue \o q
                             /\ \A i \in 1..Len(q) : q[i].type # "Info"
    BY <1>1 DEF Quiet, FwFrames, Handoff, AfterBoot
  <2> QED  BY <1>1, <2>1 DEF Quiet, Leaves
<1> QED  BY <1>1, FirmwareIs DEF Closes

LEMMA BusStep ==
  ASSUME TypeOK, [Next]_vars
  PROVE  Leaves \/ Closes \/ \E r \in Entry : Asks(r)
<1>1. (\E e \in air : Receive(e)) \/ Timeout => Closes
  BY ReceiveAnswers DEF Timeout, Closes
<1>2. (\E e \in air : Stray(e)) \/ UNCHANGED vars => Leaves
  BY DEF Stray, Leaves, bus, hist, vars
<1> QED  BY <1>1, <1>2, ScheduleStep, CommandStep, FirmwareStep DEF Next

-----------------------------------------------------------------------------
LEMMA SyncStep ==
  ASSUME TypeOK, AllServe(queue), SyncBeforePolls, [Next]_vars
  PROVE  SyncBeforePolls'
<1>1. CASE pending' = NoRequest
  BY <1>1 DEF SyncBeforePolls
<1>2. CASE Closes
  BY <1>1, <1>2 DEF Closes, Answered, Respond, Expire
<1>3. CASE Leaves
  <2> SUFFICES ASSUME pending' # NoRequest, pending'.req.type \in PollFrames
               PROVE  /\ pending'.req.node \notin needsSync'
                      /\ \A i \in DOMAIN queue' : queue'[i].type = "Info"
                                   => queue'[i].node # pending'.req.node
    BY DEF SyncBeforePolls
  <2>1. pending' = pending /\ needsSync' = needsSync
    BY <1>3 DEF Leaves
  <2>2. /\ pending.req.node \notin needsSync
        /\ \A i \in DOMAIN queue : queue[i].type = "Info" => queue[i].node # pending.req.node
    BY <2>1 DEF SyncBeforePolls
  <2>3. CASE queue' = queue
    BY <2>1, <2>2, <2>3
  <2>4. CASE queue' # queue
    <3>1. PICK q \in Seq(Entry) :
            queue' = queue \o q /\ \A i \in 1..Len(q) : q[i].type # "Info"
      BY <1>3, <2>1, <2>4 DEF Leaves
    <3>2. /\ queue \in Seq(Entry) /\ Len(queue) \in Nat /\ Len(q) \in Nat
          /\ DOMAIN queue = 1..Len(queue) /\ DOMAIN (queue \o q) = 1..(Len(queue) + Len(q))
          /\ \A i \in 1..Len(queue) + Len(q) :
               (queue \o q)[i] = IF i <= Len(queue) THEN queue[i] ELSE q[i - Len(queue)]
      BY ConcatProperties DEF TypeOK
    <3> SUFFICES ASSUME NEW i \in 1..(Len(queue) + Len(q)), (queue \o q)[i].type = "Info"
                 PROVE  (queue \o q)[i].node # pending.req.node
      BY <2>1, <2>2, <3>1, <3>2
    <3>3. CASE i <= Len(queue)
      BY <2>2, <3>2, <3>3
    <3>4. CASE i > Len(queue)
      <4>1. i - Len(queue) \in 1..Len(q) /\ (queue \o q)[i] = q[i - Len(queue)]
        BY <3>2, <3>4
      <4> QED  BY <3>1, <4>1
    <3> QED  BY <3>2, <3>3, <3>4
  <2> QED  BY <2>3, <2>4
<1>4. CASE \E r \in Entry : Asks(r)
  <2>1. PICK r \in Entry : Asks(r)
    BY <1>4
  <2>2. pending'.req = r
    BY <2>1, SendType DEF Asks
  <2>3. FromQueue(r) => r.type \notin PollFrames
    <3>1. queue \in Seq(Entry)
      BY DEF TypeOK
    <3> QED  BY <3>1, TailServes DEF FromQueue, Serves
  <2>4. FromSweep(r) => r.type \notin PollFrames
    BY DEF FromSweep, PollFrames
  <2>5. FromPolling(r) /\ r.type \in PollFrames => r.node \notin needsSync' /\ queue' = <<>>
    BY <2>1 DEF FromPolling, SyncDue, Asks
  <2>6. DOMAIN <<>> = {}
    OBVIOUS
  <2> QED  BY <2>1, <2>2, <2>3, <2>4, <2>5, <2>6 DEF SyncBeforePolls, Asks
<1> QED  BY <1>2, <1>3, <1>4, BusStep

\* For any number of quadrants, and whatever they answer, lose or reboot: a node
\* that owes itself a configuration is never polled before the frames that carry it
\* have left the queue, so no poll reads squares in an orientation not yet set.
THEOREM ConfiguredBeforePolled == Spec => []SyncBeforePolls
<1> DEFINE IInv == TypeOK /\ AllServe(queue) /\ SyncBeforePolls
<1>1. Init => IInv
  <2>1. DOMAIN <<>> = {}
    OBVIOUS
  <2> QED  BY <2>1, TypeInit DEF Init, AllServe, SyncBeforePolls
<1>2. IInv /\ [Next]_vars => IInv'
  BY TypeStep, ServeStep, SyncStep
<1>3. IInv => SyncBeforePolls
  OBVIOUS
<1> QED  BY <1>1, <1>2, <1>3, PTL DEF Spec

-----------------------------------------------------------------------------
\* A request goes out under a sequence no reply on the wire carries, so the only
\* reply that can match it is the one made for it.
LEMMA SendFresh ==
  ASSUME TypeOK, NEW r \in Entry, r.node # Everyone, Send(r)
  PROVE  AirIsFresh'
<1> DEFINE s == NextSeq(1)
<1>1. pending' = [req |-> r, seq |-> s]
  BY DEF Send
<1>2. Gone(1) = {e \in air : e.seq = s}
  <2>1. \A i \in 1..1 : i = 1
    OBVIOUS
  <2> QED  BY <2>1 DEF Gone
<1>3. \A e \in air' : \/ e \in air \ Gone(1)
                      \/ e.of = r
  BY DEF Send
<1>4. \A e \in air' : e.seq = s => e.of = r
  BY <1>2, <1>3
<1> QED  BY <1>1, <1>4 DEF AirIsFresh, Expected

LEMMA FreshStep ==
  ASSUME TypeOK, AirIsFresh, [Next]_vars
  PROVE  AirIsFresh'
<1>1. CASE Closes
  BY <1>1 DEF Closes, Answered, Respond, Expire, AirIsFresh
<1>2. CASE Leaves
  <2>1. pending' = pending /\ air' \subseteq air
    BY <1>2 DEF Leaves
  <2> QED  BY <2>1 DEF AirIsFresh, Expected
<1>3. CASE \E r \in Entry : Asks(r)
  BY <1>3, SendFresh DEF Asks
<1> QED  BY <1>1, <1>2, <1>3, BusStep

\* A result that rests on its own replies keeps the record clean.
LEMMA ResultOwn ==
  ASSUME TypeOK, AnswerIsOwn, NEW d \in Anybody, NEW st, NEW from,
         d # NoCorr => from \subseteq {d}, results' = Result(d, st, from)
  PROVE  AnswerIsOwn'
<1>1. results \in [Corrs -> Seq(Terminal)]
  BY DEF TypeOK
<1>2. CASE d = NoCorr
  BY <1>2 DEF Result, AnswerIsOwn
<1>3. CASE d # NoCorr
  <2> DEFINE new == [status |-> st, from |-> from]
  <2>1. d \in Corrs /\ results' = [results EXCEPT ![d] = Append(@, new)]
    BY <1>3 DEF Result, Anybody
  <2> SUFFICES ASSUME NEW c \in Corrs, NEW i \in DOMAIN results'[c]
               PROVE  results'[c][i].from \subseteq {c}
    BY DEF AnswerIsOwn
  <2>2. CASE c # d
    BY <1>1, <2>1, <2>2 DEF AnswerIsOwn
  <2>3. CASE c = d
    <3>1. results[d] \in Seq(Terminal) /\ results'[d] = Append(results[d], new)
      BY <1>1, <2>1
    <3>2. /\ DOMAIN results'[d] = 1..(Len(results[d]) + 1)
          /\ DOMAIN results[d] = 1..Len(results[d]) /\ Len(results[d]) \in Nat
          /\ \A j \in 1..Len(results[d]) : results'[d][j] = results[d][j]
          /\ results'[d][Len(results[d]) + 1] = new
      BY <3>1
    <3>3. i \in 1..Len(results[d]) \/ i = Len(results[d]) + 1
      BY <2>3, <3>2
    <3>4. new.from \subseteq {d}
      BY <1>3
    <3> HIDE DEF new
    <3> QED  BY <2>1, <2>3, <3>2, <3>3, <3>4 DEF AnswerIsOwn
  <2> QED  BY <2>2, <2>3
<1> QED  BY <1>2, <1>3

\* What a sweep has on record once one more slot is retired.
LEMMA SweptOwn ==
  ASSUME TypeOK, NEW r \in RawType, r.from \subseteq {r.corr}, AnswerIsOwn, Swept(r)
  PROVE  SweepIsOwn' /\ AnswerIsOwn'
<1>1. CASE ~(r.active /\ r.target \subseteq r.done)
  BY <1>1 DEF Swept, SweepIsOwn, AnswerIsOwn
<1>2. CASE r.active /\ r.target \subseteq r.done
  <2> DEFINE st == IF r.target \subseteq r.valid THEN "applied" ELSE "timeout"
  <2>1. results' = Result(r.corr, st, r.from) /\ raw' = [r EXCEPT !.active = FALSE]
    BY <1>2 DEF Swept
  <2>2. raw'.from = r.from /\ raw'.corr = r.corr /\ r.corr \in Anybody
    BY <2>1 DEF RawType
  <2> HIDE DEF st
  <2>3. AnswerIsOwn'
    BY <2>1, <2>2, ResultOwn
  <2> QED  BY <2>2, <2>3 DEF SweepIsOwn
<1> QED  BY <1>1, <1>2

\* Everything the answers rest on.
OwnInv == AirIsFresh /\ AskedIsOwn /\ SweepIsOwn /\ AnswerIsOwn

LEMMA RespondOwn ==
  ASSUME TypeOK, OwnInv, NEW e \in air, Expected(e), NEW next, FwFrames(next), Respond(e, next)
  PROVE  SweepIsOwn' /\ AnswerIsOwn'
<1> DEFINE n == pending.req.node
<1>1. /\ pending # NoRequest /\ pending.req \in Entry /\ n \in Nodes
      /\ pending.req.corr \in Anybody /\ e.of = pending.req
  BY PendingType DEF Expected, OwnInv, AirIsFresh
<1>2. raw \in RawType /\ e.of.for \in Anybody /\ raw.from \subseteq {raw.corr}
  BY DEF TypeOK, RawType, Reply, Entry, OwnInv, SweepIsOwn
<1>3. CASE pending.req.type = "GetRawScan"
  <2> DEFINE good == [raw EXCEPT !.done = @ \cup {n}, !.valid = @ \cup {n},
                                 !.from = @ \cup {e.of.for}]
             bad  == [raw EXCEPT !.done = @ \cup {n}]
             r    == IF e.ok THEN good ELSE bad
  <2>1. e.of.for = raw.corr
    BY <1>1, <1>3 DEF OwnInv, AskedIsOwn
  <2>2. /\ good \in RawType /\ good.corr = raw.corr /\ good.from = raw.from \cup {e.of.for}
        /\ bad \in RawType /\ bad.corr = raw.corr /\ bad.from = raw.from
    BY <1>1, <1>2 DEF RawType
  <2>3. Swept(r)
    BY <1>3 DEF Respond
  <2> HIDE DEF good, bad
  <2>4. r \in RawType /\ r.from \subseteq {r.corr}
    BY <1>2, <2>1, <2>2
  <2> HIDE DEF r
  <2> QED  BY <2>3, <2>4, SweptOwn DEF OwnInv
<1>4. CASE pending.req.type # "GetRawScan"
  <2> DEFINE st == IF e.ok THEN "applied" ELSE "rejected"
  <2>1. raw' = raw /\ results' = Result(pending.req.corr, st, {e.of.for})
    BY <1>4 DEF Respond
  <2>2. pending.req.corr # NoCorr => {e.of.for} \subseteq {pending.req.corr}
    BY <1>1 DEF OwnInv, AskedIsOwn
  <2> HIDE DEF st
  <2>3. AnswerIsOwn'
    BY <1>1, <2>1, <2>2, ResultOwn DEF OwnInv
  <2> QED  BY <1>2, <2>1, <2>3 DEF SweepIsOwn
<1> QED  BY <1>3, <1>4

LEMMA ExpireOwn ==
  ASSUME TypeOK, OwnInv, pending # NoRequest, Expire
  PROVE  SweepIsOwn' /\ AnswerIsOwn'
<1> DEFINE n == pending.req.node
<1>1. n \in Nodes /\ pending.req.corr \in Anybody
  BY PendingType
<1>2. raw \in RawType /\ raw.from \subseteq {raw.corr}
  BY DEF TypeOK, RawType, OwnInv, SweepIsOwn
<1>3. CASE pending.req.type = "GetRawScan"
  <2> DEFINE bad == [raw EXCEPT !.done = @ \cup {n}]
  <2>1. bad \in RawType /\ bad.corr = raw.corr /\ bad.from = raw.from
    BY <1>1, <1>2 DEF RawType
  <2>2. Swept(bad)
    BY <1>3 DEF Expire
  <2> HIDE DEF bad
  <2> QED  BY <1>2, <2>1, <2>2, SweptOwn DEF OwnInv
<1>4. CASE pending.req.type # "GetRawScan"
  <2>1. raw' = raw /\ results' = Result(pending.req.corr, "timeout", {})
    BY <1>4 DEF Expire
  <2>2. AnswerIsOwn'
    BY <1>1, <2>1, ResultOwn DEF OwnInv
  <2> QED  BY <1>2, <2>1, <2>2 DEF SweepIsOwn
<1> QED  BY <1>3, <1>4

LEMMA OwnStep ==
  ASSUME TypeOK, AllServe(queue), OwnInv, [Next]_vars
  PROVE  OwnInv'
<1>1. AirIsFresh'
  BY FreshStep DEF OwnInv
<1>2. CASE Closes
  <2>1. pending' = NoRequest
    BY <1>2 DEF Closes, Answered, Respond, Expire
  <2>2. SweepIsOwn' /\ AnswerIsOwn'
    BY <1>2, RespondOwn, ExpireOwn DEF Closes, Answered
  <2> QED  BY <1>1, <2>1, <2>2 DEF OwnInv, AskedIsOwn
<1>3. CASE Leaves
  <2>1. /\ pending' = pending /\ results' = results
        /\ raw' = raw \/ (~raw.active /\ raw'.from = {})
    BY <1>3 DEF Leaves
  <2>2. AskedIsOwn' /\ SweepIsOwn' /\ AnswerIsOwn'
    BY <2>1 DEF OwnInv, AskedIsOwn, SweepIsOwn, AnswerIsOwn
  <2> QED  BY <1>1, <2>2 DEF OwnInv
<1>4. CASE \E r \in Entry : Asks(r)
  <2>1. PICK r \in Entry : Asks(r)
    BY <1>4
  <2>2. pending'.req = r /\ raw' = raw /\ results' = results
    BY <2>1, SendType DEF Asks
  <2>3. FromQueue(r) => Serves(r)
    <3>1. queue \in Seq(Entry)
      BY DEF TypeOK
    <3> QED  BY <3>1, TailServes DEF FromQueue
  <2>4. /\ r.corr # NoCorr => r.for = r.corr
        /\ r.type = "GetRawScan" => raw.active /\ r.for = raw.corr
    BY <2>1, <2>3 DEF Asks, Serves, FromSweep, FromPolling, PollFrames
  <2> QED  BY <1>1, <2>2, <2>4 DEF OwnInv, AskedIsOwn, SweepIsOwn, AnswerIsOwn
<1> QED  BY <1>2, <1>3, <1>4, BusStep

\* The result a command gets rests on replies to its own requests: a reply that
\* comes after its request timed out, or after the sweep it belonged to was closed
\* and another began, is never taken for the answer to a later command, as long as
\* no reply outlives a whole turn of the sequence counter (Gone).
THEOREM AnswersAreOwn == Spec => []AnswerIsOwn
<1> DEFINE IInv == TypeOK /\ AllServe(queue) /\ OwnInv
<1>1. Init => IInv
  <2>1. DOMAIN <<>> = {}
    OBVIOUS
  <2> QED  BY <2>1, TypeInit DEF Init, NoSweep, AllServe, OwnInv, AirIsFresh, AskedIsOwn,
                                 SweepIsOwn, AnswerIsOwn
<1>2. IInv /\ [Next]_vars => IInv'
  BY TypeStep, ServeStep, OwnStep
<1>3. IInv => AnswerIsOwn
  BY DEF OwnInv
<1> QED  BY <1>1, <1>2, <1>3, PTL DEF Spec
=============================================================================
