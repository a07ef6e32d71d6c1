---------------------------- MODULE PainterProofs ----------------------------
(***************************************************************************)
(* Proofs about Painter: no square is lit that the painter does not know   *)
(* of, whatever is lost, refused, rebooted or unplugged.                   *)
(*                                                                         *)
(* The invariant follows each square through the batches in flight: one    *)
(* that is lit, or that a batch will light, is known to the painter now or *)
(* will be cleared by a batch behind it.  The polarity colours are         *)
(* followed the same way, and the venue through its file.                  *)
(***************************************************************************)
EXTENDS Painter, FiniteSetTheorems, SequenceTheorems, TLAPS

Sequence(w) == \E S : w \in Seq(S)

Shape ==
  /\ online \subseteq Nodes
  /\ {"live"} \subseteq DOMAIN painter /\ {"mask"} \subseteq DOMAIN board

\* aware: the squares the painter has lit or has put out of mind.
Due(w, sq, i) == \E j \in DOMAIN w : j > i /\ sq \in w[j].clear

Masked(mask, aware, w) == \A sq \in mask : sq \in aware \/ Due(w, sq, 0)

Sent(aware, w) ==
  \A i \in DOMAIN w : \A sq \in w[i].set : sq \in aware \/ Due(w, sq, i)

Known == Lit(painter) \cup stray

Accounted ==
  /\ Shape /\ Sequence(wire)
  /\ Masked(board.mask, Known, wire) /\ Sent(Known, wire)
-----------------------------------------------------------------------------
(* Sequences *)

LEMMA SequenceFacts ==
  ASSUME NEW w, Sequence(w)
  PROVE  Len(w) \in Nat /\ DOMAIN w = 1..Len(w)
BY DEF Sequence

LEMMA AppendFacts ==
  ASSUME NEW w, Sequence(w), NEW b
  PROVE  /\ Sequence(Append(w, b)) /\ Len(Append(w, b)) = Len(w) + 1
         /\ DOMAIN Append(w, b) = 1..Len(w) + 1
         /\ Append(w, b)[Len(w) + 1] = b
         /\ \A i \in DOMAIN w : Append(w, b)[i] = w[i]
<1>1. PICK R : w \in Seq(R)
  BY DEF Sequence
<1> DEFINE S == R \cup {b}
<1>2. w \in Seq(S) /\ b \in S
  BY <1>1
<1> HIDE DEF S
<1>3. Append(w, b) \in Seq(S)
  BY <1>2
<1> QED  BY <1>2, <1>3 DEF Sequence

LEMMA TailFacts ==
  ASSUME NEW w, Sequence(w), w # <<>>
  PROVE  /\ Sequence(Tail(w)) /\ Len(Tail(w)) = Len(w) - 1 /\ Len(w) >= 1
         /\ DOMAIN Tail(w) = 1..Len(w) - 1 /\ Head(w) = w[1]
         /\ \A i \in 1..Len(w) - 1 : Tail(w)[i] = w[i + 1]
<1>1. PICK S : w \in Seq(S)
  BY DEF Sequence
<1> QED  BY <1>1 DEF Sequence

LEMMA PrefixFacts ==
  ASSUME NEW w, Sequence(w), NEW k \in 0..Len(w)
  PROVE  /\ Sequence(SubSeq(w, 1, k)) /\ DOMAIN SubSeq(w, 1, k) = 1..k
         /\ \A i \in 1..k : SubSeq(w, 1, k)[i] = w[i]
<1>1. PICK S : w \in Seq(S)
  BY DEF Sequence
<1>2. Len(w) \in Nat /\ \A i \in 1..k : i \in 1..Len(w)
  BY <1>1
<1> QED  BY <1>1, <1>2 DEF Sequence
-----------------------------------------------------------------------------
(* What may happen to a square that is lit or about to be *)

\* What is known stays known.
LEMMA KnownKept ==
  ASSUME NEW mask, NEW aware, NEW w, NEW more, aware \subseteq more,
         NEW less, less \subseteq mask,
         Masked(mask, aware, w), Sent(aware, w)
  PROVE  Masked(less, more, w) /\ Sent(more, w)
BY DEF Masked, Sent

\* A batch is sent: what is no longer known is cleared by it, what it lights
\* is known.
LEMMA BatchSent ==
  ASSUME NEW mask, NEW aware, NEW w, Sequence(w), NEW more, NEW b,
         aware \subseteq more \cup b.clear, b.set \subseteq more,
         Masked(mask, aware, w), Sent(aware, w)
  PROVE  Masked(mask, more, Append(w, b)) /\ Sent(more, Append(w, b))
<1> DEFINE v == Append(w, b)
<1> DEFINE n == Len(w)
<1>1. /\ n \in Nat /\ DOMAIN w = 1..n /\ DOMAIN v = 1..n + 1 /\ v[n + 1] = b
      /\ \A i \in DOMAIN w : v[i] = w[i]
  BY SequenceFacts, AppendFacts
<1> HIDE DEF v, n
<1>2. ASSUME NEW sq, NEW i \in 0..n, sq \in aware \/ Due(w, sq, i)
      PROVE  sq \in more \/ Due(v, sq, i)
  <2>1. CASE sq \in aware
    <3>1. CASE sq \in b.clear
      <4>1. n + 1 \in DOMAIN v /\ n + 1 > i /\ sq \in v[n + 1].clear
        BY <1>1, <3>1
      <4> QED  BY <4>1 DEF Due
    <3> QED  BY <2>1, <3>1
  <2>2. CASE Due(w, sq, i)
    <3>1. PICK j \in DOMAIN w : j > i /\ sq \in w[j].clear
      BY <2>2 DEF Due
    <3>2. j \in DOMAIN v /\ v[j] = w[j]
      BY <1>1
    <3> QED  BY <3>1, <3>2 DEF Due
  <2> QED  BY <1>2, <2>1, <2>2
<1>3. Masked(mask, more, v)
  BY <1>1, <1>2 DEF Masked
<1>4. Sent(more, v)
  <2> SUFFICES ASSUME NEW i \in DOMAIN v, NEW sq \in v[i].set
               PROVE  sq \in more \/ Due(v, sq, i)
    BY DEF Sent
  <2>1. CASE i = n + 1
    BY <1>1, <2>1
  <2>2. CASE i # n + 1
    <3>1. i \in DOMAIN w /\ i \in 0..n /\ v[i] = w[i]
      BY <1>1, <2>2
    <3>2. sq \in aware \/ Due(w, sq, i)
      BY <3>1 DEF Sent
    <3> QED  BY <1>2, <3>1, <3>2
  <2> QED  BY <2>1, <2>2
<1> QED  BY <1>3, <1>4 DEF v

\* The first batch is applied, or some of it; astray is what it did not clear.
LEMMA BatchApplied ==
  ASSUME NEW mask, NEW aware, NEW w, Sequence(w), w # <<>>, NEW lit, NEW astray,
         \A sq \in lit : \/ sq \in Head(w).set
                         \/ sq \in mask /\ sq \notin Head(w).clear \ astray,
         Masked(mask, aware, w), Sent(aware, w)
  PROVE  /\ Masked(lit, aware \cup astray, Tail(w)) /\ Sent(aware \cup astray, Tail(w))
<1> DEFINE v == Tail(w)
<1> DEFINE n == Len(w)
<1>1. /\ n \in Nat /\ n >= 1 /\ DOMAIN w = 1..n /\ DOMAIN v = 1..n - 1
      /\ Head(w) = w[1] /\ \A i \in 1..n - 1 : v[i] = w[i + 1]
  BY SequenceFacts, TailFacts
<1> HIDE DEF v, n
<1>2. ASSUME NEW sq, NEW i \in 1..n, Due(w, sq, i)
      PROVE  Due(v, sq, i - 1)
  <2>1. PICK j \in DOMAIN w : j > i /\ sq \in w[j].clear
    BY <1>2 DEF Due
  <2>2. j - 1 \in DOMAIN v /\ j - 1 > i - 1 /\ v[j - 1] = w[j]
    BY <1>1, <2>1
  <2> QED  BY <2>1, <2>2 DEF Due
<1>3. Masked(lit, aware \cup astray, v)
  <2> SUFFICES ASSUME NEW sq \in lit, sq \notin aware, sq \notin astray
               PROVE  Due(v, sq, 0)
    BY DEF Masked
  <2>1. CASE sq \in Head(w).set
    <3>1. Due(w, sq, 1)
      BY <1>1, <2>1 DEF Sent
    <3> QED  BY <1>1, <1>2, <3>1
  <2>2. CASE sq \in mask /\ sq \notin w[1].clear
    <3>1. PICK j \in DOMAIN w : j > 0 /\ sq \in w[j].clear
      BY <2>2 DEF Masked, Due
    <3>2. j > 1
      BY <1>1, <2>2, <3>1
    <3>3. Due(w, sq, 1)
      BY <3>1, <3>2 DEF Due
    <3> QED  BY <1>1, <1>2, <3>3
  <2> QED  BY <1>1, <2>1, <2>2
<1>4. Sent(aware \cup astray, v)
  <2> SUFFICES ASSUME NEW i \in DOMAIN v, NEW sq \in v[i].set, sq \notin aware
               PROVE  Due(v, sq, i)
    BY DEF Sent
  <2>1. i \in 1..n - 1 /\ i + 1 \in DOMAIN w /\ i + 1 \in 1..n /\ v[i] = w[i + 1]
    BY <1>1
  <2>2. Due(w, sq, i + 1)
    BY <2>1 DEF Sent
  <2>3. Due(v, sq, i + 1 - 1)
    BY <1>2, <2>1, <2>2
  <2>4. i + 1 - 1 = i
    BY <2>1
  <2> QED  BY <2>3, <2>4
<1> QED  BY <1>3, <1>4 DEF v

\* The link is lost with the batches after the first k.
LEMMA BatchesLost ==
  ASSUME NEW mask, NEW aware, NEW w, Sequence(w), NEW k \in 0..Len(w), NEW more,
         aware \cup UNION {w[i].clear : i \in k + 1..Len(w)} \subseteq more,
         Masked(mask, aware, w), Sent(aware, w)
  PROVE  Masked(mask, more, SubSeq(w, 1, k)) /\ Sent(more, SubSeq(w, 1, k))
<1> DEFINE v == SubSeq(w, 1, k)
<1>1. /\ Len(w) \in Nat /\ DOMAIN w = 1..Len(w) /\ DOMAIN v = 1..k
      /\ \A i \in 1..k : v[i] = w[i]
  BY SequenceFacts, PrefixFacts
<1> HIDE DEF v
<1>2. ASSUME NEW sq, NEW i, sq \in aware \/ Due(w, sq, i)
      PROVE  sq \in more \/ Due(v, sq, i)
  <2>1. CASE Due(w, sq, i)
    <3>1. PICK j \in DOMAIN w : j > i /\ sq \in w[j].clear
      BY <2>1 DEF Due
    <3>2. CASE j \in 1..k
      BY <1>1, <3>1, <3>2 DEF Due
    <3>3. CASE j \notin 1..k
      <4>1. j \in k + 1..Len(w)
        BY <1>1, <3>3
      <4> QED  BY <3>1, <4>1
    <3> QED  BY <3>2, <3>3
  <2> QED  BY <1>2, <2>1
<1>3. Masked(mask, more, v)
  BY <1>2 DEF Masked
<1>4. Sent(more, v)
  <2> SUFFICES ASSUME NEW i \in DOMAIN v, NEW sq \in v[i].set
               PROVE  sq \in more \/ Due(v, sq, i)
    BY DEF Sent
  <2>1. i \in DOMAIN w /\ v[i] = w[i]
    BY <1>1
  <2>2. sq \in aware \/ Due(w, sq, i)
    BY <2>1 DEF Sent
  <2> QED  BY <1>2, <2>2
<1> QED  BY <1>3, <1>4 DEF v
-----------------------------------------------------------------------------
(* The methods of the painter *)

LEMMA ForgetFacts ==
  ASSUME NEW p, {"live"} \subseteq DOMAIN p
  PROVE  /\ {"live"} \subseteq DOMAIN forget(p) /\ Lit(forget(p)) = {}
         /\ \A c : LET q == [forget(p) EXCEPT !.colours_neutralised = c]
                   IN {"live"} \subseteq DOMAIN q /\ Lit(q) = {}
         /\ \A c : LET q == [forget(p) EXCEPT !.bars_supported = c]
                   IN {"live"} \subseteq DOMAIN q /\ Lit(q) = {}
BY DEF forget, Lit, AllDark

LEMMA RejoinedFacts ==
  ASSUME NEW p, NEW ns, {"live"} \subseteq DOMAIN p
  PROVE  /\ {"live"} \subseteq DOMAIN node_rejoined(p, ns)
         /\ Lit(node_rejoined(p, ns)) \subseteq Lit(p)
<1> DEFINE live == [sq \in Squares |-> IF node_of_device_square(sq) \in ns
                                       THEN Dark ELSE p.live[sq]]
<1> DEFINE q == node_rejoined(p, ns)
<1>1. CASE ns = {}
  BY <1>1 DEF node_rejoined
<1>2. CASE ns # {}
  <2>1. q.live = live /\ {"live"} \subseteq DOMAIN q
    BY <1>2 DEF node_rejoined
  <2> HIDE DEF q
  <2>2. \A sq \in Squares : q.live[sq] # Dark => p.live[sq] # Dark
    BY <2>1
  <2>3. Lit(q) \subseteq Lit(p)
    BY <2>2 DEF Lit
  <2> QED  BY <2>1, <2>3 DEF q
<1> QED  BY <1>1, <1>2

LEMMA NodeOfSquare ==
  ASSUME NEW sq \in Squares
  PROVE  node_of_device_square(sq) \in Nodes
BY DEF node_of_device_square, Nodes

LEMMA WantedFacts ==
  ASSUME NEW s, NEW v, NEW on, on \subseteq Nodes
  PROVE  /\ wanted(s, v, on) \subseteq Squares
         /\ \A sq \in wanted(s, v, on) : node_of_device_square(sq) \in on
BY DEF wanted, On, Quad

\* A frame: what it lights is believed lit, what is no longer is cleared.
LEMMA DiffFacts ==
  ASSUME NEW p, {"live"} \subseteq DOMAIN p, NEW s, NEW v, NEW on, on \subseteq Nodes,
         NEW w, w \subseteq Squares, \A sq \in w : node_of_device_square(sq) \in on,
         NEW hs, NEW now
  PROVE  LET d == diff(p, s, v, on, w, hs, now)
         IN /\ d.batch.set = w /\ {"live"} \subseteq DOMAIN d.painter
            /\ w \subseteq Lit(d.painter)
            /\ Lit(p) \subseteq Lit(d.painter) \cup d.batch.clear
<1> DEFINE d == diff(p, s, v, on, w, hs, now)
<1> DEFINE paint == <<basic(s), v.palette>>
<1>1. d.batch.set = w /\ d.batch.clear = (Lit(p) \cap On(on)) \ w
  BY DEF diff, Nothing
<1>2. {"live"} \subseteq DOMAIN d.painter /\ d.painter.live = live_after(p, w, paint, on)
  BY DEF diff
<1>3. paint # Dark
  BY DEF Dark
<1> HIDE DEF d, paint
<1>4. ASSUME NEW sq \in Squares
      PROVE  d.painter.live[sq] = IF node_of_device_square(sq) \notin on THEN p.live[sq]
                                  ELSE IF sq \in w THEN paint ELSE Dark
  BY <1>2 DEF live_after
<1>5. w \subseteq Lit(d.painter)
  BY <1>3, <1>4 DEF Lit
<1>6. ASSUME NEW sq \in Lit(p), sq \notin Lit(d.painter)
      PROVE  sq \in d.batch.clear
  <2>1. sq \in Squares /\ p.live[sq] # Dark /\ d.painter.live[sq] = Dark
    BY <1>6 DEF Lit
  <2>2. node_of_device_square(sq) \in on /\ sq \notin w
    BY <1>3, <1>4, <2>1
  <2>3. sq \in Quad[node_of_device_square(sq)]
    BY <2>1, NodeOfSquare DEF Quad
  <2>4. sq \in On(on)
    BY <2>2, <2>3 DEF On
  <2> QED  BY <1>1, <1>6, <2>2, <2>4
<1> QED  BY <1>1, <1>2, <1>5, <1>6 DEF d
-----------------------------------------------------------------------------
(* The actions *)

LEMMA Quiet ==
  ASSUME Accounted, wire' = wire, board'.mask \subseteq board.mask,
         Known \subseteq Known', Shape'
  PROVE  Accounted'
<1> DEFINE m == board'.mask
<1> DEFINE k == Known'
<1>1. Masked(m, k, wire) /\ Sent(k, wire)
  <2> HIDE DEF k, m
  <2> QED  BY KnownKept DEF Accounted, k, m
<1> QED  BY <1>1 DEF Accounted

LEMMA Sends ==
  ASSUME Accounted, NEW b, NEW left, send_command(b, left), UNCHANGED board,
         online' \subseteq Nodes, {"live"} \subseteq DOMAIN painter',
         Lit(painter) \subseteq Lit(painter)' \cup left \cup b.clear,
         b.set \subseteq Lit(painter)'
  PROVE  Accounted'
<1> DEFINE more == Known'
<1>0. Shape'
  BY DEF Accounted, Shape
<1>1. CASE linked
  <2>1. wire' = Append(wire, b) /\ stray' = stray \cup left
    BY <1>1 DEF send_command
  <2>2. Known \subseteq more \cup b.clear /\ b.set \subseteq more
    BY <2>1 DEF Known
  <2>3. Sequence(wire) /\ Masked(board.mask, Known, wire) /\ Sent(Known, wire)
    BY DEF Accounted
  <2> HIDE DEF more
  <2>4. Masked(board.mask, more, Append(wire, b)) /\ Sent(more, Append(wire, b))
    BY <2>2, <2>3, BatchSent
  <2>5. Sequence(Append(wire, b))
    BY <2>3, AppendFacts
  <2> QED  BY <1>0, <2>1, <2>4, <2>5 DEF Accounted, more
<1>2. CASE ~linked
  <2>1. Known \subseteq Known' /\ wire' = wire
    BY <1>2 DEF send_command, Known
  <2> QED  BY <1>0, <2>1, Quiet
<1> QED  BY <1>1, <1>2

\* Squares are put out of mind, or nothing at all happens to them.
LEMMA Forgets ==
  ASSUME Accounted, wire' = wire, UNCHANGED <<online, board>>,
         {"live"} \subseteq DOMAIN painter', stray' = stray \cup Lit(painter)
  PROVE  Accounted'
<1>1. Shape' /\ Known \subseteq Known'
  BY DEF Accounted, Shape, Known
<1> QED  BY <1>1, Quiet

LEMMA Elsewhere ==
  ASSUME Accounted, UNCHANGED <<wire, online, board, painter, stray>>
  PROVE  Accounted'
<1>1. Shape' /\ Known' = Known
  BY DEF Accounted, Shape, Known, Lit
<1> QED  BY <1>1, Quiet

\* Somebody else sends a batch, which clears nothing and lights only squares that
\* are out of the painter's mind.
LEMMA Bypasses ==
  ASSUME Accounted, NEW b, b.clear = {}, b.set \subseteq stray',
         UNCHANGED <<online, board, painter>>, stray \subseteq stray',
         wire' \in {wire, Append(wire, b)}
  PROVE  Accounted'
<1> DEFINE more == Known'
<1>1. Shape' /\ Known \subseteq more /\ b.set \subseteq more
  BY DEF Accounted, Shape, Known, Lit
<1>2. CASE wire' = wire
  BY <1>1, <1>2, Quiet
<1>3. CASE wire' = Append(wire, b)
  <2>1. Sequence(wire) /\ Masked(board.mask, Known, wire) /\ Sent(Known, wire)
    BY DEF Accounted
  <2> HIDE DEF more
  <2>2. Masked(board.mask, more, Append(wire, b)) /\ Sent(more, Append(wire, b))
    BY <1>1, <2>1, BatchSent
  <2>3. Sequence(Append(wire, b))
    BY <2>1, AppendFacts
  <2> QED  BY <1>1, <1>3, <2>2, <2>3 DEF Accounted, more
<1> QED  BY <1>2, <1>3

LEMMA FrameAccounted == Accounted /\ repaint => Accounted'
<1> SUFFICES ASSUME Accounted, repaint PROVE Accounted'
  OBVIOUS
<1> DEFINE p == node_rejoined(painter, rejoined)
<1> DEFINE w == wanted(scene, venue, online)
<1>1. online \subseteq Nodes /\ {"live"} \subseteq DOMAIN p /\ Lit(p) \subseteq Lit(painter)
  BY RejoinedFacts DEF Accounted, Shape
<1>2. /\ w \subseteq Squares
      /\ \A sq \in w : node_of_device_square(sq) \in online
  BY <1>1, WantedFacts
<1>3. UNCHANGED <<online, board>>
  BY DEF repaint
<1>4. CASE Rests(p)
  <2>1. /\ painter' = p /\ stray' = stray \cup (Lit(painter) \ Lit(p))
        /\ wire' = wire
    BY <1>4 DEF Rests
  <2> HIDE DEF p
  <2>2. Shape' /\ Known \subseteq Known'
    BY <1>1, <1>3, <2>1 DEF Accounted, Shape, Known
  <2> QED  BY <1>3, <2>1, <2>2, Quiet
<1>5. CASE ~Rests(p)
  <2>1. PICK hs, now : LET d == diff(p, scene, venue, online, w, hs, now)
                       IN /\ painter' = d.painter
                          /\ send_command(d.batch, Lit(painter) \ Lit(p))
    BY <1>5 DEF repaint
  <2> DEFINE d == diff(p, scene, venue, online, w, hs, now)
  <2> HIDE DEF p, w
  <2>2. /\ d.batch.set = w /\ {"live"} \subseteq DOMAIN d.painter
        /\ w \subseteq Lit(d.painter)
        /\ Lit(p) \subseteq Lit(d.painter) \cup d.batch.clear
    BY <1>1, <1>2, DiffFacts
  <2> HIDE DEF d
  <2>3. Lit(painter) \subseteq Lit(painter)' \cup (Lit(painter) \ Lit(p)) \cup d.batch.clear
    BY <2>1, <2>2 DEF d
  <2> QED  BY <1>1, <1>3, <2>1, <2>2, <2>3, Sends DEF d
<1> QED  BY <1>4, <1>5

LEMMA OperatorAccounted == Accounted /\ Operator => Accounted'
<1> SUFFICES ASSUME Accounted, Operator PROVE Accounted'
  OBVIOUS
<1>0. Shape /\ online \subseteq Nodes /\ Lit(painter) \subseteq Squares
  BY DEF Accounted, Shape, Lit
<1>1. ASSUME NEW s \in Scenes, Play(s) PROVE Accounted'
  BY <1>1, Elsewhere DEF Play
<1>2. ASSUME NEW s \in Scenes, new_game(s) PROVE Accounted'
  <2>1. {"live"} \subseteq DOMAIN painter' /\ Lit(painter)' = {}
    BY <1>0, <1>2, ForgetFacts DEF new_game, Shape
  <2>2. UNCHANGED <<online, board>>
    BY <1>2 DEF new_game
  <2>3. CASE painter.colours_neutralised \/ online = {}
    BY <1>2, <2>1, <2>2, <2>3, Forgets DEF new_game
  <2>4. CASE ~(painter.colours_neutralised \/ online = {})
    <3>1. send_command(neutralise_colours(online), Lit(painter))
      BY <1>2, <2>4 DEF new_game
    <3>2. neutralise_colours(online).set = {}
      BY DEF neutralise_colours, Nothing
    <3> QED  BY <1>0, <2>1, <2>2, <3>1, <3>2, Sends
  <2> QED  BY <2>3, <2>4
<1>3. ASSUME NEW s \in Scenes, abort(s) PROVE Accounted'
  <2> DEFINE b == restore_colours(painter, venue, online)
  <2>1. {"live"} \subseteq DOMAIN painter' /\ Lit(painter)' = {}
    BY <1>0, <1>3, ForgetFacts DEF abort, Shape
  <2>2. UNCHANGED <<online, board>> /\ send_command(b, {})
    BY <1>3 DEF abort
  <2>3. b.set = {} /\ b.clear = Squares
    BY DEF restore_colours, Nothing
  <2> HIDE DEF b
  <2>4. Lit(painter) \subseteq Lit(painter)' \cup {} \cup b.clear
    BY <1>0, <2>3
  <2> QED  BY <1>0, <2>1, <2>2, <2>3, <2>4, Sends
<1>4. ASSUME NEW v, recalibrate(v) PROVE Accounted'
  <2>1. {"live"} \subseteq DOMAIN painter'
    BY <1>0, <1>4, ForgetFacts DEF recalibrate, Shape
  <2> QED  BY <1>4, <2>1, Forgets DEF recalibrate
<1>5. ASSUME NEW m \in Maps, bars_map(m) PROVE Accounted'
  <2>1. CASE recalibrate([venue EXCEPT !.bar_map = m])
    BY <1>4, <2>1
  <2>2. CASE UNCHANGED <<wire, online, board, painter, stray>>
    BY <2>2, Elsewhere
  <2> QED  BY <1>5, <2>1, <2>2 DEF bars_map
<1>6. ASSUME NEW s \in Plugged \X {"a"}, bars_test(s) PROVE Accounted'
  <2> DEFINE b == [Nothing EXCEPT !.bars = [t \in {s} |-> Probe]]
  <2>1. {"live"} \subseteq DOMAIN painter' /\ Lit(painter)' = {}
    BY <1>0, <1>6, ForgetFacts DEF bars_test, Shape
  <2>2. UNCHANGED <<online, board>> /\ send_command(b, Lit(painter))
    BY <1>6 DEF bars_test
  <2>3. b.set = {}
    BY DEF Nothing
  <2> HIDE DEF b
  <2> QED  BY <1>0, <2>1, <2>2, <2>3, Sends
<1>7. CASE Restart
  <2>1. online' = {} /\ UNCHANGED <<wire, board>> /\ painter' = FreshPainter
        /\ stray' = stray \cup Lit(painter)
    BY <1>7 DEF Restart
  <2>2. Shape' /\ Known \subseteq Known'
    BY <1>0, <2>1 DEF Shape, Known, FreshPainter
  <2> QED  BY <2>1, <2>2, Quiet
<1>8. ASSUME NEW n \in Plugged, node_config(n) PROVE Accounted'
  <2> DEFINE b == [Nothing EXCEPT !.keys = {n}]
  <2>1. UNCHANGED <<online, board, painter, stray>> /\ wire' \in {wire, Append(wire, b)}
    BY <1>8 DEF node_config
  <2>2. b.set = {} /\ b.clear = {}
    BY DEF Nothing
  <2> HIDE DEF b
  <2> QED  BY <2>1, <2>2, Bypasses
<1>9. ASSUME NEW sqs \in Probed, lighting_set(sqs) PROVE Accounted'
  <2> DEFINE b == [Nothing EXCEPT !.set = sqs, !.colour = Probe]
  <2>1. /\ UNCHANGED <<online, board, painter>> /\ wire' = Append(wire, b)
        /\ stray' = stray \cup sqs
    BY <1>9 DEF lighting_set
  <2>2. b.set = sqs /\ b.clear = {}
    BY DEF Nothing
  <2> HIDE DEF b
  <2> QED  BY <2>1, <2>2, Bypasses
<1> QED
  BY <1>1, <1>2, <1>3, <1>4, <1>5, <1>6, <1>7, <1>8, <1>9
     DEF Operator, set_palette, rotate_board, bars_sides

\* The first batch reaches the quadrants that are there, but for what is lost.
LEMMA DeliveryAccounted == Accounted /\ Delivery => Accounted'
<1> SUFFICES ASSUME Accounted, NEW lost, Deliver(lost) PROVE Accounted'
  BY DEF Delivery
<1> DEFINE b == Head(wire)
<1> DEFINE clear == IF lost = <<"clear">> THEN {} ELSE b.clear \cap On(up)
<1> DEFINE nodes == IF lost = <<"set">> THEN {}
                    ELSE {n \in up : \E sq \in b.set : node_of_device_square(sq) = n}
<1> DEFINE mask == setSquares(board.mask, nodes, b.set, clear)
<1> DEFINE astray == stray \cup (b.clear \ clear)
<1>0. /\ Shape /\ Sequence(wire)
      /\ Masked(board.mask, Known, wire) /\ Sent(Known, wire)
  BY DEF Accounted
<1>1. /\ wire # <<>> /\ wire' = Tail(wire) /\ UNCHANGED <<painter, online>>
      /\ board'.mask = mask /\ {"mask"} \subseteq DOMAIN board'
      /\ stray' = IF Len(wire) = 1 THEN astray \cap mask ELSE astray
  BY DEF Deliver
<1>2. ASSUME NEW sq \in mask
      PROVE  sq \in b.set \/ (sq \in board.mask /\ sq \notin b.clear \ astray)
  BY DEF setSquares
<1> HIDE DEF b, clear, nodes, mask
<1>3. stray \subseteq astray
  OBVIOUS
<1> HIDE DEF astray
<1>4. Masked(mask, Known \cup astray, Tail(wire)) /\ Sent(Known \cup astray, Tail(wire))
  BY <1>0, <1>1, <1>2, BatchApplied DEF b
<1>5. Known \cup astray = Lit(painter) \cup astray
  BY <1>3 DEF Known
<1>6. Shape' /\ Sequence(Tail(wire)) /\ Lit(painter)' = Lit(painter)
  BY <1>0, <1>1, TailFacts DEF Shape, Lit
<1>7. CASE Len(wire) = 1
  <2>1. Known' = Lit(painter) \cup (astray \cap mask)
    BY <1>1, <1>6, <1>7 DEF Known
  <2>2. DOMAIN Tail(wire) = {}
    <3>1. DOMAIN Tail(wire) = 1..Len(wire) - 1
      BY <1>0, <1>1, TailFacts
    <3>2. 1..Len(wire) - 1 = {}
      BY <1>7
    <3> QED  BY <3>1, <3>2
  <2>3. \A sq : ~Due(Tail(wire), sq, 0)
    BY <2>2 DEF Due
  <2>4. mask \subseteq Lit(painter) \cup astray
    BY <1>4, <1>5, <2>3 DEF Masked
  <2>5. Masked(mask, Known', Tail(wire))
    BY <2>1, <2>4 DEF Masked
  <2>6. Sent(Known', Tail(wire))
    BY <2>2 DEF Sent
  <2> QED  BY <1>1, <1>6, <2>5, <2>6 DEF Accounted
<1>8. CASE Len(wire) # 1
  <2>1. Known' = Lit(painter) \cup astray
    BY <1>1, <1>6, <1>8 DEF Known
  <2> QED  BY <1>1, <1>4, <1>5, <1>6, <2>1 DEF Accounted
<1> QED  BY <1>7, <1>8

LEMMA LinkAccounted == Accounted /\ (\E k \in 0..Len(wire) : Unlink(k)) => Accounted'
<1> SUFFICES ASSUME Accounted, NEW k \in 0..Len(wire), Unlink(k) PROVE Accounted'
  OBVIOUS
<1> DEFINE more == Known'
<1>1. /\ wire' = SubSeq(wire, 1, k) /\ UNCHANGED <<online, painter, board>>
      /\ stray' = stray \cup UNION {wire[i].clear : i \in k + 1..Len(wire)}
  BY DEF Unlink
<1>2. /\ Sequence(wire)
      /\ Masked(board.mask, Known, wire) /\ Sent(Known, wire)
  BY DEF Accounted
<1>3. Shape' /\ Known \cup UNION {wire[i].clear : i \in k + 1..Len(wire)} \subseteq more
  BY <1>1 DEF Accounted, Shape, Known, Lit
<1> HIDE DEF more
<1>4. Masked(board.mask, more, SubSeq(wire, 1, k)) /\ Sent(more, SubSeq(wire, 1, k))
  BY <1>2, <1>3, BatchesLost
<1>5. Sequence(SubSeq(wire, 1, k))
  BY <1>2, PrefixFacts
<1> QED  BY <1>1, <1>3, <1>4, <1>5 DEF Accounted, more

LEMMA DeviceAccounted ==
  /\ Accounted /\ (on_command_result \/ Second \/ Hearing \/ Link) => Accounted'
  /\ \A n : Accounted /\ (Drops(n) \/ Returns(n) \/ (\E r \in BOOLEAN : Reset(n, r)))
              => Accounted'
<1> SUFFICES ASSUME Accounted
             PROVE  /\ on_command_result \/ Second \/ Hearing \/ Link => Accounted'
                    /\ \A n : Drops(n) \/ Returns(n) \/ (\E r \in BOOLEAN : Reset(n, r))
                                => Accounted'
  OBVIOUS
<1>0. Shape
  BY DEF Accounted
<1>1. CASE on_command_result
  <2>1. UNCHANGED <<wire, online, board>>
    BY <1>1 DEF on_command_result
  <2>2. CASE painter.bars_supported
    <3>1. {"live"} \subseteq DOMAIN painter' /\ stray' = stray \cup Lit(painter)
      BY <1>0, <1>1, <2>2, ForgetFacts DEF on_command_result, Shape
    <3> QED  BY <2>1, <3>1, Forgets
  <2>3. CASE ~painter.bars_supported
    BY <1>1, <2>1, <2>3, Elsewhere DEF on_command_result
  <2> QED  BY <2>2, <2>3
<1>2. CASE Second \/ Link
  BY <1>2, Elsewhere DEF Second, Link
<1>3. CASE Hearing
  <2>1. PICK ns \in {{n} : n \in Nodes} \cup {Nodes} : Hear(ns)
    BY <1>3 DEF Hearing
  <2>2. online' \subseteq Nodes /\ UNCHANGED <<wire, board, painter, stray>>
    BY <1>0, <2>1 DEF Hear, Shape
  <2>3. Shape' /\ Known \subseteq Known'
    BY <1>0, <2>2 DEF Shape, Known, Lit
  <2> QED  BY <2>2, <2>3, Quiet
<1>4. ASSUME NEW n, Drops(n) \/ Returns(n) PROVE Accounted'
  BY <1>4, Elsewhere DEF Drops, Returns
<1>5. ASSUME NEW n, NEW r, Reset(n, r) PROVE Accounted'
  <2>1. UNCHANGED <<wire, online, painter, stray>>
    BY <1>5 DEF Reset
  <2>2. board'.mask \subseteq board.mask /\ {"mask"} \subseteq DOMAIN board'
    BY <1>0, <1>5 DEF Reset, Shape
  <2>3. Shape' /\ Known \subseteq Known'
    BY <1>0, <2>1, <2>2 DEF Shape, Known, Lit
  <2> QED  BY <2>1, <2>2, <2>3, Quiet
<1> QED  BY <1>1, <1>2, <1>3, <1>4, <1>5

\* Every square that is lit, when no command is in flight, is one the painter
\* believes lit or has deliberately put out of mind: for every board, every
\* frame, every number of batches in flight, and whatever is lost, refused,
\* rebooted, unplugged or restarted, no frame loses track of a square.
THEOREM LitIsAccountedFor == Spec => []NothingLitUnnoticed
<1>1. Init => Accounted
  <2> SUFFICES ASSUME Init PROVE Accounted
    OBVIOUS
  <2>1. wire = <<>> /\ board.mask = {} /\ {"mask"} \subseteq DOMAIN board
        /\ painter = FreshPainter /\ online = Plugged
    BY DEF Init
  <2>2. Shape
    BY <2>1, PainterAssumption DEF Shape, FreshPainter
  <2>3. <<>> \in Seq({}) /\ DOMAIN <<>> = {}
    BY EmptySeq
  <2>4. Sequence(<<>>)
    BY <2>3 DEF Sequence
  <2>5. Sequence(wire) /\ DOMAIN wire = {}
    BY <2>1, <2>3, <2>4
  <2> QED  BY <2>1, <2>2, <2>5 DEF Accounted, Masked, Sent
<1>2. Accounted /\ [Next]_vars => Accounted'
  <2>1. Accounted /\ Next => Accounted'
    BY FrameAccounted, OperatorAccounted, DeliveryAccounted, LinkAccounted,
       DeviceAccounted DEF Next
  <2>2. Accounted /\ UNCHANGED vars => Accounted'
    BY Elsewhere DEF vars
  <2> QED  BY <2>1, <2>2
<1>3. Accounted => NothingLitUnnoticed
  <2> SUFFICES ASSUME Accounted, wire = <<>>
               PROVE  board.mask \subseteq Known
    BY DEF NothingLitUnnoticed, Known
  <2>1. DOMAIN wire = {}
    BY EmptySeq
  <2> QED  BY <2>1 DEF Accounted, Masked, Due
<1> QED  BY <1>1, <1>2, <1>3, PTL DEF Spec
-----------------------------------------------------------------------------
(* Types *)

PainterType == [live : [Squares -> Colours], live_bars : [Halves -> Pixels],
                bars_written : BOOLEAN, bars_supported : BOOLEAN,
                colours_neutralised : BOOLEAN]

BoardType == [mask : SUBSET Squares, tint : [Nodes -> Colours],
              strip : [Strips -> Pixels], neutral : SUBSET Nodes]

Batch(b) ==
  /\ b \in [clear : SUBSET Squares, set : SUBSET Squares, colour : Colours,
            bars : {b.bars}, keys : SUBSET Nodes, neutral : BOOLEAN]
  /\ DOMAIN b.bars \subseteq Strips
  /\ \A s \in DOMAIN b.bars : b.bars[s] \in Pixels

\* TypeOK, and the wire is a queue.
Typed ==
  /\ scene \in Scenes /\ venue \in Venue /\ file \in Files
  /\ chip \in BOOLEAN /\ online \subseteq Nodes /\ rejoined \subseteq Nodes
  /\ painter \in PainterType
  /\ frames \in 0..MaxFrames /\ due \in BOOLEAN /\ linked \in BOOLEAN
  /\ Sequence(wire) /\ \A i \in DOMAIN wire : Batch(wire[i])
  /\ complaint \in BOOLEAN /\ board \in BoardType
  /\ up \subseteq Nodes /\ old \subseteq Nodes
  /\ stray \subseteq Squares /\ missed \subseteq Nodes
  /\ slipped \in BOOLEAN /\ spent \in Nat

LEMMA TypedOK == Typed => TypeOK
BY DEF Typed, TypeOK, PainterType, BoardType, Batch

LEMMA Colour ==
  ASSUME NEW s \in Scenes, NEW v \in Venue
  PROVE  /\ Dark \in Colours /\ Dark \in Pixels /\ White \in Pixels /\ Probe \in Pixels
         /\ <<basic(s), v.palette>> \in Colours
<1>1. basic(s) \in Paints
  BY DEF basic, Paints
<1>2. v.palette \in Palettes
  BY DEF Venue
<1> QED  BY <1>1, <1>2 DEF Colours, Pixels

\* Eight pixels to a half bar.
LEMMA BarType ==
  ASSUME NEW s \in Scenes, NEW v \in Venue, NEW h \in Halves
  PROVE  bar(s, v, h) \in Pixels
<1>1. h[2] \in {0, 1} /\ v.palette \in Palettes
  BY DEF Halves, Venue
<1>2. s.win \in 0..16
  BY PainterAssumption DEF Scene
<1>3. clamp(s.win, 1, 15) \in 1..15
  BY <1>2 DEF clamp
<1>4. clamp(s.win, 1, 15) - 8 * h[2] \in Int
  BY <1>1, <1>3
<1>5. \A x \in Int : clamp(x, 0, 8) \in 0..8
  BY DEF clamp
<1>6. (IF s.white THEN 8 ELSE 0) \in 0..8
  OBVIOUS
<1> DEFINE a == clamp(clamp(s.win, 1, 15) - 8 * h[2], 0, 8)
           c == IF s.white THEN 8 ELSE 0
<1>7. bar(s, v, h) \in {<<c, v.palette>>, <<a, v.palette>>, Dark}
  BY DEF bar
<1> HIDE DEF a, c
<1>8. a \in 0..8 /\ c \in 0..8
  BY <1>4, <1>5, <1>6 DEF a, c
<1> QED  BY <1>1, <1>7, <1>8 DEF Pixels

\* Of several halves there is a last one.
LEMMA LastHalf ==
  ASSUME NEW hs, hs \subseteq Halves, hs # {}
  PROVE  \E h \in hs : \A g \in hs : Rank(g) <= Rank(h)
<1>1. \A h \in hs : Rank(h) \in 0..7
  <2> SUFFICES ASSUME NEW h \in hs PROVE Rank(h) \in 0..7
    OBVIOUS
  <2>1. h[1] \in 0..3 /\ h[2] \in {0, 1}
    BY PainterAssumption DEF Halves
  <2>2. 2 * h[1] + h[2] \in 0..7
    BY <2>1
  <2> QED  BY <2>2 DEF Rank
<1>2. ASSUME NEW n \in 0..7, \E h \in hs : Rank(h) = n, \A h \in hs : Rank(h) <= n
      PROVE  \E h \in hs : \A g \in hs : Rank(g) <= Rank(h)
  BY <1>2
<1>3. ASSUME NEW n \in 0..7, \A h \in hs : Rank(h) <= n,
             ~ \E h \in hs : Rank(h) = n
      PROVE  \A h \in hs : Rank(h) <= n - 1
  BY <1>1, <1>3
<1> DEFINE B(n) == \A h \in hs : Rank(h) <= n
           L == \E h \in hs : \A g \in hs : Rank(g) <= Rank(h)
<1>4. B(7)
  BY <1>1
<1>5. \A n \in 0..7 : B(n) => L \/ B(n - 1)
  BY <1>2, <1>3
<1>6. ~B(-1)
  BY <1>1
<1> HIDE DEF B, L
<1>7. L \/ B(6)  BY <1>4, <1>5
<1>8. L \/ B(5)  BY <1>7, <1>5
<1>9. L \/ B(4)  BY <1>8, <1>5
<1>10. L \/ B(3)  BY <1>9, <1>5
<1>11. L \/ B(2)  BY <1>10, <1>5
<1>12. L \/ B(1)  BY <1>11, <1>5
<1>13. L \/ B(0)  BY <1>12, <1>5
<1>14. L \/ B(-1)  BY <1>13, <1>5
<1> QED  BY <1>6, <1>14 DEF L

\* Half a bar is written to the strip it is mapped to.
LEMMA WrittenType ==
  ASSUME NEW s \in Scenes, NEW v \in Venue, NEW hs, hs \subseteq Halves
  PROVE  /\ DOMAIN written(hs, s, v) \subseteq Strips
         /\ \A t \in DOMAIN written(hs, s, v) : written(hs, s, v)[t] \in Pixels
<1> DEFINE T == {v.bar_map[h] : h \in hs}
           last(t) == CHOOSE h \in hs : /\ v.bar_map[h] = t
                                        /\ \A g \in hs : v.bar_map[g] = t => Rank(g) <= Rank(h)
<1>1. v.bar_map \in [Halves -> Strips]
  BY PainterAssumption DEF Venue
<1>2. T \subseteq Strips
  BY <1>1
<1>3. DOMAIN written(hs, s, v) = T /\ \A t \in T : written(hs, s, v)[t] = bar(s, v, last(t))
  BY DEF written
<1>4. ASSUME NEW t \in T PROVE last(t) \in hs
  <2> DEFINE gs == {h \in hs : v.bar_map[h] = t}
  <2>1. gs \subseteq Halves /\ gs # {}
    OBVIOUS
  <2>2. PICK h \in gs : \A g \in gs : Rank(g) <= Rank(h)
    BY <2>1, LastHalf
  <2> QED  BY <2>2
<1> HIDE DEF T, last
<1> QED  BY <1>2, <1>3, <1>4, BarType

LEMMA FreshType == FreshPainter \in PainterType
BY DEF FreshPainter, PainterType, AllDark, BarsDark, Colours, Pixels

LEMMA ForgetType ==
  ASSUME NEW p \in PainterType
  PROVE  /\ forget(p) \in PainterType
         /\ \A c \in BOOLEAN : [forget(p) EXCEPT !.colours_neutralised = c] \in PainterType
         /\ \A c \in BOOLEAN : [forget(p) EXCEPT !.bars_supported = c] \in PainterType
BY DEF forget, PainterType, AllDark, BarsDark, Colours, Pixels

LEMMA RejoinedType ==
  ASSUME NEW p \in PainterType, NEW ns
  PROVE  node_rejoined(p, ns) \in PainterType
<1> DEFINE live == [sq \in Squares |-> IF node_of_device_square(sq) \in ns
                                       THEN Dark ELSE p.live[sq]]
<1>1. p.live \in [Squares -> Colours] /\ Dark \in Colours
  BY DEF PainterType, Colours
<1>2. live \in [Squares -> Colours]
  BY <1>1
<1>3. node_rejoined(p, ns) \in
        {p, [p EXCEPT !.live = live, !.bars_written = FALSE, !.colours_neutralised = FALSE]}
  BY DEF node_rejoined
<1> HIDE DEF live
<1> QED  BY <1>2, <1>3 DEF PainterType

LEMMA DiffType ==
  ASSUME NEW p \in PainterType, NEW s \in Scenes, NEW v \in Venue, NEW on, NEW w,
         w \subseteq Squares, NEW hs, NEW now, now \subseteq Halves
  PROVE  /\ Batch(diff(p, s, v, on, w, hs, now).batch)
         /\ diff(p, s, v, on, w, hs, now).painter \in PainterType
<1> DEFINE paint == <<basic(s), v.palette>>
           live == live_after(p, w, paint, on)
           bars == [h \in Halves |-> IF h \in now THEN bar(s, v, h) ELSE p.live_bars[h]]
           d == diff(p, s, v, on, w, hs, now)
           full == p.bars_written \/ (now # {} /\ ~cut_short(hs))
           clear == (Lit(p) \cap On(on)) \ w
           colour == IF w = {} THEN Dark ELSE paint
<1>1. /\ d.batch = [Nothing EXCEPT !.clear = clear, !.set = w, !.colour = colour,
                                   !.bars = written(now, s, v)]
      /\ d.painter = [p EXCEPT !.live = live, !.live_bars = bars, !.bars_written = full]
  BY DEF diff
<1>2. /\ p.live \in [Squares -> Colours] /\ p.live_bars \in [Halves -> Pixels]
      /\ p.bars_written \in BOOLEAN /\ paint \in Colours /\ Dark \in Colours
  BY Colour DEF PainterType
<1>3. live \in [Squares -> Colours] /\ colour \in Colours
  BY <1>2 DEF live_after
<1>4. bars \in [Halves -> Pixels]
  BY <1>2, BarType
<1>5. full \in BOOLEAN
  BY <1>2
<1>6. clear \subseteq Squares
  BY DEF Lit
<1> HIDE DEF live, bars, d, full, clear, colour, paint
<1>7. d.painter \in PainterType
  BY <1>1, <1>3, <1>4, <1>5 DEF PainterType
<1>8. Batch(d.batch)
  <2> DEFINE wr == written(now, s, v)
  <2>1. DOMAIN wr \subseteq Strips /\ \A t \in DOMAIN wr : wr[t] \in Pixels
    BY WrittenType
  <2> HIDE DEF wr
  <2>2. d.batch = [clear |-> clear, set |-> w, colour |-> colour, bars |-> wr, keys |-> {},
                   neutral |-> FALSE]
    BY <1>1 DEF Nothing, wr
  <2> QED  BY <1>3, <1>6, <2>1, <2>2 DEF Batch
<1> QED  BY <1>7, <1>8 DEF d

LEMMA ChangedBatch ==
  ASSUME NEW b, Batch(b), NEW on, on \subseteq Nodes, NEW bars, DOMAIN bars \subseteq Strips,
         \A x \in DOMAIN bars : bars[x] \in Pixels
  PROVE  /\ Batch([b EXCEPT !.keys = on, !.neutral = TRUE])
         /\ Batch([b EXCEPT !.clear = Squares, !.keys = on, !.bars = bars])
         /\ Batch([b EXCEPT !.bars = bars])
<1>1. b \in [clear : SUBSET Squares, set : SUBSET Squares, colour : Colours,
             bars : {b.bars}, keys : SUBSET Nodes, neutral : BOOLEAN]
  BY DEF Batch
<1>2. Batch([b EXCEPT !.keys = on, !.neutral = TRUE])
  <2> DEFINE c == [b EXCEPT !.keys = on, !.neutral = TRUE]
  <2>1. /\ c \in [clear : SUBSET Squares, set : SUBSET Squares, colour : Colours,
                  bars : {b.bars}, keys : SUBSET Nodes, neutral : BOOLEAN]
        /\ c.bars = b.bars
    BY <1>1
  <2> HIDE DEF c
  <2> QED  BY <2>1 DEF Batch, c
<1>3. Batch([b EXCEPT !.clear = Squares, !.keys = on, !.bars = bars])
  <2> DEFINE c == [b EXCEPT !.clear = Squares, !.keys = on, !.bars = bars]
  <2>1. /\ c \in [clear : SUBSET Squares, set : SUBSET Squares, colour : Colours,
                  bars : {bars}, keys : SUBSET Nodes, neutral : BOOLEAN]
        /\ c.bars = bars
    BY <1>1
  <2> HIDE DEF c
  <2> QED  BY <2>1 DEF Batch, c
<1>4. Batch([b EXCEPT !.bars = bars])
  <2> DEFINE c == [b EXCEPT !.bars = bars]
  <2>1. /\ c \in [clear : SUBSET Squares, set : SUBSET Squares, colour : Colours,
                  bars : {bars}, keys : SUBSET Nodes, neutral : BOOLEAN]
        /\ c.bars = bars
    BY <1>1
  <2> HIDE DEF c
  <2> QED  BY <2>1 DEF Batch, c
<1> QED  BY <1>2, <1>3, <1>4

LEMMA NothingType == Batch(Nothing)
<1>1. Dark \in Colours /\ DOMAIN <<>> = {}
  BY EmptySeq DEF Colours
<1>2. Nothing.bars = <<>>
  BY DEF Nothing
<1>3. Nothing \in [clear : SUBSET Squares, set : SUBSET Squares, colour : Colours,
                   bars : {<<>>}, keys : SUBSET Nodes, neutral : BOOLEAN]
  BY <1>1 DEF Nothing
<1> QED  BY <1>1, <1>2, <1>3 DEF Batch

\* The three batches that are no frame.
LEMMA OrderTypes ==
  ASSUME NEW on, on \subseteq Nodes, NEW p, NEW v \in Venue
  PROVE  /\ Batch(neutralise_colours(on))
         /\ Batch(restore_colours(p, v, on))
         /\ \A t \in Strips : Batch([Nothing EXCEPT !.bars = [x \in {t} |-> Probe]])
<1>1. Dark \in Pixels /\ Probe \in Pixels
  BY DEF Pixels
<1>2. Batch(neutralise_colours(on))
  <2>1. DOMAIN Nothing.bars \subseteq Strips /\ \A x \in DOMAIN Nothing.bars : Nothing.bars[x] \in Pixels
    BY NothingType DEF Batch
  <2> QED  BY <2>1, NothingType, ChangedBatch DEF neutralise_colours
<1>3. Batch(restore_colours(p, v, on))
  <2> DEFINE strips == {v.bar_map[h] : h \in Halves} \cap (on \X {"a", "b"})
             bars == IF ~p.bars_supported THEN <<>> ELSE [strip \in strips |-> Dark]
  <2>1. restore_colours(p, v, on) = [Nothing EXCEPT !.clear = Squares, !.keys = on, !.bars = bars]
    BY DEF restore_colours
  <2>2. strips \subseteq Strips
    BY DEF Strips
  <2>3. DOMAIN bars \subseteq Strips /\ \A x \in DOMAIN bars : bars[x] \in Pixels
    BY <1>1, <2>2
  <2> HIDE DEF bars
  <2>4. Batch([Nothing EXCEPT !.clear = Squares, !.keys = on, !.bars = bars])
    BY <2>3, NothingType, ChangedBatch
  <2> QED  BY <2>1, <2>4
<1>4. ASSUME NEW t \in Strips PROVE Batch([Nothing EXCEPT !.bars = [x \in {t} |-> Probe]])
  <2> DEFINE bars == [x \in {t} |-> Probe]
  <2>1. DOMAIN bars \subseteq Strips /\ \A x \in DOMAIN bars : bars[x] \in Pixels
    BY <1>1
  <2> HIDE DEF bars
  <2>2. Batch([Nothing EXCEPT !.bars = bars])
    <3>1. {} \subseteq Nodes
      OBVIOUS
    <3> QED  BY <2>1, <3>1, NothingType, ChangedBatch
  <2> QED  BY <2>2 DEF bars
<1> QED  BY <1>2, <1>3, <1>4

LEMMA SendTyped ==
  ASSUME Typed, NEW b, Batch(b), NEW left, left \subseteq Squares, send_command(b, left)
  PROVE  /\ Sequence(wire') /\ \A i \in DOMAIN wire' : Batch(wire'[i])
         /\ stray' \subseteq Squares /\ missed' \subseteq Nodes
<1>1. Sequence(wire) /\ (\A i \in DOMAIN wire : Batch(wire[i]))
      /\ stray \subseteq Squares /\ missed \subseteq Nodes
  BY DEF Typed
<1>2. b.clear \subseteq Squares /\ b.keys \subseteq Nodes
  BY DEF Batch
<1>3. CASE linked
  <2> DEFINE v == Append(wire, b)
  <2>1. wire' = v /\ stray' = stray \cup left /\ missed' = missed
    BY <1>3 DEF send_command
  <2>2. Sequence(v) /\ \A i \in DOMAIN v : (i \in DOMAIN wire /\ v[i] = wire[i]) \/ v[i] = b
    BY <1>1, AppendFacts, SequenceFacts
  <2> HIDE DEF v
  <2> QED  BY <1>1, <2>1, <2>2
<1>4. CASE ~linked
  BY <1>1, <1>2, <1>4 DEF send_command
<1> QED  BY <1>3, <1>4

\* What somebody else sends: an order for the colours, a square to light.
LEMMA BypassType ==
  /\ \A n \in Nodes : Batch([Nothing EXCEPT !.keys = {n}])
  /\ \A sqs \in SUBSET Squares : Batch([Nothing EXCEPT !.set = sqs, !.colour = Probe])
<1>1. Probe \in Colours
  BY DEF Colours
<1> QED  BY <1>1, NothingType DEF Batch, Nothing

LEMMA BypassTyped ==
  ASSUME Typed, NEW b, Batch(b), wire' \in {wire, Append(wire, b)}
  PROVE  Sequence(wire') /\ \A i \in DOMAIN wire' : Batch(wire'[i])
<1> DEFINE v == Append(wire, b)
<1>1. Sequence(wire) /\ (\A i \in DOMAIN wire : Batch(wire[i]))
  BY DEF Typed
<1>2. Sequence(v) /\ \A i \in DOMAIN v : (i \in DOMAIN wire /\ v[i] = wire[i]) \/ v[i] = b
  BY <1>1, AppendFacts, SequenceFacts
<1>3. wire' = wire \/ wire' = v
  OBVIOUS
<1> HIDE DEF v
<1> QED  BY <1>1, <1>2, <1>3

LEMMA PayType == \A cost \in Nat : Typed /\ Pay(cost) => spent' \in Nat
BY DEF Typed, Pay

\* The operator, the game and the restart.
LEMMA RecalibrateTyped ==
  ASSUME Typed, NEW v \in Venue, recalibrate(v)
  PROVE  Typed'
<1>1. /\ venue' = v /\ file' \in {file, {}, {v}} /\ chip' \in BOOLEAN
      /\ slipped' \in {slipped, FALSE}
      /\ painter' = forget(painter) /\ stray' = stray \cup Lit(painter)
      /\ UNCHANGED <<scene, online, rejoined, frames, due, linked, wire, complaint,
                     board, up, old, missed>>
  BY DEF recalibrate, persist_config
<1>2. spent' \in Nat
  BY PayType DEF recalibrate, persist_config
<1>3. file' \in Files
  BY <1>1 DEF Typed, Files
<1>4. painter' \in PainterType /\ stray' \subseteq Squares
  BY <1>1, ForgetType DEF Typed, Lit
<1>5. slipped' \in BOOLEAN
  BY <1>1 DEF Typed
<1> QED  BY <1>1, <1>2, <1>3, <1>4, <1>5 DEF Typed

LEMMA VenueType ==
  ASSUME NEW v \in Venue
  PROVE  /\ \A p \in Palettes : [v EXCEPT !.palette = p] \in Venue
         /\ \A r \in Mounts : [v EXCEPT !.rotation = r] \in Venue
         /\ \A e \in Edges : [v EXCEPT !.edges = e] \in Venue
         /\ \A m \in Maps : [v EXCEPT !.bar_map = m] \in Venue
BY PainterAssumption DEF Venue

LEMMA RestoredType ==
  ASSUME NEW f \in Files
  PROVE  restored(f) \in Venue
<1>1. First \in Venue
  BY PainterAssumption DEF First, Venue, Turns
<1>2. CASE f = {}
  BY <1>1, <1>2 DEF restored
<1>3. CASE f # {}
  <2>1. PICK v \in Venue : f = {v}
    BY <1>3 DEF Files
  <2>2. (CHOOSE x \in f : TRUE) = v
    BY <2>1
  <2>3. restored(f) \in {v, [v EXCEPT !.edges = FirstEdges]}
    BY <1>3, <2>2 DEF restored
  <2> QED  BY <2>1, <2>3, VenueType, PainterAssumption
<1> QED  BY <1>2, <1>3

LEMMA OperatorTyped == ASSUME Typed, Operator PROVE Typed'
<1>1. ASSUME NEW s \in Scenes, Play(s) PROVE Typed'
  <2>1. spent' \in Nat
    BY <1>1, PayType DEF Play
  <2> QED  BY <1>1, <2>1 DEF Play, Typed
<1>2. ASSUME NEW s \in Scenes, new_game(s) PROVE Typed'
  <2>1. spent' \in Nat /\ scene' = s
        /\ UNCHANGED <<venue, file, chip, online, rejoined, frames, due, linked,
                       complaint, board, up, old, slipped>>
    BY <1>2, PayType DEF new_game
  <2>2. painter \in PainterType /\ online \subseteq Nodes /\ venue \in Venue
        /\ stray \subseteq Squares
    BY DEF Typed
  <2>3. painter' \in PainterType
    BY <1>2, <2>2, ForgetType DEF new_game
  <2>4. Lit(painter) \subseteq Squares
    BY DEF Lit
  <2>5. /\ Sequence(wire') /\ \A i \in DOMAIN wire' : Batch(wire'[i])
        /\ stray' \subseteq Squares /\ missed' \subseteq Nodes
    <3>1. CASE painter.colours_neutralised \/ online = {}
      BY <1>2, <2>2, <2>4, <3>1 DEF new_game, Typed
    <3>2. CASE ~(painter.colours_neutralised \/ online = {})
      <4>1. send_command(neutralise_colours(online), Lit(painter))
        BY <1>2, <3>2 DEF new_game
      <4>2. Batch(neutralise_colours(online))
        BY <2>2, OrderTypes
      <4> QED  BY <2>4, <4>1, <4>2, SendTyped
    <3> QED  BY <3>1, <3>2
  <2> QED  BY <2>1, <2>3, <2>5 DEF Typed
<1>3. ASSUME NEW s \in Scenes, abort(s) PROVE Typed'
  <2>1. spent' \in Nat /\ scene' = s
        /\ UNCHANGED <<venue, file, chip, online, rejoined, frames, due, linked,
                       complaint, board, up, old, slipped>>
    BY <1>3, PayType DEF abort
  <2>2. painter \in PainterType /\ online \subseteq Nodes /\ venue \in Venue
    BY DEF Typed
  <2>3. painter' \in PainterType
    BY <1>3, <2>2, ForgetType DEF abort
  <2>4. Batch(restore_colours(painter, venue, online))
    BY <2>2, OrderTypes
  <2>5. /\ Sequence(wire') /\ \A i \in DOMAIN wire' : Batch(wire'[i])
        /\ stray' \subseteq Squares /\ missed' \subseteq Nodes
    <3>1. send_command(restore_colours(painter, venue, online), {})
      BY <1>3 DEF abort
    <3>2. {} \subseteq Squares
      OBVIOUS
    <3> QED  BY <2>4, <3>1, <3>2, SendTyped
  <2> QED  BY <2>1, <2>3, <2>5 DEF Typed
<1>4. ASSUME NEW v \in Venue, recalibrate(v) PROVE Typed'
  BY <1>4, RecalibrateTyped
<1>5. venue \in Venue
  BY DEF Typed
<1>6. ASSUME NEW m \in Maps, bars_map(m) PROVE Typed'
  <2>1. [venue EXCEPT !.bar_map = m] \in Venue
    BY <1>5, VenueType
  <2>2. CASE recalibrate([venue EXCEPT !.bar_map = m])
    BY <1>4, <2>1, <2>2
  <2>3. CASE ~recalibrate([venue EXCEPT !.bar_map = m])
    <3>1. /\ Pay(2) /\ venue' = [venue EXCEPT !.bar_map = m] /\ slipped' = TRUE
          /\ UNCHANGED <<scene, file, chip, online, rejoined, painter, frames, due,
                         linked, wire, complaint, board, up, old, stray, missed>>
      BY <1>6, <2>3 DEF bars_map
    <3>2. spent' \in Nat
      BY <3>1, PayType
    <3> QED  BY <2>1, <3>1, <3>2 DEF Typed
  <2> QED  BY <2>2, <2>3
<1>7. ASSUME NEW s \in Plugged \X {"a"}, bars_test(s) PROVE Typed'
  <2>1. spent' \in Nat
        /\ UNCHANGED <<scene, venue, file, chip, online, rejoined, frames, due, linked,
                       complaint, board, up, old, slipped>>
    BY <1>7, PayType DEF bars_test
  <2>2. painter' \in PainterType /\ Lit(painter) \subseteq Squares
    BY <1>7, ForgetType DEF bars_test, Typed, Lit
  <2>3. s \in Strips
    BY PainterAssumption DEF Strips
  <2>4. Batch([Nothing EXCEPT !.bars = [t \in {s} |-> Probe]])
    <3>1. {} \subseteq Nodes
      OBVIOUS
    <3> QED  BY <1>5, <2>3, <3>1, OrderTypes
  <2>5. /\ Sequence(wire') /\ \A i \in DOMAIN wire' : Batch(wire'[i])
        /\ stray' \subseteq Squares /\ missed' \subseteq Nodes
    <3>1. send_command([Nothing EXCEPT !.bars = [t \in {s} |-> Probe]], Lit(painter))
      BY <1>7 DEF bars_test
    <3> QED  BY <2>2, <2>4, <3>1, SendTyped
  <2> QED  BY <2>1, <2>2, <2>5 DEF Typed
<1>8. CASE Restart
  <2>1. spent' \in Nat
    BY <1>8, PayType DEF Restart
  <2>2. venue' \in Venue /\ painter' \in PainterType /\ stray' \subseteq Squares
    BY <1>8, RestoredType, FreshType DEF Restart, Typed, Lit
  <2>3. 0 \in 0..MaxFrames
    BY PainterAssumption
  <2> QED  BY <1>8, <2>1, <2>2, <2>3 DEF Restart, Typed
<1>9. ASSUME NEW p \in Palettes, set_palette(p) PROVE Typed'
  BY <1>4, <1>5, <1>9, VenueType DEF set_palette
<1>10. ASSUME NEW r \in Mounts, rotate_board(r) PROVE Typed'
  BY <1>4, <1>5, <1>10, VenueType DEF rotate_board
<1>11. ASSUME NEW e \in Edges, bars_sides(e) PROVE Typed'
  BY <1>4, <1>5, <1>11, VenueType DEF bars_sides
<1>12. ASSUME NEW n \in Plugged, node_config(n) PROVE Typed'
  <2>1. n \in Nodes /\ spent' \in Nat
    BY <1>12, PayType, PainterAssumption DEF node_config
  <2> DEFINE b == [Nothing EXCEPT !.keys = {n}]
  <2>2. Batch(b) /\ wire' \in {wire, Append(wire, b)}
    BY <1>12, <2>1, BypassType DEF node_config
  <2> HIDE DEF b
  <2>3. Sequence(wire') /\ \A i \in DOMAIN wire' : Batch(wire'[i])
    BY <2>2, BypassTyped
  <2> QED  BY <1>12, <2>1, <2>3 DEF node_config, Typed
<1>13. ASSUME NEW sqs \in Probed, lighting_set(sqs) PROVE Typed'
  <2>1. sqs \subseteq Squares /\ spent' \in Nat
    BY <1>13, PayType, PainterAssumption DEF lighting_set
  <2> DEFINE b == [Nothing EXCEPT !.set = sqs, !.colour = Probe]
  <2>2. Batch(b) /\ wire' \in {wire, Append(wire, b)}
    BY <1>13, <2>1, BypassType DEF lighting_set
  <2> HIDE DEF b
  <2>3. Sequence(wire') /\ \A i \in DOMAIN wire' : Batch(wire'[i])
    BY <2>2, BypassTyped
  <2> QED  BY <1>13, <2>1, <2>3 DEF lighting_set, Typed
<1> QED  BY <1>1, <1>2, <1>3, <1>6, <1>7, <1>8, <1>9, <1>10, <1>11, <1>12, <1>13
         DEF Operator

\* The tick.
LEMMA RepaintTyped == ASSUME Typed, repaint PROVE Typed'
<1> DEFINE p == node_rejoined(painter, rejoined)
           w == wanted(scene, venue, online)
<1>1. /\ rejoined' = {}
      /\ UNCHANGED <<scene, venue, file, chip, online, linked, complaint, board,
                     up, old, slipped, spent>>
  BY DEF repaint
<1>2. /\ p \in PainterType /\ w \subseteq Squares
      /\ stray \subseteq Squares /\ scene \in Scenes /\ venue \in Venue
  BY RejoinedType, WantedFacts DEF Typed
<1>3. CASE Rests(p)
  <2>1. painter' = p /\ stray' \subseteq Squares /\ UNCHANGED <<frames, due, wire, missed>>
    BY <1>2, <1>3 DEF Rests, Lit
  <2> HIDE DEF p, w
  <2> QED  BY <1>1, <1>2, <2>1 DEF Typed
<1>4. CASE ~Rests(p)
  <2>1. PICK hs \in {pending(p, scene, venue, online, due)} : \E now \in {first(hs)} :
          LET d == diff(p, scene, venue, online, w, hs, now)
          IN /\ painter' = d.painter /\ frames' = frames + 1 /\ due' = FALSE
             /\ send_command(d.batch, Lit(painter) \ Lit(p)) /\ frames < MaxFrames
    BY <1>4 DEF repaint
  <2>2. PICK now \in {first(hs)} :
          LET d == diff(p, scene, venue, online, w, hs, now)
          IN /\ painter' = d.painter /\ frames' = frames + 1 /\ due' = FALSE
             /\ send_command(d.batch, Lit(painter) \ Lit(p)) /\ frames < MaxFrames
    BY <2>1
  <2>3. hs \subseteq Halves /\ now \subseteq Halves
    BY DEF first, pending
  <2> DEFINE b == diff(p, scene, venue, online, w, hs, now).batch
             left == Lit(painter) \ Lit(p)
  <2>4. left \subseteq Squares
    BY DEF Lit
  <2>5. /\ painter' = diff(p, scene, venue, online, w, hs, now).painter
        /\ send_command(b, left)
        /\ frames' = frames + 1 /\ due' = FALSE /\ frames < MaxFrames
    BY <2>2
  <2> HIDE DEF p, w, left
  <2>6. painter' \in PainterType /\ Batch(b)
    BY <1>2, <2>3, <2>5, DiffType
  <2> HIDE DEF b
  <2>7. /\ Sequence(wire') /\ \A i \in DOMAIN wire' : Batch(wire'[i])
        /\ stray' \subseteq Squares /\ missed' \subseteq Nodes
    BY <2>4, <2>5, <2>6, SendTyped
  <2>8. frames' \in 0..MaxFrames
    BY <2>5, PainterAssumption DEF Typed
  <2> QED  BY <1>1, <2>5, <2>6, <2>7, <2>8 DEF Typed
<1> QED  BY <1>3, <1>4

\* The link and the quadrants.
LEMMA DeliveryTyped == ASSUME Typed, Delivery PROVE Typed'
<1>1. PICK lost : Deliver(lost)
  BY DEF Delivery
<1> DEFINE b     == Head(wire)
           clear == IF lost = <<"clear">> THEN {} ELSE b.clear \cap On(up)
           nodes == IF lost = <<"set">> THEN {}
                    ELSE {n \in up : \E sq \in b.set : node_of_device_square(sq) = n}
           bars  == {s \in DOMAIN b.bars \ {lost} : s[1] \in up}
           keys  == IF lost = <<"keys">> THEN {} ELSE b.keys \cap up
           mask  == setSquares(board.mask, nodes, b.set, clear)
           tint  == [n \in Nodes |-> IF n \in nodes THEN b.colour ELSE board.tint[n]]
           strip == [s \in Strips |-> IF s \in bars /\ s[1] \notin old
                                      THEN b.bars[s] ELSE board.strip[s]]
           neutral == (board.neutral \ keys) \cup (IF b.neutral THEN keys ELSE {})
           astray == stray \cup (b.clear \ clear)
           found  == IF Len(wire) = 1 /\ b.neutral
                     THEN (missed \ keys) \cup (b.keys \ keys)
                     ELSE missed \cup (b.keys \ keys)
<1>2. /\ wire # <<>> /\ wire' = Tail(wire)
      /\ UNCHANGED <<scene, venue, file, chip, online, rejoined, painter, frames,
                     due, linked, up, old, slipped>>
      /\ Pay(IF lost = <<>> THEN 0 ELSE 1)
      /\ board' = [mask |-> mask, tint |-> tint, strip |-> strip, neutral |-> neutral]
      /\ complaint' \in BOOLEAN
      /\ stray' \in {astray, astray \cap mask} /\ missed' = found
  BY <1>1 DEF Deliver
<1>3. Sequence(wire) /\ (\A i \in DOMAIN wire : Batch(wire[i])) /\ board \in BoardType
      /\ stray \subseteq Squares /\ missed \subseteq Nodes
  BY DEF Typed
<1>4. /\ Sequence(wire') /\ \A i \in DOMAIN wire' : Batch(wire'[i])
      /\ Batch(b)
  <2>1. /\ Sequence(Tail(wire)) /\ Len(wire) >= 1 /\ DOMAIN wire = 1..Len(wire) /\ Len(wire) \in Nat
        /\ DOMAIN Tail(wire) = 1..Len(wire) - 1 /\ b = wire[1]
        /\ \A i \in 1..Len(wire) - 1 : Tail(wire)[i] = wire[i + 1]
    BY <1>2, <1>3, TailFacts, SequenceFacts
  <2>2. 1 \in DOMAIN wire /\ \A i \in 1..Len(wire) - 1 : i + 1 \in DOMAIN wire
    BY <2>1
  <2> HIDE DEF b
  <2> QED  BY <1>2, <1>3, <2>1, <2>2
<1>5. /\ b.clear \subseteq Squares /\ b.set \subseteq Squares /\ b.keys \subseteq Nodes
      /\ b.colour \in Colours /\ DOMAIN b.bars \subseteq Strips
      /\ \A s \in DOMAIN b.bars : b.bars[s] \in Pixels
  BY <1>4 DEF Batch
<1>6. /\ board.mask \subseteq Squares /\ board.tint \in [Nodes -> Colours]
      /\ board.strip \in [Strips -> Pixels] /\ board.neutral \subseteq Nodes
  BY <1>3 DEF BoardType
<1>7. mask \subseteq Squares
  BY DEF setSquares
<1>8. keys \subseteq Nodes /\ clear \subseteq Squares
  BY <1>5
<1>9. bars \subseteq DOMAIN b.bars
  OBVIOUS
<1> HIDE DEF b, mask, keys, nodes, bars, clear
<1>10. tint \in [Nodes -> Colours]
  BY <1>5, <1>6
<1>11. strip \in [Strips -> Pixels]
  BY <1>5, <1>6, <1>9
<1>12. neutral \subseteq Nodes /\ astray \subseteq Squares /\ found \subseteq Nodes
  BY <1>3, <1>5, <1>6, <1>8
<1> HIDE DEF tint, strip, neutral, astray, found
<1>13. board' \in BoardType
  BY <1>2, <1>7, <1>10, <1>11, <1>12 DEF BoardType
<1>14. spent' \in Nat
  <2>1. (IF lost = <<>> THEN 0 ELSE 1) \in Nat
    OBVIOUS
  <2> QED  BY <1>2, <2>1, PayType
<1>15. stray' \subseteq Squares /\ missed' \subseteq Nodes
  BY <1>2, <1>12
<1> QED  BY <1>2, <1>4, <1>13, <1>14, <1>15 DEF Typed

LEMMA UnlinkTyped == ASSUME Typed, NEW k \in 0..Len(wire), Unlink(k) PROVE Typed'
<1> DEFINE clears == UNION {wire[i].clear : i \in k + 1..Len(wire)}
           keys   == UNION {wire[i].keys : i \in k + 1..Len(wire)}
<1>1. /\ linked' = FALSE /\ complaint' = FALSE /\ wire' = SubSeq(wire, 1, k)
      /\ stray' = stray \cup clears /\ missed' = missed \cup keys
      /\ UNCHANGED <<scene, venue, file, chip, online, rejoined, painter, frames, due,
                     board, up, old, slipped>>
  BY DEF Unlink
<1>2. Sequence(wire) /\ (\A i \in DOMAIN wire : Batch(wire[i]))
      /\ stray \subseteq Squares /\ missed \subseteq Nodes
  BY DEF Typed
<1>3. /\ Sequence(wire') /\ DOMAIN wire' = 1..k /\ \A i \in 1..k : wire'[i] = wire[i]
      /\ Len(wire) \in Nat /\ DOMAIN wire = 1..Len(wire)
  BY <1>1, <1>2, PrefixFacts, SequenceFacts
<1>4. \A i \in DOMAIN wire' : Batch(wire'[i])
  BY <1>2, <1>3
<1>5. \A i \in k + 1..Len(wire) : wire[i].clear \subseteq Squares /\ wire[i].keys \subseteq Nodes
  BY <1>2, <1>3 DEF Batch
<1>6. clears \subseteq Squares /\ keys \subseteq Nodes
  BY <1>5
<1> HIDE DEF clears, keys
<1>7. spent' \in Nat
  BY PayType DEF Unlink
<1>8. stray' \subseteq Squares /\ missed' \subseteq Nodes
  BY <1>1, <1>2, <1>6
<1> QED  BY <1>1, <1>3, <1>4, <1>7, <1>8 DEF Typed

LEMMA DeviceTyped ==
  ASSUME Typed
  PROVE  /\ on_command_result \/ Second \/ Hearing \/ Link => Typed'
         /\ \A n \in Nodes : Drops(n) \/ Returns(n) \/ (\E r \in BOOLEAN : Reset(n, r)) => Typed'
<1>1. CASE on_command_result
  <2>1. /\ complaint' = FALSE
        /\ UNCHANGED <<scene, venue, file, chip, online, rejoined, frames, due, linked,
                       wire, board, up, old, missed, slipped, spent>>
    BY <1>1 DEF on_command_result
  <2>2. painter' \in PainterType /\ stray' \subseteq Squares
    BY <1>1, ForgetType DEF on_command_result, Typed, Lit
  <2> QED  BY <2>1, <2>2 DEF Typed
<1>2. CASE Second
  <2>1. 0 \in 0..MaxFrames
    BY PainterAssumption
  <2> QED  BY <1>2, <2>1 DEF Second, Typed
<1>3. CASE Link
  BY <1>3 DEF Link, Typed
<1>4. CASE Hearing
  <2>1. PICK ns \in {{n} : n \in Nodes} \cup {Nodes} : Hear(ns)
    BY <1>4 DEF Hearing
  <2>2. online' \subseteq Nodes /\ rejoined' \subseteq Nodes
    BY <2>1 DEF Hear, Typed
  <2> QED  BY <2>1, <2>2 DEF Hear, Typed
<1>5. ASSUME NEW n \in Nodes, Drops(n) \/ Returns(n) PROVE Typed'
  <2>1. spent' \in Nat
    BY <1>5, PayType DEF Drops, Returns, Typed
  <2>2. up' \subseteq Nodes
    BY <1>5 DEF Drops, Returns, Typed
  <2> QED  BY <1>5, <2>1, <2>2 DEF Drops, Returns, Typed
<1>6. ASSUME NEW n \in Nodes, NEW r \in BOOLEAN, Reset(n, r) PROVE Typed'
  <2> DEFINE mask == IF r THEN board.mask \ On({n}) ELSE board.mask
             strip == [s \in Strips |-> IF s[1] = n THEN White ELSE board.strip[s]]
  <2>1. board' = [board EXCEPT !.mask = mask, !.strip = strip]
    BY <1>6 DEF Reset
  <2>2. board \in BoardType /\ White \in Pixels
    BY DEF Typed, Pixels
  <2>3. mask \subseteq Squares /\ strip \in [Strips -> Pixels]
    BY <2>2 DEF BoardType
  <2> HIDE DEF mask, strip
  <2>4. board' \in BoardType
    BY <2>1, <2>2, <2>3 DEF BoardType
  <2>5. spent' \in Nat
    BY <1>6, PayType DEF Reset
  <2> QED  BY <1>6, <2>4, <2>5 DEF Reset, Typed
<1> QED  BY <1>1, <1>2, <1>3, <1>4, <1>5, <1>6

LEMMA InitTyped == Init => Typed
<1> SUFFICES ASSUME Init PROVE Typed
  OBVIOUS
<1>1. IsFiniteSet(Nodes)
  <2>1. 0 \in Int /\ 1 \in Int /\ {0, 1} = 0..1
    OBVIOUS
  <2>2. IsFiniteSet(0..1)
    BY <2>1, FS_Interval
  <2> QED  BY <2>1, <2>2, FS_Product DEF Nodes
<1>2. old \subseteq Nodes /\ Plugged \subseteq Nodes
  BY PainterAssumption DEF Init
<1>3. IsFiniteSet(old)
  BY <1>1, <1>2, FS_Subset
<1>4. spent \in Nat
  BY <1>3, FS_CardinalityType DEF Init
<1>5. First \in Venue
  BY PainterAssumption DEF First, Venue, Turns
<1>6. Sequence(wire) /\ DOMAIN wire = {}
  <2>1. <<>> \in Seq({}) /\ DOMAIN <<>> = {} /\ wire = <<>>
    BY EmptySeq DEF Init
  <2>2. Sequence(<<>>)
    BY <2>1 DEF Sequence
  <2> QED  BY <2>1, <2>2
<1>7. board \in BoardType
  <2>1. Dark \in Colours /\ White \in Pixels
    BY DEF Colours, Pixels
  <2> QED  BY <2>1 DEF Init, BoardType
<1>8. 0 \in 0..MaxFrames
  BY PainterAssumption
<1> QED  BY <1>2, <1>4, <1>5, <1>6, <1>7, <1>8, FreshType DEF Init, Typed, Files

LEMMA TypedAlways == Spec => []Typed
<1>1. ASSUME Typed, [Next]_vars PROVE Typed'
  <2>1. CASE UNCHANGED vars
    BY <1>1, <2>1 DEF vars, Typed
  <2>2. CASE Operator  BY <1>1, <2>2, OperatorTyped
  <2>3. CASE repaint  BY <1>1, <2>3, RepaintTyped
  <2>4. CASE Second \/ on_command_result \/ Hearing \/ Link  BY <1>1, <2>4, DeviceTyped
  <2>5. CASE Delivery  BY <1>1, <2>5, DeliveryTyped
  <2>6. CASE \E k \in 0..Len(wire) : Unlink(k)  BY <1>1, <2>6, UnlinkTyped
  <2>7. CASE \/ \E n \in Flaky : Drops(n) \/ Reset(n, TRUE) \/ Reset(n, FALSE)
             \/ \E n \in Nodes : Returns(n)
    BY <1>1, <2>7, DeviceTyped, PainterAssumption
  <2> QED  BY <1>1, <2>1, <2>2, <2>3, <2>4, <2>5, <2>6, <2>7 DEF Next
<1> QED  BY <1>1, InitTyped, PTL DEF Spec

\* Every variable keeps its type: among others, every command holds colours, pixels
\* and strips the quadrants have (compose_frame, diff, restore_colours), and the
\* window never counts more than MAX_FRAMES_PER_SECOND.
THEOREM PaintTypeCorrect == Spec => []TypeOK
BY TypedAlways, TypedOK, PTL
-----------------------------------------------------------------------------
(* The venue *)

\* What a restart finds in the file is the venue in force, unless the rail says
\* otherwise: only persist_config, a refused bars_map and the restart itself touch
\* one of them, and each leaves them so.
THEOREM VenueIsKept == Spec => []VenueSurvives
<1> DEFINE Bare(v) == v.edges.eval = {} /\ v.edges.turn = {}
<1>1. Init => VenueSurvives
  BY DEF Init, VenueSurvives, restored
<1>2. ASSUME VenueSurvives, [Next]_vars PROVE VenueSurvives'
  <2>1. CASE UNCHANGED <<venue, file, chip, slipped>>
    BY <1>2, <2>1 DEF VenueSurvives
  <2>2. ASSUME NEW v, recalibrate(v) PROVE VenueSurvives'
    <3>1. venue' = v /\ (file' = {v} \/ chip')
      BY <2>2 DEF recalibrate, persist_config
    <3>2. (CHOOSE x \in {v} : TRUE) = v
      OBVIOUS
    <3>3. ~Bare(v) => restored({v}) = v
      BY <3>2 DEF restored
    <3> QED  BY <3>1, <3>3 DEF VenueSurvives
  <2>3. ASSUME NEW m, bars_map(m) PROVE VenueSurvives'
    <3>1. recalibrate([venue EXCEPT !.bar_map = m]) \/ slipped'
      BY <2>3 DEF bars_map
    <3> QED  BY <2>2, <3>1 DEF VenueSurvives
  <2>4. CASE Restart
    BY <2>4 DEF Restart, VenueSurvives
  <2>5. ASSUME NEW s, \/ Play(s) \/ new_game(s) \/ abort(s) \/ bars_test(s)
                      \/ node_config(s) \/ lighting_set(s)
        PROVE  UNCHANGED <<venue, file, chip, slipped>>
    BY <2>5 DEF Play, new_game, abort, bars_test, node_config, lighting_set
  <2>6. CASE Operator
    BY <2>1, <2>2, <2>3, <2>4, <2>5, <2>6
       DEF Operator, set_palette, rotate_board, bars_sides
  <2>7. CASE repaint \/ Second \/ on_command_result \/ Hearing \/ Link
    BY <2>1, <2>7 DEF repaint, Second, on_command_result, Hearing, Hear, Link
  <2>8. CASE Delivery \/ (\E k \in 0..Len(wire) : Unlink(k))
    BY <2>1, <2>8 DEF Delivery, Deliver, Unlink
  <2>9. CASE \/ \E n \in Flaky : Drops(n) \/ Reset(n, TRUE) \/ Reset(n, FALSE)
             \/ \E n \in Nodes : Returns(n)
    BY <2>1, <2>9 DEF Drops, Reset, Returns
  <2>10. CASE UNCHANGED vars
    BY <2>1, <2>10 DEF vars
  <2> QED  BY <1>2, <2>6, <2>7, <2>8, <2>9, <2>10 DEF Next
<1> QED  BY <1>1, <1>2, PTL DEF Spec
-----------------------------------------------------------------------------
(***************************************************************************)
(* The sensor colours.  A quadrant the painter counts on has them, or an   *)
(* order on the wire will set them, and none behind it sets them back; an  *)
(* order that does not arrive is remembered in missed, and a quadrant that *)
(* comes back makes the painter forget that they are set.                  *)
(***************************************************************************)
\* No order behind the i-th sets node n's colours back.
Stays(w, n, i) == \A j \in DOMAIN w : j > i /\ n \in w[j].keys => w[j].neutral

Ordered(w, n) == \E i \in DOMAIN w : n \in w[i].keys /\ w[i].neutral /\ Stays(w, n, i)

Will(n, set, w) == (n \in set /\ Stays(w, n, 0)) \/ Ordered(w, n)

Coloured ==
  painter.colours_neutralised =>
    \A n \in online \ (rejoined \cup missed) : Will(n, board.neutral, wire)

LEMMA WillSent ==
  ASSUME NEW w, Sequence(w), NEW b, NEW n, NEW set,
         \/ n \in b.keys /\ b.neutral
         \/ Will(n, set, w) /\ n \notin b.keys
  PROVE  Will(n, set, Append(w, b))
<1> DEFINE v == Append(w, b)
           m == Len(w)
<1>1. /\ m \in Nat /\ DOMAIN w = 1..m /\ DOMAIN v = 1..m + 1 /\ v[m + 1] = b
      /\ \A i \in DOMAIN w : v[i] = w[i]
  BY SequenceFacts, AppendFacts
<1> HIDE DEF v, m
<1>2. CASE n \in b.keys /\ b.neutral
  <2>1. m + 1 \in DOMAIN v /\ \A j \in DOMAIN v : ~(j > m + 1)
    BY <1>1
  <2>2. Ordered(v, n)
    BY <1>1, <1>2, <2>1 DEF Ordered, Stays
  <2> QED  BY <2>2 DEF Will, v
<1>3. CASE Will(n, set, w) /\ n \notin b.keys
  <2>1. \A i : Stays(w, n, i) => Stays(v, n, i)
    <3> SUFFICES ASSUME NEW i, Stays(w, n, i), NEW j \in DOMAIN v, j > i, n \in v[j].keys
                 PROVE  v[j].neutral
      BY DEF Stays
    <3>1. j # m + 1
      BY <1>1, <1>3
    <3>2. j \in DOMAIN w /\ v[j] = w[j]
      BY <1>1, <3>1
    <3> QED  BY <3>2 DEF Stays
  <2>2. Ordered(w, n) => Ordered(v, n)
    <3> SUFFICES ASSUME NEW i \in DOMAIN w, n \in w[i].keys, w[i].neutral, Stays(w, n, i)
                 PROVE  Ordered(v, n)
      BY DEF Ordered
    <3>1. i \in DOMAIN v /\ v[i] = w[i]
      BY <1>1
    <3> QED  BY <2>1, <3>1 DEF Ordered
  <2> QED  BY <1>3, <2>1, <2>2 DEF Will, v
<1> QED  BY <1>2, <1>3

\* The first batch is applied.
LEMMA WillApplied ==
  ASSUME NEW w, Sequence(w), w # <<>>, NEW n, NEW set, Will(n, set, w), NEW after,
         n \in Head(w).keys /\ Head(w).neutral => n \in after,
         n \in set /\ n \notin Head(w).keys => n \in after
  PROVE  Will(n, after, Tail(w))
<1> DEFINE v == Tail(w)
           m == Len(w)
           b == Head(w)
<1>1. /\ m \in Nat /\ m >= 1 /\ DOMAIN w = 1..m /\ DOMAIN v = 1..m - 1 /\ b = w[1]
      /\ \A i \in 1..m - 1 : v[i] = w[i + 1]
  BY SequenceFacts, TailFacts
<1> HIDE DEF v, m, b
<1>2. \A i \in Nat : Stays(w, n, i + 1) => Stays(v, n, i)
  <2> SUFFICES ASSUME NEW i \in Nat, Stays(w, n, i + 1), NEW j \in DOMAIN v, j > i, n \in v[j].keys
               PROVE  v[j].neutral
    BY DEF Stays
  <2>1. j + 1 \in DOMAIN w /\ v[j] = w[j + 1] /\ j + 1 > i + 1
    BY <1>1
  <2> QED  BY <2>1 DEF Stays
<1>3. Stays(w, n, 0) => Stays(w, n, 1) /\ (n \in b.keys => b.neutral)
  <2> SUFFICES ASSUME Stays(w, n, 0) PROVE Stays(w, n, 1) /\ (n \in b.keys => b.neutral)
    OBVIOUS
  <2>1. 1 \in DOMAIN w /\ 1 > 0
    BY <1>1
  <2>2. n \in b.keys => b.neutral
    BY <1>1, <2>1 DEF Stays
  <2>3. \A j \in DOMAIN w : j > 1 => j > 0
    BY <1>1
  <2> QED  BY <2>2, <2>3 DEF Stays
<1>4. 0 + 1 = 1 /\ 0 \in Nat
  OBVIOUS
<1>5. CASE n \in set /\ Stays(w, n, 0)
  <2>1. n \in after
    BY <1>3, <1>5 DEF b
  <2>2. Stays(v, n, 0)
    BY <1>2, <1>3, <1>4, <1>5
  <2> QED  BY <2>1, <2>2 DEF Will, v
<1>6. CASE Ordered(w, n)
  <2>1. PICK i \in DOMAIN w : n \in w[i].keys /\ w[i].neutral /\ Stays(w, n, i)
    BY <1>6 DEF Ordered
  <2>2. CASE i = 1
    <3>1. n \in after
      BY <1>1, <2>1, <2>2 DEF b
    <3>2. Stays(v, n, 0)
      BY <1>2, <1>4, <2>1, <2>2
    <3> QED  BY <3>1, <3>2 DEF Will, v
  <2>3. CASE i # 1
    <3>1. i - 1 \in DOMAIN v /\ i - 1 \in Nat /\ i - 1 + 1 = i /\ v[i - 1] = w[i]
      BY <1>1, <2>3
    <3>2. Stays(v, n, i - 1)
      BY <1>2, <2>1, <3>1
    <3>3. Ordered(v, n)
      BY <2>1, <3>1, <3>2 DEF Ordered
    <3> QED  BY <3>3 DEF Will, v
  <2> QED  BY <2>2, <2>3
<1> QED  BY <1>5, <1>6 DEF Will

\* The link is lost with the batches after the first k, and with no order for n.
LEMMA WillLost ==
  ASSUME NEW w, Sequence(w), NEW k \in 0..Len(w), NEW n, NEW set, Will(n, set, w),
         n \notin UNION {w[i].keys : i \in k + 1..Len(w)}
  PROVE  Will(n, set, SubSeq(w, 1, k))
<1> DEFINE v == SubSeq(w, 1, k)
<1>1. /\ Len(w) \in Nat /\ DOMAIN w = 1..Len(w) /\ DOMAIN v = 1..k
      /\ \A i \in 1..k : v[i] = w[i] /\ i \in DOMAIN w
  BY SequenceFacts, PrefixFacts
<1> HIDE DEF v
<1>2. \A i : Stays(w, n, i) => Stays(v, n, i)
  BY <1>1 DEF Stays
<1>3. \A i \in DOMAIN w : n \in w[i].keys => i \in DOMAIN v
  <2> SUFFICES ASSUME NEW i \in DOMAIN w, n \in w[i].keys, i \notin 1..k PROVE FALSE
    BY <1>1
  <2>1. i \in k + 1..Len(w)
    BY <1>1
  <2> QED  BY <2>1
<1>4. Ordered(w, n) => Ordered(v, n)
  <2> SUFFICES ASSUME NEW i \in DOMAIN w, n \in w[i].keys, w[i].neutral, Stays(w, n, i)
               PROVE  Ordered(v, n)
    BY DEF Ordered
  <2>1. i \in DOMAIN v /\ v[i] = w[i]
    BY <1>1, <1>3
  <2> QED  BY <1>2, <2>1 DEF Ordered
<1> QED  BY <1>2, <1>4 DEF Will, v

\* Nothing the colours depend on changes, or the painter forgets them.
LEMMA ColourKept ==
  ASSUME Coloured, painter'.colours_neutralised => painter.colours_neutralised,
         UNCHANGED <<wire, missed, board.neutral>>,
         online' \ rejoined' \subseteq online \ rejoined
  PROVE  Coloured'
BY DEF Coloured

\* A batch without an order, or one for quadrants the painter counts on no more.
LEMMA ColourSent ==
  ASSUME Typed, Coloured, NEW b, NEW left, b.keys \subseteq Nodes, send_command(b, left),
         painter'.colours_neutralised =>
             (painter.colours_neutralised /\ b.keys = {}) \/ (b.neutral /\ online' \subseteq b.keys),
         UNCHANGED <<board, online>>, online' \ rejoined' \subseteq online \ rejoined
  PROVE  Coloured'
<1> SUFFICES ASSUME painter'.colours_neutralised, NEW n \in online' \ (rejoined' \cup missed')
             PROVE  Will(n, board.neutral, wire)'
  BY DEF Coloured
<1>1. Sequence(wire)
  BY DEF Typed
<1>2. CASE linked
  <2>1. wire' = Append(wire, b) /\ missed' = missed
    BY <1>2 DEF send_command
  <2>2. (n \in b.keys /\ b.neutral) \/ (Will(n, board.neutral, wire) /\ n \notin b.keys)
    BY <2>1 DEF Coloured
  <2>3. Will(n, board.neutral, Append(wire, b))
    BY <1>1, <2>2, WillSent
  <2> QED  BY <2>1, <2>3
<1>3. CASE ~linked
  <2>1. wire' = wire /\ missed' = missed \cup b.keys
    BY <1>3 DEF send_command
  <2>2. Will(n, board.neutral, wire)
    BY <2>1 DEF Coloured
  <2> QED  BY <2>1, <2>2
<1> QED  BY <1>2, <1>3

LEMMA OperatorColoured == ASSUME Typed, Coloured, Operator PROVE Coloured'
<1>0. painter \in PainterType /\ online \subseteq Nodes
  BY DEF Typed
<1>1. forget(painter).colours_neutralised = painter.colours_neutralised
  BY <1>0 DEF forget, PainterType
<1>2. \A c : [forget(painter) EXCEPT !.colours_neutralised = c].colours_neutralised = c
  BY <1>0, ForgetType DEF PainterType
<1>3. ASSUME NEW s, Play(s) PROVE Coloured'
  BY <1>3, ColourKept DEF Play
<1>4. ASSUME NEW s, new_game(s) PROVE Coloured'
  <2>1. UNCHANGED <<online, rejoined, board>> /\ painter'.colours_neutralised = TRUE
    BY <1>2, <1>4 DEF new_game
  <2>2. CASE painter.colours_neutralised \/ online = {}
    <3>1. UNCHANGED <<wire, missed>>
      BY <1>4, <2>2 DEF new_game
    <3>2. CASE painter.colours_neutralised
      BY <2>1, <3>1, <3>2, ColourKept
    <3>3. CASE online = {}
      BY <2>1, <3>3 DEF Coloured
    <3> QED  BY <2>2, <3>2, <3>3
  <2>3. CASE ~(painter.colours_neutralised \/ online = {})
    <3> DEFINE b == neutralise_colours(online)
    <3>1. send_command(b, Lit(painter))
      BY <1>4, <2>3 DEF new_game
    <3>2. b.keys = online /\ b.neutral
      BY DEF neutralise_colours, Nothing
    <3> HIDE DEF b
    <3> QED  BY <1>0, <2>1, <3>1, <3>2, ColourSent
  <2> QED  BY <2>2, <2>3
<1>5. ASSUME NEW s, abort(s) PROVE Coloured'
  BY <1>2, <1>5 DEF abort, Coloured
<1>6. ASSUME NEW v, recalibrate(v) PROVE Coloured'
  BY <1>1, <1>6, ColourKept DEF recalibrate
<1>7. ASSUME NEW m, bars_map(m) PROVE Coloured'
  <2>1. CASE recalibrate([venue EXCEPT !.bar_map = m])
    BY <1>6, <2>1
  <2>2. CASE ~recalibrate([venue EXCEPT !.bar_map = m])
    BY <1>7, <2>2, ColourKept DEF bars_map
  <2> QED  BY <2>1, <2>2
<1>8. ASSUME NEW s, bars_test(s) PROVE Coloured'
  <2> DEFINE b == [Nothing EXCEPT !.bars = [t \in {s} |-> Probe]]
  <2>1. send_command(b, Lit(painter)) /\ UNCHANGED <<online, rejoined, board>>
        /\ painter' = forget(painter)
    BY <1>8 DEF bars_test
  <2>2. b.keys = {}
    BY DEF Nothing
  <2> HIDE DEF b
  <2> QED  BY <1>1, <2>1, <2>2, ColourSent
<1>9. CASE Restart
  BY <1>9 DEF Restart, FreshPainter, Coloured
<1>10. ASSUME NEW n, node_config(n) PROVE Coloured'
  <2> DEFINE b == [Nothing EXCEPT !.keys = {n}]
  <2>1. /\ UNCHANGED <<painter, online, rejoined, board>> /\ missed' = missed \cup {n}
        /\ wire' \in {wire, Append(wire, b)}
    BY <1>10 DEF node_config
  <2>2. b.keys = {n}
    BY DEF Nothing
  <2> HIDE DEF b
  <2>3. Sequence(wire)
    BY DEF Typed
  <2> SUFFICES ASSUME painter.colours_neutralised, NEW m \in online \ (rejoined \cup missed')
               PROVE  Will(m, board.neutral, wire')
    BY <2>1 DEF Coloured
  <2>4. Will(m, board.neutral, wire) /\ m \notin b.keys
    BY <2>1, <2>2 DEF Coloured
  <2>5. Will(m, board.neutral, Append(wire, b))
    BY <2>3, <2>4, WillSent
  <2> QED  BY <2>1, <2>4, <2>5
<1>11. ASSUME NEW sqs, lighting_set(sqs) PROVE Coloured'
  <2> DEFINE b == [Nothing EXCEPT !.set = sqs, !.colour = Probe]
  <2>1. UNCHANGED <<painter, online, rejoined, board, missed>> /\ wire' = Append(wire, b)
    BY <1>11 DEF lighting_set
  <2>2. b.keys = {}
    BY DEF Nothing
  <2> HIDE DEF b
  <2>3. Sequence(wire)
    BY DEF Typed
  <2> SUFFICES ASSUME painter.colours_neutralised, NEW m \in online \ (rejoined \cup missed')
               PROVE  Will(m, board.neutral, wire')
    BY <2>1 DEF Coloured
  <2>4. Will(m, board.neutral, wire) /\ m \notin b.keys
    BY <2>1, <2>2 DEF Coloured
  <2>5. Will(m, board.neutral, Append(wire, b))
    BY <2>3, <2>4, WillSent
  <2> QED  BY <2>1, <2>4, <2>5
<1> QED  BY <1>3, <1>4, <1>5, <1>6, <1>7, <1>8, <1>9, <1>10, <1>11
         DEF Operator, set_palette, rotate_board, bars_sides

\* A quadrant that came back has not been set again yet: the painter forgets.
LEMMA RepaintColoured == ASSUME Typed, Coloured, repaint PROVE Coloured'
<1> DEFINE p == node_rejoined(painter, rejoined)
           w == wanted(scene, venue, online)
<1>1. rejoined' = {} /\ UNCHANGED <<online, board>> /\ painter \in PainterType
  BY DEF repaint, Typed
<1>2. p.colours_neutralised => painter.colours_neutralised /\ rejoined = {}
  BY <1>1 DEF node_rejoined, PainterType
<1>3. CASE Rests(p)
  <2>1. painter' = p /\ UNCHANGED <<wire, missed>>
    BY <1>3 DEF Rests
  <2> HIDE DEF p, w
  <2>2. CASE p.colours_neutralised
    BY <1>1, <1>2, <2>1, <2>2, ColourKept
  <2>3. CASE ~p.colours_neutralised
    BY <2>1, <2>3 DEF Coloured
  <2> QED  BY <2>2, <2>3
<1>4. CASE ~Rests(p)
  <2>1. PICK hs, now : LET d == diff(p, scene, venue, online, w, hs, now)
                       IN /\ painter' = d.painter
                          /\ send_command(d.batch, Lit(painter) \ Lit(p))
    BY <1>4 DEF repaint
  <2> DEFINE d == diff(p, scene, venue, online, w, hs, now)
  <2>2. p \in PainterType
    BY <1>1, RejoinedType
  <2> HIDE DEF p, w
  <2>3. d.batch.keys = {} /\ d.painter.colours_neutralised = p.colours_neutralised
    BY <2>2 DEF diff, Nothing, PainterType
  <2> HIDE DEF d
  <2>4. painter' = d.painter /\ send_command(d.batch, Lit(painter) \ Lit(p))
    BY <2>1 DEF d
  <2>5. CASE p.colours_neutralised
    BY <1>1, <1>2, <2>3, <2>4, <2>5, ColourSent
  <2>6. CASE ~p.colours_neutralised
    BY <2>3, <2>4, <2>6 DEF Coloured
  <2> QED  BY <2>5, <2>6
<1> QED  BY <1>3, <1>4

\* What an order leaves undone is missed, and is missed no longer only when the
\* wire is empty and the order was done.
LEMMA DeliveryColoured == ASSUME Typed, Coloured, Delivery PROVE Coloured'
<1>1. PICK lost : Deliver(lost)
  BY DEF Delivery
<1> DEFINE b    == Head(wire)
           keys == IF lost = <<"keys">> THEN {} ELSE b.keys \cap up
<1>2. /\ wire # <<>> /\ wire' = Tail(wire) /\ UNCHANGED <<painter, online, rejoined>>
      /\ board'.neutral = (board.neutral \ keys) \cup (IF b.neutral THEN keys ELSE {})
      /\ missed' = IF Len(wire) = 1 /\ b.neutral
                   THEN (missed \ keys) \cup (b.keys \ keys)
                   ELSE missed \cup (b.keys \ keys)
  BY <1>1 DEF Deliver
<1>3. Sequence(wire) /\ keys \subseteq b.keys
  BY DEF Typed
<1> HIDE DEF b, keys
<1> SUFFICES ASSUME painter.colours_neutralised, NEW n \in online \ (rejoined \cup missed')
             PROVE  Will(n, board'.neutral, wire')
  BY <1>2 DEF Coloured
<1>4. n \in b.keys => n \in keys
  BY <1>2
<1>5. CASE n \notin missed
  <2>1. Will(n, board.neutral, wire)
    BY <1>2, <1>5 DEF Coloured
  <2>2. n \in b.keys /\ b.neutral => n \in board'.neutral
    BY <1>2, <1>4
  <2>3. n \in board.neutral /\ n \notin b.keys => n \in board'.neutral
    BY <1>2, <1>3
  <2>4. Will(n, board'.neutral, Tail(wire))
    BY <1>2, <1>3, <2>1, <2>2, <2>3, WillApplied DEF b
  <2> QED  BY <1>2, <2>4
<1>6. CASE n \in missed
  <2>1. Len(wire) = 1 /\ b.neutral /\ n \in keys
    BY <1>2, <1>6
  <2>2. n \in board'.neutral
    BY <1>2, <2>1
  <2>3. DOMAIN wire' = {}
    <3>1. DOMAIN Tail(wire) = 1..Len(wire) - 1
      BY <1>2, <1>3, TailFacts
    <3> QED  BY <1>2, <2>1, <3>1
  <2>4. Stays(wire', n, 0)
    BY <2>3 DEF Stays
  <2> QED  BY <2>2, <2>4 DEF Will
<1> QED  BY <1>5, <1>6

LEMMA UnlinkColoured == ASSUME Typed, Coloured, NEW k \in 0..Len(wire), Unlink(k) PROVE Coloured'
<1>1. /\ wire' = SubSeq(wire, 1, k) /\ UNCHANGED <<painter, online, rejoined, board>>
      /\ missed' = missed \cup UNION {wire[i].keys : i \in k + 1..Len(wire)}
  BY DEF Unlink
<1> SUFFICES ASSUME painter.colours_neutralised, NEW n \in online \ (rejoined \cup missed')
             PROVE  Will(n, board.neutral, wire')
  BY <1>1 DEF Coloured
<1>2. /\ n \notin missed /\ n \notin UNION {wire[i].keys : i \in k + 1..Len(wire)}
      /\ Will(n, board.neutral, wire) /\ Sequence(wire)
  BY <1>1 DEF Coloured, Typed
<1>3. Will(n, board.neutral, SubSeq(wire, 1, k))
  BY <1>2, WillLost
<1> QED  BY <1>1, <1>3

LEMMA DeviceColoured ==
  ASSUME Typed, Coloured
  PROVE  /\ on_command_result \/ Second \/ Hearing \/ Link => Coloured'
         /\ \A n : Drops(n) \/ Returns(n) \/ (\E r \in BOOLEAN : Reset(n, r)) => Coloured'
<1>1. painter \in PainterType /\ board \in BoardType
  BY DEF Typed
<1>2. CASE on_command_result
  <2>1. \A c : [forget(painter) EXCEPT !.bars_supported = c].colours_neutralised
                 = painter.colours_neutralised
    BY <1>1 DEF forget, PainterType
  <2> QED  BY <1>2, <2>1, ColourKept DEF on_command_result
<1>3. CASE Second \/ Link
  BY <1>3, ColourKept DEF Second, Link
<1>4. CASE Hearing
  <2>1. PICK ns : Hear(ns)
    BY <1>4 DEF Hearing
  <2>2. online' \ rejoined' \subseteq online \ rejoined
    BY <2>1 DEF Hear
  <2> QED  BY <2>1, <2>2, ColourKept DEF Hear
<1>5. ASSUME NEW n, Drops(n) \/ Returns(n) PROVE Coloured'
  BY <1>5, ColourKept DEF Drops, Returns
<1>6. ASSUME NEW n, NEW r, Reset(n, r) PROVE Coloured'
  <2>1. board'.neutral = board.neutral /\ UNCHANGED <<painter, wire, online, rejoined, missed>>
    BY <1>1, <1>6 DEF Reset, BoardType
  <2> QED  BY <2>1, ColourKept
<1> QED  BY <1>2, <1>3, <1>4, <1>5, <1>6

\* When the painter says the sensor colours are set for this game, they are on every
\* quadrant it has not to look at again, but for one that missed the order
\* (neutralise_colours, node_rejoined, restore_colours): for every board, and however
\* orders, reboots, losses of the link and returns of quadrants fall together.
THEOREM SensorColoursAgree == Spec => []OneSensorColour
<1>1. Init => Coloured
  BY DEF Init, Coloured, FreshPainter
<1>2. ASSUME Typed, Coloured, [Next]_vars PROVE Coloured'
  <2>1. CASE UNCHANGED vars
    BY <1>2, <2>1, ColourKept DEF vars
  <2>2. CASE Operator  BY <1>2, <2>2, OperatorColoured
  <2>3. CASE repaint  BY <1>2, <2>3, RepaintColoured
  <2>4. CASE Second \/ on_command_result \/ Hearing \/ Link  BY <1>2, <2>4, DeviceColoured
  <2>5. CASE Delivery  BY <1>2, <2>5, DeliveryColoured
  <2>6. CASE \E k \in 0..Len(wire) : Unlink(k)  BY <1>2, <2>6, UnlinkColoured
  <2>7. CASE \/ \E n \in Flaky : Drops(n) \/ Reset(n, TRUE) \/ Reset(n, FALSE)
             \/ \E n \in Nodes : Returns(n)
    BY <1>2, <2>7, DeviceColoured
  <2> QED  BY <1>2, <2>1, <2>2, <2>3, <2>4, <2>5, <2>6, <2>7 DEF Next
<1>3. Coloured => OneSensorColour
  <2>1. DOMAIN <<>> = {}
    BY EmptySeq
  <2>2. \A n : Will(n, board.neutral, <<>>) => n \in board.neutral
    BY <2>1 DEF Will, Ordered
  <2> QED  BY <2>2 DEF Coloured, OneSensorColour
<1> QED  BY <1>1, <1>2, <1>3, TypedAlways, PTL DEF Spec
=============================================================================
