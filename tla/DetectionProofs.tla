--------------------------- MODULE DetectionProofs ---------------------------
(***************************************************************************)
(* Proofs about Detection and the matcher it calls.                        *)
(*                                                                         *)
(* Whose the masks are comes first and needs no types.  Then the types,    *)
(* which rest on what infer may answer, together with the fingerprints     *)
(* (DetInv); and from these what the sensors may commit and what they must *)
(* not misread.                                                            *)
(***************************************************************************)
EXTENDS Detection, FiniteSetTheorems, SequenceTheorems, WellFoundedInduction, TLAPS

\* The fields of the two records that this is about; nothing is said of the
\* values of the others.
Fields ==
  /\ {"masked", "rotation"} \subseteq DOMAIN obs
  /\ {"phase", "auto_masked", "chips", "turned"} \subseteq DOMAIN game

Owned == Fields /\ MasksAreOwned

\* A handler that does not touch the masks, or whose they are.
Same(o, p) == p.masked = o.masked /\ {"masked", "rotation"} \subseteq DOMAIN p
Keeps(g, h) ==
  /\ h.auto_masked = g.auto_masked /\ h.chips = g.chips /\ h.turned = g.turned
  /\ {"phase", "auto_masked", "chips", "turned"} \subseteq DOMAIN h

LEMMA OwnedKept ==
  ASSUME Owned, Same(obs, obs'), Keeps(game, game')
  PROVE  Owned'
BY DEF Owned, Fields, MasksAreOwned, Same, Keeps

LEMMA ObserverKeeps ==
  ASSUME NEW o, {"masked", "rotation"} \subseteq DOMAIN o
  PROVE  /\ Same(o, o) /\ Same(o, Reread(o)) /\ Same(o, clear_journal(o))
         /\ Same(o, reset_board(o))
         /\ \A board, on : Same(o, apply_snapshot(o, board, on))
         /\ \A sq, state : Same(o, apply_sensor_changed(o, sq, state))
         /\ \A node, on : Same(o, apply_node_status(o, node, on))
<1>1. Same(o, o) /\ Same(o, Reread(o)) /\ Same(o, clear_journal(o))
  BY DEF Same, Reread, clear_journal
<1>2. Same(o, reset_board(o))
  BY DEF Same, reset_board
<1>3. ASSUME NEW board, NEW on PROVE Same(o, apply_snapshot(o, board, on))
  BY DEF Same, apply_snapshot
<1>4. ASSUME NEW sq, NEW state PROVE Same(o, apply_sensor_changed(o, sq, state))
  BY DEF Same, apply_sensor_changed
<1>5. ASSUME NEW node, NEW on PROVE Same(o, apply_node_status(o, node, on))
  BY DEF Same, apply_node_status
<1> QED  BY <1>1, <1>2, <1>3, <1>4, <1>5

LEMMA InferenceKeeps ==
  ASSUME NEW g, {"phase", "auto_masked", "chips", "turned"} \subseteq DOMAIN g,
         NEW o, NEW m, NEW off, NEW inf
  PROVE  Keeps(g, g) /\ Keeps(g, commit(o, g, m, off)) /\ Keeps(g, on_inference(o, g, inf))
<1>1. Keeps(g, g)
  BY DEF Keeps
<1>2. \A n, f : Keeps(g, commit(o, g, n, f))
  BY DEF Keeps, commit
<1>3. \A options : Keeps(g, ask(g, options))
  BY DEF Keeps, ask
<1>4. Keeps(g, on_inference(o, g, inf))
  <2>1. CASE inf.kind = "nochange"
    BY <2>1 DEF Keeps, on_inference
  <2>2. CASE inf.kind = "commit"
    BY <1>2, <1>3, <2>2 DEF on_inference
  <2>3. CASE inf.kind # "nochange" /\ inf.kind # "commit"
    BY <1>3, <2>3 DEF on_inference
  <2> QED  BY <2>1, <2>2, <2>3
<1> QED  BY <1>1, <1>2, <1>4

\* What the game masks is not masked yet: it is only suspicious of squares it
\* still believes.
LEMMA SuspectsAreBare ==
  ASSUME NEW o, NEW g
  PROVE  Suspects(o, g) \cap o.masked = {}
BY DEF Suspects, Strange, known

LEMMA SettleOwned ==
  ASSUME Owned, tick_playing
  PROVE  Owned'
<1> DEFINE o0 == [obs EXCEPT !.unread = FALSE]
           inf == infer(game.pos, [occ |-> o0.occ, known |-> known(o0),
                                   journal |-> o0.journal, pol_tag |-> game.pol_tag])
           o1 == IF inf.kind = "commit" /\ ~game.suggest THEN Reread(o0) ELSE o0
           g1 == on_inference(o0, game, inf)
           s  == on_settle(o0, game)
<1>1. Same(obs, o0)
  BY DEF Owned, Fields, Same
<1>2. Same(obs, o1) /\ Keeps(game, g1)
  <2>1. {"masked", "rotation"} \subseteq DOMAIN o0 /\ o0.masked = obs.masked
    BY <1>1 DEF Same
  <2> HIDE DEF o0, inf
  <2>2. Same(o0, Reread(o0))
    BY <2>1, ObserverKeeps
  <2>3. Same(obs, o1)
    BY <1>1, <2>1, <2>2 DEF Same
  <2>4. Keeps(game, g1)
    BY InferenceKeeps DEF Owned, Fields
  <2> QED  BY <2>3, <2>4
<1>3. s = [o |-> o0, g |-> game] \/ s = update_auto_mask(o1, g1)
  BY DEF on_settle
<1>4. obs' = s.o /\ game' = s.g
  BY DEF tick_playing
<1> HIDE DEF o0, inf, o1, g1, s
<1>5. CASE s = [o |-> o0, g |-> game]
  <2>1. obs' = o0 /\ game' = game
    BY <1>4, <1>5
  <2>2. Keeps(game, game')
    BY <2>1 DEF Owned, Fields, Keeps
  <2> QED  BY <1>1, <2>1, <2>2, OwnedKept
<1>6. CASE s = update_auto_mask(o1, g1)
  <2>1. CASE g1.phase # "Playing"
    <3>1. s = [o |-> o1, g |-> g1]
      BY <1>6, <2>1 DEF update_auto_mask
    <3>2. obs' = o1 /\ game' = g1
      BY <1>4, <3>1
    <3> QED  BY <1>2, <3>2, OwnedKept
  <2>2. CASE g1.phase = "Playing"
    <3> DEFINE new == Suspects(o1, g1)
               o2 == [o1 EXCEPT !.masked = @ \cup new]
               g2 == [g1 EXCEPT !.disagree_streak = Streak(o1, g1),
                                !.auto_masked = @ \cup new]
    <3>1. s = [o |-> o2, g |-> g2]
      BY <1>6, <2>2 DEF update_auto_mask
    <3>2. obs' = o2 /\ game' = g2
      BY <1>4, <3>1
    <3>3. new \cap obs.masked = {}
      BY <1>2, SuspectsAreBare DEF Same
    <3> HIDE DEF new
    <3>4. obs'.masked = obs.masked \cup new /\ {"masked", "rotation"} \subseteq DOMAIN obs'
      BY <1>2, <3>2 DEF Same
    <3>5. /\ game'.auto_masked = game.auto_masked \cup new
          /\ game'.chips = game.chips /\ game'.turned = game.turned
          /\ {"phase", "auto_masked", "chips", "turned"} \subseteq DOMAIN game'
      BY <1>2, <3>2 DEF Keeps
    <3> QED  BY <3>3, <3>4, <3>5 DEF Owned, Fields, MasksAreOwned
  <2> QED  BY <2>1, <2>2
<1> QED  BY <1>3, <1>5, <1>6

\* The operator's actions that retire masks, set them or turn the board.
LEMMA OperatorOwned ==
  ASSUME Owned, \/ new_game \/ resync
                \/ \E sq \in Suspicious, masked \in BOOLEAN : mask_square(sq, masked)
                \/ \E quarter_turns \in Mounts : rotate_board(quarter_turns)
  PROVE  Owned'
<1>0. /\ {"masked", "rotation"} \subseteq DOMAIN obs
      /\ {"phase", "auto_masked", "chips", "turned"} \subseteq DOMAIN game
  BY DEF Owned, Fields
<1>1. CASE new_game \/ resync
  <2>1. /\ obs'.masked = obs.masked \ game.auto_masked
        /\ {"masked", "rotation"} \subseteq DOMAIN obs'
    BY <1>0, <1>1 DEF new_game, resync, Unmasked, Reread
  <2>2. /\ game'.auto_masked = {} /\ game'.chips = game.chips
        /\ game'.turned = game.turned
        /\ {"phase", "auto_masked", "chips", "turned"} \subseteq DOMAIN game'
    BY <1>0, <1>1 DEF new_game, resync
  <2> QED  BY <2>1, <2>2 DEF Owned, Fields, MasksAreOwned
<1>2. ASSUME NEW sq \in Suspicious, NEW masked \in BOOLEAN, mask_square(sq, masked)
      PROVE  Owned'
  <2>1. /\ obs'.masked = IF masked THEN obs.masked \cup {sq} ELSE obs.masked \ {sq}
        /\ {"masked", "rotation"} \subseteq DOMAIN obs'
    BY <1>0, <1>2 DEF mask_square
  <2>2. /\ game'.auto_masked = game.auto_masked \ {sq}
        /\ game'.chips = (IF masked THEN game.chips \cup {sq} ELSE game.chips \ {sq})
        /\ game'.turned = game.turned
        /\ {"phase", "auto_masked", "chips", "turned"} \subseteq DOMAIN game'
    BY <1>0, <1>2 DEF mask_square
  <2> QED  BY <2>1, <2>2 DEF Owned, Fields, MasksAreOwned
<1>3. ASSUME NEW quarter_turns \in Mounts, rotate_board(quarter_turns)
      PROVE  Owned'
  <2>1. /\ obs.masked = {} => obs'.masked = {}
        /\ {"masked", "rotation"} \subseteq DOMAIN obs'
    BY <1>0, <1>3 DEF rotate_board, set_rotation
  <2>2. /\ game'.auto_masked = game.auto_masked /\ game'.chips = game.chips
        /\ game'.turned = (game.turned \/ obs.masked # {})
        /\ {"phase", "auto_masked", "chips", "turned"} \subseteq DOMAIN game'
    BY <1>0, <1>3 DEF rotate_board
  <2> QED  BY <2>1, <2>2 DEF Owned, Fields, MasksAreOwned
<1> QED  BY <1>1, <1>2, <1>3

\* Everything else leaves the masks alone.
LEMMA RestOwned ==
  ASSUME Owned, \/ auto_start \/ force_start \/ dismiss \/ undo \/ set_detect
                \/ bind_device \/ Players \/ Bus
                \/ \E m \in Moves[game.pos] : move(m)
  PROVE  Owned'
<1>0. /\ {"masked", "rotation"} \subseteq DOMAIN obs
      /\ {"phase", "auto_masked", "chips", "turned"} \subseteq DOMAIN game
  BY DEF Owned, Fields
<1>1. CASE auto_start \/ force_start
  <2>1. begin_play
    BY <1>1 DEF auto_start, force_start
  <2>2. Same(obs, obs') /\ Keeps(game, game')
    BY <1>0, <2>1 DEF begin_play, Reread, Same, Keeps
  <2> QED  BY <2>2, OwnedKept
<1>2. CASE dismiss \/ set_detect
  <2>1. Same(obs, obs') /\ Keeps(game, game')
    BY <1>0, <1>2 DEF dismiss, set_detect, Same, Keeps
  <2> QED  BY <2>1, OwnedKept
<1>3. CASE undo
  <2>1. Same(obs, obs') /\ Keeps(game, game')
    BY <1>0, <1>3 DEF undo, Reread, Same, Keeps
  <2> QED  BY <2>1, OwnedKept
<1>4. CASE bind_device
  <2>1. Same(obs, obs') /\ Keeps(game, game')
    BY <1>0, <1>4, ObserverKeeps DEF bind_device, Keeps
  <2> QED  BY <2>1, OwnedKept
<1>5. ASSUME NEW m \in Moves[game.pos], move(m) PROVE Owned'
  <2>1. Same(obs, obs') /\ Keeps(game, game')
    BY <1>0, <1>5, ObserverKeeps, InferenceKeeps DEF move
  <2> QED  BY <2>1, OwnedKept
\* Events: heard, lost, or of a quadrant that is not there.
<1>6. ASSUME NEW o, Heard(o), Same(obs, o) PROVE Owned'
  <2>1. Same(obs, obs') /\ Keeps(game, game')
    BY <1>0, <1>6 DEF Heard, Keeps
  <2> QED  BY <2>1, OwnedKept
<1>7. ASSUME UNCHANGED <<obs, game>> PROVE Owned'
  BY <1>7 DEF Owned, Fields, MasksAreOwned
<1>8. ASSUME NEW sq, NEW state, NEW lost, Reports(sq, state, lost) PROVE Owned'
  <2>1. Same(obs, apply_sensor_changed(obs, sq, state))
    BY <1>0, ObserverKeeps
  <2> QED  BY <1>6, <1>7, <1>8, <2>1 DEF Reports, Lost
<1>9. CASE Players
  <2>1. \E sq, state, lost : Reports(sq, state, lost)
    BY <1>9 DEF Players, Lift, Resolve, Put, PutTilted
  <2> QED  BY <1>8, <2>1
<1>10. CASE Bus
  <2>1. CASE Snapshot
    <3>1. Same(obs, obs') /\ Keeps(game, game')
      <4>1. Same(obs, apply_snapshot(obs, sense, powered))
        BY <1>0, ObserverKeeps
      <4>2. Same(obs, clear_journal(apply_snapshot(obs, sense, powered)))
        BY <4>1, ObserverKeeps DEF Same
      <4> QED  BY <1>0, <2>1, <4>2 DEF Snapshot, Keeps
    <3> QED  BY <3>1, OwnedKept
  <2>2. ASSUME NEW n \in Flaky, Drops(n) \/ Returns(n) PROVE Owned'
    <3>1. \A on : Same(obs, apply_node_status(obs, n, on))
      BY <1>0, ObserverKeeps
    <3>2. UNCHANGED <<obs, game>> \/ \E on \in BOOLEAN : Heard(apply_node_status(obs, n, on))
      BY <2>2 DEF Drops, Returns, Lost
    <3> QED  BY <1>6, <1>7, <3>1, <3>2
  <2> QED  BY <1>10, <2>1, <2>2 DEF Bus
<1> QED  BY <1>1, <1>2, <1>3, <1>4, <1>5, <1>9, <1>10

\* The masks are the operator's or the game's, never both, for every game, every
\* setting of the matcher and every sequence of touches, events and
\* corrections: whatever the game masked by itself it can take back, and it
\* takes back nothing else.
THEOREM MasksHaveOneOwner == Spec => []MasksAreOwned
<1>1. Init => Owned
  BY DEF Init, Owned, Fields, MasksAreOwned
<1>2. Owned /\ [Next]_vars => Owned'
  <2>1. Owned /\ Next => Owned'
    BY SettleOwned, OperatorOwned, RestOwned DEF Next, Operator
  <2>2. Owned /\ UNCHANGED vars => Owned'
    BY DEF Owned, Fields, MasksAreOwned, vars
  <2> QED  BY <2>1, <2>2
<1>3. Owned => MasksAreOwned
  BY DEF Owned
<1> QED  BY <1>1, <1>2, <1>3, PTL DEF Spec

-----------------------------------------------------------------------------
(* The board and the observer *)

LEMMA EdgeIsNatural == Edge \in Nat /\ Half \in Nat
BY HalfAssumption DEF Edge

LEMMA SquaresAreFinite == IsFiniteSet(Squares)
<1>1. 0 \in Int /\ Edge \in Int
  BY EdgeIsNatural
<1>2. IsFiniteSet(0..Edge)
  BY <1>1, FS_Interval
<1> QED  BY <1>2, FS_Product DEF Squares

LEMMA Counted == ASSUME NEW S, S \subseteq Squares
                 PROVE  IsFiniteSet(S) /\ Cardinality(S) \in Nat
BY SquaresAreFinite, FS_Subset, FS_CardinalityType

\* Turning the board leaves its squares on it.
LEMMA Turned ==
  ASSUME NEW sq \in Squares, NEW turns
  PROVE  rotate(sq, turns) \in Squares
<1>1. PICK r \in 0..Edge, f \in 0..Edge : sq = <<r, f>>
  BY DEF Squares
<1>2. Edge - r \in 0..Edge /\ Edge - f \in 0..Edge
  BY EdgeIsNatural
<1>3. sq[1] = r /\ sq[2] = f
  BY <1>1
<1> HIDE DEF Edge
<1>4. rotate(sq, turns) \in {sq, <<f, Edge - r>>, <<Edge - r, Edge - f>>, <<Edge - f, r>>}
  BY <1>3 DEF rotate
<1> QED  BY <1>1, <1>2, <1>4 DEF Squares

LEMMA ObserverTyped ==
  ASSUME NEW o \in Observer
  PROVE  /\ Reread(o) \in Observer /\ clear_journal(o) \in Observer
         /\ reset_board(o) \in Observer
         /\ [o EXCEPT !.unread = FALSE] \in Observer
         /\ \A sqs \in SUBSET Squares : [o EXCEPT !.masked = sqs] \in Observer
         /\ known(o) \subseteq Squares
<1>1. Reread(o) \in Observer /\ clear_journal(o) \in Observer
  BY DEF Observer, Reread, clear_journal
<1>2. reset_board(o) \in Observer
  BY DEF Observer, reset_board, Occs
<1>3. [o EXCEPT !.unread = FALSE] \in Observer
  BY DEF Observer
<1>4. \A sqs \in SUBSET Squares : [o EXCEPT !.masked = sqs] \in Observer
  BY DEF Observer
<1> QED  BY <1>1, <1>2, <1>3, <1>4 DEF known

LEMMA RotationTyped ==
  ASSUME NEW o \in Observer, NEW turns \in Turns
  PROVE  set_rotation(o, turns) \in Observer
<1> DEFINE src(sq) == rotate(sq, (4 - ((turns + 4 - o.rotation) % 4)) % 4)
           occ     == [sq \in Squares |-> o.occ[src(sq)]]
           wobble  == {sq \in Squares : src(sq) \in o.wobble}
           masked  == {sq \in Squares : src(sq) \in o.masked}
<1>1. set_rotation(o, turns) = [o EXCEPT !.rotation = turns, !.occ = occ,
                                         !.wobble = wobble, !.masked = masked]
  BY DEF set_rotation, Observer
<1>2. \A sq \in Squares : src(sq) \in Squares
  BY Turned
<1> HIDE DEF src
<1>3. /\ occ \in [Squares -> Occs]
      /\ wobble \in SUBSET Squares /\ masked \in SUBSET Squares
  BY <1>2 DEF Observer
<1> HIDE DEF occ, wobble, masked
<1> QED  BY <1>1, <1>3 DEF Observer

LEMMA SnapshotTyped ==
  ASSUME NEW o \in Observer, NEW board \in [Squares -> States], NEW on \in SUBSET Nodes
  PROVE  apply_snapshot(o, board, on) \in Observer
<1> DEFINE now(sq)  == board[to_device(o, sq)]
           heard    == {sq \in Squares : node_of_device_square(to_device(o, sq)) \in on}
           lifted   == {sq \in heard : now(sq) = "uncertain"}
           definite == heard \ lifted
           believed == heard \ o.masked
           emptied  == {sq \in definite : o.occ[sq] # "empty" /\ now(sq) = "empty"}
           changed  == (lifted \ o.wobble)
                       \cup {sq \in definite : o.occ[sq] # now(sq) \/ sq \in o.wobble}
           occ == [sq \in Squares |-> IF sq \in definite THEN now(sq) ELSE o.occ[sq]]
           wobble == (o.wobble \ definite) \cup lifted
           journal == o.journal \cup (believed \cap (lifted \cup emptied))
           unread == o.unread \/ ~o.have_snapshot \/ changed \cap believed # {}
<1>1. apply_snapshot(o, board, on) =
        [o EXCEPT !.online = on, !.occ = occ, !.wobble = wobble,
                  !.journal = journal, !.have_snapshot = TRUE, !.unread = unread]
  BY DEF apply_snapshot, Observer
<1>2. \A sq \in Squares : now(sq) \in States
  BY Turned DEF to_device
<1> HIDE DEF now
<1>3. occ \in [Squares -> Occs]
  BY <1>2 DEF Observer, States
<1>4. wobble \in SUBSET Squares /\ journal \in SUBSET Squares /\ unread \in BOOLEAN
  BY DEF Observer
<1> HIDE DEF occ, wobble, journal, unread
<1> QED  BY <1>1, <1>3, <1>4 DEF Observer

LEMMA ChangeTyped ==
  ASSUME NEW o \in Observer, NEW square \in Squares, NEW state \in States
  PROVE  apply_sensor_changed(o, square, state) \in Observer
<1> DEFINE sq  == to_game(o, square)
           occ == [o.occ EXCEPT ![sq] = IF state = "uncertain" THEN @ ELSE state]
           wob == IF state = "uncertain" THEN o.wobble \cup {sq} ELSE o.wobble \ {sq}
           believed == sq \in known(o)
           journal == IF believed /\ state \in {"empty", "uncertain"}
                      THEN o.journal \cup {sq} ELSE o.journal
           unread == o.unread \/ (believed /\ <<occ, wob>> # <<o.occ, o.wobble>>)
<1>1. apply_sensor_changed(o, square, state) =
        [o EXCEPT !.occ = occ, !.wobble = wob, !.journal = journal, !.unread = unread]
  BY DEF apply_sensor_changed, Observer
<1>2. sq \in Squares
  BY Turned DEF to_game
<1> HIDE DEF sq
<1>3. occ \in [Squares -> Occs] /\ wob \in SUBSET Squares
  BY <1>2 DEF Observer, States
<1>4. journal \in SUBSET Squares /\ unread \in BOOLEAN
  BY <1>2 DEF Observer
<1> HIDE DEF occ, wob, journal, unread
<1> QED  BY <1>1, <1>3, <1>4 DEF Observer

LEMMA StatusTyped ==
  ASSUME NEW o \in Observer, NEW node \in Nodes, NEW on \in BOOLEAN
  PROVE  apply_node_status(o, node, on) \in Observer
BY DEF apply_node_status, Observer

-----------------------------------------------------------------------------
(* The matcher *)

\* Numbers over any set have a least one.
LEMMA LeastValue ==
  ASSUME NEW S, S # {}, NEW f \in [S -> Nat]
  PROVE  \E x \in S : \A y \in S : f[x] <= f[y]
<1> DEFINE T == {f[x] : x \in S}
           R == OpToRel(<, Nat)
<1>1. \E v \in T : \A w \in T : ~(<<w, v>> \in R)
  <2>1. T \subseteq Nat /\ T # {}
    OBVIOUS
  <2>2. IsWellFoundedOn(R, Nat)
    BY NatLessThanWellFounded
  <2> HIDE DEF T, R
  <2> QED  BY <2>1, <2>2, WFMin
<1>2. PICK v \in T : \A w \in T : ~(<<w, v>> \in R)
  BY <1>1
<1>3. \A w \in T : w \in Nat /\ v \in Nat /\ ~(w < v)
  BY <1>2 DEF OpToRel
<1>4. PICK x \in S : v = f[x]
  OBVIOUS
<1>5. \A y \in S : f[x] <= f[y]
  BY <1>3, <1>4
<1> QED  BY <1>5

\* A square that shows a piece beside the destination, not put there by m.
BesideIt(m, sq, ob) ==
  /\ sq \in neighbours(m.to) \cap ob.known
  /\ ob.occ[sq] # "empty" /\ sq \notin occupancy(m.next)

LEMMA OffsetTyped ==
  ASSUME NEW hyps, NEW m \in Move, NEW ob \in Observation
  PROVE  /\ offset(m, hyps, ob) \in Offset
         /\ offset(m, hyps, ob) # NoOffset =>
              /\ offset(m, hyps, ob).expected = m.to /\ m.to \in ob.known
              /\ BesideIt(m, offset(m, hyps, ob).actual, ob)
<1>1. stray(m, hyps, ob) \subseteq Squares
  BY DEF stray, neighbours
<1>2. CASE Cardinality(stray(m, hyps, ob)) = 1
  <2>1. stray(m, hyps, ob) # {}
    BY <1>2, FS_EmptySet
  <2>2. (CHOOSE sq \in stray(m, hyps, ob) : TRUE) \in Squares
    BY <1>1, <2>1
  <2>3. m.to \in ob.known
    BY <2>1 DEF stray
  <2>4. (CHOOSE sq \in stray(m, hyps, ob) : TRUE) \in stray(m, hyps, ob)
    BY <2>1
  <2>5. \A sq \in stray(m, hyps, ob) : BesideIt(m, sq, ob)
    BY DEF stray, occupied, BesideIt
  <2> QED  BY <1>2, <2>2, <2>3, <2>4, <2>5 DEF offset, Offset, Move
<1>3. CASE Cardinality(stray(m, hyps, ob)) # 1
  BY <1>3 DEF offset, Offset
<1> QED  BY <1>2, <1>3

\* A distance is a number, and it is what the destination alone adds up to at
\* least, when nothing says that the piece is next door.
LEMMA DistanceTyped ==
  ASSUME NEW hyps, NEW m \in Move, NEW ob \in Observation
  PROVE  /\ distance(m, hyps, ob) \in Nat
         /\ offset(m, hyps, ob) = NoOffset /\ m.to \notin ob.known
              => distance(m, hyps, ob) >= Params.unreadable_penalty
         /\ offset(m, hyps, ob) = NoOffset /\ m.to \in ob.known
            /\ ob.occ[m.to] = "empty" /\ m.to \in occupancy(m.next)
              => distance(m, hyps, ob) >= Whole + Params.empty_penalty
<1> DEFINE wrong == disagreements(occupancy(m.next), ob)
           off   == offset(m, hyps, ob)
           near  == Cardinality(wrong \ {off.expected, off.actual})
           all   == Cardinality(wrong)
           pen   == arrival_penalty(m, ob)
           score == IF off # NoOffset THEN Params.neighbour_credit + Whole * near
                    ELSE Whole * all + pen
           credit == IF m.promotion = "none" /\ fingerprint(m, ob)
                     THEN Params.polarity_credit ELSE 0
<1>1. wrong \subseteq Squares /\ m.to \in Squares
  BY DEF disagreements, Observation, Move
<1>2. near \in Nat /\ all \in Nat
  BY <1>1, Counted
<1>3. /\ pen \in Nat /\ Params.neighbour_credit \in Nat
      /\ Params.polarity_credit \in Nat /\ Params.empty_penalty \in Nat
      /\ Params.unreadable_penalty \in Nat
  BY ParamsAssumption DEF arrival_penalty
<1>4. distance(m, hyps, ob) = IF score < credit THEN 0 ELSE score - credit
  BY DEF distance
<1>5. score \in Nat /\ credit \in Nat
  <2> HIDE DEF near, all, pen, off
  <2> QED  BY <1>2, <1>3 DEF Whole
<1>6. distance(m, hyps, ob) \in Nat
  <2> HIDE DEF score, credit
  <2> QED  BY <1>4, <1>5
<1>7. ASSUME off = NoOffset, m.to \notin ob.known
      PROVE  distance(m, hyps, ob) >= Params.unreadable_penalty
  <2>1. pen = Params.unreadable_penalty /\ credit = 0
    BY <1>7 DEF arrival_penalty, fingerprint
  <2>2. score = Whole * all + pen
    BY <1>7
  <2> HIDE DEF score, credit, pen, all
  <2> QED  BY <1>2, <1>3, <1>4, <1>5, <2>1, <2>2 DEF Whole
<1>8. ASSUME off = NoOffset, m.to \in ob.known, ob.occ[m.to] = "empty",
             m.to \in occupancy(m.next)
      PROVE  distance(m, hyps, ob) >= Whole + Params.empty_penalty
  <2>1. m.to \in wrong \ occupied(ob)
    BY <1>1, <1>8 DEF disagreements, occupied
  <2>2. pen = Params.empty_penalty
    BY <1>8, <2>1 DEF arrival_penalty
  <2>3. credit = 0
    <3>1. ~fingerprint(m, ob)
      BY <1>8 DEF fingerprint, polarity
    <3> QED  BY <3>1
  <2>4. all # 0
    BY <1>1, <2>1, Counted, FS_EmptySet
  <2>5. score = Whole * all + pen
    BY <1>8
  <2> HIDE DEF score, credit, pen, all
  <2>6. score >= 4 + Params.empty_penalty
    BY <1>2, <1>3, <2>2, <2>4, <2>5 DEF Whole
  <2> QED  BY <1>3, <1>4, <1>5, <2>3, <2>6 DEF Whole
<1> HIDE DEF wrong, near, all, pen, score, credit
<1> QED  BY <1>6, <1>7, <1>8

\* What the matcher may answer of a position.
Answers(pos, inf) ==
  \/ inf.kind = "nochange"
  \/ inf.kind = "commit" /\ inf.move \in Moves[pos] /\ inf.offset \in Offset
  \/ inf.kind \in {"ambiguous", "mismatch"} /\ inf.options \subseteq Moves[pos]

\* The moves that fit what can be seen, exactly.
Exact(pos, ob) == {m \in Moves[pos] : /\ arrival_is_visible(m, ob)
                                      /\ agrees(occupancy(m.next), ob)}

LEMMA InferCases ==
  ASSUME NEW pos, NEW ob
  PROVE  \/ /\ Moves[pos] = {} \/ agrees(occupancy(pos), ob)
            /\ infer(pos, ob) = NoChange
         \/ /\ Moves[pos] # {} /\ Exact(pos, ob) = {}
            /\ infer(pos, ob) = tier3(Moves[pos], occupancy(pos), ob)
         \/ /\ Exact(pos, ob) # {} /\ ~agrees(occupancy(pos), ob)
            /\ infer(pos, ob) = tier2(Exact(pos, ob), ob)
BY DEF infer, Exact

\* Tier 2 names the only move left of those that fit, or asks about them.
LEMMA TierTwo ==
  ASSUME NEW exact, NEW ob
  PROVE  LET fits       == reduced(exact)
             journalled == {m \in fits : m.to \in ob.known \cap ob.journal}
             confirmed  == {m \in fits : fingerprint(m, ob)}
         IN \/ \E m : /\ \/ fits = {m} \/ journalled = {m}
                         \/ confirmed = {m} /\ ~\E n \in journalled : journalled = {n}
                      /\ tier2(exact, ob) = Certainly(m)
            \/ tier2(exact, ob) = Ambiguous(fits)
<1> DEFINE fits       == reduced(exact)
           journalled == {m \in fits : m.to \in ob.known \cap ob.journal}
           confirmed  == {m \in fits : fingerprint(m, ob)}
           names(ms)  == \E m \in ms : ms = {m}
           only(ms)   == Certainly(CHOOSE m \in ms : TRUE)
<1>1. tier2(exact, ob) = IF names(fits) THEN only(fits)
                         ELSE IF names(journalled) THEN only(journalled)
                         ELSE IF names(confirmed) THEN only(confirmed)
                         ELSE Ambiguous(fits)
  BY DEF tier2
<1>2. ASSUME NEW ms, names(ms) PROVE \E m : ms = {m} /\ only(ms) = Certainly(m)
  <2>1. PICK m : ms = {m}
    BY <1>2
  <2>2. (CHOOSE x \in ms : TRUE) = m
    BY <2>1
  <2> QED  BY <2>1, <2>2
<1> HIDE DEF fits, journalled, confirmed, names, only
<1>3. CASE names(fits)
  <2>1. PICK m : fits = {m} /\ only(fits) = Certainly(m)
    BY <1>2, <1>3
  <2> QED  BY <1>1, <1>3, <2>1 DEF fits, journalled, confirmed
<1>4. CASE ~names(fits) /\ names(journalled)
  <2>1. PICK m : journalled = {m} /\ only(journalled) = Certainly(m)
    BY <1>2, <1>4
  <2> QED  BY <1>1, <1>4, <2>1 DEF fits, journalled, confirmed
<1>5. CASE ~names(fits) /\ ~names(journalled) /\ names(confirmed)
  <2>1. PICK m : confirmed = {m} /\ only(confirmed) = Certainly(m)
    BY <1>2, <1>5
  <2>2. tier2(exact, ob) = Certainly(m)
    BY <1>1, <1>5, <2>1
  <2>3. ~\E n \in journalled : journalled = {n}
    BY <1>5 DEF names
  <2> QED  BY <2>1, <2>2, <2>3 DEF fits, journalled, confirmed
<1>6. CASE ~names(fits) /\ ~names(journalled) /\ ~names(confirmed)
  BY <1>1, <1>6 DEF fits
<1> QED  BY <1>3, <1>4, <1>5, <1>6

\* Tier 3 commits a move that is close enough, or lists some of the moves.
LEMMA TierThree ==
  ASSUME NEW hyps \in SUBSET Move, hyps # {}, NEW current, NEW ob \in Observation
  PROVE  \/ \E m \in hyps :
              /\ distance(m, hyps, ob) <= Params.max_distance
              /\ tier3(hyps, current, ob) = Likely(m, offset(m, hyps, ob))
         \/ \E top \in SUBSET hyps :
              tier3(hyps, current, ob) = Mismatch(disagreements(current, ob), top)
<1> DEFINE d == [m \in hyps |-> distance(m, hyps, ob)]
           best == CHOOSE m \in hyps : \A n \in hyps : d[m] <= d[n]
           clear == \A n \in hyps \ {best} : d[n] - d[best] >= Params.margin
           top == Nearest(hyps, d)
<1>1. tier3(hyps, current, ob) =
        IF d[best] <= Params.max_distance /\ clear
        THEN Likely(best, offset(best, hyps, ob))
        ELSE Mismatch(disagreements(current, ob), top)
  BY DEF tier3
<1>2. d \in [hyps -> Nat]
  BY DistanceTyped
<1>3. best \in hyps
  <2> HIDE DEF d
  <2>1. \E m \in hyps : \A n \in hyps : d[m] <= d[n]
    BY <1>2, LeastValue
  <2> QED  BY <2>1
<1>4. top \in SUBSET hyps
  BY DEF Nearest
<1>5. d[best] = distance(best, hyps, ob)
  <2> HIDE DEF best
  <2> QED  BY <1>3
<1> HIDE DEF d, best, clear, top
<1> QED  BY <1>1, <1>3, <1>4, <1>5

\* What is committed fits, and by tier 3 is close.
LEMMA InferCommits ==
  ASSUME NEW pos \in Positions, NEW ob \in Observation
  PROVE  /\ Answers(pos, infer(pos, ob))
         /\ infer(pos, ob).kind = "commit" =>
              LET m == infer(pos, ob).move
                  off == infer(pos, ob).offset
              IN \/ m \in Exact(pos, ob)
                 \/ /\ distance(m, Moves[pos], ob) <= Params.max_distance
                    /\ off = offset(m, Moves[pos], ob)
<1> DEFINE inf == infer(pos, ob)
<1>0. Moves[pos] \in SUBSET Move
  BY ChessAssumption
<1>1. CASE inf = NoChange
  BY <1>1 DEF NoChange, Answers
<1>2. CASE Moves[pos] # {} /\ inf = tier3(Moves[pos], occupancy(pos), ob)
  <2>1. CASE \E m \in Moves[pos] :
               /\ distance(m, Moves[pos], ob) <= Params.max_distance
               /\ inf = Likely(m, offset(m, Moves[pos], ob))
    <3>1. PICK m \in Moves[pos] :
               /\ distance(m, Moves[pos], ob) <= Params.max_distance
               /\ inf = Likely(m, offset(m, Moves[pos], ob))
      BY <2>1
    <3>2. inf.kind = "commit" /\ inf.move = m /\ inf.offset = offset(m, Moves[pos], ob)
      BY <3>1 DEF Likely
    <3>3. inf.offset \in Offset
      BY <1>0, <3>2, OffsetTyped
    <3> QED  BY <3>1, <3>2, <3>3 DEF Answers
  <2>2. CASE \E top \in SUBSET Moves[pos] :
               inf = Mismatch(disagreements(occupancy(pos), ob), top)
    BY <2>2 DEF Mismatch, Answers
  <2> QED  BY <1>0, <1>2, <2>1, <2>2, TierThree
<1>3. CASE inf = tier2(Exact(pos, ob), ob)
  <2>1. reduced(Exact(pos, ob)) \subseteq Exact(pos, ob)
    BY DEF reduced
  <2>2. Exact(pos, ob) \subseteq Moves[pos]
    BY DEF Exact
  <2>3. CASE \E m \in Exact(pos, ob) : inf = Certainly(m)
    <3>1. PICK m \in Exact(pos, ob) : inf = Certainly(m)
      BY <2>3
    <3>2. inf.kind = "commit" /\ inf.move = m /\ inf.offset = NoOffset
      BY <3>1 DEF Certainly
    <3> QED  BY <2>2, <3>1, <3>2 DEF Answers, Offset
  <2>4. CASE inf = Ambiguous(reduced(Exact(pos, ob)))
    BY <2>1, <2>2, <2>4 DEF Ambiguous, Answers
  <2>5. \/ \E m \in Exact(pos, ob) : inf = Certainly(m)
        \/ inf = Ambiguous(reduced(Exact(pos, ob)))
    <3> HIDE DEF inf
    <3> QED  BY <1>3, <2>1, TierTwo
  <2> QED  BY <2>3, <2>4, <2>5
<1> HIDE DEF inf
<1> QED  BY <1>1, <1>2, <1>3, InferCases DEF inf

\* With calibrated weights a move is committed only where some piece shows.
LEMMA InferArrives ==
  ASSUME NEW pos \in Positions, NEW ob \in Observation, Calibrated,
         infer(pos, ob).kind = "commit"
  PROVE  LET m   == infer(pos, ob).move
             off == infer(pos, ob).offset
         IN /\ m.to \in ob.known
            /\ \/ m.castle \/ ob.occ[m.to] # "empty"
               \/ off.expected = m.to /\ BesideIt(m, off.actual, ob)
<1> DEFINE m   == infer(pos, ob).move
           off == infer(pos, ob).offset
<1>1. m \in Moves[pos] /\ off \in Offset
  BY InferCommits DEF Answers
<1>2. m \in Move /\ (~m.castle => m.to \in occupancy(m.next))
  <2>1. m \in Move
    BY <1>1, ChessAssumption
  <2>2. m.to \in Squares
    BY <2>1 DEF Move
  <2> HIDE DEF m
  <2> QED  BY <1>1, <2>1, <2>2, PlayAssumption
<1>3. \/ m \in Exact(pos, ob)
      \/ distance(m, Moves[pos], ob) <= Params.max_distance /\ off = offset(m, Moves[pos], ob)
  BY InferCommits
<1> HIDE DEF m, off
<1>4. CASE m \in Exact(pos, ob)
  <2>1. m.to \in ob.known /\ occupied(ob) = occupancy(m.next) \cap ob.known
    BY <1>4 DEF Exact, arrival_is_visible, agrees
  <2> QED  BY <1>2, <2>1 DEF occupied, m
<1>5. CASE /\ distance(m, Moves[pos], ob) <= Params.max_distance
           /\ off = offset(m, Moves[pos], ob)
  <2> DEFINE far == distance(m, Moves[pos], ob)
  <2>1. far \in Nat
    BY <1>2, DistanceTyped
  <2>2. /\ Params.max_distance \in Nat /\ Params.unreadable_penalty \in Nat
        /\ Params.empty_penalty \in Nat
    BY ParamsAssumption
  <2>3. CASE off # NoOffset
    BY <1>2, <1>5, <2>3, OffsetTyped DEF m, off
  <2>4. CASE off = NoOffset
    <3>1. ~(far >= Params.unreadable_penalty) /\ ~(far >= Whole + Params.empty_penalty)
      <4> HIDE DEF far
      <4> QED  BY <1>5, <2>1, <2>2 DEF Calibrated, Whole, far
    <3>2. m.to \in ob.known
      BY <1>2, <1>5, <2>4, <3>1, DistanceTyped
    <3>3. m.castle \/ ob.occ[m.to] # "empty"
      BY <1>2, <1>5, <2>4, <3>1, <3>2, DistanceTyped
    <3> QED  BY <3>2, <3>3 DEF m
  <2> QED  BY <2>3, <2>4
<1> QED  BY <1>3, <1>4, <1>5

-----------------------------------------------------------------------------
(* Fingerprints and the game *)

LEMMA Arrived ==
  ASSUME NEW pos \in Positions, NEW m \in Moves[pos], NEW a \in Squares,
         NEW sq \in Squares, <<a, sq>> \in m.shift
  PROVE  /\ m.promotion = "none" => At[m.next][sq] = At[pos][a]
         /\ m.promotion # "none" => sq = m.to
BY PlayAssumption

LEMMA TagsMove ==
  ASSUME NEW pos \in Positions, NEW m \in Moves[pos],
         NEW tags \in [Squares -> Pols], NEW observed \in [Squares -> Occs]
  PROVE  /\ migrate_pol_tags(tags, m, observed) \in [Squares -> Pols]
         /\ /\ TagOf(pos, tags)
            /\ \/ m.promotion = "none"
               \/ observed[m.to] \in {"empty", Reading(At[m.next][m.to])}
            => TagOf(m.next, migrate_pol_tags(tags, m, observed))
<1> DEFINE after == migrate_pol_tags(tags, m, observed)
           come(sq) == \E a \in Squares : <<a, sq>> \in m.shift
           go(sq) == sq \in m.gone \/ \E b \in Squares : <<sq, b>> \in m.shift
<1>1. after = [sq \in Squares |->
                 IF come(sq)
                 THEN IF m.promotion # "none" THEN polarity(observed[sq])
                      ELSE tags[CHOOSE a \in Squares : <<a, sq>> \in m.shift]
                 ELSE IF go(sq) THEN "none" ELSE tags[sq]]
  BY DEF migrate_pol_tags
<1>2. \A sq \in Squares : come(sq) =>
        \E a \in Squares : /\ <<a, sq>> \in m.shift
                           /\ a = CHOOSE x \in Squares : <<x, sq>> \in m.shift
  OBVIOUS
<1> HIDE DEF after
<1>3. ASSUME NEW sq \in Squares
      PROVE  /\ after[sq] \in Pols
             /\ \/ /\ come(sq) /\ m.promotion # "none"
                   /\ after[sq] = polarity(observed[sq])
                \/ /\ m.promotion = "none"
                   /\ \E a \in Squares : <<a, sq>> \in m.shift /\ after[sq] = tags[a]
                \/ after[sq] = "none"
                \/ ~come(sq) /\ ~go(sq) /\ after[sq] = tags[sq]
  <2>1. CASE come(sq) /\ m.promotion # "none"
    BY <1>1, <2>1 DEF polarity, Occs, Pols
  <2>2. CASE come(sq) /\ m.promotion = "none"
    BY <1>1, <1>2, <2>2
  <2>3. CASE ~come(sq) /\ go(sq)
    BY <1>1, <2>3 DEF Pols
  <2>4. CASE ~come(sq) /\ ~go(sq)
    BY <1>1, <2>4
  <2> QED  BY <2>1, <2>2, <2>3, <2>4
<1>4. after \in [Squares -> Pols]
  <2>1. after = [sq \in Squares |-> after[sq]]
    BY <1>1
  <2> QED  BY <1>3, <2>1
<1>5. ASSUME TagOf(pos, tags),
             \/ m.promotion = "none"
             \/ observed[m.to] \in {"empty", Reading(At[m.next][m.to])},
             NEW sq \in occupancy(m.next)
      PROVE  after[sq] \in {"none", Reading(At[m.next][sq])}
  <2>1. sq \in Squares /\ At[m.next][sq] # Nobody
    BY <1>5 DEF occupancy
  <2>2. CASE come(sq) /\ m.promotion # "none" /\ after[sq] = polarity(observed[sq])
    <3>1. sq = m.to
      <4>1. PICK a \in Squares : <<a, sq>> \in m.shift
        BY <2>2
      <4> QED  BY <2>1, <2>2, <4>1, Arrived
    <3> QED  BY <1>5, <2>2, <3>1 DEF polarity
  <2>3. CASE m.promotion = "none" /\ \E a \in Squares : <<a, sq>> \in m.shift /\ after[sq] = tags[a]
    <3>1. PICK a \in Squares : <<a, sq>> \in m.shift /\ after[sq] = tags[a]
      BY <2>3
    <3>2. At[m.next][sq] = At[pos][a]
      BY <2>1, <2>3, <3>1, Arrived
    <3>3. a \in occupancy(pos)
      BY <2>1, <3>2 DEF occupancy
    <3> QED  BY <1>5, <3>1, <3>2, <3>3 DEF TagOf
  <2>4. CASE ~come(sq) /\ ~go(sq) /\ after[sq] = tags[sq]
    <3>1. At[m.next][sq] = At[pos][sq]
      BY <2>1, <2>4, PlayAssumption
    <3>2. sq \in occupancy(pos)
      BY <2>1, <3>1 DEF occupancy
    <3> QED  BY <1>5, <2>4, <3>1, <3>2 DEF TagOf
  <2> QED  BY <1>3, <2>1, <2>2, <2>3, <2>4
<1> HIDE DEF come, go
<1>6. /\ TagOf(pos, tags)
      /\ m.promotion = "none" \/ observed[m.to] \in {"empty", Reading(At[m.next][m.to])}
      => TagOf(m.next, after)
  BY <1>5 DEF TagOf
<1> QED  BY <1>4, <1>6 DEF after

\* The history whose fingerprints fit its positions.
Told(g) == g.learned => /\ TagOf(g.pos, g.pol_tag)
                        /\ \A i \in DOMAIN g.history :
                             TagOf(g.history[i].pos, g.history[i].pol_tag)

\* A game being set up has no history: it is what begin_play relies on when it
\* takes new fingerprints.
Sound(g) == g \in Game /\ (g.phase = "Setup" => g.history = <<>>) /\ Told(g)

LEMMA NudgeTyped ==
  ASSUME NEW g \in Game, NEW m, NEW off \in Offset
  PROVE  NudgeAfter(g, m, off) \in Offset
BY DEF NudgeAfter, Game

LEMMA Grown ==
  ASSUME NEW h \in Seq(Ply), NEW ply \in Ply
  PROVE  /\ Append(h, ply) \in Seq(Ply)
         /\ \A i \in DOMAIN Append(h, ply) :
              Append(h, ply)[i] = ply \/ (i \in DOMAIN h /\ Append(h, ply)[i] = h[i])
         /\ Len(Append(h, ply)) = Len(h) + 1
<1>1. Append(h, ply) \in Seq(Ply) /\ Len(Append(h, ply)) = Len(h) + 1
  OBVIOUS
<1>2. DOMAIN h = 1..Len(h) /\ DOMAIN Append(h, ply) = 1..(Len(h) + 1) /\ Len(h) \in Nat
  BY <1>1
<1>3. /\ Append(h, ply)[Len(h) + 1] = ply
      /\ \A i \in 1..Len(h) : Append(h, ply)[i] = h[i]
  OBVIOUS
<1>4. ASSUME NEW i \in DOMAIN Append(h, ply)
      PROVE  Append(h, ply)[i] = ply \/ (i \in DOMAIN h /\ Append(h, ply)[i] = h[i])
  <2>1. i \in 1..(Len(h) + 1)
    BY <1>2
  <2>2. CASE i = Len(h) + 1
    BY <1>3, <2>1, <2>2
  <2>3. CASE i # Len(h) + 1
    <3>1. i \in 1..Len(h)
      BY <1>2, <2>1, <2>3
    <3> QED  BY <1>2, <1>3, <3>1
  <2> QED  BY <2>2, <2>3
<1> QED  BY <1>1, <1>4

LEMMA CommitSound ==
  ASSUME NEW g, Sound(g), NEW o \in Observer, NEW m \in Moves[g.pos], NEW off \in Offset
  PROVE  /\ Sound(commit(o, g, m, off))
         /\ commit(o, g, m, off).phase \in {"Over", "Playing"}
         /\ commit(o, g, m, off).pos = m.next
         /\ Len(commit(o, g, m, off).history) = Len(g.history) + 1
         /\ commit(o, g, m, off).nudge = NudgeAfter(g, m, off)
<1> DEFINE ply == [pos |-> g.pos, pol_tag |-> g.pol_tag]
           history == Append(g.history, ply)
           tags == migrate_pol_tags(g.pol_tag, m, o.occ)
           learned == g.learned /\ (m.promotion = "none"
                                    \/ o.occ[m.to] \in {"empty", Reading(At[m.next][m.to])})
           nudge == NudgeAfter(g, m, off)
           phase == IF Moves[m.next] = {} \/ Len(g.history) + 1 >= MaxPly
                    THEN "Over" ELSE "Playing"
           c == commit(o, g, m, off)
<1>1. g \in Game /\ g.pos \in Positions /\ Told(g)
  BY DEF Sound, Game
<1>2. m \in Move /\ m.next \in Positions
  BY <1>1, ChessAssumption DEF Move
<1>3. /\ c = [g EXCEPT !.history = history, !.pol_tag = tags, !.learned = learned,
                       !.pos = m.next, !.nudge = nudge, !.choice = {}, !.phase = phase]
  BY <1>1 DEF commit, Game
<1>4. ply \in Ply /\ g.history \in Seq(Ply)
  BY <1>1 DEF Game, Ply
<1>5. /\ history \in Seq(Ply) /\ Len(history) = Len(g.history) + 1
      /\ \A i \in DOMAIN history :
           history[i] = ply \/ (i \in DOMAIN g.history /\ history[i] = g.history[i])
  BY <1>4, Grown
<1>6. g.pol_tag \in [Squares -> Pols] /\ o.occ \in [Squares -> Occs]
  BY <1>1 DEF Game, Observer
<1>7. tags \in [Squares -> Pols]
  BY <1>1, <1>6, TagsMove
<1>8. nudge \in Offset
  BY <1>1, NudgeTyped
<1>9. learned => /\ TagOf(m.next, tags)
                 /\ \A i \in DOMAIN history : TagOf(history[i].pos, history[i].pol_tag)
  <2>1. ASSUME learned PROVE TagOf(m.next, tags)
    BY <1>1, <1>6, <2>1, TagsMove DEF Told
  <2>2. ASSUME learned, NEW i \in DOMAIN history
        PROVE  TagOf(history[i].pos, history[i].pol_tag)
    <3>1. CASE history[i] = ply
      BY <1>1, <2>2, <3>1 DEF Told
    <3>2. CASE i \in DOMAIN g.history /\ history[i] = g.history[i]
      BY <1>1, <2>2, <3>2 DEF Told
    <3> QED  BY <1>5, <2>2, <3>1, <3>2
  <2> QED  BY <2>1, <2>2
<1>10. learned \in BOOLEAN /\ phase \in {"Over", "Playing"}
  BY <1>1 DEF Game
<1> HIDE DEF history, tags, learned, nudge, phase
<1>11. c \in Game
  BY <1>1, <1>2, <1>3, <1>5, <1>7, <1>8, <1>10 DEF Game, Phases
<1>12. /\ c.phase = phase /\ c.pos = m.next /\ c.history = history
       /\ c.pol_tag = tags /\ c.learned = learned /\ c.nudge = nudge
  BY <1>1, <1>3 DEF Game
<1> HIDE DEF c
<1>13. Sound(c)
  BY <1>9, <1>10, <1>11, <1>12 DEF Sound, Told
<1> QED  BY <1>5, <1>10, <1>12, <1>13 DEF c, nudge

LEMMA AskSound ==
  ASSUME NEW g, Sound(g), NEW options \in SUBSET Moves[g.pos]
  PROVE  Sound(ask(g, options)) /\ ask(g, options).phase = "AwaitingChoice"
         /\ ask(g, options).choice = options /\ ask(g, options).history = g.history
<1>1. g \in Game /\ g.pos \in Positions
  BY DEF Sound, Game
<1>2. options \in SUBSET Move
  BY <1>1, ChessAssumption
<1>3. ask(g, options) = [g EXCEPT !.choice = options, !.phase = "AwaitingChoice"]
  BY DEF ask
<1>4. ask(g, options) \in Game
  BY <1>1, <1>2, <1>3 DEF Game, Phases
<1>5. /\ ask(g, options).phase = "AwaitingChoice"
      /\ ask(g, options).choice = options
      /\ ask(g, options).pos = g.pos /\ ask(g, options).history = g.history
      /\ ask(g, options).pol_tag = g.pol_tag /\ ask(g, options).learned = g.learned
  BY <1>1, <1>3 DEF Game
<1> QED  BY <1>4, <1>5 DEF Sound, Told

LEMMA InferenceSound ==
  ASSUME NEW g, Sound(g), NEW o \in Observer, NEW inf, Answers(g.pos, inf)
  PROVE  Sound(on_inference(o, g, inf))
<1>1. CASE inf.kind = "nochange"
  <2> DEFINE h == on_inference(o, g, inf)
             phase == IF g.phase = "AwaitingChoice" THEN "Playing" ELSE g.phase
             choice == IF g.phase = "AwaitingChoice" THEN {} ELSE g.choice
  <2>1. g \in Game
    BY DEF Sound
  <2>2. h = [g EXCEPT !.nudge = NoOffset, !.phase = phase, !.choice = choice]
    BY <1>1, <2>1 DEF on_inference, Game
  <2>3. phase \in Phases /\ choice \in SUBSET Move /\ NoOffset \in Offset
    BY <2>1 DEF Game, Phases, Offset
  <2>4. phase = "Setup" => g.phase = "Setup"
    OBVIOUS
  <2> HIDE DEF phase, choice
  <2>5. h \in Game
    BY <2>1, <2>2, <2>3 DEF Game
  <2>6. /\ h.phase = phase /\ h.history = g.history /\ h.pos = g.pos
        /\ h.pol_tag = g.pol_tag /\ h.learned = g.learned
    BY <2>1, <2>2 DEF Game
  <2> QED  BY <2>4, <2>5, <2>6 DEF Sound, Told
<1>2. CASE inf.kind = "commit"
  <2>1. inf.move \in Moves[g.pos] /\ inf.offset \in Offset
    BY <1>2 DEF Answers
  <2>2. Sound(ask(g, {inf.move})) /\ Sound(commit(o, g, inf.move, inf.offset))
    BY <2>1, AskSound, CommitSound
  <2> QED  BY <1>2, <2>2 DEF on_inference
<1>3. CASE inf.kind \in {"ambiguous", "mismatch"}
  <2>1. Sound(ask(g, inf.options))
    BY <1>3, AskSound DEF Answers
  <2> QED  BY <1>3, <2>1 DEF on_inference
<1> QED  BY <1>1, <1>2, <1>3 DEF Answers

LEMMA MaskSound ==
  ASSUME NEW g, Sound(g), NEW o \in Observer
  PROVE  LET s == update_auto_mask(o, g)
         IN /\ s.o \in Observer /\ Sound(s.g)
            /\ s.g.pos = g.pos /\ s.g.phase = g.phase /\ s.g.choice = g.choice
            /\ s.g.history = g.history /\ s.g.nudge = g.nudge
<1> DEFINE s == update_auto_mask(o, g)
           h == [g EXCEPT !.disagree_streak = Streak(o, g),
                          !.auto_masked = @ \cup Suspects(o, g)]
<1>1. CASE g.phase # "Playing"
  <2>1. s = [o |-> o, g |-> g]
    BY <1>1 DEF update_auto_mask
  <2> QED  BY <2>1
<1>2. CASE g.phase = "Playing"
  <2>1. /\ s.o = [o EXCEPT !.masked = @ \cup Suspects(o, g)] /\ s.g = h
    BY <1>2 DEF update_auto_mask
  <2>2. Suspects(o, g) \subseteq Squares /\ g \in Game
    BY DEF Suspects, Strange, known, Sound
  <2>3. Streak(o, g) \in [Squares -> Nat]
    BY <2>2 DEF Streak, Game
  <2>4. s.o \in Observer
    <3>1. o.masked \cup Suspects(o, g) \in SUBSET Squares
      BY <2>2 DEF Observer
    <3> QED  BY <2>1, <3>1 DEF Observer
  <2>5. h \in Game
    BY <2>2, <2>3 DEF Game
  <2>6. /\ h.pos = g.pos /\ h.phase = g.phase /\ h.choice = g.choice
        /\ h.history = g.history /\ h.nudge = g.nudge
        /\ h.pol_tag = g.pol_tag /\ h.learned = g.learned
    BY <2>2 DEF Game
  <2>7. Sound(h)
    BY <2>5, <2>6 DEF Sound, Told
  <2> HIDE DEF s, h
  <2> QED  BY <2>1, <2>4, <2>6, <2>7 DEF s
<1> QED  BY <1>1, <1>2

\* What a settle makes of an observer and a game: nothing, or what infer's
\* answer asks for, on the position, with the masks brought up to date.
View(o, g) == [occ |-> o.occ, known |-> known(o),
               journal |-> o.journal, pol_tag |-> g.pol_tag]

LEMMA ViewTyped ==
  ASSUME NEW o \in Observer, NEW g, Sound(g)
  PROVE  View(o, g) \in Observation /\ g.pos \in Positions
BY DEF View, Observation, Observer, Sound, Game, known

LEMMA SettleCases ==
  ASSUME NEW o \in Observer, NEW g, Sound(g)
  PROVE  LET inf == infer(g.pos, View(o, g))
             s == on_settle(o, g)
         IN \/ Explained(g, inf) /\ s = [o |-> o, g |-> g]
            \/ \E p \in {o, Reread(o)} : s = update_auto_mask(p, on_inference(o, g, inf))
<1> DEFINE inf == infer(g.pos, View(o, g))
           p == IF inf.kind = "commit" /\ ~g.suggest THEN Reread(o) ELSE o
<1>1. on_settle(o, g) = IF Explained(g, inf) THEN [o |-> o, g |-> g]
                        ELSE update_auto_mask(p, on_inference(o, g, inf))
  BY DEF on_settle, View
<1>2. p \in {o, Reread(o)}
  OBVIOUS
<1> HIDE DEF inf, p
<1> QED  BY <1>1, <1>2 DEF inf

LEMMA SettleSound ==
  ASSUME NEW o \in Observer, NEW g, Sound(g)
  PROVE  on_settle(o, g).o \in Observer /\ Sound(on_settle(o, g).g)
<1> DEFINE inf == infer(g.pos, View(o, g))
           s == on_settle(o, g)
<1>1. Answers(g.pos, inf)
  BY ViewTyped, InferCommits
<1> HIDE DEF inf
<1>2. Reread(o) \in Observer
  BY ObserverTyped
<1>3. Sound(on_inference(o, g, inf))
  BY <1>1, InferenceSound
<1>4. \A p \in {o, Reread(o)} :
        /\ update_auto_mask(p, on_inference(o, g, inf)).o \in Observer
        /\ Sound(update_auto_mask(p, on_inference(o, g, inf)).g)
  BY <1>2, <1>3, MaskSound
<1>5. CASE s = [o |-> o, g |-> g]
  BY <1>5
<1> QED  BY <1>4, <1>5, SettleCases DEF inf

LEMMA UnmaskedTyped ==
  ASSUME NEW o \in Observer, NEW g \in Game
  PROVE  Unmasked(o, g) \in Observer
BY DEF Unmasked, Observer, Game

\* The fingerprints that play starts with are of the pieces that are there.
LEMMA StartSound ==
  ASSUME obs \in Observer, Sound(game), game.phase = "Setup", begin_play
  PROVE  obs' \in Observer /\ Sound(game')
<1> DEFINE tags == [sq \in Squares |-> IF sq \in known(obs)
                                       THEN polarity(obs.occ[sq]) ELSE "none"]
           learned == \A sq \in known(obs) \cap occupancy(game.pos) :
                        obs.occ[sq] \in {"empty", Reading(At[game.pos][sq])}
<1>1. game \in Game /\ game.history = <<>>
  BY DEF Sound
<1>2. game' = [game EXCEPT !.phase = "Playing", !.pol_tag = tags, !.learned = learned]
  BY DEF begin_play
<1>3. tags \in [Squares -> Pols]
  BY DEF Observer, Occs, Pols, polarity
<1>4. learned => TagOf(game.pos, tags)
  <2>1. ASSUME learned, NEW sq \in occupancy(game.pos)
        PROVE  tags[sq] \in {"none", Reading(At[game.pos][sq])}
    <3>1. sq \in Squares
      BY <2>1 DEF occupancy
    <3>2. CASE sq \in known(obs)
      BY <2>1, <3>1, <3>2 DEF polarity
    <3>3. CASE sq \notin known(obs)
      BY <3>1, <3>3
    <3> QED  BY <3>2, <3>3
  <2> QED  BY <2>1 DEF TagOf
<1>5. learned \in BOOLEAN
  OBVIOUS
<1> HIDE DEF tags, learned
<1>6. game' \in Game
  BY <1>1, <1>2, <1>3, <1>5 DEF Game, Phases
<1>7. /\ game'.phase = "Playing" /\ game'.pos = game.pos /\ game'.history = <<>>
      /\ game'.pol_tag = tags /\ game'.learned = learned
  BY <1>1, <1>2 DEF Game
<1>8. DOMAIN game'.history = {}
  BY <1>7
<1>9. Sound(game')
  BY <1>4, <1>6, <1>7, <1>8 DEF Sound, Told
<1> QED  BY <1>9, ObserverTyped DEF begin_play

\* A move taken back brings back the fingerprints that the position had.
LEMMA UndoSound ==
  ASSUME obs \in Observer, Sound(game), undo
  PROVE  obs' \in Observer /\ Sound(game')
<1> DEFINE n == Len(game.history)
           ply == game.history[n]
           history == SubSeq(game.history, 1, n - 1)
<1>1. game \in Game /\ game.history \in Seq(Ply) /\ game.history # <<>>
  BY DEF Sound, Game, undo
<1>2. n \in Nat /\ n \in DOMAIN game.history /\ n # 0 /\ DOMAIN game.history = 1..n
  BY <1>1
<1>3. ply \in Ply
  BY <1>1, <1>2
<1>4. /\ history \in Seq(Ply) /\ Len(history) = n - 1
      /\ \A i \in DOMAIN history : i \in DOMAIN game.history /\ history[i] = game.history[i]
  BY <1>1, <1>2
<1>5. game' = [game EXCEPT
          !.history = history, !.pos = ply.pos,
          !.pol_tag = ply.pol_tag, !.phase = "Playing", !.choice = {},
          !.nudge = NoOffset, !.disagree_streak = NoStreak]
  BY <1>1 DEF undo, Game
<1>6. /\ ply.pos \in Positions /\ ply.pol_tag \in [Squares -> Pols]
      /\ NoOffset \in Offset /\ NoStreak \in [Squares -> Nat]
  BY <1>3 DEF Ply, Offset, NoStreak
<1>7. game.learned => TagOf(ply.pos, ply.pol_tag)
  BY <1>2 DEF Sound, Told
<1> HIDE DEF ply, history, n
<1>8. game' \in Game
  BY <1>1, <1>4, <1>5, <1>6 DEF Game, Phases
<1>9. /\ game'.phase = "Playing" /\ game'.pos = ply.pos /\ game'.history = history
      /\ game'.pol_tag = ply.pol_tag /\ game'.learned = game.learned
  BY <1>1, <1>5 DEF Game
<1>10. Sound(game')
  BY <1>4, <1>7, <1>8, <1>9 DEF Sound, Told
<1> QED  BY <1>10, ObserverTyped DEF undo

\* What leaves position, history and fingerprints alone, and the game begun
\* if it was.
LEMMA SoundKept ==
  ASSUME NEW g, Sound(g), NEW h \in Game,
         h.pos = g.pos, h.history = g.history, h.pol_tag = g.pol_tag,
         h.learned = g.learned, h.phase = "Setup" => g.phase = "Setup"
  PROVE  Sound(h)
BY DEF Sound, Told

LEMMA NewGameSound ==
  ASSUME obs \in Observer, Sound(game), new_game
  PROVE  obs' \in Observer /\ Sound(game')
<1>1. game \in Game
  BY DEF Sound
<1>2. obs' \in Observer
  <2>1. Unmasked(obs, game) \in Observer
    BY <1>1, UnmaskedTyped
  <2>2. obs' = clear_journal(Unmasked(obs, game))
    BY DEF new_game, clear_journal
  <2> QED  BY <2>1, <2>2, ObserverTyped
<1>3. /\ <<>> \in Seq(Ply) /\ NoTags \in [Squares -> Pols] /\ NoOffset \in Offset
      /\ NoStreak \in [Squares -> Nat] /\ Deal \in Positions
  BY DetectionAssumption DEF NoTags, Pols, Offset, NoStreak
<1>4. game' = [game EXCEPT
       !.phase = "Setup", !.pos = Deal, !.history = <<>>, !.pol_tag = NoTags,
       !.choice = {}, !.nudge = NoOffset, !.disagree_streak = NoStreak,
       !.auto_masked = {}, !.torn = FALSE]
  BY DEF new_game
<1>5. game' \in Game
  BY <1>1, <1>3, <1>4 DEF Game, Phases
<1>6. game'.history = <<>> /\ game'.pos = Deal /\ game'.pol_tag = NoTags
  BY <1>1, <1>4 DEF Game
<1>7. TagOf(Deal, NoTags) /\ DOMAIN game'.history = {}
  BY <1>6 DEF TagOf, NoTags, occupancy
<1>8. Sound(game')
  BY <1>5, <1>6, <1>7 DEF Sound, Told
<1> QED  BY <1>2, <1>8

\* The other corrections of the operator leave position and history alone.
LEMMA CorrectionSound ==
  ASSUME obs \in Observer, Sound(game),
         \/ dismiss \/ set_detect \/ resync \/ bind_device
         \/ \E sq \in Suspicious, masked \in BOOLEAN : mask_square(sq, masked)
         \/ \E quarter_turns \in Mounts : rotate_board(quarter_turns)
  PROVE  obs' \in Observer /\ Sound(game')
<1>1. game \in Game
  BY DEF Sound
<1>2. CASE dismiss
  <2>1. game' = [game EXCEPT !.choice = {}, !.phase = "Playing"] /\ obs' = obs
    BY <1>2 DEF dismiss
  <2>2. game' \in Game
    BY <1>1, <2>1 DEF Game, Phases
  <2>3. /\ game'.phase = "Playing" /\ game'.pos = game.pos /\ game'.history = game.history
        /\ game'.pol_tag = game.pol_tag /\ game'.learned = game.learned
    BY <1>1, <2>1 DEF Game
  <2> QED  BY <2>1, <2>2, <2>3, SoundKept
<1>3. CASE set_detect
  <2>1. game' = [game EXCEPT !.suggest = ~@] /\ obs' = obs
    BY <1>3 DEF set_detect
  <2>2. game' \in Game
    BY <1>1, <2>1 DEF Game
  <2>3. /\ game'.phase = game.phase /\ game'.pos = game.pos /\ game'.history = game.history
        /\ game'.pol_tag = game.pol_tag /\ game'.learned = game.learned
    BY <1>1, <2>1 DEF Game
  <2> QED  BY <2>1, <2>2, <2>3, SoundKept
<1>4. CASE resync
  <2> DEFINE phase == IF game.phase = "AwaitingChoice" THEN "Playing" ELSE game.phase
  <2>1. game' = [game EXCEPT
          !.auto_masked = {}, !.disagree_streak = NoStreak, !.nudge = NoOffset,
          !.choice = {}, !.torn = FALSE, !.phase = phase]
    BY <1>1, <1>4 DEF resync, Game
  <2>2. /\ phase \in Phases /\ (phase = "Setup" => game.phase = "Setup")
        /\ NoStreak \in [Squares -> Nat] /\ NoOffset \in Offset
    BY <1>1 DEF Game, Phases, NoStreak, Offset
  <2> HIDE DEF phase
  <2>3. game' \in Game
    BY <1>1, <2>1, <2>2 DEF Game
  <2>4. /\ game'.phase = phase /\ game'.pos = game.pos /\ game'.history = game.history
        /\ game'.pol_tag = game.pol_tag /\ game'.learned = game.learned
    BY <1>1, <2>1 DEF Game
  <2>5. obs' \in Observer
    BY <1>1, <1>4, UnmaskedTyped, ObserverTyped DEF resync
  <2> QED  BY <2>2, <2>3, <2>4, <2>5, SoundKept
<1>5. CASE bind_device
  BY <1>5, ObserverTyped DEF bind_device
<1>6. ASSUME NEW sq \in Suspicious, NEW masked \in BOOLEAN, mask_square(sq, masked)
      PROVE  obs' \in Observer /\ Sound(game')
  <2> DEFINE chips == IF masked THEN game.chips \cup {sq} ELSE game.chips \ {sq}
             streak == [game.disagree_streak EXCEPT ![sq] = 0]
             hidden == IF masked THEN obs.masked \cup {sq} ELSE obs.masked \ {sq}
  <2>1. sq \in Squares
    BY DetectionAssumption
  <2>2. /\ game' = [game EXCEPT !.auto_masked = @ \ {sq}, !.disagree_streak = streak,
                                !.chips = chips]
        /\ obs' = [obs EXCEPT !.masked = hidden]
    BY <1>1, <1>6 DEF mask_square, Game, Observer
  <2>3. /\ chips \in SUBSET Squares /\ hidden \in SUBSET Squares
        /\ streak \in [Squares -> Nat]
    BY <1>1, <2>1 DEF Game, Observer
  <2> HIDE DEF chips, streak, hidden
  <2>4. game' \in Game
    BY <1>1, <2>2, <2>3 DEF Game
  <2>5. /\ game'.phase = game.phase /\ game'.pos = game.pos /\ game'.history = game.history
        /\ game'.pol_tag = game.pol_tag /\ game'.learned = game.learned
    BY <1>1, <2>2 DEF Game
  <2> QED  BY <2>2, <2>3, <2>4, <2>5, ObserverTyped, SoundKept
<1>7. ASSUME NEW turns \in Mounts, rotate_board(turns)
      PROVE  obs' \in Observer /\ Sound(game')
  <2> DEFINE turned == game.turned \/ obs.masked # {}
  <2>1. turns \in Turns
    BY DetectionAssumption
  <2>2. game' = [game EXCEPT !.turned = turned] /\ turned \in BOOLEAN
    BY <1>1, <1>7 DEF rotate_board, Game
  <2> HIDE DEF turned
  <2>3. game' \in Game
    BY <1>1, <2>2 DEF Game
  <2>4. /\ game'.phase = game.phase /\ game'.pos = game.pos /\ game'.history = game.history
        /\ game'.pol_tag = game.pol_tag /\ game'.learned = game.learned
    BY <1>1, <2>2 DEF Game
  <2> QED  BY <1>7, <2>1, <2>3, <2>4, RotationTyped, SoundKept DEF rotate_board
<1> QED  BY <1>2, <1>3, <1>4, <1>5, <1>6, <1>7

\* A move that the operator plays, or picks among the choices.
LEMMA MoveSound ==
  ASSUME obs \in Observer, Sound(game), NEW m \in Moves[game.pos], move(m)
  PROVE  obs' \in Observer /\ Sound(game')
<1>1. NoOffset \in Offset
  BY DEF Offset
<1> QED  BY <1>1, CommitSound, ObserverTyped DEF move

LEMMA TickSound ==
  ASSUME obs \in Observer, Sound(game), tick_playing
  PROVE  obs' \in Observer /\ Sound(game')
<1> DEFINE o == [obs EXCEPT !.unread = FALSE]
<1>1. obs' = on_settle(o, game).o /\ game' = on_settle(o, game).g
  BY DEF tick_playing
<1>2. o \in Observer
  BY ObserverTyped
<1> HIDE DEF o
<1> QED  BY <1>1, <1>2, SettleSound

\* An event that is heard tells of a gap before it.
LEMMA EventSound ==
  ASSUME obs \in Observer, Sound(game), hole \in BOOLEAN
  PROVE  /\ \A o \in Observer : Heard(o) => obs' \in Observer /\ Sound(game') /\ hole' \in BOOLEAN
         /\ Lost => obs' \in Observer /\ Sound(game') /\ hole' \in BOOLEAN
<1>1. game \in Game
  BY DEF Sound
<1>2. ASSUME NEW o \in Observer, Heard(o)
      PROVE  obs' \in Observer /\ Sound(game') /\ hole' \in BOOLEAN
  <2> DEFINE torn == game.torn \/ hole
  <2>1. game' = [game EXCEPT !.torn = torn] /\ torn \in BOOLEAN
    BY <1>1, <1>2 DEF Heard, Game
  <2> HIDE DEF torn
  <2>2. game' \in Game
    BY <1>1, <2>1 DEF Game
  <2>3. /\ game'.phase = game.phase /\ game'.pos = game.pos /\ game'.history = game.history
        /\ game'.pol_tag = game.pol_tag /\ game'.learned = game.learned
    BY <1>1, <2>1 DEF Game
  <2> QED  BY <1>2, <2>2, <2>3, SoundKept DEF Heard
<1>3. ASSUME Lost PROVE obs' \in Observer /\ Sound(game') /\ hole' \in BOOLEAN
  BY <1>3 DEF Lost
<1> QED  BY <1>2, <1>3

-----------------------------------------------------------------------------
(* The types of the world *)

DetInv ==
  /\ real \in [Squares -> Pieces \cup {Nobody}]
  /\ tilt \in SUBSET Tilt
  /\ sense \in [Squares -> States]
  /\ powered \in SUBSET Nodes
  /\ hole \in BOOLEAN
  /\ obs \in Observer
  /\ Sound(game)
  /\ spent \in Nat

LEMMA ReadingTyped == \A x \in Pieces \cup {Nobody} : Reading(x) \in Occs
BY DetectionAssumption DEF Reading, Occs

LEMMA CostsTyped ==
  ASSUME DetInv PROVE Touch \/ Odd \/ Open \/ UNCHANGED spent => spent' \in Nat
BY DEF DetInv, Touch, Odd, Open, Costs

LEMMA SpotTyped ==
  ASSUME DetInv, NEW sq \in Squares PROVE Spot(sq) \in Squares
<1>1. CASE \E t \in tilt : t.square = sq
  <2>1. (CHOOSE t \in tilt : t.square = sq) \in tilt
    BY <1>1
  <2>2. tilt \subseteq Tilt
    BY DEF DetInv
  <2> QED  BY <1>1, <2>1, <2>2 DEF Spot, Tilt
<1>2. CASE ~\E t \in tilt : t.square = sq
  BY <1>2 DEF Spot
<1> QED  BY <1>1, <1>2

LEMMA ReportTyped ==
  ASSUME DetInv, NEW sq \in Squares, NEW state \in States, NEW lost,
         Reports(sq, state, lost)
  PROVE  /\ sense' \in [Squares -> States] /\ hole' \in BOOLEAN
         /\ obs' \in Observer /\ Sound(game')
<1>1. sense' \in [Squares -> States]
  BY DEF DetInv, Reports
<1>2. CASE UNCHANGED <<hole, obs, game>>
  BY <1>1, <1>2 DEF DetInv
<1>3. CASE Lost
  BY <1>1, <1>3, EventSound DEF DetInv
<1>4. CASE Heard(apply_sensor_changed(obs, sq, state))
  <2>1. apply_sensor_changed(obs, sq, state) \in Observer
    BY ChangeTyped DEF DetInv
  <2> QED  BY <1>1, <1>4, <2>1, EventSound DEF DetInv
<1> QED  BY <1>2, <1>3, <1>4 DEF Reports

LEMMA PlayersTyped == ASSUME DetInv, Players PROVE DetInv'
<1>0. Nobody \in Pieces \cup {Nobody}
  OBVIOUS
<1>1. ASSUME NEW sq \in Squares, NEW state \in {"uncertain", "empty"},
             NEW lost, Lift(sq, state, lost)
      PROVE  DetInv'
  <2>1. Spot(sq) \in Squares /\ state \in States
    BY <1>1, SpotTyped DEF States, Occs
  <2>2. Reports(Spot(sq), state, lost) /\ (Odd \/ Touch)
    BY <1>1 DEF Lift
  <2>3. real' \in [Squares -> Pieces \cup {Nobody}] /\ tilt' \in SUBSET Tilt
        /\ powered' \in SUBSET Nodes
    BY <1>1 DEF DetInv, Lift
  <2> QED  BY <2>1, <2>2, <2>3, ReportTyped, CostsTyped DEF DetInv
<1>2. ASSUME NEW sq \in Squares, Resolve(sq) PROVE DetInv'
  <2>1. Reports(sq, "empty", FALSE) /\ UNCHANGED <<real, tilt, powered, spent>>
    BY <1>2 DEF Resolve
  <2>2. "empty" \in States
    BY DEF States, Occs
  <2> QED  BY <2>1, <2>2, ReportTyped DEF DetInv
<1>3. ASSUME NEW x \in OffBoard, NEW sq \in Free, NEW lost \in BOOLEAN, Put(x, sq, lost)
      PROVE  DetInv'
  <2>1. sq \in Squares /\ x \in Pieces /\ Polarity[x] \in States
    BY DetectionAssumption DEF OffBoard, Free, States, Occs
  <2>2. Reports(sq, Polarity[x], lost) /\ (Odd \/ Touch) /\ UNCHANGED <<tilt, powered>>
    BY <1>3 DEF Put
  <2>3. real' \in [Squares -> Pieces \cup {Nobody}]
    BY <1>3, <2>1 DEF DetInv, Put
  <2> QED  BY <2>1, <2>2, <2>3, ReportTyped, CostsTyped DEF DetInv
<1>4. ASSUME NEW x \in OffBoard, NEW sq \in Free, NEW spot \in Free,
             NEW as \in {"pos", "neg"}, PutTilted(x, sq, spot, as)
      PROVE  DetInv'
  <2>1. sq \in Squares /\ spot \in Squares /\ x \in Pieces /\ as \in States
    BY DEF OffBoard, Free, States, Occs
  <2>2. Reports(spot, as, FALSE) /\ Odd /\ UNCHANGED powered
    BY <1>4 DEF PutTilted
  <2>3. real' \in [Squares -> Pieces \cup {Nobody}]
    BY <1>4, <2>1 DEF DetInv, PutTilted
  <2>4. [square |-> sq, reads |-> spot, as |-> as] \in Tilt
    BY <2>1 DEF Tilt
  <2>5. tilt' \in SUBSET Tilt
    BY <1>4, <2>4 DEF DetInv, PutTilted
  <2> QED  BY <2>1, <2>2, <2>3, <2>5, ReportTyped, CostsTyped DEF DetInv
<1> QED  BY <1>1, <1>2, <1>3, <1>4 DEF Players

LEMMA BusTyped == ASSUME DetInv, Bus PROVE DetInv'
<1>1. ASSUME NEW n \in Flaky, Drops(n) \/ Returns(n) PROVE DetInv'
  <2>1. n \in Nodes
    BY DetectionAssumption
  <2>2. powered' \in SUBSET Nodes /\ UNCHANGED <<real, tilt, sense>>
        /\ (Open \/ UNCHANGED spent)
    BY <1>1, <2>1 DEF DetInv, Drops, Returns
  <2>3. PICK on \in BOOLEAN : Heard(apply_node_status(obs, n, on)) \/ Lost
    BY <1>1 DEF Drops, Returns
  <2>4. apply_node_status(obs, n, on) \in Observer
    BY <2>1, StatusTyped DEF DetInv
  <2>5. obs' \in Observer /\ Sound(game') /\ hole' \in BOOLEAN
    BY <2>3, <2>4, EventSound DEF DetInv
  <2> QED  BY <2>2, <2>5, CostsTyped DEF DetInv
<1>2. CASE Snapshot
  <2>1. obs' \in Observer
    BY <1>2, SnapshotTyped, ObserverTyped DEF DetInv, Snapshot
  <2>2. game \in Game /\ game' = [game EXCEPT !.torn = FALSE]
    BY <1>2 DEF DetInv, Sound, Snapshot
  <2>3. game' \in Game
    BY <2>2 DEF Game
  <2>4. /\ game'.phase = game.phase /\ game'.pos = game.pos /\ game'.history = game.history
        /\ game'.pol_tag = game.pol_tag /\ game'.learned = game.learned
    BY <2>2 DEF Game
  <2>5. Sound(game')
    BY <2>3, <2>4, SoundKept DEF DetInv
  <2>6. hole' \in BOOLEAN /\ UNCHANGED <<real, tilt, sense, powered>> /\ Open
    BY <1>2 DEF Snapshot
  <2> QED  BY <2>1, <2>5, <2>6, CostsTyped DEF DetInv
<1> QED  BY <1>1, <1>2 DEF Bus

LEMMA TaskTyped ==
  ASSUME DetInv, auto_start \/ tick_playing \/ Operator
  PROVE  DetInv'
<1>1. obs \in Observer /\ Sound(game)
  BY DEF DetInv
<1>2. CASE auto_start \/ force_start
  <2>1. begin_play /\ game.phase = "Setup"
    BY <1>2 DEF auto_start, force_start
  <2>2. obs' \in Observer /\ Sound(game')
    BY <1>1, <2>1, StartSound
  <2>3. UNCHANGED <<world, spent>>
    BY <2>1 DEF begin_play
  <2> QED  BY <2>2, <2>3 DEF DetInv, world
<1>3. CASE tick_playing
  <2>1. obs' \in Observer /\ Sound(game')
    BY <1>1, <1>3, TickSound
  <2>2. UNCHANGED <<world, spent>>
    BY <1>3 DEF tick_playing
  <2> QED  BY <2>1, <2>2 DEF DetInv, world
<1>4. CASE new_game \/ undo \/ \E m \in Moves[game.pos] : move(m)
  <2>1. obs' \in Observer /\ Sound(game')
    BY <1>1, <1>4, NewGameSound, UndoSound, MoveSound
  <2>2. UNCHANGED world /\ Odd
    BY <1>4 DEF new_game, undo, move
  <2> QED  BY <2>1, <2>2, CostsTyped DEF DetInv, world
<1>5. CASE \/ dismiss \/ set_detect \/ resync \/ bind_device
           \/ \E sq \in Suspicious, masked \in BOOLEAN : mask_square(sq, masked)
           \/ \E quarter_turns \in Mounts : rotate_board(quarter_turns)
  <2>1. obs' \in Observer /\ Sound(game')
    BY <1>1, <1>5, CorrectionSound
  <2>2. UNCHANGED world /\ (Open \/ UNCHANGED spent)
    BY <1>5 DEF dismiss, set_detect, resync, bind_device, mask_square, rotate_board
  <2> QED  BY <2>1, <2>2, CostsTyped DEF DetInv, world
<1> QED  BY <1>2, <1>3, <1>4, <1>5 DEF Operator

LEMMA InitTyped == ASSUME Init PROVE DetInv
<1>1. /\ real \in [Squares -> Pieces \cup {Nobody}] /\ tilt \in SUBSET Tilt
      /\ powered \in SUBSET Nodes /\ hole \in BOOLEAN /\ spent \in Nat
  BY DetectionAssumption DEF Init
<1>2. sense \in [Squares -> Occs]
  BY <1>1, ReadingTyped DEF Init
<1>3. sense \in [Squares -> States]
  BY <1>2 DEF States
<1>4. obs \in Observer
  BY <1>2 DEF Init, Observer, Turns
<1>5. /\ <<>> \in Seq(Ply) /\ NoTags \in [Squares -> Pols] /\ NoOffset \in Offset
      /\ NoStreak \in [Squares -> Nat] /\ Deal \in Positions
  BY DetectionAssumption DEF NoTags, Pols, Offset, NoStreak
<1>6. game \in Game /\ game.history = <<>> /\ game.learned = FALSE
  BY <1>5 DEF Init, Game, Phases
<1>7. Sound(game)
  BY <1>6 DEF Sound, Told
<1> QED  BY <1>1, <1>3, <1>4, <1>7 DEF DetInv

LEMMA DetInvStep == DetInv /\ [Next]_vars => DetInv'
<1>1. DetInv /\ UNCHANGED vars => DetInv'
  BY DEF DetInv, vars, world
<1>2. DetInv /\ Next => DetInv'
  BY TaskTyped, PlayersTyped, BusTyped DEF Next
<1> QED  BY <1>1, <1>2

\* Whatever the hands, the sensors, the bus and the operator do, the observer
\* and the game stay what the handlers take them to be.
THEOREM DetectTypeCorrect == Spec => []TypeOK
<1>1. DetInv => TypeOK
  BY DEF DetInv, Sound, TypeOK
<1> QED  BY <1>1, InitTyped, DetInvStep, PTL DEF Spec

\* Fingerprints that were taken from the right pieces describe the pieces of
\* the position they are kept for ever after, through every move, promotion,
\* capture and move taken back, for every set of positions whose moves do to
\* the board what PlayAssumption says.
THEOREM TagsStayTrue == Spec => []TagsFollowPieces
<1>1. DetInv => TagsFollowPieces
  BY DEF DetInv, Sound, Told, TagsFollowPieces
<1> QED  BY <1>1, InitTyped, DetInvStep, PTL DEF Spec

-----------------------------------------------------------------------------
(* What the sensors may commit *)

LEMMA NothingElsewhere == \A sq \in Squares : sq # <<>>
<1>1. \A a, b : <<a, b>> # <<>>
  OBVIOUS
<1> QED  BY <1>1 DEF Squares

\* A settle that lengthens the history commits the move that infer named.
LEMMA SettleCommits ==
  ASSUME NEW o \in Observer, NEW g, Sound(g),
         Len(on_settle(o, g).g.history) > Len(g.history)
  PROVE  LET inf == infer(g.pos, View(o, g))
             s   == on_settle(o, g)
         IN /\ inf.kind = "commit"
            /\ s.g.pos = inf.move.next
            /\ s.g.nudge = NudgeAfter(g, inf.move, inf.offset)
<1> DEFINE inf == infer(g.pos, View(o, g))
           h   == on_inference(o, g, inf)
           s   == on_settle(o, g)
<1>1. Answers(g.pos, inf)
  BY ViewTyped, InferCommits
<1> HIDE DEF inf
<1>2. g \in Game /\ g.history \in Seq(Ply) /\ Len(g.history) \in Nat
  BY DEF Sound, Game
<1>3. Sound(h)
  BY <1>1, InferenceSound
<1>4. s = [o |-> o, g |-> g] \/ \E p \in {o, Reread(o)} : s = update_auto_mask(p, h)
  BY SettleCases DEF inf
<1> HIDE DEF h, s
<1>5. s.g.pos = h.pos /\ s.g.history = h.history /\ s.g.nudge = h.nudge
  <2>1. CASE s = [o |-> o, g |-> g]
    BY <1>2, <2>1 DEF s
  <2>2. ASSUME NEW p \in {o, Reread(o)}, s = update_auto_mask(p, h)
        PROVE  s.g.pos = h.pos /\ s.g.history = h.history /\ s.g.nudge = h.nudge
    <3>1. p \in Observer
      BY ObserverTyped
    <3>2. LET t == update_auto_mask(p, h)
          IN t.g.pos = h.pos /\ t.g.history = h.history /\ t.g.nudge = h.nudge
      BY <1>3, <3>1, MaskSound
    <3> QED  BY <2>2, <3>2
  <2> QED  BY <1>4, <2>1, <2>2
<1>6. Len(h.history) > Len(g.history)
  BY <1>5 DEF s
<1>7. CASE inf.kind = "nochange"
  <2>1. h.history = g.history
    BY <1>2, <1>7 DEF h, on_inference, Game
  <2> QED  BY <1>2, <1>6, <2>1
<1>8. CASE inf.kind \in {"ambiguous", "mismatch"}
  <2>1. h = ask(g, inf.options) /\ inf.options \in SUBSET Moves[g.pos]
    BY <1>1, <1>8 DEF h, on_inference, Answers
  <2>2. h.history = g.history
    BY <2>1, AskSound
  <2> QED  BY <1>2, <1>6, <2>2
<1>9. CASE inf.kind = "commit"
  <2>1. inf.move \in Moves[g.pos] /\ inf.offset \in Offset
    BY <1>1, <1>9 DEF Answers
  <2>2. CASE g.suggest
    <3>1. h = ask(g, {inf.move})
      BY <1>9, <2>2 DEF h, on_inference
    <3>2. h.history = g.history
      BY <2>1, <3>1, AskSound
    <3> QED  BY <1>2, <1>6, <3>2
  <2>3. CASE ~g.suggest
    <3>1. h = commit(o, g, inf.move, inf.offset)
      BY <1>9, <2>3 DEF h, on_inference
    <3>2. h.pos = inf.move.next /\ h.nudge = NudgeAfter(g, inf.move, inf.offset)
      BY <2>1, <3>1, CommitSound
    <3> QED  BY <1>5, <1>9, <3>2 DEF inf, s
  <2> QED  BY <2>2, <2>3
<1> QED  BY <1>1, <1>7, <1>8, <1>9 DEF Answers

LEMMA ArrivalStep ==
  ASSUME DetInv, Calibrated, tick_playing, Len(game'.history) > Len(game.history)
  PROVE  \E m \in Moves[game.pos] :
           m.next = game'.pos /\ m.to \in known(obs) /\ (m.castle \/ Landed(m))
<1> DEFINE o   == [obs EXCEPT !.unread = FALSE]
           inf == infer(game.pos, View(o, game))
           m   == inf.move
           off == inf.offset
<1>1. obs \in Observer /\ Sound(game)
  BY DEF DetInv
<1>2. o \in Observer /\ o.occ = obs.occ /\ known(o) = known(obs)
  BY <1>1, ObserverTyped DEF Observer, known, to_device
<1>3. game' = on_settle(o, game).g
  BY DEF tick_playing
<1> HIDE DEF o
<1>4. /\ inf.kind = "commit" /\ game'.pos = m.next
      /\ game'.nudge = NudgeAfter(game, m, off)
  BY <1>1, <1>2, <1>3, SettleCommits
<1>5. View(o, game) \in Observation /\ game.pos \in Positions
  BY <1>1, <1>2, ViewTyped
<1>6. m \in Moves[game.pos] /\ off \in Offset
  BY <1>4, <1>5, InferCommits DEF Answers
<1>7. /\ m.to \in known(obs)
      /\ \/ m.castle \/ obs.occ[m.to] # "empty"
         \/ off.expected = m.to /\ BesideIt(m, off.actual, View(o, game))
  BY <1>2, <1>4, <1>5, InferArrives DEF View
<1>8. View(o, game).known = known(obs) /\ View(o, game).occ = obs.occ
  BY <1>2 DEF View
<1> HIDE DEF m, off
<1>9. CASE off.expected = m.to /\ BesideIt(m, off.actual, View(o, game))
  <2>1. m.to # <<>>
    BY <1>7, NothingElsewhere DEF known
  <2>2. game'.nudge = off
    BY <1>4, <1>9, <2>1 DEF NudgeAfter, NoOffset
  <2>3. Landed(m)
    BY <1>8, <1>9, <2>2 DEF Landed, BesideIt
  <2> QED  BY <1>4, <1>6, <1>7, <2>3
<1> QED  BY <1>4, <1>6, <1>7, <1>9 DEF Landed

\* With weights that move together, as the shipped ones do, and on every board,
\* set of positions and sequence of touches, faults and events: the sensors
\* commit a move only by castling or onto a square that is believed, and that
\* shows a piece or has one next door that belongs nowhere.  Nothing is said of
\* which piece shows there.
THEOREM OnlyArrivalsCommit == ASSUME Calibrated PROVE Spec => CommitsOnlyArrivals
<1>1. DetInv /\ [Next]_vars =>
        [Len(game'.history) > Len(game.history) /\ tick_playing =>
           \E m \in Moves[game.pos] :
             m.next = game'.pos /\ m.to \in known(obs) /\ (m.castle \/ Landed(m))]_vars
  BY ArrivalStep
<1> QED  BY <1>1, InitTyped, DetInvStep, PTL DEF Spec, CommitsOnlyArrivals

-----------------------------------------------------------------------------
(* A clean move is read as itself *)

\* The board shows the position after m, and infer looks at all of it.
Shown(pos, m, ob) ==
  /\ ob.known = Squares
  /\ \A sq \in Squares : ob.occ[sq] = Reading(At[m.next][sq])

LEMMA ShownOccupied ==
  ASSUME NEW pos \in Positions, NEW m \in Moves[pos], NEW ob \in Observation,
         Shown(pos, m, ob)
  PROVE  occupied(ob) = occupancy(m.next)
<1>1. m.next \in Positions
  BY ChessAssumption DEF Move
<1>2. ASSUME NEW sq \in Squares PROVE (ob.occ[sq] # "empty") <=> (At[m.next][sq] # Nobody)
  <2>1. At[m.next][sq] \in Pieces \cup {Nobody}
    BY <1>1, ChessAssumption
  <2>2. At[m.next][sq] \in Pieces => Polarity[At[m.next][sq]] # "empty"
    BY DetectionAssumption
  <2> QED  BY <2>1, <2>2, ChessAssumption DEF Shown, Reading
<1> QED  BY <1>2 DEF occupied, occupancy, Shown

\* The move fits, and of those that fit with it none goes to the same square.
LEMMA ShownFits ==
  ASSUME NEW pos \in Positions, NEW m \in Moves[pos], NEW ob \in Observation,
         Shown(pos, m, ob), m.promotion \in {"none", "queen"}
  PROVE  /\ ~agrees(occupancy(pos), ob)
         /\ m \in reduced(Exact(pos, ob))
         /\ \A n \in reduced(Exact(pos, ob)) \ {m} :
              /\ ~m.castle /\ n.from = m.from /\ n.to # m.to
              /\ m.to \in occupancy(pos)
<1> DEFINE exact == Exact(pos, ob)
<1>1. occupied(ob) = occupancy(m.next)
  BY ShownOccupied
<1>2. \A q \in Positions : occupancy(q) \cap ob.known = occupancy(q)
  BY DEF occupancy, Shown
<1>3. \A n \in Moves[pos] : n \in Move /\ n.next \in Positions /\ n.to \in ob.known
  BY ChessAssumption DEF Move, Shown
<1>4. ~agrees(occupancy(pos), ob)
  BY <1>1, <1>2, CollisionAssumption DEF agrees
<1>5. m \in exact
  BY <1>1, <1>2, <1>3 DEF Exact, agrees, arrival_is_visible
<1>6. ASSUME NEW n \in exact, n # m
      PROVE  /\ ~m.castle /\ n.from = m.from
             /\ n.to = m.to => m.promotion # "none" /\ m.promotion # n.promotion
             /\ n.to # m.to => m.to \in occupancy(pos)
  <2>1. n \in Moves[pos] /\ occupancy(m.next) = occupancy(n.next)
    BY <1>1, <1>2, <1>3, <1>6 DEF Exact, agrees
  <2>2. n \in Moves[pos] \ {m}
    BY <1>6, <2>1
  <2> QED  BY <2>1, <2>2, CollisionAssumption
<1> HIDE DEF exact
<1>7. m \in reduced(exact)
  BY <1>5, <1>6 DEF reduced
<1>8. ASSUME NEW n \in reduced(exact), n # m
      PROVE  /\ ~m.castle /\ n.from = m.from /\ n.to # m.to
             /\ m.to \in occupancy(pos)
  <2>1. n \in exact
    BY DEF reduced
  <2>2. ASSUME n.to = m.to PROVE FALSE
    <3>1. m.promotion = "queen" /\ n.promotion # "queen" /\ n.from = m.from
      BY <1>6, <1>8, <2>1, <2>2
    <3> QED  BY <1>5, <2>2, <3>1 DEF reduced
  <2> QED  BY <1>6, <1>8, <2>1, <2>2
<1> QED  BY <1>4, <1>7, <1>8 DEF exact

\* The piece that went there reads as the one that left.
LEMMA ShownFingerprint ==
  ASSUME NEW pos \in Positions, NEW m \in Moves[pos], NEW ob \in Observation,
         Shown(pos, m, ob), TagOf(pos, ob.pol_tag),
         m.promotion = "none", ~m.castle, ob.pol_tag[m.from] # "none"
  PROVE  fingerprint(m, ob)
<1>1. m.from \in Squares /\ m.to \in Squares
  BY ChessAssumption DEF Move
<1>2. m.from \in occupancy(pos) /\ <<m.from, m.to>> \in m.shift
  BY <1>1, PlayAssumption
<1>3. At[m.next][m.to] = At[pos][m.from]
  BY <1>1, <1>2, Arrived
<1>4. ob.pol_tag[m.from] = Reading(At[pos][m.from])
  BY <1>2 DEF TagOf
<1>5. ob.occ[m.to] = ob.pol_tag[m.from]
  BY <1>1, <1>3, <1>4 DEF Shown
<1>6. ob.occ[m.to] # "empty"
  <2>1. m.to \in occupied(ob)
    <3>1. m.to \in occupancy(m.next)
      BY <1>1, PlayAssumption
    <3> QED  BY <3>1, ShownOccupied
  <2> QED  BY <2>1 DEF occupied
<1> QED  BY <1>1, <1>5, <1>6 DEF fingerprint, polarity, Shown

LEMMA ShownRead ==
  ASSUME NEW pos \in Positions, NEW m \in Moves[pos], NEW ob \in Observation,
         Shown(pos, m, ob), TagOf(pos, ob.pol_tag),
         m.promotion \in {"none", "queen"},
         m.to \in occupancy(pos) => m.to \in ob.journal,
         m.promotion # "none" =>
           \A n \in Moves[pos] : n.from = m.from /\ n.to \in ob.journal => n.to = m.to
  PROVE  \/ infer(pos, ob) = Certainly(m)
         \/ \E options \in SUBSET Moves[pos] :
              m \in options /\ infer(pos, ob) = Ambiguous(options)
<1> DEFINE fits       == reduced(Exact(pos, ob))
           journalled == {n \in fits : n.to \in ob.known \cap ob.journal}
           confirmed  == {n \in fits : fingerprint(n, ob)}
<1>1. /\ ~agrees(occupancy(pos), ob)
      /\ m \in fits
      /\ \A n \in fits \ {m} :
           /\ ~m.castle /\ n.from = m.from /\ n.to # m.to
           /\ m.to \in occupancy(pos)
  BY ShownFits
<1>2. fits \subseteq Exact(pos, ob) /\ Exact(pos, ob) \subseteq Moves[pos]
  BY DEF reduced, Exact
<1>3. infer(pos, ob) = tier2(Exact(pos, ob), ob)
  BY <1>1, <1>2, InferCases
<1>4. \A n \in Moves[pos] : n.to \in ob.known
  BY ChessAssumption DEF Shown, Move
<1>5. \/ \E x : /\ \/ fits = {x} \/ journalled = {x}
                   \/ confirmed = {x} /\ ~\E n \in journalled : journalled = {n}
                /\ infer(pos, ob) = Certainly(x)
      \/ infer(pos, ob) = Ambiguous(fits)
  BY <1>3, TierTwo
<1> HIDE DEF fits
<1>6. ASSUME NEW x, infer(pos, ob) = Certainly(x),
             \/ fits = {x} \/ journalled = {x}
             \/ confirmed = {x} /\ ~\E n \in journalled : journalled = {n}
      PROVE  x = m
  <2>1. SUFFICES ASSUME x # m PROVE FALSE
    OBVIOUS
  <2>2. CASE fits = {x}
    BY <1>1, <2>1, <2>2
  <2>3. x \in fits
    BY <1>6
  <2>4. ~m.castle /\ x.from = m.from /\ m.to \in ob.journal /\ m \in journalled
    BY <1>1, <1>2, <1>4, <2>1, <2>3
  <2>5. CASE journalled = {x}
    BY <2>1, <2>4, <2>5
  <2>6. CASE confirmed = {x} /\ ~\E n \in journalled : journalled = {n}
    <3>1. CASE m.promotion = "none"
      <4>1. fingerprint(x, ob)
        BY <2>6
      <4>2. ob.pol_tag[m.from] # "none"
        BY <2>4, <4>1 DEF fingerprint
      <4>3. m \in confirmed
        BY <1>1, <2>4, <3>1, <4>2, ShownFingerprint
      <4> QED  BY <2>1, <2>6, <4>3
    <3>2. CASE m.promotion = "queen"
      <4>1. \A n \in journalled : n = m
        BY <1>1, <1>2, <3>2
      <4> QED  BY <2>4, <2>6, <4>1
    <3> QED  BY <3>1, <3>2
  <2> QED  BY <1>6, <2>2, <2>5, <2>6
<1> HIDE DEF journalled, confirmed
<1> QED  BY <1>1, <1>2, <1>5, <1>6

LEMMA CleanStep ==
  ASSUME DetInv, NEW m \in Moves[game.pos], Witnessed(m), Alone(m), tick_playing
  PROVE  Read(m)
<1> DEFINE o   == [obs EXCEPT !.unread = FALSE]
           ob  == View(o, game)
           inf == infer(game.pos, ob)
           h   == on_inference(o, game, inf)
<1>1. obs \in Observer /\ Sound(game)
  BY DEF DetInv
<1>2. o \in Observer /\ o.occ = obs.occ /\ known(o) = known(obs) /\ o.journal = obs.journal
  BY <1>1, ObserverTyped DEF Observer, known, to_device
<1>3. game' = on_settle(o, game).g
  BY DEF tick_playing
<1> HIDE DEF o
<1>4. ob \in Observation /\ game.pos \in Positions
  BY <1>1, <1>2, ViewTyped
<1>5. /\ ob.known = known(obs) /\ ob.occ = obs.occ /\ ob.journal = obs.journal
      /\ ob.pol_tag = game.pol_tag
  BY <1>2 DEF View
<1> HIDE DEF ob
<1>6. Shown(game.pos, m, ob) /\ TagOf(game.pos, ob.pol_tag)
  BY <1>1, <1>5 DEF Witnessed, Shows, Shown, Sound, Told
<1>7. /\ m.promotion \in {"none", "queen"}
      /\ m.to \in occupancy(game.pos) => m.to \in ob.journal
      /\ m.promotion # "none" =>
           \A n \in Moves[game.pos] : n.from = m.from /\ n.to \in ob.journal => n.to = m.to
  BY <1>5 DEF Witnessed, Alone
<1>8. \/ inf = Certainly(m)
      \/ \E options \in SUBSET Moves[game.pos] : m \in options /\ inf = Ambiguous(options)
  BY <1>4, <1>6, <1>7, ShownRead
<1> HIDE DEF inf
<1>9. Sound(h) /\ (h.pos = m.next \/ (h.phase = "AwaitingChoice" /\ m \in h.choice))
  <2>1. CASE inf = Certainly(m)
    <3>1. inf.kind = "commit" /\ inf.move = m /\ inf.offset = NoOffset /\ NoOffset \in Offset
      BY <2>1 DEF Certainly, Offset
    <3>2. CASE game.suggest
      <4>1. h = ask(game, {m})
        BY <3>1, <3>2 DEF on_inference
      <4> QED  BY <1>1, <4>1, AskSound
    <3>3. CASE ~game.suggest
      <4>1. h = commit(o, game, m, NoOffset)
        BY <3>1, <3>3 DEF on_inference
      <4> QED  BY <1>1, <1>2, <3>1, <4>1, CommitSound
    <3> QED  BY <3>2, <3>3
  <2>2. ASSUME NEW options \in SUBSET Moves[game.pos], m \in options, inf = Ambiguous(options)
        PROVE  Sound(h) /\ h.phase = "AwaitingChoice" /\ m \in h.choice
    <3>1. inf.kind = "ambiguous" /\ inf.options = options
      BY <2>2 DEF Ambiguous
    <3>2. h = ask(game, options)
      BY <3>1 DEF on_inference
    <3> QED  BY <1>1, <2>2, <3>2, AskSound
  <2> QED  BY <1>8, <2>1, <2>2
<1>10. \E p \in {o, Reread(o)} : game' = update_auto_mask(p, h).g
  <2>1. ~Explained(game, inf)
    BY <1>8 DEF Explained, Certainly, Ambiguous
  <2>2. \E p \in {o, Reread(o)} : on_settle(o, game) = update_auto_mask(p, h)
    BY <1>1, <1>2, <2>1, SettleCases DEF inf, ob
  <2> QED  BY <1>3, <2>2
<1> HIDE DEF h
<1>11. PICK p \in {o, Reread(o)} : game' = update_auto_mask(p, h).g
  BY <1>10
<1>12. p \in Observer
  BY <1>2, ObserverTyped
<1>13. game'.pos = h.pos /\ game'.phase = h.phase /\ game'.choice = h.choice
  BY <1>9, <1>11, <1>12, MaskSound
<1> QED  BY <1>9, <1>13 DEF Read

\* On a board that is wholly believed and shows the position after a legal
\* move, the victim seen to leave and the fingerprints taken from the right
\* pieces, the settle commits that move or asks about it; of promotions, when
\* no other square the pawn could go to was touched.
THEOREM CleanMovesAreRead == Spec => CleanMoveIsRead
<1>1. DetInv /\ [Next]_vars =>
        [\A m \in Moves[game.pos] :
           Witnessed(m) /\ Alone(m) /\ tick_playing => Read(m)]_vars
  BY CleanStep
<1> QED  BY <1>1, InitTyped, DetInvStep, PTL DEF Spec, CleanMoveIsRead

-----------------------------------------------------------------------------
\* The record.  What the task does leaves it as it is (Still), or lengthens it by
\* a legal move, shortens it by one, or starts it anew.
Still(g, h) == h.history = g.history /\ h.pos = g.pos

LEMMA RecordType ==
  ASSUME NEW g \in Game
  PROVE  LET r == RecordOf(g) IN
         /\ r \in Seq(Positions) /\ Len(r) = Len(g.history) + 1
         /\ r[Len(g.history) + 1] = g.pos
         /\ \A i \in 1..Len(g.history) : r[i] = g.history[i].pos
<1> DEFINE f == [i \in DOMAIN g.history |-> g.history[i].pos]
<1>1. /\ g.history \in Seq(Ply) /\ g.pos \in Positions
      /\ Len(g.history) \in Nat /\ DOMAIN g.history = 1..Len(g.history)
  BY DEF Game
<1>2. ASSUME NEW i \in 1..Len(g.history) PROVE g.history[i].pos \in Positions
  <2>1. g.history[i] \in Ply
    BY <1>1, ElementOfSeq
  <2> QED  BY <2>1 DEF Ply
<1>3. /\ f \in Seq(Positions) /\ Len(f) = Len(g.history)
      /\ \A i \in 1..Len(g.history) : f[i] = g.history[i].pos
  BY <1>1, <1>2, IsASeq, LenProperties
<1>4. RecordOf(g) = Append(f, g.pos)
  BY DEF RecordOf
<1> HIDE DEF f
<1> QED
  BY <1>1, <1>3, <1>4, AppendProperties

LEMMA RecordStands ==
  ASSUME NEW g, NEW h, Still(g, h)
  PROVE  RecordOf(h) = RecordOf(g)
BY DEF Still, RecordOf

LEMMA RecordGrows ==
  ASSUME NEW g \in Game, NEW h \in Game, NEW ply \in Ply,
         h.history = Append(g.history, ply), ply.pos = g.pos
  PROVE  RecordOf(h) = Append(RecordOf(g), h.pos)
<1> DEFINE n == Len(g.history)
           s == RecordOf(g)
           r == RecordOf(h)
<1>1. g.history \in Seq(Ply) /\ n \in Nat /\ h.pos \in Positions
  BY DEF Game
<1>2. /\ Len(h.history) = n + 1 /\ h.history[n + 1] = ply
      /\ \A i \in 1..n : h.history[i] = g.history[i]
  BY <1>1, AppendProperties
<1>3. /\ s \in Seq(Positions) /\ Len(s) = n + 1 /\ s[n + 1] = g.pos
      /\ \A i \in 1..n : s[i] = g.history[i].pos
  BY RecordType
<1>4. /\ r \in Seq(Positions) /\ Len(r) = n + 2 /\ r[n + 2] = h.pos
      /\ \A i \in 1..(n + 1) : r[i] = h.history[i].pos
  <2>1. /\ r \in Seq(Positions) /\ Len(r) = Len(h.history) + 1
        /\ r[Len(h.history) + 1] = h.pos
        /\ \A i \in 1..Len(h.history) : r[i] = h.history[i].pos
    BY RecordType
  <2>2. Len(h.history) = n + 1 /\ Len(h.history) + 1 = n + 2
    BY <1>1, <1>2
  <2> HIDE DEF r, n
  <2> QED  BY <2>1, <2>2
<1> DEFINE t == Append(s, h.pos)
<1>5. /\ t \in Seq(Positions) /\ Len(t) = n + 2 /\ t[n + 2] = h.pos
      /\ \A i \in 1..(n + 1) : t[i] = s[i]
  BY <1>1, <1>3, AppendProperties
<1> HIDE DEF n, s, r, t
<1>6. ASSUME NEW i \in 1..(n + 2) PROVE r[i] = t[i]
  <2>1. CASE i = n + 2
    BY <1>4, <1>5, <2>1
  <2>2. CASE i = n + 1
    BY <1>1, <1>2, <1>3, <1>4, <1>5, <2>2
  <2>3. CASE i \in 1..n
    BY <1>1, <1>2, <1>3, <1>4, <1>5, <2>3
  <2> QED
    BY <1>1, <2>1, <2>2, <2>3
<1>7. r = t
  BY <1>4, <1>5, <1>6, SeqEqual
<1> QED
  BY <1>7 DEF r, s, t

LEMMA RecordShrinks ==
  ASSUME NEW g \in Game, NEW h \in Game, g.history # <<>>,
         h.history = SubSeq(g.history, 1, Len(g.history) - 1),
         h.pos = g.history[Len(g.history)].pos
  PROVE  /\ Len(RecordOf(g)) > 1
         /\ RecordOf(h) = SubSeq(RecordOf(g), 1, Len(RecordOf(g)) - 1)
<1> DEFINE n == Len(g.history)
           s == RecordOf(g)
           r == RecordOf(h)
           t == SubSeq(s, 1, n)
<1>1. g.history \in Seq(Ply) /\ n \in Nat /\ n > 0
  BY DEF Game
<1>2. /\ Len(h.history) = n - 1
      /\ \A i \in 1..(n - 1) : h.history[i] = g.history[i]
  BY <1>1, SubSeqProperties
<1>3. /\ s \in Seq(Positions) /\ Len(s) = n + 1
      /\ \A i \in 1..n : s[i] = g.history[i].pos
  BY RecordType
<1>4. /\ r \in Seq(Positions) /\ Len(r) = n /\ r[n] = h.pos
      /\ \A i \in 1..(n - 1) : r[i] = h.history[i].pos
  <2>1. /\ r \in Seq(Positions) /\ Len(r) = Len(h.history) + 1
        /\ r[Len(h.history) + 1] = h.pos
        /\ \A i \in 1..Len(h.history) : r[i] = h.history[i].pos
    BY RecordType
  <2>2. Len(h.history) = n - 1 /\ Len(h.history) + 1 = n
    BY <1>1, <1>2
  <2> HIDE DEF r, n
  <2> QED  BY <2>1, <2>2
<1>5. t \in Seq(Positions) /\ Len(t) = n /\ \A i \in 1..n : t[i] = s[i]
  BY <1>1, <1>3, SubSeqProperties
<1>6. Len(s) > 1 /\ Len(s) - 1 = n
  BY <1>1, <1>3
<1> HIDE DEF s, r, t
<1>7. ASSUME NEW i \in 1..n PROVE r[i] = t[i]
  BY <1>1, <1>2, <1>3, <1>4, <1>5
<1>8. r = t
  BY <1>4, <1>5, <1>7, SeqEqual
<1> QED
  BY <1>6, <1>8 DEF r, s, t

LEMMA RecordStarts ==
  ASSUME NEW g, g.history = <<>>
  PROVE  RecordOf(g) = <<g.pos>>
BY DEF RecordOf

\* The sensors play one legal move at most.
OneMore(g, h) ==
  RecordOf(h) = RecordOf(g) \/ RecordOf(h) \in Record!Longer(RecordOf(g))

LEMMA MoveGrows ==
  ASSUME NEW g \in Game, NEW h \in Game, NEW m \in Moves[g.pos],
         RecordOf(h) = Append(RecordOf(g), m.next)
  PROVE  RecordOf(h) \in Record!Longer(RecordOf(g))
<1>1. Record!Now(RecordOf(g)) = g.pos /\ g.pos \in Positions
  BY RecordType DEF Record!Now, Game
<1>2. m.next \in Successors[g.pos]
  BY <1>1 DEF Successors
<1> QED  BY <1>1, <1>2 DEF Record!Longer

LEMMA CommitGrows ==
  ASSUME NEW g, Sound(g), NEW o \in Observer, NEW m \in Moves[g.pos], NEW off \in Offset
  PROVE  RecordOf(commit(o, g, m, off)) \in Record!Longer(RecordOf(g))
<1> DEFINE ply == [pos |-> g.pos, pol_tag |-> g.pol_tag]
           h == commit(o, g, m, off)
<1>1. g \in Game /\ h \in Game /\ h.pos = m.next
  BY CommitSound DEF Sound
<1>2. h.history = Append(g.history, ply)
  BY <1>1 DEF commit, Game
<1>3. ply \in Ply /\ ply.pos = g.pos
  BY <1>1 DEF Game, Ply
<1> HIDE DEF h, ply
<1>4. RecordOf(h) = Append(RecordOf(g), m.next)
  BY <1>1, <1>2, <1>3, RecordGrows
<1> QED  BY <1>1, <1>4, MoveGrows DEF h

LEMMA SettleIsOneMore ==
  ASSUME NEW o \in Observer, NEW g, Sound(g)
  PROVE  OneMore(g, on_settle(o, g).g)
<1> DEFINE inf == infer(g.pos, View(o, g))
           h   == on_inference(o, g, inf)
           s   == on_settle(o, g)
<1>1. Answers(g.pos, inf) /\ g \in Game
  BY ViewTyped, InferCommits DEF Sound
<1> HIDE DEF inf
<1>2. Sound(h)
  BY <1>1, InferenceSound
<1>3. OneMore(g, h)
  <2>1. CASE inf.kind = "nochange"
    <3>1. Still(g, h)
      BY <1>1, <2>1 DEF h, on_inference, Still, Game
    <3> QED  BY <3>1, RecordStands DEF OneMore
  <2>2. CASE inf.kind \in {"ambiguous", "mismatch"}
    <3>1. Still(g, h)
      BY <1>1, <2>2 DEF h, on_inference, ask, Still, Game
    <3> QED  BY <3>1, RecordStands DEF OneMore
  <2>3. CASE inf.kind = "commit"
    <3>1. inf.move \in Moves[g.pos] /\ inf.offset \in Offset
      BY <1>1, <2>3 DEF Answers
    <3>2. Still(g, ask(g, {inf.move}))
      BY <1>1 DEF ask, Still, Game
    <3>3. RecordOf(commit(o, g, inf.move, inf.offset)) \in Record!Longer(RecordOf(g))
      BY <3>1, CommitGrows
    <3>4. h \in {ask(g, {inf.move}), commit(o, g, inf.move, inf.offset)}
      BY <2>3 DEF h, on_inference
    <3> HIDE DEF h
    <3> QED  BY <3>2, <3>3, <3>4, RecordStands DEF OneMore
  <2> QED  BY <1>1, <2>1, <2>2, <2>3 DEF Answers
<1>4. s = [o |-> o, g |-> g] \/ \E p \in {o, Reread(o)} : s = update_auto_mask(p, h)
  BY SettleCases DEF inf
<1> HIDE DEF h, s
<1>5. CASE s = [o |-> o, g |-> g]
  BY <1>5 DEF OneMore, s
<1>6. ASSUME NEW p \in {o, Reread(o)}, s = update_auto_mask(p, h)
      PROVE  OneMore(g, s.g)
  <2>1. p \in Observer
    BY ObserverTyped
  <2>2. Still(h, s.g)
    BY <1>2, <1>6, <2>1, MaskSound DEF Still
  <2> QED  BY <1>3, <2>2, RecordStands DEF OneMore
<1> QED  BY <1>4, <1>5, <1>6 DEF s

LEMMA OperatorRecords ==
  ASSUME DetInv, Operator
  PROVE  [Record!Next]_<<RecordOf(game), {}>>
<1>1. game \in Game /\ obs \in Observer /\ Sound(game)
  BY DEF DetInv, Sound
<1>2. CASE new_game
  <2>1. game'.history = <<>> /\ game'.pos = Deal
    BY <1>1, <1>2 DEF new_game, Game
  <2> QED  BY <2>1, RecordStarts DEF Record!Next, Record!Start
<1>3. CASE undo
  <2>1. /\ game.history # <<>>
        /\ game'.history = SubSeq(game.history, 1, Len(game.history) - 1)
        /\ game'.pos = game.history[Len(game.history)].pos
    BY <1>1, <1>3 DEF undo, Game
  <2>2. game' \in Game
    BY <1>1, <1>3, UndoSound DEF Sound
  <2>3. /\ Len(RecordOf(game)) > 1
        /\ RecordOf(game') = SubSeq(RecordOf(game), 1, Len(RecordOf(game)) - 1)
    BY <1>1, <2>1, <2>2, RecordShrinks
  <2> QED  BY <2>3 DEF Record!Next, Record!TakeBack
<1>4. ASSUME NEW m \in Moves[game.pos], move(m)
      PROVE  [Record!Next]_<<RecordOf(game), {}>>
  <2>1. NoOffset \in Offset /\ game' = commit(obs, game, m, NoOffset)
    BY <1>4 DEF Offset, move
  <2>2. RecordOf(game') \in Record!Longer(RecordOf(game))
    BY <1>1, <2>1, CommitGrows
  <2> QED  BY <2>2 DEF Record!Next, Record!Play
<1>5. CASE \/ force_start \/ dismiss \/ set_detect \/ resync \/ bind_device
           \/ \E sq \in Suspicious, masked \in BOOLEAN : mask_square(sq, masked)
           \/ \E quarter_turns \in Mounts : rotate_board(quarter_turns)
  <2>1. Still(game, game')
    BY <1>1, <1>5 DEF force_start, begin_play, dismiss, set_detect, resync,
       bind_device, mask_square, rotate_board, Still, Game
  <2> QED  BY <2>1, RecordStands
<1> QED  BY <1>2, <1>3, <1>4, <1>5 DEF Operator

LEMMA RecordStep ==
  ASSUME DetInv, [Next]_vars
  PROVE  [Record!Next]_<<RecordOf(game), {}>>
<1>1. game \in Game /\ obs \in Observer /\ Sound(game)
  BY DEF DetInv, Sound
<1>2. CASE Operator
  BY <1>2, OperatorRecords
<1>3. CASE tick_playing
  <2> DEFINE o == [obs EXCEPT !.unread = FALSE]
  <2>1. o \in Observer
    BY <1>1, ObserverTyped DEF Observer
  <2>2. game' = on_settle(o, game).g
    BY <1>3 DEF tick_playing
  <2> HIDE DEF o
  <2>3. OneMore(game, game')
    BY <1>1, <2>1, <2>2, SettleIsOneMore
  <2> QED  BY <2>3 DEF OneMore, Record!Next, Record!Play
<1>4. CASE auto_start \/ Players \/ Bus \/ UNCHANGED vars
  <2>1. \A o : Heard(o) \/ Lost => Still(game, game')
    BY <1>1 DEF Heard, Lost, Still, Game
  <2>2. \A sq, state, lost : Reports(sq, state, lost) => Still(game, game')
    BY <2>1 DEF Reports, Still
  <2>3. Players => Still(game, game')
    BY <2>2 DEF Players, Lift, Resolve, Put, PutTilted
  <2>4. Bus => Still(game, game')
    BY <1>1, <2>1 DEF Bus, Snapshot, Drops, Returns, Still, Game
  <2>5. auto_start \/ UNCHANGED vars => Still(game, game')
    BY <1>1 DEF auto_start, begin_play, vars, Still, Game
  <2> QED  BY <1>4, <2>3, <2>4, <2>5, RecordStands
<1> QED  BY <1>2, <1>3, <1>4 DEF Next

\* For every board, chess, weights and sequence of touches, faults and
\* corrections: what the sensors and the operator make of a game is the record
\* of GameRecord, changed by deals, legal moves and undos only.
THEOREM DetectionIsARecord == Spec => ImplementsGameRecord
<1>1. Init => Record!Init
  <2> SUFFICES ASSUME Init PROVE Record!Init
    OBVIOUS
  <2>1. game.history = <<>> /\ game.pos = Deal
    BY DEF Init
  <2> QED  BY <2>1, RecordStarts DEF Record!Init
<1>2. DetInv /\ [Next]_vars => [Record!Next]_<<RecordOf(game), {}>>
  BY RecordStep
<1> QED  BY <1>1, <1>2, InitTyped, DetInvStep, PTL DEF Spec, ImplementsGameRecord, Record!Spec
=============================================================================
