------------------------------ MODULE Observe ------------------------------
(***************************************************************************)
(* The board observer (server/src/game/observe.rs): which squares hold a   *)
(* piece right now, and which squares may be believed.                     *)
(*                                                                         *)
(* A square is a rank and a file, on a board of any even side; device and  *)
(* game squares differ by the rotation of the mounting.  An observer is a  *)
(* record and each method an operator to its next value.  last_change_ms   *)
(* is read in two ways, "is it what it was when we last inferred" (unread) *)
(* and "was it long ago", which is up to the clock of whoever asks.        *)
(* rejoined, which only the painter drains, is in module Painter.          *)
(***************************************************************************)
EXTENDS Integers, FiniteSets

CONSTANT Half  \* half the side of the board, the side of a quadrant (4)

ASSUME HalfAssumption == Half \in Nat \ {0}

Edge    == 2 * Half - 1
Squares == (0..Edge) \X (0..Edge)
Nodes   == {0, 1} \X {0, 1}
Turns   == 0..3
Occs    == {"empty", "pos", "neg"}
Pols    == {"none", "pos", "neg"}
States  == Occs \cup {"uncertain"}  \* what the sensors say of a square

polarity(occ) == IF occ = "empty" THEN "none" ELSE occ

\* Clockwise quarter turns of the whole board.
rotate(sq, quarter_turns) ==
  CASE quarter_turns = 0 -> sq
    [] quarter_turns = 1 -> <<sq[2], Edge - sq[1]>>
    [] quarter_turns = 2 -> <<Edge - sq[1], Edge - sq[2]>>
    [] OTHER -> <<Edge - sq[2], sq[1]>>

node_of_device_square(sq) ==
  <<IF sq[1] < Half THEN 0 ELSE 1, IF sq[2] < Half THEN 0 ELSE 1>>

neighbours(sq) ==
  {<<sq[1] - 1, sq[2]>>, <<sq[1] + 1, sq[2]>>,
   <<sq[1], sq[2] - 1>>, <<sq[1], sq[2] + 1>>} \cap Squares

Observer == [occ : [Squares -> Occs], wobble : SUBSET Squares,
             masked : SUBSET Squares, online : SUBSET Nodes,
             journal : SUBSET Squares, rotation : Turns,
             have_snapshot : BOOLEAN, unread : BOOLEAN]

to_device(o, sq) == rotate(sq, (4 - o.rotation) % 4)
to_game(o, sq)   == rotate(sq, o.rotation)

known(o) == {sq \in Squares \ o.masked :
               node_of_device_square(to_device(o, sq)) \in o.online}

\* settled, but for the settle window itself.
steady(o) == o.have_snapshot /\ o.wobble \cap known(o) = {}

clear_journal(o) == [o EXCEPT !.journal = {}]

reset_board(o) ==
  [o EXCEPT !.occ = [sq \in Squares |-> "empty"], !.wobble = {},
            !.journal = {}, !.have_snapshot = FALSE]

\* Occupancy, wobble and masks turn with the mounting; the journal does not.
set_rotation(o, quarter_turns) ==
  LET delta == (quarter_turns + 4 - o.rotation) % 4
      src(sq) == rotate(sq, (4 - delta) % 4)
  IN [o EXCEPT
       !.rotation = quarter_turns,
       !.occ      = [sq \in Squares |-> @[src(sq)]],
       !.wobble   = {sq \in Squares : src(sq) \in @},
       !.masked   = {sq \in Squares : src(sq) \in @}]

\* board.snapshot: board is in device squares; "uncertain" is how an invalid
\* square of an online quadrant reads.
apply_snapshot(o, board, online) ==
  LET now(sq)  == board[to_device(o, sq)]
      heard    == {sq \in Squares :
                     node_of_device_square(to_device(o, sq)) \in online}
      lifted   == {sq \in heard : now(sq) = "uncertain"}
      definite == heard \ lifted
      believed == heard \ o.masked
      emptied  == {sq \in definite : o.occ[sq] # "empty" /\ now(sq) = "empty"}
      changed  == (lifted \ o.wobble)
                  \cup {sq \in definite : o.occ[sq] # now(sq) \/ sq \in o.wobble}
  IN [o EXCEPT
       !.online  = online,
       !.occ     = [sq \in Squares |-> IF sq \in definite THEN now(sq) ELSE @[sq]],
       !.wobble  = (@ \ definite) \cup lifted,
       !.journal = @ \cup (believed \cap (lifted \cup emptied)),
       !.have_snapshot = TRUE,
       !.unread  = @ \/ ~o.have_snapshot \/ changed \cap believed # {}]

\* sensor.changed: an uncertain square keeps its occupancy.
apply_sensor_changed(o, square, state) ==
  LET sq  == to_game(o, square)
      occ == [o.occ EXCEPT ![sq] = IF state = "uncertain" THEN @ ELSE state]
      wob == IF state = "uncertain" THEN o.wobble \cup {sq} ELSE o.wobble \ {sq}
      believed == sq \in known(o)
  IN [o EXCEPT
       !.occ = occ, !.wobble = wob,
       !.journal = IF believed /\ state \in {"empty", "uncertain"}
                   THEN @ \cup {sq} ELSE @,
       !.unread  = @ \/ (believed /\ <<occ, wob>> # <<o.occ, o.wobble>>)]

apply_node_status(o, node, online) ==
  [o EXCEPT !.online = IF online THEN @ \cup {node} ELSE @ \ {node},
            !.unread = @ \/ (node \in o.online) # online]
=============================================================================
