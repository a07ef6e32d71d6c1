----------------------------- MODULE Detection -----------------------------
(***************************************************************************)
(* Move detection: the pieces on the real board, the sensors' events, and  *)
(* what the game task (server/src/game/mod.rs) commits, asks and masks     *)
(* because of them.                                                        *)
(*                                                                         *)
(* Players lift and put down pieces in any order.  A sensor reports what   *)
(* it reads; a report may be lost, and the next one heard then shows the   *)
(* gap.  Module GameTask has the rest of the task (evaluations, verdict,   *)
(* files): here a game that is decided is over, and the settle window has  *)
(* passed whenever a tick looks at a board that is not wobbling.           *)
(***************************************************************************)
EXTENDS Infer, Sequences

CONSTANTS
  Deal,           \* the position a new game is dealt
  Polarity,       \* piece -> the polarity of its magnet
  AutoMaskStreak, \* tun.auto_mask_streak
  Tolerance,      \* tun.unknown_tolerance
  MaxPly,         \* rules.max_ply
  Scenes,         \* how the pieces may stand as the game is dealt
  Mounts,         \* rotations the operator tries
  Suspicious,     \* squares the operator masks and unmasks
  Flaky,          \* quadrants that may drop off the bus
  MaxEffort       \* bound on spent

ASSUME DetectionAssumption ==
  /\ Deal \in Positions
  /\ Polarity \in [Pieces -> {"pos", "neg"}]
  /\ AutoMaskStreak \in Nat \ {0} /\ MaxPly \in Nat \ {0}
  /\ Tolerance \in Nat
  /\ Scenes \subseteq [Squares -> Pieces \cup {Nobody}]
  /\ Mounts \subseteq Turns /\ Suspicious \subseteq Squares
  /\ Flaky \subseteq Nodes
  /\ MaxEffort \in Nat

VARIABLES
  real,    \* the pieces as they stand, in device squares
  tilt,    \* the piece put down off centre or upside down, if any
  sense,   \* what each sensor reads
  powered, \* the quadrants the bus reaches
  hole,    \* an event was lost since the last one heard
  obs,     \* the task's Observer
  game,    \* the task's Game, as far as detection goes
  spent    \* the effort of the steps so far

world == <<real, tilt, sense, powered, hole>>
vars  == <<world, obs, game, spent>>

Phases == {"Setup", "Playing", "AwaitingChoice", "Over"}
Ply    == [pos : Positions, pol_tag : [Squares -> Pols]]
\* chips: the squares manual_degraded lists as masked by the operator.  Two
\* fields are history: learned, the fingerprints were taken from the right
\* pieces; turned, the mounting was corrected while squares were masked.
Game   == [phase : Phases, pos : Positions, history : Seq(Ply),
           pol_tag : [Squares -> Pols], nudge : Offset, choice : SUBSET Move,
           disagree_streak : [Squares -> Nat], auto_masked : SUBSET Squares,
           chips : SUBSET Squares, torn : BOOLEAN, suggest : BOOLEAN,
           learned : BOOLEAN, turned : BOOLEAN]
Tilt   == [square : Squares, reads : Squares, as : {"pos", "neg"}]

TypeOK ==
  /\ real \in [Squares -> Pieces \cup {Nobody}]
  /\ tilt \in SUBSET Tilt
  /\ sense \in [Squares -> States]
  /\ powered \in SUBSET Nodes
  /\ hole \in BOOLEAN
  /\ obs \in Observer
  /\ game \in Game
  /\ spent \in Nat

in_play(g) == g.phase \in {"Playing", "AwaitingChoice"}
NoTags     == [sq \in Squares |-> "none"]
NoStreak   == [sq \in Squares |-> 0]
Reading(x) == IF x = Nobody THEN "empty" ELSE Polarity[x]

-----------------------------------------------------------------------------
(* Committing a move *)

\* A standing nudge stays until the piece it is about is moved.
NudgeAfter(g, m, off) ==
  IF off # NoOffset \/ {m.from, m.to} \cap {g.nudge.expected, g.nudge.actual} # {}
  THEN off ELSE g.nudge

\* Seeded fault: the fingerprints stay where they were.
commit_OldTags(o, g, m, off) ==
  [g EXCEPT
    !.history = Append(@, [pos |-> g.pos, pol_tag |-> g.pol_tag]),
    !.pos     = m.next,
    !.nudge   = NudgeAfter(g, m, off),
    !.choice  = {},
    !.phase   = IF Moves[m.next] = {} \/ Len(g.history) + 1 >= MaxPly
                THEN "Over" ELSE "Playing"]

commit(o, g, m, off) ==
  [g EXCEPT
    !.history = Append(@, [pos |-> g.pos, pol_tag |-> g.pol_tag]),
    !.pol_tag = migrate_pol_tags(g.pol_tag, m, o.occ),
    !.learned = @ /\ (m.promotion = "none"
                      \/ o.occ[m.to] \in {"empty", Reading(At[m.next][m.to])}),
    !.pos     = m.next,
    !.nudge   = NudgeAfter(g, m, off),
    !.choice  = {},
    !.phase   = IF Moves[m.next] = {} \/ Len(g.history) + 1 >= MaxPly
                THEN "Over" ELSE "Playing"]

\* What a commit and the other handlers that restart detection leave of the
\* observer: clear_journal, and last_inferred_change_ms = last_change_ms.
Reread(o) == [o EXCEPT !.journal = {}, !.unread = FALSE]

-----------------------------------------------------------------------------
(* The settle *)

ask(g, options) == [g EXCEPT !.choice = options, !.phase = "AwaitingChoice"]

\* A mismatch that the standing nudge explains asks nothing.
Explained(g, inf) ==
  /\ inf.kind = "mismatch" /\ g.nudge # NoOffset
  /\ inf.squares \subseteq {g.nudge.expected, g.nudge.actual}

on_inference(o, g, inf) ==
  CASE inf.kind = "nochange" ->
         [g EXCEPT !.nudge = NoOffset,
                   !.phase = IF @ = "AwaitingChoice" THEN "Playing" ELSE @,
                   !.choice = IF g.phase = "AwaitingChoice" THEN {} ELSE @]
    [] inf.kind = "commit" ->
         IF g.suggest THEN ask(g, {inf.move})
         ELSE commit(o, g, inf.move, inf.offset)
    [] OTHER -> ask(g, inf.options)

\* Squares that disagree although no nudge explains them.
Strange(o, g) ==
  {sq \in known(o) : (o.occ[sq] # "empty") # (sq \in occupancy(g.pos))}
  \ (IF g.nudge = NoOffset THEN {} ELSE {g.nudge.expected, g.nudge.actual})

Streak(o, g) ==
  [sq \in Squares |-> IF sq \in Strange(o, g) THEN g.disagree_streak[sq] + 1 ELSE 0]

Suspects(o, g) ==
  {sq \in Strange(o, g) : g.disagree_streak[sq] + 1 >= AutoMaskStreak}

\* Seeded fault: what the game masks is not told from what the operator did.
update_auto_mask_Unowned(o, g) ==
  [o |-> [o EXCEPT !.masked = @ \cup Suspects(o, g)], g |-> g]

update_auto_mask(o, g) ==
  IF g.phase # "Playing" THEN [o |-> o, g |-> g]
  ELSE [o |-> [o EXCEPT !.masked = @ \cup Suspects(o, g)],
        g |-> [g EXCEPT !.disagree_streak = Streak(o, g),
                        !.auto_masked = @ \cup Suspects(o, g)]]

on_settle(o, g) ==
  LET inf == infer(g.pos, [occ |-> o.occ, known |-> known(o),
                           journal |-> o.journal, pol_tag |-> g.pol_tag])
      commits == inf.kind = "commit" /\ ~g.suggest
  IN IF Explained(g, inf) THEN [o |-> o, g |-> g]
     ELSE update_auto_mask(IF commits THEN Reread(o) ELSE o,
                           on_inference(o, g, inf))

\* tick_playing, once the settle window has passed.
tick_playing ==
  /\ in_play(game) /\ ~game.torn /\ steady(obs) /\ obs.unread
  /\ LET s == on_settle([obs EXCEPT !.unread = FALSE], game)
     IN obs' = s.o /\ game' = s.g
  /\ UNCHANGED <<world, spent>>

-----------------------------------------------------------------------------
(* The operator *)

\* The bound: what players, operator and chance do takes effort.
Costs(n) == spent + n <= MaxEffort /\ spent' = spent + n
Touch == Costs(2)
Odd   == Costs(3)
Open  == game.phase # "Over" /\ Odd

\* Retires the masks the game applied itself.
Unmasked(o, g) == [o EXCEPT !.masked = @ \ g.auto_masked]

new_game ==
  /\ Odd
  /\ obs' = [Unmasked(obs, game) EXCEPT !.journal = {}]
  /\ game' = [game EXCEPT
       !.phase = "Setup", !.pos = Deal, !.history = <<>>, !.pol_tag = NoTags,
       !.choice = {}, !.nudge = NoOffset, !.disagree_streak = NoStreak,
       !.auto_masked = {}, !.torn = FALSE]
  /\ UNCHANGED world

\* The fingerprints are taken from whatever stands on the known squares.
begin_play ==
  /\ obs' = Reread(obs)
  /\ game' = [game EXCEPT
       !.phase = "Playing",
       !.pol_tag = [sq \in Squares |-> IF sq \in known(obs)
                                       THEN polarity(obs.occ[sq]) ELSE "none"],
       !.learned = \A sq \in known(obs) \cap occupancy(game.pos) :
                     obs.occ[sq] \in {"empty", Reading(At[game.pos][sq])}]
  /\ UNCHANGED <<world, spent>>

force_start == game.phase = "Setup" /\ begin_play

\* tick_setup and tick_countdown on a board that holds still through both.
auto_start ==
  /\ game.phase = "Setup" /\ ~game.torn /\ steady(obs)
  /\ Cardinality(occupancy(Deal) \ known(obs)) <= Tolerance
  /\ \A sq \in known(obs) : (obs.occ[sq] # "empty") = (sq \in occupancy(Deal))
  /\ begin_play

\* action_move, and action_choose with a move: any legal one.
move(m) ==
  /\ Odd /\ in_play(game) /\ m \in Moves[game.pos]
  /\ obs' = Reread(obs)
  /\ game' = commit(obs, game, m, NoOffset)
  /\ UNCHANGED world

dismiss ==
  /\ in_play(game)
  /\ game' = [game EXCEPT !.choice = {}, !.phase = "Playing"]
  /\ UNCHANGED <<world, obs, spent>>

\* Seeded fault: the move taken back stays in the history.
undo_KeepsPly ==
  /\ Odd /\ game.history # <<>>
  /\ LET ply == game.history[Len(game.history)]
     IN game' = [game EXCEPT !.pos = ply.pos, !.pol_tag = ply.pol_tag]
  /\ UNCHANGED <<world, obs>>

undo ==
  /\ Odd /\ game.history # <<>>
  /\ LET ply == game.history[Len(game.history)]
     IN game' = [game EXCEPT
          !.history = SubSeq(@, 1, Len(@) - 1), !.pos = ply.pos,
          !.pol_tag = ply.pol_tag, !.phase = "Playing", !.choice = {},
          !.nudge = NoOffset, !.disagree_streak = NoStreak]
  /\ obs' = Reread(obs)
  /\ UNCHANGED world

set_detect ==
  /\ Open
  /\ game' = [game EXCEPT !.suggest = ~@]
  /\ UNCHANGED <<world, obs>>

resync ==
  /\ Open
  /\ obs' = Reread(Unmasked(obs, game))
  /\ game' = [game EXCEPT
       !.auto_masked = {}, !.disagree_streak = NoStreak, !.nudge = NoOffset,
       !.choice = {}, !.torn = FALSE,
       !.phase = IF @ = "AwaitingChoice" THEN "Playing" ELSE @]
  /\ UNCHANGED world

mask_square(sq, masked) ==
  /\ Open
  /\ obs' = [obs EXCEPT !.masked = IF masked THEN @ \cup {sq} ELSE @ \ {sq}]
  /\ game' = [game EXCEPT
       !.auto_masked = @ \ {sq}, !.disagree_streak[sq] = 0,
       !.chips = IF masked THEN @ \cup {sq} ELSE @ \ {sq}]
  /\ UNCHANGED world

rotate_board(quarter_turns) ==
  /\ Open /\ quarter_turns # obs.rotation
  /\ obs' = set_rotation(obs, quarter_turns)
  /\ game' = [game EXCEPT !.turned = @ \/ obs.masked # {}]
  /\ UNCHANGED world

\* The snapshot it asks for is one of the snapshots that may come.
bind_device ==
  /\ Open
  /\ obs' = reset_board(obs)
  /\ UNCHANGED <<world, game>>

-----------------------------------------------------------------------------
(* The board and its events, as on_device_event takes them *)

Heard(o) ==
  /\ hole' = FALSE
  /\ obs' = o
  /\ game' = [game EXCEPT !.torn = @ \/ hole]

Lost == hole' = TRUE /\ UNCHANGED <<obs, game>>

\* The sensor of a square now reads state.
Reports(sq, state, lost) ==
  /\ sense' = [sense EXCEPT ![sq] = state]
  /\ IF node_of_device_square(sq) \notin powered
     THEN UNCHANGED <<hole, obs, game>>
     ELSE IF lost THEN Lost
     ELSE Heard(apply_sensor_changed(obs, sq, state))

Spot(sq) == IF \E t \in tilt : t.square = sq
            THEN (CHOOSE t \in tilt : t.square = sq).reads ELSE sq

\* A sensor passes through "uncertain" as its piece leaves, or does not.
Lift(sq, state, lost) ==
  /\ IF lost \/ state = "uncertain" THEN Odd ELSE Touch
  /\ real' = [real EXCEPT ![sq] = Nobody]
  /\ tilt' = {t \in tilt : t.square # sq}
  /\ Reports(Spot(sq), state, lost)
  /\ UNCHANGED powered

Resolve(sq) ==
  /\ sense[sq] = "uncertain"
  /\ Reports(sq, "empty", FALSE)
  /\ UNCHANGED <<real, tilt, powered, spent>>

OffBoard == {x \in Pieces : \A sq \in Squares : real[sq] # x}
Free     == {sq \in Squares : real[sq] = Nobody
                              /\ sense[sq] \in {"empty", "uncertain"}}

Put(x, sq, lost) ==
  /\ IF lost THEN Odd ELSE Touch
  /\ real' = [real EXCEPT ![sq] = x]
  /\ Reports(sq, Polarity[x], lost)
  /\ UNCHANGED <<tilt, powered>>

\* A piece off centre is read next door; a tilted one may read inverted.
PutTilted(x, sq, spot, as) ==
  /\ Odd
  /\ real' = [real EXCEPT ![sq] = x]
  /\ tilt' = tilt \cup {[square |-> sq, reads |-> spot, as |-> as]}
  /\ Reports(spot, as, FALSE)
  /\ UNCHANGED powered

\* A quadrant drops off the bus, or comes back.
Drops(n) ==
  /\ Open /\ n \in powered
  /\ powered' = powered \ {n}
  /\ Heard(apply_node_status(obs, n, FALSE)) \/ Lost
  /\ UNCHANGED <<real, tilt, sense>>

Returns(n) ==
  /\ n \notin powered
  /\ powered' = powered \cup {n}
  /\ Heard(apply_node_status(obs, n, TRUE)) \/ Lost
  /\ UNCHANGED <<real, tilt, sense, spent>>

\* board.snapshot, asked for by the server or sent as a quadrant returns; it
\* heals a torn view and clears the journal.
Snapshot ==
  /\ Open
  /\ hole' = FALSE
  /\ obs' = clear_journal(apply_snapshot(obs, sense, powered))
  /\ game' = [game EXCEPT !.torn = FALSE]
  /\ UNCHANGED <<real, tilt, sense, powered>>

-----------------------------------------------------------------------------
\* The board stands and has been heard, and a game has just been dealt.
Init ==
  /\ real \in Scenes
  /\ tilt = {} /\ powered = Nodes /\ hole = FALSE
  /\ sense = [sq \in Squares |-> Reading(real[sq])]
  /\ obs = [occ |-> sense, wobble |-> {}, masked |-> {}, online |-> Nodes,
            journal |-> {}, rotation |-> 0, have_snapshot |-> TRUE,
            unread |-> TRUE]
  /\ game = [phase |-> "Setup", pos |-> Deal, history |-> <<>>,
             pol_tag |-> NoTags, nudge |-> NoOffset, choice |-> {},
             disagree_streak |-> NoStreak, auto_masked |-> {}, chips |-> {},
             torn |-> FALSE, suggest |-> FALSE, learned |-> FALSE,
             turned |-> FALSE]
  /\ spent = 0

Operator ==
  \/ new_game \/ force_start \/ dismiss \/ undo \/ set_detect \/ resync
  \/ bind_device
  \/ \E m \in Moves[game.pos] : move(m)
  \/ \E sq \in Suspicious, masked \in BOOLEAN : mask_square(sq, masked)
  \/ \E quarter_turns \in Mounts : rotate_board(quarter_turns)

\* Bound: pieces are touched in play only; the scenes are the setups.
Players ==
  /\ in_play(game)
  /\ \/ \E sq \in {d \in Squares : real[d] # Nobody},
           state \in {"uncertain", "empty"}, lost \in BOOLEAN :
          Lift(sq, state, lost)
     \/ \E sq \in Squares : Resolve(sq)
     \/ \E x \in OffBoard, sq \in Free :
          \/ \E lost \in BOOLEAN : Put(x, sq, lost)
          \/ \E spot \in Free \cap ({sq} \cup neighbours(sq)), as \in {"pos", "neg"} :
               PutTilted(x, sq, spot, as)

Bus == Snapshot \/ \E n \in Flaky : Drops(n) \/ Returns(n)

Next == auto_start \/ tick_playing \/ Operator \/ Players \/ Bus

Spec == Init /\ [][Next]_vars

-----------------------------------------------------------------------------
(* Properties *)

\* update_auto_mask, clear_auto_masks, mask_square: every masked square is
\* either the operator's or the game's, never both, so that retiring the
\* game's masks leaves the operator's alone and leaves no square behind
\* (as long as the mounting is not corrected under the masks: set_rotation
\* turns the masks and not the records of whose they are).
MasksAreOwned ==
  game.turned \/ (/\ obs.masked = game.chips \cup game.auto_masked
                  /\ game.chips \cap game.auto_masked = {})

\* begin_play, commit, migrate_pol_tags, undo: fingerprints taken from the
\* right pieces go on describing the pieces the game has on those squares,
\* through captures, promotions and moves taken back.
TagOf(pos, tags) ==
  \A sq \in occupancy(pos) : tags[sq] \in {"none", Reading(At[pos][sq])}

TagsFollowPieces ==
  game.learned => /\ TagOf(game.pos, game.pol_tag)
                  /\ \A i \in DOMAIN game.history :
                       TagOf(game.history[i].pos, game.history[i].pol_tag)

Successors == [p \in Positions |-> {m.next : m \in Moves[p]}]

\* The positions an undo can go back to, and the one on the board.
RecordOf(g) == Append([i \in DOMAIN g.history |-> g.history[i].pos], g.pos)

\* commit, undo, new_game: whatever the sensors, the quadrants and the operator
\* do, the game is the one of GameRecord; the sensors change it by legal moves
\* only, and never the moves that can be taken back.
Record == INSTANCE GameRecord
  WITH Home   <- Deal, Starts <- {Deal},
       Legal  <- Successors,
       record <- RecordOf(game),
       saved  <- {}

ImplementsGameRecord == Record!Spec

\* A settled, fully believed view of the position after m, and the pieces
\* standing so.
Shows(m) ==
  /\ known(obs) = Squares
  /\ \A sq \in Squares : /\ real[to_device(obs, sq)] = At[m.next][sq]
                         /\ obs.occ[sq] = Reading(At[m.next][sq])

\* infer, on_settle: a legal move that the board shows as it is, its victim
\* seen to leave and the fingerprints right, is committed or asked about,
\* and never read as another move.  The exceptions are an underpromotion, and
\* a promotion whose pawn had another square to go to that was touched.
Witnessed(m) ==
  /\ game.learned /\ Shows(m) /\ m.promotion \in {"none", "queen"}
  /\ m.to \in occupancy(game.pos) => m.to \in obs.journal

Alone(m) == m.promotion # "none" =>
  \A n \in Moves[game.pos] : n.from = m.from /\ n.to \in obs.journal => n.to = m.to

Read(m) == \/ game'.pos = m.next
           \/ game'.phase = "AwaitingChoice" /\ m \in game'.choice

CleanMoveIsRead ==
  [][\A m \in Moves[game.pos] :
       Witnessed(m) /\ Alone(m) /\ tick_playing => Read(m)]_vars

\* The same of every promotion.  distance leaves the fingerprint out, since
\* "the promoted queen is a different piece with its own magnet" (infer.rs);
\* tier2 compares the pawn's, and may so name the capture not made.
PromotionIsRead ==
  [][\A m \in Moves[game.pos] :
       Witnessed(m) /\ m.promotion = "queen" /\ tick_playing => Read(m)]_vars

\* Params: the weights "move together or not at all", as the shipped ones do.
Calibrated == /\ Params.max_distance < Params.unreadable_penalty
              /\ Params.max_distance < Whole + Params.empty_penalty

\* The destination shows a piece, or one square beside it shows one that the
\* move does not put there, and is kept as the nudge.
Landed(m) ==
  \/ obs.occ[m.to] # "empty"
  \/ LET next == game'.nudge.actual
     IN /\ game'.nudge.expected = m.to
        /\ next \in neighbours(m.to) \cap known(obs)
        /\ obs.occ[next] # "empty" /\ next \notin occupancy(m.next)

\* infer, distance: "no confirmed arrival costs two, however the destination
\* fails to confirm it".  With calibrated weights the sensors commit a move
\* only onto a square that is believed, and that shows a piece or has one next
\* door that belongs nowhere (castling, whose squares are not checked, aside):
\* both pieces of a capture in the hand, or a destination that is masked or
\* offline, never let a move through, whatever the other squares and the
\* fingerprints say.  Which piece it is that shows is not said: the victim of
\* a capture whose attacker is in the hand counts, and so does an attacker
\* still at home beside a victim in the hand (see LiftsAreInvisible).
CommitsOnlyArrivals ==
  [][Len(game'.history) > Len(game.history) /\ tick_playing =>
       \E m \in Moves[game.pos] :
         m.next = game'.pos /\ m.to \in known(obs) /\ (m.castle \/ Landed(m))]_vars

\* What infer.rs says of fumbles ("lift-attacker-first, lift-victim-first,
\* fumbles and put-it-back all invisible"): on a board that is heard
\* truthfully, the sensors commit a move when it stands on the board.
LiftsAreInvisible ==
  [][tick_playing /\ known(obs) = Squares /\ tilt = {} /\ obs.rotation = 0
     /\ (\A sq \in Squares : obs.occ[sq] = Reading(real[sq]))
     /\ Len(game'.history) > Len(game.history)
       => {sq \in Squares : real[sq] # Nobody} = occupancy(game'.pos)
          /\ \A sq \in occupancy(game'.pos) \ occupancy(game.pos) : real[sq] # Nobody]_vars
=============================================================================
