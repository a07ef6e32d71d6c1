------------------------------ MODULE Painter ------------------------------
(***************************************************************************)
(* The lighting painter (server/src/game/paint.rs) with the part of the    *)
(* game task that feeds it, and the quadrants as it sees them.             *)
(*                                                                         *)
(* A frame says what each square and each half of the four edge bars       *)
(* should show.  The painter sends what differs from what it believes is   *)
(* lit, as one batch of commands; a command may be lost or refused, and a  *)
(* quadrant may reboot, drop off the bus or be written by somebody else: a *)
(* viewer's lighting.set, or an operator's node.config.set.                *)
(* The game (module GameTask) is a scene that changes at will.  Two clocks *)
(* are flags: the second of the rate limit passes, the re-assert is due.   *)
(***************************************************************************)
EXTENDS Observe, Sequences

CONSTANTS
  Sides,        \* the edges of the board that have a bar (0..3)
  MaxBarWrites, \* MAX_BAR_WRITES_PER_FRAME
  MaxFrames,    \* MAX_FRAMES_PER_SECOND
  Palettes,     \* palettes the operator tries, the first one included
  FirstPalette,
  Maps,         \* bar maps the operator tries, the default one included
  FirstMap,
  Edges,        \* choices of eval_sides and turn_sides
  FirstEdges,
  Mounts,       \* rotations the operator tries
  Scenes,       \* what the game may have to show
  Plugged,      \* the quadrants that are there at all
  Probed,       \* sets of squares a viewer lights by a command of his own
  Firmwares,    \* which quadrants may have a firmware without SET_PIXELS
  Flaky,        \* quadrants that reboot or drop off
  MaxBatches,   \* bound: batches in flight
  MaxEffort     \* bound on spent

Strips == Nodes \X {"a", "b"}
Halves == Sides \X {0, 1}
Rank(h) == 2 * h[1] + h[2]

Paints  == {"alert", "needed", "focus", "sweep"}
Dark    == <<>>
\* Probe is what somebody else lights: a viewer, the bar assignment tool.
Probe   == <<"probe">>
Colours == (Paints \X Palettes) \cup {Dark, Probe}
\* Half a bar: how many of its eight pixels are white's; White is what an
\* unwritten strip shows.
White   == <<"white">>
Pixels  == ((0..8) \X Palettes) \cup {Dark, White, Probe}

Phases == {"Idle", "Setup", "Countdown", "Playing", "AwaitingChoice",
           "Scoring", "Finished"}
\* needed, alert and focus are the squares compose_frame finds in the phase:
\* missing and extra pieces, the target as it blinks, a nudge, a mismatch, the
\* last move, the options of a prompt.  win is sixteenths for white.
Scene == [phase : Phases, needed : SUBSET Squares, alert : SUBSET Squares,
          focus : SUBSET Squares, winner : {"none", "white", "black", "draw"},
          white : BOOLEAN, win : 0..16]
SideSets == [eval : SUBSET Sides, turn : SUBSET Sides]

ASSUME PainterAssumption ==
  /\ Sides \subseteq 0..3 /\ Sides # {}
  /\ MaxBarWrites \in Nat /\ MaxFrames \in Nat \ {0}
  /\ FirstPalette \in Palettes
  /\ FirstMap \in Maps /\ Maps \subseteq [Halves -> Strips]
  /\ FirstEdges \in Edges /\ Edges \subseteq SideSets
  /\ Mounts \subseteq Turns /\ Scenes \subseteq Scene
  /\ Plugged \subseteq Nodes /\ Flaky \subseteq Plugged
  /\ Firmwares \subseteq SUBSET Plugged /\ Probed \subseteq SUBSET Squares
  /\ MaxBatches \in Nat \ {0} /\ MaxEffort \in Nat

VARIABLES
  scene,     \* what the game has to show
  venue,     \* rotation, palette, bar map and sides in force
  file,      \* the venue as config.json has it
  chip,      \* manual_degraded says config_not_persisted
  online,    \* obs.node_online
  rejoined,  \* obs.rejoined
  painter,   \* the Painter
  frames,    \* frames_in_window
  due,       \* the re-assert is due
  linked,    \* the device is connected
  wire,      \* batches of commands on their way
  complaint, \* a quadrant's "unsupported" is on its way back
  board,     \* what the quadrants show and have stored
  up,        \* the quadrants the bus reaches
  old,       \* the quadrants without SET_PIXELS
  stray,     \* history: squares lit behind the painter's back
  missed,    \* history: quadrants that missed a colour setting, or were given
             \* another by an operator
  slipped,   \* history: a refused bars_map changed the map
  spent      \* the effort of the steps so far

vars == <<scene, venue, file, chip, online, rejoined, painter, frames, due,
          linked, wire, complaint, board, up, old, stray, missed, slipped, spent>>

Venue == [rotation : Turns, palette : Palettes, bar_map : Maps, edges : Edges]
Files == {{}} \cup {{v} : v \in Venue}  \* none, or one that cannot be read
First == [rotation |-> 0, palette |-> FirstPalette, bar_map |-> FirstMap,
          edges |-> FirstEdges]

\* keys: nodes whose two polarity colours are to be set, to one neutral colour
\* or back.
Nothing == [clear |-> {}, set |-> {}, colour |-> Dark, bars |-> <<>>,
            keys |-> {}, neutral |-> FALSE]

TypeOK ==
  /\ scene \in Scenes /\ venue \in Venue /\ file \in Files
  /\ chip \in BOOLEAN /\ online \subseteq Nodes /\ rejoined \subseteq Nodes
  /\ painter \in [live : [Squares -> Colours], live_bars : [Halves -> Pixels],
                  bars_written : BOOLEAN, bars_supported : BOOLEAN,
                  colours_neutralised : BOOLEAN]
  /\ frames \in 0..MaxFrames /\ due \in BOOLEAN /\ linked \in BOOLEAN
  /\ \A i \in DOMAIN wire :
       /\ wire[i] \in [clear : SUBSET Squares, set : SUBSET Squares,
                       colour : Colours, bars : {wire[i].bars},
                       keys : SUBSET Nodes, neutral : BOOLEAN]
       /\ DOMAIN wire[i].bars \subseteq Strips
       /\ \A s \in DOMAIN wire[i].bars : wire[i].bars[s] \in Pixels
  /\ complaint \in BOOLEAN
  /\ board \in [mask : SUBSET Squares, tint : [Nodes -> Colours],
                strip : [Strips -> Pixels], neutral : SUBSET Nodes]
  /\ up \subseteq Nodes /\ old \subseteq Nodes
  /\ stray \subseteq Squares /\ missed \subseteq Nodes
  /\ slipped \in BOOLEAN /\ spent \in Nat
-----------------------------------------------------------------------------
(* compose_frame *)

\* The one class of paint a quadrant renders.
basic(s) ==
  CASE s.phase \in {"Setup", "Countdown"} -> "needed"
    [] s.phase \in {"Playing", "Scoring"} ->
         IF s.needed = {} THEN "focus" ELSE "needed"
    [] s.phase = "AwaitingChoice" -> IF s.alert = {} THEN "focus" ELSE "alert"
    [] OTHER -> "sweep"

\* The game squares of that class: a later set overrides an earlier one.
painted(s) ==
  CASE basic(s) = "alert"  -> s.alert
    [] basic(s) = "needed" -> s.needed \ s.alert
    [] basic(s) = "focus"  -> s.focus \ (s.needed \cup s.alert)
    [] OTHER -> LET rank == CASE s.winner = "white" -> 0
                              [] s.winner = "black" -> Edge
                              [] OTHER -> Half - 1
                IN {sq \in Squares : sq[1] = rank}

clamp(x, low, high) == IF x < low THEN low ELSE IF x > high THEN high ELSE x

bar(s, v, h) ==
  IF h[1] \in v.edges.turn THEN <<IF s.white THEN 8 ELSE 0, v.palette>>
  ELSE IF h[1] \in v.edges.eval
       THEN <<clamp(clamp(s.win, 1, 15) - 8 * h[2], 0, 8), v.palette>>
       ELSE Dark

bars_wanted(s) == s.phase \notin {"Idle", "Setup"}
-----------------------------------------------------------------------------
(* The Painter *)

AllDark  == [sq \in Squares |-> Dark]
BarsDark == [h \in Halves |-> Dark]
Quad     == [n \in Nodes |-> {sq \in Squares : node_of_device_square(sq) = n}]
On(on)   == UNION {Quad[n] : n \in on}
Lit(p)   == {sq \in Squares : p.live[sq] # Dark}

FreshPainter == [live |-> AllDark, live_bars |-> BarsDark, bars_written |-> FALSE,
                 bars_supported |-> TRUE, colours_neutralised |-> FALSE]

forget(p) == [p EXCEPT !.live = AllDark, !.live_bars = BarsDark,
                       !.bars_written = FALSE]

\* Seeded fault: the sensor colours are taken for set.
node_rejoined_Keyed(p, nodes) ==
  IF nodes = {} THEN p
  ELSE [p EXCEPT !.live = [sq \in Squares |-> IF node_of_device_square(sq) \in nodes THEN Dark ELSE @[sq]],
                 !.bars_written = FALSE]

node_rejoined(p, nodes) ==
  IF nodes = {} THEN p
  ELSE [p EXCEPT !.live = [sq \in Squares |-> IF node_of_device_square(sq) \in nodes THEN Dark ELSE @[sq]],
                 !.bars_written = FALSE, !.colours_neutralised = FALSE]

\* The device squares the frame wants lit on the quadrants that are online.
wanted(s, v, on) ==
  {rotate(sq, (4 - v.rotation) % 4) : sq \in painted(s)} \cap On(on)

\* Seeded fault: nothing is ever due.
pending_Once(p, s, v, on, reassert) ==
  {h \in Halves : /\ bars_wanted(s) /\ p.bars_supported
                  /\ v.bar_map[h][1] \in on
                  /\ ~p.bars_written \/ p.live_bars[h] # bar(s, v, h)}

\* emit_bars: the halves it would write, and those it does before it is full.
pending(p, s, v, on, reassert) ==
  {h \in Halves : /\ bars_wanted(s) /\ p.bars_supported
                  /\ v.bar_map[h][1] \in on
                  /\ ~p.bars_written \/ p.live_bars[h] # bar(s, v, h) \/ reassert}

first(hs) == {h \in hs : Cardinality({g \in hs : Rank(g) < Rank(h)}) < MaxBarWrites}

\* It returns, and bars_written stays as it was, when it is full before the
\* last half of the loop.
cut_short(hs) ==
  Cardinality({h \in hs : \E g \in Halves : Rank(g) > Rank(h)}) >= MaxBarWrites

\* Two halves mapped to one strip: the later write stays.
written(hs, s, v) ==
  [strip \in {v.bar_map[h] : h \in hs} |->
     LET last == CHOOSE h \in hs : /\ v.bar_map[h] = strip
                                   /\ \A g \in hs : v.bar_map[g] = strip
                                                      => Rank(g) <= Rank(h)
     IN bar(s, v, last)]

\* Seeded fault: what an offline quadrant was told is overwritten too.
live_after_All(p, w, paint, on) ==
  [sq \in Squares |-> IF sq \in w THEN paint ELSE Dark]

\* Offline quadrants keep whatever they were last told.
live_after(p, w, paint, on) ==
  [sq \in Squares |->
     IF node_of_device_square(sq) \notin on THEN p.live[sq] ELSE IF sq \in w THEN paint ELSE Dark]

\* Seeded fault: only what changes is sent.
differs_Now(p, s, v, w, reassert) ==
  \/ live_after_All(p, w, <<basic(s), v.palette>>, {}) # p.live
  \/ bars_wanted(s) /\ p.bars_supported /\ ~p.bars_written

\* Whether there is a frame to send: the squares w or the bars are not what
\* they were, or it is time to assert them again.
differs(p, s, v, w, reassert) ==
  \/ reassert
  \/ [sq \in Squares |-> IF sq \in w THEN <<basic(s), v.palette>> ELSE Dark] # p.live
  \/ /\ bars_wanted(s) /\ p.bars_supported
     /\ ~p.bars_written \/ \E h \in Halves : p.live_bars[h] # bar(s, v, h)

\* diff with emit_squares and emit_bars, given the squares w, the halves hs to
\* be written and those that are now: the commands, and the painter after.
diff(p, s, v, on, w, hs, now) ==
  [batch |-> [Nothing EXCEPT
     !.clear = (Lit(p) \cap On(on)) \ w, !.set = w,
     !.colour = IF w = {} THEN Dark ELSE <<basic(s), v.palette>>,
     !.bars = written(now, s, v)],
   painter |-> [p EXCEPT
     !.live = live_after(p, w, <<basic(s), v.palette>>, on),
     !.live_bars = [h \in Halves |-> IF h \in now THEN bar(s, v, h) ELSE @[h]],
     !.bars_written = @ \/ (now # {} /\ ~cut_short(hs))]]

neutralise_colours(on) == [Nothing EXCEPT !.keys = on, !.neutral = TRUE]

\* Seeded fault: the clear is left out.
restore_colours_Lit(p, v, on) ==
  [Nothing EXCEPT !.keys = on,
     !.bars = [strip \in {v.bar_map[h] : h \in Halves} \cap (on \X {"a", "b"}) |-> Dark]]

\* restore_colours: clear everything, darken the bars, put the keys back.
restore_colours(p, v, on) ==
  [Nothing EXCEPT !.clear = Squares, !.keys = on,
     !.bars = IF ~p.bars_supported THEN <<>>
              ELSE [strip \in {v.bar_map[h] : h \in Halves}
                              \cap (on \X {"a", "b"}) |-> Dark]]
-----------------------------------------------------------------------------
(* The game task around it *)

Init ==
  /\ scene \in {s \in Scenes : s.phase = "Idle"}
  /\ venue = First /\ file = {} /\ chip = FALSE
  /\ online = Plugged /\ rejoined = {} /\ painter = FreshPainter
  /\ frames = 0 /\ due = TRUE /\ linked = TRUE /\ wire = <<>> /\ complaint = FALSE
  /\ board = [mask |-> {}, tint |-> [n \in Nodes |-> Dark],
              strip |-> [s \in Strips |-> White], neutral |-> {}]
  /\ up = Plugged /\ old \in Firmwares
  /\ stray = {} /\ missed = {} /\ slipped = FALSE /\ spent = Cardinality(old)

Pay(cost) == spent + cost <= MaxEffort /\ spent' = spent + cost

\* send_command, for a whole batch; left are the squares put out of mind.
send_command(b, left) ==
  IF linked
  THEN /\ Len(wire) < MaxBatches /\ wire' = Append(wire, b)
       /\ stray' = stray \cup left /\ UNCHANGED missed
  ELSE /\ stray' = stray \cup left \cup b.clear /\ missed' = missed \cup b.keys
       /\ UNCHANGED wire

Rests(p) ==
  /\ painter' = p /\ stray' = stray \cup (Lit(painter) \ Lit(p))
  /\ UNCHANGED <<frames, due, wire, missed>>

\* tick: repaint.
repaint ==
  /\ scene.phase # "Idle" /\ rejoined' = {}
  /\ UNCHANGED <<scene, venue, file, chip, online, linked, complaint, board,
                 up, old, slipped, spent>>
  /\ \E p \in {node_rejoined(painter, rejoined)},
        w \in {wanted(scene, venue, online)} :
       IF differs(p, scene, venue, w, due) /\ frames < MaxFrames
       THEN \E hs \in {pending(p, scene, venue, online, due)} :
            \E now \in {first(hs)} :
            \E d \in {diff(p, scene, venue, online, w, hs, now)} :
              IF d.batch # Nothing
              THEN /\ painter' = d.painter /\ frames' = frames + 1 /\ due' = FALSE
                   /\ send_command(d.batch, Lit(painter) \ Lit(p))
              ELSE Rests(p)
       ELSE Rests(p)

\* The game goes on: other squares, another phase.
Play(s) ==
  /\ s # scene /\ Pay(1) /\ scene' = s
  /\ \/ s.phase = scene.phase
     \/ s.phase \notin {"Idle", "Setup"} /\ scene.phase # "Idle"
     \/ s.phase \in {"Playing", "Finished"}
  /\ UNCHANGED <<venue, file, chip, online, rejoined, painter, frames, due,
                 linked, wire, complaint, board, up, old, stray, missed, slipped>>

new_game(s) ==
  /\ s.phase = "Setup" /\ Pay(1) /\ scene' = s
  /\ painter' = [forget(painter) EXCEPT !.colours_neutralised = TRUE]
  /\ IF painter.colours_neutralised \/ online = {}
     THEN stray' = stray \cup Lit(painter) /\ UNCHANGED <<wire, missed>>
     ELSE send_command(neutralise_colours(online), Lit(painter))
  /\ UNCHANGED <<venue, file, chip, online, rejoined, frames, due, linked,
                 complaint, board, up, old, slipped>>

abort(s) ==
  /\ s.phase = "Idle" /\ Pay(1) /\ scene' = s
  /\ painter' = [forget(painter) EXCEPT !.colours_neutralised = FALSE]
  /\ send_command(restore_colours(painter, venue, online), {})
  /\ UNCHANGED <<venue, file, chip, online, rejoined, frames, due, linked,
                 complaint, board, up, old, slipped>>

\* The disk may refuse; what was there may be truncated by then.
persist_config(v) ==
  /\ venue' = v
  /\ \/ file' = {v} /\ chip' = FALSE /\ slipped' = FALSE /\ Pay(2)
     \/ file' \in {file, {}} /\ chip' = TRUE /\ UNCHANGED slipped /\ Pay(3)

\* set_palette, set_rotation, bars_sides and bars_map, then the end of on_action.
recalibrate(v) ==
  /\ persist_config(v)
  /\ painter' = forget(painter) /\ stray' = stray \cup Lit(painter)
  /\ UNCHANGED <<scene, online, rejoined, frames, due, linked, wire, complaint,
                 board, up, old, missed>>

set_palette(p)  == recalibrate([venue EXCEPT !.palette = p])
rotate_board(r) == recalibrate([venue EXCEPT !.rotation = r])
bars_sides(e)   == recalibrate([venue EXCEPT !.edges = e])

\* Seeded fault: the profile is not saved.
bars_map_Unsaved(m) ==
  /\ m \in Maps /\ Pay(1) /\ venue' = [venue EXCEPT !.bar_map = m]
  /\ painter' = forget(painter) /\ stray' = stray \cup Lit(painter)
  /\ UNCHANGED <<scene, file, chip, online, rejoined, frames, due, linked, wire,
                 complaint, board, up, old, missed, slipped>>

\* One half goes to another strip.  A strip that is neither "a" nor "b" is
\* refused when the node has been taken already.
bars_map(m) ==
  \/ /\ Cardinality({h \in Halves : m[h] # venue.bar_map[h]}) = 1
     /\ recalibrate([venue EXCEPT !.bar_map = m])
  \/ /\ Cardinality({h \in Halves : m[h] # venue.bar_map[h]}) = 1
     /\ \A h \in Halves : m[h][2] = venue.bar_map[h][2]
     /\ Pay(2) /\ venue' = [venue EXCEPT !.bar_map = m] /\ slipped' = TRUE
     /\ UNCHANGED <<scene, file, chip, online, rejoined, painter, frames, due,
                    linked, wire, complaint, board, up, old, stray, missed>>

bars_test(s) ==
  /\ Pay(2)
  /\ painter' = forget(painter)
  /\ send_command([Nothing EXCEPT !.bars = [t \in {s} |-> Probe]], Lit(painter))
  /\ UNCHANGED <<scene, venue, file, chip, online, rejoined, frames, due, linked,
                 complaint, board, up, old, slipped>>

\* node.config.set of key 7 or 8: the operator gives a quadrant a sensor colour
\* of its own.  The painter is not told.
node_config(n) ==
  /\ Pay(1)
  /\ IF linked THEN /\ Len(wire) < MaxBatches
                    /\ wire' = Append(wire, [Nothing EXCEPT !.keys = {n}])
     ELSE UNCHANGED wire
  /\ missed' = missed \cup {n}
  /\ UNCHANGED <<scene, venue, file, chip, online, rejoined, painter, frames, due,
                 linked, complaint, board, up, old, stray, slipped>>

\* A viewer's lighting.set goes to the board as it is, past the painter.
lighting_set(sqs) ==
  /\ Pay(1) /\ linked /\ Len(wire) < MaxBatches
  /\ wire' = Append(wire, [Nothing EXCEPT !.set = sqs, !.colour = Probe])
  /\ stray' = stray \cup sqs
  /\ UNCHANGED <<scene, venue, file, chip, online, rejoined, painter, frames, due,
                 linked, complaint, board, up, old, missed, slipped>>

\* restore_config: a profile with neither kind of side keeps the defaults.
restored(f) ==
  IF f = {} THEN First
  ELSE LET v == CHOOSE v \in f : TRUE
       IN IF v.edges.eval = {} /\ v.edges.turn = {}
          THEN [v EXCEPT !.edges = FirstEdges] ELSE v

Restart ==
  /\ Pay(2)
  /\ venue' = restored(file) /\ chip' = FALSE /\ slipped' = FALSE
  /\ painter' = FreshPainter /\ stray' = stray \cup Lit(painter)
  /\ online' = {} /\ rejoined' = {} /\ frames' = 0 /\ due' = FALSE
  /\ linked' = FALSE /\ complaint' = FALSE
  /\ UNCHANGED <<scene, file, wire, board, up, old, missed>>

\* apply_node_status for one quadrant, apply_snapshot for all of them.
Hear(ns) ==
  /\ linked /\ up \cap ns # online \cap ns
  /\ online' = (online \ ns) \cup (up \cap ns)
  /\ rejoined' = rejoined \cup ((up \cap ns) \ online)
  /\ UNCHANGED <<scene, venue, file, chip, painter, frames, due, linked, wire,
                 complaint, board, up, old, stray, missed, slipped, spent>>

\* note_node_error: the bars are given up for the whole board.
on_command_result ==
  /\ complaint /\ linked /\ complaint' = FALSE
  /\ UNCHANGED <<scene, venue, file, chip, online, rejoined, frames, due, linked,
                 wire, board, up, old, missed, slipped, spent>>
  /\ IF painter.bars_supported
     THEN /\ painter' = [forget(painter) EXCEPT !.bars_supported = FALSE]
          /\ stray' = stray \cup Lit(painter)
     ELSE UNCHANGED <<painter, stray>>

\* The clock: the window of the rate limit is over, and a second has passed
\* since the last frame (which ends every window too).
Second ==
  /\ frames' = 0 /\ due' \in {due, TRUE} /\ <<frames, due>>' # <<frames, due>>
  /\ UNCHANGED <<scene, venue, file, chip, online, rejoined, painter, linked, wire,
                 complaint, board, up, old, stray, missed, slipped, spent>>
-----------------------------------------------------------------------------
(* The link and the quadrants *)

\* The session ends, with what its queue still held.
Unlink(kept) ==
  /\ linked /\ Pay(2) /\ linked' = FALSE /\ complaint' = FALSE
  /\ wire' = SubSeq(wire, 1, kept)
  /\ stray' = stray \cup UNION {wire[i].clear : i \in kept + 1..Len(wire)}
  /\ missed' = missed \cup UNION {wire[i].keys : i \in kept + 1..Len(wire)}
  /\ UNCHANGED <<scene, venue, file, chip, online, rejoined, painter, frames, due,
                 board, up, old, slipped>>

Link ==
  /\ ~linked /\ linked' = TRUE
  /\ UNCHANGED <<scene, venue, file, chip, online, rejoined, painter, frames, due,
                 wire, complaint, board, up, old, stray, missed, slipped, spent>>

\* Lighting::setSquares: the mask of a quadrant is replaced, not added to.
setSquares(mask, nodes, set, clear) ==
  {sq \in Squares : IF node_of_device_square(sq) \in nodes THEN sq \in set
                    ELSE sq \in mask \ clear}

\* The next batch, but for a lost part, reaches the quadrants that are there.
Deliver(lost) ==
  LET b     == Head(wire)
      clear == IF lost = <<"clear">> THEN {} ELSE b.clear \cap On(up)
      nodes == IF lost = <<"set">> THEN {}
               ELSE {n \in up : \E sq \in b.set : node_of_device_square(sq) = n}
      bars  == {s \in DOMAIN b.bars \ {lost} : s[1] \in up}
      keys  == IF lost = <<"keys">> THEN {} ELSE b.keys \cap up
      mask  == setSquares(board.mask, nodes, b.set, clear)
      astray == stray \cup (b.clear \ clear)
  IN /\ wire # <<>> /\ wire' = Tail(wire)
     /\ UNCHANGED <<scene, venue, file, chip, online, rejoined, painter, frames,
                    due, linked, up, old, slipped>>
     /\ Pay(IF lost = <<>> THEN 0 ELSE 1)
     /\ board' = [mask |-> mask,
                  tint |-> [n \in Nodes |-> IF n \in nodes THEN b.colour ELSE board.tint[n]],
                  strip |-> [s \in Strips |-> IF s \in bars /\ s[1] \notin old
                                              THEN b.bars[s] ELSE board.strip[s]],
                  neutral |-> (board.neutral \ keys) \cup (IF b.neutral THEN keys ELSE {})]
     /\ complaint' = (complaint \/ \E s \in bars : s[1] \in old)
     /\ stray' = IF Len(wire) = 1 THEN astray \cap mask ELSE astray
     /\ missed' = IF Len(wire) = 1 /\ b.neutral
                   THEN (missed \ keys) \cup (b.keys \ keys)
                   ELSE missed \cup (b.keys \ keys)

\* shutdownNow, or an identify or the idle breath, which only forget the bars.
Reset(n, rebooted) ==
  /\ n \in Flaky /\ Pay(1)
  /\ board' = [board EXCEPT
       !.mask  = IF rebooted THEN @ \ On({n}) ELSE @,
       !.strip = [s \in Strips |-> IF s[1] = n THEN White ELSE @[s]]]
  /\ UNCHANGED <<scene, venue, file, chip, online, rejoined, painter, frames, due,
                 linked, wire, complaint, up, old, stray, missed, slipped>>

\* A quadrant drops off the bus, or comes back with what it held.
Drops(n) ==
  /\ n \in Flaky \cap up /\ Pay(1) /\ up' = up \ {n}
  /\ UNCHANGED <<scene, venue, file, chip, online, rejoined, painter, frames, due,
                 linked, wire, complaint, board, old, stray, missed, slipped>>

Returns(n) ==
  /\ n \in Plugged \ up /\ up' = up \cup {n}
  /\ UNCHANGED <<scene, venue, file, chip, online, rejoined, painter, frames, due,
                 linked, wire, complaint, board, old, stray, missed, slipped, spent>>
-----------------------------------------------------------------------------
Operator ==
  \/ \E s \in Scenes : Play(s) \/ new_game(s) \/ abort(s)
  \/ \E p \in Palettes : set_palette(p)
  \/ \E r \in Mounts : rotate_board(r)
  \/ \E e \in Edges : bars_sides(e)
  \/ \E m \in Maps : bars_map(m)
  \/ \E s \in Plugged \X {"a"} : bars_test(s)
  \/ \E n \in Plugged : node_config(n)
  \/ \E sqs \in Probed : lighting_set(sqs)
  \/ Restart

\* What of a batch can be lost.
Parts(b) ==
  {<<>>} \cup DOMAIN b.bars \cup (IF b.clear = {} THEN {} ELSE {<<"clear">>})
         \cup (IF b.set = {} THEN {} ELSE {<<"set">>})
         \cup (IF b.keys = {} THEN {} ELSE {<<"keys">>})

Delivery == wire # <<>> /\ \E lost \in Parts(Head(wire)) : Deliver(lost)
Hearing  == \E ns \in {{n} : n \in Nodes} \cup {Nodes} : Hear(ns)

Next ==
  \/ Operator \/ repaint \/ Second \/ on_command_result \/ Hearing
  \/ Delivery \/ Link
  \/ \E k \in 0..Len(wire) : Unlink(k)
  \/ \E n \in Flaky : Drops(n) \/ Reset(n, TRUE) \/ Reset(n, FALSE)
  \/ \E n \in Nodes : Returns(n)

\* The clock, the tick, the link and the device go on.
Fairness ==
  /\ WF_vars(Second /\ due') /\ WF_vars(repaint) /\ WF_vars(Hear(Nodes))
  /\ WF_vars(on_command_result) /\ WF_vars(Deliver(<<>>))

Spec == Init /\ [][Next]_vars /\ Fairness
-----------------------------------------------------------------------------
(* Properties *)

\* emit_squares, live, node_rejoined: whatever is lit is lit because the
\* painter believes it is, or a viewer lit it, or it is one of those squares the
\* painter is known to have put out of mind: by forget, for a quadrant that came
\* back, or because the command that was to clear it never arrived.  Nothing is
\* lost by a frame.
NothingLitUnnoticed ==
  wire = <<>> => board.mask \subseteq Lit(painter) \cup stray

\* neutralise_colours, node_rejoined: when the painter says the sensor colours
\* are set for this game, they are on every quadrant it has not to look at
\* again, that did not miss the order and that no operator gave another colour
\* since (node_config leaves colours_neutralised alone).
OneSensorColour ==
  wire = <<>> /\ painter.colours_neutralised
    => online \ (rejoined \cup missed) \subseteq board.neutral

\* persist_config, restore_config: a restart brings back the venue as the
\* operator left it, or the rail says that it will not; but for a refused
\* bars_map that changed the map, and for a board told to show no bar at all.
VenueSurvives ==
  \/ restored(file) = venue \/ chip \/ slipped
  \/ venue.edges.eval = {} /\ venue.edges.turn = {}

\* paint.rs:38, "A stray probe from the debug console self-heals within this
\* long": what a viewer lit goes out again.  The code keeps this only for the
\* quadrants that the frame has squares on.
ProbesHeal == <>[](linked /\ scene.phase # "Idle" => board.mask \subseteq Lit(painter))

Shown ==
  \A n \in online \cap up :
    LET w == wanted(scene, venue, online) \cap On({n})
    IN w # {} => /\ board.mask \cap On({n}) = w
                 /\ board.tint[n] = <<basic(scene), venue.palette>>

\* diff, the re-assert: with the board connected and left alone, every
\* quadrant that has something to show ends up showing exactly the frame,
\* whatever was lost, rebooted or restarted before.
FrameIsShown == <>[](linked /\ scene.phase # "Idle" => Shown)

BarsShown ==
  \A h \in Halves :
    LET s == venue.bar_map[h]
    IN s[1] \in online \cap up /\ (\A g \in Halves \ {h} : venue.bar_map[g] # s)
         => board.strip[s] = bar(scene, venue, h)

\* emit_bars ("The rest ride the next tick"): the bars end up showing the
\* frame too.
BarsAreShown ==
  <>[](linked /\ bars_wanted(scene) /\ painter.bars_supported => BarsShown)
=============================================================================
