------------------------------ MODULE GameTask ------------------------------
(***************************************************************************)
(* The puzzle-mode game task (server/src/game/mod.rs) together with the    *)
(* engine task it talks to (server/src/game/engine.rs) and the snapshot    *)
(* file that survives a restart.                                           *)
(*                                                                         *)
(* The game task is one tokio task: a handler runs to completion before    *)
(* the next input is taken, so every handler is one action.  A handler     *)
(* calls others (a tick commits a move, which asks for an evaluation,      *)
(* which may finish the game on the spot), so handlers are written as      *)
(* operators from the task's state record to its next value and the        *)
(* actions compose them in the order of the calls.                         *)
(*                                                                         *)
(* Chess is abstract: a position is a model value, Legal gives the         *)
(* positions a legal move leads to, Ending says which are mate or drawn,   *)
(* and Score what each engine says of a position.                          *)
(***************************************************************************)
EXTENDS Integers, Sequences

CONSTANTS
  Positions,  \* chess positions
  Home,       \* the position of a task that has never dealt one
  NoPos,      \* "nothing measured"
  Deals,      \* positions a new game may be dealt from
  Fens,       \* positions an operator may set
  Legal,      \* position -> positions one legal move away
  Ending,     \* position -> "open", or the winner when the game ends there
  Score,      \* engine -> position -> centipawns, white's point of view
  Decrees,    \* numbers an administrator may decree
  PlyLimits,  \* values max_ply may be set to
  DrawBand,   \* rules.draw_band_cp
  Ops,        \* the client actions this instance explores
  Faults,     \* what may go wrong with a write of the snapshot file
  MaxSeq,     \* bound on game_seq
  MaxQueue,   \* bound on either engine channel
  MaxRestarts \* bound on server restarts

Phases  == {"Idle", "Setup", "Countdown", "Playing", "AwaitingChoice",
            "Scoring", "Finished"}
Engines == {"Stockfish", "Material"}
Sources == Engines \cup {"Admin", "Unknown"}
Winners == {"white", "black", "draw"}
Modes   == {"auto", "suggest", "off"}

ASSUME ConstantsOK ==
  /\ Home \in Positions /\ NoPos \notin Positions
  /\ Deals \subseteq Positions /\ Fens \subseteq Positions
  /\ Legal \in [Positions -> SUBSET Positions]
  /\ Ending \in [Positions -> Winners \cup {"open"}]
  /\ Score \in [Engines -> [Positions -> Int]]
  /\ Decrees \subseteq Int
  /\ PlyLimits \subseteq Nat \ {0}
  /\ DrawBand \in Nat
  /\ Faults \subseteq {"failed", "truncated"}
  /\ MaxSeq \in Nat /\ MaxQueue \in Nat /\ MaxRestarts \in Nat

VARIABLES
  game,     \* the Game struct, with the request channel it owns the sender of
  board,    \* what the observer and the device registry say of the board
  engineUp, \* the engine task still holds the receiving end
  busy,     \* the requests the engine has taken and not answered (at most one)
  answers,  \* results on their way to the task's input channel
  disk,     \* the snapshot file: a set of at most one saved game
  restarts  \* how often the server has restarted

vars == <<game, board, engineUp, busy, answers, disk, restarts>>

(***************************************************************************)
(* Types.  Some fields are history, read by no handler: "over" (which      *)
(* interventions this game has seen), start.by and start.of (which engine  *)
(* measured which position to give the start_cp in use; the code keeps     *)
(* only start_source), eval.of (the position the number on show was        *)
(* computed for), written (the write that set the key went through).       *)
(***************************************************************************)
Eval    == [cp : Int, src : Sources, status : {"ok", "pending"},
            of : Positions \cup {NoPos}]
Request == [seq : Nat, final : BOOLEAN, of : Positions]
Answer  == [seq : Nat, final : BOOLEAN, of : Positions, src : Engines,
            available : BOOLEAN]
Result  == [winner : Winners \cup {"none"}, by : Sources,
            reason : {"none", "eval", "mate", "stalemate", "admin"}]
Ply     == [pos : Positions, eval : Eval]
Start   == [cp : Int, src : Sources, by : Sources, of : Positions \cup {NoPos}]
Game    == [phase : Phases, seq : Nat, pos : Positions, target : Positions,
            start : Start, plies : Nat, maxPly : Nat, history : Seq(Ply),
            eval : Eval, choice : BOOLEAN, result : Result,
            autopilot : BOOLEAN, detect : Modes, torn : BOOLEAN,
            stable : BOOLEAN, unread : BOOLEAN, reqs : Seq(Request),
            over : SUBSET {"fen", "restart", "limit"}, key : Phases \X Int, written : BOOLEAN]
Saved   == [phase : Phases \ {"Idle"}, pos : Positions, target : Positions,
            start : Start, plies : Nat]
Diffs   == {"match", "unknown", "wrong"}
Board   == [live : BOOLEAN, diff : Diffs]

TypeOK ==
  /\ game \in Game
  /\ board \in Board
  /\ engineUp \in BOOLEAN
  /\ busy \in Seq(Request)
  /\ answers \in Seq(Answer)
  /\ disk \in SUBSET Saved
  /\ restarts \in Nat

InPlay(g) == g.phase \in {"Playing", "AwaitingChoice"}

NoResult  == [winner |-> "none", by |-> "Unknown", reason |-> "none"]
NoEval    == [cp |-> 0, src |-> "Unknown", status |-> "pending", of |-> NoPos]
Unscored  == [cp |-> 0, src |-> "Material", by |-> "Unknown", of |-> NoPos]

----------------------------------------------------------------------------
(* Evaluations and the verdict *)

Comparable(a, b) == a = b \/ (a # "Material" /\ b # "Material")

Judge(swing) == IF swing >= DrawBand THEN "white"
                ELSE IF swing <= -DrawBand THEN "black" ELSE "draw"

\* Seeded fault: judges whatever the engines.
VerdictFor_AnyRuler(g, cp, src) == Judge(cp - g.start.cp)

VerdictFor(g, cp, src) ==
  IF Comparable(g.start.src, src) THEN Judge(cp - g.start.cp) ELSE "draw"

Finish(g, winner, reason, by) ==
  [g EXCEPT !.phase = "Finished", !.autopilot = FALSE,
            !.result = [winner |-> winner, by |-> by, reason |-> reason]]

Measured(g, cp, src, of) ==
  [g EXCEPT
    !.eval  = [cp |-> cp, src |-> src, status |-> "ok", of |-> of],
    !.start = IF g.plies = 0
              THEN [cp |-> cp, src |-> src, by |-> src, of |-> of] ELSE @]

\* Seeded faults: no game_seq filter; the baseline follows every number; a
\* final answer decides in any phase; an engine's refusal is ignored.
OnEval_AnySeq(g, r) ==
  IF g.eval.src = "Admin" \/ ~r.available THEN g
  ELSE Measured(g, Score[r.src][r.of], r.src, r.of)

OnEval_Rebaselines(g, r) ==
  LET cp == Score[r.src][r.of]
  IN IF r.seq # g.seq \/ g.eval.src = "Admin" \/ ~r.available THEN g
     ELSE [Measured(g, cp, r.src, r.of) EXCEPT
            !.start = [cp |-> cp, src |-> r.src, by |-> r.src, of |-> r.of]]

OnEval_AnyPhase(g, r) ==
  IF r.seq # g.seq \/ g.eval.src = "Admin" \/ ~r.final THEN g
  ELSE Finish(g, VerdictFor(g, Score[r.src][r.of], r.src), "eval", r.src)

OnEval_NoFallback(g, r) ==
  IF r.seq # g.seq \/ ~r.available \/ ~r.final \/ g.phase # "Scoring" THEN g
  ELSE Finish(g, VerdictFor(g, Score[r.src][r.of], r.src), "eval", r.src)

OnEval(g, r) ==
  LET src == IF r.available THEN r.src ELSE "Material"
      of  == IF r.available THEN r.of ELSE g.pos
      cp  == Score[src][of]
      h   == Measured(g, cp, src, of)
  IN IF r.seq # g.seq \/ g.eval.src = "Admin" THEN g
     ELSE IF r.final /\ g.phase = "Scoring"
          THEN Finish(h, VerdictFor(h, cp, src), "eval", src)
          ELSE h

Pending(g) == [g EXCEPT !.eval.status = "pending"]

Post(g, final) ==
  [Pending(g) EXCEPT
    !.reqs = Append(@, [seq |-> g.seq, final |-> final, of |-> g.pos])]

\* With nobody at the other end the task scores the position itself.
RequestEval(g, final) ==
  IF engineUp THEN Post(g, final)
  ELSE OnEval(Pending(g),
              [seq |-> g.seq, final |-> final, of |-> g.pos,
               src |-> "Material", available |-> TRUE])

----------------------------------------------------------------------------
(* Moves *)

Played(g, q) ==
  [g EXCEPT !.history = Append(@, [pos |-> g.pos, eval |-> g.eval]),
            !.pos = q, !.plies = @ + 1, !.seq = @ + 1, !.choice = FALSE,
            !.unread = FALSE, !.phase = "Playing"]

Commit(g, q) ==
  LET h == Played(g, q)
  IN IF Ending[q] \in {"white", "black"}
     THEN Finish(h, Ending[q], "mate", h.eval.src)
     ELSE IF Ending[q] = "draw" THEN Finish(h, "draw", "stalemate", h.eval.src)
     ELSE IF h.plies >= h.maxPly
          THEN RequestEval([h EXCEPT !.phase = "Scoring"], TRUE)
          ELSE RequestEval(h, FALSE)

TakenBack(g) ==
  LET ply == g.history[Len(g.history)]
  IN [g EXCEPT !.pos = ply.pos, !.eval = ply.eval,
               !.history = SubSeq(@, 1, Len(@) - 1),
               !.plies = IF @ = 0 THEN 0 ELSE @ - 1,
               !.seq = @ + 1, !.phase = "Playing", !.choice = FALSE,
               !.result = NoResult, !.unread = FALSE]

Undone(g) == RequestEval(TakenBack(g), FALSE)

BeginPlay(g) ==
  RequestEval([g EXCEPT !.phase = "Playing", !.stable = FALSE,
                        !.unread = FALSE], FALSE)

Resynced(g) ==
  [g EXCEPT !.choice = FALSE, !.torn = FALSE, !.unread = FALSE,
            !.phase = IF @ = "AwaitingChoice" THEN "Playing" ELSE @]

SetUp(g, p) ==
  [g EXCEPT !.seq = @ + 1, !.phase = "Setup", !.target = p, !.pos = p,
            !.plies = 0, !.history = <<>>, !.choice = FALSE,
            !.result = NoResult, !.stable = FALSE, !.eval = NoEval,
            !.start = Unscored, !.torn = FALSE, !.over = {}]

Dealt(g, p) == RequestEval(SetUp(g, p), FALSE)

\* Seeded faults: the undo history survives; the setup target stays behind.
Overwritten_KeepsHistory(g, p) ==
  RequestEval([Resynced(g) EXCEPT !.pos = p, !.seq = @ + 1], FALSE)

Imposed(g, p) ==
  [g EXCEPT
    !.pos = p, !.seq = @ + 1, !.history = <<>>, !.choice = FALSE,
    !.result = NoResult, !.over = @ \cup {"fen"},
    !.target = IF InPlay(g) THEN @ ELSE p,
    !.start = IF InPlay(g) THEN @
              ELSE [@ EXCEPT !.cp = 0, !.by = "Unknown", !.of = NoPos],
    !.phase = IF @ \in {"Idle", "Finished", "AwaitingChoice"}
              THEN "Playing" ELSE @]

Overwritten(g, p) == RequestEval(Resynced(Imposed(g, p)), FALSE)

----------------------------------------------------------------------------
(* Detection: what the task does with the outcome of infer *)

Ask(g) == [g EXCEPT !.choice = TRUE, !.phase = "AwaitingChoice"]

\* What infer may answer; "explained" is a mismatch a standing nudge covers.
Inferences(g) ==
  [kind : {"nochange", "ambiguous", "mismatch", "explained"}, pos : {g.pos}]
  \cup [kind : {"commit"}, pos : Legal[g.pos]]

\* Seeded fault: the board explains the position again, the prompt stays.
OnInference_KeepsPrompt(g, inf) ==
  CASE inf.kind = "nochange" -> [g EXCEPT !.phase = "Playing"]
    [] inf.kind = "commit" -> Commit(g, inf.pos)
    [] OTHER -> Ask(g)

OnInference(g, inf) ==
  CASE inf.kind = "nochange" ->
         IF g.phase = "AwaitingChoice"
         THEN [g EXCEPT !.phase = "Playing", !.choice = FALSE] ELSE g
    [] inf.kind = "commit" ->
         IF g.detect = "suggest" THEN Ask(g) ELSE Commit(g, inf.pos)
    [] inf.kind \in {"ambiguous", "mismatch"} -> Ask(g)
    [] OTHER -> g

----------------------------------------------------------------------------
(* The 100 ms tick: phase, autopilot, publish, in this order.  The clock is *)
(* abstract: the board is moving, has settled, or has settled and the      *)
(* phase's own deadline has passed.                                        *)

Clocks == {"moving", "settled", "elapsed"}

TickSetup(g, clock) ==
  IF ~board.live \/ g.torn \/ board.diff # "match" \/ clock = "moving"
  THEN [g EXCEPT !.stable = FALSE]
  ELSE [g EXCEPT !.stable = TRUE,
                 !.phase = IF g.stable /\ clock = "elapsed"
                           THEN "Countdown" ELSE @]

TickCountdown(g, clock) ==
  IF ~board.live \/ g.torn \/ board.diff = "wrong"
  THEN [g EXCEPT !.phase = "Setup", !.stable = FALSE]
  ELSE IF clock = "elapsed" THEN BeginPlay(g) ELSE g

TickPlaying(g, clock, inf) ==
  IF g.detect = "off" \/ ~board.live \/ g.torn \/ clock = "moving"
     \/ ~g.unread
  THEN g
  ELSE OnInference([g EXCEPT !.unread = FALSE], inf)

TickPhase(g, clock, inf) ==
  CASE g.phase = "Setup" -> TickSetup(g, clock)
    [] g.phase = "Countdown" -> TickCountdown(g, clock)
    [] InPlay(g) -> TickPlaying(g, clock, inf)
    [] OTHER -> g

\* Once its deadline has passed the pilot plays a random legal move; with no
\* pick the deadline is still ahead.
Picks(g) == IF g.autopilot /\ InPlay(g) THEN Legal[g.pos] \cup {NoPos}
            ELSE {NoPos}

TickAutopilot(g, pick) == IF pick = NoPos THEN g ELSE Commit(g, pick)

\* Seeded fault: an idle game is written like any other.
Snapshot_Idle(g) ==
  {[phase |-> g.phase, pos |-> g.pos, target |-> g.target,
    start |-> g.start, plies |-> g.plies]}

\* What persist writes: the game, and for Idle no file.
Snapshot(g) ==
  IF g.phase = "Idle" THEN {}
  ELSE {[phase |-> g.phase, pos |-> g.pos, target |-> g.target,
         start |-> g.start, plies |-> g.plies]}

\* Seeded fault: the file is rewritten on a change of phase only.
Key_PhaseOnly(g) == <<g.phase, 0>>

Key(g) == <<g.phase, g.seq>>

\* The key is taken before persist, which only logs: a write or a removal that
\* fails leaves the file as it was, a write cut short (by a full disk or by a
\* crash right after) leaves one that restore cannot read and treats as none,
\* and neither is tried again before the key changes.
Publish(g) ==
  \/ g.key = Key(g) /\ game' = g /\ disk' = disk
  \/ /\ g.key # Key(g)
     /\ \E write \in {"done"} \cup Faults :
          /\ write = "truncated" => g.phase # "Idle"
          /\ game' = [g EXCEPT !.key = Key(g), !.written = (write = "done")]
          /\ disk' = CASE write = "done" -> Snapshot(g)
                       [] write = "failed" -> disk
                       [] write = "truncated" -> {}

----------------------------------------------------------------------------
(* Client actions.  An action the handler rejects leaves no trace.         *)

\* What every client action has in common: only the game changes, and the
\* instance's bounds hold afterwards.
Client(op) ==
  /\ op \in Ops
  /\ UNCHANGED <<board, engineUp, busy, answers, disk, restarts>>

Bounded ==
  /\ game'.seq <= MaxSeq
  /\ Len(game'.reqs) <= MaxQueue

NewGame ==
  /\ Client("new_game")
  /\ \E p \in Deals : game' = Dealt(game, p)
  /\ Bounded

ForceStart ==
  /\ Client("start")
  /\ game.phase \in {"Setup", "Countdown"}
  /\ game' = BeginPlay(game)
  /\ Bounded

\* "move", and "choose" with a move: the same guard, the same commit.
Move ==
  /\ Client("move")
  /\ InPlay(game)
  /\ \E q \in Legal[game.pos] : game' = Commit(game, q)
  /\ Bounded

\* "choose" with no move dismisses the prompt.
Dismiss ==
  /\ Client("choose")
  /\ InPlay(game)
  /\ game' = [game EXCEPT !.choice = FALSE, !.phase = "Playing"]

Undo ==
  /\ Client("undo")
  /\ game.history # <<>>
  /\ game' = Undone(game)
  /\ Bounded

Resync ==
  /\ Client("resync")
  /\ game' = Resynced(game)

SetDetect ==
  /\ Client("set_detect")
  /\ \E mode \in Modes : game' = [game EXCEPT !.detect = mode]

\* set_config with key max_ply: the rule changes under the game being played.
SetMaxPly ==
  /\ Client("set_config")
  /\ \E n \in PlyLimits :
       game' = [game EXCEPT !.maxPly = n, !.over = @ \cup {"limit"}]

SetEval ==
  /\ Client("set_eval")
  /\ \E cp \in Decrees :
       game' = [game EXCEPT !.eval = [cp |-> cp, src |-> "Admin",
                                      status |-> "ok", of |-> NoPos]]

SetFen ==
  /\ Client("set_fen")
  /\ \E p \in Fens : game' = Overwritten(game, p)
  /\ Bounded

Rescore ==
  /\ Client("rescore")
  /\ game' = RequestEval(game, game.phase = "Scoring")
  /\ Bounded

End ==
  /\ Client("end")
  /\ \E w \in Winners : game' = Finish(game, w, "admin", "Admin")

Abort ==
  /\ Client("abort")
  /\ game' = [game EXCEPT !.phase = "Idle", !.seq = @ + 1, !.choice = FALSE,
                          !.result = NoResult, !.autopilot = FALSE,
                          !.stable = FALSE]
  /\ Bounded

SetAutopilot ==
  /\ Client("autopilot")
  /\ \E on \in BOOLEAN : game' = [game EXCEPT !.autopilot = on]

ClientAction ==
  \/ NewGame \/ ForceStart \/ Move \/ Dismiss \/ Undo \/ Resync
  \/ SetDetect \/ SetMaxPly \/ SetEval \/ SetFen \/ Rescore \/ End
  \/ Abort \/ SetAutopilot

----------------------------------------------------------------------------
(* The task's other inputs *)

Tick ==
  /\ \E clock \in Clocks, inf \in Inferences(game) :
       LET g == TickPhase(game, clock, inf)
       IN \E pick \in Picks(g) : Publish(TickAutopilot(g, pick))
  /\ Bounded
  /\ UNCHANGED <<board, engineUp, busy, answers, restarts>>

\* A device event: a snapshot heals the stream, a gap tears it first.
DeviceEvent ==
  /\ "board" \in Ops
  /\ \E gap, snapshot, changed \in BOOLEAN :
       /\ game' = [game EXCEPT !.torn = (@ \/ gap) /\ ~snapshot,
                               !.unread = @ \/ changed]
       /\ board' \in [live : {board.live \/ snapshot},
                     diff : IF changed THEN Diffs ELSE {board.diff}]
  /\ UNCHANGED <<engineUp, busy, answers, disk, restarts>>

\* The link drops, goes stale or returns, with no event to tell the task.
LinkChange ==
  /\ "board" \in Ops
  /\ board' = [board EXCEPT !.live = ~@]
  /\ UNCHANGED <<game, engineUp, busy, answers, disk, restarts>>

\* bind_device resets the observer: nothing is known until a snapshot lands.
BindDevice ==
  /\ "board" \in Ops
  /\ board' = [live |-> FALSE, diff |-> "unknown"]
  /\ UNCHANGED <<game, engineUp, busy, answers, disk, restarts>>

RecvEval ==
  /\ answers # <<>>
  /\ game' = OnEval(game, Head(answers))
  /\ answers' = Tail(answers)
  /\ UNCHANGED <<board, engineUp, busy, disk, restarts>>

----------------------------------------------------------------------------
(* The engine task *)

\* Seeded fault: drains the queue and looks at the oldest.
EngineTake_Oldest ==
  /\ engineUp /\ busy = <<>> /\ game.reqs # <<>>
  /\ busy' = <<game.reqs[1]>>
  /\ game' = [game EXCEPT !.reqs = <<>>]
  /\ UNCHANGED <<board, engineUp, answers, disk, restarts>>

\* Everything queued is drained and only the newest request is looked at.
EngineTake ==
  /\ engineUp /\ busy = <<>> /\ game.reqs # <<>>
  /\ busy' = <<game.reqs[Len(game.reqs)]>>
  /\ game' = [game EXCEPT !.reqs = <<>>]
  /\ UNCHANGED <<board, engineUp, answers, disk, restarts>>

\* A score, or "unavailable" after a failed start, a timeout or a dead child.
EngineAnswer ==
  /\ engineUp /\ busy # <<>> /\ Len(answers) < MaxQueue
  /\ \E available \in BOOLEAN :
       answers' = Append(answers,
                    [seq |-> busy[1].seq, final |-> busy[1].final,
                     of |-> busy[1].of, src |-> "Stockfish",
                     available |-> available])
  /\ busy' = <<>>
  /\ UNCHANGED <<game, board, engineUp, disk, restarts>>

\* The engine task is gone: what it held is lost, later requests are refused.
EngineDies ==
  /\ "engine_dies" \in Ops
  /\ engineUp
  /\ engineUp' = FALSE /\ busy' = <<>>
  /\ game' = [game EXCEPT !.reqs = <<>>]
  /\ UNCHANGED <<board, answers, disk, restarts>>

----------------------------------------------------------------------------
(* Restart *)

Fresh(n, mode) ==
  [phase |-> "Idle", seq |-> 0, pos |-> Home, target |-> Home,
   start |-> Unscored, plies |-> 0, maxPly |-> n, history |-> <<>>, eval |-> NoEval,
   choice |-> FALSE, result |-> NoResult, autopilot |-> FALSE,
   detect |-> mode, torn |-> FALSE, stable |-> FALSE, unread |-> FALSE,
   reqs |-> <<>>, over |-> {}, key |-> <<"Idle", -1>>,
   written |-> TRUE]

\* Seeded fault: the game resumes where it was dealt.
Restored_AtTarget(g, s) ==
  Post([g EXCEPT !.pos = s.target, !.target = s.target, !.seq = @ + 1,
                 !.over = {"restart"}, !.phase = s.phase], FALSE)

\* start_source is not in the file, so it comes back as the default.
Restored(g, s) ==
  Post(
    [g EXCEPT
      !.pos = s.pos, !.target = s.target, !.plies = s.plies, !.seq = @ + 1,
      !.start = [s.start EXCEPT !.src = "Material"],
      !.over = {"restart"},
      !.phase = CASE s.phase = "Finished" -> "Finished"
                  [] s.phase \in {"Setup", "Countdown"} -> "Setup"
                  [] OTHER -> "Playing"], FALSE)

\* The process dies between two handlers and comes back: the venue profile
\* (max_ply, detect mode) is kept, the game comes from the file.
Restart ==
  /\ "restart" \in Ops
  /\ restarts < MaxRestarts
  /\ restarts' = restarts + 1
  /\ engineUp' = TRUE /\ busy' = <<>> /\ answers' = <<>>
  /\ board' = [live |-> FALSE, diff |-> "unknown"]
  /\ LET g == Fresh(game.maxPly, game.detect)
     IN \/ disk = {} /\ Publish(g)
        \/ \E s \in disk : Publish(Restored(g, s))
  /\ Bounded

----------------------------------------------------------------------------
Init ==
  /\ \E n \in PlyLimits :
       game = [Fresh(n, "auto") EXCEPT !.key = <<"Idle", 0>>]
  /\ board = [live |-> FALSE, diff |-> "unknown"]
  /\ engineUp = TRUE
  /\ busy = <<>> /\ answers = <<>>
  /\ disk = {}
  /\ restarts = 0

Next ==
  \/ ClientAction
  \/ Tick \/ DeviceEvent \/ LinkChange \/ BindDevice \/ RecvEval
  \/ EngineTake \/ EngineAnswer \/ EngineDies
  \/ Restart

Spec == Init /\ [][Next]_vars

\* The engine task is bounded by its timeouts and the task reads its channel
\* whenever it is not empty; neither clients, board nor clock owe anything.
Fairness ==
  /\ WF_vars(EngineTake)
  /\ WF_vars(EngineAnswer)
  /\ WF_vars(RecvEval)

FairSpec == Spec /\ Fairness

----------------------------------------------------------------------------
(* Safety *)

Clean(g) == g.over \cap {"fen", "restart"} = {}

(* A number shown as an engine's is of the position shown: game_seq changes
   with the position, so no late answer is taken for the wrong one
   (mod.rs:473, "an eval for a position that has since been undone").  A move
   that mates asks for no number, so a finished game shows the last one. *)
EvalOfBoard ==
  /\ game.phase \notin {"Idle", "Finished"}
  /\ game.eval.status = "ok" /\ game.eval.src \in Engines
  => game.eval.of = game.pos

(* What carries the current game_seq is about the current position, on its way
   out, at the engine, or on its way back: game_seq names the position. *)
Fits(r, g) == r.seq <= g.seq /\ (r.seq = g.seq => r.of = g.pos)

SeqNamesPosition ==
  /\ \A i \in 1..Len(game.reqs) : Fits(game.reqs[i], game)
  /\ \A i \in 1..Len(busy) : Fits(busy[i], game)
  /\ \A i \in 1..Len(answers) : Fits(answers[i], game)

\* The newest request of the current game_seq is still to be answered.
Awaited ==
  LET wanted(r) == r.seq = game.seq
  IN \/ game.reqs # <<>> /\ wanted(game.reqs[Len(game.reqs)])
     \/ game.reqs = <<>> /\ busy # <<>> /\ wanted(busy[1])
     \/ \E i \in 1..Len(answers) : wanted(answers[i])

(* While the bar says "pending" an answer it will accept is on its way: the
   drain to the newest request, the game_seq filter and the requests each
   handler posts never leave a game waiting for nothing. *)
PendingIsAwaited ==
  /\ engineUp
  /\ game.phase \notin {"Idle", "Finished"}
  /\ game.eval.status = "pending" /\ game.eval.src # "Admin"
  => Awaited

(* The undo history is a line of legal moves ending at the board, and each of
   its plies has a recorded move to take back. *)
HistoryIsALine ==
  LET h == game.history IN
  /\ Len(h) <= game.plies
  /\ \A i \in 1..Len(h) :
       (IF i = Len(h) THEN game.pos ELSE h[i + 1].pos) \in Legal[h[i].pos]

(* The measured baseline is the dealt position's own score, never that of a
   position a few plies in (mod.rs:497, "The verdict judges the swing"). *)
BaselineIsDealt ==
  Clean(game) /\ game.start.of # NoPos
    => game.start.of = IF game.history = <<>> THEN game.pos
                       ELSE game.history[1].pos

(* A winner by evaluation was judged between two numbers of comparable
   engines, when a baseline was measured and no restart lost its source. *)
SameRuler ==
  /\ game.result.reason = "eval" /\ game.result.winner # "draw"
  /\ game.start.of # NoPos /\ "restart" \notin game.over
  => Comparable(game.start.by, game.result.by)

(* The task waits for a choice only with a prompt open; a prompt outlives the
   wait only when an administrator ended the game under it. *)
PromptMatchesPhase ==
  /\ game.phase = "AwaitingChoice" => game.choice
  /\ game.choice => game.phase \in {"AwaitingChoice", "Finished"}

(* Once published, the file is the game: though it is rewritten only when
   (phase, game_seq) changed, a restart would lose nothing but a baseline that
   will be measured again (mod.rs:1822).  The exception is a write that failed
   or was cut short, or a file that could not be removed: the key counts as
   written all the same (mod.rs:1829), and until it changes the file is an
   older game, or none, or one that was given up. *)
FileIsCurrent ==
  game.key = Key(game) /\ game.written =>
    /\ (disk = {}) <=> (game.phase = "Idle")
    /\ \A s \in disk :
         /\ s.phase = game.phase /\ s.pos = game.pos
         /\ s.target = game.target /\ s.plies = game.plies
         /\ game.plies > 0 => s.start = game.start

----------------------------------------------------------------------------
(* Action and liveness properties *)

(* A declared result changes only with a new game_seq (undo, a new position,
   an abort), by an administrator's word or by a restart: no late answer,
   settle or tap rewrites it. *)
VerdictStands ==
  [][game.result.winner # "none" /\ game'.result # game.result
       => \/ game'.seq # game.seq
          \/ game'.result.reason = "admin"
          \/ restarts' # restarts]_vars

(* A game that reaches Scoring is decided, whatever the engine does short of
   dying, unless an operator intervenes. *)
ScoringEnds ==
  game.phase = "Scoring"
    ~> \/ game.phase # "Scoring"
       \/ ~engineUp \/ game.eval.src = "Admin" \/ "fen" \in game.over

\* The positions an undo can go back to, and the one on the board.
RecordOf(g) == Append([i \in DOMAIN g.history |-> g.history[i].pos], g.pos)

(* The game the server keeps is the one of GameRecord: no answer, tap, tick,
   device event or restart changes the position on the board or the moves that
   can be taken back but by a deal, a legal move, an undo or a crash, after
   which the game goes on from what the last publication saved. *)
Record == INSTANCE GameRecord
  WITH Starts <- Deals \cup Fens,
       record <- RecordOf(game),
       saved  <- {s.pos : s \in disk}

ImplementsGameRecord == Record!Spec

----------------------------------------------------------------------------
(* What the documents promise and the code does not do *)

(* "admin decrees the number" is the last rung of the evaluation ladder
   (o5.md:114): a game being scored when the number is decreed gets a verdict. *)
DecreeDecides ==
  game.phase = "Scoring" /\ game.eval.src = "Admin"
    ~> game.phase # "Scoring"

(* "Written on every phase change, so a server restart or redeploy mid-demo is
   not fatal" (mod.rs:1836): the file holds the game that was published. *)
FileHoldsEveryPhase ==
  game.key = Key(game) =>
    \/ disk = {} /\ game.phase = "Idle"
    \/ \E s \in disk : s.phase = game.phase /\ s.pos = game.pos

(* "The swing only means anything if both ends were measured with the same
   ruler" (mod.rs:510), restart or not. *)
AlwaysSameRuler ==
  game.result.reason = "eval" /\ game.result.winner # "draw"
  /\ game.start.of # NoPos
    => Comparable(game.start.by, game.result.by)

=============================================================================
