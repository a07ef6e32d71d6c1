--------------------------- MODULE GamePlayProofs ---------------------------
(***************************************************************************)
(* What GameTask promises of a game from its deal to its verdict, proved   *)
(* for any chess, any engines, queues of any length and any number of      *)
(* restarts: the undo history, the measured baseline, the ruler of the     *)
(* verdict, the prompt, the file, and the answer a pending number waits    *)
(* for.  Each handler has one lemma that says what it does to a sound game *)
(* (InStep); the step of an action composes the lemmas of what it calls.   *)
(***************************************************************************)
EXTENDS GameTaskProofs, SequenceTheorems

(* HistoryIsALine, BaselineIsDealt, SameRuler and PromptMatchesPhase of a game
   record, each with what makes it inductive: no number is measured before the
   first ply without measuring the dealt position, the source the verdict
   compares is the one that measured, and a result is of a finished game. *)
LineOf(g) ==
  /\ Len(g.history) <= g.plies
  /\ \A i \in 1..Len(g.history) :
       (IF i = Len(g.history) THEN g.pos ELSE g.history[i + 1].pos)
         \in Legal[g.history[i].pos]

Root(g) == IF g.history = <<>> THEN g.pos ELSE g.history[1].pos

BaselineOf(g) == Clean(g) /\ g.start.of # NoPos => g.start.of = Root(g)

RulerOf(g) ==
  g.start.of # NoPos /\ "restart" \notin g.over
    => /\ g.start.src = g.start.by
       /\ g.result.reason = "eval" /\ g.result.winner # "draw"
            => Comparable(g.start.by, g.result.by)

Decided(g) ==
  /\ g.result # NoResult => g.phase = "Finished"
  /\ g.result.reason = "eval" \/ g.phase = "Scoring" => g.plies > 0

Prompted(g) ==
  /\ g.phase = "AwaitingChoice" => g.choice
  /\ g.choice => g.phase \in {"AwaitingChoice", "Finished"}

Sane(g) == LineOf(g) /\ BaselineOf(g) /\ RulerOf(g) /\ Decided(g) /\ Prompted(g)

(* What the file holds stays true of the game until game_seq moves. *)
SameSave(g, h) ==
  /\ h.key = g.key /\ h.written = g.written
  /\ \/ h.seq > g.seq
     \/ /\ h.seq = g.seq
        /\ h.pos = g.pos /\ h.target = g.target /\ h.plies = g.plies
        /\ g.plies > 0 => h.start = g.start

(* A game that comes to wait for a number has just asked for it. *)
Expecting(g) ==
  /\ g.phase \notin {"Idle", "Finished"}
  /\ g.eval.status = "pending" /\ g.eval.src # "Admin"

Asked(g) == g.reqs # <<>> /\ g.reqs[Len(g.reqs)].seq = g.seq

Asks(g, h) ==
  Expecting(h) => \/ Asked(h)
                  \/ Expecting(g) /\ h.reqs = g.reqs /\ h.seq = g.seq

InStep(g, h) == Sane(h) /\ SameSave(g, h) /\ (engineUp => Asks(g, h))

LEMMA InStepTrans ==
  ASSUME NEW f \in Game, NEW g \in Game, NEW h \in Game,
         InStep(f, g), InStep(g, h)
  PROVE  InStep(f, h)
<1>1. f.seq \in Nat /\ g.seq \in Nat /\ h.seq \in Nat
  BY DEF Game
<1>2. SameSave(f, h)
  BY <1>1 DEF InStep, SameSave
<1>3. Asks(f, g) /\ Asks(g, h) => Asks(f, h)
  BY DEF Asks, Asked
<1> QED
  BY <1>2, <1>3 DEF InStep

(* A step that leaves the moves, the numbers and the requests alone. *)
LEMMA EditInStep ==
  ASSUME NEW g \in Game, NEW h \in Game, Sane(g),
         h.history = g.history, h.pos = g.pos, h.plies = g.plies,
         h.start = g.start, h.seq = g.seq, h.reqs = g.reqs,
         h.eval = g.eval, h.target = g.target, h.key = g.key,
         h.written = g.written,
         h.over \cap {"fen", "restart"} = g.over \cap {"fen", "restart"},
         h.result = g.result \/ h.result.reason # "eval",
         \/ h.phase = g.phase \/ h.phase \in {"Idle", "Finished"}
         \/ g.phase \notin {"Idle", "Finished"},
         Decided(h), Prompted(h)
  PROVE  InStep(g, h)
<1>1. LineOf(h)
  BY DEF Sane, LineOf
<1>2. BaselineOf(h)
  BY DEF Sane, BaselineOf, Root, Clean
<1>3. RulerOf(h)
  BY DEF Sane, RulerOf
<1>4. SameSave(g, h)
  BY DEF SameSave
<1>5. Asks(g, h)
  BY DEF Asks, Expecting
<1> QED
  BY <1>1, <1>2, <1>3, <1>4, <1>5 DEF InStep, Sane

(* An answer that passes the filter is of the position on the board; before the
   first ply that is the dealt one, and a verdict compares with the source that
   measured it. *)
LEMMA OnEvalInStep ==
  ASSUME NEW g \in Game, NEW r \in Answer, Fits(r, g), Sane(g)
  PROVE  LET h == OnEval(g, r) IN
         /\ Sane(h) /\ SameSave(g, h) /\ Asks(g, h)
         /\ h.reqs = g.reqs /\ h.seq = g.seq
         /\ g.phase = "Finished" => h.result = g.result
         /\ r.seq = g.seq => ~Expecting(h)
<1> DEFINE src == IF r.available THEN r.src ELSE "Material"
           of  == IF r.available THEN r.of ELSE g.pos
           cp  == Score[src][of]
           m   == Measured(g, cp, src, of)
           f   == Finish(m, VerdictFor(m, cp, src), "eval", src)
<1>1. /\ m.history = g.history /\ m.pos = g.pos /\ m.plies = g.plies
      /\ m.seq = g.seq /\ m.reqs = g.reqs /\ m.target = g.target
      /\ m.over = g.over /\ m.result = g.result
      /\ m.key = g.key /\ m.written = g.written
      /\ m.phase = g.phase /\ m.choice = g.choice
      /\ m.eval.status = "ok"
      /\ g.plies > 0 => m.start = g.start
      /\ g.plies = 0 => /\ m.start.of = of
                        /\ m.start.src = src /\ m.start.by = src
  BY DEF Measured, Game
<1>2. g.plies \in Nat /\ g.history \in Seq(Ply)
  BY DEF Game
<1>3. g.plies = 0 => g.history = <<>>
  BY <1>2 DEF Sane, LineOf
<1>4. r.seq = g.seq => of = g.pos
  BY DEF Fits
<1>5. /\ f.history = m.history /\ f.pos = m.pos /\ f.plies = m.plies
      /\ f.seq = m.seq /\ f.reqs = m.reqs /\ f.target = m.target
      /\ f.over = m.over /\ f.start = m.start
      /\ f.key = m.key /\ f.written = m.written
      /\ f.phase = "Finished" /\ f.choice = m.choice
      /\ f.result = [winner |-> VerdictFor(m, cp, src), by |-> src,
                     reason |-> "eval"]
  BY DEF Finish, Measured, Game
<1>6. VerdictFor(m, cp, src) # "draw" => Comparable(m.start.src, src)
  BY DEF VerdictFor
<1> HIDE DEF m, f, cp, of, src
<1>7. CASE r.seq = g.seq
  <2>1. LineOf(m) /\ Decided(m) /\ Prompted(m)
    BY <1>1 DEF Sane, LineOf, Decided, Prompted
  <2>2. BaselineOf(m)
    <3>1. CASE g.plies = 0
      BY <1>1, <1>3, <1>4, <1>7, <3>1 DEF BaselineOf, Root
    <3>2. CASE g.plies > 0
      BY <1>1, <3>2 DEF Sane, BaselineOf, Root, Clean
    <3> QED
      BY <1>2, <3>1, <3>2
  <2>3. RulerOf(m)
    <3>1. CASE g.plies = 0
      <4>1. g.result.reason # "eval"
        BY <3>1 DEF Sane, Decided
      <4> QED
        BY <1>1, <3>1, <4>1 DEF RulerOf
    <3>2. CASE g.plies > 0
      BY <1>1, <3>2 DEF Sane, RulerOf
    <3> QED
      BY <1>2, <3>1, <3>2
  <2>4. g.phase = "Scoring" => Sane(f)
    <3> SUFFICES ASSUME g.phase = "Scoring" PROVE Sane(f)
      OBVIOUS
    <3>1. LineOf(f) /\ BaselineOf(f)
      BY <1>5, <2>1, <2>2 DEF LineOf, BaselineOf, Root, Clean
    <3>2. f.plies > 0
      BY <1>1, <1>5 DEF Sane, Decided
    <3>3. Decided(f) /\ Prompted(f)
      BY <1>5, <3>2 DEF Decided, Prompted
    <3>4. RulerOf(f)
      BY <1>5, <1>6, <2>3 DEF RulerOf
    <3> QED
      BY <3>1, <3>3, <3>4 DEF Sane
  <2>5. SameSave(g, m) /\ SameSave(g, f)
    BY <1>1, <1>5 DEF SameSave
  <2>6. ~Expecting(m) /\ ~Expecting(f)
    BY <1>1, <1>5 DEF Expecting
  <2>7. OnEval(g, r) = IF g.eval.src = "Admin" THEN g
                       ELSE IF r.final /\ g.phase = "Scoring" THEN f ELSE m
    BY <1>7 DEF OnEval, m, f, cp, of, src
  <2>8. g.eval.src = "Admin" => ~Expecting(g)
    BY DEF Expecting
  <2>9. SameSave(g, g)
    BY DEF SameSave
  <2>10. Sane(m)
    BY <2>1, <2>2, <2>3 DEF Sane
  <2> QED
    BY <1>1, <1>5, <2>4, <2>5, <2>6, <2>7, <2>8, <2>9, <2>10 DEF Asks
<1>8. CASE r.seq # g.seq
  BY <1>8 DEF OnEval, SameSave, Asks
<1> QED
  BY <1>7, <1>8

LEMMA RequestEvalInStep ==
  ASSUME NEW g \in Game, NEW final \in BOOLEAN, Sane(g)
  PROVE  LET h == RequestEval(g, final) IN
         /\ InStep(g, h) /\ h.seq = g.seq
         /\ engineUp => Asked(h)
         /\ g.phase = "Finished" => h.result = g.result
<1> DEFINE p == Pending(g)
           q == [seq |-> g.seq, final |-> final, of |-> g.pos]
           r == [seq |-> g.seq, final |-> final, of |-> g.pos,
                 src |-> "Material", available |-> TRUE]
           k == Post(g, final)
<1>1. p \in Game /\ k \in Game
  BY PendingType, PostType
<1>2. /\ p.history = g.history /\ p.pos = g.pos /\ p.plies = g.plies
      /\ p.seq = g.seq /\ p.target = g.target
      /\ p.over = g.over /\ p.result = g.result
      /\ p.key = g.key /\ p.written = g.written
      /\ p.phase = g.phase /\ p.choice = g.choice /\ p.start = g.start
  BY DEF Pending, Game
<1>3. /\ k.history = g.history /\ k.pos = g.pos /\ k.plies = g.plies
      /\ k.seq = g.seq /\ k.target = g.target
      /\ k.over = g.over /\ k.result = g.result
      /\ k.key = g.key /\ k.written = g.written
      /\ k.phase = g.phase /\ k.choice = g.choice /\ k.start = g.start
      /\ k.reqs = Append(g.reqs, q)
  BY DEF Post, Pending, Game
<1>4. Asked(k)
  <2>1. g.reqs \in Seq(Request)
    BY DEF Game
  <2>2. Len(k.reqs) = Len(g.reqs) + 1 /\ k.reqs[Len(g.reqs) + 1] = q
    BY <1>3, <2>1
  <2>3. k.reqs # <<>>
    BY <1>3, <2>1
  <2> QED
    BY <1>3, <2>2, <2>3 DEF Asked
<1>5. r \in Answer /\ Fits(r, p) /\ r.seq = p.seq
  BY <1>2 DEF Game, Answer, Engines, Fits
<1> HIDE DEF p, k, r, q
<1>6. Sane(p) /\ Sane(k) /\ SameSave(g, p) /\ SameSave(g, k)
  <2>1. Sane(p)
    BY <1>2 DEF Sane, LineOf, BaselineOf, Root, Clean, RulerOf, Decided, Prompted
  <2>2. Sane(k)
    BY <1>3 DEF Sane, LineOf, BaselineOf, Root, Clean, RulerOf, Decided, Prompted
  <2> QED
    BY <1>2, <1>3, <2>1, <2>2 DEF SameSave
<1>7. CASE engineUp
  <2>1. RequestEval(g, final) = k
    BY <1>7 DEF RequestEval, k
  <2> QED
    BY <1>3, <1>4, <1>6, <2>1 DEF InStep, Asks
<1>8. CASE ~engineUp
  <2>1. RequestEval(g, final) = OnEval(p, r)
    BY <1>8 DEF RequestEval, p, r
  <2> DEFINE h == OnEval(p, r)
  <2>2. /\ Sane(h) /\ SameSave(p, h) /\ h.seq = p.seq
        /\ p.phase = "Finished" => h.result = p.result
    BY <1>1, <1>5, <1>6, OnEvalInStep
  <2> HIDE DEF h
  <2>3. SameSave(g, h)
    BY <1>2, <2>2 DEF SameSave
  <2> QED
    BY <1>2, <1>8, <2>1, <2>2, <2>3 DEF InStep, h
<1> QED
  BY <1>7, <1>8

(* A handler that edits the game and ends by asking. *)
LEMMA ThenAsks ==
  ASSUME NEW g \in Game, NEW k \in Game, NEW final \in BOOLEAN,
         Sane(k), SameSave(g, k)
  PROVE  LET h == RequestEval(k, final) IN
         h \in Game /\ InStep(g, h) /\ h.seq = k.seq
<1> DEFINE h == RequestEval(k, final)
<1>1. h \in Game /\ InStep(k, h) /\ h.seq = k.seq /\ (engineUp => Asked(h))
  BY RequestEvalInStep, RequestEvalType
<1> HIDE DEF h
<1>2. g.seq \in Nat /\ k.seq \in Nat /\ h.seq \in Nat
  BY <1>1 DEF Game
<1>3. SameSave(g, h)
  BY <1>1, <1>2 DEF InStep, SameSave
<1> QED
  BY <1>1, <1>3 DEF InStep, Asks, h

----------------------------------------------------------------------------
(* The handlers *)

LEMMA FinishInStep ==
  ASSUME NEW g \in Game, NEW w \in Winners, NEW by \in Sources,
         NEW why \in {"mate", "stalemate", "admin"}, Sane(g),
         g.phase # "Scoring" \/ g.plies > 0
  PROVE  InStep(g, Finish(g, w, why, by))
<1> DEFINE h == Finish(g, w, why, by)
<1>1. h \in Game
  BY FinishType
<1>2. /\ h.history = g.history /\ h.pos = g.pos /\ h.plies = g.plies
      /\ h.start = g.start /\ h.seq = g.seq /\ h.reqs = g.reqs
      /\ h.eval = g.eval /\ h.target = g.target
      /\ h.key = g.key /\ h.written = g.written
      /\ h.over = g.over /\ h.choice = g.choice /\ h.phase = "Finished"
      /\ h.result = [winner |-> w, by |-> by, reason |-> why]
  BY DEF Finish, Game
<1> HIDE DEF h
<1>3. Decided(h) /\ Prompted(h)
  BY <1>2 DEF Decided, Prompted
<1> QED
  BY <1>1, <1>2, <1>3, EditInStep DEF h

(* A legal move lengthens the line. *)
LEMMA PlayedInStep ==
  ASSUME NEW g \in Game, NEW q \in Legal[g.pos], Sane(g), InPlay(g)
  PROVE  LET h == Played(g, q) IN
         h \in Game /\ Sane(h) /\ SameSave(g, h) /\ h.seq = g.seq + 1
         /\ h.plies > 0
<1> DEFINE ply == [pos |-> g.pos, eval |-> g.eval]
           n   == Len(g.history)
           h   == Played(g, q)
<1>1. q \in Positions
  BY ConstantsOK DEF Game
<1>2. h \in Game /\ h.seq = g.seq + 1
  BY <1>1, PlayedType
<1>3. /\ h.history = Append(g.history, ply) /\ h.pos = q
      /\ h.plies = g.plies + 1 /\ h.start = g.start
      /\ h.key = g.key /\ h.written = g.written
      /\ h.over = g.over /\ h.choice = FALSE /\ h.phase = "Playing"
      /\ h.result = g.result
  BY DEF Played, Game
<1>4. /\ g.history \in Seq(Ply) /\ ply \in Ply /\ n \in Nat
      /\ g.plies \in Nat /\ g.seq \in Nat
  BY DEF Game, Ply
<1>5. /\ Len(h.history) = n + 1 /\ h.history[n + 1] = ply
      /\ \A i \in 1..n : h.history[i] = g.history[i]
      /\ h.history # <<>>
  BY <1>3, <1>4
<1>6. ply.pos = g.pos
  OBVIOUS
<1> HIDE DEF h, ply, n
<1>7. LineOf(h)
  <2>1. n <= g.plies
    BY DEF Sane, LineOf, n
  <2>2. ASSUME NEW i \in 1..(n + 1)
        PROVE  (IF i = n + 1 THEN h.pos ELSE h.history[i + 1].pos)
                 \in Legal[h.history[i].pos]
    <3>1. CASE i = n + 1
      BY <1>3, <1>5, <1>6, <3>1
    <3>2. CASE i = n /\ i # n + 1
      <4>1. g.pos \in Legal[g.history[n].pos]
        BY <1>4, <3>2 DEF Sane, LineOf, n
      <4> QED
        BY <1>4, <1>5, <1>6, <3>2, <4>1
    <3>3. CASE i < n
      <4>1. g.history[i + 1].pos \in Legal[g.history[i].pos]
        BY <1>4, <3>3 DEF Sane, LineOf, n
      <4> QED
        BY <1>4, <1>5, <3>3, <4>1
    <3> QED
      BY <1>4, <3>1, <3>2, <3>3
  <2> QED
    BY <1>3, <1>4, <1>5, <2>1, <2>2 DEF LineOf
<1>8. BaselineOf(h)
  <2>1. Root(h) = Root(g)
    <3>1. CASE g.history = <<>>
      BY <1>4, <1>5, <1>6, <3>1 DEF Root, n
    <3>2. CASE g.history # <<>>
      BY <1>4, <1>5, <3>2 DEF Root, n
    <3> QED
      BY <3>1, <3>2
  <2> QED
    BY <1>3, <2>1 DEF Sane, BaselineOf, Clean
<1>9. RulerOf(h)
  BY <1>3 DEF Sane, RulerOf
<1>10. Decided(h) /\ Prompted(h) /\ h.plies > 0
  BY <1>3, <1>4 DEF Sane, Decided, Prompted, InPlay
<1>11. SameSave(g, h)
  BY <1>2, <1>3, <1>4 DEF SameSave
<1> QED
  BY <1>2, <1>7, <1>8, <1>9, <1>10, <1>11 DEF Sane, h

LEMMA CommitInStep ==
  ASSUME NEW g \in Game, NEW q \in Legal[g.pos], Sane(g), InPlay(g)
  PROVE  InStep(g, Commit(g, q))
<1> DEFINE h == Played(g, q)
           k == [h EXCEPT !.phase = "Scoring"]
<1>1. /\ h \in Game /\ Sane(h) /\ SameSave(g, h) /\ h.seq = g.seq + 1
      /\ h.plies > 0
  BY PlayedInStep
<1>2. h.phase = "Playing" /\ h.choice = FALSE /\ q \in Positions
  BY ConstantsOK DEF Played, Game
<1> HIDE DEF h
<1>3. h.eval.src \in Sources
  BY <1>1 DEF Game, Eval
<1>4. ASSUME NEW w \in Winners, NEW why \in {"mate", "stalemate"}
      PROVE  InStep(g, Finish(h, w, why, h.eval.src))
  <2> DEFINE f == Finish(h, w, why, h.eval.src)
  <2>1. f \in Game /\ InStep(h, f)
    BY <1>1, <1>3, FinishType, FinishInStep
  <2>2. f.phase = "Finished" /\ f.seq = h.seq
    BY <1>1 DEF Finish, Game
  <2> HIDE DEF f
  <2>3. SameSave(g, f)
    BY <1>1, <2>1, <2>2 DEF InStep, SameSave, Game
  <2> QED
    BY <2>1, <2>2, <2>3 DEF InStep, Asks, Expecting, f
<1>5. k \in Game
  BY <1>1 DEF Game, Phases
<1>6. /\ k.history = h.history /\ k.pos = h.pos /\ k.plies = h.plies
      /\ k.start = h.start /\ k.seq = h.seq /\ k.target = h.target
      /\ k.over = h.over /\ k.choice = h.choice
      /\ k.key = h.key /\ k.written = h.written
      /\ k.result = h.result /\ k.phase = "Scoring"
  BY <1>1 DEF Game
<1> HIDE DEF k
<1>7. Sane(k) /\ SameSave(g, k)
  <2>1. LineOf(k) /\ BaselineOf(k) /\ RulerOf(k)
    BY <1>1, <1>6 DEF Sane, LineOf, BaselineOf, Root, Clean, RulerOf
  <2>2. Decided(k) /\ Prompted(k)
    BY <1>1, <1>2, <1>6 DEF Sane, Decided, Prompted
  <2>3. SameSave(g, k)
    BY <1>1, <1>6 DEF SameSave
  <2> QED
    BY <2>1, <2>2, <2>3 DEF Sane
<1>8. InStep(g, RequestEval(k, TRUE)) /\ InStep(g, RequestEval(h, FALSE))
  BY <1>1, <1>5, <1>7, ThenAsks
<1> QED
  BY <1>4, <1>8 DEF Commit, Winners, h, k

(* A move taken back shortens the line, down to the dealt position. *)
LEMMA UndoneInStep ==
  ASSUME NEW g \in Game, g.history # <<>>, Sane(g)
  PROVE  InStep(g, Undone(g)) /\ Undone(g).seq = g.seq + 1
<1> DEFINE n   == Len(g.history)
           ply == g.history[n]
           h   == TakenBack(g)
<1>1. g.history \in Seq(Ply) /\ n \in Nat /\ n > 0 /\ g.plies \in Nat
      /\ g.seq \in Nat
  BY DEF Game
<1>2. ply \in Ply /\ ply.pos \in Positions /\ ply.eval \in Eval
  <2>1. ply \in Ply
    BY <1>1
  <2> QED
    BY <2>1 DEF Ply
<1>3. SubSeq(g.history, 1, n - 1) \in Seq(Ply)
  BY <1>1
<1>4. ASSUME NEW q \in Positions, NEW e \in Eval, NEW s \in Seq(Ply),
             NEW m \in Nat, NEW k \in Nat
      PROVE  [g EXCEPT !.pos = q, !.eval = e, !.history = s, !.plies = m,
                       !.seq = k, !.phase = "Playing", !.choice = FALSE,
                       !.result = NoResult, !.unread = FALSE] \in Game
  BY DEF Game, Phases, NoResult, Result, Sources
<1>5. (IF g.plies = 0 THEN 0 ELSE g.plies - 1) \in Nat /\ g.seq + 1 \in Nat
  BY <1>1
<1>6. h \in Game
  BY <1>2, <1>3, <1>4, <1>5 DEF TakenBack
<1>7. /\ h.history = SubSeq(g.history, 1, n - 1) /\ h.pos = ply.pos
      /\ h.plies = (IF g.plies = 0 THEN 0 ELSE g.plies - 1)
      /\ h.start = g.start /\ h.seq = g.seq + 1
      /\ h.over = g.over /\ h.choice = FALSE
      /\ h.key = g.key /\ h.written = g.written
      /\ h.result = NoResult /\ h.phase = "Playing"
  BY DEF TakenBack, Game
<1> HIDE DEF h
<1>8. /\ Len(h.history) = n - 1
      /\ \A i \in 1..(n - 1) : h.history[i] = g.history[i]
  BY <1>1, <1>7
<1>9. n <= g.plies
  BY DEF Sane, LineOf
<1>10. ASSUME NEW i \in 1..(n - 1)
       PROVE  g.history[i + 1].pos \in Legal[g.history[i].pos]
  <2>1. i \in 1..n /\ i # n
    BY <1>1
  <2> QED
    BY <2>1 DEF Sane, LineOf
<1> HIDE DEF n
<1>11. LineOf(h)
  <2>1. Len(h.history) <= h.plies
    BY <1>1, <1>7, <1>8, <1>9
  <2>2. ASSUME NEW i \in 1..(n - 1)
        PROVE  (IF i = n - 1 THEN h.pos ELSE h.history[i + 1].pos)
                 \in Legal[h.history[i].pos]
    <3>1. CASE i = n - 1
      <4>1. i + 1 = n
        BY <1>1, <3>1
      <4> QED
        BY <1>7, <1>8, <1>10, <3>1, <4>1
    <3>2. CASE i # n - 1
      <4>1. i + 1 \in 1..(n - 1)
        BY <1>1, <3>2
      <4> QED
        BY <1>8, <1>10, <3>2, <4>1
    <3> QED
      BY <3>1, <3>2
  <2> QED
    BY <1>8, <2>1, <2>2 DEF LineOf
<1>12. BaselineOf(h)
  <2>1. Root(h) = g.history[1].pos
    <3>1. CASE n = 1
      <4>1. h.history = <<>>
        BY <1>1, <1>7, <3>1
      <4> QED
        BY <1>7, <3>1, <4>1 DEF Root
    <3>2. CASE n # 1
      <4>1. 1 \in 1..(n - 1) /\ h.history # <<>>
        BY <1>1, <1>8, <3>2
      <4> QED
        BY <1>8, <4>1 DEF Root
    <3> QED
      BY <3>1, <3>2
  <2> QED
    BY <1>7, <2>1 DEF Sane, BaselineOf, Root, Clean
<1>13. RulerOf(h) /\ Decided(h) /\ Prompted(h)
  BY <1>7 DEF Sane, RulerOf, Decided, Prompted, NoResult
<1>14. SameSave(g, h)
  BY <1>1, <1>7 DEF SameSave
<1> QED
  BY <1>6, <1>7, <1>11, <1>12, <1>13, <1>14, ThenAsks DEF Sane, Undone, h

LEMMA BeginPlayInStep ==
  ASSUME NEW g \in Game, Sane(g), g.phase \in {"Setup", "Countdown"}
  PROVE  InStep(g, BeginPlay(g))
<1> DEFINE h == [g EXCEPT !.phase = "Playing", !.stable = FALSE,
                          !.unread = FALSE]
<1>1. h \in Game
  BY DEF Game, Phases
<1>2. /\ h.history = g.history /\ h.pos = g.pos /\ h.plies = g.plies
      /\ h.start = g.start /\ h.seq = g.seq /\ h.target = g.target
      /\ h.over = g.over /\ h.choice = g.choice
      /\ h.key = g.key /\ h.written = g.written
      /\ h.result = g.result /\ h.phase = "Playing"
  BY DEF Game
<1> HIDE DEF h
<1>3. LineOf(h) /\ BaselineOf(h) /\ RulerOf(h)
  BY <1>2 DEF Sane, LineOf, BaselineOf, Root, Clean, RulerOf
<1>4. Decided(h) /\ Prompted(h)
  BY <1>2 DEF Sane, Decided, Prompted, NoResult
<1>5. SameSave(g, h)
  BY <1>2 DEF SameSave
<1> QED
  BY <1>1, <1>3, <1>4, <1>5, ThenAsks DEF Sane, BeginPlay, h

LEMMA ResyncedInStep ==
  ASSUME NEW g \in Game, Sane(g)
  PROVE  InStep(g, Resynced(g)) /\ Resynced(g).result = g.result
<1> DEFINE h == Resynced(g)
<1>1. h \in Game
  BY ResyncedType
<1>2. /\ h.history = g.history /\ h.pos = g.pos /\ h.plies = g.plies
      /\ h.start = g.start /\ h.seq = g.seq /\ h.reqs = g.reqs
      /\ h.eval = g.eval /\ h.target = g.target
      /\ h.key = g.key /\ h.written = g.written
      /\ h.over = g.over /\ h.choice = FALSE /\ h.result = g.result
      /\ h.phase = IF g.phase = "AwaitingChoice" THEN "Playing" ELSE g.phase
  BY DEF Resynced, Game
<1> HIDE DEF h
<1>3. Decided(h) /\ Prompted(h)
  BY <1>2 DEF Sane, Decided, Prompted
<1> QED
  BY <1>1, <1>2, <1>3, EditInStep DEF h

LEMMA DealtInStep ==
  ASSUME NEW g \in Game, NEW p \in Positions
  PROVE  InStep(g, Dealt(g, p)) /\ Dealt(g, p).seq = g.seq + 1
<1> DEFINE h == SetUp(g, p)
<1>1. NoEval \in Eval /\ Unscored \in Start /\ NoResult \in Result
  BY DEF NoEval, Unscored, NoResult, Eval, Start, Result, Sources, Engines
<1>2. g.seq \in Nat /\ g.seq + 1 \in Nat /\ <<>> \in Seq(Ply)
  BY DEF Game
<1>3. ASSUME NEW k \in Nat, NEW s \in Seq(Ply)
      PROVE  [g EXCEPT !.seq = k, !.phase = "Setup", !.target = p, !.pos = p,
                       !.plies = 0, !.history = s, !.choice = FALSE,
                       !.result = NoResult, !.stable = FALSE,
                       !.eval = NoEval, !.start = Unscored, !.torn = FALSE,
                       !.over = {}] \in Game
  BY <1>1 DEF Game, Phases
<1>4. h \in Game
  BY <1>2, <1>3 DEF SetUp
<1>5. /\ h.history = <<>> /\ h.plies = 0 /\ h.start.of = NoPos
      /\ h.seq = g.seq + 1 /\ h.choice = FALSE
      /\ h.key = g.key /\ h.written = g.written
      /\ h.result = NoResult /\ h.phase = "Setup"
  BY DEF SetUp, Unscored, Game
<1> HIDE DEF h
<1>6. Sane(h) /\ SameSave(g, h)
  BY <1>2, <1>5 DEF Sane, LineOf, BaselineOf, RulerOf, Decided, Prompted,
     NoResult, SameSave
<1> QED
  BY <1>4, <1>5, <1>6, ThenAsks DEF Dealt, h

(* set_fen: the line starts anew and the baseline goes with the puzzle. *)
LEMMA OverwrittenInStep ==
  ASSUME NEW g \in Game, NEW p \in Positions, Sane(g)
  PROVE  InStep(g, Overwritten(g, p)) /\ Overwritten(g, p).seq = g.seq + 1
<1> DEFINE target == IF InPlay(g) THEN g.target ELSE p
           start  == IF InPlay(g) THEN g.start
                     ELSE [g.start EXCEPT !.cp = 0, !.by = "Unknown", !.of = NoPos]
           phase  == IF g.phase \in {"Idle", "Finished", "AwaitingChoice"}
                     THEN "Playing" ELSE g.phase
           over   == g.over \cup {"fen"}
           m      == Imposed(g, p)
           h      == Resynced(m)
<1>1. target \in Positions /\ phase \in Phases /\ NoResult \in Result
  BY DEF Game, Phases, NoResult, Result, Sources
<1>2. start \in Start /\ (start.of # NoPos => start = g.start)
  <2>1. g.start \in Start
    BY DEF Game
  <2>2. ASSUME NEW s \in Start
        PROVE  LET t == [s EXCEPT !.cp = 0, !.by = "Unknown", !.of = NoPos]
               IN  t \in Start /\ t.of = NoPos
    <3>1. 0 \in Int /\ "Unknown" \in Sources /\ NoPos \in Positions \cup {NoPos}
      BY DEF Sources
    <3> QED
      BY <3>1 DEF Start
  <2> QED
    BY <2>1, <2>2
<1>3. g.seq \in Nat /\ g.seq + 1 \in Nat /\ <<>> \in Seq(Ply)
      /\ over \in SUBSET {"fen", "restart", "limit"}
  BY DEF Game
<1>4. ASSUME NEW k \in Nat, NEW s \in Seq(Ply), NEW t \in Positions,
             NEW b \in Start, NEW f \in Phases,
             NEW o \in SUBSET {"fen", "restart", "limit"}
      PROVE  [g EXCEPT !.pos = p, !.seq = k, !.history = s, !.choice = FALSE,
                       !.result = NoResult, !.over = o, !.target = t,
                       !.start = b, !.phase = f] \in Game
  BY <1>1 DEF Game
<1>5. m \in Game
  BY <1>1, <1>2, <1>3, <1>4 DEF Imposed
<1>6. /\ m.history = <<>> /\ m.plies = g.plies /\ m.start = start
      /\ m.seq = g.seq + 1 /\ m.over = over
      /\ m.key = g.key /\ m.written = g.written
      /\ m.choice = FALSE /\ m.result = NoResult /\ m.phase = phase
  BY DEF Imposed, Game
<1> HIDE DEF m, start
<1>7. Sane(m)
  <2>1. LineOf(m) /\ BaselineOf(m)
    <3>1. g.plies \in Nat
      BY DEF Game
    <3>2. Len(m.history) = 0 /\ Len(m.history) <= m.plies
      BY <1>6, <3>1
    <3>3. "fen" \in m.over
      BY <1>6
    <3> QED
      BY <3>2, <3>3 DEF LineOf, BaselineOf, Clean
  <2>2. RulerOf(m)
    BY <1>2, <1>6 DEF Sane, RulerOf, NoResult
  <2>3. Decided(m) /\ Prompted(m)
    BY <1>6 DEF Sane, Decided, Prompted, NoResult
  <2> QED
    BY <2>1, <2>2, <2>3 DEF Sane
<1>8. h \in Game /\ InStep(m, h) /\ h.seq = m.seq
  BY <1>5, <1>7, ResyncedType, ResyncedInStep
<1> HIDE DEF h
<1>9. h.key = g.key /\ h.written = g.written /\ SameSave(g, h) /\ Sane(h)
  BY <1>3, <1>6, <1>8 DEF InStep, SameSave
<1> QED
  BY <1>6, <1>8, <1>9, ThenAsks DEF Overwritten, h, m

LEMMA SameInStep ==
  ASSUME NEW g \in Game, Sane(g)
  PROVE  InStep(g, g)
BY DEF InStep, SameSave, Asks

LEMMA OnInferenceInStep ==
  ASSUME NEW g \in Game, NEW inf \in Inferences(g), Sane(g), InPlay(g)
  PROVE  InStep(g, OnInference(g, inf))
<1> DEFINE h == [g EXCEPT !.phase = "Playing", !.choice = FALSE]
<1>1. InStep(g, Ask(g))
  <2> DEFINE k == Ask(g)
  <2>1. k \in Game
    BY DEF Ask, Game, Phases
  <2>2. /\ k.history = g.history /\ k.pos = g.pos /\ k.plies = g.plies
        /\ k.start = g.start /\ k.seq = g.seq /\ k.reqs = g.reqs
        /\ k.eval = g.eval /\ k.target = g.target
        /\ k.key = g.key /\ k.written = g.written
        /\ k.over = g.over /\ k.choice /\ k.result = g.result
        /\ k.phase = "AwaitingChoice"
    BY DEF Ask, Game
  <2> HIDE DEF k
  <2>3. Decided(k) /\ Prompted(k)
    BY <2>2 DEF Sane, Decided, Prompted, InPlay
  <2> QED
    BY <2>1, <2>2, <2>3, EditInStep DEF InPlay, k
<1>2. InStep(g, h)
  <2>1. h \in Game
    BY DEF Game, Phases
  <2>2. /\ h.history = g.history /\ h.pos = g.pos /\ h.plies = g.plies
        /\ h.start = g.start /\ h.seq = g.seq /\ h.reqs = g.reqs
        /\ h.eval = g.eval /\ h.target = g.target
        /\ h.key = g.key /\ h.written = g.written
        /\ h.over = g.over /\ h.choice = FALSE /\ h.result = g.result
        /\ h.phase = "Playing"
    BY DEF Game
  <2> HIDE DEF h
  <2>3. Decided(h) /\ Prompted(h)
    BY <2>2 DEF Sane, Decided, Prompted, InPlay
  <2> QED
    BY <2>1, <2>2, <2>3, EditInStep DEF InPlay
<1>3. inf.kind = "commit" => inf.pos \in Legal[g.pos]
  BY DEF Inferences
<1>4. inf.kind = "commit" => InStep(g, Commit(g, inf.pos))
  BY <1>3, CommitInStep
<1> QED
  BY <1>1, <1>2, <1>4, SameInStep DEF OnInference

LEMMA TickPhaseInStep ==
  ASSUME NEW g \in Game, NEW clock \in Clocks, NEW inf \in Inferences(g),
         Sane(g)
  PROVE  InStep(g, TickPhase(g, clock, inf))
<1> DEFINE h == TickPhase(g, clock, inf)
<1>1. h \in Game
  BY TickPhaseType
<1>2. ASSUME g.phase \in {"Setup", "Countdown"}, NEW b \in BOOLEAN,
             NEW f \in {"Setup", "Countdown"}
      PROVE  InStep(g, [g EXCEPT !.stable = b, !.phase = f])
  <2> DEFINE k == [g EXCEPT !.stable = b, !.phase = f]
  <2>1. k \in Game
    BY DEF Game, Phases
  <2>2. /\ k.history = g.history /\ k.pos = g.pos /\ k.plies = g.plies
        /\ k.start = g.start /\ k.seq = g.seq /\ k.reqs = g.reqs
        /\ k.eval = g.eval /\ k.target = g.target
        /\ k.key = g.key /\ k.written = g.written
        /\ k.over = g.over /\ k.choice = g.choice /\ k.result = g.result
        /\ k.phase = f
    BY DEF Game
  <2> HIDE DEF k
  <2>3. Decided(k) /\ Prompted(k)
    BY <1>2, <2>2 DEF Sane, Decided, Prompted
  <2> QED
    BY <1>2, <2>1, <2>2, <2>3, EditInStep DEF k
<1>3. CASE g.phase = "Setup"
  <2>1. h = TickSetup(g, clock)
    BY <1>3 DEF TickPhase, InPlay
  <2>2. [g EXCEPT !.stable = FALSE] = [g EXCEPT !.stable = FALSE, !.phase = "Setup"]
    BY <1>3 DEF Game
  <2>3. (IF g.stable /\ clock = "elapsed" THEN "Countdown" ELSE g.phase)
          \in {"Setup", "Countdown"}
    BY <1>3
  <2> HIDE DEF h
  <2>4. \A f \in {"Setup", "Countdown"} :
          /\ InStep(g, [g EXCEPT !.stable = TRUE, !.phase = f])
          /\ InStep(g, [g EXCEPT !.stable = FALSE, !.phase = f])
    BY <1>2, <1>3
  <2>5. InStep(g, TickSetup(g, clock))
    BY <2>2, <2>3, <2>4 DEF TickSetup
  <2> QED
    BY <2>1, <2>5 DEF h
<1>4. CASE g.phase = "Countdown"
  <2>1. h = TickCountdown(g, clock)
    BY <1>4 DEF TickPhase, InPlay
  <2>2. [g EXCEPT !.phase = "Setup", !.stable = FALSE]
          = [g EXCEPT !.stable = FALSE, !.phase = "Setup"]
    BY DEF Game
  <2>3. InStep(g, [g EXCEPT !.phase = "Setup", !.stable = FALSE])
    BY <1>2, <1>4, <2>2
  <2>4. InStep(g, BeginPlay(g)) /\ InStep(g, g)
    BY <1>4, BeginPlayInStep, SameInStep
  <2> QED
    BY <2>1, <2>3, <2>4 DEF TickCountdown
<1>5. CASE InPlay(g)
  <2> DEFINE k == [g EXCEPT !.unread = FALSE]
  <2>1. h = TickPlaying(g, clock, inf)
    BY <1>5 DEF TickPhase, InPlay
  <2>2. k \in Game
    BY DEF Game
  <2>3. /\ k.history = g.history /\ k.pos = g.pos /\ k.plies = g.plies
        /\ k.start = g.start /\ k.seq = g.seq /\ k.reqs = g.reqs
        /\ k.eval = g.eval /\ k.target = g.target
        /\ k.key = g.key /\ k.written = g.written
        /\ k.over = g.over /\ k.choice = g.choice /\ k.result = g.result
        /\ k.phase = g.phase
    BY DEF Game
  <2> HIDE DEF k
  <2>4. Decided(k) /\ Prompted(k)
    BY <2>3 DEF Sane, Decided, Prompted
  <2>5. InStep(g, k)
    BY <2>2, <2>3, <2>4, EditInStep
  <2>6. inf \in Inferences(k) /\ InPlay(k)
    BY <1>5, <2>3 DEF Inferences, InPlay
  <2>7. /\ OnInference(k, inf) \in Game /\ InStep(k, OnInference(k, inf))
    BY <2>2, <2>5, <2>6, OnInferenceType, OnInferenceInStep DEF InStep
  <2>8. InStep(g, OnInference(k, inf)) /\ InStep(g, g)
    BY <2>2, <2>5, <2>7, InStepTrans, SameInStep
  <2> QED
    BY <2>1, <2>8 DEF TickPlaying, k
<1>6. CASE g.phase \notin {"Setup", "Countdown"} /\ ~InPlay(g)
  BY <1>6, SameInStep DEF TickPhase
<1> QED
  BY <1>3, <1>4, <1>5, <1>6

LEMMA TickAutopilotInStep ==
  ASSUME NEW g \in Game, NEW pick \in Picks(g), Sane(g)
  PROVE  InStep(g, TickAutopilot(g, pick))
<1>1. pick = NoPos \/ (pick \in Legal[g.pos] /\ InPlay(g))
  BY DEF Picks
<1> QED
  BY <1>1, CommitInStep, SameInStep DEF TickAutopilot

----------------------------------------------------------------------------
(* The invariant.  FileIsCurrent speaks of a game that has just been published;
   between two publications the file stays true of the game until game_seq
   moves, whatever the phase does meanwhile, if it was written. *)
Filed ==
  /\ game.key[2] <= game.seq
  /\ game.written /\ game.key[2] = game.seq =>
       /\ (disk = {}) <=> (game.key[1] = "Idle")
       /\ \A s \in disk :
            /\ s.phase = game.key[1] /\ s.pos = game.pos
            /\ s.target = game.target /\ s.plies = game.plies
            /\ game.plies > 0 => s.start = game.start

PlayInv == IInv /\ Sane(game) /\ Filed /\ PendingIsAwaited

LEMMA PendingParts ==
  PendingIsAwaited <=> (engineUp /\ Expecting(game) => Awaited)
BY DEF PendingIsAwaited, Expecting

LEMMA AskedAwaits ==
  ASSUME Asked(game)
  PROVE  Awaited
BY DEF Asked, Awaited

(* A handler's step that publishes nothing and takes nothing from a channel. *)
LEMMA HandlerStep ==
  ASSUME PlayInv, IInv', InStep(game, game'),
         UNCHANGED <<engineUp, busy, answers, disk>>
  PROVE  PlayInv'
<1>1. game \in Game /\ game' \in Game
  BY DEF PlayInv, IInv, TypeOK
<1>2. game.seq \in Nat /\ game'.seq \in Nat /\ game.key[2] \in Int
  BY <1>1 DEF Game
<1>3. SameSave(game, game') /\ Sane(game')
  BY DEF InStep
<1>4. Filed'
  BY <1>2, <1>3 DEF PlayInv, Filed, SameSave
<1>5. PendingIsAwaited'
  <2> SUFFICES ASSUME engineUp', Expecting(game') PROVE Awaited'
    BY DEF PendingIsAwaited, Expecting
  <2>1. CASE Asked(game')
    BY <2>1 DEF Asked, Awaited
  <2>2. CASE Expecting(game) /\ game'.reqs = game.reqs /\ game'.seq = game.seq
    <3>1. Awaited
      BY <2>2, PendingParts DEF PlayInv
    <3> QED
      BY <2>2, <3>1 DEF Awaited
  <2> QED
    BY <2>1, <2>2 DEF InStep, Asks
<1> QED
  BY <1>3, <1>4, <1>5 DEF PlayInv

(* Publishing changes only the key and whether its write went through, and
   leaves a file that holds the game if it did. *)
LEMMA PublishEdits ==
  ASSUME TypeOK, NEW g \in Game, Publish(g), Sane(g)
  PROVE  /\ Sane(game') /\ game'.seq = g.seq /\ game'.reqs = g.reqs
         /\ Expecting(game') <=> Expecting(g)
         /\ game'.result = g.result
<1>1. /\ game'.history = g.history /\ game'.pos = g.pos
      /\ game'.plies = g.plies /\ game'.start = g.start
      /\ game'.seq = g.seq /\ game'.reqs = g.reqs /\ game'.eval = g.eval
      /\ game'.over = g.over /\ game'.choice = g.choice
      /\ game'.result = g.result /\ game'.phase = g.phase
  BY DEF Publish, Game
<1>2. Sane(game')
  BY <1>1 DEF Sane, LineOf, BaselineOf, Root, Clean, RulerOf, Decided, Prompted
<1> QED
  BY <1>1, <1>2 DEF Expecting

LEMMA PublishFiles ==
  ASSUME TypeOK, NEW g \in Game, Publish(g),
         g.key # Key(g) \/ (Filed /\ SameSave(game, g))
  PROVE  Filed'
<1>1. /\ game'.pos = g.pos /\ game'.target = g.target
      /\ game'.plies = g.plies /\ game'.start = g.start
      /\ game'.seq = g.seq /\ game'.phase = g.phase
      /\ game'.key[1] = g.phase /\ game'.key[2] = g.seq
  <2>1. Key(g)[1] = g.phase /\ Key(g)[2] = g.seq
    BY DEF Key
  <2>2. CASE g.key = Key(g)
    BY <2>1, <2>2 DEF Publish
  <2>3. CASE g.key # Key(g)
    BY <2>1, <2>3 DEF Publish, Game
  <2> QED
    BY <2>2, <2>3
<1>2. g.seq \in Nat /\ game \in Game
  BY DEF Game, TypeOK
<1>3. CASE g.key # Key(g)
  <2> DEFINE r == [phase |-> g.phase, pos |-> g.pos, target |-> g.target,
                   start |-> g.start, plies |-> g.plies]
  <2>1. PICK write \in {"done"} \cup Faults :
          /\ game' = [g EXCEPT !.key = Key(g), !.written = (write = "done")]
          /\ disk' = CASE write = "done" -> Snapshot(g)
                       [] write = "failed" -> disk
                       [] write = "truncated" -> {}
    BY <1>3 DEF Publish
  <2>2. game'.written = (write = "done")
    BY <2>1 DEF Game
  <2>3. CASE write # "done"
    <3>1. ~game'.written
      BY <2>2, <2>3
    <3> QED
      BY <1>1, <1>2, <3>1 DEF Filed
  <2>4. CASE write = "done" /\ g.phase = "Idle"
    <3>1. disk' = {}
      BY <2>1, <2>4 DEF Snapshot
    <3> QED
      BY <1>1, <1>2, <2>4, <3>1 DEF Filed
  <2>5. CASE write = "done" /\ g.phase # "Idle"
    <3>1. disk' = {r}
      BY <2>1, <2>5 DEF Snapshot
    <3>2. /\ r.phase = g.phase /\ r.pos = g.pos /\ r.target = g.target
          /\ r.start = g.start /\ r.plies = g.plies
      OBVIOUS
    <3> HIDE DEF r
    <3> QED
      BY <1>1, <1>2, <2>5, <3>1, <3>2 DEF Filed
  <2> QED
    BY <2>3, <2>4, <2>5
<1>4. CASE g.key = Key(g) /\ Filed /\ SameSave(game, g)
  <2>1. disk' = disk /\ game'.written = game.written
    BY <1>4 DEF Publish, SameSave
  <2>2. game.key[1] = g.phase /\ game.key[2] = g.seq
    BY <1>4 DEF SameSave, Key
  <2>3. game.seq \in Nat /\ g.seq = game.seq
    BY <1>2, <1>4, <2>2 DEF SameSave, Filed, Game
  <2>4. game.written =>
          /\ (disk = {}) <=> (g.phase = "Idle")
          /\ \A s \in disk :
               /\ s.phase = g.phase /\ s.pos = g.pos
               /\ s.target = g.target /\ s.plies = g.plies
               /\ g.plies > 0 => s.start = g.start
    BY <1>4, <2>2, <2>3 DEF SameSave, Filed, Game
  <2> QED
    BY <1>1, <1>2, <2>1, <2>4 DEF Filed
<1> QED
  BY <1>3, <1>4

LEMMA ClientInStep ==
  ASSUME TypeOK, Sane(game), ClientAction
  PROVE  InStep(game, game') /\ UNCHANGED <<engineUp, busy, answers, disk>>
<1>0. game \in Game
  BY DEF TypeOK
<1>1. UNCHANGED <<engineUp, busy, answers, disk>>
  BY DEF ClientAction, NewGame, ForceStart, Move, Dismiss, Undo, Resync,
     SetDetect, SetMaxPly, SetEval, SetFen, Rescore, End, Abort, SetAutopilot,
     Client
<1> SUFFICES InStep(game, game')
  BY <1>1
<1>2. CASE NewGame
  BY <1>0, <1>2, DealtInStep, ConstantsOK DEF NewGame
<1>3. CASE ForceStart
  BY <1>0, <1>3, BeginPlayInStep DEF ForceStart
<1>4. CASE Move
  BY <1>0, <1>4, CommitInStep DEF Move
<1>5. CASE Undo
  BY <1>0, <1>5, UndoneInStep DEF Undo
<1>6. CASE Resync
  BY <1>0, <1>6, ResyncedInStep DEF Resync
<1>7. CASE SetFen
  BY <1>0, <1>7, OverwrittenInStep, ConstantsOK DEF SetFen
<1>8. CASE Rescore
  BY <1>0, <1>8, RequestEvalInStep DEF Rescore
<1>9. CASE End
  <2>1. PICK w \in Winners : game' = Finish(game, w, "admin", "Admin")
    BY <1>9 DEF End
  <2>2. game.phase # "Scoring" \/ game.plies > 0
    BY DEF Sane, Decided
  <2> QED
    BY <1>0, <2>1, <2>2, FinishInStep DEF Sources
<1>10. CASE Dismiss \/ SetDetect \/ SetMaxPly \/ SetAutopilot
  <2>1. game' \in Game
    BY <1>10, ClientType DEF ClientAction, TypeOK
  <2>2. /\ game'.history = game.history /\ game'.pos = game.pos
        /\ game'.plies = game.plies /\ game'.start = game.start
        /\ game'.seq = game.seq /\ game'.reqs = game.reqs
        /\ game'.eval = game.eval /\ game'.target = game.target
        /\ game'.result = game.result
        /\ game'.key = game.key /\ game'.written = game.written
        /\ \/ game'.phase = game.phase /\ game'.choice = game.choice
           \/ game'.phase = "Playing" /\ game'.choice = FALSE /\ InPlay(game)
    BY <1>0, <1>10 DEF Dismiss, SetDetect, SetMaxPly, SetAutopilot, Game
  <2>3. game'.over \cap {"fen", "restart"} = game.over \cap {"fen", "restart"}
    <3>1. game'.over \in {game.over, game.over \cup {"limit"}}
      BY <1>0, <1>10 DEF Dismiss, SetDetect, SetMaxPly, SetAutopilot, Game
    <3>2. (game.over \cup {"limit"}) \cap {"fen", "restart"}
            = game.over \cap {"fen", "restart"}
      OBVIOUS
    <3> QED
      BY <3>1, <3>2
  <2>4. Decided(game') /\ Prompted(game')
    BY <2>2 DEF Sane, Decided, Prompted, InPlay
  <2> QED
    BY <1>0, <2>1, <2>2, <2>3, <2>4, EditInStep DEF InPlay
<1>11. CASE SetEval
  <2>1. /\ game'.history = game.history /\ game'.pos = game.pos
        /\ game'.plies = game.plies /\ game'.start = game.start
        /\ game'.seq = game.seq /\ game'.target = game.target
        /\ game'.result = game.result
        /\ game'.key = game.key /\ game'.written = game.written
        /\ game'.phase = game.phase /\ game'.choice = game.choice
        /\ game'.over = game.over /\ game'.eval.src = "Admin"
    BY <1>0, <1>11 DEF SetEval, Game
  <2>2. Sane(game')
    BY <2>1 DEF Sane, LineOf, BaselineOf, Root, Clean, RulerOf, Decided,
       Prompted
  <2> QED
    BY <2>1, <2>2 DEF InStep, SameSave, Asks, Expecting
<1>12. CASE Abort
  <2>1. /\ game'.history = game.history /\ game'.pos = game.pos
        /\ game'.plies = game.plies /\ game'.start = game.start
        /\ game'.seq = game.seq + 1
        /\ game'.key = game.key /\ game'.written = game.written
        /\ game'.over = game.over /\ game'.choice = FALSE
        /\ game'.result = NoResult /\ game'.phase = "Idle"
        /\ game.seq \in Nat
    BY <1>0, <1>12 DEF Abort, Game
  <2>2. LineOf(game') /\ BaselineOf(game')
    BY <2>1 DEF Sane, LineOf, BaselineOf, Root, Clean
  <2>3. RulerOf(game') /\ Decided(game') /\ Prompted(game')
    BY <2>1 DEF Sane, RulerOf, Decided, Prompted, NoResult
  <2> QED
    BY <2>1, <2>2, <2>3 DEF InStep, Sane, SameSave, Asks, Expecting
<1> QED
  BY <1>2, <1>3, <1>4, <1>5, <1>6, <1>7, <1>8, <1>9, <1>10, <1>11, <1>12
  DEF ClientAction

(* The engine side leaves the moves and the file alone. *)
LEMMA ReqsOnly ==
  ASSUME PlayInv, game' = [game EXCEPT !.reqs = <<>>] \/ game' = game,
         disk' = disk
  PROVE  /\ Sane(game') /\ Filed' /\ game'.seq = game.seq
         /\ Expecting(game') <=> Expecting(game)
<1>1. game \in Game
  BY DEF PlayInv, IInv, TypeOK
<1>2. /\ game'.history = game.history /\ game'.pos = game.pos
      /\ game'.plies = game.plies /\ game'.start = game.start
      /\ game'.seq = game.seq /\ game'.target = game.target
      /\ game'.result = game.result
      /\ game'.key = game.key /\ game'.written = game.written
      /\ game'.phase = game.phase /\ game'.choice = game.choice
      /\ game'.over = game.over /\ game'.eval = game.eval
  BY <1>1 DEF Game
<1>3. Sane(game')
  BY <1>2 DEF PlayInv, Sane, LineOf, BaselineOf, Root, Clean, RulerOf, Decided,
     Prompted
<1>4. Filed'
  BY <1>2 DEF PlayInv, Filed
<1> QED
  BY <1>2, <1>3, <1>4 DEF Expecting

LEMMA TickInStep ==
  ASSUME TypeOK, Sane(game), Tick
  PROVE  \E g \in Game : InStep(game, g) /\ Publish(g)
<1>1. PICK clock \in Clocks, inf \in Inferences(game) :
        \E pick \in Picks(TickPhase(game, clock, inf)) :
          Publish(TickAutopilot(TickPhase(game, clock, inf), pick))
  BY DEF Tick
<1> DEFINE f == TickPhase(game, clock, inf)
<1>2. game \in Game
  BY DEF TypeOK
<1>3. f \in Game /\ InStep(game, f)
  BY <1>2, TickPhaseType, TickPhaseInStep
<1> HIDE DEF f
<1>4. PICK pick \in Picks(f) : Publish(TickAutopilot(f, pick))
  BY <1>1 DEF f
<1> DEFINE g == TickAutopilot(f, pick)
<1>5. g \in Game /\ InStep(f, g)
  BY <1>3, TickAutopilotType, TickAutopilotInStep DEF InStep
<1> HIDE DEF g
<1>6. InStep(game, g)
  BY <1>2, <1>3, <1>5, InStepTrans
<1> QED
  BY <1>4, <1>5, <1>6 DEF g

LEMMA PlayStep == PlayInv /\ [Next]_vars => PlayInv'
<1> SUFFICES ASSUME PlayInv, [Next]_vars PROVE PlayInv'
  OBVIOUS
<1>0. IInv /\ IInv' /\ TypeOK /\ TypeOK'
  BY IInvStep DEF PlayInv, IInv
<1>1. game \in Game /\ game' \in Game /\ Sane(game)
  BY <1>0 DEF TypeOK, PlayInv
<1>2. CASE ClientAction
  BY <1>0, <1>1, <1>2, ClientInStep, HandlerStep
<1>3. CASE Tick
  <2>1. PICK g \in Game : InStep(game, g) /\ Publish(g)
    BY <1>0, <1>1, <1>3, TickInStep
  <2>2. Filed'
    BY <1>0, <2>1, PublishFiles DEF InStep, PlayInv
  <2>3. /\ Sane(game') /\ game'.seq = g.seq /\ game'.reqs = g.reqs
        /\ Expecting(game') <=> Expecting(g)
    BY <1>0, <2>1, PublishEdits DEF InStep
  <2>4. UNCHANGED <<engineUp, busy, answers>>
    BY <1>3 DEF Tick
  <2>5. PendingIsAwaited'
    <3> SUFFICES ASSUME engineUp', Expecting(game') PROVE Awaited'
      BY DEF PendingIsAwaited, Expecting
    <3>1. engineUp /\ Expecting(g)
      BY <2>3, <2>4
    <3>2. CASE Asked(g)
      BY <2>3, <3>2 DEF Asked, Awaited
    <3>3. CASE Expecting(game) /\ g.reqs = game.reqs /\ g.seq = game.seq
      <4>1. Awaited
        BY <3>1, <3>3, PendingParts DEF PlayInv
      <4> QED
        BY <2>3, <2>4, <3>3, <4>1 DEF Awaited
    <3> QED
      BY <2>1, <3>1, <3>2, <3>3 DEF InStep, Asks
  <2> QED
    BY <1>0, <2>2, <2>3, <2>5 DEF PlayInv
<1>4. CASE DeviceEvent
  <2>1. /\ game'.history = game.history /\ game'.pos = game.pos
        /\ game'.plies = game.plies /\ game'.start = game.start
        /\ game'.seq = game.seq /\ game'.reqs = game.reqs
        /\ game'.eval = game.eval /\ game'.target = game.target
        /\ game'.result = game.result
        /\ game'.key = game.key /\ game'.written = game.written
        /\ game'.phase = game.phase /\ game'.choice = game.choice
        /\ game'.over = game.over
    BY <1>1, <1>4 DEF DeviceEvent, Game
  <2>2. Decided(game') /\ Prompted(game')
    BY <1>1, <2>1 DEF Sane, Decided, Prompted
  <2>3. InStep(game, game')
    BY <1>1, <2>1, <2>2, EditInStep
  <2> QED
    BY <1>0, <1>4, <2>3, HandlerStep DEF DeviceEvent
<1>5. CASE LinkChange \/ BindDevice \/ UNCHANGED vars
  <2>1. UNCHANGED <<game, engineUp, busy, answers, disk>>
    BY <1>5 DEF LinkChange, BindDevice, vars
  <2>2. InStep(game, game')
    BY <1>1, <2>1, SameInStep
  <2> QED
    BY <1>0, <2>1, <2>2, HandlerStep
<1>6. CASE RecvEval
  <2> DEFINE r == Head(answers)
  <2>1. /\ answers \in Seq(Answer) /\ answers # <<>>
        /\ game' = OnEval(game, r) /\ answers' = Tail(answers)
        /\ UNCHANGED <<engineUp, busy, disk>>
    BY <1>0, <1>6 DEF RecvEval, TypeOK
  <2>2. r \in Answer /\ Fits(r, game) /\ r = answers[1]
    BY <1>0, <2>1, IInvParts DEF IInv
  <2> HIDE DEF r
  <2>3. /\ Sane(game') /\ SameSave(game, game') /\ Asks(game, game')
        /\ game'.reqs = game.reqs /\ game'.seq = game.seq
        /\ r.seq = game.seq => ~Expecting(game')
    BY <1>1, <2>1, <2>2, OnEvalInStep
  <2>4. Filed'
    BY <1>1, <2>1, <2>3 DEF PlayInv, Filed, SameSave, Game
  <2>5. PendingIsAwaited'
    <3> SUFFICES ASSUME engineUp', Expecting(game') PROVE Awaited'
      BY DEF PendingIsAwaited, Expecting
    <3>1. CASE Asked(game')
      BY <3>1 DEF Asked, Awaited
    <3>2. CASE Expecting(game) /\ r.seq # game.seq
      <4>1. Awaited
        BY <2>1, <3>2, PendingParts DEF PlayInv
      <4>2. ASSUME NEW i \in 1..Len(answers), answers[i].seq = game.seq
            PROVE  \E j \in 1..Len(Tail(answers)) :
                     Tail(answers)[j].seq = game.seq
        <5>1. i - 1 \in 1..Len(Tail(answers))
              /\ Tail(answers)[i - 1] = answers[i]
          BY <2>1, <2>2, <3>2, <4>2
        <5> QED
          BY <4>2, <5>1
      <4> QED
        BY <2>1, <2>3, <4>1, <4>2 DEF Awaited
    <3> QED
      BY <2>3, <3>1, <3>2 DEF Asks
  <2> QED
    BY <1>0, <2>3, <2>4, <2>5 DEF PlayInv
<1>7. CASE EngineTake
  <2>1. /\ game.reqs # <<>> /\ busy' = <<game.reqs[Len(game.reqs)]>>
        /\ game' = [game EXCEPT !.reqs = <<>>]
        /\ UNCHANGED <<engineUp, answers, disk>>
    BY <1>7 DEF EngineTake
  <2>2. /\ Sane(game') /\ Filed' /\ game'.seq = game.seq
        /\ Expecting(game') <=> Expecting(game) /\ game'.reqs = <<>>
    BY <1>1, <2>1, ReqsOnly DEF Game
  <2>3. PendingIsAwaited'
    <3> SUFFICES ASSUME engineUp', Expecting(game') PROVE Awaited'
      BY DEF PendingIsAwaited, Expecting
    <3>1. Awaited
      BY <2>1, <2>2, PendingParts DEF PlayInv
    <3> QED
      BY <2>1, <2>2, <3>1 DEF Awaited
  <2> QED
    BY <1>0, <2>2, <2>3 DEF PlayInv
<1>8. CASE EngineAnswer
  <2>1. PICK a : a.seq = busy[1].seq /\ answers' = Append(answers, a)
    BY <1>8 DEF EngineAnswer
  <2>2. /\ busy' = <<>> /\ game' = game /\ UNCHANGED <<engineUp, disk>>
        /\ answers \in Seq(Answer)
    BY <1>0, <1>8 DEF EngineAnswer, TypeOK
  <2>3. Sane(game') /\ Filed' /\ (Expecting(game') <=> Expecting(game))
    BY <2>2, ReqsOnly
  <2>4. PendingIsAwaited'
    <3> SUFFICES ASSUME engineUp', Expecting(game') PROVE Awaited'
      BY DEF PendingIsAwaited, Expecting
    <3>1. Awaited
      BY <2>2, <2>3, PendingParts DEF PlayInv
    <3>2. /\ Len(answers') = Len(answers) + 1
          /\ answers'[Len(answers) + 1] = a
          /\ \A i \in 1..Len(answers) : answers'[i] = answers[i]
          /\ Len(answers) \in Nat
      BY <2>1, <2>2
    <3>3. CASE \E i \in 1..Len(answers) : answers[i].seq = game.seq
      BY <2>2, <3>2, <3>3 DEF Awaited
    <3>4. CASE busy[1].seq = game.seq
      <4>1. Len(answers) + 1 \in 1..Len(answers')
        BY <3>2
      <4> QED
        BY <2>1, <2>2, <3>2, <3>4, <4>1 DEF Awaited
    <3>5. CASE game.reqs # <<>> /\ game.reqs[Len(game.reqs)].seq = game.seq
      BY <2>2, <3>5 DEF Awaited
    <3> QED
      BY <3>1, <3>3, <3>4, <3>5 DEF Awaited
  <2> QED
    BY <1>0, <2>3, <2>4 DEF PlayInv
<1>9. CASE EngineDies
  <2>1. game' = [game EXCEPT !.reqs = <<>>] /\ disk' = disk /\ ~engineUp'
    BY <1>9 DEF EngineDies
  <2> QED
    BY <1>0, <2>1, ReqsOnly DEF PlayInv, PendingIsAwaited
<1>10. CASE Restart
  <2> DEFINE g == Fresh(game.maxPly, game.detect)
  <2>1. /\ g \in Game /\ g.history = <<>> /\ g.plies = 0 /\ g.start.of = NoPos
        /\ g.seq = 0 /\ g.reqs = <<>> /\ g.key = <<"Idle", -1>>
        /\ g.choice = FALSE /\ g.result = NoResult /\ g.phase = "Idle"
    BY <1>1, FreshType DEF Fresh, Unscored, Game
  <2> HIDE DEF g
  <2>2. Sane(g) /\ ~Expecting(g) /\ g.key # Key(g)
    BY <2>1 DEF Sane, LineOf, BaselineOf, RulerOf, Decided, Prompted, NoResult,
       Expecting, Key
  <2>3. ASSUME NEW s \in disk
        PROVE  LET h == Restored(g, s) IN
               h \in Game /\ Sane(h) /\ Asked(h) /\ h.key # Key(h)
    <3> DEFINE h == Restored(g, s)
               q == [seq |-> g.seq + 1, final |-> FALSE, of |-> s.pos]
    <3>1. h \in Game /\ s.plies \in Nat
      BY <1>0, <2>1, RestoredType DEF TypeOK, Saved
    <3>2. /\ h.history = <<>> /\ h.plies = s.plies /\ h.seq = g.seq + 1
          /\ h.over = {"restart"} /\ h.choice = FALSE /\ h.result = NoResult
          /\ h.phase \in {"Finished", "Setup", "Playing"}
          /\ h.reqs = Append(g.reqs, q)
          /\ h.key = g.key /\ h.written = g.written
      BY <2>1 DEF Restored, Post, Pending, Game
    <3> HIDE DEF h
    <3>3. Sane(h)
      BY <3>1, <3>2 DEF Sane, LineOf, BaselineOf, Clean, RulerOf, Decided,
         Prompted, NoResult
    <3>4. Asked(h)
      <4>1. h.reqs = <<q>>
        BY <2>1, <3>2
      <4> QED
        BY <3>2, <4>1 DEF Asked
    <3>5. h.key # Key(h)
      BY <2>1, <3>2 DEF Key
    <3> QED
      BY <3>1, <3>3, <3>4, <3>5 DEF h
  <2>4. PICK h \in Game : /\ Publish(h) /\ Sane(h) /\ h.key # Key(h)
                          /\ Asked(h) \/ ~Expecting(h)
    <3>1. \/ disk = {} /\ Publish(g)
          \/ \E s \in disk : Publish(Restored(g, s))
      BY <1>10 DEF Restart, g
    <3>2. CASE Publish(g)
      BY <2>1, <2>2, <3>2
    <3>3. CASE \E s \in disk : Publish(Restored(g, s))
      BY <2>3, <3>3
    <3> QED
      BY <3>1, <3>2, <3>3
  <2>5. Filed'
    BY <1>0, <2>4, PublishFiles
  <2>6. /\ Sane(game') /\ game'.seq = h.seq /\ game'.reqs = h.reqs
        /\ Expecting(game') <=> Expecting(h)
    BY <1>0, <2>4, PublishEdits
  <2>7. PendingIsAwaited'
    <3> SUFFICES ASSUME Expecting(game') PROVE Awaited'
      BY DEF PendingIsAwaited, Expecting
    <3> QED
      BY <2>4, <2>6 DEF Asked, Awaited
  <2> QED
    BY <1>0, <2>5, <2>6, <2>7 DEF PlayInv
<1> QED
  BY <1>2, <1>3, <1>4, <1>5, <1>6, <1>7, <1>8, <1>9, <1>10 DEF Next

LEMMA PlayInit == Init => PlayInv
<1> SUFFICES ASSUME Init PROVE PlayInv
  OBVIOUS
<1>1. IInv
  BY IInvInit
<1>2. PICK n \in PlyLimits :
        game = [Fresh(n, "auto") EXCEPT !.key = <<"Idle", 0>>]
  BY DEF Init
<1>3. /\ game.history = <<>> /\ game.plies = 0 /\ game.start.of = NoPos
      /\ game.seq = 0 /\ game.key = <<"Idle", 0>> /\ game.choice = FALSE
      /\ game.result = NoResult /\ game.phase = "Idle" /\ disk = {}
  BY <1>2 DEF Fresh, Unscored, Init
<1>4. Sane(game)
  BY <1>3 DEF Sane, LineOf, BaselineOf, RulerOf, Decided, Prompted, NoResult
<1> QED
  BY <1>1, <1>3, <1>4 DEF PlayInv, Filed, PendingIsAwaited

LEMMA PlayAlways == Spec => []PlayInv
<1>1. Init => PlayInv
  BY PlayInit
<1>2. PlayInv /\ [Next]_vars => PlayInv'
  BY PlayStep
<1> QED
  BY <1>1, <1>2, PTL DEF Spec

----------------------------------------------------------------------------
(* Undo never leads off the game that was played: for any chess, the history
   is a line of legal moves to the position on the board. *)
THEOREM HistoryIsLegal == Spec => []HistoryIsALine
<1>1. PlayInv => HistoryIsALine
  BY DEF PlayInv, Sane, LineOf, HistoryIsALine
<1> QED
  BY <1>1, PlayAlways, PTL

(* The number every swing is measured from is the dealt position's own,
   however late the engine gives it and whatever was undone meanwhile. *)
THEOREM BaselineIsTheDeal == Spec => []BaselineIsDealt
<1>1. PlayInv => BaselineIsDealt
  BY DEF PlayInv, Sane, BaselineOf, Root, BaselineIsDealt
<1> QED
  BY <1>1, PlayAlways, PTL

(* No winner is named by comparing numbers of engines that cannot be
   compared, as long as no restart has lost who measured the first one. *)
THEOREM VerdictHasOneRuler == Spec => []SameRuler
<1>1. PlayInv => SameRuler
  BY DEF PlayInv, Sane, RulerOf, SameRuler
<1> QED
  BY <1>1, PlayAlways, PTL

(* The task never waits for a choice nobody is shown, and never shows one
   nobody waits for but on a game an administrator ended. *)
THEOREM PromptIsHonest == Spec => []PromptMatchesPhase
<1>1. PlayInv => PromptMatchesPhase
  BY DEF PlayInv, Sane, Prompted, PromptMatchesPhase
<1> QED
  BY <1>1, PlayAlways, PTL

(* Writing the file only when (phase, game_seq) changes loses nothing, as long
   as the last write went through. *)
THEOREM FileHoldsTheGame == Spec => []FileIsCurrent
<1>1. PlayInv => FileIsCurrent
  BY DEF PlayInv, Filed, FileIsCurrent, Key
<1> QED
  BY <1>1, PlayAlways, PTL

(* A pending number has an answer on its way as long as the engine lives: no
   drain, filter, undo or restart leaves the bar waiting for nothing. *)
THEOREM PendingHasAnAnswer == Spec => []PendingIsAwaited
<1>1. PlayInv => PendingIsAwaited
  BY DEF PlayInv
<1> QED
  BY <1>1, PlayAlways, PTL

(* A finished game's result is out of reach of every handler that leaves
   game_seq alone, but the administrator's word and a restart. *)
LEMMA ResultStep ==
  ASSUME PlayInv, [Next]_vars, game.result.winner # "none",
         game'.result # game.result
  PROVE  \/ game'.seq # game.seq
         \/ game'.result.reason = "admin"
         \/ restarts' # restarts
<1>0. game \in Game /\ Sane(game) /\ TypeOK /\ IInv
  BY DEF PlayInv, IInv, TypeOK
<1>1. game.phase = "Finished" /\ game.seq \in Nat
  BY <1>0 DEF Sane, Decided, NoResult, Game
<1>2. CASE ClientAction
  <2>1. CASE NewGame
    <3>1. PICK p \in Positions : game' = Dealt(game, p)
      BY <2>1, ConstantsOK DEF NewGame
    <3> QED
      BY <1>0, <1>1, <3>1, DealtInStep
  <2>2. CASE ForceStart \/ Move \/ Dismiss
    BY <1>1, <2>2 DEF ForceStart, Move, Dismiss, InPlay
  <2>3. CASE Undo
    BY <1>0, <1>1, <2>3, UndoneInStep DEF Undo
  <2>4. CASE Resync
    BY <1>0, <2>4, ResyncedInStep DEF Resync
  <2>5. CASE SetDetect \/ SetMaxPly \/ SetEval \/ SetAutopilot
    BY <1>0, <2>5 DEF SetDetect, SetMaxPly, SetEval, SetAutopilot, Game
  <2>6. CASE SetFen
    <3>1. PICK p \in Positions : game' = Overwritten(game, p)
      BY <2>6, ConstantsOK DEF SetFen
    <3> QED
      BY <1>0, <1>1, <3>1, OverwrittenInStep
  <2>7. CASE Rescore
    BY <1>0, <1>1, <2>7, RequestEvalInStep DEF Rescore
  <2>8. CASE End
    BY <1>0, <2>8 DEF End, Finish, Game
  <2>9. CASE Abort
    <3>1. game'.seq = game.seq + 1
      BY <1>0, <2>9 DEF Abort, Game
    <3> QED
      BY <1>1, <3>1
  <2> QED
    BY <1>2, <2>1, <2>2, <2>3, <2>4, <2>5, <2>6, <2>7, <2>8, <2>9
    DEF ClientAction
<1>3. CASE Tick
  <2>1. PICK clock \in Clocks, inf \in Inferences(game) :
          \E pick \in Picks(TickPhase(game, clock, inf)) :
            Publish(TickAutopilot(TickPhase(game, clock, inf), pick))
    BY <1>3 DEF Tick
  <2>2. TickPhase(game, clock, inf) = game
    BY <1>1 DEF TickPhase, InPlay
  <2>3. Publish(game)
    BY <1>1, <2>1, <2>2 DEF Picks, TickAutopilot, InPlay
  <2> QED
    BY <1>0, <2>3, PublishEdits
<1>4. CASE DeviceEvent
  BY <1>0, <1>4 DEF DeviceEvent, Game
<1>5. CASE EngineTake \/ EngineDies
  BY <1>0, <1>5 DEF EngineTake, EngineDies, Game
<1>6. CASE LinkChange \/ BindDevice \/ EngineAnswer \/ UNCHANGED vars
  BY <1>6 DEF LinkChange, BindDevice, EngineAnswer, vars
<1>7. CASE RecvEval
  <2>1. /\ answers \in Seq(Answer) /\ answers # <<>>
        /\ game' = OnEval(game, Head(answers))
    BY <1>0, <1>7 DEF RecvEval, TypeOK
  <2>2. Head(answers) \in Answer /\ Fits(Head(answers), game)
    BY <1>0, <2>1, IInvParts DEF IInv
  <2> QED
    BY <1>0, <1>1, <2>1, <2>2, OnEvalInStep
<1>8. CASE Restart
  BY <1>0, <1>8 DEF Restart, TypeOK
<1> QED
  BY <1>2, <1>3, <1>4, <1>5, <1>6, <1>7, <1>8 DEF Next

(* A verdict is final: no late answer, settle or tap rewrites it, in any game
   with any engines; only a new position, the administrator or a restart do. *)
THEOREM VerdictIsFinal == Spec => VerdictStands
<1>1. PlayInv /\ [Next]_vars
        => [game.result.winner # "none" /\ game'.result # game.result
              => \/ game'.seq # game.seq
                 \/ game'.result.reason = "admin"
                 \/ restarts' # restarts]_vars
  BY ResultStep
<1> QED
  BY <1>1, PlayAlways, PTL DEF Spec, VerdictStands

----------------------------------------------------------------------------
(* The record.  A handler leaves it as it is (Still), or lengthens it by a
   legal move, shortens it by one, or starts it anew. *)
Still(g, h) == h.history = g.history /\ h.pos = g.pos

LEMMA RecordType ==
  ASSUME NEW g \in Game
  PROVE  LET r == RecordOf(g) IN
         /\ r \in Seq(Positions) /\ Len(r) = Len(g.history) + 1
         /\ r[Len(g.history) + 1] = g.pos
         /\ \A i \in 1..Len(g.history) : r[i] = g.history[i].pos
<1> DEFINE f == [i \in DOMAIN g.history |-> g.history[i].pos]
<1>1. /\ g.history \in Seq(Ply) /\ g.pos \in Positions
      /\ Len(g.history) \in Nat /\ DOMAIN g.history = 1..Len(g.history)
  BY DEF Game
<1>2. ASSUME NEW i \in 1..Len(g.history) PROVE g.history[i].pos \in Positions
  <2>1. g.history[i] \in Ply
    BY <1>1, ElementOfSeq
  <2> QED  BY <2>1 DEF Ply
<1>3. /\ f \in Seq(Positions) /\ Len(f) = Len(g.history)
      /\ \A i \in 1..Len(g.history) : f[i] = g.history[i].pos
  BY <1>1, <1>2, IsASeq, LenProperties
<1>4. RecordOf(g) = Append(f, g.pos)
  BY DEF RecordOf
<1> HIDE DEF f
<1> QED
  BY <1>1, <1>3, <1>4, AppendProperties

LEMMA RecordStands ==
  ASSUME NEW g, NEW h, Still(g, h)
  PROVE  RecordOf(h) = RecordOf(g)
BY DEF Still, RecordOf

LEMMA RecordGrows ==
  ASSUME NEW g \in Game, NEW h \in Game, NEW ply \in Ply,
         h.history = Append(g.history, ply), ply.pos = g.pos
  PROVE  RecordOf(h) = Append(RecordOf(g), h.pos)
<1> DEFINE n == Len(g.history)
           s == RecordOf(g)
           r == RecordOf(h)
<1>1. g.history \in Seq(Ply) /\ n \in Nat /\ h.pos \in Positions
  BY DEF Game
<1>2. /\ Len(h.history) = n + 1 /\ h.history[n + 1] = ply
      /\ \A i \in 1..n : h.history[i] = g.history[i]
  BY <1>1, AppendProperties
<1>3. /\ s \in Seq(Positions) /\ Len(s) = n + 1 /\ s[n + 1] = g.pos
      /\ \A i \in 1..n : s[i] = g.history[i].pos
  BY RecordType
<1>4. /\ r \in Seq(Positions) /\ Len(r) = n + 2 /\ r[n + 2] = h.pos
      /\ \A i \in 1..(n + 1) : r[i] = h.history[i].pos
  <2>1. /\ r \in Seq(Positions) /\ Len(r) = Len(h.history) + 1
        /\ r[Len(h.history) + 1] = h.pos
        /\ \A i \in 1..Len(h.history) : r[i] = h.history[i].pos
    BY RecordType
  <2>2. Len(h.history) = n + 1 /\ Len(h.history) + 1 = n + 2
    BY <1>1, <1>2
  <2> HIDE DEF r, n
  <2> QED  BY <2>1, <2>2
<1> DEFINE t == Append(s, h.pos)
<1>5. /\ t \in Seq(Positions) /\ Len(t) = n + 2 /\ t[n + 2] = h.pos
      /\ \A i \in 1..(n + 1) : t[i] = s[i]
  BY <1>1, <1>3, AppendProperties
<1> HIDE DEF n, s, r, t
<1>6. ASSUME NEW i \in 1..(n + 2) PROVE r[i] = t[i]
  <2>1. CASE i = n + 2
    BY <1>4, <1>5, <2>1
  <2>2. CASE i = n + 1
    BY <1>1, <1>2, <1>3, <1>4, <1>5, <2>2
  <2>3. CASE i \in 1..n
    BY <1>1, <1>2, <1>3, <1>4, <1>5, <2>3
  <2> QED
    BY <1>1, <2>1, <2>2, <2>3
<1>7. r = t
  BY <1>4, <1>5, <1>6, SeqEqual
<1> QED
  BY <1>7 DEF r, s, t

LEMMA RecordShrinks ==
  ASSUME NEW g \in Game, NEW h \in Game, g.history # <<>>,
         h.history = SubSeq(g.history, 1, Len(g.history) - 1),
         h.pos = g.history[Len(g.history)].pos
  PROVE  /\ Len(RecordOf(g)) > 1
         /\ RecordOf(h) = SubSeq(RecordOf(g), 1, Len(RecordOf(g)) - 1)
<1> DEFINE n == Len(g.history)
           s == RecordOf(g)
           r == RecordOf(h)
           t == SubSeq(s, 1, n)
<1>1. g.history \in Seq(Ply) /\ n \in Nat /\ n > 0
  BY DEF Game
<1>2. /\ Len(h.history) = n - 1
      /\ \A i \in 1..(n - 1) : h.history[i] = g.history[i]
  BY <1>1, SubSeqProperties
<1>3. /\ s \in Seq(Positions) /\ Len(s) = n + 1
      /\ \A i \in 1..n : s[i] = g.history[i].pos
  BY RecordType
<1>4. /\ r \in Seq(Positions) /\ Len(r) = n /\ r[n] = h.pos
      /\ \A i \in 1..(n - 1) : r[i] = h.history[i].pos
  <2>1. /\ r \in Seq(Positions) /\ Len(r) = Len(h.history) + 1
        /\ r[Len(h.history) + 1] = h.pos
        /\ \A i \in 1..Len(h.history) : r[i] = h.history[i].pos
    BY RecordType
  <2>2. Len(h.history) = n - 1 /\ Len(h.history) + 1 = n
    BY <1>1, <1>2
  <2> HIDE DEF r, n
  <2> QED  BY <2>1, <2>2
<1>5. t \in Seq(Positions) /\ Len(t) = n /\ \A i \in 1..n : t[i] = s[i]
  BY <1>1, <1>3, SubSeqProperties
<1>6. Len(s) > 1 /\ Len(s) - 1 = n
  BY <1>1, <1>3
<1> HIDE DEF s, r, t
<1>7. ASSUME NEW i \in 1..n PROVE r[i] = t[i]
  BY <1>1, <1>2, <1>3, <1>4, <1>5
<1>8. r = t
  BY <1>4, <1>5, <1>7, SeqEqual
<1> QED
  BY <1>6, <1>8 DEF r, s, t

LEMMA RecordStarts ==
  ASSUME NEW g, g.history = <<>>
  PROVE  RecordOf(g) = <<g.pos>>
BY DEF RecordOf

(* Numbers, requests, verdicts and phases are no moves. *)
LEMMA FinishStill ==
  ASSUME NEW g \in Game, NEW w, NEW why, NEW by
  PROVE  Still(g, Finish(g, w, why, by))
BY DEF Finish, Still, Game

LEMMA OnEvalStill ==
  ASSUME NEW g \in Game, NEW r
  PROVE  Still(g, OnEval(g, r))
<1> DEFINE src == IF r.available THEN r.src ELSE "Material"
           of  == IF r.available THEN r.of ELSE g.pos
           cp  == Score[src][of]
           h   == Measured(g, cp, src, of)
<1>1. Still(g, h)
  BY DEF Measured, Still, Game
<1>2. Still(g, Finish(h, VerdictFor(h, cp, src), "eval", src))
  BY DEF Measured, Finish, Still, Game
<1> HIDE DEF src, of, cp, h
<1> QED
  BY <1>1, <1>2 DEF OnEval, Still, src, of, cp, h

LEMMA RequestEvalStill ==
  ASSUME NEW g \in Game, NEW final
  PROVE  Still(g, RequestEval(g, final))
<1>1. Pending(g) \in Game /\ Still(g, Pending(g))
  BY PendingType DEF Pending, Still, Game
<1>2. Still(g, Post(g, final))
  BY <1>1 DEF Post, Still, Game
<1>3. \A r : Still(g, OnEval(Pending(g), r))
  BY <1>1, OnEvalStill DEF Still
<1> QED
  BY <1>2, <1>3 DEF RequestEval

LEMMA BeginPlayStill ==
  ASSUME NEW g \in Game
  PROVE  Still(g, BeginPlay(g))
<1> DEFINE k == [g EXCEPT !.phase = "Playing", !.stable = FALSE, !.unread = FALSE]
<1>1. k \in Game /\ Still(g, k)
  BY DEF Still, Game, Phases
<1> HIDE DEF k
<1>2. Still(k, RequestEval(k, FALSE))
  BY <1>1, RequestEvalStill
<1> QED
  BY <1>1, <1>2 DEF Still, BeginPlay, k

(* Whichever way a move comes, the record grows by it. *)
LEMMA CommitGrows ==
  ASSUME NEW g \in Game, NEW q \in Legal[g.pos]
  PROVE  /\ Commit(g, q) \in Game
         /\ RecordOf(Commit(g, q)) = Append(RecordOf(g), q)
<1> DEFINE h == Played(g, q)
           k == [h EXCEPT !.phase = "Scoring"]
           ply == [pos |-> g.pos, eval |-> g.eval]
<1>1. q \in Positions
  BY ConstantsOK DEF Game
<1>2. h \in Game /\ Commit(g, q) \in Game
  BY <1>1, PlayedType, CommitType
<1>3. h.history = Append(g.history, ply) /\ h.pos = q
  BY DEF Played, Game
<1>4. ply \in Ply /\ ply.pos = g.pos
  BY DEF Game, Ply
<1> HIDE DEF ply, h
<1>5. RecordOf(h) = Append(RecordOf(g), q)
  BY <1>2, <1>3, <1>4, RecordGrows
<1>6. k \in Game /\ Still(h, k)
  BY <1>2 DEF Still, Game, Phases
<1> HIDE DEF k
<1>7. /\ \A w, why : Still(h, Finish(h, w, why, h.eval.src))
      /\ Still(h, RequestEval(h, FALSE)) /\ Still(k, RequestEval(k, TRUE))
  BY <1>2, <1>6, FinishStill, RequestEvalStill
<1>8. Still(h, Commit(g, q))
  BY <1>6, <1>7 DEF Commit, Still, h, k
<1> QED
  BY <1>2, <1>5, <1>8, RecordStands

LEMMA UndoneShrinks ==
  ASSUME NEW g \in Game, g.history # <<>>
  PROVE  /\ Len(RecordOf(g)) > 1
         /\ RecordOf(Undone(g)) = SubSeq(RecordOf(g), 1, Len(RecordOf(g)) - 1)
<1> DEFINE h == TakenBack(g)
<1>1. h \in Game
  BY TakenBackType
<1>2. /\ h.history = SubSeq(g.history, 1, Len(g.history) - 1)
      /\ h.pos = g.history[Len(g.history)].pos
  BY DEF TakenBack, Game
<1> HIDE DEF h
<1>3. Still(h, RequestEval(h, FALSE))
  BY <1>1, RequestEvalStill
<1> QED
  BY <1>1, <1>2, <1>3, RecordShrinks, RecordStands DEF Undone, h

LEMMA ResyncedStill ==
  ASSUME NEW g \in Game
  PROVE  Still(g, Resynced(g))
BY DEF Resynced, Still, Game

LEMMA DealtStarts ==
  ASSUME NEW g \in Game, NEW p \in Positions
  PROVE  RecordOf(Dealt(g, p)) = <<p>>
<1> DEFINE h == SetUp(g, p)
<1>1. h \in Game
  BY SetUpType
<1>2. h.history = <<>> /\ h.pos = p
  BY DEF SetUp, Game
<1> HIDE DEF h
<1>3. Still(h, RequestEval(h, FALSE))
  BY <1>1, RequestEvalStill
<1> QED
  BY <1>2, <1>3, RecordStarts DEF Still, Dealt, h

LEMMA OverwrittenStarts ==
  ASSUME NEW g \in Game, NEW p \in Positions
  PROVE  RecordOf(Overwritten(g, p)) = <<p>>
<1> DEFINE k == Imposed(g, p)
           h == Resynced(k)
<1>1. k \in Game /\ h \in Game
  BY ImposedType, ResyncedType
<1>2. k.history = <<>> /\ k.pos = p
  BY DEF Imposed, Game
<1> HIDE DEF k
<1>3. Still(k, h)
  BY <1>1, ResyncedStill
<1> HIDE DEF h
<1>4. Still(h, RequestEval(h, FALSE))
  BY <1>1, RequestEvalStill
<1> QED
  BY <1>2, <1>3, <1>4, RecordStarts DEF Still, Overwritten, h, k

(* No handler of a tick plays more than one move: what the board shows, or what
   the pilot picks. *)
OneMore(g, h) ==
  RecordOf(h) = RecordOf(g) \/ RecordOf(h) \in Record!Longer(RecordOf(g))

LEMMA NowOnBoard ==
  ASSUME NEW g \in Game
  PROVE  /\ Record!Now(RecordOf(g)) = g.pos
         /\ Record!Longer(RecordOf(g)) = {Append(RecordOf(g), q) : q \in Legal[g.pos]}
<1>1. Record!Now(RecordOf(g)) = g.pos
  BY RecordType DEF Record!Now
<1> QED
  BY <1>1 DEF Record!Longer

LEMMA CommitIsOneMore ==
  ASSUME NEW g \in Game, NEW q \in Legal[g.pos]
  PROVE  OneMore(g, Commit(g, q))
BY CommitGrows, NowOnBoard DEF OneMore

LEMMA StillIsOneMore ==
  ASSUME NEW g, NEW h, Still(g, h)
  PROVE  OneMore(g, h)
BY RecordStands DEF OneMore

LEMMA TickPhaseIsOneMore ==
  ASSUME NEW g \in Game, NEW clock \in Clocks, NEW inf \in Inferences(g)
  PROVE  OneMore(g, TickPhase(g, clock, inf))
<1> DEFINE k == [g EXCEPT !.unread = FALSE]
<1>1. Still(g, TickSetup(g, clock))
  BY DEF TickSetup, Still, Game
<1>2. Still(g, TickCountdown(g, clock))
  <2>1. Still(g, [g EXCEPT !.phase = "Setup", !.stable = FALSE])
    BY DEF Still, Game
  <2> QED
    BY <2>1, BeginPlayStill DEF TickCountdown, Still
<1>3. k \in Game /\ Still(g, k)
  BY DEF Still, Game
<1> HIDE DEF k
<1>4. OneMore(g, OnInference(k, inf))
  <2>1. inf.kind = "commit" => inf.pos \in Legal[k.pos]
    BY <1>3 DEF Inferences, Still
  <2>2. inf.kind = "commit" => OneMore(k, Commit(k, inf.pos))
    BY <1>3, <2>1, CommitIsOneMore
  <2>3. /\ Still(k, Ask(k))
        /\ Still(k, [k EXCEPT !.phase = "Playing", !.choice = FALSE])
    BY <1>3 DEF Ask, Still, Game
  <2>4. OneMore(k, OnInference(k, inf))
    BY <2>2, <2>3, StillIsOneMore DEF OnInference, Still
  <2> QED
    BY <1>3, <2>4, RecordStands DEF OneMore
<1>5. OneMore(g, TickPlaying(g, clock, inf))
  BY <1>4 DEF TickPlaying, OneMore, k
<1> QED
  BY <1>1, <1>2, <1>5, StillIsOneMore DEF TickPhase, OneMore

LEMMA PublishKeepsRecord ==
  ASSUME NEW g \in Game, Publish(g)
  PROVE  /\ RecordOf(game') = RecordOf(g)
         /\ {s.pos : s \in disk'} \in {{s.pos : s \in disk}, {}, {g.pos}}
         /\ g.phase = "Idle" => {s.pos : s \in disk'} \in {{s.pos : s \in disk}, {}}
<1>1. Still(g, game')
  BY DEF Publish, Still, Game
<1>2. {s.pos : s \in Snapshot(g)} = IF g.phase = "Idle" THEN {} ELSE {g.pos}
  <2> DEFINE r == [phase |-> g.phase, pos |-> g.pos, target |-> g.target,
                   start |-> g.start, plies |-> g.plies]
  <2>1. r.pos = g.pos /\ Snapshot(g) = IF g.phase = "Idle" THEN {} ELSE {r}
    BY DEF Snapshot
  <2> HIDE DEF r
  <2> QED
    BY <2>1
<1>3. disk' \in {disk, {}, Snapshot(g)}
  BY ConstantsOK DEF Publish
<1> QED
  BY <1>1, <1>2, <1>3, RecordStands

LEMMA TickPlays ==
  ASSUME TypeOK, Tick
  PROVE  Record!Play
<1>1. PICK clock \in Clocks, inf \in Inferences(game) :
        \E pick \in Picks(TickPhase(game, clock, inf)) :
          Publish(TickAutopilot(TickPhase(game, clock, inf), pick))
  BY DEF Tick
<1> DEFINE f == TickPhase(game, clock, inf)
<1>2. game \in Game
  BY DEF TypeOK
<1>3. f \in Game /\ OneMore(game, f)
  BY <1>2, TickPhaseType, TickPhaseIsOneMore
<1> HIDE DEF f
<1>4. PICK pick \in Picks(f) : Publish(TickAutopilot(f, pick))
  BY <1>1 DEF f
<1> DEFINE g == TickAutopilot(f, pick)
<1>5. g \in Game /\ OneMore(f, g)
  <2>1. pick = NoPos \/ pick \in Legal[f.pos]
    BY DEF Picks
  <2> QED
    BY <1>3, <2>1, TickAutopilotType, CommitIsOneMore DEF TickAutopilot, OneMore
<1>6. Publish(g)
  BY <1>4
<1> HIDE DEF g
<1>7. /\ RecordOf(game') = RecordOf(g)
      /\ {s.pos : s \in disk'} \in {{s.pos : s \in disk}, {}, {g.pos}}
      /\ Record!Now(RecordOf(g)) = g.pos
  BY <1>5, <1>6, PublishKeepsRecord, NowOnBoard
<1>8. RecordOf(g) \in {RecordOf(game)} \cup Record!Longer(RecordOf(game))
                      \cup UNION {Record!Longer(r) : r \in Record!Longer(RecordOf(game))}
  BY <1>3, <1>5 DEF OneMore
<1> QED
  BY <1>7, <1>8 DEF Record!Play

(* There is one file: it is kept, lost, or rewritten as a whole. *)
OneFile == \A s, t \in disk : s.pos = t.pos

RecInv == PlayInv /\ OneFile

LEMMA FileStep == ASSUME OneFile, [Next]_vars PROVE OneFile'
<1>1. \A g : Publish(g) => disk' \in {disk} \cup {{}} \cup {{r} : r \in disk'}
  <2>1. \A g : Publish(g) => disk' \in {disk, {}, Snapshot(g)}
    BY ConstantsOK DEF Publish
  <2> QED
    BY <2>1 DEF Snapshot
<1>2. disk' \in {disk} \cup {{}} \cup {{r} : r \in disk'} => OneFile'
  BY DEF OneFile
<1>3. CASE Tick
  BY <1>1, <1>2, <1>3 DEF Tick
<1>4. CASE Restart
  BY <1>1, <1>2, <1>4 DEF Restart
<1>5. CASE ClientAction \/ UNCHANGED vars
  BY <1>5 DEF OneFile, vars, ClientAction, NewGame, ForceStart, Move, Dismiss, Undo,
     Resync, SetDetect, SetMaxPly, SetEval, SetFen, Rescore, End, Abort, SetAutopilot,
     Client
<1>6. CASE DeviceEvent \/ LinkChange \/ BindDevice \/ RecvEval \/ EngineTake
           \/ EngineAnswer \/ EngineDies
  BY <1>6 DEF OneFile, DeviceEvent, LinkChange, BindDevice, RecvEval, EngineTake,
     EngineAnswer, EngineDies
<1> QED
  BY <1>3, <1>4, <1>5, <1>6 DEF Next

LEMMA ClientPlays ==
  ASSUME TypeOK, ClientAction
  PROVE  [Record!Next]_<<RecordOf(game), {s.pos : s \in disk}>>
<1>1. game \in Game /\ disk' = disk
  BY DEF TypeOK, ClientAction, NewGame, ForceStart, Move, Dismiss, Undo, Resync,
     SetDetect, SetMaxPly, SetEval, SetFen, Rescore, End, Abort, SetAutopilot, Client
<1>2. CASE NewGame
  <2>1. PICK p \in Deals : game' = Dealt(game, p)
    BY <1>2 DEF NewGame
  <2>2. RecordOf(game') = <<p>>
    BY <1>1, <2>1, DealtStarts, ConstantsOK
  <2> QED
    BY <1>1, <2>2 DEF Record!Next, Record!Start
<1>3. CASE SetFen
  <2>1. PICK p \in Fens : game' = Overwritten(game, p)
    BY <1>3 DEF SetFen
  <2>2. RecordOf(game') = <<p>>
    BY <1>1, <2>1, OverwrittenStarts, ConstantsOK
  <2> QED
    BY <1>1, <2>2 DEF Record!Next, Record!Start
<1>4. CASE Move
  <2>1. PICK q \in Legal[game.pos] : game' = Commit(game, q)
    BY <1>4 DEF Move
  <2>2. RecordOf(game') \in Record!Longer(RecordOf(game))
    BY <1>1, <2>1, CommitGrows, NowOnBoard
  <2> QED
    BY <1>1, <2>2 DEF Record!Next, Record!Play
<1>5. CASE Undo
  <2>1. /\ Len(RecordOf(game)) > 1
        /\ RecordOf(game') = SubSeq(RecordOf(game), 1, Len(RecordOf(game)) - 1)
    BY <1>1, <1>5, UndoneShrinks DEF Undo
  <2> QED
    BY <1>1, <2>1 DEF Record!Next, Record!TakeBack
<1>6. CASE ForceStart \/ Resync \/ Rescore \/ End
  <2>1. Still(game, game')
    BY <1>1, <1>6, BeginPlayStill, ResyncedStill, RequestEvalStill, FinishStill
    DEF ForceStart, Resync, Rescore, End
  <2> QED
    BY <1>1, <2>1, RecordStands
<1>7. CASE Dismiss \/ SetDetect \/ SetMaxPly \/ SetEval \/ Abort \/ SetAutopilot
  <2>1. Still(game, game')
    BY <1>1, <1>7
    DEF Still, Dismiss, SetDetect, SetMaxPly, SetEval, Abort, SetAutopilot, Game
  <2> QED
    BY <1>1, <2>1, RecordStands
<1> QED
  BY <1>2, <1>3, <1>4, <1>5, <1>6, <1>7 DEF ClientAction

(* What comes back from a crash is the position that was published last. *)
LEMMA RestartResumes ==
  ASSUME TypeOK, OneFile, Restart
  PROVE  Record!Crash
<1> DEFINE g == Fresh(game.maxPly, game.detect)
           S == {s.pos : s \in disk}
<1>1. game \in Game /\ disk \in SUBSET Saved
  BY DEF TypeOK
<1>2. g \in Game
  BY <1>1, FreshType DEF Game
<1>3. /\ g.key = <<"Idle", -1>> /\ g.seq = 0 /\ g.phase = "Idle"
      /\ g.history = <<>> /\ g.pos = Home
  BY DEF Fresh
<1>4. \/ disk = {} /\ Publish(g)
      \/ \E s \in disk : Publish(Restored(g, s))
  BY DEF Restart
<1> HIDE DEF g
<1>5. CASE disk = {} /\ Publish(g)
  <2>1. RecordOf(game') = <<Home>> /\ {s.pos : s \in disk'} = {}
    BY <1>2, <1>3, <1>5, PublishKeepsRecord, RecordStarts
  <2> QED
    BY <1>5, <2>1 DEF Record!Crash
<1>6. CASE \E s \in disk : Publish(Restored(g, s))
  <2>1. PICK s \in disk : Publish(Restored(g, s))
    BY <1>6
  <2> DEFINE h == Restored(g, s)
  <2>2. h \in Game
    BY <1>1, <1>2, RestoredType
  <2>3. h.pos = s.pos /\ h.history = <<>>
    BY <1>2, <1>3 DEF Restored, Post, Pending, Game
  <2> HIDE DEF h
  <2>4. S = {s.pos}
    BY DEF OneFile
  <2>5. RecordOf(game') = <<s.pos>> /\ {t.pos : t \in disk'} \in {S, {}}
    BY <2>1, <2>2, <2>3, <2>4, PublishKeepsRecord, RecordStarts DEF h
  <2> QED
    BY <2>4, <2>5 DEF Record!Crash
<1> QED
  BY <1>4, <1>5, <1>6

LEMMA RecordStep ==
  ASSUME RecInv, [Next]_vars
  PROVE  [Record!Next]_<<RecordOf(game), {s.pos : s \in disk}>>
<1>1. TypeOK /\ OneFile /\ game \in Game
  BY DEF RecInv, PlayInv, IInv, TypeOK
<1>2. CASE ClientAction
  BY <1>1, <1>2, ClientPlays
<1>3. CASE Tick
  BY <1>1, <1>3, TickPlays DEF Record!Next
<1>4. CASE Restart
  BY <1>1, <1>4, RestartResumes DEF Record!Next
<1>5. CASE DeviceEvent \/ RecvEval \/ EngineTake \/ EngineDies
  <2>1. disk' = disk
    BY <1>5 DEF DeviceEvent, RecvEval, EngineTake, EngineDies
  <2>2. Still(game, game')
    <3>1. CASE DeviceEvent
      BY <1>1, <3>1 DEF DeviceEvent, Still, Game
    <3>2. CASE RecvEval
      BY <1>1, <3>2, OnEvalStill DEF RecvEval
    <3>3. CASE EngineTake \/ EngineDies
      BY <1>1, <3>3 DEF EngineTake, EngineDies, Still, Game
    <3> QED
      BY <1>5, <3>1, <3>2, <3>3
  <2> QED
    BY <2>1, <2>2, RecordStands
<1>6. CASE LinkChange \/ BindDevice \/ EngineAnswer \/ UNCHANGED vars
  BY <1>6 DEF LinkChange, BindDevice, EngineAnswer, vars
<1> QED
  BY <1>2, <1>3, <1>4, <1>5, <1>6 DEF Next

(* For any chess, engines, clients, board events and crashes the game task
   implements the record of GameRecord: it is changed by deals, legal moves and
   undos only, and after a crash goes on from the position saved last. *)
THEOREM GameIsARecord == Spec => ImplementsGameRecord
<1>1. Init => Record!Init /\ RecInv
  <2> SUFFICES ASSUME Init PROVE Record!Init /\ RecInv
    OBVIOUS
  <2>1. PICK n \in PlyLimits : game = [Fresh(n, "auto") EXCEPT !.key = <<"Idle", 0>>]
    BY DEF Init
  <2>2. game.history = <<>> /\ game.pos = Home /\ disk = {}
    BY <2>1 DEF Fresh, Init
  <2> QED
    BY <2>2, PlayInit, RecordStarts DEF Record!Init, RecInv, OneFile
<1>2. RecInv /\ [Next]_vars => RecInv'
  BY PlayStep, FileStep DEF RecInv
<1>3. RecInv /\ [Next]_vars => [Record!Next]_<<RecordOf(game), {s.pos : s \in disk}>>
  BY RecordStep
<1> QED
  BY <1>1, <1>2, <1>3, PTL DEF Spec, ImplementsGameRecord, Record!Spec

=============================================================================
