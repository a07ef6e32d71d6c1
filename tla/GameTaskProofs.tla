--------------------------- MODULE GameTaskProofs ---------------------------
(***************************************************************************)
(* Proofs about GameTask.  The handlers are operators from the task's      *)
(* record to its next value, so each has one lemma that says what it keeps *)
(* and the step of an action follows from the lemmas of what it calls.     *)
(***************************************************************************)
EXTENDS GameTask, TLAPS

(* A finished game is still a game. *)
LEMMA FinishType ==
  ASSUME NEW g \in Game, NEW w \in Winners, NEW by \in Sources,
         NEW why \in {"eval", "mate", "stalemate", "admin"}
  PROVE  Finish(g, w, why, by) \in Game
BY DEF Finish, Game, Result, Phases

LEMMA MeasuredType ==
  ASSUME NEW g \in Game, NEW cp \in Int, NEW src \in Engines,
         NEW of \in Positions
  PROVE  Measured(g, cp, src, of) \in Game
<1> DEFINE e == [cp |-> cp, src |-> src, status |-> "ok", of |-> of]
           s == [cp |-> cp, src |-> src, by |-> src, of |-> of]
<1>1. e \in Eval
  BY DEF Eval, Engines, Sources
<1>2. s \in Start
  BY DEF Start, Engines, Sources
<1>3. [g EXCEPT !.eval = e, !.start = s] \in Game
  <2> HIDE DEF e, s
  <2> QED  BY <1>1, <1>2 DEF Game
<1>4. [g EXCEPT !.eval = e, !.start = g.start] \in Game
  <2> HIDE DEF e
  <2> QED  BY <1>1 DEF Game
<1>5. CASE g.plies = 0
  BY <1>3, <1>5 DEF Measured
<1>6. CASE g.plies # 0
  BY <1>4, <1>6 DEF Measured
<1> QED  BY <1>5, <1>6

LEMMA VerdictType ==
  ASSUME NEW g \in Game, NEW cp \in Int, NEW src \in Sources
  PROVE  VerdictFor(g, cp, src) \in Winners
BY DEF VerdictFor, Judge, Winners

LEMMA OnEvalType ==
  ASSUME NEW g \in Game, NEW r \in Answer
  PROVE  OnEval(g, r) \in Game
<1> DEFINE src == IF r.available THEN r.src ELSE "Material"
           of  == IF r.available THEN r.of ELSE g.pos
           cp  == Score[src][of]
           h   == Measured(g, cp, src, of)
<1>1. src \in Engines /\ of \in Positions /\ cp \in Int
  BY ConstantsOK DEF Answer, Game, Engines
<1>2. h \in Game
  BY <1>1, MeasuredType
<1>3. src \in Sources
  BY <1>1 DEF Sources
<1>4. VerdictFor(h, cp, src) \in Winners
  BY <1>1, <1>2, <1>3, VerdictType
<1>5. Finish(h, VerdictFor(h, cp, src), "eval", src) \in Game
  BY <1>2, <1>3, <1>4, FinishType
<1> QED
  BY <1>2, <1>5 DEF OnEval

LEMMA PendingType ==
  ASSUME NEW g \in Game
  PROVE  /\ Pending(g) \in Game
         /\ Pending(g).seq = g.seq /\ Pending(g).pos = g.pos
BY DEF Pending, Game, Eval

LEMMA PostType ==
  ASSUME NEW g \in Game, NEW final \in BOOLEAN
  PROVE  Post(g, final) \in Game
<1> DEFINE h == Pending(g)
           r == [seq |-> g.seq, final |-> final, of |-> g.pos]
<1>1. h \in Game
  BY PendingType
<1>2. r \in Request
  BY DEF Game, Request
<1>3. Append(h.reqs, r) \in Seq(Request)
  BY <1>1, <1>2 DEF Game
<1>4. ASSUME NEW k \in Game, NEW s \in Seq(Request)
      PROVE  [k EXCEPT !.reqs = s] \in Game
  BY DEF Game
<1> QED
  BY <1>1, <1>3, <1>4 DEF Post

LEMMA RequestEvalType ==
  ASSUME NEW g \in Game, NEW final \in BOOLEAN
  PROVE  RequestEval(g, final) \in Game
<1> DEFINE r == [seq |-> g.seq, final |-> final, of |-> g.pos,
                 src |-> "Material", available |-> TRUE]
<1>1. r \in Answer
  BY DEF Game, Answer, Engines
<1>2. OnEval(Pending(g), r) \in Game
  BY <1>1, PendingType, OnEvalType
<1> QED
  BY <1>2, PostType DEF RequestEval

----------------------------------------------------------------------------
(* Stale numbers.  A handler either raises game_seq or leaves both it and the
   position alone, so nothing in flight ever comes to fit a position it was not
   asked for; and a handler that changes the position ends by asking again,
   which replaces the number on show. *)
Follows(g, h) == \/ h.seq > g.seq
                 \/ h.seq = g.seq /\ h.pos = g.pos

Queued(g) == \A i \in 1..Len(g.reqs) : Fits(g.reqs[i], g)

Shown(g) ==
  /\ g.phase \notin {"Idle", "Finished"}
  /\ g.eval.status = "ok" /\ g.eval.src \in Engines
  => g.eval.of = g.pos

Sound(g) == Queued(g) /\ Shown(g)

Keeps(g, h)  == Sound(g) => Sound(h) /\ Follows(g, h)
Renews(g, h) == Queued(g) => Sound(h) /\ Follows(g, h)

(* What fits a game fits every game that follows it. *)
LEMMA FitsFollows ==
  ASSUME NEW g \in Game, NEW h \in Game, Follows(g, h), NEW r,
         r.seq \in Nat, Fits(r, g)
  PROVE  Fits(r, h)
BY DEF Fits, Follows, Game

LEMMA QueuedFollows ==
  ASSUME NEW g \in Game, NEW h \in Game, Follows(g, h), h.reqs = g.reqs,
         Queued(g)
  PROVE  Queued(h)
<1> SUFFICES ASSUME NEW i \in 1..Len(h.reqs) PROVE Fits(h.reqs[i], h)
  BY DEF Queued
<1>1. g.reqs[i] \in Request /\ Fits(g.reqs[i], g)
  BY DEF Queued, Game
<1> QED
  BY <1>1, FitsFollows DEF Request

LEMMA FollowsTrans ==
  ASSUME NEW f \in Game, NEW g \in Game, NEW h \in Game,
         Follows(f, g), Follows(g, h)
  PROVE  Follows(f, h)
<1>1. f.seq \in Nat /\ g.seq \in Nat /\ h.seq \in Nat
  BY DEF Game
<1> QED
  BY <1>1 DEF Follows

(* An answer that passes the game_seq filter is of the position shown. *)
LEMMA OnEvalSound ==
  ASSUME NEW g \in Game, NEW r \in Answer, Fits(r, g)
  PROVE  LET h == OnEval(g, r) IN
         /\ h.reqs = g.reqs /\ h.seq = g.seq /\ h.pos = g.pos
         /\ Shown(g) \/ (r.seq = g.seq /\ r.available) => Shown(h)
<1> DEFINE src == IF r.available THEN r.src ELSE "Material"
           of  == IF r.available THEN r.of ELSE g.pos
           cp  == Score[src][of]
           m   == Measured(g, cp, src, of)
           f   == Finish(m, VerdictFor(m, cp, src), "eval", src)
<1>1. /\ m.reqs = g.reqs /\ m.seq = g.seq /\ m.pos = g.pos
      /\ m.eval.of = of
  BY DEF Measured, Game
<1>2. /\ f.reqs = g.reqs /\ f.seq = g.seq /\ f.pos = g.pos
      /\ f.phase = "Finished"
  BY DEF Finish, Measured, Game
<1>3. r.seq = g.seq => of = g.pos
  BY DEF Fits
<1>4. Shown(f) /\ (r.seq = g.seq => Shown(m))
  BY <1>1, <1>2, <1>3 DEF Shown
<1>5. g.eval.src = "Admin" => Shown(g)
  BY DEF Shown, Engines
<1> HIDE DEF m, f, cp, of, src
<1>6. OnEval(g, r) = IF r.seq # g.seq \/ g.eval.src = "Admin" THEN g
                     ELSE IF r.final /\ g.phase = "Scoring" THEN f ELSE m
  BY DEF OnEval, m, f, cp, of, src
<1> QED
  BY <1>1, <1>2, <1>4, <1>5, <1>6

LEMMA PostSound ==
  ASSUME NEW g \in Game, NEW final \in BOOLEAN, Queued(g)
  PROVE  /\ Sound(Post(g, final))
         /\ Post(g, final).seq = g.seq /\ Post(g, final).pos = g.pos
<1> DEFINE q == [seq |-> g.seq, final |-> final, of |-> g.pos]
           h == Post(g, final)
<1>1. /\ h.reqs = Append(g.reqs, q) /\ h.seq = g.seq /\ h.pos = g.pos
      /\ h.eval.status = "pending"
  BY DEF Post, Pending, Game, Eval
<1>2. g.reqs \in Seq(Request) /\ q \in Request /\ Fits(q, g)
  BY DEF Game, Request, Fits
<1>3. ASSUME NEW i \in 1..Len(Append(g.reqs, q))
      PROVE  Fits(Append(g.reqs, q)[i], g)
  <2>1. CASE i \in 1..Len(g.reqs)
    BY <1>2, <2>1 DEF Queued
  <2>2. CASE i = Len(g.reqs) + 1
    BY <1>2, <2>2
  <2> QED
    BY <1>2, <2>1, <2>2
<1> HIDE DEF h
<1>4. Queued(h) /\ Shown(h)
  BY <1>1, <1>3 DEF Queued, Shown, Fits
<1> QED
  BY <1>1, <1>4 DEF Sound, h

(* Asking leaves nothing stale on show: the number turns pending, or the task
   scores the position itself. *)
LEMMA RequestEvalSound ==
  ASSUME NEW g \in Game, NEW final \in BOOLEAN, Queued(g)
  PROVE  LET h == RequestEval(g, final) IN
         Sound(h) /\ h.seq = g.seq /\ h.pos = g.pos
<1> DEFINE p == Pending(g)
           r == [seq |-> g.seq, final |-> final, of |-> g.pos,
                 src |-> "Material", available |-> TRUE]
<1>1. CASE engineUp
  BY <1>1, PostSound DEF RequestEval
<1>2. CASE ~engineUp
  <2>1. /\ p \in Game /\ p.reqs = g.reqs /\ p.seq = g.seq
        /\ p.pos = g.pos
    BY DEF Pending, Game, Eval
  <2>2. r \in Answer /\ Fits(r, p) /\ r.seq = p.seq /\ r.available
    BY <2>1 DEF Game, Answer, Engines, Fits
  <2> DEFINE h == OnEval(p, r)
  <2>3. /\ h.reqs = p.reqs /\ h.seq = p.seq /\ h.pos = p.pos /\ Shown(h)
    BY <2>1, <2>2, OnEvalSound
  <2>4. Queued(h)
    BY <2>1, <2>3 DEF Queued, Fits
  <2> QED
    BY <1>2, <2>1, <2>3, <2>4 DEF RequestEval, Sound
<1> QED
  BY <1>1, <1>2

LEMMA KeepsTrans ==
  ASSUME NEW f \in Game, NEW g \in Game, NEW h \in Game,
         Keeps(f, g), Keeps(g, h)
  PROVE  Keeps(f, h)
BY FollowsTrans DEF Keeps

LEMMA RenewsKeeps ==
  ASSUME NEW g, NEW h, Renews(g, h)
  PROVE  Keeps(g, h)
BY DEF Renews, Keeps, Sound

(* A step that leaves the position, the number and the requests alone and
   does not bring a finished or idle game back into play. *)
LEMMA EditKeeps ==
  ASSUME NEW g \in Game, NEW h \in Game,
         h.reqs = g.reqs, h.seq = g.seq, h.pos = g.pos, h.eval = g.eval,
         \/ h.phase = g.phase \/ h.phase \in {"Idle", "Finished"}
         \/ g.phase \notin {"Idle", "Finished"}
  PROVE  Keeps(g, h)
<1>1. Follows(g, h) /\ (Shown(g) => Shown(h))
  BY DEF Follows, Shown
<1>2. Queued(g) => Queued(h)
  BY <1>1, QueuedFollows
<1> QED
  BY <1>1, <1>2 DEF Keeps, Sound

LEMMA RequestEvalRenews ==
  ASSUME NEW g \in Game, NEW k \in Game, NEW final \in BOOLEAN,
         k.reqs = g.reqs, Follows(g, k)
  PROVE  LET h == RequestEval(k, final) IN h \in Game /\ Renews(g, h)
<1>1. RequestEval(k, final) \in Game
  BY RequestEvalType
<1>2. ASSUME Queued(g)
      PROVE  LET h == RequestEval(k, final) IN Sound(h) /\ Follows(g, h)
  <2>1. Queued(k)
    BY <1>2, QueuedFollows
  <2> QED
    BY <2>1, RequestEvalSound DEF Follows
<1> QED
  BY <1>1, <1>2 DEF Renews

----------------------------------------------------------------------------
(* The handlers, each with its type and what it does about stale numbers. *)

LEMMA PlayedType ==
  ASSUME NEW g \in Game, NEW q \in Positions
  PROVE  /\ Played(g, q) \in Game
         /\ Played(g, q).reqs = g.reqs /\ Played(g, q).seq = g.seq + 1
<1> DEFINE ply == [pos |-> g.pos, eval |-> g.eval]
<1>1. ply \in Ply
  BY DEF Game, Ply
<1>2. Append(g.history, ply) \in Seq(Ply)
  BY <1>1 DEF Game
<1>3. g.plies + 1 \in Nat /\ g.seq + 1 \in Nat /\ "Playing" \in Phases
  BY DEF Game, Phases
<1>4. ASSUME NEW s \in Seq(Ply), NEW m \in Nat, NEW n \in Nat
      PROVE  [g EXCEPT !.history = s, !.pos = q, !.plies = m, !.seq = n,
                       !.choice = FALSE, !.unread = FALSE,
                       !.phase = "Playing"] \in Game
  BY <1>3 DEF Game
<1>5. Played(g, q) \in Game
  BY <1>2, <1>3, <1>4 DEF Played
<1> QED
  BY <1>5 DEF Played, Game

LEMMA CommitType ==
  ASSUME NEW g \in Game, NEW q \in Positions
  PROVE  Commit(g, q) \in Game /\ Renews(g, Commit(g, q))
<1> DEFINE h == Played(g, q)
           k == [h EXCEPT !.phase = "Scoring"]
<1>1. h \in Game /\ h.reqs = g.reqs /\ Follows(g, h)
  <2>1. h.seq > g.seq
    BY PlayedType DEF Game
  <2> QED
    BY <2>1, PlayedType DEF Follows
<1>2. h.eval.src \in Sources
  BY <1>1 DEF Game, Eval
<1> HIDE DEF h
<1>3. ASSUME NEW w \in Winners, NEW why \in {"mate", "stalemate"}
      PROVE  LET f == Finish(h, w, why, h.eval.src) IN
             f \in Game /\ Renews(g, f)
  <2> DEFINE f == Finish(h, w, why, h.eval.src)
  <2>1. f \in Game
    BY <1>1, <1>2, FinishType
  <2>2. f.reqs = h.reqs /\ f.seq = h.seq /\ f.pos = h.pos
        /\ f.phase = "Finished"
    BY <1>1 DEF Finish, Game
  <2>3. Follows(g, f) /\ Shown(f) /\ f.reqs = g.reqs
    BY <1>1, <2>2 DEF Follows, Shown
  <2>4. Queued(g) => Queued(f)
    BY <2>1, <2>3, QueuedFollows
  <2> QED
    BY <2>1, <2>3, <2>4 DEF Renews, Sound
<1>4. k \in Game /\ k.reqs = g.reqs /\ Follows(g, k)
  BY <1>1 DEF Game, Phases, Follows
<1>5. /\ RequestEval(k, TRUE) \in Game /\ Renews(g, RequestEval(k, TRUE))
      /\ RequestEval(h, FALSE) \in Game /\ Renews(g, RequestEval(h, FALSE))
  BY <1>1, <1>4, RequestEvalRenews
<1> QED
  BY <1>3, <1>5 DEF Commit, Winners, h

LEMMA TakenBackType ==
  ASSUME NEW g \in Game, g.history # <<>>
  PROVE  /\ TakenBack(g) \in Game
         /\ TakenBack(g).reqs = g.reqs /\ TakenBack(g).seq = g.seq + 1
<1> DEFINE n   == Len(g.history)
           ply == g.history[n]
<1>1. g.history \in Seq(Ply) /\ n \in 1..n /\ n - 1 \in Nat
  BY DEF Game
<1>2. ply \in Ply
  BY <1>1
<1>3. ply.pos \in Positions /\ ply.eval \in Eval
  BY <1>2 DEF Ply
<1>4. SubSeq(g.history, 1, n - 1) \in Seq(Ply)
  BY <1>1
<1>5. (IF g.plies = 0 THEN 0 ELSE g.plies - 1) \in Nat /\ g.seq + 1 \in Nat
  BY DEF Game
<1>6. ASSUME NEW q \in Positions, NEW e \in Eval, NEW s \in Seq(Ply),
             NEW m \in Nat, NEW k \in Nat
      PROVE  [g EXCEPT !.pos = q, !.eval = e, !.history = s, !.plies = m,
                       !.seq = k, !.phase = "Playing", !.choice = FALSE,
                       !.result = NoResult, !.unread = FALSE] \in Game
  BY DEF Game, Phases, NoResult, Result, Sources
<1>7. TakenBack(g) \in Game
  BY <1>3, <1>4, <1>5, <1>6 DEF TakenBack
<1>8. TakenBack(g).reqs = g.reqs /\ TakenBack(g).seq = g.seq + 1
  BY DEF TakenBack, Game
<1> QED
  BY <1>7, <1>8

LEMMA UndoneType ==
  ASSUME NEW g \in Game, g.history # <<>>
  PROVE  Undone(g) \in Game /\ Renews(g, Undone(g))
<1>1. Follows(g, TakenBack(g))
  BY TakenBackType DEF Follows, Game
<1> QED
  BY <1>1, TakenBackType, RequestEvalRenews DEF Undone

LEMMA BeginPlayType ==
  ASSUME NEW g \in Game
  PROVE  BeginPlay(g) \in Game /\ Renews(g, BeginPlay(g))
<1> DEFINE h == [g EXCEPT !.phase = "Playing", !.stable = FALSE,
                          !.unread = FALSE]
<1>1. h \in Game /\ h.reqs = g.reqs /\ Follows(g, h)
  BY DEF Game, Phases, Follows
<1> QED
  BY <1>1, RequestEvalRenews DEF BeginPlay

LEMMA ResyncedType ==
  ASSUME NEW g \in Game
  PROVE  /\ Resynced(g) \in Game /\ Keeps(g, Resynced(g))
         /\ Resynced(g).reqs = g.reqs /\ Resynced(g).seq = g.seq
<1> DEFINE f == IF g.phase = "AwaitingChoice" THEN "Playing" ELSE g.phase
           h == Resynced(g)
<1>1. f \in Phases
  BY DEF Game, Phases
<1>2. ASSUME NEW k \in Phases
      PROVE  [g EXCEPT !.choice = FALSE, !.torn = FALSE, !.unread = FALSE,
                       !.phase = k] \in Game
  BY DEF Game
<1>3. h \in Game
  BY <1>1, <1>2 DEF Resynced
<1>4. /\ h.phase = f /\ h.eval = g.eval
      /\ h.reqs = g.reqs /\ h.seq = g.seq /\ h.pos = g.pos
  BY DEF Resynced, Game
<1> HIDE DEF h
<1>5. Follows(g, h) /\ (Shown(g) => Shown(h))
  BY <1>4 DEF Follows, Shown
<1>6. Queued(g) => Queued(h)
  BY <1>3, <1>4, <1>5, QueuedFollows
<1> QED
  BY <1>3, <1>4, <1>5, <1>6 DEF Keeps, Sound, h

LEMMA SetUpType ==
  ASSUME NEW g \in Game, NEW p \in Positions
  PROVE  /\ SetUp(g, p) \in Game
         /\ SetUp(g, p).reqs = g.reqs /\ SetUp(g, p).seq = g.seq + 1
<1>1. NoEval \in Eval /\ Unscored \in Start /\ NoResult \in Result
  BY DEF NoEval, Unscored, NoResult, Eval, Start, Result, Sources, Engines
<1>2. g.seq + 1 \in Nat /\ <<>> \in Seq(Ply)
  BY DEF Game
<1>3. ASSUME NEW k \in Nat, NEW s \in Seq(Ply)
      PROVE  [g EXCEPT !.seq = k, !.phase = "Setup", !.target = p, !.pos = p,
                       !.plies = 0, !.history = s, !.choice = FALSE,
                       !.result = NoResult, !.stable = FALSE,
                       !.eval = NoEval, !.start = Unscored, !.torn = FALSE,
                       !.over = {}] \in Game
  BY <1>1 DEF Game, Phases
<1>4. SetUp(g, p) \in Game
  BY <1>2, <1>3 DEF SetUp
<1>5. SetUp(g, p).reqs = g.reqs /\ SetUp(g, p).seq = g.seq + 1
  BY DEF SetUp, Game
<1> QED
  BY <1>4, <1>5

LEMMA DealtType ==
  ASSUME NEW g \in Game, NEW p \in Positions
  PROVE  Dealt(g, p) \in Game /\ Renews(g, Dealt(g, p))
<1>1. Follows(g, SetUp(g, p))
  BY SetUpType DEF Follows, Game
<1> QED
  BY <1>1, SetUpType, RequestEvalRenews DEF Dealt

LEMMA ImposedType ==
  ASSUME NEW g \in Game, NEW p \in Positions
  PROVE  /\ Imposed(g, p) \in Game
         /\ Imposed(g, p).reqs = g.reqs /\ Imposed(g, p).seq = g.seq + 1
<1> DEFINE target == IF InPlay(g) THEN g.target ELSE p
           start  == IF InPlay(g) THEN g.start
                     ELSE [g.start EXCEPT !.cp = 0, !.by = "Unknown", !.of = NoPos]
           phase  == IF g.phase \in {"Idle", "Finished", "AwaitingChoice"}
                     THEN "Playing" ELSE g.phase
           over   == g.over \cup {"fen"}
<1>1. target \in Positions /\ phase \in Phases /\ NoResult \in Result
  BY DEF Game, Phases, NoResult, Result, Sources
<1>2. start \in Start
  <2>1. g.start \in Start
    BY DEF Game
  <2>2. ASSUME NEW s \in Start
        PROVE  [s EXCEPT !.cp = 0, !.by = "Unknown", !.of = NoPos] \in Start
    <3>1. 0 \in Int /\ "Unknown" \in Sources /\ NoPos \in Positions \cup {NoPos}
      BY DEF Sources
    <3> QED
      BY <3>1 DEF Start
  <2> QED
    BY <2>1, <2>2
<1>3. g.seq + 1 \in Nat /\ <<>> \in Seq(Ply)
      /\ over \in SUBSET {"fen", "restart", "limit"}
  BY DEF Game
<1>4. ASSUME NEW k \in Nat, NEW s \in Seq(Ply), NEW t \in Positions,
             NEW b \in Start, NEW f \in Phases,
             NEW o \in SUBSET {"fen", "restart", "limit"}
      PROVE  [g EXCEPT !.pos = p, !.seq = k, !.history = s, !.choice = FALSE,
                       !.result = NoResult, !.over = o, !.target = t,
                       !.start = b, !.phase = f] \in Game
  BY <1>1 DEF Game
<1>5. Imposed(g, p) \in Game
  BY <1>1, <1>2, <1>3, <1>4 DEF Imposed
<1>6. Imposed(g, p).reqs = g.reqs /\ Imposed(g, p).seq = g.seq + 1
  BY DEF Imposed, Game
<1> QED
  BY <1>5, <1>6

LEMMA OverwrittenType ==
  ASSUME NEW g \in Game, NEW p \in Positions
  PROVE  Overwritten(g, p) \in Game /\ Renews(g, Overwritten(g, p))
<1> DEFINE h == Resynced(Imposed(g, p))
<1>1. h \in Game /\ h.reqs = g.reqs /\ h.seq = g.seq + 1
  BY ImposedType, ResyncedType
<1>2. Follows(g, h)
  BY <1>1 DEF Follows, Game
<1> QED
  BY <1>1, <1>2, RequestEvalRenews DEF Overwritten

LEMMA OnInferenceType ==
  ASSUME NEW g \in Game, NEW inf \in Inferences(g), InPlay(g)
  PROVE  OnInference(g, inf) \in Game /\ Keeps(g, OnInference(g, inf))
<1> DEFINE h == [g EXCEPT !.phase = "Playing", !.choice = FALSE]
<1>1. Ask(g) \in Game /\ Keeps(g, Ask(g))
  <2>1. Ask(g) \in Game
    BY DEF Ask, Game, Phases
  <2>2. /\ Ask(g).reqs = g.reqs /\ Ask(g).seq = g.seq /\ Ask(g).pos = g.pos
        /\ Ask(g).eval = g.eval
    BY DEF Ask, Game
  <2> QED
    BY <2>1, <2>2, EditKeeps DEF InPlay
<1>2. h \in Game /\ Keeps(g, h)
  <2>1. h \in Game
    BY DEF Game, Phases
  <2>2. h.reqs = g.reqs /\ h.seq = g.seq /\ h.pos = g.pos /\ h.eval = g.eval
    BY DEF Game
  <2> QED
    BY <2>1, <2>2, EditKeeps DEF InPlay
<1>3. inf.pos \in Positions
  BY ConstantsOK DEF Inferences, Game
<1>4. Commit(g, inf.pos) \in Game /\ Keeps(g, Commit(g, inf.pos))
  BY <1>3, CommitType, RenewsKeeps
<1>5. Keeps(g, g)
  BY EditKeeps
<1> QED
  BY <1>1, <1>2, <1>4, <1>5 DEF OnInference

LEMMA TickSetupType ==
  ASSUME NEW g \in Game, NEW clock \in Clocks, g.phase = "Setup"
  PROVE  TickSetup(g, clock) \in Game /\ Keeps(g, TickSetup(g, clock))
<1> DEFINE h == TickSetup(g, clock)
<1>1. ASSUME NEW f \in Phases, NEW b \in BOOLEAN
      PROVE  [g EXCEPT !.stable = b, !.phase = f] \in Game
  BY DEF Game
<1>2. [g EXCEPT !.stable = FALSE] \in Game
  BY DEF Game
<1>3. (IF g.stable /\ clock = "elapsed" THEN "Countdown" ELSE g.phase) \in Phases
  BY DEF Game, Phases
<1>4. h \in Game
  BY <1>1, <1>2, <1>3 DEF TickSetup
<1>5. h.reqs = g.reqs /\ h.seq = g.seq /\ h.pos = g.pos /\ h.eval = g.eval
  BY DEF TickSetup, Game
<1> QED
  BY <1>4, <1>5, EditKeeps

LEMMA TickPhaseType ==
  ASSUME NEW g \in Game, NEW clock \in Clocks, NEW inf \in Inferences(g)
  PROVE  TickPhase(g, clock, inf) \in Game /\ Keeps(g, TickPhase(g, clock, inf))
<1>1. CASE g.phase = "Countdown"
  <2> DEFINE h == [g EXCEPT !.phase = "Setup", !.stable = FALSE]
  <2>1. h \in Game
    BY DEF Game, Phases
  <2>2. h.reqs = g.reqs /\ h.seq = g.seq /\ h.pos = g.pos /\ h.eval = g.eval
    BY DEF Game
  <2>3. Keeps(g, h) /\ Keeps(g, g)
    BY <1>1, <2>1, <2>2, EditKeeps
  <2>4. BeginPlay(g) \in Game /\ Keeps(g, BeginPlay(g))
    BY BeginPlayType, RenewsKeeps
  <2>5. TickPhase(g, clock, inf) = TickCountdown(g, clock)
    BY <1>1 DEF TickPhase, InPlay
  <2> QED
    BY <2>1, <2>3, <2>4, <2>5 DEF TickCountdown
<1>2. CASE InPlay(g)
  <2> DEFINE h == [g EXCEPT !.unread = FALSE]
  <2>1. h \in Game
    BY DEF Game
  <2>2. /\ h.reqs = g.reqs /\ h.seq = g.seq /\ h.pos = g.pos
        /\ h.eval = g.eval /\ h.phase = g.phase
    BY DEF Game
  <2>3. Keeps(g, h) /\ Keeps(g, g)
    BY <2>1, <2>2, EditKeeps
  <2>4. inf \in Inferences(h) /\ InPlay(h)
    BY <1>2, <2>2 DEF Inferences, InPlay
  <2> HIDE DEF h
  <2>5. OnInference(h, inf) \in Game /\ Keeps(g, OnInference(h, inf))
    BY <2>1, <2>3, <2>4, OnInferenceType, KeepsTrans
  <2>6. TickPhase(g, clock, inf) = TickPlaying(g, clock, inf)
    BY <1>2 DEF TickPhase, InPlay
  <2> QED
    BY <2>3, <2>5, <2>6 DEF TickPlaying, h
<1>3. CASE g.phase = "Setup"
  <2>1. TickPhase(g, clock, inf) = TickSetup(g, clock)
    BY <1>3 DEF TickPhase, InPlay
  <2> QED
    BY <1>3, <2>1, TickSetupType
<1>4. CASE g.phase \notin {"Setup", "Countdown"} /\ ~InPlay(g)
  BY <1>4, EditKeeps DEF TickPhase
<1> QED
  BY <1>1, <1>2, <1>3, <1>4

LEMMA TickAutopilotType ==
  ASSUME NEW g \in Game, NEW pick \in Picks(g)
  PROVE  TickAutopilot(g, pick) \in Game /\ Keeps(g, TickAutopilot(g, pick))
<1>1. pick = NoPos \/ pick \in Positions
  BY ConstantsOK DEF Picks, Game
<1> QED
  BY <1>1, CommitType, RenewsKeeps, EditKeeps DEF TickAutopilot

LEMMA PublishType ==
  ASSUME TypeOK, NEW g \in Game, Publish(g)
  PROVE  game' \in Game /\ disk' \in SUBSET Saved
<1>1. Key(g) \in Phases \X Int
  BY DEF Key, Game
<1>2. game' \in Game
  BY <1>1 DEF Publish, Game
<1>3. Snapshot(g) \in SUBSET Saved
  BY DEF Snapshot, Game, Saved
<1>4. disk' \in {disk, {}, Snapshot(g)}
  BY ConstantsOK DEF Publish
<1> QED
  BY <1>2, <1>3, <1>4 DEF TypeOK

LEMMA FreshType ==
  ASSUME NEW n \in Nat, NEW mode \in Modes
  PROVE  Fresh(n, mode) \in Game
<1>1. NoEval \in Eval /\ Unscored \in Start /\ NoResult \in Result
  BY DEF NoEval, Unscored, NoResult, Eval, Start, Result, Sources, Engines
<1>2. Home \in Positions
  BY ConstantsOK
<1>3. <<"Idle", -1>> \in Phases \X Int /\ "Idle" \in Phases
  BY DEF Phases
<1>4. <<>> \in Seq(Ply) /\ <<>> \in Seq(Request)
  OBVIOUS
<1> QED
  BY <1>1, <1>2, <1>3, <1>4 DEF Fresh, Game

LEMMA RestoredType ==
  ASSUME NEW g \in Game, NEW s \in Saved
  PROVE  /\ Restored(g, s) \in Game
         /\ g.reqs = <<>> => Sound(Restored(g, s))
<1> DEFINE f == CASE s.phase = "Finished" -> "Finished"
                  [] s.phase \in {"Setup", "Countdown"} -> "Setup"
                  [] OTHER -> "Playing"
           b == [s.start EXCEPT !.src = "Material"]
<1>1. f \in Phases
  BY DEF Phases
<1>2. b \in Start
  <2>1. s.start \in Start
    BY DEF Saved
  <2>2. ASSUME NEW k \in Start
        PROVE  [k EXCEPT !.src = "Material"] \in Start
    BY DEF Start, Sources, Engines
  <2> QED
    BY <2>1, <2>2
<1>3. s.pos \in Positions /\ s.target \in Positions /\ s.plies \in Nat
      /\ g.seq + 1 \in Nat
  BY DEF Saved, Game
<1>4. ASSUME NEW p \in Positions, NEW t \in Positions, NEW m \in Nat,
             NEW k \in Nat, NEW st \in Start, NEW ph \in Phases
      PROVE  [g EXCEPT !.pos = p, !.target = t, !.plies = m, !.seq = k,
                       !.start = st, !.over = {"restart"}, !.phase = ph]
               \in Game
  BY DEF Game
<1> HIDE DEF f, b
<1>5. [g EXCEPT !.pos = s.pos, !.target = s.target, !.plies = s.plies,
                !.seq = @ + 1, !.start = b, !.over = {"restart"},
                !.phase = f] \in Game
  BY <1>1, <1>2, <1>3, <1>4
<1>6. Restored(g, s) \in Game
  BY <1>5, PostType DEF Restored, f, b
<1>7. ASSUME g.reqs = <<>>
      PROVE  Sound(Restored(g, s))
  <2> DEFINE k == [g EXCEPT !.pos = s.pos, !.target = s.target,
                            !.plies = s.plies, !.seq = @ + 1, !.start = b,
                            !.over = {"restart"}, !.phase = f]
  <2>1. k \in Game /\ k.reqs = <<>>
    BY <1>5, <1>7 DEF Game
  <2> HIDE DEF k
  <2>2. Queued(k)
    BY <2>1 DEF Queued
  <2>3. Sound(Post(k, FALSE))
    BY <2>1, <2>2, PostSound
  <2> QED
    BY <2>3 DEF Restored, k, f, b
<1> QED
  BY <1>6, <1>7

----------------------------------------------------------------------------
(* A client's action keeps the game a game and leaves the rest alone. *)
LEMMA ClientType ==
  ASSUME TypeOK, ClientAction
  PROVE  TypeOK'
<1> USE DEF TypeOK
<1>1. ASSUME NEW op, Client(op), game' \in Game
      PROVE  TypeOK'
  BY <1>1 DEF Client
<1>2. CASE NewGame
  BY <1>1, <1>2, DealtType, ConstantsOK DEF NewGame
<1>3. CASE ForceStart
  BY <1>1, <1>3, BeginPlayType DEF ForceStart
<1>4. CASE Move
  <2>1. PICK q \in Legal[game.pos] : game' = Commit(game, q)
    BY <1>4 DEF Move
  <2>2. q \in Positions
    BY ConstantsOK DEF Game
  <2> QED
    BY <1>1, <1>4, <2>1, <2>2, CommitType DEF Move
<1>5. CASE Dismiss
  <2>1. [game EXCEPT !.choice = FALSE, !.phase = "Playing"] \in Game
    BY DEF Game, Phases
  <2> QED
    BY <1>1, <1>5, <2>1 DEF Dismiss
<1>6. CASE Undo
  BY <1>1, <1>6, UndoneType DEF Undo
<1>7. CASE Resync
  BY <1>1, <1>7, ResyncedType DEF Resync
<1>8. CASE SetDetect
  <2>1. \A mode \in Modes : [game EXCEPT !.detect = mode] \in Game
    BY DEF Game
  <2> QED
    BY <1>1, <1>8, <2>1 DEF SetDetect
<1>9. CASE SetMaxPly
  <2>1. ASSUME NEW n \in Nat, NEW o \in SUBSET {"fen", "restart", "limit"}
        PROVE  [game EXCEPT !.maxPly = n, !.over = o] \in Game
    BY DEF Game
  <2>2. game.over \cup {"limit"} \in SUBSET {"fen", "restart", "limit"}
    BY DEF Game
  <2>3. \A n \in PlyLimits :
          [game EXCEPT !.maxPly = n, !.over = @ \cup {"limit"}] \in Game
    BY <2>1, <2>2, ConstantsOK
  <2> QED
    BY <1>1, <1>9, <2>3 DEF SetMaxPly
<1>10. CASE SetEval
  <2>1. ASSUME NEW cp \in Int
        PROVE  [cp |-> cp, src |-> "Admin", status |-> "ok", of |-> NoPos]
                 \in Eval
    BY DEF Eval, Sources
  <2>2. ASSUME NEW e \in Eval
        PROVE  [game EXCEPT !.eval = e] \in Game
    BY DEF Game
  <2>3. PICK cp \in Decrees :
          game' = [game EXCEPT !.eval = [cp |-> cp, src |-> "Admin",
                                         status |-> "ok", of |-> NoPos]]
    BY <1>10 DEF SetEval
  <2>4. [cp |-> cp, src |-> "Admin", status |-> "ok", of |-> NoPos] \in Eval
    BY <2>1, ConstantsOK
  <2> QED
    BY <1>1, <1>10, <2>2, <2>3, <2>4 DEF SetEval
<1>11. CASE SetFen
  BY <1>1, <1>11, OverwrittenType, ConstantsOK DEF SetFen
<1>12. CASE Rescore
  BY <1>1, <1>12, RequestEvalType DEF Rescore
<1>13. CASE End
  BY <1>1, <1>13, FinishType DEF End, Sources
<1>14. CASE Abort
  <2>1. ASSUME NEW k \in Nat
        PROVE  [game EXCEPT !.phase = "Idle", !.seq = k, !.choice = FALSE,
                            !.result = NoResult, !.autopilot = FALSE,
                            !.stable = FALSE] \in Game
    BY DEF Game, Phases, NoResult, Result, Sources
  <2>2. game.seq + 1 \in Nat
    BY DEF Game
  <2> QED
    BY <1>1, <1>14, <2>1, <2>2 DEF Abort
<1>15. CASE SetAutopilot
  <2>1. \A on \in BOOLEAN : [game EXCEPT !.autopilot = on] \in Game
    BY DEF Game
  <2> QED
    BY <1>1, <1>15, <2>1 DEF SetAutopilot
<1> QED
  BY <1>2, <1>3, <1>4, <1>5, <1>6, <1>7, <1>8, <1>9, <1>10, <1>11, <1>12,
     <1>13, <1>14, <1>15 DEF ClientAction

LEMMA InitType == Init => TypeOK
<1> SUFFICES ASSUME Init PROVE TypeOK
  OBVIOUS
<1>1. PICK n \in PlyLimits :
        game = [Fresh(n, "auto") EXCEPT !.key = <<"Idle", 0>>]
  BY DEF Init
<1>2. Fresh(n, "auto") \in Game
  BY ConstantsOK, FreshType DEF Modes
<1>3. <<"Idle", 0>> \in Phases \X Int
  BY DEF Phases
<1>4. game \in Game
  BY <1>1, <1>2, <1>3 DEF Game
<1> QED
  BY <1>4 DEF Init, TypeOK, Board, Diffs

LEMMA TypeStep == TypeOK /\ [Next]_vars => TypeOK'
<1> SUFFICES ASSUME TypeOK, [Next]_vars PROVE TypeOK'
  OBVIOUS
<1>1. ASSUME NEW s \in Seq(Request)
      PROVE  [game EXCEPT !.reqs = s] \in Game
  BY DEF TypeOK, Game
<1>2. CASE ClientAction
  BY <1>2, ClientType
<1>3. CASE Tick
  <2>1. PICK clock \in Clocks, inf \in Inferences(game) :
          \E pick \in Picks(TickPhase(game, clock, inf)) :
            Publish(TickAutopilot(TickPhase(game, clock, inf), pick))
    BY <1>3 DEF Tick
  <2>2. TickPhase(game, clock, inf) \in Game
    BY TickPhaseType DEF TypeOK
  <2>3. PICK g \in Game : Publish(g)
    BY <2>1, <2>2, TickAutopilotType
  <2>4. game' \in Game /\ disk' \in SUBSET Saved
    BY <2>3, PublishType
  <2> QED
    BY <1>3, <2>4 DEF Tick, TypeOK
<1>4. CASE DeviceEvent
  <2>1. ASSUME NEW t \in BOOLEAN, NEW u \in BOOLEAN
        PROVE  [game EXCEPT !.torn = t, !.unread = u] \in Game
    BY DEF TypeOK, Game
  <2>2. PICK gap \in BOOLEAN, snapshot \in BOOLEAN, changed \in BOOLEAN :
          /\ game' = [game EXCEPT !.torn = (@ \/ gap) /\ ~snapshot,
                                  !.unread = @ \/ changed]
          /\ board' \in [live : {board.live \/ snapshot},
                        diff : IF changed THEN Diffs ELSE {board.diff}]
    BY <1>4 DEF DeviceEvent
  <2>3. game' \in Game
    BY <2>1, <2>2
  <2>4. board' \in Board
    BY <2>2 DEF TypeOK, Board
  <2> QED
    BY <1>4, <2>3, <2>4 DEF DeviceEvent, TypeOK
<1>5. CASE LinkChange
  BY <1>5 DEF LinkChange, TypeOK, Board
<1>6. CASE BindDevice
  BY <1>6 DEF BindDevice, TypeOK, Board, Diffs
<1>7. CASE RecvEval
  <2>1. Head(answers) \in Answer /\ Tail(answers) \in Seq(Answer)
    BY <1>7 DEF RecvEval, TypeOK
  <2> QED
    BY <1>7, <2>1, OnEvalType DEF RecvEval, TypeOK
<1>8. CASE EngineTake
  <2>1. game.reqs \in Seq(Request) /\ game.reqs # <<>>
    BY <1>8 DEF EngineTake, TypeOK, Game
  <2>2. game.reqs[Len(game.reqs)] \in Request
    BY <2>1
  <2>3. <<game.reqs[Len(game.reqs)]>> \in Seq(Request)
    BY <2>2
  <2> QED
    BY <1>1, <1>8, <2>3 DEF EngineTake, TypeOK
<1>9. CASE EngineAnswer
  <2>1. busy[1] \in Request
    BY <1>9 DEF EngineAnswer, TypeOK
  <2>2. ASSUME NEW available \in BOOLEAN
        PROVE  [seq |-> busy[1].seq, final |-> busy[1].final,
                of |-> busy[1].of, src |-> "Stockfish",
                available |-> available] \in Answer
    BY <2>1 DEF Request, Answer, Engines
  <2>3. answers' \in Seq(Answer)
    BY <1>9, <2>2 DEF EngineAnswer, TypeOK
  <2> QED
    BY <1>9, <2>3 DEF EngineAnswer, TypeOK
<1>10. CASE EngineDies
  <2>1. /\ game' = [game EXCEPT !.reqs = <<>>]
        /\ engineUp' = FALSE /\ busy' = <<>>
        /\ UNCHANGED <<board, answers, disk, restarts>>
    BY <1>10 DEF EngineDies
  <2>2. <<>> \in Seq(Request)
    OBVIOUS
  <2>3. game' \in Game
    BY <1>1, <2>1, <2>2
  <2> QED
    BY <2>1, <2>2, <2>3 DEF TypeOK
<1>11. CASE Restart
  <2> DEFINE g == Fresh(game.maxPly, game.detect)
  <2>1. g \in Game
    BY FreshType DEF TypeOK, Game
  <2>2. PICK h \in Game : Publish(h)
    <3>1. \/ Publish(g)
          \/ \E s \in disk : Publish(Restored(g, s))
      BY <1>11 DEF Restart
    <3>2. \A s \in disk : Restored(g, s) \in Game
      BY <2>1, RestoredType DEF TypeOK
    <3> QED
      BY <2>1, <3>1, <3>2
  <2>3. game' \in Game /\ disk' \in SUBSET Saved
    BY <2>2, PublishType
  <2>4. /\ restarts' \in Nat /\ engineUp' \in BOOLEAN
        /\ busy' \in Seq(Request) /\ answers' \in Seq(Answer)
        /\ board' \in Board
    BY <1>11 DEF Restart, TypeOK, Board, Diffs
  <2> QED
    BY <2>3, <2>4 DEF TypeOK
<1>12. CASE UNCHANGED vars
  BY <1>12 DEF vars, TypeOK
<1> QED
  BY <1>2, <1>3, <1>4, <1>5, <1>6, <1>7, <1>8, <1>9, <1>10, <1>11, <1>12
  DEF Next

(* Whatever clients, board, engine and restarts do, the task's record stays
   a game, its channels carry requests and answers, and the file holds a game
   that can be restored. *)
THEOREM TypeCorrect == Spec => []TypeOK
<1>1. Init => TypeOK
  BY InitType
<1>2. TypeOK /\ [Next]_vars => TypeOK'
  BY TypeStep
<1> QED
  BY <1>1, <1>2, PTL DEF Spec


----------------------------------------------------------------------------
(* What is stale stays stale: type, the number on show, and everything in
   flight.  EvalOfBoard alone is not inductive: an answer on its way could name
   the current game_seq and another position. *)
IInv == TypeOK /\ EvalOfBoard /\ SeqNamesPosition

LEMMA IInvParts ==
  ASSUME TypeOK
  PROVE  /\ EvalOfBoard <=> Shown(game)
         /\ SeqNamesPosition <=>
              /\ Queued(game)
              /\ \A i \in 1..Len(busy) : Fits(busy[i], game)
              /\ \A i \in 1..Len(answers) : Fits(answers[i], game)
BY DEF EvalOfBoard, Shown, SeqNamesPosition, Queued

(* A step that keeps the game sound and puts nothing new in flight. *)
LEMMA QuietStep ==
  ASSUME IInv, TypeOK', Keeps(game, game'),
         UNCHANGED busy, UNCHANGED answers
  PROVE  IInv'
<1>1. Sound(game)
  BY IInvParts DEF IInv, Sound
<1>2. Sound(game') /\ Follows(game, game')
  BY <1>1 DEF Keeps
<1>3. \A i \in 1..Len(busy) : Fits(busy[i], game')
  <2> TAKE i \in 1..Len(busy)
  <2>1. busy[i] \in Request /\ Fits(busy[i], game)
    BY IInvParts DEF IInv, TypeOK
  <2> QED
    BY <1>2, <2>1, FitsFollows DEF IInv, TypeOK, Request
<1>4. \A i \in 1..Len(answers) : Fits(answers[i], game')
  <2> TAKE i \in 1..Len(answers)
  <2>1. answers[i] \in Answer /\ Fits(answers[i], game)
    BY IInvParts DEF IInv, TypeOK
  <2> QED
    BY <1>2, <2>1, FitsFollows DEF IInv, TypeOK, Answer
<1> QED
  BY <1>2, <1>3, <1>4 DEF IInv, EvalOfBoard, Shown, SeqNamesPosition, Queued,
     Sound

LEMMA PublishKeeps ==
  ASSUME TypeOK, NEW g \in Game, Publish(g)
  PROVE  Keeps(g, game')
<1>1. /\ game' \in Game
      /\ game'.reqs = g.reqs /\ game'.seq = g.seq /\ game'.pos = g.pos
      /\ game'.eval = g.eval /\ game'.phase = g.phase
  BY PublishType DEF Publish, Game
<1> QED
  BY <1>1, EditKeeps

(* A client's action keeps the game sound. *)
LEMMA ClientKeeps ==
  ASSUME TypeOK, TypeOK', ClientAction
  PROVE  Keeps(game, game') /\ UNCHANGED <<busy, answers>>
<1>0. game \in Game /\ game' \in Game
  BY DEF TypeOK
<1>1. UNCHANGED <<busy, answers>>
  BY DEF ClientAction, NewGame, ForceStart, Move, Dismiss, Undo, Resync,
     SetDetect, SetMaxPly, SetEval, SetFen, Rescore, End, Abort, SetAutopilot,
     Client
<1> SUFFICES Keeps(game, game')
  BY <1>1
<1>2. CASE NewGame
  BY <1>0, <1>2, DealtType, RenewsKeeps, ConstantsOK DEF NewGame
<1>3. CASE ForceStart
  BY <1>0, <1>3, BeginPlayType, RenewsKeeps DEF ForceStart
<1>4. CASE Move
  <2>1. PICK q \in Legal[game.pos] : game' = Commit(game, q)
    BY <1>4 DEF Move
  <2>2. q \in Positions
    BY <1>0, ConstantsOK DEF Game
  <2> QED
    BY <1>0, <2>1, <2>2, CommitType, RenewsKeeps
<1>5. CASE Undo
  BY <1>0, <1>5, UndoneType, RenewsKeeps DEF Undo
<1>6. CASE Resync
  BY <1>0, <1>6, ResyncedType DEF Resync
<1>7. CASE SetFen
  BY <1>0, <1>7, OverwrittenType, RenewsKeeps, ConstantsOK DEF SetFen
<1>8. CASE Rescore
  <2>1. Follows(game, game)
    BY DEF Follows
  <2> QED
    BY <1>0, <1>8, <2>1, RequestEvalRenews, RenewsKeeps DEF Rescore
<1>9. CASE Dismiss \/ SetDetect \/ SetMaxPly \/ End \/ SetAutopilot
  <2>1. /\ game'.reqs = game.reqs /\ game'.seq = game.seq
        /\ game'.pos = game.pos /\ game'.eval = game.eval
    BY <1>0, <1>9 DEF Dismiss, SetDetect, SetMaxPly, End, SetAutopilot, Finish,
       Game
  <2>2. \/ game'.phase = game.phase \/ game'.phase = "Finished"
        \/ game.phase \notin {"Idle", "Finished"}
    BY <1>0, <1>9 DEF Dismiss, SetDetect, SetMaxPly, End, SetAutopilot, Finish,
       Game, InPlay
  <2> QED
    BY <1>0, <2>1, <2>2, EditKeeps
<1>10. CASE SetEval
  <2>1. /\ game'.reqs = game.reqs /\ game'.seq = game.seq
        /\ game'.pos = game.pos /\ game'.eval.src = "Admin"
    BY <1>0, <1>10 DEF SetEval, Game
  <2>2. Follows(game, game') /\ Shown(game')
    BY <2>1 DEF Follows, Shown, Engines
  <2> QED
    BY <1>0, <2>1, <2>2, QueuedFollows DEF Keeps, Sound
<1>11. CASE Abort
  <2>1. /\ game'.reqs = game.reqs /\ game'.seq = game.seq + 1
        /\ game'.phase = "Idle"
    BY <1>0, <1>11 DEF Abort, Game
  <2>2. game.seq \in Nat
    BY <1>0 DEF Game
  <2>3. Follows(game, game') /\ Shown(game')
    BY <2>1, <2>2 DEF Follows, Shown
  <2> QED
    BY <1>0, <2>1, <2>3, QueuedFollows DEF Keeps, Sound
<1> QED
  BY <1>2, <1>3, <1>4, <1>5, <1>6, <1>7, <1>8, <1>9, <1>10, <1>11
  DEF ClientAction

LEMMA IInvStep == IInv /\ [Next]_vars => IInv'
<1> SUFFICES ASSUME IInv, [Next]_vars PROVE IInv'
  OBVIOUS
<1>1. TypeOK /\ TypeOK'
  BY TypeStep DEF IInv
<1>2. game \in Game /\ game' \in Game
  BY <1>1 DEF TypeOK
<1>3. Sound(game)
  BY <1>1, IInvParts DEF IInv, Sound
<1>4. CASE ClientAction
  BY <1>1, <1>4, ClientKeeps, QuietStep
<1>5. CASE Tick
  <2>1. PICK clock \in Clocks, inf \in Inferences(game) :
          \E pick \in Picks(TickPhase(game, clock, inf)) :
            Publish(TickAutopilot(TickPhase(game, clock, inf), pick))
    BY <1>5 DEF Tick
  <2> DEFINE f == TickPhase(game, clock, inf)
  <2>2. f \in Game /\ Keeps(game, f)
    BY <1>2, TickPhaseType
  <2> HIDE DEF f
  <2>3. PICK pick \in Picks(f) : Publish(TickAutopilot(f, pick))
    BY <2>1 DEF f
  <2> DEFINE g == TickAutopilot(f, pick)
  <2>4. g \in Game /\ Keeps(f, g)
    BY <2>2, TickAutopilotType
  <2> HIDE DEF g
  <2>5. Keeps(g, game')
    BY <1>1, <2>3, <2>4, PublishKeeps DEF g
  <2>6. Keeps(game, game')
    BY <1>2, <2>2, <2>4, <2>5, KeepsTrans
  <2> QED
    BY <1>1, <1>5, <2>6, QuietStep DEF Tick
<1>6. CASE DeviceEvent
  <2>1. /\ game'.reqs = game.reqs /\ game'.seq = game.seq
        /\ game'.pos = game.pos /\ game'.eval = game.eval
        /\ game'.phase = game.phase
    BY <1>2, <1>6 DEF DeviceEvent, Game
  <2>2. Keeps(game, game')
    BY <1>2, <2>1, EditKeeps
  <2> QED
    BY <1>1, <1>6, <2>2, QuietStep DEF DeviceEvent
<1>7. CASE LinkChange \/ BindDevice \/ UNCHANGED vars
  <2>1. UNCHANGED <<game, busy, answers>>
    BY <1>7 DEF LinkChange, BindDevice, vars
  <2>2. Keeps(game, game')
    BY <1>2, <2>1, EditKeeps
  <2> QED
    BY <1>1, <2>1, <2>2, QuietStep
<1>8. CASE RecvEval
  <2> DEFINE r == Head(answers)
  <2>1. /\ answers \in Seq(Answer) /\ answers # <<>>
        /\ game' = OnEval(game, r) /\ answers' = Tail(answers)
        /\ busy' = busy
    BY <1>1, <1>8 DEF RecvEval, TypeOK
  <2>2. r \in Answer /\ Fits(r, game)
    BY <1>1, <2>1, IInvParts DEF IInv
  <2> HIDE DEF r
  <2>3. /\ game'.reqs = game.reqs /\ game'.seq = game.seq
        /\ game'.pos = game.pos /\ Shown(game')
    BY <1>2, <1>3, <2>1, <2>2, OnEvalSound DEF Sound
  <2>4. Queued(game') /\ \A i \in 1..Len(busy) : Fits(busy[i], game')
    BY <1>1, <2>3, IInvParts DEF IInv, Queued, Fits
  <2>5. ASSUME NEW i \in 1..Len(Tail(answers))
        PROVE  Fits(Tail(answers)[i], game')
    <3>1. i + 1 \in 1..Len(answers) /\ Tail(answers)[i] = answers[i + 1]
      BY <2>1
    <3>2. Fits(answers[i + 1], game)
      BY <1>1, <3>1, IInvParts DEF IInv
    <3> QED
      BY <2>3, <3>1, <3>2 DEF Fits
  <2> QED
    BY <1>1, <2>1, <2>3, <2>4, <2>5 DEF IInv, EvalOfBoard, Shown,
       SeqNamesPosition, Queued
<1>9. CASE EngineTake
  <2>1. /\ game.reqs \in Seq(Request) /\ game.reqs # <<>>
        /\ busy' = <<game.reqs[Len(game.reqs)]>>
        /\ answers' = answers /\ game' = [game EXCEPT !.reqs = <<>>]
    BY <1>2, <1>9 DEF EngineTake, Game
  <2>2. Len(game.reqs) \in 1..Len(game.reqs)
    BY <2>1
  <2>3. Fits(game.reqs[Len(game.reqs)], game)
    BY <1>1, <2>2, IInvParts DEF IInv, Queued
  <2>4. /\ game'.seq = game.seq /\ game'.pos = game.pos
        /\ game'.eval = game.eval /\ game'.phase = game.phase
        /\ game'.reqs = <<>>
    BY <1>2, <2>1 DEF Game
  <2>5. \A i \in 1..Len(busy') : Fits(busy'[i], game')
    BY <2>1, <2>3, <2>4 DEF Fits
  <2>6. \A i \in 1..Len(answers) : Fits(answers[i], game')
    BY <1>1, <2>4, IInvParts DEF IInv, Fits
  <2>7. Queued(game') /\ Shown(game')
    BY <1>3, <2>4 DEF Queued, Sound, Shown
  <2> QED
    BY <1>1, <2>1, <2>5, <2>6, <2>7 DEF IInv, EvalOfBoard, Shown,
       SeqNamesPosition, Queued
<1>10. CASE EngineAnswer
  <2>1. PICK a : /\ a.seq = busy[1].seq /\ a.of = busy[1].of
                 /\ answers' = Append(answers, a)
    BY <1>10 DEF EngineAnswer
  <2>2. /\ busy # <<>> /\ busy' = <<>> /\ game' = game
        /\ busy \in Seq(Request) /\ answers \in Seq(Answer)
    BY <1>1, <1>10 DEF EngineAnswer, TypeOK
  <2>3. Fits(a, game)
    BY <1>1, <2>1, <2>2, IInvParts DEF IInv, Fits
  <2>4. ASSUME NEW i \in 1..Len(answers')
        PROVE  Fits(answers'[i], game)
    <3>1. CASE i \in 1..Len(answers)
      BY <1>1, <2>1, <2>2, <3>1, IInvParts DEF IInv
    <3>2. CASE i = Len(answers) + 1
      BY <2>1, <2>2, <2>3, <3>2
    <3> QED
      BY <2>1, <2>2, <3>1, <3>2
  <2> QED
    BY <1>1, <2>2, <2>4 DEF IInv, EvalOfBoard, SeqNamesPosition
<1>11. CASE EngineDies
  <2>1. /\ game' = [game EXCEPT !.reqs = <<>>]
        /\ busy' = <<>> /\ answers' = answers
    BY <1>11 DEF EngineDies
  <2>2. /\ game'.seq = game.seq /\ game'.pos = game.pos
        /\ game'.eval = game.eval /\ game'.phase = game.phase
        /\ game'.reqs = <<>>
    BY <1>2, <2>1 DEF Game
  <2>3. \A i \in 1..Len(answers) : Fits(answers[i], game')
    BY <1>1, <2>2, IInvParts DEF IInv, Fits
  <2>4. Queued(game') /\ Shown(game')
    BY <1>3, <2>2 DEF Queued, Sound, Shown
  <2> QED
    BY <1>1, <2>1, <2>3, <2>4 DEF IInv, EvalOfBoard, Shown, SeqNamesPosition,
       Queued
<1>12. CASE Restart
  <2> DEFINE g == Fresh(game.maxPly, game.detect)
  <2>1. g \in Game /\ g.reqs = <<>> /\ g.eval.status = "pending"
    BY <1>2, FreshType DEF Fresh, NoEval, Game
  <2>2. Sound(g)
    BY <2>1 DEF Sound, Queued, Shown
  <2>3. ASSUME NEW s \in disk
        PROVE  Restored(g, s) \in Game /\ Sound(Restored(g, s))
    BY <1>1, <2>1, RestoredType DEF TypeOK
  <2>4. PICK h \in Game : Publish(h) /\ Sound(h)
    BY <1>12, <2>1, <2>2, <2>3 DEF Restart
  <2>5. Sound(game')
    BY <1>1, <2>4, PublishKeeps DEF Keeps
  <2>6. busy' = <<>> /\ answers' = <<>>
    BY <1>12 DEF Restart
  <2> QED
    BY <1>1, <2>5, <2>6 DEF IInv, EvalOfBoard, Shown, SeqNamesPosition,
       Queued, Sound
<1> QED
  BY <1>4, <1>5, <1>6, <1>7, <1>8, <1>9, <1>10, <1>11, <1>12 DEF Next

LEMMA IInvInit == Init => IInv
<1> SUFFICES ASSUME Init PROVE IInv
  OBVIOUS
<1>1. TypeOK
  BY InitType
<1>2. game.reqs = <<>> /\ game.phase = "Idle" /\ busy = <<>> /\ answers = <<>>
  BY DEF Init, Fresh
<1> QED
  BY <1>1, <1>2 DEF IInv, EvalOfBoard, SeqNamesPosition

(* A number shown as an engine's is of the position shown, for any chess, any
   engines, queues of any length and any number of restarts: no late, drained
   or repeated answer is ever taken for a position it was not asked about. *)
THEOREM NoStaleNumber == Spec => [](EvalOfBoard /\ SeqNamesPosition)
<1>1. Init => IInv
  BY IInvInit
<1>2. IInv /\ [Next]_vars => IInv'
  BY IInvStep
<1>3. IInv => EvalOfBoard /\ SeqNamesPosition
  BY DEF IInv
<1> QED
  BY <1>1, <1>2, <1>3, PTL DEF Spec

=============================================================================
