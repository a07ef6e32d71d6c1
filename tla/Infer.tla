------------------------------- MODULE Infer -------------------------------
(***************************************************************************)
(* The move matcher (server/src/game/infer.rs): what the occupancy of the  *)
(* board means, given the position.                                        *)
(*                                                                         *)
(* Chess is a table: a position says who stands where, and Moves gives its *)
(* legal moves.  The order in which shakmaty generates them is left open:  *)
(* it only decides between equal scores.  Scores are in quarters, the      *)
(* step of their settings.                                                 *)
(***************************************************************************)
EXTENDS Observe

CONSTANTS
  Pieces,    \* the physical pieces
  Nobody,    \* what stands on an empty square
  Positions, \* chess positions
  At,        \* position -> who stands on each square
  Moves,     \* position -> its legal moves
  Params     \* the weights of tier 3

Whole == 4  \* one disagreement

\* shift: where the pieces of ours that move go; gone: the square beside the
\* destination that en passant empties.
Move == [from : Squares, to : Squares, castle : BOOLEAN,
         promotion : {"none", "queen", "knight"},
         shift : SUBSET (Squares \X Squares), gone : SUBSET Squares,
         next : Positions]

ASSUME ChessAssumption ==
  /\ Nobody \notin Pieces
  /\ At \in [Positions -> [Squares -> Pieces \cup {Nobody}]]
  /\ Moves \in [Positions -> SUBSET Move]

ASSUME ParamsAssumption ==
  Params \in [max_distance : Nat, margin : Nat, neighbour_credit : Nat,
              unreadable_penalty : Nat, empty_penalty : Nat,
              polarity_credit : Nat]

occupancy(pos) == {sq \in Squares : At[pos][sq] # Nobody}

\* What a move does to the board: its pieces go along shift, and nothing else
\* stirs; a promotion is one pair of squares.
ASSUME PlayAssumption ==
  \A pos \in Positions : \A m \in Moves[pos], sq \in Squares :
    /\ \A a \in Squares : <<a, sq>> \in m.shift =>
         /\ m.promotion = "none" => At[m.next][sq] = At[pos][a]
         /\ m.promotion # "none" => a = m.from /\ sq = m.to
    /\ (/\ sq \notin m.gone
        /\ \A a \in Squares : <<a, sq>> \notin m.shift /\ <<sq, a>> \notin m.shift)
       => At[m.next][sq] = At[pos][sq]
    /\ m.from \in occupancy(pos)
    /\ ~m.castle => <<m.from, m.to>> \in m.shift /\ m.to \in occupancy(m.next)

\* "The only collisions are several legal captures by the same piece, and
\* promotion piece choice" (infer.rs): moves that leave the same squares
\* occupied; and every move empties or fills a square.
ASSUME CollisionAssumption ==
  \A pos \in Positions : \A m \in Moves[pos] :
    /\ occupancy(m.next) # occupancy(pos)
    /\ \A n \in Moves[pos] \ {m} : occupancy(m.next) = occupancy(n.next) =>
         /\ ~m.castle /\ m.from = n.from
         /\ m.to = n.to => m.promotion # "none" /\ m.promotion # n.promotion
         /\ m.to # n.to => m.to \in occupancy(pos)

\* What the board is saying: obs is occ, known, journal and pol_tag.
Observation == [occ : [Squares -> Occs], known : SUBSET Squares,
                journal : SUBSET Squares, pol_tag : [Squares -> Pols]]

occupied(obs) == {sq \in obs.known : obs.occ[sq] # "empty"}

disagreements(expected, obs) ==
  {sq \in obs.known : (sq \in occupied(obs)) # (sq \in expected)}

agrees(expected, obs) == occupied(obs) = expected \cap obs.known

arrival_is_visible(m, obs) == m.to \in obs.known

NoOffset == [expected |-> <<>>, actual |-> <<>>]
Offset   == [expected : Squares, actual : Squares] \cup {NoOffset}

NoChange        == [kind |-> "nochange"]
Certainly(m)    == [kind |-> "commit", move |-> m, confidence |-> "certain",
                    offset |-> NoOffset]
Likely(m, off)  == [kind |-> "commit", move |-> m, confidence |-> "likely",
                    offset |-> off]
Ambiguous(ms)   == [kind |-> "ambiguous", options |-> ms]
Mismatch(sqs, ms) == [kind |-> "mismatch", squares |-> sqs, options |-> ms]

-----------------------------------------------------------------------------
\* The polarity fingerprint of the mover now reads on its destination.
fingerprint(m, obs) ==
  /\ m.to \in obs.known
  /\ obs.pol_tag[m.from] # "none"
  /\ obs.pol_tag[m.from] = polarity(obs.occ[m.to])

\* Seeded fault: the last choice generated stands, not the queen.
reduced_Last(exact) ==
  {m \in exact : m.promotion # "queen"}

\* One queen for each pair of squares: occupancy cannot see the choice.
reduced(exact) ==
  {m \in exact : m.promotion = "queen"
     \/ ~\E n \in exact : n.from = m.from /\ n.to = m.to
                          /\ n.promotion = "queen"}

\* Several moves fit exactly: the journal, then the fingerprint, may name one.
tier2(exact, obs) ==
  LET fits       == reduced(exact)
      journalled == {m \in fits : m.to \in obs.known \cap obs.journal}
      confirmed  == {m \in fits : fingerprint(m, obs)}
      names(ms)  == \E m \in ms : ms = {m}
      only(ms)   == Certainly(CHOOSE m \in ms : TRUE)
  IN IF names(fits) THEN only(fits)
     ELSE IF names(journalled) THEN only(journalled)
     ELSE IF names(confirmed) THEN only(confirmed)
     ELSE Ambiguous(fits)

destinations(hyps, from) == {m.to : m \in {n \in hyps : n.from = from}}

\* The squares beside the destination that may be the arrival, off centre.
stray(m, hyps, obs) ==
  IF m.castle \/ m.to \notin occupancy(m.next) \cap obs.known
     \/ m.to \in occupied(obs)
  THEN {}
  ELSE (neighbours(m.to) \cap occupied(obs))
       \ (occupancy(m.next) \cup destinations(hyps, m.from))

offset(m, hyps, obs) ==
  IF Cardinality(stray(m, hyps, obs)) = 1
  THEN [expected |-> m.to, actual |-> CHOOSE sq \in stray(m, hyps, obs) : TRUE]
  ELSE NoOffset

arrival_penalty(m, obs) ==
  IF m.to \notin obs.known THEN Params.unreadable_penalty
  ELSE IF m.to \in disagreements(occupancy(m.next), obs) \ occupied(obs)
  THEN Params.empty_penalty ELSE 0

distance(m, hyps, obs) ==
  LET wrong == disagreements(occupancy(m.next), obs)
      off   == offset(m, hyps, obs)
      score == IF off # NoOffset
               THEN Params.neighbour_credit
                    + Whole * Cardinality(wrong \ {off.expected, off.actual})
               ELSE Whole * Cardinality(wrong) + arrival_penalty(m, obs)
      credit == IF m.promotion = "none" /\ fingerprint(m, obs)
                THEN Params.polarity_credit ELSE 0
  IN IF score < credit THEN 0 ELSE score - credit

\* The three moves that d puts closest; ties fall as the order of the moves has it.
Nearest(hyps, d) ==
  LET closest(ms) == LET least == CHOOSE n \in ms : \A o \in ms : d[n] <= d[o]
                     IN {m \in ms : m = least}
      one == closest(hyps)
      two == one \cup closest(hyps \ one)
  IN two \cup closest(hyps \ two)

\* No exact match: the closest move, if it is close and clear of the next;
\* else the three closest are offered.
tier3(hyps, current, obs) ==
  LET d == [m \in hyps |-> distance(m, hyps, obs)]
      best == CHOOSE m \in hyps : \A n \in hyps : d[m] <= d[n]
      clear == \A n \in hyps \ {best} : d[n] - d[best] >= Params.margin
  IN IF d[best] <= Params.max_distance /\ clear
     THEN Likely(best, offset(best, hyps, obs))
     ELSE Mismatch(disagreements(current, obs), Nearest(hyps, d))

\* Seeded fault: the exact match does not ask for a visible arrival.
infer_Unseen(pos, obs) ==
  LET hyps  == Moves[pos]
      exact == {m \in hyps : agrees(occupancy(m.next), obs)}
  IN IF hyps = {} \/ agrees(occupancy(pos), obs) THEN NoChange
     ELSE IF exact = {} THEN tier3(hyps, occupancy(pos), obs)
     ELSE tier2(exact, obs)

\* Tier 1 is the case of a single exact match, which tier2 also commits.
infer(pos, obs) ==
  LET hyps  == Moves[pos]
      exact == {m \in hyps : /\ arrival_is_visible(m, obs)
                             /\ agrees(occupancy(m.next), obs)}
  IN IF hyps = {} \/ agrees(occupancy(pos), obs) THEN NoChange
     ELSE IF exact = {} THEN tier3(hyps, occupancy(pos), obs)
     ELSE tier2(exact, obs)

\* The fingerprints move with the pieces; a promoted piece is read afresh.
migrate_pol_tags(tags, m, observed) ==
  [sq \in Squares |->
    IF \E a \in Squares : <<a, sq>> \in m.shift
    THEN IF m.promotion # "none" THEN polarity(observed[sq])
         ELSE tags[CHOOSE a \in Squares : <<a, sq>> \in m.shift]
    ELSE IF sq \in m.gone \/ \E b \in Squares : <<sq, b>> \in m.shift
    THEN "none" ELSE tags[sq]]
=============================================================================
