----------------------------- MODULE MCDetection -----------------------------
(***************************************************************************)
(* A board of two by two, one square to a quadrant.  White has a piece w   *)
(* that goes anywhere, black a b that goes one square and a p that         *)
(* promotes on the first rank, to q or n.                                  *)
(***************************************************************************)
EXTENDS Detection

Men      == <<"w", "b", "p", "q", "n">>
MCPieces == {Men[i] : i \in 1..5}
MCPolarity == [x \in MCPieces |-> IF x = "p" THEN "neg" ELSE "pos"]
MCParams == [max_distance |-> 4, margin |-> 4, neighbour_credit |-> 2,
             unreadable_penalty |-> 8, empty_penalty |-> 4,
             polarity_credit |-> 2]

\* A position is the four digits in base 6 of its board, below a bit for the
\* side to move; a number that is no board has no move to it.
Weight(sq) == 6 ^ (2 * sq[1] + sq[2])
Digit(p, sq) == (p \div Weight(sq)) % 6
MCPositions == 0..2591
MCAt == [p \in MCPositions |->
          [sq \in Squares |-> IF Digit(p, sq) = 0 THEN "-" ELSE Men[Digit(p, sq)]]]
Side(p, sq) == IF Digit(p, sq) = 0 THEN "none"
               ELSE IF Digit(p, sq) = 1 THEN "white" ELSE "black"
Turn(p) == IF p < 1296 THEN "white" ELSE "black"

Reach(man, sq) == CASE man \in {1, 4, 5} -> Squares \ {sq}
                    [] man = 2 -> neighbours(sq)
                    [] OTHER -> {t \in Squares : t[1] < sq[1]}

After(p, from, to, man) ==
  (p + 1296 - Digit(p, from) * Weight(from)
   + (man - Digit(p, to)) * Weight(to)) % 2592

Plain(p, from, to, man, choice) ==
  [from |-> from, to |-> to, castle |-> FALSE, promotion |-> choice,
   shift |-> {<<from, to>>}, gone |-> {}, next |-> After(p, from, to, man)]

Legal(p) ==
  UNION {
    IF Digit(p, u[1]) = 3
    THEN {Plain(p, u[1], u[2], 4, "queen"), Plain(p, u[1], u[2], 5, "knight")}
    ELSE {Plain(p, u[1], u[2], Digit(p, u[1]), "none")}
    : u \in {v \in Squares \X Squares :
               /\ Side(p, v[1]) = Turn(p) /\ Side(p, v[2]) # Turn(p)
               /\ v[2] \in Reach(Digit(p, v[1]), v[1])}}

\* Each piece stands once, the pawn or what it became once between them; a
\* side without pieces has lost.
Sides(p) == {Side(p, sq) : sq \in Squares}
MCMoves == [p \in MCPositions |->
  IF {"white", "black"} \subseteq Sides(p)
     /\ \A men \in {{1}, {2}, {3, 4, 5}} :
          Cardinality({sq \in Squares : Digit(p, sq) \in men}) <= 1
  THEN Legal(p) ELSE {}]

\* w and b on the first rank, p on the second.
MCDeal == 1 + 6 * 2 + 36 * 3
MCScenes == {MCAt[MCDeal]}
MCSuspicious == {<<1, 1>>}
MCFlaky == {<<1, 1>>}
=============================================================================
