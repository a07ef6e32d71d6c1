---------------------------- MODULE MCPromotion ----------------------------
(***************************************************************************)
(* Two by two again: a black pawn p that can take w or v on the last rank, *)
(* and become q or n there.  The magnets of p and v point one way, those   *)
(* of w, q and n the other.                                                *)
(***************************************************************************)
EXTENDS Detection

MCPieces   == {"w", "v", "p", "q", "n"}
MCPolarity == [x \in MCPieces |-> IF x \in {"p", "v"} THEN "neg" ELSE "pos"]
MCParams   == [max_distance |-> 4, margin |-> 4, neighbour_credit |-> 2,
               unreadable_penalty |-> 8, empty_penalty |-> 4,
               polarity_credit |-> 2]

Taken       == {<<sq, x>> : sq \in {<<0, 0>>, <<0, 1>>}, x \in {"q", "n"}}
MCDeal      == <<>>
MCPositions == {MCDeal} \cup Taken
Dealt       == [sq \in Squares |->
                  CASE sq = <<0, 0>> -> "w" [] sq = <<0, 1>> -> "v"
                    [] sq = <<1, 0>> -> "p" [] OTHER -> "-"]
MCAt == [pos \in MCPositions |->
           IF pos = MCDeal THEN Dealt
           ELSE [Dealt EXCEPT ![<<1, 0>>] = "-", ![pos[1]] = pos[2]]]
MCMoves == [pos \in MCPositions |->
  IF pos # MCDeal THEN {}
  ELSE {[from |-> <<1, 0>>, to |-> next[1], castle |-> FALSE,
         promotion |-> IF next[2] = "q" THEN "queen" ELSE "knight",
         shift |-> {<<<<1, 0>>, next[1]>>}, gone |-> {}, next |-> next]
        : next \in Taken}]
MCScenes == {Dealt}
=============================================================================
