----------------------------- MODULE MCGameTask -----------------------------
(***************************************************************************)
(* A four-position instance of GameTask: from position 0 a move to 1, from *)
(* there to 2, where play goes on, or to 3, which is mate.                 *)
(***************************************************************************)
EXTENDS GameTask

MCPositions == 0..3
MCLegal  == [p \in 0..3 |-> CASE p = 0 -> {1} [] p = 1 -> {2, 3} [] p = 2 -> {0} [] OTHER -> {}]
MCEnding == [p \in 0..3 |-> IF p = 3 THEN "white" ELSE "open"]
\* The two engines disagree on every position by more than the draw band.
MCScore  == [e \in Engines |-> [p \in 0..3 |->
              IF e = "Material" THEN p ELSE 5 * p]]

PlayOps     == {"new_game", "start", "move"}
OperatorOps == PlayOps \cup {"undo", "end", "abort", "set_fen"}
RestartOps  == PlayOps \cup {"undo", "set_config", "abort", "restart"}
BoardOps    == {"new_game", "choose", "resync", "set_detect", "set_eval",
                "autopilot", "board"}
EngineOps   == PlayOps \cup {"undo", "rescore", "engine_dies"}
DecreeOps   == PlayOps \cup {"set_eval"}
=============================================================================
