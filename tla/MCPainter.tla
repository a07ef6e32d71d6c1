----------------------------- MODULE MCPainter -----------------------------
(***************************************************************************)
(* Four squares to a quadrant and the four bars as shipped; the default    *)
(* bar map, and one half of it moved.                                      *)
(***************************************************************************)
EXTENDS Painter

N0 == <<0, 0>>
N1 == <<0, 1>>
N2 == <<1, 0>>
N3 == <<1, 1>>
MCSides == 0..3

Mapped(seq) == [h \in Halves |-> seq[Rank(h) + 1]]
MCFirstMap ==
  Mapped(<< <<N0, "a">>, <<N1, "a">>, <<N1, "b">>, <<N3, "b">>,
            <<N3, "a">>, <<N2, "a">>, <<N2, "b">>, <<N0, "b">> >>)
MCMaps == {MCFirstMap, [MCFirstMap EXCEPT ![<<0, 0>>] = <<N1, "a">>]}

MCFirstEdges == [eval |-> {0, 2}, turn |-> {1, 3}]
MCEdges == {MCFirstEdges, [eval |-> {}, turn |-> {}]}

Blank == [phase |-> "Idle", needed |-> {}, alert |-> {}, focus |-> {},
          winner |-> "none", white |-> TRUE, win |-> 8]
\* A piece missing; a move played, and one put down next door; the end.
MCScenes ==
  {Blank,
   [Blank EXCEPT !.phase = "Setup", !.needed = {<<0, 0>>}],
   [Blank EXCEPT !.phase = "Playing", !.focus = {<<0, 0>>, <<3, 0>>},
                 !.white = FALSE, !.win = 11],
   [Blank EXCEPT !.phase = "Playing", !.focus = {<<0, 0>>, <<3, 0>>},
                 !.needed = {<<3, 1>>}, !.alert = {<<3, 0>>}, !.win = 11],
   [Blank EXCEPT !.phase = "Finished", !.winner = "white", !.win = 16]}

\* Half the board, and all of it.
MCHalfBoard == {N0, N2}
MCBoard     == {N0, N1, N2, N3}
MCFlaky     == {N0}
\* A square of the frame's quadrant that no frame lights.
MCProbed    == {{<<0, 1>>}}
MCFirmwares == {{}, {N2}}
NoFirmware  == {{}}
Steady      == {}
=============================================================================
