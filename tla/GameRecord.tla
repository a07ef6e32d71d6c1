----------------------------- MODULE GameRecord -----------------------------
(***************************************************************************)
(* What the server promises about the game on the board, whoever plays it  *)
(* (the sensors, a browser, the pilot) and whatever the engines say        *)
(* meanwhile: it is dealt, it grows by legal moves, its last move may be   *)
(* taken back, and a crash resumes it where it was last saved, without the *)
(* moves that led there.  Module GameTask implements this, and so does     *)
(* Detection, which never crashes.                                         *)
(***************************************************************************)
EXTENDS Integers, Sequences

CONSTANTS
  Positions,  \* chess positions
  Home,       \* the position before anything was dealt
  Starts,     \* the positions a game may be dealt from or set to
  Legal       \* position -> positions one legal move away

VARIABLES
  record,     \* the positions that can be gone back to, and the present one
  saved       \* the position on file: a set of at most one

Now(r) == r[Len(r)]

Longer(r) == {Append(r, q) : q \in Legal[Now(r)]}

Init == record = <<Home>> /\ saved = {}

Start ==
  /\ \E p \in Starts : record' = <<p>>
  /\ UNCHANGED saved

\* A tick may play twice, what the board shows and then what the pilot picks.
\* A game is saved where it is, and one that was given up has no file; a write
\* that fails leaves the file, and one that is cut short loses it.
Play ==
  /\ record' \in {record} \cup Longer(record) \cup UNION {Longer(r) : r \in Longer(record)}
  /\ saved' \in {saved, {}, {Now(record')}}

TakeBack ==
  /\ Len(record) > 1
  /\ record' = SubSeq(record, 1, Len(record) - 1)
  /\ UNCHANGED saved

\* Coming back saves the game again, and may so lose the file.
Crash ==
  /\ IF saved = {} THEN record' = <<Home>>
     ELSE \E p \in saved : record' = <<p>>
  /\ saved' \in {saved, {}}

Next == Start \/ Play \/ TakeBack \/ Crash

Spec == Init /\ [][Next]_<<record, saved>>
=============================================================================
