---------------------------- MODULE AtomicUpdate ----------------------------
(***************************************************************************)
(* What a quadrant promises about a firmware update: one marker that is    *)
(* changed as a whole, whatever the EEPROM under it does, and a flash that *)
(* is only written to while the marker says an update is under way.        *)
(***************************************************************************)

CONSTANTS
    Images,     \* firmware images
    NoImage,    \* the image of a blank marker
    Partial,    \* a flash holding no complete image
    Tokens,     \* maintenance tokens; 0 is none
    Updates     \* update ids; 0 is none

VARIABLES stored,   \* the marker: state, token, update and image
          flash     \* what the application section holds

\* No marker: nothing was ever staged.
Blank == [state |-> "None", token |-> 0, update |-> 0, image |-> NoImage]

Init == stored = Blank /\ flash \in Images

Stage ==
    /\ \E t \in Tokens, u \in Updates, i \in Images :
        stored' = [state |-> "Requested", token |-> t, update |-> u, image |-> i]
    /\ UNCHANGED flash

Handoff ==
    /\ stored.state = "Requested"
    /\ stored' = [stored EXCEPT !.state = "Programming"]
    /\ UNCHANGED flash

Program ==
    /\ stored.state \in {"Requested", "Programming"}
    /\ flash' \in Images \cup {Partial}
    /\ UNCHANGED stored

\* An update under way is settled by what the flash holds.
Settle ==
    /\ stored.state = "Programming"
    /\ stored' = IF flash = stored.image
                 THEN [stored EXCEPT !.state = "Candidate"]
                 ELSE [stored EXCEPT !.state = "None", !.token = 0, !.update = 0]
    /\ UNCHANGED flash

Confirm ==
    /\ stored.state = "Candidate"
    /\ stored' = [stored EXCEPT !.state = "Valid"]
    /\ UNCHANGED flash

Next == Stage \/ Handoff \/ Program \/ Settle \/ Confirm

Spec == Init /\ [][Next]_<<stored, flash>>
=============================================================================
