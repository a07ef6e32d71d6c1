--------------------------- MODULE FirmwareUpdate ---------------------------
(***************************************************************************)
(* One quadrant's side of a firmware update                                *)
(* (firmware-atmega/src/firmware_update.cpp) over the two EEPROM slots its *)
(* marker is kept in (firmware-atmega/src/persistent.cpp).                 *)
(*                                                                         *)
(* A handler runs to the end before the next frame is looked at, except    *)
(* that EEPROM.put writes the record byte by byte for some 100 ms, during  *)
(* which the power may fail: a save is the action that tears the slot and  *)
(* the action that completes it, and only a power failure comes between.   *)
(* Frames come in any order.  The lease runs out at any moment.  The       *)
(* bootloader is external: it may write any image or part of one.  A       *)
(* marker of another node, which only a copied EEPROM holds, is left out.  *)
(***************************************************************************)
EXTENDS Integers

CONSTANTS
    Images,         \* images that fit the application section
    Oversized,      \* images that are empty or do not fit
    NoImage,        \* the image of a blank marker
    Partial,        \* a flash holding no complete image
    Tokens,         \* maintenance tokens; 0 is none
    Updates,        \* update ids; 0 is none
    HalfTurn,       \* half the values of the generation byte (128)
    Torn,           \* a slot that fails validUpdateMarker
    NotSaving,      \* no save is in progress
    HasBootloader   \* system_info::residentBootloaderEnabled()

ASSUME ImagesAssumption ==
    /\ NoImage \notin Images \cup Oversized
    /\ Partial \notin Images \cup Oversized \cup {NoImage}
    /\ Images \cap Oversized = {}
ASSUME IdsAssumption == 0 \in Tokens /\ 0 \in Updates
ASSUME HalfTurnAssumption == HalfTurn \in Nat /\ HalfTurn >= 2
ASSUME BootloaderAssumption == HasBootloader \in BOOLEAN

VARIABLES
    slots,      \* the EEPROM: the record in slot "A" and in slot "B"
    saving,     \* the save in progress: its slot, its record, what follows it
    marker,     \* marker_
    mode,       \* the application runs, the bootloader runs, or neither
    flash,      \* the application section
    lease,      \* maintenance_active_, maintenance_target_, maintenance_token_
    resetting,  \* reset_pending_
    refusal,    \* broadcast_refusal_
    confirmed   \* history: the update whose FW_CONFIRM was answered last, until
                \* another is staged

ram  == <<marker, lease, resetting, refusal>>
vars == <<slots, saving, ram, mode, flash, confirmed>>

States == {"None", "Requested", "Programming", "Candidate", "Valid"}
Marker == [state : States, token : Tokens, update : Updates, image : Images \cup {NoImage}]
Blank  == [state |-> "None", token |-> 0, update |-> 0, image |-> NoImage]

\* Where a lease points: this quadrant, another one, all of them, nowhere.
Targets == {"me", "other", "all", "invalid"}
NoLease == [active |-> FALSE, target |-> "invalid", token |-> 0]

-----------------------------------------------------------------------------
(***************************************************************************)
(* The two slots.                                                          *)
(***************************************************************************)
Generations == 0..(2 * HalfTurn - 1)
Record == [gen : Generations, marker : Marker]
Slots  == {"A", "B"}
Saving == [slot : Slots, rec : Record, then : {"none", "staged", "reset", "confirmed"}]

ASSUME SlotsAssumption == Torn \notin Record /\ NotSaving \notin Saving

\* Seeded fault: the byte is compared without its sign.
Newer_Unsigned(g, h) == g > h

\* generationNewer: the signed difference of two bytes is positive.
Newer(g, h) == g - h \in 1..(HalfTurn - 1) \/ g - h + 2 * HalfTurn \in 1..(HalfTurn - 1)

\* The slot loadUpdateMarker reads, if any.
Current(s) ==
    {x \in Slots :
        /\ s[x] # Torn
        /\ IF x = "B" THEN s["A"] # Torn => Newer(s["B"].gen, s["A"].gen)
           ELSE s["B"] # Torn => ~Newer(s["B"].gen, s["A"].gen)}

Loaded(s) == IF Current(s) = {} THEN Blank
             ELSE s[CHOOSE x \in Current(s) : TRUE].marker

\* Seeded fault: the slot that is current is written over.
Destination_Same(s) == IF "B" \in Current(s) THEN "B" ELSE "A"

\* saveUpdateMarker: an odd generation is followed by slot A, an even one by B.
Destination(s) ==
    IF \E x \in Current(s) : s[x].gen % 2 = 0 THEN "B" ELSE "A"

NextGeneration(s) ==
    IF Current(s) = {} THEN 0
    ELSE LET g == s[CHOOSE x \in Current(s) : TRUE].gen
         IN  IF g = 2 * HalfTurn - 1 THEN 0 ELSE g + 1

\* The save begins: RAM holds the new marker, the destination is half written.
\* then says what the handler does once the save is through.
Save(m, then) ==
    LET d == Destination(slots)
    IN  /\ marker' = m
        /\ slots' = [slots EXCEPT ![d] = Torn]
        /\ saving' = [slot |-> d, then |-> then,
                      rec |-> [gen |-> NextGeneration(slots), marker |-> m]]

\* The last byte is written and the handler goes on to its end.
Saved ==
    /\ saving # NotSaving
    /\ slots' = [slots EXCEPT ![saving.slot] = saving.rec]
    /\ saving' = NotSaving
    /\ resetting' = (resetting \/ saving.then = "reset")
    /\ confirmed' = CASE saving.then = "confirmed" -> saving.rec.marker.update
                      [] saving.then = "staged"    -> 0
                      [] OTHER                     -> confirmed
    /\ UNCHANGED <<marker, lease, refusal, mode, flash>>

-----------------------------------------------------------------------------
(***************************************************************************)
(* Booting.  begin() settles an update that was being programmed: only a   *)
(* flash that holds the staged image becomes a candidate.                  *)
(***************************************************************************)
\* Seeded fault: a reboot while programming counts as success.
Settled_Trusting(m) == [m EXCEPT !.state = "Candidate"]

Settled(m) ==
    IF flash = m.image THEN [m EXCEPT !.state = "Candidate"]
    ELSE [m EXCEPT !.state = "None", !.token = 0, !.update = 0]

Begin ==
    /\ mode = "off"
    /\ mode' = "app"
    /\ lease' = NoLease /\ resetting' = FALSE /\ refusal' = 0
    /\ LET m == Loaded(slots)
       IN  IF m.state = "Programming" THEN Save(Settled(m), "none")
           ELSE marker' = m /\ UNCHANGED <<slots, saving>>
    /\ UNCHANGED <<flash, confirmed>>

\* Power is lost or the watchdog bites: RAM is gone, a record being written stays
\* half written.
PowerLoss ==
    /\ mode # "off"
    /\ mode' = "off"
    /\ saving' = NotSaving
    /\ UNCHANGED <<slots, ram, flash, confirmed>>

\* tick: the reset that FW_ENTER_BOOTLOADER asked for.
EnterBootloader ==
    /\ mode = "app" /\ saving = NotSaving
    /\ resetting
    /\ mode' = "boot"
    /\ UNCHANGED <<slots, saving, ram, flash, confirmed>>

\* External: Urboot writes pages, and ends by starting the application.
Bootloader ==
    /\ mode = "boot"
    /\ \/ flash' \in Images \cup {Partial} /\ UNCHANGED mode
       \/ mode' = "off" /\ UNCHANGED flash
    /\ UNCHANGED <<slots, saving, ram, confirmed>>

-----------------------------------------------------------------------------
(***************************************************************************)
(* Frames.                                                                 *)
(***************************************************************************)
Listening == mode = "app" /\ saving = NotSaving

\* Addressed requests are ignored while the lease is someone else's.
Addressed == Listening /\ ~(lease.active /\ lease.target # "me")

MaintenanceBegin ==
    /\ Listening
    /\ \E x \in Targets, t \in Tokens :
        lease' = [active |-> x # "invalid" /\ t # 0, target |-> x, token |-> t]
    /\ refusal' = 0
    /\ UNCHANGED <<slots, saving, marker, mode, flash, resetting, confirmed>>

\* MAINTENANCE_END of this token, or the lease runs out.
MaintenanceEnd ==
    /\ Listening
    /\ lease # NoLease
    /\ lease' = NoLease
    /\ UNCHANGED <<slots, saving, marker, mode, flash, resetting, refusal, confirmed>>

\* Whether the sensors are calibrating or sampling is theirs to say.
StagingRefusal(t, i, calibrating, sampling) ==
    IF t = 0 \/ t # lease.token THEN 8
    ELSE IF i \in Oversized THEN 9
    ELSE IF calibrating THEN 10
    ELSE IF sampling THEN 11
    ELSE 0

\* FW_PREPARE, addressed or broadcast: the broadcast form latches why it refused.
Prepare(t, u, i, calibrating, sampling) ==
    LET code == IF HasBootloader THEN StagingRefusal(t, i, calibrating, sampling) ELSE 6
    IN  /\ IF code = 0
           THEN Save([state |-> "Requested", token |-> t, update |-> u, image |-> i],
                     "staged")
           ELSE UNCHANGED <<slots, saving, marker>>
        /\ \/ Addressed /\ lease.active /\ lease.target = "me" /\ UNCHANGED refusal
           \/ Listening /\ lease.active /\ lease.target = "all" /\ refusal' = code
        /\ UNCHANGED <<mode, flash, lease, resetting, confirmed>>

HandoffAuthorised(t, u) ==
    /\ marker.state = "Requested" /\ marker.token = t
    /\ marker.update = u /\ t = lease.token

\* FW_ENTER_BOOTLOADER, addressed, or broadcast with this node in its mask.
FwEnterBootloader(t, u) ==
    /\ Listening
    /\ lease.active /\ lease.target \in {"me", "all"}
    /\ HandoffAuthorised(t, u)
    /\ Save([marker EXCEPT !.state = "Programming"], "reset")
    /\ UNCHANGED <<mode, flash, lease, resetting, refusal, confirmed>>

\* Seeded fault: the confirmation is answered before it is saved.
Confirm_AnswersFirst(u) ==
    /\ Addressed
    /\ marker.state \in {"Candidate", "Valid"} /\ marker.update = u
    /\ IF marker.state = "Candidate"
       THEN Save([marker EXCEPT !.state = "Valid"], "none")
       ELSE UNCHANGED <<slots, saving, marker>>
    /\ confirmed' = u
    /\ UNCHANGED <<mode, flash, lease, resetting, refusal>>

\* FW_CONFIRM: repeated, it is answered without another save.
Confirm(u) ==
    /\ Addressed
    /\ marker.state \in {"Candidate", "Valid"} /\ marker.update = u
    /\ IF marker.state = "Candidate"
       THEN Save([marker EXCEPT !.state = "Valid"], "confirmed") /\ UNCHANGED confirmed
       ELSE confirmed' = u /\ UNCHANGED <<slots, saving, marker>>
    /\ UNCHANGED <<mode, flash, lease, resetting, refusal>>

-----------------------------------------------------------------------------
Init ==
    /\ slots = [x \in Slots |-> Torn]
    /\ saving = NotSaving
    /\ marker = Blank
    /\ mode = "off"
    /\ flash \in Images
    /\ lease = NoLease
    /\ resetting = FALSE
    /\ refusal = 0
    /\ confirmed = 0

Request ==
    \/ MaintenanceBegin
    \/ MaintenanceEnd
    \/ \E t \in Tokens, u \in Updates :
        \/ FwEnterBootloader(t, u)
        \/ \E i \in Images \cup Oversized, calibrating, sampling \in BOOLEAN :
            Prepare(t, u, i, calibrating, sampling)
    \/ \E u \in Updates : Confirm(u)

Next == Begin \/ Saved \/ PowerLoss \/ EnterBootloader \/ Bootloader \/ Request

Spec == Init /\ [][Next]_vars

-----------------------------------------------------------------------------
(***************************************************************************)
(* Properties.                                                             *)
(***************************************************************************)
TypeOK ==
    /\ slots \in [Slots -> Record \cup {Torn}]
    /\ saving \in {NotSaving} \cup Saving
    /\ marker \in Marker
    /\ mode \in {"off", "app", "boot"}
    /\ flash \in Images \cup {Partial}
    /\ lease \in [active : BOOLEAN, target : Targets, token : Tokens]
    /\ resetting \in BOOLEAN
    /\ refusal \in {0, 6, 8, 9, 10, 11}
    /\ confirmed \in Updates

\* Slot A holds even generations and B odd ones, one apart when both hold a record
\* and none is being written: the older slot is always the one written next, and
\* the byte's wrap does not change which is newer.
SlotsAlternate ==
    /\ slots["A"] # Torn => slots["A"].gen % 2 = 0
    /\ slots["B"] # Torn => slots["B"].gen % 2 = 1
    /\ slots["A"] # Torn /\ slots["B"] # Torn =>
         slots["A"].gen - slots["B"].gen \in {1, -1, 1 - 2 * HalfTurn}

\* Whatever is interrupted, a marker that calls its image good is one the flash
\* holds: no reboot, failed handoff or half-written page makes a candidate.
GoodIsFlashed ==
    Loaded(slots).state \in {"Candidate", "Valid"} => flash = Loaded(slots).image

\* An update whose confirmation was answered stays valid through every power
\* failure, until another update is staged.
ConfirmedIsDurable ==
    confirmed # 0 =>
        Loaded(slots).state = "Valid" /\ Loaded(slots).update = confirmed

\* The two slots are the one atomic marker of AtomicUpdate: interrupted or not, a
\* save leaves the old marker or the new one.
Atomic == INSTANCE AtomicUpdate WITH stored <- Loaded(slots)

ImplementsAtomicUpdate == Atomic!Spec
=============================================================================
