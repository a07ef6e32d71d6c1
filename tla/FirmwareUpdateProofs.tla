------------------------ MODULE FirmwareUpdateProofs ------------------------
(***************************************************************************)
(* Proofs about FirmwareUpdate: the two slots behave as one marker, a good *)
(* image is the one the flash holds, a confirmation survives, and the      *)
(* module implements AtomicUpdate.                                         *)
(***************************************************************************)
EXTENDS FirmwareUpdate, TLAPS

-----------------------------------------------------------------------------
(* The slots. *)

Fine(s) ==
    /\ s \in [Slots -> Record \cup {Torn}]
    /\ s["A"] # Torn => s["A"].gen % 2 = 0
    /\ s["B"] # Torn => s["B"].gen % 2 = 1
    /\ s["A"] # Torn /\ s["B"] # Torn =>
         s["A"].gen - s["B"].gen \in {1, -1, 1 - 2 * HalfTurn}

LEMMA FineIs == TypeOK /\ SlotsAlternate => Fine(slots)
BY DEF TypeOK, SlotsAlternate, Fine

\* At most one slot is current, and one is whenever a slot holds a record.
LEMMA CurrentIs ==
  ASSUME NEW s, Fine(s)
  PROVE  \/ s["A"] = Torn /\ s["B"] = Torn /\ Current(s) = {}
         \/ s["A"] # Torn /\ s["B"] = Torn /\ Current(s) = {"A"}
         \/ s["A"] = Torn /\ s["B"] # Torn /\ Current(s) = {"B"}
         \/ /\ s["A"] # Torn /\ s["B"] # Torn
            /\ Newer(s["B"].gen, s["A"].gen) /\ Current(s) = {"B"}
         \/ /\ s["A"] # Torn /\ s["B"] # Torn
            /\ ~Newer(s["B"].gen, s["A"].gen) /\ Current(s) = {"A"}
BY DEF Current, Slots

LEMMA RecordGen ==
  ASSUME NEW s, Fine(s), NEW x \in Slots, s[x] # Torn
  PROVE  s[x] \in Record /\ s[x].gen \in Generations /\ s[x].marker \in Marker
BY DEF Fine, Record

\* What the operators of a save come to, by the current slot.
LEMMA NothingCurrent ==
  ASSUME NEW s, Current(s) = {}
  PROVE  Loaded(s) = Blank /\ Destination(s) = "A" /\ NextGeneration(s) = 0
BY DEF Loaded, Destination, NextGeneration

LEMMA CurrentA ==
  ASSUME NEW s, Fine(s), s["A"] # Torn, Current(s) = {"A"}
  PROVE  /\ Loaded(s) = s["A"].marker /\ Destination(s) = "B"
         /\ NextGeneration(s) = IF s["A"].gen = 2 * HalfTurn - 1 THEN 0 ELSE s["A"].gen + 1
BY DEF Loaded, Destination, NextGeneration, Fine

LEMMA CurrentB ==
  ASSUME NEW s, Fine(s), s["B"] # Torn, Current(s) = {"B"}
  PROVE  /\ Loaded(s) = s["B"].marker /\ Destination(s) = "A"
         /\ NextGeneration(s) = IF s["B"].gen = 2 * HalfTurn - 1 THEN 0 ELSE s["B"].gen + 1
BY DEF Loaded, Destination, NextGeneration, Fine

\* Tearing the slot a save goes to loses nothing.
LEMMA TornSlot ==
  ASSUME NEW s, Fine(s), NEW t, t = [s EXCEPT ![Destination(s)] = Torn]
  PROVE  /\ Fine(t) /\ t[Destination(t)] = Torn
         /\ Loaded(t) = Loaded(s) /\ NextGeneration(t) = NextGeneration(s)
         /\ Destination(t) = Destination(s)
<1>1. Destination(s) \in Slots
  BY DEF Destination, Slots
<1>2. Fine(t)
  BY <1>1 DEF Fine, Slots
<1>3. CASE Current(s) = {}
  <2>1. s["A"] = Torn /\ s["B"] = Torn
    BY <1>3, CurrentIs
  <2>2. t = s
    BY <1>1, <2>1 DEF Fine, Slots
  <2> QED  BY <1>2, <1>3, <2>1, <2>2, NothingCurrent
<1>4. CASE Current(s) = {"A"}
  <2>1. s["A"] # Torn /\ Destination(s) = "B"
    BY <1>4, CurrentIs, CurrentA
  <2>2. t["A"] = s["A"] /\ t["B"] = Torn
    BY <2>1 DEF Fine, Slots
  <2>3. Current(t) = {"A"}
    BY <1>2, <2>1, <2>2, CurrentIs
  <2> QED  BY <1>2, <1>4, <2>1, <2>2, <2>3, CurrentA
<1>5. CASE Current(s) = {"B"}
  <2>1. s["B"] # Torn /\ Destination(s) = "A"
    BY <1>5, CurrentIs, CurrentB
  <2>2. t["B"] = s["B"] /\ t["A"] = Torn
    BY <2>1 DEF Fine, Slots
  <2>3. Current(t) = {"B"}
    BY <1>2, <2>1, <2>2, CurrentIs
  <2> QED  BY <1>2, <1>5, <2>1, <2>2, <2>3, CurrentB
<1> QED  BY <1>3, <1>4, <1>5, CurrentIs

LEMMA LoadedType ==
  ASSUME NEW s, Fine(s)
  PROVE  Loaded(s) \in Marker /\ NextGeneration(s) \in Generations /\ Destination(s) \in Slots
<1>1. Blank \in Marker
  BY IdsAssumption DEF Blank, Marker, States
<1>2. 0 \in Generations
  BY HalfTurnAssumption DEF Generations
<1>3. CASE Current(s) = {}
  BY <1>1, <1>2, <1>3, NothingCurrent DEF Slots
<1>4. CASE Current(s) = {"A"}
  <2>1. s["A"] # Torn /\ s["A"].gen \in Generations /\ s["A"].marker \in Marker
    BY <1>4, CurrentIs, RecordGen DEF Slots
  <2>2. NextGeneration(s) \in Generations
    BY <1>4, <2>1, CurrentA, HalfTurnAssumption DEF Generations
  <2> QED  BY <1>4, <2>1, <2>2, CurrentA DEF Slots
<1>5. CASE Current(s) = {"B"}
  <2>1. s["B"] # Torn /\ s["B"].gen \in Generations /\ s["B"].marker \in Marker
    BY <1>5, CurrentIs, RecordGen DEF Slots
  <2>2. NextGeneration(s) \in Generations
    BY <1>5, <2>1, CurrentB, HalfTurnAssumption DEF Generations
  <2> QED  BY <1>5, <2>1, <2>2, CurrentB DEF Slots
<1> QED  BY <1>3, <1>4, <1>5, CurrentIs

\* Completing the record a save wrote makes it the one that is loaded.
LEMMA Written ==
  ASSUME NEW s, Fine(s), s[Destination(s)] = Torn,
         NEW r \in Record, r.gen = NextGeneration(s),
         NEW t, t = [s EXCEPT ![Destination(s)] = r]
  PROVE  Fine(t) /\ Loaded(t) = r.marker
<1>0. r # Torn /\ Torn \notin Record
  BY SlotsAssumption
<1>1. CASE Current(s) = {}
  <2>1. s["A"] = Torn /\ s["B"] = Torn /\ Destination(s) = "A" /\ r.gen = 0
    BY <1>1, CurrentIs, NothingCurrent
  <2>2. t["A"] = r /\ t["B"] = Torn /\ t \in [Slots -> Record \cup {Torn}]
    BY <2>1 DEF Fine, Slots
  <2>3. Fine(t)
    BY <1>0, <2>1, <2>2 DEF Fine
  <2>4. Current(t) = {"A"}
    BY <1>0, <2>2, <2>3, CurrentIs
  <2> QED  BY <1>0, <2>2, <2>3, <2>4, CurrentA
<1>2. CASE Current(s) = {"A"}
  <2>1. /\ s["A"] # Torn /\ Destination(s) = "B"
        /\ NextGeneration(s) = IF s["A"].gen = 2 * HalfTurn - 1 THEN 0 ELSE s["A"].gen + 1
    BY <1>2, CurrentIs, CurrentA
  <2>2. t["A"] = s["A"] /\ t["B"] = r /\ t \in [Slots -> Record \cup {Torn}]
    BY <2>1 DEF Fine, Slots
  <2>3. s["A"].gen \in Generations /\ s["A"].gen % 2 = 0
    BY <2>1, RecordGen DEF Slots, Fine
  <2> DEFINE g == s["A"].gen
  <2>4. g \in Int /\ g % 2 = 0 /\ g # 2 * HalfTurn - 1
    BY <2>3, HalfTurnAssumption DEF Generations
  <2>5. r.gen = g + 1
    BY <2>1, <2>4
  <2>6. r.gen % 2 = 1 /\ g - r.gen = -1 /\ r.gen - g = 1
    BY <2>4, <2>5
  <2>7. Fine(t)
    BY <1>0, <2>2, <2>3, <2>6 DEF Fine
  <2>8. Newer(r.gen, g)
    BY <2>6, HalfTurnAssumption DEF Newer
  <2>9. Current(t) = {"B"}
    BY <1>0, <2>1, <2>2, <2>7, <2>8, CurrentIs
  <2> QED  BY <1>0, <2>2, <2>7, <2>9, CurrentB
<1>3. CASE Current(s) = {"B"}
  <2>1. /\ s["B"] # Torn /\ Destination(s) = "A"
        /\ NextGeneration(s) = IF s["B"].gen = 2 * HalfTurn - 1 THEN 0 ELSE s["B"].gen + 1
    BY <1>3, CurrentIs, CurrentB
  <2>2. t["B"] = s["B"] /\ t["A"] = r /\ t \in [Slots -> Record \cup {Torn}]
    BY <2>1 DEF Fine, Slots
  <2>3. s["B"].gen \in Generations /\ s["B"].gen % 2 = 1
    BY <2>1, RecordGen DEF Slots, Fine
  <2> DEFINE g == s["B"].gen
  <2>4. g \in Int /\ g % 2 = 1
    BY <2>3, HalfTurnAssumption DEF Generations
  <2>5. r.gen = IF g = 2 * HalfTurn - 1 THEN 0 ELSE g + 1
    BY <2>1
  <2>6. r.gen % 2 = 0 /\ r.gen - g \in {1, 1 - 2 * HalfTurn}
    <3>1. CASE g = 2 * HalfTurn - 1
      BY <2>4, <2>5, <3>1, HalfTurnAssumption
    <3>2. CASE g # 2 * HalfTurn - 1
      BY <2>4, <2>5, <3>2, HalfTurnAssumption
    <3> QED  BY <3>1, <3>2
  <2>7. Fine(t)
    BY <1>0, <2>2, <2>3, <2>6 DEF Fine
  <2>8. ~Newer(g, r.gen)
    <3>1. g - r.gen \in {-1, 2 * HalfTurn - 1}
      <4>1. r.gen \in Int
        BY <2>4, <2>5
      <4> QED  BY <2>4, <2>6, <4>1, HalfTurnAssumption
    <3> QED  BY <3>1, HalfTurnAssumption DEF Newer
  <2>9. Current(t) = {"A"}
    BY <1>0, <2>1, <2>2, <2>7, <2>8, CurrentIs
  <2> QED  BY <1>0, <2>2, <2>7, <2>9, CurrentA
<1> QED  BY <1>1, <1>2, <1>3, CurrentIs

-----------------------------------------------------------------------------
(* The invariant. *)

\* What a save in progress is of, by what its handler does next.
SavingOK ==
    saving # NotSaving =>
        /\ mode = "app"
        /\ saving.slot = Destination(slots) /\ slots[saving.slot] = Torn
        /\ saving.rec.gen = NextGeneration(slots)
        /\ marker = saving.rec.marker
        /\ saving.then = "none" => /\ Loaded(slots).state = "Programming"
                                   /\ marker = Settled(Loaded(slots)) /\ ~resetting
        /\ saving.then = "staged" => marker.state = "Requested" /\ marker.image \in Images
        /\ saving.then = "reset" => /\ Loaded(slots).state = "Requested"
                                    /\ marker = [Loaded(slots) EXCEPT !.state = "Programming"]
        /\ saving.then = "confirmed" => /\ Loaded(slots).state = "Candidate"
                                        /\ marker = [Loaded(slots) EXCEPT !.state = "Valid"]

\* With no save in progress RAM and EEPROM agree.
RamOK == mode = "app" /\ saving = NotSaving => marker = Loaded(slots)

\* The bootloader is only entered for an update that is under way.
BootOK ==
    mode = "boot" \/ (mode = "app" /\ resetting) =>
        Loaded(slots).state \in {"Requested", "Programming"}

IInv ==
    TypeOK /\ SlotsAlternate /\ GoodIsFlashed /\ ConfirmedIsDurable
           /\ SavingOK /\ RamOK /\ BootOK

\* What starting a save does to the slots.
LEMMA SaveStarts ==
  ASSUME Fine(slots), NEW m \in Marker, NEW then \in {"none", "staged", "reset", "confirmed"},
         Save(m, then)
  PROVE  /\ Fine(slots') /\ Loaded(slots') = Loaded(slots)
         /\ saving' \in Saving /\ saving' # NotSaving /\ marker' = m
         /\ saving'.slot = Destination(slots') /\ slots'[saving'.slot] = Torn
         /\ saving'.rec.gen = NextGeneration(slots')
         /\ saving'.rec.marker = m /\ saving'.then = then
<1> DEFINE r == [gen |-> NextGeneration(slots), marker |-> m]
<1>1. slots' = [slots EXCEPT ![Destination(slots)] = Torn] /\ marker' = m
      /\ saving' = [slot |-> Destination(slots), then |-> then, rec |-> r]
  BY DEF Save
<1>2. /\ Fine(slots') /\ Loaded(slots') = Loaded(slots)
      /\ NextGeneration(slots') = NextGeneration(slots)
      /\ Destination(slots') = Destination(slots)
      /\ slots'[Destination(slots')] = Torn
  BY <1>1, TornSlot
<1>3. r \in Record /\ r.gen = NextGeneration(slots) /\ r.marker = m
  BY LoadedType DEF Record
<1> HIDE DEF r
<1>4. saving' \in Saving
  BY <1>1, <1>3, LoadedType DEF Saving
<1> QED  BY <1>1, <1>2, <1>3, <1>4, SlotsAssumption

\* The invariant across the start of a save.
LEMMA SaveStep ==
  ASSUME IInv, NEW m \in Marker, NEW then \in {"none", "staged", "reset", "confirmed"},
         Save(m, then), mode' = "app", UNCHANGED <<flash, confirmed>>,
         lease' \in [active : BOOLEAN, target : Targets, token : Tokens],
         resetting' \in BOOLEAN, resetting' => mode = "app" /\ resetting,
         refusal' \in {0, 6, 8, 9, 10, 11},
         then = "none" => /\ Loaded(slots).state = "Programming"
                          /\ m = Settled(Loaded(slots)) /\ ~resetting',
         then = "staged" => m.state = "Requested" /\ m.image \in Images,
         then = "reset" => /\ Loaded(slots).state = "Requested"
                           /\ m = [Loaded(slots) EXCEPT !.state = "Programming"],
         then = "confirmed" => /\ Loaded(slots).state = "Candidate"
                               /\ m = [Loaded(slots) EXCEPT !.state = "Valid"]
  PROVE  IInv'
<1>1. /\ Fine(slots') /\ Loaded(slots') = Loaded(slots)
      /\ saving' \in Saving /\ saving' # NotSaving /\ marker' = m
      /\ saving'.slot = Destination(slots') /\ slots'[saving'.slot] = Torn
      /\ saving'.rec.gen = NextGeneration(slots')
      /\ saving'.rec.marker = m /\ saving'.then = then
  BY FineIs, SaveStarts DEF IInv
<1>2. TypeOK'
  <2>1. slots' \in [Slots -> Record \cup {Torn}]
    BY <1>1 DEF Fine
  <2> QED  BY <1>1, <2>1 DEF IInv, TypeOK
<1>3. SlotsAlternate'
  BY <1>1 DEF Fine, SlotsAlternate
<1>4. GoodIsFlashed' /\ ConfirmedIsDurable'
  BY <1>1 DEF IInv, GoodIsFlashed, ConfirmedIsDurable
<1>5. SavingOK'
  BY <1>1 DEF SavingOK, Settled
<1>6. RamOK' /\ BootOK'
  BY <1>1 DEF RamOK, BootOK, IInv
<1> QED  BY <1>2, <1>3, <1>4, <1>5, <1>6 DEF IInv

\* The invariant across a step that touches neither the marker nor the flash.
LEMMA OtherStep ==
  ASSUME IInv, UNCHANGED <<slots, saving, marker, mode, flash, resetting>>,
         lease' \in [active : BOOLEAN, target : Targets, token : Tokens],
         refusal' \in {0, 6, 8, 9, 10, 11},
         confirmed' \in Updates,
         confirmed' = confirmed \/
           (Loaded(slots).state = "Valid" /\ Loaded(slots).update = confirmed')
  PROVE  IInv'
<1>1. TypeOK' /\ SlotsAlternate' /\ GoodIsFlashed'
  BY DEF IInv, TypeOK, SlotsAlternate, GoodIsFlashed
<1>2. ConfirmedIsDurable'
  BY DEF IInv, ConfirmedIsDurable
<1>3. SavingOK' /\ RamOK' /\ BootOK'
  BY DEF IInv, SavingOK, RamOK, BootOK, Settled
<1> QED  BY <1>1, <1>2, <1>3 DEF IInv

LEMMA InitInv == Init => IInv
<1> SUFFICES ASSUME Init PROVE IInv
  OBVIOUS
<1>1. slots["A"] = Torn /\ slots["B"] = Torn
  BY DEF Init, Slots
<1>2. Current(slots) = {}
  BY <1>1 DEF Current, Slots
<1>3. Loaded(slots) = Blank
  BY <1>2, NothingCurrent
<1>4. Blank \in Marker
  BY IdsAssumption DEF Blank, Marker, States
<1>5. TypeOK
  BY <1>4, IdsAssumption DEF Init, TypeOK, NoLease, Targets
<1>6. SlotsAlternate /\ GoodIsFlashed /\ ConfirmedIsDurable
  BY <1>1, <1>3 DEF SlotsAlternate, GoodIsFlashed, ConfirmedIsDurable, Blank, Init
<1>7. SavingOK /\ RamOK /\ BootOK
  BY DEF Init, SavingOK, RamOK, BootOK
<1> QED  BY <1>5, <1>6, <1>7 DEF IInv

LEMMA BeginInv == IInv /\ Begin => IInv'
<1> SUFFICES ASSUME IInv, Begin PROVE IInv'
  OBVIOUS
<1> DEFINE m == Loaded(slots)
<1>1. m \in Marker /\ Fine(slots)
  BY FineIs, LoadedType DEF IInv
<1>2. /\ mode = "off" /\ mode' = "app" /\ UNCHANGED <<flash, confirmed>>
      /\ lease' = NoLease /\ resetting' = FALSE /\ refusal' = 0
  BY DEF Begin
<1>3. NoLease \in [active : BOOLEAN, target : Targets, token : Tokens]
  BY IdsAssumption DEF NoLease, Targets
<1>4. CASE m.state = "Programming"
  <2>1. Save(Settled(m), "none")
    BY <1>4 DEF Begin
  <2>2. Settled(m) \in Marker
    BY <1>1, IdsAssumption DEF Settled, Marker, States
  <2> QED  BY <1>2, <1>3, <1>4, <2>1, <2>2, SaveStep
<1>5. CASE m.state # "Programming"
  <2>1. marker' = m /\ UNCHANGED <<slots, saving>>
    BY <1>5 DEF Begin
  <2>2. saving = NotSaving
    BY <1>2 DEF IInv, SavingOK
  <2>3. TypeOK' /\ SlotsAlternate' /\ GoodIsFlashed' /\ ConfirmedIsDurable'
    BY <1>1, <1>2, <1>3, <2>1
    DEF IInv, TypeOK, SlotsAlternate, GoodIsFlashed, ConfirmedIsDurable
  <2>4. SavingOK' /\ RamOK' /\ BootOK'
    BY <1>2, <2>1, <2>2 DEF SavingOK, RamOK, BootOK
  <2> QED  BY <2>3, <2>4 DEF IInv
<1> QED  BY <1>4, <1>5

LEMMA SavedInv == IInv /\ Saved => IInv'
<1> SUFFICES ASSUME IInv, Saved PROVE IInv'
  OBVIOUS
<1> DEFINE r == saving.rec  old == Loaded(slots)
<1>1. /\ saving \in Saving /\ saving.slot = Destination(slots)
      /\ slots[Destination(slots)] = Torn
      /\ r \in Record /\ r.gen = NextGeneration(slots) /\ marker = r.marker
      /\ mode = "app" /\ marker \in Marker
  BY DEF Saved, IInv, SavingOK, TypeOK, Saving
<1>2. Fine(slots') /\ Loaded(slots') = marker
  BY <1>1, FineIs, Written DEF Saved, IInv
<1>3. /\ saving' = NotSaving /\ UNCHANGED <<marker, lease, refusal, mode, flash>>
      /\ resetting' = (resetting \/ saving.then = "reset")
      /\ confirmed' = CASE saving.then = "confirmed" -> marker.update
                         [] saving.then = "staged"    -> 0
                         [] OTHER                     -> confirmed
  BY <1>1 DEF Saved
<1>4. old \in Marker
  BY FineIs, LoadedType DEF IInv
<1>5. TypeOK'
  <2>1. slots' \in [Slots -> Record \cup {Torn}]
    BY <1>2 DEF Fine
  <2>2. confirmed' \in Updates
    BY <1>1, <1>3, IdsAssumption DEF Marker, IInv, TypeOK
  <2>3. resetting' \in BOOLEAN
    BY <1>3 DEF IInv, TypeOK
  <2> QED  BY <1>3, <2>1, <2>2, <2>3 DEF IInv, TypeOK
<1>6. SlotsAlternate'
  BY <1>2 DEF Fine, SlotsAlternate
<1>7. \/ /\ saving.then = "none" /\ old.state = "Programming"
         /\ marker = Settled(old) /\ ~resetting
      \/ saving.then = "staged" /\ marker.state = "Requested"
      \/ /\ saving.then = "reset" /\ old.state = "Requested"
         /\ marker = [old EXCEPT !.state = "Programming"]
      \/ /\ saving.then = "confirmed" /\ old.state = "Candidate"
         /\ marker = [old EXCEPT !.state = "Valid"]
  BY <1>1 DEF Saved, IInv, SavingOK, Saving
<1>8. GoodIsFlashed'
  BY <1>2, <1>3, <1>4, <1>7 DEF GoodIsFlashed, IInv, Settled, Marker
<1>9. ConfirmedIsDurable'
  BY <1>2, <1>3, <1>4, <1>7 DEF ConfirmedIsDurable, IInv, Marker
<1>10. SavingOK' /\ RamOK'
  BY <1>2, <1>3 DEF SavingOK, RamOK
<1>11. BootOK'
  BY <1>1, <1>2, <1>3, <1>4, <1>7 DEF BootOK, IInv, Marker
<1> QED  BY <1>5, <1>6, <1>8, <1>9, <1>10, <1>11 DEF IInv

LEMMA PowerInv == IInv /\ (PowerLoss \/ EnterBootloader \/ Bootloader) => IInv'
<1> SUFFICES ASSUME IInv, PowerLoss \/ EnterBootloader \/ Bootloader PROVE IInv'
  OBVIOUS
<1>1. UNCHANGED <<slots, ram, confirmed>>
  BY DEF PowerLoss, EnterBootloader, Bootloader
<1>2. SlotsAlternate' /\ ConfirmedIsDurable'
  BY <1>1 DEF IInv, SlotsAlternate, ConfirmedIsDurable
<1>3. CASE PowerLoss
  <2>1. TypeOK' /\ GoodIsFlashed'
    BY <1>1, <1>3 DEF IInv, TypeOK, GoodIsFlashed, PowerLoss, ram
  <2>2. SavingOK' /\ RamOK' /\ BootOK'
    BY <1>3 DEF PowerLoss, SavingOK, RamOK, BootOK
  <2> QED  BY <1>2, <2>1, <2>2 DEF IInv
<1>4. CASE EnterBootloader
  <2>1. TypeOK' /\ GoodIsFlashed'
    BY <1>1, <1>4 DEF IInv, TypeOK, GoodIsFlashed, EnterBootloader, ram
  <2>2. SavingOK' /\ RamOK' /\ BootOK'
    BY <1>1, <1>4 DEF EnterBootloader, SavingOK, RamOK, BootOK, IInv
  <2> QED  BY <1>2, <2>1, <2>2 DEF IInv
<1>5. CASE Bootloader
  <2>1. mode = "boot" /\ mode' \in {"boot", "off"} /\ saving' = saving
        /\ flash' \in Images \cup {Partial}
    BY <1>5 DEF Bootloader, IInv, TypeOK
  <2>2. TypeOK'
    BY <1>1, <2>1 DEF IInv, TypeOK, ram
  <2>3. GoodIsFlashed'
    BY <1>1, <2>1 DEF GoodIsFlashed, IInv, BootOK
  <2>4. SavingOK' /\ RamOK' /\ BootOK'
    BY <1>1, <2>1 DEF SavingOK, RamOK, BootOK, IInv, ram
  <2> QED  BY <1>2, <2>2, <2>3, <2>4 DEF IInv
<1> QED  BY <1>3, <1>4, <1>5

LEMMA MaintenanceInv == IInv /\ (MaintenanceBegin \/ MaintenanceEnd) => IInv'
<1> SUFFICES ASSUME IInv, MaintenanceBegin \/ MaintenanceEnd PROVE IInv'
  OBVIOUS
<1>1. UNCHANGED <<slots, saving, marker, mode, flash, resetting, confirmed>>
  BY DEF MaintenanceBegin, MaintenanceEnd
<1>2. lease' \in [active : BOOLEAN, target : Targets, token : Tokens]
  <2>1. CASE MaintenanceBegin
    <3>1. PICK x \in Targets, t \in Tokens :
            lease' = [active |-> x # "invalid" /\ t # 0, target |-> x, token |-> t]
      BY <2>1 DEF MaintenanceBegin
    <3>2. (x # "invalid" /\ t # 0) \in BOOLEAN
      OBVIOUS
    <3> QED  BY <3>1, <3>2
  <2>2. CASE MaintenanceEnd
    BY <2>2, IdsAssumption DEF MaintenanceEnd, NoLease, Targets
  <2> QED  BY <2>1, <2>2
<1>3. refusal' \in {0, 6, 8, 9, 10, 11} /\ confirmed' \in Updates
  BY <1>1 DEF MaintenanceBegin, MaintenanceEnd, IInv, TypeOK
<1> QED  BY <1>1, <1>2, <1>3, OtherStep

LEMMA PrepareInv ==
  ASSUME IInv, NEW t \in Tokens, NEW u \in Updates, NEW i \in Images \cup Oversized,
         NEW calibrating \in BOOLEAN, NEW sampling \in BOOLEAN,
         Prepare(t, u, i, calibrating, sampling)
  PROVE  IInv'
<1> DEFINE code == IF HasBootloader THEN StagingRefusal(t, i, calibrating, sampling) ELSE 6
           m == [state |-> "Requested", token |-> t, update |-> u, image |-> i]
<1>1. /\ mode = "app" /\ saving = NotSaving
      /\ UNCHANGED <<mode, flash, lease, resetting, confirmed>>
      /\ refusal' = refusal \/ refusal' = code
      /\ IF code = 0 THEN Save(m, "staged") ELSE UNCHANGED <<slots, saving, marker>>
  BY DEF Prepare, Addressed, Listening
<1>2. code \in {0, 6, 8, 9, 10, 11} /\ (code = 0 => i \in Images)
  BY DEF StagingRefusal
<1> HIDE DEF code
<1>3. /\ lease' \in [active : BOOLEAN, target : Targets, token : Tokens]
      /\ refusal' \in {0, 6, 8, 9, 10, 11} /\ confirmed' \in Updates
      /\ resetting' \in BOOLEAN
  BY <1>1, <1>2 DEF IInv, TypeOK
<1>4. CASE code = 0
  <2>1. m \in Marker /\ m.state = "Requested" /\ m.image \in Images
    BY <1>2, <1>4 DEF Marker, States
  <2>2. Save(m, "staged") /\ mode' = "app"
    BY <1>1, <1>4
  <2> HIDE DEF m
  <2> QED  BY <1>1, <1>3, <2>1, <2>2, SaveStep
<1>5. CASE code # 0
  BY <1>1, <1>3, <1>5, OtherStep
<1> QED  BY <1>4, <1>5

LEMMA EnterInv ==
  ASSUME IInv, NEW t \in Tokens, NEW u \in Updates, FwEnterBootloader(t, u)
  PROVE  IInv'
<1> DEFINE m == [marker EXCEPT !.state = "Programming"]
<1>1. /\ mode = "app" /\ saving = NotSaving /\ marker.state = "Requested"
      /\ UNCHANGED <<mode, flash, lease, resetting, refusal, confirmed>>
      /\ Save(m, "reset")
  BY DEF FwEnterBootloader, Listening, HandoffAuthorised
<1>2. marker = Loaded(slots)
  BY <1>1 DEF IInv, RamOK
<1>3. m \in Marker
  BY DEF IInv, TypeOK, Marker, States
<1>4. /\ lease' \in [active : BOOLEAN, target : Targets, token : Tokens]
      /\ refusal' \in {0, 6, 8, 9, 10, 11} /\ resetting' \in BOOLEAN
  BY <1>1 DEF IInv, TypeOK
<1> QED  BY <1>1, <1>2, <1>3, <1>4, SaveStep

LEMMA ConfirmInv ==
  ASSUME IInv, NEW u \in Updates, Confirm(u)
  PROVE  IInv'
<1> DEFINE m == [marker EXCEPT !.state = "Valid"]
<1>1. /\ mode = "app" /\ saving = NotSaving
      /\ marker.state \in {"Candidate", "Valid"} /\ marker.update = u
      /\ UNCHANGED <<mode, flash, lease, resetting, refusal>>
  BY DEF Confirm, Addressed, Listening
<1>2. marker = Loaded(slots)
  BY <1>1 DEF IInv, RamOK
<1>3. m \in Marker
  BY DEF IInv, TypeOK, Marker, States
<1>4. /\ lease' \in [active : BOOLEAN, target : Targets, token : Tokens]
      /\ refusal' \in {0, 6, 8, 9, 10, 11} /\ resetting' \in BOOLEAN
  BY <1>1 DEF IInv, TypeOK
<1>5. CASE marker.state = "Candidate"
  <2>1. Save(m, "confirmed") /\ UNCHANGED confirmed
    BY <1>5 DEF Confirm
  <2> QED  BY <1>1, <1>2, <1>3, <1>4, <1>5, <2>1, SaveStep
<1>6. CASE marker.state # "Candidate"
  <2>1. confirmed' = u /\ UNCHANGED <<slots, saving, marker>>
    BY <1>6 DEF Confirm
  <2> QED  BY <1>1, <1>2, <1>4, <1>6, <2>1, OtherStep
<1> QED  BY <1>5, <1>6

LEMMA Invariant == Spec => []IInv
<1>1. IInv /\ [Next]_vars => IInv'
  <2> SUFFICES ASSUME IInv, [Next]_vars PROVE IInv'
    OBVIOUS
  <2>1. CASE Begin
    BY <2>1, BeginInv
  <2>2. CASE Saved
    BY <2>2, SavedInv
  <2>3. CASE PowerLoss \/ EnterBootloader \/ Bootloader
    BY <2>3, PowerInv
  <2>4. CASE MaintenanceBegin \/ MaintenanceEnd
    BY <2>4, MaintenanceInv
  <2>5. CASE \E t \in Tokens, u \in Updates : FwEnterBootloader(t, u)
    BY <2>5, EnterInv
  <2>6. CASE \E t \in Tokens, u \in Updates, i \in Images \cup Oversized,
                calibrating, sampling \in BOOLEAN :
               Prepare(t, u, i, calibrating, sampling)
    BY <2>6, PrepareInv
  <2>7. CASE \E u \in Updates : Confirm(u)
    BY <2>7, ConfirmInv
  <2>8. CASE UNCHANGED vars
    <3>1. /\ UNCHANGED <<slots, saving, marker, mode, flash, resetting>>
          /\ UNCHANGED <<lease, refusal, confirmed>>
      BY <2>8 DEF vars, ram
    <3>2. /\ lease' \in [active : BOOLEAN, target : Targets, token : Tokens]
          /\ refusal' \in {0, 6, 8, 9, 10, 11} /\ confirmed' \in Updates
      BY <3>1 DEF IInv, TypeOK
    <3> QED  BY <3>1, <3>2, OtherStep
  <2> QED  BY <2>1, <2>2, <2>3, <2>4, <2>5, <2>6, <2>7, <2>8 DEF Next, Request
<1> QED  BY <1>1, InitInv, PTL DEF Spec

-----------------------------------------------------------------------------
(* The theorems. *)

(* Types hold for every set of images, tokens and updates, whatever half a *)
(* turn of the generation byte is.                                         *)
THEOREM UpdateTypeCorrect == Spec => []TypeOK
<1>1. IInv => TypeOK
  BY DEF IInv
<1> QED  BY <1>1, Invariant, PTL

(* The byte in saveUpdateMarker never wraps into an order that makes       *)
(* loadUpdateMarker pick the older slot, and the slot a save overwrites is *)
(* the older one.                                                          *)
THEOREM GenerationsNeverCross == Spec => []SlotsAlternate
<1>1. IInv => SlotsAlternate
  BY DEF IInv
<1> QED  BY <1>1, Invariant, PTL

(* A marker that FW_HEALTH reports as Candidate or Valid is of the image   *)
(* the flash holds, whatever was interrupted.                              *)
THEOREM GoodImageIsFlashed == Spec => []GoodIsFlashed
<1>1. IInv => GoodIsFlashed
  BY DEF IInv
<1> QED  BY <1>1, Invariant, PTL

(* An answered FW_CONFIRM survives any number of power failures. *)
THEOREM ConfirmationSurvives == Spec => []ConfirmedIsDurable
<1>1. IInv => ConfirmedIsDurable
  BY DEF IInv
<1> QED  BY <1>1, Invariant, PTL

\* Every step is one of AtomicUpdate's or leaves what it sees alone.
LEMMA StepMaps ==
  ASSUME IInv, [Next]_vars
  PROVE  [Atomic!Next]_<<Loaded(slots), flash>>
<1> DEFINE old == Loaded(slots)
<1>1. Fine(slots) /\ old \in Marker
  BY FineIs, LoadedType DEF IInv
<1>2. ASSUME NEW m, NEW then, Save(m, then) PROVE Loaded(slots') = old
  <2>1. slots' = [slots EXCEPT ![Destination(slots)] = Torn]
    BY <1>2 DEF Save
  <2> QED  BY <1>1, <2>1, TornSlot
<1>3. CASE Saved
  <2> DEFINE r == saving.rec
  <2>1. /\ saving \in Saving /\ saving.slot = Destination(slots)
        /\ slots[Destination(slots)] = Torn
        /\ r \in Record /\ r.gen = NextGeneration(slots) /\ marker = r.marker
        /\ marker \in Marker
    BY <1>3 DEF Saved, IInv, SavingOK, TypeOK, Saving
  <2>2. Loaded(slots') = marker /\ UNCHANGED flash
    BY <1>1, <1>3, <2>1, Written DEF Saved
  <2>3. \/ /\ old.state = "Programming" /\ marker = Settled(old)
        \/ marker.state = "Requested" /\ marker.image \in Images
        \/ old.state = "Requested" /\ marker = [old EXCEPT !.state = "Programming"]
        \/ old.state = "Candidate" /\ marker = [old EXCEPT !.state = "Valid"]
    BY <1>3, <2>1 DEF Saved, IInv, SavingOK, Saving
  <2>4. CASE old.state = "Programming" /\ marker = Settled(old)
    BY <2>2, <2>4 DEF Atomic!Next, Atomic!Settle, Settled
  <2>5. CASE marker.state = "Requested" /\ marker.image \in Images
    <3>1. marker = [state |-> "Requested", token |-> marker.token,
                    update |-> marker.update, image |-> marker.image]
          /\ marker.token \in Tokens /\ marker.update \in Updates
      BY <2>1, <2>5 DEF Marker
    <3> QED  BY <2>2, <2>5, <3>1 DEF Atomic!Next, Atomic!Stage
  <2>6. CASE old.state = "Requested" /\ marker = [old EXCEPT !.state = "Programming"]
    BY <2>2, <2>6 DEF Atomic!Next, Atomic!Handoff
  <2>7. CASE old.state = "Candidate" /\ marker = [old EXCEPT !.state = "Valid"]
    BY <2>2, <2>7 DEF Atomic!Next, Atomic!Confirm
  <2> QED  BY <2>3, <2>4, <2>5, <2>6, <2>7
<1>4. CASE Bootloader
  <2>1. old.state \in {"Requested", "Programming"} /\ Loaded(slots') = old
    BY <1>4 DEF Bootloader, IInv, BootOK
  <2> QED  BY <1>4, <2>1 DEF Bootloader, Atomic!Next, Atomic!Program
<1>5. CASE Begin
  BY <1>2, <1>5 DEF Begin
<1>6. CASE PowerLoss \/ EnterBootloader \/ MaintenanceBegin \/ MaintenanceEnd
  BY <1>6 DEF PowerLoss, EnterBootloader, MaintenanceBegin, MaintenanceEnd
<1>7. CASE \E t \in Tokens, u \in Updates : FwEnterBootloader(t, u)
  BY <1>2, <1>7 DEF FwEnterBootloader
<1>8. CASE \E t \in Tokens, u \in Updates, i \in Images \cup Oversized,
              calibrating, sampling \in BOOLEAN :
             Prepare(t, u, i, calibrating, sampling)
  <2>1. UNCHANGED flash
    BY <1>8 DEF Prepare
  <2>2. (\E m, then : Save(m, then)) \/ UNCHANGED slots
    BY <1>8 DEF Prepare
  <2> QED  BY <1>2, <2>1, <2>2
<1>9. CASE \E u \in Updates : Confirm(u)
  BY <1>2, <1>9 DEF Confirm
<1>10. CASE UNCHANGED vars
  BY <1>10 DEF vars
<1> QED  BY <1>3, <1>4, <1>5, <1>6, <1>7, <1>8, <1>9, <1>10 DEF Next, Request

(* The two EEPROM slots with their torn writes are one marker that changes *)
(* as a whole: a reader of AtomicUpdate may forget the slots.              *)
THEOREM UpdateIsAtomic == Spec => ImplementsAtomicUpdate
<1>1. Init => Atomic!Init
  <2> SUFFICES ASSUME Init PROVE Atomic!Init
    OBVIOUS
  <2>1. Current(slots) = {}
    BY DEF Init, Current, Slots
  <2> QED  BY <2>1, NothingCurrent DEF Init, Atomic!Init, Atomic!Blank, Blank
<1>2. IInv /\ [Next]_vars => [Atomic!Next]_<<Loaded(slots), flash>>
  BY StepMaps
<1> QED  BY <1>1, <1>2, Invariant, PTL DEF Spec, ImplementsAtomicUpdate, Atomic!Spec
=============================================================================
