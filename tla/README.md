# Arcade chess: a verification project

TLA+ models of the arcade-chess installation, checked with TLC on small
instances and, where it matters most, proved with TLAPS for every instance.
Source paths are relative to the repository.

## The system

| Part | Source | State | Operations | Talks to |
|---|---|---|---|---|
| Game task | `server/src/game/mod.rs` | one `Game`: phase, position, undo history, `game_seq`, baseline, evaluation, prompt, result, rules, device binding | ~30 client actions, a 100 ms tick, device events, evaluation results, persist/restore | engine task (channels), device registry (lookup, commands), browsers (broadcast), snapshot file |
| Engine task | `server/src/game/engine.rs` | a Stockfish child, a request queue | drain, search, answer, restart the child | game task |
| Inference | `server/src/game/infer.rs` | none (pure) | score every legal move against the board: commit, ask, wait or report a mismatch | called by the tick |
| Observer | `server/src/game/observe.rs` | occupancy, wobble, journal, quadrants online | snapshot, sensor change, node status | fed by device events |
| Painter | `server/src/game/paint.rs` | what it believes is lit, rate window, whether bars and polarity colours are set | compose a frame, send its difference, re-assert, forget, note a refusal | device commands |
| Venue | `mod.rs`, `config.rs` | rotation, palette, bar map, sides, `config.json` | set, persist, restore | painter, observer |
| Device registry and link | `server/src/state.rs`, `device.rs`, `device_entry.rs` | per device: session, boot id, last sequence number, command channel, snapshot | register, ingest, disconnect, sweep, ask for snapshots | boards, game task, browsers |
| Browser sessions | `server/src/client.rs` | queue of 256, failed logins, admin flag | init, broadcast, command, action, shed | registry, game task |
| ESP network manager | `firmware-esp/src/network_*.cpp` | connected, welcomed, event sequence number, rate windows | publish, hello, welcome, commands | server, bus manager |
| ESP bus manager | `firmware-esp/src/bus_*.cpp` | a queue of 8, one pending transaction, raw sweep, quadrant cache | enqueue, schedule, response, timeout | quadrants, network manager, flasher |
| AVR flasher | `firmware-esp/src/avr_flasher.cpp`, `firmware_handoff.cpp` | phase, image, target, retries | receive, hand off, program, verify, confirm, fail | bus manager, quadrants |
| Quadrant | `firmware-atmega/src/*.cpp` | sensors, event queue, settings, update marker, lease | requests, broadcasts, scans | bus |
| Wire protocol | `protocol/`, `firmware-shared/` | decoder | encode, push a byte | ESP, quadrants |
| Web frontend | `frontend/src/lib` | socket, reducer state | connect, retry, reduce | server |
| Miner, clocks, tools | `position-miner/`, `chess-clock/`, `clock-taine/`, `tools/` | batch or stand-alone | | |

What is hard: the server runs several tasks joined by channels (a late answer, a
newer request, a dead receiver); the board is reached through a link that drops,
reconnects and loses events; the quadrants share a half-duplex bus with one
transaction at a time, deadlines and reboots; an update must survive power loss
at any byte. `PROJECT.json` lists the hazards at their lines with the properties that
cover them, or why none does.

What makes each part correct: the game task never shows or judges by a stale or
incomparable number, ends every game it starts to score, and comes back from a
restart as it was; the link never lets a superseded connection act for the board
and never commits off a torn stream; the bus answers each accepted command
exactly once and never gives one node's reply to another's request; a quadrant
calls an image good only when its flash holds it; a slow viewer is cut off, not
fed a stream with holes.

## The modules

| Module | Models | Abstracts |
|---|---|---|
| `GameTask` | game task, engine task, their channels, the snapshot file | chess (a graph of positions), inference (its outcome), lights, views |
| `BusManager` | the ESP's queue, outstanding request, raw sweep, presence, fan-outs, the handoffs of the flasher and of the console, and the quadrants as seen from the wire | payloads, deadlines as numbers, render and poll timers, ring indices, the programmer's dialogue |
| `FirmwareUpdate` | a quadrant's update marker in two EEPROM slots, lease, handoff, reboot | image contents, sensors, node ids |
| `DeviceLink` | one board's link: the ESP's side, every socket's handler at the server, the registry entry, the game's view of the board | the protocol's data, back-off, deadlines as numbers, other devices |
| `AtomicUpdate` | what a quadrant promises: one marker changed as a whole | the slots |
| `GameRecord` | what the server promises of the game: deals, legal moves, moves taken back, and a crash that resumes the last save | who plays, numbers, results, phases |
| `Observe` | the observer's record and methods, board geometry (operators, no state) | timestamps, raw readings, chatter |
| `Infer` | the move matcher: tiers, weights, journal, polarity, nudges (operators) | chess (a table of moves), explanations |
| `Detection` | pieces, sensors, lost reports, the observer in the game task, commit, ask, masks, fingerprints, nudges, undo, mounting | evaluation, verdict, files (in `GameTask`); the settle window as a number |
| `Painter` | frames, the painter, the batches in flight, what quadrants show and store, the venue and its file | blinking and sweeps (other scenes), per-pixel colours |
| `ClientSession` | the server's two-step tellers, one browser's session task, queue, writer, timers, and what its page keeps | other browsers, the contents of messages |
| `MC*` | the constants of the small instances | |
| `*Proofs` | theorems and their proofs | |

A definition whose name ends in an underscore and a word (`Confirm_AnswersFirst`)
is a seeded fault. No specification uses it; put in place of the definition
before the underscore it breaks a property, which shows that the property can
see that fault.

### GameTask

`game` is the fields of `Game` that decide anything, plus the request channel
the task sends on. A handler of the task runs to its end before the next input
is read (one tokio task, `select!` over one input), so a handler is one action.
Handlers call one another, so each is an operator from a game to the next game,
and the action composes them in the order of the calls, the trailing
`publish` (which also decides whether to persist) included. `ClientAction` is the
dispatch of `on_action`; `Tick`, `DeviceEvent`, `RecvEval`, `LinkChange` and
`BindDevice` are the other inputs. `EngineTake` drains the channel to the newest
request, `EngineAnswer` answers it with a score or with "unavailable",
`EngineDies` drops the receiver, after which `request` fails and the task counts
material on the spot. `Restart` is a process death between two handlers.

`Publish` persists as the code does: the key is taken as saved first, then the write may
go through, fail (the file stays as it was, also when it could not be removed) or be
cut short (`restore` finds nothing it can read). `Faults` says which of these an instance
has, and `written` is history: whether the write that set the key went through.

History, read by no handler: `over` (what an operator did to this game),
`start.by` and `start.of` (which engine measured which position as the
baseline), `eval.of`. `start.src` is the code's `start_source`, which a restart
resets; `start.by` remembers what it should have been.

Things the properties say carefully, because the code does so:

- A move that mates asks for no number, so a finished game shows the previous
  one: `EvalOfBoard` leaves `Finished` out.
- `set_fen` in `Scoring` changes `game_seq` without asking for a final verdict, and
  a decree makes `on_eval` drop the final answer; the game then waits for an
  operator. `ScoringEnds` says so.
- An administrator may end a game that waits for a choice; the prompt stays in
  `Finished` (`PromptMatchesPhase`).

`ImplementsGameRecord` is `GameRecord!Spec` with `record` read as the positions of
the undo history followed by the one on the board (`RecordOf`), and `saved` as the
position on file. `NewGame` and `SetFen` are Start; the handlers that may commit a move
are Play, and a tick may commit two (what the board shows, then what the pilot picks);
`Undo` is TakeBack, which saves nothing until the next publication; `Restart` is
Crash; every other step is a stutter. The history is not on file, so a crash keeps
the position and drops what could be taken back.

### BusManager

`queue`, `pending`, `sequence`, `raw`, `needsSync`, `online` and `misses` are the members
of those names; `handoff` is `programming_handoff_`, with how it came about. `tick()` looks at a
complete frame (`Receive`, or `Stray` for one that is not expected), at the
deadline (`Timeout`) and then schedules, in the code's order: `StartQueued`,
`QueueSync`, `RawNext`, `PollNext`. `air` holds the replies sent and not yet
read; a quadrant answers any request put to it, or none, before or after the
deadline. A reply's sequence is compared with the pending one, modulo `SeqMod`;
`Gone` drops a reply once the counter has gone all the way round, an assumption
about the wire (256 transactions are seconds, a reply is milliseconds).

`Command` covers the commands of `network_commands.cpp` that reach the bus:
fan-outs over squares, commands for one or for every node, `device.mode.set`,
`calibration.start`, raw scans. `board.snapshot.get`, `sensor.raw_stream.set` and
the trace do not put a frame on the bus themselves. Every entry carries `for`, the
command it serves, beside `corr`, the correlation the code copies: a fan-out
gives its correlation to the last frame only. `told`, `results`, `reach` and
`took` are history. A command's id is used once (`May`): the server numbers them.
The counters `handoffs` and `sweeps` bound what would otherwise repeat for ever;
`FwEnd` is guarded by `handoffs > 0` for the same reason.

`flasher` is `AvrFlasher`: its phase, the quadrants it has not heard confirm, and its polls.
`FwFlash`, `FinishReceive` and `Abort` are the console's part, the four `Tick` actions the
phases of `tick()`, and `Receive` has `onFwResponse` in it (`Heeded`, `Passes`). The three phases
in which the UART is the programmer's are one, `Program`, which ends well or badly.
`FwEnter` and `FwEnd` are the console commands that hand the bus over with no flasher.
A handoff is `owned` when the flasher waits for it or makes it, and `adrift` when an
acknowledged FW_ENTER_BOOTLOADER sets the flag with nobody waiting: the flasher gave up
with its frames queued, or the console asked. Only `fw-end`, or a flash under way that fails,
ends one adrift, and until then `schedule()` does nothing.

### FirmwareUpdate and AtomicUpdate

`slots` is the EEPROM, `marker`, `lease`, `resetting` and `refusal` are RAM.
`EEPROM.put` takes about 100 ms and is the only place where power loss shows, so
a save is two actions: `Save`, inside its handler, tears the destination slot, and
`Saved` completes it and runs what the handler does afterwards (answer, ask for
the reset). Between the two only `PowerLoss` is enabled, since nothing else runs.
`Begin` is the boot, `EnterBootloader` the reset in `tick()`. The bootloader is
external: it may write any image or a part of one, and end. The lease may run out
at any moment. FW_PREPARE may still come between FW_ENTER_BOOTLOADER and the
`tick()` that honours it, so the flash may be written while the marker says
Requested; `AtomicUpdate` allows that.

Left out: a marker of another node (only a copied EEPROM holds one), an
unprovisioned node (it opts out of the path), a torn record whose CRC happens to
match, and an image CRC collision.

`ImplementsAtomicUpdate` is `AtomicUpdate!Spec` with `stored` read as
`Loaded(slots)`, what `loadUpdateMarker` would return: `Save` and `PowerLoss` are
stutters, `Saved` is Stage, Handoff, Settle or Confirm.

### DeviceLink

`esp` is `welcomed_`, `event_sequence_`, the socket in use and what the quadrants
last said of the squares; `up` and `down` are what each socket carries. `handler`
is where `handle_board` is for each socket and `entry` the device's `DeviceEntry`.
A server may hold several sockets of one board, each with a task of its own on a
parallel runtime, so a handler is one action up to each `await` and each lock:
`Greet` (the hello is read, the welcome sent), `Register` (the registry's lock, after
that await), `Ingest` (`ingest_event`, under the lock), `PassOn` (the rest of
`handle_event`), `Close`. The event a handler has in hand stays the head of `up`.
The channel to the game keeps the order of the hand-overs, so the game hears an
event as it is handed over. `Close` is the peer gone, or 10 s without a hello, or
45 s without anything.

Simplifications that change no outcome: the numbers start again with each
connection and `boot_id` is left out, because `register_device` forgets the last
number and one socket lives within one boot; the four `node.status` events after the
welcome snapshot are one; the quadrants stay online; `command.result` carries no
number and is left out.

`shown` and `holes` are history. The game's view is right only where nothing was
missed unawares, and the code leaves four ways to miss something, which `holes`
names: no snapshot has come since the device connected (`reconnect`), an event of
an older session was handed over after a newer one took the entry
(`overtaken`), a gap showed in an event the game is not sent (`untold`), an
operator vouched for a torn view (`vouched`). `TrustedIsTrue` says that there is no
fifth; the findings below discuss the first three.

### Observe, Infer and Detection

An observer is a record and each method of `observe.rs` an operator to its next
value. `last_change_ms` is used by the code in two ways: compared with
`last_inferred_change_ms` ("has anything changed since we looked") it is the flag
`unread`; compared with the clock it is the settle window, and a tick of the model
may find any board settled that is not wobbling. `Infer` is the matcher: `score` sums
the code's weights in quarters over the squares that may be believed, and
`infer` compares the best with the second as the code does. The order in which
`shakmaty` lists moves only breaks ties, so a tie is a choice. The weights are the
constant `Params`, the shipped ones in the runs. They can be set one by one, though
the comment on them in `infer.rs` says that they "move together or not at all"; `Calibrated` says what `CommitsOnlyArrivals`
needs of them.

`Detection` puts real pieces on the board. `Lift`, `Put` and `PutTilted` are players;
each changes what a sensor reads, and the report is heard or lost (`Reports`,
`Lost`). `Snapshot`, `Drops` and `Returns` are the bus. `tick_playing` and `tick_setup` are
the two settles; the operator's actions (new game, start, choose, resync, undo,
mask, unmask, `set_rotation`, forced move, suggestion only) are actions. Square
coordinates are turned as the code turns them, so a wrong mounting, corrected
under a running game, is one of the behaviours. `game.learned` and `game.turned` are
history: whether the fingerprints were taken from the right pieces, and whether
the mounting was corrected while squares were masked. `ImplementsGameRecord` reads
its history the same way as in `GameTask`, with the moves of the table as `Legal` and
nothing ever saved.

`CleanMoveIsRead` speaks of a move whose victim was seen to leave (`Witnessed`) and, of
a promotion, whose pawn had no other capture on a touched square (`Alone`).
`PromotionIsRead` leaves that last condition out, and `LiftsAreInvisible` states the
comment at `infer.rs:16`; no run checks these two because the code does not keep them
(see Findings). `CommitsOnlyArrivals` claims what the code does keep: a move is committed
only onto a square that is believed, and that shows a piece or has a stray one next door
(`Landed`). Which piece shows is not said, so the victim of a capture whose attacker is in
the hand satisfies it.

### Painter

`scene` is what the game has to show, chosen anew by every `Play`; `GameTask` and
`Detection` decide it in the code. `compose_frame` is `basic`, `painted` and `bar`: the
code sends at most one class of squares a frame, so a frame is a set of squares
and one colour. `repaint` is the tick's lighting work, with `diff`, `emit_squares` and
`emit_bars` as operators; `first` and `cut_short` are the cap on bar writes. The rate
window and the one-second re-assert are the flags `frames` and `due`, which `Second`
resets.

A batch is one record of what its commands do together. It travels in `wire`, and
`Deliver(lost)` applies it at the quadrants that are `up`, but for one part of
it that is lost or refused. `old` quadrants refuse SET_PIXELS, which comes back as
`complaint` and turns the bars off for the whole board, as `note_node_error`
does. `board` is what quadrants show and, for the polarity colours (`neutral`), what
they keep in EEPROM. Two actions go past the painter: `node_config`, an operator's sensor
colour for one quadrant, and `lighting_set`, a viewer's command. `stray`, `missed` and
`slipped` are history: squares put out of mind or lit by a viewer, quadrants that missed a
polarity command or were given another colour since, and a map changed by an
action that was then refused.

`venue` and `file` are the operator's settings and `config.json`; a write may fail and
may leave the file truncated (`fs::write`). `reversed` half bars, `device_id` none,
colours of single pixels, the duration a viewer may give and the keys of
`node.config.set` that are not colours are left out.

### ClientSession

Every change of the server is stored and then broadcast, by the game task or by
the task of a board's connection, with other threads running between: `telling` is
what a teller has stored and not yet said, `told` everything said. The client task
subscribes, reads the registry, reads the game (`Connect`, `snapshot_views`, `Open`) and
then relays; an arm of its `select!` is an action. `Relay` into a full queue sheds
the client, `Lagged` is the ring that overtook it, `Drained` and `Abort` the writer's
time to empty the queue. A wrong password costs a sleep in which nothing is
relayed (`AuthDelay`). An action waits in the game task's channel (`inbox`) with the
right it was sent with. `browser` is the page: what it shows, and the numbers of
the broadcasts it heard.

`proven`, `done` and `crossed` are history. `crossed` marks that a superseded board
connection broadcast after its successor, which the page cannot detect; see
Findings.

## The runs

| Run | Question | Bounds, and why they are enough |
|---|---|---|
| `game_operator` | with undo, set_fen, end and abort at any moment, do numbers, history and baseline stay consistent, and does a verdict stand? | `game_seq` to 4: a deal, two moves and an undo, with an answer late by up to three generations |
| `game_restart` | is the file the published game as long as the last write went through, and is the game a record of legal moves that a crash resumes? | one restart, two ply limits, writes that fail or are cut short at any publication |
| `game_board` | do prompt and phase agree, whatever the board does? | one deal; live, torn, stable and detection modes in every combination, a decree |
| `game_engine` | does a waiting game have an answer coming, is a winner judged on one scale, does Scoring end? | two results in flight, so newest and oldest differ; engine death |
| `bus_commands` | is each accepted command owed exactly one result, and is configuration sent first? | two nodes, two commands, a queue of 3, the least that holds a node's configuration: every enqueue meets a full and an almost full queue |
| `bus_live` | do purge, handoff, sweep and late replies mix up an answer, is every accepted command answered, does every sweep end? | one node, one command, one handoff (the flasher's to one or to all, or the console's) and one sweep at any moment, four slots so that the three handoff frames fit beside the command, one repeated poll after the boot, one reply in the air beyond its deadline, two sequence numbers so that a late reply soon meets its own number; a second node adds another `QueueSync`, met in `bus_commands`, and the order of confirmation |
| `device_link` | is a device online exactly while its owner is read, is a trusted view the board, is a torn view mended? | two connections, so that one overtakes the other in either order; one square, since a status or node event stands for an event of another square; three event numbers, so that a lost one differs from the next and the numbers wrap; one loss and one event in flight beyond the two of the welcome: what a second loss adds, the loss of the answer to a gap, is a gap again and is shown by the next status |
| `firmware_update` | is the two-slot marker atomic, a good image flashed, a confirmation durable? | two images and an oversized one, two tokens, a generation byte that wraps after four saves |
| `detection` | is what stands on the board never read as another move, nothing committed onto a square that is not believed or has no piece on it or astray beside it, and do masks and fingerprints keep their owner and piece, and is the game a record of legal moves? | a board of 2 by 2, one square to a quadrant, three pieces with captures and a promotion, so that a lift, a capture, an orthogonal neighbour and a dead square are all within two moves; nine units of effort: a clean touch costs two, a lost report, a tilted piece or an operator's action three |
| `painter` | is every lit square known or known to be forgotten, are the polarity colours set, does the venue survive, is the frame shown in the end? | two of four quadrants plugged (four squares each), one that flaps, one that may have the old firmware; a viewer lights one square that no frame lights; two batches in flight; an effort of 3: one big fault or three small ones, after which only fair steps remain |
| `painter_bars` | finding, below | all four quadrants, no faults |
| `client_session` | does a page hear no hole, show what the server holds, act only with authority, and end when cut off? | two connections of browser and board, a queue and a ring of two (so each overflows alone), two tries of the password, four units of effort |

The chess graph of `GameTask` has four positions: a line of two moves that may go
back to its start, and a mate. The engines disagree about every position by more
than the draw band, so a comparison across engines is always wrong when it
happens. `spent` in `Detection`, `Painter` and `ClientSession` is no state of the code: it adds up what
players, operators, browsers and faults did, and `MaxEffort` stops them, which keeps
the instance finite and lets the liveness properties speak of a system left alone.
These systems may really stop then, so their runs do not check deadlock.

**Fairness.** `GameTask`: weak fairness of `EngineTake`, `EngineAnswer` and
`RecvEval`. The engine's task loops and every search is bounded by its timeouts
(it answers "unavailable" otherwise), and the game task reads its channel
whenever there is something. Clients, the board and the clock owe nothing.
`BusManager`: weak fairness of `Timeout`, `StartQueued`, `QueueSync`, `RawNext` and
`FlasherTick`, since `loop()` calls both `tick()`s for ever and every phase of the flasher
from its handoff on has a deadline or a count of retries. Nothing is assumed of the
quadrants, of an upload or of the console, so a handoff adrift may last for ever;
`AnswersCome` and `SweepsEnd` except a bus that stays so (`[]Adrift`) and nothing else. `OfflineThreshold` is 3 in the live run, as `kOfflineTimeoutThreshold` is: with
less than the three frames of one resynchronisation, a quadrant that drops off
and returns after every frame would fill the queue with its configuration ahead
of everything else.
`DeviceLink`: weak fairness of `Greet`, `Register`, `Ingest`, `PassOn` (tasks run and
sockets deliver), `OnWelcome` and the periodic `device.status` (every 15 s). Strong
fairness of `OnGet` only because the bound `MaxAir` may hold it back again and
again; the ESP reads its socket in every pass of `loop()`. `Close` is never forced
and always possible, so `TornHeals` speaks of a link that stays up.
`Painter`: weak fairness of the clock (`Second` when it makes the re-assert due), the
100 ms tick (`repaint`), the snapshot that tells which quadrants are there
(`Hear(Nodes)`), the complaint of an old quadrant and a delivery that loses nothing.
A delivery may lose a part only while effort is left. Reconnection is not
assumed: `FrameIsShown` speaks of a linked board.
`ClientSession`: weak fairness of the three timers only (`ShedTimeout`, `Abort`,
`AuthDelay`). Nothing is assumed of the browser, the writer or the game task.

## What is proved

For every value of the constants, under the named assumptions of the modules.
Each argument is an inductive invariant; the property alone is not inductive.

- `GameTaskProofs`: `TypeCorrect`, and `NoStaleNumber`: a number shown as an
  engine's is of the position shown. The invariant is `TypeOK`, `EvalOfBoard` and
  `SeqNamesPosition` (whatever carries the current `game_seq`, queued, at the
  engine or answered, is about the current position), because a late answer is
  filtered by `game_seq` alone. The handlers are composed, so the lemmas are about
  relations between two games that compose: `Follows` (older sequence numbers
  stay older), `Keeps`, `Renews` (a new position has a new number and no number
  of the old one on show).
- `GamePlayProofs`: `HistoryIsLegal`, `BaselineIsTheDeal`, `VerdictHasOneRuler`,
  `PromptIsHonest`, `FileHoldsTheGame`, `PendingHasAnAnswer` and `VerdictIsFinal`. The
  invariant adds to the one above that the record is sound (`Sane`), that what the
  file holds is true whenever `key` names it and the write went through (`Filed`), and
  the property of the pending number itself. `Sane` makes each property inductive: no baseline is measured
  after the first ply unless it is of the dealt position, the source compared is
  the one that measured, a result means a finished game. One lemma per handler
  (`InStep`) says what it does to a sound game: it stays sound, what the file holds
  stays true until `game_seq` moves, and a game that comes to wait for a number has
  just asked for it. The actions compose these lemmas in the order of the calls, up
  to `publish`. `GameIsARecord` is the refinement of `GameRecord`: a lemma per handler
  says whether it leaves the record alone (`Still`) or makes it one legal move longer
  (`OneMore`), `Post` and `Publish` leave it alone, and `OneFile` (there is one file,
  rewritten as a whole) makes what a restart finds the position published last.
- `BusManagerProofs`: `BusTypeCorrect`; `AcceptedAnsweredOnce`, an accepted command
  waits in exactly one place or has exactly one terminal result; `SweepNeverSpins`.
  The second keeps for each command a ledger (queue slots, outstanding request,
  sweep, results): a step leaves it the same, moves it, opens it or closes it, and
  the action lemmas say which. It rests on a command's id being used once.
  `ConfiguredBeforePolled` needs that a node's configuration is queued as a whole and
  purged as a whole. `AnswersAreOwn`: nothing in the queue, outstanding or in a sweep
  carries a correlation that is not its command's (`Serves`, `AskedIsOwn`,
  `SweepIsOwn`), and a reply that would be taken is to the outstanding request
  (`AirIsFresh`), which is where `Gone` comes in.
- `FirmwareUpdateProofs`: `UpdateTypeCorrect`, `GenerationsNeverCross`,
  `GoodImageIsFlashed`, `ConfirmationSurvives` and `UpdateIsAtomic`, the
  refinement. `IInv` adds to the four properties what a save in progress is of
  (`SavingOK`: its slot is torn, its generation follows, and its marker is the one
  its handler builds from the old), that RAM and EEPROM agree otherwise (`RamOK`),
  and that the bootloader is entered only for an update under way (`BootOK`).
  `TornSlot` and `Written` carry the arithmetic: tearing the destination changes
  nothing that is loaded, completing it makes the new record the loaded one,
  across the byte's wrap. The generation's width is any even number from 4 up.
- `DeviceLinkProofs`: `LinkTypeCorrect`; `OnlineMeansRead`, a device is called online
  exactly while the session that owns its entry reads its socket, for any number
  of connections registering and closing in any order; `HelloComesFirst`. The
  invariant adds `WelcomedIsOpen` (the ESP counts itself welcome only while
  connected). The parts need each other: an event is looked up as an event only
  because the hello left the queue first, that needs no event sent before the welcome,
  and the owner is reading only because a closing owner says so. `TrustedViewIsTrue` has
  an invariant of its own (`TInv`): along each socket an event numbered next changes one
  square at most (`Trail`), the ESP is ahead of the last of them by as many numbers as
  it lost events (`Ahead`), and without a hole the game's view is the board of the event
  the registry remembers (`Known`). It assumes that fewer sends are lost on open sockets
  than there are numbers (`LossAssumption`; the number is 32 bits wide): otherwise
  a gap of a whole turn would look like no gap.

- `ClientSessionProofs`: `ClientTypeCorrect`, `HearsWithoutHoles`,
  `NothingUnauthorised`, `PageIsCurrent`, for any queue, ring and number of
  connections. Holes: the broadcasts in the queue (`Fresh`, `Ordered`, `Whole`) are the
  consecutive ones from what the page heard last up to what the task takes next,
  because a refused `try_send` ends the session's relaying. Authority: a right held,
  or carried by a queued action, implies the password on the connection of that
  life (`Rights`). The page: `Owner` says which teller may still say what about
  which field; `Latest`, `Log`, `First` and `Page` follow the newest value of each field
  through store, teller, log, init frame and queue to the page.
- `DetectionProofs`: `MasksHaveOneOwner`. Nothing is needed of the types but that the
  records have the fields; lemma `SuspectsAreBare` says that the squares the game
  comes to mask are none the operator has. `DetectTypeCorrect` and `TagsStayTrue`, by
  one invariant (`DetInv`), which adds to them that a game being set up has no history:
  `begin_play` takes new fingerprints and forgets whether the old ones were right.
  The types rest on what `infer` may answer (`InferCommits`): `tier2` names a move
  that fits, `tier3` a closest one, of which there is one because the distances are
  numbers (`LeastValue`). `OnlyArrivalsCommit` is the arithmetic of `tier3`:
  `DistanceTyped` bounds from below the distance of a move whose destination is blind
  or empty, and `Calibrated` puts that above the limit. `CleanMovesAreRead` follows a
  move that the board shows through the tiers: it fits (`ShownFits`), what fits with it
  is a capture by the same piece elsewhere, and neither the journal nor the fingerprint
  (`ShownFingerprint`) can name one of those alone (`ShownRead`). `DetectionIsARecord`
  is the refinement of `GameRecord`; that what the
  sensors commit is a legal move of the position on the board is `InferCommits` again,
  which needs the types of `DetInv`. Two assumptions on the
  table of moves say what chess guarantees: `PlayAssumption`, what a move does to the
  squares, and `CollisionAssumption`, which moves leave the same squares occupied, as
  the comment on tier 1 in `infer.rs` has it. TLC evaluates both in the run.
- `PainterProofs`: `LitIsAccountedFor`. The property speaks of an empty wire, so the
  invariant (`Accounted`) follows each square through the batches in flight: a
  square lit, or to be lit by a batch, is known to the painter now, will be
  cleared by a batch behind it, or is a viewer's. `BatchSent`, `BatchApplied` and `BatchesLost` say
  what sending, delivering (in part) and losing batches does to that. No bound on
  effort, faults or batches is used. `PaintTypeCorrect`; `SensorColoursAgree`, the same
  way: a quadrant that the painter has not to look at again has its colours set or
  will, by an order in the wire that nothing behind it undoes (`Coloured`, `Ordered`), or
  it missed the order or an operator recoloured it;
  `VenueIsKept`, from the types alone.

Only model-checked: the liveness properties (`ScoringEnds`, `AnswersCome`,
`SweepsEnd`, `TornHeals`, `FrameIsShown`, `BarsAreShown`, `ClientsEnd`), which need
fairness and ENABLED. Every other property of a passing run is stated by a theorem.
Some properties are defined and checked by no run because a stronger or
more telling one took their place: `WaitsOnce`, `SweepHasSlot` and `HelloFirst` and the
types of `FirmwareUpdate`, `Detection` and `Painter`, which are proved, and `SeqNamesPosition`, which is part of a
proved invariant.

## Findings

With a run whose property TLC violates (`PROJECT.json` quotes the lines):

- `painter_bars`: with five or more half bars on online quadrants, `emit_bars`
  returns at the cap before it sets `bars_written`, so every later frame starts
  again with the same four and sides 2 and 3 are never written.

Seen in TLC's counterexamples while modelling. The property is in the module, no
run checks it, and the instance in the last column shows it again:

| What | Where | Property and instance |
|---|---|---|
| After an administrator decrees the number, `on_eval` drops the final answer too and the game stays in Scoring for ever | `mod.rs`, `on_eval` | `DecreeDecides`: `GameEngine.cfg` with `Ops <- DecreeOps` |
| A restart loses `start_source`, and a winner is named across engines that cannot be compared | `mod.rs`, `restore` | `AlwaysSameRuler`: `GameRestart.cfg` with `PlyLimits = {2}` |
| `applied` speaks for the last quadrant of a fan-out only | `bus_manager.cpp:149`; `docs/websocket-api.md:148` | `AppliedByAll`: `BusCommands.cfg` with one command, a queue of 4, `OfflineThreshold` 2, `SeqMod` 3, no symmetry |
| A victim lifted first, orthogonally next to its attacker, is committed as a "likely" capture with a nudge while the attacker still stands at home, where `infer.rs:16` calls fumbles invisible; lifting the attacker of an only capture first commits it as certain | `infer.rs` | `LiftsAreInvisible`: `Detection.cfg` with it as a property |
| A write of the snapshot that fails or is cut short, or a file that cannot be removed, is logged at most: the key counts as saved, and until it changes a restart resumes an older game, none, or one given up. "Written on every phase change, so a server restart or redeploy mid-demo is not fatal" (`mod.rs:1836`) | `mod.rs:1828`, `persist` | `FileHoldsEveryPhase`: `GameRestart.cfg` with it as an invariant |
| The flasher gives up while its handoff frames are queued. They are sent later: the quiet lease begins anew and, if FW_ENTER_BOOTLOADER is acknowledged, `programming_handoff_` is set with nobody programming, and nothing is scheduled any more. The comment says `fail` "Ends the quiet lease for the other quadrants even when bootloader entry was never acknowledged" (`avr_flasher.cpp:324`) | `avr_flasher.cpp:314`, `bus_response.cpp:264` | `LeaseEndsWithFlash`: `BusLive.cfg` with it as a property |
| What a viewer lights with `lighting.set` on a quadrant where the frame has no square stays lit: the re-assert sends only squares that the frame has. "A stray probe from the debug console self-heals within this long" (`paint.rs:38`) | `paint.rs`, `emit_squares` | `ProbesHeal`: `Painter.cfg` with it as a property, `MaxEffort = 2` and `Flaky <- Steady` |
| A pawn that promotes by capture, with another capture on a square that was touched: `tier2` compares the pawn's fingerprint with the new piece's magnet, which `distance` leaves out because "the promoted queen is a different piece with its own magnet" (`infer.rs:438`), and may commit the capture not made, as certain | `infer.rs`, `tier2` | `PromotionIsRead`: `Promotion.cfg` (module `MCPromotion`) |

Noticed by reading, for the modules' exceptions:

- Game task. A first move that outruns the first search leaves the default baseline
  in force and the game is judged against it. Lowering `max_ply` ends the current
  game at its next move, where `docs/client-api.md` says "takes effect on the next
  new game". A request that the engine held when it died is lost, and its number stays
  pending until the next request.
- Detection. `set_rotation` turns the masks but not the journal, the game's own list of
  masks, the rail's chips, the streaks or the nudge. A snapshot in the middle of a
  capture clears the journal. A nudge is not cleared by castling or en passant.
  `tier3_unreadable_penalty` may be set to 0, though a test of `config.rs` shows what it is
  for.
- Painter. `forget` leaves squares lit that the next frame does not clear when their
  quadrant is not addressed ("the next frame is a full repaint"); a quadrant that
  only dropped off and returns is taken as dark by `node_rejoined` and stays lit the
  same way; a lost `lighting.clear` is not tried again. A batch may exceed the bus
  queue of eight. `node_rejoined` says a reboot forgets the colour keys, which are in
  EEPROM; a new game before a returned quadrant was looked at leaves it with the
  hues of before. `bars_map` and `set_config` may be refused after applying a part. Two
  empty side lists do not survive a restart. A failed write is not tried again
  and may truncate `config.json`, after which a restart has the defaults. `node.config.set` of keys 7 and 8
  changes a quadrant's sensor colours while `colours_neutralised` stays set, so the
  painter does not put them back before the next game.
- Link and registry. A gap first seen in a `device.status`, which the game is not
  sent, does not mark the game's view torn: until the snapshot asked for arrives,
  the game may commit off it. A lost welcome snapshot is noticed only by luck:
  `register_device` forgets the last number. Of two connections of a board the older
  may register last, since it awaits its welcome first, and then owns the entry
  until it closes; an event of an older session may reach the game after the newer
  session's snapshot.
- Browsers. An old session's `mark_disconnected`, then a new session's registration and
  `device.connected`, then the old one's `device.disconnected`: every page shows the
  board disconnected until something else is said of it. `command.queued` is answered
  though the send to the board may have failed. Replies are dropped silently when
  the queue is full.
- Bus. `fw-enter` hands the bus over for good unless somebody types `fw-end`, and no
  deadline ends it. `device.mode.set` with no quadrant online is accepted and never gets a terminal
  result; a repeated command id is carried out again; when the configuration
  frames sent to a returning quadrant are lost, polling resumes all the same; a
  command rejected as busy may have queued some of its frames. `parseRaw`
  (`bus_response.cpp:311`) overwrites the cached squares without telling anyone: after
  a lost event a raw scan hides the difference from the repair in `handleSnapshot`,
  whose comment calls a silent overwrite what "left the ESP right and every tier
  above it wrong forever". A snapshot reply passes the events still queued in its
  quadrant, so the tiers above may see a square's new state, then the old, then the
  new.
- Quadrant. `updateClassification` never yields `kUncertain`: once a square is not
  empty its threshold is `exit_threshold` itself.

## Not modelled

The AVR programmer's dialogue with the bootloader (its two outcomes are), the indices of
the bus queue's ring, which `purgeQueuedFirmwareCommands` rewrites in place (a
sequence and a filter of it), the quadrant's sensor filters and
event queue, the ESP's sensor cache and its calibration, the wire decoder, the
position book, the boot of the server, the front end's views, the count of
devices at the cap and the journals of the registry. The miner is a batch program,
the clocks and tools stand alone, and generated tables, board files and assets
have no behaviour. `PROJECT.json` gives the reason for each part.

## Plan

Done: `GameTask` and `Detection`, both with `GameRecord`, `BusManager`, `FirmwareUpdate`
with `AtomicUpdate`, `DeviceLink`, `Observe` and `Infer`, `Painter`, `ClientSession`, and proofs for each.
What would come next:

1. `FirmwareHandoff`: the flasher of `BusManager` and one quadrant as `AtomicUpdate`
   together; what the flasher reports is what the marker holds.
2. `SensorFeed`: quadrant events, overflow, the ESP cache, repair by snapshot, the
   observer. Proof: the cache is right once a snapshot has landed.
3. `StreamDecoder`: frames cut and joined by the wire.
4. More proofs: the refinement of an abstract ledger by `BusManager`, and of an
   abstract owner by `DeviceLink`.

The runs are kept to a dozen, so that all of them can be run with every change: a
new one takes the place of an older, weaker question.
