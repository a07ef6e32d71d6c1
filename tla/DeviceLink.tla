----------------------------- MODULE DeviceLink -----------------------------
(***************************************************************************)
(* The link between one board and the server: the ESP's side               *)
(* (firmware-esp/src/network_manager.cpp), one handler per socket          *)
(* (server/src/device.rs), the device's entry in the registry              *)
(* (server/src/state.rs) and what the game task makes of the events.       *)
(*                                                                         *)
(* A socket delivers in order until it breaks; several may be open at the  *)
(* server's end, each with a task of its own, and tasks run in parallel:   *)
(* a handler is one action up to each await and each lock it takes.  An    *)
(* event whose send fails has used up its number.  The channel to the game *)
(* keeps the order of the hand-overs, so the game applies an event as it   *)
(* is handed over.                                                         *)
(*                                                                         *)
(* Squares hold abstract contents.  Quadrants stay online here, so a       *)
(* node.status is a numbered event that changes no square; the four that   *)
(* follow the welcome snapshot are one.  command.result has no number and  *)
(* changes no square, and is left out.  The server compares the numbers of *)
(* one socket only (register_device forgets the last), so they start again *)
(* with each connection here, and boot_id, the same for as long as a       *)
(* socket lasts, is left out.                                              *)
(***************************************************************************)
EXTENDS Integers, Sequences

CONSTANTS
    Squares, Contents, Bare,    \* the board; what a square may hold; nothing
    SeqMod,                     \* event numbers are modulo this (2^32)
    None,                       \* no entry, nothing remembered
    MaxConns,                   \* bound: connections the ESP opens
    MaxLost,                    \* bound: losses on a live socket
    MaxAir                      \* bound: events the ESP has in flight

ASSUME BoardAssumption == Squares # {} /\ Bare \in Contents
ASSUME BoundsAssumption ==
    MaxConns \in Nat /\ MaxLost \in Nat /\ MaxAir \in Nat
ASSUME SeqModAssumption == SeqMod \in Nat \ {0}
\* A hole as long as a whole turn of the numbers would not show in them.
ASSUME LossAssumption == MaxLost < SeqMod

VARIABLES
    esp,        \* its connection (0: none), welcomed_, event_sequence_, squares
    up, down,   \* what each socket carries to the server and to the ESP; the event a
                \* handler has in hand is still the first
    handler,    \* where handle_board is for each socket
    entry,      \* the device's entry in the registry
    game,       \* the game task's observer: have_snapshot, torn, the squares
    shown,      \* history: the ESP's squares when the last event heard was made, while
                \* the view has no hole
    holes,      \* history: how the game may have missed something unawares
    lost        \* counter of the bound

link == <<up, down>>
vars == <<esp, link, handler, entry, game, shown, holes, lost>>

Conns  == 1..MaxConns
Boards == [Squares -> Contents]
Empty  == [s \in Squares |-> Bare]
Seqs   == 0..(SeqMod - 1)

ASSUME NoneAssumption == None \notin Seqs

\* board is what the ESP holds as it makes the event: the contents of a snapshot,
\* of no consequence in any other event, where it is history.
Event == [type : {"snapshot", "sensor", "node", "status"}, seq : Seqs, square : Squares,
          board : Boards]
Hello == [type : {"hello"}]

\* The events the game task is sent (device.rs: "Only these four types").
ForGame == {"snapshot", "sensor", "node"}

-----------------------------------------------------------------------------
(***************************************************************************)
(* The ESP.                                                                *)
(***************************************************************************)
\* sendJson: what cannot be sent is gone, and an event's number with it.
Sent(event, fails) == IF fails THEN <<>> ELSE <<event>>

Charge(fails) ==
    IF fails THEN lost < MaxLost /\ lost' = lost + 1 ELSE UNCHANGED lost

\* sendHello; one that fails is one the server never reads (see Close).
Connect ==
    /\ esp.conn = 0
    /\ \E k \in Conns :
        /\ handler[k] = "none" /\ \A j \in 1..(k - 1) : handler[j] # "none"
        /\ esp' = [esp EXCEPT !.conn = k, !.welcomed = FALSE]
        /\ handler' = [handler EXCEPT ![k] = "hello"]
        /\ up' = [up EXCEPT ![k] = <<[type |-> "hello"]>>]
    /\ UNCHANGED <<down, entry, game, shown, holes, lost>>

\* The socket breaks, or the server closed it, and the ESP has noticed.
Disconnect ==
    /\ esp.conn # 0
    /\ esp' = [esp EXCEPT !.conn = 0, !.welcomed = FALSE, !.seq = 0]
    /\ down' = [down EXCEPT ![esp.conn] = <<>>]
    /\ UNCHANGED <<up, handler, entry, game, shown, holes, lost>>

Reboot ==
    /\ esp' = [conn |-> 0, welcomed |-> FALSE, seq |-> 0, squares |-> Empty]
    /\ down' = [k \in Conns |-> <<>>]
    /\ UNCHANGED <<up, handler, entry, game, shown, holes, lost>>

\* Seeded fault: the number does not wrap.
Numbered_NoWrap(i, type, square, board) ==
    [type |-> type, seq |-> esp.seq + i, square |-> square, board |-> board]

\* The i-th event from here on.
Numbered(i, type, square, board) ==
    [type |-> type, seq |-> (esp.seq + i) % SeqMod, square |-> square, board |-> board]

\* The bound holds back every event but the two that follow the welcome.
Room == esp.conn # 0 => Len(up[esp.conn]) < MaxAir

\* publishSensor: not welcomed, the change is dropped and takes no number.
Change ==
    /\ esp.welcomed => Room
    /\ \E s \in Squares : \E c \in Contents \ {esp.squares[s]} :
        LET board == [esp.squares EXCEPT ![s] = c]
        IN  IF ~esp.welcomed
            THEN esp' = [esp EXCEPT !.squares = board] /\ UNCHANGED <<up, lost>>
            ELSE \E fails \in BOOLEAN :
                /\ esp' = [esp EXCEPT !.squares = board, !.seq = (@ + 1) % SeqMod]
                /\ up' = [up EXCEPT ![esp.conn] =
                            @ \o Sent(Numbered(1, "sensor", s, board), fails)]
                /\ Charge(fails)
    /\ UNCHANGED <<down, handler, entry, game, shown, holes>>

\* One event about the board as a whole.
Publish(type, fails) ==
    /\ esp' = [esp EXCEPT !.seq = (@ + 1) % SeqMod]
    /\ up' = [up EXCEPT ![esp.conn] =
                @ \o Sent(Numbered(1, type, CHOOSE s \in Squares : TRUE, esp.squares), fails)]
    /\ Charge(fails)

\* The periodic device.status, and a node.status of a quadrant that changed.
Report(type) ==
    /\ esp.welcomed
    /\ Room
    /\ \E fails \in BOOLEAN : Publish(type, fails)
    /\ UNCHANGED <<down, handler, entry, game, shown, holes>>

OnWelcome ==
    /\ esp.conn # 0
    /\ down[esp.conn] # <<>> /\ Head(down[esp.conn]) = "welcome"
    /\ down' = [down EXCEPT ![esp.conn] = Tail(@)]
    /\ \E one, other \in BOOLEAN :
        LET any == CHOOSE s \in Squares : TRUE
        IN  /\ esp' = [esp EXCEPT !.welcomed = TRUE, !.seq = (@ + 2) % SeqMod]
            /\ up' = [up EXCEPT ![esp.conn] =
                        @ \o Sent(Numbered(1, "snapshot", any, esp.squares), one)
                          \o Sent(Numbered(2, "node", any, esp.squares), other)]
            /\ Charge(one \/ other)
    /\ UNCHANGED <<handler, entry, game, shown, holes>>

\* board.snapshot.get; a command before the welcome is ignored.
OnGet ==
    /\ esp.conn # 0
    /\ down[esp.conn] # <<>> /\ Head(down[esp.conn]) = "get"
    /\ esp.welcomed => Room
    /\ down' = [down EXCEPT ![esp.conn] = Tail(@)]
    /\ IF esp.welcomed THEN \E fails \in BOOLEAN : Publish("snapshot", fails)
       ELSE UNCHANGED <<esp, up, lost>>
    /\ UNCHANGED <<handler, entry, game, shown, holes>>

-----------------------------------------------------------------------------
(***************************************************************************)
(* The server's end of each socket.                                        *)
(***************************************************************************)
\* What is sent on a socket the ESP has left reaches nobody.
Send(k, message) ==
    down' = IF esp.conn = k THEN [down EXCEPT ![k] = Append(@, message)] ELSE down

\* The hello is read and the welcome sent; registering comes after the await.
Greet(k) ==
    /\ handler[k] = "hello"
    /\ up[k] # <<>>
    /\ up' = [up EXCEPT ![k] = Tail(@)]
    /\ Send(k, "welcome")
    /\ handler' = [handler EXCEPT ![k] = "greeted"]
    /\ UNCHANGED <<esp, entry, game, shown, holes, lost>>

\* register_device: whoever comes last owns the entry.
Register(k) ==
    /\ handler[k] = "greeted"
    /\ entry' = [session |-> k, connected |-> TRUE, last |-> None]
    /\ handler' = [handler EXCEPT ![k] = "reading"]
    /\ holes' = {"reconnect"}
    /\ UNCHANGED <<esp, link, game, shown, lost>>

\* The device cap is reached and every other device is connected.
Refuse(k) ==
    /\ handler[k] = "greeted"
    /\ entry = None
    /\ handler' = [handler EXCEPT ![k] = "done"]
    /\ up' = [up EXCEPT ![k] = <<>>]
    /\ down' = [down EXCEPT ![k] = <<>>]
    /\ UNCHANGED <<esp, entry, game, shown, holes, lost>>

Owner(k) == entry # None /\ entry.session = k

\* Seeded fault: only a number that went back counts as a gap.
Gap_Backwards(last, e) ==
    /\ e.type # "snapshot"
    /\ last # None
    /\ e.seq = last

\* A gap in the numbers, which a snapshot heals by itself.
Gap(last, e) ==
    /\ e.type # "snapshot"
    /\ last # None
    /\ e.seq # (last + 1) % SeqMod

\* ingest_event, under the registry's lock; an event of a session that does not own
\* the entry is dropped.
Ingest(k) ==
    /\ handler[k] = "reading"
    /\ up[k] # <<>>
    /\ LET e == Head(up[k])
       IN  IF Owner(k)
           THEN /\ entry' = [entry EXCEPT !.last = e.seq]
                /\ handler' = [handler EXCEPT ![k] =
                                  IF Gap(entry.last, e) THEN "asking" ELSE "handing"]
                /\ UNCHANGED up
           ELSE up' = [up EXCEPT ![k] = Tail(@)] /\ UNCHANGED <<entry, handler>>
    /\ UNCHANGED <<esp, down, game, shown, holes, lost>>

\* on_device_event.
Heard(g, e, gap) ==
    [have |-> g.have \/ e.type = "snapshot",
     torn |-> (g.torn \/ gap) /\ e.type # "snapshot",
     squares |-> CASE e.type = "snapshot" -> e.board
                   [] e.type = "sensor"   -> [g.squares EXCEPT ![e.square] = e.board[e.square]]
                   [] OTHER               -> g.squares]

\* What passing an event on may hide from the game: an older session's event after
\* a newer one took over, or a gap in an event it is not sent.
Missed(k, e, gap) ==
    (IF ~Owner(k) THEN {"overtaken"} ELSE {}) \cup
    (IF gap /\ e.type \notin ForGame THEN {"untold"} ELSE {})

\* A snapshot of the owner's closes every hole; until the first one after a connect,
\* no other hole matters.
Holes(k, e, gap) ==
    LET open == IF e.type = "snapshot" /\ Owner(k) THEN {} ELSE holes
    IN  IF "reconnect" \in open THEN open ELSE open \cup Missed(k, e, gap)

Tell(k, e, gap) ==
    /\ holes' = Holes(k, e, gap)
    /\ IF e.type \in ForGame
       THEN game' = Heard(game, e, gap) /\ shown' = IF holes' = {} THEN e.board ELSE Empty
       ELSE UNCHANGED <<game, shown>>

InHand(k) ==
    /\ handler[k] \in {"handing", "asking"}
    /\ handler' = [handler EXCEPT ![k] = "reading"]
    /\ up' = [up EXCEPT ![k] = Tail(@)]

\* Seeded fault: the snapshot is not asked for.
PassOn_NoRequest(k) ==
    /\ InHand(k)
    /\ Tell(k, Head(up[k]), handler[k] = "asking")
    /\ UNCHANGED <<esp, down, entry, lost>>

\* The rest of handle_event, after the lock: the game is told, and a snapshot asked
\* for on this session's channel.
PassOn(k) ==
    /\ InHand(k)
    /\ Tell(k, Head(up[k]), handler[k] = "asking")
    /\ IF handler[k] = "asking" THEN Send(k, "get") ELSE UNCHANGED down
    /\ UNCHANGED <<esp, entry, lost>>

\* Seeded fault: whoever closes marks the device disconnected.
MarkDisconnected_Any(k) ==
    entry' = IF entry # None THEN [entry EXCEPT !.connected = FALSE] ELSE entry

\* mark_disconnected: only the session that owns the entry.
MarkDisconnected(k) ==
    entry' = IF Owner(k) THEN [entry EXCEPT !.connected = FALSE] ELSE entry

\* The peer is gone, or nothing came before the deadline (10 s for the hello, 45 s
\* after it); what was not read is lost.
Close(k) ==
    /\ handler[k] \in {"hello", "reading"}
    /\ handler' = [handler EXCEPT ![k] = "done"]
    /\ up' = [up EXCEPT ![k] = <<>>]
    /\ down' = [down EXCEPT ![k] = <<>>]
    /\ IF handler[k] = "reading" THEN MarkDisconnected(k) ELSE UNCHANGED entry
    /\ UNCHANGED <<esp, game, shown, holes, lost>>

\* sweep_stale, or an eviction to make room for another device.
Sweep ==
    /\ entry # None /\ ~entry.connected
    /\ entry' = None
    /\ UNCHANGED <<esp, link, handler, game, shown, holes, lost>>

\* A browser connects: request_snapshots, not twice within the debounce.
RequestSnapshots ==
    /\ entry # None /\ entry.connected
    /\ down[entry.session] = <<>>
    /\ Send(entry.session, "get")
    /\ UNCHANGED <<esp, up, handler, entry, game, shown, holes, lost>>

\* new_game, set_fen or resync: the operator vouches for the board.
Vouch ==
    /\ game.torn
    /\ game' = [game EXCEPT !.torn = FALSE]
    /\ holes' = IF "reconnect" \in holes THEN holes ELSE holes \cup {"vouched"}
    /\ UNCHANGED <<esp, link, handler, entry, shown, lost>>

-----------------------------------------------------------------------------
Init ==
    /\ esp = [conn |-> 0, welcomed |-> FALSE, seq |-> 0, squares |-> Empty]
    /\ up = [k \in Conns |-> <<>>] /\ down = [k \in Conns |-> <<>>]
    /\ handler = [k \in Conns |-> "none"]
    /\ entry = None
    /\ game = [have |-> FALSE, torn |-> FALSE, squares |-> Empty]
    /\ shown = Empty
    /\ holes = {}
    /\ lost = 0

Device == Connect \/ Disconnect \/ Reboot \/ Change \/ Report("node") \/ Report("status")
            \/ OnWelcome \/ OnGet

Server ==
    \/ \E k \in Conns : Greet(k) \/ Register(k) \/ Refuse(k) \/ Ingest(k) \/ PassOn(k) \/ Close(k)
    \/ Sweep \/ RequestSnapshots \/ Vouch

Next == Device \/ Server

Spec == Init /\ [][Next]_vars

(***************************************************************************)
(* Tasks run, sockets deliver, and the ESP publishes its status for ever.  *)
(* Strong fairness for OnGet alone, which the bound MaxAir may hold back   *)
(* again and again; the ESP reads its socket in every pass of its loop.    *)
(***************************************************************************)
Fairness ==
    /\ \A k \in Conns : WF_vars(Greet(k)) /\ WF_vars(Register(k)) /\ WF_vars(Ingest(k))
                          /\ WF_vars(PassOn(k))
    /\ WF_vars(OnWelcome) /\ SF_vars(OnGet) /\ WF_vars(Report("status"))

FairSpec == Spec /\ Fairness

-----------------------------------------------------------------------------
(***************************************************************************)
(* Properties.                                                             *)
(***************************************************************************)
TypeOK ==
    /\ esp \in [conn : Conns \cup {0}, welcomed : BOOLEAN, seq : Seqs, squares : Boards]
    /\ up \in [Conns -> Seq(Event \cup Hello)]
    /\ down \in [Conns -> Seq({"welcome", "get"})]
    /\ handler \in [Conns -> {"none", "hello", "greeted", "reading", "handing", "asking", "done"}]
    /\ entry \in [session : Conns, connected : BOOLEAN, last : Seqs \cup {None}]
                \cup {None}
    /\ game \in [have : BOOLEAN, torn : BOOLEAN, squares : Boards]
    /\ shown \in Boards
    /\ holes \subseteq {"reconnect", "overtaken", "untold", "vouched"}
    /\ lost \in Nat

Online == entry # None /\ entry.connected

\* A device is online exactly while the session that owns its entry reads its
\* socket: no command goes to a channel nobody drains, and no closing session takes
\* down the one that replaced it (state.rs: "a stale connection cannot mutate or tear
\* down a newer one").
OnlineIsRead ==
    \A k \in Conns :
        Owner(k) => (entry.connected <=> handler[k] \in {"reading", "handing", "asking"})

\* A socket carries the hello, the welcome, then events: the server meets no event
\* where it reads the hello, which would close the link (device.rs: "first message
\* was not hello"), and the ESP is welcome on no socket whose hello is unread.
HelloFirst ==
    \A k \in Conns :
        CASE handler[k] = "none"  -> up[k] = <<>> /\ down[k] = <<>> /\ esp.conn # k
          [] handler[k] = "hello" -> /\ up[k] = <<[type |-> "hello"]>> /\ down[k] = <<>>
                                     /\ ~(esp.conn = k /\ esp.welcomed)
          [] OTHER -> /\ up[k] \in Seq(Event)
                      /\ handler[k] \in {"handing", "asking"} => up[k] # <<>>

\* A view the game trusts is the ESP's at the event it heard last, unless the view
\* has one of the four holes the code does not see: no snapshot yet since the
\* device connected, a late event of an older session, a gap seen in an event the
\* game is not sent, or an operator's word.
TrustedIsTrue ==
    Online /\ game.have /\ ~game.torn /\ holes = {} => game.squares = shown

Linked == Online /\ entry.session = esp.conn

\* A view torn by the session that now owns the device is mended, unless the link
\* goes down.
TornHeals ==
    game.torn /\ holes \cap {"reconnect", "overtaken"} = {} ~> ~game.torn \/ ~Linked
=============================================================================
