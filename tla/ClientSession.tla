--------------------------- MODULE ClientSession ---------------------------
(***************************************************************************)
(* One browser on the server's WebSocket (server/src/client.rs), the       *)
(* broadcast every change of the server goes out on (state.rs, publish of  *)
(* the game task, handle_event of a device connection) and what the page   *)
(* keeps of it (frontend/src/lib/ws.svelte.ts).                            *)
(*                                                                         *)
(* The tellers (the game task and each connection of the board) first      *)
(* store a change and then broadcast it; other threads run in between.     *)
(* The client's task copies broadcasts into a bounded queue, its writer    *)
(* sends the queue to a browser that may stop reading.  A change is a new  *)
(* version number of the game or of the board's squares.                   *)
(***************************************************************************)
EXTENDS Integers, Sequences, FiniteSets, TLC

CONSTANTS
  QueueCap,        \* CLIENT_QUEUE_CAP
  BroadcastCap,    \* BROADCAST_CAP
  MaxAuthFailures, \* MAX_AUTH_FAILURES
  Boards,          \* connections the board makes
  MaxLives,        \* bound: connections the browser makes
  MaxEffort        \* bound on spent

ASSUME ClientAssumption ==
  /\ QueueCap \in Nat \ {0} /\ BroadcastCap \in Nat \ {0}
  /\ MaxAuthFailures \in Nat \ {0} /\ Boards \in Nat
  /\ MaxLives \in Nat /\ MaxEffort \in Nat

VARIABLES
  server,   \* what game_view and the registry hold: the version of the game,
            \* that of the board's squares, and whether the board is online
  session,  \* the device session that owns the entry
  links,    \* the connections of the board
  telling,  \* what each teller has stored and not yet broadcast, if anything
  told,     \* everything broadcast
  open_controls,
  inbox,    \* the game task's inputs from clients
  client,   \* the client task
  queue,    \* out_tx to out_rx
  writer,   \* the writer task runs
  stalled,  \* the browser takes no frames
  browser,  \* what the page shows, and which broadcasts it has heard
  proven,   \* history: this connection gave the right password
  done,     \* history: what clients got the server to do
  crossed,  \* history: an old session spoke after a newer one
  spent     \* the effort of the steps so far

vars == <<server, session, links, telling, told, open_controls, inbox, client,
          queue, writer, stalled, browser, proven, done, crossed, spent>>
serverVars == <<server, session, links, telling, told, open_controls>>
socketVars == <<queue, writer, browser>>
history    == <<proven, done, crossed>>

Fields   == {"game", "board", "online"}
View     == [Fields -> Nat]
Message  == Fields \X Nat
Sessions == 1..Boards
Game     == 0
Tellers  == {Game} \cup Sessions
Quiet    == {}
\* What the queue holds: the init frame, a reply or an error, or
\* the broadcast of that number.
Snapshot == 0
Note     == -1

PlayerActions   == {"undo"}
OperatorActions == {"abort", "set_config"}

Input == [action : PlayerActions \cup OperatorActions,
          is_admin : BOOLEAN, proven : BOOLEAN, life : Nat]
States == {"off", "subscribed", "reading", "open", "sleeping", "shedding",
           "closing"}

TypeOK ==
  /\ server \in View /\ session \in 0..Boards
  /\ links \in [Sessions -> {"new", "live", "ended"}]
  /\ telling \in [Tellers -> SUBSET Message]
  /\ \A t \in Tellers : \A m, n \in telling[t] : m = n
  /\ told \in Seq(Message)
  /\ open_controls \in BOOLEAN /\ inbox \in Seq(Input)
  /\ client \in [state : States, life : Nat, next : Nat \ {0},
                 is_admin : BOOLEAN, auth_failures : 0..MaxAuthFailures,
                 init : View]
  /\ client.next <= Len(told) + 1
  /\ queue \in Seq(Int) /\ Len(queue) <= QueueCap
  /\ writer \in BOOLEAN /\ stalled \in BOOLEAN
  /\ browser \in [view : View, heard : Seq(Nat), from : Nat \ {0}]
  /\ proven \in BOOLEAN /\ crossed \in BOOLEAN /\ spent \in Nat

Init ==
  /\ server = [f \in Fields |-> 0]
  /\ session = 0 /\ links = [s \in Sessions |-> "new"]
  /\ telling = [t \in Tellers |-> Quiet] /\ told = <<>>
  /\ open_controls = FALSE /\ inbox = <<>>
  /\ client = [state |-> "off", life |-> 0, next |-> 1, is_admin |-> FALSE,
               auth_failures |-> 0, init |-> server]
  /\ queue = <<>> /\ writer = FALSE /\ stalled = FALSE
  /\ browser = [view |-> server, heard |-> <<>>, from |-> 1]
  /\ proven = FALSE /\ done = {} /\ crossed = FALSE /\ spent = 0

Spend == spent < MaxEffort /\ spent' = spent + 1
-----------------------------------------------------------------------------
(* The tellers *)

\* Stores a change and has it still to broadcast.
store(t, what, value) ==
  /\ server' = [server EXCEPT ![what] = value]
  /\ telling' = [telling EXCEPT ![t] = {<<what, value>>}]

\* publish: set_game_view, and broadcast_msg in Tell.
publish == store(Game, "game", server["game"] + 1)

\* A tick or an input of the board changes the game.
GameMoves ==
  /\ telling[Game] = Quiet /\ Spend /\ publish
  /\ UNCHANGED <<session, links, told, open_controls, inbox, client,
                 socketVars, stalled, history>>

register_device(s) ==
  /\ links[s] = "new" /\ s = session + 1 /\ Spend
  /\ session' = s /\ links' = [links EXCEPT ![s] = "live"]
  /\ store(s, "online", 1)
  /\ UNCHANGED <<told, open_controls, inbox, client, socketVars, stalled, history>>

\* Only the session that owns the entry is heard.
ingest_event(s) ==
  /\ links[s] = "live" /\ telling[s] = Quiet /\ session = s /\ Spend
  /\ store(s, "board", server["board"] + 1)
  /\ UNCHANGED <<session, links, told, open_controls, inbox, client,
                 socketVars, stalled, history>>

mark_disconnected(s) ==
  /\ links[s] = "live" /\ telling[s] = Quiet /\ Spend
  /\ links' = [links EXCEPT ![s] = "ended"]
  /\ IF session = s THEN store(s, "online", 0) ELSE UNCHANGED <<server, telling>>
  /\ UNCHANGED <<session, told, open_controls, inbox, client, socketVars,
                 stalled, history>>

\* The newer connection has yet to say that it is there, and will correct t.
Overtaking(t) == t = session - 1 /\ telling[session] = {<<"online", 1>>}

\* The second half of each of them.
broadcast_msg(t) ==
  /\ \E m \in telling[t] : told' = Append(told, m)
  /\ telling' = [telling EXCEPT ![t] = Quiet]
  /\ crossed' = (crossed \/ (t \notin {Game, session} /\ ~Overtaking(t)))
  /\ UNCHANGED <<server, session, links, open_controls, inbox, client,
                 socketVars, stalled, proven, done, spent>>
-----------------------------------------------------------------------------
(* The client task *)

\* try_send: refused when the queue is full, or the writer has ended.
Room == writer /\ Len(queue) < QueueCap
try_send(item) == queue' = IF Room THEN Append(queue, item) ELSE queue

\* Seeded fault of Connect.
Connect_Sticky ==
  /\ client.state = "off" /\ client.life < MaxLives
  /\ client' = [client EXCEPT !.state = "subscribed", !.life = @ + 1,
                              !.next = Len(told) + 1,
                              !.auth_failures = 0]
  /\ writer' = TRUE /\ queue' = <<>>
  /\ browser' = [browser EXCEPT !.heard = <<>>, !.from = Len(told) + 1,
                                !.view["online"] = 0]
  /\ proven' = FALSE /\ crossed' = FALSE
  /\ UNCHANGED <<serverVars, inbox, stalled, done, spent>>

\* handle_client subscribes, then reads the registry, then the game.
Connect ==
  /\ client.state = "off" /\ client.life < MaxLives
  /\ client' = [client EXCEPT !.state = "subscribed", !.life = @ + 1,
                              !.next = Len(told) + 1,
                              !.is_admin = FALSE, !.auth_failures = 0]
  /\ writer' = TRUE /\ queue' = <<>>
  /\ browser' = [browser EXCEPT !.heard = <<>>, !.from = Len(told) + 1,
                                !.view["online"] = 0]
  /\ proven' = FALSE /\ crossed' = FALSE
  /\ UNCHANGED <<serverVars, inbox, stalled, done, spent>>

snapshot_views ==
  /\ client.state = "subscribed"
  /\ client' = [client EXCEPT !.state = "reading", !.init = server]
  /\ UNCHANGED <<serverVars, inbox, socketVars, stalled, history, spent>>

\* Seeded fault of Open.
Open_LateSubscribe ==
  /\ client.state = "reading"
  /\ client' = [client EXCEPT !.state = IF Room THEN "open" ELSE "off",
                              !.init["game"] = server["game"],
                              !.next = Len(told) + 1]
  /\ try_send(Snapshot)
  /\ UNCHANGED <<serverVars, inbox, writer, browser, stalled, history, spent>>

\* The queue is new: the init frame has a place in it, if the writer lives.
Open ==
  /\ client.state = "reading"
  /\ client' = [client EXCEPT !.state = IF Room THEN "open" ELSE "off",
                              !.init["game"] = server["game"]]
  /\ try_send(Snapshot)
  /\ UNCHANGED <<serverVars, inbox, writer, browser, stalled, history, spent>>

Behind == Len(told) + 1 - client.next

\* Seeded fault of Relay.
Relay_Skips ==
  /\ client.state = "open" /\ Behind \in 1..BroadcastCap
  /\ client' = [client EXCEPT
       !.next  = @ + 1,
       !.state = IF writer THEN @ ELSE "closing"]
  /\ try_send(client.next)
  /\ UNCHANGED <<serverVars, inbox, writer, browser, stalled, history, spent>>

\* A broadcast reaches the client task.
Relay ==
  /\ client.state = "open" /\ Behind \in 1..BroadcastCap
  /\ client' = [client EXCEPT
       !.next  = IF Room THEN @ + 1 ELSE @,
       !.state = IF Room THEN @ ELSE IF writer THEN "shedding" ELSE "closing"]
  /\ try_send(client.next)
  /\ UNCHANGED <<serverVars, inbox, writer, browser, stalled, history, spent>>

\* The broadcast's ring has lost some of what this client had to hear.
Lagged ==
  /\ client.state = "open" /\ Behind > BroadcastCap
  /\ client' = [client EXCEPT !.state = "closing"]
  /\ try_send(Note)
  /\ UNCHANGED <<serverVars, inbox, writer, browser, stalled, history, spent>>

\* The notice finds a slot, or SHED_NOTICE_WAIT passes.
ShedNotice ==
  /\ client.state = "shedding" /\ Room
  /\ client' = [client EXCEPT !.state = "closing"]
  /\ try_send(Note)
  /\ UNCHANGED <<serverVars, inbox, writer, browser, stalled, history, spent>>

ShedTimeout ==
  /\ client.state = "shedding"
  /\ client' = [client EXCEPT !.state = "closing"]
  /\ UNCHANGED <<serverVars, inbox, socketVars, stalled, history, spent>>

\* The page is closed, or its socket fails.
Leave ==
  /\ client.state = "open" /\ Spend
  /\ client' = [client EXCEPT !.state = "closing"]
  /\ UNCHANGED <<serverVars, inbox, socketVars, stalled, history>>

\* out_tx is dropped; the game task may hold a copy for a reply.
Ends ==
  /\ client' = [client EXCEPT !.state = "off"]
  /\ writer' = FALSE /\ queue' = <<>>
  /\ UNCHANGED <<serverVars, inbox, browser, stalled, history, spent>>

Drained ==
  /\ client.state = "closing"
  /\ \/ ~writer
     \/ queue = <<>> /\ \A i \in DOMAIN inbox : inbox[i].life # client.life
  /\ Ends

\* Seeded fault of Abort.
Abort_Patient == Drained

\* WRITER_DRAIN
Abort == client.state = "closing" /\ Ends
-----------------------------------------------------------------------------
(* What the browser sends *)

\* A wrong password costs a sleep, in which no broadcast is taken.
handle_auth(ok) ==
  /\ client.state = "open" /\ Spend
  /\ IF ok
     THEN /\ client' = [client EXCEPT !.is_admin = TRUE]
          /\ proven' = TRUE /\ try_send(Note)
     ELSE /\ client' = [client EXCEPT !.auth_failures = @ + 1, !.state = "sleeping"]
          /\ UNCHANGED <<proven, queue>>
  /\ UNCHANGED <<serverVars, inbox, writer, browser, stalled, done, crossed>>

\* Seeded fault of AuthDelay.
AuthDelay_Forgiving ==
  /\ client.state = "sleeping"
  /\ client' = [client EXCEPT !.state = "open"]
  /\ try_send(Note)
  /\ UNCHANGED <<serverVars, inbox, writer, browser, stalled, history, spent>>

AuthDelay ==
  /\ client.state = "sleeping"
  /\ client' = [client EXCEPT !.state = IF client.auth_failures >= MaxAuthFailures
                                        THEN "closing" ELSE "open"]
  /\ try_send(Note)
  /\ UNCHANGED <<serverVars, inbox, writer, browser, stalled, history, spent>>

deed(action, pv) == [action |-> action, proven |-> pv, open |-> open_controls]

\* Refused or queued for the board; the browser is told either way.
handle_command ==
  /\ client.state = "open" /\ Spend
  /\ done' = IF client.is_admin /\ server["online"] = 1
             THEN done \cup {deed("command", proven)} ELSE done
  /\ try_send(Note)
  /\ UNCHANGED <<serverVars, inbox, client, writer, browser, stalled, proven, crossed>>

send_game(action) ==
  /\ client.state = "open" /\ Spend
  /\ inbox' = Append(inbox, [action |-> action, is_admin |-> client.is_admin,
                             proven |-> proven, life |-> client.life])
  /\ UNCHANGED <<serverVars, client, socketVars, stalled, history>>

\* The game task takes an input, when it has published the last one.
on_action ==
  /\ inbox # <<>> /\ telling[Game] = Quiet
  /\ inbox' = Tail(inbox)
  /\ LET in == Head(inbox)
         allowed == in.is_admin \/ (open_controls /\ in.action \in PlayerActions)
     IN \/ /\ allowed /\ publish
           /\ done' = done \cup {deed(in.action, in.proven)}
           /\ open_controls' = IF in.action = "set_config" THEN ~open_controls
                               ELSE open_controls
           /\ UNCHANGED queue
        \/ \* unauthorized, or else invalid_args
           /\ IF in.life = client.life THEN try_send(Note) ELSE UNCHANGED queue
           /\ UNCHANGED <<server, telling, done, open_controls>>
  /\ UNCHANGED <<session, links, told, client, writer, browser, stalled,
                 proven, crossed, spent>>
-----------------------------------------------------------------------------
(* The writer, and the page *)

\* #onMessage: init and game.state replace, an event is applied.
onMessage(item) ==
  CASE item = Snapshot -> [browser EXCEPT !.view = client.init]
    [] item = Note -> browser
    [] OTHER -> [browser EXCEPT !.view[told[item][1]] = told[item][2],
                                !.heard = Append(@, item)]

Write ==
  /\ writer /\ queue # <<>> /\ ~stalled
  /\ browser' = onMessage(Head(queue)) /\ queue' = Tail(queue)
  /\ UNCHANGED <<serverVars, inbox, client, writer, stalled, history, spent>>

\* A frame or a ping that fails ends the writer.
WriteFails ==
  /\ writer /\ stalled /\ Spend
  /\ writer' = FALSE /\ queue' = <<>>
  /\ UNCHANGED <<serverVars, inbox, client, browser, stalled, history>>

Stall ==
  /\ Spend /\ stalled' = ~stalled
  /\ UNCHANGED <<serverVars, inbox, client, socketVars, history>>
-----------------------------------------------------------------------------
Next ==
  \/ GameMoves
  \/ \E s \in Sessions :
       register_device(s) \/ ingest_event(s) \/ mark_disconnected(s)
  \/ \E t \in Tellers : broadcast_msg(t)
  \/ Connect \/ snapshot_views \/ Open \/ Relay \/ Lagged
  \/ ShedNotice \/ ShedTimeout \/ Leave \/ Drained \/ Abort
  \/ \E ok \in BOOLEAN : handle_auth(ok)
  \/ AuthDelay \/ handle_command \/ on_action
  \/ \E a \in PlayerActions \cup OperatorActions : send_game(a)
  \/ Write \/ WriteFails \/ Stall

Spec == Init /\ [][Next]_vars

\* The timers of the client task run out.
Fairness == WF_vars(ShedTimeout) /\ WF_vars(Abort) /\ WF_vars(AuthDelay)
LiveSpec == Spec /\ Fairness
-----------------------------------------------------------------------------
(* Properties *)

\* The page hears the broadcasts since its subscription one after the other:
\* whatever the queue, the ring and the sleeps do, one that missed a broadcast
\* hears none after it (client.rs, "silently missed events").
NoHoles == \A i \in DOMAIN browser.heard : browser.heard[i] = browser.from + i - 1

\* Once everything stored is broadcast, relayed and written, the page shows
\* what the server holds, however the three reads of the init frame, the
\* stores and the broadcasts interleaved.  Except when an old connection of the
\* board spoke after a newer one.
SeesTheServer ==
  /\ client.state = "open" /\ writer /\ queue = <<>> /\ Behind = 0
  /\ \A t \in Tellers : telling[t] = Quiet
  /\ ~crossed
  => browser.view = server

\* Nothing is done for a client that has not given the password on that very
\* connection, but a player's action while the operator has opened the
\* controls (is_player_action: "Everything destructive stays admin-only").
OnlyAuthorised ==
  \A d \in done : d.proven \/ (d.open /\ d.action \in PlayerActions)

\* A client that is shed or leaves is gone within its two timers, whether its
\* browser reads or not and whatever the game task still holds for it.
ClientsEnd == client.state \in {"shedding", "closing"} ~> client.state = "off"
=============================================================================
