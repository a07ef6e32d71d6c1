------------------------ MODULE ClientSessionProofs ------------------------
(***************************************************************************)
(* Proofs about ClientSession: its types, that only authorised deeds are   *)
(* done, that a page hears no broadcast after one it missed, and that what *)
(* it shows, once all is said and heard, is what the server holds.         *)
(***************************************************************************)
EXTENDS ClientSession, TLAPS

-----------------------------------------------------------------------------
(* Sequences *)

LEMMA AppendFacts ==
  ASSUME NEW S, NEW s \in Seq(S), NEW x \in S
  PROVE  /\ Append(s, x) \in Seq(S) /\ Len(Append(s, x)) = Len(s) + 1
         /\ DOMAIN Append(s, x) = 1..(Len(s) + 1)
         /\ \A i \in 1..Len(s) : Append(s, x)[i] = s[i]
         /\ Append(s, x)[Len(s) + 1] = x
OBVIOUS

LEMMA TailFacts ==
  ASSUME NEW S, NEW s \in Seq(S), s # <<>>
  PROVE  /\ Tail(s) \in Seq(S) /\ Len(Tail(s)) = Len(s) - 1 /\ Len(s) \in Nat \ {0}
         /\ Head(s) = s[1] /\ s[1] \in S
         /\ DOMAIN s = 1..Len(s) /\ DOMAIN Tail(s) = 1..(Len(s) - 1)
         /\ \A i \in 1..(Len(s) - 1) : Tail(s)[i] = s[i + 1]
OBVIOUS

LEMMA EmptyFacts ==
  ASSUME NEW S
  PROVE  <<>> \in Seq(S) /\ Len(<<>>) = 0 /\ DOMAIN <<>> = {}
OBVIOUS

-----------------------------------------------------------------------------
(* Types *)

Arriving == {"subscribed", "reading"}

\* A client that may still try a password has tries left.
Attempts == client.state \in Arriving \cup {"open"}
              => client.auth_failures < MaxAuthFailures

Clients == [state : States, life : Nat, next : Nat \ {0}, is_admin : BOOLEAN,
            auth_failures : 0..MaxAuthFailures, init : View]
Pages   == [view : View, heard : Seq(Nat), from : Nat \ {0}]

\* What the tellers hold, what the client task holds, what the page holds.
SpeakType ==
  /\ server \in View /\ session \in 0..Boards
  /\ links \in [Sessions -> {"new", "live", "ended"}]
  /\ telling \in [Tellers -> SUBSET Message]
  /\ \A t \in Tellers : \A m, n \in telling[t] : m = n
  /\ told \in Seq(Message)
TaskType ==
  /\ client \in Clients /\ client.next <= Len(told) + 1
  /\ Attempts
  /\ queue \in Seq(Int) /\ Len(queue) <= QueueCap /\ writer \in BOOLEAN
RestType ==
  /\ open_controls \in BOOLEAN /\ inbox \in Seq(Input)
  /\ stalled \in BOOLEAN /\ proven \in BOOLEAN /\ crossed \in BOOLEAN
  /\ spent \in Nat
PageType == browser \in Pages

TInv == SpeakType /\ TaskType /\ RestType /\ PageType

LEMMA TypesAreOK == TInv => TypeOK
BY DEF TInv, TypeOK, SpeakType, TaskType, RestType, PageType, Clients, Pages

LEMMA TypeInit == Init => TInv
<1> SUFFICES ASSUME Init PROVE TInv
  OBVIOUS
<1>0. server \in View /\ told \in Seq(Message) /\ inbox \in Seq(Input)
      /\ queue \in Seq(Int) /\ Len(queue) = 0 /\ Len(told) = 0
  BY EmptyFacts DEF Init, View
<1>1. SpeakType
  <2>1. telling \in [Tellers -> SUBSET Message]
        /\ \A t \in Tellers : telling[t] = {}
    BY DEF Init, Quiet
  <2>2. links \in [Sessions -> {"new", "live", "ended"}]
    BY DEF Init
  <2> QED  BY <1>0, <2>1, <2>2, ClientAssumption DEF Init, SpeakType
<1>2. TaskType
  <2>1. client \in Clients
    BY <1>0, ClientAssumption DEF Init, States, Clients
  <2>2. client.state = "off" /\ client.next = 1 /\ writer = FALSE
    BY DEF Init
  <2>3. Len(queue) <= QueueCap /\ client.next <= Len(told) + 1
    BY <1>0, <2>2, ClientAssumption
  <2> QED
    BY <1>0, <2>1, <2>2, <2>3 DEF TaskType, Attempts, Arriving
<1>3. PageType
  BY <1>0, EmptyFacts DEF Init, PageType, Pages
<1>4. RestType
  BY <1>0 DEF Init, RestType
<1> QED  BY <1>1, <1>2, <1>3, <1>4 DEF TInv

\* One part of the types is kept where its variables are.
LEMMA SpeakKept ==
  SpeakType /\ UNCHANGED <<server, session, links, telling, told>> => SpeakType'
BY DEF SpeakType

LEMMA RestKept ==
  RestType /\ UNCHANGED <<open_controls, inbox, stalled, history>>
           /\ (UNCHANGED spent \/ Spend) => RestType'
BY DEF RestType, history, Spend

LEMMA TaskKept ==
  TaskType /\ UNCHANGED <<client, told, queue, writer>> => TaskType'
BY DEF TaskType, Attempts

\* One more item in the queue, or none.
LEMMA SendType ==
  ASSUME queue \in Seq(Int), Len(queue) <= QueueCap, NEW item \in Int,
         try_send(item) \/ UNCHANGED queue
  PROVE  queue' \in Seq(Int) /\ Len(queue') <= QueueCap
<1>1. CASE queue' = queue
  BY <1>1
<1>2. CASE Room /\ queue' = Append(queue, item)
  BY <1>2, AppendFacts, ClientAssumption DEF Room
<1> QED  BY <1>1, <1>2 DEF try_send

LEMMA StoreType ==
  ASSUME SpeakType, NEW t \in Tellers, NEW what \in Fields, NEW value \in Nat,
         store(t, what, value), told' = told, session' \in 0..Boards,
         links' \in [Sessions -> {"new", "live", "ended"}]
  PROVE  SpeakType'
<1>1. server' \in View
  BY DEF store, SpeakType, View
<1>2. <<what, value>> \in Message
  BY DEF Message
<1>3. telling' \in [Tellers -> SUBSET Message]
  BY <1>2 DEF store, SpeakType
<1>4. \A u \in Tellers : \A m, n \in telling'[u] : m = n
  BY DEF store, SpeakType
<1> QED  BY <1>1, <1>3, <1>4 DEF SpeakType

LEMMA TypeSpeak ==
  ASSUME TInv, \/ GameMoves
               \/ \E s \in Sessions : \/ register_device(s) \/ ingest_event(s)
                                       \/ mark_disconnected(s)
               \/ \E t \in Tellers : broadcast_msg(t)
  PROVE  TInv'
<1>0. SpeakType /\ TaskType /\ RestType /\ PageType
  BY DEF TInv
<1>a. Game \in Tellers /\ Sessions \subseteq Tellers
      /\ {"game", "board", "online"} = Fields
      /\ server["game"] \in Nat /\ server["board"] \in Nat
  BY <1>0 DEF Tellers, SpeakType, View, Fields
<1>1. CASE GameMoves
  <2>1. store(Game, "game", server["game"] + 1) /\ told' = told
        /\ session' \in 0..Boards /\ links' \in [Sessions -> {"new", "live", "ended"}]
    BY <1>0, <1>1 DEF GameMoves, publish, SpeakType
  <2>2. server["game"] + 1 \in Nat
    BY <1>a
  <2>3. SpeakType'
    BY <1>0, <1>a, <2>1, <2>2, StoreType
  <2> QED
    BY <1>0, <1>1, <2>3, TaskKept, RestKept DEF GameMoves, socketVars, PageType, TInv
<1>2. ASSUME NEW s \in Sessions, register_device(s) PROVE TInv'
  <2>1. session' \in 0..Boards
    BY <1>2 DEF register_device, Sessions
  <2>2. links' \in [Sessions -> {"new", "live", "ended"}]
    BY <1>0, <1>2 DEF register_device, SpeakType
  <2>3. store(s, "online", 1) /\ told' = told
    BY <1>2 DEF register_device
  <2>4. SpeakType'
    BY <1>0, <1>a, <2>1, <2>2, <2>3, StoreType
  <2> QED
    BY <1>0, <1>2, <2>4, TaskKept, RestKept DEF register_device, socketVars, PageType, TInv
<1>3. ASSUME NEW s \in Sessions, ingest_event(s) PROVE TInv'
  <2>1. store(s, "board", server["board"] + 1) /\ told' = told
        /\ session' \in 0..Boards /\ links' \in [Sessions -> {"new", "live", "ended"}]
    BY <1>0, <1>3 DEF ingest_event, SpeakType
  <2>2. server["board"] + 1 \in Nat
    BY <1>a
  <2>3. SpeakType'
    BY <1>0, <1>a, <2>1, <2>2, StoreType
  <2> QED
    BY <1>0, <1>3, <2>3, TaskKept, RestKept DEF ingest_event, socketVars, PageType, TInv
<1>4. ASSUME NEW s \in Sessions, mark_disconnected(s) PROVE TInv'
  <2>1. links' \in [Sessions -> {"new", "live", "ended"}]
    BY <1>0, <1>4 DEF mark_disconnected, SpeakType
  <2>2. session' \in 0..Boards
    BY <1>0, <1>4 DEF mark_disconnected, SpeakType
  <2>5. SpeakType'
    <3>1. CASE store(s, "online", 0)
      BY <1>0, <1>4, <1>a, <2>1, <2>2, <3>1, StoreType DEF mark_disconnected
    <3>2. CASE UNCHANGED <<server, telling>>
      BY <1>0, <1>4, <2>1, <2>2, <3>2 DEF mark_disconnected, SpeakType
    <3> QED  BY <1>4, <3>1, <3>2 DEF mark_disconnected
  <2> QED
    BY <1>0, <1>4, <2>5, TaskKept, RestKept DEF mark_disconnected, socketVars, PageType, TInv
<1>5. ASSUME NEW t \in Tellers, broadcast_msg(t) PROVE TInv'
  <2>1. PICK m \in telling[t] : told' = Append(told, m)
    BY <1>5 DEF broadcast_msg
  <2>2. m \in Message
    BY <1>0, <2>1 DEF SpeakType
  <2>3. told' \in Seq(Message) /\ Len(told') = Len(told) + 1
    BY <1>0, <2>1, <2>2, AppendFacts DEF SpeakType
  <2>4. telling' \in [Tellers -> SUBSET Message]
        /\ \A u \in Tellers : telling'[u] = {} \/ telling'[u] = telling[u]
    BY <1>0, <1>5 DEF broadcast_msg, SpeakType, Quiet
  <2>5. SpeakType'
    BY <1>0, <1>5, <2>3, <2>4 DEF broadcast_msg, SpeakType
  <2>6. TaskType'
    <3>1. Len(told) \in Nat /\ client.next \in Nat
      BY <1>0 DEF SpeakType, TaskType, Clients
    <3>2. client'.next <= Len(told') + 1
      BY <1>0, <1>5, <2>3, <3>1 DEF broadcast_msg, TaskType
    <3> QED  BY <1>0, <1>5, <3>2 DEF broadcast_msg, socketVars, TaskType, Attempts
  <2>7. RestType'
    BY <1>0, <1>5 DEF broadcast_msg, RestType
  <2> QED  BY <1>0, <1>5, <2>5, <2>6, <2>7 DEF broadcast_msg, socketVars, PageType, TInv
<1> QED  BY <1>1, <1>2, <1>3, <1>4, <1>5

\* What an action that only moves the client task on leaves as it is.
LEMMA TypeTask ==
  ASSUME TInv, \/ Lagged \/ ShedNotice \/ ShedTimeout \/ Leave \/ AuthDelay
  PROVE  TInv'
<1>0. SpeakType /\ TaskType /\ RestType /\ PageType
  BY DEF TInv
<1>1. /\ UNCHANGED <<serverVars, inbox, writer, browser, stalled, history>>
      /\ UNCHANGED spent \/ Spend
      /\ try_send(Note) \/ UNCHANGED queue
  BY DEF Lagged, ShedNotice, ShedTimeout, Leave, AuthDelay, socketVars
<1>2. \E st \in {"closing", "open"} :
        /\ client' = [client EXCEPT !.state = st]
        /\ st = "open" => AuthDelay /\ client.auth_failures < MaxAuthFailures
  <2>1. CASE AuthDelay
    <3>1. client.auth_failures \in Int /\ MaxAuthFailures \in Int
      BY <1>0, ClientAssumption DEF TaskType, Clients
    <3>2. CASE client.auth_failures >= MaxAuthFailures
      BY <2>1, <3>2 DEF AuthDelay
    <3>3. CASE client.auth_failures < MaxAuthFailures
      BY <2>1, <3>1, <3>3 DEF AuthDelay
    <3> QED  BY <3>1, <3>2, <3>3
  <2> QED  BY <2>1 DEF Lagged, ShedNotice, ShedTimeout, Leave
<1>3. TaskType'
  <2>1. PICK st \in {"closing", "open"} :
          /\ client' = [client EXCEPT !.state = st]
          /\ st = "open" => client.auth_failures < MaxAuthFailures
    BY <1>2
  <2>2. st \in States /\ Note \in Int
    BY DEF States, Note
  <2>3. client' \in Clients /\ client'.next = client.next
        /\ client'.state = st /\ client'.auth_failures = client.auth_failures
    BY <1>0, <2>1, <2>2 DEF TaskType, Clients
  <2>4. queue' \in Seq(Int) /\ Len(queue') <= QueueCap
    BY <1>0, <1>1, <2>2, SendType DEF TaskType
  <2> QED
    BY <1>0, <1>1, <2>1, <2>3, <2>4 DEF serverVars, TaskType, Attempts, Arriving
<1>4. SpeakType' /\ RestType' /\ PageType'
  BY <1>0, <1>1, SpeakKept, RestKept DEF serverVars, PageType
<1> QED  BY <1>3, <1>4 DEF TInv

\* Connecting, the two reads of the init frame, and the end.
LEMMA TypeComesAndGoes ==
  ASSUME TInv, Connect \/ snapshot_views \/ Open \/ Drained \/ Abort
  PROVE  TInv'
<1>0. SpeakType /\ TaskType /\ RestType /\ PageType
  BY DEF TInv
<1>a. Len(told) \in Nat /\ server["game"] \in Nat /\ "game" \in Fields
      /\ client.next \in Nat /\ MaxAuthFailures \in Nat \ {0} /\ QueueCap \in Nat
  BY <1>0, ClientAssumption DEF SpeakType, TaskType, Clients, View, Fields
<1>b. SpeakType'
  BY <1>0, SpeakKept DEF Connect, snapshot_views, Open, Drained, Abort, Ends, serverVars
<1>1. CASE Connect
  <2>1. client' \in Clients /\ client'.next = Len(told) + 1 /\ client'.auth_failures = 0
    <3> DEFINE n == Len(told) + 1  l == client.life + 1
    <3>1. n \in Nat \ {0} /\ l \in Nat /\ 0 \in 0..MaxAuthFailures
      BY <1>0, <1>a DEF TaskType, Clients
    <3>2. client' = [client EXCEPT !.state = "subscribed", !.life = l, !.next = n,
                                   !.is_admin = FALSE, !.auth_failures = 0]
      BY <1>0, <1>1 DEF Connect, TaskType, Clients
    <3>3. n = Len(told) + 1
      OBVIOUS
    <3> HIDE DEF n, l
    <3> QED  BY <1>0, <3>1, <3>2, <3>3 DEF TaskType, Clients, States
  <2>2. queue' \in Seq(Int) /\ Len(queue') = 0
    BY <1>1, EmptyFacts DEF Connect
  <2>3. TaskType'
    BY <1>1, <1>a, <2>1, <2>2 DEF Connect, serverVars, TaskType, Attempts
  <2>4. browser' \in Pages
    <3>1. [browser.view EXCEPT !["online"] = 0] \in View
      BY <1>0 DEF PageType, Pages, View
    <3> DEFINE n == Len(told) + 1  h == <<>>
               v == [browser.view EXCEPT !["online"] = 0]
    <3>2. browser' = [browser EXCEPT !.heard = h, !.from = n, !.view = v]
      BY <1>0, <1>1 DEF Connect, PageType, Pages
    <3>3. n \in Nat \ {0} /\ h \in Seq(Nat) /\ v \in View
      BY <1>a, <3>1, EmptyFacts
    <3> HIDE DEF n, h, v
    <3> QED  BY <1>0, <3>2, <3>3 DEF PageType, Pages
  <2>5. RestType'
    BY <1>0, <1>1 DEF Connect, serverVars, RestType
  <2> QED  BY <1>b, <2>3, <2>4, <2>5 DEF TInv, PageType
<1>2. CASE snapshot_views
  <2>1. client' \in Clients /\ client'.next = client.next
        /\ client'.auth_failures = client.auth_failures
    BY <1>0, <1>2 DEF snapshot_views, TaskType, SpeakType, Clients, States
  <2>2. TaskType'
    BY <1>0, <1>2, <2>1
    DEF snapshot_views, serverVars, socketVars, TaskType, Attempts, Arriving
  <2>3. RestType' /\ PageType'
    BY <1>0, <1>2, RestKept
    DEF snapshot_views, serverVars, socketVars, PageType
  <2> QED  BY <1>b, <2>2, <2>3 DEF TInv
<1>3. CASE Open
  <2>1. [client.init EXCEPT !["game"] = server["game"]] \in View
    BY <1>0, <1>a DEF TaskType, Clients, View
  <2>2. PICK st \in {"open", "off"} :
          client' = [client EXCEPT !.state = st,
                       !.init = [client.init EXCEPT !["game"] = server["game"]]]
    BY <1>0, <1>3 DEF Open, TaskType, Clients
  <2>3. client' \in Clients /\ client'.next = client.next /\ client'.state = st
        /\ client'.auth_failures = client.auth_failures
    BY <1>0, <2>1, <2>2 DEF TaskType, Clients, States
  <2>4. queue' \in Seq(Int) /\ Len(queue') <= QueueCap
    BY <1>0, <1>3, SendType DEF Open, Snapshot, TaskType
  <2>5. TaskType'
    BY <1>0, <1>3, <2>3, <2>4 DEF Open, serverVars, TaskType, Attempts, Arriving
  <2>6. RestType' /\ PageType'
    BY <1>0, <1>3, RestKept DEF Open, serverVars, PageType
  <2> QED  BY <1>b, <2>5, <2>6 DEF TInv
<1>4. CASE Ends
  <2>1. client' \in Clients /\ client'.next = client.next /\ client'.state = "off"
    BY <1>0, <1>4 DEF Ends, TaskType, Clients, States
  <2>2. queue' \in Seq(Int) /\ Len(queue') = 0
    BY <1>4, EmptyFacts DEF Ends
  <2>a. told' = told /\ writer' = FALSE
    BY <1>4 DEF Ends, serverVars
  <2>b. client.next <= Len(told) + 1
    BY <1>0 DEF TaskType
  <2>3. client'.next <= Len(told') + 1 /\ Len(queue') <= QueueCap
    BY <1>a, <2>1, <2>2, <2>a, <2>b
  <2>c. writer' \in BOOLEAN
    BY <2>a
  <2>5. TaskType'
    BY <2>1, <2>2, <2>3, <2>c DEF TaskType, Attempts, Arriving
  <2>4. RestType' /\ PageType'
    BY <1>0, <1>4, RestKept DEF Ends, serverVars, PageType
  <2> QED  BY <1>b, <2>4, <2>5 DEF TInv
<1> QED  BY <1>1, <1>2, <1>3, <1>4 DEF Drained, Abort

LEMMA TypeAsks ==
  ASSUME TInv, \/ \E ok \in BOOLEAN : handle_auth(ok)
               \/ handle_command
               \/ \E a \in PlayerActions \cup OperatorActions : send_game(a)
  PROVE  TInv'
<1>0. SpeakType /\ TaskType /\ RestType /\ PageType
  BY DEF TInv
<1>1. ASSUME NEW ok \in BOOLEAN, handle_auth(ok) PROVE TInv'
  <2>1. client' \in Clients /\ client'.next = client.next
        /\ (client'.state # "sleeping" => client'.auth_failures = client.auth_failures
                                          /\ client'.state = "open")
    <3>1. CASE ok
      BY <1>0, <1>1, <3>1 DEF handle_auth, TaskType, Clients
    <3>2. CASE ~ok
      <4>1. client.auth_failures \in 0..MaxAuthFailures /\ MaxAuthFailures \in Nat
            /\ client.auth_failures < MaxAuthFailures
        BY <1>0, <1>1, ClientAssumption
        DEF handle_auth, TaskType, Clients, Attempts, Arriving
      <4>2. client.auth_failures + 1 \in 0..MaxAuthFailures
        BY <4>1
      <4> DEFINE n == client.auth_failures + 1
      <4>3. client' = [client EXCEPT !.auth_failures = n, !.state = "sleeping"]
        BY <1>0, <1>1, <3>2 DEF handle_auth, TaskType, Clients
      <4>4. n \in 0..MaxAuthFailures
        BY <4>2
      <4> HIDE DEF n
      <4> QED  BY <1>0, <4>3, <4>4 DEF TaskType, Clients, States
    <3> QED  BY <3>1, <3>2
  <2>2. try_send(Note) \/ UNCHANGED queue
    BY <1>1 DEF handle_auth
  <2>3. queue' \in Seq(Int) /\ Len(queue') <= QueueCap
    BY <1>0, <2>2, SendType DEF Note, TaskType
  <2>4. client.state = "open"
    BY <1>1 DEF handle_auth
  <2>5. TaskType'
    BY <1>0, <1>1, <2>1, <2>3, <2>4
    DEF handle_auth, serverVars, TaskType, Attempts, Arriving
  <2>6. proven' \in BOOLEAN
    BY <1>0, <1>1 DEF handle_auth, RestType
  <2>7. SpeakType' /\ RestType' /\ PageType'
    BY <1>0, <1>1, <2>6, SpeakKept
    DEF handle_auth, serverVars, RestType, PageType, Spend
  <2> QED  BY <2>5, <2>7 DEF TInv
<1>2. CASE handle_command
  <2>1. queue' \in Seq(Int) /\ Len(queue') <= QueueCap
    BY <1>0, <1>2, SendType DEF handle_command, Note, TaskType
  <2>2. TaskType'
    BY <1>0, <1>2, <2>1 DEF handle_command, serverVars, TaskType, Attempts
  <2>3. SpeakType' /\ RestType' /\ PageType'
    BY <1>0, <1>2, SpeakKept
    DEF handle_command, serverVars, RestType, PageType, Spend
  <2> QED  BY <2>2, <2>3 DEF TInv
<1>3. ASSUME NEW a \in PlayerActions \cup OperatorActions, send_game(a) PROVE TInv'
  <2>1. [action |-> a, is_admin |-> client.is_admin, proven |-> proven,
         life |-> client.life] \in Input
    BY <1>0 DEF TaskType, Clients, RestType, Input
  <2>2. inbox' \in Seq(Input)
    BY <1>0, <1>3, <2>1, AppendFacts DEF send_game, RestType
  <2>3. SpeakType' /\ TaskType' /\ RestType' /\ PageType'
    BY <1>0, <1>3, <2>2, SpeakKept, TaskKept
    DEF send_game, serverVars, socketVars, history, RestType, PageType, Spend
  <2> QED  BY <2>3 DEF TInv
<1> QED  BY <1>1, <1>2, <1>3

LEMMA TypeRelay == ASSUME TInv, Relay PROVE TInv'
<1>0. SpeakType /\ TaskType /\ RestType /\ PageType
  BY DEF TInv
<1>1. Len(told) \in Nat /\ client.next \in Nat \ {0} /\ BroadcastCap \in Nat
  BY <1>0, ClientAssumption DEF SpeakType, TaskType, Clients
<1>2. client.next <= Len(told)
  BY <1>1 DEF Relay, Behind
<1>3. PICK n \in {client.next, client.next + 1}, st \in States :
        /\ client' = [client EXCEPT !.next = n, !.state = st]
        /\ st \in Arriving \cup {"open"} => client.state = "open"
  <2>1. client.state = "open" /\ client \in Clients /\ client.state \in States
    BY <1>0 DEF Relay, TaskType, Clients
  <2>2. CASE Room
    <3>1. client' = [client EXCEPT !.next = client.next + 1, !.state = client.state]
      BY <2>2 DEF Relay
    <3> QED  BY <2>1, <3>1
  <2>3. CASE ~Room
    <3>1. PICK st \in {"shedding", "closing"} :
            client' = [client EXCEPT !.next = client.next, !.state = st]
      BY <2>3 DEF Relay
    <3> QED  BY <3>1 DEF States, Arriving
  <2> QED  BY <2>2, <2>3
<1>4. n \in Nat \ {0} /\ n <= Len(told) + 1
  BY <1>1, <1>2
<1>5. client' \in Clients /\ client'.next = n /\ client'.state = st
      /\ client'.auth_failures = client.auth_failures
  BY <1>0, <1>3, <1>4 DEF TaskType, Clients
<1>6. queue' \in Seq(Int) /\ Len(queue') <= QueueCap
  BY <1>0, <1>1, SendType DEF Relay, TaskType
<1>7. TaskType'
  BY <1>0, <1>3, <1>4, <1>5, <1>6 DEF Relay, serverVars, TaskType, Attempts, Arriving
<1>8. SpeakType' /\ RestType' /\ PageType'
  BY <1>0, SpeakKept, RestKept DEF Relay, serverVars, PageType
<1> QED  BY <1>7, <1>8 DEF TInv

LEMMA TypeActs == ASSUME TInv, on_action PROVE TInv'
<1>0. SpeakType /\ TaskType /\ RestType /\ PageType
  BY DEF TInv
<1>1. Game \in Tellers /\ "game" \in Fields /\ server["game"] + 1 \in Nat
  BY <1>0 DEF Tellers, SpeakType, View, Fields
<1>2. SpeakType'
  <2>1. CASE publish
    <3>1. store(Game, "game", server["game"] + 1) /\ told' = told
          /\ session' \in 0..Boards /\ links' \in [Sessions -> {"new", "live", "ended"}]
      BY <1>0, <2>1 DEF on_action, publish, SpeakType
    <3> QED  BY <1>0, <1>1, <3>1, StoreType
  <2>2. CASE UNCHANGED <<server, telling>>
    BY <1>0, <2>2, SpeakKept DEF on_action
  <2> QED  BY <2>1, <2>2 DEF on_action
<1>3. inbox' \in Seq(Input)
  BY <1>0, TailFacts DEF on_action, RestType
<1>4. open_controls' \in BOOLEAN
  BY <1>0 DEF on_action, RestType
<1>5. RestType' /\ PageType'
  BY <1>0, <1>3, <1>4 DEF on_action, RestType, PageType
<1>6. try_send(Note) \/ UNCHANGED queue
  BY DEF on_action
<1>7. queue' \in Seq(Int) /\ Len(queue') <= QueueCap
  BY <1>0, <1>6, SendType DEF Note, TaskType
<1>8. TaskType'
  BY <1>0, <1>7 DEF on_action, TaskType, Attempts
<1> QED  BY <1>2, <1>5, <1>8 DEF TInv

\* What the page makes of a frame of its queue.
LEMMA MessageType ==
  ASSUME SpeakType, PageType, client \in Clients, NEW item \in Int,
         item \in {Note, Snapshot} \cup 1..Len(told)
  PROVE  onMessage(item) \in Pages
<1>1. CASE item = Snapshot
  BY <1>1 DEF onMessage, PageType, Pages, Clients
<1>2. CASE item = Note
  BY <1>2 DEF onMessage, Note, Snapshot, PageType
<1>3. CASE item \in 1..Len(told)
  <2>1. told[item] \in Message /\ item \in Nat
    BY <1>3 DEF SpeakType
  <2>2. told[item][1] \in Fields /\ told[item][2] \in Nat
    BY <2>1 DEF Message
  <2> DEFINE v == [browser.view EXCEPT ![told[item][1]] = told[item][2]]
             h == Append(browser.heard, item)
  <2>3. v \in View
    BY <2>2 DEF PageType, Pages, View
  <2>4. h \in Seq(Nat)
    BY <2>1, AppendFacts DEF PageType, Pages
  <2>5. onMessage(item) = [browser EXCEPT !.view = v, !.heard = h]
    BY <1>3 DEF onMessage, Note, Snapshot, PageType, Pages
  <2> HIDE DEF v, h
  <2> QED  BY <2>3, <2>4, <2>5 DEF PageType, Pages
<1> QED  BY <1>1, <1>2, <1>3

-----------------------------------------------------------------------------
(* The line from the broadcast to the page *)

\* The next broadcast the page is to hear.
Due == browser.from + Len(browser.heard)

\* A client that only arrives has heard nothing, and a writer that has ended
\* left nothing behind it.
Fresh ==
  /\ client.state \in Arriving
       => queue = <<>> /\ browser.heard = <<>> /\ client.next = browser.from
  /\ ~writer => queue = <<>>
  /\ \A i \in DOMAIN queue : queue[i] = Snapshot => i = 1 /\ browser.heard = <<>>

\* The queue holds broadcasts the page has not heard, in their order,
Ordered ==
  /\ Due <= client.next
  /\ \A i \in DOMAIN queue : queue[i] \in {Note, Snapshot} \cup Due..(client.next - 1)
  /\ \A i, j \in DOMAIN queue :
       i < j /\ queue[i] > 0 /\ queue[j] > 0 => queue[i] < queue[j]
\* and all of them.
Whole ==
  writer => \A n \in Due..(client.next - 1) : \E i \in DOMAIN queue : queue[i] = n

Line == NoHoles /\ Fresh /\ Ordered /\ Whole

LEMMA LineKept ==
  ASSUME Line, UNCHANGED <<queue, writer, browser>>, client'.next = client.next,
         client'.state \in Arriving => client.state \in Arriving
  PROVE  Line'
BY DEF Line, NoHoles, Fresh, Ordered, Whole, Due

LEMMA DueType ==
  ASSUME TInv
  PROVE  /\ Due \in Nat \ {0} /\ client.next \in Nat \ {0} /\ Len(queue) \in Nat
         /\ queue \in Seq(Int) /\ DOMAIN queue = 1..Len(queue)
         /\ \A i \in DOMAIN queue : queue[i] \in Int
         /\ browser.heard \in Seq(Nat) /\ browser.from \in Nat \ {0}
         /\ Len(browser.heard) \in Nat /\ DOMAIN browser.heard = 1..Len(browser.heard)
<1>1. browser.heard \in Seq(Nat) /\ browser.from \in Nat \ {0}
      /\ queue \in Seq(Int) /\ client.next \in Nat \ {0}
  BY DEF TInv, TaskType, PageType, Clients, Pages
<1> QED  BY <1>1 DEF Due

\* An item joins the line.
LEMMA LinePush ==
  ASSUME TInv, Line, NEW item \in Int, Room, queue' = Append(queue, item),
         UNCHANGED <<writer, browser>>, client'.state \notin Arriving,
         \/ item = Note /\ client'.next = client.next
         \/ /\ item = Snapshot /\ client'.next = client.next
            /\ queue = <<>> /\ browser.heard = <<>>
         \/ item = client.next /\ client'.next = client.next + 1
  PROVE  Line'
<1>0. /\ Due \in Nat \ {0} /\ client.next \in Nat \ {0} /\ Len(queue) \in Nat
      /\ queue \in Seq(Int) /\ DOMAIN queue = 1..Len(queue)
      /\ \A i \in DOMAIN queue : queue[i] \in Int
  BY DueType
<1>1. DOMAIN queue' = 1..(Len(queue) + 1)
      /\ (\A i \in 1..Len(queue) : queue'[i] = queue[i])
      /\ queue'[Len(queue) + 1] = item
  BY <1>0, AppendFacts
<1>2. Due' = Due /\ Due <= client.next /\ client'.next \in Nat
      /\ client.next <= client'.next
  BY <1>0 DEF Line, Ordered, Due
<1>3. NoHoles'
  BY DEF Line, NoHoles
<1>4. Fresh'
  <2>1. writer'
    BY DEF Room
  <2>2. ASSUME NEW i \in DOMAIN queue', queue'[i] = Snapshot
        PROVE  i = 1 /\ browser'.heard = <<>>
    <3>1. CASE i \in 1..Len(queue)
      BY <1>0, <1>1, <2>2, <3>1 DEF Line, Fresh
    <3>2. CASE i = Len(queue) + 1
      <4>1. item = 0
        BY <1>1, <2>2, <3>2 DEF Snapshot
      <4>2. queue = <<>> /\ browser.heard = <<>>
        BY <1>0, <4>1 DEF Note
      <4> QED  BY <3>2, <4>2
    <3> QED  BY <1>0, <1>1, <3>1, <3>2
  <2> QED  BY <2>1, <2>2 DEF Fresh
<1>5. Ordered'
  <2>1. ASSUME NEW i \in DOMAIN queue'
        PROVE  queue'[i] \in {Note, Snapshot} \cup Due..(client'.next - 1)
    <3>1. CASE i \in 1..Len(queue)
      <4>1. queue[i] \in {Note, Snapshot} \cup Due..(client.next - 1)
        BY <1>0, <3>1 DEF Line, Ordered
      <4> QED  BY <1>0, <1>1, <1>2, <3>1, <4>1
    <3>2. CASE i = Len(queue) + 1
      BY <1>0, <1>1, <1>2, <3>2
    <3> QED  BY <1>0, <1>1, <3>1, <3>2
  <2>2. ASSUME NEW i \in DOMAIN queue', NEW j \in DOMAIN queue', i < j,
               queue'[i] > 0, queue'[j] > 0
        PROVE  queue'[i] < queue'[j]
    <3>1. i \in 1..Len(queue) /\ queue'[i] = queue[i]
      BY <1>0, <1>1, <2>2
    <3>2. CASE j \in 1..Len(queue)
      BY <1>0, <1>1, <2>2, <3>1, <3>2 DEF Line, Ordered
    <3>3. CASE j = Len(queue) + 1
      <4>1. item > 0
        BY <1>1, <2>2, <3>3
      <4>2. item = client.next
        BY <4>1 DEF Note, Snapshot
      <4>3. queue[i] \in {Note, Snapshot} \cup Due..(client.next - 1)
        BY <1>0, <3>1 DEF Line, Ordered
      <4>4. queue[i] > 0
        BY <2>2, <3>1
      <4> QED  BY <1>0, <1>1, <3>1, <3>3, <4>2, <4>3, <4>4 DEF Note, Snapshot
    <3> QED  BY <1>0, <1>1, <3>2, <3>3
  <2>3. Due' <= client'.next
    BY <1>0, <1>2
  <2> QED  BY <1>2, <2>1, <2>2, <2>3 DEF Ordered
<1>6. Whole'
  <2>1. ASSUME NEW n \in Due..(client'.next - 1) PROVE \E i \in DOMAIN queue' : queue'[i] = n
    <3>1. CASE n \in Due..(client.next - 1)
      <4>1. PICK i \in DOMAIN queue : queue[i] = n
        BY <3>1 DEF Line, Whole, Room
      <4> QED  BY <1>0, <1>1, <4>1
    <3>2. CASE n = client.next
      <4>1. item = n
        BY <1>0, <1>2, <2>1, <3>2 DEF Note, Snapshot
      <4> QED  BY <1>0, <1>1, <4>1
    <3> QED  BY <1>0, <1>2, <2>1, <3>1, <3>2
  <2> QED  BY <1>2, <2>1 DEF Whole
<1> QED  BY <1>3, <1>4, <1>5, <1>6 DEF Line

\* The first broadcast in the line is the one that is due.
LEMMA FirstIsDue ==
  ASSUME TInv, Line, writer, queue # <<>>, queue[1] > 0
  PROVE  queue[1] = Due /\ Due < client.next
<1>0. /\ Due \in Nat \ {0} /\ client.next \in Nat \ {0} /\ Len(queue) \in Nat
      /\ queue \in Seq(Int) /\ DOMAIN queue = 1..Len(queue)
      /\ \A i \in DOMAIN queue : queue[i] \in Int
  BY DueType
<1>1. 1 \in DOMAIN queue
  BY <1>0, TailFacts
<1>2. queue[1] \in Due..(client.next - 1)
  BY <1>0, <1>1 DEF Line, Ordered, Note, Snapshot
<1>3. Due \in Due..(client.next - 1)
  BY <1>0, <1>2
<1>4. PICK i \in DOMAIN queue : queue[i] = Due
  BY <1>3 DEF Line, Whole
<1>5. CASE i = 1
  BY <1>0, <1>2, <1>4, <1>5
<1>6. CASE 1 < i
  <2>1. queue[1] < queue[i]
    BY <1>0, <1>1, <1>4, <1>6 DEF Line, Ordered
  <2> QED  BY <1>0, <1>2, <1>4, <2>1
<1> QED  BY <1>0, <1>4, <1>5, <1>6

\* The writer takes an item out of the line, and the page hears it if it is a
\* broadcast.
LEMMA LinePop ==
  ASSUME TInv, Line, Write
  PROVE  Line'
<1>0. /\ Due \in Nat \ {0} /\ client.next \in Nat \ {0} /\ Len(queue) \in Nat
      /\ queue \in Seq(Int) /\ DOMAIN queue = 1..Len(queue)
      /\ (\A i \in DOMAIN queue : queue[i] \in Int)
      /\ browser.heard \in Seq(Nat) /\ browser.from \in Nat \ {0}
      /\ Len(browser.heard) \in Nat /\ DOMAIN browser.heard = 1..Len(browser.heard)
  BY DueType
<1>1. queue # <<>> /\ writer /\ queue' = Tail(queue) /\ browser' = onMessage(queue[1])
      /\ UNCHANGED <<client, writer>>
  BY <1>0, TailFacts DEF Write
<1>2. /\ Len(queue) \in Nat \ {0} /\ queue[1] \in Int
      /\ DOMAIN queue' = 1..(Len(queue) - 1)
      /\ \A i \in 1..(Len(queue) - 1) : queue'[i] = queue[i + 1]
  BY <1>0, <1>1, TailFacts
<1>3. client.state \notin Arriving
  BY <1>1 DEF Line, Fresh
<1>a. /\ 1 \in DOMAIN queue
      /\ \A i \in DOMAIN queue' :
           i \in Int /\ i + 1 \in DOMAIN queue /\ 1 < i + 1 /\ queue'[i] = queue[i + 1]
  BY <1>0, <1>2
<1>4. queue[1] \in {Note, Snapshot} \/ queue[1] > 0
  <2>1. queue[1] \in {Note, Snapshot} \cup Due..(client.next - 1)
    BY <1>a DEF Line, Ordered
  <2> QED  BY <1>0, <2>1
<1>5. browser \in Pages
  BY DEF TInv, PageType
\* Neither kind of item is followed by a snapshot.
<1>6. \A i \in DOMAIN queue' : queue'[i] # Snapshot
  <2>1. \A i \in DOMAIN queue : queue[i] = Snapshot => i = 1
    BY DEF Line, Fresh
  <2> QED  BY <1>a, <2>1
<1>7. \A i, j \in DOMAIN queue' :
        i < j /\ queue'[i] > 0 /\ queue'[j] > 0 => queue'[i] < queue'[j]
  <2>1. ASSUME NEW i \in DOMAIN queue', NEW j \in DOMAIN queue', i < j,
               queue'[i] > 0, queue'[j] > 0
        PROVE  queue'[i] < queue'[j]
    <3>1. i + 1 < j + 1
      BY <1>a, <2>1
    <3> QED  BY <1>a, <2>1, <3>1 DEF Line, Ordered
  <2> QED  BY <2>1
<1>8. CASE queue[1] \in {Note, Snapshot}
  <2>1. browser'.heard = browser.heard /\ browser'.from = browser.from
    BY <1>1, <1>5, <1>8 DEF onMessage, Pages, Note, Snapshot
  <2>2. Due' = Due
    BY <2>1 DEF Due
  <2>3. NoHoles' /\ Fresh'
    BY <1>1, <1>3, <1>6, <2>1 DEF Line, NoHoles, Fresh
  <2>4. Ordered'
    <3>1. \A i \in DOMAIN queue' :
            queue'[i] \in {Note, Snapshot} \cup Due..(client.next - 1)
      BY <1>a DEF Line, Ordered
    <3> QED  BY <1>1, <1>7, <2>2, <3>1 DEF Line, Ordered
  <2>5. Whole'
    <3>1. ASSUME NEW n \in Due..(client.next - 1)
          PROVE  \E i \in DOMAIN queue' : queue'[i] = n
      <4>1. PICK i \in DOMAIN queue : queue[i] = n
        BY <1>1, <3>1 DEF Line, Whole
      <4>2. i # 1
        BY <1>0, <1>8, <4>1 DEF Note, Snapshot
      <4>3. i - 1 \in 1..(Len(queue) - 1) /\ (i - 1) + 1 = i
        BY <1>0, <4>1, <4>2
      <4> QED  BY <1>2, <4>1, <4>3
    <3> QED  BY <1>1, <2>2, <3>1 DEF Whole
  <2> QED  BY <2>3, <2>4, <2>5 DEF Line
<1>9. CASE queue[1] > 0
  <2>1. queue[1] = Due /\ Due < client.next
    BY <1>1, <1>9, FirstIsDue
  <2>2. browser'.heard = Append(browser.heard, Due) /\ browser'.from = browser.from
    BY <1>0, <1>1, <1>5, <1>9, <2>1 DEF onMessage, Pages, Note, Snapshot
  <2>3. Len(browser'.heard) = Len(browser.heard) + 1
        /\ DOMAIN browser'.heard = 1..(Len(browser.heard) + 1)
        /\ (\A i \in 1..Len(browser.heard) : browser'.heard[i] = browser.heard[i])
        /\ browser'.heard[Len(browser.heard) + 1] = Due
    BY <1>0, <2>2, AppendFacts
  <2>4. Due' = Due + 1
    BY <1>0, <2>2, <2>3 DEF Due
  <2>5. NoHoles'
    <3>1. ASSUME NEW i \in 1..(Len(browser.heard) + 1)
          PROVE  browser'.heard[i] = browser.from + i - 1
      <4>1. CASE i \in 1..Len(browser.heard)
        BY <1>0, <2>3, <4>1 DEF Line, NoHoles
      <4>2. CASE i = Len(browser.heard) + 1
        BY <1>0, <2>3, <4>2 DEF Due
      <4> QED  BY <1>0, <4>1, <4>2
    <3> QED  BY <2>2, <2>3, <3>1 DEF NoHoles
  <2>6. Fresh'
    BY <1>1, <1>3, <1>6 DEF Fresh
  <2>7. Ordered'
    <3>1. ASSUME NEW i \in DOMAIN queue'
          PROVE  queue'[i] \in {Note, Snapshot} \cup (Due + 1)..(client.next - 1)
      <4>1. i + 1 \in DOMAIN queue /\ 1 \in DOMAIN queue /\ 1 < i + 1
            /\ queue'[i] = queue[i + 1]
        BY <1>0, <1>2
      <4>2. queue[i + 1] \in {Note, Snapshot} \cup Due..(client.next - 1)
        BY <4>1 DEF Line, Ordered
      <4>3. queue[i + 1] > 0 => queue[1] < queue[i + 1]
        BY <1>9, <4>1 DEF Line, Ordered
      <4> QED  BY <1>0, <2>1, <4>1, <4>2, <4>3
    <3> QED  BY <1>0, <1>1, <1>7, <2>1, <2>4, <3>1 DEF Ordered
  <2>8. Whole'
    <3>1. ASSUME NEW n \in (Due + 1)..(client.next - 1)
          PROVE  \E i \in DOMAIN queue' : queue'[i] = n
      <4>0. n \in Due..(client.next - 1) /\ n # Due
        BY <1>0
      <4>1. PICK i \in DOMAIN queue : queue[i] = n
        BY <1>1, <4>0 DEF Line, Whole
      <4>2. i # 1
        BY <2>1, <4>0, <4>1
      <4>3. i - 1 \in 1..(Len(queue) - 1) /\ (i - 1) + 1 = i
        BY <1>0, <4>1, <4>2
      <4> QED  BY <1>2, <4>1, <4>3
    <3> QED  BY <1>1, <2>4, <3>1 DEF Whole
  <2> QED  BY <2>5, <2>6, <2>7, <2>8 DEF Line
<1> QED  BY <1>4, <1>8, <1>9

\* The line is thrown away with the writer.
LEMMA LineCleared ==
  ASSUME TInv, Line, queue' = <<>>, writer' = FALSE, UNCHANGED browser,
         client'.next = client.next,
         client'.state \in Arriving => client.state \in Arriving
  PROVE  Line'
<1>1. DOMAIN queue' = {}
  BY EmptyFacts
<1>2. Due' = Due
  BY DEF Due
<1>3. NoHoles' /\ Fresh'
  BY <1>1 DEF Line, NoHoles, Fresh
<1>4. Ordered' /\ Whole'
  BY <1>1, <1>2 DEF Line, Ordered, Whole
<1> QED  BY <1>3, <1>4 DEF Line

\* A note is added to the line, or nothing is.
LEMMA LineNoted ==
  ASSUME TInv, Line, UNCHANGED <<writer, browser>>, client'.next = client.next,
         client'.state \in Arriving => client.state \in Arriving /\ UNCHANGED queue,
         try_send(Note) \/ UNCHANGED queue
  PROVE  Line'
<1>1. CASE UNCHANGED queue
  BY <1>1, LineKept
<1>2. CASE Room /\ queue' = Append(queue, Note) /\ client'.state \notin Arriving
  <2>1. Note \in Int
    BY DEF Note
  <2> QED  BY <1>2, <2>1, LinePush
<1> QED  BY <1>1, <1>2 DEF try_send

\* What the game task is still to take was sent on this connection or before
\* it; a connection that only arrives has sent nothing.
Lives ==
  \A i \in DOMAIN inbox :
    /\ inbox[i].life <= client.life
    /\ client.state \in Arriving => inbox[i].life # client.life

LEMMA LivesKept ==
  ASSUME Lives, UNCHANGED inbox, client'.life = client.life,
         client'.state \in Arriving => client.state \in Arriving
  PROVE  Lives'
BY DEF Lives

\* A step that moves the client task neither on to a new connection nor along
\* the line of broadcasts.
Steady ==
  /\ client'.next = client.next /\ client'.life = client.life
  /\ client'.state \in Arriving => client.state \in Arriving

LEMMA SteadySteps ==
  ASSUME TInv, ~Connect, ~Relay, Next
  PROVE  Steady
<1>0. client \in Clients
  BY DEF TInv, TaskType
<1>1. CASE UNCHANGED client
  BY <1>1 DEF Steady
<1>2. CASE snapshot_views \/ Open \/ Lagged \/ ShedNotice \/ ShedTimeout \/ Leave
  BY <1>0, <1>2 DEF snapshot_views, Open, Lagged, ShedNotice, ShedTimeout, Leave,
                    Clients, Steady, Arriving
<1>3. CASE AuthDelay \/ Ends
  BY <1>0, <1>3 DEF AuthDelay, Ends, Clients, Steady, Arriving
<1>4. ASSUME NEW ok \in BOOLEAN, handle_auth(ok) PROVE Steady
  BY <1>0, <1>4 DEF handle_auth, Clients, Steady, Arriving
<1> QED
  BY <1>1, <1>2, <1>3, <1>4 DEF Next, GameMoves, register_device, ingest_event,
     mark_disconnected, broadcast_msg, Drained, Abort, handle_command, on_action,
     send_game, Write, WriteFails, Stall

LEMMA LineNext ==
  ASSUME TInv, Line, Lives, Next
  PROVE  Line' /\ Lives'
<1>0. client \in Clients /\ Note \in Int /\ inbox \in Seq(Input)
      /\ Len(told) \in Nat /\ client.life \in Nat
  BY DEF TInv, SpeakType, TaskType, RestType, Clients, Note
<1>1. CASE Connect
  <2>1. /\ queue' = <<>> /\ DOMAIN queue' = {} /\ DOMAIN browser'.heard = {} /\ writer'
        /\ browser'.heard = <<>> /\ Len(browser'.heard) = 0
        /\ browser'.from = Len(told) + 1
        /\ client'.next = Len(told) + 1 /\ client'.life = client.life + 1
    BY <1>0, <1>1, EmptyFacts DEF Connect, TInv, PageType, Pages, Clients
  <2>2. Due' = client'.next
    BY <1>0, <2>1 DEF Due
  <2>3. Line'
    BY <1>0, <2>1, <2>2 DEF Line, NoHoles, Fresh, Ordered, Whole
  <2>4. Lives'
    <3>1. inbox' = inbox
      BY <1>1 DEF Connect
    <3>2. ASSUME NEW i \in DOMAIN inbox PROVE inbox[i].life \in Nat
      <4>1. inbox[i] \in Input
        BY <1>0
      <4> QED  BY <4>1 DEF Input
    <3> QED  BY <1>0, <2>1, <3>1, <3>2 DEF Lives
  <2> QED  BY <2>3, <2>4
<1>2. CASE Relay
  <2>1. /\ client'.life = client.life /\ client.state = "open"
        /\ client'.state \notin Arriving /\ UNCHANGED <<inbox, writer, browser>>
    BY <1>0, <1>2 DEF Relay, Clients, Arriving
  <2>2. CASE Room
    <3>1. client'.next = client.next + 1 /\ queue' = Append(queue, client.next)
          /\ client.next \in Int
      BY <1>0, <1>2, <2>2 DEF Relay, Clients, try_send
    <3> QED  BY <2>1, <2>2, <3>1, LinePush, LivesKept
  <2>3. CASE ~Room
    <3>1. client'.next = client.next /\ queue' = queue
      BY <1>0, <1>2, <2>3 DEF Relay, Clients, try_send
    <3> QED  BY <2>1, <3>1, LineKept, LivesKept
  <2> QED  BY <2>2, <2>3
<1>3. CASE Open
  <2>1. /\ client'.next = client.next /\ client'.life = client.life
        /\ client'.state \notin Arriving /\ UNCHANGED <<inbox, writer, browser>>
        /\ client.state \in Arriving
    BY <1>0, <1>3 DEF Open, Clients, Arriving
  <2>2. Lives'
    BY <2>1, LivesKept
  <2>3. CASE Room
    <3>1. queue' = Append(queue, Snapshot) /\ Snapshot \in Int
          /\ queue = <<>> /\ browser.heard = <<>>
      BY <1>3, <2>1, <2>3 DEF Open, try_send, Snapshot, Line, Fresh
    <3>2. UNCHANGED <<writer, browser>> /\ client'.state \notin Arriving
          /\ client'.next = client.next
      BY <2>1
    <3>3. Line'
      BY <2>3, <3>1, <3>2, LinePush
    <3> QED  BY <2>2, <3>3
  <2>4. CASE ~Room
    <3>1. UNCHANGED queue
      BY <1>3, <2>4 DEF Open, try_send
    <3> QED  BY <2>1, <2>2, <3>1, LineKept
  <2> QED  BY <2>3, <2>4
<1> USE DEF Steady
<1>4. CASE ~Connect /\ ~Relay /\ UNCHANGED <<queue, writer, browser, inbox>>
  BY <1>4, SteadySteps, LineKept, LivesKept
<1>5. CASE ~Connect /\ ~Relay /\ (Ends \/ WriteFails)
  <2>1. queue' = <<>> /\ writer' = FALSE /\ UNCHANGED <<browser, inbox>>
    BY <1>5 DEF Ends, WriteFails
  <2> QED  BY <1>5, <2>1, SteadySteps, LineCleared, LivesKept
<1>6. CASE ~Connect /\ ~Relay
            /\ (\/ Lagged \/ ShedNotice \/ AuthDelay \/ handle_command
               \/ \E ok \in BOOLEAN : handle_auth(ok))
  <2>1. UNCHANGED <<writer, browser, inbox>> /\ (try_send(Note) \/ UNCHANGED queue)
    BY <1>6 DEF Lagged, ShedNotice, AuthDelay, handle_command, handle_auth
  <2>2. client.state \notin Arriving
    BY <1>6 DEF Lagged, ShedNotice, AuthDelay, handle_command, handle_auth, Arriving
  <2> QED  BY <1>6, <2>1, <2>2, SteadySteps, LineNoted, LivesKept
<1>7. CASE ~Connect /\ ~Relay /\ Write
  <2>1. UNCHANGED <<client, inbox>>
    BY <1>7 DEF Write
  <2> QED  BY <1>7, <2>1, LinePop, LivesKept
<1>8. CASE ~Connect /\ ~Relay
            /\ \E a \in PlayerActions \cup OperatorActions : send_game(a)
  <2>1. PICK a \in PlayerActions \cup OperatorActions : send_game(a)
    BY <1>8
  <2> DEFINE x == [action |-> a, is_admin |-> client.is_admin, proven |-> proven,
                   life |-> client.life]
  <2>2. inbox' = Append(inbox, x) /\ UNCHANGED <<client, queue, writer, browser>>
        /\ client.state = "open"
    BY <2>1 DEF send_game, socketVars
  <2>3. x \in Input /\ x.life = client.life
    BY <1>0 DEF Clients, Input, TInv, RestType
  <2> HIDE DEF x
  <2>4. DOMAIN inbox' = 1..(Len(inbox) + 1) /\ DOMAIN inbox = 1..Len(inbox)
        /\ Len(inbox) \in Nat
        /\ (\A i \in 1..Len(inbox) : inbox'[i] = inbox[i])
        /\ inbox'[Len(inbox) + 1] = x
    BY <1>0, <2>2, <2>3, AppendFacts
  <2>5. Lives'
    BY <1>0, <2>2, <2>3, <2>4 DEF Lives, Arriving
  <2> QED  BY <2>2, <2>5, LineKept
<1>9. CASE ~Connect /\ ~Relay /\ on_action
  <2>1. inbox # <<>> /\ inbox' = Tail(inbox) /\ UNCHANGED <<client, writer, browser>>
    BY <1>9 DEF on_action
  <2>2. /\ DOMAIN inbox = 1..Len(inbox) /\ DOMAIN inbox' = 1..(Len(inbox) - 1)
        /\ Head(inbox) = inbox[1] /\ Len(inbox) \in Nat \ {0}
        /\ \A i \in 1..(Len(inbox) - 1) : inbox'[i] = inbox[i + 1]
    BY <1>0, <2>1, TailFacts
  <2>3. Lives'
    BY <2>1, <2>2 DEF Lives
  <2>4. client.state \in Arriving => Head(inbox).life # client.life
    BY <2>2 DEF Lives
  <2>5. client.state \in Arriving => UNCHANGED queue
    BY <1>9, <2>4 DEF on_action
  <2>6. try_send(Note) \/ UNCHANGED queue
    BY <1>9 DEF on_action
  <2> QED  BY <2>1, <2>3, <2>5, <2>6, LineNoted
<1> QED
  BY <1>1, <1>2, <1>3, <1>4, <1>5, <1>6, <1>7, <1>8, <1>9
  DEF Next, GameMoves, register_device, ingest_event, mark_disconnected,
      broadcast_msg, snapshot_views, ShedTimeout, Leave, Drained, Abort, Stall,
      socketVars

-----------------------------------------------------------------------------
(* Types, once the line is known *)

LEMMA TypeWrite == ASSUME TInv, Line, Write PROVE TInv'
<1>0. SpeakType /\ TaskType /\ RestType /\ PageType
  BY DEF TInv
<1>1. /\ queue # <<>> /\ queue \in Seq(Int) /\ client \in Clients
      /\ Len(told) \in Nat /\ client.next \in Nat /\ Due \in Nat \ {0}
      /\ Len(queue) \in Nat /\ QueueCap \in Nat
  BY <1>0, DueType, ClientAssumption DEF Write, TaskType, SpeakType
<1>2. queue' \in Seq(Int) /\ Len(queue') = Len(queue) - 1 /\ Head(queue) \in Int
      /\ Head(queue) = queue[1] /\ 1 \in DOMAIN queue
  BY <1>1, TailFacts DEF Write
<1>3. Head(queue) \in {Note, Snapshot} \cup 1..Len(told)
  <2>1. queue[1] \in {Note, Snapshot} \cup Due..(client.next - 1)
    BY <1>2 DEF Line, Ordered
  <2>2. client.next <= Len(told) + 1
    BY <1>0 DEF TaskType
  <2> QED  BY <1>1, <1>2, <2>1, <2>2
<1>4. PageType'
  BY <1>0, <1>1, <1>2, <1>3, MessageType DEF Write, PageType
<1>5. Len(queue') <= QueueCap
  BY <1>0, <1>1, <1>2 DEF TaskType
<1>6. TaskType'
  BY <1>0, <1>2, <1>5 DEF Write, serverVars, TaskType, Attempts
<1>7. SpeakType' /\ RestType'
  BY <1>0, SpeakKept, RestKept DEF Write, serverVars
<1> QED  BY <1>4, <1>6, <1>7 DEF TInv

LEMMA TypeSocket == ASSUME TInv, WriteFails \/ Stall PROVE TInv'
<1>0. SpeakType /\ TaskType /\ RestType /\ PageType
  BY DEF TInv
<1>1. CASE WriteFails
  <2>1. queue' \in Seq(Int) /\ Len(queue') = 0 /\ QueueCap \in Nat
    BY <1>1, EmptyFacts, ClientAssumption DEF WriteFails
  <2>a. writer' = FALSE /\ client' = client /\ told' = told
    BY <1>1 DEF WriteFails, serverVars
  <2>b. writer' \in BOOLEAN
    BY <2>a
  <2>c. Len(queue') <= QueueCap
    BY <2>1
  <2>2. TaskType'
    BY <1>0, <2>1, <2>a, <2>b, <2>c DEF TaskType, Attempts
  <2>3. SpeakType' /\ RestType' /\ PageType'
    BY <1>0, <1>1, SpeakKept, RestKept DEF WriteFails, serverVars, PageType
  <2> QED  BY <2>2, <2>3 DEF TInv
<1>2. CASE Stall
  <2>1. SpeakType' /\ TaskType' /\ PageType'
    BY <1>0, <1>2, SpeakKept, TaskKept DEF Stall, serverVars, socketVars, PageType
  <2>2. stalled' \in BOOLEAN
    BY <1>0, <1>2 DEF Stall, RestType
  <2>3. RestType'
    BY <1>0, <1>2, <2>2 DEF Stall, serverVars, history, RestType, Spend
  <2> QED  BY <2>1, <2>3 DEF TInv
<1> QED  BY <1>1, <1>2

LEMMA TypeNext == ASSUME TInv, Line, Next PROVE TInv'
BY TypeSpeak, TypeTask, TypeComesAndGoes, TypeAsks, TypeRelay, TypeActs,
   TypeWrite, TypeSocket DEF Next

LEMMA StutterKeeps ==
  ASSUME TInv, Line, Lives, UNCHANGED vars
  PROVE  TInv' /\ Line' /\ Lives'
<1>1. UNCHANGED <<server, session, links, telling, told, open_controls, inbox, client,
                  queue, writer, stalled, browser, proven, done, crossed, spent>>
  BY DEF vars
<1>2. TInv'
  <2>1. SpeakType' /\ TaskType' /\ RestType' /\ PageType'
    BY <1>1, SpeakKept, TaskKept, RestKept DEF TInv, history, PageType
  <2> QED  BY <2>1 DEF TInv
<1>3. Line' /\ Lives'
  BY <1>1, LineKept, LivesKept
<1> QED  BY <1>2, <1>3

LEMMA LineInit == Init => Line /\ Lives
<1> SUFFICES ASSUME Init PROVE Line /\ Lives
  OBVIOUS
<1>1. /\ DOMAIN queue = {} /\ DOMAIN inbox = {} /\ DOMAIN browser.heard = {}
      /\ queue = <<>> /\ browser.heard = <<>> /\ Len(browser.heard) = 0
      /\ browser.from = 1 /\ client.next = 1 /\ client.state = "off" /\ writer = FALSE
  BY EmptyFacts DEF Init
<1>2. Due = 1
  BY <1>1 DEF Due
<1> QED  BY <1>1, <1>2 DEF Line, Lives, NoHoles, Fresh, Ordered, Whole, Arriving

\* The client's state has its type in every reachable state: its queue never
\* exceeds its capacity, it never counts more wrong passwords than the limit,
\* and it never waits for a broadcast that the log could not hold.
THEOREM ClientTypeCorrect == Spec => []TypeOK
<1>1. Init => TInv /\ Line /\ Lives
  BY TypeInit, LineInit
<1>2. TInv /\ Line /\ Lives /\ [Next]_vars => TInv' /\ Line' /\ Lives'
  BY TypeNext, LineNext, StutterKeeps
<1>3. TInv /\ Line /\ Lives => TypeOK
  BY TypesAreOK
<1> QED  BY <1>1, <1>2, <1>3, PTL DEF Spec

\* Whatever the queue, the ring and the sleeps do, and however many lives the
\* client has: the page hears the broadcasts since its subscription one after
\* the other.
THEOREM HearsWithoutHoles == Spec => []NoHoles
<1>1. Init => TInv /\ Line /\ Lives
  BY TypeInit, LineInit
<1>2. TInv /\ Line /\ Lives /\ [Next]_vars => TInv' /\ Line' /\ Lives'
  BY TypeNext, LineNext, StutterKeeps
<1>3. TInv /\ Line /\ Lives => NoHoles
  BY DEF Line
<1> QED  BY <1>1, <1>2, <1>3, PTL DEF Spec

-----------------------------------------------------------------------------
(* Authority *)

\* The right to command is only held, or carried by an input under way, with
\* the password given on that very connection.
Rights ==
  /\ client.is_admin => proven
  /\ \A i \in DOMAIN inbox : inbox[i].is_admin => inbox[i].proven
  /\ OnlyAuthorised

LEMMA RightsKept ==
  ASSUME Rights, UNCHANGED <<inbox, proven, done>>, client'.is_admin = client.is_admin
  PROVE  Rights'
BY DEF Rights, OnlyAuthorised

LEMMA RightsNext ==
  ASSUME TInv, Rights, Next
  PROVE  Rights'
<1>0. client \in Clients /\ inbox \in Seq(Input)
  BY DEF TInv, TaskType, RestType
<1>1. CASE Connect
  BY <1>0, <1>1 DEF Connect, Clients, Rights, OnlyAuthorised
<1>2. ASSUME NEW ok \in BOOLEAN, handle_auth(ok) PROVE Rights'
  <2>1. CASE ok
    BY <1>2, <2>1 DEF handle_auth, Rights, OnlyAuthorised
  <2>2. CASE ~ok
    <3>1. client'.is_admin = client.is_admin
      BY <1>0, <1>2, <2>2 DEF handle_auth, Clients
    <3> QED  BY <1>2, <2>2, <3>1, RightsKept DEF handle_auth
  <2> QED  BY <2>1, <2>2
<1>3. CASE handle_command
  <2>1. \A d \in done' : d \in done \/ d.proven
    BY <1>3 DEF handle_command, deed, Rights
  <2> QED  BY <1>3, <2>1 DEF handle_command, Rights, OnlyAuthorised
<1>4. ASSUME NEW a \in PlayerActions \cup OperatorActions, send_game(a) PROVE Rights'
  <2> DEFINE x == [action |-> a, is_admin |-> client.is_admin, proven |-> proven,
                   life |-> client.life]
  <2>1. inbox' = Append(inbox, x) /\ UNCHANGED <<client, proven, done>>
    BY <1>4 DEF send_game, history
  <2>2. x \in Input /\ (x.is_admin => x.proven)
    BY <1>0 DEF Clients, Input, TInv, RestType, Rights
  <2> HIDE DEF x
  <2>3. DOMAIN inbox' = 1..(Len(inbox) + 1) /\ DOMAIN inbox = 1..Len(inbox)
        /\ Len(inbox) \in Nat
        /\ (\A i \in 1..Len(inbox) : inbox'[i] = inbox[i])
        /\ inbox'[Len(inbox) + 1] = x
    BY <1>0, <2>1, <2>2, AppendFacts
  <2> QED  BY <2>1, <2>2, <2>3 DEF Rights, OnlyAuthorised
<1>5. CASE on_action
  <2>1. inbox # <<>> /\ inbox' = Tail(inbox) /\ UNCHANGED <<client, proven>>
    BY <1>5 DEF on_action
  <2>2. /\ DOMAIN inbox = 1..Len(inbox) /\ DOMAIN inbox' = 1..(Len(inbox) - 1)
        /\ Head(inbox) = inbox[1] /\ Len(inbox) \in Nat \ {0}
        /\ \A i \in 1..(Len(inbox) - 1) : inbox'[i] = inbox[i + 1]
    BY <1>0, <2>1, TailFacts
  <2>3. \A i \in DOMAIN inbox' : inbox'[i].is_admin => inbox'[i].proven
    BY <2>2 DEF Rights
  <2>4. Head(inbox).is_admin => Head(inbox).proven
    BY <2>2 DEF Rights
  <2>5. \A d \in done' :
          d \in done \/ d.proven \/ (d.open /\ d.action \in PlayerActions)
    BY <1>5, <2>4 DEF on_action, deed
  <2> QED  BY <2>1, <2>3, <2>5 DEF Rights, OnlyAuthorised
<1>6. CASE \/ snapshot_views \/ Open \/ Relay \/ Lagged \/ ShedNotice \/ ShedTimeout
           \/ Leave \/ Drained \/ Abort \/ AuthDelay
  <2>1. UNCHANGED <<inbox, proven, done>>
    BY <1>6 DEF snapshot_views, Open, Relay, Lagged, ShedNotice, ShedTimeout, Leave,
       Drained, Abort, Ends, AuthDelay, history
  <2>2. client'.is_admin = client.is_admin
    BY <1>0, <1>6 DEF snapshot_views, Open, Relay, Lagged, ShedNotice, ShedTimeout,
       Leave, Drained, Abort, Ends, AuthDelay, Clients
  <2> QED  BY <2>1, <2>2, RightsKept
<1>7. CASE UNCHANGED <<inbox, proven, done, client>>
  BY <1>7, RightsKept
<1> QED
  BY <1>1, <1>2, <1>3, <1>4, <1>5, <1>6, <1>7
  DEF Next, GameMoves, register_device, ingest_event, mark_disconnected,
      broadcast_msg, Write, WriteFails, Stall, history

\* Nothing is done for a client that has not given the password on that very
\* connection, but a player's action while the controls are open: for inputs
\* that wait in the game task's queue across any number of connections.
THEOREM NothingUnauthorised == Spec => []OnlyAuthorised
<1>1. Init => TInv /\ Line /\ Lives /\ Rights
  <2>1. Init => DOMAIN inbox = {} /\ client.is_admin = FALSE /\ done = {}
    BY EmptyFacts DEF Init
  <2> QED  BY <2>1, TypeInit, LineInit DEF Rights, OnlyAuthorised
<1>2. TInv /\ Line /\ Lives /\ Rights /\ [Next]_vars
        => TInv' /\ Line' /\ Lives' /\ Rights'
  <2>1. TInv /\ Rights /\ UNCHANGED vars => Rights'
    BY RightsKept DEF vars
  <2> QED  BY <2>1, TypeNext, LineNext, StutterKeeps, RightsNext
<1>3. Rights => OnlyAuthorised
  BY DEF Rights
<1> QED  BY <1>1, <1>2, <1>3, PTL DEF Spec

-----------------------------------------------------------------------------
(* What the page shows *)

\* Some teller has yet to broadcast a change of f.
Held(f, said) == \E t \in Tellers : \E m \in said[t] : m[1] = f

\* The broadcasts of f from a certain one on, and the last of them.
Spoken(f, log, from) == \E k \in from..Len(log) : log[k][1] = f
LastIs(f, log, k)    == log[k][1] = f /\ \A j \in (k + 1)..Len(log) : log[j][1] # f

\* What a teller has yet to broadcast is what the server holds, if the teller is
\* the game task or the connection that owns the board's entry; the squares of
\* the connection before it are still the newest ones until the new one speaks.
Owner ==
  /\ \A m \in telling[Game] : m = <<"game", server["game"]>>
  /\ \A t \in Sessions : \A m \in telling[t] :
       /\ m[1] # "game"
       /\ t = session => m[2] = server[m[1]]
       /\ t = session - 1 /\ telling[session] = {<<"online", 1>>} /\ m[1] = "board"
            => m[2] = server["board"]
  /\ \A t \in Sessions : links[t] = "new" => telling[t] = Quiet
  /\ \A t \in Sessions : t > session => links[t] = "new"

Latest == \A f \in Fields : Spoken(f, told, browser.from)
                      => \E k \in browser.from..Len(told) : LastIs(f, told, k)

\* The last broadcast of a field is what the server holds, once nobody has a
\* change of it to tell.
Log ==
  ~crossed => \A f \in Fields : ~Held(f, telling) =>
    \A k \in browser.from..Len(told) : LastIs(f, told, k) => told[k][2] = server[f]

HasRead(f, state) ==
  state \notin {"off", "subscribed"} /\ (f = "game" => state # "reading")

\* The init frame shows what the server holds of a field that nobody has told
\* of since the client subscribed.
First ==
  ~crossed => \A f \in Fields :
    ~Held(f, telling) /\ ~Spoken(f, told, browser.from) /\ HasRead(f, client.state)
      => client.init[f] = server[f]

Before == Arriving \cup {"off"}

\* The page shows the last broadcast it has heard of a field, or else what the
\* init frame said of it.
Page ==
  writer /\ client.state \notin Before /\ (\A i \in DOMAIN queue : queue[i] # Snapshot)
    => \A f \in Fields :
         /\ (\A k \in browser.from..(Due - 1) : told[k][1] # f)
              => browser.view[f] = client.init[f]
         /\ \A k \in browser.from..(Due - 1) :
              told[k][1] = f /\ (\A j \in (k + 1)..(Due - 1) : told[j][1] # f)
                => browser.view[f] = told[k][2]

Shown == Latest /\ Log /\ First /\ Page

LEMMA PageShowsServer == TInv /\ Line /\ Shown => SeesTheServer
<1> SUFFICES ASSUME TInv, Line, Shown, client.state = "open", writer, queue = <<>>,
                    Behind = 0, \A t \in Tellers : telling[t] = Quiet, ~crossed
             PROVE  browser.view = server
  BY DEF SeesTheServer
<1>0. DOMAIN queue = {} /\ Due \in Nat \ {0} /\ client.next \in Nat \ {0}
      /\ Len(told) \in Nat /\ browser.view \in View /\ server \in View
  BY EmptyFacts, DueType DEF TInv, SpeakType, PageType, Pages
<1>1. client.next = Len(told) + 1
  BY <1>0 DEF Behind
<1>2. Due = client.next
  <2>1. Due <= client.next
    BY DEF Line, Ordered
  <2>2. ~(\E n \in Due..(client.next - 1) : TRUE)
    BY <1>0 DEF Line, Whole
  <2>3. Due < client.next => Due \in Due..(client.next - 1)
    BY <1>0
  <2> QED  BY <1>0, <2>1, <2>2, <2>3
<1>3. Due - 1 = Len(told)
  BY <1>0, <1>1, <1>2
<1>4. ASSUME NEW f \in Fields PROVE browser.view[f] = server[f]
  <2>1. ~Held(f, telling) /\ HasRead(f, client.state) /\ client.state \notin Before
    BY DEF Held, Quiet, HasRead, Before, Arriving
  <2>2. CASE Spoken(f, told, browser.from)
    <3>1. PICK k \in browser.from..Len(told) : LastIs(f, told, k)
      BY <2>2 DEF Shown, Latest
    <3>2. told[k][2] = server[f]
      BY <2>1, <3>1 DEF Shown, Log
    <3>3. browser.view[f] = told[k][2]
      BY <1>0, <1>3, <2>1, <3>1 DEF Shown, Page, LastIs
    <3> QED  BY <3>2, <3>3
  <2>3. CASE ~Spoken(f, told, browser.from)
    <3>1. client.init[f] = server[f]
      BY <2>1, <2>3 DEF Shown, First
    <3>2. browser.view[f] = client.init[f]
      BY <1>0, <1>3, <2>1, <2>3 DEF Shown, Page, Spoken
    <3> QED  BY <3>1, <3>2
  <2> QED  BY <2>2, <2>3
<1> QED  BY <1>0, <1>4 DEF View

LEMMA ShownInit == Init => Owner /\ Shown
<1> SUFFICES ASSUME Init PROVE Owner /\ Shown
  OBVIOUS
<1>1. /\ \A t \in Tellers : telling[t] = {}
      /\ \A t \in Sessions : links[t] = "new"
      /\ Len(told) = 0 /\ browser.from = 1 /\ client.state = "off"
  BY EmptyFacts DEF Init, Quiet
<1>2. Game \in Tellers /\ Sessions \subseteq Tellers
  BY DEF Tellers
<1>3. Owner
  BY <1>1, <1>2 DEF Owner, Quiet
<1>4. browser.from..Len(told) = {}
  BY <1>1
<1>5. Latest /\ Log /\ First
  BY <1>1, <1>4 DEF Latest, Log, First, Spoken, HasRead
<1>6. Page
  BY <1>1 DEF Page, Before
<1> QED  BY <1>3, <1>5, <1>6 DEF Shown

\* A change is stored by a teller that had nothing to tell.
LEMMA ShownStore ==
  ASSUME TInv, Shown, NEW t \in Tellers, telling[t] = Quiet, NEW what \in Fields,
         NEW value \in Nat, store(t, what, value),
         UNCHANGED <<told, crossed, browser, client, queue, writer>>
  PROVE  Shown'
<1>1. telling \in [Tellers -> SUBSET Message] /\ server \in View
  BY DEF TInv, SpeakType
<1>2. telling'[t] = {<<what, value>>}
      /\ \A u \in Tellers : u # t => telling'[u] = telling[u]
  BY <1>1 DEF store
<1>3. \A f \in Fields : f # what => server'[f] = server[f]
  BY <1>1 DEF store, View
<1>4. Held(what, telling')
  <2>1. <<what, value>> \in telling'[t] /\ <<what, value>>[1] = what
    BY <1>2
  <2> QED  BY <2>1 DEF Held
<1>5. \A f \in Fields : Held(f, telling) => Held(f, telling')
  BY <1>2 DEF Held, Quiet
<1>7. Latest'
  BY DEF Shown, Latest
<1>8. Log'
  BY <1>3, <1>4, <1>5 DEF Shown, Log
<1>9. First'
  BY <1>3, <1>4, <1>5 DEF Shown, First
<1>10. Page'
  BY DEF Shown, Page, Due
<1> QED  BY <1>7, <1>8, <1>9, <1>10 DEF Shown

\* The tellers keep to their own fields.
LEMMA OwnerNext ==
  ASSUME TInv, Owner, Next
  PROVE  Owner'
<1>0. /\ telling \in [Tellers -> SUBSET Message] /\ server \in View
      /\ links \in [Sessions -> {"new", "live", "ended"}] /\ session \in 0..Boards
      /\ Game \in Tellers /\ Sessions \subseteq Tellers /\ Game \notin Sessions
      /\ {"game", "board", "online"} = Fields
  BY DEF TInv, SpeakType, Tellers, Game, Sessions, Fields
<1>1. ASSUME publish, UNCHANGED <<session, links>> PROVE Owner'
  <2>1. /\ telling'[Game] = {<<"game", server["game"] + 1>>}
        /\ server'["game"] = server["game"] + 1
        /\ server'["board"] = server["board"] /\ server'["online"] = server["online"]
        /\ \A t \in Sessions : telling'[t] = telling[t]
    BY <1>0, <1>1 DEF publish, store, View
  <2>2. \A m \in telling'[Game] : m = <<"game", server'["game"]>>
    BY <2>1
  <2>3. ASSUME NEW t \in Sessions, NEW m \in telling'[t]
        PROVE  /\ m[1] # "game"
               /\ t = session => m[2] = server'[m[1]]
               /\ t = session - 1 /\ telling'[session] = {<<"online", 1>>}
                    /\ m[1] = "board" => m[2] = server'["board"]
    <3>1. m \in telling[t] /\ m[1] \in Fields /\ m[1] # "game"
      BY <1>0, <2>1, <2>3 DEF Owner, Message
    <3>2. server'[m[1]] = server[m[1]]
      BY <1>0, <2>1, <3>1
    <3>3. t = session - 1 => session \in Sessions
      BY <1>0, <2>3 DEF Sessions
    <3> QED  BY <2>1, <3>1, <3>2, <3>3 DEF Owner
  <2> QED  BY <1>1, <2>1, <2>2, <2>3 DEF Owner
<1>2. ASSUME NEW s \in Sessions, register_device(s) PROVE Owner'
  <2>1. /\ telling[s] = {} /\ telling'[s] = {<<"online", 1>>}
        /\ server'["online"] = 1
        /\ server'["game"] = server["game"] /\ server'["board"] = server["board"]
        /\ \A t \in Tellers : t # s => telling'[t] = telling[t]
        /\ session' = s /\ s = session + 1 /\ s # Game
    BY <1>0, <1>2 DEF register_device, store, View, Owner, Quiet
  <2>2. /\ links'[s] = "live" /\ \A t \in Sessions : t # s => links'[t] = links[t]
    BY <1>0, <1>2 DEF register_device
  <2>3. \A m \in telling'[Game] : m = <<"game", server'["game"]>>
    BY <1>0, <2>1 DEF Owner
  <2>4. ASSUME NEW t \in Sessions, NEW m \in telling'[t]
        PROVE  /\ m[1] # "game"
               /\ t = session' => m[2] = server'[m[1]]
               /\ t = session' - 1 /\ telling'[session'] = {<<"online", 1>>}
                    /\ m[1] = "board" => m[2] = server'["board"]
    <3>1. CASE t = s
      <4>1. m = <<"online", 1>>
        BY <2>1, <2>4, <3>1
      <4> QED  BY <2>1, <3>1, <4>1
    <3>2. CASE t # s
      <4>1. m \in telling[t]
        BY <1>0, <2>1, <2>4, <3>2
      <4>2. m[1] # "game" /\ (t = session /\ m[1] = "board" => m[2] = server["board"])
        BY <4>1 DEF Owner
      <4>3. t = session' - 1 => t = session
        BY <1>0, <2>1
      <4> QED  BY <2>1, <3>2, <4>2, <4>3
    <3> QED  BY <3>1, <3>2
  <2>5. \A t \in Sessions : links'[t] = "new" => telling'[t] = Quiet
    BY <1>0, <2>1, <2>2 DEF Owner
  <2>6. \A t \in Sessions : t > session' => links'[t] = "new"
    <3>1. ASSUME NEW t \in Sessions, t > session' PROVE t > session /\ t # s
      BY <1>0, <2>1, <3>1 DEF Sessions
    <3> QED  BY <2>2, <3>1 DEF Owner
  <2> QED  BY <2>3, <2>4, <2>5, <2>6 DEF Owner
<1>3. ASSUME NEW s \in Sessions, ingest_event(s) PROVE Owner'
  <2>1. /\ telling'[s] = {<<"board", server'["board"]>>} /\ s # Game
        /\ server'["game"] = server["game"]
        /\ \A t \in Tellers : t # s => telling'[t] = telling[t]
        /\ session' = session /\ s = session /\ links' = links /\ links[s] = "live"
    BY <1>0, <1>3 DEF ingest_event, store, View
  <2>2. \A m \in telling'[Game] : m = <<"game", server'["game"]>>
    BY <1>0, <2>1 DEF Owner
  <2>3. ASSUME NEW t \in Sessions, NEW m \in telling'[t]
        PROVE  /\ m[1] # "game"
               /\ t = session => m[2] = server'[m[1]]
               /\ telling'[session] # {<<"online", 1>>}
    <3>1. telling'[session] # {<<"online", 1>>}
      <4>1. <<"board", server'["board"]>> \in telling'[session]
            /\ <<"board", server'["board"]>>[1] = "board" /\ <<"online", 1>>[1] = "online"
        BY <2>1
      <4>2. ASSUME telling'[session] = {<<"online", 1>>} PROVE FALSE
        <5>1. <<"board", server'["board"]>> = <<"online", 1>>
          BY <4>1, <4>2
        <5> QED  BY <4>1, <5>1
      <4> QED  BY <4>2
    <3>2. CASE t = s
      <4>1. m = <<"board", server'["board"]>>
        BY <2>1, <2>3, <3>2
      <4> QED  BY <2>1, <3>1, <3>2, <4>1
    <3>3. CASE t # s
      BY <1>0, <2>1, <2>3, <3>1, <3>3 DEF Owner
    <3> QED  BY <3>2, <3>3
  <2>4. \A t \in Sessions : links'[t] = "new" => telling'[t] = Quiet
    BY <1>0, <2>1 DEF Owner
  <2>5. \A t \in Sessions : t > session' => links'[t] = "new"
    BY <2>1 DEF Owner
  <2> QED  BY <2>1, <2>2, <2>3, <2>4, <2>5 DEF Owner
<1>4. ASSUME NEW s \in Sessions, mark_disconnected(s) PROVE Owner'
  <2>1. /\ links'[s] = "ended" /\ \A t \in Sessions : t # s => links'[t] = links[t]
        /\ links[s] = "live" /\ session' = session /\ s # Game
    BY <1>0, <1>4 DEF mark_disconnected
  <2>2. \A t \in Sessions : t > session' => links'[t] = "new"
    <3>1. ASSUME NEW t \in Sessions, t > session PROVE links[t] = "new" /\ t # s
      BY <2>1, <3>1 DEF Owner
    <3> QED  BY <2>1, <3>1
  <2>3. CASE session = s
    <3>1. /\ telling'[s] = {<<"online", 0>>} /\ server'["online"] = 0
          /\ server'["game"] = server["game"] /\ server'["board"] = server["board"]
          /\ \A t \in Tellers : t # s => telling'[t] = telling[t]
      BY <1>0, <1>4, <2>3 DEF mark_disconnected, store, View
    <3>2. \A m \in telling'[Game] : m = <<"game", server'["game"]>>
      BY <1>0, <2>1, <3>1 DEF Owner
    <3>3. telling'[session] # {<<"online", 1>>}
      <4>1. <<"online", 0>>[2] # <<"online", 1>>[2]
        OBVIOUS
      <4>2. <<"online", 0>> # <<"online", 1>>
        BY <4>1
      <4> QED  BY <2>3, <3>1, <4>2
    <3>4. ASSUME NEW t \in Sessions, NEW m \in telling'[t]
          PROVE  m[1] # "game" /\ (t = session => m[2] = server'[m[1]])
      <4>1. CASE t = s
        <5>1. m = <<"online", 0>>
          BY <3>1, <3>4, <4>1
        <5> QED  BY <3>1, <5>1
      <4>2. CASE t # s
        BY <1>0, <2>3, <3>1, <3>4, <4>2 DEF Owner
      <4> QED  BY <4>1, <4>2
    <3>5. \A t \in Sessions : links'[t] = "new" => telling'[t] = Quiet
      BY <1>0, <2>1, <3>1 DEF Owner
    <3> QED  BY <2>1, <2>2, <3>2, <3>3, <3>4, <3>5 DEF Owner
  <2>4. CASE session # s
    <3>1. UNCHANGED <<server, telling>>
      BY <1>4, <2>4 DEF mark_disconnected
    <3>2. \A t \in Sessions : links'[t] = "new" => telling'[t] = Quiet
      BY <2>1, <3>1 DEF Owner
    <3> QED  BY <2>1, <2>2, <3>1, <3>2 DEF Owner
  <2> QED  BY <2>3, <2>4
<1>5. ASSUME NEW s \in Tellers, broadcast_msg(s) PROVE Owner'
  <2>1. /\ telling'[s] = {} /\ \A t \in Tellers : t # s => telling'[t] = telling[t]
        /\ UNCHANGED <<server, session, links>>
    BY <1>0, <1>5 DEF broadcast_msg, Quiet
  <2>2. \A m \in telling'[Game] : m = <<"game", server'["game"]>>
    BY <1>0, <2>1 DEF Owner
  <2>3. ASSUME NEW t \in Sessions, NEW m \in telling'[t]
        PROVE  /\ m[1] # "game"
               /\ t = session => m[2] = server[m[1]]
               /\ t = session - 1 /\ telling'[session] = {<<"online", 1>>}
                    /\ m[1] = "board" => m[2] = server["board"]
    <3>1. m \in telling[t]
      BY <1>0, <2>1, <2>3
    <3>2. t = session - 1 => session \in Tellers
      BY <1>0 DEF Sessions
    <3>3. t = session - 1 /\ telling'[session] = {<<"online", 1>>}
            => telling[session] = {<<"online", 1>>}
      BY <2>1, <3>2
    <3> QED  BY <3>1, <3>3 DEF Owner
  <2>4. \A t \in Sessions : links'[t] = "new" => telling'[t] = Quiet
    BY <1>0, <2>1 DEF Owner, Quiet
  <2> QED  BY <2>1, <2>2, <2>3, <2>4 DEF Owner
<1>6. CASE UNCHANGED <<server, session, links, telling>>
  BY <1>6 DEF Owner
<1> QED
  BY <1>1, <1>2, <1>3, <1>4, <1>5, <1>6
  DEF Next, GameMoves, on_action, Connect, snapshot_views, Open, Relay, Lagged,
      ShedNotice, ShedTimeout, Leave, Drained, Abort, Ends, handle_auth, AuthDelay,
      handle_command, send_game, Write, WriteFails, Stall, serverVars

\* A teller says what it stored.
LEMMA ShownBroadcast ==
  ASSUME TInv, Line, Owner, Shown, NEW s \in Tellers, broadcast_msg(s)
  PROVE  Shown'
<1>0. /\ telling \in [Tellers -> SUBSET Message] /\ server \in View
      /\ session \in 0..Boards /\ told \in Seq(Message) /\ Len(told) \in Nat
      /\ Due \in Nat \ {0} /\ client.next \in Nat \ {0} /\ browser.from \in Nat \ {0}
      /\ Due <= client.next /\ client.next <= Len(told) + 1 /\ browser.from <= Due
      /\ \A t \in Tellers : \A m, n \in telling[t] : m = n
  <2>1. Due \in Nat \ {0} /\ client.next \in Nat \ {0} /\ browser.from \in Nat \ {0}
        /\ Len(browser.heard) \in Nat
    BY DueType
  <2> QED  BY <2>1 DEF TInv, SpeakType, TaskType, Line, Ordered, Due
<1>1. PICK m \in telling[s] : told' = Append(told, m)
  BY DEF broadcast_msg
<1>2. /\ m \in Message /\ m[1] \in Fields
      /\ Len(told') = Len(told) + 1 /\ told'[Len(told) + 1] = m
      /\ \A k \in 1..Len(told) : told'[k] = told[k]
  BY <1>0, <1>1, AppendFacts DEF Message
<1>3. /\ telling'[s] = {} /\ telling[s] = {m}
      /\ \A t \in Tellers : t # s => telling'[t] = telling[t]
      /\ UNCHANGED <<server, session, client, queue, writer, browser>>
      /\ crossed' = (crossed \/ (s \notin {Game, session} /\ ~Overtaking(s)))
  BY <1>0, <1>1 DEF broadcast_msg, Quiet, socketVars
\* Another field is still held, or still not.
<1>4. \A f \in Fields : f # m[1] /\ Held(f, telling) => Held(f, telling')
  BY <1>3 DEF Held
<1>5. \A f \in Fields : f # m[1] /\ LastIs(f, told', Len(told) + 1) => FALSE
  BY <1>2 DEF LastIs
<1>6. \A f \in Fields, k \in browser.from..Len(told) :
        LastIs(f, told', k) <=> f # m[1] /\ LastIs(f, told, k)
  <2>1. ASSUME NEW f \in Fields, NEW k \in browser.from..Len(told)
        PROVE  LastIs(f, told', k) <=> f # m[1] /\ LastIs(f, told, k)
    <3>1. k \in 1..Len(told) /\ Len(told) + 1 \in (k + 1)..Len(told')
          /\ told'[k] = told[k]
      BY <1>0, <1>2
    <3>2. \A j \in (k + 1)..Len(told') :
            (j \in (k + 1)..Len(told) /\ told'[j] = told[j]) \/ j = Len(told) + 1
      BY <1>0, <1>2, <3>1
    <3>3. (k + 1)..Len(told) \subseteq (k + 1)..Len(told')
      BY <1>0, <1>2
    <3>4. \A j \in (k + 1)..Len(told) : told'[j] = told[j]
      BY <1>0, <1>2, <3>1
    <3> QED  BY <1>2, <3>1, <3>2, <3>3, <3>4 DEF LastIs
  <2> QED  BY <2>1
<1>7. LastIs(m[1], told', Len(told) + 1)
  <2>1. ((Len(told) + 1) + 1)..Len(told') = {}
    BY <1>0, <1>2
  <2> QED  BY <1>2, <2>1 DEF LastIs
<1>8. /\ Len(told) + 1 \in browser.from..Len(told')
      /\ browser.from..Len(told) \subseteq browser.from..Len(told')
      /\ \A k \in browser.from..Len(told') : k \in browser.from..Len(told) \/ k = Len(told) + 1
      /\ \A k \in browser.from..Len(told) : told'[k] = told[k]
  BY <1>0, <1>2
<1>9. Latest'
  <2>1. ASSUME NEW f \in Fields, Spoken(f, told', browser.from)
        PROVE  \E k \in browser.from..Len(told') : LastIs(f, told', k)
    <3>1. CASE f = m[1]
      BY <1>7, <1>8, <3>1
    <3>2. CASE f # m[1]
      <4>1. Spoken(f, told, browser.from)
        BY <1>2, <1>8, <2>1, <3>2 DEF Spoken
      <4>2. PICK k \in browser.from..Len(told) : LastIs(f, told, k)
        BY <4>1 DEF Shown, Latest
      <4> QED  BY <1>6, <1>8, <3>2, <4>2
    <3> QED  BY <3>1, <3>2
  <2> QED  BY <1>3, <2>1 DEF Latest
<1>10. Log'
  <2>1. ASSUME ~crossed', NEW f \in Fields, ~Held(f, telling'),
               NEW k \in browser.from..Len(told'), LastIs(f, told', k)
        PROVE  told'[k][2] = server[f]
    <3>0. ~crossed /\ (s = Game \/ s = session \/ Overtaking(s))
      BY <1>3, <2>1
    <3>1. CASE k \in browser.from..Len(told)
      <4>1. f # m[1] /\ LastIs(f, told, k) /\ ~Held(f, telling)
        BY <1>4, <1>6, <2>1, <3>1
      <4> QED  BY <1>8, <3>0, <3>1, <4>1 DEF Shown, Log
    <3>2. CASE k = Len(told) + 1
      <4>0. f = m[1] /\ told'[k] = m
        BY <1>2, <1>5, <2>1, <3>2
      <4>1. CASE s = Game
        <5>1. m = <<"game", server["game"]>>
          BY <1>1, <4>1 DEF Owner
        <5> QED  BY <4>0, <5>1
      <4>2. CASE s # Game /\ s = session
        <5>1. s \in Sessions
          BY <4>2 DEF Tellers, Game
        <5> QED  BY <1>1, <4>0, <4>2, <5>1 DEF Owner
      <4>3. CASE s # Game /\ Overtaking(s)
        <5>1. s \in Sessions /\ session \in Tellers /\ s = session - 1 /\ session # s
          BY <1>0, <4>3 DEF Tellers, Game, Overtaking, Sessions
        <5>2. telling[session] = {<<"online", 1>>}
          BY <4>3 DEF Overtaking
        <5>3. f # "online"
          <6>1. <<"online", 1>> \in telling'[session] /\ <<"online", 1>>[1] = "online"
            BY <1>3, <5>1, <5>2
          <6> QED  BY <2>1, <5>1, <6>1 DEF Held
        <5>4. f # "game"
          BY <1>1, <4>0, <5>1 DEF Owner
        <5>5. m[1] = "board"
          BY <4>0, <5>3, <5>4 DEF Fields
        <5> QED  BY <1>1, <4>0, <5>1, <5>2, <5>5 DEF Owner
      <4> QED  BY <3>0, <4>1, <4>2, <4>3
    <3> QED  BY <1>8, <2>1, <3>1, <3>2
  <2> QED  BY <1>3, <2>1 DEF Log
<1>11. First'
  <2>1. ASSUME ~crossed', NEW f \in Fields, ~Held(f, telling'),
               ~Spoken(f, told', browser.from), HasRead(f, client.state)
        PROVE  client.init[f] = server[f]
    <3>1. f # m[1]
      BY <1>2, <1>8, <2>1 DEF Spoken
    <3>2. ~Spoken(f, told, browser.from)
      BY <1>8, <2>1 DEF Spoken
    <3> QED  BY <1>3, <1>4, <2>1, <3>1, <3>2 DEF Shown, First
  <2> QED  BY <1>3, <2>1 DEF First
<1>12. Page'
  <2>1. Due' = Due
    BY <1>3 DEF Due
  <2>2. \A k \in browser.from..(Due - 1) :
          told'[k] = told[k] /\ (k + 1)..(Due - 1) \subseteq browser.from..(Due - 1)
    BY <1>0, <1>2
  <2> QED  BY <1>3, <2>1, <2>2 DEF Shown, Page
<1> QED  BY <1>9, <1>10, <1>11, <1>12 DEF Shown

\* A step of the client's own that leaves the page and the init frame as they are
\* and takes nothing out of the line, unless the writer has ended.
LEMMA ShownRest ==
  ASSUME TInv, Shown,
         UNCHANGED <<server, telling, told, crossed, browser>>,
         client'.init = client.init, writer' => writer,
         \/ client'.state \in {client.state, "off"}
         \/ client.state \notin Before /\ client'.state \notin Before,
         writer' => \A i \in DOMAIN queue : i \in DOMAIN queue' /\ queue'[i] = queue[i]
  PROVE  Shown'
<1>1. \A f \in Fields : HasRead(f, client'.state) => HasRead(f, client.state)
  BY DEF HasRead, Before, Arriving
<1>2. Latest' /\ Log'
  BY DEF Shown, Latest, Log
<1>3. First'
  BY <1>1 DEF Shown, First
<1>4. Page'
  <2>1. Due' = Due
    BY DEF Due
  <2>2. client'.state \notin Before => client.state \notin Before
    BY DEF Before
  <2>3. writer' /\ (\A i \in DOMAIN queue' : queue'[i] # Snapshot)
          => \A i \in DOMAIN queue : queue[i] # Snapshot
    OBVIOUS
  <2> QED  BY <2>1, <2>2, <2>3 DEF Shown, Page
<1> QED  BY <1>2, <1>3, <1>4 DEF Shown

\* A new connection, and the two reads of its init frame.
LEMMA ShownArrives ==
  ASSUME TInv, Line, Shown, Connect \/ snapshot_views \/ Open
  PROVE  Shown'
<1>0. client \in Clients /\ browser \in Pages /\ server \in View /\ Len(told) \in Nat
      /\ browser.from \in Nat
  BY DEF TInv, SpeakType, TaskType, PageType, Pages
<1>1. CASE Connect
  <2>1. /\ browser'.from = Len(told) + 1 /\ told' = told
        /\ client'.state = "subscribed"
    BY <1>0, <1>1 DEF Connect, Clients, Pages, serverVars
  <2>2. browser'.from..Len(told') = {}
    BY <1>0, <2>1
  <2>3. Latest' /\ Log'
    BY <2>2 DEF Latest, Log, Spoken
  <2>4. First' /\ Page'
    BY <2>1 DEF First, HasRead, Page, Before, Arriving
  <2> QED  BY <2>3, <2>4 DEF Shown
<1>2. CASE snapshot_views
  <2>1. /\ client'.init = server /\ client'.state = "reading"
        /\ UNCHANGED <<server, telling, told, crossed, browser, writer, queue>>
    BY <1>0, <1>2 DEF snapshot_views, Clients, serverVars, socketVars, history
  <2>2. Latest' /\ Log'
    BY <2>1 DEF Shown, Latest, Log
  <2>3. First'
    BY <2>1 DEF First
  <2>4. Page'
    BY <2>1 DEF Page, Before, Arriving
  <2> QED  BY <2>2, <2>3, <2>4 DEF Shown
<1>3. CASE Open
  <2>1. /\ client.state = "reading" /\ client'.state \in {"open", "off"}
        /\ client'.init["game"] = server["game"]
        /\ \A f \in Fields : f # "game" => client'.init[f] = client.init[f]
        /\ UNCHANGED <<server, telling, told, crossed, browser, writer>>
    <3> DEFINE v == [client.init EXCEPT !["game"] = server["game"]]
    <3>1. client.state = "reading"
          /\ UNCHANGED <<server, telling, told, crossed, browser, writer>>
      BY <1>3 DEF Open, serverVars, history
    <3>2. v["game"] = server["game"]
          /\ \A f \in Fields : f # "game" => v[f] = client.init[f]
      BY <1>0 DEF Clients, View, Fields
    <3>3. PICK st \in {"open", "off"} : client' = [client EXCEPT !.state = st, !.init = v]
      BY <1>0, <1>3 DEF Open, Clients
    <3> HIDE DEF v
    <3>4. client'.state = st /\ client'.init = v
      BY <1>0, <3>3 DEF Clients
    <3> QED  BY <3>1, <3>2, <3>4
  <2>2. Latest' /\ Log'
    BY <2>1 DEF Shown, Latest, Log
  <2>3. First'
    <3>1. ASSUME ~crossed, NEW f \in Fields, ~Held(f, telling),
                 ~Spoken(f, told, browser.from)
          PROVE  client'.init[f] = server[f]
      <4>1. CASE f = "game"
        BY <2>1, <4>1
      <4>2. CASE f # "game"
        <5>1. HasRead(f, client.state)
          BY <2>1, <4>2 DEF HasRead
        <5> QED  BY <2>1, <3>1, <4>2, <5>1 DEF Shown, First
      <4> QED  BY <4>1, <4>2
    <3> QED  BY <2>1, <3>1 DEF First
  <2>4. Page'
    <3>1. CASE Room
      <4>1. queue = <<>> /\ queue' = Append(queue, Snapshot)
        BY <1>3, <2>1, <3>1 DEF Open, try_send, Line, Fresh, Arriving
      <4>2. queue \in Seq(Int) /\ Len(queue) = 0 /\ Snapshot \in Int
        BY <4>1, EmptyFacts DEF Snapshot
      <4>3. 1 \in DOMAIN queue' /\ queue'[1] = Snapshot
        BY <4>1, <4>2, AppendFacts
      <4> QED  BY <4>3 DEF Page
    <3>2. CASE ~Room
      <4>1. client'.state = "off"
        BY <1>0, <1>3, <3>2 DEF Open, Clients
      <4> QED  BY <4>1 DEF Page, Before
    <3> QED  BY <3>1, <3>2
  <2> QED  BY <2>2, <2>3, <2>4 DEF Shown
<1> QED  BY <1>1, <1>2, <1>3

\* The page takes a frame.
LEMMA ShownWrite ==
  ASSUME TInv, Line, Shown, Write
  PROVE  Shown'
<1>0. /\ client \in Clients /\ browser \in Pages /\ server \in View
      /\ told \in Seq(Message) /\ Len(told) \in Nat
      /\ queue \in Seq(Int) /\ queue # <<>> /\ writer
      /\ queue' = Tail(queue) /\ browser' = onMessage(Head(queue))
      /\ UNCHANGED <<server, telling, told, crossed, client, writer>>
  BY DEF TInv, SpeakType, TaskType, PageType, Write, serverVars, history
<1>1. /\ Due \in Nat \ {0} /\ client.next \in Nat \ {0} /\ browser.from \in Nat \ {0}
      /\ Len(browser.heard) \in Nat /\ browser.heard \in Seq(Nat)
  BY DueType
<1>2. /\ Head(queue) = queue[1] /\ queue[1] \in Int /\ Len(queue) \in Nat \ {0}
      /\ DOMAIN queue = 1..Len(queue) /\ DOMAIN queue' = 1..(Len(queue) - 1)
      /\ \A i \in 1..(Len(queue) - 1) : queue'[i] = queue[i + 1]
  BY <1>0, TailFacts
<1>3. queue[1] = Snapshot \/ queue[1] = Note \/ queue[1] > 0
  <2>1. 1 \in DOMAIN queue
    BY <1>2
  <2>2. queue[1] \in {Note, Snapshot} \cup Due..(client.next - 1)
    BY <2>1 DEF Line, Ordered
  <2> QED  BY <1>1, <2>2
<1>4. CASE queue[1] = Snapshot
  <2>1. browser'.view = client.init /\ browser'.from = browser.from
        /\ browser'.heard = browser.heard
    BY <1>0, <1>2, <1>4 DEF onMessage, Pages, Note, Snapshot
  <2>2. browser.heard = <<>>
    BY <1>2, <1>4 DEF Line, Fresh
  <2>3. Due' = browser.from
    BY <1>1, <2>1, <2>2, EmptyFacts DEF Due
  <2>4. browser'.from..(Due' - 1) = {}
    BY <1>1, <2>1, <2>3
  <2>5. Page'
    <3>1. \A f \in Fields : browser'.view[f] = client'.init[f]
      BY <1>0, <2>1
    <3>2. \A k \in browser'.from..(Due' - 1) : FALSE
      BY <2>4
    <3> QED  BY <3>1, <3>2 DEF Page
  <2> QED  BY <1>0, <2>1, <2>5 DEF Shown, Latest, Log, First
<1> DEFINE NoSnapshot == \A i \in DOMAIN queue : queue[i] # Snapshot
<1>5. (\A i \in DOMAIN queue' : queue'[i] # Snapshot) /\ queue[1] # Snapshot => NoSnapshot
  <2>1. ASSUME \A i \in DOMAIN queue' : queue'[i] # Snapshot, queue[1] # Snapshot,
               NEW i \in DOMAIN queue
        PROVE  queue[i] # Snapshot
    <3>1. CASE i = 1
      BY <2>1, <3>1
    <3>2. CASE i # 1
      <4>1. i - 1 \in DOMAIN queue' /\ (i - 1) + 1 = i
        BY <1>2, <2>1, <3>2
      <4>2. queue'[i - 1] = queue[i]
        BY <1>2, <4>1
      <4> QED  BY <2>1, <4>1, <4>2
    <3> QED  BY <3>1, <3>2
  <2> QED  BY <2>1
<1>6. CASE queue[1] = Note
  <2>1. browser' = browser
    BY <1>0, <1>2, <1>6 DEF onMessage, Note, Snapshot
  <2>2. Due' = Due /\ queue[1] # Snapshot
    BY <1>6, <2>1 DEF Due, Note, Snapshot
  <2>3. Page'
    BY <1>0, <1>5, <2>1, <2>2 DEF Shown, Page
  <2> QED  BY <1>0, <2>1, <2>3 DEF Shown, Latest, Log, First
<1>7. CASE queue[1] > 0
  <2>1. queue[1] = Due /\ Due < client.next /\ Due # Note /\ Due # Snapshot
    BY <1>0, <1>1, <1>7, FirstIsDue DEF Note, Snapshot
  <2>2. client.next <= Len(told) + 1
    BY DEF TInv, TaskType
  <2>3. Due \in 1..Len(told)
    BY <1>0, <1>1, <2>1, <2>2
  <2>4. told[Due] \in Message
    BY <1>0, <2>3
  <2>5. told[Due][1] \in Fields
    BY <2>4 DEF Message
  <2> DEFINE v == [browser.view EXCEPT ![told[Due][1]] = told[Due][2]]
             h == Append(browser.heard, Due)
  <2>6. browser' = [browser EXCEPT !.view = v, !.heard = h]
    BY <1>0, <1>2, <2>1 DEF onMessage, Pages
  <2>7. browser'.view = v /\ browser'.heard = h /\ browser'.from = browser.from
    BY <1>0, <2>6 DEF Pages
  <2>8. Len(h) = Len(browser.heard) + 1
    BY <1>1, AppendFacts
  <2>9. Due' = Due + 1
    BY <1>1, <2>7, <2>8 DEF Due
  <2>10. v[told[Due][1]] = told[Due][2]
         /\ \A f \in Fields : f # told[Due][1] => v[f] = browser.view[f]
    BY <1>0, <2>5 DEF Pages, View
  <2> HIDE DEF v, h
  <2>a. browser.from <= Due
    BY <1>1 DEF Due
  <2>11. Page'
    <3>1. ASSUME client.state \notin Before, NoSnapshot, NEW f \in Fields
          PROVE  /\ (\A k \in browser.from..Due : told[k][1] # f)
                      => v[f] = client.init[f]
                 /\ \A k \in browser.from..Due :
                      told[k][1] = f /\ (\A j \in (k + 1)..Due : told[j][1] # f)
                        => v[f] = told[k][2]
      <4>0. /\ Due \in browser.from..Due
            /\ \A k \in browser.from..Due : k = Due \/ k \in browser.from..(Due - 1)
            /\ browser.from..(Due - 1) \subseteq browser.from..Due
            /\ \A k \in browser.from..(Due - 1) :
                 /\ Due \in (k + 1)..Due /\ (k + 1)..(Due - 1) \subseteq (k + 1)..Due
        BY <1>1, <2>a
      <4>1. CASE f = told[Due][1]
        BY <2>10, <4>0, <4>1
      <4>2. CASE f # told[Due][1]
        <5>1. v[f] = browser.view[f]
          BY <2>10, <4>2
        <5>2. (\A k \in browser.from..(Due - 1) : told[k][1] # f)
                => browser.view[f] = client.init[f]
          BY <1>0, <3>1 DEF Shown, Page
        <5>3. \A k \in browser.from..(Due - 1) :
                told[k][1] = f /\ (\A j \in (k + 1)..(Due - 1) : told[j][1] # f)
                  => browser.view[f] = told[k][2]
          BY <1>0, <3>1 DEF Shown, Page
        <5> QED  BY <4>0, <4>2, <5>1, <5>2, <5>3
      <4> QED  BY <4>1, <4>2
    <3>2. Due' - 1 = Due
      BY <1>1, <2>9
    <3>3. queue[1] # Snapshot
      BY <2>1
    <3> QED  BY <1>0, <1>5, <2>7, <3>1, <3>2, <3>3 DEF Page
  <2> QED  BY <1>0, <2>7, <2>11 DEF Shown, Latest, Log, First
<1> QED  BY <1>3, <1>4, <1>6, <1>7

LEMMA ShownNext ==
  ASSUME TInv, Line, Owner, Shown, Next
  PROVE  Shown'
<1>0. /\ client \in Clients /\ queue \in Seq(Int) /\ server["game"] + 1 \in Nat
      /\ server["board"] + 1 \in Nat
      /\ Game \in Tellers /\ Sessions \subseteq Tellers
      /\ {"game", "board", "online"} = Fields /\ Note \in Int
  BY DEF TInv, SpeakType, TaskType, View, Tellers, Fields, Note
<1>1. CASE publish /\ telling[Game] = Quiet
           /\ UNCHANGED <<told, crossed, browser, client, queue, writer>>
  BY <1>0, <1>1, ShownStore DEF publish
<1>2. ASSUME NEW s \in Sessions, register_device(s) PROVE Shown'
  <2>1. telling[s] = Quiet /\ store(s, "online", 1)
        /\ UNCHANGED <<told, crossed, browser, client, queue, writer>>
    BY <1>2 DEF register_device, Owner, socketVars, history
  <2> QED  BY <1>0, <2>1, ShownStore
<1>3. ASSUME NEW s \in Sessions, ingest_event(s) PROVE Shown'
  <2>1. telling[s] = Quiet /\ store(s, "board", server["board"] + 1)
        /\ UNCHANGED <<told, crossed, browser, client, queue, writer>>
    BY <1>3 DEF ingest_event, socketVars, history
  <2> QED  BY <1>0, <2>1, ShownStore
<1>4. ASSUME NEW s \in Sessions, mark_disconnected(s) PROVE Shown'
  <2>1. telling[s] = Quiet
        /\ UNCHANGED <<told, crossed, browser, client, queue, writer>>
    BY <1>4 DEF mark_disconnected, socketVars, history
  <2>2. CASE store(s, "online", 0)
    BY <1>0, <2>1, <2>2, ShownStore
  <2>3. CASE UNCHANGED <<server, telling>>
    BY <2>1, <2>3, ShownRest
  <2> QED  BY <1>4, <2>2, <2>3 DEF mark_disconnected
<1>5. ASSUME NEW s \in Tellers, broadcast_msg(s) PROVE Shown'
  BY <1>5, ShownBroadcast
<1>6. CASE Connect \/ snapshot_views \/ Open
  BY <1>6, ShownArrives
<1>7. CASE Write
  BY <1>7, ShownWrite
\* What is left of the client task's steps.
<1>8. ASSUME UNCHANGED <<server, telling, told, crossed, browser>>,
             client'.init = client.init, writer' = FALSE \/ writer' = writer,
             \/ client'.state \in {client.state, "off"}
             \/ client.state \notin Before /\ client'.state \notin Before,
             \/ writer' = FALSE \/ queue' = queue
             \/ \E item \in Int : queue' = Append(queue, item)
      PROVE  Shown'
  <2>1. ASSUME writer'
        PROVE  \A i \in DOMAIN queue : i \in DOMAIN queue' /\ queue'[i] = queue[i]
    <3>1. CASE queue' = queue
      BY <3>1
    <3>2. ASSUME NEW item \in Int, queue' = Append(queue, item)
          PROVE  \A i \in DOMAIN queue : i \in DOMAIN queue' /\ queue'[i] = queue[i]
      <4>1. DOMAIN queue = 1..Len(queue) /\ Len(queue) \in Nat
        BY <1>0
      <4> QED  BY <1>0, <3>2, <4>1, AppendFacts
    <3> QED  BY <1>8, <2>1, <3>1, <3>2
  <2>2. writer' => writer
    BY <1>8
  <2> QED  BY <1>8, <2>1, <2>2, ShownRest
<1>9. CASE \/ Relay \/ Lagged \/ ShedNotice \/ ShedTimeout \/ Leave \/ Ends
           \/ AuthDelay \/ (\E ok \in BOOLEAN : handle_auth(ok))
  <2>1. UNCHANGED <<server, telling, told, crossed, browser>>
    BY <1>9 DEF Relay, Lagged, ShedNotice, ShedTimeout, Leave, Ends, AuthDelay,
       handle_auth, serverVars, socketVars, history
  <2>2. writer' = FALSE \/ writer' = writer
    BY <1>9 DEF Relay, Lagged, ShedNotice, ShedTimeout, Leave, Ends, AuthDelay,
       handle_auth, socketVars
  <2>3. client'.init = client.init
        /\ (\/ client'.state \in {client.state, "off"}
            \/ client.state \notin Before /\ client'.state \notin Before)
    <3>1. CASE Relay \/ Lagged \/ ShedNotice \/ ShedTimeout \/ Leave
      BY <1>0, <3>1 DEF Relay, Lagged, ShedNotice, ShedTimeout, Leave, Clients,
         Before, Arriving
    <3>2. CASE Ends \/ AuthDelay
      BY <1>0, <3>2 DEF Ends, AuthDelay, Clients, Before, Arriving
    <3>3. ASSUME NEW ok \in BOOLEAN, handle_auth(ok)
          PROVE  client'.init = client.init
                 /\ client.state \notin Before /\ client'.state \notin Before
      BY <1>0, <3>3 DEF handle_auth, Clients, Before, Arriving
    <3> QED  BY <1>9, <3>1, <3>2, <3>3
  <2>4. \/ writer' = FALSE \/ queue' = queue
        \/ \E item \in Int : queue' = Append(queue, item)
    BY <1>0, <1>9 DEF Relay, Lagged, ShedNotice, ShedTimeout, Leave, Ends, AuthDelay,
       handle_auth, socketVars, try_send, Clients
  <2> QED  BY <1>8, <2>1, <2>2, <2>3, <2>4
<1>10. CASE \/ handle_command \/ WriteFails \/ Stall
            \/ (\E a \in PlayerActions \cup OperatorActions : send_game(a))
  <2>1. UNCHANGED <<server, telling, told, crossed, browser, client>>
    BY <1>10 DEF handle_command, WriteFails, Stall, send_game, serverVars, socketVars,
       history
  <2>2. writer' = FALSE \/ writer' = writer
    BY <1>10 DEF handle_command, WriteFails, Stall, send_game, socketVars
  <2>3. \/ writer' = FALSE \/ queue' = queue
        \/ \E item \in Int : queue' = Append(queue, item)
    BY <1>0, <1>10 DEF handle_command, WriteFails, Stall, send_game, socketVars, try_send
  <2> QED  BY <1>8, <2>1, <2>2, <2>3
<1>11. CASE on_action /\ UNCHANGED <<server, telling>>
  <2>1. UNCHANGED <<told, crossed, browser, client, writer>>
    BY <1>11 DEF on_action
  <2>2. \/ queue' = queue \/ \E item \in Int : queue' = Append(queue, item)
    BY <1>0, <1>11 DEF on_action, try_send
  <2> QED  BY <1>8, <1>11, <2>1, <2>2
<1>12. CASE on_action /\ publish /\ UNCHANGED queue
  BY <1>1, <1>12 DEF on_action
<1>13. on_action => UNCHANGED <<server, telling>> \/ (publish /\ UNCHANGED queue)
  BY DEF on_action
<1>14. CASE GameMoves
  BY <1>1, <1>14 DEF GameMoves, socketVars, history
<1> QED
  BY <1>2, <1>3, <1>4, <1>5, <1>6, <1>7, <1>9, <1>10, <1>11, <1>12, <1>13, <1>14
  DEF Next, Drained, Abort

\* However the stores, the broadcasts, the reads of the init frame, the relaying
\* and the writing interleave, for any number of connections of the board and of
\* the browser: once all that is stored is broadcast, relayed and written, the
\* page shows what the server holds, unless an old connection of the board spoke
\* after a newer one.
THEOREM PageIsCurrent == Spec => []SeesTheServer
<1> DEFINE IInv == TInv /\ Line /\ Lives /\ Owner /\ Shown
<1>1. Init => IInv
  BY TypeInit, LineInit, ShownInit
<1>2. IInv /\ [Next]_vars => IInv'
  <2>1. IInv /\ Next => IInv'
    BY TypeNext, LineNext, OwnerNext, ShownNext
  <2>2. IInv /\ UNCHANGED vars => IInv'
    <3> SUFFICES ASSUME IInv, UNCHANGED vars PROVE IInv'
      OBVIOUS
    <3>1. TInv' /\ Line' /\ Lives'
      BY StutterKeeps
    <3>2. UNCHANGED <<server, session, links, telling, told, client, queue, writer,
                      browser, crossed>>
      BY DEF vars
    <3>3. Owner'
      BY <3>2 DEF Owner
    <3>4. Shown'
      BY <3>2, ShownRest
    <3> QED  BY <3>1, <3>3, <3>4
  <2> QED  BY <2>1, <2>2
<1>3. IInv => SeesTheServer
  BY PageShowsServer
<1> HIDE DEF IInv
<1> QED  BY <1>1, <1>2, <1>3, PTL DEF Spec

-----------------------------------------------------------------------------
=============================================================================
