-------------------------- MODULE DeviceLinkProofs --------------------------
(***************************************************************************)
(* Proofs about the device link: the types, who may be online, and that    *)
(* the game's view of the board is true while it is trusted.               *)
(***************************************************************************)
EXTENDS DeviceLink, SequenceTheorems, TLAPS

LEMMA ConstantsOK ==
  /\ Squares # {} /\ Bare \in Contents
  /\ SeqMod \in Nat \ {0} /\ MaxConns \in Nat
  /\ Empty \in Boards
BY BoardAssumption, SeqModAssumption, BoundsAssumption DEF Empty, Boards

Stage == {"none", "hello", "greeted", "reading", "handing", "asking", "done"}
Esp   == [conn : Conns \cup {0}, welcomed : BOOLEAN, seq : Seqs, squares : Boards]
Game  == [have : BOOLEAN, torn : BOOLEAN, squares : Boards]
Entry == [session : Conns, connected : BOOLEAN, last : Seqs \cup {None}]
Hole  == {"reconnect", "overtaken", "untold", "vouched"}

\* The types of each action's pieces.
LEMMA NumberType ==
  ASSUME TypeOK, NEW i \in Nat
  PROVE  (esp.seq + i) % SeqMod \in Seqs
<1>1. esp.seq \in Nat
  BY ConstantsOK DEF TypeOK, Seqs
<1>2. esp.seq + i \in Nat
  BY <1>1
<1>3. \A n \in Nat : n % SeqMod \in 0..(SeqMod - 1)
  BY ConstantsOK
<1> QED  BY <1>2, <1>3 DEF Seqs

LEMMA NumberedType ==
  ASSUME TypeOK, NEW i \in Nat, NEW t \in {"snapshot", "sensor", "node", "status"},
         NEW s \in Squares, NEW b \in Boards
  PROVE  Numbered(i, t, s, b) \in Event
BY NumberType DEF Numbered, Event

\* A queue that gains what was sent is still one of messages.
LEMMA SentType ==
  ASSUME NEW q \in Seq(Event \cup Hello), NEW e \in Event, NEW fails \in BOOLEAN
  PROVE  q \o Sent(e, fails) \in Seq(Event \cup Hello)
<1>1. <<e>> \in Seq(Event \cup Hello)
  BY DEF Event, Hello
<1>2. <<>> \in Seq(Event \cup Hello)
  OBVIOUS
<1>3. Sent(e, fails) \in Seq(Event \cup Hello)
  BY <1>1, <1>2 DEF Sent
<1> QED  BY <1>3, ConcatProperties

LEMMA ChargeType ==
  ASSUME TypeOK, NEW fails \in BOOLEAN, Charge(fails)
  PROVE  lost' \in Nat
BY DEF Charge, TypeOK

LEMMA EspType ==
  ASSUME NEW e \in Esp, NEW n \in Seqs, NEW b \in Boards, NEW w \in BOOLEAN
  PROVE  /\ [e EXCEPT !.seq = n] \in Esp
         /\ [e EXCEPT !.squares = b] \in Esp
         /\ [e EXCEPT !.squares = b, !.seq = n] \in Esp
         /\ [e EXCEPT !.welcomed = w, !.seq = n] \in Esp
         /\ [e EXCEPT !.conn = 0, !.welcomed = w, !.seq = n] \in Esp
         /\ \A k \in Conns : [e EXCEPT !.conn = k, !.welcomed = w] \in Esp
BY DEF Esp

LEMMA PublishType ==
  ASSUME TypeOK, NEW t \in {"snapshot", "node", "status"}, NEW fails \in BOOLEAN,
         Publish(t, fails), esp.conn # 0
  PROVE  /\ esp' \in Esp /\ up' \in [Conns -> Seq(Event \cup Hello)] /\ lost' \in Nat
<1> DEFINE s == CHOOSE x \in Squares : TRUE
           e == Numbered(1, t, s, esp.squares)
           n == (esp.seq + 1) % SeqMod
<1>1. s \in Squares
  BY ConstantsOK
<1>2. esp \in Esp /\ esp.conn \in Conns /\ esp.squares \in Boards
  BY DEF TypeOK, Esp
<1>3. e \in Event
  BY <1>1, <1>2, NumberedType
<1>4. n \in Seqs
  BY NumberType
<1>5. esp' = [esp EXCEPT !.seq = n]
     /\ up' = [up EXCEPT ![esp.conn] = @ \o Sent(e, fails)]
     /\ Charge(fails)
  BY DEF Publish
<1> HIDE DEF s, e, n
<1>6. esp' \in Esp
  BY <1>2, <1>4, <1>5, EspType
<1>7. up \in [Conns -> Seq(Event \cup Hello)]
  BY DEF TypeOK
<1>8. up[esp.conn] \o Sent(e, fails) \in Seq(Event \cup Hello)
  BY <1>2, <1>3, <1>7, SentType
<1>9. up' \in [Conns -> Seq(Event \cup Hello)]
  BY <1>2, <1>5, <1>7, <1>8
<1> QED  BY <1>5, <1>6, <1>9, ChargeType

LEMMA SendType ==
  ASSUME TypeOK, NEW k \in Conns, NEW m \in {"welcome", "get"}, Send(k, m)
  PROVE  down' \in [Conns -> Seq({"welcome", "get"})]
<1>1. down \in [Conns -> Seq({"welcome", "get"})]
  BY DEF TypeOK
<1>2. Append(down[k], m) \in Seq({"welcome", "get"})
  BY <1>1
<1> QED  BY <1>1, <1>2 DEF Send

LEMMA TailType ==
  ASSUME NEW S, NEW T, NEW f \in [T -> Seq(S)], NEW k \in T, f[k] # <<>>
  PROVE  [f EXCEPT ![k] = Tail(@)] \in [T -> Seq(S)] /\ Head(f[k]) \in S
<1>1. f[k] \in Seq(S)
  OBVIOUS
<1>2. Tail(f[k]) \in Seq(S) /\ Head(f[k]) \in S
  BY <1>1
<1> QED  BY <1>2

LEMMA EmptiedType ==
  ASSUME NEW S, NEW T, NEW f \in [T -> Seq(S)], NEW k
  PROVE  [f EXCEPT ![k] = <<>>] \in [T -> Seq(S)]
<1>1. <<>> \in Seq(S)
  OBVIOUS
<1> QED  BY <1>1

-----------------------------------------------------------------------------
(***************************************************************************)
(* What a socket carries depends on who owns the device, and the reverse:  *)
(* request_snapshots writes to the owner's socket, which must be one that  *)
(* is read.  Type correctness needs both: an event's number is looked up   *)
(* in what is read.                                                        *)
(***************************************************************************)
WelcomedIsOpen == esp.welcomed => esp.conn # 0

IInv == TypeOK /\ OnlineIsRead /\ HelloFirst /\ WelcomedIsOpen

Up   == [Conns -> Seq(Event \cup Hello)]
Down == [Conns -> Seq({"welcome", "get"})]

LEMMA OnlyEvents ==
  ASSUME IInv, NEW k \in Conns, handler[k] \notin {"none", "hello"}
  PROVE  /\ up[k] \in Seq(Event)
         /\ handler[k] \in {"handing", "asking"} => up[k] # <<>>
BY DEF IInv, HelloFirst

LEMMA Types ==
  ASSUME TypeOK
  PROVE  /\ esp \in Esp /\ up \in Up /\ down \in Down /\ handler \in [Conns -> Stage]
         /\ entry \in Entry \cup {None} /\ game \in Game /\ shown \in Boards
         /\ holes \subseteq Hole /\ lost \in Nat
BY DEF TypeOK, Esp, Up, Down, Stage, Entry, Game, Hole

\* The welcome and the answers travel only where the hello was read.
LEMMA WelcomeIsRead ==
  ASSUME IInv, esp.conn # 0, esp.welcomed \/ down[esp.conn] # <<>>
  PROVE  handler[esp.conn] \notin {"none", "hello"} /\ esp.conn \in Conns
<1>1. esp.conn \in Conns
  BY Types DEF IInv, Esp
<1> QED  BY <1>1 DEF IInv, HelloFirst

\* A step of the ESP's that touches only the queue of a socket past its hello.
LEMMA EspStep ==
  ASSUME IInv, UNCHANGED <<handler, entry, game, shown, holes>>,
         esp' \in Esp, down' \in Down, lost' \in Nat,
         NEW k \in Conns, esp'.conn = k, handler[k] \notin {"none", "hello"},
         NEW q \in Seq(Event), up' = [up EXCEPT ![k] = @ \o q],
         \A j \in Conns : down[j] = <<>> => down'[j] = <<>>
  PROVE  IInv'
<1>1. up[k] \in Seq(Event) /\ (handler[k] \in {"handing", "asking"} => up[k] # <<>>)
  BY OnlyEvents
<1>2. up[k] \o q \in Seq(Event) /\ (up[k] # <<>> => up[k] \o q # <<>>)
  BY <1>1, ConcatProperties
<1>3. up \in Up /\ handler \in [Conns -> Stage]
  BY Types DEF IInv
<1>4. \A r \in Seq(Event) : r \in Seq(Event \cup Hello)
  OBVIOUS
<1>5. up'[k] = up[k] \o q /\ (\A j \in Conns \ {k} : up'[j] = up[j])
  BY <1>3 DEF Up
<1>6. up' \in Up
  BY <1>2, <1>3, <1>4 DEF Up
<1>7. TypeOK'
  BY <1>6, Types DEF IInv, TypeOK, Esp, Up, Down, Stage, Entry, Game, Hole
<1>8. OnlineIsRead'
  BY DEF IInv, OnlineIsRead, Owner
<1>9. HelloFirst'
  <2> SUFFICES ASSUME NEW j \in Conns
               PROVE  CASE handler[j] = "none"  -> up'[j] = <<>> /\ down'[j] = <<>> /\ esp'.conn # j
                        [] handler[j] = "hello" ->
                             /\ up'[j] = <<[type |-> "hello"]>> /\ down'[j] = <<>>
                             /\ ~(esp'.conn = j /\ esp'.welcomed)
                        [] OTHER -> /\ up'[j] \in Seq(Event)
                                    /\ handler[j] \in {"handing", "asking"} => up'[j] # <<>>
    BY DEF HelloFirst
  <2>1. CASE j = k
    BY <1>1, <1>2, <1>5, <2>1
  <2>2. CASE j # k
    BY <1>5, <2>2 DEF IInv, HelloFirst
  <2> QED  BY <2>1, <2>2
<1>10. WelcomedIsOpen'
  BY DEF WelcomedIsOpen, Conns
<1> QED  BY <1>7, <1>8, <1>9, <1>10 DEF IInv

\* A step of the ESP's that puts nothing on a socket.
LEMMA EspQuiet ==
  ASSUME IInv, UNCHANGED <<up, handler, entry, game, shown, holes>>,
         esp' \in Esp, down' \in Down, lost' \in Nat,
         esp'.conn \in {0, esp.conn}, esp'.welcomed => esp.welcomed /\ esp'.conn # 0,
         \A j \in Conns : down[j] = <<>> => down'[j] = <<>>
  PROVE  IInv'
<1>1. TypeOK'
  BY Types DEF IInv, TypeOK, Esp, Up, Down, Stage, Entry, Game, Hole
<1>2. OnlineIsRead'
  BY DEF IInv, OnlineIsRead, Owner
<1>3. HelloFirst'
  BY DEF IInv, HelloFirst, Conns
<1> QED  BY <1>1, <1>2, <1>3 DEF IInv, WelcomedIsOpen

OrderAt(k) ==
  CASE handler[k] = "none"  -> up[k] = <<>> /\ down[k] = <<>> /\ esp.conn # k
    [] handler[k] = "hello" -> /\ up[k] = <<[type |-> "hello"]>> /\ down[k] = <<>>
                               /\ ~(esp.conn = k /\ esp.welcomed)
    [] OTHER -> /\ up[k] \in Seq(Event)
                /\ handler[k] \in {"handing", "asking"} => up[k] # <<>>

LEMMA OrderEverywhere == HelloFirst <=> \A k \in Conns : OrderAt(k)
BY DEF HelloFirst, OrderAt

\* A step of one handler's.
LEMMA HandlerStep ==
  ASSUME IInv, UNCHANGED esp, NEW k \in Conns, NEW st \in Stage \ {"none", "hello"},
         handler' = [handler EXCEPT ![k] = st], handler[k] # "none",
         up' \in Up, up'[k] \in Seq(Event), st \in {"handing", "asking"} => up'[k] # <<>>,
         down' \in Down,
         \A j \in Conns \ {k} : up'[j] = up[j] /\ down'[j] = down[j],
         entry' \in Entry \cup {None}, game' \in Game, shown' \in Boards,
         holes' \subseteq Hole, lost' \in Nat,
         OnlineIsRead'
  PROVE  IInv'
<1>1. handler \in [Conns -> Stage] /\ handler' \in [Conns -> Stage]
  BY Types DEF IInv
<1>2. TypeOK'
  BY <1>1, Types DEF IInv, TypeOK, Esp, Up, Down, Stage, Entry, Game, Hole
<1>3. handler'[k] = st /\ \A j \in Conns \ {k} : handler'[j] = handler[j]
  BY <1>1
<1>4. OrderAt(k)'
  BY <1>3 DEF OrderAt, Stage
<1>5. \A j \in Conns \ {k} : OrderAt(j)'
  BY <1>3, OrderEverywhere DEF OrderAt, IInv
<1>6. HelloFirst'
  BY <1>4, <1>5, OrderEverywhere, OrderEverywhere' DEF OrderAt, HelloFirst
<1> QED  BY <1>2, <1>6 DEF IInv, WelcomedIsOpen

\* A step that touches no socket.
LEMMA RegistryStep ==
  ASSUME IInv, UNCHANGED <<esp, up, handler>>, down' \in Down,
         \A j \in Conns : handler[j] \in {"none", "hello"} => down'[j] = down[j],
         entry' \in Entry \cup {None}, game' \in Game, shown' \in Boards,
         holes' \subseteq Hole, lost' \in Nat,
         OnlineIsRead'
  PROVE  IInv'
<1>1. TypeOK'
  BY Types DEF IInv, TypeOK, Esp, Up, Down, Stage, Entry, Game, Hole
<1>2. HelloFirst'
  BY DEF IInv, HelloFirst
<1> QED  BY <1>1, <1>2 DEF IInv, WelcomedIsOpen

-----------------------------------------------------------------------------
LEMMA InitInv == Init => IInv
<1> SUFFICES ASSUME Init PROVE IInv
  OBVIOUS
<1>1. <<>> \in Seq(Event \cup Hello) /\ <<>> \in Seq({"welcome", "get"})
  OBVIOUS
<1>2. 0 \in Seqs
  BY ConstantsOK DEF Seqs
<1>3. TypeOK
  BY <1>1, <1>2, ConstantsOK DEF Init, TypeOK, Boards
<1>4. OnlineIsRead
  BY DEF Init, OnlineIsRead, Owner
<1>5. HelloFirst
  BY DEF Init, HelloFirst, Conns
<1> QED  BY <1>3, <1>4, <1>5 DEF IInv, WelcomedIsOpen, Init

LEMMA ConnectInv == ASSUME IInv, Connect PROVE IInv'
<1>1. PICK k \in Conns :
        /\ handler[k] = "none"
        /\ esp' = [esp EXCEPT !.conn = k, !.welcomed = FALSE]
        /\ handler' = [handler EXCEPT ![k] = "hello"]
        /\ up' = [up EXCEPT ![k] = <<[type |-> "hello"]>>]
        /\ UNCHANGED <<down, entry, game, shown, holes, lost>>
  BY DEF Connect
<1>2. esp \in Esp /\ up \in Up /\ down \in Down /\ handler \in [Conns -> Stage] /\ esp.conn = 0
  BY Types DEF IInv, Connect
<1>3. esp' \in Esp /\ esp'.conn = k /\ ~esp'.welcomed
  BY <1>1, <1>2 DEF Esp
<1>4. <<[type |-> "hello"]>> \in Seq(Event \cup Hello)
  BY DEF Hello
<1>5. up' \in Up /\ handler' \in [Conns -> Stage]
  BY <1>1, <1>2, <1>4 DEF Up, Stage
<1>6. TypeOK'
  BY <1>1, <1>3, <1>5, Types DEF IInv, TypeOK, Esp, Up, Down, Stage, Entry, Game, Hole
<1>7. OnlineIsRead'
  BY <1>1, <1>2 DEF IInv, OnlineIsRead, Owner
<1>8. OrderAt(k)'
  <2>1. OrderAt(k)
    BY OrderEverywhere DEF IInv
  <2>2. handler'[k] = "hello" /\ up'[k] = <<[type |-> "hello"]>> /\ down'[k] = <<>>
    BY <1>1, <1>2, <2>1 DEF OrderAt, Up
  <2> QED  BY <1>3, <2>2 DEF OrderAt
<1>9. \A j \in Conns \ {k} : OrderAt(j)'
  <2> SUFFICES ASSUME NEW j \in Conns \ {k} PROVE OrderAt(j)'
    OBVIOUS
  <2>1. OrderAt(j)
    BY OrderEverywhere DEF IInv
  <2>2. handler'[j] = handler[j] /\ up'[j] = up[j] /\ down'[j] = down[j] /\ esp'.conn # j
    BY <1>1, <1>2, <1>3 DEF Up
  <2> QED  BY <2>1, <2>2 DEF OrderAt
<1>10. HelloFirst'
  BY <1>8, <1>9 DEF OrderAt, HelloFirst
<1> QED  BY <1>3, <1>6, <1>7, <1>10 DEF IInv, WelcomedIsOpen

LEMMA DownKept ==
  ASSUME IInv, NEW k \in Conns
  PROVE  /\ [down EXCEPT ![k] = <<>>] \in Down
         /\ \A j \in Conns : down[j] = <<>> => [down EXCEPT ![k] = <<>>][j] = <<>>
         /\ down[k] # <<>> => [down EXCEPT ![k] = Tail(@)] \in Down
BY Types, EmptiedType, TailType DEF IInv, Down

LEMMA DisconnectInv == ASSUME IInv, Disconnect PROVE IInv'
<1>1. esp \in Esp /\ esp.conn \in Conns /\ lost \in Nat /\ 0 \in Seqs
  BY Types, ConstantsOK DEF IInv, Disconnect, Esp, Seqs
<1>2. esp' \in Esp /\ esp'.conn = 0 /\ ~esp'.welcomed
  BY <1>1 DEF Disconnect, Esp
<1>3. down' = [down EXCEPT ![esp.conn] = <<>>] /\ UNCHANGED <<up, handler, entry, game, shown, holes, lost>>
  BY DEF Disconnect
<1>4. down' \in Down /\ \A j \in Conns : down[j] = <<>> => down'[j] = <<>>
  BY <1>1, <1>3, DownKept
<1> QED  BY <1>1, <1>2, <1>3, <1>4, EspQuiet

LEMMA RebootInv == ASSUME IInv, Reboot PROVE IInv'
<1>1. 0 \in Seqs /\ Empty \in Boards
  BY ConstantsOK DEF Seqs
<1>2. esp' \in Esp /\ esp'.conn = 0 /\ ~esp'.welcomed
  BY <1>1 DEF Reboot, Esp
<1>3. <<>> \in Seq({"welcome", "get"})
  OBVIOUS
<1>4. down' \in Down /\ (\A j \in Conns : down'[j] = <<>>)
      /\ UNCHANGED <<up, handler, entry, game, shown, holes, lost>> /\ lost \in Nat
  BY <1>3, Types DEF IInv, Reboot, Down
<1> QED  BY <1>2, <1>4, EspQuiet

\* What is sent is a sequence of events.
LEMMA SentEvents ==
  ASSUME NEW e \in Event, NEW fails \in BOOLEAN
  PROVE  Sent(e, fails) \in Seq(Event)
<1>1. <<e>> \in Seq(Event) /\ <<>> \in Seq(Event)
  OBVIOUS
<1> QED  BY <1>1 DEF Sent

LEMMA ChangeInv == ASSUME IInv, Change PROVE IInv'
<1>1. PICK s \in Squares, c \in Contents :
        LET board == [esp.squares EXCEPT ![s] = c]
        IN  IF ~esp.welcomed
            THEN esp' = [esp EXCEPT !.squares = board] /\ UNCHANGED <<up, lost>>
            ELSE \E fails \in BOOLEAN :
                /\ esp' = [esp EXCEPT !.squares = board, !.seq = (@ + 1) % SeqMod]
                /\ up' = [up EXCEPT ![esp.conn] =
                            @ \o Sent(Numbered(1, "sensor", s, board), fails)]
                /\ Charge(fails)
  BY DEF Change
<1>2. UNCHANGED <<down, handler, entry, game, shown, holes>>
  BY DEF Change
<1> DEFINE board == [esp.squares EXCEPT ![s] = c]
<1>3. esp \in Esp /\ board \in Boards /\ down \in Down /\ lost \in Nat
  BY Types DEF IInv, Esp, Boards
<1>4. CASE ~esp.welcomed
  <2>1. esp' = [esp EXCEPT !.squares = board] /\ UNCHANGED <<up, lost>> /\ WelcomedIsOpen
    BY <1>1, <1>4 DEF IInv
  <2> HIDE DEF board
  <2>2. esp' \in Esp /\ esp'.conn = esp.conn /\ esp'.welcomed = esp.welcomed
    BY <1>3, <2>1 DEF Esp
  <2> QED  BY <1>2, <1>3, <1>4, <2>1, <2>2, EspQuiet
<1>5. CASE esp.welcomed
  <2> DEFINE e == Numbered(1, "sensor", s, board)
             n == (esp.seq + 1) % SeqMod
  <2>1. PICK fails \in BOOLEAN :
          /\ esp' = [esp EXCEPT !.squares = board, !.seq = n]
          /\ up' = [up EXCEPT ![esp.conn] = @ \o Sent(e, fails)]
          /\ Charge(fails)
    BY <1>1, <1>5
  <2>2. n \in Seqs /\ e \in Event /\ lost' \in Nat
    BY <1>3, <2>1, NumberType, NumberedType, ChargeType DEF IInv
  <2> HIDE DEF board, e, n
  <2>3. esp' \in Esp /\ esp'.conn = esp.conn
    BY <1>3, <2>1, <2>2 DEF Esp
  <2>4. Sent(e, fails) \in Seq(Event)
    BY <2>2, SentEvents
  <2>5. esp.conn \in Conns /\ handler[esp.conn] \notin {"none", "hello"}
    <3>1. esp.conn # 0
      BY <1>5 DEF IInv, WelcomedIsOpen
    <3> QED  BY <1>5, <3>1, WelcomeIsRead
  <2> QED  BY <1>2, <1>3, <2>1, <2>2, <2>3, <2>4, <2>5, EspStep
<1> QED  BY <1>4, <1>5

LEMMA PublishInv ==
  ASSUME IInv, NEW t \in {"snapshot", "node", "status"}, NEW fails \in BOOLEAN,
         Publish(t, fails), esp.welcomed,
         UNCHANGED <<handler, entry, game, shown, holes>>,
         down' \in Down, \A j \in Conns : down[j] = <<>> => down'[j] = <<>>
  PROVE  IInv'
<1> DEFINE s == CHOOSE x \in Squares : TRUE
           e == Numbered(1, t, s, esp.squares)
           n == (esp.seq + 1) % SeqMod
<1>1. s \in Squares /\ esp \in Esp /\ esp.squares \in Boards
  BY ConstantsOK, Types DEF IInv, Esp
<1>2. n \in Seqs /\ e \in Event
  BY <1>1, NumberType, NumberedType DEF IInv
<1>3. esp' = [esp EXCEPT !.seq = n] /\ up' = [up EXCEPT ![esp.conn] = @ \o Sent(e, fails)]
      /\ lost' \in Nat
  BY ChargeType DEF Publish, IInv
<1> HIDE DEF s, e, n
<1>4. esp' \in Esp /\ esp'.conn = esp.conn
  BY <1>1, <1>2, <1>3 DEF Esp
<1>5. Sent(e, fails) \in Seq(Event)
  BY <1>2, SentEvents
<1>6. esp.conn \in Conns /\ handler[esp.conn] \notin {"none", "hello"}
  BY WelcomeIsRead DEF IInv, WelcomedIsOpen
<1> QED  BY <1>3, <1>4, <1>5, <1>6, EspStep

LEMMA ReportInv == ASSUME IInv, NEW t \in {"node", "status"}, Report(t) PROVE IInv'
<1>1. PICK fails \in BOOLEAN : Publish(t, fails)
  BY DEF Report
<1>2. esp.welcomed /\ UNCHANGED <<down, handler, entry, game, shown, holes>> /\ down \in Down
  BY Types DEF Report, IInv
<1> QED  BY <1>1, <1>2, PublishInv

LEMMA OnGetInv == ASSUME IInv, OnGet PROVE IInv'
<1>1. esp.conn # 0 /\ down[esp.conn] # <<>> /\ down' = [down EXCEPT ![esp.conn] = Tail(@)]
      /\ UNCHANGED <<handler, entry, game, shown, holes>>
  BY DEF OnGet
<1>2. esp.conn \in Conns
  BY <1>1, WelcomeIsRead
<1>3. down' \in Down /\ \A j \in Conns : down[j] = <<>> => down'[j] = <<>>
  <2>1. down \in Down /\ down' \in Down
    BY <1>1, <1>2, DownKept, Types DEF IInv
  <2>2. \A j \in Conns \ {esp.conn} : down'[j] = down[j]
    BY <1>1, <2>1 DEF Down
  <2> QED  BY <1>1, <2>1, <2>2
<1>4. CASE esp.welcomed
  <2>1. PICK fails \in BOOLEAN : Publish("snapshot", fails)
    BY <1>4 DEF OnGet
  <2> QED  BY <1>1, <1>3, <1>4, <2>1, PublishInv
<1>5. CASE ~esp.welcomed
  <2>1. UNCHANGED <<esp, up, lost>> /\ esp \in Esp /\ lost \in Nat
    BY <1>5, Types DEF OnGet, IInv
  <2> QED  BY <1>1, <1>3, <1>5, <2>1, EspQuiet
<1> QED  BY <1>4, <1>5

LEMMA ConcatThree ==
  ASSUME NEW S, NEW a \in Seq(S), NEW b \in Seq(S), NEW c \in Seq(S)
  PROVE  b \o c \in Seq(S) /\ (a \o b) \o c = a \o (b \o c)
<1>1. b \o c \in Seq(S)
  BY ConcatProperties
<1>2. a \o (b \o c) = (a \o b) \o c
  BY ConcatAssociative
<1> QED  BY <1>1, <1>2

LEMMA OnWelcomeInv == ASSUME IInv, OnWelcome PROVE IInv'
<1> DEFINE any == CHOOSE s \in Squares : TRUE
           e1 == Numbered(1, "snapshot", any, esp.squares)
           e2 == Numbered(2, "node", any, esp.squares)
           n == (esp.seq + 2) % SeqMod
<1>1. any \in Squares /\ esp \in Esp /\ esp.squares \in Boards /\ up \in Up
  BY ConstantsOK, Types DEF IInv, Esp
<1>2. n \in Seqs /\ e1 \in Event /\ e2 \in Event
  BY <1>1, NumberType, NumberedType DEF IInv
<1>3. PICK one \in BOOLEAN, other \in BOOLEAN :
        /\ esp' = [esp EXCEPT !.welcomed = TRUE, !.seq = n]
        /\ up' = [up EXCEPT ![esp.conn] = @ \o Sent(e1, one) \o Sent(e2, other)]
        /\ Charge(one \/ other)
  BY DEF OnWelcome
<1>4. esp.conn # 0 /\ down[esp.conn] # <<>> /\ down' = [down EXCEPT ![esp.conn] = Tail(@)]
      /\ UNCHANGED <<handler, entry, game, shown, holes>>
  BY DEF OnWelcome
<1> HIDE DEF any, e1, e2, n
<1>5. esp' \in Esp /\ esp'.conn = esp.conn
  BY <1>1, <1>2, <1>3 DEF Esp
<1>6. Sent(e1, one) \in Seq(Event) /\ Sent(e2, other) \in Seq(Event)
  BY <1>2, SentEvents
<1> DEFINE q == Sent(e1, one) \o Sent(e2, other)
<1>7. esp.conn \in Conns /\ handler[esp.conn] \notin {"none", "hello"}
  BY <1>4, WelcomeIsRead
<1>8. up[esp.conn] \in Seq(Event)
  BY <1>7, OnlyEvents
<1>9. q \in Seq(Event) /\ up[esp.conn] \o Sent(e1, one) \o Sent(e2, other) = up[esp.conn] \o q
  <2> DEFINE a == up[esp.conn]
             b == Sent(e1, one)
             c == Sent(e2, other)
  <2>1. a \in Seq(Event) /\ b \in Seq(Event) /\ c \in Seq(Event)
    BY <1>6, <1>8
  <2> HIDE DEF a, b, c
  <2>2. b \o c \in Seq(Event) /\ (a \o b) \o c = a \o (b \o c)
    BY <2>1, ConcatThree
  <2> QED  BY <2>2 DEF a, b, c
<1>10. up' = [up EXCEPT ![esp.conn] = @ \o q]
  BY <1>3, <1>9
<1>11. lost' \in Nat
  BY <1>3, ChargeType DEF IInv
<1>12. down' \in Down /\ \A j \in Conns : down[j] = <<>> => down'[j] = <<>>
  <2>1. down \in Down /\ down' \in Down
    BY <1>4, <1>7, DownKept, Types DEF IInv
  <2>2. \A j \in Conns \ {esp.conn} : down'[j] = down[j]
    BY <1>4, <2>1 DEF Down
  <2> QED  BY <1>4, <2>1, <2>2
<1> HIDE DEF q
<1> QED  BY <1>4, <1>5, <1>7, <1>9, <1>10, <1>11, <1>12, EspStep

-----------------------------------------------------------------------------
LEMMA GreetInv == ASSUME IInv, NEW k \in Conns, Greet(k) PROVE IInv'
<1>1. handler[k] = "hello" /\ up' = [up EXCEPT ![k] = Tail(@)] /\ Send(k, "welcome")
      /\ handler' = [handler EXCEPT ![k] = "greeted"]
      /\ UNCHANGED <<esp, entry, game, shown, holes, lost>>
  BY DEF Greet
<1>2. up \in Up /\ down \in Down /\ handler \in [Conns -> Stage] /\ up[k] = <<[type |-> "hello"]>>
  BY <1>1, Types DEF IInv, HelloFirst
<1>3. Tail(up[k]) = <<>>
  BY <1>2
<1>4. <<>> \in Seq(Event) /\ <<>> \in Seq(Event \cup Hello)
  OBVIOUS
<1>5. up' \in Up /\ up'[k] = <<>> /\ \A j \in Conns \ {k} : up'[j] = up[j]
  BY <1>1, <1>2, <1>3, <1>4 DEF Up
<1>6. down' \in Down /\ \A j \in Conns \ {k} : down'[j] = down[j]
  BY <1>1, <1>2, SendType DEF IInv, Down, Send
<1>7. OnlineIsRead'
  BY <1>1, <1>2 DEF IInv, OnlineIsRead, Owner
<1>8. "greeted" \in Stage \ {"none", "hello"}
  BY DEF Stage
<1> QED  BY <1>1, <1>4, <1>5, <1>6, <1>7, <1>8, Types, HandlerStep DEF IInv

LEMMA RegisterInv == ASSUME IInv, NEW k \in Conns, Register(k) PROVE IInv'
<1>1. handler[k] = "greeted" /\ entry' = [session |-> k, connected |-> TRUE, last |-> None]
      /\ handler' = [handler EXCEPT ![k] = "reading"]
      /\ holes' = {"reconnect"}
      /\ UNCHANGED <<esp, up, down, game, shown, lost>>
  BY DEF Register, link
<1>2. up \in Up /\ down \in Down /\ handler \in [Conns -> Stage] /\ up[k] \in Seq(Event)
  BY <1>1, Types, OnlyEvents DEF IInv
<1>3. entry' \in Entry \cup {None}
  BY <1>1 DEF Entry
<1>4. OnlineIsRead'
  BY <1>1, <1>2 DEF OnlineIsRead, Owner
<1>5. "reading" \in Stage \ {"none", "hello"} /\ holes' \subseteq Hole
  BY <1>1 DEF Stage, Hole
<1> QED  BY <1>1, <1>2, <1>3, <1>4, <1>5, Types, HandlerStep DEF IInv

LEMMA RefuseInv == ASSUME IInv, NEW k \in Conns, Refuse(k) PROVE IInv'
<1>1. handler[k] = "greeted" /\ entry = None /\ entry' = None
      /\ handler' = [handler EXCEPT ![k] = "done"]
      /\ up' = [up EXCEPT ![k] = <<>>] /\ down' = [down EXCEPT ![k] = <<>>]
      /\ UNCHANGED <<esp, game, shown, holes, lost>>
  BY DEF Refuse
<1>2. up \in Up /\ down \in Down /\ handler \in [Conns -> Stage] /\ <<>> \in Seq(Event)
  BY Types DEF IInv
<1>3. up' \in Up /\ up'[k] = <<>> /\ \A j \in Conns \ {k} : up'[j] = up[j]
  BY <1>1, <1>2, EmptiedType DEF Up
<1>4. down' \in Down /\ \A j \in Conns \ {k} : down'[j] = down[j]
  BY <1>1, <1>2, EmptiedType DEF Down
<1>5. OnlineIsRead'
  BY <1>1 DEF OnlineIsRead, Owner
<1>6. "done" \in Stage \ {"none", "hello"}
  BY DEF Stage
<1> QED  BY <1>1, <1>2, <1>3, <1>4, <1>5, <1>6, Types, HandlerStep DEF IInv

LEMMA IngestInv == ASSUME IInv, NEW k \in Conns, Ingest(k) PROVE IInv'
<1>1. handler[k] = "reading" /\ up[k] # <<>> /\ UNCHANGED <<esp, down, game, shown, holes, lost>>
  BY DEF Ingest
<1>2. up \in Up /\ down \in Down /\ handler \in [Conns -> Stage] /\ up[k] \in Seq(Event)
      /\ entry \in Entry \cup {None}
  BY <1>1, Types, OnlyEvents DEF IInv
<1> DEFINE e == Head(up[k])
<1>3. e \in Event /\ Tail(up[k]) \in Seq(Event)
  BY <1>1, <1>2
<1>4. CASE Owner(k)
  <2>1. PICK st \in {"handing", "asking"} : handler' = [handler EXCEPT ![k] = st]
    BY <1>4 DEF Ingest
  <2>2. entry' = [entry EXCEPT !.last = e.seq] /\ up' = up
    BY <1>4 DEF Ingest
  <2>3. e.seq \in Seqs /\ entry \in Entry
    BY <1>2, <1>3, <1>4 DEF Event, Owner
  <2> HIDE DEF e
  <2>4. entry' \in Entry /\ entry'.session = entry.session /\ entry'.connected = entry.connected
    BY <2>2, <2>3 DEF Entry
  <2>5. OnlineIsRead'
    BY <1>1, <1>2, <1>4, <2>1, <2>4 DEF IInv, OnlineIsRead, Owner
  <2>6. st \in Stage \ {"none", "hello"}
    BY DEF Stage
  <2> QED  BY <1>1, <1>2, <2>1, <2>2, <2>4, <2>5, <2>6, Types, HandlerStep DEF IInv
<1>5. CASE ~Owner(k)
  <2>1. up' = [up EXCEPT ![k] = Tail(@)] /\ UNCHANGED <<entry, handler>>
    BY <1>5 DEF Ingest
  <2>2. \A r \in Seq(Event) : r \in Seq(Event \cup Hello)
    OBVIOUS
  <2> HIDE DEF e
  <2>3. up' \in Up /\ up'[k] \in Seq(Event) /\ \A j \in Conns \ {k} : up'[j] = up[j]
    BY <1>2, <1>3, <2>1, <2>2 DEF Up
  <2>4. handler' = [handler EXCEPT ![k] = "reading"]
    BY <1>1, <1>2, <2>1
  <2>5. OnlineIsRead'
    BY <2>1 DEF IInv, OnlineIsRead, Owner
  <2>6. "reading" \in Stage \ {"none", "hello"}
    BY DEF Stage
  <2> QED  BY <1>1, <1>2, <2>1, <2>3, <2>4, <2>5, <2>6, Types, HandlerStep DEF IInv
<1> QED  BY <1>4, <1>5

LEMMA HeardType ==
  ASSUME NEW g \in Game, NEW e \in Event, NEW gap \in BOOLEAN
  PROVE  Heard(g, e, gap) \in Game
<1> DEFINE sq == CASE e.type = "snapshot" -> e.board
                   [] e.type = "sensor"   -> [g.squares EXCEPT ![e.square] = e.board[e.square]]
                   [] OTHER               -> g.squares
<1>1. g.squares \in Boards /\ e.board \in Boards /\ g.have \in BOOLEAN /\ g.torn \in BOOLEAN
      /\ e.square \in Squares
  BY DEF Game, Event
<1>2. [g.squares EXCEPT ![e.square] = e.board[e.square]] \in Boards
  BY <1>1 DEF Boards
<1>3. sq \in Boards
  BY <1>1, <1>2
<1>4. Heard(g, e, gap) = [have |-> g.have \/ e.type = "snapshot",
                          torn |-> (g.torn \/ gap) /\ e.type # "snapshot", squares |-> sq]
  BY DEF Heard
<1> HIDE DEF sq
<1> QED  BY <1>1, <1>3, <1>4 DEF Game

LEMMA TellType ==
  ASSUME TypeOK, NEW k \in Conns, NEW e \in Event, NEW gap \in BOOLEAN, Tell(k, e, gap)
  PROVE  game' \in Game /\ shown' \in Boards /\ holes' \subseteq Hole
<1>1. game \in Game /\ shown \in Boards /\ holes \subseteq Hole
  BY Types
<1>2. Missed(k, e, gap) \subseteq Hole
  BY DEF Missed, Hole
<1>3. holes' \subseteq Hole
  BY <1>1, <1>2 DEF Tell, Holes
<1>4. e.board \in Boards /\ Empty \in Boards
  BY ConstantsOK DEF Event
<1>5. Heard(game, e, gap) \in Game
  BY <1>1, HeardType
<1>6. game' \in Game /\ shown' \in Boards
  BY <1>1, <1>4, <1>5 DEF Tell
<1> QED  BY <1>3, <1>6

LEMMA PassOnInv == ASSUME IInv, NEW k \in Conns, PassOn(k) PROVE IInv'
<1> DEFINE e == Head(up[k])
           gap == handler[k] = "asking"
<1>1. handler[k] \in {"handing", "asking"} /\ handler' = [handler EXCEPT ![k] = "reading"]
      /\ up' = [up EXCEPT ![k] = Tail(@)]
  BY DEF PassOn, InHand
<1>2. Tell(k, e, gap) /\ UNCHANGED <<esp, entry, lost>>
  BY DEF PassOn
<1>3. up \in Up /\ down \in Down /\ handler \in [Conns -> Stage] /\ up[k] \in Seq(Event)
      /\ up[k] # <<>>
  BY <1>1, Types, OnlyEvents DEF IInv
<1>4. e \in Event /\ Tail(up[k]) \in Seq(Event) /\ gap \in BOOLEAN
  BY <1>3
<1>5. down' \in Down /\ \A j \in Conns \ {k} : down'[j] = down[j]
  <2>1. Send(k, "get") \/ UNCHANGED down
    BY DEF PassOn
  <2> QED  BY <1>3, <2>1, SendType DEF IInv, Down, Send
<1>6. \A r \in Seq(Event) : r \in Seq(Event \cup Hello)
  OBVIOUS
<1> HIDE DEF e, gap
<1>7. game' \in Game /\ shown' \in Boards /\ holes' \subseteq Hole
  BY <1>2, <1>4, TellType DEF IInv
<1>8. up' \in Up /\ up'[k] \in Seq(Event) /\ \A j \in Conns \ {k} : up'[j] = up[j]
  BY <1>1, <1>3, <1>4, <1>6 DEF Up
<1>9. OnlineIsRead'
  BY <1>1, <1>2, <1>3 DEF IInv, OnlineIsRead, Owner
<1>10. "reading" \in Stage \ {"none", "hello"}
  BY DEF Stage
<1> QED  BY <1>1, <1>2, <1>5, <1>7, <1>8, <1>9, <1>10, Types, HandlerStep DEF IInv

LEMMA CloseInv == ASSUME IInv, NEW k \in Conns, Close(k) PROVE IInv'
<1>1. handler[k] \in {"hello", "reading"} /\ handler' = [handler EXCEPT ![k] = "done"]
      /\ up' = [up EXCEPT ![k] = <<>>] /\ down' = [down EXCEPT ![k] = <<>>]
      /\ UNCHANGED <<esp, game, shown, holes, lost>>
  BY DEF Close
<1>2. up \in Up /\ down \in Down /\ handler \in [Conns -> Stage] /\ <<>> \in Seq(Event)
      /\ entry \in Entry \cup {None}
  BY Types DEF IInv
<1>3. up' \in Up /\ up'[k] = <<>> /\ \A j \in Conns \ {k} : up'[j] = up[j]
  BY <1>1, <1>2, EmptiedType DEF Up
<1>4. down' \in Down /\ \A j \in Conns \ {k} : down'[j] = down[j]
  BY <1>1, <1>2, EmptiedType DEF Down
<1>5. handler'[k] = "done" /\ \A j \in Conns \ {k} : handler'[j] = handler[j]
  BY <1>1, <1>2
<1>6. entry' \in Entry \cup {None} /\ OnlineIsRead'
  <2>1. CASE handler[k] = "reading" /\ Owner(k)
    <3>1. entry' = [entry EXCEPT !.connected = FALSE] /\ entry \in Entry
      BY <1>2, <2>1 DEF Close, MarkDisconnected, Owner
    <3>2. entry' \in Entry /\ entry'.session = entry.session /\ entry'.connected = FALSE
      BY <3>1 DEF Entry
    <3> QED  BY <1>5, <2>1, <3>2 DEF OnlineIsRead, Owner
  <2>2. CASE ~(handler[k] = "reading" /\ Owner(k))
    <3>1. entry' = entry
      BY <2>2 DEF Close, MarkDisconnected
    <3> QED  BY <1>1, <1>2, <1>5, <2>2, <3>1 DEF IInv, OnlineIsRead, Owner
  <2> QED  BY <2>1, <2>2
<1>7. "done" \in Stage \ {"none", "hello"}
  BY DEF Stage
<1> QED  BY <1>1, <1>2, <1>3, <1>4, <1>6, <1>7, Types, HandlerStep DEF IInv

LEMMA SweepInv == ASSUME IInv, Sweep PROVE IInv'
<1>1. entry' = None /\ UNCHANGED <<esp, up, down, handler, game, shown, holes, lost>>
  BY DEF Sweep, link
<1>2. OnlineIsRead'
  BY <1>1 DEF OnlineIsRead, Owner
<1> QED  BY <1>1, <1>2, Types, RegistryStep DEF IInv

LEMMA RequestSnapshotsInv == ASSUME IInv, RequestSnapshots PROVE IInv'
<1> DEFINE k == entry.session
<1>1. entry # None /\ entry.connected /\ Send(k, "get")
      /\ UNCHANGED <<esp, up, handler, entry, game, shown, holes, lost>>
  BY DEF RequestSnapshots
<1>2. entry \in Entry /\ down \in Down
  BY <1>1, Types DEF IInv
<1>3. k \in Conns /\ handler[k] \in {"reading", "handing", "asking"}
  BY <1>1, <1>2 DEF IInv, OnlineIsRead, Owner, Entry
<1> HIDE DEF k
<1>4. down' \in Down /\ \A j \in Conns \ {k} : down'[j] = down[j]
  BY <1>1, <1>2, <1>3, SendType DEF IInv, Down, Send
<1>5. \A j \in Conns : handler[j] \in {"none", "hello"} => down'[j] = down[j]
  BY <1>3, <1>4
<1>6. OnlineIsRead'
  BY <1>1 DEF IInv, OnlineIsRead, Owner
<1> QED  BY <1>1, <1>4, <1>5, <1>6, Types, RegistryStep DEF IInv

LEMMA VouchInv == ASSUME IInv, Vouch PROVE IInv'
<1>1. game' = [game EXCEPT !.torn = FALSE]
      /\ UNCHANGED <<esp, up, down, handler, entry, shown, lost>>
  BY DEF Vouch, link
<1>2. game \in Game /\ holes \subseteq Hole
  BY Types DEF IInv
<1>3. game' \in Game
  BY <1>1, <1>2 DEF Game
<1>4. holes' \subseteq Hole
  BY <1>2 DEF Vouch, Hole
<1>5. OnlineIsRead'
  BY <1>1 DEF IInv, OnlineIsRead, Owner
<1> QED  BY <1>1, <1>3, <1>4, <1>5, Types, RegistryStep DEF IInv

LEMMA StutterInv == ASSUME IInv, UNCHANGED vars PROVE IInv'
BY DEF IInv, TypeOK, OnlineIsRead, HelloFirst, WelcomedIsOpen, Owner, vars, link

-----------------------------------------------------------------------------
LEMMA Inductive == Spec => []IInv
<1>1. ASSUME IInv, [Next]_vars PROVE IInv'
  <2>1. CASE Connect  BY <1>1, <2>1, ConnectInv
  <2>2. CASE Disconnect  BY <1>1, <2>2, DisconnectInv
  <2>3. CASE Reboot  BY <1>1, <2>3, RebootInv
  <2>4. CASE Change  BY <1>1, <2>4, ChangeInv
  <2>5. CASE Report("node") \/ Report("status")  BY <1>1, <2>5, ReportInv
  <2>6. CASE OnWelcome  BY <1>1, <2>6, OnWelcomeInv
  <2>7. CASE OnGet  BY <1>1, <2>7, OnGetInv
  <2>8. ASSUME NEW k \in Conns, Greet(k) PROVE IInv'  BY <1>1, <2>8, GreetInv
  <2>9. ASSUME NEW k \in Conns, Register(k) PROVE IInv'  BY <1>1, <2>9, RegisterInv
  <2>10. ASSUME NEW k \in Conns, Refuse(k) PROVE IInv'  BY <1>1, <2>10, RefuseInv
  <2>11. ASSUME NEW k \in Conns, Ingest(k) PROVE IInv'  BY <1>1, <2>11, IngestInv
  <2>12. ASSUME NEW k \in Conns, PassOn(k) PROVE IInv'  BY <1>1, <2>12, PassOnInv
  <2>13. ASSUME NEW k \in Conns, Close(k) PROVE IInv'  BY <1>1, <2>13, CloseInv
  <2>14. CASE Sweep  BY <1>1, <2>14, SweepInv
  <2>15. CASE RequestSnapshots  BY <1>1, <2>15, RequestSnapshotsInv
  <2>16. CASE Vouch  BY <1>1, <2>16, VouchInv
  <2>17. CASE UNCHANGED vars  BY <1>1, <2>17, StutterInv
  <2> QED
    BY <1>1, <2>1, <2>2, <2>3, <2>4, <2>5, <2>6, <2>7, <2>8, <2>9, <2>10, <2>11, <2>12,
       <2>13, <2>14, <2>15, <2>16, <2>17
    DEF Next, Device, Server
<1> QED  BY <1>1, InitInv, PTL DEF Spec

\* Every variable keeps its type, whatever the ESP, the sockets and the server do.
THEOREM LinkTypeCorrect == Spec => []TypeOK
<1>1. IInv => TypeOK  BY DEF IInv
<1> QED  BY <1>1, Inductive, PTL

\* The registry calls a device online exactly while the session that owns its entry
\* is reading its socket (register_device, mark_disconnected).
THEOREM OnlineMeansRead == Spec => []OnlineIsRead
<1>1. IInv => OnlineIsRead  BY DEF IInv
<1> QED  BY <1>1, Inductive, PTL

\* No event reaches the server before the hello, and the ESP is welcome on no socket
\* whose hello is unread (publishSensor and the others, read_hello).
THEOREM HelloComesFirst == Spec => []HelloFirst
<1>1. IInv => HelloFirst  BY DEF IInv
<1> QED  BY <1>1, Inductive, PTL

-----------------------------------------------------------------------------
(***************************************************************************)
(* What the game trusts.  A number tells its event from the ones before it *)
(* as long as fewer events are lost than there are numbers, so the board   *)
(* can be followed from the event the registry remembers, over those still *)
(* on the owner's socket, to the ESP.                                      *)
(***************************************************************************)
LEMMA ModStep ==
  ASSUME NEW S \in Nat \ {0}, NEW x \in Nat
  PROVE  ((x % S) + 1) % S = (x + 1) % S
<1> DEFINE q == x \div S
           r == x % S
<1>1. x = S * q + r /\ q \in Int /\ r \in 0..(S - 1)
  OBVIOUS
<1> HIDE DEF q, r
<1>2. CASE r + 1 < S
  <2>1. x + 1 = S * q + (r + 1) /\ r + 1 \in 0..(S - 1)
    BY <1>1, <1>2
  <2>2. (r + 1) % S = r + 1
    BY <2>1
  <2>3. \A y \in Nat, v \in 0..(S - 1) : y = S * q + v => y % S = v
    BY <1>1
  <2> QED  BY <2>1, <2>2, <2>3 DEF r
<1>3. CASE r + 1 = S
  <2>1. x + 1 = S * (q + 1) + 0 /\ q + 1 \in Int /\ 0 \in 0..(S - 1)
    BY <1>1, <1>3
  <2>2. (r + 1) % S = 0
    BY <1>3
  <2>3. \A y \in Nat, p \in Int : y = S * p + 0 => y % S = 0
    OBVIOUS
  <2>4. x + 1 \in Nat
    OBVIOUS
  <2>5. (x + 1) % S = 0
    BY <2>1, <2>3, <2>4
  <2> QED  BY <2>2, <2>5 DEF r
<1> QED  BY <1>1, <1>2, <1>3

\* Fewer than SeqMod numbers from one on, no number comes twice.
LEMMA ModTurn ==
  ASSUME NEW S \in Nat \ {0}, NEW n \in 0..(S - 1), NEW d \in 0..(S - 1)
  PROVE  (n + d) % S = IF n + d < S THEN n + d ELSE n + d - S
<1>1. \A x \in 0..(S - 1) : x % S = x
  OBVIOUS
<1>2. \A x \in S..(2 * S - 1) : x % S = x - S
  OBVIOUS
<1> QED  BY <1>1, <1>2

LEMMA ModSame ==
  ASSUME NEW S \in Nat \ {0}, NEW n \in 0..(S - 1), NEW d \in 0..(S - 1),
         (((n + d) % S) + 1) % S = (n + 1) % S
  PROVE  d = 0
<1>1. (n + d + 1) % S = (n + 1) % S
  <2>1. n + d \in Nat
    OBVIOUS
  <2>2. (((n + d) % S) + 1) % S = ((n + d) + 1) % S
    BY <2>1, ModStep
  <2> QED  BY <2>2
<1>2. CASE d + 1 < S
  <2>1. (n + (d + 1)) % S = IF n + (d + 1) < S THEN n + (d + 1) ELSE n + (d + 1) - S
    <3>1. d + 1 \in 0..(S - 1)
      BY <1>2
    <3> QED  BY <3>1, ModTurn
  <2>2. (n + 1) % S = IF n + 1 < S THEN n + 1 ELSE n + 1 - S
    <3>1. 1 \in 0..(S - 1)
      BY <1>2
    <3> QED  BY <3>1, ModTurn
  <2>3. n + (d + 1) = n + d + 1
    OBVIOUS
  <2> QED  BY <1>1, <2>1, <2>2, <2>3
<1>3. CASE d + 1 = S
  <2>1. n + d + 1 \in S..(2 * S - 1)
    BY <1>3
  <2>2. (n + d + 1) % S = n
    BY <1>3, <2>1
  <2>3. CASE S = 1
    BY <1>3, <2>3
  <2>4. CASE S > 1
    <3>1. (n + 1) % S = IF n + 1 < S THEN n + 1 ELSE n + 1 - S
      <4>1. 1 \in 0..(S - 1)
        BY <2>4
      <4> QED  BY <4>1, ModTurn
    <3> QED  BY <1>1, <2>2, <2>4, <3>1
  <2> QED  BY <2>3, <2>4
<1> QED  BY <1>2, <1>3

\* An event may change one square, and only a sensor's does.
Step(b, e) ==
    \A s \in Squares : e.board[s] = b[s] \/ (e.type = "sensor" /\ s = e.square)

\* An event numbered next after the one that left the board b.
Succeeds(n, b, e) == e.seq = (n + 1) % SeqMod => Step(b, e)

\* How far the ESP is past the last event on its socket: as many numbers as it
\* lost events, and if it lost none, its board is that event's.
Ahead(k, n, b) ==
    esp.conn = k /\ esp.welcomed =>
        \E d \in 0..lost : esp.seq = (n + d) % SeqMod /\ (d = 0 => esp.squares = b)

Follows(k, n, b, q) == IF q = <<>> THEN Ahead(k, n, b) ELSE Succeeds(n, b, q[1])

TrailAt(k, i) ==
    IF i = Len(up[k]) THEN Ahead(k, up[k][i].seq, up[k][i].board)
    ELSE Succeeds(up[k][i].seq, up[k][i].board, up[k][i + 1])

Trail(k) == \A i \in 1..Len(up[k]) : TrailAt(k, i)

\* The welcome is the first the ESP gets on a socket, and its events follow it.
WelcomeOnce(k) ==
    \A i \in DOMAIN down[k] :
        down[k][i] = "welcome" => i = 1 /\ ~(esp.conn = k /\ esp.welcomed)

SocketInv(k) ==
    /\ handler[k] \notin {"none", "hello"} =>
         /\ Trail(k)
         /\ esp.conn = k /\ ~esp.welcomed => up[k] = <<>>
    /\ WelcomeOnce(k)

\* Without a hole, shown is the board of the event the registry remembers.
Known(k) ==
    /\ entry.last # None
    /\ handler[k] = "reading" => Follows(k, entry.last, shown, up[k])
    /\ handler[k] = "handing" => up[k][1].type = "snapshot" \/ Step(shown, up[k][1])

OwnerInv(k) ==
    Owner(k) =>
        /\ handler[k] \notin {"none", "hello", "greeted"}
        /\ handler[k] \in {"handing", "asking"} => entry.last = up[k][1].seq
        /\ handler[k] = "asking" => up[k][1].type # "snapshot"
        /\ esp.conn = k /\ ~esp.welcomed => entry.last = None
        /\ entry.connected /\ holes = {} => Known(k)

TInv ==
    /\ lost <= MaxLost
    /\ \A k \in Conns : SocketInv(k) /\ OwnerInv(k)
    /\ TrustedIsTrue

-----------------------------------------------------------------------------
\* The next event goes out: its number is the ESP's next.
LEMMA AheadSent ==
  ASSUME IInv, lost <= MaxLost, NEW k \in Conns, NEW n \in Seqs, NEW b, Ahead(k, n, b),
         esp.conn = k, esp.welcomed,
         NEW e \in Event, e.seq = (esp.seq + 1) % SeqMod, Step(esp.squares, e)
  PROVE  Succeeds(n, b, e)
<1>1. SeqMod \in Nat \ {0} /\ MaxLost < SeqMod /\ MaxLost \in Nat /\ lost \in Nat
  BY ConstantsOK, LossAssumption, BoundsAssumption DEF IInv, TypeOK
<1>2. PICK d \in 0..lost : esp.seq = (n + d) % SeqMod /\ (d = 0 => esp.squares = b)
  BY DEF Ahead
<1>3. d \in 0..(SeqMod - 1) /\ n \in 0..(SeqMod - 1)
  BY <1>1 DEF Seqs
<1>4. (esp.seq + 1) % SeqMod = (n + 1) % SeqMod => d = 0
  BY <1>1, <1>2, <1>3, ModSame
<1> QED  BY <1>2, <1>4 DEF Succeeds

\* It is lost: the ESP is one further ahead.
LEMMA AheadLost ==
  ASSUME IInv, NEW k \in Conns, NEW n \in Seqs, NEW b, Ahead(k, n, b),
         esp.conn = k, esp.welcomed, esp'.seq = (esp.seq + 1) % SeqMod,
         lost' = lost + 1
  PROVE  Ahead(k, n, b)'
<1>1. SeqMod \in Nat \ {0} /\ lost \in Nat /\ n \in Nat
  BY ConstantsOK DEF IInv, TypeOK, Seqs
<1>2. PICK d \in 0..lost : esp.seq = (n + d) % SeqMod /\ (d = 0 => esp.squares = b)
  BY DEF Ahead
<1>3. (esp.seq + 1) % SeqMod = (n + d + 1) % SeqMod
  <2>1. n + d \in Nat
    BY <1>1
  <2>2. (((n + d) % SeqMod) + 1) % SeqMod = ((n + d) + 1) % SeqMod
    BY <1>1, <2>1, ModStep
  <2> QED  BY <1>2, <2>2
<1>4. d + 1 \in 0..lost' /\ d + 1 # 0 /\ n + d + 1 = n + (d + 1)
  BY <1>1
<1> QED  BY <1>3, <1>4 DEF Ahead

\* An event just sent is what the ESP holds.
LEMMA AheadNow ==
  ASSUME NEW k \in Conns, NEW n \in Seqs, NEW b, esp'.seq = n, esp'.squares = b,
         lost' \in Nat
  PROVE  Ahead(k, n, b)'
<1>1. (n + 0) % SeqMod = n
  BY ConstantsOK DEF Seqs
<1>2. 0 \in 0..lost'
  OBVIOUS
<1> QED  BY <1>1, <1>2 DEF Ahead

LEMMA OneMore ==
  ASSUME NEW q \in Seq(Event), NEW e \in Event
  PROVE  /\ q \o <<e>> \in Seq(Event) /\ q \o <<e>> # <<>>
         /\ Len(q \o <<e>>) = Len(q) + 1
         /\ \A i \in 1..Len(q) : (q \o <<e>>)[i] = q[i]
         /\ (q \o <<e>>)[Len(q) + 1] = e
         /\ q = <<>> => (q \o <<e>>)[1] = e
         /\ q # <<>> => (q \o <<e>>)[1] = q[1]
<1>1. q \o <<e>> = Append(q, e)
  OBVIOUS
<1>2. Append(q, e) \in Seq(Event) /\ Len(Append(q, e)) = Len(q) + 1 /\ Len(q) \in Nat
  OBVIOUS
<1>3. /\ \A i \in 1..Len(q) : Append(q, e)[i] = q[i]
      /\ Append(q, e)[Len(q) + 1] = e
  OBVIOUS
<1>4. q = <<>> => Len(q) = 0
  OBVIOUS
<1>5. q # <<>> => 1 \in 1..Len(q)
  BY EmptySeq
<1>6. Append(q, e) # <<>>
  BY <1>2
<1> QED  BY <1>1, <1>2, <1>3, <1>4, <1>5, <1>6

\* The events on a socket are numbered and hold boards.
LEMMA EventTypes ==
  ASSUME NEW e \in Event
  PROVE  e.seq \in Seqs /\ e.board \in Boards /\ e.square \in Squares
         /\ e.type \in {"snapshot", "sensor", "node", "status"}
BY DEF Event

LEMMA TrailSent ==
  ASSUME IInv, lost <= MaxLost, NEW k \in Conns, up[k] \in Seq(Event), Trail(k),
         esp.conn = k, esp.welcomed,
         NEW e \in Event, e.seq = (esp.seq + 1) % SeqMod, Step(esp.squares, e),
         esp'.seq = e.seq, esp'.squares = e.board, lost' \in Nat,
         up'[k] = up[k] \o <<e>>
  PROVE  Trail(k)'
<1> DEFINE q == up[k]
           m == Len(q)
<1>1. /\ m \in Nat /\ Len(up'[k]) = m + 1
      /\ \A i \in 1..m : up'[k][i] = q[i] /\ q[i] \in Event
      /\ up'[k][m + 1] = e
  BY OneMore
<1> SUFFICES ASSUME NEW i \in 1..(m + 1) PROVE TrailAt(k, i)'
  BY <1>1 DEF Trail
<1>2. CASE i = m + 1
  <2>1. e.seq \in Seqs
    BY EventTypes
  <2>2. Ahead(k, e.seq, e.board)'
    BY <2>1, AheadNow
  <2> QED  BY <1>1, <1>2, <2>2 DEF TrailAt, Ahead
<1>3. CASE i = m
  <2>1. i \in 1..m /\ Ahead(k, q[i].seq, q[i].board) /\ q[i].seq \in Seqs
    BY <1>1, <1>3, EventTypes DEF Trail, TrailAt
  <2>2. Succeeds(q[i].seq, q[i].board, e)
    BY <2>1, AheadSent
  <2> QED  BY <1>1, <1>3, <2>1, <2>2 DEF TrailAt
<1>4. CASE i < m
  <2>1. i \in 1..m /\ i + 1 \in 1..m /\ Succeeds(q[i].seq, q[i].board, q[i + 1])
    BY <1>1, <1>4 DEF Trail, TrailAt
  <2> QED  BY <1>1, <1>4, <2>1 DEF TrailAt
<1> QED  BY <1>1, <1>2, <1>3, <1>4

LEMMA TrailLost ==
  ASSUME IInv, NEW k \in Conns, up[k] \in Seq(Event), Trail(k), esp.conn = k, esp.welcomed,
         esp'.seq = (esp.seq + 1) % SeqMod, lost' = lost + 1, up'[k] = up[k]
  PROVE  Trail(k)'
<1> SUFFICES ASSUME NEW i \in 1..Len(up[k]) PROVE TrailAt(k, i)'
  BY DEF Trail
<1>1. CASE i = Len(up[k])
  <2>1. up[k][i] \in Event /\ Ahead(k, up[k][i].seq, up[k][i].board)
    BY <1>1 DEF Trail, TrailAt
  <2> DEFINE n == up[k][i].seq
             b == up[k][i].board
  <2>2. n \in Seqs
    BY <2>1, EventTypes
  <2>3. PICK x \in Seqs, y \in Boards : x = n /\ y = b
    BY <2>1, <2>2, EventTypes
  <2>4. Ahead(k, x, y)'
    BY <2>1, <2>3, AheadLost
  <2> QED  BY <1>1, <2>3, <2>4 DEF TrailAt, Ahead
<1>2. CASE i # Len(up[k])
  BY <1>2 DEF Trail, TrailAt
<1> QED  BY <1>1, <1>2

\* A socket the ESP is not welcomed on after the step, or has left.
LEMMA QuietSocket ==
  ASSUME NEW j \in Conns, SocketInv(j), OwnerInv(j),
         esp'.conn = j => ~esp'.welcomed /\ esp.conn = j /\ ~esp.welcomed,
         UNCHANGED <<handler, entry, shown, holes>>, up'[j] = up[j], WelcomeOnce(j)'
  PROVE  SocketInv(j)' /\ OwnerInv(j)'
<1>1. \A n, b : Ahead(j, n, b)'
  BY DEF Ahead
<1>2. Trail(j) => Trail(j)'
  BY <1>1 DEF Trail, TrailAt
<1>3. SocketInv(j)'
  BY <1>2 DEF SocketInv
<1>4. \A n, b, q : Follows(j, n, b, q) => Follows(j, n, b, q)'
  BY <1>1 DEF Follows
<1>5. Known(j) => Known(j)'
  BY <1>4 DEF Known
<1>6. OwnerInv(j)'
  BY <1>5 DEF OwnerInv, Owner
<1> QED  BY <1>3, <1>6

\* What is read, added or thrown away on the way down leaves the welcome first.
LEMMA TailWelcome ==
  ASSUME IInv, NEW j \in Conns, WelcomeOnce(j), down[j] # <<>>, down'[j] = Tail(down[j])
  PROVE  \A i \in DOMAIN down'[j] : down'[j][i] # "welcome"
<1>1. down[j] \in Seq({"welcome", "get"})
  BY Types DEF IInv, Down
<1>2. /\ Tail(down[j]) \in Seq({"welcome", "get"})
      /\ Len(Tail(down[j])) = Len(down[j]) - 1
      /\ \A i \in 1..Len(Tail(down[j])) : Tail(down[j])[i] = down[j][i + 1]
  BY <1>1, HeadTailProperties
<1>3. DOMAIN down[j] = 1..Len(down[j]) /\ Len(down[j]) \in Nat
      /\ DOMAIN down'[j] = 1..(Len(down[j]) - 1)
  BY <1>1, <1>2
<1>4. \A i \in 1..(Len(down[j]) - 1) : i + 1 \in DOMAIN down[j] /\ i + 1 # 1
  BY <1>3
<1> QED  BY <1>2, <1>3, <1>4 DEF WelcomeOnce

LEMMA KeptWelcome ==
  ASSUME IInv, NEW j \in Conns, WelcomeOnce(j),
         \/ down'[j] \in {down[j], <<>>}
         \/ down[j] # <<>> /\ down'[j] = Tail(down[j])
         \/ down'[j] = Append(down[j], "get"),
         esp'.conn = j /\ esp'.welcomed => esp.conn = j /\ esp.welcomed
  PROVE  WelcomeOnce(j)'
<1>1. down[j] \in Seq({"welcome", "get"})
  BY Types DEF IInv, Down
<1>2. CASE down'[j] \in {down[j], <<>>}
  BY <1>2 DEF WelcomeOnce
<1>3. CASE down[j] # <<>> /\ down'[j] = Tail(down[j])
  BY <1>3, TailWelcome DEF WelcomeOnce
<1>4. CASE down'[j] = Append(down[j], "get")
  <2>1. \A i \in DOMAIN down'[j] : \/ i \in DOMAIN down[j] /\ down'[j][i] = down[j][i]
                                   \/ down'[j][i] = "get"
    BY <1>1, <1>4
  <2> QED  BY <2>1 DEF WelcomeOnce
<1> QED  BY <1>2, <1>3, <1>4

LEMMA TrustKept ==
  ASSUME TrustedIsTrue, UNCHANGED <<entry, game, shown, holes>>
  PROVE  TrustedIsTrue'
BY DEF TrustedIsTrue, Online

-----------------------------------------------------------------------------
\* One event of the ESP's, sent or lost.
LEMMA PublishTrue ==
  ASSUME IInv, TInv, UNCHANGED <<handler, entry, game, shown, holes>>,
         NEW k \in Conns, esp.conn = k, esp.welcomed, esp'.conn = k, esp'.welcomed,
         NEW e \in Event, e.seq = (esp.seq + 1) % SeqMod, Step(esp.squares, e),
         esp'.seq = e.seq, esp'.squares = e.board,
         NEW fails \in BOOLEAN, Charge(fails),
         up' = [up EXCEPT ![k] = @ \o Sent(e, fails)],
         \A j \in Conns : WelcomeOnce(j)'
  PROVE  TInv'
<1>1. k \in Conns /\ handler[k] \notin {"none", "hello"} /\ up \in Up
  BY WelcomeIsRead, Types DEF IInv, WelcomedIsOpen
<1>2. /\ up[k] \in Seq(Event)
      /\ handler[k] \in {"handing", "asking"} => up[k] # <<>>
  BY <1>1, OnlyEvents
<1>3. lost \in Nat /\ lost <= MaxLost /\ MaxLost \in Nat
  BY BoundsAssumption DEF IInv, TypeOK, TInv
<1>4. lost' \in Nat /\ lost' <= MaxLost /\ (IF fails THEN lost' = lost + 1 ELSE lost' = lost)
  BY <1>3 DEF Charge
<1>5. TrustedIsTrue'
  BY TrustKept DEF TInv
<1>6. \A j \in Conns \ {k} : up'[j] = up[j]
  BY <1>1 DEF Up
<1>7. \A j \in Conns \ {k} : SocketInv(j)' /\ OwnerInv(j)'
  <2> SUFFICES ASSUME NEW j \in Conns \ {k} PROVE SocketInv(j)' /\ OwnerInv(j)'
    OBVIOUS
  <2>1. SocketInv(j) /\ OwnerInv(j) /\ esp'.conn # j
    BY DEF TInv
  <2> QED  BY <1>6, <2>1, QuietSocket
<1>8. /\ Trail(k)
      /\ Owner(k) /\ entry.connected /\ holes = {} => Known(k)
  BY <1>1 DEF TInv, SocketInv, OwnerInv
<1>9. entry \in Entry \cup {None}
  BY Types DEF IInv
<1>10. up'[k] = up[k] \o Sent(e, fails)
  BY <1>1 DEF Up
<1>11. /\ Trail(k)'
       /\ up[k] # <<>> => up'[k][1] = up[k][1] /\ up'[k] # <<>>
       /\ Owner(k) /\ entry.last # None /\ Follows(k, entry.last, shown, up[k])
            => Follows(k, entry.last, shown, up[k])'
  <2>1. CASE ~fails
    <3>1. up'[k] = up[k] \o <<e>>
      BY <1>10, <2>1 DEF Sent
    <3>2. Trail(k)'
      BY <1>1, <1>2, <1>3, <1>4, <1>8, <3>1, TrailSent
    <3>3. /\ up'[k] # <<>>
          /\ IF up[k] = <<>> THEN up'[k][1] = e ELSE up'[k][1] = up[k][1]
      BY <1>2, <3>1, OneMore
    <3>4. ASSUME Owner(k), entry.last # None, Follows(k, entry.last, shown, up[k])
          PROVE  Follows(k, entry.last, shown, up[k])'
      <4>1. entry.last \in Seqs
        BY <1>9, <3>4 DEF Owner, Entry
      <4>2. CASE up[k] = <<>>
        <5>1. Ahead(k, entry.last, shown)
          BY <3>4, <4>2 DEF Follows
        <5>2. PICK x \in Seqs, y \in {shown} : x = entry.last /\ y = shown
          BY <4>1
        <5>3. Succeeds(x, y, e)
          BY <1>1, <1>3, <5>1, <5>2, AheadSent
        <5> QED  BY <3>3, <4>2, <5>2, <5>3 DEF Follows
      <4>3. CASE up[k] # <<>>
        BY <3>3, <3>4, <4>3 DEF Follows
      <4> QED  BY <4>2, <4>3
    <3> QED  BY <3>2, <3>3, <3>4
  <2>2. CASE fails
    <3>1. up'[k] = up[k]
      BY <1>2, <1>10, <2>2 DEF Sent
    <3>2. Trail(k)'
      BY <1>1, <1>2, <1>4, <1>8, <2>2, <3>1, TrailLost
    <3>3. ASSUME Owner(k), entry.last # None, Follows(k, entry.last, shown, up[k])
          PROVE  Follows(k, entry.last, shown, up[k])'
      <4>1. entry.last \in Seqs
        BY <1>9, <3>3 DEF Owner, Entry
      <4>2. CASE up[k] = <<>>
        <5>1. Ahead(k, entry.last, shown)
          BY <3>3, <4>2 DEF Follows
        <5>2. PICK x \in Seqs, y \in {shown} : x = entry.last /\ y = shown
          BY <4>1
        <5>3. Ahead(k, x, y)'
          BY <1>1, <1>4, <2>2, <5>1, <5>2, AheadLost
        <5> QED  BY <3>1, <4>2, <5>2, <5>3 DEF Follows, Ahead
      <4>3. CASE up[k] # <<>>
        BY <3>1, <3>3, <4>3 DEF Follows
      <4> QED  BY <4>2, <4>3
    <3> QED  BY <3>1, <3>2, <3>3
  <2> QED  BY <2>1, <2>2
<1>12. SocketInv(k)'
  BY <1>11 DEF SocketInv
<1>13. OwnerInv(k)'
  <2> SUFFICES ASSUME Owner(k) PROVE OwnerInv(k)'
    BY DEF OwnerInv, Owner
  <2>1. OwnerInv(k)
    BY <1>1 DEF TInv
  <2>2. entry.connected /\ holes = {} => Known(k)'
    BY <1>2, <1>8, <1>11 DEF Known
  <2>3. ~(esp'.conn = k /\ ~esp'.welcomed)
    OBVIOUS
  <2> QED  BY <1>2, <1>11, <2>1, <2>2, <2>3 DEF OwnerInv
<1> QED  BY <1>4, <1>5, <1>7, <1>12, <1>13 DEF TInv

\* The ESP stays, or becomes, one nobody has welcomed.
LEMMA QuietTrue ==
  ASSUME IInv, TInv, UNCHANGED <<up, handler, entry, game, shown, holes, lost>>,
         \A j \in Conns : esp'.conn = j => ~esp'.welcomed /\ esp.conn = j /\ ~esp.welcomed,
         \A j \in Conns : down'[j] \in {down[j], <<>>}
                            \/ (down[j] # <<>> /\ down'[j] = Tail(down[j]))
  PROVE  TInv'
<1>1. \A j \in Conns : SocketInv(j)' /\ OwnerInv(j)'
  <2> SUFFICES ASSUME NEW j \in Conns PROVE SocketInv(j)' /\ OwnerInv(j)'
    OBVIOUS
  <2>1. SocketInv(j) /\ OwnerInv(j)
    BY DEF TInv
  <2>2. WelcomeOnce(j)'
    BY <2>1, KeptWelcome DEF SocketInv
  <2> QED  BY <2>1, <2>2, QuietSocket
<1> QED  BY <1>1, TrustKept DEF TInv

LEMMA ConnectTrue == ASSUME IInv, TInv, Connect PROVE TInv'
<1>1. PICK k \in Conns :
        /\ handler[k] = "none"
        /\ esp' = [esp EXCEPT !.conn = k, !.welcomed = FALSE]
        /\ handler' = [handler EXCEPT ![k] = "hello"]
        /\ up' = [up EXCEPT ![k] = <<[type |-> "hello"]>>]
        /\ UNCHANGED <<down, entry, game, shown, holes, lost>>
  BY DEF Connect
<1>2. /\ esp \in Esp /\ up \in Up /\ handler \in [Conns -> Stage] /\ esp.conn = 0
  BY Types DEF IInv, Connect
<1>3. esp'.conn = k /\ ~esp'.welcomed
  BY <1>1, <1>2 DEF Esp
<1>4. handler'[k] = "hello" /\ \A j \in Conns \ {k} : handler'[j] = handler[j] /\ up'[j] = up[j]
  BY <1>1, <1>2 DEF Up
<1>5. \A j \in Conns : SocketInv(j) /\ OwnerInv(j)
  BY DEF TInv
<1>6. \A j \in Conns : WelcomeOnce(j)'
  BY <1>1, <1>3, <1>5 DEF SocketInv, WelcomeOnce
<1>7. SocketInv(k)' /\ OwnerInv(k)'
  <2>1. ~Owner(k)
    BY <1>1, <1>5 DEF OwnerInv
  <2>2. ~Owner(k)'
    BY <1>1, <2>1 DEF Owner
  <2> QED  BY <1>4, <1>6, <2>2 DEF SocketInv, OwnerInv
<1>8. \A j \in Conns \ {k} : SocketInv(j)' /\ OwnerInv(j)'
  <2> SUFFICES ASSUME NEW j \in Conns \ {k} PROVE SocketInv(j)' /\ OwnerInv(j)'
    OBVIOUS
  <2>1. \A n, b : Ahead(j, n, b)'
    BY <1>3 DEF Ahead
  <2>2. Trail(j) => Trail(j)'
    BY <1>4, <2>1 DEF Trail, TrailAt
  <2>3. SocketInv(j)'
    BY <1>3, <1>4, <1>5, <1>6, <2>2 DEF SocketInv
  <2>4. Known(j) => Known(j)'
    BY <1>1, <1>4, <2>1 DEF Known, Follows
  <2>5. OwnerInv(j)'
    BY <1>1, <1>3, <1>4, <1>5, <2>4 DEF OwnerInv, Owner
  <2> QED  BY <2>3, <2>5
<1>9. lost' <= MaxLost /\ TrustedIsTrue'
  BY <1>1, TrustKept DEF TInv
<1> QED  BY <1>7, <1>8, <1>9 DEF TInv

LEMMA DisconnectTrue == ASSUME IInv, TInv, Disconnect PROVE TInv'
<1>1. esp \in Esp /\ down \in Down
  BY Types DEF IInv
<1>2. esp'.conn = 0
  BY <1>1 DEF Disconnect, Esp
<1>3. \A j \in Conns : esp'.conn # j
  BY <1>2 DEF Conns
<1>4. \A j \in Conns : down'[j] \in {down[j], <<>>}
  BY <1>1 DEF Disconnect, Down
<1> QED  BY <1>3, <1>4, QuietTrue DEF Disconnect

LEMMA RebootTrue == ASSUME IInv, TInv, Reboot PROVE TInv'
<1>1. \A j \in Conns : esp'.conn # j
  BY DEF Reboot, Conns
<1>2. \A j \in Conns : down'[j] \in {down[j], <<>>}
  BY DEF Reboot
<1> QED  BY <1>1, <1>2, QuietTrue DEF Reboot

LEMMA ChangeTrue == ASSUME IInv, TInv, Change PROVE TInv'
<1>1. PICK s \in Squares, c \in Contents :
        LET board == [esp.squares EXCEPT ![s] = c]
        IN  IF ~esp.welcomed
            THEN esp' = [esp EXCEPT !.squares = board] /\ UNCHANGED <<up, lost>>
            ELSE \E fails \in BOOLEAN :
                /\ esp' = [esp EXCEPT !.squares = board, !.seq = (@ + 1) % SeqMod]
                /\ up' = [up EXCEPT ![esp.conn] =
                            @ \o Sent(Numbered(1, "sensor", s, board), fails)]
                /\ Charge(fails)
  BY DEF Change
<1>2. UNCHANGED <<down, handler, entry, game, shown, holes>>
  BY DEF Change
<1> DEFINE board == [esp.squares EXCEPT ![s] = c]
           e == Numbered(1, "sensor", s, board)
<1>3. esp \in Esp /\ esp.squares \in Boards /\ board \in Boards
  BY Types DEF IInv, Esp, Boards
<1>4. CASE ~esp.welcomed
  <2>1. esp'.conn = esp.conn /\ esp'.welcomed = esp.welcomed /\ UNCHANGED <<up, lost>>
    BY <1>1, <1>3, <1>4 DEF Esp
  <2> QED  BY <1>2, <1>4, <2>1, QuietTrue
<1>5. CASE esp.welcomed
  <2>1. e \in Event /\ e.board = board /\ e.seq = (esp.seq + 1) % SeqMod
        /\ e.type = "sensor" /\ e.square = s
    BY <1>3, NumberedType DEF IInv, Numbered
  <2>2. Step(esp.squares, e)
    BY <1>3, <2>1 DEF Step, Boards
  <2>3. PICK fails \in BOOLEAN :
          /\ esp' = [esp EXCEPT !.squares = board, !.seq = (@ + 1) % SeqMod]
          /\ up' = [up EXCEPT ![esp.conn] = @ \o Sent(e, fails)]
          /\ Charge(fails)
    BY <1>1, <1>5
  <2> HIDE DEF board, e
  <2>4. esp'.conn = esp.conn /\ esp'.welcomed /\ esp'.seq = e.seq /\ esp'.squares = e.board
    BY <1>3, <1>5, <2>1, <2>3 DEF Esp
  <2>5. \A j \in Conns : WelcomeOnce(j)'
    BY <1>2, <1>5, <2>4, KeptWelcome DEF TInv, SocketInv
  <2>6. esp.conn \in Conns
    BY <1>5, WelcomeIsRead DEF IInv, WelcomedIsOpen
  <2> QED  BY <1>2, <1>5, <2>1, <2>2, <2>3, <2>4, <2>5, <2>6, PublishTrue
<1> QED  BY <1>4, <1>5

LEMMA BoardEventTrue ==
  ASSUME IInv, TInv, UNCHANGED <<handler, entry, game, shown, holes>>, esp.welcomed,
         NEW t \in {"snapshot", "node", "status"}, NEW fails \in BOOLEAN, Publish(t, fails),
         \A j \in Conns : down'[j] = down[j] \/ (down[j] # <<>> /\ down'[j] = Tail(down[j]))
  PROVE  TInv'
<1> DEFINE any == CHOOSE s \in Squares : TRUE
           e == Numbered(1, t, any, esp.squares)
<1>1. esp \in Esp /\ esp.squares \in Boards /\ any \in Squares
  BY ConstantsOK, Types DEF IInv, Esp
<1>2. e \in Event /\ e.board = esp.squares /\ e.seq = (esp.seq + 1) % SeqMod
  BY <1>1, NumberedType DEF IInv, Numbered
<1>3. /\ esp' = [esp EXCEPT !.seq = (@ + 1) % SeqMod]
      /\ up' = [up EXCEPT ![esp.conn] = @ \o Sent(e, fails)]
      /\ Charge(fails)
  BY DEF Publish
<1> HIDE DEF any, e
<1>4. Step(esp.squares, e)
  BY <1>2 DEF Step
<1>5. esp'.conn = esp.conn /\ esp'.welcomed /\ esp'.seq = e.seq /\ esp'.squares = e.board
  BY <1>1, <1>2, <1>3 DEF Esp
<1>6. \A j \in Conns : WelcomeOnce(j)'
  BY <1>5, KeptWelcome DEF TInv, SocketInv
<1>7. esp.conn \in Conns
  BY WelcomeIsRead DEF IInv, WelcomedIsOpen
<1> QED  BY <1>2, <1>3, <1>4, <1>5, <1>6, <1>7, PublishTrue

LEMMA ReportTrue == ASSUME IInv, TInv, NEW t \in {"node", "status"}, Report(t) PROVE TInv'
BY BoardEventTrue DEF Report

LEMMA OnGetTrue == ASSUME IInv, TInv, OnGet PROVE TInv'
<1>1. /\ esp.conn # 0 /\ down[esp.conn] # <<>>
      /\ down' = [down EXCEPT ![esp.conn] = Tail(@)]
      /\ UNCHANGED <<handler, entry, game, shown, holes>> /\ down \in Down
  BY Types DEF OnGet, IInv
<1>2. \A j \in Conns : down'[j] = down[j] \/ (down[j] # <<>> /\ down'[j] = Tail(down[j]))
  BY <1>1 DEF Down
<1>3. CASE esp.welcomed
  <2>1. PICK fails \in BOOLEAN : Publish("snapshot", fails)
    BY <1>3 DEF OnGet
  <2> QED  BY <1>1, <1>2, <1>3, <2>1, BoardEventTrue
<1>4. CASE ~esp.welcomed
  <2>1. UNCHANGED <<esp, up, lost>>
    BY <1>4 DEF OnGet
  <2> QED  BY <1>1, <1>2, <1>4, <2>1, QuietTrue
<1> QED  BY <1>3, <1>4

LEMMA ModTwo ==
  ASSUME NEW S \in Nat \ {0}, NEW n \in Nat
  PROVE  (n + 2) % S = (((n + 1) % S) + 1) % S
<1>1. n + 1 \in Nat /\ (n + 1) + 1 = n + 2
  OBVIOUS
<1> QED  BY <1>1, ModStep

\* The two events that follow the welcome, either of which may be lost.
LEMMA WelcomedTrail ==
  ASSUME NEW k \in Conns, NEW e1 \in Event, NEW e2 \in Event,
         e2.seq = (e1.seq + 1) % SeqMod, e2.board = e1.board,
         lost' \in Nat, esp'.seq = e2.seq, esp'.squares = e2.board,
         NEW one \in BOOLEAN, NEW other \in BOOLEAN, one \/ other => lost' >= 1,
         up'[k] = Sent(e1, one) \o Sent(e2, other)
  PROVE  Trail(k)'
<1>1. Ahead(k, e2.seq, e2.board)'
  <2>1. PICK n \in Seqs, b \in Boards : n = e2.seq /\ b = e2.board
    BY EventTypes
  <2>2. Ahead(k, n, b)'
    BY <2>1, AheadNow
  <2> QED  BY <2>1, <2>2 DEF Ahead
<1>2. CASE ~one /\ ~other
  <2>1. Len(up'[k]) = 2 /\ up'[k][1] = e1 /\ up'[k][2] = e2
    <3>1. up'[k] = <<e1>> \o <<e2>>
      BY <1>2 DEF Sent
    <3>2. <<e1>> \in Seq(Event) /\ Len(<<e1>>) = 1 /\ <<e1>>[1] = e1
      OBVIOUS
    <3> QED  BY <3>1, <3>2, OneMore
  <2>2. Succeeds(e1.seq, e1.board, e2)
    BY DEF Succeeds, Step
  <2>3. TrailAt(k, 1)'
    BY <2>1, <2>2 DEF TrailAt
  <2>4. TrailAt(k, 2)'
    BY <1>1, <2>1 DEF TrailAt, Ahead
  <2>5. 1..Len(up'[k]) = {1, 2}
    BY <2>1
  <2> QED  BY <2>3, <2>4, <2>5 DEF Trail
<1>3. CASE ~one /\ other
  <2>1. up'[k] = <<e1>>
    BY <1>3 DEF Sent
  <2>2. 1 \in 0..lost' /\ esp'.seq = (e1.seq + 1) % SeqMod
    BY <1>3
  <2>3. Ahead(k, e1.seq, e1.board)'
    BY <2>2 DEF Ahead
  <2>4. TrailAt(k, 1)'
    BY <2>1, <2>3 DEF TrailAt, Ahead
  <2> QED  BY <2>1, <2>4 DEF Trail
<1>4. CASE one /\ ~other
  <2>1. up'[k] = <<e2>>
    BY <1>4 DEF Sent
  <2>2. TrailAt(k, 1)'
    BY <1>1, <2>1 DEF TrailAt, Ahead
  <2> QED  BY <2>1, <2>2 DEF Trail
<1>5. CASE one /\ other
  <2>1. up'[k] = <<>>
    BY <1>5 DEF Sent
  <2> QED  BY <2>1 DEF Trail
<1> QED  BY <1>2, <1>3, <1>4, <1>5

LEMMA OnWelcomeTrue == ASSUME IInv, TInv, OnWelcome PROVE TInv'
<1>1. /\ esp \in Esp /\ esp.squares \in Boards /\ up \in Up /\ down \in Down
      /\ esp.seq \in Nat /\ lost \in Nat /\ MaxLost \in Nat /\ lost <= MaxLost
      /\ SeqMod \in Nat \ {0}
  BY ConstantsOK, Types, BoundsAssumption DEF IInv, Esp, Seqs, TInv
<1>2. PICK e1 \in Event, e2 \in Event :
        /\ e1 = Numbered(1, "snapshot", CHOOSE s \in Squares : TRUE, esp.squares)
        /\ e2 = Numbered(2, "node", CHOOSE s \in Squares : TRUE, esp.squares)
        /\ e1.board = esp.squares /\ e1.seq = (esp.seq + 1) % SeqMod
        /\ e2.board = esp.squares /\ e2.seq = (esp.seq + 2) % SeqMod
  <2>1. PICK any \in Squares : any = CHOOSE s \in Squares : TRUE
    BY ConstantsOK
  <2>2. Numbered(1, "snapshot", any, esp.squares) \in Event
    BY <1>1, NumberedType DEF IInv
  <2>3. Numbered(2, "node", any, esp.squares) \in Event
    BY <1>1, NumberedType DEF IInv
  <2>4. /\ Numbered(1, "snapshot", any, esp.squares).board = esp.squares
        /\ Numbered(1, "snapshot", any, esp.squares).seq = (esp.seq + 1) % SeqMod
        /\ Numbered(2, "node", any, esp.squares).board = esp.squares
        /\ Numbered(2, "node", any, esp.squares).seq = (esp.seq + 2) % SeqMod
    BY DEF Numbered
  <2> QED  BY <2>1, <2>2, <2>3, <2>4
<1>3. e2.seq = (e1.seq + 1) % SeqMod
  BY <1>1, <1>2, ModTwo
<1>4. PICK k \in Conns : k = esp.conn
  BY <1>1 DEF OnWelcome, Esp
<1>5. /\ down[k] # <<>> /\ Head(down[k]) = "welcome"
      /\ down' = [down EXCEPT ![k] = Tail(@)]
      /\ UNCHANGED <<handler, entry, game, shown, holes>>
  BY <1>4 DEF OnWelcome
<1>6. handler[k] \notin {"none", "hello"}
  BY <1>4, <1>5, WelcomeIsRead, ConstantsOK DEF Conns
<1>7. SocketInv(k) /\ OwnerInv(k)
  BY DEF TInv
<1>8. ~esp.welcomed
  <2>1. down[k] \in Seq({"welcome", "get"})
    BY <1>1 DEF Down
  <2>2. 1 \in DOMAIN down[k] /\ down[k][1] = "welcome"
    BY <1>5, <2>1, EmptySeq
  <2> QED  BY <1>4, <1>7, <2>2 DEF SocketInv, WelcomeOnce
<1>9. up[k] = <<>>
  BY <1>4, <1>6, <1>7, <1>8 DEF SocketInv
<1>10. PICK one \in BOOLEAN, other \in BOOLEAN :
        /\ esp' = [esp EXCEPT !.welcomed = TRUE, !.seq = (@ + 2) % SeqMod]
        /\ up' = [up EXCEPT ![k] = @ \o Sent(e1, one) \o Sent(e2, other)]
        /\ Charge(one \/ other)
  BY <1>2, <1>4 DEF OnWelcome
<1>11. esp'.conn = k /\ esp'.welcomed /\ esp'.seq = e2.seq /\ esp'.squares = esp.squares
  BY <1>1, <1>2, <1>4, <1>10 DEF Esp
<1>12. lost' \in Nat /\ lost' <= MaxLost /\ (one \/ other => lost' = lost + 1)
  BY <1>1, <1>10 DEF Charge
<1>13. \A j \in Conns \ {k} : down'[j] = down[j] /\ up'[j] = up[j]
  BY <1>1, <1>5, <1>10 DEF Down, Up
<1>14. up'[k] = Sent(e1, one) \o Sent(e2, other)
  <2>1. Sent(e1, one) \in Seq(Event)
    BY <1>2, SentEvents
  <2>2. <<>> \o Sent(e1, one) = Sent(e1, one)
    BY <2>1
  <2> QED  BY <1>1, <1>9, <1>10, <2>2 DEF Up
<1>16. Trail(k)'
  <2>1. one \/ other => lost' >= 1
    BY <1>1, <1>12
  <2>2. e1 \in Event /\ e2 \in Event
    BY <1>2
  <2>3. /\ e2.seq = (e1.seq + 1) % SeqMod /\ e2.board = e1.board
        /\ lost' \in Nat /\ esp'.seq = e2.seq /\ esp'.squares = e2.board
    BY <1>2, <1>3, <1>11, <1>12
  <2> QED  BY <1>14, <2>1, <2>2, <2>3, WelcomedTrail
<1>17. WelcomeOnce(k)'
  <2>1. down'[k] = Tail(down[k])
    BY <1>1, <1>5 DEF Down
  <2> QED  BY <1>5, <1>7, <2>1, TailWelcome DEF SocketInv, WelcomeOnce
<1>18. SocketInv(k)'
  BY <1>11, <1>16, <1>17 DEF SocketInv
<1>19. OwnerInv(k)'
  <2> SUFFICES ASSUME Owner(k) PROVE OwnerInv(k)'
    BY <1>5 DEF OwnerInv, Owner
  <2>1. entry.last = None
    BY <1>4, <1>7, <1>8 DEF OwnerInv
  <2>2. ~(entry.connected /\ holes = {})
    BY <1>7, <2>1 DEF OwnerInv, Known
  <2>3. handler[k] \notin {"handing", "asking"}
    BY <1>6, <1>9, OnlyEvents
  <2> QED  BY <1>5, <1>7, <1>11, <2>1, <2>2, <2>3 DEF OwnerInv
<1>20. \A j \in Conns \ {k} : SocketInv(j)' /\ OwnerInv(j)'
  <2> SUFFICES ASSUME NEW j \in Conns \ {k} PROVE SocketInv(j)' /\ OwnerInv(j)'
    OBVIOUS
  <2>1. SocketInv(j) /\ OwnerInv(j)
    BY DEF TInv
  <2>2. WelcomeOnce(j)'
    BY <1>11, <1>13, <2>1 DEF SocketInv, WelcomeOnce
  <2> QED  BY <1>5, <1>11, <1>13, <2>1, <2>2, QuietSocket
<1>21. TrustedIsTrue'
  BY <1>5, TrustKept DEF TInv
<1> QED  BY <1>12, <1>18, <1>19, <1>20, <1>21 DEF TInv

-----------------------------------------------------------------------------
(* The server's end. *)

\* A socket the step leaves alone.
LEMMA SameSocket ==
  ASSUME NEW j \in Conns, SocketInv(j), UNCHANGED <<esp, lost>>,
         up'[j] = up[j], handler'[j] = handler[j], WelcomeOnce(j)'
  PROVE  SocketInv(j)'
<1>1. \A n, b : Ahead(j, n, b) => Ahead(j, n, b)'
  BY DEF Ahead
<1>2. Trail(j) => Trail(j)'
  BY <1>1 DEF Trail, TrailAt
<1> QED  BY <1>2 DEF SocketInv

LEMMA SameOwner ==
  ASSUME NEW j \in Conns, OwnerInv(j), UNCHANGED <<esp, lost, entry, shown, holes>>,
         up'[j] = up[j], handler'[j] = handler[j]
  PROVE  OwnerInv(j)'
<1>1. \A n, b : Ahead(j, n, b) => Ahead(j, n, b)'
  BY DEF Ahead
<1>2. Known(j) => Known(j)'
  BY <1>1 DEF Known, Follows
<1> QED  BY <1>2 DEF OwnerInv, Owner

\* A socket emptied.
LEMMA EmptySocket ==
  ASSUME NEW k \in Conns, up'[k] = <<>>, WelcomeOnce(k)'
  PROVE  SocketInv(k)'
BY DEF SocketInv, Trail

LEMMA GreetTrue == ASSUME IInv, TInv, NEW k \in Conns, Greet(k) PROVE TInv'
<1>1. handler[k] = "hello" /\ up' = [up EXCEPT ![k] = Tail(@)] /\ Send(k, "welcome")
      /\ handler' = [handler EXCEPT ![k] = "greeted"]
      /\ UNCHANGED <<esp, entry, game, shown, holes, lost>>
  BY DEF Greet
<1>2. /\ up \in Up /\ down \in Down /\ handler \in [Conns -> Stage]
      /\ up[k] = <<[type |-> "hello"]>> /\ down[k] = <<>> /\ ~(esp.conn = k /\ esp.welcomed)
  BY <1>1, Types DEF IInv, HelloFirst
<1>3. up'[k] = <<>>
  BY <1>1, <1>2 DEF Up
<1>4. \A j \in Conns \ {k} : up'[j] = up[j] /\ down'[j] = down[j] /\ handler'[j] = handler[j]
  BY <1>1, <1>2 DEF Up, Down, Send
<1>5. \A j \in Conns : SocketInv(j) /\ OwnerInv(j)
  BY DEF TInv
<1>6. SocketInv(k)'
  <2>1. down'[k] \in {<<>>, <<"welcome">>}
    BY <1>1, <1>2 DEF Send, Down
  <2>2. WelcomeOnce(k)'
    BY <1>1, <1>2, <2>1 DEF WelcomeOnce
  <2> QED  BY <1>3, <2>2, EmptySocket
<1>7. OwnerInv(k)'
  <2>1. ~Owner(k)
    BY <1>1, <1>5 DEF OwnerInv
  <2> QED  BY <1>1, <2>1 DEF OwnerInv, Owner
<1>8. \A j \in Conns \ {k} : SocketInv(j)' /\ OwnerInv(j)'
  <2> SUFFICES ASSUME NEW j \in Conns \ {k} PROVE SocketInv(j)' /\ OwnerInv(j)'
    OBVIOUS
  <2>1. WelcomeOnce(j)'
    BY <1>1, <1>4, <1>5 DEF SocketInv, WelcomeOnce
  <2> QED  BY <1>1, <1>4, <1>5, <2>1, SameSocket, SameOwner
<1>9. lost' <= MaxLost /\ TrustedIsTrue'
  BY <1>1, TrustKept DEF TInv
<1> QED  BY <1>6, <1>7, <1>8, <1>9 DEF TInv

LEMMA RegisterTrue == ASSUME IInv, TInv, NEW k \in Conns, Register(k) PROVE TInv'
<1>1. handler[k] = "greeted" /\ entry' = [session |-> k, connected |-> TRUE, last |-> None]
      /\ handler' = [handler EXCEPT ![k] = "reading"]
      /\ holes' = {"reconnect"}
      /\ UNCHANGED <<esp, up, down, game, shown, lost>>
  BY DEF Register, link
<1>2. handler \in [Conns -> Stage]
  BY Types DEF IInv
<1>3. handler'[k] = "reading" /\ \A j \in Conns \ {k} : handler'[j] = handler[j]
  BY <1>1, <1>2
<1>4. \A j \in Conns : SocketInv(j) /\ WelcomeOnce(j)'
  BY <1>1 DEF TInv, SocketInv, WelcomeOnce
<1>5. \A j \in Conns \ {k} : SocketInv(j)'
  BY <1>1, <1>3, <1>4, SameSocket
<1>6. SocketInv(k)'
  <2>1. Trail(k) /\ (esp.conn = k /\ ~esp.welcomed => up[k] = <<>>)
    BY <1>1, <1>4 DEF SocketInv
  <2>2. Trail(k)'
    BY <1>1, <2>1 DEF Trail, TrailAt, Ahead
  <2> QED  BY <1>1, <1>4, <2>1, <2>2 DEF SocketInv
<1>7. \A j \in Conns : OwnerInv(j)'
  BY <1>1, <1>3 DEF OwnerInv, Owner
<1>8. lost' <= MaxLost /\ TrustedIsTrue'
  BY <1>1 DEF TInv, TrustedIsTrue
<1> QED  BY <1>5, <1>6, <1>7, <1>8 DEF TInv

LEMMA RefuseTrue == ASSUME IInv, TInv, NEW k \in Conns, Refuse(k) PROVE TInv'
<1>1. handler[k] = "greeted" /\ entry = None /\ entry' = None
      /\ handler' = [handler EXCEPT ![k] = "done"]
      /\ up' = [up EXCEPT ![k] = <<>>] /\ down' = [down EXCEPT ![k] = <<>>]
      /\ UNCHANGED <<esp, game, shown, holes, lost>>
  BY DEF Refuse
<1>2. up \in Up /\ down \in Down /\ handler \in [Conns -> Stage]
  BY Types DEF IInv
<1>3. /\ up'[k] = <<>> /\ down'[k] = <<>>
      /\ \A j \in Conns \ {k} : up'[j] = up[j] /\ down'[j] = down[j] /\ handler'[j] = handler[j]
  BY <1>1, <1>2 DEF Up, Down
<1>4. \A j \in Conns : SocketInv(j) /\ WelcomeOnce(j)'
  BY <1>1, <1>3 DEF TInv, SocketInv, WelcomeOnce
<1>5. \A j \in Conns : SocketInv(j)'
  BY <1>1, <1>3, <1>4, SameSocket, EmptySocket
<1>6. \A j \in Conns : OwnerInv(j)'
  BY <1>1 DEF OwnerInv, Owner
<1>7. lost' <= MaxLost /\ TrustedIsTrue'
  BY <1>1 DEF TInv, TrustedIsTrue, Online
<1> QED  BY <1>5, <1>6, <1>7 DEF TInv

\* What is left once the first event is read follows from it.
LEMMA TrailTail ==
  ASSUME NEW k \in Conns, up[k] \in Seq(Event), up[k] # <<>>, Trail(k),
         UNCHANGED <<esp, lost>>, up'[k] = Tail(up[k])
  PROVE  /\ Trail(k)'
         /\ Follows(k, up[k][1].seq, up[k][1].board, Tail(up[k]))
<1> DEFINE m == Len(up[k])
<1>1. /\ m \in Nat /\ m >= 1 /\ Len(Tail(up[k])) = m - 1
      /\ \A i \in 1..(m - 1) : Tail(up[k])[i] = up[k][i + 1]
      /\ Tail(up[k]) = <<>> <=> m = 1
  <2>1. m \in Nat /\ m # 0
    BY EmptySeq
  <2>2. /\ Tail(up[k]) \in Seq(Event) /\ Len(Tail(up[k])) = m - 1
        /\ \A i \in 1..Len(Tail(up[k])) : Tail(up[k])[i] = up[k][i + 1]
    BY HeadTailProperties
  <2>3. Tail(up[k]) = <<>> <=> Len(Tail(up[k])) = 0
    BY <2>2, EmptySeq
  <2> QED  BY <2>1, <2>2, <2>3
<1>2. \A n, b : Ahead(k, n, b) => Ahead(k, n, b)'
  BY DEF Ahead
<1>3. ASSUME NEW i \in 1..(m - 1) PROVE TrailAt(k, i)'
  <2>1. i + 1 \in 1..m /\ TrailAt(k, i + 1)
    BY <1>1 DEF Trail
  <2>2. CASE i = m - 1
    BY <1>1, <1>2, <2>1, <2>2 DEF TrailAt, Ahead
  <2>3. CASE i < m - 1
    <3>1. i + 1 \in 1..(m - 1) /\ i + 1 # m
      BY <1>1, <2>3
    <3> QED  BY <1>1, <2>1, <3>1 DEF TrailAt
  <2> QED  BY <1>1, <2>2, <2>3
<1>4. Trail(k)'
  BY <1>1, <1>3 DEF Trail
<1>5. Follows(k, up[k][1].seq, up[k][1].board, Tail(up[k]))
  <2>1. TrailAt(k, 1)
    BY <1>1 DEF Trail
  <2>2. CASE m = 1
    BY <1>1, <2>1, <2>2 DEF Follows, TrailAt
  <2>3. CASE m # 1
    <3>1. Tail(up[k])[1] = up[k][2] /\ 1 + 1 = 2
      BY <1>1, <2>3
    <3> QED  BY <1>1, <2>1, <2>3, <3>1 DEF Follows, TrailAt
  <2> QED  BY <2>2, <2>3
<1> QED  BY <1>4, <1>5

LEMMA IngestTrue == ASSUME IInv, TInv, NEW k \in Conns, Ingest(k) PROVE TInv'
<1>1. handler[k] = "reading" /\ up[k] # <<>> /\ UNCHANGED <<esp, down, game, shown, holes, lost>>
  BY DEF Ingest
<1>2. /\ up \in Up /\ handler \in [Conns -> Stage] /\ up[k] \in Seq(Event)
      /\ entry \in Entry \cup {None}
  BY <1>1, Types, OnlyEvents DEF IInv
<1>3. PICK e \in Event : e = Head(up[k]) /\ e = up[k][1]
  BY <1>1, <1>2
<1>4. \A j \in Conns : SocketInv(j) /\ OwnerInv(j) /\ WelcomeOnce(j)'
  BY <1>1 DEF TInv, SocketInv, WelcomeOnce
<1>5. lost' <= MaxLost
  BY <1>1 DEF TInv
<1>6. ~(esp.conn = k /\ ~esp.welcomed) /\ Trail(k)
  BY <1>1, <1>4 DEF SocketInv
<1>7. CASE Owner(k)
  <2>1. /\ entry' = [entry EXCEPT !.last = e.seq] /\ up' = up
        /\ handler' = [handler EXCEPT ![k] = IF Gap(entry.last, e) THEN "asking" ELSE "handing"]
    BY <1>3, <1>7 DEF Ingest
  <2>2. entry \in Entry /\ entry # None /\ e.seq \in Seqs
    BY <1>2, <1>7, EventTypes DEF Owner
  <2>3. entry'.session = k /\ entry'.connected = entry.connected /\ entry'.last = e.seq
    BY <1>7, <2>1, <2>2 DEF Entry, Owner
  <2>4. /\ handler'[k] = IF Gap(entry.last, e) THEN "asking" ELSE "handing"
        /\ \A j \in Conns \ {k} : handler'[j] = handler[j]
    BY <1>2, <2>1
  <2>5. \A j \in Conns \ {k} : SocketInv(j)'
    BY <1>1, <1>4, <2>1, <2>4, SameSocket
  <2>6. SocketInv(k)'
    <3>1. Trail(k)'
      BY <1>1, <1>6, <2>1 DEF Trail, TrailAt, Ahead
    <3> QED  BY <1>1, <1>4, <1>6, <3>1 DEF SocketInv
  <2>7. entry.connected /\ holes = {} => Known(k)'
    <3> SUFFICES ASSUME entry.connected, holes = {} PROVE Known(k)'
      OBVIOUS
    <3>1. entry.last # None /\ Succeeds(entry.last, shown, e)
      BY <1>1, <1>3, <1>4, <1>7 DEF OwnerInv, Known, Follows
    <3>2. ~Gap(entry.last, e) => e.type = "snapshot" \/ Step(shown, e)
      BY <3>1 DEF Gap, Succeeds
    <3>3. e.seq # None
      BY <2>2, NoneAssumption
    <3>4. handler'[k] = "handing" => up'[k][1].type = "snapshot" \/ Step(shown, up'[k][1])
      BY <1>3, <2>1, <2>4, <3>2
    <3>5. handler'[k] # "reading" /\ entry'.last # None /\ shown' = shown
      BY <1>1, <2>3, <2>4, <3>3
    <3> QED  BY <3>4, <3>5 DEF Known, Step
  <2>8. handler'[k] = "asking" => up'[k][1].type # "snapshot"
    BY <1>3, <2>1, <2>4 DEF Gap
  <2>9. OwnerInv(k)'
    <3>1. handler'[k] \in {"handing", "asking"} /\ entry'.last = up'[k][1].seq
      BY <1>3, <2>1, <2>3, <2>4
    <3> QED  BY <1>1, <1>6, <2>3, <2>7, <2>8, <3>1 DEF OwnerInv
  <2>10. \A j \in Conns \ {k} : OwnerInv(j)'
    BY <2>3 DEF OwnerInv, Owner
  <2>11. TrustedIsTrue'
    BY <1>1, <2>2, <2>3 DEF TInv, TrustedIsTrue, Online
  <2> QED  BY <1>5, <2>5, <2>6, <2>9, <2>10, <2>11 DEF TInv
<1>8. CASE ~Owner(k)
  <2>1. up' = [up EXCEPT ![k] = Tail(@)] /\ UNCHANGED <<entry, handler>>
    BY <1>8 DEF Ingest
  <2>2. up'[k] = Tail(up[k]) /\ \A j \in Conns \ {k} : up'[j] = up[j]
    BY <1>2, <2>1 DEF Up
  <2>3. SocketInv(k)'
    <3>1. Trail(k)'
      BY <1>1, <1>2, <1>6, <2>2, TrailTail
    <3> QED  BY <1>1, <1>4, <1>6, <3>1 DEF SocketInv
  <2>4. OwnerInv(k)'
    BY <1>8, <2>1 DEF OwnerInv, Owner
  <2>5. \A j \in Conns \ {k} : SocketInv(j)' /\ OwnerInv(j)'
    BY <1>1, <1>4, <2>1, <2>2, SameSocket, SameOwner
  <2>6. TrustedIsTrue'
    BY <1>1, <2>1, TrustKept DEF TInv
  <2> QED  BY <1>5, <2>3, <2>4, <2>5, <2>6 DEF TInv
<1> QED  BY <1>7, <1>8

\* A snapshot's squares, a sensor's one square, and nothing of the others.
LEMMA HeardTrue ==
  ASSUME game \in Game, shown \in Boards, NEW e \in Event, NEW gap \in BOOLEAN,
         e.type \in ForGame,
         game.have /\ ~game.torn => game.squares = shown,
         e.type = "snapshot" \/ Step(shown, e) \/ gap,
         game' = Heard(game, e, gap), game'.have, ~game'.torn
  PROVE  game'.squares = e.board
<1>1. /\ game'.have = (game.have \/ e.type = "snapshot")
      /\ game'.torn = ((game.torn \/ gap) /\ e.type # "snapshot")
      /\ game'.squares = CASE e.type = "snapshot" -> e.board
                   [] e.type = "sensor"   -> [game.squares EXCEPT ![e.square] = e.board[e.square]]
                   [] OTHER               -> game.squares
  BY DEF Heard
<1>2. CASE e.type = "snapshot"
  BY <1>1, <1>2
<1>3. CASE e.type # "snapshot"
  <2>1. game.squares = shown /\ Step(shown, e)
    BY <1>1, <1>3
  <2>2. e.board \in Boards
    BY EventTypes
  <2>3. CASE e.type = "sensor"
    <3>1. \A s \in Squares : [shown EXCEPT ![e.square] = e.board[e.square]][s] = e.board[s]
      BY <2>1, <2>3 DEF Step, Boards
    <3>2. [shown EXCEPT ![e.square] = e.board[e.square]] = e.board
      BY <2>2, <3>1 DEF Boards
    <3> QED  BY <1>1, <2>1, <2>3, <3>2
  <2>4. CASE e.type # "sensor"
    <3>1. \A s \in Squares : e.board[s] = shown[s]
      BY <2>1, <2>4 DEF Step
    <3>2. e.board = shown
      BY <2>2, <3>1 DEF Boards
    <3> QED  BY <1>1, <1>3, <2>1, <2>4, <3>2
  <2> QED  BY <2>3, <2>4
<1> QED  BY <1>2, <1>3

LEMMA PassOnTrue == ASSUME IInv, TInv, NEW k \in Conns, PassOn(k) PROVE TInv'
<1>1. /\ handler[k] \in {"handing", "asking"} /\ handler' = [handler EXCEPT ![k] = "reading"]
      /\ up' = [up EXCEPT ![k] = Tail(@)]
      /\ UNCHANGED <<esp, entry, lost>>
  BY DEF PassOn, InHand
<1>2. /\ up \in Up /\ down \in Down /\ handler \in [Conns -> Stage] /\ up[k] \in Seq(Event)
      /\ up[k] # <<>> /\ game \in Game /\ shown \in Boards
  BY <1>1, Types, OnlyEvents DEF IInv
<1>3. PICK e \in Event, gap \in BOOLEAN :
        e = Head(up[k]) /\ e = up[k][1] /\ gap = (handler[k] = "asking")
  <2>1. Head(up[k]) \in Event /\ Head(up[k]) = up[k][1]
    BY <1>2
  <2>2. (handler[k] = "asking") \in BOOLEAN
    OBVIOUS
  <2> QED  BY <2>1, <2>2
<1>4. Tell(k, e, gap)
  BY <1>3 DEF PassOn
<1>5. /\ up'[k] = Tail(up[k]) /\ handler'[k] = "reading"
      /\ \A j \in Conns \ {k} : up'[j] = up[j] /\ handler'[j] = handler[j]
  BY <1>1, <1>2 DEF Up
<1>6. \A j \in Conns : SocketInv(j) /\ OwnerInv(j)
  BY DEF TInv
<1>7. \A j \in Conns : WelcomeOnce(j)'
  <2> SUFFICES ASSUME NEW j \in Conns PROVE WelcomeOnce(j)'
    OBVIOUS
  <2>1. down'[j] \in {down[j], Append(down[j], "get")}
    BY <1>2 DEF PassOn, Send, Down
  <2> QED  BY <1>1, <1>6, <2>1, KeptWelcome DEF SocketInv
<1>8. Trail(k) /\ (esp.conn = k /\ ~esp.welcomed => up[k] = <<>>)
  BY <1>1, <1>6 DEF SocketInv
<1>9. /\ Trail(k)'
      /\ Follows(k, e.seq, e.board, Tail(up[k]))
  BY <1>1, <1>2, <1>3, <1>5, <1>8, TrailTail
<1>10. \A j \in Conns : SocketInv(j)'
  <2>1. SocketInv(k)'
    BY <1>1, <1>2, <1>7, <1>8, <1>9 DEF SocketInv
  <2>2. \A j \in Conns \ {k} : SocketInv(j)'
    BY <1>1, <1>5, <1>6, <1>7, SameSocket
  <2> QED  BY <2>1, <2>2
<1>11. lost' <= MaxLost
  BY <1>1 DEF TInv
<1>12. CASE holes' # {}
  <2>1. \A j \in Conns : OwnerInv(j)'
    <3> SUFFICES ASSUME NEW j \in Conns, Owner(j) PROVE OwnerInv(j)'
      BY <1>1 DEF OwnerInv, Owner
    <3>1. OwnerInv(j) /\ Owner(j)
      BY <1>6
    <3>2. CASE j = k
      BY <1>1, <1>5, <1>12, <3>1, <3>2 DEF OwnerInv
    <3>3. CASE j # k
      BY <1>1, <1>5, <1>12, <3>1, <3>3 DEF OwnerInv
    <3> QED  BY <3>2, <3>3
  <2> QED  BY <1>10, <1>11, <1>12, <2>1 DEF TInv, TrustedIsTrue
<1>13. CASE holes' = {}
  <2>1. /\ Owner(k)
        /\ e.type = "snapshot" \/ holes = {}
        /\ gap => e.type \in ForGame
    BY <1>4, <1>13 DEF Tell, Holes, Missed
  <2>2. OwnerInv(k) /\ entry.last = e.seq
    BY <1>1, <1>3, <1>6, <2>1 DEF OwnerInv
  <2>3. e.type \in ForGame => shown' = e.board /\ game' = Heard(game, e, gap)
    BY <1>4, <1>13 DEF Tell
  <2>4. e.type \notin ForGame => e.type = "status" /\ UNCHANGED <<game, shown>> /\ handler[k] = "handing"
    BY <1>1, <1>3, <1>4, <2>1, EventTypes DEF Tell, ForGame
  <2>5. entry.connected /\ holes = {} => e.type = "snapshot" \/ Step(shown, e) \/ gap
    BY <1>1, <1>3, <2>1, <2>2 DEF OwnerInv, Known
  <2>6. entry.connected => shown' = e.board
    <3> SUFFICES ASSUME entry.connected, e.type \notin ForGame PROVE shown' = e.board
      BY <2>3
    <3>1. Step(shown, e) /\ e.type = "status" /\ shown' = shown
      BY <1>3, <2>1, <2>4, <2>5 DEF ForGame
    <3>2. e.board \in Boards /\ \A s \in Squares : e.board[s] = shown[s]
      BY <3>1, EventTypes DEF Step
    <3> QED  BY <1>2, <3>1, <3>2 DEF Boards
  <2>7. entry.connected => Known(k)'
    <3> SUFFICES ASSUME entry.connected PROVE Known(k)'
      OBVIOUS
    <3>1. entry.last # None
      <4>1. e.seq \in Seqs
        BY EventTypes
      <4> QED  BY <2>2, <4>1, NoneAssumption
    <3>2. Follows(k, entry.last, shown, up[k])'
      BY <1>1, <1>5, <1>9, <2>2, <2>6 DEF Follows, Ahead
    <3> QED  BY <1>1, <1>5, <3>1, <3>2 DEF Known
  <2>8. OwnerInv(k)'
    BY <1>1, <1>2, <1>5, <1>8, <2>7 DEF OwnerInv
  <2>9. \A j \in Conns \ {k} : OwnerInv(j)'
    BY <1>1, <2>1 DEF OwnerInv, Owner
  <2>10. TrustedIsTrue'
    <3> SUFFICES ASSUME Online, game'.have, ~game'.torn PROVE game'.squares = shown'
      BY <1>1 DEF TrustedIsTrue, Online
    <3>1. holes = {} /\ game.have /\ ~game.torn => game.squares = shown
      BY DEF TInv, TrustedIsTrue
    <3>2. CASE e.type \in ForGame
      <4>1. CASE e.type = "snapshot"
        BY <2>3, <3>2, <4>1 DEF Heard
      <4>2. CASE e.type # "snapshot"
        BY <1>2, <2>1, <2>3, <2>5, <3>1, <3>2, <4>2, HeardTrue DEF Online
      <4> QED  BY <4>1, <4>2
    <3>3. CASE e.type \notin ForGame
      BY <2>1, <2>4, <3>1, <3>3 DEF ForGame
    <3> QED  BY <3>2, <3>3
  <2> QED  BY <1>10, <1>11, <2>8, <2>9, <2>10 DEF TInv
<1> QED  BY <1>12, <1>13

LEMMA CloseTrue == ASSUME IInv, TInv, NEW k \in Conns, Close(k) PROVE TInv'
<1>1. /\ handler[k] \in {"hello", "reading"} /\ handler' = [handler EXCEPT ![k] = "done"]
      /\ up' = [up EXCEPT ![k] = <<>>] /\ down' = [down EXCEPT ![k] = <<>>]
      /\ UNCHANGED <<esp, game, shown, holes, lost>>
  BY DEF Close
<1>2. /\ up \in Up /\ down \in Down /\ handler \in [Conns -> Stage]
      /\ entry \in Entry \cup {None}
  BY Types DEF IInv
<1>3. /\ up'[k] = <<>> /\ down'[k] = <<>> /\ handler'[k] = "done"
      /\ \A j \in Conns \ {k} : up'[j] = up[j] /\ down'[j] = down[j] /\ handler'[j] = handler[j]
  BY <1>1, <1>2 DEF Up, Down
<1>4. \A j \in Conns : SocketInv(j) /\ OwnerInv(j) /\ WelcomeOnce(j)'
  BY <1>1, <1>3 DEF TInv, SocketInv, WelcomeOnce
<1>5. \A j \in Conns : SocketInv(j)'
  BY <1>1, <1>3, <1>4, SameSocket, EmptySocket
<1>6. lost' <= MaxLost
  BY <1>1 DEF TInv
<1>7. CASE handler[k] = "reading" /\ Owner(k)
  <2>1. entry' = [entry EXCEPT !.connected = FALSE] /\ entry \in Entry
    BY <1>2, <1>7 DEF Close, MarkDisconnected, Owner
  <2>2. entry'.session = k /\ entry'.connected = FALSE /\ entry'.last = entry.last
    BY <1>7, <2>1 DEF Entry, Owner
  <2>3. \A j \in Conns \ {k} : OwnerInv(j)'
    BY <2>2 DEF OwnerInv, Owner
  <2>4. OwnerInv(k)'
    BY <1>1, <1>3, <1>4, <1>7, <2>2 DEF OwnerInv
  <2>5. TrustedIsTrue'
    BY <2>2 DEF TrustedIsTrue, Online
  <2> QED  BY <1>5, <1>6, <2>3, <2>4, <2>5 DEF TInv
<1>8. CASE ~(handler[k] = "reading" /\ Owner(k))
  <2>1. entry' = entry
    BY <1>8 DEF Close, MarkDisconnected
  <2>2. ~Owner(k)
    BY <1>1, <1>4, <1>8 DEF OwnerInv
  <2>3. OwnerInv(k)'
    BY <2>1, <2>2 DEF OwnerInv, Owner
  <2>4. \A j \in Conns \ {k} : OwnerInv(j)'
    BY <1>1, <1>3, <1>4, <2>1, SameOwner
  <2> QED  BY <1>1, <1>5, <1>6, <2>1, <2>3, <2>4, TrustKept DEF TInv
<1> QED  BY <1>7, <1>8

LEMMA SweepTrue == ASSUME IInv, TInv, Sweep PROVE TInv'
<1>1. entry' = None /\ UNCHANGED <<esp, up, down, handler, game, shown, holes, lost>>
  BY DEF Sweep, link
<1>2. \A j \in Conns : SocketInv(j)'
  BY <1>1, SameSocket DEF TInv, SocketInv, WelcomeOnce
<1>3. \A j \in Conns : OwnerInv(j)'
  BY <1>1 DEF OwnerInv, Owner
<1>4. TrustedIsTrue' /\ lost' <= MaxLost
  BY <1>1 DEF TInv, TrustedIsTrue, Online
<1> QED  BY <1>2, <1>3, <1>4 DEF TInv

LEMMA RequestSnapshotsTrue == ASSUME IInv, TInv, RequestSnapshots PROVE TInv'
<1>1. Send(entry.session, "get") /\ UNCHANGED <<esp, up, handler, entry, game, shown, holes, lost>>
  BY DEF RequestSnapshots
<1>2. down \in Down
  BY Types DEF IInv
<1>3. \A j \in Conns : down'[j] \in {down[j], Append(down[j], "get")}
  BY <1>1, <1>2 DEF Send, Down
<1>4. \A j \in Conns : SocketInv(j) /\ OwnerInv(j)
  BY DEF TInv
<1>5. \A j \in Conns : WelcomeOnce(j)'
  BY <1>1, <1>3, <1>4, KeptWelcome DEF SocketInv
<1>6. \A j \in Conns : SocketInv(j)' /\ OwnerInv(j)'
  BY <1>1, <1>4, <1>5, SameSocket, SameOwner
<1> QED  BY <1>1, <1>6, TrustKept DEF TInv

LEMMA VouchTrue == ASSUME IInv, TInv, Vouch PROVE TInv'
<1>1. holes' # {} /\ UNCHANGED <<esp, up, down, handler, entry, shown, lost>>
  BY DEF Vouch, link
<1>2. \A j \in Conns : SocketInv(j)'
  BY <1>1, SameSocket DEF TInv, SocketInv, WelcomeOnce
<1>3. \A j \in Conns : OwnerInv(j)'
  BY <1>1 DEF TInv, OwnerInv, Owner
<1> QED  BY <1>1, <1>2, <1>3 DEF TInv, TrustedIsTrue

LEMMA SilentTrue == ASSUME IInv, TInv, UNCHANGED vars PROVE TInv'
<1>1. UNCHANGED <<esp, up, down, handler, entry, game, shown, holes, lost>>
  BY DEF vars, link
<1>2. \A j \in Conns : SocketInv(j)' /\ OwnerInv(j)'
  BY <1>1, SameSocket, SameOwner DEF TInv, SocketInv, WelcomeOnce
<1> QED  BY <1>1, <1>2, TrustKept DEF TInv

LEMMA InitTrue == Init => TInv
<1> SUFFICES ASSUME Init PROVE TInv
  OBVIOUS
<1>1. 0 <= MaxLost
  BY BoundsAssumption
<1>2. \A j \in Conns : SocketInv(j) /\ OwnerInv(j)
  BY DEF Init, SocketInv, OwnerInv, Owner, WelcomeOnce
<1> QED  BY <1>1, <1>2 DEF Init, TInv, TrustedIsTrue, Online

\* What the game trusts is what the ESP held at the event heard last (ingest_event,
\* on_device_event), as long as fewer events are lost on live sockets than there are
\* numbers, and but for the four holes: no snapshot since the device connected, an
\* older session's event after a newer one took over, a gap seen in an event the game
\* is not sent, an operator's word.
THEOREM TrustedViewIsTrue == Spec => []TrustedIsTrue
<1>1. ASSUME IInv, TInv, [Next]_vars PROVE TInv'
  <2>1. CASE Connect  BY <1>1, <2>1, ConnectTrue
  <2>2. CASE Disconnect  BY <1>1, <2>2, DisconnectTrue
  <2>3. CASE Reboot  BY <1>1, <2>3, RebootTrue
  <2>4. CASE Change  BY <1>1, <2>4, ChangeTrue
  <2>5. CASE Report("node") \/ Report("status")  BY <1>1, <2>5, ReportTrue
  <2>6. CASE OnWelcome  BY <1>1, <2>6, OnWelcomeTrue
  <2>7. CASE OnGet  BY <1>1, <2>7, OnGetTrue
  <2>8. ASSUME NEW k \in Conns, Greet(k) PROVE TInv'  BY <1>1, <2>8, GreetTrue
  <2>9. ASSUME NEW k \in Conns, Register(k) PROVE TInv'  BY <1>1, <2>9, RegisterTrue
  <2>10. ASSUME NEW k \in Conns, Refuse(k) PROVE TInv'  BY <1>1, <2>10, RefuseTrue
  <2>11. ASSUME NEW k \in Conns, Ingest(k) PROVE TInv'  BY <1>1, <2>11, IngestTrue
  <2>12. ASSUME NEW k \in Conns, PassOn(k) PROVE TInv'  BY <1>1, <2>12, PassOnTrue
  <2>13. ASSUME NEW k \in Conns, Close(k) PROVE TInv'  BY <1>1, <2>13, CloseTrue
  <2>14. CASE Sweep  BY <1>1, <2>14, SweepTrue
  <2>15. CASE RequestSnapshots  BY <1>1, <2>15, RequestSnapshotsTrue
  <2>16. CASE Vouch  BY <1>1, <2>16, VouchTrue
  <2>17. CASE UNCHANGED vars  BY <1>1, <2>17, SilentTrue
  <2> QED
    BY <1>1, <2>1, <2>2, <2>3, <2>4, <2>5, <2>6, <2>7, <2>8, <2>9, <2>10, <2>11, <2>12,
       <2>13, <2>14, <2>15, <2>16, <2>17
    DEF Next, Device, Server
<1>2. TInv => TrustedIsTrue
  BY DEF TInv
<1> QED  BY <1>1, <1>2, InitTrue, Inductive, PTL DEF Spec
=============================================================================
