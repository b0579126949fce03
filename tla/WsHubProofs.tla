---------------------------- MODULE WsHubProofs ----------------------------
(* Theorems about WsHub for any number of connections and users and any     *)
(* capacities: types, the index of connections, the occupation of a device.*)
(* They follow from one inductive invariant: types; Named, that a goroutine *)
(* that closes has somebody to close; Begun, that nobody is closed before   *)
(* the login; Marked, that the close work starts with the mark; and the     *)
(* properties themselves.                                                  *)
EXTENDS WsHub, TLAPS

Began(c) == client[c].conn # "none"

Named ==
  /\ receiver.pc # "select" => receiver.client \in Client
  /\ beat.pc # "wait" => beat.client \in Client
  /\ verifier.pc # "wait" => verifier.client \in Client

Begun ==
  /\ \A c \in Client :
       Listed(c) \/ client[c].closed \/ client[c].released \/ reader[c] # "none" => Began(c)
  /\ \A j \in 1 .. Len(closeCh) : Began(closeCh[j])
  /\ receiver.pc \in {"close", "drop"} => Began(receiver.client)
  /\ beat.pc # "wait" => Began(beat.client)
  /\ verifier.pc # "wait" => Began(verifier.client)

Marked ==
  /\ receiver.pc = "drop" => client[receiver.client].closed
  /\ beat.pc = "drop" => client[beat.client].closed
  /\ verifier.pc = "drop" => client[verifier.client].closed

(* UnlistedHadNamesake from the login on.                                  *)
Supervised ==
  \A c \in Client :
    client[c].conn \in {"upgrading", "open"} /\ ~client[c].closed /\ ~Listed(c)
      => \E o \in Client \ {c} : client[o].id = client[c].id /\ Began(o)

Inv == TypeOK /\ Named /\ Begun /\ Marked /\ ReleasedNotListed /\ Supervised

ClientType ==
  [id : Id, conn : {"none", "upgrading", "open", "closed", "failed"},
   closed : BOOLEAN, released : BOOLEAN, active : 0 .. MaxTime]

-----------------------------------------------------------------------------
(* What a step may do to the connections and the index.                    *)
Moves ==
  \/ UNCHANGED connections
  \/ \E c \in Client :
       /\ client[c].conn = "none"
       /\ client' = [client EXCEPT ![c].conn = "upgrading", ![c].active = clock]
       /\ cache' = [cache EXCEPT ![client[c].id] = c]
  \/ \E c \in Client :
       /\ client[c].conn = "upgrading"
       /\ \E conn \in {"open", "failed"} : client' = [client EXCEPT ![c].conn = conn]
       /\ UNCHANGED cache
  \/ \E c \in Client :
       /\ client' = [client EXCEPT ![c].active = clock]
       /\ UNCHANGED cache
  \/ \E c \in Client :
       /\ Began(c)
       /\ client' = [client EXCEPT ![c].closed = TRUE]
       /\ UNCHANGED cache
  \/ \E c \in Client :
       /\ Began(c) /\ client[c].closed
       /\ Drop(c)

LEMMA Bounds == /\ BroadcastCap \in Nat /\ MaxTime \in Nat /\ MaxMessages \in Nat
  BY HubAssumption

LEMMA HeadTail ==
  ASSUME NEW S, NEW s \in Seq(S), s # <<>>
  PROVE  /\ Head(s) = s[1] /\ Head(s) \in S /\ 1 \in 1 .. Len(s)
         /\ Tail(s) \in Seq(S) /\ Len(Tail(s)) = Len(s) - 1
         /\ \A i \in 1 .. Len(Tail(s)) : Tail(s)[i] = s[i + 1] /\ i + 1 \in 1 .. Len(s)
  OBVIOUS

LEMMA Appended ==
  ASSUME NEW S, NEW s \in Seq(S), NEW x \in S
  PROVE  /\ Append(s, x) \in Seq(S) /\ Len(Append(s, x)) = Len(s) + 1
         /\ \A i \in 1 .. Len(Append(s, x)) :
              Append(s, x)[i] = x \/ (i \in 1 .. Len(s) /\ Append(s, x)[i] = s[i])
  OBVIOUS

LEMMA StepMoves ==
  ASSUME TypeOK, Named, Begun, Marked, Next
  PROVE  Moves
  <1> USE DEF connections
  <1>1. CASE \E c \in Client : Login(c)
    BY <1>1 DEF Login, Moves
  <1>2. CASE \E c \in Client : Upgrade(c)
    BY <1>2 DEF Upgrade, Moves
  <1>3. CASE \E c \in Client, kind \in Kinds : ReadText(c, kind)
    BY <1>3 DEF ReadText, Moves
  <1>4. CASE TakeMessage
    <2>1. Head(receiveCh) \in Receipt
      BY <1>4, HeadTail DEF TakeMessage, TypeOK
    <2> QED BY <1>4, <2>1 DEF TakeMessage, Moves, Receipt
  <1>5. CASE TakeClose
    <2>1. closeCh \in Seq(Client) /\ closeCh # <<>>
      BY <1>5 DEF TakeClose, TypeOK
    <2>2. Head(closeCh) = closeCh[1] /\ Head(closeCh) \in Client /\ 1 \in 1 .. Len(closeCh)
      BY <2>1, HeadTail
    <2>3. Head(closeCh) \in Client /\ Began(Head(closeCh))
      BY <2>2 DEF Begun
    <2> QED BY <1>5, <2>3 DEF TakeClose, Moves
  <1>6. CASE ReceiverDrop
    BY <1>6 DEF ReceiverDrop, Named, Begun, Marked, Moves
  <1>7. CASE BeatMark
    BY <1>7 DEF BeatMark, Named, Begun, Moves
  <1>8. CASE BeatDrop
    BY <1>8 DEF BeatDrop, Named, Begun, Marked, Moves
  <1>9. CASE VerifyDrop
    BY <1>9 DEF VerifyDrop, Named, Begun, Marked, Moves
  <1>10. CASE \/ Occupy \/ SendBusy \/ SendFree \/ Respond \/ WriteResponse \/ SendClose
              \/ TakeBroadcast \/ VerifySend \/ Tick
              \/ \E c \in Client : \/ ReadError(c) \/ Deliver(c) \/ AskClose(c)
                                   \/ BeatExamine(c) \/ VerifyExamine(c) \/ Notify(c)
    BY <1>10 DEF Occupy, SendBusy, SendFree, Respond, WriteResponse, SendClose, TakeBroadcast,
       VerifySend, Tick, ReadError, Deliver, AskClose, BeatExamine, VerifyExamine, Notify,
       Moves
  <1> QED BY <1>1, <1>2, <1>3, <1>4, <1>5, <1>6, <1>7, <1>8, <1>9, <1>10
          DEF Next, Receive, Beat, Verify

(* Began, in the state a step leads to.                                    *)
BeganNext(c) == client'[c].conn # "none"

(* A login, a mark and a name are for good.                                *)
LEMMA ForGood ==
  ASSUME TypeOK, Moves, NEW c \in Client
  PROVE  /\ client'[c].id = client[c].id
         /\ Began(c) => BeganNext(c)
         /\ client[c].closed => client'[c].closed
         /\ client[c].released => client'[c].released
  <1> DEFINE Stays == /\ client'[c].id = client[c].id
                      /\ Began(c) => BeganNext(c)
                      /\ client[c].closed => client'[c].closed
                      /\ client[c].released => client'[c].released
  <1>0. client \in [Client -> ClientType] /\ client[c] \in ClientType
    BY DEF TypeOK, ClientType
  <1> USE DEF ClientType, Began, BeganNext
  <1>1. CASE UNCHANGED connections
    BY <1>1 DEF connections
  <1>2. ASSUME NEW d \in Client, client[d].conn = "none",
               client' = [client EXCEPT ![d].conn = "upgrading", ![d].active = clock]
        PROVE  Stays
    BY <1>0, <1>2
  <1>3. ASSUME NEW d \in Client, client[d].conn = "upgrading", NEW x \in {"open", "failed"},
               client' = [client EXCEPT ![d].conn = x]
        PROVE  Stays
    BY <1>0, <1>3
  <1>4. ASSUME NEW d \in Client, client' = [client EXCEPT ![d].active = clock]
        PROVE  Stays
    BY <1>0, <1>4
  <1>5. ASSUME NEW d \in Client, client' = [client EXCEPT ![d].closed = TRUE]
        PROVE  Stays
    BY <1>0, <1>5
  <1>6. ASSUME NEW d \in Client, Drop(d)
        PROVE  Stays
    <2>1. CASE UNCHANGED connections
      BY <2>1 DEF connections
    <2>2. CASE client' = [client EXCEPT ![d].released = TRUE,
                                        ![d].conn = IF @ = "open" THEN "closed" ELSE @]
      BY <1>0, <2>2
    <2> QED BY <1>6, <2>1, <2>2 DEF Drop
  <1> QED BY <1>1, <1>2, <1>3, <1>4, <1>5, <1>6 DEF Moves

LEMMA MovesTyped ==
  ASSUME TypeOK, Moves
  PROVE  client' \in [Client -> ClientType] /\ cache' \in [Id -> Client \cup {NoClient}]
  <1>0. /\ client \in [Client -> ClientType] /\ clock \in 0 .. MaxTime
        /\ cache \in [Id -> Client \cup {NoClient}]
    BY DEF TypeOK, ClientType
  <1> DEFINE Typed == client' \in [Client -> ClientType]
  <1>1. CASE UNCHANGED connections
    BY <1>0, <1>1 DEF connections
  <1>2. ASSUME NEW d \in Client,
               client' = [client EXCEPT ![d].conn = "upgrading", ![d].active = clock]
        PROVE  Typed
    BY <1>0, <1>2, ZenonT(60) DEF ClientType
  <1>3. ASSUME NEW d \in Client, NEW x \in {"open", "failed"},
               client' = [client EXCEPT ![d].conn = x]
        PROVE  Typed
    BY <1>0, <1>3 DEF ClientType
  <1>4. ASSUME NEW d \in Client, client' = [client EXCEPT ![d].active = clock]
        PROVE  Typed
    BY <1>0, <1>4 DEF ClientType
  <1>5. ASSUME NEW d \in Client, client' = [client EXCEPT ![d].closed = TRUE]
        PROVE  Typed
    BY <1>0, <1>5 DEF ClientType
  <1>6. ASSUME NEW d \in Client, Drop(d)
        PROVE  Typed
    <2>1. CASE UNCHANGED connections
      BY <1>0, <2>1 DEF connections
    <2>2. CASE client' = [client EXCEPT ![d].released = TRUE,
                                        ![d].conn = IF @ = "open" THEN "closed" ELSE @]
      <3> DEFINE x == IF client[d].conn = "open" THEN "closed" ELSE client[d].conn
      <3>1. [client[d] EXCEPT !.released = TRUE, !.conn = x] \in ClientType
        BY <1>0 DEF ClientType
      <3>2. client' = [client EXCEPT ![d] = [client[d] EXCEPT !.released = TRUE, !.conn = x]]
        BY <1>0, <2>2 DEF ClientType
      <3> HIDE DEF x
      <3> QED BY <1>0, <3>1, <3>2
    <2> QED BY <1>6, <2>1, <2>2 DEF Drop
  <1>7. cache' \in [Id -> Client \cup {NoClient}]
    <2>1. \A c \in Client : client[c].id \in Id
      BY <1>0 DEF ClientType
    <2> QED BY <1>0, <2>1 DEF Moves, connections, Drop
  <1> QED BY <1>1, <1>2, <1>3, <1>4, <1>5, <1>6, <1>7 DEF Moves

-----------------------------------------------------------------------------
(* The index.                                                              *)
LEMMA StepReleased ==
  ASSUME TypeOK, Begun, ReleasedNotListed, Moves
  PROVE  ReleasedNotListed'
  <1> SUFFICES ASSUME NEW c \in Client, client'[c].released
               PROVE  cache'[client'[c].id] # c
    BY DEF ReleasedNotListed, Listed
  <1>0. /\ client \in [Client -> ClientType] /\ client[c] \in ClientType
        /\ cache \in [Id -> Client \cup {NoClient}] /\ client[c].id \in Id
        /\ client'[c].id = client[c].id /\ NoClient \notin Client
    BY ForGood, SMTT(30) DEF TypeOK, ClientType, NoClient, Client
  <1>1. client[c].released => cache[client[c].id] # c
    BY DEF ReleasedNotListed, Listed
  <1>2. CASE UNCHANGED connections
    BY <1>0, <1>1, <1>2 DEF connections
  <1>3. ASSUME NEW d \in Client, client[d].conn = "none",
               client' = [client EXCEPT ![d].conn = "upgrading", ![d].active = clock],
               cache' = [cache EXCEPT ![client[d].id] = d]
        PROVE  cache'[client'[c].id] # c
    <2>1. client'[c].released = client[c].released
      BY <1>0, <1>3 DEF ClientType
    <2>2. c # d
      BY <1>3, <2>1 DEF Begun, Began
    <2> QED BY <1>0, <1>1, <1>3, <2>1, <2>2
  <1>4. ASSUME NEW d \in Client, Drop(d)
        PROVE  cache'[client'[c].id] # c
    <2>1. CASE UNCHANGED connections
      BY <1>2, <2>1
    <2>2. CASE /\ cache' = [cache EXCEPT ![client[d].id] = NoClient]
               /\ client' = [client EXCEPT ![d].released = TRUE,
                                ![d].conn = IF @ = "open" THEN "closed" ELSE @]
      <3>1. c = d \/ client'[c].released = client[c].released
        BY <1>0, <2>2
      <3>2. client[d].id \in Id
        BY <1>0 DEF ClientType
      <3> QED BY <1>0, <1>1, <2>2, <3>1, <3>2
    <2> QED BY <1>4, <2>1, <2>2 DEF Drop
  <1>5. CASE cache' = cache /\ client'[c].released = client[c].released
    BY <1>0, <1>1, <1>5
  <1>6. ASSUME NEW d \in Client, NEW x \in {"open", "failed"},
               client' = [client EXCEPT ![d].conn = x]
        PROVE  client'[c].released = client[c].released
    BY <1>0, <1>6 DEF ClientType
  <1>7. ASSUME NEW d \in Client, \/ client' = [client EXCEPT ![d].active = clock]
                                 \/ client' = [client EXCEPT ![d].closed = TRUE]
        PROVE  client'[c].released = client[c].released
    BY <1>0, <1>7, ZenonT(60) DEF ClientType
  <1> QED BY <1>2, <1>3, <1>4, <1>5, <1>6, <1>7 DEF Moves

(* Who leaves the index without being closed was overtaken by a namesake.   *)
LEMMA StepSupervised ==
  ASSUME TypeOK, Begun, Supervised, Moves
  PROVE  Supervised'
  <1> DEFINE Namesake(c) == \E o \in Client \ {c} : client[o].id = client[c].id /\ Began(o)
  <1> SUFFICES ASSUME NEW c \in Client, client'[c].conn \in {"upgrading", "open"},
                      ~client'[c].closed, cache'[client'[c].id] # c
               PROVE  Namesake(c)'
    BY DEF Supervised, Listed
  <1>0. /\ client \in [Client -> ClientType] /\ client[c] \in ClientType
        /\ cache \in [Id -> Client \cup {NoClient}] /\ client[c].id \in Id
        /\ client'[c].id = client[c].id
        /\ ~client[c].closed
    BY ForGood DEF TypeOK, ClientType
  <1>1. Namesake(c) => Namesake(c)'
    BY ForGood DEF Began, BeganNext
  <1>2. CASE client[c].conn \in {"upgrading", "open"} /\ cache[client[c].id] # c
    BY <1>0, <1>1, <1>2 DEF Supervised, Listed
  <1>3. ASSUME NEW d \in Client, d # c, client[d].id = client[c].id, Began(d)'
        PROVE  Namesake(c)'
    BY <1>0, <1>3, ForGood DEF Began, BeganNext
  <1>4. ASSUME NEW d \in Client, client[d].conn = "none",
               client' = [client EXCEPT ![d].conn = "upgrading", ![d].active = clock],
               cache' = [cache EXCEPT ![client[d].id] = d]
        PROVE  Namesake(c)'
    <2>1. d # c
      BY <1>0, <1>4
    <2>2. Began(d)'
      BY <1>0, <1>4 DEF Began, ClientType
    <2>3. client'[c] = client[c]
      BY <1>0, <1>4, <2>1
    <2>4. CASE client[d].id = client[c].id
      BY <1>3, <2>1, <2>2, <2>4
    <2>5. CASE client[d].id # client[c].id
      BY <1>0, <1>2, <1>4, <2>3, <2>5
    <2> QED BY <2>4, <2>5
  <1>5. ASSUME NEW d \in Client, Began(d), client[d].closed, Drop(d)
        PROVE  Namesake(c)'
    <2>1. d # c
      BY <1>0, <1>5
    <2>2. Began(d)'
      BY <1>5, ForGood DEF Began, BeganNext
    <2>3. CASE UNCHANGED connections
      BY <1>2, <2>3 DEF connections
    <2>4. CASE /\ cache' = [cache EXCEPT ![client[d].id] = NoClient]
               /\ client' = [client EXCEPT ![d].released = TRUE,
                                ![d].conn = IF @ = "open" THEN "closed" ELSE @]
      <3>1. client'[c] = client[c]
        BY <1>0, <2>1, <2>4
      <3>2. CASE client[d].id = client[c].id
        BY <1>3, <2>1, <2>2, <3>2
      <3>3. CASE client[d].id # client[c].id
        BY <1>0, <1>2, <2>4, <3>1, <3>3
      <3> QED BY <3>2, <3>3
    <2> QED BY <1>5, <2>3, <2>4 DEF Drop
  <1>6. CASE UNCHANGED connections
    BY <1>2, <1>6 DEF connections
  <1>7. ASSUME NEW d \in Client, client[d].conn = "upgrading", NEW x \in {"open", "failed"},
               client' = [client EXCEPT ![d].conn = x], UNCHANGED cache
        PROVE  Namesake(c)'
    <2>1. client[c].conn \in {"upgrading", "open"}
      BY <1>0, <1>7
    <2> QED BY <1>0, <1>2, <1>7, <2>1
  <1>8. ASSUME NEW d \in Client, UNCHANGED cache,
               \/ client' = [client EXCEPT ![d].active = clock]
               \/ client' = [client EXCEPT ![d].closed = TRUE]
        PROVE  Namesake(c)'
    <2>1. client'[c].conn = client[c].conn
      BY <1>0, <1>8 DEF ClientType
    <2> QED BY <1>0, <1>2, <1>8, <2>1
  <1> QED BY <1>4, <1>5, <1>6, <1>7, <1>8 DEF Moves

-----------------------------------------------------------------------------
(* Who moves the goroutines and the channel of closings.                   *)
LEMMA Frame ==
  ASSUME Next
  PROVE  /\ \/ reader' = reader
            \/ \E c \in Client : \/ Upgrade(c) \/ ReadError(c) \/ Deliver(c) \/ AskClose(c)
                                 \/ \E kind \in Kinds : ReadText(c, kind)
         /\ \/ receiver' = receiver
            \/ TakeMessage \/ Occupy \/ SendBusy \/ SendFree \/ Respond \/ WriteResponse \/ SendClose
            \/ TakeClose \/ ReceiverDrop
         /\ beat' = beat \/ BeatMark \/ BeatDrop \/ \E c \in Client : BeatExamine(c)
         /\ \/ verifier' = verifier
            \/ VerifySend \/ VerifyDrop \/ \E c \in Client : VerifyExamine(c)
         /\ closeCh' = closeCh \/ SendClose \/ TakeClose \/ \E c \in Client : AskClose(c)
  BY ZenonT(60)
  DEF Next, Receive, Beat, Verify, Login, Upgrade, ReadText, ReadError, Deliver, AskClose,
       VerifyExamine, Notify, TakeMessage, Occupy, SendBusy, SendFree, Respond, WriteResponse,
       SendClose, TakeBroadcast, TakeClose, ReceiverDrop, BeatMark, BeatDrop, BeatExamine,
       VerifySend, VerifyDrop, Tick, goroutines, channels, rest

(* What is closed has a name.                                              *)
LEMMA StepNamed ==
  ASSUME TypeOK, Named, Next
  PROVE  Named'
  <1>1. receiver'.pc # "select" => receiver'.client \in Client
    <2>1. CASE TakeMessage
      <3>1. Head(receiveCh) \in Receipt
        BY <2>1, HeadTail DEF TakeMessage, TypeOK
      <3>2. receiver' = receiver \/ receiver' = Idle
            \/ \E p : receiver' = [pc |-> p, client |-> Head(receiveCh).client]
        BY <2>1 DEF TakeMessage
      <3> QED BY <3>1, <3>2 DEF Named, Idle, Receipt
    <2>2. CASE WriteResponse
      <3>1. Head(responseCh) \in Response
        BY <2>2, HeadTail DEF WriteResponse, TypeOK
      <3> QED BY <2>2, <3>1 DEF WriteResponse, Named, Idle, Response
    <2>3. CASE TakeClose
      <3>1. Head(closeCh) \in Client
        BY <2>3, HeadTail DEF TakeClose, TypeOK
      <3> QED BY <2>3, <3>1 DEF TakeClose
    <2>4. CASE Occupy \/ SendBusy \/ SendFree
      BY <2>4 DEF Occupy, SendBusy, SendFree, Named, TypeOK
    <2>5. CASE Respond \/ SendClose \/ ReceiverDrop
      BY <2>5 DEF Respond, SendClose, ReceiverDrop, Idle
    <2>6. CASE receiver' = receiver
      BY <2>6 DEF Named
    <2> QED BY <2>1, <2>2, <2>3, <2>4, <2>5, <2>6, Frame
  <1>2. beat'.pc # "wait" => beat'.client \in Client
    <2>1. CASE BeatMark
      BY <2>1 DEF BeatMark, Named, TypeOK
    <2>2. CASE BeatDrop \/ \E c \in Client : BeatExamine(c)
      BY <2>2 DEF BeatDrop, BeatExamine, Wait
    <2> QED BY <2>1, <2>2, Frame DEF Named
  <1>3. verifier'.pc # "wait" => verifier'.client \in Client
    <2>1. CASE VerifySend \/ VerifyDrop \/ \E c \in Client : VerifyExamine(c)
      BY <2>1 DEF VerifySend, VerifyDrop, VerifyExamine, Wait
    <2> QED BY <2>1, Frame DEF Named
  <1> QED BY <1>1, <1>2, <1>3 DEF Named

(* And has logged in.                                                      *)
LEMMA StepBegun ==
  ASSUME TypeOK, Named, Begun, Marked, Next, Moves
  PROVE  Begun'
  <1>0. /\ closeCh \in Seq(Client) /\ reader \in [Client -> {"none", "read", "plain", "audio", "close", "done"}]
        /\ client \in [Client -> ClientType] /\ cache \in [Id -> Client \cup {NoClient}]
    BY DEF TypeOK, ClientType
  <1>1. ASSUME NEW c \in Client, reader'[c] # "none"
        PROVE  BeganNext(c)
    <2>1. CASE reader[c] # "none"
      BY <2>1, ForGood DEF Begun
    <2>2. CASE reader[c] = "none"
      <3>1. \/ Upgrade(c)
            \/ reader'[c] = "none"
        BY <1>0, <2>2, Frame DEF Upgrade, ReadText, ReadError, Deliver, AskClose, Kinds
      <3>2. Upgrade(c)
        BY <1>1, <3>1
      <3> QED BY <3>2, ForGood DEF Upgrade, Began
    <2> QED BY <2>1, <2>2
  <1>2. ASSUME NEW c \in Client, Listed(c)' \/ client'[c].closed \/ client'[c].released
        PROVE  BeganNext(c)
    <2>1. CASE Listed(c) \/ client[c].closed \/ client[c].released
      BY <2>1, ForGood DEF Begun
    <2>2. CASE ~(Listed(c) \/ client[c].closed \/ client[c].released)
      <3>0. /\ client'[c].id = client[c].id /\ client[c].id \in Id /\ NoClient \notin Client
            /\ cache[client[c].id] # c /\ ~client[c].closed /\ ~client[c].released
        BY <1>0, <2>2, ForGood DEF ClientType, NoClient, Client, Listed
      <3>1. CASE UNCHANGED connections
        BY <1>2, <2>2, <3>0, <3>1 DEF connections, Listed
      <3>2. ASSUME NEW d \in Client,
                   client' = [client EXCEPT ![d].conn = "upgrading", ![d].active = clock],
                   cache' = [cache EXCEPT ![client[d].id] = d]
            PROVE  BeganNext(c)
        <4>1. CASE d = c
          BY <1>0, <3>2, <4>1 DEF BeganNext, ClientType
        <4>2. CASE d # c
          BY <1>0, <1>2, <3>0, <3>2, <4>2 DEF Listed
        <4> QED BY <4>1, <4>2
      <3>3. ASSUME NEW d \in Client, NEW x \in {"open", "failed"},
                   client' = [client EXCEPT ![d].conn = x], UNCHANGED cache
            PROVE  BeganNext(c)
        BY <1>0, <1>2, <3>0, <3>3 DEF Listed, ClientType
      <3>4. ASSUME NEW d \in Client, client' = [client EXCEPT ![d].active = clock], UNCHANGED cache
            PROVE  BeganNext(c)
        BY <1>0, <1>2, <3>0, <3>4 DEF Listed, ClientType
      <3>5. ASSUME NEW d \in Client, Began(d), client' = [client EXCEPT ![d].closed = TRUE],
                   UNCHANGED cache
            PROVE  BeganNext(c)
        <4>1. CASE d = c
          BY <3>5, <4>1, ForGood
        <4>2. CASE d # c
          BY <1>0, <1>2, <3>0, <3>5, <4>2 DEF Listed
        <4> QED BY <4>1, <4>2
      <3>6. ASSUME NEW d \in Client, Began(d), Drop(d)
            PROVE  BeganNext(c)
        <4>1. CASE d = c
          BY <3>6, <4>1, ForGood
        <4>2. CASE d # c /\ ~UNCHANGED connections
          BY <1>0, <1>2, <3>0, <3>6, <4>2 DEF Listed, Drop
        <4> QED BY <3>1, <4>1, <4>2
      <3> QED BY <3>1, <3>2, <3>3, <3>4, <3>5, <3>6 DEF Moves
    <2> QED BY <2>1, <2>2
  <1>3. ASSUME NEW j \in 1 .. Len(closeCh')
        PROVE  BeganNext(closeCh'[j])
    <2>1. \A i \in 1 .. Len(closeCh) : closeCh[i] \in Client /\ BeganNext(closeCh[i])
      BY <1>0, ForGood DEF Begun
    <2>2. CASE closeCh' = closeCh
      BY <2>1, <2>2
    <2>3. CASE TakeClose
      BY <1>0, <2>1, <2>3, HeadTail DEF TakeClose
    <2>4. ASSUME NEW x \in Client, Began(x), closeCh' = Append(closeCh, x)
          PROVE  BeganNext(closeCh'[j])
      BY <1>0, <2>1, <2>4, Appended, ForGood
    <2>5. CASE SendClose
      BY <2>4, <2>5 DEF SendClose, Named, Begun
    <2>6. CASE \E c \in Client : AskClose(c)
      BY <2>4, <2>6 DEF AskClose, Begun
    <2> QED BY <2>2, <2>3, <2>5, <2>6, Frame
  <1>4. ASSUME receiver'.pc \in {"close", "drop"}
        PROVE  BeganNext(receiver'.client)
    <2>1. CASE WriteResponse
      <3>1. Head(responseCh) \in Response
        BY <2>1, HeadTail DEF WriteResponse, TypeOK
      <3> DEFINE c == Head(responseCh).client
      <3>2. c \in Client /\ receiver'.client = c /\ Began(c)
        BY <1>4, <2>1, <3>1 DEF WriteResponse, Response, Idle, Began
      <3> HIDE DEF c
      <3> QED BY <3>2, ForGood
    <2>2. CASE TakeClose
      <3>1. closeCh # <<>> /\ receiver'.client = Head(closeCh)
        BY <2>2 DEF TakeClose
      <3>2. receiver'.client \in Client /\ Began(receiver'.client)
        BY <1>0, <3>1, HeadTail DEF Begun
      <3> QED BY <3>2, ForGood
    <2>3. CASE TakeMessage \/ Occupy \/ SendBusy \/ SendFree \/ Respond \/ SendClose \/ ReceiverDrop
      <3>1. receiver' = receiver \/ receiver'.pc \notin {"close", "drop"}
        BY <2>3, SMTT(30)
        DEF TakeMessage, Asked, Occupy, SendBusy, SendFree, Respond, SendClose, ReceiverDrop, Idle,
            TypeOK
      <3> QED BY <1>4, <3>1, ForGood DEF Named, Begun
    <2>4. CASE receiver' = receiver
      BY <1>4, <2>4, ForGood DEF Named, Begun
    <2> QED BY <2>1, <2>2, <2>3, <2>4, Frame
  <1>5. beat'.pc # "wait" => BeganNext(beat'.client)
    <2>1. CASE \E c \in Client : BeatExamine(c)
      BY <2>1, ForGood DEF BeatExamine, Begun
    <2>2. CASE BeatMark
      <3>1. beat'.client = beat.client /\ beat.client \in Client /\ Began(beat.client)
        BY <2>2 DEF BeatMark, Named, Begun, TypeOK
      <3> QED BY <3>1, ForGood
    <2>3. CASE BeatDrop
      BY <2>3 DEF BeatDrop, Wait
    <2>4. CASE beat' = beat
      BY <2>4, ForGood DEF Named, Begun
    <2> QED BY <2>1, <2>2, <2>3, <2>4, Frame
  <1>6. verifier'.pc # "wait" => BeganNext(verifier'.client)
    <2>1. CASE \E c \in Client : VerifyExamine(c)
      <3>1. PICK c \in Client : VerifyExamine(c)
        BY <2>1
      <3>2. verifier'.client = c /\ Began(c)
        BY <3>1 DEF VerifyExamine, Begun
      <3> QED BY <3>2, ForGood
    <2>2. CASE VerifySend \/ VerifyDrop
      BY <2>2 DEF VerifySend, VerifyDrop, Wait
    <2>3. CASE verifier' = verifier
      BY <2>3, ForGood DEF Named, Begun
    <2> QED BY <2>1, <2>2, <2>3, Frame
  <1> QED BY <1>1, <1>2, <1>3, <1>4, <1>5, <1>6 DEF Begun, Began, BeganNext

(* And is marked before the close work is done.                            *)
LEMMA StepMarked ==
  ASSUME TypeOK, Named, Marked, Next, Moves
  PROVE  Marked'
  <1>0. client \in [Client -> ClientType]
    BY DEF TypeOK, ClientType
  <1>1. ASSUME NEW c \in Client, client' = [client EXCEPT ![c].closed = TRUE]
        PROVE  client'[c].closed
    BY <1>0, <1>1 DEF ClientType
  <1>2. receiver'.pc = "drop" => client'[receiver'.client].closed
    <2>1. CASE TakeClose
      <3>1. Head(closeCh) \in Client
        BY <2>1, HeadTail DEF TakeClose, TypeOK
      <3> QED BY <1>1, <2>1, <3>1 DEF TakeClose
    <2>2. CASE \/ TakeMessage \/ Occupy \/ SendBusy \/ SendFree \/ Respond \/ WriteResponse \/ SendClose
               \/ ReceiverDrop
      <3>1. receiver' = receiver \/ receiver'.pc # "drop"
        BY <2>2 DEF TakeMessage, Asked, Occupy, SendBusy, SendFree, Respond, WriteResponse, SendClose,
           ReceiverDrop, Idle, TypeOK
      <3> QED BY <3>1, ForGood DEF Named, Marked
    <2>3. CASE receiver' = receiver
      BY <2>3, ForGood DEF Named, Marked
    <2> QED BY <2>1, <2>2, <2>3, Frame
  <1>3. beat'.pc = "drop" => client'[beat'.client].closed
    <2>1. CASE BeatMark
      <3>1. beat.client \in Client /\ beat'.client = beat.client
        BY <2>1 DEF BeatMark, Named, TypeOK
      <3> QED BY <1>1, <2>1, <3>1 DEF BeatMark
    <2>2. CASE BeatDrop \/ \E c \in Client : BeatExamine(c)
      BY <2>2 DEF BeatDrop, BeatExamine, Wait
    <2>3. CASE beat' = beat
      BY <2>3, ForGood DEF Named, Marked
    <2> QED BY <2>1, <2>2, <2>3, Frame
  <1>4. verifier'.pc = "drop" => client'[verifier'.client].closed
    <2>1. CASE \E c \in Client : VerifyExamine(c)
      BY <2>1, ForGood DEF VerifyExamine
    <2>2. CASE VerifySend \/ VerifyDrop
      BY <2>2 DEF VerifySend, VerifyDrop, Wait
    <2>3. CASE verifier' = verifier
      BY <2>3, ForGood DEF Named, Marked
    <2> QED BY <2>1, <2>2, <2>3, Frame
  <1> QED BY <1>2, <1>3, <1>4 DEF Marked

-----------------------------------------------------------------------------
(* The types.                                                              *)
LEMMA DataFrame ==
  ASSUME Next
  PROVE  /\ clock' = clock \/ Tick
         /\ receiveCh' = receiveCh \/ TakeMessage \/ \E c \in Client : Deliver(c)
         /\ \/ responseCh' = responseCh
            \/ Respond \/ WriteResponse \/ VerifySend \/ \E c \in Client : Notify(c)
         /\ broadcastCh' = broadcastCh \/ SendBusy \/ SendFree \/ TakeBroadcast
         /\ notice' = notice \/ SendBusy \/ \E c \in Client : Notify(c)
         /\ talker' = talker \/ Occupy \/ talker' = GivenBack
         /\ \/ messages' = messages
            \/ messages < MaxMessages /\ messages' = messages + 1
  BY DEF Next, Receive, Beat, Verify, Login, Upgrade, ReadText, ReadError, Deliver, AskClose,
     VerifyExamine, Notify, TakeMessage, Occupy, SendBusy, SendFree, Respond, WriteResponse,
     SendClose, TakeBroadcast, TakeClose, ReceiverDrop, BeatMark, BeatDrop, BeatExamine,
     VerifySend, VerifyDrop, Tick, goroutines, channels, rest

LEMMA Taken ==
  ASSUME NEW S, NEW ch \in Seq(S), Len(ch) <= ChanCap, NEW next,
         next = ch \/ (ch # <<>> /\ next = Tail(ch))
                  \/ \E x \in S : HasRoom(ch) /\ next = Append(ch, x)
  PROVE  next \in Seq(S) /\ Len(next) <= ChanCap
  <1>1. CASE ch # <<>> /\ next = Tail(ch)
    BY <1>1, HeadTail, HubAssumption
  <1>2. ASSUME NEW x \in S, HasRoom(ch), next = Append(ch, x)
        PROVE  next \in Seq(S) /\ Len(next) <= ChanCap
    BY <1>2, Appended, HubAssumption DEF HasRoom
  <1> QED BY <1>1, <1>2

LEMMA ChannelsTyped ==
  ASSUME TypeOK, Named, Next
  PROVE  /\ receiveCh' \in Seq(Receipt) /\ Len(receiveCh') <= ChanCap
         /\ responseCh' \in Seq(Response) /\ Len(responseCh') <= ChanCap
         /\ closeCh' \in Seq(Client) /\ Len(closeCh') <= ChanCap
         /\ broadcastCh' \in 0 .. BroadcastCap
  <1>0. /\ receiveCh \in Seq(Receipt) /\ Len(receiveCh) <= ChanCap
        /\ responseCh \in Seq(Response) /\ Len(responseCh) <= ChanCap
        /\ closeCh \in Seq(Client) /\ Len(closeCh) <= ChanCap
    BY DEF TypeOK
  <1>1. /\ receiveCh' \in Seq(Receipt) /\ Len(receiveCh') <= ChanCap
    <2>1. \/ receiveCh' = receiveCh \/ (receiveCh # <<>> /\ receiveCh' = Tail(receiveCh))
          \/ \E x \in Receipt : HasRoom(receiveCh) /\ receiveCh' = Append(receiveCh, x)
      BY DataFrame DEF TakeMessage, Deliver, Receipt
    <2> QED BY <1>0, <2>1, Taken
  <1>2. /\ responseCh' \in Seq(Response) /\ Len(responseCh') <= ChanCap
    <2>1. \/ responseCh' = responseCh \/ (responseCh # <<>> /\ responseCh' = Tail(responseCh))
          \/ \E x \in Response : HasRoom(responseCh) /\ responseCh' = Append(responseCh, x)
      <3>1. CASE Respond
        BY <3>1 DEF Respond, Named, Response
      <3>2. CASE VerifySend
        BY <3>2 DEF VerifySend, Named, Response
      <3>3. CASE WriteResponse
        BY <3>3 DEF WriteResponse
      <3>4. CASE \E c \in Client : Notify(c)
        BY <3>4 DEF Notify, Response
      <3> QED BY <3>1, <3>2, <3>3, <3>4, DataFrame
    <2> QED BY <1>0, <2>1, Taken
  <1>3. /\ closeCh' \in Seq(Client) /\ Len(closeCh') <= ChanCap
    <2>1. \/ closeCh' = closeCh \/ (closeCh # <<>> /\ closeCh' = Tail(closeCh))
          \/ \E x \in Client : HasRoom(closeCh) /\ closeCh' = Append(closeCh, x)
      BY Frame DEF SendClose, TakeClose, AskClose, Named
    <2> QED BY <1>0, <2>1, Taken
  <1>4. broadcastCh' \in 0 .. BroadcastCap
    <2>1. BroadcastCap \in Nat /\ broadcastCh \in 0 .. BroadcastCap
      BY Bounds DEF TypeOK
    <2>2. \/ broadcastCh' = broadcastCh
          \/ broadcastCh < BroadcastCap /\ broadcastCh' = broadcastCh + 1
          \/ broadcastCh > 0 /\ broadcastCh' = broadcastCh - 1
      BY DataFrame DEF SendBusy, SendFree, TakeBroadcast
    <2> QED BY <2>1, <2>2
  <1> QED BY <1>1, <1>2, <1>3, <1>4

LEMMA GoroutinesTyped ==
  ASSUME TypeOK, Named, Next
  PROVE  /\ reader' \in [Client -> {"none", "read", "plain", "audio", "close", "done"}]
         /\ receiver' \in [pc : {"select", "refuse", "occupy", "busy", "free", "respond", "close", "drop"},
                           client : Client \cup {NoClient}]
         /\ beat' \in [pc : {"wait", "mark", "drop"}, client : Client \cup {NoClient}]
         /\ verifier' \in [pc : {"wait", "expired", "mark", "drop"},
                           client : Client \cup {NoClient}]
  <1>1. reader' \in [Client -> {"none", "read", "plain", "audio", "close", "done"}]
    BY Frame, ZenonT(60) DEF TypeOK, Upgrade, ReadText, ReadError, Deliver, AskClose, Kinds
  <1>2. receiver' \in [pc : {"select", "refuse", "occupy", "busy", "free", "respond", "close", "drop"},
                       client : Client \cup {NoClient}]
    <2>1. CASE TakeMessage
      <3>1. Head(receiveCh) \in Receipt
        BY <2>1, HeadTail DEF TakeMessage, TypeOK
      <3>2. receiver' = receiver \/ receiver' = Idle
            \/ \E p \in {"respond", "occupy", "busy", "refuse"} :
                 receiver' = [pc |-> p, client |-> Head(receiveCh).client]
        BY <2>1 DEF TakeMessage, Asked
      <3> QED BY <3>1, <3>2 DEF Idle, Receipt, TypeOK
    <2>2. CASE WriteResponse
      <3>1. Head(responseCh) \in Response
        BY <2>2, HeadTail DEF WriteResponse, TypeOK
      <3>2. receiver' = receiver \/ receiver' = Idle
            \/ receiver' = [pc |-> "close", client |-> Head(responseCh).client]
        BY <2>2 DEF WriteResponse
      <3> QED BY <3>1, <3>2 DEF Idle, Response, TypeOK
    <2>3. CASE TakeClose
      <3>1. Head(closeCh) \in Client
        BY <2>3, HeadTail DEF TakeClose, TypeOK
      <3> QED BY <2>3, <3>1 DEF TakeClose
    <2>4. CASE Occupy \/ SendBusy \/ SendFree \/ Respond \/ SendClose \/ ReceiverDrop
      BY <2>4 DEF Occupy, SendBusy, SendFree, Respond, SendClose, ReceiverDrop, Idle, TypeOK
    <2>5. CASE receiver' = receiver
      BY <2>5 DEF TypeOK
    <2> QED BY <2>1, <2>2, <2>3, <2>4, <2>5, Frame
  <1>3. beat' \in [pc : {"wait", "mark", "drop"}, client : Client \cup {NoClient}]
    BY Frame DEF TypeOK, BeatMark, BeatDrop, BeatExamine, Wait
  <1>4. verifier' \in [pc : {"wait", "expired", "mark", "drop"}, client : Client \cup {NoClient}]
    BY Frame DEF TypeOK, VerifySend, VerifyDrop, VerifyExamine, Wait
  <1> QED BY <1>1, <1>2, <1>3, <1>4

LEMMA StepTypeOK ==
  ASSUME TypeOK, Named, Next, Moves
  PROVE  TypeOK'
  <1>1. clock' \in 0 .. MaxTime
    <2>1. MaxTime \in Nat /\ clock \in 0 .. MaxTime
      BY Bounds DEF TypeOK
    <2>2. clock' = clock \/ (clock < MaxTime /\ clock' = clock + 1)
      BY DataFrame DEF Tick
    <2> QED BY <2>1, <2>2
  <1>2. messages' \in 0 .. MaxMessages
    <2>1. MaxMessages \in Nat /\ messages \in 0 .. MaxMessages
      BY Bounds DEF TypeOK
    <2>2. \/ messages' = messages
          \/ messages < MaxMessages /\ messages' = messages + 1
      BY DataFrame
    <2> QED BY <2>1, <2>2
  <1>3. notice' \in [Client -> Nat]
    <2>0. notice \in [Client -> Nat]
      BY DEF TypeOK
    <2>1. CASE SendBusy
      <3>1. receiver.client \in Client
        BY <2>1 DEF SendBusy, Named
      <3>2. notice' = [notice EXCEPT ![receiver.client] = @ + 1]
        BY <2>1 DEF SendBusy
      <3> QED BY <2>0, <3>1, <3>2
    <2>2. CASE \E c \in Client : Notify(c)
      <3>1. PICK c \in Client : notice[c] > 0 /\ notice' = [notice EXCEPT ![c] = @ - 1]
        BY <2>2 DEF Notify
      <3>2. notice[c] - 1 \in Nat
        BY <2>0, <3>1
      <3> QED BY <2>0, <3>1, <3>2
    <2>3. notice' = notice \/ SendBusy \/ \E c \in Client : Notify(c)
      BY DataFrame
    <2> QED BY <2>0, <2>1, <2>2, <2>3
  <1>4. talker' \in Client \cup {NoClient}
    <2>1. CASE Occupy
      BY <2>1 DEF Occupy, TypeOK
    <2> QED BY <2>1, DataFrame DEF TypeOK, GivenBack
  <1> QED BY <1>1, <1>2, <1>3, <1>4, MovesTyped, ChannelsTyped, GoroutinesTyped
          DEF TypeOK, ClientType

-----------------------------------------------------------------------------
(* The invariant.                                                          *)
LEMMA InitInv == Init => Inv
  <1> SUFFICES ASSUME Init PROVE Inv
    OBVIOUS
  <1>1. /\ client \in [Client -> ClientType]
        /\ \A c \in Client : /\ client[c].conn = "none" /\ ~client[c].closed
                             /\ ~client[c].released /\ client[c].id \in Id
    <2>1. 0 \in 0 .. MaxTime
      BY Bounds
    <2>2. client \in [Client -> [id : Id, conn : {"none"}, closed : {FALSE},
                                released : {FALSE}, active : {0}]]
      BY DEF Init
    <2>3. [id : Id, conn : {"none"}, closed : {FALSE}, released : {FALSE}, active : {0}]
            \subseteq ClientType
      BY <2>1 DEF ClientType
    <2> QED BY <2>2, <2>3
  <1>2. TypeOK
    BY <1>1, Bounds, HubAssumption DEF Init, TypeOK, ClientType, Idle, Wait
  <1>3. \A c \in Client : ~Listed(c)
    BY <1>1 DEF Init, Listed, NoClient, Client
  <1> QED BY <1>1, <1>2, <1>3
          DEF Init, Inv, Named, Begun, Marked, ReleasedNotListed, Supervised, Idle, Wait

LEMMA StepInv == Inv /\ [Next]_vars => Inv'
  <1> SUFFICES ASSUME Inv, [Next]_vars PROVE Inv'
    OBVIOUS
  <1>1. CASE UNCHANGED vars
    BY <1>1 DEF vars, Inv, TypeOK, Named, Begun, Began, Marked, ReleasedNotListed, Supervised,
       Listed
  <1>2. CASE Next
    BY <1>2, StepMoves, StepTypeOK, StepNamed, StepBegun, StepMarked, StepReleased,
       StepSupervised DEF Inv
  <1> QED BY <1>1, <1>2

LEMMA Invariant == Spec => []Inv
  BY InitInv, StepInv, PTL DEF Spec

(* The types of the hub's connections, channels and goroutines.            *)
THEOREM HubTypeOK == Spec => []TypeOK
  BY Invariant, PTL DEF Inv

(* Three goroutines may do the close work of a connection, the receiver, the*)
(* heartbeat and the token check: whichever does, nobody finds it in the    *)
(* index from then on.                                                     *)
THEOREM HubReleasedNotListed == Spec => []ReleasedNotListed
  BY Invariant, PTL DEF Inv

(* An open connection that the heartbeat does not see has a namesake.      *)
THEOREM HubUnlistedHadNamesake == Spec => []UnlistedHadNamesake
  <1>1. Inv => UnlistedHadNamesake
    BY DEF Inv, Supervised, UnlistedHadNamesake, Began
  <1> QED BY <1>1, Invariant, PTL

(* A device is occupied as long as the receiver is at its first broadcast,  *)
(* so it is free whenever a message is taken.                               *)
LEMMA StepTalk == TypeOK /\ TalkFree /\ [Next]_vars => TalkFree'
  <1> SUFFICES ASSUME TypeOK, TalkFree, [Next]_vars PROVE TalkFree'
    OBVIOUS
  <1>1. CASE UNCHANGED vars
    BY <1>1 DEF vars, TalkFree
  <1>2. CASE TakeMessage
    <2>1. talker = NoClient /\ talker' = talker
      BY <1>2 DEF TakeMessage, TalkFree
    <2>2. Asked(Head(receiveCh).client) = "occupy"
      BY <2>1 DEF Asked
    <2>3. receiver'.pc # "refuse"
      BY <1>2, <2>2 DEF TakeMessage, TalkFree, Idle
    <2> QED BY <2>1, <2>3 DEF TalkFree
  <1>7. CASE Occupy
    <2>1. receiver' = [pc |-> "busy", client |-> receiver.client]
      BY <1>7 DEF Occupy, TypeOK
    <2> QED BY <1>7, <2>1 DEF Occupy, TalkFree
  <1>3. CASE SendBusy \/ SendFree
    BY <1>3 DEF SendBusy, SendFree, GivenBack, TalkFree, TypeOK
  <1>4. CASE Respond \/ WriteResponse \/ SendClose \/ TakeClose \/ ReceiverDrop
    <2>1. talker' = talker /\ talker = NoClient
      BY <1>4 DEF Respond, WriteResponse, SendClose, TakeClose, ReceiverDrop, rest, TalkFree
    <2>2. receiver'.pc # "refuse"
      BY <1>4 DEF Respond, WriteResponse, SendClose, TakeClose, ReceiverDrop, Idle, TalkFree
    <2> QED BY <2>1, <2>2 DEF TalkFree
  <1>5. CASE receiver' = receiver /\ talker' = talker
    BY <1>5 DEF TalkFree
  <1>6. Next => \/ TakeMessage \/ Occupy \/ SendBusy \/ SendFree \/ Respond \/ WriteResponse
                \/ SendClose \/ TakeClose \/ ReceiverDrop
                \/ receiver' = receiver /\ talker' = talker
    BY DEF Next, Receive, Beat, Verify, Login, Upgrade, ReadText, ReadError, Deliver, AskClose,
     VerifyExamine, Notify, TakeMessage, Occupy, SendBusy, SendFree, Respond, WriteResponse,
     SendClose, TakeBroadcast, TakeClose, ReceiverDrop, BeatMark, BeatDrop, BeatExamine,
     VerifySend, VerifyDrop, Tick, goroutines, channels, rest
  <1> QED BY <1>1, <1>2, <1>3, <1>4, <1>5, <1>6, <1>7

(* Every way out of the talk handler gives the device back before the next  *)
(* message is taken, whatever the capacities, however often the receiver    *)
(* has to wait in between and whatever becomes of the client meanwhile.     *)
THEOREM HubTalkFree == Spec => []TalkFree
  <1>1. Init => TalkFree
    BY DEF Init, TalkFree, Idle
  <1> QED BY <1>1, StepTalk, HubTypeOK, PTL DEF Spec

-----------------------------------------------------------------------------
(* The sessions.                                                           *)

(* The phases of a connection's life.                                      *)
Phase(c) ==
  IF client[c].conn = "none" THEN "new"
  ELSE IF client[c].released THEN "gone"
  ELSE IF client[c].closed THEN "marked" ELSE "in"

Sessions == INSTANCE HubSessions
              WITH user  <- [c \in Client |-> client[c].id],
                   phase <- [c \in Client |-> Phase(c)],
                   place <- cache

(* How a step changes the phases when it changes one connection.           *)
LEMMA OneConnection ==
  ASSUME TypeOK, NEW c \in Client, NEW r \in ClientType,
         client' = [client EXCEPT ![c] = r], r.id = client[c].id
  PROVE  /\ [d \in Client |-> client'[d].id] = [d \in Client |-> client[d].id]
         /\ \A p : Phase(c)' = p =>
              [d \in Client |-> Phase(d)'] = [[d \in Client |-> Phase(d)] EXCEPT ![c] = p]
  <1>1. /\ client \in [Client -> ClientType]
        /\ client'[c] = r
        /\ \A d \in Client : d # c => client'[d] = client[d]
    BY DEF TypeOK, ClientType
  <1>2. \A d \in Client : client'[d].id = client[d].id
    BY <1>1
  <1>3. \A d \in Client : d # c => Phase(d)' = Phase(d)
    BY <1>1 DEF Phase
  <1> QED BY <1>2, <1>3

LEMMA SessionSteps ==
  ASSUME TypeOK, Begun, Moves
  PROVE  Sessions!Next \/ UNCHANGED Sessions!sessionVars
  <1> DEFINE Same == UNCHANGED Sessions!sessionVars
  <1>0. /\ client \in [Client -> ClientType]
        /\ \A c \in Client : client[c] \in ClientType
    BY DEF TypeOK, ClientType
  <1>1. ASSUME NEW c \in Client, NEW r \in ClientType, UNCHANGED cache,
               client' = [client EXCEPT ![c] = r], r.id = client[c].id,
               Phase(c)' = Phase(c)
        PROVE  Same
    <2>1. [d \in Client |-> Phase(d)'] = [[d \in Client |-> Phase(d)] EXCEPT ![c] = Phase(c)]
      BY <1>1, OneConnection
    <2>2. [d \in Client |-> client'[d].id] = [d \in Client |-> client[d].id]
      BY <1>1, OneConnection
    <2> QED BY <1>1, <2>1, <2>2 DEF Sessions!sessionVars
  <1>2. ASSUME UNCHANGED connections
        PROVE  Same
    <2>1. \A c \in Client : Phase(c)' = Phase(c)
      BY <1>2 DEF connections, Phase
    <2> QED BY <1>2, <2>1 DEF connections, Sessions!sessionVars
  <1>3. ASSUME NEW c \in Client, client[c].conn = "none",
               client' = [client EXCEPT ![c].conn = "upgrading", ![c].active = clock],
               cache' = [cache EXCEPT ![client[c].id] = c]
        PROVE  Sessions!Login(c)
    <2> DEFINE r == [client[c] EXCEPT !.conn = "upgrading", !.active = clock]
    <2>1. r \in ClientType /\ r.id = client[c].id /\ client' = [client EXCEPT ![c] = r]
      BY <1>0, <1>3 DEF ClientType, TypeOK
    <2>2. ~client[c].closed /\ ~client[c].released
      BY <1>3 DEF Begun, Began
    <2>3. client'[c].conn = "upgrading" /\ ~client'[c].closed /\ ~client'[c].released
      BY <1>0, <1>3, <2>2 DEF ClientType
    <2>4. Phase(c) = "new" /\ Phase(c)' = "in"
      BY <1>3, <2>3 DEF Phase
    <2> HIDE DEF r
    <2>5. /\ [d \in Client |-> client'[d].id] = [d \in Client |-> client[d].id]
          /\ [d \in Client |-> Phase(d)'] = [[d \in Client |-> Phase(d)] EXCEPT ![c] = "in"]
      BY <2>1, <2>4, OneConnection
    <2> QED BY <1>3, <2>4, <2>5 DEF Sessions!Login
  <1>4. ASSUME NEW c \in Client, client[c].conn = "upgrading", UNCHANGED cache,
               NEW x \in {"open", "failed"}, client' = [client EXCEPT ![c].conn = x]
        PROVE  Same
    <2> DEFINE r == [client[c] EXCEPT !.conn = x]
    <2>1. r \in ClientType /\ r.id = client[c].id /\ client' = [client EXCEPT ![c] = r]
      BY <1>0, <1>4 DEF ClientType
    <2>2. /\ client'[c].conn # "none" /\ client'[c].closed = client[c].closed
          /\ client'[c].released = client[c].released
      BY <1>0, <1>4 DEF ClientType
    <2>3. Phase(c)' = Phase(c)
      BY <1>4, <2>2 DEF Phase
    <2> HIDE DEF r
    <2> QED BY <1>1, <1>4, <2>1, <2>3
  <1>5. ASSUME NEW c \in Client, UNCHANGED cache,
               client' = [client EXCEPT ![c].active = clock]
        PROVE  Same
    <2> DEFINE r == [client[c] EXCEPT !.active = clock]
    <2>1. r \in ClientType /\ r.id = client[c].id /\ client' = [client EXCEPT ![c] = r]
      BY <1>0, <1>5 DEF ClientType, TypeOK
    <2>2. /\ client'[c].conn = client[c].conn /\ client'[c].closed = client[c].closed
          /\ client'[c].released = client[c].released
      BY <1>0, <1>5 DEF ClientType
    <2>3. Phase(c)' = Phase(c)
      BY <2>2 DEF Phase
    <2> HIDE DEF r
    <2> QED BY <1>1, <1>5, <2>1, <2>3
  <1>6. ASSUME NEW c \in Client, Began(c), UNCHANGED cache,
               client' = [client EXCEPT ![c].closed = TRUE]
        PROVE  Sessions!Mark(c) \/ Same
    <2> DEFINE r == [client[c] EXCEPT !.closed = TRUE]
    <2>1. r \in ClientType /\ r.id = client[c].id /\ client' = [client EXCEPT ![c] = r]
      BY <1>0, <1>6 DEF ClientType
    <2>2. /\ client'[c].conn = client[c].conn /\ client'[c].closed = TRUE
          /\ client'[c].released = client[c].released
      BY <1>0, <1>6 DEF ClientType
    <2>3. CASE Phase(c) = "in"
      <3>1. Phase(c)' = "marked"
        BY <2>2, <2>3 DEF Phase
      <3> HIDE DEF r
      <3>2. /\ [d \in Client |-> client'[d].id] = [d \in Client |-> client[d].id]
            /\ [d \in Client |-> Phase(d)'] =
                 [[d \in Client |-> Phase(d)] EXCEPT ![c] = "marked"]
        BY <2>1, <3>1, OneConnection
      <3> QED BY <1>6, <2>3, <3>2 DEF Sessions!Mark
    <2>4. CASE Phase(c) # "in"
      <3>1. Phase(c)' = Phase(c)
        BY <1>6, <2>2, <2>4 DEF Phase, Began
      <3> HIDE DEF r
      <3> QED BY <1>1, <1>6, <2>1, <3>1
    <2> QED BY <2>3, <2>4
  <1>7. ASSUME NEW c \in Client, Began(c), client[c].closed, ~client[c].released,
               cache' = [cache EXCEPT ![client[c].id] = NoClient],
               client' = [client EXCEPT ![c].released = TRUE,
                                        ![c].conn = IF @ = "open" THEN "closed" ELSE @]
        PROVE  Sessions!Release(c)
    <2> DEFINE r == [client[c] EXCEPT !.released = TRUE,
                                      !.conn = IF @ = "open" THEN "closed" ELSE @]
    <2>1. r \in ClientType /\ r.id = client[c].id /\ client' = [client EXCEPT ![c] = r]
      BY <1>0, <1>7 DEF ClientType
    <2>2. client'[c].conn # "none" /\ client'[c].released = TRUE
      BY <1>0, <1>7 DEF ClientType, Began
    <2>3. Phase(c) = "marked" /\ Phase(c)' = "gone"
      BY <1>7, <2>2 DEF Phase, Began
    <2> HIDE DEF r
    <2>4. /\ [d \in Client |-> client'[d].id] = [d \in Client |-> client[d].id]
          /\ [d \in Client |-> Phase(d)'] = [[d \in Client |-> Phase(d)] EXCEPT ![c] = "gone"]
      BY <2>1, <2>3, OneConnection
    <2> QED BY <1>7, <2>3, <2>4 DEF Sessions!Release
  <1>8. ASSUME NEW c \in Client, Began(c), client[c].closed, Drop(c)
        PROVE  Sessions!Release(c) \/ Same
    <2>1. CASE client[c].released
      <3> HIDE DEF Same
      <3>1. UNCHANGED connections
        BY <1>8, <2>1 DEF Drop
      <3> QED BY <1>2, <3>1
    <2>2. CASE ~client[c].released
      <3>1. /\ cache' = [cache EXCEPT ![client[c].id] = NoClient]
            /\ client' = [client EXCEPT ![c].released = TRUE,
                                        ![c].conn = IF @ = "open" THEN "closed" ELSE @]
        BY <1>8, <2>2 DEF Drop
      <3> HIDE DEF Same
      <3>2. Sessions!Release(c)
        BY <1>7, <1>8, <2>2, <3>1
      <3> QED BY <3>2
    <2> QED BY <2>1, <2>2
  <1> QED BY <1>2, <1>3, <1>4, <1>5, <1>6, <1>8 DEF Moves, Sessions!Next

LEMMA InitSessions == Init => Sessions!Init
  BY DEF Init, Sessions!Init, Phase

(* Receiver, heartbeat and token check, which may all close a connection at *)
(* the same time, also while it is upgrading, mark it once and do the close *)
(* work once and after the mark; no connection is indexed again later.     *)
THEOREM HubKeepsSessions == Spec => Sessions!Spec
  <1>1. Inv /\ [Next]_vars => [Sessions!Next]_(Sessions!sessionVars)
    <2> SUFFICES ASSUME Inv, [Next]_vars
                 PROVE  Sessions!Next \/ UNCHANGED Sessions!sessionVars
      OBVIOUS
    <2>1. CASE Next
      BY <2>1, StepMoves, SessionSteps DEF Inv
    <2>2. CASE UNCHANGED vars
      <3>1. Moves
        BY <2>2 DEF vars, Moves, connections
      <3> QED BY <3>1, SessionSteps DEF Inv
    <2> QED BY <2>1, <2>2
  <1> QED BY <1>1, InitSessions, Invariant, PTL DEF Spec, Sessions!Spec

=============================================================================
