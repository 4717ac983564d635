-------------------------- MODULE HttpServerProofs --------------------------
(***************************************************************************)
(* For any numbers of servers, clients and slots: a connection thread has  *)
(* a response slot of its own, and no client is answered twice, by another *)
(* handler, or with the default once its handler has answered.  When       *)
(* scripts use servers with care (Allowed = {}), a server that has been    *)
(* closed accepts nobody, and one that is open serves its clients with its *)
(* own callback over its own kind of connection.                           *)
(***************************************************************************)
EXTENDS HttpServer, TLAPS

(* Records keep their kinds when one of their fields is assigned.          *)
LEMMA ServerFlags ==
  ASSUME NEW r \in ServerSlot
  PROVE  /\ [r EXCEPT !.in_use = TRUE] \in ServerSlot /\ [r EXCEPT !.in_use = FALSE] \in ServerSlot
         /\ [r EXCEPT !.running = TRUE] \in ServerSlot /\ [r EXCEPT !.running = FALSE] \in ServerSlot
         /\ [r EXCEPT !.has_thread = TRUE] \in ServerSlot
         /\ [r EXCEPT !.has_thread = FALSE] \in ServerSlot
         /\ \A a \in Actors : [r EXCEPT !.parent_vm = a] \in ServerSlot
  BY DEF ServerSlot

LEMMA ServerNumbers ==
  ASSUME NEW r \in ServerSlot, NEW n \in 0 .. MaxListens
  PROVE  /\ [r EXCEPT !.listen_fd = n] \in ServerSlot
         /\ [r EXCEPT !.accept_thread = n] \in ServerSlot
         /\ [r EXCEPT !.running = FALSE, !.listen_fd = n] \in ServerSlot
  BY DEF ServerSlot

LEMMA ServerNames ==
  ASSUME NEW r \in ServerSlot, NEW s \in Servers \cup {NoServer}, NEW t \in Servers \cup {NoServer}
  PROVE  /\ [r EXCEPT !.callback_fn = s] \in ServerSlot
         /\ [r EXCEPT !.ssl_ctx = s] \in ServerSlot
         /\ [r EXCEPT !.callback_fn = s, !.ssl_ctx = t] \in ServerSlot
  BY DEF ServerSlot

LEMMA CallFields ==
  ASSUME NEW r \in ServerCall,
         NEW st \in {"none", "fill_parent", "fill_callback", "run", "spawn", "started", "shut",
                    "join", "drop_tls", "drop_callback", "free"}
  PROVE  [r EXCEPT !.step = st] \in ServerCall
  BY DEF ServerCall

LEMMA ObjectFields ==
  ASSUME NEW r \in ServerObject,
         NEW st \in {"none", "creating", "open", "refused", "closing", "closed"}
  PROVE  [r EXCEPT !.state = st] \in ServerObject
  BY DEF ServerObject

(* Closing a descriptor closes the sockets it names and changes nothing    *)
(* else of any socket.                                                     *)
LEMMA ClosedSockets ==
  ASSUME TypeOK, NEW n, sockets' = Closed(n)
  PROVE  /\ sockets' \in [Listens -> Socket]
         /\ \A k \in Listens : /\ sockets'[k].owner = sockets[k].owner
                               /\ sockets'[k].fd = sockets[k].fd
                               /\ sockets'[k].open <=> sockets[k].open /\ sockets[k].fd # n
                               /\ ~At(n, k) => sockets'[k] = sockets[k]
  <1> SUFFICES ASSUME NEW k \in Listens
               PROVE  /\ sockets'[k] \in Socket
                      /\ sockets'[k].owner = sockets[k].owner
                      /\ sockets'[k].fd = sockets[k].fd
                      /\ sockets'[k].open <=> sockets[k].open /\ sockets[k].fd # n
                      /\ ~At(n, k) => sockets'[k] = sockets[k]
    BY DEF Closed
  <1>1. sockets[k] \in Socket
    BY DEF TypeOK
  <1>2. sockets'[k] = IF At(n, k) THEN [sockets[k] EXCEPT !.open = FALSE] ELSE sockets[k]
    BY DEF Closed
  <1> QED BY <1>1, <1>2 DEF Socket, At

LEMMA Fresh ==
  /\ FreeServer \in ServerSlot /\ [FreeServer EXCEPT !.in_use = TRUE] \in ServerSlot
  /\ FreeResponse \in ResponseSlot
  /\ NoCall \in ServerCall
  /\ Unborn \in ConnThread
  <1>1. FreeServer \in ServerSlot
    BY ConstantsFit DEF FreeServer, ServerSlot
  <1>2. [FreeServer EXCEPT !.in_use = TRUE] \in ServerSlot
    BY <1>1, ServerFlags
  <1>3. FreeResponse \in ResponseSlot
    BY DEF FreeResponse, ResponseSlot, Actors
  <1>4. NoCall \in ServerCall
    BY ConstantsFit DEF NoCall, ServerCall
  <1>5. Unborn \in ConnThread
    BY ConstantsFit DEF Unborn, ConnThread
  <1> QED BY <1>1, <1>2, <1>3, <1>4, <1>5

LEMMA StartedTyped ==
  ASSUME NEW i \in Slots, NEW s \in Servers \cup {NoServer}, NEW t \in Servers \cup {NoServer}
  PROVE  /\ Started(i, s, t) \in ConnThread
         /\ Started(i, s, t).pc = "start" /\ Started(i, s, t).slot = i
  BY ConstantsFit DEF Started, ConnThread, Slots

LEMMA Dropped ==
  /\ [Unborn EXCEPT !.pc = "dropped"] \in ConnThread
  /\ [Unborn EXCEPT !.pc = "dropped"].pc = "dropped"
  <1>1. \A r \in ConnThread : /\ [r EXCEPT !.pc = "dropped"] \in ConnThread
                              /\ [r EXCEPT !.pc = "dropped"].pc = "dropped"
    BY DEF ConnThread
  <1> QED BY <1>1, Fresh

(* Calls on servers touch neither connection threads, nor their response   *)
(* slots, nor what their clients have read.                                *)
LEMMA CallsLeaveClients ==
  ASSUME ResponseOwnership, UNCHANGED <<g_res_pool, conns, answers>>
  PROVE  HoldersOwnTheirSlots' /\ AnswersMatchSlots'
  BY DEF ResponseOwnership, HoldersOwnTheirSlots, AnswersMatchSlots, Owns, Matches

LEMMA InitOwnership == Init => ResponseOwnership
  <1> SUFFICES ASSUME Init PROVE ResponseOwnership
    OBVIOUS
  <1>1. TypeOK
    <2>1. /\ [state |-> "none", slot |-> 0] \in ServerObject
          /\ [open |-> FALSE, owner |-> NoServer, fd |-> 0] \in Socket
          /\ [pc |-> "none", slot |-> 0, fd |-> 0] \in AcceptThread
      BY ConstantsFit DEF ServerObject, Socket, AcceptThread
    <2>2. <<>> \in Seq(Origins)
      OBVIOUS
    <2>3. /\ g_servers \in [Slots -> ServerSlot] /\ g_res_pool \in [Responses -> ResponseSlot]
          /\ calls \in [Actors -> ServerCall] /\ conns \in [Conns -> ConnThread]
      BY Fresh DEF Init
    <2>4. /\ object \in [Servers -> ServerObject] /\ sockets \in [Listens -> Socket]
          /\ accepting \in [Listens -> AcceptThread] /\ answers \in [Conns -> Seq(Origins)]
      BY <2>1, <2>2 DEF Init
    <2> QED BY <2>3, <2>4 DEF Init, TypeOK
  <1>2. SlotsAreKnown
    BY DEF Init, SlotsAreKnown, Unborn, NoCall, Holding
  <1>3. HoldersOwnTheirSlots /\ AnswersMatchSlots
    BY DEF Init, HoldersOwnTheirSlots, AnswersMatchSlots, Owns, Matches, Unborn, Holding
  <1> QED BY <1>1, <1>2, <1>3 DEF ResponseOwnership

(* createServer, listen and close.                                         *)
LEMMA ServerCalls ==
  ASSUME ResponseOwnership,
         \/ \E a \in Creators \cup Closers : CallSteps(a)
         \/ \E a \in Creators, s \in Servers : CreateServer(a, s)
         \/ \E a \in Creators, s \in Servers, l \in Listens : Listen(a, s, l)
         \/ \E a \in Closers, s \in Servers : Close(a, s)
  PROVE  ResponseOwnership'
  <1> USE ConstantsFit
  <1> Creators \cup Closers \subseteq Actors
    BY DEF Actors
  <1>1. TypeOK /\ SlotsAreKnown
    BY DEF ResponseOwnership
  <1>2. ASSUME NEW a \in Creators, NEW s \in Servers, CreateServer(a, s)
        PROVE  TypeOK' /\ SlotsAreKnown' /\ UNCHANGED <<g_res_pool, conns, answers>>
    <2>1. CASE \E i \in Slots : /\ g_servers' = [g_servers EXCEPT ![i] = [FreeServer EXCEPT !.in_use = TRUE]]
                                /\ object' = [object EXCEPT ![s] = [state |-> "creating", slot |-> i]]
                                /\ Enter(a, "fill_parent", i, s, 0)
      <3> PICK i \in Slots : /\ g_servers' = [g_servers EXCEPT ![i] = [FreeServer EXCEPT !.in_use = TRUE]]
                             /\ object' = [object EXCEPT ![s] = [state |-> "creating", slot |-> i]]
                             /\ Enter(a, "fill_parent", i, s, 0)
        BY <2>1
      <3>1. TypeOK'
        <4>1. /\ [step |-> "fill_parent", slot |-> i, server |-> s, listen |-> 0] \in ServerCall
              /\ [state |-> "creating", slot |-> i] \in ServerObject
          BY DEF ServerCall, ServerObject, Slots
        <4> QED BY <1>1, <1>2, <4>1, Fresh DEF TypeOK, CreateServer, Enter
      <3>2. SlotsAreKnown'
        BY <1>1, <1>2 DEF TypeOK, SlotsAreKnown, CreateServer, Enter
      <3> QED BY <1>2, <3>1, <3>2 DEF CreateServer
    <2>2. CASE object' = [object EXCEPT ![s].state = "refused"] /\ UNCHANGED <<g_servers, calls>>
      <3>1. [object[s] EXCEPT !.state = "refused"] \in ServerObject
        BY <1>1, ObjectFields DEF TypeOK
      <3>2. TypeOK'
        BY <1>1, <1>2, <2>2, <3>1 DEF TypeOK, CreateServer
      <3>3. SlotsAreKnown'
        BY <1>1, <1>2, <2>2 DEF TypeOK, SlotsAreKnown, CreateServer
      <3> QED BY <1>2, <3>2, <3>3 DEF CreateServer
    <2> QED BY <1>2, <2>1, <2>2 DEF CreateServer
  <1>3. ASSUME NEW a \in Creators, NEW s \in Servers, NEW l \in Listens, Listen(a, s, l)
        PROVE  TypeOK' /\ SlotsAreKnown' /\ UNCHANGED <<g_res_pool, conns, answers>>
    <2>1. object[s].slot \in Slots
      BY <1>1, <1>3 DEF Listen, Usable, SlotsAreKnown
    <2>2. TypeOK'
      <3> PICK n \in Listens : /\ sockets' = [sockets EXCEPT ![l] = [open |-> TRUE, owner |-> s, fd |-> n]]
                               /\ g_servers' = [g_servers EXCEPT ![object[s].slot].listen_fd = n]
        BY <1>3 DEF Listen
      <3>1. /\ [step |-> "run", slot |-> object[s].slot, server |-> s, listen |-> l] \in ServerCall
            /\ [open |-> TRUE, owner |-> s, fd |-> n] \in Socket
            /\ n \in 0 .. MaxListens
        BY <2>1 DEF ServerCall, Socket, Slots, Listens
      <3>2. [g_servers[object[s].slot] EXCEPT !.listen_fd = n] \in ServerSlot
        BY <1>1, <2>1, <3>1, ServerNumbers DEF TypeOK
      <3>3. g_servers' \in [Slots -> ServerSlot] /\ sockets' \in [Listens -> Socket]
        BY <1>1, <3>1, <3>2 DEF TypeOK
      <3> QED BY <1>1, <1>3, <2>1, <3>1, <3>3 DEF TypeOK, Listen, Enter
    <2>3. SlotsAreKnown'
      BY <1>1, <1>3, <2>1 DEF TypeOK, SlotsAreKnown, Listen, Enter
    <2> QED BY <1>3, <2>2, <2>3 DEF Listen
  <1>4. ASSUME NEW a \in Closers, NEW s \in Servers, Close(a, s)
        PROVE  TypeOK' /\ SlotsAreKnown' /\ UNCHANGED <<g_res_pool, conns, answers>>
    <2>1. object[s].slot \in Slots
      BY <1>1, <1>4 DEF Close, Usable, SlotsAreKnown
    <2>2. TypeOK'
      <3>1. [step |-> "shut", slot |-> object[s].slot, server |-> s, listen |-> 0] \in ServerCall
        BY <2>1 DEF ServerCall, Slots
      <3>2. [object[s] EXCEPT !.state = "closing"] \in ServerObject
        BY <1>1, ObjectFields DEF TypeOK
      <3>3. [g_servers[object[s].slot] EXCEPT !.running = FALSE] \in ServerSlot
        BY <1>1, <2>1, ServerFlags DEF TypeOK
      <3> QED BY <1>1, <1>4, <2>1, <3>1, <3>2, <3>3 DEF TypeOK, Close, Enter
    <2>3. SlotsAreKnown'
      BY <1>1, <1>4, <2>1 DEF TypeOK, SlotsAreKnown, Close, Enter
    <2> QED BY <1>4, <2>2, <2>3 DEF Close
  <1>5. ASSUME NEW a \in Actors, CallSteps(a)
        PROVE  TypeOK' /\ SlotsAreKnown' /\ UNCHANGED <<g_res_pool, conns, answers>>
    <2> DEFINE i == calls[a].slot
    <2>1. i \in Slots /\ calls[a].server \in Servers
      BY <1>1, <1>5 DEF CallSteps, FillParent, FillCallback, ListenRun, ListenSpawn, ListenStarted,
         CloseSocket, CloseJoin, CloseTls, CloseCallback, CloseFree, InCall, SlotsAreKnown
    <2>2. /\ g_servers[i] \in ServerSlot /\ calls[a] \in ServerCall
          /\ object[calls[a].server] \in ServerObject
      BY <1>1, <2>1 DEF TypeOK
    <2>3. ASSUME NEW st \in {"fill_callback", "spawn", "started", "join", "drop_tls",
                            "drop_callback", "free"},
                 Step(a, st)
          PROVE  calls' \in [Actors -> ServerCall]
      BY <1>1, <2>2, <2>3, CallFields DEF TypeOK, Step
    <2>4. Return(a) => calls' \in [Actors -> ServerCall]
      BY <1>1, Fresh DEF TypeOK, Return
    <2>5. CASE FillParent(a)
      <3>1. g_servers' \in [Slots -> ServerSlot]
        BY <1>1, <2>1, <2>2, <2>5, ServerFlags DEF TypeOK, FillParent
      <3>2. SlotsAreKnown'
        BY <1>1, <2>1, <2>5 DEF TypeOK, SlotsAreKnown, FillParent, InCall, Step
      <3> QED BY <1>1, <2>3, <2>5, <3>1, <3>2 DEF TypeOK, FillParent
    <2>6. CASE FillCallback(a)
      <3>1. g_servers' \in [Slots -> ServerSlot]
        BY <1>1, <2>1, <2>2, <2>6, ServerNames DEF TypeOK, FillCallback
      <3>2. object' \in [Servers -> ServerObject]
        BY <1>1, <2>1, <2>2, <2>6, ObjectFields DEF TypeOK, FillCallback
      <3>3. SlotsAreKnown'
        BY <1>1, <2>1, <2>6 DEF TypeOK, SlotsAreKnown, FillCallback, InCall, Return, NoCall
      <3> QED BY <1>1, <2>4, <2>6, <3>1, <3>2, <3>3 DEF TypeOK, FillCallback
    <2>7. CASE ListenRun(a)
      <3>1. g_servers' \in [Slots -> ServerSlot]
        BY <1>1, <2>1, <2>2, <2>7, ServerFlags DEF TypeOK, ListenRun
      <3>2. SlotsAreKnown'
        BY <1>1, <2>1, <2>7 DEF TypeOK, SlotsAreKnown, ListenRun, InCall, Step
      <3> QED BY <1>1, <2>3, <2>7, <3>1, <3>2 DEF TypeOK, ListenRun
    <2>8. CASE ListenSpawn(a)
      <3> DEFINE l == calls[a].listen
      <3>1. l \in Listens /\ l \in 0 .. MaxListens /\ 0 \in 0 .. MaxListens
        BY <1>1, <2>8 DEF ListenSpawn, InCall, SlotsAreKnown, Listens
      <3>2. CASE /\ accepting' = [accepting EXCEPT ![l] = [pc |-> "test", slot |-> i, fd |-> 0]]
                 /\ g_servers' = [g_servers EXCEPT ![i].accept_thread = l]
                 /\ Step(a, "started")
                 /\ UNCHANGED sockets
        <4>1. [pc |-> "test", slot |-> i, fd |-> 0] \in AcceptThread
          BY <2>1 DEF AcceptThread, Slots
        <4>2. g_servers' \in [Slots -> ServerSlot]
          BY <1>1, <2>1, <2>2, <3>1, <3>2, ServerNumbers DEF TypeOK
        <4>3. SlotsAreKnown'
          BY <1>1, <2>1, <2>8, <3>1, <3>2 DEF TypeOK, SlotsAreKnown, ListenSpawn, InCall, Step
        <4>4. accepting' \in [Listens -> AcceptThread]
          BY <1>1, <3>1, <3>2, <4>1 DEF TypeOK
        <4> QED BY <1>1, <2>3, <2>8, <3>2, <4>2, <4>3, <4>4 DEF TypeOK, ListenSpawn
      <3>3. CASE /\ g_servers' = [g_servers EXCEPT ![i].running = FALSE, ![i].listen_fd = 0]
                 /\ sockets' = Closed(sockets[l].fd)
                 /\ Return(a)
                 /\ UNCHANGED accepting
        <4>1. g_servers' \in [Slots -> ServerSlot]
          BY <1>1, <2>1, <2>2, <3>1, <3>3, ServerNumbers DEF TypeOK
        <4>2. sockets' \in [Listens -> Socket]
          BY <1>1, <3>3, ClosedSockets
        <4>3. SlotsAreKnown'
          BY <1>1, <2>1, <2>8, <3>1, <3>3 DEF TypeOK, SlotsAreKnown, ListenSpawn, Return, NoCall
        <4> QED BY <1>1, <2>4, <2>8, <3>3, <4>1, <4>2, <4>3 DEF TypeOK, ListenSpawn
      <3> QED BY <2>8, <3>2, <3>3 DEF ListenSpawn
    <2>9. CASE ListenStarted(a)
      <3>1. g_servers' \in [Slots -> ServerSlot]
        BY <1>1, <2>1, <2>2, <2>9, ServerFlags DEF TypeOK, ListenStarted
      <3>2. SlotsAreKnown'
        BY <1>1, <2>1, <2>9 DEF TypeOK, SlotsAreKnown, ListenStarted, InCall, Return, NoCall
      <3> QED BY <1>1, <2>4, <2>9, <3>1, <3>2 DEF TypeOK, ListenStarted
    <2>10. CASE CloseSocket(a)
      <3>1. g_servers' \in [Slots -> ServerSlot]
        <4>1. [g_servers[i] EXCEPT !.listen_fd = 0] \in ServerSlot
          <5>1. 0 \in 0 .. MaxListens
            OBVIOUS
          <5> QED BY <2>2, <5>1, ServerNumbers
        <4> QED BY <1>1, <2>1, <2>10, <4>1 DEF TypeOK, CloseSocket
      <3>2. sockets' \in [Listens -> Socket]
        BY <1>1, <2>10, ClosedSockets DEF CloseSocket
      <3>3. SlotsAreKnown'
        BY <1>1, <2>1, <2>10 DEF TypeOK, SlotsAreKnown, CloseSocket, InCall, Step
      <3> QED BY <1>1, <2>3, <2>10, <3>1, <3>2, <3>3 DEF TypeOK, CloseSocket
    <2>11. CASE CloseJoin(a)
      <3>1. g_servers' \in [Slots -> ServerSlot]
        BY <1>1, <2>1, <2>2, <2>11, ServerFlags DEF TypeOK, CloseJoin
      <3>2. SlotsAreKnown'
        BY <1>1, <2>1, <2>11 DEF TypeOK, SlotsAreKnown, CloseJoin, InCall, Step
      <3> QED BY <1>1, <2>3, <2>11, <3>1, <3>2 DEF TypeOK, CloseJoin
    <2>12. CASE CloseTls(a)
      <3>1. g_servers' \in [Slots -> ServerSlot]
        BY <1>1, <2>1, <2>2, <2>12, ServerNames DEF TypeOK, CloseTls
      <3>2. SlotsAreKnown'
        BY <1>1, <2>1, <2>12 DEF TypeOK, SlotsAreKnown, CloseTls, InCall, Step
      <3> QED BY <1>1, <2>3, <2>12, <3>1, <3>2 DEF TypeOK, CloseTls
    <2>14. CASE CloseCallback(a)
      <3>1. g_servers' \in [Slots -> ServerSlot]
        BY <1>1, <2>1, <2>2, <2>14, ServerNames DEF TypeOK, CloseCallback
      <3>2. SlotsAreKnown'
        BY <1>1, <2>1, <2>14 DEF TypeOK, SlotsAreKnown, CloseCallback, InCall, Step
      <3> QED BY <1>1, <2>3, <2>14, <3>1, <3>2 DEF TypeOK, CloseCallback
    <2>13. CASE CloseFree(a)
      <3>1. g_servers' \in [Slots -> ServerSlot]
        BY <1>1, <2>1, <2>2, <2>13, ServerFlags DEF TypeOK, CloseFree
      <3>2. object' \in [Servers -> ServerObject]
        BY <1>1, <2>1, <2>2, <2>13, ObjectFields DEF TypeOK, CloseFree
      <3>3. SlotsAreKnown'
        BY <1>1, <2>1, <2>13 DEF TypeOK, SlotsAreKnown, CloseFree, InCall, Return, NoCall
      <3> QED BY <1>1, <2>4, <2>13, <3>1, <3>2, <3>3 DEF TypeOK, CloseFree
    <2> QED BY <1>5, <2>5, <2>6, <2>7, <2>8, <2>9, <2>10, <2>11, <2>12, <2>13, <2>14
        DEF CallSteps, FillParent, FillCallback, ListenRun, ListenSpawn, ListenStarted,
            CloseSocket, CloseJoin, CloseTls, CloseCallback, CloseFree
  <1>6. TypeOK' /\ SlotsAreKnown' /\ UNCHANGED <<g_res_pool, conns, answers>>
    BY <1>2, <1>3, <1>4, <1>5
  <1> QED BY <1>6, CallsLeaveClients DEF ResponseOwnership

(* The accept threads: only AcceptClient starts a connection thread, from  *)
(* nothing.                                                                *)
LEMMA AcceptThreads ==
  ASSUME ResponseOwnership,
         \/ \E l \in Listens : AcceptSteps(l)
         \/ \E l \in Listens, c \in Conns : AcceptClient(l, c)
  PROVE  ResponseOwnership'
  <1> USE ConstantsFit
  <1>1. TypeOK /\ SlotsAreKnown /\ HoldersOwnTheirSlots /\ AnswersMatchSlots
    BY DEF ResponseOwnership
  <1>2. ASSUME NEW l \in Listens, NEW p \in {"test", "load", "accept", "ended"},
               NEW n \in 0 .. MaxListens, accepting[l].pc # "none",
               accepting' = [accepting EXCEPT ![l].fd = n, ![l].pc = p]
        PROVE  accepting' \in [Listens -> AcceptThread]
               /\ \A k \in Listens : accepting'[k].pc # "none" => accepting'[k].slot \in Slots
    <2>1. accepting[l] \in AcceptThread /\ accepting \in [Listens -> AcceptThread]
      BY <1>1 DEF TypeOK
    <2>2. /\ [accepting[l] EXCEPT !.fd = n, !.pc = p] \in AcceptThread
          /\ [accepting[l] EXCEPT !.fd = n, !.pc = p].slot = accepting[l].slot
      BY <2>1 DEF AcceptThread
    <2>3. /\ accepting'[l] = [accepting[l] EXCEPT !.fd = n, !.pc = p]
          /\ \A k \in Listens \ {l} : accepting'[k] = accepting[k]
          /\ accepting' = [k \in Listens |-> accepting'[k]]
      BY <1>2, <2>1
    <2>4. accepting' \in [Listens -> AcceptThread]
      <3>1. \A k \in Listens : accepting'[k] \in AcceptThread
        BY <2>1, <2>2, <2>3
      <3> QED BY <2>3, <3>1
    <2>5. \A k \in Listens : accepting'[k].pc # "none" => accepting'[k].slot \in Slots
      BY <1>1, <1>2, <2>2, <2>3 DEF SlotsAreKnown
    <2> QED BY <2>4, <2>5
  <1>0. 0 \in 0 .. MaxListens
    OBVIOUS
  <1>3. ASSUME NEW l \in Listens, AcceptSteps(l)
        PROVE  ResponseOwnership'
    <2>1. accepting' \in [Listens -> AcceptThread]
          /\ \A k \in Listens : accepting'[k].pc # "none" => accepting'[k].slot \in Slots
      <3>1. CASE AcceptTest(l)
        <4>1. accepting[l].pc # "none"
          BY <3>1 DEF AcceptTest
        <4> QED BY <1>0, <1>2, <3>1, <4>1 DEF AcceptTest
      <3>2. CASE AcceptLoad(l)
        <4>1. accepting[l].slot \in Slots
          BY <1>1, <3>2 DEF AcceptLoad, SlotsAreKnown
        <4>2. g_servers[accepting[l].slot].listen_fd \in 0 .. MaxListens
          BY <1>1, <4>1 DEF TypeOK, ServerSlot
        <4> QED BY <1>2, <3>2, <4>2 DEF AcceptLoad
      <3> QED BY <1>3, <3>1, <3>2 DEF AcceptSteps
    <2>2. TypeOK' /\ SlotsAreKnown'
      BY <1>1, <1>3, <2>1 DEF TypeOK, SlotsAreKnown, AcceptSteps, AcceptTest, AcceptLoad
    <2> QED BY <1>3, <2>2, CallsLeaveClients DEF ResponseOwnership, AcceptSteps, AcceptTest, AcceptLoad
  <1>4. ASSUME NEW l \in Listens, NEW c \in Conns, AcceptClient(l, c)
        PROVE  ResponseOwnership'
    <2> DEFINE i == accepting[l].slot
    <2>1. accepting' \in [Listens -> AcceptThread]
          /\ \A m \in Listens : accepting'[m].pc # "none" => accepting'[m].slot \in Slots
      <3>1. accepting[l].pc # "none"
        BY <1>4 DEF AcceptClient
      <3>2. accepting' = [accepting EXCEPT ![l].fd = 0, ![l].pc = "test"]
        BY <1>4 DEF AcceptClient
      <3> QED BY <1>0, <1>2, <3>1, <3>2
    <2>2. i \in Slots
      BY <1>1, <1>4 DEF AcceptClient, SlotsAreKnown
    <2>3. \A k \in Listens : sockets[k].owner \in Servers \cup {NoServer}
      BY <1>1 DEF TypeOK, Socket
    <2>4. PICK r \in ConnThread : /\ r.pc \in {"start", "dropped"}
                                  /\ r.pc = "start" => r.slot \in Slots
                                  /\ conns' = [conns EXCEPT ![c] = r]
      <3>1. CASE Drop(c)
        BY <3>1, Dropped DEF Drop
      <3>2. CASE \E k \in Listens :
                   conns' = [conns EXCEPT ![c] = Started(i, sockets[l].owner, sockets[k].owner)]
        <4>1. PICK k \in Listens :
                conns' = [conns EXCEPT ![c] = Started(i, sockets[l].owner, sockets[k].owner)]
          BY <3>2
        <4>2. /\ Started(i, sockets[l].owner, sockets[k].owner) \in ConnThread
              /\ Started(i, sockets[l].owner, sockets[k].owner).pc = "start"
              /\ Started(i, sockets[l].owner, sockets[k].owner).slot = i
          BY <2>2, <2>3, StartedTyped
        <4> QED BY <2>2, <4>1, <4>2
      <3> QED BY <1>4, <3>1, <3>2 DEF AcceptClient
    <2>5. TypeOK'
      BY <1>1, <1>4, <2>1, <2>4 DEF TypeOK, AcceptClient
    <2>6. SlotsAreKnown'
      BY <1>1, <1>4, <2>1, <2>4 DEF TypeOK, SlotsAreKnown, AcceptClient, Holding
    <2>7. HoldersOwnTheirSlots'
      BY <1>1, <1>4, <2>4 DEF TypeOK, HoldersOwnTheirSlots, Owns, AcceptClient, Holding
    <2>8. AnswersMatchSlots'
      BY <1>1, <1>4, <2>4 DEF TypeOK, AnswersMatchSlots, Matches, AcceptClient
    <2> QED BY <2>5, <2>6, <2>7, <2>8 DEF ResponseOwnership
  <1> QED BY <1>3, <1>4

(* What one thread does with its own slot leaves the other threads alone.  *)
LEMMA OthersUnmoved ==
  ASSUME TypeOK, HoldersOwnTheirSlots, AnswersMatchSlots,
         NEW c \in Conns, NEW d \in Conns, d # c,
         conns'[d] = conns[d], answers'[d] = answers[d],
         NEW k \in Responses, g_res_pool[k].active => g_res_pool[k].conn = c,
         \A j \in Responses : j # k => g_res_pool'[j] = g_res_pool[j]
  PROVE  Owns(d)' /\ Matches(d)'
  <1>1. Owns(d) /\ Matches(d)
    BY DEF HoldersOwnTheirSlots, AnswersMatchSlots
  <1>2. CASE conns[d].pc \in Holding
    <2>1. conns[d].res \in Responses /\ conns[d].res # k
      BY <1>1, <1>2 DEF Owns
    <2>2. g_res_pool'[conns'[d].res] = g_res_pool[conns[d].res]
      BY <2>1
    <2> QED BY <1>1, <2>2 DEF Owns, Matches
  <1>3. CASE conns[d].pc \notin Holding
    BY <1>1, <1>3 DEF Owns, Matches, Holding
  <1> QED BY <1>2, <1>3

(* The connection threads.  A thread moves on with its slot, or takes a    *)
(* free one, or gives its own back.                                        *)
LEMMA ConnFields ==
  ASSUME NEW r \in ConnThread,
         NEW p \in {"none", "start", "request", "child", "call", "handler", "flush", "close",
                   "abandon", "done", "dropped"},
         NEW n \in 0 .. MaxResponses, NEW s \in Servers \cup {NoServer}
  PROVE  /\ [r EXCEPT !.pc = p] \in ConnThread
         /\ [r EXCEPT !.pc = p, !.res = n] \in ConnThread
         /\ [r EXCEPT !.pc = p, !.tls = s] \in ConnThread
         /\ [r EXCEPT !.cb = s, !.pc = p] \in ConnThread
  BY DEF ConnThread

LEMMA ConnectionThreads ==
  ASSUME ResponseOwnership, "kept_response" \notin Allowed,
         NEW c \in Conns, ConnSteps(c) \/ \E d \in Conns : ResSend(c, d)
  PROVE  ResponseOwnership'
  <1> USE ConstantsFit
  <1>1. TypeOK /\ SlotsAreKnown /\ HoldersOwnTheirSlots /\ AnswersMatchSlots
    BY DEF ResponseOwnership
  <1> DEFINE r == conns[c].res
             host == HostOf(c)
  <1>2. conns[c] \in ConnThread
    BY <1>1 DEF TypeOK
  <1>3. conns[c].pc \in Holding => /\ r \in Responses /\ conns[c].slot \in Slots
                                   /\ g_res_pool[r].active /\ g_res_pool[r].conn = c
                                   /\ g_res_pool[r] \in ResponseSlot
    BY <1>1 DEF TypeOK, HoldersOwnTheirSlots, Owns, SlotsAreKnown
  <1>4. ASSUME NEW q \in Origins, NEW k \in Responses, Answer(k, q), g_res_pool[k].conn = c
        PROVE  /\ answers' \in [Conns -> Seq(Origins)]
               /\ Len(answers'[c]) = Len(answers[c]) + 1
               /\ \A d \in Conns : d # c => answers'[d] = answers[d]
    <2>1. answers' = [answers EXCEPT ![c] = Append(answers[c], q)]
      BY <1>4 DEF Answer
    <2>2. answers[c] \in Seq(Origins)
      BY <1>1 DEF TypeOK
    <2>3. Append(answers[c], q) \in Seq(Origins) /\ Len(Append(answers[c], q)) = Len(answers[c]) + 1
      BY <2>2
    <2> QED BY <1>1, <2>1, <2>3 DEF TypeOK
  <1>5. CASE ConnStart(c)
    <2>1. CASE Drop(c) /\ UNCHANGED g_res_pool
      <3>1. TypeOK' /\ SlotsAreKnown'
        BY <1>1, <1>5, <2>1, Dropped DEF TypeOK, SlotsAreKnown, ConnStart, Drop, Holding
      <3>2. HoldersOwnTheirSlots'
        BY <1>1, <1>5, <2>1, Dropped DEF TypeOK, HoldersOwnTheirSlots, Owns, ConnStart, Drop, Holding
      <3>3. AnswersMatchSlots'
        BY <1>1, <1>5, <2>1, Dropped DEF TypeOK, AnswersMatchSlots, Matches, ConnStart, Drop, Is
      <3> QED BY <3>1, <3>2, <3>3 DEF ResponseOwnership
    <2>2. CASE \E k \in Responses :
                 /\ ~g_res_pool[k].active
                 /\ g_res_pool' = [g_res_pool EXCEPT ![k] = [active |-> TRUE, conn |-> c, sent |-> FALSE]]
                 /\ conns' = [conns EXCEPT ![c].pc = "request", ![c].res = k]
      <3> PICK k \in Responses :
            /\ ~g_res_pool[k].active
            /\ g_res_pool' = [g_res_pool EXCEPT ![k] = [active |-> TRUE, conn |-> c, sent |-> FALSE]]
            /\ conns' = [conns EXCEPT ![c].pc = "request", ![c].res = k]
        BY <2>2
      <3>1. /\ [active |-> TRUE, conn |-> c, sent |-> FALSE] \in ResponseSlot
            /\ k \in 0 .. MaxResponses
        BY DEF ResponseSlot, Actors, Responses
      <3>2. [conns[c] EXCEPT !.pc = "request", !.res = k] \in ConnThread
        BY <1>2, <3>1, ConnFields
      <3>3. TypeOK'
        BY <1>1, <1>5, <3>1, <3>2 DEF TypeOK, ConnStart
      <3>4. SlotsAreKnown'
        BY <1>1, <1>2, <1>5 DEF TypeOK, SlotsAreKnown, ConnStart, Is, Holding, ConnThread
      <3>5. Owns(c)' /\ Matches(c)'
        <4>1. /\ conns'[c].pc = "request" /\ conns'[c].res = k
              /\ g_res_pool'[k] = [active |-> TRUE, conn |-> c, sent |-> FALSE]
          BY <1>1, <1>2 DEF TypeOK, ConnThread
        <4>2. answers'[c] = <<>>
          BY <1>1, <1>5 DEF AnswersMatchSlots, Matches, ConnStart, Is
        <4> QED BY <4>1, <4>2 DEF Owns, Matches
      <3>6. ASSUME NEW d \in Conns, d # c
            PROVE  Owns(d)' /\ Matches(d)'
        <4>1. conns'[d] = conns[d] /\ answers'[d] = answers[d]
          BY <1>1, <1>5, <3>6 DEF TypeOK, ConnStart
        <4>2. \A j \in Responses : j # k => g_res_pool'[j] = g_res_pool[j]
          BY <1>1 DEF TypeOK
        <4> QED BY <1>1, <3>6, <4>1, <4>2, OthersUnmoved
      <3> QED BY <3>3, <3>4, <3>5, <3>6
          DEF ResponseOwnership, HoldersOwnTheirSlots, AnswersMatchSlots
    <2> QED BY <1>1, <1>5, <2>1, <2>2 DEF ConnStart, LowestFree, TypeOK
  \* A step that only moves the thread on.
  <1>6. ASSUME NEW m \in ConnThread, m.slot = conns[c].slot, m.res = r,
               conns[c].pc \in Holding, m.pc \in Holding,
               conns' = [conns EXCEPT ![c] = m],
               UNCHANGED <<g_servers, object, sockets, accepting, calls>>, crashed' \in BOOLEAN,
               g_res_pool' \in [Responses -> ResponseSlot],
               g_res_pool'[r].active, g_res_pool'[r].conn = c,
               \A j \in Responses : j # r => g_res_pool'[j] = g_res_pool[j],
               answers' \in [Conns -> Seq(Origins)],
               \A d \in Conns : d # c => answers'[d] = answers[d],
               Matches(c)'
        PROVE  ResponseOwnership'
    <2>1. TypeOK'
      BY <1>1, <1>6 DEF TypeOK
    <2>2. conns'[c] = m /\ \A d \in Conns : d # c => conns'[d] = conns[d]
      BY <1>1, <1>6 DEF TypeOK
    <2>3. SlotsAreKnown'
      <3>1. \A d \in Conns : conns'[d].pc \in Holding \cup {"start"} => conns'[d].slot \in Slots
        BY <1>1, <1>3, <1>6, <2>2 DEF SlotsAreKnown
      <3> QED BY <1>1, <1>6, <3>1 DEF SlotsAreKnown
    <2>4. Owns(c)'
      BY <1>3, <1>6, <2>2 DEF Owns
    <2>5. ASSUME NEW d \in Conns, d # c
          PROVE  Owns(d)' /\ Matches(d)'
      BY <1>1, <1>3, <1>6, <2>2, <2>5, OthersUnmoved
    <2> QED BY <1>6, <2>1, <2>3, <2>4, <2>5
        DEF ResponseOwnership, HoldersOwnTheirSlots, AnswersMatchSlots
  <1>7. CASE ConnRequest(c)
    <2>1. conns[c].pc = "request" /\ host \in ServerSlot
      BY <1>1, <1>3, <1>7 DEF ConnRequest, Is, Holding, TypeOK, HostOf
    <2>2. host.ssl_ctx \in Servers \cup {NoServer}
      BY <2>1 DEF ServerSlot
    <2>3. answers[c] = <<>> /\ ~g_res_pool[r].sent
      BY <1>1, <2>1 DEF AnswersMatchSlots, Matches
    <2>4. g_res_pool \in [Responses -> ResponseSlot] /\ answers \in [Conns -> Seq(Origins)]
          /\ crashed \in BOOLEAN /\ conns \in [Conns -> ConnThread]
      BY <1>1 DEF TypeOK
    <2>5. CASE Go(c, "abandon") /\ UNCHANGED answers
      <3> DEFINE m == [conns[c] EXCEPT !.pc = "abandon"]
      <3>1. m \in ConnThread /\ m.slot = conns[c].slot /\ m.res = r /\ m.pc = "abandon"
        BY <1>2 DEF ConnThread
      <3>2. conns' = [conns EXCEPT ![c] = m]
        BY <2>5 DEF Go
      <3>3. Matches(c)'
        BY <1>7, <2>3, <2>4, <2>5, <3>1, <3>2 DEF Matches, ConnRequest
      <3> QED BY <1>3, <1>6, <1>7, <2>1, <2>4, <2>5, <3>1, <3>2, <3>3 DEF ConnRequest, Holding
    <2>6. CASE conns' = [conns EXCEPT ![c].pc = "child", ![c].tls = host.ssl_ctx] /\ UNCHANGED answers
      <3> DEFINE m == [conns[c] EXCEPT !.pc = "child", !.tls = host.ssl_ctx]
      <3>1. m \in ConnThread /\ m.slot = conns[c].slot /\ m.res = r /\ m.pc = "child"
        BY <1>2, <2>2 DEF ConnThread
      <3>2. conns' = [conns EXCEPT ![c] = m]
        BY <2>6
      <3>3. Matches(c)'
        BY <1>7, <2>3, <2>4, <2>6, <3>1, <3>2 DEF Matches, ConnRequest
      <3> QED BY <1>3, <1>6, <1>7, <2>1, <2>4, <2>6, <3>1, <3>2, <3>3 DEF ConnRequest, Holding
    <2>7. CASE conns' = [conns EXCEPT ![c].pc = "close", ![c].tls = host.ssl_ctx]
               /\ Answer(r, "bad_request")
      <3> DEFINE m == [conns[c] EXCEPT !.pc = "close", !.tls = host.ssl_ctx]
      <3>1. m \in ConnThread /\ m.slot = conns[c].slot /\ m.res = r /\ m.pc = "close"
        BY <1>2, <2>2 DEF ConnThread
      <3>2. conns' = [conns EXCEPT ![c] = m]
        BY <2>7
      <3>3. /\ answers' \in [Conns -> Seq(Origins)]
            /\ Len(answers'[c]) = Len(answers[c]) + 1
            /\ \A d \in Conns : d # c => answers'[d] = answers[d]
        BY <1>3, <1>4, <2>1, <2>7 DEF Origins, Holding
      <3>4. Matches(c)'
        BY <2>3, <2>4, <3>1, <3>2, <3>3 DEF Matches
      <3> QED BY <1>3, <1>6, <1>7, <2>1, <2>4, <3>1, <3>2, <3>3, <3>4 DEF ConnRequest, Holding
    <2> QED BY <1>7, <2>5, <2>6, <2>7 DEF ConnRequest
  <1>8. CASE ConnChild(c) \/ ConnCall(c)
    <2>1. conns[c].pc \in {"child", "call"} /\ host \in ServerSlot
      BY <1>1, <1>3, <1>8 DEF ConnChild, ConnCall, Is, Holding, TypeOK, HostOf
    <2>2. host.callback_fn \in Servers \cup {NoServer}
      BY <2>1 DEF ServerSlot
    <2>3. answers[c] = <<>> /\ ~g_res_pool[r].sent
      BY <1>1, <2>1 DEF AnswersMatchSlots, Matches
    <2>4. g_res_pool \in [Responses -> ResponseSlot] /\ answers \in [Conns -> Seq(Origins)]
          /\ crashed \in BOOLEAN /\ conns \in [Conns -> ConnThread]
      BY <1>1 DEF TypeOK
    <2>5. PICK m \in ConnThread : /\ conns' = [conns EXCEPT ![c] = m]
                                  /\ m.slot = conns[c].slot /\ m.res = r
                                  /\ m.pc \in {"child", "call", "handler", "flush"}
      <3>2. CASE ConnCall(c)
        <4>1. ASSUME NEW q \in {"handler", "flush"}, NEW t \in Servers \cup {NoServer}
              PROVE  LET n == [conns[c] EXCEPT !.cb = t, !.pc = q]
                     IN  n \in ConnThread /\ n.slot = conns[c].slot /\ n.res = r /\ n.pc = q
          BY <1>2 DEF ConnThread
        <4>2. PICK q \in {"handler", "flush"} :
                conns' = [conns EXCEPT ![c] = [conns[c] EXCEPT !.cb = host.callback_fn, !.pc = q]]
          BY <3>2 DEF ConnCall
        <4> QED BY <2>2, <4>1, <4>2
      <3>3. CASE ConnChild(c) /\ UNCHANGED conns
        BY <1>2, <2>1, <2>4, <3>3
      <3>4. CASE Go(c, "call")
        <4>1. LET n == [conns[c] EXCEPT !.pc = "call"]
              IN  n \in ConnThread /\ n.slot = conns[c].slot /\ n.res = r /\ n.pc = "call"
          BY <1>2 DEF ConnThread
        <4> QED BY <3>4, <4>1 DEF Go
      <3> QED BY <1>8, <3>2, <3>3, <3>4 DEF ConnChild
    <2>6. UNCHANGED <<g_servers, object, sockets, accepting, calls, g_res_pool, answers>>
          /\ crashed' \in BOOLEAN
      BY <1>8, <2>4 DEF ConnChild, ConnCall
    <2>7. Matches(c)'
      BY <2>3, <2>4, <2>5, <2>6 DEF Matches
    <2> QED BY <1>3, <1>6, <2>1, <2>4, <2>5, <2>6, <2>7 DEF Holding
  <1>9. ASSUME NEW q \in Origins, conns[c].pc \in {"handler", "flush"}, ~g_res_pool[r].sent, SendOn(r, q)
        PROVE  /\ g_res_pool' \in [Responses -> ResponseSlot]
               /\ g_res_pool'[r].active /\ g_res_pool'[r].conn = c /\ g_res_pool'[r].sent
               /\ \A j \in Responses : j # r => g_res_pool'[j] = g_res_pool[j]
               /\ answers' \in [Conns -> Seq(Origins)]
               /\ Len(answers'[c]) = 1
               /\ \A d \in Conns : d # c => answers'[d] = answers[d]
    <2>1. conns[c].pc \in Holding
      BY <1>9 DEF Holding
    <2>2. g_res_pool' = [g_res_pool EXCEPT ![r] = [g_res_pool[r] EXCEPT !.sent = TRUE]]
          /\ Answer(r, q)
      BY <1>9 DEF SendOn
    <2>3. ASSUME NEW x \in ResponseSlot
          PROVE  LET y == [x EXCEPT !.sent = TRUE]
                 IN  y \in ResponseSlot /\ y.active = x.active /\ y.conn = x.conn /\ y.sent = TRUE
      BY DEF ResponseSlot
    <2>4. Len(answers[c]) = 0
      BY <1>1, <1>9 DEF AnswersMatchSlots, Matches
    <2>5. Len(answers'[c]) = Len(answers[c]) + 1 /\ answers' \in [Conns -> Seq(Origins)]
          /\ \A d \in Conns : d # c => answers'[d] = answers[d]
      BY <1>3, <1>4, <2>1, <2>2
    <2>6. g_res_pool \in [Responses -> ResponseSlot]
      BY <1>1 DEF TypeOK
    <2> QED BY <1>3, <2>1, <2>2, <2>3, <2>4, <2>5, <2>6
  <1>10. CASE ConnFlush(c)
    <2>1. conns[c].pc \in {"handler", "flush"}
      BY <1>10 DEF ConnFlush
    <2>2. g_res_pool \in [Responses -> ResponseSlot] /\ answers \in [Conns -> Seq(Origins)]
          /\ crashed \in BOOLEAN /\ conns \in [Conns -> ConnThread]
      BY <1>1 DEF TypeOK
    <2> DEFINE m == [conns[c] EXCEPT !.pc = "close"]
    <2>3. m \in ConnThread /\ m.slot = conns[c].slot /\ m.res = r /\ m.pc = "close"
      BY <1>2 DEF ConnThread
    <2>4. conns' = [conns EXCEPT ![c] = m]
      BY <1>10 DEF ConnFlush, Go
    <2>5. CASE g_res_pool[r].sent /\ UNCHANGED <<g_res_pool, answers>>
      <3>1. Matches(c)'
        BY <1>1, <2>1, <2>2, <2>3, <2>4, <2>5 DEF AnswersMatchSlots, Matches
      <3> QED BY <1>3, <1>6, <1>10, <2>1, <2>2, <2>3, <2>4, <2>5, <3>1 DEF ConnFlush, Holding
    <2>6. CASE ~g_res_pool[r].sent /\ SendOn(r, "default")
      <3>1. /\ g_res_pool' \in [Responses -> ResponseSlot]
            /\ g_res_pool'[r].active /\ g_res_pool'[r].conn = c
            /\ \A j \in Responses : j # r => g_res_pool'[j] = g_res_pool[j]
            /\ answers' \in [Conns -> Seq(Origins)]
            /\ Len(answers'[c]) = 1
            /\ \A d \in Conns : d # c => answers'[d] = answers[d]
        BY <1>9, <2>1, <2>6 DEF Origins
      <3>2. Matches(c)'
        BY <2>2, <2>3, <2>4, <3>1 DEF Matches
      <3> QED BY <1>6, <1>10, <2>1, <2>2, <2>3, <2>4, <3>1, <3>2 DEF ConnFlush, Holding
    <2> QED BY <1>10, <2>5, <2>6 DEF ConnFlush
  <1>11. ASSUME NEW d \in Conns, ResSend(c, d)
         PROVE  ResponseOwnership'
    <2>1. d = c /\ conns[c].pc = "handler" /\ ~g_res_pool[r].sent /\ SendOn(r, "handler")
      BY <1>11 DEF ResSend, Scripted, Reaches
    <2>2. g_res_pool \in [Responses -> ResponseSlot] /\ answers \in [Conns -> Seq(Origins)]
          /\ crashed \in BOOLEAN /\ conns \in [Conns -> ConnThread]
      BY <1>1 DEF TypeOK
    <2>3. conns' = [conns EXCEPT ![c] = conns[c]]
      BY <1>11, <2>2 DEF ResSend
    <2>4. /\ g_res_pool' \in [Responses -> ResponseSlot]
          /\ g_res_pool'[r].active /\ g_res_pool'[r].conn = c /\ g_res_pool'[r].sent
          /\ \A j \in Responses : j # r => g_res_pool'[j] = g_res_pool[j]
          /\ answers' \in [Conns -> Seq(Origins)]
          /\ Len(answers'[c]) = 1
          /\ \A e \in Conns : e # c => answers'[e] = answers[e]
      BY <1>9, <2>1 DEF Origins
    <2>5. Matches(c)'
      BY <1>11, <2>1, <2>4 DEF Matches, ResSend
    <2> QED BY <1>2, <1>6, <1>11, <2>1, <2>2, <2>3, <2>4, <2>5 DEF ResSend, Holding
  <1>12. CASE ResFree(c)
    <2>1. conns[c].pc \in {"close", "abandon"} /\ r \in Responses /\ r \in 0 .. MaxResponses
      BY <1>3, <1>12 DEF ResFree, Holding, Responses
    <2>2. PICK m \in ConnThread : /\ m.pc = IF conns[c].pc = "close" THEN "done" ELSE "dropped"
                                  /\ conns' = [conns EXCEPT ![c] = m]
      <3>1. ASSUME NEW x \in ConnThread, NEW q \in {"done", "dropped"}
            PROVE  [x EXCEPT !.pc = q, !.res = r] \in ConnThread
                   /\ [x EXCEPT !.pc = q, !.res = r].pc = q
        BY <2>1 DEF ConnThread
      <3>2. PICK q \in {"done", "dropped"} :
              /\ q = IF conns[c].pc = "close" THEN "done" ELSE "dropped"
              /\ conns' = [conns EXCEPT ![c] = [Unborn EXCEPT !.pc = q, !.res = r]]
        BY <1>12 DEF ResFree
      <3> QED BY <3>1, <3>2, Fresh
    <2>3. g_res_pool' = [g_res_pool EXCEPT ![r] = FreeResponse]
          /\ UNCHANGED <<g_servers, object, sockets, accepting, answers, calls, crashed>>
      BY <1>12 DEF ResFree
    <2>4. conns'[c] = m /\ \A d \in Conns : d # c => conns'[d] = conns[d]
      BY <1>1, <2>2 DEF TypeOK
    <2>5. TypeOK'
      BY <1>1, <2>1, <2>2, <2>3, Fresh DEF TypeOK
    <2>6. SlotsAreKnown'
      <3>1. \A d \in Conns : conns'[d].pc \in Holding \cup {"start"} => conns'[d].slot \in Slots
        BY <1>1, <2>2, <2>4 DEF SlotsAreKnown, Holding
      <3> QED BY <1>1, <2>3, <3>1 DEF SlotsAreKnown
    <2>7. Owns(c)'
      BY <2>2, <2>4 DEF Owns, Holding
    <2>8. Matches(c)'
      BY <1>1, <2>1, <2>2, <2>3, <2>4 DEF Matches, AnswersMatchSlots
    <2>9. ASSUME NEW d \in Conns, d # c
          PROVE  Owns(d)' /\ Matches(d)'
      <3>1. g_res_pool[r].active => g_res_pool[r].conn = c
        BY <1>3, <2>1 DEF Holding
      <3>2. \A j \in Responses : j # r => g_res_pool'[j] = g_res_pool[j]
        BY <1>1, <2>3 DEF TypeOK
      <3> QED BY <1>1, <2>1, <2>3, <2>4, <2>9, <3>1, <3>2, OthersUnmoved
    <2> QED BY <2>5, <2>6, <2>7, <2>8, <2>9
        DEF ResponseOwnership, HoldersOwnTheirSlots, AnswersMatchSlots
  <1> QED BY <1>5, <1>7, <1>8, <1>10, <1>11, <1>12 DEF ConnSteps

(* Each client of a server, among any number that come and go, is answered *)
(* at most once and by its own handler, as long as no script keeps the     *)
(* response object of a handler that has ended.                            *)
THEOREM ResponsesAreOwned ==
  ASSUME "kept_response" \notin Allowed
  PROVE  Spec => []ResponseOwnership
  <1>1. ASSUME ResponseOwnership, [Next]_vars
        PROVE  ResponseOwnership'
    <2>1. CASE UNCHANGED vars
      <3>1. TypeOK' /\ SlotsAreKnown'
        BY <1>1, <2>1 DEF ResponseOwnership, TypeOK, SlotsAreKnown, vars
      <3> QED BY <1>1, <2>1, <3>1, CallsLeaveClients DEF ResponseOwnership, vars
    <2>2. CASE Next
      BY <1>1, <2>2, ServerCalls, AcceptThreads, ConnectionThreads DEF Next
    <2> QED BY <1>1, <2>1, <2>2
  <1> QED BY <1>1, InitOwnership, PTL DEF Spec

-----------------------------------------------------------------------------
(* The server slots: what their holders need them to hold.                 *)

Live(s)   == object[s].state \in {"creating", "open", "closing"}
Opened(s) == object[s].state \in {"open", "closing"}
Slot(s)   == g_servers[object[s].slot]

Filling   == {"fill_parent", "fill_callback"}
Listening == {"run", "spawn", "started"}
Joined    == {"drop_tls", "drop_callback", "free"}
Closing   == {"shut", "join"} \cup Joined

\* What the slot of s holds is what s needs.
SlotFits(s) ==
  /\ Live(s) => /\ Slot(s).in_use
                /\ Slot(s).listen_fd # 0 =>
                     \E k \in Listens : At(Slot(s).listen_fd, k) /\ sockets[k].owner = s
  /\ object[s].state = "open" => /\ Slot(s).parent_vm # NoVM
                                 /\ Slot(s).callback_fn = s
                                 /\ Slot(s).ssl_ctx = IF s \in Https THEN s ELSE NoServer

InCallOn(a, s) == calls[a].step # "none" /\ calls[a].server = s
Accepting(l) == accepting[l].pc \in {"test", "load", "accept"}

\* Who is inside a call on s has its slot, in a state that goes with the call.
CallFits(a, s) ==
  /\ calls[a].slot = object[s].slot
  /\ calls[a].step \in Filling => object[s].state = "creating"
  /\ calls[a].step = "fill_callback" => Slot(s).parent_vm # NoVM
  /\ calls[a].step \in Listening => /\ object[s].state = "open"
                                    /\ Slot(s).listen_fd # 0
                                    /\ At(Slot(s).listen_fd, calls[a].listen)
                                    /\ sockets[calls[a].listen].owner = s
  /\ calls[a].step \in {"run", "spawn"} => ~Accepting(calls[a].listen)
  /\ calls[a].step = "started" => Slot(s).accept_thread = calls[a].listen
  /\ calls[a].step \in Closing => object[s].state = "closing"

\* A socket of s is open until the close of s has shut it.
SocketFits(l, s) ==
  /\ Opened(s) /\ Slot(s).listen_fd # 0 /\ At(Slot(s).listen_fd, l)
  /\ \A a \in Actors : InCallOn(a, s) => calls[a].step \notin Closing \ {"shut"}

\* An accept thread of s runs until the close of s has joined it.
AcceptFits(l, s) ==
  /\ Opened(s) /\ accepting[l].slot = object[s].slot
  /\ Slot(s).accept_thread = l
  /\ object[s].state = "open" => Slot(s).listen_fd # 0 /\ At(Slot(s).listen_fd, l)
  /\ Slot(s).has_thread \/ \E a \in Actors : InCallOn(a, s) /\ calls[a].step = "started"
  /\ \A a \in Actors : InCallOn(a, s) => calls[a].step \notin Joined

\* Clients of s meet the slot of s as long as s is open.
Connected(c) == conns[c].pc \notin {"none", "done", "dropped"}
ConnFits(c, s) ==
  /\ object[s].state \in {"open", "closing", "closed"}
  /\ object[s].state = "open" => conns[c].slot = object[s].slot

Fits(s) ==
  /\ SlotFits(s)
  /\ \A a \in Actors : InCallOn(a, s) => CallFits(a, s)
  /\ \A l \in Listens : sockets[l].open /\ sockets[l].owner = s => SocketFits(l, s)
  /\ \A l \in Listens : Accepting(l) /\ sockets[l].owner = s => AcceptFits(l, s)
  /\ \A c \in Conns : Connected(c) /\ conns[c].from = s => ConnFits(c, s)

(* Servers share neither slots nor callers, and everything is somebody's.  *)
OnePerDescriptor == \A k, l \in Listens :
  sockets[k].open => /\ sockets[k].fd # 0
                     /\ sockets[l].open /\ sockets[k].fd = sockets[l].fd => k = l
Apart ==
  /\ OnePerDescriptor
  /\ \A s, t \in Servers : Live(s) /\ Live(t) /\ object[s].slot = object[t].slot => s = t
  /\ \A a, b \in Actors : \A s \in Servers : InCallOn(a, s) /\ InCallOn(b, s) => a = b
  /\ \A l \in Listens : sockets[l].open \/ Accepting(l) => sockets[l].owner \in Servers
  /\ \A c \in Conns : Connected(c) => conns[c].from \in Servers

ServersFit == Apart /\ \A s \in Servers : Fits(s)

(* What a client of an open server is served with.                         *)
Served(c) ==
  LET s == conns[c].from IN
  (Connected(c) /\ object[s].state = "open") =>
    /\ conns[c].pc \in {"handler", "flush"} => conns[c].cb = s
    /\ conns[c].pc = "close" /\ answers[c] # <<"bad_request">> => conns[c].cb = s
    /\ conns[c].pc \in {"child", "call", "handler", "flush", "close"} =>
         conns[c].tls = IF s \in Https THEN s ELSE NoServer
CrashExcused ==
  crashed => \E c \in Conns : /\ conns[c].pc = "child"
                              /\ \/ object[conns[c].from].state \in {"closing", "closed"}
                                 \/ Orphaned(conns[c].slot)
ClientsServed == CrashExcused /\ \A c \in Conns : Served(c)

-----------------------------------------------------------------------------
(* A server fits as long as a step leaves alone what is its own.           *)
LEMMA OthersStay ==
  ASSUME TypeOK, SlotsAreKnown, NEW t \in Servers, Fits(t), object'[t] = object[t],
         Live(t) => g_servers'[object[t].slot] = g_servers[object[t].slot],
         Live(t) => Slot(t) \in ServerSlot,
         \A a \in Actors : calls'[a] = calls[a] \/ (~InCallOn(a, t) /\ ~InCallOn(a, t)'),
         \A l \in Listens : sockets'[l] = sockets[l]
                              \/ (sockets[l].owner # t /\ sockets'[l].owner # t),
         \A l \in Listens : accepting'[l] = accepting[l] \/ sockets'[l].owner # t,
         \A c \in Conns : conns'[c] = conns[c] \/ ~(Connected(c)' /\ conns'[c].from = t)
  PROVE  Fits(t)'
  <1>1. Live(t)' <=> Live(t)
    BY DEF Live
  <1>2. Opened(t)' <=> Opened(t)
    BY DEF Opened
  <1>3. Live(t) => Slot(t)' = Slot(t)
    BY DEF Slot
  <1>4. Opened(t) => Live(t)
    BY DEF Live, Opened
  <1>5. object[t].state = "open" => Live(t)
    BY DEF Live
  <1>6. ASSUME NEW a \in Actors
        PROVE  /\ InCallOn(a, t)' => InCallOn(a, t) /\ calls'[a] = calls[a]
               /\ InCallOn(a, t) => InCallOn(a, t)' /\ calls'[a] = calls[a]
    BY DEF InCallOn
  <1>7. SlotFits(t)'
    <2>1. SlotFits(t)
      BY DEF Fits
    <2>2. ASSUME Live(t), Slot(t).listen_fd # 0
          PROVE  \E k \in Listens : At(Slot(t).listen_fd, k)' /\ sockets'[k].owner = t
      <3>1. PICK k \in Listens : At(Slot(t).listen_fd, k) /\ sockets[k].owner = t
        BY <2>1, <2>2 DEF SlotFits
      <3>2. sockets'[k] = sockets[k] /\ Slot(t)' = Slot(t)
        BY <2>2, <3>1, <1>3
      <3> QED BY <3>1, <3>2 DEF At
    <2> QED BY <2>1, <2>2, <1>1, <1>3, <1>5 DEF SlotFits
  <1>8. ASSUME NEW a \in Actors, InCallOn(a, t)'
        PROVE  CallFits(a, t)'
    <2>1. InCallOn(a, t) /\ calls'[a] = calls[a] /\ CallFits(a, t)
      BY <1>6, <1>8 DEF Fits
    <2>2. ASSUME calls[a].step \in {"run", "spawn"}
          PROVE  ~Accepting(calls[a].listen)'
      <3>1. calls[a].listen \in Listens /\ calls[a].listen # 0
        BY <2>1, <2>2 DEF SlotsAreKnown, Listens
      <3>2. sockets[calls[a].listen].owner = t
        BY <2>1, <2>2 DEF CallFits, Listening
      <3>3. sockets'[calls[a].listen].owner = t
        BY <3>1, <3>2
      <3> QED BY <2>1, <2>2, <3>1, <3>3 DEF CallFits, Accepting
    <2>3. ASSUME calls[a].step \in Listening
          PROVE  sockets'[calls[a].listen] = sockets[calls[a].listen]
      <3>1. calls[a].listen \in Listens
        BY <2>3 DEF SlotsAreKnown, Listening
      <3>2. sockets[calls[a].listen].owner = t
        BY <2>1, <2>3 DEF CallFits
      <3> QED BY <3>1, <3>2
    <2> QED BY <2>1, <2>2, <2>3, <1>3 DEF CallFits, Live, Slot, Filling, Listening, At
  <1>9. ASSUME NEW l \in Listens, (sockets[l].open /\ sockets[l].owner = t)'
        PROVE  SocketFits(l, t)'
    <2>1. SocketFits(l, t) /\ sockets'[l] = sockets[l]
      BY <1>9 DEF Fits
    <2> QED BY <2>1, <1>2, <1>3, <1>4, <1>6 DEF SocketFits, At
  <1>10. ASSUME NEW l \in Listens, (Accepting(l) /\ sockets[l].owner = t)'
         PROVE  AcceptFits(l, t)'
    <2>1. AcceptFits(l, t) /\ accepting'[l] = accepting[l] /\ sockets'[l] = sockets[l]
      BY <1>10 DEF Fits, Accepting
    <2> QED BY <2>1, <1>2, <1>3, <1>4, <1>6 DEF AcceptFits, At
  <1>11. ASSUME NEW c \in Conns, (Connected(c) /\ conns[c].from = t)'
         PROVE  ConnFits(c, t)'
    BY <1>11 DEF Fits, ConnFits, Connected
  <1> QED BY <1>7, <1>8, <1>9, <1>10, <1>11 DEF Fits

LEMMA InitFit == Init => ServersFit /\ ClientsServed
  <1> SUFFICES ASSUME Init PROVE ServersFit /\ ClientsServed
    OBVIOUS
  <1>1. /\ \A s \in Servers : object[s].state = "none"
        /\ \A a \in Actors : calls[a].step = "none"
        /\ \A l \in Listens : ~sockets[l].open /\ accepting[l].pc = "none"
        /\ \A c \in Conns : conns[c].pc = "none"
        /\ ~crashed
    BY DEF Init, NoCall, Unborn
  <1>2. Apart
    BY <1>1 DEF Apart, OnePerDescriptor, Live, InCallOn, Accepting, Connected
  <1>3. ASSUME NEW s \in Servers PROVE Fits(s)
    BY <1>1 DEF Fits, SlotFits, Live, InCallOn, Accepting, Connected
  <1>4. ClientsServed
    BY <1>1 DEF ClientsServed, CrashExcused, Served, Connected
  <1> QED BY <1>2, <1>3, <1>4 DEF ServersFit

(* A call on one server concerns no other.                                 *)
LEMMA OneServerMoves ==
  ASSUME TypeOK, SlotsAreKnown, ServersFit, NEW a \in Actors, NEW s \in Servers,
         \A t \in Servers \ {s} : object'[t] = object[t]
                                    /\ (Live(t) => object'[s].slot # object[t].slot),
         \A j \in Slots : j # object'[s].slot => g_servers'[j] = g_servers[j],
         \A b \in Actors \ {a} : calls'[b] = calls[b] /\ ~InCallOn(b, s),
         \A t \in Servers \ {s} : ~InCallOn(a, t) /\ ~InCallOn(a, t)',
         \A l \in Listens : sockets'[l] = sockets[l]
                              \/ (sockets'[l].owner = s /\ sockets[l].owner \notin Servers \ {s}),
         \A l \in Listens : accepting'[l] = accepting[l] \/ sockets'[l].owner = s,
         OnePerDescriptor', UNCHANGED conns, Fits(s)'
  PROVE  ServersFit'
  <1>1. ASSUME NEW t \in Servers, t # s
        PROVE  Fits(t)'
    <2>1. Live(t) => object[t].slot \in Slots
      BY DEF SlotsAreKnown, Live
    <2>2. Live(t) => Slot(t) \in ServerSlot
      BY <2>1 DEF Slot, TypeOK
    <2>3. Live(t) => g_servers'[object[t].slot] = g_servers[object[t].slot]
      BY <1>1, <2>1
    <2>4. \A b \in Actors : calls'[b] = calls[b] \/ (~InCallOn(b, t) /\ ~InCallOn(b, t)')
      BY <1>1
    <2>5. \A l \in Listens : sockets'[l] = sockets[l]
                               \/ (sockets[l].owner # t /\ sockets'[l].owner # t)
      BY <1>1
    <2>6. \A l \in Listens : accepting'[l] = accepting[l] \/ sockets'[l].owner # t
      BY <1>1
    <2>7. Fits(t) /\ object'[t] = object[t]
      BY <1>1 DEF ServersFit
    <2> QED BY <2>2, <2>3, <2>4, <2>5, <2>6, <2>7, OthersStay
  <1>2. Apart'
    <2>1. Apart
      BY DEF ServersFit
    <2>2. ASSUME NEW t \in Servers, NEW u \in Servers,
                 Live(t)', Live(u)', object'[t].slot = object'[u].slot
          PROVE  t = u
      BY <2>1, <2>2 DEF Apart, Live
    <2>3. ASSUME NEW b \in Actors, NEW d \in Actors, NEW t \in Servers,
                 InCallOn(b, t)', InCallOn(d, t)'
          PROVE  b = d
      <3>1. CASE t = s
        BY <2>3, <3>1 DEF InCallOn
      <3>2. CASE t # s
        BY <2>1, <2>3, <3>2 DEF Apart, InCallOn
      <3> QED BY <3>1, <3>2
    <2>4. ASSUME NEW l \in Listens, (sockets[l].open \/ Accepting(l))'
          PROVE  sockets'[l].owner \in Servers
      BY <2>1, <2>4 DEF Apart, Accepting
    <2>5. ASSUME NEW c \in Conns, Connected(c)'
          PROVE  conns'[c].from \in Servers
      BY <2>1, <2>5 DEF Apart, Connected
    <2> QED BY <2>2, <2>3, <2>4, <2>5 DEF Apart
  <1> QED BY <1>1, <1>2 DEF ServersFit

(* createServer takes a slot that nobody uses, and clears it.              *)
LEMMA CreateServerFits ==
  ASSUME TypeOK, SlotsAreKnown, ServersFit, NEW a \in Actors, NEW s \in Servers, CreateServer(a, s)
  PROVE  ServersFit'
  <1>1. Apart /\ \A t \in Servers : Fits(t)
    BY DEF ServersFit
  <1>2. /\ object[s].state = "none" /\ calls[a] = NoCall
        /\ UNCHANGED <<sockets, accepting, conns>>
    BY DEF CreateServer, Scripted
  <1>3. /\ \A b \in Actors : ~InCallOn(b, s)
        /\ \A t \in Servers : ~InCallOn(a, t)
    <2>1. \A b \in Actors : ~InCallOn(b, s)
      <3> SUFFICES ASSUME NEW b \in Actors, InCallOn(b, s) PROVE FALSE
        OBVIOUS
      <3>1. CallFits(b, s)
        BY <1>1 DEF Fits
      <3>2. calls[b].step \in Filling \cup Listening \cup Closing
        BY DEF InCallOn, TypeOK, ServerCall, Filling, Listening, Closing, Joined
      <3> QED BY <1>2, <3>1, <3>2 DEF CallFits
    <2> QED BY <1>2, <2>1 DEF InCallOn, NoCall
  <1>4. ~Live(s) /\ ~Opened(s) /\ \A c \in Conns : Connected(c) => conns[c].from # s
    BY <1>1, <1>2 DEF Live, Opened, Fits, ConnFits
  <1>5. \A l \in Listens : ~(sockets[l].open /\ sockets[l].owner = s)
                             /\ ~(Accepting(l) /\ sockets[l].owner = s)
    BY <1>1, <1>4 DEF Fits, SocketFits, AcceptFits
  <1>6. CASE \E i \in Slots :
               /\ LowestFree([k \in Slots |-> g_servers[k].in_use], i)
               /\ g_servers' = [g_servers EXCEPT ![i] = [FreeServer EXCEPT !.in_use = TRUE]]
               /\ object' = [object EXCEPT ![s] = [state |-> "creating", slot |-> i]]
               /\ Enter(a, "fill_parent", i, s, 0)
    <2> PICK i \in Slots :
               /\ LowestFree([k \in Slots |-> g_servers[k].in_use], i)
               /\ g_servers' = [g_servers EXCEPT ![i] = [FreeServer EXCEPT !.in_use = TRUE]]
               /\ object' = [object EXCEPT ![s] = [state |-> "creating", slot |-> i]]
               /\ Enter(a, "fill_parent", i, s, 0)
      BY <1>6
    <2>1. ~g_servers[i].in_use
      BY DEF LowestFree
    <2>2. /\ object'[s] = [state |-> "creating", slot |-> i]
          /\ \A t \in Servers \ {s} : object'[t] = object[t]
          /\ g_servers'[i] = [FreeServer EXCEPT !.in_use = TRUE]
          /\ calls'[a] = [step |-> "fill_parent", slot |-> i, server |-> s, listen |-> 0]
          /\ \A b \in Actors \ {a} : calls'[b] = calls[b]
          /\ \A j \in Slots : j # i => g_servers'[j] = g_servers[j]
      BY DEF TypeOK, Enter
    <2>3. \A t \in Servers \ {s} : Live(t) => object'[s].slot # object[t].slot
      BY <1>1, <2>1, <2>2 DEF Fits, SlotFits, Slot
    <2>4. Fits(s)'
      <3>1. SlotFits(s)'
        BY <2>2 DEF SlotFits, Live, Slot, FreeServer
      <3>2. \A b \in Actors : InCallOn(b, s)' => CallFits(b, s)'
        <4> SUFFICES ASSUME NEW b \in Actors, InCallOn(b, s)' PROVE CallFits(b, s)'
          OBVIOUS
        <4>1. b = a
          BY <1>3, <2>2 DEF InCallOn
        <4> QED BY <2>2, <4>1 DEF CallFits, Filling, Listening, Closing, Joined
      <3>3. \A l \in Listens : /\ ~(sockets[l].open /\ sockets[l].owner = s)'
                               /\ ~(Accepting(l) /\ sockets[l].owner = s)'
        BY <1>2, <1>5 DEF Accepting
      <3>4. \A c \in Conns : ~(Connected(c) /\ conns[c].from = s)'
        BY <1>2, <1>4 DEF Connected
      <3> QED BY <3>1, <3>2, <3>3, <3>4 DEF Fits
    <2>5. (\A t \in Servers \ {s} : ~InCallOn(a, t)') /\ OnePerDescriptor'
      BY <1>1, <1>2, <2>2 DEF InCallOn, Apart, OnePerDescriptor
    <2> QED BY <1>2, <1>3, <2>2, <2>3, <2>4, <2>5, OneServerMoves
  <1>7. CASE object' = [object EXCEPT ![s].state = "refused"] /\ UNCHANGED <<g_servers, calls>>
    <2>1. /\ object'[s].state = "refused"
          /\ \A t \in Servers \ {s} : object'[t] = object[t]
      BY <1>7 DEF TypeOK, ServerObject
    <2>2. ~Live(s)'
      BY <2>1 DEF Live
    <2>3. ASSUME NEW t \in Servers PROVE Fits(t)'
      <3>1. CASE t = s
        BY <1>2, <1>3, <1>4, <1>5, <1>7, <2>1, <2>2, <3>1
           DEF Fits, SlotFits, InCallOn, Accepting, Connected
      <3>2. CASE t # s
        <4>1. Live(t) => object[t].slot \in Slots
          BY DEF SlotsAreKnown, Live
        <4>2. Live(t) => Slot(t) \in ServerSlot
          BY <4>1 DEF Slot, TypeOK
        <4> QED BY <1>1, <1>2, <1>7, <2>1, <3>2, <4>2, OthersStay
      <3> QED BY <3>1, <3>2
    <2>4. Apart'
      BY <1>1, <1>2, <1>7, <2>1, <2>2
         DEF Apart, OnePerDescriptor, Live, InCallOn, Accepting, Connected
    <2> QED BY <2>3, <2>4 DEF ServersFit
  <1> QED BY <1>6, <1>7 DEF CreateServer

(* A call in progress is the only one on its server.                       *)
LEMMA CallInProgress ==
  ASSUME TypeOK, SlotsAreKnown, ServersFit, NEW a \in Actors, calls[a].step # "none",
         NEW s, s = calls[a].server
  PROVE  /\ s \in Servers /\ InCallOn(a, s) /\ CallFits(a, s) /\ Fits(s) /\ Live(s)
         /\ object[s].slot \in Slots /\ calls[a].slot = object[s].slot
         /\ Slot(s) \in ServerSlot /\ object[s] \in ServerObject /\ calls[a] \in ServerCall
         /\ \A b \in Actors \ {a} : ~InCallOn(b, s)
         /\ \A t \in Servers \ {s} : ~InCallOn(a, t)
         /\ \A t \in Servers \ {s} : Live(t) => object[s].slot # object[t].slot
  <1>1. s \in Servers /\ InCallOn(a, s)
    BY DEF SlotsAreKnown, InCallOn
  <1>2. CallFits(a, s) /\ Fits(s)
    BY <1>1 DEF ServersFit, Fits
  <1>3. calls[a] \in ServerCall /\ object[s] \in ServerObject
    BY <1>1 DEF TypeOK
  <1>4. calls[a].step \in Filling \cup Listening \cup Closing
    BY <1>3 DEF ServerCall, Filling, Listening, Closing, Joined
  <1>5. Live(s)
    BY <1>2, <1>4 DEF CallFits, Live
  <1>6. object[s].slot \in Slots /\ Slot(s) \in ServerSlot
    BY <1>1, <1>5 DEF SlotsAreKnown, Live, Slot, TypeOK
  <1>7. /\ \A b \in Actors \ {a} : ~InCallOn(b, s)
        /\ \A t \in Servers \ {s} : Live(t) => object[s].slot # object[t].slot
    BY <1>1, <1>5 DEF ServersFit, Apart
  <1>8. \A t \in Servers \ {s} : ~InCallOn(a, t)
    BY <1>1 DEF InCallOn
  <1>9. calls[a].slot = object[s].slot
    BY <1>2 DEF CallFits
  <1> QED BY <1>1, <1>2, <1>3, <1>5, <1>6, <1>7, <1>8, <1>9

(* What a call in progress does to its own server is all that matters.     *)
LEMMA CallMoves ==
  ASSUME TypeOK, SlotsAreKnown, ServersFit, NEW a \in Actors, calls[a].step # "none",
         NEW s, s = calls[a].server,
         \A t \in Servers : object'[t].slot = object[t].slot /\ (t # s => object'[t] = object[t]),
         \A j \in Slots : j # calls[a].slot => g_servers'[j] = g_servers[j],
         \A b \in Actors \ {a} : calls'[b] = calls[b],
         InCallOn(a, s)' \/ calls'[a] = NoCall,
         \A l \in Listens : sockets'[l] = sockets[l]
                              \/ (sockets[l].owner = s /\ sockets'[l].owner = s),
         \A l \in Listens : sockets'[l].open =>
                              sockets[l].open /\ sockets'[l].fd = sockets[l].fd,
         \A l \in Listens : accepting'[l] = accepting[l] \/ sockets'[l].owner = s,
         UNCHANGED conns,
         (\A b \in Actors : InCallOn(b, s)' => b = a) => Fits(s)'
  PROVE  ServersFit'
  <1>1. /\ s \in Servers /\ calls[a].slot = object[s].slot
        /\ \A b \in Actors \ {a} : ~InCallOn(b, s)
        /\ \A t \in Servers \ {s} : ~InCallOn(a, t)
        /\ \A t \in Servers \ {s} : Live(t) => object[s].slot # object[t].slot
    BY CallInProgress
  <1>2. \A t \in Servers \ {s} : ~InCallOn(a, t)'
    BY DEF InCallOn, NoCall
  <1>3. \A b \in Actors : InCallOn(b, s)' => b = a
    BY <1>1 DEF InCallOn
  <1>4. Fits(s)'
    BY <1>3
  <1>5. /\ \A t \in Servers \ {s} : object'[t] = object[t]
                                    /\ (Live(t) => object'[s].slot # object[t].slot)
        /\ \A j \in Slots : j # object'[s].slot => g_servers'[j] = g_servers[j]
        /\ \A b \in Actors \ {a} : calls'[b] = calls[b] /\ ~InCallOn(b, s)
        /\ \A t \in Servers \ {s} : ~InCallOn(a, t) /\ ~InCallOn(a, t)'
    BY <1>1, <1>2
  <1>6. \A l \in Listens : sockets'[l] = sockets[l]
                             \/ (sockets'[l].owner = s /\ sockets[l].owner \notin Servers \ {s})
    OBVIOUS
  <1>7. OnePerDescriptor'
    BY DEF ServersFit, Apart, OnePerDescriptor
  <1> QED BY <1>1, <1>4, <1>5, <1>6, <1>7, OneServerMoves

(* The rest of createServer.                                               *)
LEMMA FillingFits ==
  ASSUME TypeOK, SlotsAreKnown, ServersFit, NEW a \in Actors, NEW s \in Servers,
         s = calls[a].server, FillParent(a) \/ FillCallback(a)
  PROVE  ServersFit'
  <1>0. calls[a].step \in Filling
    BY DEF FillParent, FillCallback, InCall, Filling
  <1>1. calls[a].step # "none"
    BY <1>0 DEF Filling
  <1>2. /\ s \in Servers /\ InCallOn(a, s) /\ CallFits(a, s) /\ Fits(s) /\ Live(s)
        /\ object[s].slot \in Slots /\ calls[a].slot = object[s].slot
        /\ Slot(s) \in ServerSlot /\ object[s] \in ServerObject /\ calls[a] \in ServerCall
    BY <1>1, CallInProgress
  <1>3. object[s].state = "creating"
    BY <1>0, <1>2 DEF CallFits
  <1>4. /\ \A l \in Listens : ~(sockets[l].open /\ sockets[l].owner = s)
                              /\ ~(Accepting(l) /\ sockets[l].owner = s)
        /\ \A c \in Conns : ~(Connected(c) /\ conns[c].from = s)
    BY <1>2, <1>3 DEF Fits, SocketFits, AcceptFits, ConnFits, Opened
  <1>5. CASE FillParent(a)
    <2>1. /\ object' = object /\ sockets' = sockets /\ accepting' = accepting /\ conns' = conns
          /\ \A j \in Slots : j # calls[a].slot => g_servers'[j] = g_servers[j]
          /\ \A b \in Actors \ {a} : calls'[b] = calls[b]
      BY <1>5 DEF FillParent, Step, TypeOK
    <2>2. /\ calls'[a].step = "fill_callback" /\ calls'[a].server = s
          /\ calls'[a].slot = calls[a].slot
      BY <1>2, <1>5 DEF FillParent, Step, TypeOK, ServerCall
    <2>3. /\ Slot(s)'.parent_vm # NoVM /\ Slot(s)'.in_use = Slot(s).in_use
          /\ Slot(s)'.listen_fd = Slot(s).listen_fd
      BY <1>2, <1>5, <2>1, ConstantsFit DEF FillParent, Slot, TypeOK, ServerSlot, Actors
    <2>4. ASSUME \A b \in Actors : InCallOn(b, s)' => b = a
          PROVE  Fits(s)'
      <3>1. SlotFits(s)'
        BY <1>2, <1>3, <2>1, <2>3 DEF Fits, SlotFits, Live, At
      <3>2. CallFits(a, s)'
        BY <1>2, <1>3, <2>1, <2>2, <2>3 DEF CallFits, Filling, Listening, Closing, Joined
      <3> QED BY <1>4, <2>1, <2>4, <3>1, <3>2 DEF Fits, Accepting, Connected
    <2>5. InCallOn(a, s)'
      BY <2>2 DEF InCallOn
    <2> QED BY <1>1, <2>1, <2>4, <2>5, CallMoves
  <1>6. CASE FillCallback(a)
    <2>1. /\ sockets' = sockets /\ accepting' = accepting /\ conns' = conns
          /\ \A j \in Slots : j # calls[a].slot => g_servers'[j] = g_servers[j]
          /\ \A b \in Actors \ {a} : calls'[b] = calls[b]
          /\ calls'[a] = NoCall
      BY <1>6 DEF FillCallback, Return, TypeOK
    <2>2. /\ \A t \in Servers : object'[t].slot = object[t].slot /\ (t # s => object'[t] = object[t])
          /\ object'[s].state = "open"
      BY <1>2, <1>6 DEF FillCallback, TypeOK, ServerObject
    <2>3. Slot(s).parent_vm # NoVM
      BY <1>2, <1>6 DEF CallFits, FillCallback, InCall
    <2>4. /\ Slot(s)'.parent_vm = Slot(s).parent_vm /\ Slot(s)'.in_use = Slot(s).in_use
          /\ Slot(s)'.listen_fd = Slot(s).listen_fd
          /\ Slot(s)'.callback_fn = s
          /\ Slot(s)'.ssl_ctx = IF s \in Https THEN s ELSE NoServer
      BY <1>2, <1>6, <2>2 DEF FillCallback, Slot, TypeOK, ServerSlot
    <2>5. ASSUME \A b \in Actors : InCallOn(b, s)' => b = a
          PROVE  Fits(s)'
      <3>1. SlotFits(s)'
        BY <1>2, <2>1, <2>2, <2>3, <2>4 DEF Fits, SlotFits, Live, At
      <3>2. ~InCallOn(a, s)'
        BY <2>1 DEF InCallOn, NoCall
      <3> QED BY <1>4, <2>1, <2>5, <3>1, <3>2 DEF Fits, Accepting, Connected
    <2> QED BY <1>1, <2>1, <2>2, <2>5, CallMoves
  <1> QED BY <1>5, <1>6

(* listen begins on an open server that does not listen yet.               *)
LEMMA ListenFits ==
  ASSUME TypeOK, SlotsAreKnown, ServersFit, Allowed = {},
         NEW a \in Actors, NEW s \in Servers, NEW l \in Listens, Listen(a, s, l)
  PROVE  ServersFit'
  <1>1. Apart /\ \A t \in Servers : Fits(t)
    BY DEF ServersFit
  <1>2. /\ object[s].state = "open" /\ calls[a] = NoCall
        /\ Slot(s).listen_fd = 0 /\ sockets[l].owner = NoServer
        /\ UNCHANGED <<object, accepting, conns>>
    BY DEF Listen, Usable, Scripted, Slot
  <1>3. l # 0 /\ NoServer \notin Servers /\ Live(s)
    BY <1>2, ConstantsFit DEF Listens, Live
  <1>4. object[s].slot \in Slots /\ Slot(s) \in ServerSlot
    BY <1>2 DEF SlotsAreKnown, Slot, TypeOK
  <1>5. /\ \A b \in Actors : ~InCallOn(b, s)
        /\ \A t \in Servers : ~InCallOn(a, t)
    <2>1. ASSUME NEW b \in Actors, InCallOn(b, s)
          PROVE  FALSE
      <3>1. CallFits(b, s)
        BY <1>1, <2>1 DEF Fits
      <3>2. calls[b].step \in Filling \cup Listening \cup Closing
        BY <2>1 DEF InCallOn, TypeOK, ServerCall, Filling, Listening, Closing, Joined
      <3>3. calls[b].step \in Listening
        BY <1>2, <3>1, <3>2 DEF CallFits
      <3> QED BY <1>2, <3>1, <3>3 DEF CallFits
    <2> QED BY <1>2, <2>1 DEF InCallOn, NoCall
  <1> PICK n \in Listens :
        /\ LowestFree([m \in Listens |-> \E k \in Listens : At(m, k)], n)
        /\ sockets' = [sockets EXCEPT ![l] = [open |-> TRUE, owner |-> s, fd |-> n]]
        /\ g_servers' = [g_servers EXCEPT ![object[s].slot].listen_fd = n]
    BY DEF Listen
  <1>0. n # 0 /\ \A k \in Listens : ~At(n, k)
    BY DEF LowestFree, Listens
  <1>6. /\ calls'[a] = [step |-> "run", slot |-> object[s].slot, server |-> s, listen |-> l]
        /\ \A b \in Actors \ {a} : calls'[b] = calls[b]
        /\ sockets'[l] = [open |-> TRUE, owner |-> s, fd |-> n]
        /\ \A k \in Listens \ {l} : sockets'[k] = sockets[k]
        /\ \A j \in Slots : j # object[s].slot => g_servers'[j] = g_servers[j]
    BY DEF Listen, Enter, TypeOK
  <1>7. /\ Slot(s)'.listen_fd = n /\ Slot(s)'.in_use = Slot(s).in_use
        /\ Slot(s)'.parent_vm = Slot(s).parent_vm
        /\ Slot(s)'.callback_fn = Slot(s).callback_fn /\ Slot(s)'.ssl_ctx = Slot(s).ssl_ctx
    BY <1>2, <1>4 DEF Slot, TypeOK, ServerSlot
  <1>8. \A k \in Listens : ~(sockets[k].open /\ sockets[k].owner = s)
                             /\ ~(Accepting(k) /\ sockets[k].owner = s)
    BY <1>1, <1>2 DEF Fits, SocketFits, AcceptFits, Listens
  <1>9. ~Accepting(l)
    BY <1>1, <1>2, <1>3 DEF Apart
  <1>10. Fits(s)'
    <2>1. SlotFits(s)'
      BY <1>0, <1>1, <1>2, <1>3, <1>6, <1>7 DEF Fits, SlotFits, Live, At
    <2>2. ASSUME NEW b \in Actors, InCallOn(b, s)'
          PROVE  CallFits(b, s)' /\ calls'[b].step = "run"
      <3>1. b = a
        BY <1>5, <1>6, <2>2 DEF InCallOn
      <3>2. ~Accepting(l)'
        BY <1>2, <1>9 DEF Accepting
      <3> QED BY <1>0, <1>2, <1>6, <1>7, <3>1, <3>2
              DEF CallFits, Filling, Listening, Closing, Joined, At
    <2>3. ASSUME NEW k \in Listens, (sockets[k].open /\ sockets[k].owner = s)'
          PROVE  SocketFits(k, s)'
      BY <1>0, <1>2, <1>6, <1>7, <1>8, <2>2, <2>3 DEF SocketFits, Opened, Closing, Joined, At
    <2>4. ASSUME NEW k \in Listens, (Accepting(k) /\ sockets[k].owner = s)'
          PROVE  FALSE
      BY <1>2, <1>6, <1>8, <1>9, <2>4 DEF Accepting
    <2>5. ASSUME NEW c \in Conns, (Connected(c) /\ conns[c].from = s)'
          PROVE  ConnFits(c, s)'
      BY <1>1, <1>2, <2>5 DEF Fits, ConnFits, Connected
    <2> QED BY <2>1, <2>2, <2>3, <2>4, <2>5 DEF Fits
  <1>11. \A t \in Servers \ {s} : ~InCallOn(a, t)'
    BY <1>6 DEF InCallOn
  <1>12. \A t \in Servers \ {s} : Live(t) => object'[s].slot # object[t].slot
    BY <1>1, <1>2, <1>3 DEF Apart
  <1>13. \A k \in Listens : sockets'[k] = sockets[k]
                              \/ (sockets'[k].owner = s /\ sockets[k].owner \notin Servers \ {s})
    BY <1>2, <1>3, <1>6
  <1>14. OnePerDescriptor'
    BY <1>0, <1>1, <1>6 DEF Apart, OnePerDescriptor, At
  <1> QED BY <1>2, <1>5, <1>6, <1>10, <1>11, <1>12, <1>13, <1>14, OneServerMoves

(* The rest of listen: the accept thread runs, or the socket is closed.    *)
LEMMA ListeningFits ==
  ASSUME TypeOK, SlotsAreKnown, ServersFit, NEW a \in Actors, NEW s \in Servers,
         s = calls[a].server, ListenRun(a) \/ ListenSpawn(a) \/ ListenStarted(a)
  PROVE  ServersFit'
  <1> DEFINE l == calls[a].listen
  <1>0. calls[a].step \in Listening /\ calls[a].step # "none"
    BY DEF ListenRun, ListenSpawn, ListenStarted, InCall, Listening
  <1>1. /\ InCallOn(a, s) /\ CallFits(a, s) /\ Fits(s) /\ Live(s)
        /\ object[s].slot \in Slots /\ calls[a].slot = object[s].slot
        /\ Slot(s) \in ServerSlot /\ calls[a] \in ServerCall
        /\ \A b \in Actors \ {a} : ~InCallOn(b, s)
    BY <1>0, CallInProgress
  <1>2. PICK m \in Listens : m = l
    BY <1>0 DEF SlotsAreKnown, Listening
  <1>3. /\ object[s].state = "open" /\ Slot(s).listen_fd # 0
        /\ At(Slot(s).listen_fd, m) /\ sockets[m].owner = s
    BY <1>0, <1>1, <1>2 DEF CallFits
  <1>4. /\ \A k \in Listens : sockets[k].open /\ sockets[k].owner = s => k = m
        /\ \A k \in Listens : Accepting(k) /\ sockets[k].owner = s => k = m
        /\ sockets[m].owner = s
    <2>1. \A k \in Listens : At(Slot(s).listen_fd, k) => k = m
      BY <1>3 DEF ServersFit, Apart, OnePerDescriptor, At
    <2> QED BY <1>1, <1>3, <2>1 DEF Fits, SocketFits, AcceptFits
  <1>5. UNCHANGED <<object, conns>>
    BY DEF ListenRun, ListenSpawn, ListenStarted
  <1>6. ASSUME NEW c \in Conns, (Connected(c) /\ conns[c].from = s)'
        PROVE  ConnFits(c, s)'
    BY <1>1, <1>5, <1>6 DEF Fits, ConnFits, Connected
  <1>7. CASE ListenRun(a)
    <2>1. /\ UNCHANGED <<sockets, accepting>>
          /\ \A j \in Slots : j # calls[a].slot => g_servers'[j] = g_servers[j]
          /\ \A b \in Actors \ {a} : calls'[b] = calls[b]
      BY <1>7 DEF ListenRun, Step, TypeOK
    <2>2. /\ calls[a].step = "run" /\ calls'[a].step = "spawn" /\ calls'[a].server = s
          /\ calls'[a].slot = calls[a].slot /\ calls'[a].listen = m
      BY <1>1, <1>2, <1>7 DEF ListenRun, InCall, Step, TypeOK, ServerCall
    <2>3. \A f \in {"in_use", "listen_fd", "parent_vm", "callback_fn", "ssl_ctx", "has_thread",
                    "accept_thread"} : Slot(s)'[f] = Slot(s)[f]
      BY <1>1, <1>5, <1>7 DEF ListenRun, Slot, TypeOK, ServerSlot
    <2>4. ASSUME \A b \in Actors : InCallOn(b, s)' => b = a
          PROVE  Fits(s)'
      <3>1. SlotFits(s)'
        BY <1>1, <1>5, <2>1, <2>3 DEF Fits, SlotFits, Live, At
      <3>2. CallFits(a, s)'
        BY <1>1, <1>2, <1>3, <1>5, <2>1, <2>2, <2>3
           DEF CallFits, Filling, Listening, Closing, Joined, Accepting, At
      <3>3. ASSUME NEW k \in Listens, (sockets[k].open /\ sockets[k].owner = s)'
            PROVE  SocketFits(k, s)'
        BY <1>3, <1>4, <1>5, <2>1, <2>2, <2>3, <2>4, <3>3 DEF SocketFits, At, Opened, Closing, Joined
      <3>4. ASSUME NEW k \in Listens, (Accepting(k) /\ sockets[k].owner = s)'
            PROVE  FALSE
        <4>1. Accepting(k) /\ k = m
          BY <1>4, <2>1, <3>4 DEF Accepting
        <4> QED BY <1>1, <1>2, <2>2, <4>1 DEF CallFits
      <3> QED BY <1>6, <2>4, <3>1, <3>2, <3>3, <3>4 DEF Fits
    <2>5. InCallOn(a, s)'
      BY <2>2 DEF InCallOn
    <2> QED BY <1>0, <1>5, <2>1, <2>4, <2>5, CallMoves
  <1>8. CASE ListenStarted(a)
    <2>1. /\ UNCHANGED <<sockets, accepting>>
          /\ \A j \in Slots : j # calls[a].slot => g_servers'[j] = g_servers[j]
          /\ \A b \in Actors \ {a} : calls'[b] = calls[b]
          /\ calls'[a] = NoCall
      BY <1>8 DEF ListenStarted, Return, TypeOK
    <2>2. /\ \A f \in {"in_use", "listen_fd", "parent_vm", "callback_fn", "ssl_ctx",
                      "accept_thread"} : Slot(s)'[f] = Slot(s)[f]
          /\ Slot(s)'.has_thread
      BY <1>1, <1>5, <1>8 DEF ListenStarted, Slot, TypeOK, ServerSlot
    <2>3. ASSUME \A b \in Actors : InCallOn(b, s)' => b = a
          PROVE  Fits(s)'
      <3>1. SlotFits(s)'
        BY <1>1, <1>5, <2>1, <2>2 DEF Fits, SlotFits, Live, At
      <3>2. \A b \in Actors : ~InCallOn(b, s)'
        BY <2>1, <2>3 DEF InCallOn, NoCall
      <3>3. ASSUME NEW k \in Listens, (sockets[k].open /\ sockets[k].owner = s)'
            PROVE  SocketFits(k, s)'
        BY <1>3, <1>4, <1>5, <2>1, <2>2, <3>2, <3>3 DEF SocketFits, At, Opened
      <3>4. ASSUME NEW k \in Listens, (Accepting(k) /\ sockets[k].owner = s)'
            PROVE  AcceptFits(k, s)'
        <4>1. AcceptFits(k, s)
          BY <1>1, <2>1, <3>4 DEF Fits, Accepting
        <4> QED BY <1>5, <2>1, <2>2, <3>2, <4>1 DEF AcceptFits, At, Opened
      <3> QED BY <1>6, <3>1, <3>2, <3>3, <3>4 DEF Fits
    <2> QED BY <1>0, <1>5, <2>1, <2>3, CallMoves
  <1>9. CASE ListenSpawn(a)
    <2>1. UNCHANGED <<object, conns>> /\ ~Accepting(m) /\ calls[a].step = "spawn"
      BY <1>1, <1>2, <1>9 DEF ListenSpawn, InCall, CallFits
    <2>2. \A k \in Listens : ~(Accepting(k) /\ sockets[k].owner = s)
      BY <1>4, <2>1
    <2>3. CASE /\ accepting' = [accepting EXCEPT ![l] = [pc |-> "test", slot |-> calls[a].slot, fd |-> 0]]
               /\ g_servers' = [g_servers EXCEPT ![calls[a].slot].accept_thread = l]
               /\ Step(a, "started")
               /\ UNCHANGED sockets
      <3>1. /\ \A k \in Listens \ {m} : accepting'[k] = accepting[k]
            /\ accepting'[m] = [pc |-> "test", slot |-> object[s].slot, fd |-> 0]
            /\ \A j \in Slots : j # calls[a].slot => g_servers'[j] = g_servers[j]
            /\ \A b \in Actors \ {a} : calls'[b] = calls[b]
        BY <1>1, <1>2, <2>3 DEF Step, TypeOK
      <3>2. /\ calls'[a].step = "started" /\ calls'[a].server = s
            /\ calls'[a].slot = calls[a].slot /\ calls'[a].listen = m
        BY <1>1, <1>2, <2>3 DEF Step, TypeOK, ServerCall
      <3>3. /\ \A f \in {"in_use", "listen_fd", "parent_vm", "callback_fn", "ssl_ctx",
                        "has_thread"} : Slot(s)'[f] = Slot(s)[f]
            /\ Slot(s)'.accept_thread = m
        BY <1>1, <1>2, <2>1, <2>3 DEF Slot, TypeOK, ServerSlot
      <3>4. InCallOn(a, s)'
        BY <3>2 DEF InCallOn
      <3>5. ASSUME \A b \in Actors : InCallOn(b, s)' => b = a
            PROVE  Fits(s)'
        <4>1. SlotFits(s)'
          BY <1>1, <2>1, <2>3, <3>3 DEF Fits, SlotFits, Live, At
        <4>2. CallFits(a, s)'
          BY <1>1, <1>3, <2>1, <2>3, <3>2, <3>3
             DEF CallFits, Filling, Listening, Closing, Joined, At
        <4>3. ASSUME NEW k \in Listens, (sockets[k].open /\ sockets[k].owner = s)'
              PROVE  SocketFits(k, s)'
          BY <1>3, <1>4, <2>1, <2>3, <3>2, <3>3, <3>5, <4>3
             DEF SocketFits, At, Opened, Closing, Joined
        <4>4. ASSUME NEW k \in Listens, (Accepting(k) /\ sockets[k].owner = s)'
              PROVE  AcceptFits(k, s)'
          <5>1. k = m
            BY <2>2, <2>3, <3>1, <4>4 DEF Accepting
          <5> QED BY <1>3, <2>1, <2>3, <3>1, <3>2, <3>3, <3>4, <3>5, <5>1
                  DEF AcceptFits, At, Opened, Joined
        <4> QED BY <1>6, <3>5, <4>1, <4>2, <4>3, <4>4 DEF Fits
      <3>6. \A k \in Listens : accepting'[k] = accepting[k] \/ sockets'[k].owner = s
        BY <1>4, <2>3, <3>1
      <3> QED BY <1>0, <2>1, <2>3, <3>1, <3>4, <3>5, <3>6, CallMoves
    <2>4. CASE /\ g_servers' = [g_servers EXCEPT ![calls[a].slot].running = FALSE,
                                                 ![calls[a].slot].listen_fd = 0]
               /\ sockets' = Closed(sockets[l].fd)
               /\ Return(a)
               /\ UNCHANGED accepting
      <3>1. /\ \A k \in Listens \ {m} : sockets'[k] = sockets[k]
            /\ ~sockets'[m].open /\ sockets'[m].owner = s
            /\ \A k \in Listens : sockets'[k].open =>
                                   sockets[k].open /\ sockets'[k].fd = sockets[k].fd
            /\ \A j \in Slots : j # calls[a].slot => g_servers'[j] = g_servers[j]
            /\ \A b \in Actors \ {a} : calls'[b] = calls[b]
            /\ calls'[a] = NoCall
        <4>1. \A k \in Listens : /\ sockets'[k].owner = sockets[k].owner
                                 /\ sockets'[k].fd = sockets[k].fd
                                 /\ sockets'[k].open <=>
                                      sockets[k].open /\ sockets[k].fd # sockets[m].fd
                                 /\ ~At(sockets[m].fd, k) => sockets'[k] = sockets[k]
          <5>1. sockets' = Closed(sockets[m].fd)
            BY <1>2, <2>4
          <5>2. PICK n : n = sockets[m].fd
            OBVIOUS
          <5>3. sockets' = Closed(n)
            BY <5>1, <5>2
          <5> QED BY <5>2, <5>3, ClosedSockets
        <4>2. \A k \in Listens \ {m} : ~At(sockets[m].fd, k)
          BY <1>3 DEF ServersFit, Apart, OnePerDescriptor, At
        <4>3. /\ \A j \in Slots : j # calls[a].slot => g_servers'[j] = g_servers[j]
              /\ \A b \in Actors \ {a} : calls'[b] = calls[b]
              /\ calls'[a] = NoCall
          BY <2>4 DEF Return, TypeOK
        <4>4. ~sockets'[m].open /\ sockets'[m].owner = s
          BY <1>2, <1>4, <4>1
        <4>5. \A k \in Listens \ {m} : sockets'[k] = sockets[k]
          BY <4>1, <4>2
        <4>6. \A k \in Listens : sockets'[k].open =>
                                  sockets[k].open /\ sockets'[k].fd = sockets[k].fd
          BY <4>1
        <4> QED BY <4>3, <4>4, <4>5, <4>6
      <3>2. /\ \A f \in {"in_use", "parent_vm", "callback_fn", "ssl_ctx"} :
                 Slot(s)'[f] = Slot(s)[f]
            /\ Slot(s)'.listen_fd = 0
        BY <1>1, <2>1, <2>4 DEF Slot, TypeOK, ServerSlot
      <3>3. ASSUME \A b \in Actors : InCallOn(b, s)' => b = a
            PROVE  Fits(s)'
        <4>1. SlotFits(s)'
          BY <1>1, <2>1, <3>2 DEF Fits, SlotFits, Live
        <4>2. \A b \in Actors : ~InCallOn(b, s)'
          BY <3>1, <3>3 DEF InCallOn, NoCall
        <4>3. \A k \in Listens : /\ ~(sockets[k].open /\ sockets[k].owner = s)'
                                 /\ ~(Accepting(k) /\ sockets[k].owner = s)'
          BY <1>4, <2>1, <2>2, <2>4, <3>1 DEF Accepting
        <4> QED BY <1>6, <4>1, <4>2, <4>3 DEF Fits
      <3>4. \A k \in Listens : sockets'[k] = sockets[k]
                                 \/ (sockets[k].owner = s /\ sockets'[k].owner = s)
        BY <1>4, <3>1
      <3> QED BY <1>0, <2>1, <2>4, <3>1, <3>3, <3>4, CallMoves
    <2> QED BY <1>9, <2>3, <2>4 DEF ListenSpawn
  <1> QED BY <1>7, <1>8, <1>9

(* close begins on an open server that nobody else calls.                  *)
LEMMA CloseFits ==
  ASSUME TypeOK, SlotsAreKnown, ServersFit, Allowed = {},
         NEW a \in Actors, NEW s \in Servers, Close(a, s)
  PROVE  ServersFit'
  <1>1. Apart /\ \A t \in Servers : Fits(t)
    BY DEF ServersFit
  <1>2. /\ object[s].state = "open" /\ calls[a] = NoCall
        /\ \A b \in Actors : ~(calls[b].step \in Listening /\ calls[b].slot = object[s].slot)
        /\ UNCHANGED <<sockets, accepting, conns>>
    BY DEF Close, Usable, Scripted, Listening
  <1>3. Live(s) /\ object[s].slot \in Slots /\ Slot(s) \in ServerSlot /\ object[s] \in ServerObject
    BY <1>2 DEF SlotsAreKnown, Slot, TypeOK, Live
  <1>4. /\ \A b \in Actors : ~InCallOn(b, s)
        /\ \A t \in Servers : ~InCallOn(a, t)
    <2>1. ASSUME NEW b \in Actors, InCallOn(b, s)
          PROVE  FALSE
      <3>1. CallFits(b, s)
        BY <1>1, <2>1 DEF Fits
      <3>2. calls[b].step \in Filling \cup Listening \cup Closing
        BY <2>1 DEF InCallOn, TypeOK, ServerCall, Filling, Listening, Closing, Joined
      <3> QED BY <1>2, <3>1, <3>2 DEF CallFits
    <2> QED BY <1>2, <2>1 DEF InCallOn, NoCall
  <1>5. /\ calls'[a] = [step |-> "shut", slot |-> object[s].slot, server |-> s, listen |-> 0]
        /\ \A b \in Actors \ {a} : calls'[b] = calls[b]
        /\ object'[s].slot = object[s].slot /\ object'[s].state = "closing"
        /\ \A t \in Servers \ {s} : object'[t] = object[t]
        /\ \A j \in Slots : j # object[s].slot => g_servers'[j] = g_servers[j]
    BY <1>3 DEF Close, Enter, TypeOK, ServerObject
  <1>6. \A f \in {"in_use", "listen_fd", "has_thread", "accept_thread"} : Slot(s)'[f] = Slot(s)[f]
    BY <1>3, <1>5 DEF Close, Slot, TypeOK, ServerSlot
  <1>7. Fits(s)'
    <2>1. SlotFits(s)'
      BY <1>1, <1>2, <1>3, <1>5, <1>6 DEF Fits, SlotFits, Live, At
    <2>2. ASSUME NEW b \in Actors, InCallOn(b, s)'
          PROVE  CallFits(b, s)' /\ calls'[b].step = "shut"
      <3>1. b = a
        BY <1>4, <1>5, <2>2 DEF InCallOn
      <3> QED BY <1>5, <3>1 DEF CallFits, Filling, Listening, Closing, Joined
    <2>3. ASSUME NEW k \in Listens, (sockets[k].open /\ sockets[k].owner = s)'
          PROVE  SocketFits(k, s)'
      <3>1. SocketFits(k, s)
        BY <1>1, <1>2, <2>3 DEF Fits
      <3> QED BY <1>2, <1>5, <1>6, <2>2, <3>1 DEF SocketFits, At, Opened, Closing, Joined
    <2>4. ASSUME NEW k \in Listens, (Accepting(k) /\ sockets[k].owner = s)'
          PROVE  AcceptFits(k, s)'
      <3>1. AcceptFits(k, s)
        BY <1>1, <1>2, <2>4 DEF Fits, Accepting
      <3> QED BY <1>2, <1>4, <1>5, <1>6, <2>2, <3>1 DEF AcceptFits, At, Opened, Joined
    <2>5. ASSUME NEW c \in Conns, (Connected(c) /\ conns[c].from = s)'
          PROVE  ConnFits(c, s)'
      BY <1>5 DEF ConnFits
    <2> QED BY <2>1, <2>2, <2>3, <2>4, <2>5 DEF Fits
  <1>8. \A t \in Servers \ {s} : ~InCallOn(a, t)'
    BY <1>5 DEF InCallOn
  <1>9. \A t \in Servers \ {s} : Live(t) => object'[s].slot # object[t].slot
    BY <1>1, <1>3, <1>5 DEF Apart
  <1>10. OnePerDescriptor'
    BY <1>1, <1>2 DEF Apart, OnePerDescriptor
  <1> QED BY <1>2, <1>4, <1>5, <1>7, <1>8, <1>9, <1>10, OneServerMoves

(* The rest of close: shut the socket, then join the thread, then the rest. *)
LEMMA ClosingFits ==
  ASSUME TypeOK, SlotsAreKnown, ServersFit, NEW a \in Actors, NEW s \in Servers,
         s = calls[a].server,
         CloseSocket(a) \/ CloseJoin(a) \/ CloseTls(a) \/ CloseCallback(a) \/ CloseFree(a)
  PROVE  ServersFit'
  <1>0. calls[a].step \in Closing /\ calls[a].step # "none"
    BY DEF CloseSocket, CloseJoin, CloseTls, CloseCallback, CloseFree, InCall, Closing, Joined
  <1>1. /\ InCallOn(a, s) /\ CallFits(a, s) /\ Fits(s) /\ Live(s)
        /\ object[s].slot \in Slots /\ calls[a].slot = object[s].slot
        /\ Slot(s) \in ServerSlot /\ calls[a] \in ServerCall /\ object[s] \in ServerObject
        /\ \A b \in Actors \ {a} : ~InCallOn(b, s)
    BY <1>0, CallInProgress
  <1>2. object[s].state = "closing" /\ Opened(s)
    BY <1>0, <1>1 DEF CallFits, Opened
  <1>3. Server(a) = Slot(s) /\ UNCHANGED conns
    BY <1>1 DEF Server, Slot, CloseSocket, CloseJoin, CloseTls, CloseCallback, CloseFree
  <1>4. calls[a].step # "shut" =>
          \A k \in Listens : ~(sockets[k].open /\ sockets[k].owner = s)
    BY <1>0, <1>1 DEF Fits, SocketFits
  <1>5. calls[a].step \in Joined =>
          \A k \in Listens : ~(Accepting(k) /\ sockets[k].owner = s)
    BY <1>1 DEF Fits, AcceptFits
  <1>6. CASE CloseSocket(a)
    <2>1. /\ UNCHANGED <<object, accepting>>
          /\ \A j \in Slots : j # calls[a].slot => g_servers'[j] = g_servers[j]
          /\ \A b \in Actors \ {a} : calls'[b] = calls[b]
          /\ \A k \in Listens : /\ sockets'[k].owner = sockets[k].owner
                                /\ sockets'[k].fd = sockets[k].fd
                                /\ sockets'[k].open => sockets[k].open
                                /\ ~At(Slot(s).listen_fd, k) => sockets'[k] = sockets[k]
                                /\ At(Slot(s).listen_fd, k) => ~sockets'[k].open
      <3>1. sockets' = Closed(Slot(s).listen_fd)
        BY <1>3, <1>6 DEF CloseSocket
      <3>2. \A k \in Listens : /\ sockets'[k].owner = sockets[k].owner
                               /\ sockets'[k].fd = sockets[k].fd
                               /\ sockets'[k].open <=>
                                    sockets[k].open /\ sockets[k].fd # Slot(s).listen_fd
                               /\ ~At(Slot(s).listen_fd, k) => sockets'[k] = sockets[k]
        BY <3>1, ClosedSockets
      <3>3. /\ UNCHANGED <<object, accepting>>
            /\ \A j \in Slots : j # calls[a].slot => g_servers'[j] = g_servers[j]
            /\ \A b \in Actors \ {a} : calls'[b] = calls[b]
        BY <1>6 DEF CloseSocket, Step, TypeOK
      <3> QED BY <3>2, <3>3 DEF At
    <2>2. calls'[a].step = "join" /\ calls'[a].server = s /\ calls'[a].slot = calls[a].slot
      BY <1>1, <1>6 DEF CloseSocket, Step, TypeOK, ServerCall
    <2>3. /\ \A f \in {"in_use", "has_thread", "accept_thread"} : Slot(s)'[f] = Slot(s)[f]
          /\ Slot(s)'.listen_fd = 0
      BY <1>1, <1>6, <2>1 DEF CloseSocket, Slot, TypeOK, ServerSlot
    <2>4. ASSUME \A b \in Actors : InCallOn(b, s)' => b = a
          PROVE  Fits(s)'
      <3>1. SlotFits(s)'
        BY <1>1, <1>2, <2>1, <2>3 DEF Fits, SlotFits, Live, At
      <3>2. CallFits(a, s)'
        BY <1>1, <1>2, <2>1, <2>2 DEF CallFits, Filling, Listening, Closing, Joined
      <3>3. ASSUME NEW k \in Listens
            PROVE  ~(sockets[k].open /\ sockets[k].owner = s)'
        <4>1. sockets[k].open /\ sockets[k].owner = s => At(Slot(s).listen_fd, k)
          BY <1>1 DEF Fits, SocketFits
        <4> QED BY <2>1, <4>1
      <3>4. ASSUME NEW k \in Listens, (Accepting(k) /\ sockets[k].owner = s)'
            PROVE  AcceptFits(k, s)'
        <4>1. AcceptFits(k, s)
          BY <1>1, <2>1, <3>4 DEF Fits, Accepting
        <4>2. Slot(s).has_thread
          BY <1>0, <1>1, <4>1 DEF AcceptFits, Closing, Joined
        <4> QED BY <1>2, <2>1, <2>2, <2>3, <2>4, <4>1, <4>2 DEF AcceptFits, At, Opened, Joined
      <3>5. \A c \in Conns : ConnFits(c, s)'
        BY <1>2, <2>1 DEF ConnFits
      <3> QED BY <2>4, <3>1, <3>2, <3>3, <3>4, <3>5 DEF Fits
    <2>5. InCallOn(a, s)'
      BY <2>2 DEF InCallOn
    <2>6. ASSUME NEW k \in Listens
          PROVE  sockets'[k] = sockets[k] \/ (sockets[k].owner = s /\ sockets'[k].owner = s)
      <3>1. ASSUME At(Slot(s).listen_fd, k) PROVE sockets[k].owner = s
        <4>1. sockets[k].fd # 0 => \E m \in Listens : At(Slot(s).listen_fd, m)
                                                     /\ sockets[m].owner = s
          BY <1>1, <3>1 DEF Fits, SlotFits, At
        <4>2. sockets[k].fd # 0
          BY <3>1 DEF ServersFit, Apart, OnePerDescriptor, At
        <4>3. PICK m \in Listens : At(Slot(s).listen_fd, m) /\ sockets[m].owner = s
          BY <4>1, <4>2
        <4> QED BY <3>1, <4>3 DEF ServersFit, Apart, OnePerDescriptor, At
      <3> QED BY <2>1, <3>1
    <2> QED BY <1>0, <1>3, <2>1, <2>4, <2>5, <2>6, CallMoves
  <1>7. ASSUME NEW st \in {"drop_tls", "drop_callback", "free"}, Step(a, st),
               \A k \in Listens : ~(Accepting(k) /\ sockets[k].owner = s),
               calls[a].step # "shut",
               UNCHANGED <<object, sockets, accepting>>,
               \A j \in Slots : j # calls[a].slot => g_servers'[j] = g_servers[j],
               \A f \in {"in_use", "listen_fd"} : Slot(s)'[f] = Slot(s)[f]
        PROVE  ServersFit'
    <2>1. /\ \A b \in Actors \ {a} : calls'[b] = calls[b]
          /\ calls'[a].step = st /\ calls'[a].server = s /\ calls'[a].slot = calls[a].slot
      BY <1>1, <1>7 DEF Step, TypeOK, ServerCall
    <2>2. ASSUME \A b \in Actors : InCallOn(b, s)' => b = a
          PROVE  Fits(s)'
      <3>1. SlotFits(s)'
        BY <1>1, <1>2, <1>7 DEF Fits, SlotFits, Live, At
      <3>2. CallFits(a, s)'
        BY <1>1, <1>2, <1>7, <2>1 DEF CallFits, Filling, Listening, Closing, Joined
      <3>3. \A k \in Listens : /\ ~(sockets[k].open /\ sockets[k].owner = s)'
                               /\ ~(Accepting(k) /\ sockets[k].owner = s)'
        BY <1>4, <1>7 DEF Accepting
      <3>4. \A c \in Conns : ConnFits(c, s)'
        BY <1>2, <1>7 DEF ConnFits
      <3> QED BY <2>2, <3>1, <3>2, <3>3, <3>4 DEF Fits
    <2>3. InCallOn(a, s)'
      BY <2>1, <1>7 DEF InCallOn
    <2> QED BY <1>0, <1>3, <1>7, <2>1, <2>2, <2>3, CallMoves
  <1>8. CASE CloseJoin(a)
    <2>1. calls[a].step = "join"
      BY <1>8 DEF CloseJoin, InCall
    <2>2. ASSUME NEW k \in Listens, Accepting(k), sockets[k].owner = s
          PROVE  FALSE
      <3>1. AcceptFits(k, s)
        BY <1>1, <2>2 DEF Fits
      <3>2. Slot(s).has_thread /\ Slot(s).accept_thread = k
        BY <1>1, <2>1, <3>1 DEF AcceptFits
      <3> QED BY <1>3, <1>8, <2>2, <3>2 DEF CloseJoin, Accepting
    <2>3. /\ \A j \in Slots : j # calls[a].slot => g_servers'[j] = g_servers[j]
          /\ \A f \in {"in_use", "listen_fd"} : Slot(s)'[f] = Slot(s)[f]
      BY <1>1, <1>8 DEF CloseJoin, Slot, TypeOK, ServerSlot
    <2> QED BY <1>7, <1>8, <2>1, <2>2, <2>3 DEF CloseJoin
  <1>9. CASE CloseTls(a)
    <2>1. calls[a].step = "drop_tls"
      BY <1>9 DEF CloseTls, InCall
    <2>2. /\ \A j \in Slots : j # calls[a].slot => g_servers'[j] = g_servers[j]
          /\ \A f \in {"in_use", "listen_fd"} : Slot(s)'[f] = Slot(s)[f]
      BY <1>1, <1>9 DEF CloseTls, Slot, TypeOK, ServerSlot
    <2> QED BY <1>5, <1>7, <1>9, <2>1, <2>2 DEF CloseTls, Joined
  <1>10. CASE CloseCallback(a)
    <2>1. calls[a].step = "drop_callback"
      BY <1>10 DEF CloseCallback, InCall
    <2>2. /\ \A j \in Slots : j # calls[a].slot => g_servers'[j] = g_servers[j]
          /\ \A f \in {"in_use", "listen_fd"} : Slot(s)'[f] = Slot(s)[f]
      BY <1>1, <1>10 DEF CloseCallback, Slot, TypeOK, ServerSlot
    <2> QED BY <1>5, <1>7, <1>10, <2>1, <2>2 DEF CloseCallback, Joined
  <1>11. CASE CloseFree(a)
    <2>1. /\ UNCHANGED <<sockets, accepting>> /\ calls[a].step = "free"
          /\ \A j \in Slots : j # calls[a].slot => g_servers'[j] = g_servers[j]
          /\ \A b \in Actors \ {a} : calls'[b] = calls[b]
          /\ calls'[a] = NoCall
      BY <1>11 DEF CloseFree, InCall, Return, TypeOK
    <2>2. /\ \A t \in Servers : object'[t].slot = object[t].slot /\ (t # s => object'[t] = object[t])
          /\ object'[s].state = "closed"
      BY <1>1, <1>11 DEF CloseFree, TypeOK, ServerObject
    <2>3. ASSUME \A b \in Actors : InCallOn(b, s)' => b = a
          PROVE  Fits(s)'
      <3>1. SlotFits(s)'
        BY <2>2 DEF SlotFits, Live
      <3>2. \A b \in Actors : ~InCallOn(b, s)'
        BY <2>1, <2>3 DEF InCallOn, NoCall
      <3>3. \A k \in Listens : /\ ~(sockets[k].open /\ sockets[k].owner = s)'
                               /\ ~(Accepting(k) /\ sockets[k].owner = s)'
        BY <1>4, <1>5, <2>1 DEF Accepting, Joined
      <3>4. \A c \in Conns : ConnFits(c, s)'
        BY <2>2 DEF ConnFits
      <3> QED BY <3>1, <3>2, <3>3, <3>4 DEF Fits
    <2> QED BY <1>0, <1>3, <2>1, <2>2, <2>3, CallMoves
  <1> QED BY <1>6, <1>8, <1>9, <1>10, <1>11

(* Threads that accept and serve leave slots, sockets and calls alone.     *)
LEMMA ThreadsFit ==
  ASSUME TypeOK, SlotsAreKnown, ServersFit, UNCHANGED <<g_servers, object, sockets, calls>>,
         \A l \in Listens : /\ accepting'[l].slot = accepting[l].slot
                            /\ Accepting(l)' => Accepting(l),
         \A c \in Conns : Connected(c)' =>
           \/ /\ Connected(c) /\ conns'[c].from = conns[c].from
              /\ conns'[c].slot = conns[c].slot
           \/ conns'[c].from \in Servers /\ \A s \in Servers : conns'[c].from = s => ConnFits(c, s)'
  PROVE  ServersFit'
  <1>1. Apart /\ \A s \in Servers : Fits(s)
    BY DEF ServersFit
  <1>2. Apart'
    BY <1>1 DEF Apart, OnePerDescriptor, Live, InCallOn
  <1>3. ASSUME NEW s \in Servers PROVE Fits(s)'
    <2>1. Fits(s)
      BY <1>1
    <2>2. SlotFits(s)'
      BY <2>1 DEF Fits, SlotFits, Live, Slot, At
    <2>3. ASSUME NEW a \in Actors, InCallOn(a, s)' PROVE CallFits(a, s)'
      <3>1. CallFits(a, s) /\ calls'[a] = calls[a]
        BY <2>1, <2>3 DEF Fits, InCallOn
      <3>2. calls[a].step \in {"run", "spawn"} => calls[a].listen \in Listens
        BY DEF SlotsAreKnown
      <3> QED BY <3>1, <3>2 DEF CallFits, Slot, At
    <2>4. ASSUME NEW l \in Listens, (sockets[l].open /\ sockets[l].owner = s)'
          PROVE  SocketFits(l, s)'
      BY <2>1, <2>4 DEF Fits, SocketFits, Opened, Slot, InCallOn, At
    <2>5. ASSUME NEW l \in Listens, (Accepting(l) /\ sockets[l].owner = s)'
          PROVE  AcceptFits(l, s)'
      BY <2>1, <2>5 DEF Fits, AcceptFits, Opened, Slot, InCallOn, At
    <2>6. ASSUME NEW c \in Conns, (Connected(c) /\ conns[c].from = s)'
          PROVE  ConnFits(c, s)'
      BY <2>1, <2>6 DEF Fits, ConnFits
    <2> QED BY <2>2, <2>3, <2>4, <2>5, <2>6 DEF Fits
  <1> QED BY <1>2, <1>3 DEF ServersFit

(* The slot of an accept thread is the slot of its server, and the thread  *)
(* gives both to the clients it takes.                                     *)
LEMMA AcceptThreadsFit ==
  ASSUME TypeOK, SlotsAreKnown, ServersFit, NEW l \in Listens,
         AcceptSteps(l) \/ \E c \in Conns : AcceptClient(l, c)
  PROVE  ServersFit'
  <1>1. UNCHANGED <<g_servers, object, sockets, calls>>
    BY DEF AcceptSteps, AcceptTest, AcceptLoad, AcceptClient
  <1>2. \A k \in Listens : /\ accepting'[k].slot = accepting[k].slot
                           /\ Accepting(k)' => Accepting(k)
    <2>1. Accepting(l) /\ accepting[l] \in AcceptThread
      BY DEF AcceptSteps, AcceptTest, AcceptLoad, AcceptClient, TypeOK, Accepting
    <2>2. PICK p, n : accepting' = [accepting EXCEPT ![l].fd = n, ![l].pc = p]
      BY DEF AcceptSteps, AcceptTest, AcceptLoad, AcceptClient
    <2>3. /\ accepting'[l] = [accepting[l] EXCEPT !.fd = n, !.pc = p]
          /\ \A k \in Listens \ {l} : accepting'[k] = accepting[k]
      BY <2>2 DEF TypeOK
    <2>4. accepting'[l].slot = accepting[l].slot
      BY <2>1, <2>3 DEF AcceptThread
    <2> QED BY <2>1, <2>3, <2>4 DEF Accepting
  <1>3. CASE AcceptSteps(l)
    BY <1>1, <1>2, <1>3, ThreadsFit DEF AcceptSteps, AcceptTest, AcceptLoad, Connected
  <1>4. ASSUME NEW c \in Conns, AcceptClient(l, c)
        PROVE  ServersFit'
    <2> DEFINE i == accepting[l].slot
    <2>1. Accepting(l)
      BY <1>4 DEF AcceptClient, Accepting
    <2>2. PICK s \in Servers : s = sockets[l].owner
      BY <2>1 DEF ServersFit, Apart
    <2>3. object[s].slot = i /\ object[s].state \in {"open", "closing"}
      BY <2>1, <2>2 DEF ServersFit, Fits, AcceptFits, Opened
    <2>4. \A d \in Conns \ {c} : conns'[d] = conns[d]
      BY <1>4 DEF AcceptClient, Drop, TypeOK
    <2>5. conns'[c].pc = "dropped" \/ (conns'[c].from = s /\ conns'[c].slot = i)
      <3>1. [Unborn EXCEPT !.pc = "dropped"].pc = "dropped"
        BY Dropped
      <3>2. \A t : Started(i, s, t).from = s /\ Started(i, s, t).slot = i
        BY DEF Started
      <3>3. CASE Drop(c)
        BY <3>1, <3>3 DEF Drop, TypeOK
      <3>4. CASE \E k \in Listens :
                   conns' = [conns EXCEPT ![c] = Started(i, sockets[l].owner, sockets[k].owner)]
        <4>1. PICK u : conns' = [conns EXCEPT ![c] = Started(i, s, u)]
          BY <2>2, <3>4
        <4>2. conns'[c] = Started(i, s, u)
          BY <4>1 DEF TypeOK
        <4> QED BY <3>2, <4>2
      <3> QED BY <1>4, <3>3, <3>4 DEF AcceptClient
    <2>6. Connected(c)' => conns'[c].from \in Servers
                           /\ \A t \in Servers : conns'[c].from = t => ConnFits(c, t)'
      BY <1>1, <2>3, <2>5 DEF Connected, ConnFits
    <2>7. \A d \in Conns : d # c /\ Connected(d)' => Connected(d)
      BY <2>4 DEF Connected
    <2> QED BY <1>1, <1>2, <2>4, <2>6, <2>7, ThreadsFit
  <1> QED BY <1>3, <1>4

LEMMA ConnThreadsFit ==
  ASSUME TypeOK, SlotsAreKnown, ServersFit, NEW c \in Conns,
         ConnSteps(c) \/ \E d \in Conns : ResSend(c, d)
  PROVE  ServersFit'
  <1>1. UNCHANGED <<g_servers, object, sockets, calls, accepting>>
    BY DEF ConnSteps, ConnStart, ConnRequest, ConnChild, ConnCall, ConnFlush, ResFree, ResSend
  <1>2. \A d \in Conns \ {c} : conns'[d] = conns[d]
    BY DEF ConnSteps, ConnStart, ConnRequest, ConnChild, ConnCall, ConnFlush, ResFree, ResSend,
           Go, Drop, TypeOK
  <1>3. Connected(c)' => /\ Connected(c) /\ conns'[c].from = conns[c].from
                         /\ conns'[c].slot = conns[c].slot
    <2>1. conns[c] \in ConnThread
      BY DEF TypeOK
    <2>2. [Unborn EXCEPT !.pc = "dropped"].pc = "dropped"
      BY Dropped
    <2>3. CASE ConnStart(c)
      <3>1. Connected(c)
        BY <2>3 DEF ConnStart, Is, Connected
      <3>2. CASE \E r \in Responses : conns' = [conns EXCEPT ![c].pc = "request", ![c].res = r]
        BY <2>1, <3>1, <3>2 DEF TypeOK, ConnThread
      <3>3. CASE Drop(c)
        BY <2>2, <3>3 DEF Drop, TypeOK, Connected
      <3> QED BY <2>3, <3>2, <3>3 DEF ConnStart
    <2>4. CASE ConnRequest(c) \/ ConnChild(c) \/ ConnCall(c) \/ ConnFlush(c)
      BY <2>1, <2>4 DEF ConnRequest, ConnChild, ConnCall, ConnFlush, Is, Go, TypeOK,
                        ConnThread, Connected
    <2>5. CASE ResFree(c)
      BY <2>5 DEF ResFree, TypeOK, Unborn, Connected
    <2>6. CASE \E d \in Conns : ResSend(c, d)
      BY <2>6 DEF ResSend, Connected
    <2> QED BY <2>3, <2>4, <2>5, <2>6 DEF ConnSteps
  <1>4. \A d \in Conns : Connected(d)' => /\ Connected(d) /\ conns'[d].from = conns[d].from
                                          /\ conns'[d].slot = conns[d].slot
    BY <1>2, <1>3 DEF Connected
  <1> QED BY <1>1, <1>4, ThreadsFit DEF Accepting

-----------------------------------------------------------------------------
(* A server is opened once, before it has clients; calls therefore leave   *)
(* what its clients are served with.                                       *)
LEMMA CallsServe ==
  ASSUME TypeOK, SlotsAreKnown, ServersFit, ClientsServed,
         \/ \E a \in Creators \cup Closers : CallSteps(a)
         \/ \E a \in Creators, s \in Servers : CreateServer(a, s)
         \/ \E a \in Creators, s \in Servers, l \in Listens : Listen(a, s, l)
         \/ \E a \in Closers, s \in Servers : Close(a, s)
  PROVE  ClientsServed'
  <1>1. ~crashed /\ UNCHANGED <<conns, answers, crashed>>
    BY DEF CallSteps, FillParent, FillCallback, ListenRun, ListenSpawn, ListenStarted,
           CloseSocket, CloseJoin, CloseTls, CloseCallback, CloseFree, CreateServer, Listen, Close,
           Scripted, InCall
  <1>2. \A s \in Servers : object'[s].state = "open" => object[s].state \in {"open", "creating"}
    <2>1. CASE \E a \in Creators \cup Closers : CallSteps(a)
      <3> PICK a \in Creators \cup Closers : CallSteps(a)
        BY <2>1
      <3>1. a \in Actors
        BY ConstantsFit DEF Actors
      <3>2. CASE FillCallback(a)
        <4>1. calls[a].step = "fill_callback"
          BY <3>2 DEF FillCallback, InCall
        <4>2. calls[a].server \in Servers /\ InCallOn(a, calls[a].server)
          BY <3>1, <4>1 DEF SlotsAreKnown, InCallOn
        <4>3. object[calls[a].server].state = "creating"
          BY <3>1, <4>1, <4>2 DEF ServersFit, Fits, CallFits, Filling
        <4> QED BY <3>2, <4>2, <4>3 DEF FillCallback, TypeOK
      <3>3. CASE CloseFree(a)
        BY <3>3 DEF CloseFree, TypeOK, ServerObject
      <3>4. CASE UNCHANGED object
        BY <3>4
      <3> QED BY <3>2, <3>3, <3>4 DEF CallSteps, FillParent, ListenRun, ListenSpawn, ListenStarted,
                 CloseSocket, CloseJoin, CloseTls, CloseCallback
    <2>2. CASE \E a \in Creators, s \in Servers : CreateServer(a, s)
      <3> PICK a \in Creators, t \in Servers : CreateServer(a, t)
        BY <2>2
      <3>1. object'[t].state \in {"creating", "refused"}
        <4>1. object[t] \in ServerObject /\ t \in DOMAIN object
          BY DEF TypeOK
        <4>2. CASE \E i \in Slots : object' = [object EXCEPT ![t] = [state |-> "creating", slot |-> i]]
          BY <4>1, <4>2
        <4>3. CASE object' = [object EXCEPT ![t].state = "refused"]
          BY <4>1, <4>3 DEF ServerObject
        <4> QED BY <4>2, <4>3 DEF CreateServer
      <3>2. \A s \in Servers \ {t} : object'[s] = object[s]
        BY DEF CreateServer, TypeOK
      <3> QED BY <3>1, <3>2
    <2>3. CASE \E a \in Creators, s \in Servers, l \in Listens : Listen(a, s, l)
      BY <2>3 DEF Listen
    <2>4. CASE \E a \in Closers, s \in Servers : Close(a, s)
      BY <2>4 DEF Close, TypeOK, ServerObject
    <2> QED BY <2>1, <2>2, <2>3, <2>4
  <1>3. ASSUME NEW c \in Conns PROVE Served(c)'
    <2>1. Connected(c) => conns[c].from \in Servers /\ object[conns[c].from].state # "creating"
      BY DEF ServersFit, Apart, Fits, ConnFits
    <2>2. Served(c)
      BY DEF ClientsServed
    <2> QED BY <1>1, <1>2, <2>1, <2>2 DEF Served, Connected
  <1>4. CrashExcused'
    BY <1>1 DEF CrashExcused
  <1> QED BY <1>3, <1>4 DEF ClientsServed

(* What is done for one client leaves the others.                          *)
LEMMA OthersServed ==
  ASSUME NEW d \in Conns, Served(d), object' = object,
         conns'[d] = conns[d], answers'[d] = answers[d]
  PROVE  Served(d)'
  BY DEF Served, Connected

LEMMA AcceptServes ==
  ASSUME TypeOK, ClientsServed, NEW l \in Listens,
         AcceptSteps(l) \/ \E c \in Conns : AcceptClient(l, c)
  PROVE  ClientsServed'
  <1>1. ~crashed /\ UNCHANGED <<object, answers, crashed>>
    BY DEF AcceptSteps, AcceptTest, AcceptLoad, AcceptClient
  <1>2. CrashExcused'
    BY <1>1 DEF CrashExcused
  <1>3. CASE AcceptSteps(l)
    BY <1>1, <1>2, <1>3, OthersServed DEF ClientsServed, AcceptSteps, AcceptTest, AcceptLoad
  <1>4. ASSUME NEW c \in Conns, AcceptClient(l, c)
        PROVE  ClientsServed'
    <2>1. conns'[c].pc \in {"start", "dropped"}
      <3>1. [Unborn EXCEPT !.pc = "dropped"].pc = "dropped"
        BY Dropped
      <3>2. \A i, s, u : Started(i, s, u).pc = "start"
        BY DEF Started
      <3>3. c \in DOMAIN conns
        BY DEF TypeOK
      <3>4. CASE Drop(c)
        BY <3>1, <3>3, <3>4 DEF Drop
      <3>5. CASE \E i, s, u : conns' = [conns EXCEPT ![c] = Started(i, s, u)]
        BY <3>2, <3>3, <3>5
      <3> QED BY <1>4, <3>4, <3>5 DEF AcceptClient
    <2>2. Served(c)'
      BY <2>1 DEF Served
    <2>3. \A d \in Conns \ {c} : conns'[d] = conns[d]
      BY <1>4 DEF AcceptClient, Drop, TypeOK
    <2> QED BY <1>1, <1>2, <2>2, <2>3, OthersServed DEF ClientsServed
  <1> QED BY <1>3, <1>4

(* The thread of a client reads the slot of its server piece by piece; as  *)
(* long as the server is open, every piece is the server's.                *)
LEMMA ConnServes ==
  ASSUME ResponseOwnership, ServersFit, ClientsServed, "kept_response" \notin Allowed,
         NEW c \in Conns, ConnSteps(c) \/ \E d \in Conns : ResSend(c, d)
  PROVE  ClientsServed'
  <1> DEFINE s == conns[c].from
  <1>1. TypeOK /\ SlotsAreKnown /\ HoldersOwnTheirSlots /\ AnswersMatchSlots
    BY DEF ResponseOwnership
  <1>2. object' = object /\ ~crashed
    BY DEF ConnSteps, ConnStart, ConnRequest, ConnChild, ConnCall, ConnFlush, ResFree, ResSend,
           Is, Scripted
  <1>3. \A d \in Conns \ {c} : conns'[d] = conns[d]
    BY <1>1 DEF ConnSteps, ConnStart, ConnRequest, ConnChild, ConnCall, ConnFlush, ResFree, ResSend,
           Go, Drop, TypeOK
  <1>4. conns[c] \in ConnThread
    BY <1>1 DEF TypeOK
  <1>5. Served(c)
    BY DEF ClientsServed
  <1>6. conns[c].pc \in Holding => /\ conns[c].res \in Responses
                                   /\ g_res_pool[conns[c].res].conn = c
    BY <1>1 DEF HoldersOwnTheirSlots, Owns
  <1>7. ASSUME NEW q, Answer(conns[c].res, q), conns[c].pc \in Holding
        PROVE  /\ \A d \in Conns \ {c} : answers'[d] = answers[d]
               /\ answers'[c] = Append(answers[c], q)
    BY <1>1, <1>6, <1>7 DEF Answer, TypeOK
  <1>8. Connected(c) => s \in Servers
    BY DEF ServersFit, Apart
  <1>9. Connected(c) /\ object[s].state = "open" =>
          /\ HostOf(c).parent_vm # NoVM /\ HostOf(c).callback_fn = s
          /\ HostOf(c).ssl_ctx = IF s \in Https THEN s ELSE NoServer
    BY <1>8 DEF ServersFit, Fits, ConnFits, SlotFits, HostOf, Slot
  <1>10. CASE UNCHANGED <<answers, crashed>> /\ conns'[c].pc \in {"request", "abandon", "done", "dropped"}
    <2>1. Served(c)'
      BY <1>10 DEF Served
    <2>2. CrashExcused'
      BY <1>2, <1>10 DEF CrashExcused
    <2> QED BY <1>2, <1>3, <1>10, <2>1, <2>2, OthersServed DEF ClientsServed
  <1>11. CASE ConnStart(c)
    <2>1. CASE \E r \in Responses : conns' = [conns EXCEPT ![c].pc = "request", ![c].res = r]
      <3>1. conns'[c].pc = "request"
        BY <1>1, <1>4, <2>1 DEF TypeOK, ConnThread
      <3> QED BY <1>10, <1>11, <3>1 DEF ConnStart
    <2>2. CASE Drop(c)
      <3>1. conns'[c].pc = "dropped"
        BY <1>1, <2>2, Dropped DEF Drop, TypeOK
      <3> QED BY <1>10, <1>11, <3>1 DEF ConnStart
    <2> QED BY <1>11, <2>1, <2>2 DEF ConnStart
  <1>12. CASE ConnRequest(c)
    <2>1. conns[c].pc = "request" /\ Connected(c) /\ UNCHANGED crashed
      BY <1>12 DEF ConnRequest, Is, Connected
    <2>2. CASE Go(c, "abandon") /\ UNCHANGED answers
      <3>1. conns'[c].pc = "abandon"
        BY <1>1, <1>4, <2>2 DEF Go, TypeOK, ConnThread
      <3> QED BY <1>10, <2>1, <2>2, <3>1
    <2>3. ASSUME NEW p \in {"child", "close"},
                 conns' = [conns EXCEPT ![c].pc = p, ![c].tls = HostOf(c).ssl_ctx],
                 \A d \in Conns \ {c} : answers'[d] = answers[d],
                 p = "close" => answers'[c] = <<"bad_request">>
          PROVE  ClientsServed'
      <3>1. conns'[c].pc = p /\ conns'[c].tls = HostOf(c).ssl_ctx /\ conns'[c].from = s
        BY <1>1, <1>4, <2>3 DEF TypeOK, ConnThread
      <3>2. Served(c)'
        BY <1>2, <1>9, <2>1, <2>3, <3>1 DEF Served, Connected
      <3>3. CrashExcused'
        BY <1>2, <2>1 DEF CrashExcused
      <3> QED BY <1>2, <1>3, <2>3, <3>2, <3>3, OthersServed DEF ClientsServed
    <2>4. CASE conns' = [conns EXCEPT ![c].pc = "child", ![c].tls = HostOf(c).ssl_ctx]
               /\ UNCHANGED answers
      BY <2>3, <2>4
    <2>5. CASE conns' = [conns EXCEPT ![c].pc = "close", ![c].tls = HostOf(c).ssl_ctx]
               /\ Answer(conns[c].res, "bad_request")
      <3>1. answers[c] = <<>>
        BY <1>1, <2>1 DEF AnswersMatchSlots, Matches
      <3>2. answers'[c] = Append(<<>>, "bad_request")
            /\ \A d \in Conns \ {c} : answers'[d] = answers[d]
        BY <1>7, <2>1, <2>5, <3>1 DEF Holding
      <3>3. Append(<<>>, "bad_request") = <<"bad_request">>
        OBVIOUS
      <3> QED BY <2>3, <2>5, <3>2, <3>3
    <2> QED BY <1>12, <2>2, <2>4, <2>5 DEF ConnRequest
  <1>13. CASE ConnChild(c)
    <2>1. conns[c].pc = "child" /\ Connected(c) /\ UNCHANGED answers
      BY <1>13 DEF ConnChild, Is, Connected
    <2>2. CASE Go(c, "call") /\ UNCHANGED crashed
      <3>2. /\ conns'[c].pc = "call" /\ conns'[c].tls = conns[c].tls
            /\ conns'[c].from = s
        BY <1>1, <1>4, <2>2 DEF Go, TypeOK, ConnThread
      <3>3. Served(c)'
        BY <1>2, <1>5, <2>1, <3>2 DEF Served, Connected
      <3>4. CrashExcused'
        BY <1>2, <2>2 DEF CrashExcused
      <3> QED BY <1>2, <1>3, <2>1, <3>3, <3>4, OthersServed DEF ClientsServed
    <2>3. CASE ~VMLives(HostOf(c).parent_vm) /\ UNCHANGED conns
      <3>1. object[s].state \in {"closing", "closed"} \/ Orphaned(conns[c].slot)
        <4>1. conns[c].slot \in Slots
          BY <1>1, <2>1 DEF SlotsAreKnown, Holding
        <4>2. HostOf(c).parent_vm \in Actors \cup {NoVM}
          BY <1>1, <4>1 DEF HostOf, TypeOK, ServerSlot
        <4>3. HostOf(c).parent_vm # Main
          BY <2>3 DEF VMLives
        <4>4. CASE HostOf(c).parent_vm = NoVM
          BY <1>8, <1>9, <2>1, <4>4 DEF ServersFit, Fits, ConnFits
        <4>5. CASE HostOf(c).parent_vm # NoVM
          BY <2>3, <4>2, <4>3, <4>5 DEF Orphaned, HostOf, Actors
        <4> QED BY <4>4, <4>5
      <3>2. g_servers' = g_servers
        BY <1>13 DEF ConnChild
      <3>3. CrashExcused'
        BY <1>2, <2>1, <2>3, <3>1, <3>2 DEF CrashExcused, Orphaned, VMLives
      <3> QED BY <1>2, <2>1, <2>3, <3>3, OthersServed DEF ClientsServed
    <2> QED BY <1>13, <2>2, <2>3 DEF ConnChild
  <1>14. CASE ConnCall(c)
    <2>1. conns[c].pc = "call" /\ Connected(c) /\ UNCHANGED <<answers, crashed>>
      BY <1>14 DEF ConnCall, Is, Connected
    <2>2. /\ conns'[c].pc \in {"handler", "flush"} /\ conns'[c].tls = conns[c].tls
          /\ conns'[c].from = s /\ conns'[c].cb = HostOf(c).callback_fn
      BY <1>1, <1>4, <1>14 DEF ConnCall, TypeOK, ConnThread
    <2>3. Served(c)'
      BY <1>2, <1>5, <1>9, <2>1, <2>2 DEF Served, Connected
    <2>4. CrashExcused'
      BY <1>2, <2>1 DEF CrashExcused
    <2> QED BY <1>2, <1>3, <2>1, <2>3, <2>4, OthersServed DEF ClientsServed
  <1>15. CASE ConnFlush(c)
    <2>1. conns[c].pc \in {"handler", "flush"} /\ Connected(c) /\ UNCHANGED crashed
      BY <1>15 DEF ConnFlush, Connected
    <2>2. /\ conns'[c].pc = "close" /\ conns'[c].tls = conns[c].tls
          /\ conns'[c].from = s /\ conns'[c].cb = conns[c].cb
      BY <1>1, <1>4, <1>15 DEF ConnFlush, Go, TypeOK, ConnThread
    <2>3. \A d \in Conns \ {c} : answers'[d] = answers[d]
      BY <1>7, <1>15, <2>1 DEF ConnFlush, SendOn, Holding
    <2>4. Served(c)'
      BY <1>2, <1>5, <2>1, <2>2 DEF Served, Connected
    <2>5. CrashExcused'
      BY <1>2, <2>1 DEF CrashExcused
    <2> QED BY <1>2, <1>3, <2>3, <2>4, <2>5, OthersServed DEF ClientsServed
  <1>16. CASE ResFree(c)
    <2>1. conns'[c].pc \in {"done", "dropped"}
      BY <1>1, <1>16 DEF ResFree, TypeOK, Unborn
    <2> QED BY <1>10, <1>16, <2>1 DEF ResFree
  <1>17. ASSUME NEW d \in Conns, ResSend(c, d)
         PROVE  ClientsServed'
    <2>1. d = c /\ conns[c].pc = "handler" /\ UNCHANGED <<conns, crashed>>
      BY <1>17, ConstantsFit DEF ResSend, Reaches, Scripted
    <2>2. \A e \in Conns \ {c} : answers'[e] = answers[e]
      BY <1>7, <1>17, <2>1 DEF ResSend, SendOn, Holding
    <2>3. Served(c)'
      BY <1>2, <1>5, <2>1 DEF Served, Connected
    <2>4. CrashExcused'
      BY <1>2, <2>1 DEF CrashExcused
    <2> QED BY <1>2, <2>1, <2>2, <2>3, <2>4, OthersServed DEF ClientsServed
  <1> QED BY <1>11, <1>12, <1>13, <1>14, <1>15, <1>16, <1>17 DEF ConnSteps

-----------------------------------------------------------------------------
(* Every step of the servers keeps both.                                   *)
LEMMA CallsFit ==
  ASSUME TypeOK, SlotsAreKnown, ServersFit, NEW a \in Actors, CallSteps(a)
  PROVE  ServersFit'
  <1>1. calls[a].step # "none"
    BY DEF CallSteps, FillParent, FillCallback, ListenRun, ListenSpawn, ListenStarted,
           CloseSocket, CloseJoin, CloseTls, CloseCallback, CloseFree, InCall
  <1>2. PICK s \in Servers : s = calls[a].server
    BY <1>1 DEF SlotsAreKnown
  <1>3. CASE FillParent(a) \/ FillCallback(a)
    BY <1>2, <1>3, FillingFits
  <1>4. CASE ListenRun(a) \/ ListenSpawn(a) \/ ListenStarted(a)
    BY <1>2, <1>4, ListeningFits
  <1>5. CASE CloseSocket(a) \/ CloseJoin(a) \/ CloseTls(a) \/ CloseCallback(a) \/ CloseFree(a)
    BY <1>2, <1>5, ClosingFits
  <1> QED BY <1>3, <1>4, <1>5 DEF CallSteps

LEMMA StepFits ==
  ASSUME ResponseOwnership, ServersFit, ClientsServed, Allowed = {}, [Next]_vars
  PROVE  ServersFit' /\ ClientsServed'
  <1>1. TypeOK /\ SlotsAreKnown
    BY DEF ResponseOwnership
  <1>2. Creators \subseteq Actors /\ Closers \subseteq Actors
    BY ConstantsFit DEF Actors
  <1>3. CASE UNCHANGED vars
    <2>1. UNCHANGED <<g_servers, object, sockets, calls, conns, accepting, answers, crashed>>
      BY <1>3 DEF vars
    <2>2. ServersFit'
      BY <1>1, <2>1, ThreadsFit DEF Accepting, Connected
    <2>3. \A c \in Conns : Served(c)'
      BY <2>1, OthersServed DEF ClientsServed
    <2> QED BY <2>1, <2>2, <2>3 DEF ClientsServed, CrashExcused, Orphaned, VMLives
  <1>4. CASE \/ \E a \in Creators \cup Closers : CallSteps(a)
             \/ \E a \in Creators, s \in Servers : CreateServer(a, s)
             \/ \E a \in Creators, s \in Servers, l \in Listens : Listen(a, s, l)
             \/ \E a \in Closers, s \in Servers : Close(a, s)
    <2>1. ServersFit'
      BY <1>1, <1>2, <1>4, CallsFit, CreateServerFits, ListenFits, CloseFits
    <2> QED BY <1>1, <1>4, <2>1, CallsServe
  <1>5. CASE (\E l \in Listens : AcceptSteps(l)) \/ \E l \in Listens, c \in Conns : AcceptClient(l, c)
    BY <1>1, <1>5, AcceptThreadsFit, AcceptServes
  <1>6. CASE (\E c \in Conns : ConnSteps(c)) \/ \E c, d \in Conns : ResSend(c, d)
    BY <1>1, <1>6, ConnThreadsFit, ConnServes
  <1> QED BY <1>3, <1>4, <1>5, <1>6 DEF Next

LEMMA ServersAlwaysFit ==
  ASSUME Allowed = {}
  PROVE  Spec => [](TypeOK /\ ServersFit /\ ClientsServed)
  <1>1. Spec => []ResponseOwnership
    BY ResponsesAreOwned
  <1>2. ResponseOwnership /\ ServersFit /\ ClientsServed /\ [Next]_vars
          => ServersFit' /\ ClientsServed'
    BY StepFits
  <1>3. ResponseOwnership => TypeOK
    BY DEF ResponseOwnership
  <1> QED BY <1>1, <1>2, <1>3, InitFit, PTL DEF Spec

(* server_close_fn of lib/http.c: when it has returned, the accept thread  *)
(* of the server has ended and its socket is closed, whichever threads run *)
(* meanwhile and whichever server the slot is given to next.               *)
THEOREM ClosedServersStop ==
  ASSUME Allowed = {}
  PROVE  Spec => []CloseStopsAccepting
  <1>1. ASSUME TypeOK, ServersFit PROVE CloseStopsAccepting
    <2> SUFFICES ASSUME NEW l \in Listens, sockets[l].owner # NoServer,
                        object[sockets[l].owner].state = "closed"
                 PROVE  ~sockets[l].open /\ accepting[l].pc \in {"none", "ended"}
      BY DEF CloseStopsAccepting
    <2>1. sockets[l] \in Socket /\ accepting[l] \in AcceptThread
      BY <1>1 DEF TypeOK
    <2>2. PICK s \in Servers : s = sockets[l].owner
      BY <2>1 DEF Socket
    <2>3. ~Opened(s) /\ Fits(s)
      BY <1>1, <2>2 DEF Opened, ServersFit
    <2>4. ~sockets[l].open /\ ~Accepting(l)
      BY <2>2, <2>3 DEF Fits, SocketFits, AcceptFits
    <2> QED BY <2>1, <2>4 DEF Accepting, AcceptThread
  <1> QED BY <1>1, ServersAlwaysFit, PTL

(* conn_thread_fn of lib/http.c reads in_use, ssl_ctx, parent_vm           *)
(* and callback_fn of its slot one after the other and without the mutex;  *)
(* what it reads belongs to the server whose accept thread has taken its   *)
(* client, unless that server is being closed; and a null or dangling      *)
(* parent_vm is met only then or when the server was created in a handler  *)
(* that has returned.                                                      *)
THEOREM OpenServersAreServed ==
  ASSUME Allowed = {}
  PROVE  Spec => []OpenServersServe
  <1>1. ASSUME ClientsServed PROVE OpenServersServe
    BY <1>1 DEF ClientsServed, Served, CrashExcused, Connected, OpenServersServe
  <1> QED BY <1>1, ServersAlwaysFit, PTL

=============================================================================
