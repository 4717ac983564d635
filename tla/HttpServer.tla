----------------------------- MODULE HttpServer -----------------------------
(***************************************************************************)
(* The HTTP and HTTPS servers of the script library: the fixed tables      *)
(* g_servers and g_res_pool, the calls a script makes on a server object   *)
(* (createServer, listen, close), the accept thread a listen starts and    *)
(* the connection thread started for every accepted client.  Calls run in  *)
(* Main, the script, or inside a connection's handler, which the           *)
(* connection thread runs in a VM of its own.                              *)
(***************************************************************************)
EXTENDS Naturals, FiniteSets, Sequences

CONSTANTS
  Servers,        \* createServer calls of the script, named by their callback
  Https,          \* those made by https.createServer
  Conns,          \* clients that connect
  MaxServers,     \* HTTP_MAX_SERVERS
  MaxResponses,   \* HTTP_MAX_ACTIVE_RESPONSES
  MaxListens,     \* bound: successful socket/bind/listen sequences
  Creators,       \* the actors whose code calls createServer and listen
  Closers,        \* the actors whose code calls close
  Allowed,        \* careless uses a script makes: a subset of Careless
  Main, NoServer, NoVM

Careless == {"relisten", "stale_server", "kept_response", "close_in_listen"}

ASSUME ConstantsFit ==
  /\ MaxServers \in Nat \ {0} /\ MaxResponses \in Nat \ {0}
  /\ MaxListens \in Nat
  /\ Https \subseteq Servers /\ NoServer \notin Servers
  /\ Main \notin Conns /\ NoVM \notin Conns \cup {Main} /\ Creators \cup Closers \subseteq Conns \cup {Main}
  /\ Allowed \subseteq Careless

VARIABLES
  g_servers,  \* the server slots
  g_res_pool, \* the response slots
  object,     \* for each server of the script: its state and __server_id
  sockets,    \* listening sockets, one for each listen, and their descriptors
  accepting,  \* accept threads, one for each listen: their slot and what they
              \* have loaded of its listen_fd
  conns,      \* connection threads
  answers,    \* what each client has read
  calls,      \* the server call each actor is inside
  crashed     \* the process died on a null or destroyed parent_vm

vars == <<g_servers, g_res_pool, object, sockets, accepting, conns, answers, calls, crashed>>

Slots     == 1 .. MaxServers
Responses == 1 .. MaxResponses
Listens   == 1 .. MaxListens
Actors    == Conns \cup {Main}
Origins   == {"handler", "default", "bad_request"}

FreeServer   == [in_use |-> FALSE, running |-> FALSE, listen_fd |-> 0, accept_thread |-> 0,
                 has_thread |-> FALSE, parent_vm |-> NoVM, callback_fn |-> NoServer,
                 ssl_ctx |-> NoServer]
FreeResponse == [active |-> FALSE, conn |-> Main, sent |-> FALSE]
NoCall       == [step |-> "none", slot |-> 0, server |-> NoServer, listen |-> 0]
Unborn       == [pc |-> "none", slot |-> 0, from |-> NoServer, port |-> NoServer,
                 res |-> 0, tls |-> NoServer, cb |-> NoServer]

Init ==
  /\ g_servers = [i \in Slots |-> FreeServer]
  /\ g_res_pool = [i \in Responses |-> FreeResponse]
  /\ object = [s \in Servers |-> [state |-> "none", slot |-> 0]]
  /\ sockets = [l \in Listens |-> [open |-> FALSE, owner |-> NoServer, fd |-> 0]]
  /\ accepting = [l \in Listens |-> [pc |-> "none", slot |-> 0, fd |-> 0]]
  /\ conns = [c \in Conns |-> Unborn]
  /\ answers = [c \in Conns |-> <<>>]
  /\ calls = [a \in Actors |-> NoCall]
  /\ crashed = FALSE

-----------------------------------------------------------------------------
(* The script's calls on servers. *)

\* The actor runs script code: the script itself, or a handler being run.
Scripted(a) == /\ ~crashed
               /\ calls[a] = NoCall
               /\ a # Main => conns[a].pc = "handler"

Step(a, st) == calls' = [calls EXCEPT ![a].step = st]
Enter(a, st, i, s, l) ==
  calls' = [calls EXCEPT ![a] = [step |-> st, slot |-> i, server |-> s, listen |-> l]]
Return(a) == calls' = [calls EXCEPT ![a] = NoCall]

InCall(a, st) == ~crashed /\ calls[a].step = st
Server(a)     == g_servers[calls[a].slot]

\* Both tables are searched from their beginning, as is the system's table of
\* descriptors.
LowestFree(taken, i) == ~taken[i] /\ \A j \in DOMAIN taken : j < i => taken[j]

\* CreateServer with the slots of servers that do not listen counted as free.
CreateServerOverIdle(a, s) ==
  LET taken == [i \in Slots |-> g_servers[i].running] IN
  /\ Scripted(a) /\ object[s].state = "none"
  /\ \E i \in Slots :
       /\ LowestFree(taken, i)
       /\ g_servers' = [g_servers EXCEPT ![i] = [FreeServer EXCEPT !.in_use = TRUE]]
       /\ object' = [object EXCEPT ![s] = [state |-> "creating", slot |-> i]]
       /\ Enter(a, "fill_parent", i, s, 0)
  /\ UNCHANGED <<g_res_pool, sockets, accepting, conns, answers, crashed>>

\* createServer: server_alloc takes the lowest free slot under the mutex and
\* clears it; the fields are filled after the mutex is released.
CreateServer(a, s) ==
  LET taken == [i \in Slots |-> g_servers[i].in_use] IN
  /\ Scripted(a) /\ object[s].state = "none"
  /\ \/ /\ \E i \in Slots :
             /\ LowestFree(taken, i)
             /\ g_servers' = [g_servers EXCEPT ![i] = [FreeServer EXCEPT !.in_use = TRUE]]
             /\ object' = [object EXCEPT ![s] = [state |-> "creating", slot |-> i]]
             /\ Enter(a, "fill_parent", i, s, 0)
     \/ /\ \A i \in Slots : taken[i]
        /\ object' = [object EXCEPT ![s].state = "refused"]
        /\ UNCHANGED <<g_servers, calls>>
  /\ UNCHANGED <<g_res_pool, sockets, accepting, conns, answers, crashed>>

\* The VM that calls createServer, which is a connection's own in a handler.
FillParent(a) ==
  /\ InCall(a, "fill_parent")
  /\ g_servers' = [g_servers EXCEPT ![calls[a].slot].parent_vm = a]
  /\ Step(a, "fill_callback")
  /\ UNCHANGED <<g_res_pool, object, sockets, accepting, conns, answers, crashed>>

FillCallback(a) ==
  LET s == calls[a].server IN
  /\ InCall(a, "fill_callback")
  /\ g_servers' = [g_servers EXCEPT ![calls[a].slot].callback_fn = s,
                                    ![calls[a].slot].ssl_ctx = IF s \in Https THEN s ELSE NoServer]
  /\ object' = [object EXCEPT ![s].state = "open"]
  /\ Return(a)
  /\ UNCHANGED <<g_res_pool, sockets, accepting, conns, answers, crashed>>

\* server_get_from tests only that the slot is in use, by whichever server.
Usable(s) ==
  /\ \/ object[s].state = "open"
     \/ object[s].state \in {"closing", "closed"} /\ "stale_server" \in Allowed
  /\ g_servers[object[s].slot].in_use

\* A descriptor names the socket that is open under it, if any: numbers are
\* given again as soon as they are closed.
At(n, k)   == sockets[k].open /\ sockets[k].fd = n
Closed(n)  == [k \in Listens |-> IF At(n, k) THEN [sockets[k] EXCEPT !.open = FALSE]
                                 ELSE sockets[k]]

\* listen: a new listening socket replaces the slot's; a failing socket,
\* bind or listen raises an error and changes nothing.
Listen(a, s, l) ==
  LET i == object[s].slot IN
  /\ Scripted(a) /\ Usable(s)
  /\ g_servers[i].listen_fd = 0 \/ "relisten" \in Allowed
  /\ sockets[l].owner = NoServer /\ \A k \in Listens : k < l => sockets[k].owner # NoServer
  /\ \E n \in Listens :
       /\ LowestFree([m \in Listens |-> \E k \in Listens : At(m, k)], n)
       /\ sockets' = [sockets EXCEPT ![l] = [open |-> TRUE, owner |-> s, fd |-> n]]
       /\ g_servers' = [g_servers EXCEPT ![i].listen_fd = n]
  /\ Enter(a, "run", i, s, l)
  /\ UNCHANGED <<g_res_pool, object, accepting, conns, answers, crashed>>

ListenRun(a) ==
  /\ InCall(a, "run")
  /\ g_servers' = [g_servers EXCEPT ![calls[a].slot].running = TRUE]
  /\ Step(a, "spawn")
  /\ UNCHANGED <<g_res_pool, object, sockets, accepting, conns, answers, crashed>>

ListenSpawn(a) ==
  LET i == calls[a].slot
      l == calls[a].listen
  IN
  /\ InCall(a, "spawn")
  /\ \/ /\ accepting' = [accepting EXCEPT ![l] = [pc |-> "test", slot |-> i, fd |-> 0]]
        /\ g_servers' = [g_servers EXCEPT ![i].accept_thread = l]
        /\ Step(a, "started")
        /\ UNCHANGED sockets
     \/ /\ g_servers' = [g_servers EXCEPT ![i].running = FALSE, ![i].listen_fd = 0]
        /\ sockets' = Closed(sockets[l].fd)
        /\ Return(a)
        /\ UNCHANGED accepting
  /\ UNCHANGED <<g_res_pool, object, conns, answers, crashed>>

ListenStarted(a) ==
  /\ InCall(a, "started")
  /\ g_servers' = [g_servers EXCEPT ![calls[a].slot].has_thread = TRUE]
  /\ Return(a)
  /\ UNCHANGED <<g_res_pool, object, sockets, accepting, conns, answers, crashed>>

\* close: stop the accept loop, close its socket, join its thread, drop the
\* TLS context, drop the callback and free the slot, one after the other.
Close(a, s) ==
  LET i == object[s].slot IN
  /\ Scripted(a) /\ Usable(s)
  /\ \/ "close_in_listen" \in Allowed
     \/ \A b \in Actors : ~ (calls[b].step \in {"run", "spawn", "started"} /\ calls[b].slot = i)
  /\ object' = [object EXCEPT ![s].state = "closing"]
  /\ g_servers' = [g_servers EXCEPT ![i].running = FALSE]
  /\ Enter(a, "shut", i, s, 0)
  /\ UNCHANGED <<g_res_pool, sockets, accepting, conns, answers, crashed>>

CloseSocket(a) ==
  /\ InCall(a, "shut")
  /\ sockets' = Closed(Server(a).listen_fd)
  /\ g_servers' = [g_servers EXCEPT ![calls[a].slot].listen_fd = 0]
  /\ Step(a, "join")
  /\ UNCHANGED <<g_res_pool, object, accepting, conns, answers, crashed>>

\* CloseJoin that does not wait for the accept thread.
CloseJoinDetached(a) ==
  /\ InCall(a, "join")
  /\ g_servers' = [g_servers EXCEPT ![calls[a].slot].has_thread = FALSE]
  /\ Step(a, "drop_tls")
  /\ UNCHANGED <<g_res_pool, object, sockets, accepting, conns, answers, crashed>>

CloseJoin(a) ==
  /\ InCall(a, "join")
  /\ Server(a).has_thread => accepting[Server(a).accept_thread].pc = "ended"
  /\ g_servers' = [g_servers EXCEPT ![calls[a].slot].has_thread = FALSE]
  /\ Step(a, "drop_tls")
  /\ UNCHANGED <<g_res_pool, object, sockets, accepting, conns, answers, crashed>>

CloseTls(a) ==
  /\ InCall(a, "drop_tls")
  /\ g_servers' = [g_servers EXCEPT ![calls[a].slot].ssl_ctx = NoServer]
  /\ Step(a, "drop_callback")
  /\ UNCHANGED <<g_res_pool, object, sockets, accepting, conns, answers, crashed>>

CloseCallback(a) ==
  /\ InCall(a, "drop_callback")
  /\ g_servers' = [g_servers EXCEPT ![calls[a].slot].callback_fn = NoServer]
  /\ Step(a, "free")
  /\ UNCHANGED <<g_res_pool, object, sockets, accepting, conns, answers, crashed>>

\* server_free
CloseFree(a) ==
  /\ InCall(a, "free")
  /\ g_servers' = [g_servers EXCEPT ![calls[a].slot].in_use = FALSE]
  /\ object' = [object EXCEPT ![calls[a].server].state = "closed"]
  /\ Return(a)
  /\ UNCHANGED <<g_res_pool, sockets, accepting, conns, answers, crashed>>

CallSteps(a) == \/ FillParent(a) \/ FillCallback(a)
                \/ ListenRun(a) \/ ListenSpawn(a) \/ ListenStarted(a)
                \/ CloseSocket(a) \/ CloseJoin(a) \/ CloseTls(a) \/ CloseCallback(a)
                \/ CloseFree(a)

-----------------------------------------------------------------------------
(* The accept thread of a listen. *)

\* AcceptTest as an endless loop.
AcceptForever(l) ==
  /\ ~crashed /\ accepting[l].pc \in {"test", "accept"}
  /\ accepting' = [accepting EXCEPT ![l].fd = 0, ![l].pc = "load"]
  /\ UNCHANGED <<g_servers, g_res_pool, object, sockets, conns, answers, calls, crashed>>

\* The loop's test of running, also after an accept that failed: its
\* time-out, a shut socket, or a descriptor that names no listening socket.
AcceptTest(l) ==
  /\ ~crashed /\ accepting[l].pc \in {"test", "accept"}
  /\ accepting' = [accepting EXCEPT ![l].fd = 0,
                     ![l].pc = IF g_servers[accepting[l].slot].running THEN "load" ELSE "ended"]
  /\ UNCHANGED <<g_servers, g_res_pool, object, sockets, conns, answers, calls, crashed>>

\* The argument of accept is loaded before the call.
AcceptLoad(l) ==
  /\ ~crashed /\ accepting[l].pc = "load"
  /\ accepting' = [accepting EXCEPT ![l].fd = g_servers[accepting[l].slot].listen_fd,
                                    ![l].pc = "accept"]
  /\ UNCHANGED <<g_servers, g_res_pool, object, sockets, conns, answers, calls, crashed>>

AcceptSteps(l) == AcceptTest(l) \/ AcceptLoad(l)

Started(i, s, t) == [pc |-> "start", slot |-> i, from |-> s, port |-> t, res |-> 0,
                     tls |-> NoServer, cb |-> NoServer]
Drop(c) == conns' = [conns EXCEPT ![c] = [Unborn EXCEPT !.pc = "dropped"]]

\* A client connects to the socket that the loaded descriptor names now; its
\* thread is started, or cannot be and the client is dropped.
AcceptClient(l, c) ==
  /\ ~crashed /\ accepting[l].pc = "accept"
  /\ conns[c].pc = "none"
  /\ \E k \in Listens :
       /\ At(accepting[l].fd, k)
       /\ \/ conns' = [conns EXCEPT ![c] =
                         Started(accepting[l].slot, sockets[l].owner, sockets[k].owner)]
          \/ Drop(c)
  /\ accepting' = [accepting EXCEPT ![l].fd = 0, ![l].pc = "test"]
  /\ UNCHANGED <<g_servers, g_res_pool, object, sockets, answers, calls, crashed>>

-----------------------------------------------------------------------------
(* The connection thread. *)

Is(c, pc)   == ~crashed /\ conns[c].pc = pc
Go(c, pc)   == conns' = [conns EXCEPT ![c].pc = pc]
HostOf(c)   == g_servers[conns[c].slot]

Answer(r, origin) == answers' = [answers EXCEPT ![g_res_pool[r].conn] = Append(@, origin)]

\* res_send_impl: the answer goes to the client of the response slot.
SendOn(r, origin) ==
  /\ g_res_pool' = [g_res_pool EXCEPT ![r].sent = TRUE]
  /\ Answer(r, origin)

\* The thread tests in_use, without the mutex, and takes the lowest free
\* response slot (res_alloc); with neither the client is dropped.
ConnStart(c) ==
  LET taken == [r \in Responses |-> g_res_pool[r].active] IN
  /\ Is(c, "start")
  /\ \/ /\ HostOf(c).in_use
        /\ \E r \in Responses :
             /\ LowestFree(taken, r)
             /\ g_res_pool' = [g_res_pool EXCEPT ![r] = [active |-> TRUE, conn |-> c, sent |-> FALSE]]
             /\ conns' = [conns EXCEPT ![c].pc = "request", ![c].res = r]
     \/ /\ ~HostOf(c).in_use \/ \A r \in Responses : taken[r]
        /\ Drop(c)
        /\ UNCHANGED g_res_pool
  /\ UNCHANGED <<g_servers, object, sockets, accepting, answers, calls, crashed>>

\* The TLS handshake when the slot has a context, then http_read_request; what
\* it cannot read is answered 400 at once.
ConnRequest(c) ==
  LET ctx == HostOf(c).ssl_ctx IN
  /\ Is(c, "request")
  /\ \/ /\ ctx # NoServer
        /\ Go(c, "abandon") /\ UNCHANGED answers
     \/ /\ conns' = [conns EXCEPT ![c].pc = "child", ![c].tls = ctx]
        /\ UNCHANGED answers
     \/ /\ conns' = [conns EXCEPT ![c].pc = "close", ![c].tls = ctx]
        /\ Answer(conns[c].res, "bad_request")
  /\ UNCHANGED <<g_servers, g_res_pool, object, sockets, accepting, calls, crashed>>

\* The VM of a connection is a local variable of its thread, initialised by
\* ConnChild and destroyed right after ResFree.
VMLives(v) == v = Main \/ (v \in Conns /\ conns[v].pc \in {"call", "handler", "flush", "close"})

\* cando_vm_init_child reads through parent_vm: a null one kills the process,
\* and one that was destroyed may be read as it was.
ConnChild(c) ==
  /\ Is(c, "child")
  /\ \/ /\ HostOf(c).parent_vm # NoVM
        /\ Go(c, "call") /\ UNCHANGED crashed
     \/ /\ ~VMLives(HostOf(c).parent_vm)
        /\ crashed' = TRUE /\ UNCHANGED conns
  /\ UNCHANGED <<g_servers, g_res_pool, object, sockets, accepting, answers, calls>>

\* cando_vm_call_value with a null callback does nothing.
ConnCall(c) ==
  LET cb == HostOf(c).callback_fn IN
  /\ Is(c, "call")
  /\ conns' = [conns EXCEPT ![c].cb = cb, ![c].pc = IF cb = NoServer THEN "flush" ELSE "handler"]
  /\ UNCHANGED <<g_servers, g_res_pool, object, sockets, accepting, answers, calls, crashed>>

\* A response object the handler of c can name: its own, or one another
\* handler has kept; the methods test only that its slot is active.
Reaches(c, d) == /\ d = c \/ "kept_response" \in Allowed
                 /\ conns[d].res # 0 /\ g_res_pool[conns[d].res].active

\* res.send and res.json
ResSend(c, d) ==
  LET r == conns[d].res IN
  /\ Scripted(c) /\ Reaches(c, d)
  /\ ~g_res_pool[r].sent
  /\ SendOn(r, "handler")
  /\ UNCHANGED <<g_servers, object, sockets, accepting, conns, calls, crashed>>

\* ConnFlush without the test of sent.
ConnFlushAlways(c) ==
  /\ ~crashed /\ conns[c].pc \in {"handler", "flush"} /\ calls[c] = NoCall
  /\ Go(c, "close") /\ SendOn(conns[c].res, "default")
  /\ UNCHANGED <<g_servers, object, sockets, accepting, calls, crashed>>

\* The handler returns or an error ends it; what it did not answer is
\* answered with the default 500.
ConnFlush(c) ==
  LET r == conns[c].res IN
  /\ ~crashed /\ conns[c].pc \in {"handler", "flush"} /\ calls[c] = NoCall
  /\ Go(c, "close")
  /\ IF g_res_pool[r].sent THEN UNCHANGED <<g_res_pool, answers>> ELSE SendOn(r, "default")
  /\ UNCHANGED <<g_servers, object, sockets, accepting, calls, crashed>>

\* res_free, at the end of an answered connection and after a failed handshake;
\* what the slot still holds is never read again and is left out.
ResFree(c) ==
  /\ ~crashed /\ conns[c].pc \in {"close", "abandon"}
  /\ g_res_pool' = [g_res_pool EXCEPT ![conns[c].res] = FreeResponse]
  /\ conns' = [conns EXCEPT ![c] = [Unborn EXCEPT
                  !.pc = IF conns[c].pc = "close" THEN "done" ELSE "dropped",
                  !.res = conns[c].res]]
  /\ UNCHANGED <<g_servers, object, sockets, accepting, answers, calls, crashed>>

ConnSteps(c) == \/ ConnStart(c) \/ ConnRequest(c) \/ ConnChild(c) \/ ConnCall(c)
                \/ ConnFlush(c) \/ ResFree(c)

-----------------------------------------------------------------------------
Next ==
  \/ \E a \in Creators \cup Closers : CallSteps(a)
  \/ \E a \in Creators, s \in Servers : CreateServer(a, s)
  \/ \E a \in Creators, s \in Servers, l \in Listens : Listen(a, s, l)
  \/ \E a \in Closers, s \in Servers : Close(a, s)
  \/ \E l \in Listens : AcceptSteps(l)
  \/ \E l \in Listens, c \in Conns : AcceptClient(l, c)
  \/ \E c \in Conns : ConnSteps(c)
  \/ \E c, d \in Conns : ResSend(c, d)

\* The operating system schedules every thread, accept returns by its
\* time-out, and handlers end.
Fairness ==
  /\ \A a \in Creators \cup Closers : WF_vars(CallSteps(a))
  /\ \A l \in Listens : WF_vars(AcceptSteps(l))
  /\ \A c \in Conns : WF_vars(ConnSteps(c))

Spec == Init /\ [][Next]_vars /\ Fairness
-----------------------------------------------------------------------------
(* Properties. *)

ServerSlot   == [in_use: BOOLEAN, running: BOOLEAN, listen_fd: 0 .. MaxListens,
                 accept_thread: 0 .. MaxListens, has_thread: BOOLEAN,
                 parent_vm: Actors \cup {NoVM},
                 callback_fn: Servers \cup {NoServer}, ssl_ctx: Servers \cup {NoServer}]
ResponseSlot == [active: BOOLEAN, conn: Actors, sent: BOOLEAN]
ServerObject == [state: {"none", "creating", "open", "refused", "closing", "closed"},
                 slot: 0 .. MaxServers]
Socket       == [open: BOOLEAN, owner: Servers \cup {NoServer}, fd: 0 .. MaxListens]
AcceptThread == [pc: {"none", "test", "load", "accept", "ended"}, slot: 0 .. MaxServers,
                 fd: 0 .. MaxListens]
ConnThread   == [pc: {"none", "start", "request", "child", "call", "handler", "flush", "close",
                      "abandon", "done", "dropped"},
                 slot: 0 .. MaxServers, res: 0 .. MaxResponses, from: Servers \cup {NoServer},
                 port: Servers \cup {NoServer}, tls: Servers \cup {NoServer}, cb: Servers \cup {NoServer}]
ServerCall   == [step: {"none", "fill_parent", "fill_callback", "run", "spawn", "started", "shut",
                        "join", "drop_tls", "drop_callback", "free"},
                 slot: 0 .. MaxServers, server: Servers \cup {NoServer}, listen: 0 .. MaxListens]

TypeOK ==
  /\ g_servers \in [Slots -> ServerSlot]
  /\ g_res_pool \in [Responses -> ResponseSlot]
  /\ object \in [Servers -> ServerObject]
  /\ sockets \in [Listens -> Socket]
  /\ accepting \in [Listens -> AcceptThread]
  /\ conns \in [Conns -> ConnThread]
  /\ answers \in [Conns -> Seq(Origins)]
  /\ calls \in [Actors -> ServerCall]
  /\ crashed \in BOOLEAN

\* From res_alloc to res_free.
Holding == {"request", "child", "call", "handler", "flush", "close", "abandon"}

\* A connection thread holds an active response slot that answers to its own
\* client, whatever slots other threads take and give back meanwhile.
Owns(c) == conns[c].pc \in Holding =>
             /\ conns[c].res \in Responses
             /\ g_res_pool[conns[c].res].active
             /\ g_res_pool[conns[c].res].conn = c
HoldersOwnTheirSlots == \A c \in Conns : Owns(c)

\* The slots that threads, calls and objects name are slots.
SlotsAreKnown ==
  /\ \A c \in Conns : conns[c].pc \in Holding \cup {"start"} => conns[c].slot \in Slots
  /\ \A l \in Listens : accepting[l].pc # "none" => accepting[l].slot \in Slots
  /\ \A s \in Servers : object[s].state \notin {"none", "refused"} => object[s].slot \in Slots
  /\ \A a \in Actors : calls[a].step # "none" =>
       /\ calls[a].slot \in Slots /\ calls[a].server \in Servers
       /\ object[calls[a].server].slot \in Slots
  /\ \A a \in Actors : calls[a].step \in {"run", "spawn", "started"} => calls[a].listen \in Listens

\* Before its handler a client has no answer; from then on it has one exactly
\* when its slot says sent; a connection that ran to its end had exactly one.
Matches(c) ==
  /\ conns[c].pc \in {"none", "start", "request", "child", "call", "abandon", "dropped"} =>
       answers[c] = <<>>
  /\ conns[c].pc \in {"request", "child", "call", "abandon"} => ~g_res_pool[conns[c].res].sent
  /\ conns[c].pc \in {"handler", "flush"} =>
       Len(answers[c]) = IF g_res_pool[conns[c].res].sent THEN 1 ELSE 0
  /\ conns[c].pc \in {"close", "done"} => Len(answers[c]) = 1
AnswersMatchSlots == \A c \in Conns : Matches(c)

(* Every client is answered at most once and by its own handler: the      *)
(* response slots of g_res_pool are never shared, although they are       *)
(* reused as soon as res_free marks them, and the 400 of an unreadable    *)
(* request, the handler's send and the default 500 exclude each other.    *)
ResponseOwnership == TypeOK /\ SlotsAreKnown /\ HoldersOwnTheirSlots /\ AnswersMatchSlots

\* The VM that created the server of the slot is gone.
Orphaned(i) == g_servers[i].parent_vm \in Conns /\ ~VMLives(g_servers[i].parent_vm)

(* As long as close has not been called on a server, the clients that its  *)
(* accept thread takes are served by its own callback over its own kind of *)
(* connection, and none meets a slot that was freed, refilled or only half *)
(* filled: the thread reads in_use, ssl_ctx, parent_vm and callback_fn     *)
(* without the mutex.  The process dies of a server that is being closed,  *)
(* or of one whose creator was a handler that has returned, and of no      *)
(* other.                                                                  *)
OpenServersServe ==
  /\ \A c \in Conns :
       LET s == conns[c].from IN
       (s # NoServer /\ object[s].state = "open") =>
         /\ conns[c].pc \in {"handler", "flush", "close"} /\ answers[c] # <<"bad_request">> =>
              conns[c].cb = s
         /\ conns[c].pc \in {"child", "call", "handler", "flush", "close"} =>
              conns[c].tls = IF s \in Https THEN s ELSE NoServer
  /\ crashed => \E c \in Conns : /\ conns[c].pc = "child"
                                 /\ \/ object[conns[c].from].state \in {"closing", "closed"}
                                    \/ Orphaned(conns[c].slot)

(* When close has returned, the server accepts no more clients: its accept *)
(* thread has ended and its socket is closed, so that the slot and the    *)
(* socket can be given to another server.                                 *)
CloseStopsAccepting ==
  \A l \in Listens : LET s == sockets[l].owner IN
    (s # NoServer /\ object[s].state = "closed") =>
      ~sockets[l].open /\ accepting[l].pc \in {"none", "ended"}

(* Every call on a server returns, close included, which waits for the    *)
(* accept thread, also when the handler of one of the server's own        *)
(* connections closes it; and every accepted client is answered or        *)
(* dropped; unless the process dies meanwhile of a parent_vm.  (An actor   *)
(* that is outside of calls again and again ends each of them.)            *)
CallsReturnAndClientsLeave ==
  /\ \A a \in Creators \cup Closers : []<>(calls[a] = NoCall \/ crashed)
  /\ \A c \in Conns : []<>(conns[c].pc \in {"none", "done", "dropped"} \/ crashed)

(* docs/standard-library.md:284 of close: it lets in-flight connections    *)
(* finish.  A connection whose request was read is answered by the         *)
(* callback of the server that accepted it, closed or not.                 *)
InFlightFinish ==
  \A c \in Conns : conns[c].pc = "handler" \/ (conns[c].pc = "flush" /\ conns[c].from # NoServer)
    => conns[c].cb = conns[c].from

(* docs/standard-library.md:281 of createServer: the handler is invoked    *)
(* for every connection.  A connection is given to the server whose port   *)
(* it was made to.                                                         *)
ClientsReachTheirServer ==
  \A c \in Conns : conns[c].from = conns[c].port

(* The same sentence: connections of a server that nobody closes are       *)
(* handled, whoever created it; the process does not die of them.          *)
OpenServersStayUp ==
  crashed => \E c \in Conns : /\ conns[c].pc = "child"
                              /\ object[conns[c].from].state \in {"closing", "closed"}
=============================================================================
