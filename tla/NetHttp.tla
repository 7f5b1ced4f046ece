------------------------------- MODULE NetHttp ------------------------------
(***************************************************************************)
(* The HTTP server: net_http_loop, which the main loop calls once per      *)
(* turn, over the sockets of its connections.  A turn accepts what waits,  *)
(* binds each connection with a complete request to a file driver state,   *)
(* and then serves driver states: the driver adds a chunk to its response, *)
(* the unsent chunks go into the socket, and a connection whose response   *)
(* has left is closed.                                                     *)
(*                                                                         *)
(* A socket is reduced to what NetSocket shows of it.  There is one server *)
(* (net_http_init), so the outer index of net_http_loop is always 0.       *)
(***************************************************************************)
EXTENDS Integers, Sequences, SequencesExt

CONSTANTS
  Conns,  \* the connections of clients
  Kinds,  \* what the clients ask for, see Request
  Size    \* bytes of a response

\* The file driver that the URL selects, "malformed" without a GET line.
Request == {"page", "atom", "download", "malformed"}

ASSUME KindsAssumption == Kinds \subseteq Request
ASSUME SizeAssumption  == Size \in Nat \ {0}

VARIABLES
  pc,         \* the part of net_http_loop the main thread is in
  listening,  \* whether the listening socket is open
  backlog,    \* connections the system holds for accept
  nonBound,   \* non_bound_sockets: connection, and whether its payload has a
              \* chunk, that is whether its header has been read
  scan,       \* push_conn_to_file: its copy of non_bound_sockets, its index
  bound,      \* bound_file_driver_states, a state is named by its connection
  serving,    \* the copy of bound_file_driver_states, iterations left
  response,   \* chunks of response_payload: "none", "unsent", "sent"
  request,    \* what the client asks for
  peer,       \* "out" (not connected yet), "open", "shut", "gone"
  recv,       \* recv_buffer: "empty", "part" or "whole" of the only
              \* request, "read" when the server has taken it
  running,    \* thread_running of the socket
  sender,     \* send thread: "none", "idle", "sending", "ended", "broken"
  buf,        \* bytes in send_buffer
  taken,      \* bytes the system has accepted for the client
  closed      \* connections that remove_stale has closed

server  == <<listening, backlog, nonBound, bound, response, closed>>
main    == <<pc, scan, serving>>
client  == <<request, peer>>
socket  == <<recv, running, sender, buf, taken>>
vars    == <<server, main, client, socket>>

\* thread_mutex of a connection's socket is taken: by a send that is going on,
\* or for ever after a short send.
Locked(c) == sender[c] \in {"sending", "broken"}

Entry(c) == [conn |-> c, header |-> FALSE]

\* net_http_init has run; opening the port may have failed.
Init ==
  /\ pc = "accept" /\ listening \in BOOLEAN
  /\ backlog = <<>> /\ nonBound = <<>> /\ bound = <<>>
  /\ scan = [copy |-> <<>>, at |-> 1] /\ serving = [list |-> <<>>, left |-> 0]
  /\ response = [c \in Conns |-> "none"] /\ closed = {}
  /\ request \in [Conns -> Kinds] /\ peer = [c \in Conns |-> "out"]
  /\ recv = [c \in Conns |-> "empty"]
  /\ running = [c \in Conns |-> FALSE] /\ sender = [c \in Conns |-> "none"]
  /\ buf = [c \in Conns |-> 0] /\ taken = [c \in Conns |-> 0]

-----------------------------------------------------------------------------
(* net_http_accept_conn.                                                   *)

\* Without a socket only connect is tried again.
Listen ==
  /\ pc = "accept" /\ ~listening
  /\ listening' \in BOOLEAN
  /\ scan' = [copy |-> nonBound, at |-> 1]
  /\ pc' = "push"
  /\ UNCHANGED <<backlog, nonBound, bound, response, closed, serving, client,
                 socket>>

\* The first n of the backlog get a net_socket_t with its threads.
Welcome(n) ==
  LET new == ToSet(SubSeq(backlog, 1, n)) IN
  /\ nonBound' = nonBound \o [i \in 1..n |-> Entry(backlog[i])]
  /\ running' = [c \in Conns |-> running[c] \/ c \in new]
  /\ sender'  = [c \in Conns |-> IF c \in new THEN "idle" ELSE sender[c]]

AcceptConn ==
  /\ pc = "accept" /\ listening
  /\ Welcome(Len(backlog))
  /\ backlog' = <<>>
  /\ scan' = [copy |-> nonBound', at |-> 1]
  /\ pc' = "push"
  /\ UNCHANGED <<listening, bound, response, closed, serving, client, recv,
                 buf, taken>>

\* set_tcp_socket cannot resolve an address: the exception ends net_http_loop,
\* and the connection is in no list.
AcceptThrows ==
  /\ pc = "accept" /\ listening
  /\ \E n \in 0..(Len(backlog) - 1) : /\ Welcome(n)
                                      /\ backlog' = SubSeq(backlog, n + 2, Len(backlog))
  /\ UNCHANGED <<listening, bound, response, closed, main, client, recv, buf,
                 taken>>

-----------------------------------------------------------------------------
(* net_http_push_conn_to_file: one step per connection of the copy.        *)

Current == scan.copy[scan.at]

\* http::socket::payload::read takes a complete header out of recv_buffer.
HasHeader == Current.header \/ recv[Current.conn] = "whole"

\* A chunk is only added by the first complete header.
Read ==
  recv' = IF recv[Current.conn] = "whole"
          THEN [recv EXCEPT ![Current.conn] = "read"] ELSE recv

\* Mutant: the catch block breaks instead of going on with the next connection.
PushLaterBreaks ==
  /\ pc = "push" /\ scan.at <= Len(scan.copy)
  /\ HasHeader => request[Current.conn] \in {"download", "malformed"}
  /\ Read
  /\ scan' = [copy |-> [scan.copy EXCEPT ![scan.at].header = HasHeader],
              at   |-> (IF HasHeader THEN Len(scan.copy) ELSE scan.at) + 1]
  /\ UNCHANGED <<server, pc, serving, client, running, sender, buf, taken>>

\* Mutant: read waits until the header is complete.
PushLaterWaits ==
  /\ pc = "push" /\ scan.at <= Len(scan.copy)
  /\ HasHeader /\ request[Current.conn] \in {"download", "malformed"}
  /\ Read
  /\ scan' = [copy |-> [scan.copy EXCEPT ![scan.at].header = TRUE],
              at   |-> scan.at + 1]
  /\ UNCHANGED <<server, pc, serving, client, running, sender, buf, taken>>

\* Nothing to bind yet, or an exception: there is no GET line, or the init of
\* the download driver fails.  The header stays with the connection.
PushLater ==
  /\ pc = "push" /\ scan.at <= Len(scan.copy)
  /\ HasHeader => request[Current.conn] \in {"download", "malformed"}
  /\ Read
  /\ scan' = [copy |-> [scan.copy EXCEPT ![scan.at].header = HasHeader],
              at   |-> scan.at + 1]
  /\ UNCHANGED <<server, pc, serving, client, running, sender, buf, taken>>

\* A driver state; the erase and the increment skip the next connection.
PushBind ==
  /\ pc = "push" /\ scan.at <= Len(scan.copy)
  /\ HasHeader /\ request[Current.conn] \in {"page", "atom"}
  /\ Read
  /\ bound' = Append(bound, Current.conn)
  /\ scan' = [copy |-> RemoveAt(scan.copy, scan.at), at |-> scan.at + 1]
  /\ UNCHANGED <<listening, backlog, nonBound, response, closed, pc, serving,
                 client, running, sender, buf, taken>>

\* Mutant: the copy is not written back.
PushEndForgets ==
  /\ pc = "push" /\ scan.at > Len(scan.copy)
  /\ scan' = [copy |-> <<>>, at |-> 1]
  /\ serving' = [list |-> bound, left |-> Len(bound)]
  /\ pc' = "serve"
  /\ UNCHANGED <<server, client, socket>>

\* set_non_bound_sockets; then net_http_loop copies the driver states.
PushEnd ==
  /\ pc = "push" /\ scan.at > Len(scan.copy)
  /\ nonBound' = scan.copy
  /\ scan' = [copy |-> <<>>, at |-> 1]
  /\ serving' = [list |-> bound, left |-> Len(bound)]
  /\ pc' = "serve"
  /\ UNCHANGED <<listening, backlog, bound, response, closed, client, socket>>

-----------------------------------------------------------------------------
(* The inner loop of net_http_loop.                                        *)

\* It reads bound_file_driver_states[i] with the index of the server.
Served == serving.list[1]

ServeEnd ==
  /\ pc = "serve" /\ serving.left = 0
  /\ pc' = "accept"
  /\ UNCHANGED <<server, scan, serving, client, socket>>

\* The state has been closed in an earlier iteration: CONTINUE_IF_NULL.
ServeNull ==
  /\ pc = "serve" /\ serving.left > 0 /\ ~Contains(bound, Served)
  /\ serving' = [serving EXCEPT !.left = @ - 1]
  /\ UNCHANGED <<server, pc, scan, client, socket>>

\* The atom driver throws for every request, because its init does not keep
\* the request; packetize_file_to_conn finds no chunk and returns.
PacketizeNothing ==
  /\ pc = "serve" /\ serving.left > 0 /\ Contains(bound, Served)
  /\ request[Served] = "atom"
  /\ pc' = "stale"
  /\ UNCHANGED <<server, scan, serving, client, socket>>

\* The frontpage driver adds its only chunk once; pull takes it and sets its
\* sent flag; send takes the mutex, also to append nothing.
Packetize ==
  /\ pc = "serve" /\ serving.left > 0 /\ Contains(bound, Served)
  /\ request[Served] = "page" /\ ~Locked(Served)
  /\ response' = [response EXCEPT ![Served] = "sent"]
  /\ buf' = [buf EXCEPT ![Served] = IF response[Served] = "sent" THEN @ ELSE @ + Size]
  /\ pc' = "stale"
  /\ UNCHANGED <<listening, backlog, nonBound, bound, closed, scan, serving,
                 client, recv, running, sender, taken>>

\* Mutant: a response counts as finished once its chunks are in send_buffer.
FinishedEarly == response[Served] = "sent"

Finished == response[Served] = "sent" /\ buf[Served] = 0

\* Mutant: the socket is closed, the driver state stays in the list.
RemoveStaleKeeps ==
  /\ pc = "stale"
  /\ serving' = [serving EXCEPT !.left = @ - 1]
  /\ pc' = "serve"
  /\ IF Finished
     THEN /\ closed'  = closed \cup {Served}
          /\ running' = [running EXCEPT ![Served] = FALSE]
          /\ sender'  = [sender EXCEPT ![Served] = "ended"]
     ELSE UNCHANGED <<closed, running, sender>>
  /\ UNCHANGED <<listening, backlog, nonBound, bound, response, scan, client,
                 recv, buf, taken>>

\* remove_stale.  disconnect ends both threads (module NetSocket); then the
\* socket and the driver state are destroyed.
RemoveStale ==
  /\ pc = "stale"
  /\ serving' = [serving EXCEPT !.left = @ - 1]
  /\ pc' = "serve"
  /\ IF Finished
     THEN /\ \E i \in DOMAIN bound :
               bound[i] = Served /\ bound' = RemoveAt(bound, i)
          /\ closed'  = closed \cup {Served}
          /\ running' = [running EXCEPT ![Served] = FALSE]
          /\ sender'  = [sender EXCEPT ![Served] = "ended"]
          /\ buf'     = [buf EXCEPT ![Served] = 0]
     ELSE UNCHANGED <<bound, closed, running, sender, buf>>
  /\ UNCHANGED <<listening, backlog, nonBound, response, scan, client, recv,
                 taken>>

Main ==
  \/ Listen \/ AcceptConn \/ AcceptThrows
  \/ PushLater \/ PushBind \/ PushEnd
  \/ ServeEnd \/ ServeNull \/ PacketizeNothing \/ Packetize \/ RemoveStale

-----------------------------------------------------------------------------
(* The threads of a socket, as in NetSocket.                               *)

\* The recv thread appends a part, or the rest, of the request.
Arrive(c) ==
  /\ running[c] /\ ~Locked(c) /\ peer[c] = "open"
  /\ \/ recv[c] = "empty" /\ recv' = [recv EXCEPT ![c] = "part"]
     \/ recv[c] = "part"  /\ recv' = [recv EXCEPT ![c] = "whole"]
  /\ UNCHANGED <<server, main, client, running, sender, buf, taken>>

\* It finds the end of the stream, or an error.
RecvEnd(c) ==
  /\ running[c] /\ ~Locked(c) /\ peer[c] \in {"shut", "gone"}
  /\ running' = [running EXCEPT ![c] = FALSE]
  /\ UNCHANGED <<server, main, client, recv, sender, buf, taken>>

\* The send thread has found *send_running false.
SendEnd(c) ==
  /\ sender[c] = "idle" /\ ~running[c]
  /\ sender' = [sender EXCEPT ![c] = "ended"]
  /\ UNCHANGED <<server, main, client, recv, running, buf, taken>>

SendStart(c) ==
  /\ sender[c] = "idle" /\ buf[c] > 0
  /\ sender' = [sender EXCEPT ![c] = "sending"]
  /\ UNCHANGED <<server, main, client, recv, running, buf, taken>>

SendWhole(c) ==
  /\ sender[c] = "sending"
  /\ taken' = [taken EXCEPT ![c] = @ + buf[c]]
  /\ buf' = [buf EXCEPT ![c] = 0]
  /\ sender' = [sender EXCEPT ![c] = "idle"]
  /\ UNCHANGED <<server, main, client, recv, running>>

\* A short send: send_buffer keeps everything, the mutex stays locked.
SendShort(c) ==
  /\ sender[c] = "sending" /\ peer[c] = "gone"
  /\ \E n \in 0..(buf[c] - 1) : taken' = [taken EXCEPT ![c] = @ + n]
  /\ running' = [running EXCEPT ![c] = FALSE]
  /\ sender' = [sender EXCEPT ![c] = "broken"]
  /\ UNCHANGED <<server, main, client, recv, buf>>

\* The client.
Connect(c) ==
  /\ peer[c] = "out" /\ listening
  /\ peer' = [peer EXCEPT ![c] = "open"]
  /\ backlog' = Append(backlog, c)
  /\ UNCHANGED <<listening, nonBound, bound, response, closed, main, request,
                 socket>>

PeerEnds(c) ==
  /\ \/ peer[c] = "open" /\ peer' = [peer EXCEPT ![c] = "shut"]
     \/ peer[c] \in {"open", "shut"} /\ peer' = [peer EXCEPT ![c] = "gone"]
  /\ UNCHANGED <<server, main, request, socket>>

Threads(c) == RecvEnd(c) \/ SendEnd(c) \/ SendStart(c)

Next ==
  \/ Main
  \/ \E c \in Conns : \/ Threads(c) \/ SendWhole(c) \/ SendShort(c)
                      \/ Arrive(c) \/ Connect(c) \/ PeerEnds(c)

Spec == Init /\ [][Next]_vars

\* The main loop turns and the threads are scheduled.  A send ends only if the
\* client reads or leaves: nothing is assumed of it.
Fairness ==
  /\ WF_vars(Main)
  /\ \A c \in Conns : WF_vars(SendEnd(c)) /\ WF_vars(SendStart(c))

FairSpec == Spec /\ Fairness

-----------------------------------------------------------------------------
(* Properties.                                                             *)

\* However often a driver state is served, its response is passed to the
\* socket once; and a connection is closed only when all of it has left.
OneAnswer ==
  \A c \in Conns :
    /\ sender[c] # "broken" => taken[c] + buf[c] \in {0, Size}
    /\ c \in closed => taken[c] = Size

\* The connections of a list, such as non_bound_sockets.
ConnsOf(list) == [i \in DOMAIN list |-> list[i].conn]

\* No connection is in a list twice, or in two of the lists.
Apart(waiting, unbound, served, done) ==
  /\ IsInjective(waiting) /\ IsInjective(unbound) /\ IsInjective(served)
  /\ ToSet(waiting) \cap (ToSet(unbound) \cup ToSet(served) \cup done) = {}
  /\ ToSet(unbound) \cap (ToSet(served) \cup done) = {}
  /\ ToSet(served) \cap done = {}

\* Between two turns a connection is in one list only, and in it once,
\* although push_conn_to_file edits a copy of the list.
InOneList ==
  pc = "accept" => Apart(backlog, ConnsOf(nonBound), bound, closed)

\* A turn of the server ends, so the rest of the main loop gets its turn,
\* unless the served client stops reading or breaks the connection in the
\* middle of a send.
LoopTurns ==
  []<>(pc = "accept") \/ <>[](pc = "serve" /\ serving.left > 0 /\ Locked(Served))

\* A complete request for a page or a feed is bound to a driver, whatever
\* malformed, incomplete or failing requests are in the list.
EveryRequestBound ==
  \A c \in Conns :
    []( recv[c] = "whole" /\ request[c] \in {"page", "atom"}
          => \/ <>(Contains(bound, c) \/ c \in closed)
             \/ <>[](pc = "serve") )

\* The driver state at the head of the list cannot be finished: its driver
\* never answers, its client has left with bytes in send_buffer, or does not
\* read.
HeadBlocked ==
  /\ bound # <<>>
  /\ Head(bound) \notin closed
  /\ request[Head(bound)] = "atom" \/ sender[Head(bound)] # "idle"

\* A bound request for a page is answered, or its client leaves, unless the
\* head of the list blocks the list for ever.
Answered ==
  \A c \in Conns :
    []( Contains(bound, c) /\ request[c] = "page"
          => <>(taken[c] = Size \/ peer[c] # "open") \/ <>[]HeadBlocked )

\* net_http.h:40-42: what a file driver adds to its response is sent down the
\* TCP socket.  Every driver that answers is asked, as long as the loop turns.
EveryDriverServed ==
  \A c \in Conns :
    []( Contains(bound, c) /\ request[c] = "page"
          => \/ <>(response[c] = "sent" \/ peer[c] # "open")
             \/ <>[](pc = "serve") )

=============================================================================
