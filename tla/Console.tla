------------------------------- MODULE Console ------------------------------
(***************************************************************************)
(* The console: console_loop, which the main loop calls once per turn,     *)
(* accepts a connection and runs the lines that have arrived on each one.  *)
(* The byte streams are those of NetSocket.                                *)
(*                                                                         *)
(* A client types lines, a command followed by "\r\n".  The name of a      *)
(* command is one element of the stream.  exit destroys the socket; a      *)
(* command that fails is caught in execute and only prints; what a         *)
(* command does to the TV is Station's.  tv_manager holds the main thread  *)
(* until it is done, as CONSOLE_HOWTO.txt says, so that a command is one   *)
(* step of it.                                                             *)
(* Left out: registers and tables; the waits of tv_manager for more        *)
(* words; a print that waits for the mutex of a socket whose client does   *)
(* not read (CallReturns of NetSocket); and clients that leave without an  *)
(* exit, for is_alive stays true and such a console is never destroyed.    *)
(***************************************************************************)
EXTENDS Integers, Sequences, SequencesExt, MainLoop

CONSTANTS
  Consoles,  \* the connections of clients, each named as its console_t
  Commands   \* "exit", commands of the TV manager, "print" (any other command)

ASSUME CommandsAssumption ==
  /\ "exit" \in Commands /\ Commands \subseteq STRING
  /\ Commands \cap {"\r", "\n"} = {}

VARIABLES
  waiting,  \* connections the system holds for accept
  objects,  \* the console_t objects in the order of the type cache
  each,     \* console_loop: its copy of objects, its index
  alive,    \* consoles whose socket_id is the id of an open socket
  wire,     \* what a client has typed and the recv thread has not appended
  recv,     \* recv_buffer of the socket
  input,    \* working_input
  typed,    \* history: commands each client has typed
  ran,      \* history: commands each console has executed
  ahead     \* history: consoles that got more bytes behind a line end

server  == <<waiting, objects, each, alive>>
streams == <<wire, recv, input>>
hist    == <<typed, ran, ahead>>
consoleVars == <<server, streams, hist>>

Line(k) == <<k, "\r", "\n">>
Char    == Commands \cup {"\r", "\n"}

\* console_init has run; the clients are connecting, in any order.
ConsoleInit(clients) ==
  /\ waiting \in SetToSeqs(clients)
  /\ objects = <<>> /\ each = [list |-> <<>>, at |-> 1] /\ alive = {}
  /\ wire = [c \in Consoles |-> <<>>] /\ recv = [c \in Consoles |-> <<>>]
  /\ input = [c \in Consoles |-> <<>>]
  /\ typed = [c \in Consoles |-> <<>>] /\ ran = [c \in Consoles |-> <<>>]
  /\ ahead = {}

-----------------------------------------------------------------------------
(* console_accept_connections: at most one connection in a turn.           *)

\* The loop over the consoles works on a copy of the type cache.
StartLoop ==
  /\ each' = [list |-> objects', at |-> 1]
  /\ Goto("each")

AcceptNone ==
  /\ At("accept") /\ waiting = <<>>
  /\ UNCHANGED <<waiting, objects, alive, streams, hist>>
  /\ StartLoop

Accept ==
  /\ At("accept") /\ waiting # <<>>
  /\ waiting' = Tail(waiting)
  /\ objects' = Append(objects, Head(waiting))
  /\ alive' = alive \cup {Head(waiting)}
  /\ StartLoop
  /\ UNCHANGED <<streams, hist>>

\* set_tcp_socket cannot resolve the address and throws: the console exists,
\* without a socket, and the turn of the main loop is over.
AcceptThrows ==
  /\ At("accept") /\ waiting # <<>>
  /\ waiting' = Tail(waiting)
  /\ objects' = Append(objects, Head(waiting))
  /\ NextTurn
  /\ UNCHANGED <<each, alive, streams, hist>>

-----------------------------------------------------------------------------
(* console_loop and console_t::run.                                        *)

Looping == At("each") /\ each.at <= Len(each.list)
Current == each.list[each.at]
Advance == each' = [each EXCEPT !.at = @ + 1]

\* Mutant: console_is_alive is not asked; run throws for a missing socket.
ReapThrows ==
  /\ Looping /\ Current \notin alive
  /\ NextTurn
  /\ UNCHANGED consoleVars

\* console_is_alive is false: the console is destroyed.
Reap ==
  /\ Looping /\ Current \notin alive
  /\ objects' = RemoveFirst(objects, Current)
  /\ Advance
  /\ UNCHANGED <<pc, waiting, alive, streams, hist>>

Newline(s) == Contains(s, "\n")
LineEnd(s) == CHOOSE i \in 1..Len(s) : s[i] = "\n" /\ "\n" \notin ToSet(SubSeq(s, 1, i - 1))

\* Mutant: working_input starts anew with every batch.
TakeInputAnew ==
  /\ Looping /\ Current \in alive
  /\ input' = [input EXCEPT ![Current] = recv[Current]]
  /\ recv' = [recv EXCEPT ![Current] = <<>>]
  /\ ahead' = IF Newline(input'[Current]) /\ LineEnd(input'[Current]) < Len(input'[Current])
              THEN ahead \cup {Current} ELSE ahead
  /\ Goto("lines")
  /\ UNCHANGED <<waiting, objects, each, alive, wire, typed, ran>>

\* run takes recv_buffer; LineEnd is the position std::find returns.
TakeInput ==
  /\ Looping /\ Current \in alive
  /\ input' = [input EXCEPT ![Current] = @ \o recv[Current]]
  /\ recv' = [recv EXCEPT ![Current] = <<>>]
  /\ ahead' = IF Newline(input'[Current]) /\ LineEnd(input'[Current]) < Len(input'[Current])
              THEN ahead \cup {Current} ELSE ahead
  /\ Goto("lines")
  /\ UNCHANGED <<waiting, objects, each, alive, wire, typed, ran>>

\* The words before the line end; the last word counts only before a "\r".
Word(line) == IF Contains(line, "\r")
              THEN SubSeq(line, 1, SelectInSeq(line, LAMBDA x : x = "\r") - 1)
              ELSE <<>>

\* Mutant: the rest of the line end is never dropped.
LeftAll(s) == SubSeq(s, LineEnd(s), Len(s))

\* The line is erased up to its "\n", and that goes with whatever follows it
\* if they are two bytes at most.
Left(s) ==
  LET rest == SubSeq(s, LineEnd(s), Len(s))
  IN  IF Len(rest) <= 2 THEN <<>> ELSE rest

HasLine == At("lines") /\ Newline(input[Current])
Command == Word(SubSeq(input[Current], 1, LineEnd(input[Current]) - 1))

\* execute: a command that is not known, and a line without words, only print.
\* An exception inside a command is caught, and only prints.
Execute ==
  /\ HasLine /\ Command # <<"exit">>
  /\ input' = [input EXCEPT ![Current] = Left(@)]
  /\ ran' = IF Command # <<>> /\ Command[1] \in Commands
            THEN [ran EXCEPT ![Current] = Append(@, Command[1])] ELSE ran
  /\ UNCHANGED <<pc, server, wire, recv, typed, ahead>>

\* Mutant: the exception ends in execute, and run goes on without a socket.
ExecuteExitStays ==
  /\ HasLine /\ Command = <<"exit">>
  /\ input' = [input EXCEPT ![Current] = Left(@)]
  /\ ran' = [ran EXCEPT ![Current] = Append(@, "exit")]
  /\ alive' = alive \ {Current}
  /\ UNCHANGED <<pc, waiting, objects, each, wire, recv, typed, ahead>>

\* exit destroys the socket.  The table that execute prints next has no socket
\* to go to; the handler of that exception prints as well, and its exception
\* leaves console_loop.
ExecuteExit ==
  /\ HasLine /\ Command = <<"exit">>
  /\ input' = [input EXCEPT ![Current] = Left(@)]
  /\ ran' = [ran EXCEPT ![Current] = Append(@, "exit")]
  /\ alive' = alive \ {Current}
  /\ NextTurn
  /\ UNCHANGED <<waiting, objects, each, wire, recv, typed, ahead>>

\* There is no line left.
RunEnd ==
  /\ At("lines") /\ ~Newline(input[Current])
  /\ Advance
  /\ Goto("each")
  /\ UNCHANGED <<waiting, objects, alive, streams, hist>>

LoopEnd ==
  /\ At("each") /\ each.at > Len(each.list)
  /\ Goto("tier")
  /\ UNCHANGED consoleVars

\* Execute apart, which a command of the TV manager goes on from.
ConsoleMain == \/ Accept \/ AcceptThrows \/ AcceptNone
               \/ Reap \/ TakeInput \/ ExecuteExit \/ RunEnd \/ LoopEnd

-----------------------------------------------------------------------------
(* The clients, and the recv threads of their sockets.                     *)

Typed == FoldFunction(LAMBDA s, n : Len(s) + n, 0, typed)

Type(c, k) ==
  /\ wire' = [wire EXCEPT ![c] = @ \o Line(k)]
  /\ typed' = [typed EXCEPT ![c] = Append(@, k)]
  /\ UNCHANGED <<pc, server, recv, input, ran, ahead>>

RecvThread(c) ==
  /\ c \in alive
  /\ \E n \in 1..Len(wire[c]) :
       /\ recv' = [recv EXCEPT ![c] = @ \o SubSeq(wire[c], 1, n)]
       /\ wire' = [wire EXCEPT ![c] = SubSeq(@, n + 1, Len(@))]
  /\ UNCHANGED <<pc, server, input, hist>>

-----------------------------------------------------------------------------
(* Properties.                                                             *)

\* As long as a client waits for a line to be run before it goes on typing, a
\* console has run the commands that were typed first, in order, and the bytes
\* on their way to it are exactly the lines of the others, wherever the stream
\* is cut (console_t::run, net_socket_t::recv_all_buffer).
ToRun(c) == SubSeq(typed[c], Len(ran[c]) + 1, Len(typed[c]))
CommandsKept ==
  \A c \in Consoles \ ahead :
    /\ typed[c] = ran[c] \o ToRun(c)
    /\ input[c] \o recv[c] \o wire[c] = FlattenSeq([i \in DOMAIN ToRun(c) |-> Line(ToRun(c)[i])])

Orderly == [](ahead = {})

=============================================================================
