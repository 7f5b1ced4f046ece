------------------------------- MODULE MCNode -------------------------------
(* Instances of Node for TLC.                                              *)
EXTENDS Node

CONSTANTS c1, c2, p1, p2, m1, m2

Quiet == [clients |-> {}, words |-> {}, lines |-> 0, peers |-> {}, calls |-> 0,
          mail |-> 0, meters |-> {}, samples |-> 0, tear |-> FALSE, time |-> 1]

\* The console with one and two clients; a peer of the settings and one that
\* was learned; a recorder and viewers; two meters; one that goes on; lines that
\* arrive in parts; a clip that plays, an exit and a peer.
Scenes ==
  {[Quiet EXCEPT !.clients = {c1}, !.words = {"print", "exit"}, !.lines = 3],
   [Quiet EXCEPT !.clients = {c1, c2}, !.words = {"print", "exit"}, !.lines = 2],
   [Quiet EXCEPT !.peers = {p1}, !.calls = 1, !.mail = 2],
   [Quiet EXCEPT !.peers = {p1, p2}, !.calls = 1, !.mail = 1],
   [Quiet EXCEPT !.clients = {c1}, !.words = {"record", "view"}, !.lines = 2,
                 !.meters = {m1}, !.samples = 2, !.time = 2],
   [Quiet EXCEPT !.clients = {c1}, !.words = {"record"}, !.lines = 1,
                 !.meters = {m1, m2}, !.samples = 2, !.time = 2],
   [Quiet EXCEPT !.clients = {c1}, !.words = {"record"}, !.lines = 1,
                 !.meters = {m1}, !.samples = 3, !.time = 3],
   [Quiet EXCEPT !.clients = {c1}, !.words = {"record"}, !.lines = 1,
                 !.meters = {m1}, !.samples = 2, !.tear = TRUE],
   [Quiet EXCEPT !.clients = {c1}, !.words = {"exit", "play"}, !.lines = 1,
                 !.peers = {p1}]}

=============================================================================
