-------------------------------- MODULE Node --------------------------------
(***************************************************************************)
(* A node: the turns of its main thread over the TV, the peers, the console *)
(* and the tiers (main.cpp), which meet in what throws and in what a        *)
(* command does, with its threads and everyone outside: clients that type,  *)
(* recv threads, peers that call and send, meters, time, the audio device.  *)
(***************************************************************************)
EXTENDS Console, TierNetwork, Station

CONSTANT Budgets    \* bounds, of which a behaviour has one: clients; words
                    \* they type, in lines; peers; calls of others, datagrams
                    \* in mail; meters, samples, whether they tear; how far
                    \* time goes

ASSUME BudgetsAssumption ==
  \A b \in Budgets : /\ b.clients \subseteq Consoles /\ IsFiniteSet(b.clients)
                     /\ b.words \subseteq Commands /\ b.peers \subseteq Peers
                     /\ b.meters \subseteq Meters

VARIABLE budget

nodeVars == <<pc, consoleVars, networkVars, stationVars, budget>>

NodeInit ==
  /\ budget \in Budgets
  /\ ConsoleInit(budget.clients) /\ NetworkInit /\ StationInit
  /\ ToSet(peers) \ {Self} \subseteq budget.peers
  /\ located \subseteq Bootstrap \cup budget.peers
  /\ At("tv")

-----------------------------------------------------------------------------
(* The main thread.                                                        *)

All   == [m \in Meters |-> Len(flight[m])]
Parts == IF budget.tear /\ ~torn
         THEN {t \in [Meters -> UNION {0..All[m] : m \in Meters}] :
                 \A m \in Meters : t[m] <= All[m]}
         ELSE {All}

Record  == \E taken \in Parts : Inward(taken)
TvTurn  == (TvMain \/ Record) /\ UNCHANGED <<consoleVars, networkVars, budget>>
NetTurn == PeersMain /\ UNCHANGED <<consoleVars, tierAt, stationVars, budget>>
ConsoleTurn == ConsoleMain /\ UNCHANGED <<networkVars, stationVars, budget>>
CommandTurn == Execute /\ TvCommand(Command) /\ UNCHANGED <<networkVars, budget>>
TierTurn    == TierMain /\ UNCHANGED <<consoleVars, stationVars, budget>>

Main == TvTurn \/ NetTurn \/ ConsoleTurn \/ CommandTurn \/ TierTurn

-----------------------------------------------------------------------------
(* The others.                                                             *)

TypeLine(c) ==
  /\ Typed < budget.lines
  /\ \E k \in budget.words : Type(c, k)
  /\ UNCHANGED <<networkVars, stationVars, budget>>
Receive(c) == RecvThread(c) /\ UNCHANGED <<networkVars, stationVars, budget>>

Calls == callers + Cardinality({i \in DOMAIN devices : devices[i].address = NoPeer})
PeerCalls ==
  /\ Calls < budget.calls
  /\ Call
  /\ UNCHANGED <<consoleVars, tierAt, stationVars, budget>>
Mails == FoldSeq(LAMBDA d, n : Len(d.mail) + n, 0, devices)
PeerSends ==
  /\ Mails < budget.mail
  /\ \E i \in DOMAIN devices, kind \in Kinds : Mail(i, kind)
  /\ UNCHANGED <<consoleVars, tierAt, stationVars, budget>>
PeerLearned ==
  /\ \E p \in budget.peers : Learn(p)
  /\ UNCHANGED <<consoleVars, tierAt, stationVars, budget>>

\* The value of a sample is its number.
Sent == Len(entered) + FoldFunction(LAMBDA s, n : (Len(s) \div LineLength) + n, 0, flight)
MeterSends(m) ==
  /\ m \in budget.meters /\ ~torn /\ Sent < budget.samples
  /\ Measure(m, [value |-> Sent + 1, time |-> now])
  /\ UNCHANGED <<pc, consoleVars, networkVars, tvVars, budget>>

\* Beyond the bound, time goes on as long as a clip plays.
TimePasses ==
  /\ now < budget.time \/ Playing
  /\ Tick
  /\ UNCHANGED <<pc, consoleVars, networkVars, budget>>
DeviceCallsBack == Callback /\ UNCHANGED <<consoleVars, networkVars, budget>>

Others == \/ \E c \in Consoles : TypeLine(c) \/ Receive(c)
          \/ PeerCalls \/ PeerSends \/ PeerLearned
          \/ \E m \in Meters : MeterSends(m)
          \/ TimePasses \/ DeviceCallsBack

NodeNext == Main \/ Others

Spec == NodeInit /\ [][NodeNext]_nodeVars

\* The main loop turns, the threads are scheduled, and time passes.  The TV can
\* go on wherever it is, so that its fairness needs no ENABLED, which is costly.
Fairness ==
  /\ []<>(pc # "tv") \/ []<><<TvTurn>>_nodeVars
  /\ WF_nodeVars(NetTurn) /\ WF_nodeVars(ConsoleTurn \/ CommandTurn)
  /\ WF_nodeVars(TierTurn) /\ WF_nodeVars(TimePasses)
  /\ \A c \in Consoles : WF_nodeVars(Receive(c))

FairSpec == Spec /\ Fairness

-----------------------------------------------------------------------------
(* Properties.                                                             *)

\* The variables hold data of their kind; a line is only run on a live console,
\* and what the loops are at is there.
TypeOK ==
  /\ pc \in Places
  /\ {waiting, objects, each.list} \subseteq Seq(Consoles)
  /\ each.at \in 1..(Len(each.list) + 1) /\ alive \subseteq ToSet(objects)
  /\ {wire, recv, input} \subseteq [Consoles -> Seq(Char)]
  /\ {typed, ran} \subseteq [Consoles -> Seq(Commands)]
  /\ ahead \subseteq Consoles
  /\ pc = "lines" => Current \in alive
  /\ ToSet(peers) \subseteq Peers \cup {Self} /\ IsInjective(peers)
  /\ located \subseteq Peers /\ listed \in Nat /\ callers \in Nat
  /\ \A i \in DOMAIN devices :
       /\ devices[i].mail \in Seq(Kinds)
       /\ devices[i].cleared \in 0..devices[i].arrived
       /\ devices[i].arrived \in 0..Len(devices[i].mail)
       /\ Len(devices[i].handled) = Len(devices[i].mail)
  /\ \A i \in DOMAIN states :
       /\ states[i].device \in {NoDevice} \cup DOMAIN devices
       /\ states[i].stored \in 0..2 /\ {states[i].due, states[i].owes} \subseteq BOOLEAN
  /\ tierAt \in 1..(Len(states) + 1) /\ windowAt \in 1..(Len(windows) + 1)
  /\ flight \in [Meters -> Seq(Int)] /\ buffer \in Seq(Int) /\ torn \in BOOLEAN
  /\ \A i \in DOMAIN windows : windows[i].frame \in AllFrames
  /\ DOMAIN spans = AllFrames /\ DOMAIN content = AllFrames /\ pushedTo \subseteq AllFrames
  /\ heard \in Seq(1..(Clip * Span)) /\ starved \in BOOLEAN

\* CommandsKept, PeersBoundOnce and DatagramsOnce are those of the parts.
RanOnce(k) ==
  \A c, d \in Consoles : \A i \in DOMAIN ran[c], j \in DOMAIN ran[d] :
    ran[c][i] = k /\ ran[d][j] = k => c = d /\ i = j

\* Every sample that meters sent is in a frame, the sink or its buffer, in
\* order, if the console ran record once: a second recorder takes lines away
\* from the first (SamplesKept of Station).
RecordedKept == RanOnce("record") => SamplesKept

\* A clip is heard in order and no sample twice, if the console ran play once:
\* what is left of the first time is heard with the second (InOrder of Station).
HeardInOrder == RanOnce("play") => InOrder

\* As long as no client types ahead, the main loop comes round to the tiers
\* again and again if and only if no device is broken, whatever else throws: a
\* command, a connection that is not accepted, a frame that cannot be decoded,
\* a tier state without a device.  One device that was not connected stops the
\* node for good (main.cpp, net_interface_loop, net_proto_loop_bind_peers).
NodeTurns ==
  Orderly => /\ []~SomeBroken => []<>(pc = "tier")
             /\ <>SomeBroken => <>[](pc # "tier")

\* Then no command on an open console waits for good, also if other clients
\* exit, cannot be accepted, or type commands that fail: since clients stop
\* typing, all have been run again and again (console_loop).
EveryCommandRun ==
  Orderly /\ []~SomeBroken =>
    []<>(\A c \in alive : Len(ran[c]) = Len(typed[c]))

\* And no datagram, unless it or one before it cannot be handled, or a state
\* without a device comes before its own in the loop over the tiers
\* (net_interface_ip_recv_all, network_to_tier, id_tier_loop).
Handled(i, n)  == devices[i].handled[n] > 0
CannotBe(i, n) == \E b \in 1..n : devices[i].mail[b] = "bad"
Blocked(i) == \E j, k \in DOMAIN states :
                j < k /\ states[j].device = NoDevice /\ states[k].device = i
EveryDatagramHandled ==
  Orderly /\ []~SomeBroken =>
    []<>(\A i \in DOMAIN devices : \A n \in DOMAIN devices[i].mail :
           Handled(i, n) \/ CannotBe(i, n) \/ Blocked(i))

=============================================================================
