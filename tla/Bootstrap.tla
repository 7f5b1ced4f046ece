------------------------------ MODULE Bootstrap -----------------------------
(***************************************************************************)
(* The key pair of a node across starts (bootstrap_production_priv_key_id  *)
(* of init.cpp): a start without a private key in the data folder makes a  *)
(* pair, which id_tier_loop writes later, the private key first, once for  *)
(* each disk state; a start with one loads its pair, or ends the process.  *)
(* Pairs are numbered in the order they are made.                          *)
(***************************************************************************)
EXTENDS Naturals, Sequences, SequencesExt

CONSTANTS DiskStates,  \* disk states over the folder: id_tier_init runs twice
          MaxPairs,    \* bound on the pairs that are made
          MaxFaults    \* bound on writes that fail or are cut short

ASSUME BootstrapAssumption == DiskStates \in Nat /\ MaxPairs \in Nat /\ MaxFaults \in Nat

VARIABLES
  keyFiles,  \* keyFiles[kind][pair]: the file in the data folder
  pairs,     \* how many pairs have been made
  node,      \* the pair the running process has; 0 while none runs
  writes,    \* the keys id_tier_loop has still to write, in order
  writeAt,   \* its place in them
  founded,   \* history: pairs that were on disk as a whole
  spoiled,   \* history: a write was cut short
  halved,    \* history: the process ended between the private and the public key
  refused,   \* history: a start ended in an error
  faults     \* history: writes that failed or were cut short

keyHistory == <<founded, spoiled, halved, refused, faults>>
keyVars    == <<keyFiles, pairs, node, writes, writeAt, keyHistory>>

KeyKinds == {"priv", "pub"}

KeysInit ==
  /\ keyFiles = [kind \in KeyKinds |-> [pair \in 1..MaxPairs |-> "none"]]
  /\ pairs = 0 /\ node = 0 /\ writes = <<>> /\ writeAt = 1
  /\ founded = {} /\ spoiled = FALSE /\ halved = FALSE /\ refused = FALSE /\ faults = 0

-----------------------------------------------------------------------------
(* init                                                                    *)

InFolder(kind) == {pair \in 1..MaxPairs : keyFiles[kind][pair] # "none"}
Whole(pair)    == \A kind \in KeyKinds : keyFiles[kind][pair] = "whole"

\* Mutant: a node without a public key starts for the first time.
NoPublicKey  == InFolder("pub") = {}
NoPrivateKey == InFolder("priv") = {}

\* gen_key_pair.  The disk states list nothing of the new pair.
FirstBoot ==
  /\ node = 0 /\ NoPrivateKey /\ pairs < MaxPairs
  /\ pairs' = pairs + 1 /\ node' = pairs + 1
  /\ writes' = [i \in 1..(2 * DiskStates) |-> IF i % 2 = 1 THEN "priv" ELSE "pub"]
  /\ writeAt' = 1
  /\ UNCHANGED <<keyFiles, keyHistory>>

\* The private key of the folder, which is the only one, names its public key.
LoadKeys ==
  /\ node = 0
  /\ \E pair \in InFolder("priv") :
       InFolder("priv") = {pair} /\ Whole(pair) /\ node' = pair
  /\ writes' = <<>> /\ writeAt' = 1
  /\ UNCHANGED <<keyFiles, pairs, keyHistory>>

\* No public key at all kills the process (P_CRIT), several private keys and a
\* public key that cannot be read throw out of init, and a private key that
\* cannot be read is a null pointer.
RefuseStart ==
  /\ node = 0 /\ ~NoPrivateKey
  /\ ~\E pair \in InFolder("priv") : InFolder("priv") = {pair} /\ Whole(pair)
  /\ refused' = TRUE
  /\ UNCHANGED <<keyFiles, pairs, node, writes, writeAt, founded, spoiled, halved, faults>>

-----------------------------------------------------------------------------
(* id_tier_loop, as far as it writes keys                                  *)

Writing == node # 0 /\ writeAt <= Len(writes)
Key     == writes[writeAt]
Written(content) == keyFiles' = [keyFiles EXCEPT ![Key][node] = content]

WriteKey ==
  /\ Writing
  /\ Written("whole")
  /\ writes' = RemoveAt(writes, writeAt)
  /\ founded' = IF \A kind \in KeyKinds : keyFiles'[kind][node] = "whole"
                THEN founded \cup {node} ELSE founded
  /\ UNCHANGED <<pairs, node, writeAt, spoiled, halved, refused, faults>>

\* The file cannot be opened: its entry stays queued, and the next loop, whose
\* index does not list the key, queues it once more.
WriteFails ==
  /\ Writing /\ faults < MaxFaults
  /\ writes' = InsertAt(writes, writeAt, Key) /\ writeAt' = writeAt + 2
  /\ faults' = faults + 1
  /\ UNCHANGED <<keyFiles, pairs, node, founded, spoiled, halved, refused>>

\* The file system is full: nobody asks the stream, and the index lists the key.
WriteCut ==
  /\ Writing /\ faults < MaxFaults
  /\ Written("torn") /\ spoiled' = TRUE
  /\ writes' = RemoveAt(writes, writeAt)
  /\ faults' = faults + 1
  /\ UNCHANGED <<pairs, node, writeAt, founded, halved, refused>>

NextLoop ==
  /\ node # 0 /\ writeAt > Len(writes) /\ writes # <<>>
  /\ writeAt' = 1
  /\ UNCHANGED <<keyFiles, pairs, node, writes, keyHistory>>

\* The process ends: by itself, between two writes or in the middle of one.
Ended == node # 0 /\ node' = 0 /\ writes' = <<>> /\ writeAt' = 1
Stop ==
  /\ Ended
  /\ halved' = (halved \/ (keyFiles["priv"][node] # "none" /\ keyFiles["pub"][node] = "none"))
  /\ UNCHANGED <<keyFiles, pairs, founded, spoiled, refused, faults>>
StopInWrite ==
  /\ Writing /\ Ended /\ faults < MaxFaults
  /\ Written("torn") /\ spoiled' = TRUE /\ faults' = faults + 1
  /\ UNCHANGED <<pairs, founded, halved, refused>>

KeysNext == \/ FirstBoot \/ LoadKeys \/ RefuseStart
            \/ WriteKey \/ WriteFails \/ WriteCut \/ NextLoop
            \/ Stop \/ StopInWrite

KeysSpec == KeysInit /\ [][KeysNext]_keyVars

-----------------------------------------------------------------------------
\* However often a node is stopped and whatever write fails: it never has a
\* second private key (init.cpp:89), once its pair has been on disk it runs with
\* no other, and it refuses to start only if a write was cut short or it was
\* stopped after the private key and before the public one was written.  Then it
\* never starts again (init.cpp:79), for the key that is missing is nowhere else.
KeysStay ==
  /\ \A a, b \in InFolder("priv") : a = b
  /\ founded # {} => founded = {pairs} /\ node \in {0, pairs}
  /\ refused => spoiled \/ halved

=============================================================================
