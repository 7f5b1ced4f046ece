----------------------------- MODULE MCFormats -----------------------------
(***************************************************************************)
(* The modules about data: sets of ids, objects under way, linked frames,  *)
(* sound, conversions, and the keys of a node.  None calls into another    *)
(* one's state, so that a behaviour is about one of them, which is chosen  *)
(* at the start.                                                           *)
(***************************************************************************)
EXTENDS IdSets, IdTransport, Frames, Media, Conversions, Bootstrap

VARIABLE focus

vars == <<focus, idSetVars, transportVars, frameVars, mediaVars, conversionVars, keyVars>>

Init ==
  /\ focus \in {"vector", "buffer", "transport", "frames", "media", "convert", "comments",
               "keys"}
  /\ IdSetsInit /\ TransportInit /\ FramesInit /\ MediaInit /\ ConversionsInit
  /\ KeysInit
  /\ focus # "transport" => ~isKey /\ ownerKey = CHOOSE k \in OwnerKeys : TRUE

Next ==
  \/ /\ focus = "vector" /\ VectorNext
     /\ UNCHANGED <<focus, transportVars, frameVars, mediaVars, conversionVars, keyVars>>
  \/ /\ focus = "buffer" /\ BufferNext
     /\ UNCHANGED <<focus, transportVars, frameVars, mediaVars, conversionVars, keyVars>>
  \/ /\ focus = "transport" /\ TransportNext
     /\ UNCHANGED <<focus, idSetVars, frameVars, mediaVars, conversionVars, keyVars>>
  \/ /\ focus = "frames" /\ FramesNext
     /\ UNCHANGED <<focus, idSetVars, transportVars, mediaVars, conversionVars, keyVars>>
  \/ /\ focus = "media" /\ MediaNext
     /\ UNCHANGED <<focus, idSetVars, transportVars, frameVars, conversionVars, keyVars>>
  \/ /\ focus = "convert" /\ ConvertNext
     /\ UNCHANGED <<focus, idSetVars, transportVars, frameVars, mediaVars, keyVars>>
  \/ /\ focus = "comments" /\ CommentNext
     /\ UNCHANGED <<focus, idSetVars, transportVars, frameVars, mediaVars, keyVars>>
  \/ /\ focus = "keys" /\ KeysNext
     /\ UNCHANGED <<focus, idSetVars, transportVars, frameVars, mediaVars, conversionVars>>

Spec == Init /\ [][Next]_vars

-----------------------------------------------------------------------------
\* Ids: the blank owner, two owners, an invalid type, an id that is repeated.
MCSomeIds == {<<1,0,3,1>>, <<0,1,3,2>>, <<2,0,1,1>>, <<0,0,3,1>>, <<1,1,3,9>>}

MCKinds == <<"bytes", "raw", "rows", "eights">>
Both == <<<<0, 0>>, <<1, 0>>>>
MCRules == <<[tier |-> Both, intermediary |-> <<0, 1>>],
             [tier |-> <<<<0, 0>>>>, intermediary |-> <<0>>],
             [tier |-> Both, intermediary |-> <<0, 1>>],
             [tier |-> Both, intermediary |-> <<0>>]>>
MCValues == [bytes  |-> {<<>>, <<3, 1, 2, 1, 1>>}, raw |-> {<<1, 2>>},
             eights |-> {<<1, 2>>},
             rows   |-> {<<<<>>, <<1>>>>, <<<<1, 2>>>>, <<<<1>>, <<2>>>>,
                         <<<<>>, <<>>, <<1>>>>}]
MCStripRules == {[tier |-> <<<<1, 0>>>>, intermediary |-> <<>>],
                 [tier |-> <<>>, intermediary |-> <<1>>]}
MCIdBytes == <<1, 2, 3>>
\* Keys for small and for large bodies, of two lengths, and one that is refused.
MCOwnerKeys == {[length |-> 30, fits |-> TRUE], [length |-> 30, fits |-> FALSE],
                [length |-> 15, fits |-> FALSE]}

\* Files: Opus; WAVE with a right and a wrong header; a short one; others.
Header(c, f, d) == <<-1, -2, -3, -4, -5, -6, c, f, -9, -10, d, -12>>
Samples(n) == [i \in 1..n |-> (i * 3 + 1) % 4]
MCFiles ==
  [name : {"opus"}, bytes : {Samples(n) : n \in {0, 1, 9, 11}}]
  \cup [name : {"wav"}, bytes :
          {Header(1, 48, 16) \o <<DataSize>> \o Samples(n) : n \in {2, 7, 8}}
            \cup {Header(c, 44, 16) \o <<DataSize>> \o Samples(5) : c \in {1, 2}}
            \cup {<<-1, -2>>}]
  \cup {[name |-> "mp3", bytes |-> <<1>>]}

SmallSeqs(S, n) == UNION {[1..k -> S] : k \in 0..n}
MCIds == [uuid : {<<0, 5>>, <<3, 9>>}, hash : {<<1, 2>>, <<15, 0>>}, type : {0, 14}]
MCNumbers == {<<0>>, <<1>>, <<2>>, <<17>>, <<-1>>, <<-3>>, <<1, 0>>, <<1, 1>>, <<1, 16>>,
              <<0, 16>>, <<18, 3>>}
MCLines == {<<>>, <<"a", "=", "1">>, <<"b", "=", "2">>, <<"a", "=">>}
MCArgs == [text : {"a", "b"}, setting : {TRUE}] \cup {[text |-> "5", setting |-> FALSE]}
MCQuestions ==
  [op : {"id"}, in : [before : SmallSeqs({Space}, 2), behind : SmallSeqs({Space}, 1),
                      id : MCIds]]
  \cup [op : {"text"}, in :
          {[IdToHex(i) EXCEPT ![k] = c] : i \in MCIds, k \in {1, 5, 10, 12}, c \in {Dash, 3}}
            \cup {SubSeq(IdToHex(i), 1, 11) : i \in MCIds}]
  \cup [op : {"pieces"}, in : [text : SmallSeqs({1, 2, 3}, 4), divider : {<<1>>, <<1, 2>>}]]
  \cup [op : {"lines"}, in : [text : SmallSeqs({1, 2}, 4), divider : {<<1>>}]]
  \cup [op : {"compare"}, in : MCNumbers \X MCNumbers]
  \cup [op : {"number"}, in : MCNumbers]
  \cup [op : {"settings"}, in : [readable : BOOLEAN, lines : SmallSeqs(MCLines, 2),
                                 args : SmallSeqs(MCArgs, 3)]]
MCParameters == {<<1, 2>>, <<1, 1, 2>>, <<2, 1, 3>>}
MCCommentValues == {<<4>>, <<1, 2>>}
=============================================================================
