------------------------------ MODULE Station -------------------------------
(***************************************************************************)
(* The TV of a node: windows, what the console binds to them, the loop     *)
(* over windows (tv.cpp), which records from a sink or plays to one, and   *)
(* the callback of the audio device (tv_sink_audio_hardware.cpp).          *)
(*                                                                         *)
(* Frame 1 is the one a numerical item is made with; Clip frames of an     *)
(* audio item follow, linked, and then the recorded ones.  Frames and the  *)
(* walk to a moment are those of Frames.  Time is counted in samples of    *)
(* sound.  A window has one stream: the console makes a new window for     *)
(* each.  The branch that looks ahead for audio frames compares an id type *)
(* with a frame type and is never taken; last_pushed_id is a pointer into  *)
(* a copy, so that a frame is pushed on every turn.                        *)
(***************************************************************************)
EXTENDS Recorder, Frames, MainLoop

CONSTANTS Clip,        \* frames of the audio item
          Unreadable,  \* frames that to_raw throws for
          Rewind,      \* how far behind the live TV a viewer's window is
          Delay,       \* 10*1000*1000, until a loaded item plays
          Chunk        \* samples the audio device takes at a time

ASSUME StationAssumption ==
  Clip \in Nat \ {0} /\ Rewind \in Nat /\ Delay \in Nat /\ Chunk \in Nat \ {0}

VARIABLES
  now,       \* get_time_microseconds
  windows,   \* [flow, sink, frame, offset], in the order of the type cache
  windowAt,  \* tv_loop: the next window
  content,   \* the samples of a frame
  pushedTo,  \* push_history of the audio sink: frames
  playback,  \* playback_vector: [start, end, raw]
  called,    \* when the audio device wants samples again
  heard,     \* history: what the audio device got
  starved    \* history: it found nothing behind the entry it played

tvVars == <<now, windows, windowAt, content, pushedTo, playback, called, heard, starved,
            lists, spans, batches>>
stationVars == <<tvVars, recorderVars>>

ItemFrame == 1
ClipStart == 2
ClipFrames == ClipStart..(Clip + 1)

StationInit ==
  /\ RecorderInit
  /\ lists = LinkVector([f \in 1..(Clip + 1) |-> [first |-> <<>>, second |-> <<>>]],
                        [k \in 1..Clip |-> k + 1]).lists
  /\ spans = [f \in 1..(Clip + 1) |-> IF f = ItemFrame THEN [start |-> 0, end |-> 1]
                ELSE [start |-> (f - 2) * Span, end |-> (f - 1) * Span]]
  /\ content = [f \in 1..(Clip + 1) |-> IF f = ItemFrame THEN <<>>
                  ELSE [k \in 1..Span |-> (f - 2) * Span + k]]
  /\ batches = <<>>
  /\ now = 1 /\ windows = <<>> /\ windowAt = 1
  /\ pushedTo = {} /\ playback = <<>> /\ called = 0 /\ heard = <<>> /\ starved = FALSE

-----------------------------------------------------------------------------
(* What the console does (console_manager.cpp).                            *)

Window(flow, sink, frame, offset) ==
  [flow |-> flow, sink |-> sink, frame |-> frame, offset |-> offset]

TvUnchanged == UNCHANGED <<now, windowAt, content, pushedTo, playback, called, heard,
                           starved, lists, spans, batches, recorderVars>>

\* bind_item_to_window: a new window begins with the first frame of the item.
BindRecord == /\ windows' = Append(windows, Window("in", "numbers", ItemFrame, 0))
              /\ TvUnchanged
BindView   == /\ windows' = Append(windows, Window("out", "numbers", ItemFrame, -Rewind))
              /\ TvUnchanged

\* play_loaded_item_live: all other windows go.
PlayItem == /\ windows' = <<Window("out", "audio", ClipStart, spans[ClipStart].start - now - Delay)>>
            /\ TvUnchanged

TvCommand(words) ==
  CASE words = <<"record">> -> BindRecord
    [] words = <<"view">>   -> BindView
    [] words = <<"play">>   -> PlayItem
    [] OTHER -> UNCHANGED stationVars

-----------------------------------------------------------------------------
(* tv_loop                                                                 *)

Showing   == At("tv") /\ windowAt <= Len(windows)
ThisWindow == windows[windowAt]
MoveTo(frame) == windows' = [windows EXCEPT ![windowAt].frame = frame]
NextWindow == windowAt' = windowAt + 1

\* Mutant: the frame of the window stays the one it began with.
JoinFirst(new) ==
  LET f == Len(lists) + 1
      room == Append(lists, [first |-> <<>>, second |-> <<>>])
  IN  /\ lists' = SetLists(room, ThisWindow.frame, room[ThisWindow.frame].first, <<f>>)
      /\ spans' = Append(spans, [start |-> new[1].time,
                                 end   |-> new[1].time + Later(new[1].time, Last(new).time)])
      /\ content' = Append(content, new)
      /\ UNCHANGED windows

\* The frame joins the list of the one before it, and is the window's frame.
Join(new) ==
  LET f == Len(lists) + 1
      room == Append(lists, [first |-> <<>>, second |-> <<>>])
  IN  /\ lists' = SetLists(room, ThisWindow.frame, room[ThisWindow.frame].first, <<f>>)
      /\ spans' = Append(spans, [start |-> new[1].time,
                                 end   |-> new[1].time + Later(new[1].time, Last(new).time)])
      /\ content' = Append(content, new)
      /\ MoveTo(f)

\* tv_loop_sink_inward_flow
Inward(taken) ==
  /\ Showing /\ ThisWindow.flow = "in"
  /\ Pull(taken)
  /\ IF Pulled(taken) = <<>> THEN UNCHANGED <<lists, spans, content, windows>>
     ELSE Join(Pulled(taken)[1])
  /\ NextWindow
  /\ UNCHANGED <<pc, now, pushedTo, playback, called, heard, starved, batches>>

\* The frame that lasts at the moment of the window, if there is one.
Latest == ScrollToTime(ThisWindow.frame, now + ThisWindow.offset, AllFrames)

\* PUSH of the audio sink: one entry per frame, in the order of time, so that a
\* new one goes behind those that start no later.
Entry(f) == [start |-> spans[f].start - ThisWindow.offset,
             end   |-> spans[f].end - ThisWindow.offset, raw |-> content[f]]
Earlier(entries, e) == {i \in DOMAIN entries : entries[i].start <= e.start}
Resort(entries, e)  == InsertAt(entries, Cardinality(Earlier(entries, e)) + 1, e)
PushAudio(f) ==
  IF f \in pushedTo THEN UNCHANGED <<pushedTo, playback>>
  ELSE /\ pushedTo' = pushedTo \cup {f}
       /\ playback' = Resort(playback, Entry(f))

\* tv_loop_sink_outward_flow
OutwardNothing ==
  /\ Showing /\ ThisWindow.flow = "out" /\ Latest = BlankFrame
  /\ NextWindow
  /\ UNCHANGED <<pc, now, windows, content, pushedTo, playback, called, heard, starved,
                 lists, spans, batches, recorderVars>>
Outward ==
  /\ Showing /\ ThisWindow.flow = "out" /\ Latest # BlankFrame
  /\ ThisWindow.sink = "audio" => Latest \in pushedTo \/ Latest \notin Unreadable
  /\ IF ThisWindow.sink = "audio" THEN PushAudio(Latest) ELSE UNCHANGED <<pushedTo, playback>>
  /\ MoveTo(Latest) /\ NextWindow
  /\ UNCHANGED <<pc, now, content, called, heard, starved, lists, spans, batches,
                 recorderVars>>
\* to_raw throws, and the turn is over.
OutwardThrows ==
  /\ Showing /\ ThisWindow.flow = "out" /\ Latest # BlankFrame
  /\ ThisWindow.sink = "audio" /\ Latest \notin pushedTo /\ Latest \in Unreadable
  /\ MoveTo(Latest)
  /\ windowAt' = 1 /\ NextTurn
  /\ UNCHANGED <<now, content, pushedTo, playback, called, heard, starved, lists, spans,
                 batches, recorderVars>>

TvEnd ==
  /\ At("tv") /\ windowAt > Len(windows)
  /\ windowAt' = 1 /\ Goto("net")
  /\ UNCHANGED <<now, windows, content, pushedTo, playback, called, heard, starved,
                 lists, spans, batches, recorderVars>>

TvMain == OutwardNothing \/ Outward \/ OutwardThrows \/ TvEnd

-----------------------------------------------------------------------------
(* The callback of the audio device, in a thread of PortAudio's.           *)

\* Mutant: what is copied out of an entry stays in it.
PlayEntryKeeps(acc) ==
  LET raw  == acc.entries[acc.at].raw
      need == Chunk - Len(acc.out)
  IN  IF acc.stop \/ need = 0 THEN acc
      ELSE IF Len(raw) > need THEN [acc EXCEPT !.out = @ \o SubSeq(raw, 1, need)]
      ELSE IF acc.at = Len(acc.entries) THEN [acc EXCEPT !.out = @ \o raw, !.stop = TRUE]
      ELSE [acc EXCEPT !.out = @ \o raw, !.entries = RemoveAt(@, acc.at)]

\* An entry with more than is needed keeps the rest; one that is used up goes,
\* and the next one takes its place, except the last, which stays as it is.
PlayEntry(acc) ==
  LET raw  == acc.entries[acc.at].raw
      need == Chunk - Len(acc.out)
  IN  IF acc.stop \/ need = 0 THEN acc
      ELSE IF Len(raw) > need
      THEN [acc EXCEPT !.out = @ \o SubSeq(raw, 1, need),
                       !.entries[acc.at].raw = SubSeq(raw, need + 1, Len(raw))]
      ELSE IF acc.at = Len(acc.entries) THEN [acc EXCEPT !.out = @ \o raw, !.stop = TRUE]
      ELSE [acc EXCEPT !.out = @ \o raw, !.entries = RemoveAt(@, acc.at)]

\* The entry that plays now, which is the first whose time it is.
Due(entries) == SelectInSeq(entries, LAMBDA e : e.start < now /\ now < e.end)

Callback ==
  /\ called <= now /\ Due(playback) # 0
  /\ LET from == [at |-> Due(playback), entries |-> playback, out |-> <<>>, stop |-> FALSE]
         done == FoldLeft(LAMBDA acc, k : PlayEntry(acc), from, [k \in 1..(Len(playback) + 1) |-> k])
     IN  /\ playback' = done.entries
         /\ starved' = (starved \/ done.stop)
         /\ heard' = IF starved' THEN <<>> ELSE heard \o done.out
  /\ called' = now + Chunk
  /\ UNCHANGED <<pc, now, windows, windowAt, content, pushedTo, lists, spans, batches,
                 recorderVars>>

Tick == /\ now' = now + 1
        /\ UNCHANGED <<pc, windows, windowAt, content, pushedTo, playback, called, heard,
                       starved, lists, spans, batches, recorderVars>>

Playing == \E i \in DOMAIN windows :
             windows[i].sink = "audio" /\ now + windows[i].offset <= Clip * Span

-----------------------------------------------------------------------------
(* Properties.                                                             *)

\* Did lines arrive whole: then the frames behind the item's, in the order of
\* the list, what the sink holds and the lines in its buffer have every sample
\* that was sent, in order; the sample at a border is in both frames (PULL of
\* the sink, tv_loop_sink_inward_flow).
Chain == ByDistance(ItemFrame, Len(lists), AllFrames)
SamplesKept ==
  ~torn => FlattenSeq([k \in DOMAIN Chain |-> Front(content[Chain[k]])])
             \o samples \o LinesOf(buffer) = entered

\* Sound is heard in order and nothing is heard twice, as long as the device
\* never comes to the end of what there is: then the last entry is played
\* again (callback and PUSH of the audio sink, tv_loop_sink_outward_flow).
InOrder == \A i \in 2..Len(heard) : heard[i] > heard[i - 1]

=============================================================================
