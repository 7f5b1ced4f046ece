-------------------------------- MODULE Media --------------------------------
(***************************************************************************)
(* tv/transcode/: sound from a file to snippets of a codec, from snippets  *)
(* to frames, and from the frame that is played back to samples; and the   *)
(* way the console loads a file (console_manager.cpp).  A vector of bytes  *)
(* is a sequence of numbers: a sample is below SampleRange, a field of a   *)
(* WAVE header with a meaning is its value, one without is negative.  Time *)
(* is counted in samples.  libopus is external: it gives back the samples. *)
(***************************************************************************)
EXTENDS Integers, Sequences, SequencesExt, Results

CONSTANTS SampleRange,   \* 2^16
          OpusDuration,  \* samples of a standard Opus snippet, 40 ms
          WaveDuration,  \* samples of a WAVE snippet, 1000 ms
          FrameDuration, \* samples of a frame, 1000 ms
          Files,         \* what files hold: [name, bytes]
          MaxPlays       \* bound on the plays

ASSUME MediaAssumption ==
  /\ SampleRange \in Nat \ {0} /\ SampleRange % 2 = 0
  /\ OpusDuration \in Nat \ {0} /\ WaveDuration \in Nat \ {0}
  /\ FrameDuration \in Nat \ {0}

VARIABLES sound,         \* the audio frames
          decoders,      \* decode_state_vector
          plays,         \* how often a frame was pushed to the sink
          pushed,        \* push_history of the sink
          output         \* what each push gave the sink (history)

mediaVars == <<sound, decoders, plays, pushed, output>>

NoFormat == "none"
BlankFrameId == 0

\* What a tv_audio_prop_t says.
Prop(format, only, freq, depth, channels, duration) ==
  [format |-> format, only |-> only, freq |-> freq, depth |-> depth,
   channels |-> channels, duration |-> duration]
MetaOf(prop) == [freq |-> prop.freq, depth |-> prop.depth, channels |-> prop.channels]
StandardMeta == [freq |-> 48, depth |-> 16, channels |-> 1]
Unset == [freq |-> 0, depth |-> 0, channels |-> 0]

\* assert_sane_audio_metadata
Sane(meta) == meta.depth # 0 /\ meta.depth % 8 = 0 /\ meta.channels = 1 /\ meta.freq = 48

-----------------------------------------------------------------------------
(* Samples.                                                                *)

\* samples_to_chunks_of_length; what is left over stays in the vector.
ChunksOf(samples, n) ==
  [k \in 1..Len(samples) \div n |-> SubSeq(samples, (k - 1) * n + 1, k * n)]

\* duration_metadata_to_chunk_size
ChunkLength(prop) == prop.duration * prop.channels

\* raw::signed_to_unsigned and unsigned_to_signed: half the range, in 16 bits.
SignedToUnsigned(s) == [i \in DOMAIN s |-> (s[i] + SampleRange \div 2) % SampleRange]
UnsignedToSigned(s) == [i \in DOMAIN s |-> (s[i] - SampleRange \div 2) % SampleRange]

-----------------------------------------------------------------------------
(* WAVE (tv_transcode_wav.cpp).                                            *)

WaveInitProp(prop) ==
  Prop("wave", prop.only, 48, 16, 1,
       IF prop.duration = 0 THEN WaveDuration ELSE prop.duration)

\* The header, which the size of the data ends.
WaveHead(prop) == <<-1, -2, -3, -4, -5, -6, prop.channels, prop.freq, -9, -10,
                    prop.depth, -12>>
DataSize == -13

WaveEncode(prop, samples) ==
  LET chunks == ChunksOf(samples, ChunkLength(prop))
  IN  [k \in DOMAIN chunks |-> WaveHead(prop) \o <<DataSize>> \o chunks[k]]

\* sanity_check_prepend: takes the fields in front of the size of the data
\* from the snippet.  What it has read when it throws has been read.
HeadLength == Len(WaveHead(Prop("wave", FALSE, 48, 16, 1, 1)))
CheckHead(s, meta, given) ==
  LET n    == Len(s)
      read == [channels |-> IF n >= 7 THEN s[7] ELSE given.channels,
               freq     |-> IF n >= 8 THEN s[8] ELSE given.freq,
               depth    |-> IF n >= 11 THEN s[11] ELSE given.depth]
  IN  [threw |-> n < HeadLength \/ read # meta, read |-> read,
       rest |-> IF n >= HeadLength THEN SubSeq(s, HeadLength + 1, n) ELSE <<>>]

Expected(acc) == IF acc.meta = Unset THEN acc.given ELSE acc.meta

\* Mutant: the size of the data is taken from the snippet, too.
WaveTakeWhole(acc, head) ==
  [meta |-> IF head.threw THEN head.read ELSE Expected(acc), given |-> head.read,
   out  |-> acc.out \o SubSeq(head.rest, 2, Len(head.rest))]

\* A snippet whose header is not the expected one is decoded all the same, and
\* changes what is expected of the next one.
WaveTake(acc, head) ==
  [meta |-> IF head.threw THEN head.read ELSE Expected(acc), given |-> head.read,
   out  |-> acc.out \o head.rest]
WaveDecodeOne(acc, s) == WaveTake(acc, CheckHead(s, Expected(acc), acc.given))

WaveDecode(meta, snippets, given) ==
  FoldLeft(WaveDecodeOne, [meta |-> meta, given |-> given, out |-> <<>>], snippets)

-----------------------------------------------------------------------------
(* Opus (tv_transcode_opus.cpp).                                           *)

StandardOpus == Prop("opus", FALSE, 48, 16, 1, OpusDuration)

\* assert_fix_opus_prop and what the init functions make of its result: a
\* property that had to be changed, except in the duration, is the standard.
OpusInitProp(prop) ==
  IF prop.only \/ prop.freq # 48 \/ prop.channels # 1 THEN StandardOpus
  ELSE [prop EXCEPT !.duration = OpusDuration \div 4]

OpusEncode(prop, samples) ==
  LET chunks == ChunksOf(samples, ChunkLength(prop))
  IN  [k \in DOMAIN chunks |-> UnsignedToSigned(chunks[k])]

OpusDecode(snippets) == SignedToUnsigned(FlattenSeq(snippets))

-----------------------------------------------------------------------------
(* Both (tv_transcode_audio.cpp): lookup of the codec, then its functions. *)

InitProp(prop) == IF prop.format = "wave" THEN WaveInitProp(prop) ELSE OpusInitProp(prop)

Encode(prop, samples, meta) ==
  IF samples = <<>> \/ ~Sane(meta) \/ meta # MetaOf(prop) THEN Threw
  ELSE Returned(IF prop.format = "wave" THEN WaveEncode(prop, samples)
                ELSE OpusEncode(prop, samples))

\* The samples and what is said of them.
Decode(prop, snippets, given) ==
  IF snippets = <<>> \/ snippets[1] = <<>> THEN Threw
  ELSE IF prop.format = "wave"
  THEN Then(Returned(WaveDecode(MetaOf(prop), snippets, given)), LAMBDA done :
         Returned([samples |-> done.out, meta |-> done.meta]))
  ELSE Returned([samples |-> OpusDecode(snippets), meta |-> MetaOf(prop)])

\* raw::to_codec: a state of its own for each call.
RawToCodec(samples, meta, prop) ==
  IF samples = <<>> \/ ~Sane(meta) \/ prop.format = NoFormat THEN Threw
  ELSE Encode(InitProp(prop), samples, meta)

\* codec::to_raw
CodecToRaw(snippets, prop, given) ==
  IF snippets = <<>> \/ prop.format = NoFormat THEN Threw
  ELSE Then(Decode(IF prop.format = "opus" THEN OpusInitProp(prop) ELSE prop,
                   snippets, given),
            LAMBDA done : IF ~Sane(done.meta) THEN Threw ELSE Returned(done))

\* codec::to_frames, for a target of the same format and no other wish: the
\* snippets by the frame, at least one in each; the last frame may have fewer.
PerFrame(prop) ==
  IF prop.duration = 0 \/ FrameDuration < prop.duration THEN 1
  ELSE FrameDuration \div prop.duration
CodecToFrames(snippets, prop) ==
  LET n == PerFrame(prop)
  IN  [k \in 1..(Len(snippets) + n - 1) \div n |->
         [packets |-> SubSeq(snippets, (k - 1) * n + 1,
                             IF k * n < Len(snippets) THEN k * n ELSE Len(snippets)),
          prop |-> prop, ttl |-> prop.duration * n, entry |-> k - 1]]

\* frames::to_codec, for one frame: the state that decoded the frame before,
\* or a new one; the decoder has moved on when the encoder throws.
\* (The header of such a frame is the one the state expects, so that what the
\* state says of the sound stays.)

\* audio_decode_search_for_state_simple: 0 when there is none.
DecoderFor(f) ==
  SelectInSeq(decoders, LAMBDA d : d.last = sound[f].prev /\ d.last # BlankFrameId)

NewDecoder(f) == [prop |-> InitProp(sound[f].prop), last |-> BlankFrameId,
                  heard |-> <<>>]

FrameToCodec(decoder, f, prop) ==
  IF ~Sane(MetaOf(sound[f].prop)) THEN Threw
  ELSE Then(Decode(decoder.prop, sound[f].packets, MetaOf(sound[f].prop)), LAMBDA from :
    IF from.samples = <<>> \/ ~Sane(from.meta) THEN Threw
    \* encode_init_state gives the caller its idea of the properties
    ELSE Then(Encode(InitProp(prop), from.samples, from.meta), LAMBDA snippets :
      IF snippets = <<>> THEN Threw
      ELSE Returned([snippets |-> snippets, prop |-> InitProp(prop)])))

\* frames::to_raw: through WAVE.
FrameToRaw(decoder, f) ==
  Then(FrameToCodec(decoder, f, Prop("wave", TRUE, 0, 0, 0, 0)), LAMBDA wave :
    Then(CodecToRaw(wave.snippets, wave.prop, Unset), LAMBDA raw : Returned(raw.samples)))

-----------------------------------------------------------------------------
(* Loading (console_manager.cpp).                                          *)

\* console_tv_load_samples_from_file: by the end of the name.  opusfile is
\* external and gives the samples.
SamplesFromFile(file) ==
  CASE file.name = "opus" -> Returned(file.bytes)
    [] file.name = "wav"  ->
         Then(CodecToRaw(<<file.bytes>>, Prop("wave", FALSE, 48, 16, 1, 0), StandardMeta),
              LAMBDA raw : Returned(raw.samples))
    [] OTHER -> Threw

\* console_tv_load_samples_to_frames
SamplesToFrames(samples, format) ==
  LET prop == Prop(format, TRUE, 48, 16, 1, 0)
  IN  Then(RawToCodec(samples, StandardMeta, prop), LAMBDA codec :
        IF codec = <<>> THEN Threw ELSE Returned(CodecToFrames(codec, InitProp(prop))))

\* transcode::audio::file::to_codec: to_raw reads the samples and returns
\* nothing of them, so that raw::to_codec throws.
FileToRaw(bytes) == <<>>
FileToCodec(bytes, prop) ==
  IF prop.format # "opus" THEN Threw
  ELSE RawToCodec(FileToRaw(bytes), StandardMeta, prop)

-----------------------------------------------------------------------------
MediaInit ==
  sound = <<>> /\ decoders = <<>> /\ plays = 0 /\ pushed = {} /\ output = <<>>

\* The frames follow one another in time, from the moment of loading.
Begin(frames, k) ==
  FoldLeft(LAMBDA t, f : t + f.prop.duration * Len(f.packets), 0, SubSeq(frames, 1, k - 1))
Dated(frames) ==
  [k \in DOMAIN frames |->
     [packets |-> frames[k].packets, prop |-> frames[k].prop, ttl |-> frames[k].ttl,
      entry |-> frames[k].entry, start |-> Begin(frames, k),
      prev |-> k - 1, far |-> IF k > 1 THEN 1 ELSE 0]]

LoadFile(file, format) ==
  /\ sound = <<>>
  /\ \E made \in {Then(SamplesFromFile(file), LAMBDA samples :
                      SamplesToFrames(samples, format))} :
       sound' = IF made.threw THEN <<>> ELSE Dated(made.value)
  /\ UNCHANGED <<decoders, plays, pushed, output>>

\* The push of the audio sink, for the frame of the moment: one that was pushed
\* is dropped.  frames::to_raw adds a state, and codec::to_raw another one,
\* which no search finds.
DecodeWith(at, decoder, f) ==
  /\ decoders' = IF at = 0
                 THEN Append(decoders, [decoder EXCEPT !.last = f, !.heard = <<f>>])
                 ELSE [decoders EXCEPT ![at].last = f, ![at].heard = Append(@, f)]
  /\ \E raw \in {FrameToRaw(decoder, f)} :
       IF raw.threw THEN UNCHANGED <<pushed, output>>
       ELSE /\ pushed' = pushed \cup {f}
            /\ output' = Append(output, <<f, raw.value>>)

PushFrame(f) ==
  /\ plays < MaxPlays /\ plays' = plays + 1
  /\ IF f \in pushed THEN UNCHANGED <<decoders, pushed, output>>
     ELSE \E at \in {DecoderFor(f)} :
            DecodeWith(at, IF at = 0 THEN NewDecoder(f) ELSE decoders[at], f)
  /\ UNCHANGED sound

MediaNext ==
  \/ \E file \in Files, format \in {"opus", "wave", NoFormat} : LoadFile(file, format)
  \/ \E f \in DOMAIN sound : PushFrame(f)

-----------------------------------------------------------------------------
\* A decoder hears a run of frames without a gap, each once; a frame that
\* could not be played has nevertheless been decoded, and every new try begins
\* a decoder that is never freed (frames::to_codec).
DecodersHearRuns ==
  /\ \A d \in DOMAIN decoders : \A i \in DOMAIN decoders[d].heard :
       /\ decoders[d].heard[i] = decoders[d].heard[1] + i - 1
       /\ decoders[d].last = Last(decoders[d].heard)
  /\ \A f \in DOMAIN sound : f \notin pushed =>
       FoldLeft(LAMBDA n, d : n + (IF f \in ToSet(d.heard) THEN 1 ELSE 0), 0, decoders) <= plays

\* The samples of a frame, as they were when it was made.
SamplesOf(f) ==
  IF sound[f].prop.format = "opus" THEN OpusDecode(sound[f].packets)
  ELSE SubSeq(sound[f].packets[1], HeadLength + 2, Len(sound[f].packets[1]))

\* The sound of a frame is played once, and only when the frame is whole.  Of a
\* WAVE frame the size of its data is played as sound and pushes out the last
\* samples; the encoding in between adds one more such size to every frame.
\* The frames hold all whole snippets of the file and follow one another in
\* time; a frame says it lasts longer than it does only when it is the last
\* (console_tv_load_samples_to_frames, frames::to_raw, wave_decode_*); and the
\* decoders hear the frames in runs.
SoundIsPlayed ==
  /\ DecodersHearRuns
  /\ \A i, j \in DOMAIN output : output[i][1] = output[j][1] => i = j
  /\ \A i \in DOMAIN output :
       LET f == output[i][1]
           s == IF sound[f].prop.format = "opus" THEN SamplesOf(f)
                ELSE <<DataSize>> \o SamplesOf(f)
       IN  output[i][2] = <<DataSize>> \o SubSeq(s, 1, WaveDuration)
  /\ \A f \in DOMAIN sound :
       /\ f \in pushed => f < Len(sound) \/ Len(SamplesOf(f)) = WaveDuration
       /\ f < Len(sound) => sound[f + 1].start = sound[f].start + sound[f].ttl
       /\ sound[f].entry = f - 1
       /\ Len(SamplesOf(f)) = sound[f].ttl \/ f = Len(sound)

=============================================================================
