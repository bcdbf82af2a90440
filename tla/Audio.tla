-------------------------------- MODULE Audio --------------------------------
(***************************************************************************)
(* The audio device (engine/audio): clips, the voices that sound them, and *)
(* the queue of mixed frames that update keeps ahead of the sound card.    *)
(* Clips come from assets, which are loaded and reloaded while they sound. *)
(*                                                                         *)
(* A handle is a number that is not used again; that a handle of the code  *)
(* is not either is the subject of Device.                                 *)
(***************************************************************************)
EXTENDS Integers, Sequences, FiniteSets, Functions

CONSTANTS ClipAsset,   \* the assets that hold sound
          ClipFrames,  \* the lengths a clip may have
          MaxVoices,   \* AudioConfig::max_voices
          Target,      \* queue_target_ms
          QueueMax,    \* queue_max_ms
          BlockFrames, \* kBlockFrames
          Passes,      \* kMaxPassesPerUpdate
          MaxRetired,  \* the voices a block can retire (64)
          MaxClips,    \* bound: clips ever made
          MaxPlays,    \* bound: voices ever started
          MaxUpdates,  \* bound
          NoClip

ASSUME AudioAssumption ==
  /\ {MaxVoices, Target, QueueMax, Passes, MaxRetired} \subseteq Nat
  /\ BlockFrames \in Nat \ {0}
  /\ Target <= QueueMax /\ ClipFrames \subseteq Nat
  /\ NoClip \notin Nat \cup ClipAsset

VARIABLES clipPool, \* clip handle -> what it sounds
          resolved, \* asset_clips
          voices,   \* voice handle -> VoiceState
          queued,   \* external: frames in the stream
          null,     \* no stream, only a clock
          advanced, \* advanced_once
          clipsMade, \* bound: clips ever made, the newest clip handle
          started,  \* auxiliary: voice handle -> the clip it was started with
          sound,    \* auxiliary: voice handle -> the frames of it that were heard
          missed,   \* auxiliary: voice handle -> how many were in refused blocks
          refusals, \* auxiliary: the blocks the stream refused
          stopped,  \* auxiliary: the voices somebody stopped
          updates   \* bound

audioVars == <<clipPool, resolved, voices, queued, null, advanced, clipsMade, started,
               sound, missed, refusals, stopped, updates>>

\* A map with one key inserted.
Inserting(map, key, value) == [k \in DOMAIN map \cup {key} |-> IF k = key THEN value ELSE map[k]]

Least(a, b) == IF a < b THEN a ELSE b

------------------------------------------------------------------------------
(* Clips.                                                                  *)
\* create_clip; a clip the mixer could not read is refused, and changes nothing.
CreateClip(clips, frames, asset) ==
  Inserting(clips, clipsMade + 1, [asset |-> asset, number |-> clipsMade + 1, frames |-> frames])

Destroyed(clips, handle) == Restrict(clips, DOMAIN clips \ {handle})

\* Any clip by its handle, the one an asset resolved to included.
DestroyClip(h) ==
  /\ h \in DOMAIN clipPool
  /\ clipPool' = Destroyed(clipPool, h)
  /\ UNCHANGED <<resolved, voices, queued, null, advanced, clipsMade, started,
                 sound, missed, refusals, stopped, updates>>

MakeClip(frames) ==
  /\ clipsMade < MaxClips /\ clipsMade' = clipsMade + 1
  /\ clipPool' = CreateClip(clipPool, frames, NoClip)
  /\ UNCHANGED <<resolved, voices, queued, null, advanced, started, sound, missed,
                 refusals, stopped, updates>>

\* An asset was decoded, again perhaps: the clip it had goes, if it is still there.
FinalisePending(a, frames) ==
  /\ clipsMade < MaxClips /\ clipsMade' = clipsMade + 1
  /\ clipPool' = CreateClip(Destroyed(clipPool, resolved[a]), frames, a)
  /\ resolved' = [resolved EXCEPT ![a] = clipsMade + 1]
  /\ UNCHANGED <<voices, queued, null, advanced, started, sound, missed, refusals,
                 stopped, updates>>

------------------------------------------------------------------------------
(* Voices.                                                                 *)
\* A handle that names no clip plays nothing, and neither does a voice too many.
Play(h, loop) ==
  /\ Cardinality(DOMAIN started) < MaxPlays
  /\ h \in DOMAIN clipPool /\ Cardinality(DOMAIN voices) < MaxVoices
  /\ LET v == Cardinality(DOMAIN started) + 1
     IN  /\ voices' = Inserting(voices, v, [clip |-> clipPool[h], handle |-> h, cursor |-> 0, loop |-> loop])
         /\ started' = Inserting(started, v, clipPool[h])
         /\ sound' = Inserting(sound, v, <<>>) /\ missed' = Inserting(missed, v, 0)
  /\ UNCHANGED <<clipPool, resolved, queued, null, advanced, clipsMade, refusals,
                 stopped, updates>>

Stop(v) ==
  /\ v \in DOMAIN voices
  /\ voices' = Destroyed(voices, v) /\ stopped' = stopped \cup {v}
  /\ UNCHANGED <<clipPool, resolved, queued, null, advanced, clipsMade, started,
                 sound, missed, refusals, updates>>

StopAll ==
  /\ voices # <<>>
  /\ voices' = <<>> /\ stopped' = stopped \cup DOMAIN voices
  /\ UNCHANGED <<clipPool, resolved, queued, null, advanced, clipsMade, started,
                 sound, missed, refusals, updates>>

------------------------------------------------------------------------------
(* Mixing.                                                                 *)
\* What a voice mixes from: its own reference.
SourceByHandle(voice) ==
  IF voice.handle \in DOMAIN clipPool THEN clipPool[voice.handle] ELSE [voice.clip EXCEPT !.frames = 0]
Source(voice) == voice.clip

\* mix_voice: the cursor after as many frames as are asked for or there are,
\* the frames that were mixed, and whether the voice sounds on.
MixVoice(voice, frames) ==
  LET clip == Source(voice)
      left == clip.frames - voice.cursor
      mixed == IF clip.frames = 0 THEN 0 ELSE IF voice.loop THEN frames ELSE Least(frames, left)
      frame(i) == IF voice.loop THEN (voice.cursor + i - 1) % clip.frames ELSE voice.cursor + i - 1
  IN  [cursor |-> IF mixed = 0 THEN voice.cursor ELSE frame(mixed) + 1,
       mixed |-> [i \in 1 .. mixed |-> <<clip.number, frame(i)>>],
       goes |-> clip.frames > 0 /\ mixed = frames]

\* mix_into_block: some of the voices that finished are retired after the walk;
\* one that is left has nothing more to mix, and goes after a later block.
Retired(mix) ==
  LET finished == {v \in DOMAIN mix : ~mix[v].goes}
  IN  {v \in finished : Cardinality({w \in finished : w < v}) < MaxRetired}

\* What was mixed of a voice is heard, with how many frames it missed before; or
\* it is missed too, as the stream refused the block.
HeardAfter(mixed, before) ==
  [i \in DOMAIN mixed |-> <<mixed[i][1], mixed[i][2], before>>]

MixIntoBlock(s, frames, taken) ==
  LET mix == [v \in DOMAIN s.voices |-> MixVoice(s.voices[v], frames)]
  IN  [s EXCEPT !.voices = [v \in DOMAIN s.voices \ Retired(mix) |->
                              [s.voices[v] EXCEPT !.cursor = mix[v].cursor]],
                !.sound = [v \in DOMAIN s.sound |->
                             IF taken /\ v \in DOMAIN mix
                             THEN s.sound[v] \o HeardAfter(mix[v].mixed, s.missed[v])
                             ELSE s.sound[v]],
                !.missed = [v \in DOMAIN s.missed |->
                              IF ~taken /\ v \in DOMAIN mix
                              THEN s.missed[v] + Len(mix[v].mixed) ELSE s.missed[v]]]

\* A pass mixes what there is room for, if there is not enough ahead yet.  A block
\* the stream refuses is lost, though the voices have moved on, and ends the passes.
Pass(s, refused) ==
  LET room == IF QueueMax > s.queued THEN QueueMax - s.queued ELSE 0
      frames == Least(BlockFrames, room)
      mixed == MixIntoBlock(s, frames, ~refused)
  IN  IF s.broken \/ s.queued >= Target \/ frames = 0 THEN s
      ELSE IF refused THEN [mixed EXCEPT !.broken = TRUE, !.refusals = @ + 1]
      ELSE [mixed EXCEPT !.queued = @ + frames]

Filled(s, refusing) ==
  LET pass[n \in 0 .. Passes] == IF n = 0 THEN s ELSE Pass(pass[n - 1], n = refusing)
  IN  pass[Passes]

\* Without a stream the voices advance by the clock, in blocks; there are no
\* more of them than frames.
Block(s, remaining) ==
  IF remaining <= 0 THEN s ELSE MixIntoBlock(s, Least(remaining, BlockFrames), TRUE)

AdvancedBy(s, wanted) ==
  LET block[n \in 0 .. wanted] ==
        IF n = 0 THEN s ELSE Block(block[n - 1], wanted - (n - 1) * BlockFrames)
  IN  block[wanted]

Mixing == [voices |-> voices, sound |-> sound, missed |-> missed, refusals |-> refusals,
           queued |-> queued, broken |-> FALSE]

Mixed(s) ==
  /\ voices' = s.voices /\ sound' = s.sound /\ missed' = s.missed
  /\ refusals' = s.refusals /\ queued' = s.queued

Update ==
  /\ updates < MaxUpdates /\ updates' = updates + 1
  /\ IF ~null
     THEN (\E refusing \in 0 .. Passes : Mixed(Filled(Mixing, refusing))) /\ UNCHANGED advanced
     ELSE /\ advanced' = TRUE
          /\ \E elapsed \in {0, 1, QueueMax + 1} :
               Mixed(AdvancedBy(Mixing, IF advanced THEN Least(elapsed, QueueMax) ELSE 0))
  /\ UNCHANGED <<clipPool, resolved, null, clipsMade, started, stopped>>

\* The sound card takes frames from the stream.
Drain ==
  /\ \E n \in {1, queued} \cap 1 .. queued : queued' = queued - n
  /\ UNCHANGED <<clipPool, resolved, voices, null, advanced, clipsMade, started,
                 sound, missed, refusals, stopped, updates>>

AudioInit ==
  /\ clipPool = <<>> /\ resolved = [a \in ClipAsset |-> NoClip]
  /\ voices = <<>> /\ queued = 0 /\ null \in BOOLEAN /\ advanced = FALSE
  /\ clipsMade = 0 /\ started = <<>> /\ sound = <<>>
  /\ missed = <<>> /\ refusals = 0 /\ stopped = {} /\ updates = 0

AudioNext ==
  \/ \E f \in ClipFrames : MakeClip(f) \/ \E a \in ClipAsset : FinalisePending(a, f)
  \/ \E h \in 1 .. clipsMade : DestroyClip(h) \/ \E loop \in BOOLEAN : Play(h, loop)
  \/ \E v \in DOMAIN voices : Stop(v)
  \/ StopAll \/ Update \/ Drain

AudioSpec == AudioInit /\ [][AudioNext]_audioVars

------------------------------------------------------------------------------
\* What is heard of a voice is the clip it was started with, frame after frame from
\* the beginning, once or again and again, and to its end unless it is stopped,
\* whatever is destroyed or made anew meanwhile; but for the blocks the stream
\* refused: their frames are passed over, exactly those, and a refusal costs a voice
\* no more than one block.  So a voice is heard whole where nothing was refused.
\* The stream never holds more than it may; and no clip of an asset is left that its
\* cache does not name (Device::update, AudioAssets).
SoundsThrough ==
  /\ \A v \in DOMAIN started :
       /\ \A i \in DOMAIN sound[v] :
            LET before == sound[v][i][3]
            IN  /\ before \in 0 .. missed[v]
                /\ sound[v][i] = <<started[v].number, (before + i - 1) % started[v].frames, before>>
       /\ v \notin DOMAIN voices \cup stopped => missed[v] + Len(sound[v]) = started[v].frames
       /\ missed[v] <= BlockFrames * refusals
  /\ queued <= QueueMax
  /\ \A h \in DOMAIN clipPool : clipPool[h].asset # NoClip => resolved[clipPool[h].asset] = h
==============================================================================
