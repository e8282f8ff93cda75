----------------------------- MODULE AudioMixer -----------------------------
(***************************************************************************)
(* Native playback: the Python thread that owns Sound and TrackPlayback    *)
(* objects, the playback handles they hold, and the SDL audio manager's    *)
(* thread that mixes their voices.  Handle and thread share a channel of   *)
(* commands, one reply channel per command, and one snapshot per voice     *)
(* that the owner reads at any time, also in the middle of a block.        *)
(*                                                                         *)
(* A voice that loops is one that does not end; volume, rate, pan, looping *)
(* and position are one command, "control", that changes nothing here.     *)
(***************************************************************************)
EXTENDS Naturals, Sequences, FiniteSets, Functions

CONSTANTS
  Sounds,      \* Sound objects, their sources are decoded assets
  Tracks,      \* TrackPlayback objects of finite tracks
  NoObject,    \* none of them
  MaxVoices,   \* bound: the greatest voice limit tried
  MaxIds       \* bound: voice ids ever used

Objects == Sounds \union Tracks

ASSUME AudioAssumption ==
  /\ Sounds \intersect Tracks = {} /\ NoObject \notin Objects
  /\ MaxVoices \in Nat \ {0} /\ MaxIds \in Nat

VARIABLES
  limit,       \* MAX_VOICES: one behaviour has one limit
  playback,    \* the voice id of each object's open native playback, 0 for none
  taken,       \* last_ended_generation of that playback
  owner,       \* the object whose method is running
  calls,       \* the native calls it has still to make: [op, id]
  reply,       \* of the first one: "unsent", "awaited", "ok" or "error"
  channel,     \* commands sent: [op, id, awaited]
  worker,      \* where the manager thread is
  nextId,      \* next_id
  voices,      \* the mixer's voices: id -> [paused, synth]
  unmixed,     \* the voices this block has not mixed yet
  ended,       \* those it found at their end, or failing
  snapshot,    \* id -> PlaybackSnapshot
  active,      \* diagnostics.active_voices
  stopped,     \* ghost: ids whose voices a Stop or Close took out
  failed,      \* ghost: ids whose mixing failed
  delivered    \* ghost: id -> on_ended callbacks run

ownerVars == <<playback, taken, owner, calls, reply>>
mixVars == <<limit, unmixed, ended>>
ghostVars == <<stopped, failed, delivered>>
audioVars == <<ownerVars, channel, worker, nextId, voices, mixVars, snapshot,
               active, ghostVars>>

\* The manager thread: not asked for yet, no device, at the head of its loop,
\* inside mix_block, after it, out of its loop after a device error, or ended.
Workers == {"absent", "refused", "commands", "mixing", "mixed", "leaving", "gone"}

\* The receiving end of the channel exists.
Alive == worker \in {"commands", "mixing", "mixed", "leaving"}

AudioInit ==
  /\ limit \in 1 .. MaxVoices
  /\ playback = [o \in Objects |-> 0] /\ taken = [o \in Objects |-> 0]
  /\ owner = NoObject /\ calls = <<>> /\ reply = "unsent"
  /\ channel = <<>>
  /\ worker = "absent" /\ nextId = 1 /\ voices = [i \in {} |-> {}]
  /\ unmixed = {} /\ ended = {}
  /\ snapshot = [i \in {} |-> {}] /\ active = 0
  /\ stopped = {} /\ failed = {} /\ delivered = [i \in 1 .. MaxIds |-> 0]

-----------------------------------------------------------------------------
(* What the owner's methods ask for.                                       *)

CallOf(op, id) == [op |-> op, id |-> id]

\* stop, then in any case close (try ... finally).
Closing(o) == IF playback[o] = 0 THEN <<>>
              ELSE <<CallOf("stop", playback[o]), CallOf("close", playback[o])>>

Begin(o, sequence) ==
  /\ owner = NoObject
  /\ owner' = o /\ calls' = sequence /\ reply' = "unsent"

Elsewhere == UNCHANGED <<channel, worker, nextId, voices, mixVars, snapshot, active,
                         stopped, failed>>

\* Sound.play gives up the playback it has for a new one; TrackPlayback.start is
\* called once, on an object that has none.
Play(o) ==
  /\ nextId <= MaxIds
  /\ o \in Tracks => playback[o] = 0
  /\ Begin(o, Append(Closing(o), CallOf("add", 0)))
  /\ playback' = [playback EXCEPT ![o] = 0]
  /\ UNCHANGED <<taken, delivered>> /\ Elsewhere

\* pause, volume, rate, pan, seek, looping; resume of a track.
Control(o, op) ==
  /\ playback[o] # 0
  /\ op = "resume" => o \in Tracks
  /\ op = "control" => o \in Sounds
  /\ Begin(o, <<CallOf(op, playback[o])>>)
  /\ UNCHANGED <<playback, taken, delivered>> /\ Elsewhere

\* Sound.stop, Sound.close, TrackPlayback.stop.
Stop(o) ==
  /\ playback[o] # 0
  /\ Begin(o, Closing(o))
  /\ playback' = [playback EXCEPT ![o] = 0]
  /\ UNCHANGED <<taken, delivered>> /\ Elsewhere

\* Mutant: a Sound that is collected leaves its voice alone.
CollectSilently(o) ==
  /\ playback[o] # 0 /\ owner = NoObject
  /\ playback' = [playback EXCEPT ![o] = 0]
  /\ UNCHANGED <<taken, owner, calls, reply, delivered>> /\ Elsewhere

\* The last reference goes: TrackPlayback.__del__ stops, a Sound's playback is
\* dropped, which closes it.
Collect(o) ==
  /\ playback[o] # 0
  /\ Begin(o, IF o \in Tracks THEN Closing(o) ELSE <<CallOf("close", playback[o])>>)
  /\ playback' = [playback EXCEPT ![o] = 0]
  /\ UNCHANGED <<taken, delivered>> /\ Elsewhere

\* Mutant: the generation taken is not remembered.
ObserveAgain(o) ==
  /\ owner = NoObject /\ playback[o] # 0
  /\ LET id == playback[o] IN
       /\ snapshot[id].ends # 0 /\ delivered[id] < 2
       /\ delivered' = [delivered EXCEPT ![id] = @ + 1]
  /\ UNCHANGED <<playback, taken, owner, calls, reply>> /\ Elsewhere

\* _poll_ended of time, is_playing, is_paused and playback_diagnostics: an end
\* that was not taken yet is, and the on_ended callbacks run.
Observe(o) ==
  /\ owner = NoObject /\ o \in Sounds /\ playback[o] # 0
  /\ LET id == playback[o] IN
       /\ snapshot[id].ends \notin {0, taken[o]}
       /\ taken' = [taken EXCEPT ![o] = snapshot[id].ends]
       /\ delivered' = [delivered EXCEPT ![id] = @ + 1]
  /\ UNCHANGED <<playback, owner, calls, reply>> /\ Elsewhere

\* TrackPlayback.join: wait until the snapshot does not say playing, then close.
Join(o) ==
  /\ o \in Tracks /\ playback[o] # 0
  /\ Begin(o, <<CallOf("wait", playback[o])>>)
  /\ UNCHANGED <<playback, taken, delivered>> /\ Elsewhere

Waiting == calls # <<>> /\ Head(calls).op = "wait"

JoinReturns ==
  /\ Waiting /\ ~snapshot[Head(calls).id].playing
  /\ calls' = <<CallOf("close", Head(calls).id)>>
  /\ playback' = [playback EXCEPT ![owner] = 0]
  /\ UNCHANGED <<taken, owner, reply, delivered>> /\ Elsewhere

\* The timeout of join, which leaves the playback, or an interrupt, which stops it.
JoinGivesUp ==
  /\ Waiting
  /\ \/ calls' = <<>> /\ owner' = NoObject /\ UNCHANGED playback
     \/ /\ calls' = Closing(owner) /\ UNCHANGED owner
        /\ playback' = [playback EXCEPT ![owner] = 0]
  /\ UNCHANGED <<taken, reply, delivered>> /\ Elsewhere

Asks ==
  \E o \in Objects :
    \/ Play(o) \/ Stop(o) \/ Collect(o) \/ Observe(o) \/ Join(o)
    \/ \E op \in {"pause", "resume", "control"} : Control(o, op)

-----------------------------------------------------------------------------
(* The calls, one after the other.                                         *)

Command(op, id, awaited) == [op |-> op, id |-> id, awaited |-> awaited]

\* manager(): the first playback starts the thread, which finds a device or not;
\* what it found is kept for good.
StartManager ==
  /\ worker = "absent" /\ calls # <<>> /\ Head(calls).op = "add" /\ reply = "unsent"
  /\ worker' \in {"commands", "refused"}
  /\ UNCHANGED <<ownerVars, channel, nextId, voices, mixVars, snapshot, active, ghostVars>>

Send ==
  /\ calls # <<>> /\ ~Waiting /\ reply = "unsent" /\ worker # "absent"
  /\ IF Alive
     THEN /\ channel' = Append(channel, Command(Head(calls).op, Head(calls).id, TRUE))
          /\ reply' = "awaited"
     ELSE reply' = "error" /\ UNCHANGED channel
  /\ UNCHANGED <<playback, taken, owner, calls, worker, nextId, voices, mixVars,
                 snapshot, active, ghostVars>>

\* What a method still does when one of its calls raises.
Finally(rest) ==
  IF rest # <<>> /\ Head(rest).op = "close" THEN <<Head(rest)>> ELSE <<>>

\* A call returns.  One that closes drops the handle then, which sends another
\* Close that nobody waits for; one that raises is followed by the close of a
\* finally clause only; an add that succeeded gives the object its playback.
Return ==
  /\ reply \in {"ok", "error"}
  /\ LET call == Head(calls)
         rest == Tail(calls)
     IN /\ calls' = IF reply = "ok" THEN rest ELSE Finally(rest)
        /\ channel' = IF call.op = "close" /\ Alive
                      THEN Append(channel, Command("close", call.id, FALSE)) ELSE channel
        /\ IF call.op = "add" /\ reply = "ok"
           THEN /\ playback' = [playback EXCEPT ![owner] = nextId - 1]
                /\ taken' = [taken EXCEPT ![owner] = 0]
           ELSE UNCHANGED <<playback, taken>>
  /\ owner' = IF calls' = <<>> THEN NoObject ELSE owner
  /\ reply' = "unsent"
  /\ UNCHANGED <<worker, nextId, voices, mixVars, snapshot, active, ghostVars>>

-----------------------------------------------------------------------------
(* The manager thread.                                                     *)

Started == [playing |-> TRUE, paused |-> FALSE, ends |-> 0, error |-> FALSE]

With(f, x, v) == [y \in DOMAIN f \union {x} |-> IF y = x THEN v ELSE f[y]]

Halted(s) == [s EXCEPT !.playing = FALSE, !.paused = FALSE]

Answer(command, answer) == reply' = IF command.awaited THEN answer ELSE reply

Applies(ops) ==
  /\ worker = "commands" /\ channel # <<>> /\ Head(channel).op \in ops
  /\ channel' = Tail(channel)
  /\ UNCHANGED <<playback, taken, owner, calls, worker, mixVars, failed>>

\* Add: refused at the limit, before an id is used; or because the voice cannot
\* be made, after.
ApplyAdd ==
  /\ Applies({"add"})
  /\ \/ /\ Cardinality(DOMAIN voices) >= limit
        /\ Answer(Head(channel), "error")
        /\ UNCHANGED <<nextId, voices, snapshot, active>>
     \/ /\ Cardinality(DOMAIN voices) < limit
        /\ nextId' = nextId + 1
        /\ \/ /\ voices' = With(voices, nextId, [paused |-> FALSE, synth |-> owner \in Tracks])
              /\ snapshot' = With(snapshot, nextId, Started)
              /\ active' = active + 1
              /\ Answer(Head(channel), "ok")
           \/ /\ Answer(Head(channel), "error")
              /\ UNCHANGED <<voices, snapshot, active>>
  /\ UNCHANGED <<stopped, delivered>>

\* Stop and Close: take the voice out if it is still there; both succeed anyway.
ApplyStop ==
  /\ Applies({"stop", "close"})
  /\ LET id == Head(channel).id
     IN IF id \in DOMAIN voices
        THEN /\ voices' = Restrict(voices, DOMAIN voices \ {id})
             /\ snapshot' = [snapshot EXCEPT ![id] = Halted(@)]
             /\ active' = active - 1
             /\ stopped' = stopped \union {id}
        ELSE UNCHANGED <<voices, snapshot, active, stopped>>
  /\ Answer(Head(channel), "ok")
  /\ UNCHANGED <<nextId, delivered>>

\* Every other update: an error when the voice is not there any more.
ApplyUpdate ==
  /\ Applies({"pause", "resume", "control"})
  /\ LET id == Head(channel).id
         op == Head(channel).op
     IN IF id \in DOMAIN voices
        THEN /\ voices' = [voices EXCEPT ![id].paused = op = "pause" \/ (op = "control" /\ @)]
             /\ snapshot' = [snapshot EXCEPT ![id].playing = ~voices'[id].paused,
                                             ![id].paused = voices'[id].paused]
             /\ Answer(Head(channel), "ok")
        ELSE Answer(Head(channel), "error") /\ UNCHANGED <<voices, snapshot>>
  /\ UNCHANGED <<nextId, active, stopped, delivered>>

\* The head of the loop: no command is waiting, there are voices, and the
\* device's queue is low.
BeginBlock ==
  /\ worker = "commands" /\ channel = <<>> /\ DOMAIN voices # {}
  /\ worker' = "mixing" /\ unmixed' = DOMAIN voices
  /\ UNCHANGED <<ownerVars, channel, nextId, voices, limit, ended, snapshot, active, ghostVars>>

\* Voice::stop(natural)
Ending(s) == [Halted(s) EXCEPT !.ends = @ + 1]

\* mix_into of the next voice, in the order of ids: a paused one is passed over,
\* others render on, reach their end or, if synths, fail.  A failure is found
\* like an end, but the snapshot is left as it is.
MixVoice ==
  /\ worker = "mixing" /\ unmixed # {}
  /\ \E id \in unmixed :
       /\ \A other \in unmixed : id <= other
       /\ unmixed' = unmixed \ {id}
       /\ \/ UNCHANGED <<ended, snapshot, failed>>
          \/ /\ ~voices[id].paused
             /\ ended' = ended \union {id}
             /\ \/ /\ snapshot' = [snapshot EXCEPT ![id] = Ending(@)]
                   /\ UNCHANGED failed
                \/ /\ voices[id].synth
                   /\ failed' = failed \union {id}
                   /\ UNCHANGED snapshot
  /\ UNCHANGED <<ownerVars, channel, worker, nextId, voices, limit, active, stopped, delivered>>

\* The end of mix_block: the voices that ended or failed are taken out.
EndBlock ==
  /\ worker = "mixing" /\ unmixed = {}
  /\ voices' = Restrict(voices, DOMAIN voices \ ended)
  /\ active' = active - Cardinality(ended)
  /\ ended' = {}
  /\ worker' = "mixed"
  /\ UNCHANGED <<ownerVars, channel, nextId, limit, unmixed, snapshot, ghostVars>>

\* The block is queued, the device's queue is not full yet: the next one, without
\* a look at the commands.
NextBlock ==
  /\ worker = "mixed" /\ DOMAIN voices # {}
  /\ worker' = "mixing" /\ unmixed' = DOMAIN voices
  /\ UNCHANGED <<ownerVars, channel, nextId, voices, limit, ended, snapshot, active, ghostVars>>

\* The block is queued, the queue is full or no voice is left.
QueueFilled ==
  /\ worker = "mixed"
  /\ worker' = "commands"
  /\ UNCHANGED <<ownerVars, channel, nextId, voices, mixVars, snapshot, active, ghostVars>>

\* Mutant: a voice that is taken away by a device error is only taken out.
ForgetAllVoices ==
  /\ voices' = Restrict(voices, {})
  /\ active' = 0
  /\ UNCHANGED snapshot

FailAllVoices ==
  /\ voices' = Restrict(voices, {})
  /\ snapshot' = [i \in DOMAIN snapshot |->
                    IF i \in DOMAIN voices THEN [Halted(snapshot[i]) EXCEPT !.error = TRUE]
                    ELSE snapshot[i]]
  /\ active' = active - Cardinality(DOMAIN voices)

\* The block cannot be queued: the voices fail, the thread goes on.
PutFails ==
  /\ worker = "mixed"
  /\ FailAllVoices
  /\ worker' = "commands"
  /\ UNCHANGED <<ownerVars, channel, nextId, mixVars, ghostVars>>

\* The queue cannot be asked for its size: the voices fail, the loop is left.
QueueFails ==
  /\ worker = "commands" /\ channel = <<>> /\ DOMAIN voices # {}
  /\ FailAllVoices
  /\ worker' = "leaving"
  /\ UNCHANGED <<ownerVars, channel, nextId, mixVars, ghostVars>>

\* Mutant: the commands still in the channel are kept, and so are their callers.
WorkerEndsHolding ==
  /\ worker = "leaving"
  /\ worker' = "gone"
  /\ UNCHANGED <<ownerVars, channel, nextId, voices, mixVars, snapshot, active, ghostVars>>

\* The receiver is dropped with the commands in it, and so are their reply
\* channels: who waits for one gets an error.  No other thread is ever started.
WorkerEnds ==
  /\ worker = "leaving"
  /\ worker' = "gone"
  /\ channel' = <<>>
  /\ reply' = IF reply = "awaited" THEN "error" ELSE reply
  /\ UNCHANGED <<playback, taken, owner, calls, nextId, voices, mixVars, snapshot,
                 active, ghostVars>>

-----------------------------------------------------------------------------
Owner == StartManager \/ Send \/ Return \/ JoinReturns

Worker ==
  \/ ApplyAdd \/ ApplyStop \/ ApplyUpdate \/ BeginBlock \/ MixVoice \/ EndBlock
  \/ NextBlock \/ QueueFilled \/ PutFails \/ QueueFails \/ WorkerEnds

AudioNext == Asks \/ JoinGivesUp \/ Owner \/ Worker

\* Both threads keep running; and since mixing is faster than the device plays,
\* a queue that is asked again and again is full at some time.  Nothing is
\* assumed of what the owner asks for, nor of the device's errors.
AudioSpec ==
  /\ AudioInit /\ [][AudioNext]_audioVars
  /\ WF_audioVars(Owner) /\ WF_audioVars(Worker) /\ SF_audioVars(QueueFilled)

-----------------------------------------------------------------------------
(* Properties.                                                             *)

\* The voice limit is kept, the diagnostics count the voices there are, and none
\* is left to itself: an object plays it, or a command that stops it is about to
\* be sent or in the channel (PlaybackHandle::drop, CanvasAudioPlayback::drop,
\* Sound.play and its finally clause).
VoicesAccounted ==
  /\ active = Cardinality(DOMAIN voices) /\ active <= limit
  /\ \A id \in DOMAIN voices :
       \/ \E o \in Objects : playback[o] = id
       \/ \E k \in DOMAIN calls : calls[k].id = id
       \/ \E k \in DOMAIN channel : channel[k].id = id /\ channel[k].op \in {"stop", "close"}
       \/ calls # <<>> /\ Head(calls).op = "add" /\ reply = "ok" /\ id = nextId - 1

\* What a playback says of itself is so: playing or paused as the mixer's voice
\* is, ended at most once; and a voice that is gone was stopped, has ended, or
\* reports the device's error.  Only a synth whose rendering failed goes without
\* a word: its playback says playing for ever (mix_block, update, fail_all_voices).
PlaybackTruthful ==
  \A id \in DOMAIN snapshot :
    LET s == snapshot[id] IN
    /\ s.playing => id \in failed \/ (id \in DOMAIN voices /\ ~voices[id].paused)
    /\ s.paused => id \in DOMAIN voices /\ voices[id].paused
    /\ id \in DOMAIN voices \ ended => s.playing = ~s.paused
    /\ id \notin DOMAIN voices => id \in stopped \union failed \/ s.ends = 1 \/ s.error
    /\ s.ends <= 1 /\ (s.ends = 1 => ~s.error)

\* on_ended callbacks run at most once for a playback that reached its end (never,
\* if its Sound plays again before it was polled) and never for another; and a Sound
\* that plays again has not yet taken the end of its new playback, whose
\* generations start over (take_ended, _poll_ended, Sound.play).
EndDeliveredOnce ==
  /\ \A id \in 1 .. MaxIds :
       delivered[id] <= IF id \in DOMAIN snapshot THEN snapshot[id].ends ELSE 0
  /\ \A o \in Sounds : playback[o] # 0 => taken[o] = delivered[playback[o]]

\* A voice that no object plays.
Abandoned(id) ==
  id \in DOMAIN voices /\ ~\E o \in Objects : playback[o] = id

\* Every call into the mixer returns, also when its thread ends first, and a voice
\* given up by its object is taken out, so that the limit is not used up by voices
\* that nobody can stop (command, Drop, run_manager).
CommandsSettled ==
  /\ (reply = "awaited") ~> (reply # "awaited")
  /\ \A id \in 1 .. MaxIds : Abandoned(id) ~> ~Abandoned(id)
=============================================================================
