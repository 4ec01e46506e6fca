---------------------------- MODULE MediaSession ----------------------------
(* One media session (gpty-media): the decode thread, its bounded queues,    *)
(* the seeks with their serials, and the media pane that asks, polls, plays  *)
(* and closes (media_api.rs, media_pane.gd).                                 *)
(*                                                                           *)
(* The file is a line of instants 0..Length-1, each with a video frame and   *)
(* an audio chunk; a seek lands on a key frame at or before its target.      *)
(* Pictures, samples and the pane's clock are left out: a frame that is due  *)
(* is shown at any time.                                                     *)
EXTENDS Integers, Sequences, SequencesExt

CONSTANTS
    Length,          \* instants of the file
    KeyFrames,       \* instants a seek can land on
    Kinds,           \* sets of streams the file may have
    CommandLimit,    \* room of the command channel
    FrameLimit,      \* VIDEO_QUEUE_FRAMES, AUDIO_QUEUE_CHUNKS
    Backlog,         \* VIDEO_BACKLOG_FRAMES, AUDIO_PENDING_MAX
    MaxSeeks         \* bound: seeks the pane asks for

ASSUME MediaAssumption ==
    /\ Length \in Nat \ {0} /\ CommandLimit \in Nat \ {0} /\ FrameLimit \in Nat \ {0}
    /\ Backlog \in Nat \ {0} /\ MaxSeeks \in Nat
    /\ 0 \in KeyFrames /\ KeyFrames \subseteq 0..Length - 1
    /\ Kinds \subseteq SUBSET {"video", "audio"} \ {{}}

VARIABLES
    streams,    \* the streams this file has
    requests,   \* the channel: [position, serial], serial 0 for Stop
    pendingSerial, \* Shared.pending
    epoch,      \* Shared.epoch
    stop,       \* Shared.stop
    state,      \* StatusInner.state
    queued,     \* per stream, the frames on their way: [epoch, at]
    decoder,    \* where the worker is
    toSend,     \* frames of the packet read that are not queued yet
    next,       \* the instant the demuxer reads next
    skipUntil,  \* per stream, VideoCursor and AudioCursor
    phase,      \* where the pane is within a frame of the GUI
    asked,      \* the serial of the last seek that was accepted
    target,     \* its position
    backlog,    \* per stream, _pending_frames and _pending_audio
    paused,     \* _paused
    finished,   \* _finished
    announced,  \* _finished_announced
    looping,    \* loop_enabled
    wanted,     \* the position of the seek under way
    polled      \* streams whose queue this frame of the GUI is done with

channel == <<requests, pendingSerial, epoch, stop, state>>
decoding == <<decoder, toSend, next, skipUntil>>
mediaPane == <<asked, target, backlog, paused, finished, announced, looping, wanted, polled>>
mediaVars == <<streams, requests, pendingSerial, epoch, stop, state, queued,
               decoder, toSend, next, skipUntil, phase, asked, target, backlog,
               paused, finished, announced, looping, wanted, polled>>

Streams == {"video", "audio"}
Instants == 0..Length - 1
NoTarget == -1
Nothing == [s \in Streams |-> <<>>]

MediaInit ==
    /\ streams \in Kinds
    /\ requests = <<>> /\ pendingSerial = 0 /\ epoch = 0 /\ stop = FALSE /\ state = "opening"
    /\ queued = Nothing
    /\ decoder = "opening" /\ toSend = {} /\ next = 0
    /\ skipUntil = [s \in Streams |-> NoTarget]
    /\ phase = "idle" /\ asked = 0 /\ target = 0 /\ backlog = Nothing
    /\ paused = FALSE /\ finished = FALSE /\ announced = FALSE
    /\ looping \in BOOLEAN /\ wanted = 0 /\ polled = {}

(***************************************************************************)
(* The decode thread                                                       *)
(***************************************************************************)

(* open_input within its budget: the stream information, or a refusal. *)
OpenInput ==
    /\ decoder = "opening"
    /\ \/ decoder' = "decode" /\ state' = "playing"
       \/ decoder' = "gone" /\ state' = "failed"
    /\ UNCHANGED <<streams, requests, pendingSerial, epoch, stop, queued, toSend, next,
                   skipUntil, phase, mediaPane>>

(* The stop flag is seen between packets, while the file is opened and while *)
(* a queue has no room; the last two leave an error nobody reads.           *)
Turn == IF "video" \in toSend THEN "video" ELSE "audio"

LeaveOnStop ==
    /\ stop
    /\ \/ decoder \in {"decode", "ended"} /\ state' = state
       \/ decoder = "opening" /\ state' = "failed"
       \/ decoder = "sending" /\ toSend # {} /\ Len(queued[Turn]) = FrameLimit
          /\ state' = "failed"
    /\ decoder' = "gone" /\ toSend' = {}
    /\ UNCHANGED <<streams, requests, pendingSerial, epoch, stop, queued, next, skipUntil,
                   phase, mediaPane>>

KeyFrame(position) ==
    CHOOSE k \in KeyFrames : /\ k <= position
                             /\ \A other \in KeyFrames : other <= position => other <= k

(* The seek is applied: the serial is published, and what the demuxer reads *)
(* before the target is skipped.                                            *)
Applied(seek) ==
    /\ epoch' = seek.serial
    /\ next' = KeyFrame(seek.position)
    /\ skipUntil' = [s \in Streams |-> seek.position]
    /\ decoder' = "decode"

(* A command, taken between packets or after the end.  A seek FFmpeg        *)
(* refuses fails the session: a decoder that was running stays for the      *)
(* next seek, one that had finished ends.                                   *)
TakeCommand ==
    /\ decoder \in {"decode", "ended"} /\ requests # <<>>
    /\ requests' = Tail(requests)
    /\ \/ /\ Head(requests).serial = 0
          /\ decoder' = "gone"
          /\ UNCHANGED <<state, epoch, next, skipUntil>>
       \/ /\ Head(requests).serial # 0 /\ Applied(Head(requests))
          /\ state' = IF decoder = "ended" THEN "playing" ELSE state
       \/ /\ Head(requests).serial # 0
          /\ state' = "failed"
          /\ decoder' = IF decoder = "decode" THEN "ended" ELSE "gone"
          /\ UNCHANGED <<epoch, next, skipUntil>>
    /\ UNCHANGED <<streams, pendingSerial, stop, queued, toSend, phase, mediaPane>>

(* No command is waiting: the next packet is read, and a call into          *)
(* libavcodec may keep the thread for as long as it likes.                  *)
EnterRead ==
    /\ decoder = "decode" /\ requests = <<>>
    /\ decoder' = "reading"
    /\ UNCHANGED <<streams, channel, queued, toSend, next, skipUntil, phase, mediaPane>>

Hang ==
    /\ decoder = "reading" /\ decoder' = "stuck"
    /\ UNCHANGED <<streams, channel, queued, toSend, next, skipUntil, phase, mediaPane>>

Return ==
    /\ decoder = "stuck" /\ decoder' = "reading"
    /\ UNCHANGED <<streams, channel, queued, toSend, next, skipUntil, phase, mediaPane>>

(* Its frames are decoded.  A picture before the target is dropped, and a   *)
(* sound that ends before it.                                               *)
Due(s) ==
    \/ skipUntil[s] = NoTarget
    \/ IF s = "video" THEN next >= skipUntil[s] ELSE next + 1 >= skipUntil[s]

ReadPacket ==
    /\ decoder = "reading"
    /\ \/ /\ next < Length
          /\ toSend' = {s \in streams : Due(s)}
          /\ skipUntil' = [s \in Streams |-> IF s \in toSend' THEN NoTarget ELSE skipUntil[s]]
          /\ decoder' = "sending"
          /\ UNCHANGED <<state, next>>
       \/ /\ next = Length                            \* Eof: finish, stay for a replay
          /\ state' = "finished" /\ decoder' = "ended"
          /\ UNCHANGED <<toSend, next, skipUntil>>
       \/ /\ state' = "failed" /\ decoder' = "gone"   \* a packet that does not decode
          /\ UNCHANGED <<toSend, next, skipUntil>>
    /\ UNCHANGED <<streams, requests, pendingSerial, epoch, stop, queued, phase, mediaPane>>

(* send_bounded: a frame carries the epoch of the moment; a full queue is    *)
(* waited for, video before audio.                                          *)
Tagged(serial) == [epoch |-> serial, at |-> next]

SendFrame ==
    /\ decoder = "sending"
    /\ \/ /\ toSend # {} /\ Len(queued[Turn]) < FrameLimit
          /\ queued' = [queued EXCEPT ![Turn] = Append(@, Tagged(epoch))]
          /\ toSend' = toSend \ {Turn}
          /\ UNCHANGED <<decoder, next>>
       \/ /\ toSend = {}
          /\ decoder' = "decode" /\ next' = next + 1
          /\ UNCHANGED <<queued, toSend>>
    /\ UNCHANGED <<streams, channel, skipUntil, phase, mediaPane>>

(***************************************************************************)
(* Seeks of the pane                                                       *)
(***************************************************************************)

(* MediaSession::seek, called by the slider, by a replay and by a loop:     *)
(* the serial is claimed first ...                                          *)
BeginSeek(position) ==
    /\ pendingSerial' = pendingSerial + 1
    /\ wanted' = position
    /\ phase' = "seeking"

AskSeek ==
    /\ phase = "idle" /\ pendingSerial < MaxSeeks
    /\ \E position \in Instants : BeginSeek(position)
    /\ UNCHANGED <<streams, requests, epoch, stop, state, queued, decoding, asked, target,
                   backlog, paused, finished, announced, looping, polled>>

(* ... then the command queued, with room, and the pane drops what it has   *)
(* of the timeline before it (_reset_after_seek).                           *)
SeekQueued ==
    /\ phase = "seeking" /\ decoder # "gone" /\ Len(requests) < CommandLimit
    /\ requests' = Append(requests, [position |-> wanted, serial |-> pendingSerial])
    /\ asked' = pendingSerial /\ target' = wanted
    /\ backlog' = Nothing /\ finished' = FALSE /\ announced' = FALSE
    /\ phase' = "idle"
    /\ UNCHANGED <<streams, pendingSerial, epoch, stop, state, queued, decoding, paused,
                   looping, wanted, polled>>

(* abandon_seek: no room within COMMAND_TIMEOUT, or nobody to take it.  A   *)
(* loop that cannot restart is announced as the end.                        *)
Abandoned == pendingSerial - 1

SeekRefused ==
    /\ phase = "seeking" /\ (decoder = "gone" \/ Len(requests) = CommandLimit)
    /\ pendingSerial' = Abandoned
    /\ announced' = (announced \/ (finished /\ looping))
    /\ phase' = "idle"
    /\ UNCHANGED <<streams, requests, epoch, stop, state, queued, decoding, asked, target,
                   backlog, paused, finished, looping, wanted, polled>>

(***************************************************************************)
(* A frame of the pane: status, then the queues, then the end              *)
(***************************************************************************)

(* _poll_backend reads the status; a failure is shown and closes (below). *)
ReadStatus ==
    /\ phase = "idle" /\ state # "failed"
    /\ finished' = (finished \/ state = "finished")
    /\ phase' = IF paused THEN "idle" ELSE "drain"
    /\ UNCHANGED <<streams, channel, queued, decoding, asked, target, backlog, paused,
                   announced, looping, wanted, polled>>

(* poll_video, poll_audio: what is queued is taken, and handed on only when *)
(* no seek is outstanding and the frame is of the epoch in force.           *)
Settled == pendingSerial = epoch

\* Flawed: an outstanding seek does not withhold frames.
PresentableEarly(frame) == frame.epoch = epoch

Presentable(frame) == Settled /\ frame.epoch = epoch

(* A frame that is not handed on looks like an empty queue to the pane,     *)
(* which asks again in its next frame.                                      *)
Wanted(s) == s \notin polled /\ Len(backlog[s]) < Backlog /\ queued[s] # <<>>

DrainQueue ==
    /\ phase = "drain"
    /\ \E s \in streams :
         /\ Wanted(s)
         /\ queued' = [queued EXCEPT ![s] = Tail(@)]
         /\ \/ /\ Presentable(Head(queued[s]))
               /\ backlog' = [backlog EXCEPT ![s] = Append(@, Head(queued[s]))]
               /\ UNCHANGED polled
            \/ /\ ~Presentable(Head(queued[s]))
               /\ polled' = polled \cup {s} /\ UNCHANGED backlog
    /\ UNCHANGED <<streams, channel, decoding, phase, asked, target, paused, finished,
                   announced, looping, wanted>>

(* _poll_video, _feed_audio: what is due is shown or played. *)
Present ==
    /\ phase = "drain"
    /\ \E s \in streams : /\ backlog[s] # <<>>
                          /\ backlog' = [backlog EXCEPT ![s] = Tail(@)]
    /\ UNCHANGED <<streams, channel, queued, decoding, phase, asked, target, paused,
                   finished, announced, looping, wanted, polled>>

(* The end: announced, or the file starts again, once nothing is left here; *)
(* sound that is still playing puts it off.                                 *)
CaughtUp == finished /\ ~announced /\ backlog = Nothing

EndPoll ==
    /\ phase = "drain" /\ \A s \in streams : ~Wanted(s)
    /\ polled' = {}
    /\ \/ /\ CaughtUp /\ looping /\ pendingSerial < MaxSeeks
          /\ BeginSeek(0) /\ UNCHANGED announced
       \/ /\ CaughtUp /\ ~looping
          /\ announced' = TRUE /\ phase' = "idle"
          /\ UNCHANGED <<pendingSerial, wanted>>
       \/ /\ ~CaughtUp \/ "audio" \in streams \/ pendingSerial = MaxSeeks
          /\ phase' = "idle" /\ UNCHANGED <<pendingSerial, wanted, announced>>
    /\ UNCHANGED <<streams, requests, epoch, stop, state, queued, decoding, asked, target,
                   backlog, paused, finished, looping>>

(* _toggle_pause: a file that has ended starts again from the beginning. *)
TogglePause ==
    /\ phase = "idle"
    /\ \/ /\ announced /\ ~looping /\ pendingSerial < MaxSeeks
          /\ finished' = FALSE /\ announced' = FALSE /\ paused' = FALSE
          /\ BeginSeek(0)
       \/ /\ ~announced \/ looping
          /\ paused' = ~paused
          /\ UNCHANGED <<finished, announced, pendingSerial, wanted, phase>>
    /\ UNCHANGED <<streams, requests, epoch, stop, state, queued, decoding, asked, target,
                   backlog, looping, polled>>

(***************************************************************************)
(* Closing                                                                 *)
(***************************************************************************)

(* The pane closes, or shows a failure: the flag, a Stop if there is room,  *)
(* and the wait (stop_and_join) ...                                         *)
CloseMedia ==
    /\ phase = "idle"
    /\ stop' = TRUE
    /\ requests' = IF Len(requests) < CommandLimit /\ decoder # "gone"
                   THEN Append(requests, [position |-> 0, serial |-> 0]) ELSE requests
    /\ phase' = "joining" /\ backlog' = Nothing
    /\ UNCHANGED <<streams, pendingSerial, epoch, state, queued, decoding, asked, target,
                   paused, finished, announced, looping, wanted, polled>>

(* ... which ends with the thread, or leaves it behind (CLOSE_TIMEOUT_MS). *)
Join ==
    /\ phase = "joining" /\ phase' = "closed"
    /\ UNCHANGED <<streams, channel, queued, decoding, mediaPane>>

DecoderStep ==
    OpenInput \/ LeaveOnStop \/ TakeCommand \/ EnterRead \/ ReadPacket \/ SendFrame
PaneStep == ReadStatus \/ DrainQueue \/ EndPoll \/ SeekQueued \/ SeekRefused \/ Join

MediaNext ==
    \/ DecoderStep \/ Hang \/ Return
    \/ PaneStep \/ Present \/ AskSeek \/ TogglePause \/ CloseMedia

MediaSpec == MediaInit /\ [][MediaNext]_mediaVars

(***************************************************************************)
(* What a session promises                                                 *)
(***************************************************************************)

Frames == [epoch : 0..MaxSeeks, at : Instants]

\* Type correctness of a media session and its pane; the queues keep their bounds.
MediaTypeOK ==
    /\ streams \in Kinds
    /\ requests \in Seq([position : Instants, serial : 0..MaxSeeks])
    /\ Len(requests) <= CommandLimit
    /\ pendingSerial \in 0..MaxSeeks /\ epoch \in 0..MaxSeeks /\ asked \in 0..MaxSeeks
    /\ stop \in BOOLEAN /\ state \in {"opening", "playing", "finished", "failed"}
    /\ \A s \in Streams : /\ queued[s] \in Seq(Frames) /\ Len(queued[s]) <= FrameLimit
                          /\ backlog[s] \in Seq(Frames) /\ Len(backlog[s]) <= Backlog
    /\ decoder \in {"opening", "decode", "reading", "stuck", "sending", "ended", "gone"}
    /\ toSend \subseteq streams /\ next \in 0..Length
    /\ skipUntil \in [Streams -> Instants \cup {NoTarget}]
    /\ phase \in {"idle", "seeking", "drain", "joining", "closed"}
    /\ target \in Instants /\ wanted \in Instants
    /\ <<paused, finished, announced, looping>> \in BOOLEAN \X BOOLEAN \X BOOLEAN \X BOOLEAN
    /\ polled \subseteq streams

\* What the pane holds to show was decoded for the last seek it asked for, in
\* order and from its target on: nothing of a timeline that was left reaches it.
FramesOfThisTimeline ==
    \A s \in Streams : \A i \in 1..Len(backlog[s]) :
        /\ backlog[s][i].epoch = asked
        /\ backlog[s][i].at >= IF s = "video" THEN target ELSE target - 1
        /\ i > 1 => backlog[s][i].at > backlog[s][i - 1].at

\* A seek that was claimed is applied, or undone, while the decoder is neither
\* held in a library call nor gone: the pane drains what blocks it.  A paused
\* pane drains nothing.
SeekIsApplied ==
    (pendingSerial # epoch /\ ~paused /\ decoder # "stuck" /\ state # "failed") ~>
        (pendingSerial = epoch \/ paused \/ state = "failed" \/ stop
            \/ decoder \in {"stuck", "gone"})

\* A decoder that was told to stop leaves, unless a library call holds it.
StoppedDecoderLeaves == stop ~> decoder \in {"gone", "stuck"}
=============================================================================
