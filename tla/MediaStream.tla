----------------------------- MODULE MediaStream -----------------------------
(***************************************************************************)
(* One media stream of a worker: infrastructure/media_stream.              *)
(*                                                                         *)
(* The stream loop reads a media source and puts messages into a ring; the *)
(* dispatch loop takes them out and fans them out to the frame channels;   *)
(* each channel is read by a thread of a recognition module.  The loops    *)
(* are coroutines of one event loop: what either does between two awaits   *)
(* is atomic for the other, not for the threads of the modules.            *)
(***************************************************************************)
EXTENDS Integers, Sequences, FiniteSets, SequencesExt, Selection

CONSTANTS
    ChannelOrder,   \* the channels in the order of add_channel
    Media,          \* what the source has: a sequence of StreamMessages
    NoMsg,          \* no message
    CacheSize,      \* slots of the ring
    ChannelSize,    \* capacity of a channel's queue
    Attempts,       \* how often the gRPC source connects
    Configs         \* how a stream is used: [source, meta, fps, subtitle, faults]

Channels == Range(ChannelOrder)

(* What may go wrong: an attempt of the source, an error it reports, its   *)
(* set-up, an end without a last message; a stop from outside; a module    *)
(* that raises, or has enough.                                             *)
AllFaults == {"rpc", "code", "setup", "truncate", "stop", "fail", "leave"}

ASSUME ChannelAssumption ==
    ChannelOrder \in Seq(Channels) /\ IsInjective(ChannelOrder)

ASSUME MediaAssumption ==
    /\ Media \in Seq([id: Nat, image: BOOLEAN, last: BOOLEAN]) /\ Media # <<>>
    /\ \A i \in 1 .. Len(Media) : Media[i].last <=> i = Len(Media)
    /\ NoMsg \notin Range(Media)

ASSUME LimitAssumption ==
    /\ CacheSize \in Nat \ {0} /\ ChannelSize \in Nat \ {0} /\ Attempts \in Nat \ {0}
    /\ Configs \subseteq [source: {"grpc", "ffmpeg"}, meta: Nat, fps: [Channels -> Nat],
                          subtitle: SUBSET Channels, faults: SUBSET AllFaults]

Ring == INSTANCE CircularQueue WITH Size <- CacheSize, NoItem <- NoMsg

VARIABLES
    config,         \* the member of Configs this stream runs with
    process_steps,  \* per channel; -1: no entry yet
    src,            \* stream loop: where it is, next message, attempt
    dis,            \* dispatch loop: where it is, message, channels left to serve
    cancelled,      \* loops with a CancelledError on its way
    is_stopped, is_dispatching,
    cache,          \* the ring
    channels,       \* message_channels: the channels still registered
    ch,             \* per channel: queue, mark_closed, queue closed
    con,            \* per channel, its reader: where it is, what it has got
    accepted        \* history: all messages that entered the ring

vars == <<config, process_steps, src, dis, cancelled, is_stopped, is_dispatching,
          cache, channels, ch, con, accepted>>

control == <<cancelled, is_stopped>>

SrcEnd == {"ended", "raised", "truncated"}
ConEnd == {"done", "left", "failed", "cleaned"}

Init ==
    /\ config \in Configs
    /\ process_steps = [c \in Channels |-> -1]
    /\ src = [pc |-> "new", next |-> 1, attempt |-> 1]
    /\ dis = [pc |-> "new", msg |-> NoMsg, todo |-> <<>>]
    /\ cancelled = {} /\ is_stopped = FALSE /\ is_dispatching = FALSE
    /\ cache = Ring!EmptyRing
    /\ channels = Channels
    /\ ch = [c \in Channels |-> [queue |-> <<>>, mark_closed |-> FALSE, closed |-> FALSE]]
    /\ con = [c \in Channels |-> [pc |-> "test", got |-> <<>>]]
    /\ accepted = <<>>

-----------------------------------------------------------------------------
(* Closing.                                                                *)

MarkClosed(C) == [c \in Channels |-> [ch[c] EXCEPT !.mark_closed = @ \/ c \in C]]

RemoveChannels(C) == ch' = MarkClosed(C) /\ channels' = channels \ C

Unfinished ==
    (IF src.pc \in SrcEnd THEN {} ELSE {"stream"}) \union
    (IF dis.pc = "ended" THEN {} ELSE {"dispatch"})

StopAll_KeepsLoops ==
    /\ is_stopped' = TRUE /\ UNCHANGED cancelled
    /\ RemoveChannels(channels)

(* force_stop: the loops are cancelled, the one that calls it included. *)
StopAll ==
    /\ is_stopped' = TRUE
    /\ cancelled' = cancelled \union Unfinished
    /\ RemoveChannels(channels)

(* The dispatch loop runs without an await while it serves channels. *)
LoopFree == dis.pc # "serve"

-----------------------------------------------------------------------------
(* Frame rates.                                                            *)

ChannelFps == {config.fps[c] : c \in Channels} \ {0}

FpsKnown == ChannelFps # {} \/ config.meta # 0

DecodeFps ==
    LET top == CHOOSE f \in ChannelFps : \A g \in ChannelFps : g <= f
    IN  IF ChannelFps = {} THEN config.meta
        ELSE IF config.meta = 0 THEN top
        ELSE IF top > config.meta THEN config.meta ELSE top

StepOf(c) == IF config.fps[c] > 0 THEN DecodeFps \div config.fps[c] ELSE 1

-----------------------------------------------------------------------------
(* Stream loop.                                                            *)

SrcGoto(p) == src' = [src EXCEPT !.pc = p]

(* What the stream loop leaves alone when it only moves on. *)
SrcFrame == UNCHANGED <<config, dis, is_dispatching, cache, con, accepted>>

(* An exception inside the try of _stream_loop stops everything. *)
SrcFails(p) == src.pc = p /\ SrcGoto("ended") /\ StopAll /\ UNCHANGED process_steps /\ SrcFrame

SrcRuns(p) == src.pc = p /\ LoopFree /\ "stream" \notin cancelled

(* The frame rates are settled outside the try: when they cannot be, the   *)
(* task dies and stops nothing.                                            *)
StreamStart ==
    /\ SrcRuns("new")
    /\ \/ /\ FpsKnown
          /\ process_steps' = [c \in Channels |->
                                 IF c \in channels THEN StepOf(c) ELSE process_steps[c]]
          /\ SrcGoto("setup")
       \/ ~FpsKnown /\ SrcGoto("raised") /\ UNCHANGED process_steps
    /\ UNCHANGED <<control, channels, ch>> /\ SrcFrame

StreamSetup ==
    /\ SrcRuns("setup")
    /\ SrcGoto("wait")
    /\ UNCHANGED <<control, process_steps, channels, ch>> /\ SrcFrame

SetupFails == "setup" \in config.faults /\ SrcRuns("setup") /\ SrcFails("setup")

StreamWait ==
    /\ SrcRuns("wait") /\ is_dispatching
    /\ SrcGoto("fetch")
    /\ UNCHANGED <<control, process_steps, channels, ch>> /\ SrcFrame

(* Whether _on_message, having cached m, tells the source to stop.  The    *)
(* ffmpeg source does not look at the answer for the audio it sends first. *)
StopsSource(m) ==
    /\ channels = {} \/ m.last
    /\ ~(config.source = "ffmpeg" /\ ~m.image /\ ~m.last)

(* _on_message: a full ring is tried again after a sleep. *)
Accept(p) ==
    LET m == Media[src.next]
    IN  /\ SrcRuns(p)
        /\ IF p = "fetch" /\ is_stopped THEN SrcGoto("ended") /\ UNCHANGED <<cache, accepted>>
           ELSE IF Ring!IsFull(cache) THEN SrcGoto("full") /\ UNCHANGED <<cache, accepted>>
           ELSE /\ cache' = Ring!Enqueue(cache, m)
                /\ accepted' = Append(accepted, m)
                /\ src' = IF StopsSource(m) THEN [src EXCEPT !.pc = "ended"]
                          ELSE [src EXCEPT !.pc = "fetch", !.next = @ + 1]
        /\ UNCHANGED <<config, process_steps, dis, is_dispatching, con>>
        /\ UNCHANGED <<control, channels, ch>>

StreamMessage == Accept("fetch")

StreamRetryPut == Accept("full")

(* A gRPC error or a connection that cannot be made ends one attempt.      *)
StreamBreaks ==
    /\ "rpc" \in config.faults /\ config.source = "grpc"
    /\ SrcRuns("fetch") /\ SrcGoto("retry")
    /\ UNCHANGED <<control, process_steps, channels, ch>> /\ SrcFrame

(* The next attempt asks for the media again; from where the media worker  *)
(* answers is its affair.                                                  *)
StreamRetry ==
    /\ SrcRuns("retry") /\ src.attempt < Attempts
    /\ \E n \in 1 .. src.next :
         src' = [pc |-> "fetch", next |-> n, attempt |-> src.attempt + 1]
    /\ UNCHANGED <<control, process_steps, channels, ch>> /\ SrcFrame

StreamGivesUp == SrcRuns("retry") /\ src.attempt = Attempts /\ SrcFails("retry")

(* An answer with an error code, or an exception of the decoder. *)
StreamError == "code" \in config.faults /\ SrcRuns("fetch") /\ SrcFails("fetch")

(* The answers end without one marked finish: the loop ends as if done. *)
StreamTruncated ==
    /\ "truncate" \in config.faults /\ config.source = "grpc"
    /\ SrcRuns("fetch") /\ SrcGoto("truncated")
    /\ UNCHANGED <<control, process_steps, channels, ch>> /\ SrcFrame

StreamCancelled ==
    /\ src.pc \notin SrcEnd /\ LoopFree /\ "stream" \in cancelled
    /\ SrcGoto("ended")
    /\ UNCHANGED <<control, process_steps, channels, ch>> /\ SrcFrame

Stream ==
    \/ StreamStart \/ StreamSetup \/ StreamWait \/ StreamMessage \/ StreamRetryPut
    \/ StreamRetry \/ StreamGivesUp \/ StreamCancelled

StreamFaults == SetupFails \/ StreamBreaks \/ StreamError \/ StreamTruncated

-----------------------------------------------------------------------------
(* Dispatch loop.                                                          *)

DisFrame == UNCHANGED <<config, process_steps, src, con, accepted>>

Idle(p) == [pc |-> p, msg |-> NoMsg, todo |-> <<>>]

DispatchEnds == dis' = Idle("ended") /\ is_dispatching' = FALSE

DispatchStart ==
    /\ dis.pc = "new" /\ LoopFree /\ "dispatch" \notin cancelled
    /\ is_dispatching' = TRUE /\ dis' = Idle("poll")
    /\ UNCHANGED <<control, cache, channels, ch>> /\ DisFrame

(* A CancelledError reaches the loop at its sleep, or before its start;    *)
(* is_stopped is looked at once in a turn.                                 *)
DispatchStops ==
    /\ \/ dis.pc \in {"new", "poll", "full"} /\ "dispatch" \in cancelled
       \/ dis.pc = "poll" /\ is_stopped
    /\ DispatchEnds
    /\ UNCHANGED <<control, cache, channels, ch>> /\ DisFrame

(* One message out of the ring, for the channels registered now. *)
DispatchTake ==
    /\ dis.pc = "poll" /\ "dispatch" \notin cancelled /\ ~is_stopped
    /\ ~Ring!IsEmpty(cache)
    /\ dis' = [pc |-> "serve", msg |-> Ring!First(cache),
               todo |-> Select(ChannelOrder, channels)]
    /\ cache' = Ring!Dequeue(cache)
    /\ UNCHANGED <<control, is_dispatching, channels, ch>> /\ DisFrame

(* _should_skip; a step of 0 makes it raise. *)
Skips(m, c) == m.image /\ process_steps[c] > 0 /\ m.id % process_steps[c] # 0

Raises(m, c) ==
    \/ m.image /\ process_steps[c] <= 0
    \/ ~Skips(m, c) /\ c \notin channels

(* How FrameChannel.input answers. *)
Refuses(c) == ch[c].closed \/ ch[c].mark_closed

IsBlocked(c) == ~Refuses(c) /\ Len(ch[c].queue) = ChannelSize

(* The channel being served: at work on it, or awake after a sleep. *)
Serving(c) ==
    /\ dis.pc = "serve" \/ (dis.pc = "full" /\ "dispatch" \notin cancelled)
    /\ dis.todo # <<>> /\ c = Head(dis.todo)

NextChannel == dis' = [dis EXCEPT !.pc = "serve", !.todo = Tail(@)]

ServeSkip(c) ==
    /\ Serving(c) /\ Skips(dis.msg, c)
    /\ NextChannel
    /\ UNCHANGED <<control, is_dispatching, cache, channels, ch>> /\ DisFrame

ServePut(c) ==
    /\ Serving(c) /\ ~Skips(dis.msg, c) /\ ~Raises(dis.msg, c)
    /\ ~Refuses(c) /\ ~IsBlocked(c)
    /\ ch' = [ch EXCEPT ![c].queue = Append(@, dis.msg)]
    /\ NextChannel
    /\ UNCHANGED <<control, is_dispatching, cache, channels>> /\ DisFrame

ServeBlocked_Drops(c) ==
    /\ dis.pc = "serve" /\ Serving(c)
    /\ ~Skips(dis.msg, c) /\ ~Raises(dis.msg, c) /\ IsBlocked(c)
    /\ NextChannel
    /\ UNCHANGED <<control, is_dispatching, cache, channels, ch>> /\ DisFrame

(* The loop sleeps on a full queue, and with it all other channels wait. *)
ServeBlocked(c) ==
    /\ dis.pc = "serve" /\ Serving(c)
    /\ ~Skips(dis.msg, c) /\ ~Raises(dis.msg, c) /\ IsBlocked(c)
    /\ dis' = [dis EXCEPT !.pc = "full"]
    /\ UNCHANGED <<control, is_dispatching, cache, channels, ch>> /\ DisFrame

(* A channel whose reader has gone is removed. *)
ServeGone(c) ==
    /\ Serving(c) /\ ~Skips(dis.msg, c) /\ ~Raises(dis.msg, c) /\ Refuses(c)
    /\ RemoveChannels({c}) /\ NextChannel
    /\ UNCHANGED <<control, is_dispatching, cache>> /\ DisFrame

(* An exception ends the loop and stops everything. *)
ServeRaises(c) ==
    /\ Serving(c) /\ Raises(dis.msg, c)
    /\ DispatchEnds /\ StopAll
    /\ UNCHANGED cache /\ DisFrame

DispatchDone_LeavesOpen ==
    /\ dis.pc = "serve" /\ dis.todo = <<>>
    /\ IF dis.msg.last \/ channels = {} THEN DispatchEnds
       ELSE dis' = Idle("poll") /\ UNCHANGED is_dispatching
    /\ UNCHANGED <<control, cache, channels, ch>> /\ DisFrame

DispatchDone_NeverAlone ==
    /\ dis.pc = "serve" /\ dis.todo = <<>>
    /\ IF dis.msg.last THEN DispatchEnds /\ RemoveChannels(channels)
       ELSE dis' = Idle("poll") /\ UNCHANGED <<is_dispatching, channels, ch>>
    /\ UNCHANGED <<control, cache>> /\ DisFrame

(* After the last message all channels are closed; without channels the    *)
(* loop is over as well, whatever the ring still holds.                    *)
DispatchDone ==
    /\ dis.pc = "serve" /\ dis.todo = <<>>
    /\ \/ dis.msg.last /\ DispatchEnds /\ RemoveChannels(channels)
       \/ ~dis.msg.last /\ channels = {} /\ DispatchEnds /\ UNCHANGED <<channels, ch>>
       \/ /\ ~dis.msg.last /\ channels # {}
          /\ dis' = Idle("poll") /\ UNCHANGED <<is_dispatching, channels, ch>>
    /\ UNCHANGED <<control, cache>> /\ DisFrame

Dispatch ==
    \/ DispatchStart \/ DispatchStops \/ DispatchTake \/ DispatchDone
    \/ \E c \in Channels : \/ ServeSkip(c) \/ ServePut(c) \/ ServeBlocked(c)
                            \/ ServeGone(c) \/ ServeRaises(c)

-----------------------------------------------------------------------------
(* The reader of a channel: a thread of a module, in FrameChannel.output.  *)

ConFrame == UNCHANGED <<config, process_steps, src, dis, control, is_dispatching,
                        cache, channels, accepted>>

ConGoto(c, p) == con' = [con EXCEPT ![c].pc = p]

(* The mark is looked at before the queue is. *)
TestMark(c) ==
    /\ con[c].pc = "test"
    /\ \/ ch[c].mark_closed /\ ConGoto(c, "done") /\ ch' = [ch EXCEPT ![c].closed = TRUE]
       \/ ~ch[c].mark_closed /\ ConGoto(c, "get") /\ UNCHANGED ch
    /\ ConFrame

Get(c) ==
    /\ con[c].pc = "get" /\ ch[c].queue # <<>>
    /\ con' = [con EXCEPT ![c] = [pc |-> "busy", got |-> Append(@.got, Head(ch[c].queue))]]
    /\ ch' = [ch EXCEPT ![c].queue = Tail(@)]
    /\ ConFrame

GetTimeout(c) ==
    /\ con[c].pc = "get" /\ ch[c].queue = <<>>
    /\ ConGoto(c, "test")
    /\ UNCHANGED ch /\ ConFrame

(* The module is through with its message and asks for the next. *)
Process(c) ==
    /\ con[c].pc = "busy"
    /\ ConGoto(c, "test")
    /\ UNCHANGED ch /\ ConFrame

(* A module that has all it needs closes the generator, and so the queue;  *)
(* subtitle matching reads to the end.                                     *)
Leave(c) ==
    /\ "leave" \in config.faults /\ con[c].pc = "busy" /\ c \notin config.subtitle
    /\ ConGoto(c, "left") /\ ch' = [ch EXCEPT ![c].closed = TRUE]
    /\ ConFrame

(* A module that raises does not close it.  *)
Fail(c) ==
    /\ "fail" \in config.faults /\ con[c].pc = "busy"
    /\ ConGoto(c, "failed")
    /\ UNCHANGED ch /\ ConFrame

(* Each configuration of subtitle matching has a thread and a channel.  If *)
(* one raises, its callback marks the channels of all, one by one, to stop *)
(* the others, which may be reading.                                       *)
MarkSiblings(c) ==
    /\ con[c].pc = "failed" /\ c \in config.subtitle
    /\ \E d \in config.subtitle : ~ch[d].mark_closed /\ ch' = MarkClosed({d})
    /\ UNCHANGED con /\ ConFrame

CleanUp_Eager(c) ==
    /\ con[c].pc \in {"left", "failed"}
    /\ ConGoto(c, "cleaned") /\ ch' = MarkClosed({c})
    /\ ConFrame

(* The job runner marks the channels of a module that has ended; subtitle  *)
(* matching ends when all its threads and their callbacks have.            *)
CleanUp(c) ==
    /\ con[c].pc \in {"left", "failed"}
    /\ c \in config.subtitle =>
           \A d \in config.subtitle : con[d].pc \in ConEnd /\ ch[d].mark_closed
    /\ ConGoto(c, "cleaned") /\ ch' = MarkClosed({c})
    /\ ConFrame

Read(c) == TestMark(c) \/ Get(c) \/ GetTimeout(c)

-----------------------------------------------------------------------------

(* The factory stops the stream from outside, at any time. *)
ForceStop ==
    /\ "stop" \in config.faults /\ LoopFree /\ ~is_stopped
    /\ StopAll
    /\ UNCHANGED <<config, process_steps, src, dis, is_dispatching, cache, con, accepted>>

Next ==
    \/ Stream \/ StreamFaults \/ Dispatch \/ ForceStop
    \/ \E c \in Channels : \/ Read(c) \/ Process(c) \/ Leave(c) \/ Fail(c)
                            \/ MarkSiblings(c) \/ CleanUp(c)

Fairness ==
    /\ WF_vars(Stream) /\ WF_vars(Dispatch)
    /\ \A c \in Channels : /\ WF_vars(Read(c)) /\ WF_vars(Process(c))
                            /\ WF_vars(MarkSiblings(c)) /\ WF_vars(CleanUp(c))

Spec == Init /\ [][Next]_vars /\ Fairness

-----------------------------------------------------------------------------
(* Properties.                                                             *)

Messages == Range(Media)

WantedMessages(c) ==
    {m \in Messages : ~m.image \/ (process_steps[c] > 0 /\ m.id % process_steps[c] = 0)}

Wanted(c, s) == Select(s, WantedMessages(c))

Had(c) == con[c].got \o ch[c].queue

StillToServe(c) == (IF c \in Range(dis.todo) THEN <<dis.msg>> ELSE <<>>) \o Ring!Contents(cache)

(* From ring to module no message a channel wants is lost, doubled or      *)
(* reordered while the channel is registered, whatever closes, fails or    *)
(* blocks meanwhile; a channel removed has had the first of them           *)
(* (_on_message, _dispatch, _broadcast, input, output).                    *)
Delivery ==
    \A c \in Channels :
        IF c \in channels
        THEN Had(c) \o Wanted(c, StillToServe(c)) = Wanted(c, accepted)
        ELSE IsPrefix(Had(c), Wanted(c, accepted))

(* The readers of the module that reads channel c. *)
Siblings(c) == IF c \in config.subtitle THEN config.subtitle ELSE {c}

(* A channel no longer registered is marked, so its reader will be told;   *)
(* one that is registered is marked only when its module is over with all  *)
(* its readers - or, of subtitle matching, one of them has raised          *)
(* (_remove_channel and force_stop against wait_for_threads_complete and   *)
(* handle_fut_exception).                                                  *)
MarkedMeansOver ==
    \A c \in Channels :
        IF c \in channels
        THEN ch[c].mark_closed =>
                 \/ \A d \in Siblings(c) : con[d].pc \in ConEnd
                 \/ c \in config.subtitle /\ \E d \in config.subtitle : con[d].pc = "failed"
        ELSE ch[c].mark_closed

(* The dispatch loop wakes from its sleep on a full queue to channels that *)
(* are still there, or to its own cancellation (_broadcast looks each up   *)
(* again in a dictionary others may have emptied).                         *)
WakesToItsChannels ==
    dis.pc = "full" => Range(dis.todo) \subseteq channels \/ "dispatch" \in cancelled

(* Every reader ends: it is told when the media is over, the source fails, *)
(* or the stream is stopped.  Excepted are the two ways in which the       *)
(* stream loop ends and stops nothing: no frame rate (the task dies outside*)
(* its try) and a source that ends without a last message.                 *)
ReadersEnd ==
    <>(\/ src.pc \in {"raised", "truncated"}
       \/ \A c \in Channels : con[c].pc \in ConEnd)

(* Both loops end.  With the same exceptions for the dispatch loop; the    *)
(* stream loop may for ever retry to put into a full ring once dispatch has*)
(* ended because no channel is left (_on_message).                         *)
LoopsEnd ==
    /\ <>(src.pc \in {"raised", "truncated"} \/ dis.pc = "ended")
    /\ <>(src.pc \in SrcEnd \/ (dis.pc = "ended" /\ Ring!IsFull(cache)))

(* MODULES.md says phase 2 starts when the media stream is drained, and    *)
(* output logs "mark closed and drained": a reader told to stop has read   *)
(* all frames that were put into its channel.                              *)
StopsDrained ==
    \A c \in Channels :
        con[c].pc = "done" /\ ~is_stopped => \A m \in Range(ch[c].queue) : ~m.image
=============================================================================
