--------------------------- MODULE MCMediaStream ---------------------------
(* Small instances of MediaStream: two channels, one audio and two frames. *)
EXTENDS MediaStream

CONSTANTS c1, c2

Msg(id, image, last) == [id |-> id, image |-> image, last |-> last]

MCMedia == <<Msg(0, FALSE, FALSE), Msg(1, TRUE, FALSE), Msg(2, TRUE, FALSE), Msg(3, FALSE, TRUE)>>

MCOrder == <<c1, c2>>

Use(source, meta, fps1, fps2, faults) ==
    [source |-> source, meta |-> meta,
     fps |-> [c \in {c1, c2} |-> IF c = c1 THEN fps1 ELSE fps2],
     subtitle |-> {}, faults |-> faults]

(* Two rates, one of them half of the other, and a source that breaks. *)
Breaking == Use("grpc", 2, 2, 1, {"rpc", "code", "setup"})

(* The same rates; modules that fail, and a source that stops early. *)
Failing == Use("grpc", 2, 2, 1, {"fail", "truncate"})

(* Both channels are of subtitle matching, and a configuration raises. *)
Subtitles == [Use("grpc", 2, 2, 1, {"fail", "stop"}) EXCEPT !.subtitle = {c1, c2}]

(* The other source without metadata, a channel of every frame; readers    *)
(* that leave and a stop from outside.                                     *)
Stopping == Use("ffmpeg", 0, 1, 0, {"leave", "stop"})

(* The second channel asks for more than the media has. *)
TooFast == Use("grpc", 1, 1, 2, {})

(* Nobody names a rate. *)
NoRate == Use("grpc", 0, 0, 0, {})

(* All goes well. *)
Usual == Use("grpc", 2, 2, 1, {})

MCAll == {Breaking, Failing, Subtitles, Stopping, TooFast, NoRate}

MCUsual == {Usual}
=============================================================================
