---------------------------- MODULE FrameSource ----------------------------
(***************************************************************************)
(* The sample application as a source of video: it reads a file of H.264   *)
(* NAL units one ahead, to tell from the next unit whether the current one *)
(* ends a picture, gives each to the library with the time of its frame,   *)
(* and starts over when the video or the audio file ends.                  *)
(*                                                                         *)
(* A file is a sequence of units.  Of what H264_Decode_Nalu parses only    *)
(* the type and frame_num are used.  A unit also says to which picture it  *)
(* belongs, whether it is referred to (nal_ref_idc) and how long it is.    *)
(***************************************************************************)
EXTENDS Integers, Sequences

CONSTANT Files      \* the video files

UnitTypes == {"SPS", "PPS", "SEI", "IDR", "slice"}

Units == [type : UnitTypes, ref : BOOLEAN, pic : Nat, frameNum : Nat, len : Nat \ {0}]

ASSUME FilesAssumption ==
    /\ Files \subseteq Seq(Units)
    /\ \A f \in Files :
          /\ Len(f) >= 3
          /\ \A i \in 1..Len(f) : f[i].type \in {"SPS", "PPS", "IDR"} => f[i].ref

\* A picture is some headers and then some slices, all with one frame_num.
ASSUME PicturesAssumption ==
    \A f \in Files : \A i \in 1..(Len(f) - 1) :
        IF f[i + 1].pic = f[i].pic
          THEN f[i].type \in {"IDR", "slice"} => /\ f[i + 1].type \in {"IDR", "slice"}
                                               /\ f[i + 1].frameNum = f[i].frameNum
          ELSE f[i].type \in {"IDR", "slice"} /\ f[i + 1].pic = f[i].pic + 1

VARIABLES
    file,           \* the file of this run
    curr,           \* curr_nalu, the unit that was read ahead
    eof,            \* feof of the video file or of the audio file
    app,            \* where main is in its loop
    given,          \* the unit it gives to the library
    endOfFrame,     \* and its end_of_frame
    timeMoved       \* frameTime has changed since the last packet of video was queued

srcVars == <<file, curr, eof, app, given, endOfFrame, timeMoved>>

SrcInit ==
    /\ file \in Files
    /\ curr = 1         \* _store_first_nalu
    /\ eof = FALSE /\ app = "read" /\ given = 1 /\ endOfFrame = FALSE
    /\ timeMoved = FALSE

IsSlice(i) == file[i].type \in {"IDR", "slice"}

\* Mutant: only a change of frame_num ends a frame.
EndsFrame_FrameNumOnly(i) == IsSlice(i) /\ file[i].frameNum # file[i + 1].frameNum

\* A slice ends its frame if no slice follows, or one with another frame_num.
EndsFrame(i) ==
    /\ IsSlice(i)
    /\ IsSlice(i + 1) => file[i].frameNum # file[i + 1].frameNum

\* get_video_frame.  The read that meets the end of the file finds no start code: the unit is
\* not decoded, and the pointers to its headers have no value when they are used.
GetVideoFrame ==
    /\ app = "read" /\ ~eof
    /\ given' = curr
    /\ curr' = curr + 1
    /\ eof' = (curr + 1 = Len(file))
    /\ endOfFrame' \in IF ~eof' THEN {EndsFrame(curr)}
                       ELSE IF IsSlice(curr) THEN BOOLEAN ELSE {FALSE}
    /\ app' = "send"
    /\ UNCHANGED <<file, timeMoved>>

\* Mutant: the time of the next frame is taken after every unit.
EndLoop_MovesTime ==
    /\ eof' \in {eof, TRUE}
    /\ timeMoved' = TRUE
    /\ app' = "read"
    /\ UNCHANGED <<file, curr, given, endOfFrame>>

\* The frame that was given is over; the audio file may have come to its end.
EndLoop ==
    /\ eof' \in {eof, TRUE}
    /\ timeMoved' = (timeMoved \/ endOfFrame)
    /\ app' = "read"
    /\ UNCHANGED <<file, curr, given, endOfFrame>>

\* reset_video and reset_audio: the unit that was read ahead is overwritten.
Restart ==
    /\ app = "read" /\ eof
    /\ curr' = 1
    /\ eof' = FALSE
    /\ UNCHANGED <<file, app, given, endOfFrame, timeMoved>>

SrcTypeOK ==
    /\ file \in Files /\ curr \in 1..Len(file) /\ given \in 1..(Len(file) - 1)
    /\ eof \in BOOLEAN /\ endOfFrame \in BOOLEAN /\ timeMoved \in BOOLEAN
    /\ app \in {"read", "send", "queue", "audio"}
=============================================================================
