----------------------------- MODULE RasterReader -----------------------------
(***************************************************************************)
(* Decoded frames of an imported video: the handle that open of            *)
(* src/src/media/private-visual-raster.ts returns.  FFmpeg writes raw      *)
(* frames to a pipe, an assembler cuts the chunks of the pipe into frames, *)
(* and frameAt reads on to the frame it is asked for, or starts FFmpeg     *)
(* again when that frame is behind it.                                     *)
(*                                                                         *)
(* A byte is its place in the stream.  One frameAt runs at a time, and a   *)
(* handle whose frameAt was rejected is only disposed of: the compositor   *)
(* gives up on the render.  Images, which are read once, are left out.     *)
(***************************************************************************)
EXTENDS Integers, Sequences

CONSTANTS
  Frames,      \* frames in the video
  FrameBytes,  \* bytes of a frame
  MaxChunk,    \* MAX_DECODER_STREAM_CHUNK_BYTES: the largest chunk of the pipe
  MaxCalls     \* bound: calls of frameAt

ASSUME RasterConstants == Frames \in Nat /\ FrameBytes \in Nat \ {0} /\ MaxChunk \in Nat

VARIABLES
  child,      \* FFmpeg: its state, and the bytes it has written
  assembler,  \* the frame being assembled and the chunk it is taken from
  reader      \* the handle and its frameAt

rasterVars == <<child, assembler, reader>>

NoFrame == -1
Bytes == Frames * FrameBytes
Empty == [current |-> <<>>, pending |-> <<>>]
NoChild == [state |-> "none", written |-> 0]

RasterInit ==
  /\ child = NoChild
  /\ assembler = Empty
  /\ reader = [pc |-> "idle", target |-> NoFrame, index |-> NoFrame, last |-> <<>>,
               calls |-> 0, disposed |-> FALSE]

RasterTypeOK ==
  /\ child \in [state: {"none", "alive", "ended", "terminated", "killed"}, written: 0..Bytes]
  /\ assembler.current \in Seq(1..Bytes) /\ assembler.pending \in Seq(1..Bytes)
  /\ reader.pc \in {"idle", "restart", "loop", "read", "returned", "failed", "disposing"}
  /\ reader.index \in NoFrame..(Frames - 1) /\ reader.target \in NoFrame..(Frames - 1)

-----------------------------------------------------------------------------
(* The assembler. A chunk fills the current frame; what is left over is    *)
(* kept whole, and is all there is to keep: a chunk is asked for only when *)
(* nothing is left.                                                        *)

Smaller(m, n) == IF m < n THEN m ELSE n
Firsts(s, n) == SubSeq(s, 1, Smaller(n, Len(s)))
Others(s, n) == SubSeq(s, n + 1, Len(s))

IsFull(a) == Len(a.current) = FrameBytes
Room(a) == FrameBytes - Len(a.current)

\* push.
Pushed(a, chunk) ==
  [current |-> a.current \o Firsts(chunk, Room(a)), pending |-> a.pending \o Others(chunk, Room(a))]

\* take, up to where it returns: a full frame, or none and everything is in current.
Filled(a) ==
  [current |-> a.current \o Firsts(a.pending, Room(a)), pending |-> Others(a.pending, Room(a))]

Fits(a, chunk) == Len(Pushed(a, chunk).pending) <= MaxChunk

-----------------------------------------------------------------------------
(* frameAt. *)

FrameAt ==
  /\ reader.pc \in {"idle", "returned"} /\ ~reader.disposed /\ reader.calls < MaxCalls
  /\ \E target \in 0..(Frames - 1) :
       reader' = [reader EXCEPT !.calls = @ + 1, !.target = target,
                                !.pc = IF target < reader.index THEN "restart" ELSE "loop"]
  /\ UNCHANGED <<child, assembler>>

\* closePrivateVisualChild resolves at once for a child that has exited; else it asks
\* twice, and waits a while each time.
Gone == child.state \in {"none", "ended"}

Closing == reader.pc \in {"restart", "disposing"}

AskToClose ==
  /\ Closing /\ ~Gone /\ child.state # "killed"
  /\ child' = [child EXCEPT !.state = IF @ = "alive" THEN "terminated" ELSE "killed"]
  /\ UNCHANGED <<assembler, reader>>

ChildEnds ==
  /\ child.state \in {"terminated", "killed"}
  /\ child' = [child EXCEPT !.state = "ended"]
  /\ UNCHANGED <<assembler, reader>>

\* 250 ms after SIGKILL.
NeverCloses ==
  /\ Closing /\ child.state = "killed"
  /\ reader' = [reader EXCEPT !.pc = "failed"]
  /\ UNCHANGED <<child, assembler>>

\* Mutant: the bytes that were left over are kept.
Restart_KeepsRemainder ==
  /\ reader.pc = "restart" /\ Gone
  /\ child' = NoChild
  /\ reader' = [reader EXCEPT !.pc = "loop", !.index = NoFrame, !.last = <<>>]
  /\ UNCHANGED assembler

\* A new decoder, before the first frame.
Restart ==
  /\ reader.pc = "restart" /\ Gone
  /\ child' = NoChild
  /\ assembler' = Empty
  /\ reader' = [reader EXCEPT !.pc = "loop", !.index = NoFrame, !.last = <<>>]

\* The index moves before the frame is read.
Loop ==
  /\ reader.pc = "loop"
  /\ reader' = IF reader.index < reader.target
               THEN [reader EXCEPT !.pc = "read", !.index = @ + 1]
               ELSE [reader EXCEPT !.pc = IF reader.last = <<>> THEN "failed" ELSE "returned"]
  /\ UNCHANGED <<child, assembler>>

\* start: the child is spawned with the first read.
SpawnDecoder ==
  /\ reader.pc = "read" /\ child.state = "none"
  /\ child' = [child EXCEPT !.state = "alive"]
  /\ UNCHANGED <<assembler, reader>>

TakeFrame ==
  /\ reader.pc = "read" /\ child.state # "none" /\ IsFull(Filled(assembler))
  /\ assembler' = [Filled(assembler) EXCEPT !.current = <<>>]
  /\ reader' = [reader EXCEPT !.pc = "loop", !.last = Filled(assembler).current]
  /\ UNCHANGED child

\* The next chunk of the pipe, of any length.
Chunk ==
  /\ reader.pc = "read" /\ child.state = "alive" /\ ~IsFull(Filled(assembler))
  /\ \E n \in 1..Smaller(MaxChunk, Bytes - child.written) :
       LET chunk == [k \in 1..n |-> child.written + k]
       IN /\ Fits(Filled(assembler), chunk)
          /\ assembler' = Pushed(Filled(assembler), chunk)
          /\ child' = [child EXCEPT !.written = @ + n]
  /\ UNCHANGED reader

\* FFmpeg ends early, cannot be started, is killed by the watchdog or says too much:
\* read disposes of the decoder and rejects.
ReadFails ==
  /\ reader.pc = "read"
  /\ reader' = [reader EXCEPT !.pc = "failed"]
  /\ child' = NoChild
  /\ assembler' = Empty

Dispose ==
  /\ reader.pc \in {"idle", "returned", "failed"} /\ ~reader.disposed
  /\ reader' = [reader EXCEPT !.disposed = TRUE, !.pc = "disposing"]
  /\ UNCHANGED <<child, assembler>>

Disposed ==
  /\ reader.pc = "disposing" /\ Gone
  /\ reader' = [reader EXCEPT !.pc = "idle"]
  /\ child' = NoChild
  /\ assembler' = Empty

RasterNext ==
  \/ FrameAt \/ AskToClose \/ ChildEnds \/ NeverCloses \/ Restart \/ Loop
  \/ SpawnDecoder \/ TakeFrame \/ Chunk \/ ReadFails \/ Dispose \/ Disposed

RasterSpec == RasterInit /\ [][RasterNext]_rasterVars

-----------------------------------------------------------------------------
(* Properties. *)

\* The frame returned for a target is that frame of the video, whatever the chunks of the
\* pipe were and whatever was asked for before; and what the assembler keeps stays in its
\* bound for every chunk the pipe may bring: no video is refused for the way it arrives.
FrameIsRight ==
  /\ reader.pc = "returned" =>
       reader.last = [k \in 1..FrameBytes |-> reader.target * FrameBytes + k]
  /\ reader.pc = "read" /\ ~IsFull(Filled(assembler)) =>
       \A n \in 0..Smaller(MaxChunk, Bytes - child.written) :
         Fits(Filled(assembler), [k \in 1..n |-> child.written + k])
==============================================================================
