--------------------------- MODULE MCStdioFraming ---------------------------
(* The clients of StdioFraming: short streams of frames in either framing, *)
(* and of frames whose Content-Length is negative.                         *)
EXTENDS StdioFraming

CONSTANT MaxFrames

\* Header blocks of three symbols whose length ends the frame inside the block, at the
\* start of it, and before it.
Backwards == [inside |-> -1, start |-> -3, before |-> -5]

\* A frame is what a client writes at once; the message is its place in the stream.
FrameBytes(frame, i) ==
  CASE frame = "line" -> <<Sym("open", 0), Sym("payload", i), Sym("newline", 0)>>
    [] frame = "junk line" -> <<Sym("open", 0), Sym("junk", 0), Sym("newline", 0)>>
    [] frame = "frame" -> <<Sym("length", 2), Sym("newline", 0), Sym("newline", 0),
                            Sym("open", 0), Sym("payload", i)>>
    [] frame = "typed frame" -> <<Sym("other", 0), Sym("newline", 0), Sym("length", 3),
                                  Sym("newline", 0), Sym("newline", 0),
                                  Sym("open", 0), Sym("payload", i), Sym("newline", 0)>>
    [] frame = "junk frame" -> <<Sym("length", 2), Sym("newline", 0), Sym("newline", 0),
                                 Sym("open", 0), Sym("junk", 0)>>
    [] frame = "bare header" -> <<Sym("other", 0), Sym("newline", 0), Sym("newline", 0)>>
    [] frame \in DOMAIN Backwards ->
         <<Sym("length", Backwards[frame]), Sym("newline", 0), Sym("newline", 0)>>

Good == {"line", "frame", "typed frame"}

Stream(frames, lines) ==
  LET n == Len(frames)
      bytes(k) == FlattenSeq([i \in 1..k |-> FrameBytes(frames[i], i)])
      messages(k) == SelectSeq([i \in 1..k |-> i], LAMBDA i : frames[i] \in Good)
  IN  [bytes |-> bytes(n), messages |-> messages(n), lines |-> lines,
       frames |-> n,
       ends |-> [k \in 0..n |-> Len(bytes(k))],
       sent |-> [k \in 0..n |-> Len(messages(k))]]

StreamsOf(kinds, lines) ==
  {Stream(f, lines) : f \in UNION {[1..n -> kinds] : n \in 1..MaxFrames}}

\* Clients that keep to one framing.  A header block may lack a usable length as
\* long as no body follows it.
CleanStreams ==
  StreamsOf({"line", "junk line"}, TRUE)
    \union StreamsOf({"frame", "typed frame", "junk frame", "bare header"}, FALSE)

\* Clients that write negative lengths between good frames and lines.
BackwardStreams == StreamsOf({"line", "frame"} \union DOMAIN Backwards, FALSE)

AllStreams == CleanStreams \union BackwardStreams
=============================================================================
