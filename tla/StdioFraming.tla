---------------------------- MODULE StdioFraming ----------------------------
(***************************************************************************)
(* How StdioJsonRpcServer (src/mcp/jsonrpc-stdio.mjs) cuts its input stream *)
(* into messages: chunks of any size, two framings told apart by the first *)
(* byte of the buffer, and an answer format that follows the input.        *)
(*                                                                         *)
(* Bytes are grouped into the symbols the parser tells apart.  A header    *)
(* line is one symbol, "open" is the brace a JSON text starts with, the    *)
(* rest of a good text is one "payload" symbol carrying the message, that  *)
(* of a malformed one is "junk".  A newline is LF or CR LF throughout.  A   *)
(* Content-Length is any integer: parseInt takes a sign.                   *)
(***************************************************************************)
EXTENDS Integers, SequencesExt, FiniteSetsExt

CONSTANT Streams  \* what a client may write: bytes, and how it framed them

VARIABLES
  wire,       \* written by the client, not yet received
  buffer,     \* this.buffer
  parsing,    \* processBuffer is running; it never awaits, so no data arrives
  useNdjson,  \* this.useNdjson, the format of every answer from now on
  delivered,  \* messages handed to dispatchMessage
  client      \* the stream the client writes, for the properties

framingVars == <<wire, buffer, parsing, useNdjson, delivered, client>>

-----------------------------------------------------------------------------
Sym(kind, n) == [kind |-> kind, n |-> n]

Has(b, kind) == {i \in DOMAIN b : b[i].kind = kind}
After(b, i) == SubSeq(b, i + 1, Len(b))

\* JSON.parse ignores white space around the text and throws on anything else.
Parsed(text) ==
  LET body == SelectSeq(text, LAMBDA s : s.kind # "newline")
  IN  IF Len(body) = 2 /\ body[1].kind = "open" /\ body[2].kind = "payload"
      THEN <<body[2].n>> ELSE <<>>

\* Mutant: a brace anywhere in the buffer selects the line format.
BraceAnywhere(b) == Has(b, "open") # {}

StartsWithBrace(b) == b # <<>> /\ b[1].kind = "open"

\* Where the header block ends: the first empty line.
EmptyLines(b) == {i \in Has(b, "newline") : i + 1 \in Has(b, "newline")}

\* parseHeaders keeps the last Content-Length; the header's line must start with it.
Lengths(header) ==
  {i \in Has(header, "length") : i = 1 \/ header[i - 1].kind = "newline"}
ContentLength(header) == header[Max(Lengths(header))].n

Header(b) == SubSeq(b, 1, Min(EmptyLines(b)) - 1)
BodyStart(b) == Min(EmptyLines(b)) + 2

\* messageEnd: negative when the length takes it back past the start of the buffer.
BodyEnd(b) == BodyStart(b) + ContentLength(Header(b)) - 1

\* Where subarray(messageEnd) cuts: a negative index counts from the end of the
\* buffer, and one before its start is its start.
FrameEnd(b) ==
  IF BodyEnd(b) < 0 THEN Max({Len(b) + BodyEnd(b), 0}) ELSE BodyEnd(b)

HasHeader(b) == ~StartsWithBrace(b) /\ EmptyLines(b) # {}
HasLine(b) == StartsWithBrace(b) /\ Has(b, "newline") # {}

BodyComplete(b) == Len(b) >= BodyEnd(b)

\* The length takes the frame back to the start of the buffer or before it: the
\* round reads an empty body and cuts nothing off.
Overreaches(b) == HasHeader(b) /\ Lengths(Header(b)) # {} /\ FrameEnd(b) = 0

-----------------------------------------------------------------------------
(* What a client should write: frames one after the other, all of one        *)
(* framing.  In a stream s, frame i ends at the byte s.ends[i] and sends the  *)
(* messages up to s.sent[i].  Nothing makes a client keep to this: the parser *)
(* is run on other streams too.                                             *)

Symbol ==
  [kind : {"open", "payload", "junk", "newline", "length", "other"}, n : Int]

Frame(s, i) == SubSeq(s.bytes, s.ends[i - 1] + 1, s.ends[i])
Messages(s, i) == SubSeq(s.messages, s.sent[i - 1] + 1, s.sent[i])

\* One JSON text on a line of its own.
IsLine(f, sent) ==
  /\ f[1].kind = "open"
  /\ Has(f, "newline") = {Len(f)}
  /\ sent = Parsed(SubSeq(f, 1, Len(f) - 1))

\* A header block of h symbols and the empty line after it.
HeaderBlock(f, h) ==
  /\ f[1].kind # "open"
  /\ {h + 1, h + 2} \subseteq Has(f, "newline")
  /\ \A i \in 1..h : ~({i, i + 1} \subseteq Has(f, "newline"))

\* A header block and a body of the length its last Content-Length announces; no
\* body follows a block without one.
IsHeaderFrame(f, sent) ==
  \E h \in 0..(Len(f) - 2) :
    /\ HeaderBlock(f, h)
    /\ \/ /\ Lengths(SubSeq(f, 1, h)) = {}
          /\ Len(f) = h + 2
          /\ sent = <<>>
       \/ \E i \in Lengths(SubSeq(f, 1, h)) :
            /\ \A j \in Lengths(SubSeq(f, 1, h)) : j <= i
            /\ Len(f) = h + 2 + f[i].n
            /\ sent = Parsed(SubSeq(f, h + 3, Len(f)))

WellFramed(s) ==
  /\ s.bytes \in Seq(Symbol) /\ s.messages \in Seq(Nat)
  /\ s.lines \in BOOLEAN
  /\ s.frames \in Nat
  /\ s.ends \in [0..s.frames -> 0..Len(s.bytes)]
  /\ s.sent \in [0..s.frames -> 0..Len(s.messages)]
  /\ s.ends[0] = 0 /\ s.ends[s.frames] = Len(s.bytes)
  /\ s.sent[0] = 0 /\ s.sent[s.frames] = Len(s.messages)
  /\ \A i \in 1..s.frames :
       /\ s.ends[i - 1] < s.ends[i]
       /\ s.sent[i - 1] <= s.sent[i]
       /\ s.lines => IsLine(Frame(s, i), Messages(s, i))
       /\ ~s.lines => IsHeaderFrame(Frame(s, i), Messages(s, i))

ASSUME StreamsAssumption == \A s \in Streams : s.bytes \in Seq(Symbol)

-----------------------------------------------------------------------------
FramingInit ==
  /\ client \in Streams
  /\ wire = client.bytes
  /\ buffer = <<>>
  /\ parsing = FALSE
  /\ useNdjson = FALSE
  /\ delivered = <<>>

\* One 'data' event: any prefix of what is on the wire.
Receive ==
  /\ ~parsing
  /\ \E n \in 1..Len(wire) :
       /\ buffer' = buffer \o SubSeq(wire, 1, n)
       /\ wire' = After(wire, n)
  /\ parsing' = TRUE
  /\ UNCHANGED <<useNdjson, delivered, client>>

\* A line that is not JSON is skipped.
ReadLine ==
  /\ parsing
  /\ HasLine(buffer)
  /\ LET end == Min(Has(buffer, "newline")) IN
       /\ delivered' = delivered \o Parsed(SubSeq(buffer, 1, end - 1))
       /\ buffer' = After(buffer, end)
  /\ useNdjson' = TRUE
  /\ UNCHANGED <<wire, parsing, client>>

\* Mutant: the bad header block is left in the buffer.
KeepBadHeader ==
  /\ parsing
  /\ HasHeader(buffer)
  /\ Lengths(Header(buffer)) = {}
  /\ UNCHANGED framingVars

\* A header block without a finite Content-Length is discarded; the loop goes on
\* with whatever follows it.
SkipHeader ==
  /\ parsing
  /\ HasHeader(buffer)
  /\ Lengths(Header(buffer)) = {}
  /\ buffer' = After(buffer, BodyStart(buffer) - 1)
  /\ UNCHANGED <<wire, parsing, useNdjson, delivered, client>>

\* Mutant: the buffer is advanced to the body instead of past it.
ReadFrameAgain ==
  /\ parsing
  /\ HasHeader(buffer)
  /\ Lengths(Header(buffer)) # {}
  /\ BodyComplete(buffer)
  /\ delivered' = delivered \o Parsed(SubSeq(buffer, BodyStart(buffer), FrameEnd(buffer)))
  /\ buffer' = After(buffer, BodyStart(buffer) - 1)
  /\ UNCHANGED <<wire, parsing, useNdjson, client>>

\* A body that is not JSON is skipped.
ReadFrame ==
  /\ parsing
  /\ HasHeader(buffer)
  /\ Lengths(Header(buffer)) # {}
  /\ BodyComplete(buffer)
  /\ delivered' = delivered \o Parsed(SubSeq(buffer, BodyStart(buffer), FrameEnd(buffer)))
  /\ buffer' = After(buffer, FrameEnd(buffer))
  /\ UNCHANGED <<wire, parsing, useNdjson, client>>

\* processBuffer returns; even an unfinished line fixes the format.
WaitForData ==
  /\ parsing
  /\ ~HasLine(buffer)
  /\ ~(HasHeader(buffer) /\ (Lengths(Header(buffer)) = {} \/ BodyComplete(buffer)))
  /\ useNdjson' = (useNdjson \/ StartsWithBrace(buffer))
  /\ parsing' = FALSE
  /\ UNCHANGED <<wire, buffer, delivered, client>>

Parse == ReadLine \/ SkipHeader \/ ReadFrame \/ WaitForData

FramingNext == Receive \/ Parse

\* The parse loop is synchronous code: once started it keeps going.
FramingSpec ==
  FramingInit /\ [][FramingNext]_framingVars /\ WF_framingVars(Parse)

-----------------------------------------------------------------------------
(* Properties *)

\* However a well-framed stream is cut into chunks, the messages come out once each
\* and in order, and nothing stays behind: when the whole stream was received and the
\* parser waits, every well-formed message was dispatched (processBuffer).
DeliversAllInOrder ==
  WellFramed(client) =>
    /\ IsPrefix(delivered, client.messages)
    /\ ~parsing /\ wire = <<>> => delivered = client.messages /\ buffer = <<>>

\* A client that frames well is answered in the framing it uses, however its bytes
\* arrive.
AnswersInClientFormat ==
  WellFramed(client) =>
    /\ useNdjson => client.lines
    /\ ~parsing /\ wire # client.bytes => useNdjson = client.lines

\* The parser has read k frames whole and r bytes were received: the buffer starts
\* at a frame boundary, and the parser rests only inside a frame.
AtFrame(k, r) ==
  /\ client.ends[k] <= r
  /\ buffer = SubSeq(client.bytes, client.ends[k] + 1, r)
  /\ wire = After(client.bytes, r)
  /\ delivered = SubSeq(client.messages, 1, client.sent[k])
  /\ useNdjson => client.lines
  /\ client.lines /\ k > 0 => useNdjson
  /\ ~parsing /\ k < client.frames => r < client.ends[k + 1]
  /\ ~parsing /\ r > 0 => useNdjson = client.lines

\* The inductive invariant behind the theorems of McpServerProofs, for a client that
\* frames well.
FramingInv ==
  /\ WellFramed(client)
  /\ parsing \in BOOLEAN /\ useNdjson \in BOOLEAN
  /\ \E k \in 0..client.frames, r \in 0..Len(client.bytes) : AtFrame(k, r)

\* Whatever the input, well framed or not, the only thing that keeps processBuffer
\* from returning is a Content-Length that reaches back to the start of the buffer:
\* bad header blocks, lines and bodies that are not JSON are consumed, and so is a
\* frame whose negative length ends it inside its own header.
OnlyOverreachWedges == []<>(~parsing \/ Overreaches(buffer))

\* "discard the bad header block and resync rather than throwing, which would wedge
\* the Content-Length path for the rest of the stream" (jsonrpc-stdio.mjs:100-103):
\* no frame may wedge the parser, whatever its Content-Length.
LoopReturns == []<>(~parsing)
=============================================================================
