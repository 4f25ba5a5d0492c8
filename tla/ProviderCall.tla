------------------------------ MODULE ProviderCall ------------------------------
(***************************************************************************)
(* One call of a client of a model, image, video or speech service         *)
(* (providers/*.ts, serving/vllm_client.ts): the timer and the caller's    *)
(* signal that may abort it, what it makes of the body, and the parser of  *)
(* the streamed chat completion, whose frames are cut anywhere.            *)
(***************************************************************************)
EXTENDS Naturals, Sequences, FiniteSets

CONSTANTS
  Timeout,    \* timeoutMs
  MaxPieces   \* bound: pieces of a streamed body

ASSUME TimeoutAssumption == Timeout \in Nat \ {0} /\ MaxPieces \in Nat

VARIABLES
  call,     \* [client, step, ok, result]: the method in progress
  armed,    \* the timer runs and the caller's signal is listened to
  elapsed,  \* since the call began, up to one more than the timeout
  arrived,  \* the pieces of the streamed body that have come
  parser    \* parseSseDeltas: [buffer, yielded, stopped]

providerVars == <<call, armed, elapsed, arrived, parser>>

-----------------------------------------------------------------------------
(* The clients: until when they keep the timer, and the bodies they take   *)
(* for an answer.  A body is no JSON, has nothing, only blanks, or content *)
(* where the client looks for it.                                          *)

Bodies == {"garbage", "nothing", "blanks", "content"}
Client(cleanup, answers) == [cleanup |-> cleanup, answers |-> answers]
Completion == Client("headers", {"blanks", "content"})
CompletionStream == Client("body", {})
Vllm == Client("headers", {"blanks", "content"})
ColabImage == Client("headers", {"blanks", "content"})
ColabVideo == Client("headers", {"blanks", "content"})
Imagen == Client("headers", {"blanks", "content"})
\* Speech is taken as it comes, for it is no JSON.
Kokoro == Client("headers", {"garbage", "blanks", "content"})
Clients == {Completion, CompletionStream, Vllm, ColabImage, ColabVideo, Imagen, Kokoro}

Streams == call.client = CompletionStream
Waiting == call.step \in {"fetching", "body"}

ProviderInit ==
  /\ call \in [client : Clients, step : {"fetching"}, ok : {FALSE}, result : {"none"}]
  /\ armed = TRUE /\ elapsed = 0 /\ arrived = <<>>
  /\ parser = [buffer |-> <<>>, yielded |-> <<>>, stopped |-> FALSE]

End(result) == call' = [call EXCEPT !.step = "ended", !.result = result]

-----------------------------------------------------------------------------
(* fetch. *)

HeadersArrive(ok) ==
  /\ call.step = "fetching"
  /\ call' = [call EXCEPT !.step = "body", !.ok = ok]
  /\ armed' = (call.client.cleanup = "body")
  /\ UNCHANGED <<elapsed, arrived, parser>>

\* The connection breaks, the timer ends or the caller gives up, which only an
\* armed signal tells.  A body of a refused stream that breaks leaves the timer.
Fails ==
  /\ Waiting
  /\ End("error")
  /\ armed' = (armed /\ call.step = "body" /\ ~call.ok)
  /\ UNCHANGED <<elapsed, arrived, parser>>

-----------------------------------------------------------------------------
(* The body. *)

BodyArrives(body) ==
  /\ call.step = "body" /\ ~(Streams /\ call.ok)
  /\ End(IF call.ok /\ body \in call.client.answers THEN "answer" ELSE "error")
  /\ armed' = FALSE
  /\ UNCHANGED <<elapsed, arrived, parser>>

\* parseSseDeltas.  A frame is two like pieces on a line, and what is delivered is
\* the piece; any other line is skipped.
Pieces == {"one", "two", "DONE", "newline"}
Frames == {<<"one", "one">>, <<"two", "two">>}
Parsed(p, piece) ==
  IF p.stopped THEN p
  ELSE IF piece # "newline" THEN [p EXCEPT !.buffer = Append(@, piece)]
  ELSE [buffer |-> <<>>,
        yielded |-> IF p.buffer \in Frames THEN Append(p.yielded, p.buffer[1]) ELSE p.yielded,
        stopped |-> p.buffer = <<"DONE">>]

KeptNothing(p) == [p EXCEPT !.buffer = <<>>]   \* mutant of ReadFrom: each chunk is parsed alone
ReadFrom(p) == p

\* A chunk holds a piece or two, and may be cut anywhere.
Chunk(pieces) ==
  /\ call.step = "body" /\ Streams /\ call.ok
  /\ Len(arrived) + Len(pieces) <= MaxPieces
  /\ arrived' = arrived \o pieces
  /\ LET once == Parsed(ReadFrom(parser), pieces[1])
     IN  parser' = IF Len(pieces) = 1 THEN once ELSE Parsed(once, pieces[2])
  /\ IF parser'.stopped THEN End("answer") /\ armed' = FALSE ELSE UNCHANGED <<call, armed>>
  /\ UNCHANGED elapsed

\* The body ends without [DONE], or who reads the deltas stops; what is on the
\* last line, unended, is dropped.
StreamEnds ==
  /\ call.step = "body" /\ Streams /\ call.ok
  /\ End("answer") /\ armed' = FALSE
  /\ UNCHANGED <<elapsed, arrived, parser>>

\* The timer aborts what is waited for before any more time passes.
PassTime ==
  /\ Waiting /\ elapsed <= Timeout /\ ~(armed /\ elapsed = Timeout)
  /\ elapsed' = elapsed + 1
  /\ UNCHANGED <<call, armed, arrived, parser>>

ProviderNext ==
  \/ \E ok \in BOOLEAN : HeadersArrive(ok)
  \/ Fails
  \/ \E body \in Bodies : BodyArrives(body)
  \/ \E piece \in Pieces : Chunk(<<piece>>) \/ \E next \in Pieces : Chunk(<<piece, next>>)
  \/ StreamEnds
  \/ PassTime

ProviderSpec == ProviderInit /\ [][ProviderNext]_providerVars

-----------------------------------------------------------------------------
(* Properties. *)

\* A line of the body ends at i, and this is it.
LineAt(body, i, line) ==
  LET start == i - Len(line) - 1
  IN  /\ start >= 0 /\ body[i] = "newline"
      /\ \A k \in 1..Len(line) : body[start + k] = line[k]
      /\ start = 0 \/ body[start] = "newline"
\* Where a body that came whole has a delta: the lines that are a frame and have no
\* [DONE] line before them.
Deltas(body) ==
  {i \in DOMAIN body : /\ \E frame \in Frames : LineAt(body, i, frame)
                       /\ ~\E j \in 1..i : LineAt(body, j, <<"DONE">>)}

\* However the network cuts the stream, the deltas are those of the whole body, in
\* order, up to [DONE] ("Buffers partial lines across chunk boundaries"); and a
\* stream is over by its timeout, which complete() promises of its headers only.
StreamIsWhole ==
  /\ Len(parser.yielded) = Cardinality(Deltas(arrived))
  /\ \A i \in Deltas(arrived) :
       parser.yielded[Cardinality({j \in Deltas(arrived) : j <= i})] = arrived[i - 1]
  /\ (call.step = "fetching" \/ (Streams /\ Waiting)) => elapsed <= Timeout

\* "Per-request timeout in milliseconds": a request is over by then.
WithinTimeout == Waiting => elapsed <= Timeout
=============================================================================
