----------------------------- MODULE ChunkReader ----------------------------
(***************************************************************************)
(* The two readers that turn a stream of chunks into reads of a buffer:     *)
(* ReceiveStreamReader over an HTTP/2 body (edge/h2/stream.rs) and          *)
(* AxumBodyReader over an axum response body (origin/axum/mod.rs).  Both    *)
(* hold the chunk they are in the middle of and the position reached in it. *)
(***************************************************************************)
EXTENDS Integers, Sequences, SequencesExt

NewReader == [held |-> FALSE, chunk |-> <<>>, position |-> 0, eof |-> FALSE]

\* The inner stream yields a chunk, or its end.
Fetch(r, chunk) == [r EXCEPT !.held = TRUE, !.chunk = chunk]
End(r) == [r EXCEPT !.eof = TRUE]

\* A buffer of n bytes can be served from the chunk.
HasBytes(r) == r.held /\ r.position < Len(r.chunk)

Copied(r, n) == SubSeq(r.chunk, r.position + 1, r.position + n)

\* min(chunk.len() - position, buffer.len()).
CopyLength(r, buffer) ==
  IF Len(r.chunk) - r.position < buffer THEN Len(r.chunk) - r.position ELSE buffer

Exhausted(r, n) == r.position + n = Len(r.chunk)

Advance(r, n) == [r EXCEPT !.position = @ + n]

\* The chunk is dropped and the position reset.
DropChunk(r) == [r EXCEPT !.held = FALSE, !.chunk = <<>>, !.position = 0]

\* AxumBodyReader: a chunk that is used up is not put back, and the position
\* stays where its end was.
AfterAxumCopy(r, n) ==
  IF Exhausted(r, n) THEN [Advance(r, n) EXCEPT !.held = FALSE, !.chunk = <<>>]
                     ELSE Advance(r, n)

\* ReceiveStreamReader: a chunk that is used up resets the position.
AfterCopy(r, n) == IF Exhausted(r, n) THEN DropChunk(r) ELSE Advance(r, n)
=============================================================================
