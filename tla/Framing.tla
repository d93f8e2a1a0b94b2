------------------------------- MODULE Framing -------------------------------
(***************************************************************************)
(* read_message (rpc/src/io.rs): the segment table in front of a Cap'n     *)
(* Proto message.  A stream is a sequence of 32-bit words; the segments    *)
(* are only counted, in Cap'n Proto words of two such words each.          *)
(* Everything here is a constant operator: the assumption at the end is    *)
(* what TLC evaluates.                                                     *)
(***************************************************************************)
EXTENDS Naturals, Sequences, SequencesExt

CONSTANTS
  WordRange,      \* 2^32: how many values a word has
  MaxSegments,    \* 512
  MaxTotalWords   \* MAXIMUM_TOTAL_WORDS

ASSUME FramingConstants ==
  /\ WordRange \in Nat \ {0}
  /\ MaxSegments \in 1..(WordRange - 1)
  /\ MaxTotalWords \in Nat

\* u32::wrapping_add(1) of the table's first word.
SegmentCount(word) == (word + 1) % WordRange

\* (4 + 4 * segment_count + 7) & !7, counted in words.
TableLength(count) == 2 * ((4 + 4 * count + 7) \div 8)

\* The sums of the first 0, 1, ... sizes.  A recursive function, so that it can
\* be reasoned about.
Sums(sizes) ==
  LET sum[i \in 0..Len(sizes)] == IF i = 0 THEN 0 ELSE sum[i - 1] + sizes[i]
  IN  sum

Total(sizes) == Sums(sizes)[Len(sizes)]

Failure(why) == [error |-> why, sizes |-> <<>>, rest |-> <<>>]

\* The sizes are added up one at a time, and the table is read in two parts:
\* an early size can refuse a message that also ends too early.
Refuses(sizes) == Total(sizes) > MaxTotalWords

\* read_message: what it makes of a stream that ends after these words.
ReadFrame(stream) ==
  IF Len(stream) < 2 THEN Failure("eof") ELSE
  LET count == SegmentCount(stream[1])
      table == TableLength(count)
      sizes == SubSeq(stream, 2, count + 1)
      body == 2 * Total(sizes)
  IN  IF count = 0 \/ count > MaxSegments THEN Failure("segments")
      ELSE IF Refuses(<<stream[2]>>) THEN Failure("too large")
      ELSE IF Len(stream) < table THEN Failure("eof")
      ELSE IF Refuses(sizes) THEN Failure("too large")
      ELSE IF Len(stream) < table + body THEN Failure("eof")
      ELSE [error |-> "none", sizes |-> sizes,
            rest |-> SubSeq(stream, table + body + 1, Len(stream))]

\* capnp's writer: the table is padded to an even number of words.
WriteFrame(sizes) ==
  <<Len(sizes) - 1>> \o sizes
    \o [i \in 1..((Len(sizes) + 1) % 2) |-> 0]
    \o [i \in 1..(2 * Total(sizes)) |-> 0]

Sizes == BoundedSeq(0..(MaxTotalWords + 1), MaxSegments + 1) \ {<<>>}

Tables == BoundedSeq(0..(WordRange - 1), 3)

(***************************************************************************)
(* A message within the limits is read back and leaves the stream at the   *)
(* next one, so a stream of messages stays in step; one beyond either      *)
(* limit is refused however long the stream is.                            *)
(***************************************************************************)
ReadBack(sizes, next) ==
  LET got == ReadFrame(WriteFrame(sizes) \o next) IN
  IF Len(sizes) <= MaxSegments /\ Total(sizes) <= MaxTotalWords
    THEN got = [error |-> "none", sizes |-> sizes, rest |-> next]
    ELSE got.error \in {"segments", "too large"}

\* No table, the wrapped count of no segments at all included, is read as a
\* message that exceeds a limit.
WithinLimits(stream) ==
  LET got == ReadFrame(stream) IN
  got.error = "none"
    => /\ Len(got.sizes) \in 1..MaxSegments
       /\ Total(got.sizes) <= MaxTotalWords

\* TLC evaluates both for every small message and table; RegistrationProofs
\* proves them for every stream, without this assumption.
ASSUME FramesStayInStep ==
  /\ \A sizes \in Sizes : ReadBack(sizes, <<1, 1>>)
  /\ \A table \in Tables : WithinLimits(table)
=============================================================================
