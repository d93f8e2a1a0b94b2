----------------------------- MODULE PumpProofs -----------------------------
(***************************************************************************)
(* Proofs about Pump for any length, chunk size, window, pipe and buffer:  *)
(* both directions deliver their bytes in order, an end that is announced  *)
(* is the end of everything, and each direction is pumped to its end.      *)
(***************************************************************************)
EXTENDS Pump, SequenceTheorems, TLAPS

\* The bytes of q are those that follow the first n of their direction.
Numbered(q, n) == q \in Seq(Nat) /\ \A i \in 1 .. Len(q) : q[i] = n + i

\* The frames of q follow each other from byte first + 1 to byte last; ends
\* says where each of them ends.
Linked(q, first, last) ==
  \E ends \in [0 .. Len(q) -> 0 .. last] :
    /\ ends[0] = first /\ ends[Len(q)] = last
    /\ \A k \in 1 .. Len(q) :
         ends[k - 1] <= ends[k] /\ q[k] = Bytes(ends[k - 1] + 1, ends[k])

\* Bytes of the edge whose capacity was released: those before the chunk held.
Taken == edgeSent - unreleased

\* Bytes handed to the origin's pipe, and to the edge's.
Handed == originGot + Len(toOrigin)
Delivered == Len(edgeGot) + Len(toEdge)

\* The chunk held follows what was released, and the frames follow the chunk.
ReaderInv ==
  /\ reader \in [held : BOOLEAN, chunk : Seq(Nat), position : Nat, eof : BOOLEAN]
  /\ unreleased <= edgeSent
  /\ Numbered(reader.chunk, Taken)
  /\ reader.position = 0 \/ reader.position < Len(reader.chunk)
  /\ ~reader.held => reader.chunk = <<>>
  /\ reader.eof => edgeFin /\ frames = <<>> /\ ~reader.held
  /\ Linked(frames, Taken + Len(reader.chunk), edgeSent)

\* From the edge to the origin.
UpInv ==
  /\ Numbered(toOrigin, originGot)
  /\ Handed <= edgeSent
  /\ ~edgeDone /\ pump # "toOrigin" => Handed = Taken + reader.position
  /\ pump = "toOrigin" =>
       /\ ~edgeDone
       /\ Handed + Len(pending) = Taken + reader.position
       /\ Numbered(pending, Handed)
  /\ originEof => edgeDone /\ edgeFin /\ Handed = edgeSent
  /\ edgeDone => originEof \/ broken # {}

\* From the origin to the edge.
DownInv ==
  /\ Numbered(edgeGot, 0)
  /\ Numbered(toEdge, Len(edgeGot))
  /\ Len(fromOrigin) <= originSent
  /\ Numbered(fromOrigin, originSent - Len(fromOrigin))
  /\ ~originDone /\ pump # "toEdge" => Delivered + Len(fromOrigin) = originSent
  /\ pump = "toEdge" =>
       /\ ~originDone
       /\ Delivered + Len(pending) + Len(fromOrigin) = originSent
       /\ Numbered(pending, Delivered)
  /\ edgeEof => originDone /\ originFin /\ Delivered = originSent
  /\ originDone => edgeEof \/ broken # {}

IInv ==
  /\ TypeOK
  /\ pending \in Seq(Nat)
  /\ pump = "over" => edgeDone /\ originDone
  /\ ReaderInv
  /\ UpInv
  /\ DownInv

-----------------------------------------------------------------------------
(* Sequences of bytes and of frames.                                        *)

\* write_all and the pipes put a byte behind the others.
LEMMA NumberedAppend ==
  ASSUME NEW q, NEW n \in Nat, Numbered(q, n)
  PROVE  /\ Numbered(Append(q, n + Len(q) + 1), n)
         /\ Len(Append(q, n + Len(q) + 1)) = Len(q) + 1
<1> DEFINE b == n + Len(q) + 1
<1>1. q \in Seq(Nat) /\ Len(q) \in Nat /\ b \in Nat
  BY DEF Numbered
<1>2. Append(q, b) \in Seq(Nat) /\ Len(Append(q, b)) = Len(q) + 1
  BY <1>1
<1>3. ASSUME NEW i \in 1 .. Len(q) + 1 PROVE Append(q, b)[i] = n + i
  <2>1. CASE i = Len(q) + 1
    BY <1>1, <2>1
  <2>2. CASE i \in 1 .. Len(q)
    <3>1. Append(q, b)[i] = q[i]
      BY <1>1, <2>2
    <3> QED
      BY <2>2, <3>1 DEF Numbered
  <2> QED
    BY <1>1, <2>1, <2>2
<1> QED
  BY <1>2, <1>3 DEF Numbered

\* The byte at the front is the next one.
LEMMA NumberedTail ==
  ASSUME NEW q, NEW n \in Nat, Numbered(q, n), q # <<>>
  PROVE  /\ Numbered(Tail(q), n + 1)
         /\ Len(q) \in Nat \ {0} /\ Len(Tail(q)) = Len(q) - 1
         /\ Head(q) = n + 1
         /\ Len(q) = 1 <=> Tail(q) = <<>>
<1>1. q \in Seq(Nat) /\ Len(q) \in Nat \ {0}
  BY DEF Numbered
<1>2. Tail(q) \in Seq(Nat) /\ Len(Tail(q)) = Len(q) - 1
  BY <1>1
<1>3. ASSUME NEW i \in 1 .. Len(q) - 1 PROVE Tail(q)[i] = n + 1 + i
  <2>1. Tail(q)[i] = q[i + 1] /\ i + 1 \in 1 .. Len(q)
    BY <1>1
  <2> QED
    BY <2>1 DEF Numbered
<1>4. Head(q) = n + 1
  BY <1>1 DEF Numbered
<1>5. Len(q) = 1 <=> Tail(q) = <<>>
  <2>1. Len(Tail(q)) = 0 <=> Tail(q) = <<>>
    BY <1>2, EmptySeq
  <2>2. Len(Tail(q)) = 0 <=> Len(q) = 1
    <3>1. PICK l \in Nat \ {0} : l = Len(q)
      BY <1>1
    <3>2. l - 1 = 0 <=> l = 1
      OBVIOUS
    <3> QED
      BY <1>2, <3>1, <3>2
  <2> QED
    BY <2>1, <2>2
<1> QED
  BY <1>1, <1>2, <1>3, <1>4, <1>5 DEF Numbered

\* A read copies the bytes from position a to position b.
LEMMA NumberedPart ==
  ASSUME NEW q, NEW n \in Nat, Numbered(q, n),
         NEW a \in Nat \ {0}, NEW b \in Nat, a <= b + 1, b <= Len(q)
  PROVE  /\ Numbered(SubSeq(q, a, b), n + a - 1)
         /\ Len(SubSeq(q, a, b)) = b - a + 1
<1>1. q \in Seq(Nat) /\ Len(q) \in Nat
  BY DEF Numbered
<1>2. PICK k \in Nat : k = b - a + 1
  OBVIOUS
<1>3. \A i \in a .. b : q[i] \in Nat
  BY <1>1, ElementOfSeq
<1>4. /\ SubSeq(q, a, b) \in Seq(Nat)
      /\ Len(SubSeq(q, a, b)) = IF a <= b THEN k ELSE 0
      /\ \A i \in 1 .. k : SubSeq(q, a, b)[i] = q[a + i - 1]
  BY <1>2, <1>3, SubSeqProperties
<1>5. Len(SubSeq(q, a, b)) = k
  BY <1>2, <1>4
<1>6. \A i \in 1 .. k : SubSeq(q, a, b)[i] = n + a - 1 + i
  <2>1. \A i \in 1 .. k : a + i - 1 \in 1 .. Len(q) /\ n + (a + i - 1) = n + a - 1 + i
    BY <1>1, <1>2
  <2>2. \A i \in 1 .. k : q[a + i - 1] = n + (a + i - 1)
    BY <2>1 DEF Numbered
  <2> QED
    BY <1>4, <2>1, <2>2
<1> QED
  BY <1>2, <1>4, <1>5, <1>6 DEF Numbered

\* The bytes after the first m, up to n, are n - m bytes that follow the first m.
LEMMA NumberedBytes ==
  ASSUME NEW m \in Nat, NEW n \in Nat, m <= n
  PROVE  /\ Numbered(Bytes(m + 1, n), m)
         /\ Len(Bytes(m + 1, n)) = n - m
         /\ Bytes(m + 1, n) \in Seq(1 .. n)
         /\ m = n => Bytes(m + 1, n) = <<>>
<1>1. n - (m + 1) + 1 = n - m /\ n - m \in Nat
  OBVIOUS
<1>2. PICK q : q = [i \in 1 .. n - m |-> m + 1 + i - 1]
  OBVIOUS
<1>3. Bytes(m + 1, n) = q
  BY <1>1, <1>2 DEF Bytes
<1>4. \A i \in 1 .. n - m : m + 1 + i - 1 = m + i /\ m + i \in 1 .. n /\ m + i \in Nat
  OBVIOUS
<1>5. q \in [1 .. n - m -> 1 .. n] /\ q \in [1 .. n - m -> Nat]
  BY <1>2, <1>4
<1>6. q \in Seq(1 .. n) /\ q \in Seq(Nat) /\ Len(q) = n - m
  BY <1>1, <1>5
<1>7. \A i \in 1 .. n - m : q[i] = m + i
  BY <1>2, <1>4
<1>8. m = n => q = <<>>
  BY <1>6
<1> QED
  BY <1>3, <1>6, <1>7, <1>8 DEF Numbered

\* What arrived and what is on its way is one run of bytes from the first.
LEMMA NumberedJoined ==
  ASSUME NEW q, NEW r, Numbered(q, 0), Numbered(r, Len(q))
  PROVE  q \o r = Bytes(1, Len(q) + Len(r))
<1>1. q \in Seq(Nat) /\ r \in Seq(Nat) /\ Len(q) \in Nat /\ Len(r) \in Nat
  BY DEF Numbered
<1>2. PICK n \in Nat : n = Len(q) + Len(r)
  BY <1>1
<1>3. q \o r \in Seq(Nat) /\ Len(q \o r) = n
  BY <1>1, <1>2
<1>4. ASSUME NEW i \in 1 .. n PROVE (q \o r)[i] = 1 + i - 1
  <2>1. CASE i <= Len(q)
    <3>1. (q \o r)[i] = q[i] /\ i \in 1 .. Len(q)
      BY <1>1, <1>2, <2>1
    <3> QED
      BY <3>1 DEF Numbered
  <2>2. CASE i > Len(q)
    <3>1. i - Len(q) \in 1 .. Len(r) /\ Len(q) + (i - Len(q)) = i
      BY <1>1, <1>2, <2>2
    <3>2. (q \o r)[i] = r[i - Len(q)]
      BY <1>1, <1>2, <2>2
    <3>3. r[i - Len(q)] = Len(q) + (i - Len(q))
      BY <3>1 DEF Numbered
    <3> QED
      BY <3>1, <3>2, <3>3
  <2>3. i <= Len(q) \/ i > Len(q)
    BY <1>1
  <2> QED
    BY <2>1, <2>2, <2>3
<1>5. q \o r = [i \in 1 .. n |-> 1 + i - 1]
  <2>1. PICK w : w = q \o r
    OBVIOUS
  <2>2. w \in [1 .. n -> Nat]
    BY <1>3, <2>1, LenProperties
  <2>3. w = [i \in 1 .. n |-> 1 + i - 1]
    BY <1>4, <2>1, <2>2
  <2> QED
    BY <2>1, <2>3
<1>6. n - 1 + 1 = n
  BY <1>2
<1> QED
  BY <1>2, <1>5, <1>6 DEF Bytes

LEMMA LinkedEmpty ==
  ASSUME NEW first \in Nat, NEW last \in Nat
  PROVE  Linked(<<>>, first, last) <=> first = last
<1>1. Len(<<>>) = 0
  OBVIOUS
<1>2. ASSUME first = last PROVE Linked(<<>>, first, last)
  <2>1. PICK ends : ends = [k \in 0 .. 0 |-> first]
    OBVIOUS
  <2>2. ends \in [0 .. 0 -> 0 .. last] /\ ends[0] = first
    BY <1>2, <2>1
  <2> QED
    BY <1>1, <1>2, <2>2 DEF Linked
<1> QED
  BY <1>1, <1>2 DEF Linked

\* A DATA frame goes behind the others.
LEMMA LinkedAppend ==
  ASSUME NEW S, NEW q \in Seq(S), NEW first \in Nat, NEW last \in Nat, NEW more \in Nat,
         last <= more, Linked(q, first, last)
  PROVE  Linked(Append(q, Bytes(last + 1, more)), first, more)
<1>1. PICK n \in Nat : n = Len(q)
  OBVIOUS
<1>2. PICK b : b = Bytes(last + 1, more)
  OBVIOUS
<1>3. PICK r : r = Append(q, b)
  OBVIOUS
<1>4. Len(r) = n + 1 /\ r[n + 1] = b /\ \A k \in 1 .. n : r[k] = q[k]
  BY <1>1, <1>3
<1>5. PICK ends \in [0 .. n -> 0 .. last] :
        /\ ends[0] = first /\ ends[n] = last
        /\ \A k \in 1 .. n :
             ends[k - 1] <= ends[k] /\ q[k] = Bytes(ends[k - 1] + 1, ends[k])
  BY <1>1 DEF Linked
<1>6. PICK e : e = [k \in 0 .. n + 1 |-> IF k = n + 1 THEN more ELSE ends[k]]
  OBVIOUS
<1>7. (\A k \in 0 .. n : e[k] = ends[k]) /\ e[n + 1] = more
  BY <1>6
<1>8. e \in [0 .. n + 1 -> 0 .. more]
  <2>1. \A k \in 0 .. n : ends[k] \in 0 .. more
    BY <1>5
  <2>2. \A k \in 0 .. n + 1 : k = n + 1 \/ k \in 0 .. n
    OBVIOUS
  <2>3. more \in 0 .. more
    OBVIOUS
  <2>4. \A k \in 0 .. n + 1 : (IF k = n + 1 THEN more ELSE ends[k]) \in 0 .. more
    BY <2>1, <2>2, <2>3
  <2> QED
    BY <1>6, <2>4
<1>9. ASSUME NEW k \in 1 .. n + 1
      PROVE  e[k - 1] <= e[k] /\ r[k] = Bytes(e[k - 1] + 1, e[k])
  <2>1. CASE k = n + 1
    <3>1. k - 1 = n /\ n \in 0 .. n
      BY <2>1
    <3>2. e[k - 1] = last /\ e[k] = more /\ r[k] = b
      BY <1>4, <1>5, <1>7, <2>1, <3>1
    <3> QED
      BY <1>2, <3>2
  <2>2. CASE k \in 1 .. n
    <3>1. k \in 0 .. n /\ k - 1 \in 0 .. n
      BY <2>2
    <3> QED
      BY <1>4, <1>5, <1>7, <2>2, <3>1
  <2> QED
    BY <2>1, <2>2
<1>10. e[0] = first
  BY <1>5, <1>7
<1>11. Linked(r, first, more)
  BY <1>4, <1>7, <1>8, <1>9, <1>10 DEF Linked
<1> QED
  BY <1>2, <1>3, <1>11

LEMMA LinkedBounds ==
  ASSUME NEW S, NEW q \in Seq(S), NEW first \in Nat, NEW last \in Nat, Linked(q, first, last)
  PROVE  first <= last
<1>1. 0 \in 0 .. Len(q)
  OBVIOUS
<1> QED
  BY <1>1 DEF Linked

\* The frame at the front starts where the chain does.
LEMMA LinkedTail ==
  ASSUME NEW S, NEW q \in Seq(S), NEW first \in Nat, NEW last \in Nat,
         q # <<>>, Linked(q, first, last)
  PROVE  \E m \in first .. last : Head(q) = Bytes(first + 1, m) /\ Linked(Tail(q), m, last)
<1>1. PICK n \in Nat : n + 1 = Len(q)
  OBVIOUS
<1>2. PICK r : r = Tail(q)
  OBVIOUS
<1>3. Len(r) = n /\ Head(q) = q[1] /\ \A k \in 1 .. n : r[k] = q[k + 1]
  BY <1>1, <1>2
<1>4. PICK ends \in [0 .. n + 1 -> 0 .. last] :
        /\ ends[0] = first /\ ends[n + 1] = last
        /\ \A k \in 1 .. n + 1 :
             ends[k - 1] <= ends[k] /\ q[k] = Bytes(ends[k - 1] + 1, ends[k])
  BY <1>1 DEF Linked
<1>5. PICK m : m = ends[1]
  OBVIOUS
<1>6. 1 \in 1 .. n + 1 /\ 1 - 1 = 0
  OBVIOUS
<1>7. m \in first .. last /\ Head(q) = Bytes(first + 1, m)
  BY <1>3, <1>4, <1>5, <1>6
<1>8. PICK e : e = [k \in 0 .. n |-> ends[k + 1]]
  OBVIOUS
<1>9. \A k \in 0 .. n : e[k] = ends[k + 1] /\ k + 1 \in 0 .. n + 1
  BY <1>8
<1>10. e \in [0 .. n -> 0 .. last]
  BY <1>4, <1>8, <1>9
<1>11. e[0] = m /\ e[n] = last
  <2>1. 0 \in 0 .. n /\ n \in 0 .. n /\ 0 + 1 = 1
    OBVIOUS
  <2> QED
    BY <1>4, <1>5, <1>9, <2>1
<1>12. ASSUME NEW k \in 1 .. n
       PROVE  e[k - 1] <= e[k] /\ r[k] = Bytes(e[k - 1] + 1, e[k])
  <2>1. /\ k - 1 \in 0 .. n /\ k \in 0 .. n /\ k + 1 \in 1 .. n + 1
        /\ k - 1 + 1 = k /\ k + 1 - 1 = k
    BY <1>12
  <2>2. e[k - 1] = ends[k] /\ e[k] = ends[k + 1] /\ r[k] = q[k + 1]
    BY <1>3, <1>9, <2>1
  <2>3. ends[k] <= ends[k + 1] /\ q[k + 1] = Bytes(ends[k] + 1, ends[k + 1])
    BY <1>4, <2>1
  <2> QED
    BY <2>2, <2>3
<1>13. Linked(r, m, last)
  BY <1>3, <1>10, <1>11, <1>12 DEF Linked
<1> QED
  BY <1>2, <1>7, <1>13

-----------------------------------------------------------------------------
\* What the types say of the numbers the steps calculate with.
LEMMA Types ==
  ASSUME IInv
  PROVE  /\ {EdgeLength, OriginLength, MaxEmpty, MaxChunk, Window, Pipe, Buffer} \subseteq Nat
         /\ {edgeSent, unreleased, Taken, originGot, originSent, Handed, Delivered} \subseteq Nat
         /\ {Len(toOrigin), Len(fromOrigin), Len(toEdge), Len(edgeGot), Len(pending)} \subseteq Nat
         /\ reader.chunk \in Seq(Nat) /\ Len(reader.chunk) \in Nat /\ reader.position \in Nat
         /\ {toOrigin, fromOrigin, toEdge, edgeGot, pending} \subseteq Seq(Nat)
         /\ frames \in Seq(Seq(1 .. EdgeLength))
         /\ edgeSent <= EdgeLength /\ unreleased <= edgeSent
<1>1. {EdgeLength, OriginLength, MaxEmpty, MaxChunk, Window, Pipe, Buffer} \subseteq Nat
  BY SizesAssumption
<1>2. /\ edgeSent \in 0 .. EdgeLength /\ unreleased \in 0 .. Window
      /\ originGot \in 0 .. EdgeLength /\ originSent \in 0 .. OriginLength
      /\ edgeGot \in Seq(Nat) /\ frames \in Seq(Seq(1 .. EdgeLength))
  BY DEF IInv, TypeOK
<1>3. {edgeSent, unreleased, originGot, originSent} \subseteq Nat /\ edgeSent <= EdgeLength
  BY <1>1, <1>2
<1>4. {toOrigin, fromOrigin, toEdge, pending} \subseteq Seq(Nat)
  BY DEF IInv, UpInv, DownInv, Numbered
<1>5. {Len(toOrigin), Len(fromOrigin), Len(toEdge), Len(edgeGot), Len(pending)} \subseteq Nat
  BY <1>2, <1>4, LenProperties
<1>6. unreleased <= edgeSent /\ reader.chunk \in Seq(Nat) /\ reader.position \in Nat
  BY DEF IInv, ReaderInv
<1>7. Len(reader.chunk) \in Nat
  BY <1>6, LenProperties
<1>8. {Taken, Handed, Delivered} \subseteq Nat
  <2>1. Taken \in Nat
    BY <1>3, <1>6 DEF Taken
  <2>2. Handed \in Nat /\ Delivered \in Nat
    BY <1>3, <1>5 DEF Handed, Delivered
  <2> QED
    BY <2>1, <2>2
<1> QED
  BY <1>1, <1>2, <1>3, <1>4, <1>5, <1>6, <1>7, <1>8

LEMMA ReaderKept ==
  ASSUME ReaderInv, UNCHANGED <<edgeSent, edgeFin, unreleased, frames, reader>>
  PROVE  ReaderInv'
BY DEF ReaderInv, Taken

LEMMA UpKept ==
  ASSUME UpInv, broken \subseteq broken',
         UNCHANGED <<edgeSent, edgeFin, toOrigin, originGot, originEof, edgeDone>>,
         Taken' + reader'.position = Taken + reader.position,
         UNCHANGED <<pump, pending>> \/ "toOrigin" \notin {pump, pump'}
  PROVE  UpInv'
<1>1. Handed' = Handed
  BY DEF Handed
<1>2. edgeDone' => originEof' \/ broken' # {}
  BY DEF UpInv
<1> QED
  BY <1>1, <1>2 DEF UpInv

LEMMA DownKept ==
  ASSUME DownInv, broken \subseteq broken',
         UNCHANGED <<toEdge, fromOrigin, edgeGot, originSent, originFin, edgeEof, originDone>>,
         UNCHANGED <<pump, pending>> \/ "toEdge" \notin {pump, pump'}
  PROVE  DownInv'
<1>1. Delivered' = Delivered
  BY DEF Delivered
<1>2. originDone' => edgeEof' \/ broken' # {}
  BY DEF DownInv
<1> QED
  BY <1>1, <1>2 DEF DownInv

-----------------------------------------------------------------------------
LEMMA InitInv == Init => IInv
<1> SUFFICES ASSUME Init PROVE IInv
  OBVIOUS
<1>1. <<>> \in Seq(Nat) /\ Len(<<>>) = 0 /\ <<>> \in Seq(Seq(1 .. EdgeLength))
  BY EmptySeq
<1>2. /\ edgeSent = 0 /\ unreleased = 0 /\ edgeEmpty = 0 /\ originGot = 0 /\ originSent = 0
      /\ frames = <<>> /\ pending = <<>> /\ toOrigin = <<>> /\ fromOrigin = <<>>
      /\ toEdge = <<>> /\ edgeGot = <<>>
      /\ pump = "select" /\ broken = {}
      /\ ~edgeFin /\ ~edgeDone /\ ~originDone /\ ~originEof /\ ~edgeEof
  BY DEF Init
<1>3. reader = [held |-> FALSE, chunk |-> <<>>, position |-> 0, eof |-> FALSE]
  BY DEF Init, NewReader
<1>4. TypeOK
  <2>1. edgeFin \in BOOLEAN /\ {edgeDone, originDone, originEof, originFin, edgeEof} \subseteq BOOLEAN
    BY DEF Init
  <2>2. /\ edgeSent \in 0 .. EdgeLength /\ edgeEmpty \in 0 .. MaxEmpty /\ unreleased \in 0 .. Window
        /\ originGot \in 0 .. EdgeLength /\ originSent \in 0 .. OriginLength
        /\ 0 <= Buffer /\ 0 <= Pipe
    BY <1>2, SizesAssumption
  <2>3. reader.position <= Len(reader.chunk)
    BY <1>1, <1>3
  <2> QED
    BY <1>1, <1>2, <2>1, <2>2, <2>3 DEF TypeOK
<1>5. Numbered(<<>>, 0)
  BY <1>1 DEF Numbered
<1>6. Taken = 0 /\ Handed = 0 /\ Delivered = 0 /\ Len(reader.chunk) = 0
  BY <1>1, <1>2, <1>3 DEF Taken, Handed, Delivered
<1>7. ReaderInv
  <2>1. Linked(frames, 0, 0)
    BY <1>2, LinkedEmpty
  <2>2. reader \in [held : BOOLEAN, chunk : Seq(Nat), position : Nat, eof : BOOLEAN]
    BY <1>1, <1>3
  <2> QED
    BY <1>2, <1>3, <1>5, <1>6, <2>1, <2>2 DEF ReaderInv
<1>8. UpInv /\ DownInv
  BY <1>1, <1>2, <1>3, <1>5, <1>6 DEF UpInv, DownInv
<1> QED
  BY <1>1, <1>2, <1>4, <1>7, <1>8 DEF IInv

-----------------------------------------------------------------------------
(* The edge and the origin.                                                 *)

\* A DATA frame goes behind the others, and its capacity is taken.
LEMMA FrameAdded ==
  ASSUME IInv, ~edgeFin, UNCHANGED <<edgeFin, reader>>,
         NEW size \in Nat, edgeSent + size <= EdgeLength,
         edgeSent' = edgeSent + size, unreleased' = unreleased + size,
         frames' = Append(frames, Bytes(edgeSent + 1, edgeSent + size))
  PROVE  /\ ReaderInv' /\ Taken' = Taken
         /\ frames' \in Seq(Seq(1 .. EdgeLength))
<1>1. /\ EdgeLength \in Nat /\ edgeSent \in Nat /\ unreleased \in Nat /\ unreleased <= edgeSent
      /\ Taken \in Nat /\ Len(reader.chunk) \in Nat
      /\ frames \in Seq(Seq(1 .. EdgeLength))
  BY Types
<1>2. PICK a \in Nat : a = edgeSent
  BY <1>1
<1>3. Bytes(a + 1, a + size) \in Seq(1 .. EdgeLength)
  <2>1. a <= a + size /\ a + size \in Nat /\ 1 .. a + size \subseteq 1 .. EdgeLength
    BY <1>1, <1>2
  <2>2. Bytes(a + 1, a + size) \in Seq(1 .. a + size)
    BY <2>1, NumberedBytes
  <2> QED
    BY <2>1, <2>2, SeqMonotonic
<1>4. frames' \in Seq(Seq(1 .. EdgeLength))
  BY <1>1, <1>2, <1>3
<1>5. Taken' = Taken /\ unreleased' <= edgeSent'
  BY <1>1 DEF Taken
<1>6. PICK first \in Nat : first = Taken + Len(reader.chunk)
  BY <1>1
<1>7. Linked(frames, first, a)
  BY <1>2, <1>6 DEF IInv, ReaderInv
<1>8. Linked(frames', first, a + size)
  <2>1. a + size \in Nat /\ a <= a + size
    OBVIOUS
  <2> QED
    BY <1>1, <1>2, <1>7, <2>1, LinkedAppend
<1>9. ReaderInv'
  <2>1. first = Taken' + Len(reader'.chunk) /\ a + size = edgeSent'
    BY <1>2, <1>5, <1>6
  <2>2. /\ reader' \in [held : BOOLEAN, chunk : Seq(Nat), position : Nat, eof : BOOLEAN]
        /\ Numbered(reader'.chunk, Taken')
        /\ reader'.position = 0 \/ reader'.position < Len(reader'.chunk)
        /\ ~reader'.held => reader'.chunk = <<>>
        /\ ~reader'.eof
    BY <1>5 DEF IInv, ReaderInv
  <2> QED
    BY <1>5, <1>8, <2>1, <2>2 DEF ReaderInv
<1> QED
  BY <1>4, <1>5, <1>9

LEMMA EdgeSendsKeeps == ASSUME IInv, EdgeSends PROVE IInv'
<1>1. /\ ~edgeFin
      /\ UNCHANGED <<edgeGot, reader, pump, pending, edgeDone, originDone, toOrigin, originEof,
                     originGot, originSent, originFin, fromOrigin, toEdge, edgeEof, broken>>
  BY DEF EdgeSends, origin
<1>2. TypeOK /\ ReaderInv /\ UpInv /\ DownInv
  BY DEF IInv
<1>3. DownInv'
  BY <1>1, <1>2, DownKept
<1>4. pending' \in Seq(Nat) /\ (pump' = "over" => edgeDone' /\ originDone')
  BY <1>1 DEF IInv
<1>5. /\ {EdgeLength, MaxEmpty, MaxChunk, Window, edgeSent, unreleased, Taken, Handed} \subseteq Nat
      /\ reader.position \in Nat /\ edgeSent <= EdgeLength
  BY Types
<1>6. Handed' = Handed /\ Handed <= edgeSent /\ ~originEof
  BY <1>1, <1>2 DEF UpInv, Handed
<1>7. SUFFICES TypeOK' /\ ReaderInv' /\ UpInv'
  BY <1>3, <1>4 DEF IInv
<1>8. ASSUME NEW size \in 1 .. MaxChunk,
             edgeSent + size <= EdgeLength, unreleased + size <= Window,
             edgeSent' = edgeSent + size, unreleased' = unreleased + size,
             frames' = Append(frames, Bytes(edgeSent + 1, edgeSent + size)),
             UNCHANGED <<edgeFin, edgeEmpty>>
      PROVE  TypeOK' /\ ReaderInv' /\ UpInv'
  <2>1. size \in Nat
    BY <1>5
  <2>2. ReaderInv' /\ Taken' = Taken /\ frames' \in Seq(Seq(1 .. EdgeLength))
    BY <1>1, <1>8, <2>1, FrameAdded
  <2>3. edgeSent' \in 0 .. EdgeLength /\ unreleased' \in 0 .. Window /\ Handed' <= edgeSent'
    <3>1. edgeSent' \in 0 .. EdgeLength
      <4>1. PICK sent \in Nat : sent = edgeSent
        BY <1>5
      <4>2. sent + size <= EdgeLength /\ EdgeLength \in Nat
        BY <1>5, <1>8, <4>1
      <4>3. sent + size \in 0 .. EdgeLength
        BY <2>1, <4>2
      <4> QED
        BY <1>8, <4>1, <4>3
    <3>2. unreleased' \in 0 .. Window
      <4>1. PICK credit \in Nat : credit = unreleased
        BY <1>5
      <4>2. credit + size <= Window /\ Window \in Nat
        BY <1>5, <1>8, <4>1
      <4>3. credit + size \in 0 .. Window
        BY <2>1, <4>2
      <4> QED
        BY <1>8, <4>1, <4>3
    <3>3. Handed <= edgeSent + size
      BY <1>5, <1>6, <2>1
    <3> QED
      BY <1>6, <1>8, <3>1, <3>2, <3>3
  <2>4. TypeOK'
    BY <1>1, <1>2, <1>8, <2>2, <2>3 DEF TypeOK
  <2>5. UpInv'
    BY <1>1, <1>2, <1>6, <2>2, <2>3 DEF UpInv
  <2> QED
    BY <2>2, <2>4, <2>5
<1>9. ASSUME edgeEmpty < MaxEmpty, edgeEmpty' = edgeEmpty + 1,
             frames' = Append(frames, <<>>),
             UNCHANGED <<edgeSent, edgeFin, unreleased>>
      PROVE  TypeOK' /\ ReaderInv' /\ UpInv'
  <2>1. /\ edgeSent + 0 = edgeSent /\ unreleased + 0 = unreleased
        /\ edgeSent <= edgeSent
    BY <1>5
  <2> Bytes(edgeSent + 1, edgeSent + 0) = <<>>
    BY <1>5, <2>1, NumberedBytes
  <2>2. ReaderInv' /\ Taken' = Taken /\ frames' \in Seq(Seq(1 .. EdgeLength))
    BY <1>1, <1>5, <1>9, <2>1, FrameAdded
  <2>3. edgeEmpty' \in 0 .. MaxEmpty
    <3>1. edgeEmpty \in 0 .. MaxEmpty /\ MaxEmpty \in Nat
      BY <1>2, <1>5 DEF TypeOK
    <3> QED
      BY <1>9, <3>1
  <2>4. TypeOK'
    BY <1>1, <1>2, <1>9, <2>2, <2>3 DEF TypeOK
  <2>5. UpInv'
    BY <1>1, <1>2, <1>9, <2>2, UpKept
  <2> QED
    BY <2>2, <2>4, <2>5
<1>10. ASSUME edgeFin', UNCHANGED <<edgeSent, edgeEmpty, unreleased, frames>>
       PROVE  TypeOK' /\ ReaderInv' /\ UpInv'
  <2>1. edgeFin' \in BOOLEAN
    BY <1>10
  <2>2. TypeOK'
    BY <1>1, <1>2, <1>10, <2>1 DEF TypeOK
  <2>3. Taken' = Taken
    BY <1>10 DEF Taken
  <2>4. ReaderInv'
    BY <1>1, <1>2, <1>10, <2>3 DEF ReaderInv
  <2>5. UpInv'
    BY <1>1, <1>2, <1>6, <1>10, <2>3 DEF UpInv
  <2> QED
    BY <2>2, <2>4, <2>5
<1> QED
  BY <1>8, <1>9, <1>10 DEF EdgeSends

LEMMA EdgeReceivesKeeps == ASSUME IInv, EdgeReceives PROVE IInv'
<1>1. /\ toEdge # <<>>
      /\ edgeGot' = Append(edgeGot, Head(toEdge))
      /\ toEdge' = Tail(toEdge)
      /\ UNCHANGED <<edgeSent, edgeFin, edgeEmpty, frames, unreleased, reader, pump, pending,
                     edgeDone, originDone, toOrigin, originEof, originGot, originSent, originFin,
                     fromOrigin, edgeEof, broken>>
  BY DEF EdgeReceives, origin
<1>2. TypeOK /\ ReaderInv /\ UpInv /\ DownInv
  BY DEF IInv
<1>3. ReaderInv' /\ UpInv'
  <2>1. Taken' + reader'.position = Taken + reader.position
    BY <1>1 DEF Taken
  <2> QED
    BY <1>1, <1>2, <2>1, ReaderKept, UpKept
<1>4. Len(edgeGot) \in Nat /\ Len(toEdge) \in Nat /\ Delivered \in Nat /\ Pipe \in Nat
  BY Types
<1>5. /\ Numbered(toEdge', Len(edgeGot) + 1) /\ Len(toEdge) # 0 /\ Len(toEdge') = Len(toEdge) - 1
      /\ Head(toEdge) = 0 + Len(edgeGot) + 1
  BY <1>1, <1>2, <1>4, NumberedTail DEF DownInv
<1>6. Numbered(edgeGot', 0) /\ Len(edgeGot') = Len(edgeGot) + 1
  BY <1>1, <1>2, <1>5, NumberedAppend DEF DownInv
<1>7. Delivered' = Delivered
  BY <1>4, <1>5, <1>6 DEF Delivered
<1>8. DownInv'
  BY <1>1, <1>2, <1>5, <1>6, <1>7 DEF DownInv
<1>9. TypeOK'
  <2>1. edgeGot' \in Seq(Nat)
    BY <1>6 DEF Numbered
  <2>2. Len(toEdge') <= Pipe
    BY <1>2, <1>4, <1>5 DEF TypeOK
  <2> QED
    BY <1>1, <1>2, <2>1, <2>2 DEF TypeOK
<1> QED
  BY <1>1, <1>3, <1>8, <1>9 DEF IInv

LEMMA OriginReceivesKeeps == ASSUME IInv, OriginReceives PROVE IInv'
<1>1. /\ toOrigin # <<>>
      /\ originGot' = originGot + 1
      /\ toOrigin' = Tail(toOrigin)
      /\ UNCHANGED <<edgeSent, edgeFin, edgeEmpty, edgeGot, frames, unreleased, reader, pump,
                     pending, edgeDone, originDone, originEof, originSent, originFin, fromOrigin,
                     toEdge, edgeEof, broken>>
  BY DEF OriginReceives, edge
<1>2. TypeOK /\ ReaderInv /\ UpInv /\ DownInv
  BY DEF IInv
<1>3. ReaderInv' /\ DownInv'
  BY <1>1, <1>2, ReaderKept, DownKept
<1>4. {originGot, Handed, edgeSent, EdgeLength, Pipe, Len(toOrigin)} \subseteq Nat /\ edgeSent <= EdgeLength
  BY Types
<1>5. Numbered(toOrigin', originGot + 1) /\ Len(toOrigin) # 0 /\ Len(toOrigin') = Len(toOrigin) - 1
  BY <1>1, <1>2, <1>4, NumberedTail DEF UpInv
<1>6. Handed' = Handed /\ Taken' = Taken
  BY <1>1, <1>4, <1>5 DEF Handed, Taken
<1>7. UpInv'
  BY <1>1, <1>2, <1>5, <1>6 DEF UpInv
<1>8. TypeOK'
  <2>1. originGot' \in 0 .. EdgeLength
    BY <1>1, <1>2, <1>4, <1>5 DEF UpInv, Handed
  <2>2. Len(toOrigin') <= Pipe
    <3>1. PICK l \in Nat : l = Len(toOrigin)
      BY <1>4
    <3>2. l <= Pipe /\ Pipe \in Nat
      BY <1>2, <1>4, <3>1 DEF TypeOK
    <3>3. l - 1 <= Pipe
      BY <3>2
    <3> QED
      BY <1>5, <3>1, <3>3
  <2> QED
    BY <1>1, <1>2, <2>1, <2>2 DEF TypeOK
<1> QED
  BY <1>1, <1>3, <1>7, <1>8 DEF IInv

LEMMA OriginSendsKeeps == ASSUME IInv, OriginSends PROVE IInv'
<1>1. /\ ~originFin
      /\ UNCHANGED <<edgeSent, edgeFin, edgeEmpty, edgeGot, frames, unreleased, reader, pump,
                     pending, edgeDone, originDone, toOrigin, originEof, originGot,
                     toEdge, edgeEof, broken>>
  BY DEF OriginSends, edge
<1>2. TypeOK /\ ReaderInv /\ UpInv /\ DownInv
  BY DEF IInv
<1>3. ReaderInv' /\ UpInv'
  <2>1. Taken' + reader'.position = Taken + reader.position
    BY <1>1 DEF Taken
  <2> QED
    BY <1>1, <1>2, <2>1, ReaderKept, UpKept
<1>4. /\ {Len(fromOrigin), originSent, OriginLength, Pipe, Delivered, Len(pending)} \subseteq Nat
      /\ Len(fromOrigin) <= originSent
  BY <1>2, Types DEF DownInv
<1>5. Delivered' = Delivered /\ ~edgeEof
  BY <1>1, <1>2 DEF Delivered, DownInv
<1>6. SUFFICES TypeOK' /\ DownInv'
  BY <1>1, <1>3 DEF IInv
<1>7. ASSUME originSent < OriginLength, Len(fromOrigin) < Pipe, originSent' = originSent + 1,
             fromOrigin' = Append(fromOrigin, originSent + 1), originFin' = originFin
      PROVE  TypeOK' /\ DownInv'
  <2>1. PICK n \in Nat : n = originSent - Len(fromOrigin)
    BY <1>4
  <2>2. n + Len(fromOrigin) + 1 = originSent + 1
    BY <1>4, <2>1
  <2>3. Numbered(fromOrigin', n) /\ Len(fromOrigin') = Len(fromOrigin) + 1
    BY <1>2, <1>7, <2>1, <2>2, NumberedAppend DEF DownInv
  <2>4. n = originSent' - Len(fromOrigin') /\ Len(fromOrigin') <= originSent'
        /\ originSent' \in 0 .. OriginLength /\ Len(fromOrigin') <= Pipe
    BY <1>4, <1>7, <2>1, <2>3
  <2>5. TypeOK'
    BY <1>1, <1>2, <1>7, <2>4 DEF TypeOK
  <2>6. ~originDone' /\ pump' # "toEdge" => Delivered' + Len(fromOrigin') = originSent'
    BY <1>1, <1>2, <1>4, <1>5, <1>7, <2>3 DEF DownInv
  <2>7. pump' = "toEdge" => Delivered' + Len(pending') + Len(fromOrigin') = originSent'
    BY <1>1, <1>2, <1>4, <1>5, <1>7, <2>3 DEF DownInv
  <2>8. DownInv'
    BY <1>1, <1>2, <1>5, <1>7, <2>3, <2>4, <2>6, <2>7 DEF DownInv
  <2> QED
    BY <2>5, <2>8
<1>8. ASSUME originFin', UNCHANGED <<originSent, fromOrigin>>
      PROVE  TypeOK' /\ DownInv'
  <2>1. originFin' \in BOOLEAN
    BY <1>8
  <2>2. TypeOK'
    BY <1>1, <1>2, <1>8, <2>1 DEF TypeOK
  <2>3. DownInv'
    BY <1>1, <1>2, <1>5, <1>8 DEF DownInv
  <2> QED
    BY <2>2, <2>3
<1> QED
  BY <1>7, <1>8 DEF OriginSends

LEMMA BreaksKeep == ASSUME IInv, NEW side \in {"edge", "origin"}, Breaks(side) PROVE IInv'
<1>1. /\ broken' = broken \cup {side}
      /\ UNCHANGED <<edgeSent, edgeFin, edgeEmpty, edgeGot, frames, unreleased, reader, pump,
                     pending, edgeDone, originDone, toOrigin, originEof, originGot, originSent,
                     originFin, fromOrigin, toEdge, edgeEof>>
  BY DEF Breaks, edge, origin
<1>2. TypeOK /\ ReaderInv /\ UpInv /\ DownInv
  BY DEF IInv
<1>3. broken \subseteq broken'
  BY <1>1
<1>4. Taken' + reader'.position = Taken + reader.position
  BY <1>1 DEF Taken
<1>5. ReaderInv' /\ UpInv' /\ DownInv'
  BY <1>1, <1>2, <1>3, <1>4, ReaderKept, UpKept, DownKept
<1>6. TypeOK'
  BY <1>1, <1>2 DEF TypeOK
<1> QED
  BY <1>1, <1>5, <1>6 DEF IInv

-----------------------------------------------------------------------------
(* ReceiveStreamReader::poll_read.                                          *)

\* Without a chunk the position is at its start, and the frames start there.
LEMMA NoChunk ==
  ASSUME IInv, ~reader.held
  PROVE  /\ reader.chunk = <<>> /\ Len(reader.chunk) = 0 /\ reader.position = 0
         /\ Linked(frames, Taken, edgeSent)
<1>1. reader.chunk = <<>> /\ Len(reader.chunk) = 0
  BY EmptySeq DEF IInv, ReaderInv
<1>2. reader.position = 0 /\ Taken + 0 = Taken
  <2>1. reader.position \in Nat /\ Taken \in Nat
    BY Types
  <2>2. reader.position = 0 \/ reader.position < Len(reader.chunk)
    BY DEF IInv, ReaderInv
  <2> QED
    BY <1>1, <2>1, <2>2
<1>3. Linked(frames, Taken + Len(reader.chunk), edgeSent)
  BY DEF IInv, ReaderInv
<1> QED
  BY <1>1, <1>2, <1>3

LEMMA ReaderFetchesKeeps == ASSUME IInv, ReaderFetches PROVE IInv'
<1>1. /\ pump = "select" /\ ~edgeDone /\ ~reader.held /\ ~reader.eof
      /\ UNCHANGED <<edgeSent, edgeFin, edgeEmpty, edgeGot, unreleased, pump, pending, edgeDone,
                     originDone, toOrigin, originEof, originGot, originSent, originFin, fromOrigin,
                     toEdge, edgeEof, broken>>
  BY DEF ReaderFetches, edge, origin
<1>2. TypeOK /\ ReaderInv /\ UpInv /\ DownInv
  BY DEF IInv
<1>3. /\ reader \in [held : BOOLEAN, chunk : Seq(Nat), position : Nat, eof : BOOLEAN]
      /\ frames \in Seq(Seq(1 .. EdgeLength)) /\ {Taken, edgeSent, EdgeLength} \subseteq Nat
      /\ edgeSent <= EdgeLength
  BY <1>2, Types DEF ReaderInv
<1>4. /\ reader.chunk = <<>> /\ Len(reader.chunk) = 0 /\ reader.position = 0
      /\ Linked(frames, Taken, edgeSent)
  BY <1>1, NoChunk
<1>5. Taken' = Taken
  BY <1>1 DEF Taken
<1>6. DownInv'
  BY <1>1, <1>2, DownKept
<1>7. SUFFICES ASSUME reader'.position = reader.position,
                      reader'.position <= Len(reader'.chunk),
                      frames' \in Seq(Seq(1 .. EdgeLength)),
                      ReaderInv'
               PROVE  IInv'
  <2>1. SUFFICES /\ reader'.position = reader.position
                 /\ reader'.position <= Len(reader'.chunk)
                 /\ frames' \in Seq(Seq(1 .. EdgeLength))
                 /\ ReaderInv'
    BY <1>7
  <2>2. CASE frames # <<>> /\ reader' = Fetch(reader, Head(frames)) /\ frames' = Tail(frames)
    <3>1. PICK m \in Taken .. edgeSent :
            Head(frames) = Bytes(Taken + 1, m) /\ Linked(Tail(frames), m, edgeSent)
      BY <1>3, <1>4, <2>2, LinkedTail
    <3>2. m \in Nat /\ Taken <= m
      BY <1>3
    <3>3. /\ Numbered(Head(frames), Taken) /\ Len(Head(frames)) = m - Taken
          /\ Head(frames) \in Seq(Nat)
      <4>1. Numbered(Head(frames), Taken) /\ Len(Head(frames)) = m - Taken
        BY <1>3, <3>1, <3>2, NumberedBytes
      <4> QED
        BY <4>1 DEF Numbered
    <3>4. /\ reader' = [held |-> TRUE, chunk |-> Head(frames), position |-> 0, eof |-> FALSE]
          /\ reader' \in [held : BOOLEAN, chunk : Seq(Nat), position : Nat, eof : BOOLEAN]
      BY <1>1, <1>3, <1>4, <2>2, <3>3 DEF Fetch
    <3>5. Taken + Len(Head(frames)) = m
      BY <1>3, <3>2, <3>3
    <3>6. ReaderInv'
      BY <1>1, <1>2, <1>5, <2>2, <3>1, <3>3, <3>4, <3>5 DEF ReaderInv
    <3>7. 0 <= Len(Head(frames))
      BY <1>3, <3>2, <3>3
    <3>8. frames' \in Seq(Seq(1 .. EdgeLength))
      BY <1>3, <2>2, HeadTailProperties
    <3> QED
      BY <1>4, <3>4, <3>6, <3>7, <3>8
  <2>3. CASE frames = <<>> /\ edgeFin /\ reader' = End(reader) /\ frames' = frames
    <3>1. /\ reader' = [reader EXCEPT !.eof = TRUE]
          /\ reader' \in [held : BOOLEAN, chunk : Seq(Nat), position : Nat, eof : BOOLEAN]
      BY <1>3, <2>3 DEF End
    <3>2. /\ reader'.held = reader.held /\ reader'.chunk = reader.chunk
          /\ reader'.position = reader.position
      BY <1>3, <3>1
    <3>3. ReaderInv'
      BY <1>1, <1>2, <1>5, <2>3, <3>1, <3>2 DEF ReaderInv
    <3> QED
      BY <1>3, <1>4, <2>3, <3>2, <3>3
  <2> QED
    BY <2>2, <2>3 DEF ReaderFetches
<1>8. UpInv'
  BY <1>1, <1>2, <1>5, <1>7, UpKept
<1>9. TypeOK'
  BY <1>1, <1>2, <1>7 DEF TypeOK
<1> QED
  BY <1>1, <1>6, <1>7, <1>8, <1>9 DEF IInv

LEMMA ReaderSkipsKeeps == ASSUME IInv, ReaderSkips PROVE IInv'
<1>1. /\ pump = "select" /\ ~edgeDone /\ reader.held /\ ~HasBytes(reader)
      /\ reader' = DropChunk(reader)
      /\ UNCHANGED <<edgeSent, edgeFin, edgeEmpty, edgeGot, frames, unreleased, pump, pending,
                     edgeDone, originDone, toOrigin, originEof, originGot, originSent, originFin,
                     fromOrigin, toEdge, edgeEof, broken>>
  BY DEF ReaderSkips, edge, origin
<1>2. TypeOK /\ ReaderInv /\ UpInv /\ DownInv
  BY DEF IInv
<1>3. /\ reader \in [held : BOOLEAN, chunk : Seq(Nat), position : Nat, eof : BOOLEAN]
      /\ Len(reader.chunk) \in Nat /\ reader.position \in Nat
  BY <1>2, Types DEF ReaderInv
<1>4. Len(reader.chunk) = 0 /\ reader.position = 0
  BY <1>1, <1>2, <1>3 DEF ReaderInv, HasBytes
<1>5. reader.chunk = <<>> /\ <<>> \in Seq(Nat)
  BY <1>3, <1>4, EmptySeq
<1>6. /\ reader' = [held |-> FALSE, chunk |-> <<>>, position |-> 0, eof |-> reader.eof]
      /\ reader' \in [held : BOOLEAN, chunk : Seq(Nat), position : Nat, eof : BOOLEAN]
  BY <1>1, <1>3, <1>5 DEF DropChunk
<1>7. Taken' = Taken /\ reader'.position = reader.position /\ reader'.chunk = reader.chunk
      /\ reader'.eof = reader.eof
  BY <1>1, <1>4, <1>5, <1>6 DEF Taken
<1>8. ReaderInv'
  BY <1>1, <1>2, <1>4, <1>5, <1>6, <1>7 DEF ReaderInv
<1>9. UpInv' /\ DownInv'
  BY <1>1, <1>2, <1>7, UpKept, DownKept
<1>10. TypeOK'
  BY <1>1, <1>2, <1>4, <1>7 DEF TypeOK
<1> QED
  BY <1>1, <1>8, <1>9, <1>10 DEF IInv

\* A copy takes n bytes, and a chunk used up is released as a whole; either way
\* what was taken off the frames moves on by n.
LEMMA ReadEdgeKeeps == ASSUME IInv, ReadEdge PROVE IInv'
<1> DEFINE n == CopyLength(reader, Buffer)
<1>1. /\ pump = "select" /\ pump' = "toOrigin" /\ ~edgeDone /\ HasBytes(reader)
      /\ pending' = Copied(reader, n)
      /\ unreleased' = unreleased - Released(n)
      /\ reader' = AfterCopy(reader, n)
      /\ UNCHANGED <<edgeSent, edgeFin, edgeEmpty, edgeGot, frames, edgeDone, originDone, toOrigin,
                     originEof, originGot, originSent, originFin, fromOrigin, toEdge, edgeEof,
                     broken>>
  BY DEF ReadEdge, edge, origin
<1>2. TypeOK /\ ReaderInv /\ UpInv /\ DownInv
  BY DEF IInv
<1>3. /\ {Taken, Handed, edgeSent, unreleased, Len(reader.chunk), reader.position} \subseteq Nat
      /\ reader.chunk \in Seq(Nat) /\ Buffer \in Nat \ {0}
      /\ frames \in Seq(Seq(1 .. EdgeLength)) /\ Window \in Nat
  BY Types, SizesAssumption
<1>4. /\ reader \in [held : BOOLEAN, chunk : Seq(Nat), position : Nat, eof : BOOLEAN]
      /\ reader.held /\ ~reader.eof /\ reader.position < Len(reader.chunk)
  BY <1>1, <1>2 DEF HasBytes, ReaderInv
<1>5. PICK size \in Nat : size = Len(reader.chunk)
  BY <1>3
<1>6. PICK at \in Nat : at = reader.position
  BY <1>3
<1>7. n \in Nat \ {0} /\ n <= Buffer /\ at + n <= size
  <2>1. n = IF size - at < Buffer THEN size - at ELSE Buffer
    BY <1>5, <1>6 DEF CopyLength
  <2>2. at < size /\ Buffer \in Nat \ {0}
    BY <1>3, <1>4, <1>5, <1>6
  <2> HIDE DEF n
  <2> QED
    BY <2>1, <2>2
<1> HIDE DEF n
<1>8. PICK first \in Nat : first = Taken
  BY <1>3
<1>9. Numbered(pending', first + at) /\ Len(pending') = n
  <2>1. pending' = SubSeq(reader.chunk, at + 1, at + n)
    BY <1>1, <1>6 DEF Copied
  <2>2. Numbered(reader.chunk, first)
    BY <1>2, <1>8 DEF ReaderInv
  <2>3. PICK a \in Nat \ {0}, b \in Nat : a = at + 1 /\ b = at + n
    BY <1>7
  <2>4. a <= b + 1 /\ b <= size /\ b - a + 1 = n /\ first + a - 1 = first + at
    BY <1>7, <2>3
  <2>5. Numbered(SubSeq(reader.chunk, a, b), first + a - 1) /\ Len(SubSeq(reader.chunk, a, b)) = n
    BY <1>5, <2>2, <2>4, NumberedPart
  <2> QED
    BY <2>1, <2>3, <2>4, <2>5
<1>10. Linked(frames, first + size, edgeSent) /\ first + size <= edgeSent
  <2>1. Linked(frames, first + size, edgeSent)
    BY <1>2, <1>5, <1>8 DEF ReaderInv
  <2> QED
    BY <1>3, <2>1, LinkedBounds
<1>11. first + unreleased = edgeSent
  BY <1>2, <1>3, <1>8 DEF Taken, ReaderInv
<1>12. SUFFICES ASSUME Taken' + reader'.position = first + at + n,
                       unreleased' \in 0 .. Window,
                       reader'.position <= Len(reader'.chunk),
                       ReaderInv'
                PROVE  IInv'
  <2>1. SUFFICES /\ Taken' + reader'.position = first + at + n
                 /\ unreleased' \in 0 .. Window
                 /\ reader'.position <= Len(reader'.chunk)
                 /\ ReaderInv'
    BY <1>12
  <2>2. unreleased \in 0 .. Window
    BY <1>2 DEF TypeOK
  <2>3. CASE at + n = size
    <3>1. /\ reader' = [held |-> FALSE, chunk |-> <<>>, position |-> 0, eof |-> FALSE]
          /\ unreleased' = unreleased - size
      BY <1>1, <1>4, <1>5, <1>6, <2>3 DEF AfterCopy, Exhausted, DropChunk, Released
    <3>2. /\ reader'.chunk = <<>> /\ reader'.position = 0 /\ ~reader'.held /\ ~reader'.eof
          /\ <<>> \in Seq(Nat) /\ Len(<<>>) = 0
          /\ reader' \in [held : BOOLEAN, chunk : Seq(Nat), position : Nat, eof : BOOLEAN]
      BY <3>1, EmptySeq
    <3>3. Taken' = first + size
      BY <1>1, <1>3, <1>11, <3>1 DEF Taken
    <3>4. unreleased' \in 0 .. Window /\ unreleased' <= edgeSent'
      BY <1>1, <1>3, <1>10, <1>11, <2>2, <3>1
    <3>5. Numbered(<<>>, Taken')
      BY <3>2 DEF Numbered
    <3>6. Linked(frames, first + size + 0, edgeSent)
      BY <1>10
    <3>7. ReaderInv'
      BY <1>1, <3>2, <3>3, <3>4, <3>5, <3>6 DEF ReaderInv
    <3>8. Taken' + reader'.position = first + at + n /\ reader'.position <= Len(reader'.chunk)
      BY <1>7, <2>3, <3>2, <3>3
    <3> QED
      BY <3>4, <3>7, <3>8
  <2>4. CASE at + n # size
    <3>1. /\ reader' = [held |-> TRUE, chunk |-> reader.chunk, position |-> at + n, eof |-> FALSE]
          /\ unreleased' = unreleased - 0
      BY <1>1, <1>4, <1>5, <1>6, <2>4 DEF AfterCopy, Exhausted, Advance, Released
    <3>2. unreleased' = unreleased
      BY <1>3, <3>1
    <3>3. Taken' = first
      BY <1>1, <1>8, <3>2 DEF Taken
    <3>4. /\ reader'.chunk = reader.chunk /\ reader'.position = at + n /\ reader'.held /\ ~reader'.eof
          /\ reader' \in [held : BOOLEAN, chunk : Seq(Nat), position : Nat, eof : BOOLEAN]
      BY <1>3, <1>7, <3>1
    <3>5. at + n < size
      BY <1>7, <2>4
    <3>6. ReaderInv'
      BY <1>1, <1>2, <1>5, <1>8, <3>2, <3>3, <3>4, <3>5 DEF ReaderInv
    <3>7. first + (at + n) = first + at + n /\ at + n <= size
      BY <1>7
    <3> QED
      BY <1>5, <2>2, <3>2, <3>3, <3>4, <3>6, <3>7
  <2> QED
    BY <2>3, <2>4
<1>13. Handed' = Handed /\ Handed = first + at
  BY <1>1, <1>2, <1>6, <1>8 DEF Handed, UpInv
<1>14. UpInv'
  <2>1. Handed' + Len(pending') = Taken' + reader'.position
    BY <1>9, <1>12, <1>13
  <2> QED
    BY <1>1, <1>2, <1>9, <1>13, <2>1 DEF UpInv
<1>15. DownInv'
  BY <1>1, <1>2, DownKept
<1>16. TypeOK'
  <2>1. pending' # <<>> /\ Len(pending') <= Buffer
    BY <1>7, <1>9
  <2> QED
    BY <1>1, <1>2, <1>12, <2>1 DEF TypeOK
<1>17. pending' \in Seq(Nat)
  BY <1>9 DEF Numbered
<1> QED
  BY <1>1, <1>12, <1>14, <1>15, <1>16, <1>17 DEF IInv

LEMMA EdgeReadEndsKeeps == ASSUME IInv, EdgeReadEnds PROVE IInv'
<1>1. /\ pump = "select" /\ ~edgeDone /\ edgeDone' /\ edgeDone' \in BOOLEAN
      /\ reader.eof \/ broken # {}
      /\ originEof' = reader.eof
      /\ UNCHANGED <<edgeSent, edgeFin, edgeEmpty, edgeGot, frames, unreleased, reader, pump,
                     pending, originDone, toOrigin, originGot, originSent, originFin, fromOrigin,
                     toEdge, edgeEof, broken>>
  BY DEF EdgeReadEnds, ClosesOrigin, edge, origin
<1>2. TypeOK /\ ReaderInv /\ UpInv /\ DownInv
  BY DEF IInv
<1>3. ReaderInv' /\ DownInv'
  BY <1>1, <1>2, ReaderKept, DownKept
<1>4. Handed' = Handed /\ Taken' = Taken
  BY <1>1 DEF Handed, Taken
<1>5. {Taken, Handed, edgeSent} \subseteq Nat
  BY Types
<1>6. reader.eof => edgeFin /\ Handed = edgeSent
  <2> SUFFICES ASSUME reader.eof PROVE edgeFin /\ Handed = edgeSent
    OBVIOUS
  <2>1. edgeFin /\ frames = <<>> /\ ~reader.held
    BY <1>2 DEF ReaderInv
  <2>2. reader.position = 0 /\ Linked(frames, Taken, edgeSent)
    BY <2>1, NoChunk
  <2>3. Taken = edgeSent
    BY <1>5, <2>1, <2>2, LinkedEmpty
  <2>4. Handed = Taken + reader.position
    BY <1>1, <1>2 DEF UpInv
  <2> QED
    BY <1>5, <2>1, <2>2, <2>3, <2>4
<1>7. UpInv'
  BY <1>1, <1>2, <1>4, <1>6 DEF UpInv
<1>8. originEof' \in BOOLEAN
  BY <1>1, <1>2 DEF ReaderInv
<1>9. TypeOK'
  BY <1>1, <1>2, <1>8 DEF TypeOK
<1> QED
  BY <1>1, <1>3, <1>7, <1>9 DEF IInv

-----------------------------------------------------------------------------
(* The origin arm, and the writes.                                          *)

\* A read takes the front of what the origin sent.
LEMMA ReadOriginKeeps == ASSUME IInv, ReadOrigin PROVE IInv'
<1> DEFINE n == IF Len(fromOrigin) < Buffer THEN Len(fromOrigin) ELSE Buffer
<1>1. /\ pump = "select" /\ pump' = "toEdge" /\ ~originDone /\ fromOrigin # <<>>
      /\ pending' = SubSeq(fromOrigin, 1, n)
      /\ fromOrigin' = SubSeq(fromOrigin, n + 1, Len(fromOrigin))
      /\ UNCHANGED <<edgeSent, edgeFin, edgeEmpty, edgeGot, frames, unreleased, reader, edgeDone,
                     originDone, toOrigin, originEof, originGot, originSent, originFin, toEdge,
                     edgeEof, broken>>
  BY DEF ReadOrigin, edge, origin
<1>2. TypeOK /\ ReaderInv /\ UpInv /\ DownInv
  BY DEF IInv
<1>3. ReaderInv' /\ UpInv'
  <2>1. Taken' + reader'.position = Taken + reader.position
    BY <1>1 DEF Taken
  <2> QED
    BY <1>1, <1>2, <2>1, ReaderKept, UpKept
<1>4. /\ {originSent, Delivered, Len(fromOrigin), Pipe} \subseteq Nat /\ Buffer \in Nat \ {0}
      /\ fromOrigin \in Seq(Nat) /\ Len(fromOrigin) # 0 /\ Len(fromOrigin) <= originSent
  <2>1. fromOrigin \in Seq(Nat) /\ {originSent, Delivered, Len(fromOrigin), Pipe} \subseteq Nat
    BY Types
  <2>2. Len(fromOrigin) # 0
    BY <1>1, <2>1, EmptySeq
  <2> QED
    BY <1>2, <2>1, <2>2, SizesAssumption DEF DownInv
<1>5. PICK size \in Nat : size = Len(fromOrigin)
  BY <1>4
<1>6. n \in Nat \ {0} /\ n <= Buffer /\ n <= size
  BY <1>4, <1>5
<1> HIDE DEF n
<1>7. PICK first \in Nat : first = originSent - size
  BY <1>4, <1>5
<1>8. Numbered(fromOrigin, first)
  BY <1>2, <1>5, <1>7 DEF DownInv
<1>9. Numbered(pending', first) /\ Len(pending') = n
  <2>1. PICK k \in Nat \ {0} : k = n
    BY <1>6
  <2>2. 1 <= k + 1 /\ k <= size /\ k - 1 + 1 = k /\ first + 1 - 1 = first
    BY <1>6, <2>1
  <2>3. Numbered(SubSeq(fromOrigin, 1, k), first + 1 - 1) /\ Len(SubSeq(fromOrigin, 1, k)) = k - 1 + 1
    BY <1>5, <1>8, <2>2, NumberedPart
  <2> QED
    BY <1>1, <2>1, <2>2, <2>3
<1>10. PICK rest \in Nat : n + rest = size
  BY <1>6
<1>11. Numbered(fromOrigin', first + n) /\ Len(fromOrigin') = rest
  <2>1. PICK a \in Nat \ {0} : a = n + 1
    BY <1>6
  <2>2. a <= size + 1 /\ size <= size /\ size - a + 1 = rest /\ first + a - 1 = first + n
    BY <1>6, <1>10, <2>1
  <2>3. /\ Numbered(SubSeq(fromOrigin, a, size), first + a - 1)
        /\ Len(SubSeq(fromOrigin, a, size)) = size - a + 1
    BY <1>5, <1>8, <2>2, NumberedPart
  <2> QED
    BY <1>1, <1>5, <2>1, <2>2, <2>3
<1>12. Delivered' = Delivered /\ Delivered = first /\ first + size = originSent'
  <2>1. Delivered + size = originSent
    BY <1>1, <1>2, <1>5 DEF DownInv
  <2>2. Delivered' = Delivered
    BY <1>1 DEF Delivered
  <2>3. Delivered = first /\ first + size = originSent
    BY <1>4, <1>7, <2>1
  <2> QED
    BY <1>1, <2>2, <2>3
<1>13. PICK sent \in Nat : sent = originSent'
  BY <1>1, <1>4
<1>14. /\ rest <= sent /\ first + n = sent - rest /\ first + n + rest = sent
       /\ rest <= size
  <2>1. first + size = sent
    BY <1>12, <1>13
  <2>2. PICK m \in Nat : m = n
    BY <1>6
  <2>3. /\ rest <= sent /\ first + m = sent - rest /\ first + m + rest = sent
        /\ rest <= size
    BY <1>10, <2>1, <2>2
  <2> QED
    BY <2>2, <2>3
<1>15. DownInv'
  <2>1. Numbered(fromOrigin', originSent' - Len(fromOrigin')) /\ Len(fromOrigin') <= originSent'
    BY <1>11, <1>13, <1>14
  <2>2. Delivered' + Len(pending') + Len(fromOrigin') = originSent'
    BY <1>9, <1>11, <1>12, <1>13, <1>14
  <2>3. Numbered(pending', Delivered')
    BY <1>9, <1>12
  <2> QED
    BY <1>1, <1>2, <2>1, <2>2, <2>3 DEF DownInv
<1>16. TypeOK'
  <2>1. pending' # <<>> /\ Len(pending') <= Buffer
    BY <1>6, <1>9
  <2>2. Len(fromOrigin') <= Pipe
    <3>1. size <= Pipe
      BY <1>2, <1>5 DEF TypeOK
    <3> QED
      BY <1>4, <1>11, <1>14, <3>1
  <2> QED
    BY <1>1, <1>2, <2>1, <2>2 DEF TypeOK
<1>17. pending' \in Seq(Nat)
  BY <1>9 DEF Numbered
<1> QED
  BY <1>1, <1>3, <1>15, <1>16, <1>17 DEF IInv

LEMMA OriginReadEndsKeeps == ASSUME IInv, OriginReadEnds PROVE IInv'
<1>1. /\ pump = "select" /\ ~originDone /\ originDone' /\ originDone' \in BOOLEAN
      /\ \/ broken # {} /\ edgeEof' = edgeEof
         \/ fromOrigin = <<>> /\ originFin /\ edgeEof' /\ edgeEof' \in BOOLEAN
      /\ UNCHANGED <<edgeSent, edgeFin, edgeEmpty, edgeGot, frames, unreleased, reader, pump,
                     pending, edgeDone, toOrigin, originEof, originGot, originSent, originFin,
                     fromOrigin, toEdge, broken>>
  BY DEF OriginReadEnds, SendEnd, edge, origin
<1>2. TypeOK /\ ReaderInv /\ UpInv /\ DownInv
  BY DEF IInv
<1>3. ReaderInv' /\ UpInv'
  <2>1. Taken' + reader'.position = Taken + reader.position
    BY <1>1 DEF Taken
  <2> QED
    BY <1>1, <1>2, <2>1, ReaderKept, UpKept
<1>4. Delivered' = Delivered
  BY <1>1 DEF Delivered
<1>5. fromOrigin = <<>> => Delivered = originSent
  <2>1. Delivered + Len(fromOrigin) = originSent /\ Delivered \in Nat
    BY <1>1, <1>2, Types DEF DownInv
  <2> QED
    BY <2>1, EmptySeq
<1>6. DownInv'
  BY <1>1, <1>2, <1>4, <1>5 DEF DownInv
<1>7. edgeEof' \in BOOLEAN
  BY <1>1, <1>2 DEF TypeOK
<1>8. TypeOK'
  BY <1>1, <1>2, <1>7 DEF TypeOK
<1> QED
  BY <1>1, <1>3, <1>6, <1>8 DEF IInv

\* write_all goes on until the last byte of what was read.
LEMMA Writing ==
  ASSUME pending # <<>>, pump \in {"toOrigin", "toEdge"}, Written,
         NEW n \in Nat, Numbered(pending, n)
  PROVE  /\ Head(pending) = n + 1
         /\ Len(pending) \in Nat \ {0} /\ Len(pending') = Len(pending) - 1
         /\ Numbered(pending', n + 1) /\ pending' \in Seq(Nat)
         /\ pump' = IF Len(pending) = 1 THEN "select" ELSE pump
         /\ pending' = <<>> <=> pump' = "select"
<1>1. /\ Numbered(pending', n + 1) /\ Len(pending) \in Nat \ {0}
      /\ Len(pending') = Len(pending) - 1 /\ Head(pending) = n + 1
      /\ Len(pending) = 1 <=> pending' = <<>>
  BY NumberedTail DEF Written
<1>2. pump' = IF Len(pending) = 1 THEN "select" ELSE pump
  BY DEF Written
<1>3. pending' \in Seq(Nat)
  BY <1>1 DEF Numbered
<1> QED
  BY <1>1, <1>2, <1>3

LEMMA WriteOriginKeeps == ASSUME IInv, WriteOrigin PROVE IInv'
<1>1. /\ pump = "toOrigin"
      /\ UNCHANGED <<edgeSent, edgeFin, edgeEmpty, edgeGot, frames, unreleased, reader, originDone,
                     originEof, originGot, originSent, originFin, fromOrigin, toEdge, edgeEof, broken>>
  BY DEF WriteOrigin, edge, origin
<1>2. TypeOK /\ ReaderInv /\ UpInv /\ DownInv
  BY DEF IInv
<1>3. ReaderInv' /\ Taken' = Taken
  BY <1>1, <1>2, ReaderKept DEF Taken
<1>4. /\ {Taken, Handed, edgeSent, originGot, Len(toOrigin), Len(reader.chunk), reader.position,
          Len(pending), Pipe, Buffer} \subseteq Nat
      /\ frames \in Seq(Seq(1 .. EdgeLength))
  BY Types
<1>5. Taken + reader.position <= edgeSent
  <2>1. PICK first \in Nat : first = Taken + Len(reader.chunk)
    BY <1>4
  <2>2. Linked(frames, first, edgeSent)
    BY <1>2, <2>1 DEF ReaderInv
  <2>3. first <= edgeSent
    BY <1>4, <2>2, LinkedBounds
  <2>4. reader.position <= Len(reader.chunk)
    BY <1>2 DEF TypeOK
  <2>5. PICK t \in Nat, at \in Nat, size \in Nat, sent \in Nat :
          t = Taken /\ at = reader.position /\ size = Len(reader.chunk) /\ sent = edgeSent
    BY <1>4
  <2>6. t + size <= sent /\ at <= size
    BY <2>1, <2>3, <2>4, <2>5
  <2>7. t + at <= sent
    BY <2>6
  <2> QED
    BY <2>5, <2>7
<1>6. /\ ~edgeDone /\ Handed + Len(pending) = Taken + reader.position
      /\ Numbered(pending, Handed) /\ pending # <<>> /\ ~originEof /\ Len(pending) <= Buffer
  BY <1>1, <1>2 DEF UpInv, TypeOK
<1>7. CASE /\ Len(toOrigin) < Pipe
           /\ toOrigin' = Append(toOrigin, Head(pending))
           /\ Written
           /\ edgeDone' = edgeDone
  <2>1. /\ Head(pending) = Handed + 1
        /\ Len(pending) \in Nat \ {0} /\ Len(pending') = Len(pending) - 1
        /\ Numbered(pending', Handed + 1) /\ pending' \in Seq(Nat)
        /\ pump' = IF Len(pending) = 1 THEN "select" ELSE "toOrigin"
        /\ pending' = <<>> <=> pump' = "select"
    BY <1>1, <1>4, <1>6, <1>7, Writing
  <2>2. Numbered(toOrigin', originGot) /\ Len(toOrigin') = Len(toOrigin) + 1
    <3>1. Handed + 1 = originGot + Len(toOrigin) + 1
      BY DEF Handed
    <3> QED
      BY <1>2, <1>4, <1>7, <2>1, <3>1, NumberedAppend DEF UpInv
  <2>3. Handed' = Handed + 1
    BY <1>1, <1>4, <2>2 DEF Handed
  <2>4. Handed' + Len(pending') = Taken' + reader'.position /\ Handed' <= edgeSent'
    <3>1. PICK h \in Nat : h = Handed
      BY <1>4
    <3>2. PICK k \in Nat \ {0} : k = Len(pending)
      BY <2>1
    <3>3. PICK t \in Nat : t = Taken + reader.position
      BY <1>4
    <3>4. h + k = t /\ t <= edgeSent /\ edgeSent \in Nat
      BY <1>4, <1>5, <1>6, <3>1, <3>2, <3>3
    <3>5. h + 1 + (k - 1) = t /\ h + 1 <= edgeSent
      BY <3>4
    <3>6. Handed' = h + 1 /\ Len(pending') = k - 1 /\ Taken' + reader'.position = t
      BY <1>1, <1>3, <2>1, <2>3, <3>1, <3>2, <3>3
    <3> QED
      BY <1>1, <3>5, <3>6
  <2>5. pump' # "toOrigin" => Handed' = Taken' + reader'.position
    <3> SUFFICES ASSUME pump' # "toOrigin" PROVE Handed' = Taken' + reader'.position
      OBVIOUS
    <3>1. Len(pending') = 0
      BY <2>1
    <3>2. PICK h \in Nat : h = Handed'
      BY <1>4, <2>3
    <3>3. h + 0 = h
      OBVIOUS
    <3> QED
      BY <2>4, <3>1, <3>2, <3>3
  <2>6. UpInv'
    BY <1>1, <1>6, <1>7, <2>1, <2>2, <2>3, <2>4, <2>5 DEF UpInv
  <2>7. DownInv'
    BY <1>1, <1>2, <2>1, DownKept
  <2>8. TypeOK'
    <3>1. Len(toOrigin') <= Pipe
      BY <1>4, <1>7, <2>2
    <3> Len(pending') <= Buffer
      BY <1>4, <1>6, <2>1
    <3>2. pump' \in {"select", "toOrigin"}
      BY <2>1
    <3> QED
      BY <1>1, <1>2, <1>7, <2>1, <3>1, <3>2 DEF TypeOK
  <2> QED
    BY <1>3, <2>1, <2>6, <2>7, <2>8 DEF IInv
<1>8. CASE /\ broken # {}
           /\ edgeDone' = TRUE
           /\ pump' = "select" /\ pending' = <<>>
           /\ toOrigin' = toOrigin
  <2>1. Handed' = Handed /\ <<>> \in Seq(Nat) /\ Len(<<>>) = 0 /\ 0 <= Buffer
    BY <1>1, <1>4, <1>8, EmptySeq DEF Handed
  <2>2. UpInv'
    BY <1>1, <1>2, <1>3, <1>6, <1>8, <2>1 DEF UpInv
  <2>3. DownInv'
    BY <1>1, <1>2, <1>8, DownKept
  <2>4. TypeOK'
    <3>1. edgeDone' \in BOOLEAN
      BY <1>8
    <3> QED
      BY <1>1, <1>2, <1>8, <2>1, <3>1 DEF TypeOK
  <2> QED
    BY <1>3, <1>8, <2>1, <2>2, <2>3, <2>4 DEF IInv
<1> QED
  BY <1>7, <1>8 DEF WriteOrigin

LEMMA WriteEdgeKeeps == ASSUME IInv, WriteEdge PROVE IInv'
<1>1. /\ pump = "toEdge"
      /\ UNCHANGED <<edgeSent, edgeFin, edgeEmpty, edgeGot, frames, unreleased, reader, edgeDone,
                     toOrigin, originEof, originGot, originSent, originFin, fromOrigin, edgeEof,
                     broken>>
  BY DEF WriteEdge, edge, origin
<1>2. TypeOK /\ ReaderInv /\ UpInv /\ DownInv
  BY DEF IInv
<1>3. ReaderInv' /\ Taken' + reader'.position = Taken + reader.position
  BY <1>1, <1>2, ReaderKept DEF Taken
<1>4. {Delivered, originSent, Len(edgeGot), Len(toEdge), Len(fromOrigin), Len(pending), Pipe, Buffer}
        \subseteq Nat
  BY Types
<1>5. /\ ~originDone /\ Delivered + Len(pending) + Len(fromOrigin) = originSent
      /\ Numbered(pending, Delivered) /\ pending # <<>> /\ ~edgeEof /\ Len(pending) <= Buffer
  BY <1>1, <1>2 DEF DownInv, TypeOK
<1>6. CASE SendByte(Head(pending)) /\ Written /\ originDone' = originDone
  <2>1. /\ Head(pending) = Delivered + 1
        /\ Len(pending) \in Nat \ {0} /\ Len(pending') = Len(pending) - 1
        /\ Numbered(pending', Delivered + 1) /\ pending' \in Seq(Nat)
        /\ pump' = IF Len(pending) = 1 THEN "select" ELSE "toEdge"
        /\ pending' = <<>> <=> pump' = "select"
    BY <1>1, <1>4, <1>5, <1>6, Writing
  <2>2. Len(toEdge) < Pipe /\ toEdge' = Append(toEdge, Head(pending))
    BY <1>6 DEF SendByte
  <2>3. Numbered(toEdge', Len(edgeGot)) /\ Len(toEdge') = Len(toEdge) + 1
    <3>1. Delivered + 1 = Len(edgeGot) + Len(toEdge) + 1
      BY DEF Delivered
    <3> QED
      BY <1>2, <1>4, <2>1, <2>2, <3>1, NumberedAppend DEF DownInv
  <2>4. Delivered' = Delivered + 1
    BY <1>1, <1>4, <2>3 DEF Delivered
  <2>5. Delivered' + Len(pending') + Len(fromOrigin') = originSent'
    BY <1>1, <1>4, <1>5, <2>1, <2>4
  <2>6. pump' # "toEdge" => Delivered' + Len(fromOrigin') = originSent'
    <3> SUFFICES ASSUME pump' # "toEdge" PROVE Delivered' + Len(fromOrigin') = originSent'
      OBVIOUS
    <3>1. Len(pending') = 0
      BY <2>1
    <3>2. PICK d \in Nat : d = Delivered'
      BY <1>4, <2>4
    <3>3. d + 0 = d
      OBVIOUS
    <3> QED
      BY <2>5, <3>1, <3>2, <3>3
  <2>7. DownInv'
    BY <1>1, <1>2, <1>5, <1>6, <2>1, <2>3, <2>4, <2>5, <2>6 DEF DownInv
  <2>8. UpInv'
    BY <1>1, <1>2, <1>3, <2>1, UpKept
  <2>9. TypeOK'
    <3>1. Len(pending') <= Buffer /\ Len(toEdge') <= Pipe
      <4>1. Len(toEdge') <= Pipe
        BY <1>4, <2>2, <2>3
      <4>2. PICK l \in Nat : l = Len(pending)
        BY <1>4
      <4>3. l <= Buffer /\ Buffer \in Nat
        BY <1>4, <1>5, <4>2
      <4>4. l - 1 <= Buffer
        BY <4>3
      <4> QED
        BY <2>1, <4>1, <4>2, <4>4
    <3>2. pump' \in {"select", "toEdge"}
      BY <2>1
    <3> QED
      BY <1>1, <1>2, <1>6, <2>1, <3>1, <3>2 DEF TypeOK
  <2> QED
    BY <1>3, <2>1, <2>7, <2>8, <2>9 DEF IInv
<1>7. CASE /\ broken # {}
           /\ originDone' = TRUE
           /\ pump' = "select" /\ pending' = <<>>
           /\ toEdge' = toEdge
  <2>1. Delivered' = Delivered /\ <<>> \in Seq(Nat) /\ Len(<<>>) = 0 /\ 0 <= Buffer
    BY <1>1, <1>4, <1>7, EmptySeq DEF Delivered
  <2>2. DownInv'
    BY <1>1, <1>2, <1>5, <1>7, <2>1 DEF DownInv
  <2>3. UpInv'
    BY <1>1, <1>2, <1>3, <1>7, UpKept
  <2>4. TypeOK'
    <3>1. originDone' \in BOOLEAN
      BY <1>7
    <3> QED
      BY <1>1, <1>2, <1>7, <2>1, <3>1 DEF TypeOK
  <2> QED
    BY <1>3, <1>7, <2>1, <2>2, <2>3, <2>4 DEF IInv
<1> QED
  BY <1>6, <1>7 DEF WriteEdge, SendFails

LEMMA FinishKeeps == ASSUME IInv, Finish PROVE IInv'
<1>1. /\ pump = "select" /\ edgeDone /\ originDone /\ pump' = "over"
      /\ UNCHANGED <<edgeSent, edgeFin, edgeEmpty, edgeGot, frames, unreleased, reader, pending,
                     edgeDone, originDone, toOrigin, originEof, originGot, originSent, originFin,
                     fromOrigin, toEdge, edgeEof, broken>>
  BY DEF Finish, BothDone, edge, origin
<1>2. TypeOK /\ ReaderInv /\ UpInv /\ DownInv
  BY DEF IInv
<1>3. Taken' + reader'.position = Taken + reader.position
  BY <1>1 DEF Taken
<1>4. ReaderInv' /\ UpInv' /\ DownInv'
  BY <1>1, <1>2, <1>3, ReaderKept, UpKept, DownKept
<1>5. TypeOK'
  BY <1>1, <1>2 DEF TypeOK
<1> QED
  BY <1>1, <1>4, <1>5 DEF IInv

LEMMA StutterKeeps == ASSUME IInv, UNCHANGED vars PROVE IInv'
<1>1. UNCHANGED <<edgeSent, edgeFin, edgeEmpty, edgeGot, frames, unreleased, reader, pump, pending,
                  edgeDone, originDone, toOrigin, originEof, originGot, originSent, originFin,
                  fromOrigin, toEdge, edgeEof, broken>>
  BY DEF vars, edge, origin
<1>2. TypeOK /\ ReaderInv /\ UpInv /\ DownInv
  BY DEF IInv
<1>3. Taken' + reader'.position = Taken + reader.position
  BY <1>1 DEF Taken
<1>4. ReaderInv' /\ UpInv' /\ DownInv'
  BY <1>1, <1>2, <1>3, ReaderKept, UpKept, DownKept
<1>5. TypeOK'
  BY <1>1, <1>2 DEF TypeOK
<1> QED
  BY <1>1, <1>4, <1>5 DEF IInv

-----------------------------------------------------------------------------
LEMMA NextInv == ASSUME IInv, [Next]_vars PROVE IInv'
<1>1. ASSUME EdgeSends \/ EdgeReceives \/ OriginReceives \/ OriginSends PROVE IInv'
  BY <1>1, EdgeSendsKeeps, EdgeReceivesKeeps, OriginReceivesKeeps, OriginSendsKeeps
<1>2. ASSUME NEW side \in {"edge", "origin"}, Breaks(side) PROVE IInv'
  BY <1>2, BreaksKeep
<1>3. ASSUME ReaderFetches \/ ReaderSkips \/ ReadEdge \/ EdgeReadEnds PROVE IInv'
  BY <1>3, ReaderFetchesKeeps, ReaderSkipsKeeps, ReadEdgeKeeps, EdgeReadEndsKeeps
<1>4. ASSUME ReadOrigin \/ OriginReadEnds \/ WriteOrigin \/ WriteEdge \/ Finish PROVE IInv'
  BY <1>4, ReadOriginKeeps, OriginReadEndsKeeps, WriteOriginKeeps, WriteEdgeKeeps, FinishKeeps
<1>5. ASSUME UNCHANGED vars PROVE IInv'
  BY <1>5, StutterKeeps
<1> QED
  BY <1>1, <1>2, <1>3, <1>4, <1>5 DEF Next, Pumps

\* The invariant of every behaviour of the pump, whatever the lengths, chunk
\* sizes, window, pipes and buffer are.
THEOREM Invariance == Spec => []IInv
<1>1. Init => IInv
  BY InitInv
<1>2. IInv /\ [Next]_vars => IInv'
  BY NextInv
<1> QED
  BY <1>1, <1>2, PTL DEF Spec

\* Both directions deliver the bytes of their source, in order and each once,
\* whatever chunks they come in and buffers they are read with (poll_read of
\* ReceiveStreamReader, write_all of pump).
THEOREM BytesStayInOrder == Spec => []InOrder
<1>1. ASSUME IInv PROVE InOrder
  <2>1. TypeOK /\ UpInv /\ DownInv
    BY <1>1 DEF IInv
  <2>2. DOMAIN toOrigin = 1 .. Len(toOrigin)
    BY <1>1, Types, LenProperties
  <2>3. \A i \in DOMAIN toOrigin : toOrigin[i] = originGot + i
    BY <2>1, <2>2 DEF UpInv, Numbered
  <2>4. edgeGot \o toEdge = Bytes(1, Len(edgeGot) + Len(toEdge))
    BY <2>1, NumberedJoined DEF DownInv
  <2> QED
    BY <2>1, <2>3, <2>4 DEF InOrder
<1> QED
  BY <1>1, Invariance, PTL

\* A side is told that the other ended only when it was handed all of it: the
\* arms of pump close a side on Ok(0), never on an error.
THEOREM EndsAreComplete == Spec => []EndMeansComplete
<1>1. ASSUME IInv PROVE EndMeansComplete
  BY <1>1 DEF IInv, UpInv, DownInv, Handed, Delivered, EndMeansComplete
<1> QED
  BY <1>1, Invariance, PTL

\* pump returns only when each direction handed on everything or met a broken
\* side: the direction that ends first leaves the other pumping.
THEOREM EachDirectionIsPumped == Spec => []HalfCloseKeepsPumping
<1>1. ASSUME IInv PROVE HalfCloseKeepsPumping
  BY <1>1 DEF IInv, UpInv, DownInv, HalfCloseKeepsPumping
<1> QED
  BY <1>1, Invariance, PTL
=============================================================================
