--------------------------- MODULE RequestsProofs ---------------------------
(***************************************************************************)
(* Proofs about Requests for any length of the upload and of the response  *)
(* and any buffer: a handler is told the end of its body only where the    *)
(* edge put it, and a response that ends cleanly is complete.  And about   *)
(* HttpMessages, for every list of headers.                                *)
(***************************************************************************)
EXTENDS Integers, Requests, SequenceTheorems, WellFoundedInduction, TLAPS

\* A response as it waits to be sent: the head or the error comes first, the
\* end last, and chunks between them.
Heads == {"head", "error"}
Closing == {"fin", "reset"}

Shaped(q) ==
  \A i \in DOMAIN q : /\ q[i] \in Heads => i = 1
                      /\ q[i] \in Closing => i = Len(q)

Starts(q) == q # <<>> /\ q[1] \in Heads
Closes(q) == q # <<>> /\ q[Len(q)] \in Closing
EndsWith(q, item) == q # <<>> /\ q[Len(q)] = item
HasHead(q) == \E i \in DOMAIN q : q[i] = "head"

\* The chunks in it.
One(condition) == IF condition THEN 1 ELSE 0
Coming(q) == Len(q) - One(Starts(q)) - One(Closes(q))

HeadSeen == edge.head = "head" \/ HasHead(out)

\* A failed origin of a websocket or TCP stream over quinn ends cleanly.
Counted == transport = "quinn" => kind = "http"

Unsendable == connection = "lost" \/ edge.end # "open"

\* What is on its way is what the source made, and its end is the source's.
WireInv ==
  /\ Shaped(out)
  /\ Closes(out) => send = "closed"
  /\ Unsendable => out = <<>>
  /\ HeadSeen \/ edge.chunks + Coming(out) # 0 => responder = "answered"
  /\ edge.chunks + Coming(out) <= source.made
  /\ HeadSeen /\ ~Unsendable /\ ~EndsWith(out, "reset")
       => edge.chunks + Coming(out) = source.made
  /\ HeadSeen /\ Counted /\ EndsWith(out, "fin") => source.state = "ended"
  /\ edge.end = "fin" /\ edge.head = "head" /\ Counted => Whole

Early == {"preamble", "dispatch", "waiting", "failing", "head"}

\* What the request task has done so far.
StageInv ==
  /\ task \in Early =>
       out = <<>> /\ edge.chunks = 0 /\ edge.head = "none" /\ source.made = 0
  /\ HeadSeen => task \in {"copying", "pumping", "over"}
  /\ task \in {"preamble", "dispatch"} => responder = "none"
  /\ task \in {"head", "copying", "pumping"} => responder = "answered"
  /\ pumping # {} => task = "pumping"
  /\ task = "pumping" => kind # "http"
  /\ task = "copying" => kind = "http"
  /\ drain # "off" => task = "over" /\ send # "open"
  /\ source.sized => source.state = "ended"

\* A quinn stream that is dropped without an end has no response on its way.
OrphanInv ==
  task = "over" /\ send = "open" /\ HeadSeen /\ kind = "http" /\ transport = "quinn"
    => Unsendable

\* The upload: one reader at a time has the receive half, and until the task is
\* over that is the handler, who has read all that was read.
UploadInv ==
  /\ inside \in {{}, {"handler"}, {"drain"}}
  /\ inside = {"handler"} => handler.body = "held" /\ handler.told = "nothing"
  /\ inside = {"drain"} => drain = "reading"
  /\ kind # "http" => handler.body = "none"
  /\ task # "over" => ~receive.stopped
  /\ handler.got <= receive.read
  /\ drain = "off" /\ kind = "http" => handler.got = receive.read

IInv ==
  /\ TypeOK
  /\ WireInv
  /\ StageInv
  /\ OrphanInv
  /\ UploadInv
  /\ BodyIntact

-----------------------------------------------------------------------------
\* An item is added behind a response that is not closed.
LEMMA Added ==
  ASSUME NEW q \in Seq(Items), NEW x \in Items, Shaped(q), ~Closes(q),
         x \in Heads => q = <<>>
  PROVE  /\ Append(q, x) \in Seq(Items)
         /\ Shaped(Append(q, x))
         /\ Closes(Append(q, x)) <=> x \in Closing
         /\ \A y : EndsWith(Append(q, x), y) <=> y = x
         /\ HasHead(Append(q, x)) <=> HasHead(q) \/ x = "head"
         /\ Coming(Append(q, x)) = Coming(q) + One(x = "chunk")
<1>1. /\ Len(q) \in Nat /\ Append(q, x) \in Seq(Items) /\ Len(Append(q, x)) = Len(q) + 1
      /\ DOMAIN q = 1 .. Len(q) /\ DOMAIN Append(q, x) = 1 .. Len(q) + 1
      /\ \A i \in 1 .. Len(q) : Append(q, x)[i] = q[i]
      /\ Append(q, x)[Len(q) + 1] = x
      /\ Append(q, x) # <<>> /\ (q = <<>> <=> Len(q) = 0)
  OBVIOUS
<1>2. PICK r : r = Append(q, x)
  OBVIOUS
<1>3. /\ r \in Seq(Items) /\ Len(r) = Len(q) + 1 /\ DOMAIN r = 1 .. Len(q) + 1
      /\ \A i \in 1 .. Len(q) : r[i] = q[i]
      /\ r[Len(q) + 1] = x /\ r # <<>>
  BY <1>1, <1>2
<1>4. \A i \in 1 .. Len(q) : q[i] \notin Closing
  BY <1>1 DEF Shaped, Closes
<1>5. Shaped(r)
  <2> SUFFICES ASSUME NEW i \in 1 .. Len(q) + 1
               PROVE  (r[i] \in Heads => i = 1) /\ (r[i] \in Closing => i = Len(r))
    BY <1>3 DEF Shaped
  <2>1. CASE i = Len(q) + 1
    BY <1>1, <1>3, <2>1
  <2>2. CASE i \in 1 .. Len(q)
    BY <1>1, <1>3, <1>4, <2>2 DEF Shaped
  <2> QED
    BY <1>1, <2>1, <2>2
<1>6. Closes(r) <=> x \in Closing
  BY <1>3 DEF Closes
<1>7. \A y : EndsWith(r, y) <=> y = x
  BY <1>3 DEF EndsWith
<1>8. HasHead(r) <=> HasHead(q) \/ x = "head"
  <2>1. HasHead(r) => HasHead(q) \/ x = "head"
    BY <1>1, <1>3 DEF HasHead
  <2>2. HasHead(q) => HasHead(r)
    BY <1>1, <1>3 DEF HasHead
  <2>3. x = "head" => HasHead(r)
    BY <1>1, <1>3 DEF HasHead
  <2> QED
    BY <2>1, <2>2, <2>3
<1>9. Coming(r) = Coming(q) + One(x = "chunk")
  <2>1. x \in Heads \/ x \in Closing \/ x = "chunk"
    BY DEF Items, Heads, Closing
  <2>2. Starts(r) <=> (x \in Heads \/ Starts(q))
    BY <1>1, <1>3 DEF Starts, Closes, Heads, Closing, Items
  <2>3. One(Closes(q)) = 0 /\ One(Closes(r)) = One(x \in Closing)
    BY <1>6 DEF One
  <2>4. One(Starts(r)) = One(Starts(q)) + One(x \in Heads)
    BY <2>2 DEF One, Starts
  <2>5. One(x = "chunk") = 1 - One(x \in Heads) - One(x \in Closing)
    BY <2>1 DEF One, Heads, Closing
  <2>6. \A c : One(c) \in {0, 1}
    BY DEF One
  <2>7. PICK n \in Nat : n = Len(q) /\ n + 1 = Len(r)
    BY <1>1, <1>3
  <2> QED
    BY <2>3, <2>4, <2>5, <2>6, <2>7 DEF Coming
<1> QED
  BY <1>2, <1>3, <1>5, <1>6, <1>7, <1>8, <1>9

LEMMA ComingIsCount == ASSUME NEW q \in Seq(Items) PROVE Coming(q) \in Nat
<1>1. PICK n \in Nat : n = Len(q)
  OBVIOUS
<1>2. n = 1 => ~(Starts(q) /\ Closes(q))
  BY <1>1 DEF Starts, Closes, Heads, Closing
<1>3. n = 0 => ~Starts(q) /\ ~Closes(q)
  <2>1. Len(q) = 0 => q = <<>>
    OBVIOUS
  <2> QED
    BY <1>1, <2>1 DEF Starts, Closes
<1>4. /\ One(Starts(q)) \in {0, 1} /\ One(Closes(q)) \in {0, 1}
      /\ (Starts(q) <=> One(Starts(q)) = 1) /\ (Closes(q) <=> One(Closes(q)) = 1)
  BY DEF One
<1> QED
  BY <1>1, <1>2, <1>3, <1>4 DEF Coming

\* The edge takes the first item.
LEMMA Taken ==
  ASSUME NEW q \in Seq(Items), Shaped(q), q # <<>>
  PROVE  /\ Tail(q) \in Seq(Items) /\ Head(q) \in Items
         /\ Shaped(Tail(q))
         /\ Closes(Tail(q)) => Closes(q)
         /\ \A y : EndsWith(Tail(q), y) => EndsWith(q, y)
         /\ EndsWith(q, "reset") => Head(q) = "reset" \/ EndsWith(Tail(q), "reset")
         /\ HasHead(q) <=> Head(q) = "head" \/ HasHead(Tail(q))
         /\ HasHead(Tail(q)) = FALSE
         /\ Coming(Tail(q)) = Coming(q) - One(Head(q) = "chunk")
         /\ Head(q) \in Closing =>
              Tail(q) = <<>> /\ EndsWith(q, Head(q)) /\ Coming(q) = 0
<1>1. /\ Len(q) \in Nat \ {0} /\ Tail(q) \in Seq(Items) /\ Len(Tail(q)) = Len(q) - 1
      /\ DOMAIN q = 1 .. Len(q) /\ DOMAIN Tail(q) = 1 .. Len(q) - 1
      /\ \A i \in 1 .. Len(q) - 1 : Tail(q)[i] = q[i + 1]
      /\ Head(q) = q[1] /\ Head(q) \in Items
      /\ (Tail(q) = <<>> <=> Len(q) = 1)
  <2>1. Len(q) \in Nat \ {0} /\ DOMAIN q = 1 .. Len(q)
    OBVIOUS
  <2>2. Tail(q) \in Seq(Items) /\ Len(Tail(q)) = Len(q) - 1
    OBVIOUS
  <2>3. DOMAIN Tail(q) = 1 .. Len(q) - 1 /\ \A i \in 1 .. Len(q) - 1 : Tail(q)[i] = q[i + 1]
    BY <2>1, <2>2
  <2>4. Head(q) = q[1] /\ Head(q) \in Items
    BY <2>1
  <2>5. Tail(q) = <<>> <=> Len(q) = 1
    BY <2>1, <2>2
  <2> QED
    BY <2>1, <2>2, <2>3, <2>4, <2>5
<1>2. PICK r : r = Tail(q)
  OBVIOUS
<1>3. PICK h : h = Head(q)
  OBVIOUS
<1>4. /\ r \in Seq(Items) /\ Len(r) = Len(q) - 1 /\ DOMAIN r = 1 .. Len(q) - 1
      /\ \A i \in 1 .. Len(q) - 1 : r[i] = q[i + 1]
      /\ h = q[1] /\ h \in Items /\ (r = <<>> <=> Len(q) = 1)
  BY <1>1, <1>2, <1>3
<1>5. \A i \in 1 .. Len(q) - 1 : i + 1 \in 1 .. Len(q) /\ i + 1 # 1
  BY <1>1
<1>6. \A i \in 1 .. Len(q) - 1 : r[i] \notin Heads
  BY <1>1, <1>4, <1>5 DEF Shaped
<1>7. Shaped(r)
  <2> SUFFICES ASSUME NEW i \in 1 .. Len(q) - 1, r[i] \in Closing PROVE i = Len(r)
    BY <1>4, <1>6 DEF Shaped
  <2>1. i + 1 = Len(q)
    BY <1>1, <1>4, <1>5 DEF Shaped
  <2>2. Len(r) = Len(q) - 1 /\ Len(q) \in Nat
    BY <1>1, <1>4
  <2> QED
    BY <2>1, <2>2
<1>8. r # <<>> => r[Len(r)] = q[Len(q)]
  BY <1>1, <1>4
<1>9. (Closes(r) => Closes(q)) /\ \A y : EndsWith(r, y) => EndsWith(q, y)
  BY <1>8 DEF Closes, EndsWith
<1>10. HasHead(r) = FALSE
  BY <1>4, <1>6 DEF HasHead, Heads
<1>11. HasHead(q) <=> h = "head"
  <2>1. \A i \in DOMAIN q : q[i] = "head" => i = 1
    BY DEF Shaped, Heads
  <2> QED
    BY <1>1, <1>4, <2>1 DEF HasHead
<1>12. ~Starts(r)
  BY <1>1, <1>4, <1>6 DEF Starts
<1>13. Len(q) # 1 => (Closes(r) <=> Closes(q))
  BY <1>4, <1>8 DEF Closes
<1>14. h \in Heads \/ h \in Closing \/ h = "chunk"
  BY <1>4 DEF Items, Heads, Closing
<1>15. Starts(q) <=> h \in Heads
  BY <1>4 DEF Starts
<1>16. h \in Closing => Len(q) = 1
  BY <1>1, <1>4 DEF Shaped
<1>17. Coming(r) = Coming(q) - One(h = "chunk")
  <2>1. PICK n \in Nat : n + 1 = Len(q) /\ n = Len(r)
    <3>1. Len(r) \in Nat /\ Len(r) + 1 = Len(q)
      BY <1>1, <1>4
    <3> QED
      BY <3>1
  <2>2. One(Starts(r)) = 0 /\ One(Starts(q)) = One(h \in Heads)
    BY <1>12, <1>15 DEF One
  <2>3. Closes(q) <=> Closes(r) \/ h \in Closing
    BY <1>4, <1>9, <1>13, <1>16 DEF Closes
  <2>4. One(Closes(q)) = One(Closes(r)) + One(h \in Closing)
    BY <1>4, <1>16, <2>3 DEF One, Closes
  <2>5. One(h = "chunk") = 1 - One(h \in Heads) - One(h \in Closing)
    BY <1>14 DEF One, Heads, Closing
  <2>6. \A c : One(c) \in {0, 1}
    BY DEF One
  <2> QED
    BY <2>1, <2>2, <2>4, <2>5, <2>6 DEF Coming
<1>18. h \in Closing => r = <<>> /\ EndsWith(q, h) /\ Coming(q) = 0
  <2> SUFFICES ASSUME h \in Closing PROVE r = <<>> /\ EndsWith(q, h) /\ Coming(q) = 0
    OBVIOUS
  <2>1. Len(q) = 1 /\ r = <<>> /\ EndsWith(q, h) /\ Closes(q) /\ ~Starts(q)
    BY <1>4, <1>15, <1>16 DEF EndsWith, Closes, Heads, Closing
  <2> QED
    BY <2>1 DEF Coming, One
<1>19. EndsWith(q, "reset") => h = "reset" \/ EndsWith(r, "reset")
  BY <1>4, <1>8 DEF EndsWith
<1> QED
  BY <1>2, <1>3, <1>4, <1>7, <1>9, <1>10, <1>11, <1>17, <1>18, <1>19

-----------------------------------------------------------------------------
LEMMA InitInv == Init => IInv
<1> SUFFICES ASSUME Init PROVE IInv
  OBVIOUS
<1> USE DEF Init
<1>1. out = <<>> /\ out \in Seq(Items)
  OBVIOUS
<1>2. Shaped(out) /\ ~Closes(out) /\ ~HasHead(out) /\ Coming(out) = 0
      /\ \A x : ~EndsWith(out, x)
  BY DEF Shaped, Closes, HasHead, Coming, One, Starts, EndsWith
<1>3. TypeOK
  <2>1. /\ upload \in [sent : 0 .. MaxUpload, end : {"open", "fin", "reset"}]
        /\ receive \in [read : 0 .. MaxUpload, stopped : BOOLEAN]
        /\ receive.read <= upload.sent
        /\ handler \in [body : {"none", "held", "gone"}, got : 0 .. MaxUpload,
                        told : {"nothing", "end", "error"}]
    BY RequestsAssumption
  <2>2. /\ source \in [state : {"none", "open", "ended", "failed"},
                       made : 0 .. MaxChunks, sized : BOOLEAN]
        /\ edge \in [head : {"none", "head", "error"}, chunks : 0 .. MaxChunks,
                     end : {"open", "fin", "reset", "abandoned"}]
    BY RequestsAssumption
  <2>3. /\ \A readers \in {inside, parked, waker} : readers \subseteq Readers
        /\ pumping \subseteq {"edge", "origin"}
    OBVIOUS
  <2>4. /\ transport \in {"quinn", "quiche", "h2"}
        /\ kind \in {"http", "websocket", "tcp"}
        /\ connection \in {"up", "lost"}
        /\ task \in {"preamble", "dispatch", "waiting", "failing", "failed",
                     "head", "copying", "pumping", "over"}
        /\ responder \in {"none", "held", "answered", "failed", "dropped"}
        /\ drain \in {"off", "reading", "over"}
        /\ send \in {"open", "closed", "none"}
    OBVIOUS
  <2> HIDE DEF Init
  <2> QED
    BY <1>1, <2>1, <2>2, <2>3, <2>4 DEF TypeOK
<1>4. WireInv
  BY <1>1, <1>2 DEF WireInv, HeadSeen, Unsendable
<1>5. StageInv /\ OrphanInv
  BY <1>1, <1>2 DEF StageInv, OrphanInv, HeadSeen, Early
<1>6. UploadInv /\ BodyIntact
  BY DEF UploadInv, BodyIntact
<1> QED
  BY <1>3, <1>4, <1>5, <1>6 DEF IInv

-----------------------------------------------------------------------------
\* What a step that gives the response up or ends it does to the write side.
Sends ==
  \/ UNCHANGED <<send, out>>
  \/ /\ send = "open" /\ send' = "closed" /\ ~Unsendable
     /\ \/ out' = Append(out, "fin") /\ (HeadSeen /\ Counted => source.state = "ended")
        \/ out' = Append(out, "reset")
        \/ out' = <<"reset">>
  \/ /\ Unsendable
     /\ send' \in {send, "closed"} /\ out' = <<>>

LEMMA SendsKeeps ==
  ASSUME TypeOK, WireInv, Sends,
         UNCHANGED <<transport, kind, connection, responder, source, edge>>
  PROVE  /\ WireInv' /\ out' \in Seq(Items) /\ send' \in {"open", "closed", "none"}
         /\ HeadSeen' => HeadSeen
         /\ Unsendable' = Unsendable
         /\ send = "closed" => send' = "closed"
         /\ out = <<>> => ~HeadSeen \/ edge.head = "head"
<1>1. out \in Seq(Items) /\ send \in {"open", "closed", "none"}
      /\ edge.chunks \in Nat /\ source.made \in Nat
  BY DEF TypeOK
<1>2. Unsendable' = Unsendable /\ Counted' = Counted /\ Whole' = Whole
  BY DEF Unsendable, Counted, Whole
<1>3. Coming(out) \in Nat
  BY <1>1, ComingIsCount
<1>4. out = <<>> => ~HeadSeen \/ edge.head = "head"
  BY DEF HeadSeen, HasHead
<1>5. CASE UNCHANGED <<send, out>>
  <2>1. WireInv' /\ HeadSeen' = HeadSeen
    BY <1>2, <1>5 DEF WireInv, HeadSeen
  <2> QED
    BY <1>1, <1>2, <1>4, <1>5, <2>1
<1>6. ASSUME NEW x \in Closing, send = "open", send' = "closed", ~Unsendable,
             out' = Append(out, x),
             x = "fin" => (HeadSeen /\ Counted => source.state = "ended")
      PROVE  /\ WireInv' /\ out' \in Seq(Items) /\ (HeadSeen' => HeadSeen)
  <2>1. ~Closes(out) /\ Shaped(out) /\ x \in Items /\ x \notin Heads /\ x # "chunk" /\ x # "head"
    BY <1>6 DEF WireInv, Items, Closing, Heads
  <2>2. PICK q : q = out'
    OBVIOUS
  <2>3. /\ q \in Seq(Items) /\ Shaped(q) /\ Closes(q)
        /\ \A y : EndsWith(q, y) <=> y = x
        /\ HasHead(q) <=> HasHead(out)
        /\ Coming(q) = Coming(out) + One(x = "chunk")
    BY <1>1, <1>6, <2>1, <2>2, Added
  <2>4. Coming(q) = Coming(out)
    BY <1>3, <2>1, <2>3 DEF One
  <2>5. HeadSeen' = HeadSeen
    BY <2>2, <2>3 DEF HeadSeen
  <2>6. ~Unsendable' /\ (HeadSeen' <=> HeadSeen) /\ (Counted' <=> Counted)
        /\ (Whole' <=> Whole)
    BY <1>2, <1>6, <2>5
  <2>7. /\ HeadSeen' \/ edge.chunks + Coming(q) # 0 => responder = "answered"
        /\ edge.chunks + Coming(q) <= source.made
        /\ HeadSeen' /\ ~EndsWith(q, "reset") => edge.chunks + Coming(q) = source.made
    <3>1. ~EndsWith(out, "reset")
      BY <2>1 DEF Closes, EndsWith, Closing
    <3> QED
      BY <1>6, <2>3, <2>4, <2>6, <3>1 DEF WireInv
  <2>8. HeadSeen' /\ Counted' /\ EndsWith(q, "fin") => source.state = "ended"
    BY <1>6, <2>3, <2>6
  <2>9. edge.end = "fin" /\ edge.head = "head" /\ Counted' => Whole'
    BY <2>6 DEF WireInv
  <2>10. WireInv'
    BY <1>6, <2>2, <2>3, <2>6, <2>7, <2>8, <2>9 DEF WireInv
  <2> QED
    BY <2>2, <2>3, <2>5, <2>10
<1>7. ASSUME NEW q \in {<<>>, <<"reset">>}, out' = q, send' \in {send, "closed"},
             Unsendable => q = <<>>,
             q # <<>> => send' = "closed", q = <<>> => Unsendable
      PROVE  /\ WireInv' /\ out' \in Seq(Items) /\ (HeadSeen' => HeadSeen)
  <2>1. /\ q \in Seq(Items) /\ Shaped(q) /\ ~HasHead(q) /\ Coming(q) = 0
        /\ (Closes(q) => q # <<>>) /\ (q # <<>> => EndsWith(q, "reset"))
        /\ ~EndsWith(q, "fin")
    <3>1. CASE q = <<>>
      BY <3>1 DEF Shaped, HasHead, Coming, One, Starts, Closes, EndsWith
    <3>2. CASE q = <<"reset">>
      <4>1. Len(q) = 1 /\ q[1] = "reset" /\ q # <<>> /\ q \in Seq(Items) /\ DOMAIN q = {1}
        BY <3>2 DEF Items
      <4> QED
        BY <4>1 DEF Shaped, HasHead, Coming, One, Starts, Closes, EndsWith, Heads, Closing
    <3> QED
      BY <3>1, <3>2
  <2>2. HeadSeen' => HeadSeen
    BY <1>7, <2>1 DEF HeadSeen
  <2>3. edge.chunks + Coming(q) # 0 => edge.chunks + Coming(out) # 0
    BY <1>1, <1>3, <2>1
  <2>4. edge.chunks + Coming(q) <= source.made
    BY <1>1, <1>3, <2>1 DEF WireInv
  <2>5. WireInv'
    BY <1>2, <1>7, <2>1, <2>2, <2>3, <2>4 DEF WireInv
  <2> QED
    BY <1>7, <2>1, <2>2, <2>5
<1>8. CASE send = "open" /\ send' = "closed" /\ ~Unsendable /\ out' = Append(out, "fin")
           /\ (HeadSeen /\ Counted => source.state = "ended")
  BY <1>2, <1>4, <1>6, <1>8 DEF Closing
<1>9. CASE send = "open" /\ send' = "closed" /\ ~Unsendable /\ out' = Append(out, "reset")
  BY <1>2, <1>4, <1>6, <1>9 DEF Closing
<1>10. CASE send = "open" /\ send' = "closed" /\ ~Unsendable /\ out' = <<"reset">>
  BY <1>2, <1>4, <1>7, <1>10
<1>11. CASE Unsendable /\ send' \in {send, "closed"} /\ out' = <<>>
  BY <1>1, <1>2, <1>4, <1>7, <1>11
<1> QED
  BY <1>5, <1>8, <1>9, <1>10, <1>11 DEF Sends

\* What the drop of a handle does.
LEMMA DroppedIs ==
  ASSUME TypeOK, NEW sending, NEW items, NEW stopping \in BOOLEAN,
         Dropped(sending, items, stopping)
  PROVE  /\ receive' \in [read : 0 .. MaxUpload, stopped : BOOLEAN]
         /\ receive'.read = receive.read
         /\ receive'.stopped = stopping \/ task' = "over"
         /\ \/ send' = sending /\ out' = items
            \/ /\ sending = "open" /\ send' = "closed"
               /\ task' = "over" /\ transport # "quiche"
               /\ out' = Sendable(Append(items, Ending))
<1>1. receive \in [read : 0 .. MaxUpload, stopped : BOOLEAN]
  BY DEF TypeOK
<1>2. CASE Orphaned /\ transport # "quiche"
  <2>1. /\ send' = (IF sending = "open" THEN "closed" ELSE sending)
        /\ out' = (IF sending = "open" THEN Sendable(Append(items, Ending)) ELSE items)
        /\ receive' = [receive EXCEPT !.stopped = TRUE]
        /\ task' = "over"
    BY <1>2 DEF Dropped, Orphaned
  <2> QED
    BY <1>1, <1>2, <2>1
<1>3. CASE ~(Orphaned /\ transport # "quiche")
  <2>1. /\ send' = sending /\ out' = items
        /\ receive' = [receive EXCEPT !.stopped = stopping]
    BY <1>3 DEF Dropped
  <2> QED
    BY <1>1, <2>1
<1> QED
  BY <1>2, <1>3

\* A quinn stream with a response on its way is dropped only when nobody can
\* take the response.
Excused ==
  send = "open" /\ HeadSeen /\ kind = "http" /\ transport = "quinn" => Unsendable

LEMMA DropsSends ==
  ASSUME TypeOK, WireInv, Excused, Dropped(send, out, receive.stopped)
  PROVE  Sends
<1>1. receive.stopped \in BOOLEAN
  BY DEF TypeOK
<1>2. CASE UNCHANGED <<send, out>>
  BY <1>2 DEF Sends
<1>3. CASE send = "open" /\ send' = "closed" /\ out' = Sendable(Append(out, Ending))
  <2>1. CASE Unsendable
    BY <1>3, <2>1 DEF Sends, Sendable, Unsendable, TypeOK
  <2>2. CASE ~Unsendable
    <3>1. out' = Append(out, Ending)
      BY <1>3, <2>2 DEF Sendable, Unsendable, TypeOK
    <3>2. Ending = "fin" => ~(HeadSeen /\ Counted)
      BY <1>3, <2>2 DEF Ending, Counted, Excused
    <3>3. Ending \in {"fin", "reset"}
      BY DEF Ending
    <3> QED
      BY <1>3, <2>2, <3>1, <3>2, <3>3 DEF Sends
  <2> QED
    BY <2>1, <2>2
<1> QED
  BY <1>1, <1>2, <1>3, DroppedIs

\* finish, and cancel_write followed by the drop.
LEMMA FinishSends ==
  ASSUME TypeOK, HeadSeen /\ Counted => source.state = "ended",
         send' = Finish.send, out' = Finish.out
  PROVE  Sends /\ send' # "open"
<1>1. connection \in {"up", "lost"}
  BY DEF TypeOK
<1>2. CASE send = "open"
  <2>1. send' = "closed" /\ out' = Sendable(Append(out, "fin"))
    BY <1>2 DEF Finish
  <2> QED
    BY <1>1, <1>2, <2>1 DEF Sends, Sendable, Unsendable
<1>3. CASE send # "open"
  BY <1>3 DEF Finish, Sends
<1> QED
  BY <1>2, <1>3

LEMMA CancelSends ==
  ASSUME TypeOK, Dropped(Cancel.send, Cancel.out, receive.stopped)
  PROVE  Sends /\ send' # "open"
<1>1. connection \in {"up", "lost"} /\ receive.stopped \in BOOLEAN
  BY DEF TypeOK
<1>2. Cancel.send # "open"
  BY DEF Cancel
<1>3. send' = Cancel.send /\ out' = Cancel.out
  BY <1>1, <1>2, DroppedIs
<1>4. CASE send = "open"
  <2>1. send' = "closed" /\ out' = Sendable(<<"reset">>)
    BY <1>3, <1>4 DEF Cancel
  <2> QED
    BY <1>1, <1>4, <2>1 DEF Sends, Sendable, Unsendable
<1>5. CASE send # "open"
  BY <1>3, <1>5 DEF Cancel, Sends
<1> QED
  BY <1>4, <1>5

-----------------------------------------------------------------------------
\* Most steps leave what the upload's invariant is about alone.
LEMMA UploadKept ==
  ASSUME UploadInv, BodyIntact,
         UNCHANGED <<transport, kind, upload, inside, handler>>,
         receive'.read = receive.read,
         task' # "over" => task # "over" /\ receive'.stopped = receive.stopped,
         drain' \in {drain, "reading"}
  PROVE  UploadInv' /\ BodyIntact'
<1>1. UploadInv'
  BY DEF UploadInv
<1>2. BodyIntact'
  BY DEF BodyIntact
<1> QED
  BY <1>1, <1>2

\* The task is over: with a drain or without one, and after what it did to the
\* write side.
LEMMA LeavingKeeps ==
  ASSUME IInv, task # "over", task' = "over", Sends, Excused \/ send' # "open",
         UNCHANGED <<transport, kind, connection, upload, inside, parked, waker,
                     handler, responder, source, edge>>,
         receive' \in [read : 0 .. MaxUpload, stopped : BOOLEAN],
         receive'.read = receive.read,
         pumping' = {},
         drain' = drain \/ (drain' = "reading" /\ send' # "open")
  PROVE  IInv'
<1>1. /\ TypeOK /\ WireInv /\ StageInv /\ UploadInv /\ BodyIntact
      /\ drain = "off"
  BY DEF IInv, StageInv
<1>2. /\ WireInv' /\ out' \in Seq(Items) /\ send' \in {"open", "closed", "none"}
      /\ (HeadSeen' => HeadSeen) /\ Unsendable' = Unsendable
  BY <1>1, SendsKeeps
<1>3. TypeOK'
  BY <1>1, <1>2 DEF TypeOK
<1>4. UploadInv' /\ BodyIntact'
  BY <1>1, UploadKept
<1>5. StageInv'
  BY <1>1 DEF StageInv, Early
<1>6. OrphanInv'
  <2>1. send' = "open" => send = "open"
    BY DEF Sends
  <2> QED
    BY <1>2, <2>1 DEF OrphanInv, Excused
<1> QED
  BY <1>2, <1>3, <1>4, <1>5, <1>6 DEF IInv

\* A task that has sent no head is excused, and so is one of an HTTP/2 stream.
LEMMA TaskIsExcused ==
  ASSUME IInv, task # "over",
         task \notin {"copying", "pumping"} \/ transport # "quinn" \/ task = "pumping"
           \/ connection = "lost"
  PROVE  Excused /\ pumping \subseteq {"edge", "origin"} /\ (task # "pumping" => pumping = {})
BY DEF IInv, StageInv, Excused, Unsendable, TypeOK

LEMMA LeavesKeeps ==
  ASSUME IInv, task # "over", Leaves, pumping' = {},
         task \notin {"copying", "pumping"} \/ transport # "quinn" \/ task = "pumping"
           \/ connection = "lost",
         UNCHANGED <<Rest, responder, source>>
  PROVE  IInv'
<1>1. /\ task' = "over" /\ UNCHANGED <<handler, drain>>
      /\ Dropped(send, out, receive.stopped)
      /\ UNCHANGED <<transport, kind, connection, upload, inside, parked, waker, edge,
                     responder, source>>
  BY DEF Leaves, Goes, Drops, Rest, request, polls, asleep
<1>2. TypeOK /\ WireInv /\ receive.stopped \in BOOLEAN
  BY DEF IInv, TypeOK
<1>3. Excused
  BY TaskIsExcused
<1>4. Sends
  BY <1>1, <1>2, <1>3, DropsSends
<1>5. receive' \in [read : 0 .. MaxUpload, stopped : BOOLEAN] /\ receive'.read = receive.read
  BY <1>1, <1>2, DroppedIs
<1> QED
  BY <1>1, <1>3, <1>4, <1>5, LeavingKeeps

LEMMA LeavesCancelledKeeps ==
  ASSUME IInv, task # "over", LeavesCancelled, pumping' = {},
         UNCHANGED <<Rest, responder, source>>
  PROVE  IInv'
<1>1. /\ task' = "over" /\ UNCHANGED <<handler, drain>>
      /\ Dropped(Cancel.send, Cancel.out, receive.stopped)
      /\ UNCHANGED <<transport, kind, connection, upload, inside, parked, waker, edge,
                     responder, source>>
  BY DEF LeavesCancelled, Goes, Rest, request, polls, asleep
<1>2. TypeOK /\ WireInv /\ receive.stopped \in BOOLEAN
  BY DEF IInv, TypeOK
<1>3. Sends /\ send' # "open"
  BY <1>1, <1>2, CancelSends
<1>4. receive' \in [read : 0 .. MaxUpload, stopped : BOOLEAN] /\ receive'.read = receive.read
  BY <1>1, <1>2, DroppedIs
<1> QED
  BY <1>1, <1>3, <1>4, LeavingKeeps

\* The writer of an HTTP/2 stream is closed by a task that sent no head, or at
\* the end of the body.
LEMMA LeavesClosedKeeps ==
  ASSUME IInv, task \in {"failed", "copying"}, LeavesClosed, pumping' = {}, transport = "h2",
         task = "copying" => source.state = "ended",
         UNCHANGED <<Rest, responder, source>>
  PROVE  IInv'
<1>1. CASE WriteFails
  <2>1. Leaves
    BY <1>1 DEF LeavesClosed
  <2> QED
    BY <2>1, LeavesKeeps
<1>2. CASE ~WriteFails
  <2>1. /\ task' = "over" /\ UNCHANGED <<handler, drain>>
        /\ Dropped("closed", Append(out, "fin"), receive.stopped)
        /\ UNCHANGED <<transport, kind, connection, upload, inside, parked, waker, edge,
                       responder, source>>
    BY <1>2 DEF LeavesClosed, Goes, Rest, request, polls, asleep
  <2>2. TypeOK /\ WireInv /\ receive.stopped \in BOOLEAN
    BY DEF IInv, TypeOK
  <2>3. send' = "closed" /\ out' = Append(out, "fin")
    BY <2>1, <2>2, DroppedIs
  <2>4. HeadSeen => source.state = "ended"
    BY DEF IInv, StageInv
  <2>5. Sends /\ send' # "open"
    BY <1>2, <2>3, <2>4 DEF Sends, WriteFails, Unsendable
  <2>6. receive' \in [read : 0 .. MaxUpload, stopped : BOOLEAN] /\ receive'.read = receive.read
    BY <2>1, <2>2, DroppedIs
  <2> QED
    BY <2>1, <2>5, <2>6, LeavingKeeps
<1> QED
  BY <1>1, <1>2

-----------------------------------------------------------------------------
\* A head, an error or a chunk is written.
LEMMA WriteKeepsWire ==
  ASSUME TypeOK, WireInv, ~WriteFails, NEW x \in Items, x \notin Closing,
         x \in Heads => out = <<>> /\ edge.chunks = source.made,
         x # "error" => responder = "answered",
         out' = Append(out, x),
         source'.made = source.made + One(x = "chunk"),
         source'.state = source.state,
         UNCHANGED <<transport, kind, connection, responder, edge, send>>
  PROVE  /\ WireInv' /\ out' \in Seq(Items)
         /\ HeadSeen' <=> HeadSeen \/ x = "head"
<1>1. /\ out \in Seq(Items) /\ edge.chunks \in Nat /\ source.made \in Nat
      /\ send = "open" /\ ~Unsendable /\ Shaped(out) /\ ~Closes(out)
  BY DEF TypeOK, WriteFails, Unsendable, WireInv
<1>2. PICK q : q = out'
  OBVIOUS
<1>3. /\ q \in Seq(Items) /\ Shaped(q) /\ ~Closes(q)
      /\ \A y : EndsWith(q, y) <=> y = x
      /\ HasHead(q) <=> HasHead(out) \/ x = "head"
      /\ Coming(q) = Coming(out) + One(x = "chunk")
  BY <1>1, <1>2, Added
<1>4. HeadSeen' <=> HeadSeen \/ x = "head"
  BY <1>2, <1>3 DEF HeadSeen
<1>5. ~Unsendable' /\ ~EndsWith(out, "reset") /\ ~EndsWith(q, "reset") /\ ~EndsWith(q, "fin")
      /\ edge.end # "fin"
  BY <1>1, <1>3 DEF Unsendable, EndsWith, Closes, Closing
<1>6. Coming(out) \in Nat /\ One(x = "chunk") \in {0, 1} /\ (x \in Heads => One(x = "chunk") = 0)
      /\ (out = <<>> => Coming(out) = 0)
  <2>1. out = <<>> => Coming(out) = 0
    BY DEF Coming, One, Starts, Closes
  <2> QED
    BY <1>1, <2>1, ComingIsCount DEF One, Heads
<1>7. edge.chunks + Coming(q) <= source'.made
  BY <1>1, <1>3, <1>6 DEF WireInv
<1>8. HeadSeen' => edge.chunks + Coming(q) = source'.made
  <2>1. CASE HeadSeen
    <3>1. edge.chunks + Coming(out) = source.made
      BY <1>1, <1>5, <2>1 DEF WireInv
    <3> QED
      BY <1>1, <1>3, <1>6, <3>1
  <2>2. CASE x = "head"
    BY <1>1, <1>3, <1>6, <2>2 DEF Heads
  <2> QED
    BY <1>4, <2>1, <2>2
<1>9. HeadSeen' \/ edge.chunks + Coming(q) # 0 => responder = "answered"
  <2>1. CASE x = "error"
    <3>1. Coming(q) = Coming(out) /\ (HeadSeen' <=> HeadSeen)
      BY <1>3, <1>4, <1>6, <2>1 DEF Heads
    <3> QED
      BY <3>1 DEF WireInv
  <2> QED
    BY <2>1
<1>10. WireInv'
  BY <1>2, <1>3, <1>5, <1>7, <1>8, <1>9 DEF WireInv
<1> QED
  BY <1>2, <1>3, <1>4, <1>10

\* The request task goes on before it has sent anything.
LEMMA GoesKeeps ==
  ASSUME IInv, NEW to \in Early, task \in Early, Goes(to),
         to \in {"preamble", "dispatch"} => responder = "none",
         to = "head" => responder = "answered",
         UNCHANGED <<Rest, receive, send, out, responder, source, pumping>>
  PROVE  IInv'
<1>1. /\ task' = to
      /\ UNCHANGED <<transport, kind, connection, upload, inside, parked, waker, edge, handler,
                     drain, receive, send, out, responder, source, pumping>>
  BY DEF Goes, Rest, request, polls, asleep
<1>2. TypeOK'
  BY <1>1 DEF IInv, TypeOK, Early
<1>3. WireInv' /\ StageInv' /\ OrphanInv'
  <2>1. WireInv'
    BY <1>1 DEF IInv, WireInv, HeadSeen, Unsendable, Counted, Whole
  <2>2. ~HeadSeen /\ ~HeadSeen'
    BY <1>1 DEF IInv, StageInv, Early, HeadSeen
  <2>3. StageInv'
    BY <1>1, <2>2 DEF IInv, StageInv, Early
  <2> QED
    BY <2>1, <2>2, <2>3 DEF OrphanInv
<1>4. UploadInv' /\ BodyIntact'
  BY <1>1, UploadKept DEF IInv, Early
<1> QED
  BY <1>2, <1>3, <1>4 DEF IInv

LEMMA ReadPreambleKeeps == ASSUME IInv, ReadPreamble PROVE IInv'
<1>1. task = "preamble" /\ pumping' = pumping /\ pumping = {} /\ UNCHANGED <<Rest, responder, source>>
  BY DEF ReadPreamble, IInv, StageInv
<1>2. CASE connection = "up" /\ Goes("dispatch") /\ UNCHANGED <<receive, send, out>>
  <2>1. task \in Early /\ "dispatch" \in Early /\ responder = "none"
    BY <1>1 DEF Early, IInv, StageInv
  <2> QED
    BY <1>1, <1>2, <2>1, GoesKeeps
<1>3. CASE Leaves
  BY <1>1, <1>3, LeavesKeeps
<1> QED
  BY <1>2, <1>3 DEF ReadPreamble

LEMMA TaskGoesKeeps ==
  ASSUME IInv, Refused \/ HandlerMissing \/ TakeOutcome \/ EndError \/ PumpOver \/ Aborted
  PROVE  IInv'
<1>1. CASE Refused
  BY <1>1, LeavesKeeps DEF Refused, IInv, StageInv
<1>2. CASE HandlerMissing
  <2>1. task \in Early /\ "failing" \in Early
    BY <1>2 DEF HandlerMissing, Early
  <2> QED
    BY <1>2, <2>1, GoesKeeps DEF HandlerMissing
<1>3. CASE TakeOutcome
  <2>1. task \in Early /\ "failing" \in Early /\ "head" \in Early
    BY <1>3 DEF TakeOutcome, Early
  <2>2. CASE responder = "answered"
    BY <1>3, <2>1, <2>2, GoesKeeps DEF TakeOutcome
  <2>3. CASE responder # "answered"
    BY <1>3, <2>1, <2>3, GoesKeeps DEF TakeOutcome
  <2> QED
    BY <2>2, <2>3
<1>4. CASE EndError
  <2>1. task = "failed" /\ pumping' = {} /\ UNCHANGED <<Rest, responder, source>>
    BY <1>4 DEF EndError, IInv, StageInv
  <2>2. CASE transport = "h2"
    BY <1>4, <2>1, <2>2, LeavesClosedKeeps DEF EndError
  <2>3. CASE transport # "h2"
    BY <1>4, <2>1, <2>3, LeavesCancelledKeeps DEF EndError
  <2> QED
    BY <2>2, <2>3
<1>5. CASE PumpOver
  BY <1>5, LeavesKeeps DEF PumpOver
<1>6. CASE Aborted
  BY <1>6, LeavesKeeps DEF Aborted
<1> QED
  BY <1>1, <1>2, <1>3, <1>4, <1>5, <1>6

LEMMA CallHandlerKeeps == ASSUME IInv, CallHandler PROVE IInv'
<1>1. /\ task = "dispatch" /\ task' = "waiting" /\ responder' = "held"
      /\ handler' = [handler EXCEPT !.body = IF kind = "http" THEN "held" ELSE "none"]
      /\ UNCHANGED <<transport, kind, connection, upload, inside, parked, waker, edge,
                     drain, receive, send, out, source, pumping>>
  BY DEF CallHandler, Rest, request, polls, asleep
<1>2. /\ handler' \in [body : {"none", "held", "gone"}, got : 0 .. MaxUpload,
                       told : {"nothing", "end", "error"}]
      /\ handler'.got = handler.got /\ handler'.told = handler.told
      /\ (kind # "http" => handler'.body = "none")
      /\ (kind = "http" => handler'.body = "held")
  BY <1>1 DEF IInv, TypeOK
<1>3. TypeOK'
  BY <1>1, <1>2 DEF IInv, TypeOK
<1>4. ~HeadSeen /\ ~HeadSeen' /\ out = <<>> /\ edge.chunks = 0 /\ edge.head = "none"
  BY <1>1 DEF IInv, StageInv, Early, HeadSeen
<1>5. Coming(out) = 0 /\ ~Closes(out) /\ ~EndsWith(out, "fin")
  BY <1>4 DEF Coming, One, Starts, Closes, EndsWith
<1>6. WireInv'
  BY <1>1, <1>4, <1>5 DEF IInv, WireInv, Unsendable
<1>7. StageInv' /\ OrphanInv'
  BY <1>1, <1>4 DEF IInv, StageInv, OrphanInv, Early
<1>8. UploadInv' /\ BodyIntact'
  BY <1>1, <1>2 DEF IInv, UploadInv, BodyIntact
<1> QED
  BY <1>3, <1>6, <1>7, <1>8 DEF IInv

LEMMA WriteErrorKeeps == ASSUME IInv, WriteError PROVE IInv'
<1>1. task = "failing" /\ pumping' = {} /\ UNCHANGED <<Rest, responder, source>>
  BY DEF WriteError, IInv, StageInv
<1>2. CASE WriteFails /\ Leaves
  BY <1>1, <1>2, LeavesKeeps
<1>3. CASE Room /\ Goes("failed") /\ out' = Append(out, "error") /\ UNCHANGED <<send, receive>>
  <2>1. /\ task' = "failed" /\ ~WriteFails
        /\ UNCHANGED <<transport, kind, connection, upload, inside, parked, waker, edge, handler,
                       drain, receive, send, responder, source>>
    BY <1>1, <1>3 DEF Goes, Room, Rest, request, polls, asleep
  <2>2. out = <<>> /\ edge.chunks = source.made /\ ~HeadSeen
    BY <1>1 DEF IInv, StageInv, Early
  <2>3. WireInv' /\ out' \in Seq(Items) /\ ~HeadSeen'
    <3>1. "error" \in Items /\ "error" \notin Closing /\ source.made + One("error" = "chunk") = source.made
      BY DEF Items, Closing, One, IInv, TypeOK
    <3> QED
      BY <1>3, <2>1, <2>2, <3>1, WriteKeepsWire DEF IInv
  <2>4. TypeOK'
    BY <1>1, <2>1, <2>3 DEF IInv, TypeOK
  <2>5. StageInv' /\ OrphanInv'
    BY <1>1, <2>1, <2>3 DEF IInv, StageInv, OrphanInv, Early
  <2>6. UploadInv' /\ BodyIntact'
    BY <1>1, <2>1, UploadKept DEF IInv
  <2> QED
    BY <2>3, <2>4, <2>5, <2>6 DEF IInv
<1> QED
  BY <1>2, <1>3 DEF WriteError

LEMMA WriteHeadKeeps == ASSUME IInv, WriteHead PROVE IInv'
<1>1. /\ task = "head" /\ UNCHANGED <<Rest, responder, source>>
      /\ UNCHANGED <<transport, kind, connection, upload, inside, parked, waker, edge,
                     responder, source>>
  BY DEF WriteHead, Rest, request, polls, asleep
<1>2. /\ out = <<>> /\ edge.chunks = 0 /\ source.made = 0 /\ ~HeadSeen
      /\ responder = "answered" /\ pumping = {} /\ drain = "off"
      /\ (source.sized => source.state = "ended")
      /\ TypeOK /\ WireInv /\ receive.stopped \in BOOLEAN
  BY <1>1 DEF IInv, StageInv, Early, TypeOK
<1>3. ASSUME Room,
             Goes(IF kind = "http" THEN "copying" ELSE "pumping"),
             pumping' = IF kind = "http" THEN {} ELSE {"edge", "origin"},
             out' = Append(out, "head"),
             UNCHANGED <<send, receive>>
      PROVE  IInv'
  <2>1. ~WriteFails /\ UNCHANGED <<handler, drain>>
        /\ task' = (IF kind = "http" THEN "copying" ELSE "pumping")
    BY <1>3 DEF Goes, Room
  <2>2. WireInv' /\ out' \in Seq(Items)
    <3>1. "head" \in Items /\ "head" \notin Closing /\ source.made + One("head" = "chunk") = source.made
      BY <1>2 DEF Items, Closing, One
    <3> QED
      BY <1>1, <1>2, <1>3, <2>1, <3>1, WriteKeepsWire
  <2>3. TypeOK'
    BY <1>1, <1>2, <1>3, <2>1, <2>2 DEF TypeOK
  <2>4. StageInv' /\ OrphanInv'
    BY <1>1, <1>2, <1>3, <2>1 DEF IInv, StageInv, OrphanInv, Early
  <2>5. UploadInv' /\ BodyIntact'
    BY <1>1, <1>3, <2>1, UploadKept DEF IInv
  <2> QED
    BY <2>2, <2>3, <2>4, <2>5 DEF IInv
<1>4. ASSUME ~WriteFails, transport = "h2" /\ source.sized, Goes("over"),
             Dropped("closed", out \o <<"head", "fin">>, receive.stopped), UNCHANGED pumping
      PROVE  IInv'
  <2>1. UNCHANGED <<handler, drain>> /\ task' = "over"
    BY <1>4 DEF Goes
  <2>2. out \o <<"head", "fin">> = <<"head", "fin">>
    BY <1>2
  <2>3. PICK q : q = <<"head", "fin">>
    OBVIOUS
  <2>4. send' = "closed" /\ out' = q
    BY <1>2, <1>4, <2>2, <2>3, DroppedIs
  <2>5. /\ q \in Seq(Items) /\ Len(q) = 2 /\ q # <<>> /\ q[1] = "head" /\ q[2] = "fin"
        /\ DOMAIN q = {1, 2}
    BY <2>3 DEF Items
  <2>6. Shaped(q) /\ Starts(q) /\ Closes(q) /\ ~EndsWith(q, "reset")
    BY <2>5 DEF Shaped, Starts, Closes, EndsWith, Heads, Closing
  <2>7. Coming(q) = 0
    BY <2>5, <2>6 DEF Coming, One
  <2>8. WireInv'
    <3>1. ~Unsendable' /\ edge'.end # "fin"
      BY <1>1, <1>4 DEF Unsendable, WriteFails
    <3>2. responder' = "answered" /\ source'.made = 0 /\ edge'.chunks = 0 /\ source'.state = "ended"
      BY <1>1, <1>2, <1>4
    <3> QED
      BY <2>4, <2>6, <2>7, <3>1, <3>2 DEF WireInv
  <2>9. receive' \in [read : 0 .. MaxUpload, stopped : BOOLEAN] /\ receive'.read = receive.read
    BY <1>2, <1>4, DroppedIs
  <2>10. TypeOK'
    BY <1>1, <1>2, <1>4, <2>1, <2>4, <2>5, <2>9 DEF TypeOK
  <2>11. StageInv' /\ OrphanInv'
    BY <1>1, <1>2, <1>4, <2>1, <2>4 DEF IInv, StageInv, OrphanInv, Early
  <2>12. UploadInv' /\ BodyIntact'
    BY <1>1, <2>1, <2>9, UploadKept DEF IInv
  <2> QED
    BY <2>8, <2>10, <2>11, <2>12 DEF IInv
<1>5. ASSUME LeavesCancelled \/ Leaves, UNCHANGED pumping
      PROVE  IInv'
  BY <1>1, <1>2, <1>5, LeavesKeeps, LeavesCancelledKeeps
<1> QED
  BY <1>3, <1>4, <1>5 DEF WriteHead

\* A chunk of the source is written by the copy or by the pump.
LEMMA ChunkKeeps ==
  ASSUME IInv, task \in {"copying", "pumping"}, source.state = "open", source.made < MaxChunks,
         Room,
         source' = [source EXCEPT !.made = @ + 1],
         out' = Append(out, "chunk"),
         UNCHANGED <<transport, kind, connection, upload, inside, parked, waker, edge, task, handler,
                     drain, receive, send, responder, pumping>>
  PROVE  IInv'
<1>1. /\ source \in [state : {"none", "open", "ended", "failed"}, made : 0 .. MaxChunks,
                     sized : BOOLEAN]
      /\ responder = "answered" /\ ~WriteFails /\ MaxChunks \in Nat
  BY RequestsAssumption DEF IInv, TypeOK, StageInv, Room
<1>2. /\ source' \in [state : {"none", "open", "ended", "failed"}, made : 0 .. MaxChunks,
                     sized : BOOLEAN]
      /\ source'.state = source.state /\ source'.made = source.made + 1
      /\ source'.sized = source.sized
  BY <1>1
<1>3. WireInv' /\ out' \in Seq(Items) /\ (HeadSeen' => HeadSeen)
  <2>1. "chunk" \in Items /\ "chunk" \notin Closing /\ "chunk" \notin Heads
        /\ source.made + One("chunk" = "chunk") = source.made + 1
    BY DEF Items, Closing, Heads, One
  <2>2. "chunk" # "error" /\ "chunk" # "head" /\ source'.made = source.made + One("chunk" = "chunk")
    BY <1>2, <2>1
  <2> QED
    BY <1>1, <1>2, <2>1, <2>2, WriteKeepsWire DEF IInv
<1>4. TypeOK'
  BY <1>2, <1>3 DEF IInv, TypeOK
<1>5. StageInv' /\ OrphanInv'
  BY <1>2, <1>3 DEF IInv, StageInv, OrphanInv, Early
<1>6. UploadInv' /\ BodyIntact'
  BY UploadKept DEF IInv
<1> QED
  BY <1>3, <1>4, <1>5, <1>6 DEF IInv

LEMMA CopyKeeps == ASSUME IInv, CopyChunk \/ CopyFails \/ CopyEnds PROVE IInv'
<1>1. CASE CopyChunk
  BY <1>1, ChunkKeeps DEF CopyChunk, Rest, request, polls, asleep
<1>2. CASE CopyFails
  <2>1. task = "copying" /\ pumping' = {} /\ UNCHANGED <<Rest, responder, source>>
    BY <1>2 DEF CopyFails, IInv, StageInv
  <2>2. CASE transport = "h2"
    BY <1>2, <2>1, <2>2, LeavesKeeps DEF CopyFails
  <2>3. CASE transport # "h2"
    BY <1>2, <2>1, <2>3, LeavesCancelledKeeps DEF CopyFails
  <2> QED
    BY <2>2, <2>3
<1>3. CASE CopyEnds
  <2>1. task = "copying" /\ source.state = "ended" /\ pumping' = {}
        /\ UNCHANGED <<Rest, responder, source>>
    BY <1>3 DEF CopyEnds, IInv, StageInv
  <2>2. CASE transport = "h2"
    BY <1>3, <2>1, <2>2, LeavesClosedKeeps DEF CopyEnds
  <2>3. CASE transport # "h2"
    <3>1. /\ task' = "over" /\ drain' = "reading"
          /\ send' = Finish.send /\ out' = Finish.out
          /\ UNCHANGED <<handler, receive>>
      BY <1>3, <2>3 DEF CopyEnds
    <3>2. Sends /\ send' # "open"
      BY <2>1, <3>1, FinishSends DEF IInv
    <3>3. receive \in [read : 0 .. MaxUpload, stopped : BOOLEAN]
      BY DEF IInv, TypeOK
    <3> QED
      BY <2>1, <3>1, <3>2, <3>3, LeavingKeeps DEF Rest, request, polls, asleep
  <2> QED
    BY <2>2, <2>3
<1> QED
  BY <1>1, <1>2, <1>3

LEMMA PumpOriginKeeps == ASSUME IInv, PumpOrigin PROVE IInv'
<1>1. /\ "origin" \in pumping /\ task = "pumping"
      /\ UNCHANGED <<transport, kind, connection, upload, inside, parked, waker, edge, task,
                     handler, drain, receive, responder>>
  BY DEF PumpOrigin, Rest, request, polls, asleep, IInv, StageInv
<1>2. CASE /\ source.state = "open" /\ source.made < MaxChunks /\ Room
           /\ source' = [source EXCEPT !.made = @ + 1]
           /\ out' = Append(out, "chunk")
           /\ UNCHANGED <<send, pumping>>
  BY <1>1, <1>2, ChunkKeeps
<1>3. ASSUME Sends, pumping' = pumping \ {"origin"}, UNCHANGED source
      PROVE  IInv'
  <2>1. /\ WireInv' /\ out' \in Seq(Items) /\ send' \in {"open", "closed", "none"}
        /\ (HeadSeen' => HeadSeen)
    BY <1>1, <1>3, SendsKeeps DEF IInv
  <2>2. TypeOK'
    BY <1>1, <1>3, <2>1 DEF IInv, TypeOK
  <2>3. StageInv' /\ OrphanInv'
    BY <1>1, <1>3, <2>1 DEF IInv, StageInv, OrphanInv, Early
  <2>4. UploadInv' /\ BodyIntact'
    BY <1>1, UploadKept DEF IInv
  <2> QED
    BY <2>1, <2>2, <2>3, <2>4 DEF IInv
<1>4. CASE /\ source.state = "ended"
           /\ send' = Finish.send /\ out' = Finish.out
           /\ pumping' = pumping \ {"origin"}
           /\ UNCHANGED source
  BY <1>3, <1>4, FinishSends DEF IInv
<1>5. CASE pumping' = pumping \ {"origin"} /\ UNCHANGED <<send, out, source>>
  BY <1>3, <1>5 DEF Sends
<1> QED
  BY <1>2, <1>4, <1>5 DEF PumpOrigin

\* Steps that the response is not concerned with.
LEMMA WireKept ==
  ASSUME WireInv, UNCHANGED <<transport, kind, connection, responder, source, edge, send, out>>
  PROVE  /\ WireInv' /\ (HeadSeen' <=> HeadSeen) /\ (Unsendable' <=> Unsendable)
BY DEF WireInv, HeadSeen, Unsendable, Counted, Whole

LEMMA PumpEdgeKeeps == ASSUME IInv, PumpEdge PROVE IInv'
<1>1. /\ "edge" \in pumping /\ task = "pumping" /\ kind # "http"
      /\ UNCHANGED <<transport, kind, connection, upload, inside, parked, waker, edge, task,
                     handler, drain, send, out, responder, source>>
      /\ pumping' \subseteq pumping
  BY DEF PumpEdge, Rest, request, polls, asleep, IInv, StageInv
<1>2. /\ receive' \in [read : 0 .. MaxUpload, stopped : BOOLEAN]
      /\ receive'.read >= receive.read /\ receive'.stopped = receive.stopped
      /\ receive'.read <= upload.sent
  <2>1. /\ receive \in [read : 0 .. MaxUpload, stopped : BOOLEAN] /\ upload.sent \in 0 .. MaxUpload
        /\ receive.read <= upload.sent /\ MaxUpload \in Nat
    BY RequestsAssumption DEF IInv, TypeOK
  <2>2. \/ UNCHANGED receive
        \/ upload.sent > receive.read /\ receive' = [receive EXCEPT !.read = @ + 1]
    BY DEF PumpEdge, More
  <2> QED
    BY <2>1, <2>2
<1>3. WireInv' /\ (HeadSeen' <=> HeadSeen)
  BY <1>1, WireKept DEF IInv
<1>4. TypeOK'
  BY <1>1, <1>2 DEF IInv, TypeOK
<1>5. StageInv' /\ OrphanInv'
  BY <1>1, <1>3 DEF IInv, StageInv, OrphanInv, Early
<1>6. UploadInv'
  <2>1. handler.got <= receive'.read
    BY <1>2 DEF IInv, UploadInv, TypeOK
  <2> QED
    BY <1>1, <1>2, <2>1 DEF IInv, UploadInv
<1>7. BodyIntact'
  BY <1>1 DEF IInv, BodyIntact
<1> QED
  BY <1>3, <1>4, <1>5, <1>6, <1>7 DEF IInv

-----------------------------------------------------------------------------
LEMMA EdgeReceivesKeeps == ASSUME IInv, EdgeReceives PROVE IInv'
<1>1. /\ connection = "up" /\ out # <<>> /\ edge' = Received(Head(out)) /\ out' = Tail(out)
      /\ UNCHANGED <<transport, kind, connection, upload, receive, inside, parked, waker, task,
                     responder, handler, source, pumping, drain, send>>
  BY DEF EdgeReceives, request, polls, asleep
<1>2. /\ TypeOK /\ WireInv /\ StageInv /\ out \in Seq(Items) /\ Shaped(out)
      /\ edge \in [head : {"none", "head", "error"}, chunks : 0 .. MaxChunks,
                  end : {"open", "fin", "reset", "abandoned"}]
      /\ source.made \in 0 .. MaxChunks /\ MaxChunks \in Nat
      /\ edge.end = "open" /\ ~Unsendable
  BY <1>1, RequestsAssumption DEF IInv, TypeOK, WireInv, Unsendable
<1>3. PICK q : q = out
  OBVIOUS
<1>4. PICK r : r = Tail(q)
  OBVIOUS
<1>5. PICK h : h = Head(q)
  OBVIOUS
<1>6. /\ q \in Seq(Items) /\ r \in Seq(Items) /\ h \in Items /\ Shaped(r)
      /\ Closes(r) => Closes(q)
      /\ \A y : EndsWith(r, y) => EndsWith(q, y)
      /\ EndsWith(q, "reset") => h = "reset" \/ EndsWith(r, "reset")
      /\ HasHead(q) <=> h = "head"
      /\ ~HasHead(r)
      /\ Coming(r) = Coming(q) - One(h = "chunk")
      /\ h \in Closing => r = <<>> /\ EndsWith(q, h) /\ Coming(q) = 0
  <2>1. q \in Seq(Items) /\ Shaped(q) /\ q # <<>>
    BY <1>1, <1>2, <1>3
  <2> QED
    BY <2>1, <1>4, <1>5, Taken
<1>7. Coming(q) \in Nat /\ Coming(r) \in Nat
  BY <1>6, ComingIsCount
<1>8. out' = r /\ edge' = Received(h) /\ (HeadSeen <=> edge.head = "head" \/ h = "head")
  BY <1>1, <1>3, <1>4, <1>5, <1>6 DEF HeadSeen
<1>9. h \in Heads \/ h \in Closing \/ h = "chunk"
  BY <1>6 DEF Items, Heads, Closing
<1>10. /\ edge' \in [head : {"none", "head", "error"}, chunks : 0 .. MaxChunks,
                    end : {"open", "fin", "reset", "abandoned"}]
       /\ edge'.chunks + Coming(r) = edge.chunks + Coming(q)
       /\ edge'.end = IF h \in Closing THEN h ELSE "open"
       /\ edge'.head = "head" => edge.head = "head" \/ h = "head"
       /\ h \in Closing => edge'.head = edge.head /\ edge'.chunks = edge.chunks
  <2>1. CASE h \in Heads
    <3>1. edge' = [edge EXCEPT !.head = h] /\ One(h = "chunk") = 0 /\ h \notin Closing
          /\ h \in {"head", "error"}
      BY <1>8, <2>1 DEF Received, Heads, Closing, One
    <3> QED
      BY <1>2, <1>6, <1>7, <3>1
  <2>2. CASE h = "chunk"
    <3>1. edge' = [edge EXCEPT !.chunks = @ + 1] /\ One(h = "chunk") = 1 /\ h \notin Closing
      BY <1>8, <2>2 DEF Received, Closing, One
    <3>2. edge.chunks + Coming(q) <= source.made
      BY <1>2, <1>3 DEF WireInv
    <3>3. edge.chunks + 1 \in 0 .. MaxChunks
      BY <1>2, <1>6, <1>7, <3>1, <3>2
    <3>4. edge' \in [head : {"none", "head", "error"}, chunks : 0 .. MaxChunks,
                     end : {"open", "fin", "reset", "abandoned"}]
          /\ edge'.chunks = edge.chunks + 1 /\ edge'.end = edge.end /\ edge'.head = edge.head
      BY <1>2, <3>1, <3>3
    <3>5. edge.chunks + 1 + Coming(r) = edge.chunks + Coming(q)
      <4>1. edge.chunks \in Nat /\ Coming(r) = Coming(q) - 1
        BY <1>2, <1>6, <3>1
      <4> QED
        BY <1>7, <4>1
    <3> QED
      BY <1>2, <3>1, <3>4, <3>5
  <2>3. CASE h \in Closing
    <3>1. edge' = [edge EXCEPT !.end = h] /\ One(h = "chunk") = 0 /\ h \in {"fin", "reset"}
      BY <1>8, <2>3 DEF Received, Closing, One
    <3> QED
      BY <1>2, <1>6, <1>7, <2>3, <3>1
  <2> QED
    BY <1>9, <2>1, <2>2, <2>3
<1>11. (HeadSeen' => HeadSeen) /\ (Counted' <=> Counted)
  BY <1>1, <1>6, <1>8, <1>10 DEF HeadSeen, Counted
<1>12. Unsendable' <=> h \in Closing
  BY <1>1, <1>10 DEF Unsendable, Closing
<1>13. WireInv'
  <2>1. Shaped(r) /\ (Closes(r) => send' = "closed") /\ (Unsendable' => r = <<>>)
    BY <1>1, <1>2, <1>3, <1>6, <1>12 DEF WireInv
  <2>2. HeadSeen' \/ edge'.chunks + Coming(r) # 0 => responder' = "answered"
    BY <1>1, <1>2, <1>3, <1>10, <1>11 DEF WireInv
  <2>3. edge'.chunks + Coming(r) <= source'.made
    BY <1>1, <1>2, <1>3, <1>10 DEF WireInv
  <2>4. HeadSeen' /\ ~Unsendable' /\ ~EndsWith(r, "reset")
          => edge'.chunks + Coming(r) = source'.made
    BY <1>1, <1>2, <1>3, <1>6, <1>10, <1>11, <1>12 DEF WireInv, Closing
  <2>5. HeadSeen' /\ Counted' /\ EndsWith(r, "fin") => source'.state = "ended"
    BY <1>1, <1>2, <1>3, <1>6, <1>11 DEF WireInv
  <2>6. edge'.end = "fin" /\ edge'.head = "head" /\ Counted' => Whole'
    <3> SUFFICES ASSUME edge'.end = "fin", edge'.head = "head", Counted' PROVE Whole'
      OBVIOUS
    <3>1. h = "fin" /\ h \in Closing
      BY <1>10
    <3>2. HeadSeen /\ Counted /\ EndsWith(q, "fin") /\ Coming(q) = 0
          /\ edge'.chunks = edge.chunks
      BY <1>6, <1>8, <1>10, <1>11, <3>1
    <3>3. ~EndsWith(q, "reset")
      BY <3>2 DEF EndsWith
    <3>4. source.state = "ended" /\ edge.chunks + Coming(q) = source.made
      BY <1>2, <1>3, <3>2, <3>3 DEF WireInv
    <3> QED
      BY <1>1, <1>2, <3>2, <3>4 DEF Whole
  <2> QED
    BY <1>8, <2>1, <2>2, <2>3, <2>4, <2>5, <2>6 DEF WireInv
<1>14. TypeOK'
  BY <1>1, <1>2, <1>6, <1>8, <1>10 DEF TypeOK
<1>15. StageInv' /\ OrphanInv'
  <2>1. task \notin Early
    BY <1>1 DEF IInv, StageInv
  <2>2. StageInv'
    BY <1>1, <1>2, <1>11, <2>1 DEF StageInv
  <2>3. OrphanInv'
    BY <1>1, <1>2, <1>11 DEF IInv, OrphanInv
  <2> QED
    BY <2>2, <2>3
<1>16. UploadInv' /\ BodyIntact'
  BY <1>1, UploadKept DEF IInv
<1> QED
  BY <1>13, <1>14, <1>15, <1>16 DEF IInv

\* The edge gives up, or the connection is lost: nothing of the response is on
\* its way any more, and no end of it came.
LEMMA CutKeeps ==
  ASSUME IInv, out' = <<>>, Unsendable',
         UNCHANGED <<transport, kind, receive, inside, task, responder, handler, source,
                     pumping, drain, send>>,
         edge'.head = edge.head, edge'.chunks = edge.chunks, edge'.end \in {edge.end, "abandoned"},
         upload'.sent = upload.sent,
         upload.end = "fin" => upload'.end = "fin"
  PROVE  WireInv' /\ StageInv' /\ OrphanInv' /\ UploadInv' /\ BodyIntact'
<1>1. /\ WireInv /\ StageInv /\ TypeOK /\ edge.chunks \in Nat /\ source.made \in Nat
      /\ Coming(out) \in Nat
  BY ComingIsCount DEF IInv, TypeOK
<1>2. PICK q : q = <<>>
  OBVIOUS
<1>3. Shaped(q) /\ ~Closes(q) /\ ~HasHead(q) /\ Coming(q) = 0 /\ \A x : ~EndsWith(q, x)
  BY <1>2 DEF Shaped, Closes, HasHead, Coming, One, Starts, EndsWith
<1>4. HeadSeen' => HeadSeen
  BY <1>2, <1>3 DEF HeadSeen
<1>5. WireInv'
  <2>1. edge'.chunks + Coming(q) # 0 => edge.chunks + Coming(out) # 0
    BY <1>1, <1>3
  <2>2. edge'.chunks + Coming(q) <= source'.made
    <3>1. edge.chunks + Coming(out) <= source.made
      BY <1>1 DEF WireInv
    <3> QED
      BY <1>1, <1>3, <3>1
  <2>3. edge'.end = "fin" /\ edge'.head = "head" /\ Counted' => Whole'
    BY <1>1 DEF WireInv, Counted, Whole
  <2> QED
    BY <1>1, <1>2, <1>3, <1>4, <2>1, <2>2, <2>3 DEF WireInv
<1>6. StageInv' /\ OrphanInv'
  BY <1>1, <1>4 DEF StageInv, OrphanInv
<1>7. UploadInv' /\ BodyIntact'
  BY DEF IInv, UploadInv, BodyIntact
<1> QED
  BY <1>5, <1>6, <1>7

LEMMA EdgeKeeps == ASSUME IInv, Edge PROVE IInv'
<1>1. /\ upload \in [sent : 0 .. MaxUpload, end : {"open", "fin", "reset"}]
      /\ edge \in [head : {"none", "head", "error"}, chunks : 0 .. MaxChunks,
                  end : {"open", "fin", "reset", "abandoned"}]
      /\ MaxUpload \in Nat /\ receive.read \in Nat /\ receive.read <= upload.sent
      /\ <<>> \in Seq(Items)
  BY RequestsAssumption DEF IInv, TypeOK
<1>2. CASE EdgeUploads
  <2>1. /\ upload.end = "open" /\ inside' = inside
        /\ parked' \subseteq parked /\ waker' = {}
        /\ UNCHANGED <<transport, kind, connection, receive, task, responder, handler, source,
                       pumping, drain, send, out, edge>>
    BY <1>2 DEF EdgeUploads, Wakes, request
  <2>2. /\ upload' \in [sent : 0 .. MaxUpload, end : {"open", "fin", "reset"}]
        /\ receive.read <= upload'.sent
    <3>1. \/ upload.sent < MaxUpload /\ upload' = [upload EXCEPT !.sent = @ + 1]
          \/ upload' = [upload EXCEPT !.end = "fin"]
      BY <1>2 DEF EdgeUploads
    <3> QED
      BY <1>1, <3>1
  <2>3. TypeOK'
    BY <2>1, <2>2 DEF IInv, TypeOK
  <2>4. WireInv' /\ (HeadSeen' <=> HeadSeen) /\ (Unsendable' <=> Unsendable)
    BY <2>1, WireKept DEF IInv
  <2>5. StageInv' /\ OrphanInv'
    BY <2>1, <2>4 DEF IInv, StageInv, OrphanInv
  <2>6. UploadInv' /\ BodyIntact'
    BY <2>1 DEF IInv, UploadInv, BodyIntact
  <2> QED
    BY <2>3, <2>4, <2>5, <2>6 DEF IInv
<1>3. CASE EdgeReceives
  BY <1>3, EdgeReceivesKeeps
<1>4. CASE EdgeAbandons
  <2>1. /\ edge.end = "open" /\ edge' = [edge EXCEPT !.end = "abandoned"]
        /\ upload' = [upload EXCEPT !.end = IF @ = "open" THEN "reset" ELSE @]
        /\ out' = <<>> /\ inside' = inside
        /\ parked' \subseteq parked /\ waker' = {}
        /\ UNCHANGED <<transport, kind, connection, receive, task, responder, handler, source,
                       pumping, drain, send>>
    BY <1>4 DEF EdgeAbandons, Wakes, request
  <2>2. /\ upload' \in [sent : 0 .. MaxUpload, end : {"open", "fin", "reset"}]
        /\ upload'.sent = upload.sent /\ (upload.end = "fin" => upload'.end = "fin")
    BY <1>1, <2>1
  <2>3. /\ edge' \in [head : {"none", "head", "error"}, chunks : 0 .. MaxChunks,
                     end : {"open", "fin", "reset", "abandoned"}]
        /\ edge'.head = edge.head /\ edge'.chunks = edge.chunks /\ edge'.end = "abandoned"
    BY <1>1, <2>1
  <2>4. TypeOK'
    BY <1>1, <2>1, <2>2, <2>3 DEF IInv, TypeOK
  <2>5. Unsendable'
    BY <2>3 DEF Unsendable
  <2> QED
    BY <2>1, <2>2, <2>3, <2>4, <2>5, CutKeeps DEF IInv
<1>5. CASE ConnectionLost
  <2>1. /\ connection' = "lost" /\ out' = <<>> /\ inside' = inside
        /\ parked' \subseteq parked /\ waker' = {}
        /\ UNCHANGED <<transport, kind, upload, receive, task, responder, handler, source,
                       pumping, drain, send, edge>>
    BY <1>5 DEF ConnectionLost, Wakes, request
  <2>2. TypeOK'
    BY <1>1, <2>1 DEF IInv, TypeOK
  <2>3. Unsendable'
    BY <2>1 DEF Unsendable
  <2> QED
    BY <2>1, <2>2, <2>3, CutKeeps DEF IInv
<1> QED
  BY <1>2, <1>3, <1>4, <1>5 DEF Edge

-----------------------------------------------------------------------------
\* The handler answers or declines: nothing was sent for it before.
LEMMA RespondsKeeps == ASSUME IInv, (\E sized \in BOOLEAN : Answers(sized)) \/ Declines PROVE IInv'
<1>1. /\ responder = "held"
      /\ UNCHANGED <<transport, kind, connection, upload, receive, inside, parked, waker, task,
                     handler, pumping, drain, send, out, edge>>
  BY DEF Answers, Declines, request, polls, asleep
<1>2. TypeOK /\ WireInv /\ StageInv /\ source.made \in Nat /\ edge.chunks \in Nat
  BY DEF IInv, TypeOK
<1>3. ~HeadSeen /\ ~HeadSeen' /\ edge.chunks + Coming(out) = 0 /\ edge.head # "head"
  BY <1>1, <1>2 DEF WireInv, HeadSeen
<1>4. task \notin {"preamble", "dispatch", "head", "copying", "pumping"}
  BY <1>1, <1>2 DEF StageInv
<1>5. UploadInv' /\ BodyIntact'
  BY <1>1, UploadKept DEF IInv
<1>6. OrphanInv'
  BY <1>3 DEF OrphanInv
<1>7. CASE \E sized \in BOOLEAN : Answers(sized)
  <2> PICK sized \in BOOLEAN : Answers(sized)
    BY <1>7
  <2>1. /\ responder' = "answered" /\ source'.made = 0
        /\ (source'.sized => source'.state = "ended")
        /\ source' \in [state : {"none", "open", "ended", "failed"}, made : 0 .. MaxChunks,
                        sized : BOOLEAN]
    <3>1. /\ responder' = "answered"
          /\ source' = [state |-> IF sized THEN "ended" ELSE "open", made |-> 0, sized |-> sized]
      BY DEF Answers
    <3>2. 0 \in 0 .. MaxChunks
      BY RequestsAssumption
    <3> QED
      BY <3>1, <3>2
  <2>2. TypeOK'
    BY <1>1, <1>2, <2>1 DEF TypeOK
  <2>3. WireInv'
    <3>1. /\ Shaped(out) /\ (Closes(out) => send' = "closed") /\ (Unsendable' => out' = <<>>)
      BY <1>1, <1>2 DEF WireInv, Unsendable
    <3> QED
      BY <1>1, <1>3, <2>1, <3>1 DEF WireInv
  <2>4. StageInv'
    BY <1>1, <1>2, <1>3, <1>4, <2>1 DEF StageInv, Early
  <2> QED
    BY <1>5, <1>6, <2>2, <2>3, <2>4 DEF IInv
<1>8. CASE Declines
  <2>1. responder' \in {"failed", "dropped"} /\ source' = source
    BY <1>8 DEF Declines
  <2>2. TypeOK'
    BY <1>1, <1>2, <2>1 DEF TypeOK
  <2>3. WireInv'
    BY <1>1, <1>2, <1>3, <2>1 DEF WireInv, Unsendable, Counted, Whole
  <2>4. StageInv'
    BY <1>1, <1>2, <1>3, <1>4, <2>1 DEF StageInv, Early
  <2> QED
    BY <1>5, <1>6, <2>2, <2>3, <2>4 DEF IInv
<1> QED
  BY <1>7, <1>8

LEMMA SourceEndsKeeps == ASSUME IInv, SourceEnds PROVE IInv'
<1>1. /\ source.state = "open"
      /\ UNCHANGED <<transport, kind, connection, upload, receive, inside, parked, waker, task,
                     responder, handler, pumping, drain, send, out, edge>>
  BY DEF SourceEnds, request, polls, asleep
<1>2. /\ source' \in [state : {"none", "open", "ended", "failed"}, made : 0 .. MaxChunks,
                      sized : BOOLEAN]
      /\ source'.made = source.made /\ source'.sized = source.sized
  BY DEF SourceEnds, IInv, TypeOK
<1>3. HeadSeen' <=> HeadSeen
  BY <1>1 DEF HeadSeen
<1>4. WireInv'
  BY <1>1, <1>2, <1>3 DEF IInv, WireInv, Unsendable, Counted, Whole
<1>5. TypeOK' /\ StageInv' /\ OrphanInv'
  <2>1. TypeOK'
    BY <1>1, <1>2 DEF IInv, TypeOK
  <2>2. StageInv'
    BY <1>1, <1>2, <1>3 DEF IInv, StageInv
  <2>3. OrphanInv'
    BY <1>1, <1>3 DEF IInv, OrphanInv, Unsendable
  <2> QED
    BY <2>1, <2>2, <2>3
<1>6. UploadInv' /\ BodyIntact'
  BY <1>1, UploadKept DEF IInv
<1> QED
  BY <1>4, <1>5, <1>6 DEF IInv

\* The end is where the edge put it while the request task is there: nobody has
\* stopped the stream, and nobody else has its receive half.
LEMMA HandlerToldKeeps == ASSUME IInv, HandlerTold PROVE IInv'
<1>1. UNCHANGED <<transport, kind, connection, upload, receive, parked, waker, task, responder,
                  source, pumping, drain, send, out, edge>>
  BY DEF HandlerTold, request, asleep
<1>2. PICK what \in {"end", "error"} :
        Tells(what) /\ handler' = [handler EXCEPT !.told = what]
  BY DEF HandlerTold
<1>3. /\ TypeOK /\ UploadInv /\ StageInv
      /\ handler \in [body : {"none", "held", "gone"}, got : 0 .. MaxUpload,
                     told : {"nothing", "end", "error"}]
      /\ upload.sent \in Nat /\ receive.read \in Nat /\ receive.read <= upload.sent
  BY DEF IInv, TypeOK
<1>4. /\ handler' \in [body : {"none", "held", "gone"}, got : 0 .. MaxUpload,
                       told : {"nothing", "end", "error"}]
      /\ handler'.body = handler.body /\ handler'.got = handler.got /\ handler'.told = what
  BY <1>2, <1>3
<1>5. inside' \in {{}, inside} /\ inside' # {"handler"}
  BY <1>2 DEF Tells, Misses
<1>6. TypeOK'
  <2>1. inside' \subseteq Readers
    BY <1>3, <1>5 DEF TypeOK
  <2> QED
    BY <1>1, <1>3, <1>4, <2>1 DEF TypeOK
<1>7. WireInv' /\ (HeadSeen' <=> HeadSeen) /\ (Unsendable' <=> Unsendable)
  BY <1>1, WireKept DEF IInv
<1>8. StageInv' /\ OrphanInv'
  BY <1>1, <1>7 DEF IInv, StageInv, OrphanInv
<1>9. UploadInv'
  BY <1>1, <1>3, <1>4, <1>5 DEF UploadInv
<1>10. BodyIntact'
  <2> SUFFICES ASSUME what = "end", task # "over"
               PROVE  upload.end = "fin" /\ handler.got = upload.sent
    BY <1>1, <1>4 DEF BodyIntact
  <2>1. ~receive.stopped /\ drain = "off" /\ inside # {"drain"}
    BY <1>3 DEF UploadInv, StageInv
  <2>2. InHand("handler") /\ AtEnd
    BY <1>2, <1>3, <2>1 DEF Tells, Misses, UploadInv
  <2>3. handler.body = "held" /\ kind = "http"
    BY <1>3, <2>2 DEF InHand, Reading, UploadInv
  <2>4. ~More /\ upload.end = "fin" /\ (transport = "quiche" => connection = "up")
    BY <2>1, <2>2 DEF AtEnd
  <2>5. ~(upload.sent > receive.read)
    BY <2>1, <2>4 DEF More
  <2>6. handler.got = receive.read
    BY <1>3, <2>1, <2>3 DEF UploadInv
  <2> QED
    BY <1>3, <2>4, <2>5, <2>6
<1> QED
  BY <1>6, <1>7, <1>8, <1>9, <1>10 DEF IInv

\* The last handle of a stream may be the request body's.
LEMMA HandlerLetsGoKeeps == ASSUME IInv, HandlerLetsGo PROVE IInv'
<1>1. /\ handler.body = "held" /\ "handler" \notin inside
      /\ handler' = [handler EXCEPT !.body = "gone"]
      /\ parked' \subseteq parked
      /\ Dropped(send, out, receive.stopped)
      /\ UNCHANGED <<transport, kind, connection, upload, inside, waker, task, drain, responder,
                     source, pumping, edge>>
  BY DEF HandlerLetsGo, Drops, request
<1>2. TypeOK /\ WireInv /\ StageInv /\ UploadInv /\ receive.stopped \in BOOLEAN
  BY DEF IInv, TypeOK
<1>3. /\ handler' \in [body : {"none", "held", "gone"}, got : 0 .. MaxUpload,
                       told : {"nothing", "end", "error"}]
      /\ handler'.got = handler.got /\ handler'.told = handler.told /\ handler'.body = "gone"
  BY <1>1, <1>2 DEF TypeOK
<1>4. /\ receive' \in [read : 0 .. MaxUpload, stopped : BOOLEAN] /\ receive'.read = receive.read
      /\ (task # "over" => /\ UNCHANGED <<send, out>>
                           /\ receive'.stopped = receive.stopped)
  BY <1>1, <1>2, DroppedIs
<1>5. Sends
  <2>1. CASE task = "over"
    <3>1. Excused
      BY <2>1 DEF IInv, OrphanInv, Excused
    <3> QED
      BY <1>1, <1>2, <3>1, DropsSends
  <2>2. CASE task # "over"
    BY <1>4, <2>2 DEF Sends
  <2> QED
    BY <2>1, <2>2
<1>6. /\ WireInv' /\ out' \in Seq(Items) /\ send' \in {"open", "closed", "none"}
      /\ (HeadSeen' => HeadSeen) /\ Unsendable' = Unsendable
  BY <1>1, <1>2, <1>5, SendsKeeps
<1>7. send' = "open" => send = "open"
  BY <1>5 DEF Sends
<1>8. TypeOK'
  BY <1>1, <1>2, <1>3, <1>4, <1>6 DEF TypeOK
<1>9. StageInv'
  BY <1>1, <1>2, <1>4, <1>6, <1>7 DEF StageInv, Early
<1>10. OrphanInv'
  BY <1>1, <1>6, <1>7 DEF IInv, OrphanInv
<1>11. UploadInv'
  <2>1. inside # {"handler"}
    BY <1>1
  <2>2. kind = "http"
    BY <1>1, <1>2 DEF UploadInv
  <2> QED
    BY <1>1, <1>2, <1>3, <1>4, <2>1, <2>2 DEF UploadInv
<1>12. BodyIntact'
  BY <1>1, <1>3 DEF IInv, BodyIntact
<1> QED
  BY <1>6, <1>8, <1>9, <1>10, <1>11, <1>12 DEF IInv

\* The drain is over after the request task is, and finds the write side ended.
LEMMA DrainKeeps == ASSUME IInv, Drain PROVE IInv'
<1>1. /\ drain = "reading" /\ drain' = "over"
      /\ parked' \subseteq parked
      /\ UNCHANGED <<transport, kind, connection, upload, waker, task, handler, responder,
                     source, pumping, edge>>
  BY DEF Drain, DrainEnds, DrainGivesUp, request, asleep
<1>2. inside' \in {{}, inside} /\ inside' # {"drain"}
  BY DEF Drain, DrainEnds, DrainGivesUp, Misses
<1>3. PICK stopping \in BOOLEAN : Dropped(send, out, stopping)
  <2>1. receive.stopped \in BOOLEAN
    BY DEF IInv, TypeOK
  <2>2. Stops \in BOOLEAN
    BY <2>1, Zenon DEF Stops
  <2> QED
    BY <2>1, <2>2 DEF Drain, DrainEnds, DrainGivesUp, Drops
<1>4. TypeOK /\ WireInv /\ StageInv /\ UploadInv /\ task = "over" /\ send # "open"
  BY <1>1 DEF IInv, StageInv
<1>5. /\ receive' \in [read : 0 .. MaxUpload, stopped : BOOLEAN] /\ receive'.read = receive.read
      /\ UNCHANGED <<send, out>>
  BY <1>3, <1>4, DroppedIs
<1>6. TypeOK'
  <2>1. inside' \subseteq Readers
    BY <1>2, <1>4 DEF TypeOK
  <2> QED
    BY <1>1, <1>4, <1>5, <2>1 DEF TypeOK
<1>7. WireInv' /\ (HeadSeen' <=> HeadSeen) /\ (Unsendable' <=> Unsendable)
  BY <1>1, <1>4, <1>5, WireKept
<1>8. StageInv' /\ OrphanInv'
  BY <1>1, <1>4, <1>5, <1>7 DEF StageInv, OrphanInv, Early
<1>9. UploadInv' /\ BodyIntact'
  BY <1>1, <1>2, <1>4, <1>5 DEF UploadInv, BodyIntact
<1> QED
  BY <1>6, <1>7, <1>8, <1>9 DEF IInv

\* The two halves of a poll.
LEMMA PollKeeps == ASSUME IInv, NEW r \in Readers, Take(r) \/ Poll(r) PROVE IInv'
<1>1. UNCHANGED <<transport, kind, connection, upload, task, responder, source, pumping, drain,
                  send, out, edge>>
  BY DEF Take, Poll, Yields, Pends, request
<1>2. TypeOK /\ StageInv /\ UploadInv /\ r \in {"handler", "drain"}
  BY DEF IInv, Readers
<1>3. /\ r = "handler" => handler.body = "held" /\ handler.told = "nothing"
      /\ r = "drain" => drain = "reading"
  BY <1>2 DEF Take, Poll, Yields, Pends, InHand, Reading, UploadInv
<1>4. WireInv' /\ (HeadSeen' <=> HeadSeen) /\ (Unsendable' <=> Unsendable)
  BY <1>1, WireKept DEF IInv
<1>5. StageInv' /\ OrphanInv'
  BY <1>1, <1>4 DEF IInv, StageInv, OrphanInv
<1>6. CASE Take(r) \/ Pends(r)
  <2>1. /\ inside' \in {{}, {r}} /\ UNCHANGED <<receive, handler>>
        /\ parked' \subseteq parked \cup {r} /\ waker' \subseteq waker \cup {r}
    BY <1>6 DEF Take, Pends, asleep
  <2>2. TypeOK'
    <3>1. inside' \subseteq Readers /\ parked' \subseteq Readers /\ waker' \subseteq Readers
      BY <1>2, <2>1 DEF TypeOK, Readers
    <3> QED
      BY <1>1, <1>2, <2>1, <3>1 DEF TypeOK
  <2>3. UploadInv' /\ BodyIntact'
    BY <1>1, <1>2, <1>3, <2>1 DEF IInv, UploadInv, BodyIntact
  <2> QED
    BY <1>4, <1>5, <2>2, <2>3 DEF IInv
<1>7. CASE Yields(r)
  <2>1. /\ inside' = {} /\ parked' = parked /\ waker' = waker
        /\ upload.sent > receive.read
        /\ receive' = [receive EXCEPT !.read = @ + 1]
        /\ handler' = IF r = "handler" THEN [handler EXCEPT !.got = @ + 1] ELSE handler
    BY <1>7 DEF Yields, More, asleep
  <2>2. /\ handler \in [body : {"none", "held", "gone"}, got : 0 .. MaxUpload,
                       told : {"nothing", "end", "error"}]
        /\ receive \in [read : 0 .. MaxUpload, stopped : BOOLEAN]
        /\ upload.sent \in 0 .. MaxUpload /\ MaxUpload \in Nat
        /\ handler.got <= receive.read
    BY <1>2, RequestsAssumption DEF TypeOK, UploadInv
  <2>3. /\ receive' \in [read : 0 .. MaxUpload, stopped : BOOLEAN]
        /\ receive'.read = receive.read + 1 /\ receive'.stopped = receive.stopped
        /\ receive'.read <= upload.sent
    BY <2>1, <2>2
  <2>4. /\ handler' \in [body : {"none", "held", "gone"}, got : 0 .. MaxUpload,
                         told : {"nothing", "end", "error"}]
        /\ handler'.body = handler.body /\ handler'.told = handler.told
        /\ handler'.got = IF r = "handler" THEN handler.got + 1 ELSE handler.got
    BY <2>1, <2>2
  <2>5. TypeOK'
    <3>1. inside' \subseteq Readers
      BY <2>1
    <3> QED
      BY <1>1, <1>2, <2>1, <2>3, <2>4, <3>1 DEF TypeOK
  <2>6. UploadInv'
    <3>1. handler'.got <= receive'.read
      BY <2>2, <2>3, <2>4
    <3>2. drain = "off" /\ kind = "http" => handler'.got = receive'.read
      BY <1>2, <1>3, <2>3, <2>4 DEF UploadInv
    <3> QED
      BY <1>1, <1>2, <2>1, <2>3, <2>4, <3>1, <3>2 DEF UploadInv
  <2>7. BodyIntact'
    BY <1>1, <1>2, <1>3, <2>4 DEF IInv, BodyIntact, StageInv
  <2> QED
    BY <1>4, <1>5, <2>5, <2>6, <2>7 DEF IInv
<1> QED
  BY <1>6, <1>7 DEF Poll

-----------------------------------------------------------------------------
LEMMA StutterKeeps == ASSUME IInv, UNCHANGED vars PROVE IInv'
<1>1. UNCHANGED <<transport, kind, connection, upload, receive, inside, parked, waker, task,
                  responder, handler, source, pumping, drain, send, out, edge>>
  BY DEF vars, request, polls, asleep
<1>2. TypeOK'
  BY <1>1 DEF IInv, TypeOK
<1>3. WireInv' /\ (HeadSeen' <=> HeadSeen) /\ (Unsendable' <=> Unsendable)
  BY <1>1, WireKept DEF IInv
<1>4. StageInv' /\ OrphanInv'
  BY <1>1, <1>3 DEF IInv, StageInv, OrphanInv
<1>5. UploadInv' /\ BodyIntact'
  BY <1>1, UploadKept DEF IInv
<1> QED
  BY <1>2, <1>3, <1>4, <1>5 DEF IInv

LEMMA NextInv == ASSUME IInv, [Next]_vars PROVE IInv'
<1>1. CASE Edge
  BY <1>1, EdgeKeeps
<1>2. CASE Handler
  BY <1>2, RespondsKeeps, HandlerToldKeeps, HandlerLetsGoKeeps, SourceEndsKeeps DEF Handler
<1>3. CASE ReadPreamble
  BY <1>3, ReadPreambleKeeps
<1>4. CASE Serve
  BY <1>4, TaskGoesKeeps, CallHandlerKeeps, WriteErrorKeeps, WriteHeadKeeps, CopyKeeps,
     PumpOriginKeeps, PumpEdgeKeeps DEF Serve
<1>5. CASE Aborted
  BY <1>5, TaskGoesKeeps
<1>6. CASE Drain
  BY <1>6, DrainKeeps
<1>7. CASE \E r \in Readers : Take(r) \/ Poll(r)
  BY <1>7, PollKeeps
<1>8. CASE UNCHANGED vars
  BY <1>8, StutterKeeps
<1> QED
  BY <1>1, <1>2, <1>3, <1>4, <1>5, <1>6, <1>7, <1>8 DEF Next

\* The strengthened invariant holds, for any lengths and any buffer.
THEOREM Invariance == Spec => []IInv
BY InitInv, NextInv, PTL DEF Spec

\* The handler of a request that is being answered reads the whole body before
\* it is told its end: whatever the steps in which two handles share quinn's
\* receive half, the drain is not there yet and nobody has stopped the stream
\* (poll_read of streams.rs, drain_unread after the copy in handle_quic_http).
THEOREM BodiesAreIntact == Spec => []BodyIntact
<1>1. IInv => BodyIntact
  BY DEF IInv
<1> QED
  BY <1>1, Invariance, PTL

\* A response that ends cleanly is complete: the end is written only where the
\* source ended, behind every chunk it made, and every other way out of the
\* request task resets the stream or says nothing (handle_quic_http, pump, the
\* drop of the last handle).
THEOREM CleanEndsAreComplete == Spec => []CleanEndIsComplete
<1>1. IInv => CleanEndIsComplete
  BY DEF IInv, WireInv, Counted, CleanEndIsComplete
<1> QED
  BY <1>1, Invariance, PTL

-----------------------------------------------------------------------------
(* Recursive functions over a sequence: that one exists, and induction.     *)

\* A set with 0 and every successor of its numbers in it holds every number.
LEMMA SetInduction ==
  ASSUME NEW S, 0 \in S, \A n \in Nat : n \in S => n + 1 \in S
  PROVE  Nat \subseteq S
<1> DEFINE rest == Nat \ S
<1>1. SUFFICES ASSUME rest # {} PROVE FALSE
  OBVIOUS
<1>2. \E x \in rest : \A y \in rest : ~(<<y, x>> \in OpToRel(<, Nat))
  <2> HIDE DEF rest
  <2>1. rest \subseteq Nat
    BY DEF rest
  <2> QED
    BY <1>1, <2>1, WFMin, NatLessThanWellFounded
<1>3. PICK x \in rest : \A y \in rest : ~(<<y, x>> \in OpToRel(<, Nat))
  BY <1>2
<1>4. x \in Nat /\ x \notin S /\ x # 0
  OBVIOUS
<1>5. x - 1 \in Nat /\ (x - 1) + 1 = x
  BY <1>4
<1>6. x - 1 \in rest
  BY <1>4, <1>5
<1>7. <<x - 1, x>> \in OpToRel(<, Nat)
  BY <1>4, <1>5 DEF OpToRel
<1> QED
  BY <1>3, <1>6, <1>7

\* The same on the way to n.
LEMMA IntervalInduction ==
  ASSUME NEW n \in Nat, NEW S, 0 \in S, \A i \in 1 .. n : i - 1 \in S => i \in S
  PROVE  0 .. n \subseteq S
<1> DEFINE T == {i \in Nat : i <= n => i \in S}
<1>1. 0 \in T
  OBVIOUS
<1>2. ASSUME NEW i \in Nat, i \in T PROVE i + 1 \in T
  <2>1. i + 1 <= n => i + 1 \in 1 .. n /\ (i + 1) - 1 = i /\ i \in S
    BY <1>2
  <2> QED
    BY <2>1
<1>3. Nat \subseteq T
  <2> HIDE DEF T
  <2> QED
    BY <1>1, <1>2, SetInduction
<1> QED
  BY <1>3

\* g is what recursion over 1..n with these steps defines.
Recurses(n, A, a, step, g) ==
  /\ g \in [0 .. n -> A]
  /\ g[0] = a
  /\ \A i \in 1 .. n : g[i] = step[i][g[i - 1]]

\* Such a function exists, so that a definition by recursion can be unfolded.
LEMMA FiniteRecursion ==
  ASSUME NEW n \in Nat, NEW A, NEW a \in A, NEW step \in [Nat -> [A -> A]]
  PROVE  \E g : Recurses(n, A, a, step, g)
<1> DEFINE S == {k \in Nat : \E g : Recurses(k, A, a, step, g)}
<1>1. 0 \in S
  <2> DEFINE f == [i \in 0 .. 0 |-> a]
  <2>1. Recurses(0, A, a, step, f)
    BY DEF Recurses
  <2> QED
    BY <2>1
<1>2. ASSUME NEW k \in Nat, k \in S PROVE k + 1 \in S
  <2>1. PICK f : Recurses(k, A, a, step, f)
    BY <1>2
  <2>2. PICK next \in A : next = step[k + 1][f[k]]
    BY <2>1 DEF Recurses
  <2> DEFINE g == [i \in 0 .. k + 1 |-> IF i = k + 1 THEN next ELSE f[i]]
  <2>3. g \in [0 .. k + 1 -> A] /\ g[0] = a
    BY <2>1 DEF Recurses
  <2>4. g[k + 1] = next /\ \A i \in 0 .. k : g[i] = f[i]
    OBVIOUS
  <2> HIDE DEF g
  <2>5. ASSUME NEW i \in 1 .. k + 1 PROVE g[i] = step[i][g[i - 1]]
    <3>1. CASE i = k + 1
      BY <2>2, <2>4, <3>1
    <3>2. CASE i # k + 1
      <4>1. i \in 1 .. k /\ i \in 0 .. k /\ i - 1 \in 0 .. k
        BY <3>2
      <4> QED
        BY <2>1, <2>4, <4>1 DEF Recurses
    <3> QED
      BY <3>1, <3>2
  <2>6. Recurses(k + 1, A, a, step, g)
    BY <2>3, <2>5 DEF Recurses
  <2> QED
    BY <2>6
<1>3. Nat \subseteq S
  <2> HIDE DEF S
  <2> QED
    BY <1>1, <1>2, SetInduction
<1> QED
  BY <1>3

-----------------------------------------------------------------------------
(* What a message is on the other side.                                     *)

Request == [method : Methods, headers : Seq(Header)]

LEMMA AddChosenType ==
  ASSUME NEW S, NEW list \in Seq(S), NEW chosen, NEW header, header \in chosen => header \in S
  PROVE  AddChosen(list, chosen, header) \in Seq(S)
BY DEF AddChosen

\* Picked, unfolded: what is chosen of the first i headers.
LEMMA PickedUnfold ==
  ASSUME NEW headers \in Seq(Header), NEW chosen
  PROVE  /\ Picked(headers, chosen) \in [0 .. Len(headers) -> Seq(Header \cap chosen)]
         /\ Picked(headers, chosen)[0] = <<>>
         /\ \A i \in 1 .. Len(headers) :
              Picked(headers, chosen)[i]
                = AddChosen(Picked(headers, chosen)[i - 1], chosen, headers[i])
<1> DEFINE Lists == Seq(Header \cap chosen)
           step == [i \in Nat |-> [l \in Lists |->
                      IF i \in DOMAIN headers THEN AddChosen(l, chosen, headers[i]) ELSE l]]
           Def(g) == g = [i \in 0 .. Len(headers) |->
                            IF i = 0 THEN <<>>
                            ELSE AddChosen(g[i - 1], chosen, headers[i])]
<1>0. PICK n \in Nat : n = Len(headers) /\ DOMAIN headers = 1 .. n
  OBVIOUS
<1>1. /\ step \in [Nat -> [Lists -> Lists]]
      /\ \A i \in DOMAIN headers, l \in Lists : step[i][l] = AddChosen(l, chosen, headers[i])
  <2>1. \A i \in DOMAIN headers : headers[i] \in Header
    OBVIOUS
  <2>2. \A i \in Nat, l \in Lists :
          (IF i \in DOMAIN headers THEN AddChosen(l, chosen, headers[i]) ELSE l) \in Lists
    BY <2>1, AddChosenType
  <2>3. \A i \in DOMAIN headers : i \in Nat
    OBVIOUS
  <2> QED
    BY <2>2, <2>3
<1>2. <<>> \in Lists
  OBVIOUS
<1>3. \A l \in Lists, i \in DOMAIN headers : AddChosen(l, chosen, headers[i]) \in Lists
  <2>1. \A i \in DOMAIN headers : headers[i] \in Header
    OBVIOUS
  <2> QED
    BY <2>1, AddChosenType
<1> HIDE DEF step, Lists
<1>4. PICK g : Recurses(n, Lists, <<>>, step, g)
  BY <1>1, <1>2, FiniteRecursion
<1>5. ASSUME NEW i \in 1 .. n PROVE g[i] = AddChosen(g[i - 1], chosen, headers[i])
  <2>1. g[i] = step[i][g[i - 1]] /\ g[i - 1] \in Lists
    BY <1>4 DEF Recurses
  <2> QED
    BY <1>0, <1>1, <2>1
<1>6. Def(g)
  BY <1>0, <1>4, <1>5 DEF Recurses
<1>7. Picked(headers, chosen) = CHOOSE h : Def(h)
  BY DEF Picked
<1>8. Def(Picked(headers, chosen))
  <2> HIDE DEF Def
  <2> QED
    BY <1>6, <1>7
<1>9. DOMAIN Picked(headers, chosen) = 0 .. n /\ Picked(headers, chosen)[0] = <<>>
  BY <1>0, <1>8
<1>10. \A i \in 1 .. n :
         Picked(headers, chosen)[i] = AddChosen(Picked(headers, chosen)[i - 1], chosen, headers[i])
  BY <1>0, <1>8
<1>11. \A i \in 0 .. n : Picked(headers, chosen)[i] \in Lists
  <2> DEFINE S == {i \in 0 .. n : Picked(headers, chosen)[i] \in Lists}
  <2>1. 0 \in S
    BY <1>2, <1>9
  <2>2. ASSUME NEW i \in 1 .. n, i - 1 \in S PROVE i \in S
    <3>1. Picked(headers, chosen)[i] \in Lists
      BY <1>0, <1>3, <1>10, <2>2
    <3> QED
      BY <3>1
  <2> HIDE DEF S
  <2>3. 0 .. n \subseteq S
    BY <2>1, <2>2, IntervalInduction
  <2> QED
    BY <2>3 DEF S
<1>12. Picked(headers, chosen) \in [0 .. n -> Lists]
  <2>1. Picked(headers, chosen) = [i \in 0 .. n |-> Picked(headers, chosen)[i]]
    BY <1>0, <1>8
  <2> QED
    BY <1>11, <2>1
<1> QED
  BY <1>0, <1>9, <1>10, <1>12 DEF Lists

LEMMA OnlyType ==
  ASSUME NEW headers \in Seq(Header), NEW chosen
  PROVE  Only(headers, chosen) \in Seq(Header \cap chosen)
BY PickedUnfold DEF Only

LEMMA OnlyOfNone == ASSUME NEW chosen PROVE Only(<<>>, chosen) = <<>>
<1>1. <<>> \in Seq(Header) /\ Len(<<>>) = 0
  OBVIOUS
<1> QED
  BY <1>1, PickedUnfold DEF Only

\* Choosing goes header by header.
LEMMA OnlyAppend ==
  ASSUME NEW headers \in Seq(Header), NEW header \in Header, NEW chosen
  PROVE  Only(Append(headers, header), chosen)
           = AddChosen(Only(headers, chosen), chosen, header)
<1> DEFINE longer == Append(headers, header)
           f == Picked(headers, chosen)
           g == Picked(longer, chosen)
<1>0. PICK n \in Nat : n = Len(headers)
  OBVIOUS
<1>1. /\ longer \in Seq(Header) /\ Len(longer) = n + 1 /\ longer[n + 1] = header
      /\ \A i \in 1 .. n : longer[i] = headers[i]
  BY <1>0
<1>2. /\ f[0] = <<>>
      /\ \A i \in 1 .. n : f[i] = AddChosen(f[i - 1], chosen, headers[i])
  BY <1>0, PickedUnfold
<1>3. /\ g[0] = <<>>
      /\ \A i \in 1 .. n + 1 : g[i] = AddChosen(g[i - 1], chosen, longer[i])
  <2> HIDE DEF longer
  <2> QED
    BY <1>1, PickedUnfold
<1>4. Only(headers, chosen) = f[n] /\ Only(longer, chosen) = g[n + 1]
  BY <1>0, <1>1 DEF Only
<1> HIDE DEF f, g, longer
<1> DEFINE S == {i \in 0 .. n : f[i] = g[i]}
<1>5. 0 .. n \subseteq S
  <2>1. 0 \in S
    BY <1>2, <1>3
  <2>2. ASSUME NEW i \in 1 .. n, i - 1 \in S PROVE i \in S
    <3>1. f[i] = g[i]
      BY <1>1, <1>2, <1>3, <2>2
    <3> QED
      BY <3>1
  <2> HIDE DEF S
  <2> QED
    BY <2>1, <2>2, IntervalInduction
<1>6. f[n] = g[n]
  BY <1>5
<1>7. g[n + 1] = AddChosen(g[n], chosen, header)
  <2>1. g[n + 1] = AddChosen(g[(n + 1) - 1], chosen, longer[n + 1])
    BY <1>3
  <2> QED
    BY <1>1, <2>1
<1> QED
  BY <1>4, <1>6, <1>7 DEF longer

\* Choosing twice is choosing what both choose.
LEMMA OnlyTwice ==
  ASSUME NEW headers \in Seq(Header), NEW A, NEW B
  PROVE  Only(Only(headers, A), B) = Only(headers, A \cap B)
<1> DEFINE f == Picked(headers, A)
           g == Picked(headers, A \cap B)
<1>0. PICK n \in Nat : n = Len(headers) /\ \A i \in 1 .. n : headers[i] \in Header
  OBVIOUS
<1>1. /\ f \in [0 .. n -> Seq(Header \cap A)] /\ f[0] = <<>>
      /\ \A i \in 1 .. n : f[i] = AddChosen(f[i - 1], A, headers[i])
  BY <1>0, PickedUnfold
<1>2. /\ g[0] = <<>>
      /\ \A i \in 1 .. n : g[i] = AddChosen(g[i - 1], A \cap B, headers[i])
  BY <1>0, PickedUnfold
<1>3. Only(headers, A) = f[n] /\ Only(headers, A \cap B) = g[n]
  BY <1>0 DEF Only
<1> HIDE DEF f, g
<1> DEFINE S == {i \in 0 .. n : Only(f[i], B) = g[i]}
<1>4. 0 .. n \subseteq S
  <2>1. 0 \in S
    BY <1>1, <1>2, OnlyOfNone
  <2>2. ASSUME NEW i \in 1 .. n, i - 1 \in S PROVE i \in S
    <3>1. /\ i - 1 \in 0 .. n /\ f[i - 1] \in Seq(Header) /\ headers[i] \in Header
          /\ Only(f[i - 1], B) = g[i - 1]
      <4>1. i - 1 \in 0 .. n /\ Only(f[i - 1], B) = g[i - 1]
        BY <2>2
      <4>2. f[i - 1] \in Seq(Header \cap A)
        BY <1>1, <4>1
      <4> QED
        BY <1>0, <4>1, <4>2
    <3>2. Only(Append(f[i - 1], headers[i]), B) = AddChosen(g[i - 1], B, headers[i])
      BY <3>1, OnlyAppend
    <3>3. Only(f[i], B) = g[i]
      <4>1. f[i] = AddChosen(f[i - 1], A, headers[i])
        BY <1>1
      <4>2. g[i] = AddChosen(g[i - 1], A \cap B, headers[i])
        BY <1>2
      <4> QED
        BY <3>1, <3>2, <4>1, <4>2 DEF AddChosen
    <3> QED
      BY <3>3
  <2> HIDE DEF S
  <2> QED
    BY <2>1, <2>2, IntervalInduction
<1> QED
  BY <1>3, <1>4

\* Built, unfolded: the request after the first i entries, for entries that
\* leave a request one.
LEMMA BuiltUnfold ==
  ASSUME NEW metadata, NEW n \in Nat, n = Len(metadata),
         \A i \in 1 .. n, r \in Request : WithEntry(r, metadata[i]) \in Request
  PROVE  /\ Built(metadata) \in [0 .. n -> Request]
         /\ Built(metadata)[0] = [method |-> "GET", headers |-> <<>>]
         /\ \A i \in 1 .. n :
              Built(metadata)[i] = WithEntry(Built(metadata)[i - 1], metadata[i])
<1> DEFINE first == [method |-> "GET", headers |-> <<>>]
           step == [i \in Nat |-> [r \in Request |->
                      IF i \in 1 .. n THEN WithEntry(r, metadata[i]) ELSE r]]
           Def(g) == g = [i \in 0 .. Len(metadata) |->
                            IF i = 0 THEN first ELSE WithEntry(g[i - 1], metadata[i])]
<1>1. /\ step \in [Nat -> [Request -> Request]]
      /\ \A i \in 1 .. n, r \in Request : step[i][r] = WithEntry(r, metadata[i])
  OBVIOUS
<1>2. first \in Request
  BY DEF Request, Methods
<1> HIDE DEF step, first
<1>3. PICK g : Recurses(n, Request, first, step, g)
  BY <1>1, <1>2, FiniteRecursion
<1>4. ASSUME NEW i \in 1 .. n PROVE g[i] = WithEntry(g[i - 1], metadata[i])
  <2>1. g[i] = step[i][g[i - 1]] /\ g[i - 1] \in Request
    BY <1>3 DEF Recurses
  <2> QED
    BY <1>1, <2>1
<1>5. Def(g)
  BY <1>3, <1>4 DEF Recurses
<1>6. Built(metadata) = CHOOSE h : Def(h)
  BY DEF Built, first
<1>7. Def(Built(metadata))
  <2> HIDE DEF Def
  <2> QED
    BY <1>5, <1>6
<1>8. DOMAIN Built(metadata) = 0 .. n /\ Built(metadata)[0] = first
  BY <1>7
<1>9. \A i \in 1 .. n : Built(metadata)[i] = WithEntry(Built(metadata)[i - 1], metadata[i])
  BY <1>7
<1>10. \A i \in 0 .. n : Built(metadata)[i] \in Request
  <2> DEFINE S == {i \in 0 .. n : Built(metadata)[i] \in Request}
  <2>1. 0 \in S
    BY <1>2, <1>8
  <2>2. ASSUME NEW i \in 1 .. n, i - 1 \in S PROVE i \in S
    <3>1. WithEntry(Built(metadata)[i - 1], metadata[i]) \in Request
      BY <2>2
    <3>2. Built(metadata)[i] \in Request
      BY <1>9, <3>1
    <3> QED
      BY <3>2
  <2> HIDE DEF S
  <2>3. 0 .. n \subseteq S
    BY <2>1, <2>2, IntervalInduction
  <2> QED
    BY <2>3 DEF S
<1>11. Built(metadata) \in [0 .. n -> Request]
  <2>1. Built(metadata) = [i \in 0 .. n |-> Built(metadata)[i]]
    BY <1>7
  <2> QED
    BY <1>10, <2>1
<1> QED
  BY <1>8, <1>9, <1>11 DEF first

\* What an entry does to a request.
LEMMA EntryOfHeader ==
  ASSUME NEW r \in Request, NEW name \in Names, NEW value \in Values, value # "opaque"
  PROVE  /\ WithEntry(r, Entry("HttpHeader", name, value)) =
              [r EXCEPT !.headers = Append(@, [name |-> name, value |-> value])]
         /\ WithEntry(r, Entry("HttpHeader", name, value)) \in Request
<1>1. name # ""
  BY DEF Names
<1>2. WithEntry(r, Entry("HttpHeader", name, value)) =
        [r EXCEPT !.headers = Append(@, [name |-> name, value |-> value])]
  BY <1>1 DEF WithEntry, Entry
<1>3. Append(r.headers, [name |-> name, value |-> value]) \in Seq(Header)
  BY DEF Request, Header
<1> QED
  BY <1>2, <1>3 DEF Request

LEMMA EntryOfHost ==
  ASSUME NEW r \in Request, NEW host \in Values, host # "opaque"
  PROVE  /\ r.headers = <<>> =>
              WithEntry(r, Entry("HttpHost", "", host)) =
                [r EXCEPT !.headers = <<[name |-> "host", value |-> host]>>]
         /\ WithEntry(r, Entry("HttpHost", "", host)) \in Request
<1> DEFINE header == [name |-> "host", value |-> host]
           kept == Only(r.headers, Header \ Named("host"))
<1>1. WithEntry(r, Entry("HttpHost", "", host)) = [r EXCEPT !.headers = Append(kept, header)]
  BY DEF WithEntry, Entry, Insert
<1>2. kept \in Seq(Header)
  <2>1. r.headers \in Seq(Header)
    BY DEF Request
  <2>2. kept \in Seq(Header \cap (Header \ Named("host")))
    BY <2>1, OnlyType
  <2> QED
    BY <2>2
<1>3. header \in Header
  BY DEF Header, Names
<1>4. r.headers = <<>> => kept = <<>>
  BY OnlyOfNone
<1> HIDE DEF kept, header
<1>5. Append(kept, header) \in Seq(Header)
  BY <1>2, <1>3
<1>6. kept = <<>> => Append(kept, header) = <<header>>
  OBVIOUS
<1> QED
  BY <1>1, <1>4, <1>5, <1>6 DEF Request, header

LEMMA EntryOfMethod ==
  ASSUME NEW r \in Request, NEW method \in Methods
  PROVE  /\ WithEntry(r, Entry("HttpMethod", "", method)) = [r EXCEPT !.method = method]
         /\ WithEntry(r, Entry("HttpMethod", "", method)) \in Request
<1>1. WithEntry(r, Entry("HttpMethod", "", method)) = [r EXCEPT !.method = method]
  BY DEF WithEntry, Entry
<1> QED
  BY <1>1 DEF Request

LEMMA EntryOfStatus ==
  ASSUME NEW r \in Request, NEW status
  PROVE  WithEntry(r, Entry("HttpStatus", "", status)) = r
BY DEF WithEntry, Entry

\* The entries of the headers hs, after k others, which leave the request b.
FollowedBy(metadata, n, k, hs, b) ==
  /\ n = Len(metadata) /\ k \in 0 .. n /\ n - k = Len(hs)
  /\ \A i \in 1 .. k, r \in Request : WithEntry(r, metadata[i]) \in Request
  /\ \A j \in 1 .. n - k :
       /\ hs[j].value # "opaque"
       /\ metadata[k + j] = Entry("HttpHeader", hs[j].name, hs[j].value)
  /\ b = Built(metadata)[k]

\* Headers are read back in their order, after those that were there.
LEMMA HeadersAppended ==
  ASSUME NEW metadata, NEW n \in Nat, NEW k \in Nat, NEW hs \in Seq(Header), NEW b,
         FollowedBy(metadata, n, k, hs, b)
  PROVE  /\ b \in Request
         /\ BuildRequest(metadata) = [method |-> b.method, headers |-> b.headers \o hs]
<1> DEFINE g == Built(metadata)
<1>0. PICK p \in Nat : p = n - k /\ p = Len(hs)
  <2>1. k \in 0 .. n /\ n - k = Len(hs)
    BY Zenon DEF FollowedBy
  <2>2. n - k \in Nat
    BY <2>1
  <2> QED
    BY <2>1, <2>2
<1>1. \A j \in 1 .. p : /\ hs[j] \in Header /\ hs[j].value # "opaque"
                        /\ hs[j].name \in Names /\ hs[j].value \in Values
                        /\ hs[j] = [name |-> hs[j].name, value |-> hs[j].value]
                        /\ metadata[k + j] = Entry("HttpHeader", hs[j].name, hs[j].value)
  <2>1. \A j \in 1 .. p : hs[j] \in Header
    BY <1>0 DEF FollowedBy
  <2> QED
    BY <1>0, <2>1 DEF FollowedBy, Header
<1>2. \A i \in 1 .. n, r \in Request : WithEntry(r, metadata[i]) \in Request
  <2>1. ASSUME NEW i \in 1 .. n, NEW r \in Request PROVE WithEntry(r, metadata[i]) \in Request
    <3>1. CASE i \in 1 .. k
      BY <3>1 DEF FollowedBy
    <3>2. CASE i \notin 1 .. k
      <4>1. PICK j \in 1 .. p : i = k + j
        <5>1. i - k \in 1 .. p /\ i = k + (i - k)
          BY <1>0, <3>2 DEF FollowedBy
        <5> QED
          BY <5>1
      <4>2. /\ metadata[i] = Entry("HttpHeader", hs[j].name, hs[j].value)
            /\ hs[j].name \in Names /\ hs[j].value \in Values /\ hs[j].value # "opaque"
        BY <1>1, <4>1
      <4> QED
        BY <4>2, EntryOfHeader
    <3> QED
      BY <3>1, <3>2
  <2> QED
    BY <2>1
<1>3. /\ g \in [0 .. n -> Request]
      /\ \A i \in 1 .. n : g[i] = WithEntry(g[i - 1], metadata[i])
  BY <1>2, BuiltUnfold DEF FollowedBy
<1>4. BuildRequest(metadata) = g[n] /\ b = g[k]
  BY DEF BuildRequest, FollowedBy
<1> HIDE DEF g
<1>5. b \in Request /\ k \in 0 .. n
  BY <1>3, <1>4 DEF FollowedBy
<1>6. PICK m \in Nat : m = Len(b.headers) /\ b.headers \in Seq(Header)
  BY <1>5 DEF Request
<1> DEFINE Reads(j) == /\ g[k + j].method = b.method
                       /\ Len(g[k + j].headers) = m + j
                       /\ \A i \in 1 .. m : g[k + j].headers[i] = b.headers[i]
                       /\ \A i \in 1 .. j : g[k + j].headers[m + i] = hs[i]
           S == {j \in 0 .. p : Reads(j)}
<1>7. 0 .. p \subseteq S
  <2>1. 0 \in S
    BY <1>4, <1>6
  <2>2. ASSUME NEW j \in 1 .. p, j - 1 \in S PROVE j \in S
    <3>1. /\ k + j \in 1 .. n /\ (k + j) - 1 = k + (j - 1) /\ k + (j - 1) \in 0 .. n
          /\ Reads(j - 1)
      BY <1>0, <1>5, <2>2
    <3>2. PICK r \in Request : r = g[k + (j - 1)]
      BY <1>3, <3>1
    <3>3. g[k + j] = [r EXCEPT !.headers = Append(@, hs[j])]
      <4>1. g[k + j] = WithEntry(r, metadata[k + j])
        BY <1>3, <3>1, <3>2
      <4>2. /\ metadata[k + j] = Entry("HttpHeader", hs[j].name, hs[j].value)
            /\ hs[j].name \in Names /\ hs[j].value \in Values /\ hs[j].value # "opaque"
        BY <1>1
      <4>3. WithEntry(r, metadata[k + j])
              = [r EXCEPT !.headers = Append(@, [name |-> hs[j].name, value |-> hs[j].value])]
        <5>1. PICK name \in Names, value \in Values : name = hs[j].name /\ value = hs[j].value
          BY <4>2
        <5>2. WithEntry(r, Entry("HttpHeader", name, value))
                = [r EXCEPT !.headers = Append(@, [name |-> name, value |-> value])]
          <6>1. value # "opaque"
            BY <4>2, <5>1
          <6> QED
            BY <6>1, EntryOfHeader, Zenon
        <5> QED
          BY <4>2, <5>1, <5>2, Zenon
      <4>4. hs[j] = [name |-> hs[j].name, value |-> hs[j].value]
        BY <1>1
      <4> QED
        BY <4>1, <4>3, <4>4, Zenon
    <3>4. PICK old \in Seq(Header) : old = r.headers /\ r = [method |-> r.method, headers |-> old]
      BY DEF Request
    <3>5. g[k + j].method = b.method /\ g[k + j].headers = Append(old, hs[j])
      BY <3>1, <3>2, <3>3, <3>4
    <3>6. /\ Len(old) = m + (j - 1)
          /\ \A i \in 1 .. m : old[i] = b.headers[i]
          /\ \A i \in 1 .. j - 1 : old[m + i] = hs[i]
      BY <3>1, <3>2, <3>4
    <3>7. /\ Len(Append(old, hs[j])) = m + j
          /\ \A i \in 1 .. m : Append(old, hs[j])[i] = b.headers[i]
          /\ \A i \in 1 .. j : Append(old, hs[j])[m + i] = hs[i]
      <4>1. /\ Len(Append(old, hs[j])) = Len(old) + 1
            /\ \A i \in 1 .. Len(old) : Append(old, hs[j])[i] = old[i]
            /\ Append(old, hs[j])[Len(old) + 1] = hs[j]
        BY <1>1
      <4>2. ASSUME NEW i \in 1 .. j PROVE Append(old, hs[j])[m + i] = hs[i]
        <5>1. CASE i = j
          BY <3>6, <4>1, <5>1
        <5>2. CASE i # j
          <6>1. i \in 1 .. j - 1 /\ m + i \in 1 .. Len(old)
            BY <3>6, <5>2
          <6> QED
            BY <3>6, <4>1, <6>1
        <5> QED
          BY <5>1, <5>2
      <4>3. ASSUME NEW i \in 1 .. m PROVE Append(old, hs[j])[i] = b.headers[i]
        <5>1. i \in 1 .. Len(old)
          BY <3>6
        <5> QED
          BY <3>6, <4>1, <5>1, Zenon
      <4>4. Len(old) + 1 = m + j
        BY <3>6
      <4> QED
        BY <4>1, <4>2, <4>3, <4>4, Zenon
    <3>8. Reads(j)
      BY <3>5, <3>7
    <3> QED
      BY <3>8
  <2> HIDE DEF S
  <2> QED
    BY <2>1, <2>2, IntervalInduction
<1>8. Reads(p) /\ k + p = n
  <2>1. p \in 0 .. p /\ k + p = n
    BY <1>0, <1>5
  <2>2. p \in S
    <3> HIDE DEF S
    <3> QED
      BY <1>7, <2>1
  <2> QED
    BY <2>1, <2>2
<1>9. PICK r \in Request : r = g[n]
  BY <1>3
<1>10. r.headers = b.headers \o hs
  <2>1. r.headers \in Seq(Header) /\ Len(r.headers) = m + p
    BY <1>8, <1>9 DEF Request
  <2>2. b.headers \o hs \in Seq(Header) /\ Len(b.headers \o hs) = m + p
    BY <1>0, <1>6
  <2>3. ASSUME NEW i \in 1 .. m + p PROVE r.headers[i] = (b.headers \o hs)[i]
    <3>1. CASE i <= m
      <4>1. i \in 1 .. m
        BY <3>1
      <4>2. r.headers[i] = b.headers[i]
        BY <1>8, <1>9, <4>1
      <4>3. (b.headers \o hs)[i]
              = IF i <= Len(b.headers) THEN b.headers[i] ELSE hs[i - Len(b.headers)]
        BY <1>0, <1>6, ConcatProperties
      <4> QED
        BY <1>6, <3>1, <4>2, <4>3
    <3>2. CASE i > m
      <4>1. i - m \in 1 .. p /\ m + (i - m) = i
        BY <3>2
      <4>2. r.headers[m + (i - m)] = hs[i - m]
        BY <1>8, <1>9, <4>1
      <4>3. (b.headers \o hs)[i] = hs[i - m]
        <5>1. (b.headers \o hs)[i]
                = IF i <= Len(b.headers) THEN b.headers[i] ELSE hs[i - Len(b.headers)]
          BY <1>0, <1>6, ConcatProperties
        <5> QED
          BY <1>6, <3>2, <5>1
      <4> QED
        BY <4>1, <4>2, <4>3, Zenon
    <3>3. i <= m \/ i > m
      OBVIOUS
    <3> QED
      BY <3>1, <3>2, <3>3, Zenon
  <2>4. m + p \in Nat
    OBVIOUS
  <2> QED
    BY <2>1, <2>2, <2>3, <2>4, SeqEqual
<1>11. r = [method |-> r.method, headers |-> r.headers] /\ r.method = b.method
  BY <1>8, <1>9 DEF Request
<1> QED
  BY <1>4, <1>5, <1>9, <1>10, <1>11

\* Where the parts of h and t joined are.
LEMMA Parts ==
  ASSUME NEW T, NEW h \in Seq(T), NEW t \in Seq(T)
  PROVE  /\ Len(h) + Len(t) = Len(h \o t)
         /\ \A i \in 1 .. Len(h) : (h \o t)[i] = h[i]
         /\ \A j \in 1 .. Len(t) : (h \o t)[Len(h) + j] = t[j]
<1>0. PICK k \in Nat, p \in Nat : k = Len(h) /\ p = Len(t)
  OBVIOUS
<1>1. PICK s : s = h \o t
  OBVIOUS
<1>2. /\ Len(s) = k + p
      /\ \A i \in 1 .. k + p : s[i] = IF i <= k THEN h[i] ELSE t[i - k]
  BY <1>0, <1>1, ConcatProperties
<1>3. ASSUME NEW i \in 1 .. k PROVE s[i] = h[i]
  BY <1>2
<1>4. ASSUME NEW j \in 1 .. p PROVE s[k + j] = t[j]
  <2>1. k + j \in 1 .. k + p /\ ~(k + j <= k) /\ (k + j) - k = j
    OBVIOUS
  <2>2. s[k + j] = t[(k + j) - k]
    BY <1>2, <2>1
  <2> QED
    BY <2>1, <2>2, Zenon
<1> QED
  BY <1>0, <1>1, <1>2, <1>3, <1>4

\* A response over QUIC is read as all of its headers, as they are written.
LEMMA ResponseOverQuic ==
  ASSUME NEW headers \in Seq(Header), NEW status
  PROVE  /\ BuildRequest(ResponseMetadata(status, headers)).headers = Written(headers)
         /\ Written(headers) \in Seq(Header)
<1> DEFINE metadata == ResponseMetadata(status, headers)
           hs == Written(headers)
<1>0. PICK p \in Nat : p = Len(headers) /\ DOMAIN headers = 1 .. p
  OBVIOUS
<1>1. /\ hs \in Seq(Header) /\ Len(hs) = p
      /\ \A j \in 1 .. p : /\ hs[j].value # "opaque"
                           /\ hs[j].name = headers[j].name
                           /\ hs[j].value = Visible(headers[j].value)
  <2>1. \A j \in 1 .. p : headers[j] \in Header
    BY <1>0
  <2>2. \A v \in Values : Visible(v) \in Values /\ Visible(v) # "opaque"
    BY DEF Visible, Values
  <2>3. \A h \in Header : /\ [h EXCEPT !.value = Visible(@)] \in Header
                          /\ [h EXCEPT !.value = Visible(@)].value # "opaque"
                          /\ [h EXCEPT !.value = Visible(@)].value = Visible(h.value)
                          /\ [h EXCEPT !.value = Visible(@)].name = h.name
    BY <2>2 DEF Header
  <2>4. hs = [j \in 1 .. p |-> [headers[j] EXCEPT !.value = Visible(@)]]
    BY <1>0 DEF Written
  <2>5. hs \in [1 .. p -> Header]
    BY <2>1, <2>3, <2>4
  <2>6. hs \in Seq(Header) /\ Len(hs) = p
    <3> HIDE DEF hs
    <3> QED
      BY <2>5
  <2> QED
    BY <2>1, <2>3, <2>4, <2>6
<1>2. /\ 1 + p = Len(metadata)
      /\ metadata[1] = Entry("HttpStatus", "", status)
      /\ \A j \in 1 .. p :
           metadata[1 + j] = Entry("HttpHeader", headers[j].name, Visible(headers[j].value))
  <2> DEFINE tail == [i \in 1 .. p |->
                        Entry("HttpHeader", headers[i].name, Visible(headers[i].value))]
         top == <<Entry("HttpStatus", "", status)>>
  <2>1. metadata = top \o tail
    BY <1>0 DEF ResponseMetadata
  <2>2. PICK T : tail \in Seq(T) /\ top \in Seq(T)
    <3>1. PICK e : e = Entry("HttpStatus", "", status)
      OBVIOUS
    <3> DEFINE T == {tail[i] : i \in 1 .. p} \cup {e}
    <3>2. tail \in [1 .. p -> T] /\ e \in T
      OBVIOUS
    <3> HIDE DEF tail, T
    <3>3. tail \in Seq(T) /\ <<e>> \in Seq(T)
      BY <3>2
    <3> QED
      BY <3>1, <3>3
  <2>3. Len(tail) = p /\ Len(top) = 1
    OBVIOUS
  <2>4. /\ \A i \in 1 .. p :
             tail[i] = Entry("HttpHeader", headers[i].name, Visible(headers[i].value))
        /\ top[1] = Entry("HttpStatus", "", status)
    OBVIOUS
  <2> HIDE DEF tail, top, metadata
  <2>5. 1 \in Nat /\ 1 \in 1 .. 1
    OBVIOUS
  <2>6. /\ 1 + p = Len(top \o tail)
        /\ \A i \in 1 .. 1 : (top \o tail)[i] = top[i]
        /\ \A j \in 1 .. p : (top \o tail)[1 + j] = tail[j]
    <3>1. /\ Len(top) + Len(tail) = Len(top \o tail)
          /\ \A i \in 1 .. Len(top) : (top \o tail)[i] = top[i]
          /\ \A j \in 1 .. Len(tail) : (top \o tail)[Len(top) + j] = tail[j]
      BY <2>2, Parts
    <3> QED
      BY <2>3, <3>1, Zenon
  <2>7. 1 + p = Len(metadata) /\ metadata[1] = Entry("HttpStatus", "", status)
    BY <2>1, <2>4, <2>5, <2>6, Zenon
  <2>8. ASSUME NEW j \in 1 .. p
        PROVE  metadata[1 + j]
                 = Entry("HttpHeader", headers[j].name, Visible(headers[j].value))
    BY <2>1, <2>4, <2>6, Zenon
  <2> QED
    BY <2>7, <2>8, Zenon
<1> HIDE DEF metadata, hs
<1>3. FollowedBy(metadata, 1 + p, 1, hs, Built(metadata)[1])
  <2>1. \A i \in 1 .. 1, r \in Request : WithEntry(r, metadata[i]) \in Request
    <3>1. \A i \in 1 .. 1 : i = 1
      OBVIOUS
    <3> QED
      BY <1>2, <3>1, EntryOfStatus
  <2>2. \A j \in 1 .. p : /\ hs[j].value # "opaque"
                          /\ metadata[1 + j] = Entry("HttpHeader", hs[j].name, hs[j].value)
    BY <1>1, <1>2
  <2>3. 1 \in 0 .. 1 + p /\ (1 + p) - 1 = p /\ p = Len(hs)
    BY <1>1
  <2> QED
    BY <1>2, <2>1, <2>2, <2>3 DEF FollowedBy
<1>4. BuildRequest(metadata).headers = Built(metadata)[1].headers \o hs
  <2>1. 1 + p \in Nat /\ 1 \in Nat
    OBVIOUS
  <2>2. BuildRequest(metadata) = [method  |-> Built(metadata)[1].method,
                                  headers |-> Built(metadata)[1].headers \o hs]
    BY <1>1, <1>3, <2>1, HeadersAppended
  <2> QED
    BY <2>2
<1>5. Built(metadata)[1].headers = <<>>
  <2> DEFINE first == [method |-> "GET", headers |-> <<>>]
  <2>1. \A i \in 1 .. 1 + p, r \in Request : WithEntry(r, metadata[i]) \in Request
    <3>1. ASSUME NEW i \in 1 .. 1 + p, NEW r \in Request
          PROVE  WithEntry(r, metadata[i]) \in Request
      <4>1. CASE i = 1
        BY <1>2, <4>1, EntryOfStatus
      <4>2. CASE i # 1
        <5>1. i - 1 \in 1 .. p /\ 1 + (i - 1) = i
          BY <4>2
        <5>2. PICK j \in 1 .. p : i = 1 + j
          BY <5>1
        <5>3. hs[j] \in Header
          BY <1>1
        <5>4. PICK name \in Names, value \in Values : name = hs[j].name /\ value = hs[j].value
          BY <5>3 DEF Header
        <5>5. metadata[i] = Entry("HttpHeader", name, value) /\ value # "opaque"
          BY <1>1, <1>2, <5>2, <5>4
        <5>6. WithEntry(r, Entry("HttpHeader", name, value)) \in Request
          BY <5>5, EntryOfHeader, Zenon
        <5> QED
          BY <5>5, <5>6, Zenon
      <4> QED
        BY <4>1, <4>2
    <3> QED
      BY <3>1
  <2>2. /\ Built(metadata)[0] = first
        /\ \A i \in 1 .. 1 + p : Built(metadata)[i] = WithEntry(Built(metadata)[i - 1], metadata[i])
    <3>1. 1 + p \in Nat
      OBVIOUS
    <3> QED
      BY <1>2, <2>1, <3>1, BuiltUnfold
  <2>3. Built(metadata)[1] = WithEntry(first, Entry("HttpStatus", "", status))
    <3>1. 1 \in 1 .. 1 + p /\ 1 - 1 = 0
      OBVIOUS
    <3>2. Built(metadata)[1] = WithEntry(Built(metadata)[1 - 1], metadata[1])
      BY <2>2, <3>1
    <3> QED
      BY <1>2, <2>2, <3>1, <3>2
  <2>4. first \in Request
    BY DEF Request, Methods
  <2>5. Built(metadata)[1] = first
    <3> HIDE DEF first
    <3> QED
      BY <2>3, <2>4, EntryOfStatus
  <2> QED
    BY <2>5
<1>6. <<>> \o hs = hs
  BY <1>1, ConcatEmptySeq
<1> QED
  BY <1>1, <1>4, <1>5, <1>6 DEF metadata, hs

\* A response reaches the edge alike over either transport.
LEMMA ResponsesSurvive ==
  ASSUME NEW headers \in Seq(Header), NEW status
  PROVE  ResponseSurvives(status, headers)
<1> DEFINE quic == BuildRequest(ResponseMetadata(status, headers)).headers
           h2 == ResponseHeaders(status, headers)
           hs == Written(headers)
           length == Named("content-length")
<1>1. quic = hs /\ hs \in Seq(Header)
  BY ResponseOverQuic
<1>2. h2.user = Only(hs, Header \ Control) /\ h2.length = Only(hs, length)
  BY DEF ResponseHeaders
<1>3. (Header \ Control) \cap length = length
  BY DEF Control, Named
<1> HIDE DEF quic, h2, hs, length
<1>4. Only(Only(hs, Header \ Control), length) = Only(hs, (Header \ Control) \cap length)
  BY <1>1, OnlyTwice
<1>5. Only(quic, Header \ Control) = h2.user /\ h2.length = Only(h2.user, length)
  BY <1>1, <1>2, <1>3, <1>4, Zenon
<1> QED
  BY <1>5 DEF ResponseSurvives, quic, h2, length

\* A request of the edge is read as it was written.
LEMMA RequestsSurvive ==
  ASSUME NEW headers \in Seq(Header), NEW method \in Methods,
         NEW host \in Values, host # "opaque"
  PROVE  RequestSurvives(method, host, headers)
<1> DEFINE sent == Only(headers, Readable)
           metadata == RequestMetadata(method, host, sent)
           header == [name |-> "host", value |-> host]
<1>1. sent \in Seq(Header) /\ \A j \in 1 .. Len(sent) : sent[j].value # "opaque"
  <2>1. sent \in Seq(Header \cap Readable)
    BY OnlyType
  <2> HIDE DEF sent
  <2>2. sent \in Seq(Header)
    BY <2>1
  <2>3. ASSUME NEW j \in 1 .. Len(sent) PROVE sent[j].value # "opaque"
    <3>1. sent[j] \in Header \cap Readable
      BY <2>1, ElementOfSeq
    <3> QED
      BY <3>1 DEF Readable
  <2> QED
    BY <2>2, <2>3
<1>2. PICK p \in Nat : p = Len(sent) /\ DOMAIN sent = 1 .. p
  <2> HIDE DEF sent
  <2> QED
    BY <1>1
<1>3. /\ 2 + p = Len(metadata)
      /\ metadata[1] = Entry("HttpMethod", "", method)
      /\ metadata[2] = Entry("HttpHost", "", host)
      /\ \A j \in 1 .. p : metadata[2 + j] = Entry("HttpHeader", sent[j].name, sent[j].value)
  <2> DEFINE tail == [i \in 1 .. p |-> Entry("HttpHeader", sent[i].name, sent[i].value)]
             top == <<Entry("HttpMethod", "", method), Entry("HttpHost", "", host)>>
  <2>1. metadata = top \o tail
    BY <1>2 DEF RequestMetadata
  <2>2. PICK T : tail \in Seq(T) /\ top \in Seq(T)
    <3>1. PICK e, f : e = Entry("HttpMethod", "", method) /\ f = Entry("HttpHost", "", host)
      OBVIOUS
    <3> DEFINE T == {tail[i] : i \in 1 .. p} \cup {e, f}
    <3>2. tail \in [1 .. p -> T] /\ e \in T /\ f \in T
      OBVIOUS
    <3> HIDE DEF tail, T
    <3>3. tail \in Seq(T) /\ <<e, f>> \in Seq(T)
      BY <3>2
    <3> QED
      BY <3>1, <3>3
  <2>3. Len(tail) = p /\ Len(top) = 2
    OBVIOUS
  <2>4. /\ \A i \in 1 .. p : tail[i] = Entry("HttpHeader", sent[i].name, sent[i].value)
        /\ top[1] = Entry("HttpMethod", "", method) /\ top[2] = Entry("HttpHost", "", host)
    OBVIOUS
  <2> HIDE DEF tail, top, metadata, sent
  <2>5. 1 \in 1 .. 2 /\ 2 \in 1 .. 2
    OBVIOUS
  <2>6. /\ 2 + p = Len(top \o tail)
        /\ \A i \in 1 .. 2 : (top \o tail)[i] = top[i]
        /\ \A j \in 1 .. p : (top \o tail)[2 + j] = tail[j]
    <3>1. /\ Len(top) + Len(tail) = Len(top \o tail)
          /\ \A i \in 1 .. Len(top) : (top \o tail)[i] = top[i]
          /\ \A j \in 1 .. Len(tail) : (top \o tail)[Len(top) + j] = tail[j]
      BY <2>2, Parts
    <3> QED
      BY <2>3, <3>1, Zenon
  <2>7. /\ 2 + p = Len(metadata)
        /\ metadata[1] = Entry("HttpMethod", "", method)
        /\ metadata[2] = Entry("HttpHost", "", host)
    BY <2>1, <2>4, <2>5, <2>6, Zenon
  <2>8. ASSUME NEW j \in 1 .. p
        PROVE  metadata[2 + j] = Entry("HttpHeader", sent[j].name, sent[j].value)
    BY <2>1, <2>4, <2>6, Zenon
  <2> QED
    BY <2>7, <2>8, Zenon
<1> HIDE DEF metadata, sent
<1>4. \A i \in 1 .. 2, r \in Request : WithEntry(r, metadata[i]) \in Request
  <2>1. \A i \in 1 .. 2 : i = 1 \/ i = 2
    OBVIOUS
  <2>2. \A r \in Request : WithEntry(r, metadata[1]) \in Request
    BY <1>3, EntryOfMethod
  <2>3. \A r \in Request : WithEntry(r, metadata[2]) \in Request
    BY <1>3, EntryOfHost
  <2> QED
    BY <2>1, <2>2, <2>3
<1>5. FollowedBy(metadata, 2 + p, 2, sent, Built(metadata)[2])
  <2>1. 2 \in 0 .. 2 + p /\ (2 + p) - 2 = p /\ p = Len(sent)
    BY <1>2
  <2> QED
    BY <1>1, <1>2, <1>3, <1>4, <2>1 DEF FollowedBy
<1>6. BuildRequest(metadata) = [method  |-> Built(metadata)[2].method,
                                headers |-> Built(metadata)[2].headers \o sent]
  <2>1. 2 + p \in Nat /\ 2 \in Nat
    OBVIOUS
  <2> QED
    BY <1>1, <1>5, <2>1, HeadersAppended
<1>7. Built(metadata)[2] = [method |-> method, headers |-> <<header>>]
  <2> DEFINE first == [method |-> "GET", headers |-> <<>>]
             second == [method |-> method, headers |-> <<>>]
  <2>1. \A i \in 1 .. 2 + p, r \in Request : WithEntry(r, metadata[i]) \in Request
    <3>1. ASSUME NEW i \in 1 .. 2 + p, NEW r \in Request
          PROVE  WithEntry(r, metadata[i]) \in Request
      <4>1. CASE i \in 1 .. 2
        BY <1>4, <4>1
      <4>2. CASE i \notin 1 .. 2
        <5>1. i - 2 \in 1 .. p /\ 2 + (i - 2) = i
          BY <4>2
        <5>2. PICK j \in 1 .. p : i = 2 + j
          BY <5>1
        <5>3. sent[j] \in Header /\ sent[j].value # "opaque"
          BY <1>1, <1>2
        <5>4. PICK name \in Names, value \in Values : name = sent[j].name /\ value = sent[j].value
          BY <5>3 DEF Header
        <5>5. metadata[i] = Entry("HttpHeader", name, value) /\ value # "opaque"
          BY <1>3, <5>2, <5>3, <5>4
        <5>6. WithEntry(r, Entry("HttpHeader", name, value)) \in Request
          BY <5>5, EntryOfHeader, Zenon
        <5> QED
          BY <5>5, <5>6, Zenon
      <4> QED
        BY <4>1, <4>2
    <3> QED
      BY <3>1
  <2>2. /\ Built(metadata)[0] = first
        /\ \A i \in 1 .. 2 + p : Built(metadata)[i] = WithEntry(Built(metadata)[i - 1], metadata[i])
    <3>1. 2 + p \in Nat
      OBVIOUS
    <3> QED
      BY <1>3, <2>1, <3>1, BuiltUnfold
  <2>3. first \in Request /\ second \in Request
    BY DEF Request, Methods
  <2>4. 1 \in 1 .. 2 + p /\ 1 - 1 = 0 /\ 2 \in 1 .. 2 + p /\ 2 - 1 = 1
    OBVIOUS
  <2>5. Built(metadata)[1] = WithEntry(first, Entry("HttpMethod", "", method))
    <3>1. Built(metadata)[1] = WithEntry(Built(metadata)[1 - 1], metadata[1])
      BY <2>2, <2>4
    <3> QED
      BY <1>3, <2>2, <2>4, <3>1
  <2>6. Built(metadata)[1] = second
    <3>1. WithEntry(first, Entry("HttpMethod", "", method)) = [first EXCEPT !.method = method]
      <4> HIDE DEF first
      <4> QED
        BY <2>3, EntryOfMethod
    <3>2. [first EXCEPT !.method = method] = second
      OBVIOUS
    <3> QED
      BY <2>5, <3>1, <3>2, Zenon
  <2>7. Built(metadata)[2] = WithEntry(second, Entry("HttpHost", "", host))
    <3>1. Built(metadata)[2] = WithEntry(Built(metadata)[2 - 1], metadata[2])
      BY <2>2, <2>4
    <3> HIDE DEF second
    <3> QED
      BY <1>3, <2>4, <2>6, <3>1
  <2>8. WithEntry(second, Entry("HttpHost", "", host)) = [second EXCEPT !.headers = <<header>>]
    <3>1. second.headers = <<>>
      OBVIOUS
    <3> HIDE DEF second
    <3> QED
      BY <2>3, <3>1, EntryOfHost
  <2>9. [second EXCEPT !.headers = <<header>>] = [method |-> method, headers |-> <<header>>]
    OBVIOUS
  <2> QED
    BY <2>7, <2>8, <2>9, Zenon
<1>8. BuildRequest(metadata) = [method |-> method, headers |-> <<header>> \o sent]
  <2> HIDE DEF header
  <2> QED
    BY <1>6, <1>7
<1> QED
  BY <1>8 DEF RequestSurvives, metadata, sent, header

(***************************************************************************)
(* build_request, encode_response_metadata and encode_response_headers:    *)
(* with any number of headers, a response reaches the edge with the same   *)
(* headers over either transport, and a request is read as the edge wrote  *)
(* it.                                                                     *)
(***************************************************************************)
THEOREM HeadersSurvive ==
  \A headers \in Seq(Header) :
    /\ \A status \in STRING : ResponseSurvives(status, headers)
    /\ \A method \in Methods, host \in Values \ {"opaque"} :
         RequestSurvives(method, host, headers)
<1>1. ASSUME NEW headers \in Seq(Header), NEW status \in STRING
      PROVE  ResponseSurvives(status, headers)
  BY ResponsesSurvive
<1>2. ASSUME NEW headers \in Seq(Header), NEW method \in Methods, NEW host \in Values \ {"opaque"}
      PROVE  RequestSurvives(method, host, headers)
  BY RequestsSurvive
<1> QED
  BY <1>1, <1>2
=============================================================================
