------------------------ MODULE ConfigurationProofs ------------------------
(***************************************************************************)
(* Proofs about Configuration for any streams and any number of messages:  *)
(* each question is answered once and in order, whatever is applied was    *)
(* announced, a refusal reports what was applied, and pushes that do not   *)
(* overlap leave the edge, the handler and the callback agreed.            *)
(***************************************************************************)
EXTENDS Configuration, TLAPS

Working == {"updating", "announcing", "writing"}
Questions == {"update", "query", "malformed"}

\* A version some message with a configuration that parses was sent under.
Valid(version) ==
  \E s \in Streams : \E i \in DOMAIN sent[s] :
    sent[s][i].valid /\ sent[s][i].version = version

Announced(version) == \E i \in DOMAIN announced : announced[i] = version

\* What the edge has sent on a stream: a push request is read once.
ChannelOf(s) ==
  /\ Len(sent[s]) <= number
  /\ \A i \in DOMAIN sent[s] :
       /\ sent[s][i].version \in 1 .. number
       /\ sent[s][i].kind \in Kinds(transport)
       /\ sent[s][i].valid => sent[s][i].kind = "update"
  /\ transport = "H2" /\ task[s] = "reading" => read[s] = 0

\* What the task is at, and what it is about to write.
TaskOf(s) ==
  task[s] \in Working =>
    /\ read[s] > 0
    /\ Current(s).kind \in Questions
    /\ task[s] # "writing" => Current(s).kind = "update"
    /\ task[s] = "announcing" => Current(s).valid
    /\ task[s] = "writing" =>
         /\ reply[s].question = read[s]
         /\ reply[s].ok /\ Current(s).kind = "update" =>
              Current(s).valid /\ reply[s].version = Current(s).version
         /\ ~reply[s].ok => ~Current(s).valid

AnswersOf(s) ==
  /\ \A i, j \in DOMAIN replies[s] :
       i < j => replies[s][i].question < replies[s][j].question
  /\ task[s] = "reading" => Replied(s) = Asked(s)
  /\ task[s] \in Working => Replied(s) = Asked(s) \ {read[s]}
  /\ task[s] = "over" => Replied(s) \in {Asked(s), Asked(s) \ {read[s]}}

\* What an answer to a push says: an accepted version was announced; a refusal
\* of a push the edge sent after it knew of an accepted one names a version
\* that parsed.
Truthful(m, r) ==
  m.kind = "update" =>
    /\ r.ok => Announced(r.version)
    /\ ~r.ok /\ m.acked => r.version # -1
    /\ ~r.ok /\ r.version # -1 => Valid(r.version)

RepliesOf(s) ==
  /\ \A i \in DOMAIN replies[s] : Truthful(sent[s][replies[s][i].question], replies[s][i])
  /\ task[s] = "writing" => Truthful(Current(s), reply[s])

\* What is applied was announced or is about to be, it is something as soon as
\* anything was, and it parsed.
AppliedInv ==
  /\ \/ applied = -1
     \/ Announced(applied)
     \/ \E s \in Streams : task[s] = "announcing" /\ Current(s).version = applied
  /\ announced # <<>> => applied # -1
  /\ \A s \in Streams : task[s] = "announcing" => applied # -1
  /\ \A s \in Streams : \A i \in DOMAIN sent[s] : sent[s][i].acked => applied # -1
  /\ applied # -1 => Valid(applied)

\* While the edge waits for each answer: one push at most is unanswered, it is
\* newer than what was accepted, and what is applied is the last accepted
\* version or, once stored, the one of this push.
OneUnanswered ==
  \A s, u \in Streams : \A i \in Unanswered(s), j \in Unanswered(u) : s = u /\ i = j

UnansweredIsNewer ==
  \A s \in Streams : \A i \in Unanswered(s) : \A v \in Accepted : v < sent[s][i].version

AppliedIsNewest == \A v \in Accepted : v <= applied

AppliedIsKnown ==
  \/ applied \in Accepted \cup {-1}
  \/ \E s \in Streams : \E i \in Unanswered(s) :
       sent[s][i].valid /\ applied = sent[s][i].version

StoredIsApplied ==
  \A s \in Streams :
    \/ task[s] = "announcing"
    \/ task[s] = "writing" /\ reply[s].ok /\ Current(s).kind = "update"
    => applied = Current(s).version

AnnouncedIsApplied ==
  \/ announced = <<>>
  \/ Last(announced) = applied
  \/ \E s \in Streams : task[s] = "announcing"

SequentialInv ==
  ~overlapped =>
    /\ OneUnanswered
    /\ UnansweredIsNewer
    /\ AppliedIsNewest
    /\ AppliedIsKnown
    /\ StoredIsApplied
    /\ AnnouncedIsApplied

IInv ==
  /\ TypeOK
  /\ read \in [Streams -> Nat]
  /\ reply \in [Streams -> Reply \cup {NoReply}]
  /\ \A s \in Streams : ChannelOf(s) /\ TaskOf(s) /\ AnswersOf(s) /\ RepliesOf(s)
  /\ AppliedInv
  /\ SequentialInv

-----------------------------------------------------------------------------
LEMMA AppendElements ==
  ASSUME NEW S, NEW s \in Seq(S), NEW e \in S
  PROVE  /\ Append(s, e) \in Seq(S)
         /\ Len(Append(s, e)) = Len(s) + 1
         /\ \A i \in DOMAIN s : i \in DOMAIN Append(s, e) /\ Append(s, e)[i] = s[i]
         /\ \A i \in DOMAIN Append(s, e) :
              \/ i \in DOMAIN s /\ Append(s, e)[i] = s[i]
              \/ i = Len(s) + 1 /\ Append(s, e)[i] = e
         /\ Len(s) + 1 \in DOMAIN Append(s, e) /\ Append(s, e)[Len(s) + 1] = e
         /\ Len(s) \in Nat /\ DOMAIN s = 1 .. Len(s)
OBVIOUS

LEMMA LastAppended ==
  ASSUME NEW S, NEW s \in Seq(S), NEW e \in S
  PROVE  Append(s, e) # <<>> /\ Last(Append(s, e)) = e
BY DEF Last

LEMMA ElementOf == ASSUME NEW S, NEW s \in Seq(S), NEW i \in DOMAIN s PROVE s[i] \in S
OBVIOUS

\* The replies that tell the edge of an applied version.
Tells(s, i, version) ==
  /\ replies[s][i].ok /\ replies[s][i].version = version
  /\ replies[s][i].question \in Pushes(s)

LEMMA AcceptedIs ==
  /\ \A v : v \in Accepted
              <=> \E s \in Streams : \E i \in DOMAIN replies[s] : Tells(s, i, v)
  /\ \A v : v \in Accepted'
              <=> \E s \in Streams : \E i \in DOMAIN replies'[s] : Tells(s, i, v)'
BY DEF Accepted, Tells, ToSet

LEMMA UnansweredIs ==
  /\ \A s, i : i \in Unanswered(s) <=> i \in Pushes(s) /\ i \notin Replied(s)
  /\ \A s, i : i \in Unanswered(s)' <=> i \in Pushes(s)' /\ i \notin Replied(s)'
BY DEF Unanswered, Replied

LEMMA Types ==
  ASSUME IInv
  PROVE  /\ sent \in [Streams -> Seq(Message)] /\ replies \in [Streams -> Seq(Reply)]
         /\ announced \in Seq(1 .. MaxMessages) /\ applied \in Versions
         /\ number \in 0 .. MaxMessages
         /\ \A s \in Streams :
              /\ sent[s] \in Seq(Message) /\ replies[s] \in Seq(Reply)
              /\ read[s] \in Nat /\ read[s] \in 0 .. Len(sent[s])
              /\ Len(sent[s]) \in Nat /\ Len(sent[s]) <= number
              /\ DOMAIN sent[s] = 1 .. Len(sent[s])
              /\ \A i \in DOMAIN sent[s] : sent[s][i] \in Message
              /\ task[s] \in {"reading", "updating", "announcing", "writing", "over"}
              /\ task[s] \in Working => read[s] \in DOMAIN sent[s] /\ Current(s) \in Message
<1>1. /\ sent \in [Streams -> Seq(Message)] /\ replies \in [Streams -> Seq(Reply)]
      /\ announced \in Seq(1 .. MaxMessages) /\ applied \in Versions
      /\ number \in 0 .. MaxMessages /\ read \in [Streams -> Nat]
      /\ task \in [Streams ->
               {"reading", "updating", "announcing", "writing", "over"}]
      /\ \A s \in Streams : read[s] \in 0 .. Len(sent[s]) /\ ChannelOf(s) /\ TaskOf(s)
  BY DEF IInv, TypeOK
<1>2. ASSUME NEW s \in Streams
      PROVE  /\ sent[s] \in Seq(Message) /\ replies[s] \in Seq(Reply)
             /\ Len(sent[s]) \in Nat /\ DOMAIN sent[s] = 1 .. Len(sent[s])
             /\ \A i \in DOMAIN sent[s] : sent[s][i] \in Message
  BY <1>1
<1>3. ASSUME NEW s \in Streams, task[s] \in Working
      PROVE  read[s] \in DOMAIN sent[s] /\ Current(s) \in Message
  BY <1>1, <1>2, <1>3 DEF TaskOf, Current
<1> QED
  BY <1>1, <1>2, <1>3 DEF ChannelOf

\* A reply is to a message of its stream that was read.
LEMMA RepliesAreToMessages ==
  ASSUME IInv, NEW s \in Streams
  PROVE  /\ \A i \in DOMAIN replies[s] :
              replies[s][i].question \in 1 .. read[s] /\ replies[s][i].question \in DOMAIN sent[s]
         /\ Replied(s) \subseteq Asked(s)
         /\ Asked(s) \subseteq 1 .. read[s]
<1>1. AnswersOf(s) /\ task[s] \in {"reading", "updating", "announcing", "writing", "over"}
      /\ read[s] \in 0 .. Len(sent[s]) /\ DOMAIN sent[s] = 1 .. Len(sent[s])
      /\ Len(sent[s]) \in Nat
  BY Types DEF IInv
<1>2. Replied(s) \subseteq Asked(s) /\ Asked(s) \subseteq 1 .. read[s]
  BY <1>1 DEF AnswersOf, Working, Asked
<1>3. \A i \in DOMAIN replies[s] : replies[s][i].question \in Replied(s)
  BY DEF Replied, ToSet
<1> QED
  BY <1>1, <1>2, <1>3

\* What was accepted was announced.
LEMMA AcceptedTypes ==
  ASSUME IInv, NEW v \in Accepted
  PROVE  Announced(v) /\ v \in 1 .. MaxMessages /\ v \in Int
<1>1. PICK r \in Streams : \E i \in DOMAIN replies[r] : Tells(r, i, v)
  BY AcceptedIs
<1>2. PICK i \in DOMAIN replies[r] : Tells(r, i, v)
  BY <1>1
<1>3. Announced(v)
  BY <1>2 DEF Tells, Pushes, IInv, RepliesOf, Truthful
<1>4. PICK k \in DOMAIN announced : announced[k] = v
  BY <1>3 DEF Announced
<1>5. announced \in Seq(1 .. MaxMessages)
  BY Types
<1>6. announced[k] \in 1 .. MaxMessages
  BY <1>5, ElementOf
<1> QED
  BY <1>3, <1>4, <1>6

LEMMA InitInv == Init => IInv
<1> SUFFICES ASSUME Init PROVE IInv
  OBVIOUS
<1> USE DEF Init
<1>1. /\ transport \in {"QUIC", "H2"} /\ sent \in [Streams -> Seq(Message)]
      /\ number \in 0 .. MaxMessages /\ ends \in [Streams -> Ends]
      /\ \A s \in Streams : read[s] \in 0 .. Len(sent[s])
      /\ task \in [Streams ->
               {"reading", "updating", "announcing", "writing", "over"}]
      /\ replies \in [Streams -> Seq(Reply)]
  BY MessagesAssumption DEF Ends
<1>2. overlapped \in BOOLEAN
  BY Zenon
<1>3. applied \in Versions /\ announced \in Seq(1 .. MaxMessages)
  BY DEF Versions, Nothing
<1>4. TypeOK
  BY <1>1, <1>2, <1>3 DEF TypeOK
<1>5. read \in [Streams -> Nat] /\ reply \in [Streams -> Reply \cup {NoReply}]
  OBVIOUS
<1>6. \A s \in Streams : ChannelOf(s) /\ TaskOf(s) /\ RepliesOf(s)
  BY DEF ChannelOf, TaskOf, RepliesOf, Working
<1>7. \A s \in Streams : AnswersOf(s)
  BY DEF AnswersOf, Working, Replied, Asked, ToSet
<1>8. AppliedInv
  BY DEF AppliedInv, Nothing
<1>9. SequentialInv
  <2>1. \A s \in Streams : Unanswered(s) = {}
    BY DEF Unanswered, Pushes
  <2>2. Accepted = {}
    BY AcceptedIs
  <2> QED
    BY <2>1, <2>2 DEF SequentialInv, Nothing, OneUnanswered, UnansweredIsNewer,
       AppliedIsNewest, AppliedIsKnown, StoredIsApplied, AnnouncedIsApplied
<1> QED
  BY <1>4, <1>5, <1>6, <1>7, <1>8, <1>9 DEF IInv

-----------------------------------------------------------------------------
\* The edge sends a message: everything that was sent before stays where it is.
LEMMA EdgeSendsKeeps ==
  ASSUME IInv, NEW s \in Streams, NEW kind \in Kinds(transport), NEW valid \in BOOLEAN,
         EdgeSends(s, kind, valid)
  PROVE  IInv'
<1> DEFINE m == [kind |-> kind, version |-> number', valid |-> valid,
                 acked |-> Accepted # {}]
           n == Len(sent[s]) + 1
<1>1. /\ number < MaxMessages /\ number' = number + 1
      /\ sent' = [sent EXCEPT ![s] = Append(@, m)]
      /\ ends' = [ends EXCEPT ![s] = IF transport = "H2" THEN "finished" ELSE @]
      /\ valid => kind = "update"
      /\ UNCHANGED <<transport, read, task, reply, replies, applied, announced>>
  BY DEF EdgeSends, handler
<1>2. overlapped' = (overlapped \/ (kind = "update" /\ \E u \in Streams : Unanswered(u) # {}))
  BY DEF EdgeSends
<1>3. /\ sent \in [Streams -> Seq(Message)] /\ sent[s] \in Seq(Message)
      /\ number \in Nat /\ number' \in 1 .. MaxMessages /\ number' \in 0 .. MaxMessages
      /\ number <= number'
  BY <1>1, Types, MessagesAssumption
<1>4. m \in Message /\ m.kind = kind /\ m.version = number' /\ m.valid = valid
      /\ m.acked = (Accepted # {})
  <2>1. (Accepted # {}) \in BOOLEAN
    BY Zenon
  <2>2. kind \in Kinds("H2") \cup Kinds("QUIC")
    BY DEF Kinds
  <2> QED
    BY <1>3, <2>1, <2>2 DEF Message
<1> HIDE DEF m
<1>5. /\ sent' \in [Streams -> Seq(Message)]
      /\ sent'[s] = Append(sent[s], m)
      /\ \A r \in Streams \ {s} : sent'[r] = sent[r]
  BY <1>1, <1>3, <1>4, AppendElements
<1>6. /\ Len(sent'[s]) = Len(sent[s]) + 1 /\ Len(sent[s]) \in Nat
      /\ n \in DOMAIN sent'[s] /\ sent'[s][n] = m
      /\ n \notin DOMAIN sent[s]
      /\ \A i \in DOMAIN sent[s] : i \in DOMAIN sent'[s] /\ sent'[s][i] = sent[s][i]
      /\ \A i \in DOMAIN sent'[s] :
           i = n \/ (i \in DOMAIN sent[s] /\ sent'[s][i] = sent[s][i])
  BY <1>3, <1>4, <1>5, AppendElements
<1> HIDE DEF n
<1>7. \A r \in Streams :
        /\ \A i \in DOMAIN sent[r] : i \in DOMAIN sent'[r] /\ sent'[r][i] = sent[r][i]
        /\ \A i \in DOMAIN sent'[r] :
             \/ i \in DOMAIN sent[r] /\ sent'[r][i] = sent[r][i]
             \/ r = s /\ i = n /\ sent'[r][i] = m
  BY <1>5, <1>6
<1>8. TypeOK'
  <2>1. ends' \in [Streams -> Ends]
    BY <1>1 DEF IInv, TypeOK, Ends
  <2>2. overlapped' \in BOOLEAN
    BY <1>2, Zenon DEF IInv, TypeOK
  <2>3. \A r \in Streams : read[r] \in 0 .. Len(sent'[r])
    <3> SUFFICES ASSUME NEW r \in Streams PROVE read[r] \in 0 .. Len(sent'[r])
      OBVIOUS
    <3>1. read[r] \in 0 .. Len(sent[r]) /\ Len(sent[r]) \in Nat
      BY Types
    <3> QED
      BY <3>1, <1>5, <1>6
  <2> QED
    BY <1>1, <1>3, <1>5, <2>1, <2>2, <2>3 DEF IInv, TypeOK
<1>9. \A r \in Streams : ChannelOf(r)'
  <2> SUFFICES ASSUME NEW r \in Streams PROVE ChannelOf(r)'
    OBVIOUS
  <2>1. ChannelOf(r) /\ Len(sent[r]) \in Nat
    BY Types DEF IInv
  <2>2. Len(sent'[r]) <= number'
    BY <1>1, <1>3, <1>5, <1>6, <2>1 DEF ChannelOf
  <2>3. \A i \in DOMAIN sent'[r] :
          /\ sent'[r][i].version \in 1 .. number'
          /\ sent'[r][i].kind \in Kinds(transport')
          /\ sent'[r][i].valid => sent'[r][i].kind = "update"
    BY <1>1, <1>3, <1>4, <1>7, <2>1 DEF ChannelOf
  <2> QED
    BY <1>1, <2>1, <2>2, <2>3 DEF ChannelOf
<1>10. \A r \in Streams :
         /\ task[r] \in Working => Current(r)' = Current(r)
         /\ Replied(r)' = Replied(r)
         /\ \A i \in Nat : i \in Asked(r)' <=> i \in Asked(r)
  <2> SUFFICES ASSUME NEW r \in Streams
               PROVE  /\ task[r] \in Working => Current(r)' = Current(r)
                      /\ Replied(r)' = Replied(r)
                      /\ \A i \in Nat : i \in Asked(r)' <=> i \in Asked(r)
    OBVIOUS
  <2>1. /\ read[r] \in 0 .. Len(sent[r]) /\ DOMAIN sent[r] = 1 .. Len(sent[r])
        /\ Len(sent[r]) \in Nat
        /\ task[r] \in Working => read[r] \in DOMAIN sent[r]
    BY Types
  <2>2. \A i \in 1 .. read[r] : i \in DOMAIN sent[r] /\ sent'[r][i] = sent[r][i]
    BY <1>7, <2>1
  <2> QED
    BY <1>1, <1>7, <2>1, <2>2 DEF Current, Replied, Asked
<1>11. \A r \in Streams : Asked(r)' = Asked(r)
  BY <1>10 DEF Asked
<1>12. /\ \A v : Valid(v) => Valid(v)'
       /\ \A v : Announced(v)' <=> Announced(v)
       /\ \A k, r : Truthful(k, r) => Truthful(k, r)'
  <2>1. \A v : Valid(v) => Valid(v)'
    BY <1>7 DEF Valid
  <2>2. \A v : Announced(v)' <=> Announced(v)
    BY <1>1 DEF Announced
  <2> QED
    BY <2>1, <2>2 DEF Truthful
<1>13. \A r \in Streams : TaskOf(r)' /\ AnswersOf(r)'
  BY <1>1, <1>10, <1>11 DEF IInv, TaskOf, AnswersOf, Working
<1>14. \A r \in Streams : RepliesOf(r)'
  <2> SUFFICES ASSUME NEW r \in Streams PROVE RepliesOf(r)'
    OBVIOUS
  <2>1. \A i \in DOMAIN replies[r] :
          Truthful(sent[r][replies[r][i].question], replies[r][i])'
    <3> SUFFICES ASSUME NEW i \in DOMAIN replies[r]
                 PROVE  Truthful(sent[r][replies[r][i].question], replies[r][i])'
      OBVIOUS
    <3> DEFINE q == replies[r][i].question
    <3>1. q \in DOMAIN sent[r] /\ sent'[r][q] = sent[r][q]
      BY <1>7, RepliesAreToMessages
    <3>2. Truthful(sent[r][q], replies[r][i])
      BY DEF IInv, RepliesOf
    <3>3. PICK k, p : k = sent[r][q] /\ p = replies[r][i]
      OBVIOUS
    <3>4. Truthful(k, p)'
      BY <1>12, <3>2, <3>3
    <3> QED
      BY <1>1, <3>1, <3>3, <3>4
  <2>2. task[r] = "writing" => Truthful(Current(r), reply[r])'
    <3> SUFFICES ASSUME task[r] = "writing" PROVE Truthful(Current(r), reply[r])'
      OBVIOUS
    <3>1. PICK k, p : k = Current(r) /\ p = reply[r]
      OBVIOUS
    <3>2. Truthful(k, p)'
      BY <1>12, <3>1 DEF IInv, RepliesOf
    <3>3. Current(r)' = k /\ reply'[r] = p
      BY <1>1, <1>10, <3>1 DEF Working
    <3> QED
      BY <3>2, <3>3
  <2> QED
    BY <1>1, <2>1, <2>2 DEF RepliesOf
<1>15. \A r \in Streams : \A i \in Nat :
         i \in Pushes(r)' <=> i \in Pushes(r) \/ (r = s /\ i = n /\ kind = "update")
  BY <1>4, <1>6, <1>7 DEF Pushes
<1>16. Accepted' = Accepted
  <2>1. \A r \in Streams : \A i \in DOMAIN replies[r] :
          /\ replies[r][i].question \in Nat
          /\ replies[r][i].question \in Pushes(r)' <=> replies[r][i].question \in Pushes(r)
    <3> SUFFICES ASSUME NEW r \in Streams, NEW i \in DOMAIN replies[r]
                 PROVE  /\ replies[r][i].question \in Nat
                        /\ replies[r][i].question \in Pushes(r)'
                             <=> replies[r][i].question \in Pushes(r)
      OBVIOUS
    <3>1. PICK q : q = replies[r][i].question
      OBVIOUS
    <3>2. q \in DOMAIN sent[r] /\ DOMAIN sent[r] = 1 .. Len(sent[r]) /\ Len(sent[r]) \in Nat
      BY <3>1, RepliesAreToMessages, Types
    <3>3. q \in Nat /\ ~(r = s /\ q = n)
      BY <1>6, <3>2
    <3> QED
      BY <1>15, <3>1, <3>3
  <2>2. \A v : v \in Accepted' <=> v \in Accepted
    BY <1>1, <2>1, AcceptedIs DEF Tells
  <2> QED
    BY <2>2
<1>17. Accepted # {} => applied # -1
  <2> SUFFICES ASSUME NEW v \in Accepted PROVE applied # -1
    OBVIOUS
  <2>1. Announced(v)
    BY AcceptedTypes
  <2> QED
    BY <2>1 DEF Announced, IInv, AppliedInv
<1>18. AppliedInv'
  <2>1. \A r \in Streams : \A i \in DOMAIN sent'[r] : sent'[r][i].acked => applied # -1
    BY <1>4, <1>7, <1>17 DEF IInv, AppliedInv
  <2>2. \A r \in Streams : task[r] = "announcing" => Current(r)' = Current(r)
    BY <1>10 DEF Working
  <2> QED
    BY <1>1, <1>12, <2>1, <2>2 DEF IInv, AppliedInv
<1>19. SequentialInv'
  <2> SUFFICES ASSUME ~overlapped' PROVE SequentialInv'
    BY DEF SequentialInv
  <2>1. ~overlapped /\ (kind = "update" => \A u \in Streams : Unanswered(u) = {})
    BY <1>2
  <2>2. \A r \in Streams : \A i \in Unanswered(r)' :
          \/ i \in Unanswered(r) /\ i \in DOMAIN sent[r] /\ sent'[r][i] = sent[r][i]
          \/ r = s /\ i = n /\ kind = "update" /\ sent'[r][i] = m
    <3> SUFFICES ASSUME NEW r \in Streams, NEW i \in Unanswered(r)'
                 PROVE  \/ i \in Unanswered(r) /\ i \in DOMAIN sent[r] /\ sent'[r][i] = sent[r][i]
                        \/ r = s /\ i = n /\ kind = "update" /\ sent'[r][i] = m
      OBVIOUS
    <3>1. i \in Pushes(r)' /\ i \notin Replied(r)
      BY <1>10, UnansweredIs
    <3>2. i \in DOMAIN sent'[r] /\ i \in Nat
      BY <3>1, <1>5 DEF Pushes
    <3>3. CASE i \in DOMAIN sent[r] /\ sent'[r][i] = sent[r][i]
      <4>1. i \in Pushes(r)
        BY <3>1, <3>3 DEF Pushes
      <4> QED
        BY <3>1, <3>3, <4>1, UnansweredIs
    <3>4. CASE r = s /\ i = n /\ sent'[r][i] = m
      BY <3>1, <3>4, <1>4 DEF Pushes
    <3> QED
      BY <3>2, <3>3, <3>4, <1>7
  <2>3. \A r \in Streams : \A i \in Unanswered(r) :
          i \in Unanswered(r)' /\ i \in DOMAIN sent[r] /\ sent'[r][i] = sent[r][i]
    <3> SUFFICES ASSUME NEW r \in Streams, NEW i \in Unanswered(r)
                 PROVE  i \in Unanswered(r)' /\ i \in DOMAIN sent[r] /\ sent'[r][i] = sent[r][i]
      OBVIOUS
    <3>1. i \in Pushes(r) /\ i \notin Replied(r)
      BY UnansweredIs
    <3>2. i \in DOMAIN sent[r] /\ i \in Nat
      BY <3>1, Types DEF Pushes
    <3> QED
      BY <3>1, <3>2, <1>7, <1>10, <1>15, UnansweredIs
  <2>4. \A v \in Accepted : v <= number /\ v < number'
    <3> SUFFICES ASSUME NEW v \in Accepted PROVE v <= number /\ v < number'
      OBVIOUS
    <3>4. v <= applied
      BY <2>1 DEF IInv, SequentialInv, AppliedIsNewest
    <3>5. v \in Nat
      BY AcceptedTypes
    <3>6. applied <= number /\ applied \in Int
      <4>1. applied \in Int
        BY Types DEF Versions
      <4>2. CASE applied = -1
        BY <4>2, <1>3
      <4>3. CASE Valid(applied)
        BY <4>3, <1>3 DEF Valid, IInv, ChannelOf
      <4> QED
        BY <4>1, <4>2, <4>3 DEF IInv, AppliedInv
    <3> QED
      BY <3>4, <3>5, <3>6, <1>1, <1>3
  <2>5. /\ OneUnanswered /\ UnansweredIsNewer /\ AppliedIsNewest /\ AppliedIsKnown
        /\ StoredIsApplied /\ AnnouncedIsApplied
    BY <2>1 DEF IInv, SequentialInv
  <2>6. OneUnanswered'
    BY <2>1, <2>2, <2>5 DEF OneUnanswered
  <2>7. UnansweredIsNewer'
    BY <1>4, <1>16, <2>2, <2>4, <2>5 DEF UnansweredIsNewer
  <2>8. AppliedIsNewest'
    BY <1>1, <1>16, <2>5 DEF AppliedIsNewest
  <2>9. AppliedIsKnown'
    BY <1>1, <1>16, <2>3, <2>5 DEF AppliedIsKnown
  <2>10. StoredIsApplied'
    BY <1>1, <1>10, <2>5 DEF StoredIsApplied, Working
  <2>11. AnnouncedIsApplied'
    BY <1>1, <2>5 DEF AnnouncedIsApplied
  <2> QED
    BY <2>6, <2>7, <2>8, <2>9, <2>10, <2>11 DEF SequentialInv
<1> QED
  BY <1>1, <1>8, <1>9, <1>13, <1>14, <1>18, <1>19 DEF IInv

\* A step of the task of one stream, or of the edge's end of it, leaves what
\* was sent and the other streams alone.
Elsewhere(s) ==
  /\ UNCHANGED <<transport, sent, number, overlapped>>
  /\ \A r \in Streams \ {s} :
       /\ read'[r] = read[r] /\ task'[r] = task[r]
       /\ reply'[r] = reply[r] /\ replies'[r] = replies[r]

LEMMA ElsewhereKeeps ==
  ASSUME IInv, NEW s \in Streams, Elsewhere(s),
         \A v : Announced(v) => Announced(v)'
  PROVE  /\ \A r \in Streams \ {s} :
              ChannelOf(r)' /\ TaskOf(r)' /\ AnswersOf(r)' /\ RepliesOf(r)'
         /\ \A v : Valid(v)' <=> Valid(v)
         /\ \A k, p : Truthful(k, p) => Truthful(k, p)'
         /\ \A r \in Streams \ {s} : Current(r)' = Current(r)
         /\ \A r \in Streams : Pushes(r)' = Pushes(r)
<1>1. \A v : Valid(v)' <=> Valid(v)
  BY DEF Elsewhere, Valid
<1>2. \A k, p : Truthful(k, p) => Truthful(k, p)'
  BY <1>1 DEF Truthful
<1>3. \A r \in Streams : Pushes(r)' = Pushes(r)
  BY DEF Elsewhere, Pushes
<1>4. ASSUME NEW r \in Streams \ {s}
      PROVE  /\ ChannelOf(r)' /\ TaskOf(r)' /\ AnswersOf(r)' /\ RepliesOf(r)'
             /\ Current(r)' = Current(r)
  <2>1. /\ UNCHANGED <<transport, sent, number>>
        /\ read'[r] = read[r] /\ task'[r] = task[r]
        /\ reply'[r] = reply[r] /\ replies'[r] = replies[r]
    BY DEF Elsewhere
  <2>2. ChannelOf(r) /\ TaskOf(r) /\ AnswersOf(r) /\ RepliesOf(r)
    BY DEF IInv
  <2>3. Current(r)' = Current(r)
    BY <2>1 DEF Current
  <2>4. ChannelOf(r)'
    BY <2>1, <2>2 DEF ChannelOf
  <2>5. TaskOf(r)'
    BY <2>1, <2>2, <2>3 DEF TaskOf
  <2>6. Replied(r)' = Replied(r) /\ Asked(r)' = Asked(r)
    BY <2>1 DEF Replied, Asked
  <2>7. AnswersOf(r)'
    BY <2>1, <2>2, <2>6 DEF AnswersOf
  <2>8. \A i \in DOMAIN replies[r] :
          Truthful(sent[r][replies[r][i].question], replies[r][i])'
    <3> SUFFICES ASSUME NEW i \in DOMAIN replies[r]
                 PROVE  Truthful(sent[r][replies[r][i].question], replies[r][i])'
      OBVIOUS
    <3>1. PICK k, p : k = sent[r][replies[r][i].question] /\ p = replies[r][i]
      OBVIOUS
    <3>2. Truthful(k, p)'
      BY <1>2, <2>2, <3>1 DEF RepliesOf
    <3> QED
      BY <2>1, <3>1, <3>2
  <2>9. task[r] = "writing" => Truthful(Current(r), reply[r])'
    <3> SUFFICES ASSUME task[r] = "writing" PROVE Truthful(Current(r), reply[r])'
      OBVIOUS
    <3>1. PICK k, p : k = Current(r) /\ p = reply[r]
      OBVIOUS
    <3>2. Truthful(k, p)'
      BY <1>2, <2>2, <3>1 DEF RepliesOf
    <3> QED
      BY <2>1, <2>3, <3>1, <3>2
  <2>10. RepliesOf(r)'
    BY <2>1, <2>8, <2>9 DEF RepliesOf
  <2> QED
    BY <2>3, <2>4, <2>5, <2>7, <2>10
<1> QED
  BY <1>1, <1>2, <1>3, <1>4

\* A step that writes no reply changes nothing for the edge.
LEMMA Quiet ==
  ASSUME IInv, NEW s \in Streams, Elsewhere(s), replies' = replies,
         \A v : Announced(v) => Announced(v)'
  PROVE  /\ Accepted' = Accepted
         /\ \A r \in Streams : Unanswered(r)' = Unanswered(r) /\ Replied(r)' = Replied(r)
         /\ \A i \in DOMAIN replies[s] :
              Truthful(sent[s][replies[s][i].question], replies[s][i])'
         /\ ~overlapped => OneUnanswered' /\ UnansweredIsNewer'
<1>1. \A r \in Streams : Pushes(r)' = Pushes(r)
  BY ElsewhereKeeps
<1>2. \A r \in Streams : Replied(r)' = Replied(r) /\ Unanswered(r)' = Unanswered(r)
  BY <1>1 DEF Replied, Unanswered
<1>3. Accepted' = Accepted
  <2>1. \A v : v \in Accepted' <=> v \in Accepted
    BY <1>1, AcceptedIs DEF Tells
  <2> QED
    BY <2>1
<1>4. ASSUME NEW i \in DOMAIN replies[s]
      PROVE  Truthful(sent[s][replies[s][i].question], replies[s][i])'
  <2>1. PICK k, p : k = sent[s][replies[s][i].question] /\ p = replies[s][i]
    OBVIOUS
  <2>2. Truthful(k, p)'
    BY ElsewhereKeeps, <2>1 DEF IInv, RepliesOf
  <2> QED
    BY <2>1, <2>2 DEF Elsewhere
<1>5. ~overlapped => OneUnanswered' /\ UnansweredIsNewer'
  <2> SUFFICES ASSUME ~overlapped PROVE OneUnanswered' /\ UnansweredIsNewer'
    OBVIOUS
  <2>1. OneUnanswered /\ UnansweredIsNewer
    BY DEF IInv, SequentialInv
  <2>2. sent' = sent
    BY DEF Elsewhere
  <2>3. OneUnanswered'
    BY <1>2, <2>1 DEF OneUnanswered
  <2>4. UnansweredIsNewer'
    BY <1>2, <1>3, <2>1, <2>2 DEF UnansweredIsNewer
  <2> QED
    BY <2>3, <2>4
<1> QED
  BY <1>2, <1>3, <1>4, <1>5

\* A push under work is one of the unanswered ones.
LEMMA WorkIsUnanswered ==
  ASSUME IInv, NEW s \in Streams, task[s] \in Working
  PROVE  /\ read[s] \notin Replied(s) /\ read[s] \in Asked(s)
         /\ Current(s).kind = "update" => read[s] \in Unanswered(s)
<1>1. /\ read[s] \in DOMAIN sent[s] /\ read[s] \in Nat /\ read[s] > 0
      /\ Current(s).kind \in Questions /\ Replied(s) = Asked(s) \ {read[s]}
  BY Types DEF IInv, TaskOf, AnswersOf
<1>2. read[s] \in Asked(s)
  BY <1>1 DEF Asked, Current, Questions
<1> QED
  BY <1>1, <1>2, UnansweredIs DEF Pushes, Current

\* The edge ends a stream, which changes nothing that was said on it.
LEMMA EdgeEndsKeeps ==
  ASSUME IInv, NEW s \in Streams, NEW how \in Ends, EdgeEnds(s, how)
  PROVE  IInv'
<1>1. /\ ends' \in [Streams -> Ends]
      /\ UNCHANGED <<transport, sent, number, read, task, reply, replies, applied, announced,
                     overlapped>>
  BY DEF EdgeEnds, IInv, TypeOK, handler
<1>2. TypeOK'
  BY <1>1 DEF IInv, TypeOK
<1>3. \A r \in Streams : ChannelOf(r)' /\ TaskOf(r)' /\ AnswersOf(r)'
  BY <1>1 DEF IInv, ChannelOf, TaskOf, Current, AnswersOf, Replied, Asked
<1>4. \A r \in Streams : RepliesOf(r)'
  BY <1>1 DEF IInv, RepliesOf, Current, Truthful, Announced, Valid
<1>5. AppliedInv'
  BY <1>1 DEF IInv, AppliedInv, Current, Announced, Valid
<1>6. SequentialInv'
  <2> SUFFICES ASSUME ~overlapped' PROVE SequentialInv'
    BY DEF SequentialInv
  <2>1. /\ OneUnanswered /\ UnansweredIsNewer /\ AppliedIsNewest /\ AppliedIsKnown
        /\ StoredIsApplied /\ AnnouncedIsApplied
    BY <1>1 DEF IInv, SequentialInv
  <2>2. Elsewhere(s) /\ replies' = replies /\ \A v : Announced(v) => Announced(v)'
    BY <1>1 DEF Elsewhere, Announced
  <2>3. /\ Accepted' = Accepted /\ \A r \in Streams : Unanswered(r)' = Unanswered(r)
        /\ OneUnanswered' /\ UnansweredIsNewer'
    BY <1>1, <2>2, Quiet
  <2>4. AppliedIsNewest' /\ AppliedIsKnown'
    BY <1>1, <2>1, <2>3 DEF AppliedIsNewest, AppliedIsKnown
  <2>5. StoredIsApplied' /\ AnnouncedIsApplied'
    BY <1>1, <2>1 DEF StoredIsApplied, AnnouncedIsApplied, Current
  <2> QED
    BY <2>3, <2>4, <2>5 DEF SequentialInv
<1> QED
  BY <1>1, <1>2, <1>3, <1>4, <1>5, <1>6 DEF IInv

-----------------------------------------------------------------------------
\* A task reads its next message, from either kind of stream: what it does with
\* it depends on its kind.
ReadsNext(s, m) ==
  /\ task[s] = "reading" /\ read[s] + 1 \in DOMAIN sent[s]
  /\ m = sent[s][read[s] + 1]
  /\ read' = [read EXCEPT ![s] = read[s] + 1]
  /\ \/ m.kind = "update" /\ Continue(s, "updating") /\ UNCHANGED reply
     \/ /\ m.kind \in {"query", "malformed"}
        /\ \E ok \in BOOLEAN :
             /\ ok => m.kind = "query"
             /\ Prepare(s, [question |-> read[s] + 1, ok |-> ok, version |-> Nothing])
     \/ transport = "QUIC" /\ m.kind = "note" /\ UNCHANGED <<task, reply>>
  /\ UNCHANGED <<channel, replies, handler>>

LEMMA ReadingIsNext ==
  ASSUME IInv, NEW s \in Streams, ReadMessage(s) \/ ReadPush(s)
  PROVE  ReadsNext(s, sent[s][read[s] + 1])
<1> DEFINE m == sent[s][read[s] + 1]
<1>1. /\ DOMAIN sent[s] = 1 .. Len(sent[s]) /\ Len(sent[s]) \in Nat
      /\ read[s] \in Nat /\ sent[s] \in Seq(Message)
  BY Types
<1>2. CASE ReadMessage(s)
  <2>1. /\ transport = "QUIC" /\ task[s] = "reading" /\ read[s] + 1 \in DOMAIN sent[s]
        /\ read' = [read EXCEPT ![s] = read[s] + 1]
        /\ UNCHANGED <<channel, replies, handler>>
    BY <1>1, <1>2 DEF ReadMessage
  <2>2. \/ m.kind = "update" /\ Continue(s, "updating") /\ UNCHANGED reply
        \/ /\ m.kind = "query"
           /\ Prepare(s, [question |-> read[s] + 1, ok |-> TRUE, version |-> Nothing])
        \/ m.kind = "note" /\ UNCHANGED <<task, reply>>
    BY <1>2 DEF ReadMessage, NeedsReply
  <2> HIDE DEF m
  <2>3. m.kind = "query" /\ Prepare(s, [question |-> read[s] + 1, ok |-> TRUE, version |-> Nothing])
          => \E ok \in BOOLEAN :
               /\ ok => m.kind = "query"
               /\ Prepare(s, [question |-> read[s] + 1, ok |-> ok, version |-> Nothing])
    BY Zenon
  <2> QED
    BY <2>1, <2>2, <2>3 DEF ReadsNext, m
<1>3. CASE ReadPush(s)
  <2>1. transport = "H2" /\ task[s] = "reading" /\ sent[s] # <<>> /\ read' = [read EXCEPT ![s] = 1]
        /\ UNCHANGED <<channel, replies, handler>>
    BY <1>3 DEF ReadPush
  <2>2. read[s] = 0
    BY <2>1 DEF IInv, ChannelOf
  <2>3. 1 \in DOMAIN sent[s] /\ Head(sent[s]) = sent[s][1] /\ read[s] + 1 = 1
    BY <1>1, <2>1, <2>2
  <2>4. m.kind \in {"update", "malformed"}
    BY <2>1, <2>3 DEF IInv, ChannelOf, Kinds
  <2>5. \/ m.kind = "update" /\ Continue(s, "updating") /\ UNCHANGED reply
        \/ /\ m.kind = "malformed"
           /\ Prepare(s, [question |-> read[s] + 1, ok |-> FALSE, version |-> Nothing])
    BY <1>3, <2>3, <2>4 DEF ReadPush
  <2> HIDE DEF m
  <2>6. m.kind = "malformed"
        /\ Prepare(s, [question |-> read[s] + 1, ok |-> FALSE, version |-> Nothing])
          => \E ok \in BOOLEAN :
               /\ ok => m.kind = "query"
               /\ Prepare(s, [question |-> read[s] + 1, ok |-> ok, version |-> Nothing])
    BY Zenon
  <2>7. read' = [read EXCEPT ![s] = read[s] + 1]
    BY <2>1, <2>3
  <2> QED
    BY <2>1, <2>3, <2>5, <2>6, <2>7 DEF ReadsNext, m
<1> QED
  BY <1>2, <1>3

LEMMA ReadsNextKeeps ==
  ASSUME IInv, NEW s \in Streams, NEW m, ReadsNext(s, m)
  PROVE  IInv'
<1>1. /\ task[s] = "reading" /\ read[s] + 1 \in DOMAIN sent[s] /\ m = sent[s][read[s] + 1]
      /\ read' = [read EXCEPT ![s] = read[s] + 1]
      /\ UNCHANGED <<transport, sent, number, ends, overlapped, replies, applied, announced>>
  BY DEF ReadsNext, channel, handler
<1>2. /\ read[s] \in Nat /\ read \in [Streams -> Nat] /\ DOMAIN sent[s] = 1 .. Len(sent[s])
      /\ task \in [Streams -> {"reading", "updating", "announcing", "writing", "over"}]
      /\ reply \in [Streams -> Reply \cup {NoReply}] /\ Len(sent[s]) \in Nat
      /\ Len(sent[s]) <= MaxMessages
  BY Types, MessagesAssumption DEF IInv, TypeOK
<1>3. /\ read' \in [Streams -> Nat] /\ read'[s] = read[s] + 1 /\ Current(s)' = m
      /\ \A r \in Streams \ {s} : read'[r] = read[r]
      /\ \A r \in Streams : read'[r] \in 0 .. Len(sent[r])
  BY <1>1, <1>2, Types DEF Current
<1>4. /\ task' \in [Streams -> {"reading", "updating", "announcing", "writing", "over"}]
      /\ reply' \in [Streams -> Reply \cup {NoReply}]
      /\ \A r \in Streams \ {s} : task'[r] = task[r] /\ reply'[r] = reply[r]
      /\ \/ m.kind = "update" /\ task'[s] = "updating"
         \/ /\ m.kind \in {"query", "malformed"} /\ task'[s] = "writing"
            /\ reply'[s] \in Reply
            /\ reply'[s].question = read'[s] /\ (reply'[s].ok => m.kind = "query")
         \/ transport = "QUIC" /\ m.kind = "note" /\ task'[s] = "reading"
  <2>1. CASE m.kind = "update" /\ Continue(s, "updating") /\ UNCHANGED reply
    BY <2>1, <1>2 DEF Continue
  <2>2. CASE transport = "QUIC" /\ m.kind = "note" /\ UNCHANGED <<task, reply>>
    BY <2>2, <1>1, <1>2
  <2>3. ASSUME NEW ok \in BOOLEAN, ok => m.kind = "query", m.kind \in {"query", "malformed"},
               Prepare(s, [question |-> read[s] + 1, ok |-> ok, version |-> Nothing])
        PROVE  /\ task' \in [Streams -> {"reading", "updating", "announcing", "writing", "over"}]
               /\ reply' \in [Streams -> Reply \cup {NoReply}]
               /\ \A r \in Streams \ {s} : task'[r] = task[r] /\ reply'[r] = reply[r]
               /\ m.kind \in {"query", "malformed"} /\ task'[s] = "writing"
               /\ reply'[s] \in Reply
               /\ reply'[s].question = read'[s] /\ (reply'[s].ok => m.kind = "query")
    <3> DEFINE p == [question |-> read[s] + 1, ok |-> ok, version |-> Nothing]
    <3>1. p \in Reply /\ p.question = read[s] + 1 /\ p.ok = ok
      <4>1. read[s] + 1 \in 1 .. MaxMessages /\ Nothing \in Versions
        BY <1>1, <1>2, MessagesAssumption DEF Versions, Nothing
      <4> QED
        BY <4>1 DEF Reply
    <3>2. reply' = [reply EXCEPT ![s] = p] /\ task' = [task EXCEPT ![s] = "writing"]
      BY <2>3 DEF Prepare, Continue
    <3> HIDE DEF p
    <3>3. reply'[s] = p /\ reply' \in [Streams -> Reply \cup {NoReply}]
      BY <3>1, <3>2, <1>2
    <3> QED
      BY <3>1, <3>2, <3>3, <2>3, <1>2, <1>3
  <2> QED
    BY <2>1, <2>2, <2>3 DEF ReadsNext
<1>5. Elsewhere(s) /\ \A v : Announced(v) => Announced(v)'
  BY <1>1, <1>3, <1>4 DEF Elsewhere, Announced
<1>6. TypeOK'
  <2>1. \A r \in Streams : task'[r] = "writing" => reply'[r] \in Reply
    BY <1>1, <1>3, <1>4 DEF IInv, TypeOK
  <2> QED
    BY <1>1, <1>3, <1>4, <2>1 DEF IInv, TypeOK
<1>7. ChannelOf(s)' /\ TaskOf(s)'
  <2>1. ChannelOf(s)'
    BY <1>1, <1>3, <1>4 DEF IInv, ChannelOf
  <2>2. m.kind \in {"query", "malformed"} => ~m.valid
    BY <1>1 DEF IInv, ChannelOf
  <2>3. TaskOf(s)'
    BY <1>1, <1>2, <1>3, <1>4, <2>2 DEF TaskOf, Working, Questions
  <2> QED
    BY <2>1, <2>3
<1>8. AnswersOf(s)'
  <2>1. AnswersOf(s) /\ Replied(s) = Asked(s)
    BY <1>1 DEF IInv, AnswersOf
  <2>2. Replied(s)' = Replied(s)
    BY <1>1 DEF Replied
  <2>3. \A i \in Nat : i \in Asked(s)' <=> i \in Asked(s) \/ (i = read'[s] /\ m.kind \in Questions)
    BY <1>1, <1>2, <1>3 DEF Asked, Questions
  <2>4. Asked(s) \subseteq Nat /\ Asked(s)' \subseteq Nat /\ read'[s] \notin Asked(s)
    BY <1>2, <1>3 DEF Asked
  <2>5. CASE m.kind \in Questions
    <3>1. Replied(s)' = Asked(s)' \ {read'[s]}
      BY <2>1, <2>2, <2>3, <2>4, <2>5
    <3>2. task'[s] \in {"updating", "writing"}
      BY <1>4, <2>5 DEF Questions
    <3> QED
      BY <1>1, <2>1, <3>1, <3>2 DEF AnswersOf
  <2>6. CASE m.kind \notin Questions
    <3>1. Replied(s)' = Asked(s)'
      BY <2>1, <2>2, <2>3, <2>4, <2>6
    <3>2. task'[s] = "reading"
      BY <1>4, <2>6 DEF Questions
    <3> QED
      BY <1>1, <2>1, <3>1, <3>2 DEF AnswersOf, Working
  <2> QED
    BY <2>5, <2>6
<1>9. RepliesOf(s)'
  <2>1. task'[s] = "writing" => Truthful(Current(s), reply[s])'
    BY <1>3, <1>4 DEF Truthful
  <2> QED
    BY <1>1, <1>5, <2>1, Quiet DEF RepliesOf
<1>10. AppliedInv'
  <2>1. \A r \in Streams : task'[r] = "announcing" <=> task[r] = "announcing"
    BY <1>1, <1>4
  <2>2. \A r \in Streams : task[r] = "announcing" => Current(r)' = Current(r)
    BY <1>1, <1>5, ElsewhereKeeps
  <2> QED
    BY <1>1, <1>5, <2>1, <2>2, ElsewhereKeeps DEF IInv, AppliedInv
<1>11. SequentialInv'
  <2> SUFFICES ASSUME ~overlapped' PROVE SequentialInv'
    BY DEF SequentialInv
  <2>1. /\ OneUnanswered /\ UnansweredIsNewer /\ AppliedIsNewest /\ AppliedIsKnown
        /\ StoredIsApplied /\ AnnouncedIsApplied
    BY <1>1 DEF IInv, SequentialInv
  <2>2. /\ Accepted' = Accepted /\ \A r \in Streams : Unanswered(r)' = Unanswered(r)
        /\ OneUnanswered' /\ UnansweredIsNewer'
    BY <1>1, <1>5, Quiet
  <2>3. AppliedIsNewest' /\ AppliedIsKnown'
    BY <1>1, <2>1, <2>2 DEF AppliedIsNewest, AppliedIsKnown
  <2>4. StoredIsApplied'
    BY <1>1, <1>3, <1>4, <1>5, <2>1, ElsewhereKeeps DEF StoredIsApplied
  <2>5. AnnouncedIsApplied'
    BY <1>1, <1>4, <2>1 DEF AnnouncedIsApplied
  <2> QED
    BY <2>2, <2>3, <2>4, <2>5 DEF SequentialInv
<1> QED
  BY <1>3, <1>4, <1>5, <1>6, <1>7, <1>8, <1>9, <1>10, <1>11, ElsewhereKeeps DEF IInv

-----------------------------------------------------------------------------
\* The facts about a push under work in the handler.
LEMMA InHandler ==
  ASSUME IInv, NEW s \in Streams, task[s] \in {"updating", "announcing"}
  PROVE  /\ read[s] \in DOMAIN sent[s] /\ read[s] \in 1 .. MaxMessages
         /\ Current(s).kind = "update" /\ Current(s) \in Message
         /\ Current(s).version \in 1 .. MaxMessages
         /\ Current(s).valid \in BOOLEAN
         /\ read[s] \in Unanswered(s)
<1>1. task[s] \in Working
  BY DEF Working
<1>2. /\ read[s] \in DOMAIN sent[s] /\ Current(s) \in Message /\ read[s] > 0
      /\ Current(s).kind = "update" /\ DOMAIN sent[s] = 1 .. Len(sent[s])
      /\ Len(sent[s]) \in Nat /\ Len(sent[s]) <= number /\ number \in 0 .. MaxMessages
  BY <1>1, Types DEF IInv, TaskOf
<1>3. Current(s).version \in 1 .. number
  BY <1>2 DEF IInv, ChannelOf, Current
<1>4. Current(s).valid \in BOOLEAN
  BY <1>2, Zenon DEF Message
<1> QED
  BY <1>1, <1>2, <1>3, <1>4, WorkIsUnanswered, MessagesAssumption

\* update_configuration stores the version of a push that parsed.
LEMMA StoreKeeps ==
  ASSUME IInv, NEW s \in Streams, Store(s)
  PROVE  IInv'
<1>1. /\ task[s] = "updating" /\ Current(s).valid /\ applied' = Current(s).version
      /\ task' = [task EXCEPT ![s] = "announcing"]
      /\ UNCHANGED <<transport, sent, number, ends, overlapped, read, reply, replies, announced>>
  BY DEF Store, channel, Continue
<1>2. /\ task' \in [Streams -> {"reading", "updating", "announcing", "writing", "over"}]
      /\ task'[s] = "announcing" /\ \A r \in Streams \ {s} : task'[r] = task[r]
  BY <1>1 DEF IInv, TypeOK
<1>3. /\ read[s] \in DOMAIN sent[s] /\ Current(s).kind = "update"
      /\ Current(s).version \in 1 .. MaxMessages /\ read[s] \in Unanswered(s)
  BY <1>1, InHandler
<1>4. Elsewhere(s) /\ \A v : Announced(v) => Announced(v)'
  BY <1>1, <1>2 DEF Elsewhere, Announced
<1>5. \A r \in Streams : Current(r)' = Current(r)
  BY <1>1 DEF Current
<1>6. TypeOK'
  <2>1. applied' \in Versions
    BY <1>1, <1>3 DEF Versions
  <2> QED
    BY <1>1, <1>2, <2>1 DEF IInv, TypeOK
<1>7. ChannelOf(s)' /\ TaskOf(s)' /\ AnswersOf(s)' /\ RepliesOf(s)'
  <2>1. ChannelOf(s)'
    BY <1>1, <1>2 DEF IInv, ChannelOf
  <2>2. TaskOf(s)'
    BY <1>1, <1>2, <1>5 DEF IInv, TaskOf, Working
  <2>3. Replied(s)' = Replied(s) /\ Asked(s)' = Asked(s)
    BY <1>1 DEF Replied, Asked
  <2>4. AnswersOf(s)'
    BY <1>1, <1>2, <2>3 DEF IInv, AnswersOf, Working
  <2>5. RepliesOf(s)'
    BY <1>1, <1>2, <1>4, Quiet DEF RepliesOf
  <2> QED
    BY <2>1, <2>2, <2>4, <2>5
<1>8. AppliedInv'
  <2>1. applied' # -1
    BY <1>1, <1>3
  <2>2. Valid(applied')
    BY <1>1, <1>3 DEF Valid, Current
  <2>3. PICK v : v = applied'
    OBVIOUS
  <2>4. Valid(v)'
    BY <1>4, <2>2, <2>3, ElsewhereKeeps
  <2> QED
    BY <1>1, <1>2, <1>5, <2>1, <2>3, <2>4 DEF AppliedInv
<1>9. SequentialInv'
  <2> SUFFICES ASSUME ~overlapped' PROVE SequentialInv'
    BY DEF SequentialInv
  <2>1. OneUnanswered /\ UnansweredIsNewer /\ StoredIsApplied
    BY <1>1 DEF IInv, SequentialInv
  <2>2. /\ Accepted' = Accepted /\ \A r \in Streams : Unanswered(r)' = Unanswered(r)
        /\ OneUnanswered' /\ UnansweredIsNewer'
    BY <1>1, <1>4, Quiet
  <2>3. \A v \in Accepted : v < applied'
    BY <1>1, <1>3, <2>1 DEF UnansweredIsNewer, Current
  <2>4. AppliedIsNewest'
    <3> SUFFICES ASSUME NEW v \in Accepted PROVE v <= applied'
      BY <2>2 DEF AppliedIsNewest
    <3>1. v < applied' /\ applied' \in Int
      BY <1>1, <1>3, <2>3
    <3>2. v \in Int
      BY AcceptedTypes
    <3> QED
      BY <3>1, <3>2
  <2>5. AppliedIsKnown'
    BY <1>1, <1>3, <2>2 DEF AppliedIsKnown, Current
  <2>6. StoredIsApplied'
    <3> SUFFICES ASSUME NEW r \in Streams,
                        \/ task'[r] = "announcing"
                        \/ task'[r] = "writing" /\ reply'[r].ok /\ Current(r)'.kind = "update"
                 PROVE  applied' = Current(r)'.version
      BY DEF StoredIsApplied
    <3>1. CASE r = s
      BY <1>1, <1>5, <3>1
    <3>2. CASE r # s
      <4>1. task[r] \in Working /\ Current(r).kind = "update"
        BY <1>1, <1>2, <1>5, <3>2, InHandler DEF Working
      <4>2. read[r] \in Unanswered(r)
        BY <4>1, WorkIsUnanswered
      <4> QED
        BY <1>3, <2>1, <3>2, <4>2 DEF OneUnanswered
    <3> QED
      BY <3>1, <3>2
  <2>7. AnnouncedIsApplied'
    BY <1>2 DEF AnnouncedIsApplied
  <2> QED
    BY <2>2, <2>4, <2>5, <2>6, <2>7 DEF SequentialInv
<1> QED
  BY <1>1, <1>4, <1>6, <1>7, <1>8, <1>9, ElsewhereKeeps DEF IInv

\* on_configuration is called with the version that was stored.
LEMMA AnnounceKeeps ==
  ASSUME IInv, NEW s \in Streams, Announce(s)
  PROVE  IInv'
<1> DEFINE p == [question |-> read[s], ok |-> TRUE, version |-> Current(s).version]
<1>1. /\ task[s] = "announcing" /\ announced' = Append(announced, Current(s).version)
      /\ reply' = [reply EXCEPT ![s] = p] /\ task' = [task EXCEPT ![s] = "writing"]
      /\ UNCHANGED <<transport, sent, number, ends, overlapped, read, replies, applied>>
  BY DEF Announce, channel, Prepare, Continue
<1>2. /\ read[s] \in DOMAIN sent[s] /\ Current(s).kind = "update" /\ read[s] \in 1 .. MaxMessages
      /\ Current(s).version \in 1 .. MaxMessages /\ read[s] \in Unanswered(s) /\ Current(s).valid
  BY <1>1, InHandler DEF IInv, TaskOf, Working
<1>3. p \in Reply /\ p.question = read[s] /\ p.ok /\ p.version = Current(s).version
  BY <1>2 DEF Reply, Versions
<1> HIDE DEF p
<1>4. /\ task' \in [Streams -> {"reading", "updating", "announcing", "writing", "over"}]
      /\ reply' \in [Streams -> Reply \cup {NoReply}]
      /\ task'[s] = "writing" /\ reply'[s] = p
      /\ \A r \in Streams \ {s} : task'[r] = task[r] /\ reply'[r] = reply[r]
  BY <1>1, <1>3 DEF IInv, TypeOK
<1>5. /\ announced' \in Seq(1 .. MaxMessages) /\ announced' # <<>>
      /\ Last(announced') = Current(s).version
      /\ \A v : Announced(v) => Announced(v)'
      /\ \E i \in DOMAIN announced' : announced'[i] = Current(s).version
  <2>1. announced \in Seq(1 .. MaxMessages)
    BY Types
  <2>2. announced' \in Seq(1 .. MaxMessages) /\ announced' # <<>>
        /\ Last(announced') = Current(s).version
    <3> DEFINE S == 1 .. MaxMessages
    <3>1. announced \in Seq(S) /\ Current(s).version \in S
      BY <1>2, <2>1
    <3> HIDE DEF S
    <3>2. announced' \in Seq(S)
      BY <1>1, <3>1, AppendElements
    <3>3. announced' # <<>> /\ Last(announced') = Current(s).version
      BY <1>1, <3>1, LastAppended
    <3> QED
      BY <3>2, <3>3 DEF S
  <2>3. /\ \A i \in DOMAIN announced : i \in DOMAIN announced' /\ announced'[i] = announced[i]
        /\ Len(announced) + 1 \in DOMAIN announced'
        /\ announced'[Len(announced) + 1] = Current(s).version
    BY <1>1, <1>2, <2>1, AppendElements
  <2> QED
    BY <2>2, <2>3 DEF Announced
<1>6. Elsewhere(s)
  BY <1>1, <1>4 DEF Elsewhere
<1>7. \A r \in Streams : Current(r)' = Current(r)
  BY <1>1 DEF Current
<1>8. TypeOK'
  <2>1. \A r \in Streams : task'[r] = "writing" => reply'[r] \in Reply
    BY <1>3, <1>4 DEF IInv, TypeOK
  <2> QED
    BY <1>1, <1>4, <1>5, <2>1 DEF IInv, TypeOK
<1>9. ChannelOf(s)' /\ TaskOf(s)' /\ AnswersOf(s)' /\ RepliesOf(s)'
  <2>1. ChannelOf(s)'
    BY <1>1, <1>4 DEF IInv, ChannelOf
  <2>2. TaskOf(s)'
    BY <1>1, <1>2, <1>3, <1>4, <1>7 DEF IInv, TaskOf, Working
  <2>3. Replied(s)' = Replied(s) /\ Asked(s)' = Asked(s)
    BY <1>1 DEF Replied, Asked
  <2>4. AnswersOf(s)'
    BY <1>1, <1>4, <2>3 DEF IInv, AnswersOf, Working
  <2>5. Truthful(Current(s), reply[s])'
    BY <1>3, <1>4, <1>5, <1>7 DEF Truthful, Announced
  <2>6. RepliesOf(s)'
    BY <1>1, <1>5, <1>6, <2>5, Quiet DEF RepliesOf
  <2> QED
    BY <2>1, <2>2, <2>4, <2>6
<1>10. AppliedInv'
  <2>1. \/ applied = -1
        \/ Announced(applied)'
        \/ \E r \in Streams : task'[r] = "announcing" /\ Current(r)'.version = applied
    <3>1. PICK v : v = applied
      OBVIOUS
    <3>2. CASE Announced(v)
      BY <1>1, <1>5, <3>1, <3>2
    <3>3. CASE Current(s).version = v
      <4>1. Announced(v)'
        BY <1>5, <3>3 DEF Announced
      <4> QED
        BY <1>1, <3>1, <4>1
    <3>4. ASSUME NEW r \in Streams \ {s}, task[r] = "announcing", Current(r).version = applied
          PROVE  task'[r] = "announcing" /\ Current(r)'.version = applied
      BY <1>4, <1>7, <3>4
    <3> QED
      BY <3>1, <3>2, <3>3, <3>4 DEF IInv, AppliedInv
  <2>2. applied # -1
    BY <1>1 DEF IInv, AppliedInv
  <2>3. PICK v : v = applied
    OBVIOUS
  <2>4. Valid(v)'
    BY <1>5, <1>6, <2>2, <2>3, ElsewhereKeeps DEF IInv, AppliedInv
  <2> QED
    BY <1>1, <2>1, <2>2, <2>3, <2>4 DEF AppliedInv
<1>11. SequentialInv'
  <2> SUFFICES ASSUME ~overlapped' PROVE SequentialInv'
    BY DEF SequentialInv
  <2>1. AppliedIsNewest /\ AppliedIsKnown /\ StoredIsApplied
    BY <1>1 DEF IInv, SequentialInv
  <2>2. /\ Accepted' = Accepted /\ \A r \in Streams : Unanswered(r)' = Unanswered(r)
        /\ OneUnanswered' /\ UnansweredIsNewer'
    BY <1>1, <1>5, <1>6, Quiet
  <2>3. AppliedIsNewest' /\ AppliedIsKnown'
    BY <1>1, <2>1, <2>2 DEF AppliedIsNewest, AppliedIsKnown
  <2>4. applied = Current(s).version
    BY <1>1, <2>1 DEF StoredIsApplied
  <2>5. StoredIsApplied'
    BY <1>1, <1>4, <1>7, <2>1, <2>4 DEF StoredIsApplied
  <2>6. AnnouncedIsApplied'
    BY <1>1, <1>5, <2>4 DEF AnnouncedIsApplied
  <2> QED
    BY <2>2, <2>3, <2>5, <2>6 DEF SequentialInv
<1> QED
  BY <1>1, <1>4, <1>5, <1>6, <1>8, <1>9, <1>10, <1>11, ElsewhereKeeps DEF IInv

\* A push that does not parse is refused with the version that is applied.
LEMMA RefuseKeeps ==
  ASSUME IInv, NEW s \in Streams, Refuse(s)
  PROVE  IInv'
<1> DEFINE p == [question |-> read[s], ok |-> FALSE, version |-> applied]
<1>1. /\ task[s] = "updating" /\ ~Current(s).valid
      /\ reply' = [reply EXCEPT ![s] = p] /\ task' = [task EXCEPT ![s] = "writing"]
      /\ UNCHANGED <<transport, sent, number, ends, overlapped, read, replies, applied, announced>>
  BY DEF Refuse, Refusal, Latest, channel, handler, Prepare, Continue
<1>2. /\ read[s] \in DOMAIN sent[s] /\ Current(s).kind = "update" /\ read[s] \in 1 .. MaxMessages
      /\ applied \in Versions
  BY <1>1, InHandler, Types
<1>3. p \in Reply /\ p.question = read[s] /\ ~p.ok /\ p.version = applied
  BY <1>2 DEF Reply
<1> HIDE DEF p
<1>4. /\ task' \in [Streams -> {"reading", "updating", "announcing", "writing", "over"}]
      /\ reply' \in [Streams -> Reply \cup {NoReply}]
      /\ task'[s] = "writing" /\ reply'[s] = p
      /\ \A r \in Streams \ {s} : task'[r] = task[r] /\ reply'[r] = reply[r]
  BY <1>1, <1>3 DEF IInv, TypeOK
<1>5. Elsewhere(s) /\ \A v : Announced(v) => Announced(v)'
  BY <1>1, <1>4 DEF Elsewhere, Announced
<1>6. \A r \in Streams : Current(r)' = Current(r)
  BY <1>1 DEF Current
<1>7. TypeOK'
  <2>1. \A r \in Streams : task'[r] = "writing" => reply'[r] \in Reply
    BY <1>3, <1>4 DEF IInv, TypeOK
  <2> QED
    BY <1>1, <1>4, <2>1 DEF IInv, TypeOK
<1>8. ChannelOf(s)' /\ TaskOf(s)' /\ AnswersOf(s)' /\ RepliesOf(s)'
  <2>1. ChannelOf(s)'
    BY <1>1, <1>4 DEF IInv, ChannelOf
  <2>2. TaskOf(s)'
    BY <1>1, <1>2, <1>3, <1>4, <1>6 DEF IInv, TaskOf, Working
  <2>3. Replied(s)' = Replied(s) /\ Asked(s)' = Asked(s)
    BY <1>1 DEF Replied, Asked
  <2>4. AnswersOf(s)'
    BY <1>1, <1>4, <2>3 DEF IInv, AnswersOf, Working
  <2>6. Truthful(Current(s), p)
    BY <1>2, <1>3 DEF IInv, AppliedInv, Current, Truthful
  <2>7. PICK k : k = Current(s)
    OBVIOUS
  <2>8. PICK q : q = p
    OBVIOUS
  <2>9. Truthful(k, q)'
    BY <1>5, <2>6, <2>7, <2>8, ElsewhereKeeps
  <2>10. Truthful(Current(s), reply[s])'
    BY <1>4, <1>6, <2>7, <2>8, <2>9
  <2>11. RepliesOf(s)'
    BY <1>1, <1>5, <2>10, Quiet DEF RepliesOf
  <2> QED
    BY <2>1, <2>2, <2>4, <2>11
<1>9. AppliedInv'
  <2>1. \A r \in Streams : task'[r] = "announcing" <=> task[r] = "announcing"
    BY <1>1, <1>4
  <2> QED
    BY <1>1, <1>5, <1>6, <2>1, ElsewhereKeeps DEF IInv, AppliedInv
<1>10. SequentialInv'
  <2> SUFFICES ASSUME ~overlapped' PROVE SequentialInv'
    BY DEF SequentialInv
  <2>1. /\ OneUnanswered /\ UnansweredIsNewer /\ AppliedIsNewest /\ AppliedIsKnown
        /\ StoredIsApplied /\ AnnouncedIsApplied
    BY <1>1 DEF IInv, SequentialInv
  <2>2. /\ Accepted' = Accepted /\ \A r \in Streams : Unanswered(r)' = Unanswered(r)
        /\ OneUnanswered' /\ UnansweredIsNewer'
    BY <1>1, <1>5, Quiet
  <2>3. AppliedIsNewest' /\ AppliedIsKnown'
    BY <1>1, <2>1, <2>2 DEF AppliedIsNewest, AppliedIsKnown
  <2>4. StoredIsApplied'
    BY <1>1, <1>3, <1>4, <1>6, <2>1 DEF StoredIsApplied
  <2>5. AnnouncedIsApplied'
    BY <1>1, <1>4, <2>1 DEF AnnouncedIsApplied
  <2> QED
    BY <2>2, <2>3, <2>4, <2>5 DEF SequentialInv
<1> QED
  BY <1>1, <1>4, <1>5, <1>7, <1>8, <1>9, <1>10, ElsewhereKeeps DEF IInv

\* The task ends while it awaits the stream: what it was about to write is lost.
LEMMA TaskEndsKeeps ==
  ASSUME IInv, NEW s \in Streams, TaskEnds(s)
  PROVE  IInv'
<1>1. /\ task[s] \in {"reading", "writing"}
      /\ reply' = [reply EXCEPT ![s] = NoReply] /\ task' = [task EXCEPT ![s] = "over"]
      /\ UNCHANGED <<transport, sent, number, ends, overlapped, read, replies, applied, announced>>
  BY DEF TaskEnds, AtAwait, channel, handler, Continue
<1>2. /\ task' \in [Streams -> {"reading", "updating", "announcing", "writing", "over"}]
      /\ reply' \in [Streams -> Reply \cup {NoReply}]
      /\ task'[s] = "over"
      /\ \A r \in Streams \ {s} : task'[r] = task[r] /\ reply'[r] = reply[r]
  BY <1>1 DEF IInv, TypeOK
<1>3. Elsewhere(s) /\ \A v : Announced(v) => Announced(v)'
  BY <1>1, <1>2 DEF Elsewhere, Announced
<1>4. \A r \in Streams : Current(r)' = Current(r)
  BY <1>1 DEF Current
<1>5. TypeOK'
  <2>1. \A r \in Streams : task'[r] = "writing" => reply'[r] \in Reply
    BY <1>2 DEF IInv, TypeOK
  <2> QED
    BY <1>1, <1>2, <2>1 DEF IInv, TypeOK
<1>6. ChannelOf(s)' /\ TaskOf(s)' /\ AnswersOf(s)' /\ RepliesOf(s)'
  <2>1. ChannelOf(s)' /\ TaskOf(s)'
    BY <1>1, <1>2 DEF IInv, ChannelOf, TaskOf, Working
  <2>2. Replied(s)' = Replied(s) /\ Asked(s)' = Asked(s)
    BY <1>1 DEF Replied, Asked
  <2>3. AnswersOf(s)'
    BY <1>1, <1>2, <2>2 DEF IInv, AnswersOf, Working
  <2>4. RepliesOf(s)'
    BY <1>1, <1>2, <1>3, Quiet DEF RepliesOf
  <2> QED
    BY <2>1, <2>3, <2>4
<1>7. AppliedInv'
  <2>1. \A r \in Streams : task'[r] = "announcing" <=> task[r] = "announcing"
    BY <1>1, <1>2
  <2> QED
    BY <1>1, <1>3, <1>4, <2>1, ElsewhereKeeps DEF IInv, AppliedInv
<1>8. SequentialInv'
  <2> SUFFICES ASSUME ~overlapped' PROVE SequentialInv'
    BY DEF SequentialInv
  <2>1. /\ OneUnanswered /\ UnansweredIsNewer /\ AppliedIsNewest /\ AppliedIsKnown
        /\ StoredIsApplied /\ AnnouncedIsApplied
    BY <1>1 DEF IInv, SequentialInv
  <2>2. /\ Accepted' = Accepted /\ \A r \in Streams : Unanswered(r)' = Unanswered(r)
        /\ OneUnanswered' /\ UnansweredIsNewer'
    BY <1>1, <1>3, Quiet
  <2>3. AppliedIsNewest' /\ AppliedIsKnown'
    BY <1>1, <2>1, <2>2 DEF AppliedIsNewest, AppliedIsKnown
  <2>4. StoredIsApplied'
    BY <1>1, <1>2, <1>4, <2>1 DEF StoredIsApplied
  <2>5. AnnouncedIsApplied'
    BY <1>1, <1>2, <2>1 DEF AnnouncedIsApplied
  <2> QED
    BY <2>2, <2>3, <2>4, <2>5 DEF SequentialInv
<1> QED
  BY <1>1, <1>2, <1>3, <1>5, <1>6, <1>7, <1>8, ElsewhereKeeps DEF IInv

\* The reply reaches the edge.
LEMMA WriteReplyKeeps ==
  ASSUME IInv, NEW s \in Streams, WriteReply(s)
  PROVE  IInv'
<1>0. PICK n : n = Len(replies[s]) + 1
  OBVIOUS
<1>1. /\ task[s] = "writing"
      /\ replies' = [replies EXCEPT ![s] = Append(replies[s], reply[s])]
      /\ reply' = [reply EXCEPT ![s] = NoReply]
      /\ task' = [task EXCEPT ![s] = AfterReply]
      /\ UNCHANGED <<transport, sent, number, ends, overlapped, read, applied, announced>>
  BY DEF WriteReply, channel, handler, Continue
<1>2. /\ reply[s] \in Reply /\ reply[s].question = read[s]
      /\ read[s] \in DOMAIN sent[s] /\ Current(s).kind \in Questions
      /\ read[s] \notin Replied(s) /\ read[s] \in Asked(s)
      /\ Current(s).kind = "update" => read[s] \in Unanswered(s)
      /\ reply[s].ok /\ Current(s).kind = "update" => reply[s].version = Current(s).version
      /\ ~reply[s].ok => ~Current(s).valid
      /\ Truthful(Current(s), reply[s])
  <2>1. task[s] \in Working
    BY <1>1 DEF Working
  <2>2. TaskOf(s) /\ RepliesOf(s)
    BY DEF IInv
  <2>3. reply[s] \in Reply /\ read[s] \in DOMAIN sent[s]
    BY <1>1, <2>1, Types DEF IInv, TypeOK
  <2>4. read[s] \notin Replied(s) /\ read[s] \in Asked(s)
        /\ (Current(s).kind = "update" => read[s] \in Unanswered(s))
    BY <2>1, WorkIsUnanswered
  <2> QED
    BY <1>1, <2>1, <2>2, <2>3, <2>4 DEF TaskOf, RepliesOf
<1>3. /\ task' \in [Streams -> {"reading", "updating", "announcing", "writing", "over"}]
      /\ reply' \in [Streams -> Reply \cup {NoReply}]
      /\ task'[s] = AfterReply
      /\ \A r \in Streams \ {s} : task'[r] = task[r] /\ reply'[r] = reply[r]
  BY <1>1 DEF IInv, TypeOK, AfterReply
<1>4. /\ replies' \in [Streams -> Seq(Reply)]
      /\ replies'[s] = Append(replies[s], reply[s])
      /\ \A r \in Streams \ {s} : replies'[r] = replies[r]
      /\ replies[s] \in Seq(Reply)
  BY <1>1, <1>2, Types, AppendElements
<1>5. /\ n \in DOMAIN replies'[s] /\ replies'[s][n] = reply[s] /\ n \notin DOMAIN replies[s]
      /\ DOMAIN replies[s] \subseteq Int
      /\ \A i \in DOMAIN replies[s] :
           i < n /\ i \in DOMAIN replies'[s] /\ replies'[s][i] = replies[s][i]
      /\ \A i \in DOMAIN replies'[s] :
           i = n \/ (i \in DOMAIN replies[s] /\ replies'[s][i] = replies[s][i])
  BY <1>0, <1>2, <1>4, AppendElements
<1>6. Elsewhere(s) /\ \A v : Announced(v) => Announced(v)'
  BY <1>1, <1>3, <1>4 DEF Elsewhere, Announced
<1>7. /\ \A r \in Streams : Current(r)' = Current(r)
      /\ \A r \in Streams : Pushes(r)' = Pushes(r)
      /\ \A r \in Streams : Asked(r)' = Asked(r)
  BY <1>1 DEF Current, Pushes, Asked
<1>8. /\ \A i : i \in Replied(s)' <=> i \in Replied(s) \/ i = read[s]
      /\ \A r \in Streams \ {s} : Replied(r)' = Replied(r)
  <2>1. \A r : \A i : i \in Replied(r) <=> \E k \in DOMAIN replies[r] : replies[r][k].question = i
    BY DEF Replied, ToSet
  <2>2. \A r : \A i : i \in Replied(r)' <=> \E k \in DOMAIN replies'[r] : replies'[r][k].question = i
    BY DEF Replied, ToSet
  <2>3. \A i : i \in Replied(s)' <=> i \in Replied(s) \/ i = read[s]
    BY <1>2, <1>5, <2>1, <2>2
  <2> QED
    BY <1>4, <2>3 DEF Replied
<1>9. TypeOK'
  <2>1. \A r \in Streams : task'[r] = "writing" => reply'[r] \in Reply
    BY <1>3 DEF IInv, TypeOK, AfterReply
  <2> QED
    BY <1>1, <1>3, <1>4, <2>1 DEF IInv, TypeOK
<1>10. ChannelOf(s)' /\ TaskOf(s)'
  BY <1>1, <1>3 DEF IInv, ChannelOf, TaskOf, Working, AfterReply
<1>11. AnswersOf(s)'
  <2>1. AnswersOf(s) /\ Replied(s) = Asked(s) \ {read[s]}
    BY <1>1 DEF IInv, AnswersOf, Working
  <2>2. Replied(s)' = Asked(s)'
    BY <1>2, <1>7, <1>8, <2>1
  <2>3. \A i \in DOMAIN replies[s] : replies[s][i].question < read[s]
    <3> SUFFICES ASSUME NEW i \in DOMAIN replies[s] PROVE replies[s][i].question < read[s]
      OBVIOUS
    <3>1. replies[s][i].question \in Replied(s)
      BY DEF Replied, ToSet
    <3>2. replies[s][i].question \in 1 .. read[s] /\ read[s] \in Nat
      BY RepliesAreToMessages, Types
    <3> QED
      BY <1>2, <3>1, <3>2
  <2>4. \A i, j \in DOMAIN replies'[s] :
          i < j => replies'[s][i].question < replies'[s][j].question
    <3> SUFFICES ASSUME NEW i \in DOMAIN replies'[s], NEW j \in DOMAIN replies'[s], i < j
                 PROVE  replies'[s][i].question < replies'[s][j].question
      OBVIOUS
    <3>1. i \in DOMAIN replies[s] /\ replies'[s][i] = replies[s][i]
      <4>1. CASE i # n
        BY <1>5, <4>1
      <4>2. CASE i = n
        <5>1. n \in Int
          BY <1>0, <1>4, AppendElements
        <5>2. j = n \/ (j \in DOMAIN replies[s] /\ j < n /\ j \in Int)
          BY <1>5
        <5> QED
          BY <4>2, <5>1, <5>2
      <4> QED
        BY <4>1, <4>2
    <3>2. CASE j = n
      BY <1>2, <1>5, <2>3, <3>1, <3>2
    <3>3. CASE j \in DOMAIN replies[s] /\ replies'[s][j] = replies[s][j]
      BY <2>1, <3>1, <3>3 DEF AnswersOf
    <3> QED
      BY <1>5, <3>2, <3>3
  <2> QED
    BY <1>3, <2>2, <2>4 DEF AnswersOf, AfterReply, Working
<1>12. RepliesOf(s)'
  <2>1. task'[s] # "writing"
    BY <1>3 DEF AfterReply
  <2>2. ASSUME NEW i \in DOMAIN replies'[s]
        PROVE  Truthful(sent[s][replies[s][i].question], replies[s][i])'
    <3>1. PICK k, p : /\ k = sent[s][replies'[s][i].question] /\ p = replies'[s][i]
      OBVIOUS
    <3>2. Truthful(k, p)
      <4>1. CASE i = n
        BY <1>2, <1>5, <3>1, <4>1 DEF Current
      <4>2. CASE i # n
        BY <1>5, <3>1, <4>2 DEF IInv, RepliesOf
      <4> QED
        BY <4>1, <4>2
    <3>3. Truthful(k, p)'
      BY <1>6, <3>2, ElsewhereKeeps
    <3> QED
      BY <1>1, <3>1, <3>3
  <2> QED
    BY <2>1, <2>2 DEF RepliesOf
<1>13. AppliedInv'
  <2>1. \A r \in Streams : task'[r] = "announcing" <=> task[r] = "announcing"
    BY <1>1, <1>3 DEF AfterReply
  <2> QED
    BY <1>1, <1>6, <1>7, <2>1, ElsewhereKeeps DEF IInv, AppliedInv
<1>14. \A r \in Streams : \A i : i \in Unanswered(r)' <=> i \in Unanswered(r) /\ ~(r = s /\ i = read[s])
  BY <1>7, <1>8, UnansweredIs
<1>15. \A v : v \in Accepted'
         <=> v \in Accepted \/ (reply[s].ok /\ Current(s).kind = "update" /\ v = reply[s].version)
  <2>1. \A v : \A r \in Streams \ {s} : \A i \in DOMAIN replies[r] : Tells(r, i, v)' <=> Tells(r, i, v)
    BY <1>4, <1>7 DEF Tells
  <2>2. \A v : \A i \in DOMAIN replies[s] : Tells(s, i, v)' <=> Tells(s, i, v)
    BY <1>5, <1>7 DEF Tells
  <2>3. \A v : Tells(s, n, v)' <=> reply[s].ok /\ Current(s).kind = "update" /\ v = reply[s].version
    <3>1. read[s] \in Pushes(s) <=> Current(s).kind = "update"
      BY <1>2 DEF Pushes, Current
    <3> QED
      BY <1>2, <1>5, <1>7, <3>1 DEF Tells
  <2>4. \A v : v \in Accepted' => \/ v \in Accepted
                                  \/ reply[s].ok /\ Current(s).kind = "update" /\ v = reply[s].version
    <3> SUFFICES ASSUME NEW v \in Accepted'
                 PROVE  \/ v \in Accepted
                        \/ reply[s].ok /\ Current(s).kind = "update" /\ v = reply[s].version
      OBVIOUS
    <3>1. PICK r \in Streams : \E i \in DOMAIN replies'[r] : Tells(r, i, v)'
      BY AcceptedIs
    <3>2. PICK i \in DOMAIN replies'[r] : Tells(r, i, v)'
      BY <3>1
    <3>3. CASE r # s
      BY <1>4, <2>1, <3>2, <3>3, AcceptedIs
    <3>4. CASE r = s
      BY <1>5, <2>2, <2>3, <3>2, <3>4, AcceptedIs
    <3> QED
      BY <3>3, <3>4
  <2>5. \A v : v \in Accepted => v \in Accepted'
    <3> SUFFICES ASSUME NEW v \in Accepted PROVE v \in Accepted'
      OBVIOUS
    <3>1. PICK r \in Streams : \E i \in DOMAIN replies[r] : Tells(r, i, v)
      BY AcceptedIs
    <3>2. PICK i \in DOMAIN replies[r] : Tells(r, i, v)
      BY <3>1
    <3> QED
      BY <1>4, <1>5, <2>1, <2>2, <3>2, AcceptedIs
  <2> QED
    BY <1>5, <2>3, <2>4, <2>5, AcceptedIs
<1>16. SequentialInv'
  <2> SUFFICES ASSUME ~overlapped' PROVE SequentialInv'
    BY DEF SequentialInv
  <2>1. /\ OneUnanswered /\ UnansweredIsNewer /\ AppliedIsNewest /\ AppliedIsKnown
        /\ StoredIsApplied /\ AnnouncedIsApplied
    BY <1>1 DEF IInv, SequentialInv
  <2>2. OneUnanswered'
    BY <1>14, <2>1 DEF OneUnanswered
  <2>3. StoredIsApplied'
    BY <1>1, <1>3, <1>7, <2>1 DEF StoredIsApplied, AfterReply
  <2>4. AnnouncedIsApplied'
    BY <1>1, <1>3, <2>1 DEF AnnouncedIsApplied
  <2>5. CASE reply[s].ok /\ Current(s).kind = "update"
    <3>1. applied = reply[s].version /\ applied \in Int
      BY <1>1, <1>2, <2>1, <2>5, Types DEF StoredIsApplied, Versions
    <3>2. \A r \in Streams : Unanswered(r)' = {}
      BY <1>2, <1>14, <2>1, <2>5 DEF OneUnanswered
    <3>3. UnansweredIsNewer'
      BY <3>2 DEF UnansweredIsNewer
    <3>4. AppliedIsNewest' /\ AppliedIsKnown'
      BY <1>1, <1>15, <2>1, <2>5, <3>1 DEF AppliedIsNewest, AppliedIsKnown
    <3> QED
      BY <2>2, <2>3, <2>4, <3>3, <3>4 DEF SequentialInv
  <2>6. CASE ~(reply[s].ok /\ Current(s).kind = "update")
    <3>1. Accepted' = Accepted
      BY <1>15, <2>6
    <3>2. UnansweredIsNewer' /\ AppliedIsNewest'
      BY <1>1, <1>14, <2>1, <3>1 DEF UnansweredIsNewer, AppliedIsNewest
    <3>3. AppliedIsKnown'
      <4>1. CASE applied \in Accepted \cup {-1}
        BY <1>1, <3>1, <4>1 DEF AppliedIsKnown
      <4>2. ASSUME NEW u \in Streams, NEW i \in Unanswered(u),
                   sent[u][i].valid /\ applied = sent[u][i].version
            PROVE  AppliedIsKnown'
        <5>1. ~(u = s /\ i = read[s])
          <6> SUFFICES ASSUME u = s /\ i = read[s] PROVE FALSE
            OBVIOUS
          <6>1. Current(s).kind = "update" /\ Current(s).valid
            BY <4>2 DEF Unanswered, Pushes, Current
          <6> QED
            BY <1>2, <2>6, <6>1
        <5>2. i \in Unanswered(u)'
          BY <1>14, <5>1
        <5> QED
          BY <1>1, <4>2, <5>2 DEF AppliedIsKnown
      <4> QED
        BY <2>1, <4>1, <4>2 DEF AppliedIsKnown
    <3> QED
      BY <2>2, <2>3, <2>4, <3>2, <3>3 DEF SequentialInv
  <2> QED
    BY <2>5, <2>6
<1> QED
  BY <1>1, <1>3, <1>6, <1>9, <1>10, <1>11, <1>12, <1>13, <1>16, ElsewhereKeeps DEF IInv

-----------------------------------------------------------------------------
LEMMA NextInv == IInv /\ [Next]_vars => IInv'
<1> SUFFICES ASSUME IInv, [Next]_vars PROVE IInv'
  OBVIOUS
<1>1. CASE UNCHANGED vars
  <2>1. UNCHANGED <<transport, sent, number, read, ends, task, reply, replies, applied,
                    announced, overlapped>>
    BY <1>1 DEF vars, channel, handler
  <2>2. Accepted' = Accepted /\ \A r \in Streams : Unanswered(r)' = Unanswered(r)
    BY <2>1 DEF Accepted, Unanswered, Pushes
  <2>3. TypeOK'
    BY <2>1 DEF IInv, TypeOK
  <2>4. \A r \in Streams : ChannelOf(r)' /\ TaskOf(r)' /\ AnswersOf(r)'
    BY <2>1 DEF IInv, ChannelOf, TaskOf, Current, AnswersOf, Replied, Asked
  <2>5. AppliedInv' /\ \A r \in Streams : RepliesOf(r)'
    BY <2>1 DEF IInv, AppliedInv, RepliesOf, Current, Truthful, Announced, Valid
  <2>6. SequentialInv'
    BY <2>1, <2>2 DEF IInv, SequentialInv, OneUnanswered, UnansweredIsNewer,
       AppliedIsNewest, AppliedIsKnown, StoredIsApplied, AnnouncedIsApplied, Current
  <2> QED
    BY <2>1, <2>3, <2>4, <2>5, <2>6 DEF IInv
<1>2. ASSUME NEW s \in Streams, NEW kind \in Kinds(transport), NEW valid \in BOOLEAN,
             EdgeSends(s, kind, valid)
      PROVE  IInv'
  BY <1>2, EdgeSendsKeeps
<1>3. ASSUME NEW s \in Streams, NEW how \in Ends, EdgeEnds(s, how)
      PROVE  IInv'
  BY <1>3, EdgeEndsKeeps
<1>4. ASSUME NEW s \in Streams, Serve(s)
      PROVE  IInv'
  <2>1. CASE ReadMessage(s) \/ ReadPush(s)
    BY <2>1, ReadingIsNext, ReadsNextKeeps
  <2>2. CASE Store(s)
    BY <2>2, StoreKeeps
  <2>3. CASE Announce(s)
    BY <2>3, AnnounceKeeps
  <2>4. CASE Refuse(s)
    BY <2>4, RefuseKeeps
  <2>5. CASE WriteReply(s)
    BY <2>5, WriteReplyKeeps
  <2>6. CASE TaskEnds(s)
    BY <2>6, TaskEndsKeeps
  <2> QED
    BY <1>4, <2>1, <2>2, <2>3, <2>4, <2>5, <2>6 DEF Serve
<1> QED
  BY <1>1, <1>2, <1>3, <1>4 DEF Next

THEOREM Invariance == Spec => []IInv
BY InitInv, NextInv, PTL DEF Spec

(* Every question the edge asks on a stream is answered once, in the order  *)
(* of the questions, and nothing else is answered: serve_cloudflared awaits *)
(* a reply's write before it reads on, and a push request is answered once. *)
THEOREM QuestionsAreAnsweredInOrder == Spec => []AnsweredInOrder
<1>1. IInv => AnsweredInOrder
  <2> SUFFICES ASSUME IInv PROVE AnsweredInOrder
    OBVIOUS
  <2>1. ASSUME NEW s \in Streams
        PROVE  /\ \A i, j \in DOMAIN replies[s] :
                    i < j => replies[s][i].question < replies[s][j].question
               /\ CASE task[s] = "reading" -> Replied(s) = Asked(s)
                    [] task[s] = "over" -> Replied(s) \in {Asked(s), Asked(s) \ {read[s]}}
                    [] OTHER -> Replied(s) = Asked(s) \ {read[s]}
    <3>1. AnswersOf(s)
          /\ task[s] \in {"reading", "updating", "announcing", "writing", "over"}
      BY Types DEF IInv
    <3>2. CASE task[s] = "reading"
      BY <3>1, <3>2 DEF AnswersOf
    <3>3. CASE task[s] = "over"
      BY <3>1, <3>3 DEF AnswersOf
    <3>4. CASE task[s] \in Working
      BY <3>1, <3>4 DEF AnswersOf, Working
    <3> QED
      BY <3>1, <3>2, <3>3, <3>4 DEF Working
  <2> QED
    BY <2>1 DEF IInv, AnsweredInOrder
<1> QED
  BY <1>1, Invariance, PTL

(* No version is stored, or reported to the edge as applied, that the       *)
(* application was not told of (or is about to be, by the task that stored  *)
(* it): update_configuration does not await between the two.                *)
THEOREM WhatIsAppliedWasAnnounced == Spec => []AppliedIsAnnounced
<1>1. IInv => AppliedIsAnnounced
  <2> SUFFICES ASSUME IInv PROVE AppliedIsAnnounced
    OBVIOUS
  <2>1. \A v : Announced(v) => v \in ToSet(announced)
    BY DEF Announced, ToSet
  <2>2. Accepted \subseteq ToSet(announced)
    BY <2>1, AcceptedTypes
  <2> QED
    BY <2>1, <2>2 DEF AppliedIsAnnounced, IInv, AppliedInv
<1> QED
  BY <1>1, Invariance, PTL

(* A refused push is answered with a version that parsed, and with none     *)
(* only if the edge knew of no accepted push when it sent this one.         *)
THEOREM RefusalsReportWhatIsApplied == Spec => []RefusalReportsApplied
<1>1. IInv => RefusalReportsApplied
  <2> SUFFICES ASSUME IInv, NEW s \in Streams, NEW r \in ToSet(replies[s]),
                      sent[s][r.question].kind = "update", ~r.ok
               PROVE  /\ sent[s][r.question].acked => r.version # -1
                      /\ r.version # -1 => Valid(r.version)
    BY DEF RefusalReportsApplied, Valid
  <2>1. PICK i \in DOMAIN replies[s] : replies[s][i] = r
    BY DEF ToSet
  <2> QED
    BY <2>1 DEF IInv, RepliesOf, Truthful
<1> QED
  BY <1>1, Invariance, PTL

(* Pushes that do not overlap leave the stored version, the last one        *)
(* announced and the last one the edge was told of equal, whatever was      *)
(* refused, reset or aborted between them.                                  *)
THEOREM OnePushAtATimeConverges == Spec => []SequentialPushesConverge
<1>1. IInv => SequentialPushesConverge
  <2> SUFFICES ASSUME IInv, ~overlapped, \A s \in Streams : Unanswered(s) = {}
               PROVE  /\ applied = Max(Accepted \cup {-1})
                      /\ announced # <<>> => Last(announced) = applied
    BY DEF SequentialPushesConverge
  <2>1. AppliedIsNewest /\ AppliedIsKnown /\ AnnouncedIsApplied
    BY DEF IInv, SequentialInv
  <2>2. applied \in Accepted \cup {-1}
    BY <2>1 DEF AppliedIsKnown
  <2>3. Accepted \cup {-1} \subseteq Int /\ applied \in Versions
    BY AcceptedTypes, Types
  <2>4. \A v \in Accepted \cup {-1} : applied >= v
    BY <2>1, <2>2, <2>3 DEF AppliedIsNewest, Versions
  <2> DEFINE S == Accepted \cup {-1}
  <2>5. applied \in S /\ S \subseteq Int /\ \A v \in S : applied >= v
    BY <2>2, <2>3, <2>4
  <2> HIDE DEF S
  <2>6. \A x \in S : (\A v \in S : x >= v) => x = applied
    BY <2>5
  <2>7. Max(S) \in S /\ \A v \in S : Max(S) >= v
    BY <2>5, Zenon DEF Max
  <2>8. Max(S) = applied
    BY <2>6, <2>7
  <2>9. \A s \in Streams : task[s] # "announcing"
    BY InHandler
  <2> QED
    BY <2>1, <2>8, <2>9 DEF AnnouncedIsApplied, S
<1> QED
  BY <1>1, Invariance, PTL
=============================================================================
