------------------------- MODULE RegistrationProofs -------------------------
(***************************************************************************)
(* Proofs about Registration for any number of unexpected messages of the  *)
(* edge: what the client believes is true, its question ids are fresh,     *)
(* what it leaves unfinished is what it refused, no call is outside the    *)
(* time the edge holds the capability out, and the whole is the exchange   *)
(* of ControlExchange.  And about Framing, for every stream.               *)
(***************************************************************************)
EXTENDS Integers, Registration, WellFoundedInduction, TLAPS

\* What the client may still ask in each step.
Ahead ==
  [bootstrap |-> {"register", "configure", "unregister"},
   register |-> {"configure", "unregister"},
   configure |-> {"unregister"},
   registered |-> {"unregister"},
   unregister |-> {},
   over |-> {}]

\* How many ids have been taken before the question of a step, at most one of
\* them waits for its return, and it is the last (next_question).
CountInv ==
  /\ waiting # {} => /\ step \in Questions
                     /\ nextQuestion > 0
                     /\ waiting = {nextQuestion - 1}
  /\ step = "bootstrap" => nextQuestion = IF waiting = {} THEN 0 ELSE 1
  /\ step = "register" => nextQuestion = IF waiting = {} THEN 1 ELSE 2
  /\ step = "configure" => nextQuestion = IF waiting = {} THEN 2 ELSE 3
  /\ step = "registered" => nextQuestion \in 2 .. 3
  /\ step = "unregister" => nextQuestion \in IF waiting = {} THEN 2 .. 3 ELSE 3 .. 4

\* What has been decided when.
OutcomeInv ==
  /\ step \in {"bootstrap", "register"} => outcome = "none"
  /\ step \in {"configure", "registered", "unregister"} => outcome \in Details
  /\ goodbye = "confirmed" => step = "over" /\ outcome \in Details

\* A question on its way is awaited or was refused; it is awaited exactly if
\* it is the question of this step, and none is ahead of it.  No register call
\* is on its way once it was answered.
QuestionsInv ==
  \A i \in DOMAIN toEdge :
    toEdge[i].kind \in Questions =>
      /\ toEdge[i].question < nextQuestion
      /\ toEdge[i].question \in waiting \cup refused
      /\ toEdge[i].kind = step <=> toEdge[i].question \in waiting
      /\ toEdge[i].kind \notin Ahead[step]
      /\ toEdge[i].kind = "register" => outcome \notin Verdicts

\* The capability is held until the client is done, and nothing is released
\* before that.
CapabilityInv ==
  step # "over" =>
    /\ hasBootstrap => edge.capability = "held"
    /\ \A i \in DOMAIN toEdge : toEdge[i].kind # "release"

\* What the return for the question under way says of the edge.
Says(body) ==
  /\ step = "bootstrap" /\ body = "ok" => edge.capability = "held"
  /\ step = "register" /\ body \in Verdicts
       => edge.verdict = body /\ edge.tunnel = (body \in Details)
  /\ step = "unregister" /\ body = "ok" => ~edge.tunnel

\* That return: its question is no longer on its way.
Genuine(m) ==
  /\ \A i \in DOMAIN toEdge :
       toEdge[i].kind \in Questions => toEdge[i].question # m.answer
  /\ Says(m.body)

\* A return is for a question that was asked; the one for the question under
\* way is the edge's own.
Credible(m) ==
  m.kind = "return" =>
    /\ m.answer < nextQuestion
    /\ m.answer \in waiting => Genuine(m)

ReturnsInv ==
  /\ \A q \in edge.answers : q < nextQuestion
  /\ \A m \in edge.replies : Credible(m)
  /\ \A i \in DOMAIN toClient : Credible(toClient[i])

IInv ==
  /\ BeliefsAreTrue
  /\ CountInv
  /\ OutcomeInv
  /\ QuestionsInv
  /\ CapabilityInv
  /\ ReturnsInv
  /\ FreshQuestions
  /\ AnswersAreFinished
  /\ CallsHoldCapability

-----------------------------------------------------------------------------
\* The elements of a concatenation, of an appended and of a shortened sequence.
LEMMA ConcatElements ==
  ASSUME NEW S, NEW s \in Seq(S), NEW t \in Seq(S)
  PROVE  /\ s \o t \in Seq(S)
         /\ \A i \in DOMAIN s : i \in DOMAIN (s \o t) /\ (s \o t)[i] = s[i]
         /\ \A i \in DOMAIN t : /\ Len(s) + i \in DOMAIN (s \o t)
                                /\ (s \o t)[Len(s) + i] = t[i]
         /\ \A i \in DOMAIN (s \o t) :
              \/ i \in DOMAIN s /\ (s \o t)[i] = s[i]
              \/ /\ i \notin DOMAIN s
                 /\ i - Len(s) \in DOMAIN t /\ (s \o t)[i] = t[i - Len(s)]
OBVIOUS

LEMMA TailElements ==
  ASSUME NEW S, NEW s \in Seq(S), s # <<>>
  PROVE  /\ Head(s) = s[1] /\ 1 \in DOMAIN s /\ Head(s) \in S
         /\ Tail(s) \in Seq(S)
         /\ \A i \in DOMAIN Tail(s) : i + 1 \in DOMAIN s /\ Tail(s)[i] = s[i + 1] /\ i \in Nat
         /\ \A i \in DOMAIN s : i = 1 \/ (i - 1 \in DOMAIN Tail(s) /\ Tail(s)[i - 1] = s[i])
OBVIOUS

LEMMA AppendElements ==
  ASSUME NEW S, NEW s \in Seq(S), NEW e \in S
  PROVE  /\ Append(s, e) \in Seq(S)
         /\ \A i \in DOMAIN s : i \in DOMAIN Append(s, e) /\ Append(s, e)[i] = s[i]
         /\ \A i \in DOMAIN Append(s, e) :
              \/ i \in DOMAIN s /\ Append(s, e)[i] = s[i]
              \/ i = Len(s) + 1 /\ i \notin DOMAIN s /\ Append(s, e)[i] = e
         /\ Len(s) + 1 \in DOMAIN Append(s, e)
OBVIOUS

LEMMA InitInv == Init => IInv
<1> SUFFICES ASSUME Init PROVE IInv
  OBVIOUS
<1> USE DEF Init
<1>1. TypeOK
  <2>1. \E q \in 0 .. 3 : waiting \in {{}, {q}}
    <3>1. waiting \in {{}, {0}} /\ 0 \in 0 .. 3
      OBVIOUS
    <3> QED
      BY <3>1
  <2>2. edge \in [answers : SUBSET (0 .. 3), replies : SUBSET ToClient,
                  capability : {"none", "held", "released"},
                  tunnel : BOOLEAN, verdict : {"none"} \cup Bodies]
    OBVIOUS
  <2>3. strays \in 0 .. MaxStray
    BY StrayAssumption
  <2>4. toEdge \in Seq(ToEdge) /\ toClient \in Seq(ToClient)
    OBVIOUS
  <2>5. /\ step \in Questions /\ nextQuestion \in 0 .. 4
        /\ outcome = "none" /\ goodbye = "none" /\ refused \subseteq 0 .. 3
    BY DEF Questions
  <2>6. hasBootstrap \in BOOLEAN /\ lost \in BOOLEAN
    BY Zenon
  <2> HIDE DEF Init
  <2> QED
    BY <2>1, <2>2, <2>3, <2>4, <2>5, <2>6 DEF TypeOK
<1>2. BeliefsAreTrue
  BY <1>1 DEF BeliefsAreTrue, Verdicts, Details
<1>3. CountInv /\ OutcomeInv
  BY DEF CountInv, OutcomeInv, Questions
<1>4. QuestionsInv /\ CapabilityInv /\ FreshQuestions /\ CallsHoldCapability
  BY DEF QuestionsInv, CapabilityInv, FreshQuestions, CallsHoldCapability
<1>5. ReturnsInv /\ AnswersAreFinished
  BY DEF ReturnsInv, AnswersAreFinished
<1> QED
  BY <1>2, <1>3, <1>4, <1>5 DEF IInv

-----------------------------------------------------------------------------
\* The steps that may follow a step when its call is over.
Following ==
  [bootstrap |-> {"register", "over"},
   register |-> {"configure", "registered", "over"},
   configure |-> {"registered", "over"},
   registered |-> {},
   unregister |-> {"over"},
   over |-> {}]

\* What the end of a call may write: finishes and a release, no question.
Closings == {w \in Seq(ToEdge) : \A i \in DOMAIN w : w[i].kind \in {"finish", "release"}}

\* What every end of a call does to the exchange, whatever ended it.
CallIsOver(w) ==
  /\ w \in Closings
  /\ step' \in Following[step]
  /\ waiting' = {}
  /\ toEdge' = toEdge \o w
  /\ (\E i \in DOMAIN w : w[i].kind = "release") => step' = "over"
  /\ \A q \in waiting :
       \/ q \in refused'
       \/ /\ \E i \in DOMAIN w : w[i] = Finish(q)
          /\ \A i \in DOMAIN toEdge : toEdge[i].kind \in Questions => toEdge[i].question # q
  /\ refused \subseteq refused'
  /\ (\E i \in DOMAIN toEdge : toEdge[i].kind = "register") =>
        outcome' \notin Verdicts \/ outcome' = outcome
  /\ \A i \in DOMAIN toClient' : \E j \in DOMAIN toClient : toClient'[i] = toClient[j]
  /\ UNCHANGED <<nextQuestion, edge>>

LEMMA TypedSteps ==
  ASSUME TypeOK
  PROVE  /\ toEdge \in Seq(ToEdge) /\ toClient \in Seq(ToClient)
         /\ step \in {"bootstrap", "register", "configure", "unregister", "registered", "over"}
         /\ nextQuestion \in Nat
BY DEF TypeOK, Questions, Calls

\* The invariants of the two directions of the stream, when a call is over.
LEMMA CallOver ==
  ASSUME IInv, NEW w, CallIsOver(w)
  PROVE  /\ QuestionsInv'
         /\ FreshQuestions'
         /\ AnswersAreFinished'
         /\ CallsHoldCapability'
         /\ ReturnsInv'
         /\ \A i \in DOMAIN toEdge' :
              toEdge'[i].kind = "release" => step' = "over"
<1> USE DEF IInv, BeliefsAreTrue
<1>1. w \in Seq(ToEdge) /\ \A i \in DOMAIN w : w[i].kind \in {"finish", "release"}
  BY DEF CallIsOver, Closings
<1>2. toEdge' = toEdge \o w
  BY DEF CallIsOver
<1>3. toEdge \in Seq(ToEdge)
  BY TypedSteps
<1>4. /\ \A i \in DOMAIN toEdge : i \in DOMAIN toEdge' /\ toEdge'[i] = toEdge[i]
      /\ \A i \in DOMAIN w : Len(toEdge) + i \in DOMAIN toEdge' /\ toEdge'[Len(toEdge) + i] = w[i]
      /\ \A i \in DOMAIN toEdge' :
           \/ i \in DOMAIN toEdge /\ toEdge'[i] = toEdge[i]
           \/ i \notin DOMAIN toEdge /\ i - Len(toEdge) \in DOMAIN w /\ toEdge'[i] = w[i - Len(toEdge)]
  BY <1>1, <1>2, <1>3, ConcatElements
<1>5. \A i \in DOMAIN toEdge' :
        toEdge'[i].kind \in Questions => i \in DOMAIN toEdge /\ toEdge'[i] = toEdge[i]
  BY <1>1, <1>4 DEF Questions, Calls
<1>6. step \in {"bootstrap", "register", "configure", "unregister"}
  BY TypedSteps DEF CallIsOver, Following
<1>7. QuestionsInv'
  <2> SUFFICES ASSUME NEW i \in DOMAIN toEdge', toEdge'[i].kind \in Questions
               PROVE  /\ toEdge'[i].question < nextQuestion'
                      /\ toEdge'[i].question \in waiting' \cup refused'
                      /\ toEdge'[i].kind = step' <=> toEdge'[i].question \in waiting'
                      /\ toEdge'[i].kind \notin Ahead[step']
                      /\ toEdge'[i].kind = "register" => outcome' \notin Verdicts
    BY DEF QuestionsInv
  <2>1. /\ i \in DOMAIN toEdge /\ toEdge'[i] = toEdge[i]
        /\ toEdge[i].kind \in Questions
    BY <1>5
  <2>2. /\ toEdge[i].question < nextQuestion
        /\ toEdge[i].question \in waiting \cup refused
        /\ toEdge[i].kind \notin Ahead[step]
        /\ toEdge[i].kind = "register" => outcome \notin Verdicts
    BY <2>1 DEF QuestionsInv
  <2>3. toEdge[i].question \in refused'
    BY <2>1, <2>2 DEF CallIsOver
  <2>4. Ahead[step'] \subseteq Ahead[step] /\ (step' \in Questions => step' \in Ahead[step])
    BY <1>6 DEF CallIsOver, Following, Ahead, Questions, Calls
  <2>5. waiting' = {} /\ nextQuestion' = nextQuestion
    BY DEF CallIsOver
  <2>6. toEdge[i].kind # step'
    BY <2>1, <2>2, <2>4
  <2>7. toEdge[i].kind = "register" => outcome' \notin Verdicts
    BY <2>1, <2>2 DEF CallIsOver
  <2> QED
    BY <2>1, <2>2, <2>3, <2>4, <2>5, <2>6, <2>7
<1>8. FreshQuestions'
  BY <1>5 DEF FreshQuestions, CallIsOver
<1>9. AnswersAreFinished'
  <2> SUFFICES ASSUME NEW q \in edge.answers
               PROVE  \/ q \in refused'
                      \/ \E i \in DOMAIN toEdge' : toEdge'[i].kind = "finish" /\ toEdge'[i].question = q
    BY DEF AnswersAreFinished, CallIsOver, ToSet
  <2>1. CASE q \in refused
    BY <2>1 DEF CallIsOver
  <2>2. CASE q \in waiting /\ q \notin refused'
    <3>1. PICK i \in DOMAIN w : w[i] = Finish(q)
      BY <2>2 DEF CallIsOver
    <3> QED
      BY <1>4, <3>1 DEF Finish
  <2>3. CASE \E i \in DOMAIN toEdge : toEdge[i].kind = "finish" /\ toEdge[i].question = q
    BY <2>3, <1>4
  <2> QED
    BY <2>1, <2>2, <2>3 DEF AnswersAreFinished, ToSet
<1>10. \A i \in DOMAIN toEdge' : toEdge'[i].kind = "release" => step' = "over"
  BY <1>4, <1>6 DEF CallIsOver, CapabilityInv
<1>11. CallsHoldCapability'
  <2> SUFFICES ASSUME NEW i \in DOMAIN toEdge', toEdge'[i].kind \in Calls
               PROVE  /\ edge'.capability = "held"
                      /\ \A j \in 1 .. i - 1 : toEdge'[j].kind # "release"
    BY DEF CallsHoldCapability
  <2>1. i \in DOMAIN toEdge /\ toEdge'[i] = toEdge[i]
    BY <1>5 DEF Questions
  <2>2. \A j \in 1 .. i - 1 : j \in DOMAIN toEdge
    BY <2>1, <1>3
  <2> QED
    BY <2>1, <2>2, <1>4 DEF CallsHoldCapability, CallIsOver
<1>12. ReturnsInv'
  BY DEF ReturnsInv, CallIsOver, Credible
<1> QED
  BY <1>7, <1>8, <1>9, <1>10, <1>11, <1>12

-----------------------------------------------------------------------------
\* What the end of a call writes is finishes and a release.
LEMMA EndsWrite ==
  ASSUME TypeOK, NEW body, NEW last \in {<<>>} \cup {<<Finish(q)>> : q \in Nat},
         lost => last = <<>>, Ends(body, last)
  PROVE  \E w \in Closings :
           /\ toEdge' = toEdge \o w
           /\ (\E i \in DOMAIN w : w[i].kind = "release") => step' = "over"
           /\ \A i \in DOMAIN last : i \in DOMAIN w /\ w[i] = last[i]
<1>1. toEdge \in Seq(ToEdge)
  BY TypedSteps
<1>2. /\ last \in Closings /\ last \o <<Release>> \in Closings /\ last \o <<>> = last
      /\ \A i \in DOMAIN last : last[i].kind # "release"
      /\ \A i \in DOMAIN last : /\ i \in DOMAIN (last \o <<Release>>)
                                /\ (last \o <<Release>>)[i] = last[i]
  <2>1. CASE last = <<>>
    BY <2>1 DEF Closings, Release, ToEdge, Questions
  <2>2. CASE last # <<>>
    <3>1. PICK q \in Nat : last = <<Finish(q)>>
      BY <2>2
    <3>2. Finish(q) \in ToEdge /\ Release \in ToEdge
      BY DEF Finish, Release, ToEdge, Questions
    <3>3. last \in Seq(ToEdge) /\ last \o <<Release>> \in Seq(ToEdge)
      BY <3>1, <3>2
    <3>4. /\ DOMAIN last = {1} /\ last[1] = Finish(q)
          /\ DOMAIN (last \o <<Release>>) = {1, 2}
          /\ (last \o <<Release>>)[1] = Finish(q) /\ (last \o <<Release>>)[2] = Release
          /\ last \o <<>> = last
      BY <3>1, <3>2
    <3>5. Finish(q).kind = "finish" /\ Release.kind = "release"
      BY DEF Finish, Release
    <3>6. last \in Closings /\ last \o <<Release>> \in Closings
      BY <3>3, <3>4, <3>5 DEF Closings
    <3>7. /\ \A i \in DOMAIN last : last[i].kind # "release"
          /\ \A i \in DOMAIN last : i = 1 /\ last[i] = Finish(q)
      BY <3>4, <3>5
    <3> QED
      BY <3>4, <3>6, <3>7
  <2> QED
    BY <2>1, <2>2
<1>3. \/ toEdge' = toEdge \o last
      \/ toEdge' = toEdge \o (last \o <<Release>>) /\ step' = "over"
  <2>1. CASE step = "bootstrap" /\ BootstrapEnds(body = "ok", last)
    BY <2>1 DEF BootstrapEnds, Leave
  <2>2. CASE step = "register" /\ RegisterEnds(body, last)
    BY <2>2, <1>2 DEF RegisterEnds, Leave, Releasing
  <2>3. CASE step = "configure" /\ ConfigureEnds(body = "ok", last)
    BY <2>3 DEF ConfigureEnds, Registered
  <2>4. CASE step = "unregister" /\ UnregisterEnds(body = "ok", last)
    <3>1. CASE lost
      <4>1. last = <<>> /\ toEdge' = toEdge
        BY <2>4, <3>1 DEF UnregisterEnds
      <4> QED
        BY <4>1, <1>1
    <3>2. CASE ~lost
      <4>1. toEdge' = (toEdge \o last) \o Releasing(hasBootstrap) /\ step' = "over"
        BY <2>4, <3>2 DEF UnregisterEnds
      <4>2. last \in Seq(ToEdge) /\ <<Release>> \in Seq(ToEdge)
        BY <1>2 DEF Closings, Release, ToEdge
      <4>3. (toEdge \o last) \o <<Release>> = toEdge \o (last \o <<Release>>)
        BY <1>1, <4>2
      <4>4. (toEdge \o last) \o <<>> = toEdge \o last
        BY <1>1, <4>2
      <4> QED
        BY <4>1, <4>3, <4>4 DEF Releasing
    <3> QED
      BY <3>1, <3>2
  <2> QED
    BY <2>1, <2>2, <2>3, <2>4 DEF Ends
<1>4. CASE toEdge' = toEdge \o last
  BY <1>2, <1>4
<1>5. CASE toEdge' = toEdge \o (last \o <<Release>>) /\ step' = "over"
  BY <1>2, <1>5
<1> QED
  BY <1>3, <1>4, <1>5

\* What the end of a call makes of the client.
Results ==
  /\ outcome' \in {"none", "error"} \cup Verdicts
  /\ goodbye' \in {"none", "confirmed", "failed"}
  /\ hasBootstrap' \in BOOLEAN
  /\ CountInv'
  /\ OutcomeInv'
  /\ hasBootstrap' /\ step' # "over" => edge.capability = "held"
  /\ outcome' \in Verdicts => edge.verdict = outcome'
  /\ step' \in {"configure", "registered"} => edge.tunnel
  /\ goodbye' = "confirmed" => ~edge.tunnel

\* What Ends makes of the client, when its result says the truth of the edge.
LEMMA EndsResult ==
  ASSUME IInv, NEW body \in Bodies, NEW last, Ends(body, last), Says(body),
         body = "unreadable" \/ waiting # {},
         waiting' = {}, UNCHANGED <<nextQuestion, edge>>
  PROVE  /\ step' \in Following[step]
         /\ outcome' # outcome => outcome' = "error" \/ (step = "register" /\ outcome' = body)
         /\ Results
<1> USE DEF IInv, BeliefsAreTrue, TypeOK, Following, Results, CountInv, OutcomeInv, CapabilityInv,
            Says, Questions, Calls
<1>1. CASE step = "bootstrap" /\ BootstrapEnds(body = "ok", last)
  <2>1. CASE body = "ok"
    BY <1>1, <2>1 DEF BootstrapEnds, Verdicts, Details
  <2>2. CASE body # "ok"
    BY <1>1, <2>2 DEF BootstrapEnds, Leave, Verdicts, Details
  <2> QED
    BY <2>1, <2>2
<1>2. CASE step = "register" /\ RegisterEnds(body, last)
  <2>1. CASE body \in Details
    BY <1>2, <2>1 DEF RegisterEnds, Verdicts, Details
  <2>2. CASE body \notin Details
    BY <1>2, <2>2 DEF RegisterEnds, Leave, Verdicts, Details
  <2> QED
    BY <2>1, <2>2
<1>3. CASE step = "configure" /\ ConfigureEnds(body = "ok", last)
  BY <1>3 DEF ConfigureEnds, Registered, Verdicts, Details
<1>4. CASE step = "unregister" /\ UnregisterEnds(body = "ok", last)
  BY <1>4 DEF UnregisterEnds, Verdicts, Details
<1> QED
  BY <1>1, <1>2, <1>3, <1>4 DEF Ends

LEMMA CallOverKeeps ==
  ASSUME IInv, NEW w, CallIsOver(w), Results,
         refused' \subseteq refused \cup waiting,
         toClient' \in Seq(ToClient),
         UNCHANGED <<lost, strays>>
  PROVE  IInv'
<1>1. TypeOK
  BY DEF IInv, BeliefsAreTrue
<1>2. toEdge' \in Seq(ToEdge)
  BY <1>1, TypedSteps, ConcatElements DEF CallIsOver, Closings
<1>3. step' \in Questions \cup {"registered", "over"}
  BY <1>1, TypedSteps DEF CallIsOver, Following, Questions, Calls
<1>4. \E q \in 0 .. 3 : waiting' \in {{}, {q}}
  <2>1. 0 \in 0 .. 3 /\ waiting' = {}
    BY DEF CallIsOver
  <2> QED
    BY <2>1
<1>5. refused' \subseteq 0 .. 3
  BY <1>1 DEF TypeOK
<1>6. TypeOK'
  BY <1>1, <1>2, <1>3, <1>4, <1>5 DEF TypeOK, Results, CallIsOver
<1>7. BeliefsAreTrue'
  BY <1>6 DEF BeliefsAreTrue, Results, CallIsOver
<1>8. CapabilityInv'
  BY CallOver DEF CapabilityInv, Results, CallIsOver
<1> QED
  BY <1>7, <1>8, CallOver DEF IInv, Results

-----------------------------------------------------------------------------
\* A message is read: the answer is finished, anything else is refused.
LEMMA ReadMessageKeeps == ASSUME IInv, ReadMessage PROVE IInv'
<1>1. /\ TypeOK /\ toClient # <<>> /\ toClient' = Tail(toClient)
      /\ toClient \in Seq(ToClient)
      /\ waiting' = {} /\ UNCHANGED <<nextQuestion, lost, edge, strays>> /\ ~lost
  BY TypedSteps DEF IInv, BeliefsAreTrue, ReadMessage
<1>2. /\ Tail(toClient) \in Seq(ToClient)
      /\ \A i \in DOMAIN toClient' : \E j \in DOMAIN toClient : toClient'[i] = toClient[j]
      /\ Head(toClient) \in ToClient /\ 1 \in DOMAIN toClient /\ Head(toClient) = toClient[1]
  BY <1>1, TailElements
<1> DEFINE m == Head(toClient)
<1>3. m.body \in Bodies /\ Credible(m)
  BY <1>2 DEF IInv, ReturnsInv, ToClient
<1>4. PICK q \in waiting :
        \/ Answers(m, q) /\ Ends(m.body, Closing(q, m.body)) /\ UNCHANGED refused
        \/ ~Answers(m, q) /\ Ends("unreadable", <<>>) /\ refused' = refused \cup {q}
  BY DEF ReadMessage
<1> HIDE DEF m
<1>5. waiting = {q} /\ q \in Nat
  BY <1>1, <1>4 DEF TypeOK
<1>6. CASE Answers(m, q) /\ Ends(m.body, Closing(q, m.body)) /\ UNCHANGED refused
  <2>1. m.kind = "return" /\ m.answer = q
    BY <1>6 DEF Answers
  <2>2. Genuine(m)
    BY <2>1, <1>3, <1>4 DEF Credible
  <2>3. Ends(m.body, <<Finish(q)>>)
    BY <1>6 DEF Closing
  <2>4. /\ step' \in Following[step] /\ Results
        /\ outcome' # outcome => outcome' = "error" \/ (step = "register" /\ outcome' = m.body)
    BY <1>1, <1>3, <1>5, <2>2, <2>3, EndsResult DEF Genuine
  <2>5. <<Finish(q)>> \in {<<>>} \cup {<<Finish(p)>> : p \in Nat}
    BY <1>5
  <2>6. PICK w \in Closings :
          /\ toEdge' = toEdge \o w
          /\ (\E i \in DOMAIN w : w[i].kind = "release") => step' = "over"
          /\ \A i \in DOMAIN <<Finish(q)>> : i \in DOMAIN w /\ w[i] = <<Finish(q)>>[i]
    BY <1>1, <2>3, <2>5, EndsWrite
  <2>7. \E i \in DOMAIN w : w[i] = Finish(q)
    <3>1. 1 \in DOMAIN <<Finish(q)>> /\ <<Finish(q)>>[1] = Finish(q)
      OBVIOUS
    <3> QED
      BY <2>6, <3>1
  <2>8. (\E i \in DOMAIN toEdge : toEdge[i].kind = "register") =>
          outcome' \notin Verdicts \/ outcome' = outcome
    <3> SUFFICES ASSUME NEW i \in DOMAIN toEdge, toEdge[i].kind = "register",
                        outcome' # outcome
                 PROVE  outcome' \notin Verdicts
      OBVIOUS
    <3>1. CASE outcome' = "error"
      BY <3>1 DEF Verdicts, Details
    <3>2. CASE step = "register"
      \* The register question would be the one under way, and that was answered.
      <4>1. toEdge[i].question \in waiting
        BY <3>2 DEF IInv, QuestionsInv, Questions, Calls
      <4>2. toEdge[i].question # m.answer
        BY <2>2 DEF Genuine, Questions, Calls
      <4> QED
        BY <4>1, <4>2, <2>1, <1>5
    <3> QED
      BY <3>1, <3>2, <2>4
  <2>9. \A i \in DOMAIN toEdge : toEdge[i].kind \in Questions => toEdge[i].question # q
    BY <2>1, <2>2 DEF Genuine
  <2>10. CallIsOver(w)
    BY <1>1, <1>2, <1>5, <1>6, <2>4, <2>6, <2>7, <2>8, <2>9 DEF CallIsOver
  <2> QED
    BY <1>1, <1>2, <1>6, <2>4, <2>10, CallOverKeeps
<1>7. CASE ~Answers(m, q) /\ Ends("unreadable", <<>>) /\ refused' = refused \cup {q}
  <2>1. "unreadable" \in Bodies /\ Says("unreadable")
    BY DEF Bodies, Unhappy, Says, Verdicts, Details
  <2>2. /\ step' \in Following[step] /\ Results
        /\ outcome' # outcome => outcome' = "error" \/ outcome' = "unreadable"
    BY <1>1, <1>7, <2>1, EndsResult
  <2>3. PICK w \in Closings :
          /\ toEdge' = toEdge \o w
          /\ (\E i \in DOMAIN w : w[i].kind = "release") => step' = "over"
    BY <1>1, <1>7, EndsWrite
  <2>4. outcome' \notin Verdicts \/ outcome' = outcome
    BY <2>2 DEF Verdicts, Details
  <2>5. CallIsOver(w)
    BY <1>1, <1>2, <1>5, <1>7, <2>2, <2>3, <2>4 DEF CallIsOver
  <2> QED
    BY <1>1, <1>2, <1>5, <1>7, <2>2, <2>5, CallOverKeeps
<1> QED
  BY <1>4, <1>6, <1>7

\* The stream fails under a read or a write.
LEMMA StreamFailsKeeps == ASSUME IInv, StreamFails PROVE IInv'
<1>1. /\ TypeOK /\ toClient' = toClient /\ toClient \in Seq(ToClient)
      /\ waiting' = {} /\ UNCHANGED <<nextQuestion, lost, edge, strays>>
      /\ refused' = refused \cup waiting /\ Ends("unreadable", <<>>)
  BY TypedSteps DEF IInv, BeliefsAreTrue, StreamFails
<1>2. "unreadable" \in Bodies /\ Says("unreadable")
  BY DEF Bodies, Unhappy, Says, Verdicts, Details
<1>3. /\ step' \in Following[step] /\ Results
      /\ outcome' # outcome => outcome' = "error" \/ outcome' = "unreadable"
  BY <1>1, <1>2, EndsResult
<1>4. PICK w \in Closings :
        /\ toEdge' = toEdge \o w
        /\ (\E i \in DOMAIN w : w[i].kind = "release") => step' = "over"
  BY <1>1, EndsWrite
<1>5. outcome' \notin Verdicts \/ outcome' = outcome
  BY <1>3 DEF Verdicts, Details
<1>6. CallIsOver(w)
  BY <1>1, <1>3, <1>4, <1>5 DEF CallIsOver
<1> QED
  BY <1>1, <1>3, <1>6, CallOverKeeps

\* The client is dropped: by an invalid tunnel id, by RPC_TIMEOUT or by the end
\* of the grace period.
LEMMA DropsKeep ==
  ASSUME IInv, TunnelIdInvalid \/ RpcTimeout \/ UnregisterTimeout
  PROVE  IInv'
<1>1. /\ TypeOK /\ toClient' = toClient /\ toClient \in Seq(ToClient)
      /\ waiting' = {} /\ UNCHANGED <<nextQuestion, lost, edge, strays, hasBootstrap>>
      /\ refused \cup waiting = refused'
      /\ step' = "over"
      /\ step \in {"bootstrap", "register", "configure", "unregister"}
  BY TypedSteps
     DEF IInv, BeliefsAreTrue, TunnelIdInvalid, RpcTimeout, UnregisterTimeout, Leave
<1>2. toEdge' = toEdge \o <<>>
  <2>1. toEdge \in Seq(ToEdge)
    BY <1>1, TypedSteps
  <2> QED
    BY <2>1 DEF TunnelIdInvalid, RpcTimeout, UnregisterTimeout, Leave
<1>3. /\ outcome' \in {"error", outcome}
      /\ goodbye' = goodbye \/ goodbye' = "failed"
      /\ step # "unregister" => goodbye' = goodbye
  BY DEF TunnelIdInvalid, RpcTimeout, UnregisterTimeout, Leave
<1>4. <<>> \in Closings
  BY DEF Closings
<1>5. CallIsOver(<<>>)
  BY <1>1, <1>2, <1>3, <1>4 DEF CallIsOver, Following, Verdicts, Details
<1>6. Results
  BY <1>1, <1>3
     DEF Results, IInv, BeliefsAreTrue, TypeOK, CountInv, OutcomeInv, Verdicts, Details
<1> QED
  BY <1>1, <1>5, <1>6, CallOverKeeps

-----------------------------------------------------------------------------
\* A question is written under an id nobody has used.
LEMMA SendQuestionKeeps ==
  ASSUME IInv, NEW kind \in Questions, SendQuestion(kind)
  PROVE  IInv'
<1> DEFINE m == Ask(kind, nextQuestion)
<1>1. /\ step = kind /\ waiting = {} /\ waiting' = {nextQuestion}
      /\ nextQuestion' = nextQuestion + 1 /\ toEdge' = Append(toEdge, m)
      /\ UNCHANGED <<step, hasBootstrap, outcome, goodbye, refused, toClient, lost,
                     edge, strays>>
      /\ kind \in Calls => hasBootstrap
  BY DEF SendQuestion, MayAsk, IInv, BeliefsAreTrue, TypeOK, Calls, Questions
<1>2. TypeOK /\ toEdge \in Seq(ToEdge) /\ nextQuestion \in 0 .. 3
  BY <1>1, TypedSteps DEF IInv, BeliefsAreTrue, CountInv, Questions, Calls
<1>3. m \in ToEdge /\ m.kind = kind /\ m.question = nextQuestion
  BY <1>2 DEF Ask, ToEdge
<1> HIDE DEF m
<1>4. /\ toEdge' \in Seq(ToEdge)
      /\ \A i \in DOMAIN toEdge : i \in DOMAIN toEdge' /\ toEdge'[i] = toEdge[i]
      /\ \A i \in DOMAIN toEdge' :
           \/ i \in DOMAIN toEdge /\ toEdge'[i] = toEdge[i]
           \/ i = Len(toEdge) + 1 /\ i \notin DOMAIN toEdge /\ toEdge'[i] = m
  BY <1>1, <1>2, <1>3, AppendElements
<1>5. TypeOK'
  <2>1. \E q \in 0 .. 3 : waiting' \in {{}, {q}}
    BY <1>1, <1>2
  <2> QED
    BY <1>1, <1>2, <1>4, <2>1 DEF TypeOK
<1>6. BeliefsAreTrue'
  BY <1>1, <1>5 DEF IInv, BeliefsAreTrue
<1>7. CountInv'
  BY <1>1, <1>2 DEF IInv, CountInv, Questions, Calls
<1>8. OutcomeInv'
  BY <1>1 DEF IInv, OutcomeInv
<1>9. QuestionsInv'
  <2> SUFFICES ASSUME NEW i \in DOMAIN toEdge', toEdge'[i].kind \in Questions
               PROVE  /\ toEdge'[i].question < nextQuestion'
                      /\ toEdge'[i].question \in waiting' \cup refused'
                      /\ toEdge'[i].kind = step' <=> toEdge'[i].question \in waiting'
                      /\ toEdge'[i].kind \notin Ahead[step']
                      /\ toEdge'[i].kind = "register" => outcome' \notin Verdicts
    BY DEF QuestionsInv
  <2>1. CASE i \in DOMAIN toEdge /\ toEdge'[i] = toEdge[i]
    <3>1. toEdge[i] \in ToEdge
      BY <2>1, <1>2
    <3>2. toEdge[i].question \in Nat
      BY <3>1 DEF ToEdge
    <3> QED
      BY <2>1, <3>2, <1>1, <1>2 DEF IInv, QuestionsInv
  <2>2. CASE toEdge'[i] = m
    BY <2>2, <1>1, <1>2, <1>3
       DEF IInv, OutcomeInv, Ahead, Questions, Calls, Verdicts, Details
  <2> QED
    BY <2>1, <2>2, <1>4
<1>10. CapabilityInv'
  BY <1>1, <1>3, <1>4 DEF IInv, CapabilityInv, Questions, Calls
<1>11. FreshQuestions'
  <2>1. \A i \in DOMAIN toEdge : toEdge[i].kind \in Questions => toEdge[i].question # nextQuestion
    BY <1>2 DEF IInv, QuestionsInv
  <2>2. nextQuestion \notin edge.answers
    BY <1>2 DEF IInv, ReturnsInv
  <2> QED
    BY <2>1, <2>2, <1>1, <1>3, <1>4 DEF IInv, FreshQuestions
<1>12. AnswersAreFinished'
  BY <1>1, <1>4 DEF IInv, AnswersAreFinished, ToSet
<1>13. CallsHoldCapability'
  <2> SUFFICES ASSUME NEW i \in DOMAIN toEdge', toEdge'[i].kind \in Calls
               PROVE  /\ edge'.capability = "held"
                      /\ \A j \in 1 .. i - 1 : toEdge'[j].kind # "release"
    BY DEF CallsHoldCapability
  <2>1. \A j \in 1 .. i - 1 : j \in DOMAIN toEdge
    BY <1>2, <1>4
  <2>2. CASE i \in DOMAIN toEdge /\ toEdge'[i] = toEdge[i]
    BY <2>1, <2>2, <1>1, <1>4 DEF IInv, CallsHoldCapability
  <2>3. CASE toEdge'[i] = m
    BY <2>1, <2>3, <1>1, <1>3, <1>4 DEF IInv, CapabilityInv, Questions, Calls
  <2> QED
    BY <2>2, <2>3, <1>4
<1>14. ReturnsInv'
  <2>1. \A n : Credible(n) /\ n.answer \in Nat => Credible(n)'
    BY <1>1, <1>2 DEF Credible
  <2>2. /\ \A n \in edge.replies : n.answer \in Nat
        /\ \A i \in DOMAIN toClient : toClient[i].answer \in Nat
    <3>1. edge.replies \subseteq ToClient /\ \A i \in DOMAIN toClient : toClient[i] \in ToClient
      BY <1>2 DEF TypeOK
    <3> QED
      BY <3>1 DEF ToClient
  <2>3. \A q \in edge.answers : q \in Nat
    BY <1>2 DEF TypeOK
  <2> QED
    BY <2>1, <2>2, <2>3, <1>1, <1>2 DEF IInv, ReturnsInv
<1> QED
  BY <1>6, <1>7, <1>8, <1>9, <1>10, <1>11, <1>12, <1>13, <1>14 DEF IInv

LEMMA StartUnregisterKeeps == ASSUME IInv, StartUnregister PROVE IInv'
<1> USE DEF IInv, StartUnregister
<1>1. waiting = {}
  BY DEF CountInv, Questions, Calls
<1>2. TypeOK'
  BY DEF BeliefsAreTrue, TypeOK, Questions, Calls
<1>3. BeliefsAreTrue'
  BY <1>2 DEF BeliefsAreTrue
<1>4. CountInv' /\ OutcomeInv'
  BY <1>1 DEF CountInv, OutcomeInv, Questions, Calls
<1>5. QuestionsInv'
  BY <1>1 DEF QuestionsInv, Ahead, Questions, Calls
<1>6. CapabilityInv' /\ FreshQuestions' /\ AnswersAreFinished' /\ CallsHoldCapability'
  BY DEF CapabilityInv, FreshQuestions, AnswersAreFinished, CallsHoldCapability
<1>7. ReturnsInv'
  BY <1>1 DEF ReturnsInv, Credible
<1> QED
  BY <1>3, <1>4, <1>5, <1>6, <1>7

LEMMA LoseStreamKeeps == ASSUME IInv, LoseStream PROVE IInv'
BY DEF IInv, LoseStream, client, BeliefsAreTrue, TypeOK, CountInv, OutcomeInv,
       QuestionsInv, CapabilityInv, FreshQuestions, AnswersAreFinished,
       CallsHoldCapability, ReturnsInv, Credible, Genuine, Says

\* A message reaches the client: one the edge owed it, or one it did not expect.
LEMMA MessageArrives ==
  ASSUME IInv, NEW m \in ToClient, Credible(m), toClient' = Append(toClient, m),
         UNCHANGED <<client, toEdge, lost>>,
         edge'.replies \subseteq edge.replies,
         edge' = [edge EXCEPT !.replies = edge'.replies],
         strays' \in 0 .. MaxStray
  PROVE  IInv'
<1>1. TypeOK /\ toClient \in Seq(ToClient)
  BY TypedSteps DEF IInv, BeliefsAreTrue
<1>2. /\ toClient' \in Seq(ToClient)
      /\ \A i \in DOMAIN toClient' :
           \/ i \in DOMAIN toClient /\ toClient'[i] = toClient[i]
           \/ toClient'[i] = m
  BY <1>1, AppendElements
<1>3. /\ edge' \in [answers : SUBSET (0 .. 3), replies : SUBSET ToClient,
                    capability : {"none", "held", "released"},
                    tunnel : BOOLEAN, verdict : {"none"} \cup Bodies]
      /\ edge'.answers = edge.answers /\ edge'.capability = edge.capability
      /\ edge'.tunnel = edge.tunnel /\ edge'.verdict = edge.verdict
  BY <1>1 DEF TypeOK
<1>4. TypeOK'
  BY <1>1, <1>2, <1>3 DEF TypeOK, client
<1>5. BeliefsAreTrue'
  BY <1>3, <1>4 DEF IInv, BeliefsAreTrue, client
<1>6. CountInv' /\ OutcomeInv' /\ QuestionsInv'
  BY DEF IInv, CountInv, OutcomeInv, QuestionsInv, client
<1>7. CapabilityInv' /\ FreshQuestions' /\ AnswersAreFinished' /\ CallsHoldCapability'
  BY <1>3
     DEF IInv, CapabilityInv, FreshQuestions, AnswersAreFinished, CallsHoldCapability, client
<1>8. \A n : Credible(n) => Credible(n)'
  BY <1>3 DEF Credible, Genuine, Says, client
<1>9. ReturnsInv'
  BY <1>2, <1>3, <1>8 DEF IInv, ReturnsInv, client
<1> QED
  BY <1>5, <1>6, <1>7, <1>9 DEF IInv

LEMMA EdgeSendsKeeps == ASSUME IInv, EdgeReplies \/ EdgeStrays PROVE IInv'
<1>1. TypeOK
  BY DEF IInv, BeliefsAreTrue
<1>2. CASE EdgeReplies
  <2>1. PICK m \in edge.replies : /\ toClient' = Append(toClient, m)
                                  /\ edge' = [edge EXCEPT !.replies = @ \ {m}]
    BY <1>2 DEF EdgeReplies
  <2>2. m \in ToClient /\ Credible(m)
    BY <1>1, <2>1 DEF TypeOK, IInv, ReturnsInv
  <2>3. edge'.replies = edge.replies \ {m} /\ edge' = [edge EXCEPT !.replies = edge'.replies]
    BY <1>1, <2>1 DEF TypeOK
  <2> QED
    BY <1>1, <1>2, <2>1, <2>2, <2>3, MessageArrives DEF EdgeReplies, TypeOK
<1>3. CASE EdgeStrays
  <2>1. PICK m \in {[kind |-> k, answer |-> 0, body |-> "ok"] : k \in {"abort", "other"}}
                    \cup {Return(q, b) : q \in {p \in 0 .. 3 : p < nextQuestion} \ waiting,
                                         b \in {"ok", "remote"}} :
          toClient' = Append(toClient, m)
    BY <1>3 DEF EdgeStrays
  <2>2. m \in ToClient /\ Credible(m)
    <3>1. CASE m \in {[kind |-> k, answer |-> 0, body |-> "ok"] : k \in {"abort", "other"}}
      BY <3>1 DEF ToClient, Bodies, Credible
    <3>2. CASE m \in {Return(q, b) : q \in {p \in 0 .. 3 : p < nextQuestion} \ waiting,
                                     b \in {"ok", "remote"}}
      BY <3>2 DEF Return, ToClient, Bodies, Verdicts, Details, Credible
    <3> QED
      BY <2>1, <3>1, <3>2
  <2>3. edge' = edge /\ edge = [edge EXCEPT !.replies = edge.replies]
    BY <1>1, <1>3 DEF EdgeStrays, TypeOK
  <2>4. strays' \in 0 .. MaxStray
    BY <1>1, <1>3, StrayAssumption DEF EdgeStrays, TypeOK
  <2> QED
    BY <1>3, <2>1, <2>2, <2>3, <2>4, MessageArrives DEF EdgeStrays
<1> QED
  BY <1>2, <1>3

-----------------------------------------------------------------------------
\* The edge takes the oldest message.  Whatever it makes of it, what is left of
\* the client's messages keeps what does not depend on the edge.
LEMMA TakenFromTheFront ==
  ASSUME IInv, EdgeTakes
  PROVE  /\ toEdge \in Seq(ToEdge) /\ 1 \in DOMAIN toEdge /\ Head(toEdge) = toEdge[1]
         /\ Head(toEdge) \in ToEdge
         /\ toEdge' \in Seq(ToEdge)
         /\ \A i \in DOMAIN toEdge' :
              i + 1 \in DOMAIN toEdge /\ toEdge'[i] = toEdge[i + 1] /\ i \in Nat /\ i + 1 # 1
         /\ \A i \in DOMAIN toEdge : toEdge[i] = toEdge[1]
                                     \/ \E j \in DOMAIN toEdge' : toEdge'[j] = toEdge[i]
         /\ UNCHANGED <<client, toClient, lost, strays>>
         /\ TypeOK
         /\ CountInv' /\ OutcomeInv' /\ QuestionsInv'
<1>1. TypeOK /\ toEdge \in Seq(ToEdge) /\ toEdge # <<>> /\ toEdge' = Tail(toEdge)
      /\ UNCHANGED <<client, toClient, lost, strays>>
  BY TypedSteps DEF IInv, BeliefsAreTrue, EdgeTakes
<1>2. /\ 1 \in DOMAIN toEdge /\ Head(toEdge) = toEdge[1]
      /\ Head(toEdge) \in ToEdge
      /\ toEdge' \in Seq(ToEdge)
      /\ \A i \in DOMAIN toEdge' : i + 1 \in DOMAIN toEdge /\ toEdge'[i] = toEdge[i + 1] /\ i \in Nat
      /\ \A i \in DOMAIN toEdge :
           i = 1 \/ (i - 1 \in DOMAIN toEdge' /\ toEdge'[i - 1] = toEdge[i])
  BY <1>1, TailElements
<1>3. \A i \in DOMAIN toEdge' : i + 1 # 1
  BY <1>2
<1>4. CountInv' /\ OutcomeInv'
  BY <1>1 DEF IInv, CountInv, OutcomeInv, client
<1>5. QuestionsInv'
  BY <1>1, <1>2 DEF IInv, QuestionsInv, client
<1> QED
  BY <1>1, <1>2, <1>3, <1>4, <1>5

LEMMA EdgeServes ==
  ASSUME IInv, EdgeTakes, NEW h \in ToEdge, h = Head(toEdge), h.kind \in Questions
  PROVE  IInv'
<1>0. /\ toEdge \in Seq(ToEdge) /\ 1 \in DOMAIN toEdge /\ h = toEdge[1]
      /\ toEdge' \in Seq(ToEdge)
      /\ \A i \in DOMAIN toEdge' :
           i + 1 \in DOMAIN toEdge /\ toEdge'[i] = toEdge[i + 1] /\ i \in Nat /\ i + 1 # 1
      /\ \A i \in DOMAIN toEdge : toEdge[i] = h
                                  \/ \E j \in DOMAIN toEdge' : toEdge'[j] = toEdge[i]
      /\ UNCHANGED <<client, toClient, lost, strays>>
      /\ TypeOK
      /\ CountInv' /\ OutcomeInv' /\ QuestionsInv'
  BY TakenFromTheFront
<1>1. PICK body \in BodiesFor(h.kind) :
        edge' = [Serve(h.kind, body) EXCEPT
                   !.answers = @ \cup {h.question},
                   !.replies = @ \cup {Return(h.question, body)}]
  BY DEF EdgeTakes, Questions, Calls
<1>2. h.kind \in Questions /\ h.question \in Nat
  BY DEF ToEdge
<1>3. body \in Bodies /\ (h.kind = "register" => body \in Verdicts \cup Unhappy)
  BY <1>1, <1>2 DEF BodiesFor, Bodies, Questions, Calls
<1> DEFINE served == Serve(h.kind, body)
<1>4. /\ served \in [answers : SUBSET (0 .. 3), replies : SUBSET ToClient,
                     capability : {"none", "held", "released"},
                     tunnel : BOOLEAN, verdict : {"none"} \cup Bodies]
      /\ served.answers = edge.answers /\ served.replies = edge.replies
      /\ served.capability =
           IF h.kind = "bootstrap" /\ body = "ok" THEN "held" ELSE edge.capability
      /\ served.verdict = IF h.kind = "register" THEN body ELSE edge.verdict
      /\ served.tunnel = IF h.kind = "register" THEN body \in Details
                         ELSE edge.tunnel /\ h.kind # "unregister"
  <2> DEFINE c == IF h.kind = "bootstrap" /\ body = "ok" THEN "held" ELSE edge.capability
             v == IF h.kind = "register" THEN body ELSE edge.verdict
             t == IF h.kind = "register" THEN body \in Details
                  ELSE edge.tunnel /\ h.kind # "unregister"
  <2>1. edge \in [answers : SUBSET (0 .. 3), replies : SUBSET ToClient,
                  capability : {"none", "held", "released"},
                  tunnel : BOOLEAN, verdict : {"none"} \cup Bodies]
    BY <1>0 DEF TypeOK
  <2>2. c \in {"none", "held", "released"} /\ v \in {"none"} \cup Bodies
    BY <1>3, <2>1
  <2>3. t \in BOOLEAN
    <3>1. edge.tunnel \in BOOLEAN
      BY <2>1
    <3>2. CASE h.kind = "register" /\ body \in Details
      BY <3>2
    <3>3. CASE h.kind = "register" /\ body \notin Details
      BY <3>3
    <3>4. CASE h.kind \notin {"register", "unregister"}
      BY <3>1, <3>4
    <3>5. CASE h.kind = "unregister"
      BY <3>5
    <3> QED
      BY <3>2, <3>3, <3>4, <3>5
  <2>4. served = [edge EXCEPT !.capability = c, !.verdict = v, !.tunnel = t]
    BY DEF Serve
  <2> HIDE DEF c, v, t, served
  <2>5. /\ served \in [answers : SUBSET (0 .. 3), replies : SUBSET ToClient,
                       capability : {"none", "held", "released"},
                       tunnel : BOOLEAN, verdict : {"none"} \cup Bodies]
        /\ served.answers = edge.answers /\ served.replies = edge.replies
        /\ served.capability = c /\ served.verdict = v /\ served.tunnel = t
    BY <2>1, <2>2, <2>3, <2>4
  <2> QED
    BY <2>5 DEF c, v, t
<1> HIDE DEF served
<1>5. Return(h.question, body) \in ToClient
  BY <1>2, <1>3 DEF Return, ToClient
<1>6. h.question < nextQuestion /\ nextQuestion \in 0 .. 4
  BY <1>0, <1>2 DEF IInv, QuestionsInv, TypeOK
<1>7. /\ edge' \in [answers : SUBSET (0 .. 3), replies : SUBSET ToClient,
                    capability : {"none", "held", "released"},
                    tunnel : BOOLEAN, verdict : {"none"} \cup Bodies]
      /\ edge'.answers = edge.answers \cup {h.question}
      /\ edge'.replies = edge.replies \cup {Return(h.question, body)}
      /\ edge'.capability = served.capability
      /\ edge'.tunnel = served.tunnel /\ edge'.verdict = served.verdict
  <2>1. h.question \in 0 .. 3
    BY <1>2, <1>6
  <2>2. edge' = [served EXCEPT !.answers = @ \cup {h.question},
                               !.replies = @ \cup {Return(h.question, body)}]
    BY <1>1 DEF served
  <2> QED
    BY <1>4, <1>5, <2>1, <2>2
<1>8. TypeOK'
  BY <1>0, <1>7 DEF TypeOK, client
\* A second question with the id of the first is the first.
<1>9. \A i \in DOMAIN toEdge' :
        toEdge'[i].kind \in Questions => toEdge'[i].question # h.question
  BY <1>0, <1>2 DEF IInv, FreshQuestions
<1>10. BeliefsAreTrue'
  <2>1. h.kind = "register" => outcome \notin Verdicts
    BY <1>0, <1>2 DEF IInv, QuestionsInv
  <2>2. h.kind \notin Ahead[step] /\ (h.kind = step <=> h.question \in waiting)
    BY <1>0, <1>2 DEF IInv, QuestionsInv
  <2>3. outcome' \in Verdicts => edge'.verdict = outcome'
    BY <1>0, <1>4, <1>7, <2>1 DEF IInv, BeliefsAreTrue, client
  <2>4. step' \in {"configure", "registered"} => edge'.tunnel
    BY <1>0, <1>4, <1>7, <2>1, <2>2
       DEF IInv, BeliefsAreTrue, OutcomeInv, Ahead, client, Verdicts
  <2>5. goodbye' = "confirmed" => ~edge'.tunnel
    BY <1>0, <1>4, <1>7, <2>1 DEF IInv, BeliefsAreTrue, OutcomeInv, client, Verdicts
  <2> QED
    BY <1>8, <2>3, <2>4, <2>5 DEF BeliefsAreTrue
<1>11. CapabilityInv'
  BY <1>0, <1>4, <1>7 DEF IInv, CapabilityInv, client
<1>12. FreshQuestions'
  <2> SUFFICES ASSUME NEW i \in DOMAIN toEdge', toEdge'[i].kind \in Questions
               PROVE  /\ toEdge'[i].question \notin edge'.answers
                      /\ \A j \in DOMAIN toEdge' :
                           toEdge'[j].kind \in Questions
                             /\ toEdge'[j].question = toEdge'[i].question => i = j
    BY DEF FreshQuestions
  <2>1. toEdge'[i].question \notin edge'.answers
    BY <1>0, <1>7, <1>9 DEF IInv, FreshQuestions
  <2>2. ASSUME NEW j \in DOMAIN toEdge', toEdge'[j].kind \in Questions,
               toEdge'[j].question = toEdge'[i].question
        PROVE  i = j
    <3>1. i + 1 = j + 1
      BY <1>0, <2>2 DEF IInv, FreshQuestions
    <3> QED
      BY <1>0, <3>1
  <2> QED
    BY <2>1, <2>2
<1>13. AnswersAreFinished'
  <2>1. h.question \in waiting \cup refused
    BY <1>0, <1>2 DEF IInv, QuestionsInv
  <2>2. h.kind # "finish"
    BY <1>2 DEF Questions, Calls
  <2> SUFFICES ASSUME NEW q \in edge'.answers
               PROVE  \/ q \in waiting \cup refused
                      \/ \E i \in DOMAIN toEdge' : toEdge'[i].kind = "finish" /\ toEdge'[i].question = q
    BY <1>0 DEF AnswersAreFinished, ToSet, client
  <2>3. CASE q = h.question
    BY <2>1, <2>3
  <2>4. CASE \E i \in DOMAIN toEdge : toEdge[i].kind = "finish" /\ toEdge[i].question = q
    BY <1>0, <2>2, <2>4
  <2>5. \/ q = h.question \/ q \in waiting \cup refused
        \/ \E i \in DOMAIN toEdge : toEdge[i].kind = "finish" /\ toEdge[i].question = q
    BY <1>7 DEF IInv, AnswersAreFinished, ToSet
  <2> QED
    BY <2>3, <2>4, <2>5
<1>14. CallsHoldCapability'
  <2> SUFFICES ASSUME NEW i \in DOMAIN toEdge', toEdge'[i].kind \in Calls
               PROVE  /\ edge'.capability = "held"
                      /\ \A j \in 1 .. i - 1 : toEdge'[j].kind # "release"
    BY DEF CallsHoldCapability
  <2>1. /\ edge.capability = "held"
        /\ \A j \in 1 .. (i + 1) - 1 : toEdge[j].kind # "release"
    BY <1>0 DEF IInv, CallsHoldCapability
  <2>2. edge'.capability = "held"
    BY <1>4, <1>7, <2>1
  <2>3. i \in 1 .. Len(toEdge') /\ Len(toEdge') \in Nat
    BY <1>0
  <2>4. \A j \in 1 .. i - 1 : toEdge'[j].kind # "release"
    <3> SUFFICES ASSUME NEW j \in 1 .. i - 1 PROVE toEdge'[j].kind # "release"
      OBVIOUS
    <3>1. j \in 1 .. Len(toEdge') /\ j + 1 \in 1 .. (i + 1) - 1
      BY <2>3
    <3>2. j \in DOMAIN toEdge'
      BY <1>0, <3>1
    <3>3. toEdge'[j] = toEdge[j + 1]
      BY <1>0, <3>2
    <3> QED
      BY <2>1, <3>1, <3>3
  <2> QED
    BY <2>2, <2>4
<1>15. ReturnsInv'
  <2>1. ASSUME NEW m, Credible(m) PROVE Credible(m)'
    <3> SUFFICES ASSUME m.kind = "return", m.answer \in waiting
                 PROVE  Genuine(m)'
      BY <2>1, <1>0 DEF Credible, client
    <3>1. Genuine(m)
      BY <2>1 DEF Credible
    <3>2. m.answer # h.question
      BY <1>0, <1>2, <3>1 DEF Genuine
    <3>3. h.kind # step
      \* Only one question waits.
      BY <1>0, <1>2, <3>2 DEF IInv, QuestionsInv, CountInv
    <3>4. \A i \in DOMAIN toEdge' :
            toEdge'[i].kind \in Questions => toEdge'[i].question # m.answer
      BY <1>0, <3>1 DEF Genuine
    <3>5. Says(m.body)'
      <4>1. Says(m.body) /\ h.kind \notin Ahead[step]
        BY <1>0, <1>2, <3>1 DEF Genuine, IInv, QuestionsInv
      <4>2. step = "bootstrap" /\ m.body = "ok" => edge'.capability = "held"
        BY <1>4, <1>7, <4>1 DEF Says
      <4>3. step = "register" => edge'.verdict = edge.verdict /\ edge'.tunnel = edge.tunnel
        BY <1>0, <1>4, <1>7, <3>3, <4>1 DEF Ahead, TypeOK
      <4>4. step = "unregister" /\ m.body = "ok" => ~edge'.tunnel
        <5>1. h.kind = "register" => outcome \notin Verdicts
          BY <1>0, <1>2 DEF IInv, QuestionsInv
        <5> QED
          BY <1>4, <1>7, <4>1, <5>1 DEF Says, IInv, OutcomeInv, Verdicts
      <4> QED
        BY <1>0, <4>1, <4>2, <4>3, <4>4 DEF Says, client
    <3> QED
      BY <3>4, <3>5 DEF Genuine
  <2>2. Credible(Return(h.question, body))'
    <3> DEFINE m == Return(h.question, body)
    <3>1. m.answer = h.question /\ m.body = body
      BY DEF Return
    <3> HIDE DEF m
    <3>2. h.question \in waiting => Says(body)'
      <4> SUFFICES ASSUME h.question \in waiting PROVE Says(body)'
        OBVIOUS
      <4>1. h.kind = step
        BY <1>0, <1>2 DEF IInv, QuestionsInv
      <4> QED
        BY <4>1, <1>0, <1>4, <1>7 DEF Says, client
    <3>3. h.question \in waiting => Genuine(m)'
      BY <1>9, <3>1, <3>2 DEF Genuine
    <3> QED
      BY <1>0, <1>6, <3>1, <3>3 DEF Credible, client, m
  <2>3. \A q \in edge'.answers : q < nextQuestion'
    BY <1>0, <1>6, <1>7 DEF IInv, ReturnsInv, client
  <2>4. \A m \in edge'.replies : Credible(m)'
    BY <1>7, <2>1, <2>2 DEF IInv, ReturnsInv
  <2>5. \A i \in DOMAIN toClient' : Credible(toClient[i])'
    BY <1>0, <2>1 DEF IInv, ReturnsInv
  <2> QED
    BY <2>3, <2>4, <2>5 DEF ReturnsInv
<1> QED
  BY <1>0, <1>10, <1>11, <1>12, <1>13, <1>14, <1>15 DEF IInv

\* A finish or a release is carried out: no question is.
LEMMA EdgeForgets ==
  ASSUME IInv, EdgeTakes, NEW h \in ToEdge, h = Head(toEdge), h.kind \in {"finish", "release"}
  PROVE  IInv'
<1>0. /\ toEdge \in Seq(ToEdge) /\ 1 \in DOMAIN toEdge /\ h = toEdge[1]
      /\ toEdge' \in Seq(ToEdge)
      /\ \A i \in DOMAIN toEdge' :
           i + 1 \in DOMAIN toEdge /\ toEdge'[i] = toEdge[i + 1] /\ i \in Nat /\ i + 1 # 1
      /\ \A i \in DOMAIN toEdge : toEdge[i] = h
                                  \/ \E j \in DOMAIN toEdge' : toEdge'[j] = toEdge[i]
      /\ UNCHANGED <<client, toClient, lost, strays>>
      /\ TypeOK
      /\ CountInv' /\ OutcomeInv' /\ QuestionsInv'
  BY TakenFromTheFront
<1>1. \/ h.kind = "finish" /\ edge' = [edge EXCEPT !.answers = @ \ {h.question}]
      \/ h.kind = "release" /\ edge' = [edge EXCEPT !.capability = "released"]
  BY DEF EdgeTakes, Questions, Calls
<1>2. /\ edge' \in [answers : SUBSET (0 .. 3), replies : SUBSET ToClient,
                    capability : {"none", "held", "released"},
                    tunnel : BOOLEAN, verdict : {"none"} \cup Bodies]
      /\ edge'.answers = edge.answers \ (IF h.kind = "finish" THEN {h.question} ELSE {})
      /\ edge'.replies = edge.replies
      /\ edge'.capability = IF h.kind = "release" THEN "released" ELSE edge.capability
      /\ edge'.tunnel = edge.tunnel /\ edge'.verdict = edge.verdict
  <2>1. edge \in [answers : SUBSET (0 .. 3), replies : SUBSET ToClient,
                  capability : {"none", "held", "released"},
                  tunnel : BOOLEAN, verdict : {"none"} \cup Bodies]
    BY <1>0 DEF TypeOK
  <2>2. CASE h.kind = "finish" /\ edge' = [edge EXCEPT !.answers = @ \ {h.question}]
    BY <2>1, <2>2
  <2>3. CASE h.kind = "release" /\ edge' = [edge EXCEPT !.capability = "released"]
    BY <2>1, <2>3
  <2> QED
    BY <1>1, <2>2, <2>3
<1>3. TypeOK'
  BY <1>0, <1>2 DEF TypeOK, client
<1>4. BeliefsAreTrue'
  BY <1>0, <1>2, <1>3 DEF IInv, BeliefsAreTrue, client
<1>5. CapabilityInv'
  BY <1>0, <1>2 DEF IInv, CapabilityInv, client
<1>6. FreshQuestions'
  <2> SUFFICES ASSUME NEW i \in DOMAIN toEdge', toEdge'[i].kind \in Questions
               PROVE  /\ toEdge'[i].question \notin edge'.answers
                      /\ \A j \in DOMAIN toEdge' :
                           toEdge'[j].kind \in Questions
                             /\ toEdge'[j].question = toEdge'[i].question => i = j
    BY DEF FreshQuestions
  <2>1. toEdge'[i].question \notin edge'.answers
    BY <1>0, <1>2 DEF IInv, FreshQuestions
  <2>2. ASSUME NEW j \in DOMAIN toEdge', toEdge'[j].kind \in Questions,
               toEdge'[j].question = toEdge'[i].question
        PROVE  i = j
    <3>1. i + 1 = j + 1
      BY <1>0, <2>2 DEF IInv, FreshQuestions
    <3> QED
      BY <1>0, <3>1
  <2> QED
    BY <2>1, <2>2
<1>7. AnswersAreFinished'
  <2>0. waiting' = waiting /\ refused' = refused
    BY <1>0 DEF client
  <2> SUFFICES ASSUME NEW q \in edge'.answers
               PROVE  \/ q \in waiting \cup refused
                      \/ \E i \in DOMAIN toEdge' : toEdge'[i].kind = "finish" /\ toEdge'[i].question = q
    BY <2>0 DEF AnswersAreFinished, ToSet
  <2>1. \/ q \in waiting \cup refused
        \/ \E i \in DOMAIN toEdge : toEdge[i].kind = "finish" /\ toEdge[i].question = q
    BY <1>2 DEF IInv, AnswersAreFinished, ToSet
  <2>2. CASE \E i \in DOMAIN toEdge : toEdge[i].kind = "finish" /\ toEdge[i].question = q
    <3>1. PICK i \in DOMAIN toEdge : toEdge[i].kind = "finish" /\ toEdge[i].question = q
      BY <2>2
    <3>2. toEdge[i] # h
      BY <1>2, <3>1
    <3> QED
      BY <1>0, <3>1, <3>2
  <2> QED
    BY <2>1, <2>2
<1>8. CallsHoldCapability'
  <2> SUFFICES ASSUME NEW i \in DOMAIN toEdge', toEdge'[i].kind \in Calls
               PROVE  /\ edge'.capability = "held"
                      /\ \A j \in 1 .. i - 1 : toEdge'[j].kind # "release"
    BY DEF CallsHoldCapability
  <2>1. /\ edge.capability = "held"
        /\ \A j \in 1 .. (i + 1) - 1 : toEdge[j].kind # "release"
    BY <1>0 DEF IInv, CallsHoldCapability
  <2>2. 1 \in 1 .. (i + 1) - 1 /\ \A j \in 1 .. i - 1 : j \in DOMAIN toEdge' /\ j + 1 \in 1 .. (i + 1) - 1
    BY <1>0
  <2>3. edge'.capability = "held"
    BY <1>0, <1>2, <2>1, <2>2
  <2>4. \A j \in 1 .. i - 1 : toEdge'[j].kind # "release"
    BY <1>0, <2>1, <2>2
  <2> QED
    BY <2>3, <2>4
<1>9. ReturnsInv'
  <2>1. ASSUME NEW m, Credible(m) PROVE Credible(m)'
    <3> SUFFICES ASSUME m.kind = "return", m.answer \in waiting
                 PROVE  Genuine(m)'
      BY <2>1, <1>0 DEF Credible, client
    <3>1. Genuine(m)
      BY <2>1 DEF Credible
    \* Nothing is released while a question waits.
    <3>2. h.kind # "release"
      BY <1>0 DEF IInv, CountInv, CapabilityInv, Questions, Calls
    <3>3. \A i \in DOMAIN toEdge' :
            toEdge'[i].kind \in Questions => toEdge'[i].question # m.answer
      BY <1>0, <3>1 DEF Genuine
    <3>4. Says(m.body)'
      BY <1>0, <1>2, <3>1, <3>2 DEF Genuine, Says, client
    <3> QED
      BY <3>3, <3>4 DEF Genuine
  <2>2. \A q \in edge'.answers : q < nextQuestion'
    BY <1>0, <1>2 DEF IInv, ReturnsInv, client
  <2>3. \A m \in edge'.replies : Credible(m)'
    BY <1>2, <2>1 DEF IInv, ReturnsInv
  <2>4. \A i \in DOMAIN toClient' : Credible(toClient[i])'
    BY <1>0, <2>1 DEF IInv, ReturnsInv
  <2> QED
    BY <2>2, <2>3, <2>4 DEF ReturnsInv
<1> QED
  BY <1>0, <1>4, <1>5, <1>6, <1>7, <1>8, <1>9 DEF IInv

LEMMA EdgeTakesKeeps == ASSUME IInv, EdgeTakes PROVE IInv'
<1>1. PICK h \in ToEdge : h = Head(toEdge)
  BY TakenFromTheFront
<1>2. h.kind \in Questions \cup {"finish", "release"}
  BY DEF ToEdge
<1> QED
  BY <1>1, <1>2, EdgeServes, EdgeForgets

-----------------------------------------------------------------------------
LEMMA NextInv == ASSUME IInv, [Next]_vars PROVE IInv'
<1>1. CASE Client
  BY <1>1, SendQuestionKeeps, ReadMessageKeeps, StreamFailsKeeps, DropsKeep DEF Client
<1>2. CASE StartUnregister \/ LoseStream
  BY <1>2, StartUnregisterKeeps, LoseStreamKeeps
<1>3. CASE EdgeTakes \/ EdgeReplies \/ EdgeStrays
  BY <1>3, EdgeTakesKeeps, EdgeSendsKeeps
<1>4. CASE UNCHANGED vars
  BY <1>4 DEF vars, IInv, BeliefsAreTrue, TypeOK, CountInv, OutcomeInv, QuestionsInv,
              CapabilityInv, ReturnsInv, Credible, Genuine, Says, FreshQuestions,
              AnswersAreFinished, CallsHoldCapability
<1> QED
  BY <1>1, <1>2, <1>3, <1>4 DEF Next

LEMMA Invariance == Spec => []IInv
<1>1. Init => IInv
  BY InitInv
<1>2. IInv /\ [Next]_vars => IInv'
  BY NextInv
<1> QED
  BY <1>1, <1>2, PTL DEF Spec

(* What register_on_stream reports is the edge's own answer, a connection   *)
(* that counts as registered has its tunnel, and a confirmed goodbye was    *)
(* carried out, whatever else the edge sends (expect_return, rpc.rs).       *)
THEOREM BeliefsHold == Spec => []BeliefsAreTrue
<1>1. IInv => BeliefsAreTrue
  BY DEF IInv
<1> QED
  BY <1>1, Invariance, PTL

(* No question id is used again while the edge may still know it            *)
(* (next_question, rpc.rs).                                                 *)
THEOREM QuestionsAreFresh == Spec => []FreshQuestions
<1>1. IInv => FreshQuestions
  BY DEF IInv
<1> QED
  BY <1>1, Invariance, PTL

(* Every answer at the edge is awaited, about to be finished, or one the    *)
(* client refused: nothing else is left in its table (send_finish, rpc.rs). *)
THEOREM AnswersGetFinished == Spec => []AnswersAreFinished
<1>1. IInv => AnswersAreFinished
  BY DEF IInv
<1> QED
  BY <1>1, Invariance, PTL

(* No call reaches the edge before the bootstrap was answered or after the  *)
(* capability was released (has_bootstrap and close, rpc.rs).               *)
THEOREM CallsAreHeld == Spec => []CallsHoldCapability
<1>1. IInv => CallsHoldCapability
  BY DEF IInv
<1> QED
  BY <1>1, Invariance, PTL

-----------------------------------------------------------------------------
(* The exchange as a session takes it: ControlExchange.                     *)

\* A register call is on its way once, before the edge decided; an unregister
\* call outlives the client's patience only as a failed farewell; and a client
\* that left has said how.
ExchangeInv ==
  /\ step = "bootstrap" \/ (step = "register" /\ waiting = {}) => edge.verdict = "none"
  /\ \A i \in DOMAIN toEdge :
       toEdge[i].kind = "register" =>
         /\ edge.verdict = "none"
         /\ \A j \in DOMAIN toEdge : toEdge[j].kind = "register" => i = j
  /\ \A i \in DOMAIN toEdge :
       toEdge[i].kind = "unregister" /\ step = "over" => goodbye # "none"
  /\ step = "over" => outcome # "none"
  /\ goodbye # "none" => step = "over" /\ outcome \in Details
  /\ edge.verdict \in {"none"} \cup Verdicts \cup Unhappy

\* What a message that was read does to the call in progress.
LEMMA MessageEndsCall ==
  ASSUME IInv, ReadMessage
  PROVE  \E body \in Bodies, last \in {<<>>} \cup {<<Finish(q)>> : q \in Nat} :
           Ends(body, last) /\ Says(body)
<1>1. /\ TypeOK /\ toClient # <<>> /\ toClient \in Seq(ToClient)
  BY TypedSteps DEF IInv, BeliefsAreTrue, ReadMessage
<1>2. Head(toClient) \in ToClient /\ 1 \in DOMAIN toClient /\ Head(toClient) = toClient[1]
  BY <1>1, TailElements
<1> DEFINE m == Head(toClient)
<1>3. m.body \in Bodies /\ Credible(m)
  BY <1>2 DEF IInv, ReturnsInv, ToClient
<1>4. PICK q \in waiting :
        \/ Answers(m, q) /\ Ends(m.body, Closing(q, m.body))
        \/ ~Answers(m, q) /\ Ends("unreadable", <<>>)
  BY DEF ReadMessage
<1> HIDE DEF m
<1>5. q \in Nat
  BY <1>1, <1>4 DEF TypeOK
<1>6. CASE Answers(m, q) /\ Ends(m.body, Closing(q, m.body))
  <2>1. Says(m.body)
    BY <1>3, <1>4, <1>6 DEF Answers, Credible, Genuine
  <2>2. Ends(m.body, <<Finish(q)>>)
    BY <1>6 DEF Closing
  <2> QED
    BY <1>3, <1>5, <2>1, <2>2
<1>7. CASE Ends("unreadable", <<>>)
  <2>1. "unreadable" \in Bodies /\ Says("unreadable")
    BY DEF Bodies, Unhappy, Says, Verdicts, Details
  <2> QED
    BY <1>7, <2>1
<1> QED
  BY <1>4, <1>6, <1>7

\* What the end of a call, by a message, a failure or a timer, makes of the
\* client for the exchange.
Closes ==
  /\ step' \in Following[step]
  /\ step' = "over" => outcome' # "none"
  /\ goodbye' # "none" => step' = "over" /\ outcome' \in Details
  /\ step = "unregister" => goodbye' # "none"

LEMMA EndsCloses ==
  ASSUME IInv, ExchangeInv, NEW body, NEW last, Ends(body, last)
  PROVE  Closes
<1> USE DEF IInv, ExchangeInv, OutcomeInv, Closes, Following
<1>1. CASE step = "bootstrap" /\ BootstrapEnds(body = "ok", last)
  BY <1>1 DEF BootstrapEnds, Leave
<1>2. CASE step = "register" /\ RegisterEnds(body, last)
  BY <1>2 DEF RegisterEnds, Leave, Verdicts, Details
<1>3. CASE step = "configure" /\ ConfigureEnds(body = "ok", last)
  BY <1>3 DEF ConfigureEnds, Registered, Details
<1>4. CASE step = "unregister" /\ UnregisterEnds(body = "ok", last)
  BY <1>4 DEF UnregisterEnds, Details
<1> QED
  BY <1>1, <1>2, <1>3, <1>4 DEF Ends

LEMMA ClosingKeepsExchange ==
  ASSUME IInv, ExchangeInv, Closes, NEW w \in Closings, toEdge' = toEdge \o w, edge' = edge
  PROVE  ExchangeInv'
<1>1. TypeOK /\ toEdge \in Seq(ToEdge) /\ w \in Seq(ToEdge)
      /\ \A i \in DOMAIN w : w[i].kind \in {"finish", "release"}
  BY TypedSteps DEF IInv, BeliefsAreTrue, Closings
<1>2. \A i \in DOMAIN toEdge' :
        toEdge'[i].kind \in Questions => i \in DOMAIN toEdge /\ toEdge'[i] = toEdge[i]
  <2>1. \A i \in DOMAIN toEdge' :
          \/ i \in DOMAIN toEdge /\ toEdge'[i] = toEdge[i]
          \/ i - Len(toEdge) \in DOMAIN w /\ toEdge'[i] = w[i - Len(toEdge)]
    BY <1>1, ConcatElements
  <2> QED
    BY <1>1, <2>1 DEF Questions, Calls
<1>3. step \in {"bootstrap", "register", "configure", "unregister"}
  BY <1>1, TypedSteps DEF Closes, Following
\* The edge is asked to unregister in the step of that name.
<1>4. \A i \in DOMAIN toEdge : toEdge[i].kind = "unregister" => step = "unregister"
  BY <1>3 DEF IInv, QuestionsInv, Ahead, Questions, Calls
<1>5. \A i \in DOMAIN toEdge' :
        toEdge'[i].kind = "register" =>
          /\ edge.verdict = "none"
          /\ \A j \in DOMAIN toEdge' : toEdge'[j].kind = "register" => i = j
  BY <1>2 DEF ExchangeInv, Questions, Calls
<1>6. \A i \in DOMAIN toEdge' :
        toEdge'[i].kind = "unregister" /\ step' = "over" => goodbye' # "none"
  BY <1>2, <1>4 DEF Closes, Questions, Calls
<1>7. step' = "bootstrap" \/ (step' = "register" /\ waiting' = {}) => edge.verdict = "none"
  BY <1>3 DEF Closes, Following, ExchangeInv
<1> QED
  BY <1>5, <1>6, <1>7 DEF Closes, ExchangeInv

\* The other steps of the client and of the network.
LEMMA ClientKeepsExchange ==
  ASSUME IInv, ExchangeInv, Client
  PROVE  ExchangeInv'
<1>1. CASE ReadMessage
  <2>1. PICK body \in Bodies, last \in {<<>>} \cup {<<Finish(q)>> : q \in Nat} :
          Ends(body, last)
    BY <1>1, MessageEndsCall
  <2>2. ~lost /\ edge' = edge
    BY <1>1 DEF ReadMessage
  <2>3. \E w \in Closings : toEdge' = toEdge \o w
    BY <2>1, <2>2, EndsWrite DEF IInv, BeliefsAreTrue
  <2> QED
    BY <2>1, <2>2, <2>3, EndsCloses, ClosingKeepsExchange
<1>2. CASE StreamFails
  <2>1. Ends("unreadable", <<>>) /\ edge' = edge
    BY <1>2 DEF StreamFails
  <2>2. \E w \in Closings : toEdge' = toEdge \o w
    BY <2>1, EndsWrite DEF IInv, BeliefsAreTrue
  <2> QED
    BY <2>1, <2>2, EndsCloses, ClosingKeepsExchange
<1>3. CASE TunnelIdInvalid \/ RpcTimeout \/ UnregisterTimeout
  <2>1. toEdge \in Seq(ToEdge) /\ TypeOK
    BY TypedSteps DEF IInv, BeliefsAreTrue
  <2>2. toEdge' = toEdge \o <<>> /\ edge' = edge
    BY <1>3, <2>1 DEF TunnelIdInvalid, RpcTimeout, UnregisterTimeout, Leave
  <2>3. <<>> \in Closings
    BY DEF Closings
  <2>4. Closes
    BY <1>3 DEF TunnelIdInvalid, RpcTimeout, UnregisterTimeout, Leave, Closes, Following,
                IInv, OutcomeInv, ExchangeInv, Details
  <2> QED
    BY <2>2, <2>3, <2>4, ClosingKeepsExchange
<1>4. CASE \E kind \in Questions : SendQuestion(kind)
  <2>1. PICK kind \in Questions : SendQuestion(kind)
    BY <1>4
  <2> DEFINE m == Ask(kind, nextQuestion)
  <2>2. /\ step = kind /\ waiting = {} /\ waiting' # {} /\ toEdge' = Append(toEdge, m)
        /\ UNCHANGED <<step, outcome, goodbye, edge>>
    BY <2>1 DEF SendQuestion
  <2>3. toEdge \in Seq(ToEdge) /\ m \in ToEdge /\ m.kind = kind
    BY TypedSteps DEF IInv, BeliefsAreTrue, Ask, ToEdge
  <2> HIDE DEF m
  <2>4. \A i \in DOMAIN toEdge' :
          \/ i \in DOMAIN toEdge /\ toEdge'[i] = toEdge[i]
          \/ i = Len(toEdge) + 1 /\ toEdge'[i] = m
    BY <2>2, <2>3, AppendElements
  \* Nothing of this kind is on its way, or the client would wait for it.
  <2>5. \A i \in DOMAIN toEdge : toEdge[i].kind # kind
    BY <2>1, <2>2 DEF IInv, QuestionsInv
  <2>6. kind = "register" => edge.verdict = "none"
    BY <2>2 DEF ExchangeInv
  <2>7. \A i \in DOMAIN toEdge' :
          toEdge'[i].kind = "register" =>
            /\ edge.verdict = "none"
            /\ \A j \in DOMAIN toEdge' : toEdge'[j].kind = "register" => i = j
    BY <2>3, <2>4, <2>5, <2>6 DEF ExchangeInv
  <2>8. \A i \in DOMAIN toEdge' :
          toEdge'[i].kind = "unregister" /\ step = "over" => goodbye # "none"
    BY <2>1, <2>2, <2>4 DEF ExchangeInv, Questions, Calls
  <2> QED
    BY <2>2, <2>7, <2>8 DEF ExchangeInv
<1> QED
  BY <1>1, <1>2, <1>3, <1>4 DEF Client

\* What the edge makes of the oldest message.
LEMMA EdgeDecides ==
  ASSUME IInv, EdgeTakes
  PROVE  \/ edge'.verdict = edge.verdict /\ edge'.tunnel = edge.tunnel
         \/ /\ toEdge[1].kind = "register"
            /\ edge'.verdict \in Verdicts \cup Unhappy
            /\ edge'.tunnel = (edge'.verdict \in Details)
         \/ /\ toEdge[1].kind = "unregister"
            /\ edge'.verdict = edge.verdict
            /\ ~edge'.tunnel
<1>1. TypeOK /\ Head(toEdge) = toEdge[1] /\ toEdge[1] \in ToEdge
  BY TakenFromTheFront
<1>2. edge \in [answers : SUBSET (0 .. 3), replies : SUBSET ToClient,
                capability : {"none", "held", "released"},
                tunnel : BOOLEAN, verdict : {"none"} \cup Bodies]
  BY <1>1 DEF TypeOK
<1> DEFINE h == toEdge[1]
<1>3. CASE h.kind \in Questions
  <2>1. PICK body \in BodiesFor(h.kind) :
          edge' = [Serve(h.kind, body) EXCEPT
                     !.answers = @ \cup {h.question},
                     !.replies = @ \cup {Return(h.question, body)}]
    BY <1>1, <1>3 DEF EdgeTakes, Questions, Calls
  <2>2. /\ edge'.verdict = IF h.kind = "register" THEN body ELSE edge.verdict
        /\ edge'.tunnel = IF h.kind = "register" THEN body \in Details
                          ELSE edge.tunnel /\ h.kind # "unregister"
    BY <1>2, <2>1 DEF Serve
  <2>3. CASE h.kind = "register"
    <3>1. body \in Verdicts \cup Unhappy
      BY <2>1, <2>3 DEF BodiesFor
    <3> QED
      BY <2>2, <2>3, <3>1
  <2>4. CASE h.kind = "unregister"
    BY <2>2, <2>4
  <2>5. CASE h.kind \notin {"register", "unregister"}
    BY <1>2, <2>2, <2>5
  <2> QED
    BY <2>3, <2>4, <2>5
<1>4. CASE h.kind \notin Questions
  BY <1>1, <1>2, <1>4 DEF EdgeTakes
<1> QED
  BY <1>3, <1>4

LEMMA NextKeepsExchange ==
  ASSUME IInv, ExchangeInv, [Next]_vars
  PROVE  ExchangeInv'
<1>1. CASE Client
  BY <1>1, ClientKeepsExchange
<1>2. CASE EdgeTakes
  <2>1. /\ 1 \in DOMAIN toEdge /\ toEdge \in Seq(ToEdge)
        /\ \A i \in DOMAIN toEdge' :
             i + 1 \in DOMAIN toEdge /\ toEdge'[i] = toEdge[i + 1] /\ i \in Nat /\ i + 1 # 1
        /\ UNCHANGED client
    BY <1>2, TakenFromTheFront
  <2>2. UNCHANGED <<step, waiting, outcome, goodbye>>
    BY <2>1 DEF client
  <2>3. /\ edge'.verdict = edge.verdict \/ toEdge[1].kind = "register"
        /\ edge'.verdict \in {"none"} \cup Verdicts \cup Unhappy
    BY <1>2, EdgeDecides DEF ExchangeInv
  \* Once it is taken, no other is on its way.
  <2>4. toEdge[1].kind = "register" => \A i \in DOMAIN toEdge' : toEdge'[i].kind # "register"
    BY <2>1 DEF ExchangeInv
  <2>5. step = "bootstrap" \/ (step = "register" /\ waiting = {}) => toEdge[1].kind # "register"
    BY <2>1 DEF IInv, QuestionsInv, CountInv, Ahead, Questions, Calls
  <2>6. \A i \in DOMAIN toEdge' :
          toEdge'[i].kind = "register" =>
            /\ edge'.verdict = "none"
            /\ \A j \in DOMAIN toEdge' : toEdge'[j].kind = "register" => i = j
    <3> SUFFICES ASSUME NEW i \in DOMAIN toEdge', toEdge'[i].kind = "register"
                 PROVE  /\ edge'.verdict = "none"
                        /\ \A j \in DOMAIN toEdge' : toEdge'[j].kind = "register" => i = j
      OBVIOUS
    <3>1. edge'.verdict = "none"
      BY <2>1, <2>3, <2>4 DEF ExchangeInv
    <3>2. \A j \in DOMAIN toEdge' : toEdge'[j].kind = "register" => i + 1 = j + 1
      BY <2>1 DEF ExchangeInv
    <3> QED
      BY <2>1, <3>1, <3>2
  <2>7. \A i \in DOMAIN toEdge' :
          toEdge'[i].kind = "unregister" /\ step = "over" => goodbye # "none"
    BY <2>1 DEF ExchangeInv
  <2> QED
    BY <2>2, <2>3, <2>5, <2>6, <2>7 DEF ExchangeInv
<1>3. CASE EdgeReplies \/ EdgeStrays \/ LoseStream
  <2>1. UNCHANGED <<step, waiting, outcome, goodbye, toEdge>>
    BY <1>3 DEF EdgeReplies, EdgeStrays, LoseStream, client
  <2>2. edge'.verdict = edge.verdict
    BY <1>3 DEF EdgeReplies, EdgeStrays, LoseStream, IInv, BeliefsAreTrue, TypeOK
  <2> QED
    BY <2>1, <2>2 DEF ExchangeInv
<1>4. CASE StartUnregister
  <2>1. step = "registered" /\ step' = "unregister"
        /\ UNCHANGED <<waiting, outcome, goodbye, toEdge, edge>>
    BY <1>4 DEF StartUnregister
  <2> QED
    BY <2>1 DEF ExchangeInv
<1>5. CASE UNCHANGED vars
  BY <1>5 DEF vars, ExchangeInv
<1> QED
  BY <1>1, <1>2, <1>3, <1>4, <1>5 DEF Next

-----------------------------------------------------------------------------
\* The end of a call is one step of the client in ControlExchange, or none.
LEMMA EndsImplements ==
  ASSUME IInv, ExchangeInv, NEW body \in Bodies, NEW last, Ends(body, last), Says(body),
         edge' = edge
  PROVE  Exchange!Next \/ UNCHANGED Exchange!vars
<1> USE DEF IInv, OutcomeInv
<1>1. CASE step = "bootstrap" /\ BootstrapEnds(body = "ok", last)
  <2>1. CASE body = "ok"
    BY <1>1, <2>1 DEF BootstrapEnds, Exchange!vars
  <2>2. CASE body # "ok"
    <3>1. Exchange!Fail
      BY <1>1, <2>2 DEF BootstrapEnds, Leave, Exchange!Fail
    <3> QED
      BY <3>1 DEF Exchange!Next
  <2> QED
    BY <2>1, <2>2
<1>2. CASE step = "register" /\ RegisterEnds(body, last)
  <2>1. CASE body \in Details
    <3>1. Exchange!Accept
      BY <1>2, <2>1
         DEF RegisterEnds, Exchange!Accept, Exchange!Details, Says, Verdicts, Details
    <3> QED
      BY <3>1 DEF Exchange!Next
  <2>2. CASE body \in Verdicts /\ body \notin Details
    <3>1. Exchange!Refuse
      BY <1>2, <2>2
         DEF RegisterEnds, Leave, Exchange!Refuse, Exchange!Refusals, Says, Verdicts, Details
    <3> QED
      BY <3>1 DEF Exchange!Next
  <2>3. CASE body \notin Verdicts
    <3>1. Exchange!Fail
      BY <1>2, <2>3 DEF RegisterEnds, Leave, Exchange!Fail, Verdicts
    <3> QED
      BY <3>1 DEF Exchange!Next
  <2> QED
    BY <2>1, <2>2, <2>3
<1>3. CASE step = "configure" /\ ConfigureEnds(body = "ok", last)
  <2>1. Exchange!Configure
    BY <1>3 DEF ConfigureEnds, Registered, Exchange!Configure
  <2> QED
    BY <2>1 DEF Exchange!Next
<1>4. CASE step = "unregister" /\ UnregisterEnds(body = "ok", last)
  <2>1. CASE body = "ok"
    <3>1. Exchange!Confirmed
      BY <1>4, <2>1 DEF UnregisterEnds, Says, Exchange!Confirmed
    <3> QED
      BY <3>1 DEF Exchange!Next
  <2>2. CASE body # "ok"
    <3>1. Exchange!GiveUp
      BY <1>4, <2>2 DEF UnregisterEnds, Exchange!GiveUp
    <3> QED
      BY <3>1 DEF Exchange!Next
  <2> QED
    BY <2>1, <2>2
<1> QED
  BY <1>1, <1>2, <1>3, <1>4 DEF Ends

\* What the edge takes is its one decision, the removal, or of no concern.
LEMMA TakingImplements ==
  ASSUME IInv, ExchangeInv, EdgeTakes
  PROVE  Exchange!Next \/ UNCHANGED Exchange!vars
<1>1. 1 \in DOMAIN toEdge /\ UNCHANGED client /\ TypeOK
  BY TakenFromTheFront
<1>2. UNCHANGED <<step, outcome, goodbye>>
  BY <1>1 DEF client
<1>3. CASE edge'.verdict = edge.verdict /\ edge'.tunnel = edge.tunnel
  BY <1>2, <1>3 DEF Exchange!vars
<1>4. CASE /\ toEdge[1].kind = "register"
           /\ edge'.verdict \in Verdicts \cup Unhappy
           /\ edge'.tunnel = (edge'.verdict \in Details)
  <2>1. edge.verdict = "none"
    BY <1>1, <1>4 DEF ExchangeInv
  <2>2. step \in {"register", "over"} /\ outcome \notin Verdicts
    BY <1>1, <1>4
       DEF IInv, QuestionsInv, OutcomeInv, TypeOK, Ahead, Questions, Calls, Verdicts
  <2>3. step = "over" => outcome = "error"
    BY <1>1, <2>2 DEF ExchangeInv, TypeOK
  <2> DEFINE v == IF edge'.verdict \in {"exception", "otherKind", "unreadable"}
                    THEN "error" ELSE edge'.verdict
  <2>4. v \in Exchange!Decisions /\ (v \in Exchange!Details <=> edge'.verdict \in Details)
    BY <1>4 DEF Exchange!Decisions, Exchange!Details, Exchange!Refusals, Verdicts, Details, Unhappy
  <2>5. Exchange!Decide(v)
    BY <1>2, <1>4, <2>1, <2>2, <2>3, <2>4 DEF Exchange!Decide
  <2> QED
    BY <2>4, <2>5 DEF Exchange!Next
<1>5. CASE /\ toEdge[1].kind = "unregister"
           /\ edge'.verdict = edge.verdict
           /\ ~edge'.tunnel
  <2>1. CASE edge.tunnel
    <3>1. step \in {"unregister", "over"}
      BY <1>1, <1>5 DEF IInv, QuestionsInv, TypeOK, Ahead, Questions, Calls
    <3>2. step = "over" => goodbye = "failed"
      BY <1>1, <1>5, <2>1 DEF ExchangeInv, IInv, BeliefsAreTrue, TypeOK
    <3>3. edge'.tunnel = FALSE
      BY <1>5
    <3>4. Exchange!Remove
      BY <1>2, <1>5, <2>1, <3>1, <3>2, <3>3 DEF Exchange!Remove
    <3> QED
      BY <3>4 DEF Exchange!Next
  <2>2. CASE ~edge.tunnel
    <3>1. edge.tunnel \in BOOLEAN /\ edge'.tunnel \in BOOLEAN
      BY NextInv DEF Next, IInv, BeliefsAreTrue, TypeOK
    <3>2. edge'.tunnel = edge.tunnel
      BY <1>5, <2>2, <3>1
    <3> QED
      BY <1>2, <1>5, <3>2 DEF Exchange!vars
  <2> QED
    BY <2>1, <2>2
<1> QED
  BY <1>3, <1>4, <1>5, EdgeDecides

LEMMA StepImplements ==
  ASSUME IInv, ExchangeInv, [Next]_vars
  PROVE  Exchange!Next \/ UNCHANGED Exchange!vars
<1>1. CASE ReadMessage
  <2>1. edge' = edge
    BY <1>1 DEF ReadMessage
  <2> QED
    BY <1>1, <2>1, MessageEndsCall, EndsImplements
<1>2. CASE StreamFails
  <2>1. "unreadable" \in Bodies /\ Says("unreadable")
    BY DEF Bodies, Unhappy, Says, Verdicts, Details
  <2> QED
    BY <1>2, <2>1, EndsImplements DEF StreamFails
<1>3. CASE TunnelIdInvalid \/ RpcTimeout
  <2>1. Exchange!Fail
    BY <1>3 DEF TunnelIdInvalid, RpcTimeout, Leave, Exchange!Fail
  <2> QED
    BY <2>1 DEF Exchange!Next
<1>4. CASE UnregisterTimeout
  <2>1. Exchange!GiveUp
    BY <1>4 DEF UnregisterTimeout, Exchange!GiveUp
  <2> QED
    BY <2>1 DEF Exchange!Next
<1>5. CASE StartUnregister
  <2>1. Exchange!Unregister
    BY <1>5 DEF StartUnregister, Exchange!Unregister
  <2> QED
    BY <2>1 DEF Exchange!Next
<1>6. CASE EdgeTakes
  BY <1>6, TakingImplements
<1>7. CASE \/ \E kind \in Questions : SendQuestion(kind)
           \/ EdgeReplies \/ EdgeStrays \/ LoseStream \/ UNCHANGED vars
  <2>1. UNCHANGED <<step, outcome, goodbye>>
    BY <1>7 DEF SendQuestion, EdgeReplies, EdgeStrays, LoseStream, vars, client
  <2>2. edge'.verdict = edge.verdict /\ edge'.tunnel = edge.tunnel
    BY <1>7 DEF SendQuestion, EdgeReplies, EdgeStrays, LoseStream, vars,
                IInv, BeliefsAreTrue, TypeOK
  <2> QED
    BY <2>1, <2>2 DEF Exchange!vars
<1> QED
  BY <1>1, <1>2, <1>3, <1>4, <1>5, <1>6, <1>7 DEF Next, Client

(* The messages of the control stream, with what is refused, repeated, late *)
(* or lost among them, are one question and one farewell to the session:    *)
(* the edge decides once, a verdict is reported only if it is the edge's,   *)
(* the tunnel is there while the client counts itself registered, and only  *)
(* a request removes it (register_on_stream and unregister, control.rs).    *)
THEOREM RegistrationIsExchange == Spec => Exchange!Spec
<1>1. Init => Exchange!Init /\ ExchangeInv
  BY DEF Init, Exchange!Init, ExchangeInv
<1>2. IInv /\ ExchangeInv /\ [Next]_vars => ExchangeInv'
  BY NextKeepsExchange
<1>3. IInv /\ ExchangeInv /\ [Next]_vars => [Exchange!Next]_(Exchange!vars)
  BY StepImplements
<1> QED
  BY <1>1, <1>2, <1>3, Invariance, PTL DEF Spec, Exchange!Spec

-----------------------------------------------------------------------------
(* The framing of the messages (rpc/src/io.rs).  Only the constants' types  *)
(* are assumed: FramesStayInStep of Framing is what is proved.              *)

\* A set with 0 and every successor of its numbers in it holds every number.
LEMMA SetInduction ==
  ASSUME NEW S, 0 \in S, \A n \in Nat : n \in S => n + 1 \in S
  PROVE  Nat \subseteq S
<1> DEFINE rest == Nat \ S
<1>1. SUFFICES ASSUME rest # {} PROVE FALSE
  OBVIOUS
<1>2. \E x \in rest : \A y \in rest : ~(<<y, x>> \in OpToRel(<, Nat))
  <2> HIDE DEF rest
  <2>1. rest \subseteq Nat
    BY DEF rest
  <2> QED
    BY <1>1, <2>1, WFMin, NatLessThanWellFounded
<1>3. PICK x \in rest : \A y \in rest : ~(<<y, x>> \in OpToRel(<, Nat))
  BY <1>2
<1>4. x \in Nat /\ x \notin S /\ x # 0
  OBVIOUS
<1>5. x - 1 \in Nat /\ (x - 1) + 1 = x
  BY <1>4
<1>6. x - 1 \in rest
  BY <1>4, <1>5
<1>7. <<x - 1, x>> \in OpToRel(<, Nat)
  BY <1>4, <1>5 DEF OpToRel
<1> QED
  BY <1>3, <1>6, <1>7

\* The running sums of the first k sizes exist.
LEMMA SumsExist ==
  ASSUME NEW s \in Seq(Nat)
  PROVE  \E g \in [0 .. Len(s) -> Nat] :
           g[0] = 0 /\ \A i \in 1 .. Len(s) : g[i] = g[i - 1] + s[i]
<1>1. PICK n \in Nat : n = Len(s) /\ \A i \in 1 .. n : s[i] \in Nat
  OBVIOUS
<1> DEFINE Summed(k) == \E g \in [0 .. k -> Nat] :
                          g[0] = 0 /\ \A i \in 1 .. k : g[i] = g[i - 1] + s[i]
           S == {k \in Nat : k <= n => Summed(k)}
<1>2. 0 \in S
  <2> DEFINE f == [i \in 0 .. 0 |-> 0]
  <2>1. f \in [0 .. 0 -> Nat] /\ f[0] = 0
    OBVIOUS
  <2> HIDE DEF f
  <2>2. Summed(0)
    BY <2>1
  <2> QED
    BY <2>2
<1>3. ASSUME NEW k \in Nat, k \in S, k + 1 <= n PROVE Summed(k + 1)
  <2>0. Summed(k)
    <3> HIDE DEF Summed
    <3> QED
      BY <1>1, <1>3
  <2>1. PICK g \in [0 .. k -> Nat] :
          g[0] = 0 /\ \A i \in 1 .. k : g[i] = g[i - 1] + s[i]
    BY <2>0
  <2>2. PICK next \in Nat : next = g[k] + s[k + 1]
    BY <1>1, <1>3
  <2> DEFINE h == [i \in 0 .. k + 1 |-> IF i = k + 1 THEN next ELSE g[i]]
  <2>3. h \in [0 .. k + 1 -> Nat] /\ h[0] = 0
    BY <2>1
  <2>4. h[k + 1] = next /\ \A i \in 0 .. k : h[i] = g[i]
    OBVIOUS
  <2> HIDE DEF h
  <2>5. ASSUME NEW i \in 1 .. k + 1 PROVE h[i] = h[i - 1] + s[i]
    <3>1. CASE i = k + 1
      BY <2>2, <2>4, <3>1
    <3>2. CASE i # k + 1
      <4>1. i \in 1 .. k /\ i \in 0 .. k /\ i - 1 \in 0 .. k
        BY <3>2
      <4> QED
        BY <2>1, <2>4, <4>1
    <3> QED
      BY <3>1, <3>2
  <2> QED
    BY <2>3, <2>5
<1>4. Nat \subseteq S
  <2> HIDE DEF Summed
  <2>1. ASSUME NEW k \in Nat, k \in S PROVE k + 1 \in S
    BY <1>3, <2>1
  <2> HIDE DEF S
  <2> QED
    BY <1>2, <2>1, SetInduction
<1>5. Summed(n)
  <2> HIDE DEF Summed
  <2> QED
    BY <1>1, <1>4
<1> QED
  BY <1>1, <1>5

\* Sums, unfolded: it starts at 0 and each size is added once.
LEMMA SumsUnfold ==
  ASSUME NEW s \in Seq(Nat)
  PROVE  /\ Sums(s) \in [0 .. Len(s) -> Nat]
         /\ Sums(s)[0] = 0
         /\ \A i \in 1 .. Len(s) : Sums(s)[i] = Sums(s)[i - 1] + s[i]
<1> DEFINE Sum(g) == g = [i \in 0 .. Len(s) |-> IF i = 0 THEN 0 ELSE g[i - 1] + s[i]]
<1>1. PICK n \in Nat : n = Len(s) /\ DOMAIN s = 1 .. n /\ \A i \in 1 .. n : s[i] \in Nat
  OBVIOUS
<1>2. PICK g \in [0 .. n -> Nat] :
        g[0] = 0 /\ \A i \in 1 .. n : g[i] = g[i - 1] + s[i]
  BY <1>1, SumsExist
<1>3. Sum(g)
  BY <1>1, <1>2
<1>4. Sums(s) = CHOOSE h : Sum(h)
  BY DEF Sums
<1>5. Sum(Sums(s))
  <2> HIDE DEF Sum
  <2> QED
    BY <1>3, <1>4
<1>6. /\ DOMAIN Sums(s) = 0 .. n /\ Sums(s)[0] = 0
      /\ \A i \in 1 .. n : Sums(s)[i] = Sums(s)[i - 1] + s[i]
  <2>1. Sums(s) = [i \in 0 .. n |-> IF i = 0 THEN 0 ELSE Sums(s)[i - 1] + s[i]]
    BY <1>1, <1>5
  <2>2. \A i \in 1 .. n : i \in 0 .. n /\ i # 0
    OBVIOUS
  <2>3. DOMAIN Sums(s) = 0 .. n /\ Sums(s)[0] = 0
    BY <1>1, <2>1
  <2> QED
    BY <2>1, <2>2, <2>3
<1> DEFINE S == {k \in Nat : k <= n => Sums(s)[k] \in Nat}
<1>7. 0 \in S
  BY <1>6
<1>8. ASSUME NEW k \in Nat, k \in S PROVE k + 1 \in S
  <2>1. k + 1 <= n => k + 1 \in 1 .. n /\ (k + 1) - 1 = k
    OBVIOUS
  <2>2. k + 1 <= n => Sums(s)[k + 1] \in Nat
    BY <1>1, <1>6, <1>8, <2>1
  <2> QED
    BY <2>2
<1>9. Nat \subseteq S
  <2> HIDE DEF S
  <2> QED
    BY <1>7, <1>8, SetInduction
<1>10. \A k \in 0 .. n : Sums(s)[k] \in Nat
  BY <1>9
<1>11. Sums(s) \in [0 .. n -> Nat]
  <2>1. Sums(s) = [i \in 0 .. n |-> Sums(s)[i]]
    BY <1>1, <1>5
  <2> QED
    BY <1>10, <2>1
<1> QED
  BY <1>1, <1>6, <1>11

\* The total is a number, no smaller than the first size, and that size alone
\* when there is no other.
LEMMA TotalFacts ==
  ASSUME NEW s \in Seq(Nat), s # <<>>
  PROVE  /\ Total(s) \in Nat
         /\ Total(s) >= s[1]
         /\ Len(s) = 1 => Total(s) = s[1]
<1>1. PICK n \in Nat : n = Len(s) /\ n >= 1 /\ \A i \in 1 .. n : s[i] \in Nat
  OBVIOUS
<1> DEFINE sum == Sums(s)
           S == {k \in Nat : k + 1 <= n => sum[k + 1] >= s[1]}
<1>2. /\ sum \in [0 .. n -> Nat] /\ sum[0] = 0
      /\ \A i \in 1 .. n : sum[i] = sum[i - 1] + s[i]
  BY <1>1, SumsUnfold
<1>3. Total(s) = sum[n]
  BY <1>1 DEF Total
<1> HIDE DEF sum
<1>4. sum[1] = s[1]
  <2>1. 1 \in 1 .. n /\ 1 - 1 = 0
    BY <1>1
  <2> QED
    BY <1>1, <1>2, <2>1
<1>5. 0 \in S
  BY <1>1, <1>4
<1>6. ASSUME NEW k \in Nat, k \in S PROVE k + 1 \in S
  <2>1. CASE k + 2 <= n
    <3>1. k + 2 \in 1 .. n /\ (k + 2) - 1 = k + 1 /\ k + 1 \in 0 .. n /\ 1 \in 1 .. n
      BY <1>1, <2>1
    <3>2. sum[k + 2] = sum[k + 1] + s[k + 2] /\ sum[k + 1] \in Nat /\ s[k + 2] \in Nat
          /\ s[1] \in Nat
      BY <1>1, <1>2, <3>1
    <3>3. sum[k + 2] >= s[1]
      BY <1>6, <2>1, <3>2
    <3> QED
      BY <3>3
  <2>2. CASE ~(k + 2 <= n)
    BY <2>2
  <2> QED
    BY <2>1, <2>2
<1>7. Nat \subseteq S
  <2> HIDE DEF S
  <2> QED
    BY <1>5, <1>6, SetInduction
<1>8. n - 1 \in S /\ (n - 1) + 1 = n
  BY <1>1, <1>7
<1> QED
  BY <1>1, <1>2, <1>3, <1>4, <1>8

\* The length of the table is that of the count, the sizes and the padding.
LEMMA TablePadded ==
  ASSUME NEW n \in Nat
  PROVE  TableLength(n) = n + 1 + ((n + 1) % 2) /\ (n + 1) % 2 \in {0, 1}
<1>1. PICK k \in Nat : n = 2 * k \/ n = 2 * k + 1
  BY n \div 2 \in Nat
<1>2. CASE n = 2 * k
  <2>1. (4 + 4 * n + 7) \div 8 = k + 1 /\ (n + 1) % 2 = 1
    BY <1>2
  <2> QED
    BY <1>2, <2>1 DEF TableLength
<1>3. CASE n = 2 * k + 1
  <2>1. (4 + 4 * n + 7) \div 8 = k + 1 /\ (n + 1) % 2 = 0
    BY <1>3
  <2> QED
    BY <1>3, <2>1 DEF TableLength
<1> QED
  BY <1>1, <1>2, <1>3

\* Two sequences joined, element by element; and a piece of one.
IsJoined(joined, s, t, m, k) ==
  /\ joined \in Seq(Nat) /\ Len(joined) = m + k
  /\ \A i \in 1 .. m : joined[i] = s[i]
  /\ \A i \in 1 .. k : joined[m + i] = t[i]

IsPiece(piece, s, m, k) ==
  /\ piece \in Seq(Nat) /\ Len(piece) = k
  /\ \A i \in 1 .. k : piece[i] = s[m + i]

LEMMA Joined ==
  ASSUME NEW s \in Seq(Nat), NEW t \in Seq(Nat),
         NEW m \in Nat, m = Len(s), NEW k \in Nat, k = Len(t)
  PROVE  IsJoined(s \o t, s, t, m, k)
BY DEF IsJoined

LEMMA Piece ==
  ASSUME NEW s \in Seq(Nat), NEW m \in Nat, NEW k \in Nat, m + k <= Len(s)
  PROVE  IsPiece(SubSeq(s, m + 1, m + k), s, m, k)
<1>1. Len(SubSeq(s, m + 1, m + k)) = k /\ SubSeq(s, m + 1, m + k) \in Seq(Nat)
  OBVIOUS
<1>2. ASSUME NEW i \in 1 .. k PROVE SubSeq(s, m + 1, m + k)[i] = s[m + i]
  <2>1. i + (m + 1) - 1 = m + i /\ i \in 1 .. (m + k) - (m + 1) + 1
    OBVIOUS
  <2>2. SubSeq(s, m + 1, m + k)[i] = s[i + (m + 1) - 1]
    BY <2>1
  <2> QED
    BY <2>1, <2>2
<1> QED
  BY <1>1, <1>2 DEF IsPiece

\* A sequence is its own piece of that length, element by element.
LEMMA PieceIs ==
  ASSUME NEW s \in Seq(Nat), NEW t \in Seq(Nat), NEW m \in Nat, NEW k \in Nat,
         k = Len(t), m + k <= Len(s), \A i \in 1 .. k : s[m + i] = t[i]
  PROVE  SubSeq(s, m + 1, m + k) = t
<1>1. PICK piece : piece = SubSeq(s, m + 1, m + k)
  OBVIOUS
<1>2. IsPiece(piece, s, m, k)
  BY <1>1, Piece, Zenon
<1>3. piece = [i \in 1 .. k |-> piece[i]] /\ t = [i \in 1 .. k |-> t[i]]
  BY <1>2 DEF IsPiece
<1>4. \A i \in 1 .. k : piece[i] = t[i]
  BY <1>2 DEF IsPiece
<1>5. piece = t
  BY <1>3, <1>4, Zenon
<1> QED
  BY <1>1, <1>5

HasParts(stream, head, sizes, n, body, next, more) ==
  /\ stream \in Seq(Nat) /\ Len(stream) = body + more
  /\ stream[1] = head[1]
  /\ \A i \in 1 .. n : stream[1 + i] = sizes[i]
  /\ \A i \in 1 .. more : stream[body + i] = next[i]

\* A stream of a table, of a body and of what follows: where each part is.
LEMMA StreamParts ==
  ASSUME NEW head \in Seq(Nat), Len(head) = 1,
         NEW sizes \in Seq(Nat), NEW n \in Nat, n = Len(sizes),
         NEW padding \in Seq(Nat), NEW pad \in Nat, pad = Len(padding),
         NEW zeros \in Seq(Nat), NEW words \in Nat, words = Len(zeros),
         NEW next \in Seq(Nat), NEW more \in Nat, more = Len(next),
         NEW body \in Nat, body = n + 1 + pad + words,
         NEW stream, stream = head \o sizes \o padding \o zeros \o next
  PROVE  HasParts(stream, head, sizes, n, body, next, more)
<1>1. PICK a : a = head \o sizes
  OBVIOUS
<1>2. PICK b : b = a \o padding
  OBVIOUS
<1>3. PICK c : c = b \o zeros
  OBVIOUS
<1>4. stream = c \o next
  BY <1>1, <1>2, <1>3
<1>5. /\ a \in Seq(Nat) /\ Len(a) = 1 + n /\ a[1] = head[1]
      /\ \A i \in 1 .. n : a[1 + i] = sizes[i]
  <2>1. PICK one \in Nat : one = 1 /\ one = Len(head)
    OBVIOUS
  <2>2. IsJoined(a, head, sizes, one, n)
    BY <1>1, <2>1, Joined, Zenon
  <2>3. /\ a \in Seq(Nat) /\ Len(a) = one + n
        /\ \A i \in 1 .. one : a[i] = head[i]
        /\ \A i \in 1 .. n : a[one + i] = sizes[i]
    BY <2>2, Zenon DEF IsJoined
  <2>4. 1 \in 1 .. one
    BY <2>1
  <2> QED
    BY <2>1, <2>3, <2>4, Zenon
<1>6. PICK l \in Nat : l = 1 + n
  OBVIOUS
<1>7. /\ b \in Seq(Nat) /\ Len(b) = l + pad
      /\ \A i \in 1 .. l : b[i] = a[i]
  <2>1. a \in Seq(Nat) /\ l = Len(a)
    BY <1>5, <1>6
  <2>2. IsJoined(b, a, padding, l, pad)
    BY <1>2, <2>1, Joined, Zenon
  <2> QED
    BY <2>2 DEF IsJoined
<1>8. PICK m \in Nat : m = l + pad
  OBVIOUS
<1>9. /\ c \in Seq(Nat) /\ Len(c) = m + words
      /\ \A i \in 1 .. m : c[i] = b[i]
  <2>1. b \in Seq(Nat) /\ m = Len(b)
    BY <1>7, <1>8
  <2>2. IsJoined(c, b, zeros, m, words)
    BY <1>3, <2>1, Joined, Zenon
  <2> QED
    BY <2>2 DEF IsJoined
<1>10. body = m + words
  BY <1>6, <1>8
<1>11. /\ stream \in Seq(Nat) /\ Len(stream) = body + more
       /\ \A i \in 1 .. body : stream[i] = c[i]
       /\ \A i \in 1 .. more : stream[body + i] = next[i]
  <2>1. c \in Seq(Nat) /\ body = Len(c)
    BY <1>9, <1>10
  <2>2. IsJoined(stream, c, next, body, more)
    BY <1>4, <2>1, Joined, Zenon
  <2> QED
    BY <2>2 DEF IsJoined
<1>12. \A i \in 1 .. l : i \in 1 .. m /\ i \in 1 .. body
  BY <1>6, <1>8, <1>10
<1>13. \A i \in 1 .. l : stream[i] = a[i]
  BY <1>7, <1>9, <1>11, <1>12
<1>14. 1 \in 1 .. l /\ \A i \in 1 .. n : 1 + i \in 1 .. l
  BY <1>6
<1>15. stream[1] = head[1] /\ \A i \in 1 .. n : stream[1 + i] = sizes[i]
  BY <1>5, <1>13, <1>14
<1> QED
  BY <1>11, <1>15 DEF HasParts

\* A written message at the front of a stream: what read_message meets.
IsFrame(stream, sizes, next, n, table, total) ==
  /\ stream \in Seq(Nat)
  /\ ~(Len(stream) < 2) /\ ~(Len(stream) < table) /\ ~(Len(stream) < table + 2 * total)
  /\ stream[1] = n - 1 /\ stream[2] = sizes[1]
  /\ SubSeq(stream, 2, n + 1) = sizes
  /\ SubSeq(stream, table + 2 * total + 1, Len(stream)) = next

\* The lengths that the checks of read_message compare.
Reaches(long, n, table, total, body, more) ==
  /\ ~(long < 2) /\ ~(long < table) /\ ~(long < table + 2 * total)
  /\ body = table + 2 * total /\ 1 + n <= long /\ body + more <= long

LEMMA LongEnough ==
  ASSUME NEW n \in Nat, n >= 1, NEW pad \in Nat, NEW total \in Nat, NEW more \in Nat,
         NEW table, table = n + 1 + pad,
         NEW body, body = n + 1 + pad + 2 * total,
         NEW long, long = body + more
  PROVE  Reaches(long, n, table, total, body, more)
BY DEF Reaches

LEMMA FrameParts ==
  ASSUME NEW sizes \in Seq(Nat), NEW n \in Nat, n >= 1, n = Len(sizes),
         NEW total \in Nat, total = Total(sizes),
         NEW next \in Seq(Nat),
         NEW table, table = TableLength(n)
  PROVE  IsFrame(WriteFrame(sizes) \o next, sizes, next, n, table, total)
<1>1. PICK pad \in {0, 1} : pad = (n + 1) % 2 /\ table = n + 1 + pad
  BY TablePadded
<1>2. PICK words \in Nat : words = 2 * total
  OBVIOUS
<1>3. PICK head \in Seq(Nat) : head = <<n - 1>> /\ Len(head) = 1 /\ head[1] = n - 1
  <2>1. <<n - 1>> \in Seq(Nat) /\ Len(<<n - 1>>) = 1 /\ <<n - 1>>[1] = n - 1
    OBVIOUS
  <2> QED
    BY <2>1, Zenon
<1>4. PICK padding \in Seq(Nat) : padding = [i \in 1 .. pad |-> 0] /\ pad = Len(padding)
  <2>1. [i \in 1 .. pad |-> 0] \in Seq(Nat) /\ pad = Len([i \in 1 .. pad |-> 0])
    OBVIOUS
  <2> QED
    BY <2>1, Zenon
<1>5. PICK zeros \in Seq(Nat) : zeros = [i \in 1 .. words |-> 0] /\ words = Len(zeros)
  <2>1. [i \in 1 .. words |-> 0] \in Seq(Nat) /\ words = Len([i \in 1 .. words |-> 0])
    OBVIOUS
  <2> QED
    BY <2>1, Zenon
<1>6. PICK stream : stream = WriteFrame(sizes) \o next
  OBVIOUS
<1>7. stream = head \o sizes \o padding \o zeros \o next
  BY <1>1, <1>2, <1>3, <1>4, <1>5, <1>6 DEF WriteFrame
<1>8. PICK more \in Nat : more = Len(next)
  OBVIOUS
<1>9. PICK body \in Nat : body = n + 1 + pad + words /\ pad \in Nat
  OBVIOUS
<1>10. HasParts(stream, head, sizes, n, body, next, more)
  BY <1>3, <1>4, <1>5, <1>7, <1>8, <1>9, StreamParts, Zenon
<1>11. PICK long : long = Len(stream) /\ long = body + more
  BY <1>10 DEF HasParts
<1>12. /\ ~(long < 2) /\ ~(long < table) /\ ~(long < table + 2 * total)
       /\ body = table + 2 * total /\ 1 + n <= long /\ body + more <= long
  <2>1. body = n + 1 + pad + 2 * total
    BY <1>2, <1>9
  <2>2. Reaches(long, n, table, total, body, more)
    BY <1>1, <1>8, <1>9, <1>11, <2>1, LongEnough, Zenon
  <2> QED
    BY <2>2, Zenon DEF Reaches
<1>13. SubSeq(stream, 2, n + 1) = sizes
  <2>1. PICK one \in Nat : one = 1
    OBVIOUS
  <2>2. SubSeq(stream, one + 1, one + n) = sizes
    <3>1. one + n <= Len(stream) /\ \A i \in 1 .. n : stream[one + i] = sizes[i]
      BY <1>10, <1>11, <1>12, <2>1 DEF HasParts
    <3>2. stream \in Seq(Nat)
      BY <1>10 DEF HasParts
    <3> QED
      BY <3>1, <3>2, PieceIs, Zenon
  <2>3. one + 1 = 2 /\ one + n = n + 1
    BY <2>1
  <2> QED
    BY <2>2, <2>3
<1>14. SubSeq(stream, body + 1, Len(stream)) = next
  <2>1. SubSeq(stream, body + 1, body + more) = next
    <3>1. /\ stream \in Seq(Nat) /\ body + more <= Len(stream)
          /\ \A i \in 1 .. more : stream[body + i] = next[i]
      BY <1>10, <1>11, <1>12, Zenon DEF HasParts
    <3> QED
      BY <1>8, <3>1, PieceIs, Zenon
  <2> QED
    BY <1>11, <2>1
<1>15. stream[2] = sizes[1]
  <2>1. 1 \in 1 .. n /\ 1 + 1 = 2
    OBVIOUS
  <2> QED
    BY <1>10, <2>1, Zenon DEF HasParts
<1>16. stream \in Seq(Nat) /\ stream[1] = n - 1
  BY <1>3, <1>10, Zenon DEF HasParts
<1> QED
  BY <1>6, <1>11, <1>12, <1>13, <1>14, <1>15, <1>16, Zenon DEF IsFrame

\* read_message by its early returns, of which the first that applies counts.
ReadsAs(stream, count, table, sizes, body) ==
  \/ (count = 0 \/ count > MaxSegments) /\ ReadFrame(stream) = Failure("segments")
  \/ /\ ~(count = 0 \/ count > MaxSegments)
     /\ (Refuses(<<stream[2]>>) \/ Refuses(sizes))
     /\ ReadFrame(stream) = Failure("too large")
  \/ /\ (Len(stream) < table \/ Len(stream) < table + body)
     /\ ReadFrame(stream) = Failure("eof")
  \/ /\ ~(count = 0 \/ count > MaxSegments)
     /\ ~(Len(stream) < table) /\ ~Refuses(<<stream[2]>>) /\ ~Refuses(sizes)
     /\ ReadFrame(stream) = [error |-> "none", sizes |-> sizes,
                             rest |-> SubSeq(stream, table + body + 1, Len(stream))]

LEMMA ReadFrameCases ==
  ASSUME NEW stream, ~(Len(stream) < 2),
         NEW count, count = SegmentCount(stream[1]),
         NEW table, table = TableLength(count),
         NEW sizes, sizes = SubSeq(stream, 2, count + 1),
         NEW body, body = 2 * Total(sizes)
  PROVE  ReadsAs(stream, count, table, sizes, body)
<1>1. ReadFrame(stream) =
        IF count = 0 \/ count > MaxSegments THEN Failure("segments")
        ELSE IF Refuses(<<stream[2]>>) THEN Failure("too large")
        ELSE IF Len(stream) < table THEN Failure("eof")
        ELSE IF Refuses(sizes) THEN Failure("too large")
        ELSE IF Len(stream) < table + body THEN Failure("eof")
        ELSE [error |-> "none", sizes |-> sizes,
              rest |-> SubSeq(stream, table + body + 1, Len(stream))]
  BY DEF ReadFrame
<1> QED
  BY <1>1, Zenon DEF ReadsAs

LEMMA SmallRemainder ==
  ASSUME NEW n \in Nat, NEW w \in Nat, n < w
  PROVE  n % w = n
<1>1. w > 0 /\ n = w * 0 + n
  OBVIOUS
<1> QED
  BY <1>1

LEMMA Failures ==
  /\ Failure("segments").error = "segments"
  /\ Failure("too large").error = "too large"
  /\ Failure("eof").error = "eof"
BY DEF Failure

\* A message is read back exactly, whatever follows it, or refused: for every
\* word width, limit and list of sizes a table can state (io.rs:24-68).
THEOREM MessagesReadBack ==
  \A sizes \in Seq(Nat) \ {<<>>}, next \in Seq(Nat) :
    Len(sizes) < WordRange => ReadBack(sizes, next)
<1> USE FramingConstants
<1> SUFFICES ASSUME NEW sizes \in Seq(Nat), sizes # <<>>, NEW next \in Seq(Nat),
                    Len(sizes) < WordRange
             PROVE  ReadBack(sizes, next)
  OBVIOUS
<1>1. PICK n \in Nat : n = Len(sizes) /\ n >= 1 /\ n < WordRange
  OBVIOUS
<1>2. PICK total \in Nat : total = Total(sizes)
  BY TotalFacts
<1>3. PICK table : table = TableLength(n)
  OBVIOUS
<1>4. PICK stream : stream = WriteFrame(sizes) \o next
  OBVIOUS
<1>5. ReadBack(sizes, next) <=>
        IF n <= MaxSegments /\ total <= MaxTotalWords
          THEN ReadFrame(stream) = [error |-> "none", sizes |-> sizes, rest |-> next]
          ELSE ReadFrame(stream).error \in {"segments", "too large"}
  BY <1>1, <1>2, <1>4 DEF ReadBack
<1>6. IsFrame(stream, sizes, next, n, table, total)
  BY <1>1, <1>2, <1>3, <1>4, FrameParts, Zenon
<1>7. SegmentCount(stream[1]) = n
  <2>1. (n - 1) + 1 = n /\ n \in 0 .. WordRange - 1
    BY <1>1
  <2>2. n % WordRange = n
    BY <1>1, SmallRemainder
  <2>3. stream[1] = n - 1
    BY <1>6 DEF IsFrame
  <2> QED
    BY <2>1, <2>2, <2>3 DEF SegmentCount
<1>8. stream[2] = sizes[1]
  BY <1>6 DEF IsFrame
<1>9. sizes[1] \in Nat /\ sizes[1] <= total
  BY <1>1, <1>2, TotalFacts
<1>10. Refuses(<<stream[2]>>) <=> sizes[1] > MaxTotalWords
  <2>1. <<sizes[1]>> \in Seq(Nat) /\ <<sizes[1]>> # <<>> /\ Len(<<sizes[1]>>) = 1
        /\ <<sizes[1]>>[1] = sizes[1]
    BY <1>9
  <2>2. Total(<<sizes[1]>>) = sizes[1]
    BY <2>1, TotalFacts
  <2> QED
    BY <1>8, <2>2 DEF Refuses
<1>11. Refuses(sizes) <=> total > MaxTotalWords
  BY <1>2 DEF Refuses
<1>12. /\ n > MaxSegments \/ n <= MaxSegments
       /\ total > MaxTotalWords \/ total <= MaxTotalWords
       /\ ~(n > MaxSegments /\ n <= MaxSegments)
       /\ ~(total > MaxTotalWords /\ total <= MaxTotalWords)
  <2>1. MaxSegments \in Nat /\ MaxTotalWords \in Nat
    OBVIOUS
  <2> HIDE FramingConstants
  <2> QED
    BY <2>1
<1>13. \/ n > MaxSegments /\ ReadFrame(stream).error = "segments"
       \/ /\ n <= MaxSegments /\ total > MaxTotalWords
          /\ ReadFrame(stream).error = "too large"
       \/ /\ n <= MaxSegments /\ total <= MaxTotalWords
          /\ ReadFrame(stream) = [error |-> "none", sizes |-> sizes, rest |-> next]
  <2>1. PICK body \in Nat : body = 2 * total
    OBVIOUS
  <2>2. /\ ~(Len(stream) < 2) /\ ~(Len(stream) < table) /\ ~(Len(stream) < table + body)
        /\ n = SegmentCount(stream[1]) /\ table = TableLength(n)
        /\ sizes = SubSeq(stream, 2, n + 1) /\ body = 2 * Total(sizes)
    BY <1>2, <1>3, <1>6, <1>7, <2>1, Zenon DEF IsFrame
  <2>3. \/ (n = 0 \/ n > MaxSegments) /\ ReadFrame(stream) = Failure("segments")
        \/ /\ ~(n = 0 \/ n > MaxSegments)
           /\ (Refuses(<<stream[2]>>) \/ Refuses(sizes))
           /\ ReadFrame(stream) = Failure("too large")
        \/ /\ ~(n = 0 \/ n > MaxSegments)
           /\ ~Refuses(<<stream[2]>>) /\ ~Refuses(sizes)
           /\ ReadFrame(stream) =
                [error |-> "none", sizes |-> sizes,
                 rest |-> SubSeq(stream, table + body + 1, Len(stream))]
    <3>1. ReadsAs(stream, n, table, sizes, body)
      BY <2>2, ReadFrameCases, Zenon
    <3> QED
      BY <2>2, <3>1, Zenon DEF ReadsAs
  <2>4. Refuses(<<stream[2]>>) => Refuses(sizes)
    BY <1>2, <1>9, <1>10, <1>11
  <2>5. CASE n > MaxSegments
    BY <1>1, <2>3, <2>5, Failures
  <2>6. CASE n <= MaxSegments
    <3>1. ~(n = 0 \/ n > MaxSegments)
      BY <1>1, <2>6
    <3>2. CASE total > MaxTotalWords
      BY <1>11, <2>3, <2>6, <3>1, <3>2, Failures
    <3>3. CASE total <= MaxTotalWords
      <4>1. ~Refuses(sizes) /\ ~Refuses(<<stream[2]>>)
        BY <1>2, <1>11, <2>4, <3>3
      <4>2. SubSeq(stream, table + body + 1, Len(stream)) = next
        BY <1>6, <2>1, Zenon DEF IsFrame
      <4> QED
        BY <2>3, <2>6, <3>1, <3>3, <4>1, <4>2, Zenon
    <3> QED
      BY <1>12, <3>2, <3>3, Zenon
  <2> QED
    BY <1>12, <2>5, <2>6, Zenon
<1> QED
  BY <1>5, <1>12, <1>13, Zenon

\* No stream at all is read as a message beyond a limit: not one whose count
\* wraps to no segments, not one that ends inside its table (io.rs:29-60).
THEOREM ReadsWithinLimits == \A stream \in Seq(Nat) : WithinLimits(stream)
<1> USE FramingConstants
<1> SUFFICES ASSUME NEW stream \in Seq(Nat), ReadFrame(stream).error = "none"
             PROVE  /\ Len(ReadFrame(stream).sizes) \in 1 .. MaxSegments
                    /\ Total(ReadFrame(stream).sizes) <= MaxTotalWords
  BY DEF WithinLimits
<1>1. ~(Len(stream) < 2)
  BY DEF ReadFrame, Failure
<1>2. PICK count : count = SegmentCount(stream[1])
  OBVIOUS
<1>3. stream[1] \in Nat /\ count \in Nat
  BY <1>1, <1>2 DEF SegmentCount
<1>4. PICK table \in Nat : table = TableLength(count) /\ table >= count + 1
  <2>1. PICK pad \in {0, 1} : TableLength(count) = count + 1 + pad
    BY <1>3, TablePadded
  <2> QED
    BY <1>3, <2>1
<1>5. PICK sizes : sizes = SubSeq(stream, 2, count + 1)
  OBVIOUS
<1>6. /\ ~(count = 0 \/ count > MaxSegments)
      /\ ~(Len(stream) < table) /\ ~Refuses(sizes)
      /\ ReadFrame(stream).sizes = sizes
  <2>1. ReadFrame(stream) # Failure("segments") /\ ReadFrame(stream) # Failure("too large")
        /\ ReadFrame(stream) # Failure("eof")
    BY Failures
  <2>2. PICK body : body = 2 * Total(sizes)
    OBVIOUS
  <2>3. /\ ~(count = 0 \/ count > MaxSegments)
        /\ ~(Len(stream) < table) /\ ~Refuses(sizes)
        /\ ReadFrame(stream) = [error |-> "none", sizes |-> sizes,
                                rest |-> SubSeq(stream, table + body + 1, Len(stream))]
    <3>1. ReadsAs(stream, count, table, sizes, body)
      BY <1>1, <1>2, <1>4, <1>5, <2>2, ReadFrameCases, Zenon
    <3> QED
      BY <2>1, <3>1, Zenon DEF ReadsAs
  <2> QED
    BY <2>3
<1>7. count \in 1 .. MaxSegments
  BY <1>3, <1>6
<1>8. sizes \in Seq(Nat) /\ Len(sizes) = count
  <2>1. PICK one \in Nat : one = 1
    OBVIOUS
  <2>2. one + count <= Len(stream)
    BY <1>3, <1>4, <1>6, <2>1
  <2>3. sizes = SubSeq(stream, one + 1, one + count)
    BY <1>3, <1>5, <2>1
  <2>4. IsPiece(sizes, stream, one, count)
    BY <1>3, <2>2, <2>3, Piece, Zenon
  <2> QED
    BY <2>4 DEF IsPiece
<1>9. Total(sizes) \in Nat
  BY <1>7, <1>8, TotalFacts
<1> QED
  BY <1>6, <1>7, <1>8, <1>9 DEF Refuses
=============================================================================
