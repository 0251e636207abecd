-------------------------- MODULE RequestBodyProofs --------------------------
(***************************************************************************)
(* Theorems about RequestBody, for any limit, sizes, headers and bounds.   *)
(***************************************************************************)
EXTENDS RequestBody, SumTheorems, SequenceTheorems

LEMMA MessagesOfClients ==
  /\ \A n \in Nat, more \in BOOLEAN : Piece(n, more) \in Messages
  /\ Disconnect \in Messages
  /\ EmptyEnd \in Messages
BY DEF Messages, Piece, Disconnect, EmptyEnd

\* What the middleware holds is what the client sent first.
BufferIsPrefix ==
  /\ Len(messages) <= Len(stream)
  /\ \A i \in 1..Len(messages) : messages[i] = stream[i]

\* Once the application runs the buffer is complete.
BufferComplete ==
  (phase = "serving" \/ replayed # <<>>) =>
    /\ phase \in {"serving", "done"}
    /\ status = 0
    /\ timer = "off"
    /\ Len(messages) >= 1
    /\ Ends(messages[Len(messages)])

ReplayOfBuffer ==
  \A i \in 1..Len(replayed) :
    IF i <= Len(messages) THEN replayed[i] = messages[i] ELSE replayed[i] = EmptyEnd

TimerInScope ==
  /\ timer = "armed" => phase \in {"reading", "refusing", "started", "sent"}
  /\ phase \in {"called", "reading"} => status = 0

BodyInv == TypeOK /\ BufferIsPrefix /\ BufferComplete /\ ReplayOfBuffer /\ TimerInScope

LEMMA InitBody == Init => BodyInv
BY BodyConstants DEF Init, BodyInv, TypeOK, BufferIsPrefix, BufferComplete,
   ReplayOfBuffer, TimerInScope

LEMMA TypeStep == BodyInv /\ [Next]_vars => TypeOK'
<1> SUFFICES ASSUME BodyInv, [Next]_vars PROVE TypeOK'
  OBVIOUS
<1> USE DEF BodyInv, TypeOK
<1>1. CASE ClientSends
  <2>1. PICK n \in Sizes, more \in BOOLEAN : ClientMoves(Piece(n, more))
    BY <1>1 DEF ClientSends
  <2>2. Piece(n, more) \in Messages
    BY MessagesOfClients, BodyConstants DEF BodyConstants
  <2>3. QED
    BY <2>1, <2>2 DEF ClientMoves
<1>2. CASE ClientLeaves
  BY <1>2, MessagesOfClients DEF ClientLeaves, ClientMoves
<1>3. CASE Bypass
  BY <1>3 DEF Bypass
<1>4. CASE RefuseUnread
  BY <1>4 DEF RefuseUnread, Refuse
<1>5. CASE StartReading
  BY <1>5 DEF StartReading
<1>6. CASE Receive
  <2> DEFINE m == stream[Len(messages) + 1]
  <2>1. m \in Messages
    BY <1>6 DEF Receive
  <2>2. m.size \in Nat
    BY <2>1 DEF Messages
  <2>3. received + m.size \in Nat
    BY <2>2
  <2>4. messages' \in Seq(Messages)
    BY <1>6, <2>1 DEF Receive, Keep
  <2>5. received' \in Nat
    BY <1>6, <2>3 DEF Receive, Count
  <2>6. /\ phase' \in {"reading", "refusing", "serving"}
        /\ timer' \in {"off", "armed"}
        /\ status' \in {0, 401, 408, 413}
    BY <1>6 DEF Receive, Serve, Refuse
  <2>7. UNCHANGED <<request, stream, replayed, out>>
    BY <1>6 DEF Receive
  <2>8. QED
    BY <2>4, <2>5, <2>6, <2>7
<1>7. CASE DeadlineFires
  BY <1>7 DEF DeadlineFires, Refuse
<1>8. CASE SendStart
  BY <1>8 DEF SendStart
<1>9. CASE SendBody
  BY <1>9 DEF SendBody
<1>10. CASE Return
  BY <1>10 DEF Return
<1>11. CASE ApplicationReads
  <2>1. NextReplay \in Messages
    BY MessagesOfClients DEF NextReplay
  <2>2. QED
    BY <1>11, <2>1 DEF ApplicationReads
<1>12. CASE ApplicationResponds
  <2>1. <<[part |-> "start", status |-> 0], [part |-> "body", status |-> 0]>>
          \in Seq([part : {"start", "body"}, status : {0, 401, 408, 413}])
    OBVIOUS
  <2>2. QED
    BY <1>12, <2>1 DEF ApplicationResponds
<1>13. CASE UNCHANGED vars
  BY <1>13 DEF vars
<1>14. QED
  BY <1>1, <1>2, <1>3, <1>4, <1>5, <1>6, <1>7, <1>8, <1>9, <1>10, <1>11, <1>12,
     <1>13 DEF Next

\* Steps of the client only lengthen its stream.
LEMMA ClientStep ==
  ASSUME BodyInv, NEW m \in Messages, ClientMoves(m)
  PROVE  BufferIsPrefix' /\ BufferComplete' /\ ReplayOfBuffer' /\ TimerInScope'
<1>1. /\ Len(stream') = Len(stream) + 1
      /\ \A i \in 1..Len(stream) : stream'[i] = stream[i]
  BY DEF ClientMoves, BodyInv, TypeOK
<1>2. BufferIsPrefix'
  BY <1>1 DEF ClientMoves, BodyInv, TypeOK, BufferIsPrefix
<1>3. BufferComplete' /\ ReplayOfBuffer' /\ TimerInScope'
  BY DEF ClientMoves, BodyInv, BufferComplete, ReplayOfBuffer, TimerInScope
<1>4. QED
  BY <1>2, <1>3

\* A message is received before the application reads anything.
LEMMA ReceiveStep ==
  ASSUME BodyInv, Receive
  PROVE  BufferIsPrefix' /\ BufferComplete' /\ ReplayOfBuffer' /\ TimerInScope'
<1> DEFINE m == stream[Len(messages) + 1]
<1>1. /\ phase = "reading"
      /\ Len(messages) < Len(stream)
      /\ messages' = Append(messages, m)
      /\ UNCHANGED <<stream, replayed>>
      /\ m \in Messages
  BY DEF Receive, Keep, BodyInv, TypeOK
<1>2. replayed = <<>>
  BY <1>1 DEF BodyInv, BufferComplete
<1>3. /\ Len(messages') = Len(messages) + 1
      /\ messages'[Len(messages) + 1] = m
      /\ \A i \in 1..Len(messages) : messages'[i] = messages[i]
  BY <1>1 DEF BodyInv, TypeOK
<1>4. BufferIsPrefix'
  BY <1>1, <1>3 DEF BodyInv, TypeOK, BufferIsPrefix
<1>5. \/ phase' \in {"reading", "refusing"}
      \/ phase' = "serving" /\ timer' = "off" /\ status' = status /\ Ends(m)
  BY DEF Receive, Serve, Refuse, Ends
<1>6. BufferComplete'
  <2>1. CASE phase' \in {"reading", "refusing"}
    BY <1>1, <1>2, <2>1 DEF BufferComplete
  <2>2. CASE phase' = "serving" /\ timer' = "off" /\ status' = status /\ Ends(m)
    <3>1. status' = 0
      BY <1>1, <2>2 DEF BodyInv, TimerInScope
    <3>2. Len(messages') >= 1 /\ Ends(messages'[Len(messages')])
      BY <1>3, <2>2 DEF BodyInv, TypeOK, Ends
    <3>3. QED
      BY <2>2, <3>1, <3>2 DEF BufferComplete, Ends
  <2>3. QED
    BY <1>5, <2>1, <2>2
<1>7. ReplayOfBuffer'
  BY <1>1, <1>2 DEF ReplayOfBuffer
<1>8. TimerInScope'
  <2>1. phase' = "reading" => status' = status
    BY DEF Receive, Serve, Refuse
  <2>2. QED
    BY <1>1, <1>5, <2>1 DEF BodyInv, TimerInScope
<1>9. QED
  BY <1>4, <1>6, <1>7, <1>8

LEMMA ReadStep ==
  ASSUME BodyInv, ApplicationReads
  PROVE  BufferIsPrefix' /\ BufferComplete' /\ ReplayOfBuffer' /\ TimerInScope'
<1>1. /\ phase = "serving"
      /\ replayed' = Append(replayed, NextReplay)
      /\ UNCHANGED <<stream, phase, timer, messages, status>>
  BY DEF ApplicationReads
<1>2. NextReplay \in Messages
  BY MessagesOfClients DEF NextReplay, BodyInv, TypeOK
<1>3. /\ Len(replayed') = Len(replayed) + 1
      /\ replayed'[Len(replayed) + 1] = NextReplay
      /\ \A i \in 1..Len(replayed) : replayed'[i] = replayed[i]
  BY <1>1, <1>2 DEF BodyInv, TypeOK
<1>4. ReplayOfBuffer'
  <2> SUFFICES ASSUME NEW i \in 1..Len(replayed')
               PROVE  IF i <= Len(messages') THEN replayed'[i] = messages'[i]
                                             ELSE replayed'[i] = EmptyEnd
    BY DEF ReplayOfBuffer, EmptyEnd
  <2>1. CASE i \in 1..Len(replayed)
    BY <1>1, <1>3, <2>1 DEF BodyInv, ReplayOfBuffer
  <2>2. CASE i = Len(replayed) + 1
    BY <1>1, <1>3, <2>2 DEF BodyInv, TypeOK, NextReplay
  <2>3. QED
    BY <1>3, <2>1, <2>2 DEF BodyInv, TypeOK
<1>5. BufferIsPrefix' /\ BufferComplete' /\ TimerInScope'
  BY <1>1 DEF BodyInv, BufferIsPrefix, BufferComplete, TimerInScope, Ends
<1>6. QED
  BY <1>4, <1>5

LEMMA BodyStep == BodyInv /\ [Next]_vars => BodyInv'
<1> SUFFICES ASSUME BodyInv, [Next]_vars PROVE BodyInv'
  OBVIOUS
<1> DEFINE Rest == BufferIsPrefix /\ BufferComplete /\ ReplayOfBuffer /\ TimerInScope
<1>1. CASE ClientSends
  <2>1. PICK n \in Sizes, more \in BOOLEAN : ClientMoves(Piece(n, more))
    BY <1>1 DEF ClientSends
  <2>2. Piece(n, more) \in Messages
    BY MessagesOfClients, BodyConstants DEF BodyConstants
  <2>3. QED
    BY <2>1, <2>2, ClientStep, TypeStep DEF BodyInv
<1>2. CASE ClientLeaves
  BY <1>2, ClientStep, MessagesOfClients, TypeStep DEF ClientLeaves, BodyInv
<1>3. CASE Receive
  BY <1>3, ReceiveStep, TypeStep DEF BodyInv
<1>4. CASE ApplicationReads
  BY <1>4, ReadStep, TypeStep DEF BodyInv
<1>5. CASE Bypass \/ RefuseUnread \/ StartReading \/ DeadlineFires
  <2>1. UNCHANGED <<stream, messages, replayed>>
    BY <1>5 DEF Bypass, RefuseUnread, StartReading, DeadlineFires
  <2>2. /\ phase \in {"called", "reading", "refusing", "started", "sent"}
        /\ phase' \in {"bypassed", "refusing", "reading"}
        /\ timer' = "armed" => phase' = "reading"
        /\ phase' = "reading" => status' = 0
    BY <1>5 DEF BodyInv, TimerInScope, Bypass, RefuseUnread, StartReading,
       DeadlineFires, Refuse
  <2>3. replayed = <<>>
    BY <2>2 DEF BodyInv, BufferComplete
  <2>4. Rest'
    BY <2>1, <2>2, <2>3
       DEF BodyInv, BufferIsPrefix, BufferComplete, ReplayOfBuffer, TimerInScope
  <2>5. QED
    BY <2>4, TypeStep DEF BodyInv
<1>6. CASE SendStart \/ SendBody \/ Return
  <2>1. UNCHANGED <<stream, messages, replayed, status>>
    BY <1>6 DEF SendStart, SendBody, Return
  <2>2. /\ phase \in {"refusing", "started", "sent"}
        /\ phase' \in {"started", "sent", "done"}
        /\ timer' = "armed" => phase' \in {"started", "sent"}
    BY <1>6 DEF SendStart, SendBody, Return
  <2>3. replayed = <<>>
    BY <2>2 DEF BodyInv, BufferComplete
  <2>4. Rest'
    BY <2>1, <2>2, <2>3
       DEF BodyInv, BufferIsPrefix, BufferComplete, ReplayOfBuffer, TimerInScope
  <2>5. QED
    BY <2>4, TypeStep DEF BodyInv
<1>7. CASE ApplicationResponds
  <2>1. /\ phase = "serving" /\ phase' = "done"
        /\ UNCHANGED <<stream, messages, replayed, status, timer>>
    BY <1>7 DEF ApplicationResponds
  <2>2. Rest'
    BY <2>1 DEF BodyInv, BufferIsPrefix, BufferComplete, ReplayOfBuffer,
       TimerInScope, Ends
  <2>3. QED
    BY <2>2, TypeStep DEF BodyInv
<1>8. CASE UNCHANGED vars
  BY <1>8, TypeStep DEF vars, BodyInv, BufferIsPrefix, BufferComplete,
     ReplayOfBuffer, TimerInScope, Ends
<1>9. QED
  BY <1>1, <1>2, <1>3, <1>4, <1>5, <1>6, <1>7, <1>8 DEF Next

LEMMA InvariantHolds == Spec => []BodyInv
BY InitBody, BodyStep, PTL DEF Spec

\* Every variable of the middleware keeps its type.
THEOREM BodyTypeCorrect == Spec => []TypeOK
<1>1. BodyInv => TypeOK
  BY DEF BodyInv
<1>2. QED
  BY <1>1, InvariantHolds, PTL

\* However the client cuts its body, stalls or leaves, the application reads
\* what was sent, in order, and an end only after a real one.
THEOREM ReplayIsFaithful == Spec => []FaithfulReplay
<1>1. BodyInv => FaithfulReplay
  <2> SUFFICES ASSUME BodyInv, NEW i \in DOMAIN replayed
               PROVE  \/ i \in DOMAIN stream /\ replayed[i] = stream[i]
                      \/ /\ replayed[i] = EmptyEnd
                         /\ \E j \in DOMAIN replayed : j < i /\ Ends(replayed[j])
    BY DEF FaithfulReplay
  <2> DEFINE n == Len(messages)
  <2>1. /\ i \in 1..Len(replayed)
        /\ DOMAIN replayed = 1..Len(replayed)
        /\ DOMAIN stream = 1..Len(stream)
        /\ n \in Nat
    BY DEF BodyInv, TypeOK
  <2>2. CASE i <= n
    BY <2>1, <2>2 DEF BodyInv, TypeOK, BufferIsPrefix, ReplayOfBuffer
  <2>3. CASE n < i
    <3>1. replayed # <<>>
      BY <2>1
    <3>2. n >= 1 /\ Ends(messages[n])
      BY <3>1 DEF BodyInv, BufferComplete
    <3>3. n \in 1..Len(replayed) /\ replayed[n] = messages[n]
      BY <2>1, <2>3, <3>2 DEF BodyInv, TypeOK, ReplayOfBuffer
    <3>4. Ends(replayed[n])
      BY <3>2, <3>3
    <3>5. replayed[i] = EmptyEnd
      BY <2>1, <2>3 DEF BodyInv, ReplayOfBuffer
    <3>6. QED
      BY <2>1, <2>3, <3>3, <3>4, <3>5
  <2>4. QED
    BY <2>1, <2>2, <2>3
<1>2. QED
  BY <1>1, InvariantHolds, PTL

\* Once the application runs, the middleware answers nothing and the deadline
\* of the body is over.
THEOREM ServedNeverRefused == Spec => []ServedOrRefused
<1>1. BodyInv => ServedOrRefused
  BY DEF BodyInv, BufferComplete, ServedOrRefused
<1>2. QED
  BY <1>1, InvariantHolds, PTL

----------------------------------------------------------------------------
(* Counting bytes: the middleware adds them up as they come, and what it    *)
(* has counted is the size of what it holds.                                *)

SizesOf(s) == [i \in DOMAIN s |-> s[i].size]

LEMMA BytesOfMessages ==
  ASSUME NEW s \in Seq(Messages)
  PROVE  /\ IsFiniteSet(1..Len(s))
         /\ \A i \in 1..Len(s) : SizesOf(s)[i] = s[i].size /\ s[i].size \in Nat
         /\ Bytes(s) = Sum(SizesOf(s), 1..Len(s))
         /\ Bytes(s) \in Nat
<1>1. DOMAIN s = 1..Len(s) /\ Len(s) \in Nat
  OBVIOUS
<1>2. IsFiniteSet(1..Len(s))
  BY <1>1, FS_Interval
<1>3. \A i \in 1..Len(s) : SizesOf(s)[i] = s[i].size /\ s[i].size \in Nat
  <2>1. \A i \in 1..Len(s) : s[i] \in Messages
    OBVIOUS
  <2>2. \A i \in 1..Len(s) : s[i].size \in Nat
    BY <2>1 DEF Messages
  <2>3. QED
    BY <1>1, <2>2 DEF SizesOf
<1>4. Bytes(s) = Sum(SizesOf(s), 1..Len(s))
  <2>1. DOMAIN SizesOf(s) = 1..Len(s) /\ Bytes(s) = SumFunction(SizesOf(s))
    BY <1>1 DEF SizesOf, Bytes
  <2>2. QED
    BY <2>1, SumOfFunction
<1>5. Sum(SizesOf(s), 1..Len(s)) \in Nat
  BY <1>2, <1>3, SumNat
<1>6. QED
  BY <1>2, <1>3, <1>4, <1>5

LEMMA BytesOfNothing == Bytes(<<>>) = 0
<1>1. <<>> \in Seq(Messages) /\ Len(<<>>) = 0 /\ 1..0 = {}
  OBVIOUS
<1>2. Bytes(<<>>) = Sum(SizesOf(<<>>), {})
  BY <1>1, BytesOfMessages
<1>3. QED
  BY <1>2, SumEmpty

LEMMA BytesOfAppend ==
  ASSUME NEW s \in Seq(Messages), NEW m \in Messages
  PROVE  Bytes(Append(s, m)) = Bytes(s) + m.size
<1> DEFINE t == Append(s, m)
           n == Len(s) + 1
<1>1. t \in Seq(Messages) /\ Len(t) = n
  OBVIOUS
<1>2. /\ t[n] = m
      /\ \A i \in 1..Len(s) : t[i] = s[i]
  OBVIOUS
<1>3. /\ n \in 1..n
      /\ (1..n) \ {n} = 1..Len(s)
      /\ 1..Len(s) \subseteq 1..n
  OBVIOUS
<1> HIDE DEF t, n
<1>4. /\ Bytes(t) = Sum(SizesOf(t), 1..n)
      /\ IsFiniteSet(1..n)
      /\ \A i \in 1..n : SizesOf(t)[i] = t[i].size /\ t[i].size \in Nat
  BY <1>1, BytesOfMessages
<1>5. /\ Bytes(s) = Sum(SizesOf(s), 1..Len(s))
      /\ IsFiniteSet(1..Len(s))
      /\ \A i \in 1..Len(s) : SizesOf(s)[i] = s[i].size
      /\ Bytes(s) \in Nat
  BY BytesOfMessages
<1>6. \A i \in 1..n : SizesOf(t)[i] \in Int
  BY <1>4
<1>7. Sum(SizesOf(t), 1..n) = SizesOf(t)[n] + Sum(SizesOf(t), (1..n) \ {n})
  BY <1>3, <1>4, <1>6, SumTake
<1>8. Sum(SizesOf(t), (1..n) \ {n}) = Sum(SizesOf(t), 1..Len(s))
  BY <1>3, Zenon
<1>9. \A i \in 1..Len(s) : SizesOf(t)[i] = SizesOf(s)[i]
  BY <1>2, <1>3, <1>4, <1>5
<1>10. Sum(SizesOf(t), 1..Len(s)) = Sum(SizesOf(s), 1..Len(s))
  BY <1>5, <1>9, SumAgree
<1>11. SizesOf(t)[n] = m.size /\ m.size \in Nat
  BY <1>2, <1>3, <1>4
<1>12. Bytes(t) = Bytes(s) + m.size
  BY <1>4, <1>5, <1>7, <1>8, <1>10, <1>11
<1>13. QED
  BY <1>12 DEF t

\* What was read of a body is not larger than what was sent.
LEMMA BytesOfPrefix ==
  ASSUME NEW s \in Seq(Messages), NEW t \in Seq(Messages), Len(s) <= Len(t),
         \A i \in 1..Len(s) : s[i] = t[i]
  PROVE  Bytes(s) <= Bytes(t)
<1> DEFINE whole == 1..Len(t)
           part == 1..Len(s)
           rest == whole \ part
<1>1. whole = part \cup rest /\ part \cap rest = {}
  OBVIOUS
<1>2. /\ Bytes(t) = Sum(SizesOf(t), whole)
      /\ IsFiniteSet(whole)
      /\ \A i \in whole : SizesOf(t)[i] = t[i].size /\ SizesOf(t)[i] \in Nat
  BY BytesOfMessages
<1>3. /\ Bytes(s) = Sum(SizesOf(s), part)
      /\ IsFiniteSet(part)
      /\ \A i \in part : SizesOf(s)[i] = s[i].size
      /\ Bytes(s) \in Nat
  BY BytesOfMessages
<1>4. IsFiniteSet(rest) /\ \A i \in rest : SizesOf(t)[i] \in Nat
  BY <1>2, FS_Subset
<1>5. \A i \in part : SizesOf(s)[i] = SizesOf(t)[i] /\ SizesOf(t)[i] \in Nat
  BY <1>1, <1>2, <1>3
<1> HIDE DEF whole, part, rest
<1>6. Sum(SizesOf(t), part) = Bytes(s)
  BY <1>3, <1>5, SumAgree
<1>7. Sum(SizesOf(t), rest) \in Nat
  BY <1>4, SumNat
<1>8. Sum(SizesOf(t), part \cup rest)
        = Sum(SizesOf(t), part) + Sum(SizesOf(t), rest)
  BY <1>1, <1>2, <1>3, <1>4, SumDisjoint
<1>9. QED
  BY <1>1, <1>2, <1>3, <1>6, <1>7, <1>8

\* A disconnect carries no bytes.
LeavingIsEmpty ==
  \A i \in 1..Len(stream) : stream[i].type = "http.disconnect" => stream[i].size = 0

\* received_bytes is the size of the buffer, and within the limit as long as
\* the loop goes on.
CountedWhileRead ==
  /\ phase = "called" => messages = <<>> /\ received = 0
  /\ phase = "reading" => received = Bytes(messages) /\ received <= Limit
  /\ phase = "serving" => Bytes(messages) <= Limit

RefusedForSize == status = 413 \/ Responded(413)

\* Only a body or a header that is too large brings a 413 about.
RefusalJustified == RefusedForSize => DeclaredTooLarge \/ Bytes(stream) > Limit

LimitInv == LeavingIsEmpty /\ CountedWhileRead /\ RefusalJustified

LEMMA InitLimit == Init => LimitInv
<1> SUFFICES ASSUME Init PROVE LimitInv
  OBVIOUS
<1>1. LeavingIsEmpty
  BY DEF Init, LeavingIsEmpty
<1>2. CountedWhileRead
  BY DEF Init, CountedWhileRead
<1>3. ~RefusedForSize
  BY DEF Init, RefusedForSize, Responded
<1>4. QED
  BY <1>1, <1>2, <1>3 DEF LimitInv, RefusalJustified

\* What the client sends later does not make its body smaller.
LEMMA ClientKeepsLimit ==
  ASSUME BodyInv, LimitInv, NEW m \in Messages, ClientMoves(m),
         m.type = "http.disconnect" => m.size = 0
  PROVE  LimitInv'
<1>1. /\ stream \in Seq(Messages) /\ stream' = Append(stream, m)
      /\ UNCHANGED <<request, phase, messages, received, status, out>>
  BY DEF ClientMoves, BodyInv, TypeOK
<1>2. LeavingIsEmpty'
  <2>1. /\ Len(stream') = Len(stream) + 1
        /\ stream'[Len(stream) + 1] = m
        /\ \A i \in 1..Len(stream) : stream'[i] = stream[i]
    BY <1>1
  <2>2. Len(stream) \in Nat
    BY <1>1
  <2> SUFFICES ASSUME NEW i \in 1..Len(stream'), stream'[i].type = "http.disconnect"
               PROVE  stream'[i].size = 0
    BY DEF LeavingIsEmpty
  <2>3. i \in 1..Len(stream) \/ i = Len(stream) + 1
    BY <2>1, <2>2
  <2>4. QED
    BY <2>1, <2>3 DEF LimitInv, LeavingIsEmpty
<1>3. CountedWhileRead'
  BY <1>1 DEF LimitInv, CountedWhileRead, Bytes
<1>4. RefusalJustified'
  <2>1. /\ Bytes(stream') = Bytes(stream) + m.size
        /\ Bytes(stream) \in Nat /\ m.size \in Nat
    BY <1>1, BytesOfAppend, BytesOfMessages DEF Messages
  <2>2. RefusedForSize' <=> RefusedForSize
    BY <1>1 DEF RefusedForSize, Responded
  <2>3. DeclaredTooLarge' <=> DeclaredTooLarge
    BY <1>1 DEF DeclaredTooLarge
  <2>4. Limit \in Nat
    BY BodyConstants DEF BodyConstants
  <2>5. QED
    BY <2>1, <2>2, <2>3, <2>4 DEF LimitInv, RefusalJustified
<1>5. QED
  BY <1>2, <1>3, <1>4 DEF LimitInv

LEMMA ReceiveKeepsLimit ==
  ASSUME BodyInv, LimitInv, Receive, BodyInv'
  PROVE  LimitInv'
<1> DEFINE m == stream[Len(messages) + 1]
           total == received + m.size
<1>1. /\ phase = "reading"
      /\ messages' = Append(messages, m)
      /\ UNCHANGED <<request, stream, out>>
      /\ \/ m.type = "http.disconnect" /\ phase' = "serving" /\ UNCHANGED <<received, status>>
         \/ /\ m.type = "http.request"
            /\ received' = total
            /\ \/ total > Limit /\ phase' = "refusing" /\ status' = 413
               \/ total <= Limit /\ phase' = "serving" /\ UNCHANGED status
               \/ total <= Limit /\ phase' = phase /\ UNCHANGED status
  BY DEF Receive, Keep, Count, Serve, Refuse
<1>2. /\ messages \in Seq(Messages) /\ stream \in Seq(Messages)
      /\ Len(messages) + 1 \in 1..Len(stream)
      /\ m \in Messages
  BY DEF Receive, BodyInv, TypeOK
<1>3. m.size \in Nat
  BY <1>2 DEF Messages
<1>4. m.type = "http.disconnect" => m.size = 0
  BY <1>2 DEF LimitInv, LeavingIsEmpty
<1> HIDE DEF m
<1>5. Bytes(messages') = Bytes(messages) + m.size
  BY <1>1, <1>2, BytesOfAppend
<1>6. /\ received = Bytes(messages) /\ received <= Limit
      /\ received \in Nat /\ Limit \in Nat
  BY <1>1, BodyConstants DEF LimitInv, CountedWhileRead, BodyInv, TypeOK, BodyConstants
<1>7. CountedWhileRead'
  BY <1>1, <1>3, <1>4, <1>5, <1>6 DEF CountedWhileRead
<1>8. RefusalJustified'
  <2>1. CASE status' = 413 /\ total > Limit
    <3>1. Bytes(messages') <= Bytes(stream')
      BY BytesOfPrefix, ZenonT(30) DEF BodyInv, TypeOK, BufferIsPrefix
    <3>2. Bytes(messages') \in Nat /\ Bytes(stream') \in Nat
      BY BytesOfMessages DEF BodyInv, TypeOK
    <3>3. Bytes(stream') > Limit
      BY <1>3, <1>5, <1>6, <2>1, <3>1, <3>2
    <3>4. QED
      BY <3>3 DEF RefusalJustified
  <2>2. CASE status' = status
    BY <1>1, <2>2 DEF LimitInv, RefusalJustified, RefusedForSize, Responded,
       DeclaredTooLarge
  <2>3. QED
    BY <1>1, <2>1, <2>2
<1>9. LeavingIsEmpty'
  BY <1>1 DEF LimitInv, LeavingIsEmpty
<1>10. QED
  BY <1>7, <1>8, <1>9 DEF LimitInv

LEMMA LimitStep == BodyInv /\ BodyInv' /\ LimitInv /\ [Next]_vars => LimitInv'
<1> SUFFICES ASSUME BodyInv, BodyInv', LimitInv, [Next]_vars PROVE LimitInv'
  OBVIOUS
<1>1. CASE ClientSends
  <2>1. PICK n \in Sizes, more \in BOOLEAN : ClientMoves(Piece(n, more))
    BY <1>1 DEF ClientSends
  <2>2. Piece(n, more) \in Messages /\ Piece(n, more).type # "http.disconnect"
    BY MessagesOfClients, BodyConstants DEF BodyConstants, Piece
  <2>3. QED
    BY <2>1, <2>2, ClientKeepsLimit
<1>2. CASE ClientLeaves
  <2>1. Disconnect \in Messages /\ Disconnect.size = 0
    BY MessagesOfClients DEF Disconnect
  <2>2. QED
    BY <1>2, <2>1, ClientKeepsLimit DEF ClientLeaves
<1>3. CASE Receive
  BY <1>3, ReceiveKeepsLimit
<1>4. CASE Bypass \/ RefuseUnread \/ StartReading \/ DeadlineFires
  <2>1. UNCHANGED <<request, stream, messages, received, out>>
    BY <1>4 DEF Bypass, RefuseUnread, StartReading, DeadlineFires
  <2>2. /\ phase' \in {"bypassed", "refusing", "reading"}
        /\ phase' = "reading" => phase = "called"
        /\ status' = 413 => status = 413 \/ DeclaredTooLarge
    BY <1>4 DEF Bypass, RefuseUnread, StartReading, DeadlineFires, Refuse
  <2>3. CountedWhileRead'
    BY <2>1, <2>2, BytesOfNothing, BodyConstants
       DEF LimitInv, CountedWhileRead, BodyConstants
  <2>4. RefusalJustified'
    BY <2>1, <2>2 DEF LimitInv, RefusalJustified, RefusedForSize, Responded,
       DeclaredTooLarge
  <2>5. LeavingIsEmpty'
    BY <2>1 DEF LimitInv, LeavingIsEmpty
  <2>6. QED
    BY <2>3, <2>4, <2>5 DEF LimitInv
<1>5. CASE SendStart \/ SendBody \/ ApplicationResponds
  <2>1. UNCHANGED <<request, stream, messages, received, status>>
    BY <1>5 DEF SendStart, SendBody, ApplicationResponds
  <2>2. phase' \in {"started", "sent", "done"}
    BY <1>5 DEF SendStart, SendBody, ApplicationResponds
  <2>3. ASSUME NEW i \in DOMAIN out', out'[i].status = 413
        PROVE  status = 413 \/ (i \in DOMAIN out /\ out[i].status = 413)
    <3> DEFINE Parts == [part : {"start", "body"}, status : {0, 401, 408, 413}]
    <3>1. out \in Seq(Parts) /\ status \in {0, 401, 408, 413}
      BY DEF BodyInv, TypeOK
    <3>2. CASE SendStart \/ SendBody
      <4>1. PICK p \in {"start", "body"} :
                   out' = Append(out, [part |-> p, status |-> status])
        BY <3>2 DEF SendStart, SendBody
      <4>2. [part |-> p, status |-> status] \in Parts
        BY <3>1
      <4> DEFINE q == [part |-> p, status |-> status]
      <4>3. q.status = status
        OBVIOUS
      <4> HIDE DEF q, Parts
      <4>4. i = Len(out) + 1 => out'[i] = q
        BY <3>1, <4>1, <4>2 DEF q
      <4>5. i # Len(out) + 1 => i \in DOMAIN out /\ out'[i] = out[i]
        BY <2>3, <3>1, <4>1, <4>2
      <4>6. QED
        BY <2>3, <4>3, <4>4, <4>5
    <3>3. CASE ApplicationResponds
      <4> DEFINE both == <<[part |-> "start", status |-> 0], [part |-> "body", status |-> 0]>>
      <4>1. out' = out \o both
        BY <3>3 DEF ApplicationResponds
      <4>2. both \in Seq(Parts) /\ Len(both) = 2 /\ both[1].status = 0 /\ both[2].status = 0
        OBVIOUS
      <4> HIDE DEF both, Parts
      <4>3. /\ Len(out') = Len(out) + 2
            /\ out' \in Seq(Parts)
            /\ \A k \in 1..Len(out) + 2 :
                 out'[k] = IF k <= Len(out) THEN out[k] ELSE both[k - Len(out)]
        <5>1. both \in Seq(Parts) /\ out \in Seq(Parts)
          BY <3>1, <4>2
        <5>2. /\ Len(out \o both) = Len(out) + Len(both)
              /\ out \o both \in Seq(Parts)
              /\ \A k \in 1..Len(out) + Len(both) :
                   (out \o both)[k] = IF k <= Len(out) THEN out[k] ELSE both[k - Len(out)]
          BY <5>1, ConcatProperties, Zenon
        <5>3. Len(both) = 2
          BY <4>2
        <5>4. QED
          BY <4>1, <5>2, <5>3, Zenon
      <4>4. i \in 1..Len(out) + 2 /\ Len(out) \in Nat /\ DOMAIN out = 1..Len(out)
        BY <2>3, <3>1, <4>3
      <4>5. i > Len(out) => i - Len(out) \in {1, 2}
        BY <4>4
      <4>6. QED
        BY <2>3, <3>1, <4>2, <4>3, <4>4, <4>5
    <3>4. QED
      BY <1>5, <3>2, <3>3
  <2>4. Responded(413)' => RefusedForSize
    BY <2>3 DEF Responded, RefusedForSize
  <2>5. CountedWhileRead'
    BY <2>2 DEF CountedWhileRead
  <2>6. RefusalJustified'
    BY <2>1, <2>4 DEF LimitInv, RefusalJustified, RefusedForSize, DeclaredTooLarge
  <2>7. LeavingIsEmpty'
    BY <2>1 DEF LimitInv, LeavingIsEmpty
  <2>8. QED
    BY <2>5, <2>6, <2>7 DEF LimitInv
<1>6. CASE Return \/ ApplicationReads \/ UNCHANGED vars
  <2>1. /\ UNCHANGED <<request, stream, messages, received, status, out>>
        /\ phase' = phase \/ phase' = "done"
    BY <1>6 DEF Return, ApplicationReads, vars
  <2>2. CountedWhileRead'
    BY <2>1 DEF LimitInv, CountedWhileRead, Bytes
  <2>3. RefusalJustified' /\ LeavingIsEmpty'
    BY <2>1 DEF LimitInv, RefusalJustified, RefusedForSize, Responded,
       DeclaredTooLarge, LeavingIsEmpty
  <2>4. QED
    BY <2>2, <2>3 DEF LimitInv
<1>7. QED
  BY <1>1, <1>2, <1>3, <1>4, <1>5, <1>6 DEF Next

\* However the body is cut into pieces and whatever its Content-Length claims,
\* the application gets no body beyond the limit, and a 413 is never the answer
\* to a body within it.
THEOREM LimitHolds == Spec => []LimitIsExact
<1>1. LimitInv => LimitIsExact
  BY DEF LimitInv, CountedWhileRead, RefusalJustified, RefusedForSize, LimitIsExact
<1>2. Spec => []LimitInv
  BY InitLimit, LimitStep, InvariantHolds, PTL DEF Spec
<1>3. QED
  BY <1>1, <1>2, PTL
============================================================================
