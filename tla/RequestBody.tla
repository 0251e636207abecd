---------------------------- MODULE RequestBody ----------------------------
(***************************************************************************)
(* RequestBodyLimitMiddleware (interfaces/api/app.py) and one request.     *)
(* The client's body arrives in pieces, in its own time; the middleware    *)
(* authenticates, reads the whole body under a size limit and a deadline,  *)
(* and either refuses the request or hands the application a replay of     *)
(* what it read.                                                           *)
(*                                                                         *)
(* Sending is not one step: the response of a refusal is a start message   *)
(* and a body message, and the coroutine is suspended at each of them.     *)
(* The deadline is the asyncio.timeout of the reading loop; it cancels     *)
(* whatever the coroutine awaits inside that block.                        *)
(***************************************************************************)
EXTENDS Integers, Sequences, Functions

CONSTANTS
  Limit,        \* maximum_bytes
  Sizes,        \* sizes of the pieces a client sends
  Lengths,      \* values a Content-Length header may have
  NoLength,     \* the header is absent or no number
  MaxMessages,  \* bound: messages of the client
  MaxReads      \* bound: messages the application asks for

ASSUME BodyConstants ==
  /\ Limit \in Nat
  /\ Sizes \in SUBSET Nat
  /\ Lengths \in SUBSET Int
  /\ NoLength \notin Int
  /\ MaxMessages \in Nat
  /\ MaxReads \in Nat

VARIABLES
  request,   \* what the headers say
  stream,    \* the messages the client has sent so far
  phase,     \* where the middleware stands
  timer,     \* whether the read deadline is armed
  messages,  \* the messages read so far
  received,  \* received_bytes
  status,    \* the status of the refusal under way
  replayed,  \* what the application has read
  out        \* the messages of the response

vars == <<request, stream, phase, timer, messages, received, status, replayed, out>>

Requests == [guarded : BOOLEAN, keyed : BOOLEAN, declared : Lengths \cup {NoLength}]
Messages == [type : {"http.request", "http.disconnect"}, size : Nat, more : BOOLEAN]

Piece(n, more) == [type |-> "http.request", size |-> n, more |-> more]
Disconnect == [type |-> "http.disconnect", size |-> 0, more |-> FALSE]
EmptyEnd == Piece(0, FALSE)

Ends(m) == m.type = "http.disconnect" \/ ~m.more

----------------------------------------------------------------------------
(* The client, which may send, stall or leave at any point *)

Ended == stream # <<>> /\ Ends(stream[Len(stream)])
Gone == stream # <<>> /\ stream[Len(stream)] = Disconnect

ClientMoves(m) ==
  /\ Len(stream) < MaxMessages
  /\ stream' = Append(stream, m)
  /\ UNCHANGED <<request, phase, timer, messages, received, status, replayed, out>>

ClientSends ==
  \E n \in Sizes, more \in BOOLEAN : ~Ended /\ ClientMoves(Piece(n, more))

ClientLeaves == ~Gone /\ ClientMoves(Disconnect)

----------------------------------------------------------------------------
(* Before the body is read *)

Refuse(code) == phase' = "refusing" /\ status' = code

Bypass ==
  /\ phase = "called"
  /\ ~request.guarded
  /\ phase' = "bypassed"
  /\ UNCHANGED <<request, stream, timer, messages, received, status, replayed, out>>

DeclaredTooLarge == request.declared # NoLength /\ request.declared > Limit

RefuseUnread ==
  /\ phase = "called"
  /\ request.guarded
  /\ \/ ~request.keyed /\ Refuse(401)
     \/ request.keyed /\ DeclaredTooLarge /\ Refuse(413)
  /\ UNCHANGED <<request, stream, timer, messages, received, replayed, out>>

\* Mutant: the body is read without a deadline.
NoReadDeadline ==
  /\ phase = "called"
  /\ request.guarded /\ request.keyed /\ ~DeclaredTooLarge
  /\ phase' = "reading"
  /\ UNCHANGED <<request, stream, timer, messages, received, status, replayed, out>>

\* Mutant: counting starts from the declared length, which may be none.
CountFromDeclared ==
  /\ phase = "called"
  /\ request.guarded /\ request.keyed /\ ~DeclaredTooLarge
  /\ phase' = "reading"
  /\ timer' = "armed"
  /\ received' = request.declared
  /\ UNCHANGED <<request, stream, messages, status, replayed, out>>

StartReading ==
  /\ phase = "called"
  /\ request.guarded /\ request.keyed /\ ~DeclaredTooLarge
  /\ phase' = "reading"
  /\ timer' = "armed"
  /\ UNCHANGED <<request, stream, messages, received, status, replayed, out>>

----------------------------------------------------------------------------
(* The reading loop *)

\* Mutant: a disconnect ends the loop before it is kept.
KeepPieces(m) ==
  messages' = IF m.type = "http.disconnect" THEN messages ELSE Append(messages, m)

Keep(m) == messages' = Append(messages, m)

\* Mutant: each piece is compared with the limit by itself.
CountLast(m) == m.size

Count(m) == received + m.size

\* Mutant: the application runs inside the deadline of the body.
ServeInsideTimeout == phase' = "serving" /\ UNCHANGED <<timer, status>>

Serve == phase' = "serving" /\ timer' = "off" /\ UNCHANGED status

Receive ==
  /\ phase = "reading"
  /\ Len(messages) < Len(stream)
  /\ LET m == stream[Len(messages) + 1]
         total == Count(m)
     IN  /\ Keep(m)
         /\ \/ /\ m.type = "http.disconnect"
               /\ Serve
               /\ UNCHANGED received
            \/ /\ m.type = "http.request"
               /\ received' = total
               /\ \/ total > Limit /\ Refuse(413) /\ UNCHANGED timer
                  \/ total <= Limit /\ ~m.more /\ Serve
                  \/ total <= Limit /\ m.more /\ UNCHANGED <<phase, timer, status>>
  /\ UNCHANGED <<request, stream, replayed, out>>

\* The deadline cancels what the block awaits: the next message, or the
\* sending of a refusal that began inside the block.
DeadlineFires ==
  /\ timer = "armed"
  /\ timer' = "off"
  /\ Refuse(408)
  /\ UNCHANGED <<request, stream, messages, received, replayed, out>>

----------------------------------------------------------------------------
(* A refusal is sent in two messages *)

SendStart ==
  /\ phase = "refusing"
  /\ phase' = "started"
  /\ out' = Append(out, [part |-> "start", status |-> status])
  /\ UNCHANGED <<request, stream, timer, messages, received, status, replayed>>

SendBody ==
  /\ phase = "started"
  /\ phase' = "sent"
  /\ out' = Append(out, [part |-> "body", status |-> status])
  /\ UNCHANGED <<request, stream, timer, messages, received, status, replayed>>

Return ==
  /\ phase = "sent"
  /\ phase' = "done"
  /\ timer' = "off"
  /\ UNCHANGED <<request, stream, messages, received, status, replayed, out>>

----------------------------------------------------------------------------
(* The application, fed by replay_receive *)

NextReplay ==
  LET index == Len(replayed)
  IN  IF index < Len(messages) THEN messages[index + 1] ELSE EmptyEnd

ApplicationReads ==
  /\ phase = "serving"
  /\ Len(replayed) < MaxReads
  /\ replayed' = Append(replayed, NextReplay)
  /\ UNCHANGED <<request, stream, phase, timer, messages, received, status, out>>

\* The application responds with a status of its own, 0 here.
ApplicationResponds ==
  /\ phase = "serving"
  /\ phase' = "done"
  /\ out' = out \o <<[part |-> "start", status |-> 0], [part |-> "body", status |-> 0]>>
  /\ UNCHANGED <<request, stream, timer, messages, received, status, replayed>>

----------------------------------------------------------------------------
Init ==
  /\ request \in Requests
  /\ stream = <<>>
  /\ phase = "called"
  /\ timer = "off"
  /\ messages = <<>>
  /\ received = 0
  /\ status = 0
  /\ replayed = <<>>
  /\ out = <<>>

Next ==
  \/ ClientSends
  \/ ClientLeaves
  \/ Bypass
  \/ RefuseUnread
  \/ StartReading
  \/ Receive
  \/ DeadlineFires
  \/ SendStart
  \/ SendBody
  \/ Return
  \/ ApplicationReads
  \/ ApplicationResponds

Spec == Init /\ [][Next]_vars

\* The event loop resumes what can go on, timers fire, and a refusal, which is
\* a few hundred bytes, is sent. Nothing is assumed of the client or of the
\* application.
LoopFairness ==
  /\ WF_vars(Bypass \/ RefuseUnread \/ StartReading)
  /\ WF_vars(Receive)
  /\ WF_vars(DeadlineFires)
  /\ WF_vars(SendStart \/ SendBody \/ Return)

FairSpec == Spec /\ LoopFairness

----------------------------------------------------------------------------
(* Properties *)

TypeOK ==
  /\ request \in Requests
  /\ stream \in Seq(Messages)
  /\ phase \in {"called", "bypassed", "reading", "refusing", "started", "sent",
                "serving", "done"}
  /\ timer \in {"off", "armed"}
  /\ messages \in Seq(Messages)
  /\ received \in Nat
  /\ status \in {0, 401, 408, 413}
  /\ replayed \in Seq(Messages)
  /\ out \in Seq([part : {"start", "body"}, status : {0, 401, 408, 413}])

Bytes(s) == SumFunction([i \in DOMAIN s |-> s[i].size])

Responded(code) == \E i \in DOMAIN out : out[i].status = code

\* The limit is exact, however the body is cut into pieces: one beyond it never
\* reaches the application, whatever its Content-Length claims, and one within
\* it is refused for its size only when its Content-Length claims more.
LimitIsExact ==
  /\ phase = "serving" => Bytes(messages) <= Limit
  /\ Responded(413) => DeclaredTooLarge \/ Bytes(stream) > Limit

\* The application reads what the client sent, in order, and an invented end
\* only after an end the client caused: a body cut short by a disconnect never
\* looks complete.
FaithfulReplay ==
  \A i \in DOMAIN replayed :
    \/ i \in DOMAIN stream /\ replayed[i] = stream[i]
    \/ /\ replayed[i] = EmptyEnd
       /\ \E j \in DOMAIN replayed : j < i /\ Ends(replayed[j])

\* A request is refused or served, never both: once the application runs, no
\* deadline of the body answers in its place.
ServedOrRefused ==
  (phase = "serving" \/ replayed # <<>>) => status = 0 /\ timer = "off"

\* Every request is refused, served or passed on, even if its client stalls for
\* ever in the middle of the body.
EveryRequestDecided == <>(phase \in {"bypassed", "serving", "done"})

\* The deadline is one of body receipt: a request whose body was received, or
\* refused for its size, is not answered a second time when it passes.
OneResponse ==
  \A i, j \in DOMAIN out : out[i].part = "start" /\ out[j].part = "start" => i = j
============================================================================
