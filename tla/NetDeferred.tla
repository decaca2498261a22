---------------------------- MODULE NetDeferred -----------------------------
(***************************************************************************)
(* NetCache when the server's UDP socket cannot take an answer at once.    *)
(***************************************************************************)
EXTENDS NetCache

VARIABLES
  unsent,      \* answers that wait to be sent, in order
  block        \* the answer last written in the memory that all are freed from

(* udp_server::write_message builds every answer in a string of bufsize    *)
(* bytes that ends with the function, each in the memory of the last one.  *)
handle_receive_at_once ==
  /\ handle_receive
  /\ unsent = <<>>
  /\ block' = AnswerTo(Head(recvq))
  /\ UNCHANGED unsent

(* When the socket is full, or an earlier answer still waits, the          *)
(* operation keeps the length of the answer and a pointer into the string. *)
handle_receive_deferred ==
  /\ TakeDatagram
  /\ block' = AnswerTo(Head(recvq))
  /\ unsent' = Append(unsent, AnswerTo(Head(recvq)))
  /\ UNCHANGED packets

(* A text fits in the length of an answer: ERROR is shorter than any pair  *)
(* of a key and a value, and keys are taken to be equally long.            *)
Fits(text, answer) ==
  text.val # NULL => answer.val # NULL /\ SizeOf[text.val] <= SizeOf[answer.val]

(* What is sent in the end is what the freed memory holds, in the length   *)
(* of the answer: the answer itself, the last text written there, or, if   *)
(* that is cut or the memory is used for something else, no JSON at all.   *)
(* ERROR names no key.                                                     *)
SentFor(answer) ==
  {[answer EXCEPT !.key = IF text.val = NULL THEN @ ELSE text.key,
                  !.val = text.val] :
     text \in {t \in {answer, block} : Fits(t, answer)}}
    \union {[answer EXCEPT !.key = NULL, !.val = NULL]}

SendDeferred ==
  /\ server = "running" /\ unsent # <<>>
  /\ \E sent \in SentFor(Head(unsent)) : packets' = packets \union {sent}
  /\ unsent' = Tail(unsent)
  /\ UNCHANGED <<process, syns, stream, backlog, recvq, loop, cache, server, block>>

(* json::parse throws on something else than JSON.                         *)
unpack_fails(p) ==
  /\ Waiting(p)
  /\ \E answer \in packets :
       /\ answer.to = "client" /\ answer.req = LastRequest(p) /\ answer.key = NULL
       /\ packets' = packets \ {answer}
  /\ pc' = [pc EXCEPT ![p] = "terminated"]
  /\ UNCHANGED <<calls, got, syns, stream, backlog, recvq, loop, cache, server,
                 unsent, block>>

DeferredInit == Init /\ unsent = <<>> /\ block = NULL

DeferredNext ==
  \/ Next /\ ~handle_receive /\ UNCHANGED <<unsent, block>>
  \/ handle_receive_at_once
  \/ handle_receive_deferred
  \/ SendDeferred
  \/ \E p \in Clients : unpack_fails(p)

DeferredSpec == DeferredInit /\ [][DeferredNext]_<<vars, unsent, block>>

(* A pair that is sent in answer to a GET is the pair of the key that was  *)
(* asked for, as cache_get is to return the value associated with its key. *)
NoCrossedAnswers ==
  \A a \in packets :
    a.to = "client" /\ a.key # NULL => a.key = MessageOf(a.req).key
=============================================================================
