--------------------------- MODULE ResponseStream ---------------------------
(***************************************************************************)
(* A streamed response (network/__init__.py, stream): a coroutine in the   *)
(* event loop puts the response and its chunks into a queue, a thread      *)
(* yields them, and close() lets the loop close the response and drains    *)
(* the queue.                                                              *)
(***************************************************************************)
EXTENDS Naturals, Sequences

CONSTANT MaxQueue   \* bound: the loop is at most so many chunks ahead

ASSUME QueueAssumption == MaxQueue \in Nat \ {0}

VARIABLES
    producer,   \* stream_chunk_to_queue: "opening", "sending" or "ended"
    queue,      \* the SimpleQueue
    aclosed,    \* the response was closed in the loop
    closing,    \* close() has submitted aclose() to the loop
    reader,     \* the thread: "opening", "reading", "draining", "ended"
    got         \* the last object the thread took out of the queue

streamVars == <<producer, queue, aclosed, closing, reader, got>>

Response == "response"
Chunk == "chunk"
Exc == "exception"
Sentinel == "none"
Objects == {Response, Chunk, Exc, Sentinel}

StreamTypeOK ==
    /\ producer \in {"opening", "sending", "ended"}
    /\ queue \in Seq(Objects)
    /\ aclosed \in BOOLEAN /\ closing \in BOOLEAN
    /\ reader \in {"opening", "reading", "draining", "ended"}
    /\ got \in Objects \cup {"nothing"}

StreamInit ==
    /\ producer = "opening" /\ queue = <<>>
    /\ aclosed = FALSE /\ closing = FALSE
    /\ reader = "opening" /\ got = "nothing"

-----------------------------------------------------------------------------
(* The coroutine.  Its finally block queues the sentinel after whatever    *)
(* the way out has queued.                                                 *)
NoSentinel(last) ==
    /\ producer' = "ended"
    /\ queue' = queue \o last
    /\ UNCHANGED <<aclosed, closing, reader, got>>
Leave(last) ==
    /\ producer' = "ended"
    /\ queue' = queue \o Append(last, Sentinel)
    /\ UNCHANGED <<aclosed, closing, reader, got>>

Opened ==
    /\ producer = "opening"
    /\ producer' = "sending"
    /\ queue' = Append(queue, Response)
    /\ UNCHANGED <<aclosed, closing, reader, got>>

OpenFails == producer = "opening" /\ Leave(<<Exc>>)

SendChunk ==
    /\ producer = "sending" /\ ~aclosed /\ Len(queue) < MaxQueue
    /\ queue' = Append(queue, Chunk)
    /\ UNCHANGED <<producer, aclosed, closing, reader, got>>

BodyEnds == producer = "sending" /\ ~aclosed /\ Leave(<<>>)

BodyFails == producer = "sending" /\ ~aclosed /\ Leave(<<Exc>>)

(* aiter_raw raises StreamClosed, which is not queued.                     *)
SeesClosed == producer = "sending" /\ aclosed /\ Leave(<<>>)

(* The loop runs the aclose() that close() has submitted.                  *)
AClose ==
    /\ closing /\ ~aclosed
    /\ aclosed' = TRUE
    /\ UNCHANGED <<producer, queue, closing, reader, got>>

-----------------------------------------------------------------------------
(* The thread, in _stream_generator: an exception is raised to the caller, *)
(* the sentinel ends the generator.                                        *)
After(x) ==
    IF x \in {Exc, Sentinel} THEN "ended"
    ELSE IF reader = "opening" THEN "reading" ELSE reader

Take ==
    /\ reader # "ended" /\ queue # <<>>
    /\ got' = Head(queue)
    /\ queue' = Tail(queue)
    /\ reader' = After(got')
    /\ UNCHANGED <<producer, aclosed, closing>>

Close ==
    /\ reader = "reading"
    /\ reader' = "draining" /\ closing' = TRUE
    /\ UNCHANGED <<producer, queue, aclosed, got>>

Produce == Opened \/ OpenFails \/ SendChunk \/ BodyEnds \/ BodyFails \/ SeesClosed

StreamNext == Produce \/ AClose \/ Take \/ Close

(* A request is answered or times out, the loop runs what was submitted to *)
(* it, and a thread that drains a stream goes on.  A body may be endless,  *)
(* and a caller may stop reading it.                                       *)
StreamFairness ==
    /\ WF_streamVars(Opened \/ OpenFails)
    /\ WF_streamVars(AClose)
    /\ WF_streamVars(SeesClosed)
    /\ WF_streamVars(Take /\ reader # "reading")

StreamSpec == StreamInit /\ [][StreamNext]_streamVars /\ StreamFairness

-----------------------------------------------------------------------------
(* stream() returns a response or raises; and close() returns, even when   *)
(* the body is endless, because the loop then queues the sentinel          *)
(* (network/__init__.py, _close_response_method: "reach the end of         *)
(* _self.generator").                                                      *)
StreamReturns == reader \in {"opening", "draining"} ~> reader \in {"reading", "ended"}
=============================================================================
