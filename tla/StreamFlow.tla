----------------------------- MODULE StreamFlow -----------------------------
(***************************************************************************)
(* aiohttp's StreamReader (streams.py) and the reading half of the         *)
(* protocol it throttles (base_protocol.py): the parser feeds pieces of a  *)
(* body, coroutines read it with any of the read methods, and the          *)
(* transport is paused while the buffer is above its high water mark.      *)
(*                                                                         *)
(* A byte is its position in the body, so that what is read in which order *)
(* can be compared with what was sent.  A coroutine that reads runs from   *)
(* one await to the next in one step.  One call of data_received feeds     *)
(* several pieces: from its first piece to Return nothing else runs.       *)
(*                                                                         *)
(* An operator whose name starts with Bad is a plausible bug, used only to  *)
(* show that the properties notice it.                                      *)
(***************************************************************************)
EXTENDS Integers, FiniteSets, SequencesExt

CONSTANTS
  Reader,      \* coroutines that read
  Nobody,      \* _waiter is None
  Limit,       \* low water mark; the high one is twice as much
  MaxTotal,    \* bound: bytes in a body
  MaxPiece,    \* bound: bytes handed over at once
  Separator,   \* positions at which readuntil's separator starts
  SepLen,      \* and its length
  Methods,     \* the read methods in use, as records [kind, n]
  Messages,    \* bound: bodies that follow one another on the connection
  Discards     \* a body may be left unread in the buffer

ASSUME StreamAssumption ==
  /\ Limit \in Nat \ {0}
  /\ {MaxTotal, MaxPiece, SepLen, Messages} \subseteq Nat \ {0}
  /\ Nobody \notin Reader
  /\ Separator \subseteq Nat
  /\ Discards \in BOOLEAN

\* n is what is asked for, -1 for all there is; read(0) and readexactly(0)
\* return at once and are left out.
ASSUME MethodAssumption ==
  /\ Methods \subseteq [kind : {"some", "nowait", "all", "exactly", "until", "chunk"},
                        n : Nat \cup {-1}]
  /\ \A m \in Methods : /\ m.kind = "exactly" => m.n > 0
                        /\ m.kind \in {"some", "nowait"} => m.n # 0

VARIABLES
  transport,   \* the protocol has a transport
  paused,      \* _reading_paused
  parsing,     \* data_received is running
  stream,      \* the fields of the StreamReader that reading changes
  total,       \* total_bytes
  chunkOpen,   \* the parser is inside an HTTP chunk
  eof, exc,    \* _eof, _exception is not None
  waiter,      \* the reader whose future is _waiter
  op, fut,     \* what a reader is doing, and the future it awaits
  result,      \* what its last read returned
  eofWaiter,   \* the future of wait_eof
  message      \* number of the body on this connection

vars == <<transport, paused, parsing, stream, total, chunkOpen, eof, exc,
          waiter, op, fut, result, eofWaiter, message>>

NoSplits == {0}                          \* _http_chunk_splits is None
Idle == [kind |-> "idle", n |-> 0, count |-> 0, from |-> 0]
NoResult == [kind |-> "none", n |-> 0, from |-> 0, to |-> 0, how |-> "none"]
High == 2 * Limit

EmptyStream == [buffer |-> <<>>, offset |-> 0, size |-> 0, cursor |-> 0,
                splits |-> NoSplits, got |-> <<>>]

Init ==
  /\ transport = TRUE /\ paused = FALSE /\ parsing = FALSE
  /\ stream = EmptyStream /\ total = 0 /\ chunkOpen = FALSE
  /\ eof = FALSE /\ exc = FALSE
  /\ waiter = Nobody
  /\ op = [r \in Reader |-> Idle]
  /\ fut = [r \in Reader |-> "none"]
  /\ result = [r \in Reader |-> NoResult]
  /\ eofWaiter = "none"
  /\ message = 1

-----------------------------------------------------------------------------
(* Taking bytes from the buffer.  The ends of chunks in splits increase, so  *)
(* the list is a set: its head is the least, its last the greatest.         *)

Streams == [buffer : Seq(Seq(Nat)), offset : Nat, size : Int, cursor : Nat,
            splits : SUBSET Nat, got : Seq(Nat)]

Empty(s) == s.buffer = <<>>

\* Bug: the size shrinks by what was asked for.
BadReadNowaitChunk(s, n) ==
  LET left   == SubSeq(Head(s.buffer), s.offset + 1, Len(Head(s.buffer)))
      part   == n # -1 /\ Len(left) > n
      data   == IF part THEN SubSeq(left, 1, n) ELSE left
      cursor == s.cursor + Len(data)
  IN [s EXCEPT !.buffer = IF part THEN @ ELSE Tail(@),
               !.offset = IF part THEN @ + n ELSE 0,
               !.size   = @ - (IF n = -1 THEN Len(data) ELSE n),
               !.cursor = cursor,
               !.splits = IF @ = NoSplits THEN @ ELSE {p \in @ : p >= cursor},
               !.got    = @ \o data]

\* read_nowait_chunk: at most n bytes of the first piece, all of it for -1.
ReadNowaitChunk(s, n) ==
  LET left   == SubSeq(Head(s.buffer), s.offset + 1, Len(Head(s.buffer)))
      part   == n # -1 /\ Len(left) > n
      data   == IF part THEN SubSeq(left, 1, n) ELSE left
      cursor == s.cursor + Len(data)
  IN [s EXCEPT !.buffer = IF part THEN @ ELSE Tail(@),
               !.offset = IF part THEN @ + n ELSE 0,
               !.size   = @ - Len(data),
               !.cursor = cursor,
               !.splits = IF @ = NoSplits THEN @ ELSE {p \in @ : p >= cursor},
               !.got    = @ \o data]

\* What a loop has reached after each number of rounds.
Rounds(start, round) ==
  LET after[i \in Nat] == IF i = 0 THEN start ELSE round[after[i - 1]] IN after

\* One round of the loop of _read_nowait, with l.n bytes to go.
TakePiece ==
  [l \in [s : Streams, n : Int] |->
     IF l.n = 0 \/ Empty(l.s) THEN l
     ELSE LET t == ReadNowaitChunk(l.s, l.n)
          IN [s |-> t, n |-> IF l.n = -1 THEN -1 ELSE l.n - (t.cursor - l.s.cursor)]]

\* _read_nowait: at most n bytes, the whole buffer for -1.  The loop is over
\* when every piece had its round.
ReadNowait(s, n) == Rounds([s |-> s, n |-> n], TakePiece)[Len(s.buffer)].s

\* Bug: the search starts one byte late.
BadSeparatorEnd(s) ==
  LET first == Head(s.buffer)
      ends == {i \in s.offset + 2 .. Len(first) - SepLen + 1 : first[i] \in Separator}
  IN IF ends = {} THEN 0 ELSE Min(ends) - s.offset + SepLen - 1

\* How far into the first piece the separator ends; 0 if it is not in there.
SeparatorEnd(s) ==
  LET first == Head(s.buffer)
      ends == {i \in s.offset + 1 .. Len(first) - SepLen + 1 : first[i] \in Separator}
  IN IF ends = {} THEN 0 ELSE Min(ends) - s.offset + SepLen - 1

\* One round of the inner loop of readuntil, which has taken u.count bytes.
TakeLine ==
  [u \in [s : Streams, found : BOOLEAN, count : Nat] |->
     LET end == SeparatorEnd(u.s)
         t   == ReadNowaitChunk(u.s, IF end = 0 THEN -1 ELSE end)
     IN IF Empty(u.s) \/ u.found \/ u.count > High THEN u
        ELSE [s |-> t, found |-> end # 0, count |-> u.count + t.cursor - u.s.cursor]]

ReadUntil(s, count) ==
  Rounds([s |-> s, found |-> FALSE, count |-> count], TakeLine)[Len(s.buffer)]

-----------------------------------------------------------------------------
(* The read methods, each from its loop head to its next await.  The        *)
(* outcome is the new buffer, the method's own state, and how it ends:      *)
(* "wait", a normal return, or the name of what is raised.                  *)

Outcome(s, o, how) == [s |-> s, o |-> o, how |-> how]

\* readany, read(n), and the same without waiting
ReadSome(s, o) ==
  IF Empty(s) /\ ~eof THEN Outcome(s, o, "wait") ELSE Outcome(ReadNowait(s, o.n), o, "ok")

\* read(-1): readany until it returns nothing; it looks at _exception again
\* each time round
ReadAll(s, o) ==
  CASE Empty(s) -> Outcome(s, o, IF eof THEN "ok" ELSE "wait")
    [] OTHER    -> Outcome(ReadNowait(s, -1), o,
                           IF exc THEN "raised" ELSE IF eof THEN "ok" ELSE "wait")

\* readexactly
ReadExactly(s, o) ==
  LET t == ReadNowait(s, o.n)
      left == o.n - (t.cursor - s.cursor)
  IN CASE Empty(s)  -> Outcome(s, o, IF eof THEN "incomplete" ELSE "wait")
       [] left = 0  -> Outcome(t, [o EXCEPT !.n = 0], "ok")
       [] OTHER     -> Outcome(t, [o EXCEPT !.n = left],
                               IF exc THEN "raised" ELSE IF eof THEN "incomplete" ELSE "wait")

\* readuntil
ReadLine(s, o) ==
  LET u == ReadUntil(s, o.count)
  IN Outcome(u.s, [o EXCEPT !.count = u.count],
             IF u.count > High THEN "too big"
             ELSE IF u.found \/ eof THEN "ok" ELSE "wait")

\* readchunk: the ends of chunks that were passed are dropped, the first of
\* the others is where it stops.
ReadChunk(s, o) ==
  LET live == IF s.splits = NoSplits THEN {} ELSE {p \in s.splits : p >= s.cursor}
      rest == [s EXCEPT !.splits = IF @ = NoSplits THEN @ ELSE live \ {Min(live)}]
      none == [s EXCEPT !.splits = IF @ = NoSplits THEN @ ELSE {}]
  IN CASE exc           -> Outcome(s, o, "raised")
       [] ~exc /\ live # {} ->
            Outcome(IF Min(live) = s.cursor THEN rest
                    ELSE ReadNowait(rest, Min(live) - s.cursor), o, "chunk end")
       [] ~exc /\ live = {} /\ ~Empty(s) -> Outcome(ReadNowaitChunk(none, -1), o, "ok")
       [] OTHER         -> Outcome(none, o, IF eof THEN "ok" ELSE "wait")

Run(s, o) ==
  CASE o.kind \in {"some", "nowait"} -> ReadSome(s, o)
    [] o.kind = "all"     -> ReadAll(s, o)
    [] o.kind = "exactly" -> ReadExactly(s, o)
    [] o.kind = "until"   -> ReadLine(s, o)
    [] o.kind = "chunk"   -> ReadChunk(s, o)

\* Bug: the low water mark is compared before the bytes are taken.
BadResumed(s, t) == transport /\ t.cursor > s.cursor /\ s.size < Limit

\* What reading does to the protocol: _read_nowait_chunk resumes the
\* transport when less than the low water mark is left.
Resumed(s, t) == transport /\ t.cursor > s.cursor /\ t.size < Limit

\* How the call of _wait goes; read_nowait returns instead.
Wait(o, w) ==
  IF o.kind = "nowait" THEN "ok"
  ELSE IF ~transport THEN "closed"
  ELSE IF w # Nobody THEN "busy" ELSE "wait"

\* A reader goes on with method o; w is _waiter as it finds it.
GoOn(r, o, w) ==
  \E run \in {Run(stream, o)} :
    LET how == IF run.how = "wait" THEN Wait(o, w) ELSE run.how
    IN /\ stream' = run.s
       /\ paused' = (paused /\ ~Resumed(stream, run.s))
       /\ IF how = "wait"
            THEN /\ waiter' = r
                 /\ op' = [op EXCEPT ![r] = run.o]
                 /\ fut' = [fut EXCEPT ![r] = "pending"]
                 /\ result' = [result EXCEPT ![r] = NoResult]
            ELSE /\ waiter' = w
                 /\ op' = [op EXCEPT ![r] = Idle]
                 /\ fut' = [fut EXCEPT ![r] = "none"]
                 /\ result' = [result EXCEPT ![r] = [kind |-> o.kind, n |-> run.o.n,
                      from |-> o.from, to |-> run.s.cursor, how |-> how]]
       /\ UNCHANGED <<transport, parsing, total, chunkOpen, eof, exc, eofWaiter, message>>

\* A coroutine calls a read method.
Read(r, m) ==
  /\ op[r] = Idle /\ ~parsing
  /\ ~exc
  /\ m.kind = "nowait" => \A q \in Reader : waiter = q => fut[q] # "pending"
  /\ GoOn(r, [kind |-> m.kind, n |-> m.n, count |-> 0, from |-> stream.cursor], waiter)

\* A reader resumes: its future has a result, and _wait clears _waiter.
Resume(r) ==
  /\ fut[r] = "set" /\ ~parsing
  /\ GoOn(r, op[r], Nobody)

\* A reader resumes with the exception of its future, or cancelled.
Raise(r) ==
  /\ fut[r] \in {"raised", "cancelled"} /\ ~parsing
  /\ waiter' = Nobody
  /\ op' = [op EXCEPT ![r] = Idle]
  /\ fut' = [fut EXCEPT ![r] = "none"]
  /\ result' = [result EXCEPT ![r] = NoResult]
  /\ UNCHANGED <<transport, paused, parsing, stream, total, chunkOpen, eof, exc,
                 eofWaiter, message>>

\* Task.cancel or a timeout cancels the future a reader awaits; when that
\* one has a result already, the reader resumes with the cancellation.
Cancel(r) ==
  /\ fut[r] \in {"pending", "set"} /\ ~parsing
  /\ fut' = [fut EXCEPT ![r] = "cancelled"]
  /\ UNCHANGED <<transport, paused, parsing, stream, total, chunkOpen, eof, exc,
                 waiter, op, result, eofWaiter, message>>

\* Bug: a piece that was read in part stays whole behind the bytes put back.
BadUnreadData(r) ==
  /\ op[r] = Idle /\ ~parsing
  /\ result[r].to > result[r].from /\ result[r].to = stream.cursor
  /\ stream.splits = NoSplits
  /\ LET back == SubSeq(stream.got, result[r].from + 1, result[r].to)
     IN stream' = [stream EXCEPT !.buffer = <<back>> \o @, !.offset = 0,
                                 !.size = @ + Len(back), !.cursor = @ - Len(back),
                                 !.got = SubSeq(@, 1, result[r].from)]
  /\ result' = [result EXCEPT ![r] = NoResult]
  /\ UNCHANGED <<transport, paused, parsing, total, chunkOpen, eof, exc,
                 waiter, op, fut, eofWaiter, message>>

\* unread_data of what was read last.  Bodies in HTTP chunks are left out:
\* the ends of chunks that were passed are not restored.
UnreadData(r) ==
  /\ op[r] = Idle /\ ~parsing
  /\ result[r].to > result[r].from /\ result[r].to = stream.cursor
  /\ stream.splits = NoSplits
  /\ LET back == SubSeq(stream.got, result[r].from + 1, result[r].to)
         kept == IF stream.offset = 0 THEN stream.buffer
                 ELSE <<SubSeq(Head(stream.buffer), stream.offset + 1, Len(Head(stream.buffer)))>>
                      \o Tail(stream.buffer)
     IN stream' = [stream EXCEPT !.buffer = <<back>> \o kept, !.offset = 0,
                                 !.size = @ + Len(back), !.cursor = @ - Len(back),
                                 !.got = SubSeq(@, 1, result[r].from)]
  /\ result' = [result EXCEPT ![r] = NoResult]
  /\ UNCHANGED <<transport, paused, parsing, total, chunkOpen, eof, exc,
                 waiter, op, fut, eofWaiter, message>>

\* wait_eof, up to its await, and past it.
WaitEof ==
  /\ ~parsing /\ ~eof /\ eofWaiter = "none"
  /\ eofWaiter' = "pending"
  /\ UNCHANGED <<transport, paused, parsing, stream, total, chunkOpen, eof, exc,
                 waiter, op, fut, result, message>>

EofWaited ==
  /\ ~parsing /\ eofWaiter \in {"set", "raised"}
  /\ eofWaiter' = "none"
  /\ UNCHANGED <<transport, paused, parsing, stream, total, chunkOpen, eof, exc,
                 waiter, op, fut, result, message>>

-----------------------------------------------------------------------------
(* The parser's callbacks.  Bytes arrive while the transport is not paused; *)
(* a call of data_received may go on feeding after it was.                  *)

Delivering == transport /\ ~eof /\ (parsing \/ ~paused)

\* The future of _waiter is set to f, if it is still pending.
Wakened(f) ==
  [r \in Reader |-> IF r = waiter /\ fut[r] = "pending" THEN f ELSE fut[r]]
EofWakened(f) == IF eofWaiter = "pending" THEN f ELSE eofWaiter

FeedData(k) ==
  /\ Delivering /\ (stream.splits = NoSplits \/ chunkOpen)
  /\ total + k <= MaxTotal
  /\ parsing' = TRUE
  /\ stream' = [stream EXCEPT !.size = @ + k,
                              !.buffer = Append(@, [i \in 1 .. k |-> total + i])]
  /\ total' = total + k
  /\ waiter' = Nobody
  /\ fut' = Wakened("set")
  /\ paused' = (paused \/ stream.size + k > High)
  /\ UNCHANGED <<transport, chunkOpen, eof, exc, op, result, eofWaiter, message>>

\* begin_http_chunk_receiving
BeginChunk ==
  /\ Delivering /\ ~chunkOpen /\ total < MaxTotal
  /\ stream.splits # NoSplits \/ total = 0
  /\ parsing' = TRUE /\ chunkOpen' = TRUE
  /\ stream' = [stream EXCEPT !.splits = IF @ = NoSplits THEN {} ELSE @]
  /\ UNCHANGED <<transport, paused, total, eof, exc, waiter, op, fut, result, eofWaiter, message>>

\* Bug: the end of a chunk wakes nobody.
BadEndChunk ==
  /\ Delivering /\ chunkOpen
  /\ parsing' = TRUE /\ chunkOpen' = FALSE
  /\ IF total = (IF stream.splits = {} THEN 0 ELSE Max(stream.splits))
       THEN UNCHANGED stream
       ELSE stream' = [stream EXCEPT !.splits = @ \cup {total}]
  /\ UNCHANGED <<transport, paused, total, eof, exc, waiter, op, fut, result, eofWaiter, message>>

\* end_http_chunk_receiving; a compressed chunk may have yielded nothing
EndChunk ==
  /\ Delivering /\ chunkOpen
  /\ parsing' = TRUE /\ chunkOpen' = FALSE
  /\ IF total = (IF stream.splits = {} THEN 0 ELSE Max(stream.splits))
       THEN UNCHANGED <<stream, waiter, fut>>
       ELSE /\ stream' = [stream EXCEPT !.splits = @ \cup {total}]
            /\ waiter' = Nobody
            /\ fut' = Wakened("set")
  /\ UNCHANGED <<transport, paused, total, eof, exc, op, result, eofWaiter, message>>

\* Bug: only wait_eof is woken.
BadFeedEof ==
  /\ Delivering /\ ~chunkOpen
  /\ parsing' = TRUE /\ eof' = TRUE
  /\ eofWaiter' = EofWakened("set")
  /\ UNCHANGED <<transport, paused, stream, total, chunkOpen, exc, waiter, op, fut,
                 result, message>>

FeedEof ==
  /\ Delivering /\ ~chunkOpen
  /\ parsing' = TRUE /\ eof' = TRUE
  /\ waiter' = Nobody
  /\ fut' = Wakened("set")
  /\ eofWaiter' = EofWakened("set")
  /\ UNCHANGED <<transport, paused, stream, total, chunkOpen, exc, op, result, message>>

\* data_received returns.
Return ==
  /\ parsing
  /\ parsing' = FALSE
  /\ UNCHANGED <<transport, paused, stream, total, chunkOpen, eof, exc,
                 waiter, op, fut, result, eofWaiter, message>>

\* set_exception: a bad chunk or bad compression (while data is parsed), a
\* read timeout, a request that is cancelled.
SetException ==
  /\ ~exc
  /\ exc' = TRUE
  /\ waiter' = Nobody
  /\ fut' = Wakened("raised")
  /\ eofWaiter' = EofWakened("raised")
  /\ UNCHANGED <<transport, paused, parsing, stream, total, chunkOpen, eof, op, result, message>>

\* connection_lost.  A body that is not complete gets an exception, one that
\* the end of the connection completes its end.  The client's protocol
\* forgets that it was paused, the server's does not.
ConnectionLost ==
  /\ transport /\ ~parsing
  /\ transport' = FALSE
  /\ paused' \in {FALSE, paused}
  /\ IF eof THEN UNCHANGED <<eof, exc, waiter, fut, eofWaiter>>
     ELSE /\ waiter' = Nobody
          /\ \/ /\ exc' = TRUE /\ fut' = Wakened("raised") /\ eofWaiter' = EofWakened("raised")
                /\ UNCHANGED eof
             \/ /\ stream.splits = NoSplits
                /\ eof' = TRUE /\ fut' = Wakened("set") /\ eofWaiter' = EofWakened("set")
                /\ UNCHANGED exc
  /\ UNCHANGED <<parsing, stream, total, chunkOpen, op, result, message>>

\* The body is complete and its connection takes the next message, with a
\* StreamReader of its own on the same protocol.
NextMessage ==
  /\ message < Messages
  /\ transport /\ eof /\ ~exc /\ ~parsing /\ eofWaiter = "none"
  /\ \A r \in Reader : op[r] = Idle
  /\ Discards \/ Empty(stream)
  /\ message' = message + 1
  /\ stream' = EmptyStream /\ total' = 0 /\ eof' = FALSE
  /\ waiter' = Nobody
  /\ result' = [r \in Reader |-> NoResult]
  /\ UNCHANGED <<transport, paused, parsing, chunkOpen, exc, op, fut, eofWaiter>>

Next ==
  \/ \E r \in Reader :
       \/ \E m \in Methods : Read(r, m)
       \/ Resume(r) \/ Raise(r) \/ Cancel(r) \/ UnreadData(r)
  \/ WaitEof \/ EofWaited
  \/ \E k \in 1 .. MaxPiece : FeedData(k)
  \/ BeginChunk \/ EndChunk \/ FeedEof \/ Return
  \/ SetException \/ ConnectionLost \/ NextMessage

Spec == Init /\ [][Next]_vars

\* The event loop runs what is ready.  The peer ends the body it sends: it
\* goes on with the data of a chunk and with the end of the body (empty
\* chunks alone are not progress).
Fairness ==
  /\ WF_vars(Return)
  /\ \A r \in Reader : WF_vars(Resume(r)) /\ WF_vars(Raise(r))
  /\ WF_vars(EndChunk)
  /\ SF_vars(FeedEof)

FairSpec == Spec /\ Fairness

-----------------------------------------------------------------------------
(* What a stream must satisfy. *)

\* The values of the variables, and which readers have a future.
TypeOK ==
  /\ {transport, paused, parsing, chunkOpen, eof, exc} \subseteq BOOLEAN
  /\ stream.size \in 0 .. MaxTotal /\ stream.cursor \in 0 .. MaxTotal
  /\ total \in 0 .. MaxTotal
  /\ stream.offset \in 0 .. MaxTotal
  /\ waiter \in Reader \cup {Nobody}
  /\ fut \in [Reader -> {"none", "pending", "set", "raised", "cancelled"}]
  /\ \A r \in Reader : op[r].kind = "idle" <=> fut[r] = "none"
  /\ eofWaiter \in {"none", "pending", "set", "raised"}
  /\ message \in 1 .. Messages

\* Whatever methods are mixed, cancelled and rolled back, the bytes that were
\* read and then those in the buffer are the bytes that were fed, each once
\* and in order, and the counters agree with them (_read_nowait_chunk,
\* unread_data and feed_data keep them separately).
InOrder ==
  LET left == FlattenSeq(stream.buffer)
  IN /\ stream.got \o SubSeq(left, stream.offset + 1, Len(left)) = [i \in 1 .. total |-> i]
     /\ stream.size = total - stream.cursor
     /\ stream.cursor = Len(stream.got)

\* The transport is paused only while the reader has something to do: at
\* least the low water mark is left to read.
PausedOnlyWhileFull == paused /\ transport => stream.size >= Limit

\* No coroutine sleeps while what it waits for is there: bytes, the end of
\* the body, or the end of an HTTP chunk for readchunk; and none sleeps while
\* the transport is paused, since then nobody would ever wake it.
NoSleepOnData ==
  \A r \in Reader : fut[r] = "pending" =>
    /\ Empty(stream) /\ ~eof
    /\ op[r].kind = "chunk" => stream.splits \in {{}, NoSplits}
    /\ ~(paused /\ transport)

\* readuntil stops at the first separator: no earlier one lies inside what it
\* has taken.  readexactly returns what was asked for, and falls short only at
\* the end of the body.
ReadsAreExact ==
  \A r \in Reader :
    /\ op[r].kind = "until" =>
         \A i \in Separator : ~(op[r].from < i /\ i + SepLen - 1 <= stream.cursor)
    /\ result[r].kind = "until" =>
         \A i \in Separator : ~(result[r].from < i /\ i + SepLen - 1 < result[r].to)
    /\ result[r].kind = "exactly" =>
         /\ result[r].how = "ok" => result[r].n = 0
         /\ result[r].how = "incomplete" => eof /\ result[r].to = total

\* A read ends, unless an exception was set, once the peer ends the body: the
\* reader and the pausing of the transport never wait for each other.
ReadsEnd == \A r \in Reader : (fut[r] # "none") ~> (fut[r] = "none" \/ exc)
=============================================================================
