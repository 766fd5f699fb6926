------------------------ MODULE ProviderStreamProofs ------------------------
(***************************************************************************)
(* Theorems about ProviderStream: a call of generate() holds little while  *)
(* it waits, answers with what was said, and blames the Provider only for  *)
(* what it did, for any limits and any number of attempts and events.      *)
(*                                                                         *)
(* The argument compares the reader with the symbols T that were sent in   *)
(* this attempt.  Sent lays T out event by event and line by line; Place   *)
(* says before which line of which event the reader stands, with which     *)
(* data lines and name gathered; Unread, that buffer and pipe are the rest *)
(* of T; Told, that the accumulator has the text, usage, id and finish     *)
(* reason of the events before that place.  A chunk moves the boundary of  *)
(* buffer and pipe; a line moves the place (LineRead, BlankRead); a blank  *)
(* line makes the accumulator understand one event more, or ends the call  *)
(* with an excuse or a complete answer (Understood).  At the end of a body *)
(* cut inside an event what is gathered is no document, or nothing (Torn). *)
(***************************************************************************)
EXTENDS ProviderStream, FiniteSetTheorems, SequenceTheorems, WellFoundedInduction, TLAPS

-----------------------------------------------------------------------------
(***************************************************************************)
(* ProviderStream, for any limits, any number of attempts and a Provider   *)
(* that may go on writing: what the adapter keeps while it waits.          *)
(***************************************************************************)
Names == {"", "a", "b", "c", "i", "j", "x", "y", "junk", "done", "error", "completed",
          "in_progress", "failed", "overloaded", "incomplete", "stop", "length", "chunk",
          "created", "delta", "start", "ending"}

Statuses == {"", "answered", "cancelled", "network_error", "rate_limited", "provider_4xx",
             "provider_5xx", "authentication_error", "provider_response_too_large",
             "unsupported_provider_response_encoding", "invalid_provider_response",
             "invalid_provider_stream", "incomplete_provider_stream",
             "provider_stream_error", "output_truncated", "empty_response"}

Marks == {"CR", "LF", "name", "data", "head", "tail", "comment"}

Documents == [type : Names, text : Seq(Names), id : Names, in : Int, out : Int,
              finish : Names]

Symbols == [s : Marks, e : Documents]

Gathered == [text : Seq(Names), id : Names, in : Int, out : Int, finish : Names,
             started : BOOLEAN, done : BOOLEAN, error : Statuses, retryable : BOOLEAN]

AccOK(a) == a \in Gathered /\ Len(a.text) <= TextLimit

ReaderOK(rd) ==
    /\ rd \in [buffer : Seq(Symbols), data : Seq(Symbols), name : Names,
               eventBytes : Nat, wireBytes : Nat, eof : BOOLEAN]
    /\ rd.wireBytes <= WireLimit

\* Either the buffer holds a line to process, or it is within an event.
Waits(rd) ==
    rd.eof \/ Popped(rd.buffer, FALSE).some
           \/ rd.eventBytes + Len(rd.buffer) <= EventLimit

CallOK(c) ==
    c \in [protocol : {"chat", "responses", "messages"}, attempt : Nat,
           phase : {"sending", "reading", "over"},
           result : [status : Statuses, text : Seq(Names), in : Int, out : Int]]

\* The inductive invariant: the counters and the text are within their limits
\* after every step, not only while the adapter waits.
StreamIInv ==
    /\ CallOK(call)
    /\ style \in [ending : {"LF", "CR", "CRLF"}, long : BOOLEAN]
    /\ pipe \in Seq(Symbols)
    /\ ReaderOK(reader) /\ AccOK(acc)
    /\ call.phase = "reading" => Waits(reader)

LEMMA Vocabulary ==
    /\ NoCount \in Int /\ << >> \in Seq(Names) /\ << >> \in Seq(Symbols)
    /\ "" \in Names /\ "" \in Statuses
BY DEF NoCount, Names, Statuses

LEMMA StatusNames ==
    \A error \in {"answered", "cancelled", "network_error", "rate_limited", "provider_4xx",
             "provider_5xx", "authentication_error", "provider_response_too_large",
             "unsupported_provider_response_encoding", "invalid_provider_response",
             "invalid_provider_stream", "incomplete_provider_stream",
             "provider_stream_error", "output_truncated", "empty_response"} :
        error \in Statuses
BY DEF Statuses

LEMMA FreshOK == ReaderOK(FreshReader) /\ AccOK(FreshAcc) /\ Waits(FreshReader)
<1>1. FreshReader.buffer = << >> /\ FreshReader.eventBytes = 0
  BY DEF FreshReader
<1>2. Waits(FreshReader)
  <2>1. FreshReader.eventBytes + Len(FreshReader.buffer) <= EventLimit
    <3>1. FreshReader.eventBytes = 0 /\ Len(FreshReader.buffer) = 0
      BY <1>1
    <3>2. EventLimit \in Nat
      BY StreamAssumption
    <3> QED BY ONLY <3>1, <3>2
  <2> QED BY <2>1, Zenon DEF Waits
<1>3. ReaderOK(FreshReader)
  <2>1. FreshReader \in [buffer : Seq(Symbols), data : Seq(Symbols), name : Names,
                         eventBytes : Nat, wireBytes : Nat, eof : BOOLEAN]
    BY Vocabulary DEF FreshReader
  <2>2. FreshReader.wireBytes <= WireLimit
    BY StreamAssumption DEF FreshReader
  <2> QED BY <2>1, <2>2 DEF ReaderOK
<1>4. AccOK(FreshAcc)
  <2>1. FreshAcc \in Gathered
    BY Vocabulary DEF FreshAcc, Gathered
  <2>2. FreshAcc.text = << >>
    BY DEF FreshAcc
  <2>3. Len(FreshAcc.text) <= TextLimit
    <3>1. Len(FreshAcc.text) = 0
      BY <2>2
    <3>2. TextLimit \in Nat
      BY StreamAssumption
    <3> QED BY ONLY <3>1, <3>2
  <2> QED BY <2>1, <2>3 DEF AccOK
<1> QED BY <1>2, <1>3, <1>4

LEMMA RaiseOK ==
  ASSUME NEW a, AccOK(a), NEW error \in Statuses, NEW r \in BOOLEAN
  PROVE  AccOK(ProviderError(a, error, r))
BY DEF AccOK, ProviderError, Gathered

LEMMA InvalidOK == ASSUME NEW a, AccOK(a) PROVE AccOK(Invalid(a))
BY RaiseOK, StatusNames DEF Invalid

\* _append_text keeps the limit, or refuses.
LEMMA AppendOK ==
  ASSUME NEW a, AccOK(a), NEW text \in Seq(Names)
  PROVE  AccOK(AppendText(a, text))
<1>1. CASE Len(a.text) + Len(text) > TextLimit
  BY <1>1, RaiseOK, StatusNames DEF AppendText
<1>2. CASE ~(Len(a.text) + Len(text) > TextLimit)
  <2>1. AppendText(a, text) = [a EXCEPT !.text = @ \o text]
    BY <1>2 DEF AppendText
  <2>2. a.text \in Seq(Names) /\ a \in Gathered
    BY DEF AccOK, Gathered
  <2>3. a.text \o text \in Seq(Names) /\ Len(a.text \o text) = Len(a.text) + Len(text)
    BY <2>2, ConcatProperties
  <2>4. Len(a.text) \in Nat /\ Len(text) \in Nat
    BY <2>2, LenProperties
  <2>5. AppendText(a, text) \in Gathered /\ AppendText(a, text).text = a.text \o text
    BY <2>1, <2>2, <2>3 DEF Gathered
  <2>6. Len(a.text \o text) <= TextLimit
    BY <1>2, <2>3, <2>4, StreamAssumption
  <2> QED BY <2>5, <2>6 DEF AccOK
<1> QED BY <1>1, <1>2

LEMMA UsageOK ==
  ASSUME NEW a, AccOK(a), NEW e \in Documents
  PROVE  AccOK(ReplaceUsage(a, e)) /\ AccOK(MergeUsage(a, e))
BY DEF AccOK, Gathered, Documents, ReplaceUsage, MergeUsage

LEMMA KeepOK == ASSUME NEW x \in Names, NEW y \in Names PROVE Keep(x, y) \in Names
BY DEF Keep

LEMMA ChatOK ==
  ASSUME NEW a, AccOK(a), NEW e \in Documents
  PROVE  AccOK(ConsumeChat(a, e))
<1>1. AccOK([a EXCEPT !.done = TRUE])
  BY DEF AccOK, Gathered
<1> DEFINE b == ReplaceUsage(a, e)
           c == [b EXCEPT !.id = Keep(@, e.id), !.finish = Keep(@, e.finish)]
<1>2. AccOK(b)
  BY UsageOK
<1> HIDE DEF b
<1>3. AccOK(c)
  BY <1>2, KeepOK DEF AccOK, Gathered, Documents
<1>4. AccOK(AppendText(c, e.text))
  BY <1>3, AppendOK DEF Documents
<1>5. AccOK(Invalid(a)) /\ AccOK(ProviderError(a, "provider_stream_error", FALSE))
  BY InvalidOK, RaiseOK, StatusNames
<1> QED BY <1>1, <1>4, <1>5 DEF ConsumeChat, b

LEMMA ResponsesOK ==
  ASSUME NEW a, AccOK(a), NEW e \in Documents
  PROVE  AccOK(ConsumeResponses(a, e))
<1> DEFINE u == ReplaceUsage(a, e)
           b == [u EXCEPT !.id = Keep(@, e.id)]
           c == IF b.text = <<>> THEN AppendText(b, e.text) ELSE b
           d == [c EXCEPT !.finish = "completed", !.done = TRUE]
           last == IF e.finish # "completed"
                   THEN ProviderError(b, "incomplete_provider_stream", FALSE)
                   ELSE IF c.error # "" THEN c ELSE d
<1>1. AccOK(u)
  BY UsageOK
<1> HIDE DEF u
<1>2. AccOK(b)
  BY <1>1, KeepOK DEF AccOK, Gathered, Documents
<1> HIDE DEF b
<1>3. AccOK(c)
  BY <1>2, AppendOK DEF Documents
<1> HIDE DEF c
<1>4. AccOK(d)
  BY <1>3 DEF AccOK, Gathered, Names
<1> HIDE DEF d
<1>5. AccOK(last)
  BY <1>2, <1>3, <1>4, RaiseOK, StatusNames
<1>6. /\ AccOK(Invalid(a)) /\ AccOK(AppendText(a, e.text))
      /\ AccOK(ProviderError(a, "provider_stream_error", FALSE))
      /\ AccOK(ProviderError(a, "provider_5xx", TRUE))
      /\ AccOK(ProviderError(a, "output_truncated", FALSE))
  BY InvalidOK, RaiseOK, StatusNames, AppendOK DEF Documents
<1> HIDE DEF last
<1>7. ConsumeResponses(a, e) \in
        {Invalid(a), AppendText(a, e.text), ProviderError(a, "provider_stream_error", FALSE),
         ProviderError(a, "provider_5xx", TRUE), ProviderError(a, "output_truncated", FALSE), b, last}
  BY DEF ConsumeResponses, last, d, c, b, u
<1> QED BY <1>2, <1>5, <1>6, <1>7

LEMMA MessagesOK ==
  ASSUME NEW a, AccOK(a), NEW e \in Documents
  PROVE  AccOK(ConsumeMessages(a, e))
<1> DEFINE u == MergeUsage(a, e)
           b == [u EXCEPT !.started = TRUE, !.id = e.id, !.finish = e.finish]
           c == [u EXCEPT !.finish = Keep(@, e.finish)]
           d == [a EXCEPT !.done = TRUE]
<1>1. AccOK(u)
  BY UsageOK
<1> HIDE DEF u
<1>2. AccOK(b) /\ AccOK(c)
  BY <1>1, KeepOK DEF AccOK, Gathered, Documents
<1>3. AccOK(d)
  BY DEF AccOK, Gathered
<1> HIDE DEF b, c, d
<1>4. /\ AccOK(Invalid(a)) /\ AccOK(AppendText(a, e.text)) /\ AccOK(AppendText(b, e.text))
      /\ AccOK(ProviderError(a, "provider_stream_error", FALSE))
      /\ AccOK(ProviderError(a, "provider_5xx", TRUE))
  BY <1>2, InvalidOK, RaiseOK, StatusNames, AppendOK DEF Documents
<1>5. ConsumeMessages(a, e) \in
        {Invalid(a), AppendText(a, e.text), AppendText(b, e.text),
         ProviderError(a, "provider_stream_error", FALSE), ProviderError(a, "provider_5xx", TRUE), c, d}
  BY DEF ConsumeMessages, b, c, d, u
<1> QED BY <1>2, <1>3, <1>4, <1>5

LEMMA JunkOK == Junk \in Documents
BY Vocabulary DEF Junk, Plain, Event, Documents, Names

LEMMA DocumentOK == ASSUME NEW data \in Seq(Symbols) PROVE Document(data) \in Documents
<1>1. \A i \in 1..Len(data) : data[i].e \in Documents
  <2>1. \A i \in 1..Len(data) : data[i] \in Symbols
    OBVIOUS
  <2> QED BY <2>1 DEF Symbols
<1>2. 1 \in 1..Len(data) => data[1].e \in Documents
  BY <1>1
<1>3. Len(data) = 1 \/ Len(data) = 2 => 1 \in 1..Len(data)
  OBVIOUS
<1> QED BY <1>2, <1>3, JunkOK DEF Document

\* Whatever an event says, consume_event keeps the limit or raises.
LEMMA DispatchOK ==
  ASSUME NEW p \in {"chat", "responses", "messages"}, NEW rd, ReaderOK(rd),
         NEW a, AccOK(a)
  PROVE  AccOK(Dispatch(p, rd, a))
<1>1. rd.data \in Seq(Symbols)
  BY DEF ReaderOK
<1>2. Decoded(p, rd) \in Documents
  BY <1>1, DocumentOK, JunkOK DEF Decoded
<1>3. AccOK(Consume(p, a, Decoded(p, rd)))
  BY <1>2, ChatOK, ResponsesOK, MessagesOK DEF Consume
<1> QED BY <1>3 DEF Dispatch

LEMMA Singleton == ASSUME NEW S, NEW t \in S PROVE <<t>> \in Seq(S)
OBVIOUS

LEMMA EncodeOK ==
  ASSUME NEW e \in Documents, NEW st \in [ending : {"LF", "CR", "CRLF"}, long : BOOLEAN]
  PROVE  Encode(e, st) \in Seq(Symbols) /\ LineEnd(st.ending) \in Seq(Symbols)
<1>1. \A s \in Marks : Mark(s) \in Symbols /\ Sym(s, e) \in Symbols
  BY JunkOK, Vocabulary DEF Mark, Sym, Symbols, Marks
<1>2. LineEnd(st.ending) \in Seq(Symbols)
  BY <1>1 DEF LineEnd, Marks
<1>3. \A s \in Marks : <<Sym(s, e)>> \in Seq(Symbols)
  BY <1>1
<1>4. Encode(e, st) \in Seq(Symbols)
  BY <1>2, <1>3, ConcatProperties DEF Encode, Marks
<1> QED BY <1>2, <1>4

LEMMA EventOK ==
  ASSUME NEW t \in Names, NEW text \in Seq(Names), NEW id \in Names, NEW x \in Int,
         NEW y \in Int, NEW f \in Names
  PROVE  Event(t, text, id, x, y, f) \in Documents
BY DEF Event, Documents

LEMMA PlainOK == ASSUME NEW t \in Names PROVE Plain(t) \in Documents
BY EventOK, Vocabulary DEF Plain

LEMMA SaidOK ==
  ASSUME NEW p \in {"chat", "responses", "messages"}
  PROVE  Opening(p) \cup Closing(p) \subseteq Documents
<1>1. /\ "" \in Names /\ "a" \in Names /\ "b" \in Names /\ "c" \in Names /\ "i" \in Names
      /\ "x" \in Names /\ "y" \in Names /\ "stop" \in Names /\ "length" \in Names
      /\ "completed" \in Names /\ "in_progress" \in Names
      /\ "chunk" \in Names /\ "created" \in Names /\ "delta" \in Names
      /\ "start" \in Names /\ "ending" \in Names
  BY DEF Names
<1>2. << >> \in Seq(Names) /\ NoCount \in Int /\ 1 \in Int /\ 2 \in Int
  <2>1. << >> \in Seq(Names) /\ NoCount \in Int
    BY Vocabulary, Zenon
  <2> QED BY <2>1
<1>3. <<"a">> \in Seq(Names) /\ <<"b">> \in Seq(Names)
  BY <1>1, Singleton
<1>4. <<"c">> \in Seq(Names) /\ <<"i">> \in Seq(Names)
  BY <1>1, Singleton
<1>5. /\ Plain("done") \in Documents /\ Plain("error") \in Documents
      /\ Plain("failed") \in Documents /\ Plain("overloaded") \in Documents
      /\ Plain("incomplete") \in Documents /\ Plain("stop") \in Documents
  BY PlainOK DEF Names
<1>6. CASE p = "chat"
  <2>1. Event("chunk", <<"a">>, "x", 1, 1, "") \in Documents
    BY <1>1, <1>2, <1>3, <1>4, EventOK
  <2>2. Event("chunk", <<"b">>, "x", 1, NoCount, "stop") \in Documents
    BY <1>1, <1>2, <1>3, <1>4, EventOK
  <2>3. Event("chunk", <<"b">>, "y", NoCount, NoCount, "") \in Documents
    BY <1>1, <1>2, <1>3, <1>4, EventOK
  <2>4. Event("chunk", <<>>, "x", NoCount, NoCount, "length") \in Documents
    BY <1>1, <1>2, <1>3, <1>4, EventOK
  <2>5. Event("chunk", <<>>, "", 1, 2, "") \in Documents
    BY <1>1, <1>2, <1>3, <1>4, EventOK
  <2> QED BY <2>1, <2>2, <2>3, <2>4, <2>5, <1>5, <1>6, JunkOK DEF Opening, Closing
<1>7. CASE p = "responses"
  <2>1. Event("created", <<>>, "x", NoCount, NoCount, "") \in Documents
    BY <1>1, <1>2, <1>3, <1>4, EventOK
  <2>2. Event("created", <<>>, "y", NoCount, NoCount, "") \in Documents
    BY <1>1, <1>2, <1>3, <1>4, EventOK
  <2>3. Event("delta", <<"a">>, "", NoCount, NoCount, "") \in Documents
    BY <1>1, <1>2, <1>3, <1>4, EventOK
  <2>4. Event("delta", <<"b">>, "", NoCount, NoCount, "") \in Documents
    BY <1>1, <1>2, <1>3, <1>4, EventOK
  <2>5. Event("completed", <<"c">>, "x", 1, 2, "completed") \in Documents
    BY <1>1, <1>2, <1>3, <1>4, EventOK
  <2>6. Event("completed", <<"c">>, "x", 1, 2, "in_progress") \in Documents
    BY <1>1, <1>2, <1>3, <1>4, EventOK
  <2> QED BY <2>1, <2>2, <2>3, <2>4, <2>5, <2>6, <1>5, <1>7, JunkOK DEF Opening, Closing
<1>8. CASE p = "messages"
  <2>1. Event("start", <<"i">>, "x", 1, 1, "") \in Documents
    BY <1>1, <1>2, <1>3, <1>4, EventOK
  <2>2. Event("start", <<>>, "x", 1, 1, "stop") \in Documents
    BY <1>1, <1>2, <1>3, <1>4, EventOK
  <2>3. Event("delta", <<"a">>, "", NoCount, NoCount, "") \in Documents
    BY <1>1, <1>2, <1>3, <1>4, EventOK
  <2>4. Event("delta", <<"b">>, "", NoCount, NoCount, "") \in Documents
    BY <1>1, <1>2, <1>3, <1>4, EventOK
  <2>5. Event("ending", <<>>, "", NoCount, 2, "length") \in Documents
    BY <1>1, <1>2, <1>3, <1>4, EventOK
  <2> QED BY <2>1, <2>2, <2>3, <2>4, <2>5, <1>5, <1>8, JunkOK DEF Opening, Closing
<1> QED BY <1>6, <1>7, <1>8

\* A set of numbers that is not empty has a least one.
LEMMA LeastNatural ==
  ASSUME NEW B, B \subseteq Nat, B # {}
  PROVE  \E n \in B : \A m \in B : n <= m
<1>1. PICK n \in B : \A m \in B : <<m, n>> \notin OpToRel(<, Nat)
  BY NatLessThanWellFounded, WFMin
<1>2. ASSUME NEW m \in B PROVE n <= m
  <2>1. ~(m < n)
    BY <1>1, <1>2 DEF OpToRel
  <2> QED BY <2>1
<1> QED BY <1>2

\* _pop_sse_line returns a part of the buffer and leaves one.
LEMMA PoppedOK ==
  ASSUME NEW buffer \in Seq(Symbols), NEW eof \in BOOLEAN
  PROVE  Popped(buffer, eof).line \in Seq(Symbols) /\ Popped(buffer, eof).rest \in Seq(Symbols)
<1> DEFINE at == LineAt(buffer, eof)
           size == IF at < Len(buffer) /\ buffer[at].s = "CR"
                      /\ buffer[at + 1].s = "LF" THEN 2 ELSE 1
<1>1. Len(buffer) \in Nat
  BY LenProperties
<1>2. at \in 0..Len(buffer)
  <2> DEFINE endings == {i \in 1..Len(buffer) : buffer[i].s \in {"CR", "LF"}}
             first == CHOOSE i \in endings : \A j \in endings : i <= j
  <2>1. CASE endings = {}
    BY <1>1, <2>1 DEF LineAt
  <2>2. CASE endings # {}
    <3>1. \E i \in endings : \A j \in endings : i <= j
      <4>1. endings \subseteq Nat
        BY <1>1
      <4> HIDE DEF endings
      <4> QED BY <4>1, <2>2, LeastNatural
    <3>2. first \in endings
      BY <3>1
    <3> QED BY <2>2, <3>2, <1>1 DEF LineAt
  <2> QED BY <2>1, <2>2
<1> HIDE DEF at
<1>3. at # 0 => /\ SubSeq(buffer, 1, at - 1) \in Seq(Symbols)
                /\ SubSeq(buffer, at + size, Len(buffer)) \in Seq(Symbols)
  <2>1. size \in {1, 2}
    OBVIOUS
  <2> HIDE DEF size
  <2>2. \A i \in 1..Len(buffer) : buffer[i] \in Symbols
    BY <1>1
  <2>3. \A m \in 1..(Len(buffer) + 2), n \in 0..Len(buffer) :
           SubSeq(buffer, m, n) \in Seq(Symbols)
    BY <2>2, <1>1, SubSeqProperties
  <2> QED BY <2>1, <2>3, <1>1, <1>2
<1>4. Popped(buffer, eof) \in
        [some : BOOLEAN, line : Seq(Symbols), rest : Seq(Symbols)]
  BY <1>3 DEF Popped, at
<1> QED BY <1>4


-----------------------------------------------------------------------------
LEMMA StreamStart == StreamInit => StreamIInv
<1> SUFFICES ASSUME StreamInit PROVE StreamIInv
  OBVIOUS
<1>1. /\ call \in [protocol : {"chat", "responses", "messages"}, attempt : Nat,
                   phase : {"sending", "reading", "over"},
                   result : [status : Statuses, text : Seq(Names), in : Int, out : Int]]
      /\ call.phase = "sending"
  <2>1. NoResult \in [status : Statuses, text : Seq(Names), in : Int, out : Int]
    BY Vocabulary DEF NoResult
  <2>2. PICK p \in {"chat", "responses", "messages"} :
          call = [protocol |-> p, attempt |-> 1, phase |-> "sending", result |-> NoResult]
    BY DEF StreamInit
  <2> QED BY <2>1, <2>2
<1>2. style \in [ending : {"LF", "CR", "CRLF"}, long : BOOLEAN]
  BY DEF StreamInit
<1>3. pipe \in Seq(Symbols) /\ ReaderOK(reader) /\ AccOK(acc)
  BY FreshOK DEF StreamInit
<1> QED BY <1>1, <1>2, <1>3 DEF StreamIInv, CallOK

LEMMA FailureOK ==
  ASSUME StreamIInv, NEW error \in Statuses, NEW r
  PROVE  CallOK(AfterFailure(error, r)) /\ AfterFailure(error, r).phase # "reading"
<1>1. CallOK(call)
  BY DEF StreamIInv, CallOK
<1>2. [NoResult EXCEPT !.status = error] \in
        [status : Statuses, text : Seq(Names), in : Int, out : Int]
  BY Vocabulary, StatusNames DEF NoResult
<1>3. CallOK([call EXCEPT !.attempt = @ + 1, !.phase = "sending"])
  <2>1. call.attempt + 1 \in Nat
    BY <1>1 DEF CallOK
  <2> QED BY <1>1, <2>1 DEF CallOK
<1>4. CallOK([call EXCEPT !.phase = "over", !.result = [NoResult EXCEPT !.status = error]])
  BY <1>1, <1>2 DEF CallOK
<1>5. CASE r /\ call.attempt <= MaxRetries
  BY <1>1, <1>3, <1>5 DEF AfterFailure, CallOK
<1>6. CASE ~(r /\ call.attempt <= MaxRetries)
  BY <1>1, <1>4, <1>6 DEF AfterFailure, CallOK
<1> QED BY <1>5, <1>6

\* An attempt that failed keeps what it read, and waits for nothing.
LEMMA FailedOK ==
  ASSUME StreamIInv, NEW error \in Statuses, NEW r, AttemptFailed(error, r),
         pipe' \in Seq(Symbols), UNCHANGED style
  PROVE  StreamIInv'
<1>1. CallOK(call') /\ call'.phase # "reading"
  BY FailureOK DEF AttemptFailed
<1>2. ReaderOK(reader) /\ AccOK(acc) /\ reader' = reader /\ acc' = acc
  BY DEF StreamIInv, AttemptFailed
<1>3. ReaderOK(reader') /\ AccOK(acc')
  BY <1>2
<1>4. style' \in [ending : {"LF", "CR", "CRLF"}, long : BOOLEAN]
  BY DEF StreamIInv
<1> QED BY <1>1, <1>3, <1>4 DEF StreamIInv, CallOK, ReaderOK, AccOK

LEMMA AnsweredOK ==
  ASSUME StreamIInv, NEW a, AccOK(a), Replied(a), pipe' \in Seq(Symbols), UNCHANGED style
  PROVE  StreamIInv'
<1>1. CASE a.text = << >>
  <2>1. PICK error \in Statuses : AttemptFailed(error, FALSE)
    BY <1>1, StatusNames DEF Replied
  <2> QED BY <2>1, FailedOK
<1>2. CASE a.text # << >>
  <2> DEFINE r == [status |-> "answered", text |-> a.text, in |-> a.in, out |-> a.out]
  <2>1. call' = [call EXCEPT !.phase = "over", !.result = r]
    BY <1>2 DEF Replied
  <2>2. reader' = reader /\ acc' = acc
    BY <1>2 DEF Replied
  <2>3. r \in [status : Statuses, text : Seq(Names), in : Int, out : Int]
    BY StatusNames DEF AccOK, Gathered
  <2> HIDE DEF r
  <2>4. CallOK(call)
    BY DEF StreamIInv, CallOK
  <2>5. CallOK(call') /\ call'.phase = "over"
    BY <2>1, <2>3, <2>4 DEF CallOK
  <2>6. ReaderOK(reader') /\ AccOK(acc')
    BY <2>2 DEF StreamIInv
  <2>7. style' \in [ending : {"LF", "CR", "CRLF"}, long : BOOLEAN]
    BY DEF StreamIInv
  <2> QED BY <2>5, <2>6, <2>7 DEF StreamIInv, CallOK, ReaderOK, AccOK
<1> QED BY <1>1, <1>2

LEMMA FreshStep ==
  ASSUME StreamIInv, CallOK(call'), pipe' = << >>, UNCHANGED style,
         reader' = FreshReader, acc' = FreshAcc
  PROVE  StreamIInv'
<1>1. ReaderOK(reader') /\ AccOK(acc') /\ Waits(reader')
  BY FreshOK
<1>2. style' \in [ending : {"LF", "CR", "CRLF"}, long : BOOLEAN]
  BY DEF StreamIInv
<1>3. pipe' \in Seq(Symbols)
  BY Vocabulary
<1> QED BY <1>1, <1>2, <1>3 DEF StreamIInv, CallOK, ReaderOK, AccOK, Waits

LEMMA WriteStep ==
  ASSUME StreamIInv, pipe' \in Seq(Symbols), UNCHANGED <<call, style, reader, acc>>
  PROVE  StreamIInv'
BY DEF StreamIInv, ReaderOK, AccOK, Waits

\* The reader goes on, within the limits.
LEMMA ReadStep ==
  ASSUME StreamIInv, pipe' \in Seq(Symbols), UNCHANGED <<call, style>>,
         ReaderOK(reader'), AccOK(acc'), Waits(reader')
  PROVE  StreamIInv'
BY DEF StreamIInv, ReaderOK, AccOK, Waits

LEMMA ReadChunkOK == ASSUME StreamIInv, ReadChunk PROVE StreamIInv'
<1>1. PICK n \in 1..Len(pipe) :
        LET rd == [reader EXCEPT !.buffer = @ \o SubSeq(pipe, 1, n),
                                 !.wireBytes = @ + n]
        IN  /\ pipe' = SubSeq(pipe, n + 1, Len(pipe))
            /\ IF rd.wireBytes > WireLimit \/ Overflows(rd)
               THEN AttemptFailed("provider_response_too_large", FALSE)
               ELSE reader' = rd /\ UNCHANGED <<call, acc>>
  BY DEF ReadChunk
<1> DEFINE rd == [reader EXCEPT !.buffer = @ \o SubSeq(pipe, 1, n), !.wireBytes = @ + n]
<1>2. pipe \in Seq(Symbols) /\ ReaderOK(reader) /\ ~reader.eof /\ UNCHANGED style
  BY DEF StreamIInv, ReadChunk
<1>3. Len(pipe) \in Nat
  BY <1>2, LenProperties
<1>4. pipe' \in Seq(Symbols) /\ SubSeq(pipe, 1, n) \in Seq(Symbols)
  <2>1. \A i \in 1..Len(pipe) : pipe[i] \in Symbols
    BY <1>2
  <2>2. SubSeq(pipe, 1, n) \in Seq(Symbols)
    BY <2>1, <1>3, SubSeqProperties
  <2>3. SubSeq(pipe, n + 1, Len(pipe)) \in Seq(Symbols)
    BY <2>1, <1>3, SubSeqProperties
  <2> QED BY <2>2, <2>3, <1>1
<1>5. CASE rd.wireBytes > WireLimit \/ Overflows(rd)
  BY <1>1, <1>5, <1>4, <1>2, FailedOK, StatusNames
<1>6. CASE ~(rd.wireBytes > WireLimit \/ Overflows(rd))
  <2>1. reader' = rd /\ UNCHANGED <<call, acc>>
    BY <1>1, <1>6
  <2>2. reader.buffer \o SubSeq(pipe, 1, n) \in Seq(Symbols)
    BY <1>2, <1>4, ConcatProperties DEF ReaderOK
  <2>3. rd \in [buffer : Seq(Symbols), data : Seq(Symbols), name : Names,
                eventBytes : Nat, wireBytes : Nat, eof : BOOLEAN]
    <3>1. reader.wireBytes + n \in Nat
      BY <1>2, <1>3 DEF ReaderOK
    <3> QED BY <2>2, <3>1, <1>2 DEF ReaderOK
  <2> HIDE DEF rd
  <2>4. Len(rd.buffer) \in Nat
    BY <2>3, LenProperties
  <2>5. ReaderOK(rd)
    BY <2>3, <1>6, StreamAssumption DEF ReaderOK
  <2>6. Waits(rd)
    <3>1. ~(rd.eventBytes + Len(rd.buffer) > EventLimit)
            => rd.eventBytes + Len(rd.buffer) <= EventLimit
      BY <2>3, <2>4, StreamAssumption
    <3> QED BY <3>1, <1>6, Zenon DEF Overflows, Waits
  <2>7. AccOK(acc')
    BY <2>1 DEF StreamIInv
  <2> QED BY <2>1, <2>5, <2>6, <2>7, <1>4, <1>2, ReadStep
<1> QED BY <1>5, <1>6

LEMMA ProcessLineOK == ASSUME StreamIInv, ProcessLine PROVE StreamIInv'
<1> DEFINE popped == Popped(reader.buffer, reader.eof)
           line == popped.line
           bytes == reader.eventBytes + Len(line) + 1
           a == Dispatch(call.protocol, reader, acc)
           blank == [reader EXCEPT !.buffer = popped.rest, !.data = <<>>,
                                   !.name = "", !.eventBytes = 0]
           longer == [reader EXCEPT
                        !.buffer = popped.rest, !.eventBytes = bytes,
                        !.data = IF line[1].s \in {"data", "head", "tail"}
                                 THEN Append(@, line[1]) ELSE @,
                        !.name = IF line[1].s = "name"
                                 THEN line[1].e.type ELSE @]
           rd == IF line = <<>> THEN blank ELSE longer
<1>1. /\ ReaderOK(reader) /\ AccOK(acc) /\ pipe' \in Seq(Symbols) /\ UNCHANGED style
      /\ call.protocol \in {"chat", "responses", "messages"}
  BY DEF StreamIInv, CallOK, ProcessLine
<1>2. line \in Seq(Symbols) /\ popped.rest \in Seq(Symbols)
  BY <1>1, PoppedOK DEF ReaderOK
<1>3. AccOK(a)
  BY <1>1, DispatchOK
<1>4. IF line = <<>> /\ a.error # ""
      THEN AttemptFailed(a.error, a.retryable)
      ELSE IF line = <<>> /\ a.done
      THEN Replied(a)
      ELSE IF \/ line # <<>> /\ bytes > EventLimit
              \/ ~reader.eof /\ Overflows(rd)
      THEN AttemptFailed("provider_response_too_large", FALSE)
      ELSE /\ reader' = rd
           /\ acc' = IF line = <<>> THEN a ELSE acc
           /\ UNCHANGED call
  BY DEF ProcessLine
<1>5. Len(line) \in Nat
  BY <1>2, LenProperties
<1>6. ReaderOK(rd) /\ rd.eof = reader.eof
  <2> HIDE DEF popped
  <2>1. CASE line = << >>
    BY <2>1, <1>1, <1>2, Vocabulary DEF ReaderOK
  <2>2. CASE line # << >>
    <3>1. line[1] \in Symbols
      BY <1>2, <1>5, <2>2
    <3> HIDE DEF line
    <3>2. Append(reader.data, line[1]) \in Seq(Symbols)
      BY <3>1, <1>1 DEF ReaderOK
    <3>3. line[1].e.type \in Names
      BY <3>1 DEF Symbols, Documents
    <3>4. bytes \in Nat
      BY <1>5, <1>1 DEF ReaderOK
    <3> HIDE DEF bytes
    <3> QED BY <1>1, <1>2, <2>2, <3>2, <3>3, <3>4 DEF ReaderOK
  <2> QED BY <2>1, <2>2
<1> HIDE DEF popped, line, bytes, a, rd
<1>7. CASE line = <<>> /\ a.error # ""
  <2>1. a.error \in Statuses /\ AttemptFailed(a.error, a.retryable)
    BY <1>3, <1>4, <1>7 DEF AccOK, Gathered
  <2> QED BY <2>1, <1>1, FailedOK
<1>8. CASE ~(line = <<>> /\ a.error # "") /\ line = <<>> /\ a.done
  BY <1>1, <1>3, <1>4, <1>8, AnsweredOK
<1>9. CASE /\ ~(line = <<>> /\ a.error # "") /\ ~(line = <<>> /\ a.done)
           /\ \/ line # <<>> /\ bytes > EventLimit
              \/ ~reader.eof /\ Overflows(rd)
  BY <1>1, <1>4, <1>9, FailedOK, StatusNames
<1>10. CASE /\ ~(line = <<>> /\ a.error # "") /\ ~(line = <<>> /\ a.done)
            /\ ~(\/ line # <<>> /\ bytes > EventLimit
                 \/ ~reader.eof /\ Overflows(rd))
  <2>1. reader' = rd /\ acc' = (IF line = <<>> THEN a ELSE acc) /\ UNCHANGED call
    BY <1>4, <1>10
  <2>2. AccOK(acc')
    BY <2>1, <1>1, <1>3
  <2>3. Len(rd.buffer) \in Nat /\ rd.eventBytes \in Nat
    BY <1>6, LenProperties DEF ReaderOK
  <2>4. Waits(rd)
    <3>1. ~(rd.eventBytes + Len(rd.buffer) > EventLimit)
            => rd.eventBytes + Len(rd.buffer) <= EventLimit
      BY <2>3, StreamAssumption
    <3> QED BY <3>1, <1>6, <1>10, Zenon DEF Overflows, Waits
  <2> QED BY <2>1, <2>2, <2>4, <1>1, <1>6, ReadStep
<1> QED BY <1>7, <1>8, <1>9, <1>10

LEMMA EndsOK == ASSUME StreamIInv, EndOfBody \/ EndStream PROVE StreamIInv'
<1>1. CASE EndOfBody
  <2>1. PICK part \in {<<>>, <<Mark("comment")>>, <<Mark("head")>>} :
          reader' = [reader EXCEPT !.eof = TRUE, !.buffer = @ \o part]
    BY <1>1 DEF EndOfBody
  <2>2. part \in Seq(Symbols)
    <3>1. Mark("comment") \in Symbols /\ Mark("head") \in Symbols
      BY JunkOK DEF Mark, Sym, Symbols, Marks
    <3>2. <<Mark("comment")>> \in Seq(Symbols) /\ <<Mark("head")>> \in Seq(Symbols)
      BY <3>1, Singleton
    <3> QED BY <3>2, Vocabulary
  <2>3. ReaderOK(reader) /\ AccOK(acc) /\ UNCHANGED <<call, style, pipe, acc>>
        /\ pipe \in Seq(Symbols)
    BY <1>1 DEF StreamIInv, EndOfBody
  <2>4. reader.buffer \o part \in Seq(Symbols)
    BY <2>2, <2>3, ConcatProperties DEF ReaderOK
  <2>5. ReaderOK(reader') /\ reader'.eof
    BY <2>1, <2>3, <2>4 DEF ReaderOK
  <2> QED BY <2>3, <2>5, ReadStep DEF Waits
<1>2. CASE EndStream
  <2> DEFINE a == Dispatch(call.protocol, reader, acc)
  <2>1. /\ pipe' \in Seq(Symbols) /\ UNCHANGED style
        /\ ReaderOK(reader) /\ AccOK(acc) /\ call.protocol \in {"chat", "responses", "messages"}
    BY <1>2 DEF StreamIInv, CallOK, EndStream
  <2>2. AccOK(a)
    BY <2>1, DispatchOK
  <2>3. IF a.error # "" THEN AttemptFailed(a.error, a.retryable)
        ELSE IF ~a.done THEN AttemptFailed("incomplete_provider_stream", FALSE)
        ELSE Replied(a)
    BY <1>2 DEF EndStream
  <2> HIDE DEF a
  <2>4. a.error \in Statuses
    BY <2>2 DEF AccOK, Gathered
  <2> QED BY <2>1, <2>2, <2>3, <2>4, FailedOK, AnsweredOK, StatusNames
<1> QED BY <1>1, <1>2

LEMMA WritesOK == ASSUME StreamIInv, Write \/ WriteComment PROVE StreamIInv'
<1>1. /\ pipe \in Seq(Symbols) /\ call.protocol \in {"chat", "responses", "messages"}
      /\ style \in [ending : {"LF", "CR", "CRLF"}, long : BOOLEAN]
  BY DEF StreamIInv, CallOK
<1>2. CASE Write
  <2>1. PICK e \in Opening(call.protocol) \cup Closing(call.protocol) :
          pipe' = pipe \o Encode(e, style)
    BY <1>2 DEF Write
  <2>2. e \in Documents
    BY <1>1, SaidOK
  <2>3. pipe' \in Seq(Symbols)
    BY <1>1, <2>1, <2>2, EncodeOK, ConcatProperties
  <2> QED BY <1>2, <2>3, WriteStep DEF Write
<1>3. CASE WriteComment
  <2>1. PICK n \in {1, EventLimit + 1}, e \in Opening(call.protocol) :
          pipe' = [i \in 1..n |-> Mark("comment")] \o LineEnd(style.ending) \o Encode(e, style)
    BY <1>3 DEF WriteComment
  <2>2. e \in Documents
    BY <1>1, SaidOK
  <2>3. Mark("comment") \in Symbols /\ n \in Nat
    BY JunkOK, StreamAssumption DEF Mark, Sym, Symbols, Marks
  <2>4. [i \in 1..n |-> Mark("comment")] \in Seq(Symbols)
    BY <2>3
  <2>5. pipe' \in Seq(Symbols)
    BY <1>1, <2>1, <2>2, <2>4, EncodeOK, ConcatProperties
  <2> QED BY <1>3, <2>5, WriteStep DEF WriteComment
<1> QED BY <1>2, <1>3

LEMMA AttemptsOK ==
  ASSUME StreamIInv, OpenStream \/ JsonBody \/ ErrorStatus \/ ConnectionLost \/ Cancelled
  PROVE  StreamIInv'
<1>1. CallOK(call) /\ pipe \in Seq(Symbols)
  BY DEF StreamIInv, CallOK
<1>2. CASE OpenStream
  <2>1. CallOK(call')
    BY <1>1, <1>2 DEF OpenStream, CallOK
  <2> QED BY <1>2, <2>1, FreshStep DEF OpenStream
<1>3. CASE JsonBody
  <2>1. /\ AccOK([FreshAcc EXCEPT !.text = <<"j">>, !.in = 1, !.out = 1])
        /\ AccOK([FreshAcc EXCEPT !.finish = "length"])
    <3>1. FreshAcc \in Gathered /\ Len(FreshAcc.text) <= TextLimit
      BY FreshOK DEF AccOK
    <3>2. <<"j">> \in Seq(Names) /\ Len(<<"j">>) = 1 /\ 1 \in Int /\ "length" \in Names
      BY DEF Names
    <3>3. Len(<<"j">>) <= TextLimit
      BY <3>2, StreamAssumption
    <3>4. [FreshAcc EXCEPT !.text = <<"j">>, !.in = 1, !.out = 1] \in Gathered
      BY <3>1, <3>2 DEF Gathered
    <3>5. [FreshAcc EXCEPT !.text = <<"j">>, !.in = 1, !.out = 1].text = <<"j">>
      BY <3>1 DEF Gathered
    <3>6. AccOK([FreshAcc EXCEPT !.text = <<"j">>, !.in = 1, !.out = 1])
      BY <3>3, <3>4, <3>5 DEF AccOK
    <3>7. AccOK([FreshAcc EXCEPT !.finish = "length"])
      BY <3>1, <3>2 DEF AccOK, Gathered
    <3> QED BY <3>6, <3>7
  <2>2. pipe' \in Seq(Symbols) /\ UNCHANGED style
    BY <1>1, <1>3 DEF JsonBody
  <2>3. \/ Replied([FreshAcc EXCEPT !.text = <<"j">>, !.in = 1, !.out = 1])
        \/ Replied([FreshAcc EXCEPT !.finish = "length"])
        \/ \E error \in Statuses : AttemptFailed(error, FALSE)
    BY <1>3, StatusNames DEF JsonBody
  <2> QED BY <2>1, <2>2, <2>3, AnsweredOK, FailedOK
<1>4. CASE ErrorStatus
  <2>1. pipe' \in Seq(Symbols) /\ UNCHANGED style
    BY <1>1, <1>4 DEF ErrorStatus
  <2>2. \E error \in Statuses, r \in BOOLEAN : AttemptFailed(error, r)
    BY <1>4, StatusNames DEF ErrorStatus
  <2> QED BY <2>1, <2>2, FailedOK
<1>5. CASE ConnectionLost
  <2>1. CallOK(call')
    BY <1>5, FailureOK, StatusNames DEF ConnectionLost
  <2> QED BY <1>5, <2>1, FreshStep DEF ConnectionLost, Discard
<1>6. CASE Cancelled
  <2>1. [NoResult EXCEPT !.status = "cancelled"] \in
          [status : Statuses, text : Seq(Names), in : Int, out : Int]
    BY Vocabulary, StatusNames DEF NoResult
  <2>2. CallOK(call')
    BY <1>1, <1>6, <2>1 DEF Cancelled, CallOK
  <2> QED BY <1>6, <2>2, FreshStep DEF Cancelled, Discard
<1> QED BY <1>2, <1>3, <1>4, <1>5, <1>6

LEMMA StreamStep == StreamIInv /\ [StreamNext]_streamVars => StreamIInv'
<1> SUFFICES ASSUME StreamIInv, [StreamNext]_streamVars PROVE StreamIInv'
  OBVIOUS
<1>1. CASE UNCHANGED streamVars
  BY <1>1, WriteStep DEF streamVars, StreamIInv
<1>2. CASE StreamNext
  BY <1>2, AttemptsOK, WritesOK, ReadChunkOK, ProcessLineOK, EndsOK DEF StreamNext
<1> QED BY <1>1, <1>2

\* Whatever a Provider writes and however it is cut, the adapter that waits
\* for more holds at most one event and the text limit (process_chunk,
\* process_line, _append_text), for every value of the three limits.
THEOREM StreamMemory == StreamSpec => []StreamMemoryBounded
<1>1. StreamIInv => StreamMemoryBounded
  <2> SUFFICES ASSUME StreamIInv, call.phase = "reading", ~reader.eof, ~HasLine
               PROVE  /\ reader.eventBytes + Len(reader.buffer) <= EventLimit
                      /\ reader.wireBytes <= WireLimit
                      /\ Len(acc.text) <= TextLimit
    BY DEF StreamMemoryBounded
  <2>1. reader.eof = FALSE
    BY DEF StreamIInv, ReaderOK
  <2>2. ~Popped(reader.buffer, FALSE).some
    BY <2>1 DEF HasLine
  <2> QED BY <2>2 DEF StreamIInv, ReaderOK, AccOK, Waits
<1> QED BY <1>1, StreamStart, StreamStep, PTL DEF StreamSpec

-----------------------------------------------------------------------------
(***************************************************************************)
(* An event on the wire is a sequence of lines: line 0 is the comment, if  *)
(* there is one, the next ones have one symbol of content each, and the    *)
(* last one is blank.  All symbols of a line's body are the same.          *)
(***************************************************************************)
Protocols == {"chat", "responses", "messages"}

Styles == [ending : {"LF", "CR", "CRLF"}, long : BOOLEAN]

EndLen(st) == IF st.ending = "CRLF" THEN 2 ELSE 1

FirstEnd(st) == IF st.ending = "LF" THEN "LF" ELSE "CR"

LongForm(w, st) == st.long /\ w.e.type # "done"

CommentLen(w, st) ==
    IF w.size = EventSize(w.e, st) THEN 0 ELSE w.size - EventSize(w.e, st) - 1

FirstLine(w, st) == IF CommentLen(w, st) = 0 THEN 1 ELSE 0

BlankLine(w, st) == IF LongForm(w, st) THEN 4 ELSE 2

BodyLen(w, st, t) ==
    IF t = 0 THEN CommentLen(w, st) ELSE IF t = BlankLine(w, st) THEN 0 ELSE 1

Body(w, st, t) ==
    IF t = 0 THEN Mark("comment")
    ELSE IF ~LongForm(w, st) THEN Sym("data", w.e)
    ELSE Sym(IF t = 1 THEN "name" ELSE IF t = 2 THEN "head" ELSE "tail", w.e)

\* Where line t starts in its event.
Offset(w, st, t) ==
    IF t = 0 THEN 0
    ELSE (IF CommentLen(w, st) = 0 THEN 0 ELSE CommentLen(w, st) + EndLen(st))
         + (IF t = 1 THEN 0 ELSE IF t = 2 THEN 1 + EndLen(st)
            ELSE IF t = 3 THEN 2 * (1 + EndLen(st)) ELSE 3 * (1 + EndLen(st)))

EventLength(w, st) == Offset(w, st, BlankLine(w, st)) + EndLen(st)

\* What the reader has counted and gathered of an event before line t.
BytesAt(w, st, t) ==
    IF t = 0 THEN 0
    ELSE (IF CommentLen(w, st) = 0 THEN 0 ELSE CommentLen(w, st) + 1) + 2 * (t - 1)

DataAt(w, st, t) ==
    IF ~LongForm(w, st) THEN IF t = 2 THEN <<Sym("data", w.e)>> ELSE <<>>
    ELSE IF t = 4 THEN <<Sym("head", w.e), Sym("tail", w.e)>>
    ELSE IF t = 3 THEN <<Sym("head", w.e)>> ELSE <<>>

NameAt(w, st, t) == IF LongForm(w, st) /\ t >= 2 THEN w.e.type ELSE ""

WireRow == [e : Documents, size : Nat, upto : Nat]

\* An event with no comment before it, or with one of a symbol or more.
Row(w, st) ==
    /\ w \in WireRow
    /\ w.size = EventSize(w.e, st) \/ w.size >= EventSize(w.e, st) + 2

-----------------------------------------------------------------------------
(***************************************************************************)
(* What was sent: the symbols T of this attempt, laid out event by event.  *)
(***************************************************************************)
\* At p stands a line of size times the symbol body.
Lays(T, p, size, body, st) ==
    /\ p + size + EndLen(st) <= Len(T)
    /\ \A q \in 1..size : T[p + q] = body
    /\ T[p + size + 1] = Mark(FirstEnd(st))
    /\ st.ending = "CRLF" => T[p + size + 2] = Mark("LF")

LaidOut(T, o, w, st) ==
    \A t \in FirstLine(w, st)..BlankLine(w, st) :
        Lays(T, o + Offset(w, st, t), BodyLen(w, st, t), Body(w, st, t), st)

\* Symbols up to the end of event k.
UpTo(ws, k) == IF k = 0 THEN 0 ELSE ws[k].upto

EventOnWire(T, ws, st, p, i) ==
    /\ Row(ws[i], st)
    /\ ws[i].e \in Opening(p) \cup Closing(p)
    /\ ws[i].upto = UpTo(ws, i - 1) + EventLength(ws[i], st)
    /\ LaidOut(T, UpTo(ws, i - 1), ws[i], st)
    /\ i < Len(ws) => ws[i].e \notin Closing(p)

NoLF(T) == \A i \in 1..Len(T) : T[i].s # "LF"

Sent(T, ws, st, p) ==
    /\ T \in Seq(Symbols) /\ ws \in Seq(WireRow)
    /\ Len(T) = UpTo(ws, Len(ws))
    /\ \A i \in 1..Len(ws) : EventOnWire(T, ws, st, p, i)
    /\ st.ending = "CR" => NoLF(T)

-----------------------------------------------------------------------------
\* The lines of an event follow one another.
LEMMA Geometry ==
  ASSUME NEW w, NEW st \in Styles, Row(w, st),
         NEW t \in FirstLine(w, st)..BlankLine(w, st)
  PROVE  /\ t \in 0..4 /\ EndLen(st) \in {1, 2}
         /\ BodyLen(w, st, t) \in Nat /\ Offset(w, st, t) \in Nat /\ BytesAt(w, st, t) \in Nat
         /\ EventLength(w, st) \in Nat
         /\ t # BlankLine(w, st) =>
              /\ t + 1 \in FirstLine(w, st)..BlankLine(w, st)
              /\ Offset(w, st, t + 1) = Offset(w, st, t) + BodyLen(w, st, t) + EndLen(st)
              /\ BytesAt(w, st, t + 1) = BytesAt(w, st, t) + BodyLen(w, st, t) + 1
              /\ BytesAt(w, st, t) + BodyLen(w, st, t) + 1 <= w.size
              /\ BodyLen(w, st, t) >= 1
         /\ t = BlankLine(w, st) =>
              /\ BodyLen(w, st, t) = 0
              /\ BytesAt(w, st, t) <= w.size
              /\ EventLength(w, st) = Offset(w, st, t) + EndLen(st)
         /\ Offset(w, st, t) + BodyLen(w, st, t) + EndLen(st) <= EventLength(w, st)
         /\ t # 0 => BodyLen(w, st, t) <= 1
<1>1. EndLen(st) \in {1, 2}
  BY DEF EndLen
<1>2. w.size \in Nat /\ EventSize(w.e, st) = IF LongForm(w, st) THEN 6 ELSE 2
  BY DEF Row, WireRow, EventSize, LongForm
<1>3. \/ w.size = EventSize(w.e, st) /\ CommentLen(w, st) = 0
      \/ /\ CommentLen(w, st) \in Nat \ {0}
         /\ w.size = EventSize(w.e, st) + CommentLen(w, st) + 1
  BY <1>2 DEF Row, CommentLen
<1>4. CommentLen(w, st) \in Nat
  BY <1>3
<1>5. CASE LongForm(w, st)
  <2>1. BlankLine(w, st) = 4 /\ w.size \in Nat /\ EventSize(w.e, st) = 6
    BY <1>5, <1>2 DEF BlankLine
  <2>2. t \in 0..4 /\ (t = 0 => CommentLen(w, st) # 0)
    BY <2>1 DEF FirstLine
  <2>3. CASE t = 0
    BY <1>1, <1>3, <1>4, <2>1, <2>2, <2>3
       DEF FirstLine, BodyLen, Offset, BytesAt, EventLength
  <2>4. CASE t \in 1..3
    BY <1>1, <1>3, <1>4, <2>1, <2>2, <2>4
       DEF FirstLine, BodyLen, Offset, BytesAt, EventLength
  <2>5. CASE t = 4
    BY <1>1, <1>3, <1>4, <2>1, <2>2, <2>5
       DEF FirstLine, BodyLen, Offset, BytesAt, EventLength
  <2> QED BY <2>2, <2>3, <2>4, <2>5
<1>6. CASE ~LongForm(w, st)
  <2>1. BlankLine(w, st) = 2 /\ w.size \in Nat /\ EventSize(w.e, st) = 2
    BY <1>6, <1>2 DEF BlankLine
  <2>2. t \in 0..2 /\ (t = 0 => CommentLen(w, st) # 0)
    BY <2>1 DEF FirstLine
  <2>3. CASE t = 0
    BY <1>1, <1>3, <1>4, <2>1, <2>2, <2>3
       DEF FirstLine, BodyLen, Offset, BytesAt, EventLength
  <2>4. CASE t = 1
    BY <1>1, <1>3, <1>4, <2>1, <2>2, <2>4
       DEF FirstLine, BodyLen, Offset, BytesAt, EventLength
  <2>5. CASE t = 2
    BY <1>1, <1>3, <1>4, <2>1, <2>2, <2>5
       DEF FirstLine, BodyLen, Offset, BytesAt, EventLength
  <2> QED BY <2>2, <2>3, <2>4, <2>5
<1> QED BY <1>5, <1>6

LEMMA StartsFresh ==
  ASSUME NEW w, NEW st \in Styles, Row(w, st)
  PROVE  LET t == FirstLine(w, st)
         IN  /\ t \in FirstLine(w, st)..BlankLine(w, st)
             /\ Offset(w, st, t) = 0 /\ BytesAt(w, st, t) = 0
             /\ DataAt(w, st, t) = <<>> /\ NameAt(w, st, t) = ""
BY DEF FirstLine, BlankLine, Offset, BytesAt, DataAt, NameAt

\* What a line adds: its kind decides.
LEMMA LineContent ==
  ASSUME NEW w, NEW st \in Styles, Row(w, st),
         NEW t \in FirstLine(w, st)..BlankLine(w, st), t # BlankLine(w, st)
  PROVE  /\ Body(w, st, t).s \in {"name", "data", "head", "tail", "comment"}
         /\ DataAt(w, st, t + 1) = IF Body(w, st, t).s \in {"data", "head", "tail"}
                                   THEN Append(DataAt(w, st, t), Body(w, st, t))
                                   ELSE DataAt(w, st, t)
         /\ NameAt(w, st, t + 1) = IF Body(w, st, t).s = "name" THEN Body(w, st, t).e.type
                                   ELSE NameAt(w, st, t)
<1>1. CASE LongForm(w, st)
  <2>1. t \in 0..3
    BY <1>1 DEF BlankLine, FirstLine
  <2>2. CASE t = 0
    BY <1>1, <2>2 DEF Body, DataAt, NameAt, Mark, Sym
  <2>3. CASE t = 1
    BY <1>1, <2>3 DEF Body, DataAt, NameAt, Sym
  <2>4. CASE t = 2
    BY <1>1, <2>4 DEF Body, DataAt, NameAt, Sym
  <2>5. CASE t = 3
    BY <1>1, <2>5 DEF Body, DataAt, NameAt, Sym
  <2> QED BY <2>1, <2>2, <2>3, <2>4, <2>5
<1>2. CASE ~LongForm(w, st)
  <2>1. t \in 0..1
    BY <1>2 DEF BlankLine, FirstLine
  <2>2. CASE t = 0
    BY <1>2, <2>2 DEF Body, DataAt, NameAt, Mark, Sym
  <2>3. CASE t = 1
    BY <1>2, <2>3 DEF Body, DataAt, NameAt, Sym
  <2> QED BY <2>1, <2>2, <2>3
<1> QED BY <1>1, <1>2

-----------------------------------------------------------------------------
(***************************************************************************)
(* _pop_sse_line on a buffer whose first line has size symbols.            *)
(***************************************************************************)
LEMMA FirstLineAt ==
  ASSUME NEW b \in Seq(Symbols), NEW eof \in BOOLEAN, NEW size \in Nat,
         size + 1 <= Len(b), \A q \in 1..size : b[q].s \notin {"CR", "LF"},
         b[size + 1].s \in {"CR", "LF"}
  PROVE  LineAt(b, eof) =
            IF b[size + 1].s = "CR" /\ size + 1 = Len(b) /\ ~eof THEN 0 ELSE size + 1
<1> DEFINE endings == {i \in 1..Len(b) : b[i].s \in {"CR", "LF"}}
           first == CHOOSE i \in endings : \A j \in endings : i <= j
<1>1. Len(b) \in Nat
  BY LenProperties
<1>2. size + 1 \in endings
  BY <1>1
<1>3. \A j \in endings : size + 1 <= j
  <2> SUFFICES ASSUME NEW j \in endings, ~(size + 1 <= j) PROVE FALSE
    OBVIOUS
  <2>1. j \in 1..size /\ b[j].s \in {"CR", "LF"}
    BY <1>1
  <2> QED BY <2>1
<1>4. first \in endings /\ \A j \in endings : first <= j
  BY <1>2, <1>3
<1>5. first \in Nat
  BY <1>1, <1>4
<1>6. first <= size + 1 /\ size + 1 <= first
  BY <1>2, <1>3, <1>4
<1>7. first = size + 1
  BY ONLY <1>5, <1>6, size \in Nat
<1>8. endings # {}
  BY <1>2
<1>9. LineAt(b, eof) = IF endings = {} THEN 0
                       ELSE IF b[first].s = "CR" /\ first = Len(b) /\ ~eof THEN 0
                       ELSE first
  BY DEF LineAt
<1> HIDE DEF endings, first
<1> QED BY <1>7, <1>8, <1>9

LEMMA NoLineAt ==
  ASSUME NEW b, NEW eof, \A q \in 1..Len(b) : b[q].s \notin {"CR", "LF"}
  PROVE  LineAt(b, eof) = 0
BY DEF LineAt

\* A line and its whole ending.
LEMMA PopWhole ==
  ASSUME NEW b \in Seq(Symbols), NEW eof \in BOOLEAN, NEW size \in Nat, NEW st \in Styles,
         size + EndLen(st) <= Len(b), \A q \in 1..size : b[q].s \notin {"CR", "LF"},
         b[size + 1].s = FirstEnd(st), st.ending = "CRLF" => b[size + 2].s = "LF",
         st.ending = "CR" => NoLF(b),
         eof \/ st.ending # "CR" \/ size + 2 <= Len(b)
  PROVE  /\ Popped(b, eof).some = TRUE
         /\ Popped(b, eof).line = SubSeq(b, 1, size)
         /\ Popped(b, eof).rest = SubSeq(b, size + EndLen(st) + 1, Len(b))
<1> DEFINE at == LineAt(b, eof)
           n == IF at < Len(b) /\ b[at].s = "CR" /\ b[at + 1].s = "LF" THEN 2 ELSE 1
<1>1. Len(b) \in Nat /\ st.ending \in {"LF", "CR", "CRLF"}
  BY LenProperties DEF Styles
<1>2. at = size + 1
  <2>1. size + 1 <= Len(b) /\ b[size + 1].s \in {"CR", "LF"}
    BY <1>1 DEF EndLen, FirstEnd
  <2>2. ~(b[size + 1].s = "CR" /\ size + 1 = Len(b) /\ ~eof)
    BY <1>1 DEF EndLen, FirstEnd
  <2> QED BY <2>1, <2>2, FirstLineAt
<1> HIDE DEF at
<1>3. n = EndLen(st)
  <2>1. CASE st.ending = "LF"
    BY <1>2, <2>1 DEF EndLen, FirstEnd
  <2>2. CASE st.ending = "CR"
    <3>1. size + 1 < Len(b) => b[size + 2].s # "LF"
      BY <1>1, <2>2 DEF NoLF
    <3> QED BY <1>1, <1>2, <2>2, <3>1 DEF EndLen, FirstEnd
  <2>3. CASE st.ending = "CRLF"
    BY <1>1, <1>2, <2>3 DEF EndLen, FirstEnd
  <2> QED BY <1>1, <2>1, <2>2, <2>3
<1>4. at # 0
  BY <1>2
<1> DEFINE l == SubSeq(b, 1, at - 1)
           r == SubSeq(b, at + n, Len(b))
<1>5. Popped(b, eof) = [some |-> TRUE, line |-> l, rest |-> r]
  BY <1>4 DEF Popped, at
<1> HIDE DEF n
<1>6. at - 1 = size /\ at + n = size + EndLen(st) + 1
  BY <1>2, <1>3 DEF EndLen
<1>7. l = SubSeq(b, 1, size) /\ r = SubSeq(b, size + EndLen(st) + 1, Len(b))
  BY <1>6, Zenon
<1> HIDE DEF l, r
<1>8. Popped(b, eof).some = TRUE
  BY ONLY <1>5
<1>9. Popped(b, eof).line = l /\ Popped(b, eof).rest = r
  BY ONLY <1>5
<1> QED BY <1>7, <1>8, <1>9, Zenon

\* The end of the body may cut a CRLF in two.
LEMMA PopHalf ==
  ASSUME NEW b \in Seq(Symbols), NEW eof \in BOOLEAN, eof, NEW size \in Nat,
         Len(b) = size + 1, \A q \in 1..size : b[q].s \notin {"CR", "LF"},
         b[size + 1].s = "CR"
  PROVE  /\ Popped(b, eof).some = TRUE
         /\ Popped(b, eof).line = SubSeq(b, 1, size) /\ Popped(b, eof).rest = <<>>
<1> DEFINE at == LineAt(b, eof)
           n == IF at < Len(b) /\ b[at].s = "CR" /\ b[at + 1].s = "LF" THEN 2 ELSE 1
           l == SubSeq(b, 1, at - 1)
           r == SubSeq(b, at + n, Len(b))
<1>1. at = size + 1
  <2>1. size + 1 <= Len(b) /\ b[size + 1].s \in {"CR", "LF"}
    OBVIOUS
  <2>2. at = IF b[size + 1].s = "CR" /\ size + 1 = Len(b) /\ ~eof THEN 0 ELSE size + 1
    BY <2>1, FirstLineAt
  <2> HIDE DEF at
  <2> QED BY <2>2
<1> HIDE DEF at
<1>2. ~(at < Len(b)) /\ at # 0 /\ at - 1 = size
  BY <1>1
<1>3. Popped(b, eof) = [some |-> TRUE, line |-> l, rest |-> r]
  BY <1>2 DEF Popped, at
<1>4. n = 1
  BY <1>2
<1> HIDE DEF n
<1>5. l = SubSeq(b, 1, size)
  BY <1>2, Zenon
<1>6. r = << >>
  BY <1>1, <1>4, SubSeqProperties
<1> HIDE DEF l, r
<1>7. Popped(b, eof).some = TRUE
  BY ONLY <1>3
<1>8. Popped(b, eof).line = l /\ Popped(b, eof).rest = r
  BY ONLY <1>3
<1> QED BY <1>5, <1>6, <1>7, <1>8, Zenon

\* A line that the end of the body cuts short.
LEMMA PopCut ==
  ASSUME NEW b \in Seq(Symbols), NEW eof \in BOOLEAN, eof, b # <<>>,
         \A q \in 1..Len(b) : b[q].s \notin {"CR", "LF"}
  PROVE  Popped(b, eof).some = TRUE /\ Popped(b, eof).line = b /\ Popped(b, eof).rest = <<>>
BY NoLineAt DEF Popped

\* Before the line has its ending, and after a CR that may be half of one,
\* the reader waits.
LEMMA PopNothing ==
  ASSUME NEW b \in Seq(Symbols), NEW eof \in BOOLEAN, ~eof, NEW size \in Nat, Len(b) <= size + 1,
         \A q \in 1..Len(b) : q <= size => b[q].s \notin {"CR", "LF"},
         size + 1 = Len(b) => b[size + 1].s = "CR"
  PROVE  Popped(b, eof).some = FALSE
<1>1. LineAt(b, eof) = 0
  <2>1. CASE size + 1 = Len(b)
    <3>1. size + 1 <= Len(b) /\ b[size + 1].s \in {"CR", "LF"}
      BY <2>1
    <3>2. \A q \in 1..size : b[q].s \notin {"CR", "LF"}
      BY <2>1
    <3>3. LineAt(b, eof) =
            IF b[size + 1].s = "CR" /\ size + 1 = Len(b) /\ ~eof THEN 0 ELSE size + 1
      BY <3>1, <3>2, FirstLineAt
    <3> QED BY <2>1, <3>3
  <2>2. CASE size + 1 # Len(b)
    <3>1. \A q \in 1..Len(b) : b[q].s \notin {"CR", "LF"}
      BY <2>2, LenProperties
    <3> QED BY <3>1, NoLineAt
  <2> QED BY <2>1, <2>2
<1> QED BY <1>1 DEF Popped

LEMMA PopEmpty == ASSUME NEW eof \in BOOLEAN PROVE Popped(<<>>, eof).some = FALSE
<1>1. LineAt(<<>>, eof) = 0
  BY NoLineAt
<1> QED BY <1>1 DEF Popped

-----------------------------------------------------------------------------
(***************************************************************************)
(* Writing: what Encode puts on the wire is laid out line by line.         *)
(***************************************************************************)
LEMMA Joined ==
  ASSUME NEW T \in Seq(Symbols), NEW U \in Seq(Symbols)
  PROVE  /\ T \o U \in Seq(Symbols) /\ Len(T \o U) = Len(T) + Len(U)
         /\ Len(T) \in Nat /\ Len(U) \in Nat
         /\ \A i \in 1..Len(T) : (T \o U)[i] = T[i]
         /\ \A i \in 1..Len(U) : (T \o U)[Len(T) + i] = U[i]
<1>1. Len(T) \in Nat /\ Len(U) \in Nat
  BY LenProperties
<1>2. /\ T \o U \in Seq(Symbols) /\ Len(T \o U) = Len(T) + Len(U)
      /\ \A i \in 1..Len(T) + Len(U) :
            (T \o U)[i] = IF i <= Len(T) THEN T[i] ELSE U[i - Len(T)]
  BY ConcatProperties
<1>3. \A i \in 1..Len(T) : (T \o U)[i] = T[i]
  BY <1>1, <1>2
<1>4. ASSUME NEW i \in 1..Len(U) PROVE (T \o U)[Len(T) + i] = U[i]
  <2>1. Len(T) + i \in 1..Len(T) + Len(U) /\ ~(Len(T) + i <= Len(T)) /\ Len(T) + i - Len(T) = i
    BY <1>1
  <2> QED BY <1>2, <2>1
<1> QED BY <1>1, <1>2, <1>3, <1>4

LEMMA LaysKept ==
  ASSUME NEW T \in Seq(Symbols), NEW U \in Seq(Symbols), NEW st \in Styles,
         NEW p \in Nat, NEW size \in Nat, NEW body, Lays(T, p, size, body, st)
  PROVE  Lays(T \o U, p, size, body, st)
<1> DEFINE V == T \o U
<1>1. /\ Len(V) = Len(T) + Len(U) /\ Len(T) \in Nat /\ Len(U) \in Nat
      /\ \A i \in 1..Len(T) : V[i] = T[i]
  BY Joined
<1> HIDE DEF V
<1>2. p + size + EndLen(st) <= Len(V)
  BY <1>1 DEF Lays, EndLen
<1>3. \A q \in 1..size : V[p + q] = body
  <2> TAKE q \in 1..size
  <2>1. p + q \in 1..Len(T)
    BY <1>1 DEF Lays, EndLen
  <2> QED BY <1>1, <2>1 DEF Lays
<1>4. V[p + size + 1] = Mark(FirstEnd(st))
  <2>1. p + size + 1 \in 1..Len(T)
    BY <1>1 DEF Lays, EndLen
  <2> QED BY <1>1, <2>1 DEF Lays
<1>5. st.ending = "CRLF" => V[p + size + 2] = Mark("LF")
  <2>1. st.ending = "CRLF" => p + size + 2 \in 1..Len(T)
    BY <1>1 DEF Lays, EndLen
  <2> QED BY <1>1, <2>1 DEF Lays
<1> QED BY <1>2, <1>3, <1>4, <1>5 DEF Lays, V

LEMMA LaysMoved ==
  ASSUME NEW T \in Seq(Symbols), NEW U \in Seq(Symbols), NEW st \in Styles,
         NEW p \in Nat, NEW size \in Nat, NEW body, Lays(U, p, size, body, st)
  PROVE  Lays(T \o U, Len(T) + p, size, body, st)
<1> DEFINE V == T \o U
<1>1. /\ Len(V) = Len(T) + Len(U) /\ Len(T) \in Nat /\ Len(U) \in Nat
      /\ \A i \in 1..Len(U) : V[Len(T) + i] = U[i]
  BY Joined
<1> HIDE DEF V
<1>2. Len(T) + p + size + EndLen(st) <= Len(V)
  BY <1>1 DEF Lays, EndLen
<1>3. \A q \in 1..size : V[Len(T) + p + q] = body
  <2> TAKE q \in 1..size
  <2>1. p + q \in 1..Len(U) /\ Len(T) + (p + q) = Len(T) + p + q
    <3>1. /\ p \in Nat /\ q \in Nat /\ q \in 1..size /\ size \in Nat
          /\ Len(T) \in Nat /\ Len(U) \in Nat
      BY <1>1
    <3>2. EndLen(st) \in Nat
      BY DEF EndLen
    <3>3. p + size + EndLen(st) <= Len(U)
      BY DEF Lays
    <3> QED BY ONLY <3>1, <3>2, <3>3
  <2> QED BY <1>1, <2>1 DEF Lays
<1>4. V[Len(T) + p + size + 1] = Mark(FirstEnd(st))
  <2>1. p + size + 1 \in 1..Len(U) /\ Len(T) + (p + size + 1) = Len(T) + p + size + 1
    BY <1>1 DEF Lays, EndLen
  <2>2. U[p + size + 1] = Mark(FirstEnd(st))
    BY DEF Lays
  <2> QED BY <1>1, <2>1, <2>2
<1>5. st.ending = "CRLF" => V[Len(T) + p + size + 2] = Mark("LF")
  <2> SUFFICES ASSUME st.ending = "CRLF" PROVE V[Len(T) + p + size + 2] = Mark("LF")
    OBVIOUS
  <2>1. p + size + 2 \in 1..Len(U) /\ Len(T) + (p + size + 2) = Len(T) + p + size + 2
    BY <1>1 DEF Lays, EndLen
  <2>2. U[p + size + 2] = Mark("LF")
    BY DEF Lays
  <2> QED BY <1>1, <2>1, <2>2
<1> QED BY <1>2, <1>3, <1>4, <1>5 DEF Lays, V

LEMMA NoLFJoined ==
  ASSUME NEW T \in Seq(Symbols), NEW U \in Seq(Symbols), NoLF(T), NoLF(U)
  PROVE  NoLF(T \o U)
<1> DEFINE V == T \o U
<1>1. /\ Len(V) = Len(T) + Len(U) /\ Len(T) \in Nat /\ Len(U) \in Nat
      /\ \A i \in 1..Len(T) : V[i] = T[i]
      /\ \A i \in 1..Len(U) : V[Len(T) + i] = U[i]
  BY Joined
<1> HIDE DEF V
<1>2. ASSUME NEW i \in 1..Len(V) PROVE V[i].s # "LF"
  <2>1. CASE i <= Len(T)
    BY <1>1, <2>1 DEF NoLF
  <2>2. CASE ~(i <= Len(T))
    <3>1. i - Len(T) \in 1..Len(U) /\ Len(T) + (i - Len(T)) = i
      BY <1>1, <2>2
    <3> QED BY <1>1, <3>1 DEF NoLF
  <2> QED BY <2>1, <2>2
<1> QED BY <1>2 DEF NoLF, V

LEMMA EndingOK ==
  ASSUME NEW st \in Styles
  PROVE  /\ LineEnd(st.ending) \in Seq(Symbols) /\ Len(LineEnd(st.ending)) = EndLen(st)
         /\ LineEnd(st.ending)[1] = Mark(FirstEnd(st))
         /\ st.ending = "CRLF" => LineEnd(st.ending)[2] = Mark("LF")
         /\ st.ending = "CR" => NoLF(LineEnd(st.ending))
         /\ EndLen(st) \in {1, 2}
<1>1. LineEnd(st.ending) \in Seq(Symbols)
  BY EncodeOK, JunkOK DEF Styles
<1>2. st.ending \in {"LF", "CR", "CRLF"}
  BY DEF Styles
<1>3. Mark("CR").s = "CR"
  BY DEF Mark, Sym
<1> QED BY <1>1, <1>2, <1>3 DEF LineEnd, EndLen, FirstEnd, NoLF

\* One more line behind X.
LEMMA NewLine ==
  ASSUME NEW X \in Seq(Symbols), NEW B \in Seq(Symbols), NEW st \in Styles, NEW body,
         \A q \in 1..Len(B) : B[q] = body, body.s # "LF"
  PROVE  LET Y == (X \o B) \o LineEnd(st.ending)
         IN  /\ Y \in Seq(Symbols) /\ Len(Y) = Len(X) + Len(B) + EndLen(st)
             /\ Lays(Y, Len(X), Len(B), body, st)
             /\ st.ending = "CR" /\ NoLF(X) => NoLF(Y)
<1> DEFINE W == X \o B
           end == LineEnd(st.ending)
           Y == W \o end
<1>1. /\ W \in Seq(Symbols) /\ Len(W) = Len(X) + Len(B) /\ Len(X) \in Nat /\ Len(B) \in Nat
      /\ \A i \in 1..Len(B) : W[Len(X) + i] = B[i]
  BY Joined
<1>2. /\ end \in Seq(Symbols) /\ Len(end) = EndLen(st) /\ end[1] = Mark(FirstEnd(st))
      /\ st.ending = "CRLF" => end[2] = Mark("LF")
      /\ st.ending = "CR" => NoLF(end)
      /\ EndLen(st) \in {1, 2}
  BY EndingOK
<1>3. st.ending = "CR" /\ NoLF(X) => NoLF(W)
  <2>1. NoLF(B)
    BY DEF NoLF
  <2> QED BY <2>1, NoLFJoined
<1> HIDE DEF W, end
<1>4. /\ Y \in Seq(Symbols) /\ Len(Y) = Len(W) + Len(end)
      /\ \A i \in 1..Len(W) : Y[i] = W[i]
      /\ \A i \in 1..Len(end) : Y[Len(W) + i] = end[i]
  BY <1>1, <1>2, Joined
<1>5. st.ending = "CR" /\ NoLF(X) => NoLF(Y)
  BY <1>1, <1>2, <1>3, NoLFJoined
<1> HIDE DEF Y
<1>6. \A q \in 1..Len(B) : Y[Len(X) + q] = body
  <2> TAKE q \in 1..Len(B)
  <2>1. Len(X) + q \in 1..Len(W)
    BY <1>1
  <2> QED BY <1>1, <1>4, <2>1
<1>7. Y[Len(X) + Len(B) + 1] = Mark(FirstEnd(st))
  BY <1>1, <1>2, <1>4
<1>8. st.ending = "CRLF" => Y[Len(X) + Len(B) + 2] = Mark("LF")
  <2>1. st.ending = "CRLF" => 2 \in 1..Len(end)
    BY <1>2 DEF EndLen
  <2> QED BY <1>1, <1>2, <1>4, <2>1
<1>9. Len(Y) = Len(X) + Len(B) + EndLen(st)
  BY <1>1, <1>2, <1>4
<1>10. Lays(Y, Len(X), Len(B), body, st)
  BY <1>1, <1>2, <1>6, <1>7, <1>8, <1>9 DEF Lays
<1> QED BY <1>4, <1>5, <1>9, <1>10 DEF Y, W, end

LEMMA BareLine ==
  ASSUME NEW X \in Seq(Symbols), NEW st \in Styles, NEW body
  PROVE  LET Y == X \o LineEnd(st.ending)
         IN  /\ Y \in Seq(Symbols) /\ Len(Y) = Len(X) + EndLen(st)
             /\ Lays(Y, Len(X), 0, body, st)
             /\ st.ending = "CR" /\ NoLF(X) => NoLF(Y)
<1> DEFINE end == LineEnd(st.ending)
           Y == X \o end
<1>1. /\ end \in Seq(Symbols) /\ Len(end) = EndLen(st) /\ end[1] = Mark(FirstEnd(st))
      /\ st.ending = "CRLF" => end[2] = Mark("LF")
      /\ st.ending = "CR" => NoLF(end)
      /\ EndLen(st) \in {1, 2}
  BY EndingOK
<1> HIDE DEF end
<1>2. /\ Y \in Seq(Symbols) /\ Len(Y) = Len(X) + Len(end) /\ Len(X) \in Nat
      /\ \A i \in 1..Len(end) : Y[Len(X) + i] = end[i]
  BY <1>1, Joined
<1>3. st.ending = "CR" /\ NoLF(X) => NoLF(Y)
  BY <1>1, NoLFJoined
<1> HIDE DEF Y
<1>4. Y[Len(X) + 0 + 1] = Mark(FirstEnd(st))
  BY <1>1, <1>2
<1>5. st.ending = "CRLF" => Y[Len(X) + 0 + 2] = Mark("LF")
  <2>1. st.ending = "CRLF" => 2 \in 1..Len(end)
    BY <1>1 DEF EndLen
  <2> QED BY <1>1, <1>2, <2>1
<1>6. Lays(Y, Len(X), 0, body, st)
  BY <1>1, <1>2, <1>4, <1>5 DEF Lays
<1> QED BY <1>1, <1>2, <1>3, <1>6 DEF Y, end

\* A line with one symbol, behind X.
LEMMA OneLine ==
  ASSUME NEW X \in Seq(Symbols), NEW b \in Symbols, NEW st \in Styles, b.s # "LF"
  PROVE  LET Y == (X \o <<b>>) \o LineEnd(st.ending)
         IN  /\ Y \in Seq(Symbols) /\ Len(Y) = Len(X) + 1 + EndLen(st)
             /\ Lays(Y, Len(X), 1, b, st)
             /\ st.ending = "CR" /\ NoLF(X) => NoLF(Y)
<1> DEFINE B == <<b>>
<1>1. B \in Seq(Symbols) /\ Len(B) = 1 /\ B[1] = b
  BY Singleton
<1>2. \A q \in 1..Len(B) : B[q] = b
  BY <1>1
<1> HIDE DEF B
<1>3. \A body : body.s # "LF" /\ (\A q \in 1..Len(B) : B[q] = body) =>
        LET Y == (X \o B) \o LineEnd(st.ending)
        IN  /\ Y \in Seq(Symbols) /\ Len(Y) = Len(X) + Len(B) + EndLen(st)
            /\ Lays(Y, Len(X), Len(B), body, st)
            /\ st.ending = "CR" /\ NoLF(X) => NoLF(Y)
  BY <1>1, NewLine, Zenon
<1> DEFINE Y == (X \o B) \o LineEnd(st.ending)
<1>4. /\ Y \in Seq(Symbols) /\ Len(Y) = Len(X) + Len(B) + EndLen(st)
      /\ Lays(Y, Len(X), Len(B), b, st)
      /\ st.ending = "CR" /\ NoLF(X) => NoLF(Y)
  BY <1>2, <1>3, Zenon
<1> HIDE DEF Y
<1>5. /\ Y \in Seq(Symbols) /\ Len(Y) = Len(X) + 1 + EndLen(st)
      /\ Lays(Y, Len(X), 1, b, st)
      /\ st.ending = "CR" /\ NoLF(X) => NoLF(Y)
  BY <1>1, <1>4
<1> QED BY <1>5 DEF Y, B

LEMMA SymbolsOf ==
  ASSUME NEW s \in {"name", "data", "head", "tail"}, NEW e \in Documents
  PROVE  Sym(s, e) \in Symbols /\ Sym(s, e).s = s /\ Sym(s, e).s # "LF" /\ Sym(s, e).e = e
BY DEF Sym, Symbols, Marks

LEMMA NothingLF == NoLF(<<>>)
BY DEF NoLF

\* Encode writes one data line and a blank one ...
LEMMA ShortEvent ==
  ASSUME NEW e \in Documents, NEW st \in Styles, ~(st.long /\ e.type # "done"), NEW body
  PROVE  LET C == Encode(e, st)
             n == 1 + EndLen(st)
         IN  /\ C \in Seq(Symbols) /\ Len(C) = n + EndLen(st)
             /\ Lays(C, 0, 1, Sym("data", e), st) /\ Lays(C, n, 0, body, st)
             /\ st.ending = "CR" => NoLF(C)
<1> DEFINE end == LineEnd(st.ending)
           d == Sym("data", e)
           Y == <<d>> \o end
           C == Y \o end
           n == 1 + EndLen(st)
<1>1. d \in Symbols /\ d.s # "LF" /\ end \in Seq(Symbols) /\ EndLen(st) \in {1, 2}
  BY SymbolsOf, EndingOK
<1>2. (<< >> \o <<d>>) \o end = Y
  <2>1. <<d>> \in Seq(Symbols)
    BY <1>1, Singleton
  <2>2. << >> \o <<d>> = <<d>>
    BY <2>1, ConcatEmptySeq
  <2> QED BY <2>2
<1> HIDE DEF d
<1>3. Len(<< >>) = 0 /\ << >> \in Seq(Symbols)
  BY Vocabulary
<1>4. /\ (<< >> \o <<d>>) \o end \in Seq(Symbols)
      /\ Len((<< >> \o <<d>>) \o end) = Len(<< >>) + 1 + EndLen(st)
      /\ Lays((<< >> \o <<d>>) \o end, Len(<< >>), 1, d, st)
      /\ st.ending = "CR" /\ NoLF(<< >>) => NoLF((<< >> \o <<d>>) \o end)
  BY <1>1, <1>3, OneLine
<1>5. /\ Y \in Seq(Symbols) /\ Len(Y) = n /\ Lays(Y, 0, 1, d, st)
      /\ st.ending = "CR" => NoLF(Y)
  <2>1. 0 + 1 + EndLen(st) = n
    BY <1>1
  <2> HIDE DEF Y
  <2> QED BY <1>2, <1>3, <1>4, <2>1, NothingLF
<1> HIDE DEF Y
<1>6. /\ C \in Seq(Symbols) /\ Len(C) = Len(Y) + EndLen(st)
      /\ Lays(C, Len(Y), 0, body, st)
      /\ st.ending = "CR" /\ NoLF(Y) => NoLF(C)
  BY <1>5, BareLine
<1>7. Lays(C, 0, 1, d, st)
  BY <1>1, <1>5, LaysKept
<1>8. Encode(e, st) = C
  BY DEF Encode, C, Y, d
<1> HIDE DEF C
<1> QED BY <1>5, <1>6, <1>7, <1>8 DEF d

\* ... or its name, two halves of its document and a blank line.
LEMMA LongEvent ==
  ASSUME NEW e \in Documents, NEW st \in Styles, st.long /\ e.type # "done", NEW body
  PROVE  LET C == Encode(e, st)
             n == 1 + EndLen(st)
         IN  /\ C \in Seq(Symbols) /\ Len(C) = 3 * n + EndLen(st)
             /\ Lays(C, 0, 1, Sym("name", e), st) /\ Lays(C, n, 1, Sym("head", e), st)
             /\ Lays(C, 2 * n, 1, Sym("tail", e), st) /\ Lays(C, 3 * n, 0, body, st)
             /\ st.ending = "CR" => NoLF(C)
<1> DEFINE end == LineEnd(st.ending)
           a == Sym("name", e)
           h == Sym("head", e)
           t == Sym("tail", e)
           X == <<a>> \o end
           Y == (X \o <<h>>) \o end
           Z == (Y \o <<t>>) \o end
           C == Z \o end
           n == 1 + EndLen(st)
<1>1. /\ a \in Symbols /\ a.s # "LF" /\ h \in Symbols /\ h.s # "LF"
      /\ t \in Symbols /\ t.s # "LF"
      /\ end \in Seq(Symbols) /\ EndLen(st) \in {1, 2}
  BY SymbolsOf, EndingOK
<1>2. Encode(e, st) = C
  BY DEF Encode
<1>3. (<< >> \o <<a>>) \o end = X
  <2>1. <<a>> \in Seq(Symbols)
    BY <1>1, Singleton
  <2>2. << >> \o <<a>> = <<a>>
    BY <2>1, ConcatEmptySeq
  <2> QED BY <2>2
<1> HIDE DEF a, h, t
<1>4. Len(<< >>) = 0 /\ << >> \in Seq(Symbols)
  BY Vocabulary
<1>5. /\ (<< >> \o <<a>>) \o end \in Seq(Symbols)
      /\ Len((<< >> \o <<a>>) \o end) = Len(<< >>) + 1 + EndLen(st)
      /\ Lays((<< >> \o <<a>>) \o end, Len(<< >>), 1, a, st)
      /\ st.ending = "CR" /\ NoLF(<< >>) => NoLF((<< >> \o <<a>>) \o end)
  BY <1>1, <1>4, OneLine
<1>6. /\ X \in Seq(Symbols) /\ Len(X) = n /\ Lays(X, 0, 1, a, st)
      /\ st.ending = "CR" => NoLF(X)
  <2>1. 0 + 1 + EndLen(st) = n
    BY <1>1
  <2> HIDE DEF X
  <2> QED BY <1>3, <1>4, <1>5, <2>1, NothingLF
<1> HIDE DEF X
<1>7. /\ Y \in Seq(Symbols) /\ Len(Y) = Len(X) + 1 + EndLen(st)
      /\ Lays(Y, Len(X), 1, h, st)
      /\ st.ending = "CR" /\ NoLF(X) => NoLF(Y)
  BY <1>1, <1>6, OneLine
<1>8. Lays(Y, 0, 1, a, st)
  <2>1. X \o <<h>> \in Seq(Symbols)
    BY <1>1, <1>6, Singleton, Joined
  <2>2. Lays(X \o <<h>>, 0, 1, a, st)
    BY <1>1, <1>6, Singleton, LaysKept
  <2> HIDE DEF Y
  <2> QED BY <2>1, <2>2, <1>1, LaysKept DEF Y
<1>9. Lays(Y, n, 1, h, st) /\ Len(Y) = 2 * n
  BY <1>1, <1>6, <1>7
<1> HIDE DEF Y
<1>10. /\ Z \in Seq(Symbols) /\ Len(Z) = Len(Y) + 1 + EndLen(st)
       /\ Lays(Z, Len(Y), 1, t, st)
       /\ st.ending = "CR" /\ NoLF(Y) => NoLF(Z)
  BY <1>1, <1>7, OneLine
<1>11. Lays(Z, 0, 1, a, st) /\ Lays(Z, n, 1, h, st)
  <2>1. Y \o <<t>> \in Seq(Symbols) /\ <<t>> \in Seq(Symbols) /\ n \in Nat
    BY <1>1, <1>7, Singleton, Joined
  <2>2. Lays(Y \o <<t>>, 0, 1, a, st) /\ Lays(Y \o <<t>>, n, 1, h, st)
    BY <1>7, <1>8, <1>9, <2>1, LaysKept
  <2> QED BY <2>1, <2>2, <1>1, LaysKept
<1>12. Lays(Z, 2 * n, 1, t, st) /\ Len(Z) = 3 * n
  BY <1>1, <1>9, <1>10
<1> HIDE DEF Z
<1>13. /\ C \in Seq(Symbols) /\ Len(C) = Len(Z) + EndLen(st)
       /\ Lays(C, Len(Z), 0, body, st)
       /\ st.ending = "CR" /\ NoLF(Z) => NoLF(C)
  BY <1>10, BareLine
<1>14. Lays(C, 0, 1, a, st) /\ Lays(C, n, 1, h, st) /\ Lays(C, 2 * n, 1, t, st)
  <2>1. n \in Nat /\ 2 * n \in Nat
    BY <1>1
  <2> HIDE DEF n
  <2> QED BY <1>1, <1>10, <1>11, <1>12, <2>1, LaysKept
<1> HIDE DEF C
<1> QED BY <1>6, <1>7, <1>2, <1>10, <1>12, <1>13, <1>14 DEF a, h, t

Preamble(w, st) == IF CommentLen(w, st) = 0 THEN 0 ELSE CommentLen(w, st) + EndLen(st)

LEMMA SizeOfComment ==
  ASSUME NEW w, NEW st \in Styles, Row(w, st)
  PROVE  /\ CommentLen(w, st) \in Nat /\ Preamble(w, st) \in Nat /\ EndLen(st) \in {1, 2}
         /\ w.e \in Documents
         /\ EventSize(w.e, st) = IF LongForm(w, st) THEN 6 ELSE 2
<1>1. w.size \in Nat /\ EventSize(w.e, st) = (IF LongForm(w, st) THEN 6 ELSE 2) /\ w.e \in Documents
  BY DEF Row, WireRow, EventSize, LongForm
<1>2. EndLen(st) \in {1, 2}
  BY DEF EndLen
<1>3. CommentLen(w, st) \in Nat
  BY <1>1 DEF Row, CommentLen
<1> QED BY <1>1, <1>2, <1>3 DEF Preamble

LEMMA Offsets ==
  ASSUME NEW w, NEW st \in Styles, Row(w, st)
  PROVE  /\ Offset(w, st, 1) = Preamble(w, st)
         /\ Offset(w, st, 2) = Preamble(w, st) + 1 + EndLen(st)
         /\ Offset(w, st, 3) = Preamble(w, st) + 2 * (1 + EndLen(st))
         /\ Offset(w, st, 4) = Preamble(w, st) + 3 * (1 + EndLen(st))
<1>1. Preamble(w, st) \in Nat /\ EndLen(st) \in {1, 2}
  BY SizeOfComment
<1> DEFINE c == Preamble(w, st)
<1>2. /\ Offset(w, st, 1) = c + 0 /\ Offset(w, st, 2) = c + (1 + EndLen(st))
      /\ Offset(w, st, 3) = c + 2 * (1 + EndLen(st))
      /\ Offset(w, st, 4) = c + 3 * (1 + EndLen(st))
  BY DEF Offset, Preamble
<1> HIDE DEF c
<1>3. c \in Nat
  BY <1>1 DEF c
<1>4. /\ Offset(w, st, 1) = c /\ Offset(w, st, 2) = c + 1 + EndLen(st)
      /\ Offset(w, st, 3) = c + 2 * (1 + EndLen(st))
      /\ Offset(w, st, 4) = c + 3 * (1 + EndLen(st))
  BY <1>1, <1>2, <1>3
<1> QED BY <1>4 DEF c

LEMMA Regroup ==
  ASSUME NEW o \in Int, NEW f \in Int, NEW l \in Int, NEW x \in Int, NEW y \in Int,
         o + f = l + x
  PROVE  l + (x + y) = o + (f + y)
OBVIOUS

\* The lines of an event behind whatever P was written before it.
LEMMA EventBehind ==
  ASSUME NEW w, NEW st \in Styles, Row(w, st), NEW P \in Seq(Symbols), NEW o \in Nat,
         Len(P) = o + Preamble(w, st)
  PROVE  LET T == P \o Encode(w.e, st)
         IN  /\ T \in Seq(Symbols) /\ Len(T) = o + EventLength(w, st)
             /\ \A t \in 1..BlankLine(w, st) :
                  Lays(T, o + Offset(w, st, t), BodyLen(w, st, t), Body(w, st, t), st)
             /\ st.ending = "CR" /\ NoLF(P) => NoLF(T)
<1> DEFINE C == Encode(w.e, st)
           T == P \o C
           n == 1 + EndLen(st)
<1>1. /\ CommentLen(w, st) \in Nat /\ Preamble(w, st) \in Nat
      /\ EndLen(st) \in {1, 2} /\ w.e \in Documents
  BY SizeOfComment
<1>2. /\ Offset(w, st, 1) = Preamble(w, st)
      /\ Offset(w, st, 2) = Preamble(w, st) + 1 + EndLen(st)
      /\ Offset(w, st, 3) = Preamble(w, st) + 2 * (1 + EndLen(st))
      /\ Offset(w, st, 4) = Preamble(w, st) + 3 * (1 + EndLen(st))
  BY Offsets
<1>3. o \in Nat /\ Len(P) = o + Preamble(w, st)
  OBVIOUS
<1>4. CASE LongForm(w, st)
  <2> DEFINE body == Body(w, st, 4)
  <2>1. /\ C \in Seq(Symbols) /\ Len(C) = 3 * n + EndLen(st)
        /\ Lays(C, 0, 1, Sym("name", w.e), st) /\ Lays(C, n, 1, Sym("head", w.e), st)
        /\ Lays(C, 2 * n, 1, Sym("tail", w.e), st) /\ Lays(C, 3 * n, 0, body, st)
        /\ st.ending = "CR" => NoLF(C)
    BY <1>1, <1>4, LongEvent DEF LongForm
  <2> HIDE DEF C, body
  <2>2. T \in Seq(Symbols) /\ Len(T) = Len(P) + Len(C) /\ (st.ending = "CR" /\ NoLF(P) => NoLF(T))
    BY <2>1, Joined, NoLFJoined
  <2>3. n \in Nat /\ 2 * n \in Nat /\ 3 * n \in Nat
    BY <1>1
  <2>4. /\ Lays(T, Len(P) + 0, 1, Sym("name", w.e), st)
        /\ Lays(T, Len(P) + n, 1, Sym("head", w.e), st)
        /\ Lays(T, Len(P) + 2 * n, 1, Sym("tail", w.e), st) /\ Lays(T, Len(P) + 3 * n, 0, body, st)
    <3> HIDE DEF n
    <3> QED BY <2>1, <2>3, LaysMoved
  <2>5. BlankLine(w, st) = 4
    BY <1>4 DEF BlankLine
  <2>6. /\ o + Offset(w, st, 1) = Len(P) + 0 /\ o + Offset(w, st, 2) = Len(P) + n
        /\ o + Offset(w, st, 3) = Len(P) + 2 * n /\ o + Offset(w, st, 4) = Len(P) + 3 * n
    <3>1. o + Offset(w, st, 1) = Len(P) + 0
      BY <1>3, Offsets
    <3>2. o + Offset(w, st, 2) = Len(P) + n
      BY <1>1, <1>2, <1>3
    <3>3. o + Offset(w, st, 3) = Len(P) + 2 * n
      BY <1>1, <1>2, <1>3
    <3>4. o + Offset(w, st, 4) = Len(P) + 3 * n
      BY <1>1, <1>2, <1>3
    <3> QED BY <3>1, <3>2, <3>3, <3>4
  <2>7. /\ BodyLen(w, st, 1) = 1 /\ BodyLen(w, st, 2) = 1 /\ BodyLen(w, st, 3) = 1
        /\ BodyLen(w, st, 4) = 0
    BY <2>5 DEF BodyLen
  <2>8. /\ Body(w, st, 1) = Sym("name", w.e) /\ Body(w, st, 2) = Sym("head", w.e)
        /\ Body(w, st, 3) = Sym("tail", w.e)
    BY <1>4 DEF Body
  <2>9. Len(T) = o + EventLength(w, st)
    <3>1. EventLength(w, st) = Offset(w, st, 4) + EndLen(st)
      BY <2>5 DEF EventLength
    <3> HIDE DEF T
    <3>2. Len(T) = Len(P) + Len(C) /\ Len(C) = 3 * n + EndLen(st)
      BY <2>1, <2>2
    <3>3. /\ Offset(w, st, 4) \in Int /\ o \in Int /\ Len(P) \in Int /\ 3 * n \in Int
          /\ EndLen(st) \in Int
      <4>1. Len(P) \in Nat
        BY LenProperties
      <4>2. EndLen(st) \in Nat /\ Preamble(w, st) \in Nat
        BY <1>1
      <4> QED BY <1>2, <4>1, <4>2
    <3>4. Len(P) + (3 * n + EndLen(st)) = o + (Offset(w, st, 4) + EndLen(st))
      <4> HIDE DEF n
      <4> QED BY <3>3, <2>6, Regroup
    <3> HIDE DEF n
    <3> QED BY ONLY <3>1, <3>2, <3>4
  <2> HIDE DEF T, n
  <2>10. \A t \in 1..4 :
            Lays(T, o + Offset(w, st, t), BodyLen(w, st, t), Body(w, st, t), st)
    <3> TAKE t \in 1..4
    <3>1. t \in {1, 2, 3, 4}
      OBVIOUS
    <3>2. CASE t = 1
      BY <3>2, <2>4, <2>6, <2>7, <2>8
    <3>3. CASE t = 2
      BY <3>3, <2>4, <2>6, <2>7, <2>8
    <3>4. CASE t = 3
      BY <3>4, <2>4, <2>6, <2>7, <2>8
    <3>5. CASE t = 4
      BY <3>5, <2>4, <2>6, <2>7 DEF body
    <3> QED BY <3>1, <3>2, <3>3, <3>4, <3>5
  <2> QED BY <2>2, <2>5, <2>9, <2>10 DEF T, C
<1>5. CASE ~LongForm(w, st)
  <2> DEFINE body == Body(w, st, 2)
  <2>1. /\ C \in Seq(Symbols) /\ Len(C) = n + EndLen(st)
        /\ Lays(C, 0, 1, Sym("data", w.e), st) /\ Lays(C, n, 0, body, st)
        /\ st.ending = "CR" => NoLF(C)
    BY <1>1, <1>5, ShortEvent DEF LongForm
  <2> HIDE DEF C, body
  <2>2. T \in Seq(Symbols) /\ Len(T) = Len(P) + Len(C) /\ (st.ending = "CR" /\ NoLF(P) => NoLF(T))
    BY <2>1, Joined, NoLFJoined
  <2>3. n \in Nat
    BY <1>1
  <2>4. Lays(T, Len(P) + 0, 1, Sym("data", w.e), st) /\ Lays(T, Len(P) + n, 0, body, st)
    <3> HIDE DEF n
    <3> QED BY <2>1, <2>3, LaysMoved
  <2>5. BlankLine(w, st) = 2
    BY <1>5 DEF BlankLine
  <2>6. o + Offset(w, st, 1) = Len(P) + 0 /\ o + Offset(w, st, 2) = Len(P) + n
    BY ONLY <1>1, <1>2, <1>3 DEF n
  <2>7. BodyLen(w, st, 1) = 1 /\ BodyLen(w, st, 2) = 0
    BY <2>5 DEF BodyLen
  <2>8. Body(w, st, 1) = Sym("data", w.e)
    BY <1>5 DEF Body
  <2>9. Len(T) = o + EventLength(w, st)
    <3>1. EventLength(w, st) = Offset(w, st, 2) + EndLen(st)
      BY <2>5 DEF EventLength
    <3> HIDE DEF T
    <3>2. Len(T) = Len(P) + Len(C) /\ Len(C) = n + EndLen(st)
      BY <2>1, <2>2
    <3>3. /\ Offset(w, st, 2) \in Int /\ o \in Int /\ Len(P) \in Int /\ n \in Int
          /\ EndLen(st) \in Int
      <4>1. EndLen(st) \in Int /\ o \in Int /\ n \in Int
        BY <1>1
      <4>2. Offset(w, st, 2) = Preamble(w, st) + 1 + EndLen(st)
        BY <1>2
      <4>3. Offset(w, st, 2) \in Int
        BY ONLY <1>1, <4>1, <4>2
      <4>4. Len(P) \in Int
        BY <1>1, <1>3
      <4> QED BY <4>1, <4>3, <4>4
    <3>4. Len(P) + (n + EndLen(st)) = o + (Offset(w, st, 2) + EndLen(st))
      <4> HIDE DEF n
      <4>1. o + Offset(w, st, 2) = Len(P) + n
        BY <2>6
      <4> QED BY ONLY <3>3, <4>1, Regroup
    <3> HIDE DEF n
    <3> QED BY ONLY <3>1, <3>2, <3>4
  <2> HIDE DEF T, n
  <2>10. \A t \in 1..2 :
            Lays(T, o + Offset(w, st, t), BodyLen(w, st, t), Body(w, st, t), st)
    <3> TAKE t \in 1..2
    <3>1. t \in {1, 2}
      OBVIOUS
    <3>2. CASE t = 1
      BY <3>2, <2>4, <2>6, <2>7, <2>8
    <3>3. CASE t = 2
      BY <3>3, <2>4, <2>6, <2>7 DEF body
    <3> QED BY <3>1, <3>2, <3>3
  <2> QED BY <2>2, <2>5, <2>9, <2>10 DEF T, C
<1> QED BY <1>4, <1>5

LEMMA NewEvent ==
  ASSUME NEW w \in WireRow, NEW st \in Styles, w.size = EventSize(w.e, st),
         NEW T \in Seq(Symbols)
  PROVE  LET U == T \o Encode(w.e, st)
         IN  /\ Row(w, st) /\ LaidOut(U, Len(T), w, st)
             /\ U \in Seq(Symbols) /\ Len(U) = Len(T) + EventLength(w, st)
             /\ st.ending = "CR" /\ NoLF(T) => NoLF(U)
<1>1. Row(w, st)
  BY DEF Row
<1>2. CommentLen(w, st) = 0 /\ Preamble(w, st) = 0 /\ FirstLine(w, st) = 1
  BY DEF CommentLen, Preamble, FirstLine
<1>3. Len(T) \in Nat /\ Len(T) = Len(T) + Preamble(w, st)
  BY <1>2, LenProperties
<1> QED BY <1>1, <1>2, <1>3, EventBehind DEF LaidOut

LEMMA CommentedEvent ==
  ASSUME NEW w \in WireRow, NEW st \in Styles, NEW n \in Nat \ {0},
         w.size = n + 1 + EventSize(w.e, st)
  PROVE  LET U == [i \in 1..n |-> Mark("comment")] \o LineEnd(st.ending) \o Encode(w.e, st)
         IN  /\ Row(w, st) /\ LaidOut(U, 0, w, st)
             /\ U \in Seq(Symbols) /\ Len(U) = EventLength(w, st)
             /\ st.ending = "CR" => NoLF(U)
<1> DEFINE B == [i \in 1..n |-> Mark("comment")]
           P == B \o LineEnd(st.ending)
           U == P \o Encode(w.e, st)
<1>1. EventSize(w.e, st) \in Nat
  BY DEF EventSize
<1>2. Row(w, st)
  BY <1>1 DEF Row
<1>3. CommentLen(w, st) = n /\ FirstLine(w, st) = 0 /\ Preamble(w, st) = n + EndLen(st)
  BY <1>1 DEF CommentLen, FirstLine, Preamble
<1>4. Mark("comment") \in Symbols /\ Mark("comment").s # "LF"
  BY JunkOK DEF Mark, Sym, Symbols, Marks
<1>5. B \in Seq(Symbols) /\ Len(B) = n /\ \A q \in 1..Len(B) : B[q] = Mark("comment")
  BY <1>4
<1> HIDE DEF B
<1>6. << >> \o B = B /\ << >> \in Seq(Symbols) /\ Len(<< >>) = 0
  BY <1>5, ConcatEmptySeq, Vocabulary
<1>7. /\ (<< >> \o B) \o LineEnd(st.ending) \in Seq(Symbols)
      /\ Len((<< >> \o B) \o LineEnd(st.ending)) = Len(<< >>) + Len(B) + EndLen(st)
      /\ Lays((<< >> \o B) \o LineEnd(st.ending), Len(<< >>), Len(B), Mark("comment"), st)
      /\ st.ending = "CR" /\ NoLF(<< >>) => NoLF((<< >> \o B) \o LineEnd(st.ending))
  <2>1. \A body : body.s # "LF" /\ (\A q \in 1..Len(B) : B[q] = body) =>
          LET Y == (<< >> \o B) \o LineEnd(st.ending)
          IN  /\ Y \in Seq(Symbols) /\ Len(Y) = Len(<< >>) + Len(B) + EndLen(st)
              /\ Lays(Y, Len(<< >>), Len(B), body, st)
              /\ st.ending = "CR" /\ NoLF(<< >>) => NoLF(Y)
    BY <1>5, <1>6, NewLine, Zenon
  <2> QED BY <1>4, <1>5, <2>1, Zenon
<1>8. /\ P \in Seq(Symbols) /\ Len(P) = 0 + Preamble(w, st) /\ Lays(P, 0, n, Mark("comment"), st)
      /\ st.ending = "CR" => NoLF(P)
  <2>1. EndLen(st) \in {1, 2}
    BY EndingOK
  <2>2. P = (<< >> \o B) \o LineEnd(st.ending)
    BY <1>6
  <2> HIDE DEF P
  <2> QED BY <1>3, <1>5, <1>6, <1>7, <2>1, <2>2, NothingLF
<1> HIDE DEF P
<1>9. /\ U \in Seq(Symbols) /\ Len(U) = 0 + EventLength(w, st)
      /\ \A t \in 1..BlankLine(w, st) :
            Lays(U, 0 + Offset(w, st, t), BodyLen(w, st, t), Body(w, st, t), st)
      /\ st.ending = "CR" /\ NoLF(P) => NoLF(U)
  BY <1>2, <1>8, EventBehind
<1>10. Lays(U, 0, n, Mark("comment"), st)
  BY <1>8, LaysKept, EncodeOK DEF WireRow, Styles
<1> HIDE DEF U
<1>11. ASSUME NEW t \in 0..BlankLine(w, st)
       PROVE  Lays(U, 0 + Offset(w, st, t), BodyLen(w, st, t), Body(w, st, t), st)
  <2>1. CASE t = 0
    <3>1. 0 + Offset(w, st, t) = 0 /\ BodyLen(w, st, t) = n /\ Body(w, st, t) = Mark("comment")
      BY <2>1, <1>3 DEF Offset, BodyLen, Body
    <3> QED BY <3>1, <1>10
  <2>2. CASE t # 0
    <3>1. t \in 1..BlankLine(w, st)
      BY <2>2 DEF BlankLine
    <3> QED BY <3>1, <1>9
  <2> QED BY <2>1, <2>2
<1>12. EventLength(w, st) \in Nat
  <2>1. BlankLine(w, st) \in FirstLine(w, st)..BlankLine(w, st)
    BY <1>3 DEF BlankLine
  <2> QED BY <1>2, <2>1, Geometry
<1>13. LaidOut(U, 0, w, st)
  BY <1>3, <1>11 DEF LaidOut
<1>14. Len(U) = EventLength(w, st)
  BY <1>9, <1>12
<1> QED BY <1>2, <1>8, <1>9, <1>13, <1>14 DEF U, P, B

LEMMA LaidOutKept ==
  ASSUME NEW T \in Seq(Symbols), NEW U \in Seq(Symbols), NEW st \in Styles, NEW w,
         Row(w, st), NEW o \in Nat, LaidOut(T, o, w, st)
  PROVE  LaidOut(T \o U, o, w, st)
<1> SUFFICES ASSUME NEW t \in FirstLine(w, st)..BlankLine(w, st)
             PROVE  Lays(T \o U, o + Offset(w, st, t), BodyLen(w, st, t), Body(w, st, t), st)
  BY DEF LaidOut
<1>1. Offset(w, st, t) \in Nat /\ BodyLen(w, st, t) \in Nat
  BY Geometry
<1>2. o + Offset(w, st, t) \in Nat
  BY <1>1
<1>3. Lays(T, o + Offset(w, st, t), BodyLen(w, st, t), Body(w, st, t), st)
  BY DEF LaidOut
<1> QED BY <1>1, <1>2, <1>3, LaysKept

LEMMA UpToOK ==
  ASSUME NEW ws \in Seq(WireRow), NEW k \in 0..Len(ws)
  PROVE  UpTo(ws, k) \in Nat
<1>1. Len(ws) \in Nat
  BY LenProperties
<1>2. k # 0 => ws[k] \in WireRow
  BY <1>1
<1> QED BY <1>2 DEF UpTo, WireRow

\* The Provider writes one more event.
LEMMA SentMore ==
  ASSUME NEW T, NEW ws, NEW st \in Styles, NEW p, Sent(T, ws, st, p), NEW w \in WireRow,
         w.e \in Opening(p) \cup Closing(p), w.size = EventSize(w.e, st),
         w.upto = UpTo(ws, Len(ws)) + Len(Encode(w.e, st)),
         ws # <<>> => ws[Len(ws)].e \notin Closing(p)
  PROVE  Sent(T \o Encode(w.e, st), Append(ws, w), st, p)
<1> DEFINE C == Encode(w.e, st)
           U == T \o C
           vs == Append(ws, w)
<1>1. /\ T \in Seq(Symbols) /\ ws \in Seq(WireRow) /\ Len(T) = UpTo(ws, Len(ws))
      /\ \A i \in 1..Len(ws) : EventOnWire(T, ws, st, p, i)
      /\ st.ending = "CR" => NoLF(T)
  BY DEF Sent
<1>2. Len(ws) \in Nat
  BY <1>1, LenProperties
<1>3. /\ vs \in Seq(WireRow) /\ Len(vs) = Len(ws) + 1 /\ vs[Len(ws) + 1] = w
      /\ \A i \in 1..Len(ws) : vs[i] = ws[i]
  BY <1>1, AppendProperties
<1>4. /\ Row(w, st) /\ LaidOut(U, Len(T), w, st)
      /\ U \in Seq(Symbols) /\ Len(U) = Len(T) + EventLength(w, st)
      /\ st.ending = "CR" /\ NoLF(T) => NoLF(U)
  BY <1>1, NewEvent
<1>5. C \in Seq(Symbols) /\ Len(U) = Len(T) + Len(C)
  <2>1. C \in Seq(Symbols)
    BY EncodeOK DEF Styles, WireRow
  <2> HIDE DEF C
  <2> QED BY <2>1, <1>1, Joined
<1> HIDE DEF C, vs
<1>6. \A i \in 0..Len(ws) : UpTo(vs, i) = UpTo(ws, i)
  BY <1>2, <1>3 DEF UpTo
<1>7. Len(U) = UpTo(vs, Len(vs))
  BY <1>1, <1>2, <1>3, <1>5 DEF UpTo, C
<1>8. ASSUME NEW i \in 1..Len(vs) PROVE EventOnWire(U, vs, st, p, i)
  <2>1. CASE i = Len(ws) + 1
    <3>1. i - 1 = Len(ws) /\ i - 1 \in 0..Len(ws) /\ ~(i < Len(vs)) /\ vs[i] = w
      BY <2>1, <1>2, <1>3
    <3>2. UpTo(vs, i - 1) = Len(T)
      BY <3>1, <1>1, <1>6
    <3>3. w.upto = UpTo(vs, i - 1) + EventLength(w, st)
      <4>1. w.upto = Len(T) + Len(C)
        BY <1>1 DEF C
      <4> QED BY <4>1, <1>4, <1>5, <3>2
    <3> HIDE DEF U
    <3> QED BY <3>1, <3>2, <3>3, <1>4 DEF EventOnWire
  <2>2. CASE i # Len(ws) + 1
    <3>1. i \in 1..Len(ws) /\ i - 1 \in 0..Len(ws) /\ vs[i] = ws[i]
      BY <2>2, <1>2, <1>3
    <3>2. EventOnWire(T, ws, st, p, i)
      BY <3>1, <1>1
    <3>3. UpTo(vs, i - 1) = UpTo(ws, i - 1) /\ UpTo(ws, i - 1) \in Nat
      BY <3>1, <1>1, <1>6, UpToOK
    <3>4. LaidOut(U, UpTo(ws, i - 1), ws[i], st)
      BY <3>2, <3>3, <1>1, <1>5, LaidOutKept DEF EventOnWire
    <3>5. ws[i].e \notin Closing(p)
      <4>1. CASE i = Len(ws)
        <5>1. ws # << >>
          BY <3>1, <1>2, <4>1
        <5> QED BY <4>1, <5>1
      <4>2. CASE i # Len(ws)
        <5>1. i < Len(ws)
          BY <3>1, <4>2, <1>2
        <5> QED BY <3>2, <5>1 DEF EventOnWire
      <4> QED BY <4>1, <4>2
    <3> HIDE DEF U
    <3> QED BY <3>1, <3>2, <3>3, <3>4, <3>5 DEF EventOnWire
  <2> QED BY <2>1, <2>2
<1>9. st.ending = "CR" => NoLF(U)
  BY <1>1, <1>4
<1> HIDE DEF U
<1>10. Sent(U, vs, st, p)
  BY <1>3, <1>4, <1>7, <1>8, <1>9 DEF Sent
<1> QED BY <1>10 DEF U, C, vs

LEMMA SentComment ==
  ASSUME NEW st \in Styles, NEW p, NEW w \in WireRow, NEW n \in Nat \ {0},
         w.e \in Opening(p) \cup Closing(p), w.size = n + 1 + EventSize(w.e, st),
         NEW U, U = [i \in 1..n |-> Mark("comment")] \o LineEnd(st.ending) \o Encode(w.e, st),
         w.upto = Len(U)
  PROVE  Sent(U, <<w>>, st, p)
<1>1. /\ Row(w, st) /\ LaidOut(U, 0, w, st)
      /\ U \in Seq(Symbols) /\ Len(U) = EventLength(w, st)
      /\ st.ending = "CR" => NoLF(U)
  BY CommentedEvent
<1> DEFINE vs == <<w>>
<1>2. vs \in Seq(WireRow) /\ Len(vs) = 1 /\ vs[1] = w
  OBVIOUS
<1> HIDE DEF vs
<1>3. Len(U) \in Nat
  BY <1>1, LenProperties
<1>4. UpTo(vs, 0) = 0 /\ UpTo(vs, 1) = w.upto
  BY <1>2 DEF UpTo
<1>5. ASSUME NEW i \in 1..Len(vs) PROVE EventOnWire(U, vs, st, p, i)
  <2>1. i = 1 /\ i - 1 = 0 /\ ~(i < Len(vs)) /\ vs[i] = w
    BY <1>2
  <2>2. w.upto = UpTo(vs, i - 1) + EventLength(w, st)
    BY <1>1, <1>3, <1>4, <2>1
  <2> QED BY <2>1, <2>2, <1>1, <1>4 DEF EventOnWire
<1>6. Len(U) = UpTo(vs, Len(vs))
  BY <1>2, <1>4
<1>7. Sent(U, vs, st, p)
  BY <1>1, <1>2, <1>5, <1>6 DEF Sent
<1> QED BY <1>7 DEF vs

-----------------------------------------------------------------------------
(***************************************************************************)
(* What was understood: the accumulator a after the first k events.        *)
(***************************************************************************)
SpeakingIn(ws, k) ==
    {i \in 1..k : ws[i].e.text # <<>> /\ ws[i].e.type # "completed"}

Says(ws, k, text) ==
    \E at \in [1..Len(text) -> SpeakingIn(ws, k)] :
        /\ \A m, n \in 1..Len(text) : m < n => at[m] < at[n]
        /\ \A i \in SpeakingIn(ws, k) : \E n \in 1..Len(text) : at[n] = i
        /\ \A n \in 1..Len(text) : text[n] = ws[at[n]].e.text[1]

ReportsIn(p, e)  == IF p = "messages" THEN e.in # NoCount ELSE Reports(e)
ReportsOut(p, e) == IF p = "messages" THEN e.out # NoCount ELSE Reports(e)

LastIn(ws, k, p, x) ==
    \/ x = NoCount /\ \A i \in 1..k : ~ReportsIn(p, ws[i].e)
    \/ \E i \in 1..k : /\ ReportsIn(p, ws[i].e) /\ x = ws[i].e.in
                       /\ \A j \in (i + 1)..k : ~ReportsIn(p, ws[j].e)

LastOut(ws, k, p, x) ==
    \/ x = NoCount /\ \A i \in 1..k : ~ReportsOut(p, ws[i].e)
    \/ \E i \in 1..k : /\ ReportsOut(p, ws[i].e) /\ x = ws[i].e.out
                       /\ \A j \in (i + 1)..k : ~ReportsOut(p, ws[j].e)

\* One id and one finish reason: a's.
KeepsId(ws, k, id) ==
    /\ \A i \in 1..k : ws[i].e.id \in {"", id}
    /\ id # "" => \E i \in 1..k : ws[i].e.id = id

KeepsFinish(ws, k, finish) ==
    /\ \A i \in 1..k : ws[i].e.finish \in {"", finish}
    /\ finish # "" => \E i \in 1..k : ws[i].e.finish = finish

\* A Messages stream has its start event first and only there.
StartsOnce(ws, k, p, started) ==
    p = "messages" => /\ started = (k > 0)
                      /\ \A i \in 1..k : ws[i].e.type = "start" <=> i = 1

Told(ws, k, p, a) ==
    /\ a.error = "" /\ a.done = FALSE
    /\ \A i \in 1..k : ws[i].e \in Opening(p)
    /\ KeepsId(ws, k, a.id) /\ KeepsFinish(ws, k, a.finish)
    /\ StartsOnce(ws, k, p, a.started)
    /\ Says(ws, k, a.text)
    /\ LastIn(ws, k, p, a.in) /\ LastOut(ws, k, p, a.out)

-----------------------------------------------------------------------------
LEMMA SaysSame ==
  ASSUME NEW ws, NEW vs, NEW k \in Nat, \A i \in 1..k : ws[i] = vs[i], NEW text, Says(ws, k, text)
  PROVE  Says(vs, k, text)
<1>1. SpeakingIn(ws, k) = SpeakingIn(vs, k)
  BY DEF SpeakingIn
<1>2. PICK at \in [1..Len(text) -> SpeakingIn(ws, k)] :
        /\ \A m, n \in 1..Len(text) : m < n => at[m] < at[n]
        /\ \A i \in SpeakingIn(ws, k) : \E n \in 1..Len(text) : at[n] = i
        /\ \A n \in 1..Len(text) : text[n] = ws[at[n]].e.text[1]
  BY DEF Says
<1>3. \A n \in 1..Len(text) : text[n] = vs[at[n]].e.text[1]
  <2> TAKE n \in 1..Len(text)
  <2>1. at[n] \in 1..k
    BY <1>2 DEF SpeakingIn
  <2> QED BY <1>2, <2>1
<1> QED BY <1>1, <1>2, <1>3 DEF Says

LEMMA SaysStays ==
  ASSUME NEW ws, NEW k \in Nat, NEW text, Says(ws, k, text),
         ws[k + 1].e.text = <<>> \/ ws[k + 1].e.type = "completed"
  PROVE  Says(ws, k + 1, text)
<1>1. SpeakingIn(ws, k + 1) = SpeakingIn(ws, k)
  BY DEF SpeakingIn
<1> QED BY <1>1, Zenon DEF Says

LEMMA SaysMore ==
  ASSUME NEW ws, NEW k \in Nat, NEW text \in Seq(Names), Says(ws, k, text), NEW c \in Names,
         ws[k + 1].e.text = <<c>>, ws[k + 1].e.type # "completed"
  PROVE  Says(ws, k + 1, text \o <<c>>)
<1> DEFINE new == text \o <<c>>
           N == Len(text)
<1>1. PICK at \in [1..Len(text) -> SpeakingIn(ws, k)] :
        /\ \A m, n \in 1..Len(text) : m < n => at[m] < at[n]
        /\ \A i \in SpeakingIn(ws, k) : \E n \in 1..Len(text) : at[n] = i
        /\ \A n \in 1..Len(text) : text[n] = ws[at[n]].e.text[1]
  BY DEF Says
<1>2. N \in Nat
  BY LenProperties
<1>3. Len(new) = N + 1 /\ new[N + 1] = c /\ \A n \in 1..N : new[n] = text[n]
  <2>1. <<c>> \in Seq(Names) /\ Len(<<c>>) = 1 /\ <<c>>[1] = c
    OBVIOUS
  <2> QED BY <1>2, <2>1, ConcatProperties
<1> HIDE DEF new, N
<1>4. ws[k + 1].e.text # <<>> /\ ws[k + 1].e.text[1] = c
  OBVIOUS
<1>5. SpeakingIn(ws, k + 1) = SpeakingIn(ws, k) \cup {k + 1}
  <2> DEFINE Speaks(i) == ws[i].e.text # <<>> /\ ws[i].e.type # "completed"
  <2>1. Speaks(k + 1)
    BY <1>4
  <2>2. /\ SpeakingIn(ws, k) = {i \in 1..k : Speaks(i)}
        /\ SpeakingIn(ws, k + 1) = {i \in 1..(k + 1) : Speaks(i)}
    BY DEF SpeakingIn
  <2>3. 1..(k + 1) = (1..k) \cup {k + 1}
    OBVIOUS
  <2> HIDE DEF Speaks
  <2> QED BY <2>1, <2>2, <2>3, Zenon
<1>6. \A i \in SpeakingIn(ws, k) : i \in 1..k
  BY DEF SpeakingIn
<1> DEFINE S == SpeakingIn(ws, k)
           to == [n \in 1..(N + 1) |-> IF n <= N THEN at[n] ELSE k + 1]
<1>7. at \in [1..N -> S]
  BY <1>1 DEF N
<1> HIDE DEF S
<1>8. to \in [1..(N + 1) -> S \cup {k + 1}]
  BY <1>2, <1>7
<1>9. \A m, n \in 1..(N + 1) : m < n => to[m] < to[n]
  <2> TAKE m, n \in 1..(N + 1)
  <2> HAVE m < n
  <2>1. m \in 1..N /\ to[m] = at[m] /\ at[m] \in S
    BY <1>2, <1>7
  <2>2. at[m] \in 1..k
    BY <2>1, <1>6 DEF S
  <2>3. CASE n \in 1..N
    <3>1. to[n] = at[n] /\ at[m] < at[n]
      BY <2>1, <2>3, <1>1, <1>2 DEF N
    <3> QED BY <2>1, <3>1
  <2>4. CASE n \notin 1..N
    <3>1. to[n] = k + 1
      BY <2>4, <1>2
    <3> QED BY <2>1, <2>2, <3>1
  <2> QED BY <2>3, <2>4
<1>10. \A i \in S \cup {k + 1} : \E n \in 1..(N + 1) : to[n] = i
  <2> TAKE i \in S \cup {k + 1}
  <2>1. CASE i = k + 1
    BY <1>2, <2>1
  <2>2. CASE i \in S
    <3>1. PICK n \in 1..N : at[n] = i
      BY <2>2, <1>1 DEF S, N
    <3> QED BY <3>1, <1>2
  <2> QED BY <2>1, <2>2
<1>11. \A n \in 1..(N + 1) : new[n] = ws[to[n]].e.text[1]
  <2> TAKE n \in 1..(N + 1)
  <2>1. CASE n \in 1..N
    <3>1. to[n] = at[n] /\ new[n] = text[n] /\ text[n] = ws[at[n]].e.text[1]
      BY <2>1, <1>1, <1>2, <1>3 DEF N
    <3> QED BY <3>1
  <2>2. CASE n \notin 1..N
    <3>1. to[n] = k + 1 /\ n = N + 1
      BY <2>2, <1>2
    <3> QED BY <3>1, <1>3, <1>4
  <2> QED BY <2>1, <2>2
<1> HIDE DEF to
<1>12. Says(ws, k + 1, new)
  <2>1. SpeakingIn(ws, k + 1) = S \cup {k + 1}
    BY <1>5 DEF S
  <2>2. /\ to \in [1..Len(new) -> SpeakingIn(ws, k + 1)]
        /\ \A m, n \in 1..Len(new) : m < n => to[m] < to[n]
        /\ \A i \in SpeakingIn(ws, k + 1) : \E n \in 1..Len(new) : to[n] = i
        /\ \A n \in 1..Len(new) : new[n] = ws[to[n]].e.text[1]
    BY <2>1, <1>3, <1>8, <1>9, <1>10, <1>11, Zenon
  <2> QED BY <2>2, Zenon DEF Says
<1> QED BY <1>12 DEF new

LEMMA SaysCount ==
  ASSUME NEW ws, NEW k \in Nat, NEW text, Len(text) \in Nat, Says(ws, k, text)
  PROVE  /\ IsFiniteSet(SpeakingIn(ws, k)) /\ Cardinality(SpeakingIn(ws, k)) \in Nat
         /\ Len(text) <= Cardinality(SpeakingIn(ws, k))
<1> DEFINE S == SpeakingIn(ws, k)
           N == Len(text)
<1>1. PICK at \in [1..N -> S] : \A m, n \in 1..N : m < n => at[m] < at[n]
  BY DEF Says
<1>2. IsFiniteSet(S)
  <2>1. IsFiniteSet(1..k) /\ S \in SUBSET (1..k)
    BY FS_Interval DEF SpeakingIn
  <2> QED BY <2>1, FS_Subset
<1>3. \A i \in S : i \in Nat
  BY DEF SpeakingIn
<1> HIDE DEF S, N
<1>4. at \in Injection(1..N, S)
  <2>1. ASSUME NEW m \in 1..N, NEW n \in 1..N, at[m] = at[n] PROVE m = n
    <3>1. at[m] \in Nat /\ at[n] \in Nat
      BY <1>1, <1>3
    <3>2. ~(m < n) /\ ~(n < m)
      BY <1>1, <2>1, <3>1
    <3> QED BY <3>2
  <2> QED BY <1>1, <2>1 DEF Injection, IsInjective
<1>5. Cardinality(1..N) = N
  <2>1. N \in Nat
    BY DEF N
  <2>2. Cardinality(1..N) = IF 1 > N THEN 0 ELSE N - 1 + 1
    BY <2>1, FS_Interval
  <2> QED BY ONLY <2>1, <2>2
<1>6. Cardinality(1..N) <= Cardinality(S)
  BY <1>2, <1>4, FS_Injection
<1>7. Cardinality(S) \in Nat
  BY <1>2, FS_CardinalityType
<1> QED BY <1>2, <1>5, <1>6, <1>7 DEF S, N

\* No text without an event that speaks, and none of those forgotten.
LEMMA SaysNothing ==
  ASSUME NEW ws, NEW k \in Nat, NEW text \in Seq(Names), Says(ws, k, text)
  PROVE  text = <<>> <=> SpeakingIn(ws, k) = {}
<1> DEFINE S == SpeakingIn(ws, k)
<1>1. PICK at \in [1..Len(text) -> S] : \A i \in S : \E n \in 1..Len(text) : at[n] = i
  BY DEF Says
<1>2. Len(text) \in Nat
  BY LenProperties
<1> HIDE DEF S
<1>3. ASSUME text = <<>> PROVE S = {}
  BY <1>1, <1>3
<1>4. ASSUME S = {} PROVE text = <<>>
  <2>1. ~(1 \in 1..Len(text))
    BY <1>1, <1>4
  <2>2. Len(text) = 0
    BY <2>1, <1>2
  <2> QED BY <2>2
<1> QED BY <1>3, <1>4 DEF S

LEMMA LastInStep ==
  ASSUME NEW ws, NEW k \in Nat, NEW p, NEW x, LastIn(ws, k, p, x)
  PROVE  /\ ReportsIn(p, ws[k + 1].e) => LastIn(ws, k + 1, p, ws[k + 1].e.in)
         /\ ~ReportsIn(p, ws[k + 1].e) => LastIn(ws, k + 1, p, x)
<1> DEFINE R(i) == ReportsIn(p, ws[i].e)
<1>1. 1..(k + 1) = (1..k) \cup {k + 1} /\ (k + 1 + 1)..(k + 1) = {}
  OBVIOUS
<1>2. ASSUME R(k + 1) PROVE LastIn(ws, k + 1, p, ws[k + 1].e.in)
  BY <1>1, <1>2 DEF LastIn
<1>3. ASSUME ~R(k + 1) PROVE LastIn(ws, k + 1, p, x)
  <2>1. CASE x = NoCount /\ \A i \in 1..k : ~R(i)
    BY <1>1, <1>3, <2>1 DEF LastIn
  <2>2. CASE \E i \in 1..k : R(i) /\ x = ws[i].e.in /\ \A j \in (i + 1)..k : ~R(j)
    <3>1. PICK i \in 1..k : R(i) /\ x = ws[i].e.in /\ \A j \in (i + 1)..k : ~R(j)
      BY <2>2
    <3>2. i \in 1..(k + 1) /\ (i + 1)..(k + 1) = ((i + 1)..k) \cup {k + 1}
      OBVIOUS
    <3>3. \A j \in (i + 1)..(k + 1) : ~R(j)
      BY <1>3, <3>1, <3>2
    <3> QED BY <3>1, <3>2, <3>3 DEF LastIn
  <2> QED BY <2>1, <2>2 DEF LastIn
<1> QED BY <1>2, <1>3

LEMMA LastOutStep ==
  ASSUME NEW ws, NEW k \in Nat, NEW p, NEW x, LastOut(ws, k, p, x)
  PROVE  /\ ReportsOut(p, ws[k + 1].e) => LastOut(ws, k + 1, p, ws[k + 1].e.out)
         /\ ~ReportsOut(p, ws[k + 1].e) => LastOut(ws, k + 1, p, x)
<1> DEFINE R(i) == ReportsOut(p, ws[i].e)
<1>1. 1..(k + 1) = (1..k) \cup {k + 1} /\ (k + 1 + 1)..(k + 1) = {}
  OBVIOUS
<1>2. ASSUME R(k + 1) PROVE LastOut(ws, k + 1, p, ws[k + 1].e.out)
  BY <1>1, <1>2 DEF LastOut
<1>3. ASSUME ~R(k + 1) PROVE LastOut(ws, k + 1, p, x)
  <2>1. CASE x = NoCount /\ \A i \in 1..k : ~R(i)
    BY <1>1, <1>3, <2>1 DEF LastOut
  <2>2. CASE \E i \in 1..k : R(i) /\ x = ws[i].e.out /\ \A j \in (i + 1)..k : ~R(j)
    <3>1. PICK i \in 1..k : R(i) /\ x = ws[i].e.out /\ \A j \in (i + 1)..k : ~R(j)
      BY <2>2
    <3>2. i \in 1..(k + 1) /\ (i + 1)..(k + 1) = ((i + 1)..k) \cup {k + 1}
      OBVIOUS
    <3>3. \A j \in (i + 1)..(k + 1) : ~R(j)
      BY <1>3, <3>1, <3>2
    <3> QED BY <3>1, <3>2, <3>3 DEF LastOut
  <2> QED BY <2>1, <2>2 DEF LastOut
<1> QED BY <1>2, <1>3

LEMMA UpToNext == ASSUME NEW k \in Nat PROVE 1..(k + 1) = (1..k) \cup {k + 1}
OBVIOUS

LEMMA IdStep ==
  ASSUME NEW ws, NEW k \in Nat, NEW id, KeepsId(ws, k, id), ~Conflicts(id, ws[k + 1].e.id)
  PROVE  KeepsId(ws, k + 1, Keep(id, ws[k + 1].e.id))
BY UpToNext, Zenon DEF KeepsId, Conflicts, Keep

LEMMA FinishStep ==
  ASSUME NEW ws, NEW k \in Nat, NEW f, KeepsFinish(ws, k, f), ~Conflicts(f, ws[k + 1].e.finish)
  PROVE  KeepsFinish(ws, k + 1, Keep(f, ws[k + 1].e.finish))
BY UpToNext, Zenon DEF KeepsFinish, Conflicts, Keep

LEMMA IdStays ==
  ASSUME NEW ws, NEW k \in Nat, NEW id, KeepsId(ws, k, id), ws[k + 1].e.id = ""
  PROVE  KeepsId(ws, k + 1, id)
BY UpToNext, Zenon DEF KeepsId

LEMMA FinishStays ==
  ASSUME NEW ws, NEW k \in Nat, NEW f, KeepsFinish(ws, k, f), ws[k + 1].e.finish = ""
  PROVE  KeepsFinish(ws, k + 1, f)
BY UpToNext, Zenon DEF KeepsFinish

LEMMA ToldSame ==
  ASSUME NEW ws, NEW vs, NEW k \in Nat, \A i \in 1..k : ws[i] = vs[i], NEW p, NEW a,
         Told(ws, k, p, a)
  PROVE  Told(vs, k, p, a)
<1>1. Says(vs, k, a.text)
  BY SaysSame DEF Told
<1>2. LastIn(vs, k, p, a.in)
  <2>1. LastIn(ws, k, p, a.in)
    BY DEF Told
  <2>2. \A i \in 1..k : \A j \in (i + 1)..k : ws[j] = vs[j]
    OBVIOUS
  <2> QED BY <2>1, <2>2, Zenon DEF LastIn
<1>3. LastOut(vs, k, p, a.out)
  <2>1. LastOut(ws, k, p, a.out)
    BY DEF Told
  <2>2. \A i \in 1..k : \A j \in (i + 1)..k : ws[j] = vs[j]
    OBVIOUS
  <2> QED BY <2>1, <2>2, Zenon DEF LastOut
<1>4. /\ a.error = "" /\ a.done = FALSE
      /\ \A i \in 1..k : vs[i].e \in Opening(p)
      /\ KeepsId(vs, k, a.id) /\ KeepsFinish(vs, k, a.finish)
      /\ StartsOnce(vs, k, p, a.started)
  BY Zenon DEF Told, KeepsId, KeepsFinish, StartsOnce
<1> QED BY <1>1, <1>2, <1>3, <1>4 DEF Told

-----------------------------------------------------------------------------
(***************************************************************************)
(* The alphabet.                                                           *)
(***************************************************************************)
Silent(e) == e.in = NoCount /\ e.out = NoCount

Piece(e) == \E c \in Names : e.text = <<c>>

LEMMA EventFields ==
  ASSUME NEW t, NEW text, NEW id, NEW x, NEW y, NEW f, NEW e, e = Event(t, text, id, x, y, f)
  PROVE  /\ e.type = t /\ e.text = text /\ e.id = id /\ e.in = x /\ e.out = y /\ e.finish = f
BY DEF Event

LEMMA PlainFields ==
  ASSUME NEW t, NEW e, e = Plain(t)
  PROVE  e.type = t /\ e.text = <<>> /\ e.id = "" /\ Silent(e) /\ e.finish = ""
BY DEF Plain, Silent, Event

LEMMA Pieces == "a" \in Names /\ "b" \in Names /\ "c" \in Names /\ "i" \in Names
BY DEF Names

LEMMA ChatOpening ==
  ASSUME NEW e \in Opening("chat")
  PROVE  e.type = "chunk" /\ (e.text = <<>> \/ Piece(e))
<1>1. e \in {Event("chunk", <<"a">>, "x", 1, 1, ""),
             Event("chunk", <<"b">>, "x", 1, NoCount, "stop"),
             Event("chunk", <<"b">>, "y", NoCount, NoCount, ""),
             Event("chunk", <<>>, "x", NoCount, NoCount, "length"),
             Event("chunk", <<>>, "", 1, 2, "")}
  BY DEF Opening
<1>2. e.type = "chunk" /\ e.text \in {<<"a">>, <<"b">>, <<>>}
  <2>1. CASE e = Event("chunk", <<"a">>, "x", 1, 1, "")
    BY <2>1 DEF Event
  <2>2. CASE e = Event("chunk", <<"b">>, "x", 1, NoCount, "stop")
    BY <2>2 DEF Event
  <2>3. CASE e = Event("chunk", <<"b">>, "y", NoCount, NoCount, "")
    BY <2>3 DEF Event
  <2>4. CASE e = Event("chunk", <<>>, "x", NoCount, NoCount, "length")
    BY <2>4 DEF Event
  <2>5. CASE e = Event("chunk", <<>>, "", 1, 2, "")
    BY <2>5 DEF Event
  <2> QED BY <1>1, <2>1, <2>2, <2>3, <2>4, <2>5
<1> QED BY <1>2, Pieces DEF Piece

LEMMA ResponsesOpening ==
  ASSUME NEW e \in Opening("responses")
  PROVE  /\ e.type \in {"created", "delta"} /\ Silent(e) /\ e.finish = ""
         /\ e.type = "created" => e.text = <<>>
         /\ e.type = "delta" => Piece(e) /\ e.id = ""
<1>1. e \in {Event("created", <<>>, "x", NoCount, NoCount, ""),
             Event("created", <<>>, "y", NoCount, NoCount, ""),
             Event("delta", <<"a">>, "", NoCount, NoCount, ""),
             Event("delta", <<"b">>, "", NoCount, NoCount, "")}
  BY DEF Opening
<1>2. \/ e.type = "created" /\ e.text = <<>>
      \/ e.type = "delta" /\ e.text \in {<<"a">>, <<"b">>} /\ e.id = ""
  <2>1. CASE e = Event("created", <<>>, "x", NoCount, NoCount, "")
    BY <2>1 DEF Event
  <2>2. CASE e = Event("created", <<>>, "y", NoCount, NoCount, "")
    BY <2>2 DEF Event
  <2>3. CASE e = Event("delta", <<"a">>, "", NoCount, NoCount, "")
    BY <2>3 DEF Event
  <2>4. CASE e = Event("delta", <<"b">>, "", NoCount, NoCount, "")
    BY <2>4 DEF Event
  <2> QED BY <1>1, <2>1, <2>2, <2>3, <2>4
<1>3. Silent(e) /\ e.finish = ""
  <2>1. CASE e = Event("created", <<>>, "x", NoCount, NoCount, "")
    BY <2>1 DEF Event, Silent
  <2>2. CASE e = Event("created", <<>>, "y", NoCount, NoCount, "")
    BY <2>2 DEF Event, Silent
  <2>3. CASE e = Event("delta", <<"a">>, "", NoCount, NoCount, "")
    BY <2>3 DEF Event, Silent
  <2>4. CASE e = Event("delta", <<"b">>, "", NoCount, NoCount, "")
    BY <2>4 DEF Event, Silent
  <2> QED BY <1>1, <2>1, <2>2, <2>3, <2>4
<1> QED BY <1>2, <1>3, Pieces DEF Piece

LEMMA MessagesOpening ==
  ASSUME NEW e \in Opening("messages")
  PROVE  \/ e.type = "start" /\ (e.text = <<>> \/ Piece(e))
         \/ e.type = "delta" /\ Piece(e) /\ e.id = "" /\ e.finish = "" /\ Silent(e)
         \/ e.type = "ending" /\ e.text = <<>> /\ e.id = ""
<1>1. e \in {Event("start", <<"i">>, "x", 1, 1, ""),
             Event("start", <<>>, "x", 1, 1, "stop"),
             Event("delta", <<"a">>, "", NoCount, NoCount, ""),
             Event("delta", <<"b">>, "", NoCount, NoCount, ""),
             Event("ending", <<>>, "", NoCount, 2, "length")}
  BY DEF Opening
<1>2. \/ e.type = "start" /\ e.text \in {<<"i">>, <<>>}
      \/ /\ e.type = "delta" /\ e.text \in {<<"a">>, <<"b">>} /\ e.id = ""
         /\ e.finish = "" /\ Silent(e)
      \/ e.type = "ending" /\ e.text = <<>> /\ e.id = ""
  <2>1. CASE e = Event("start", <<"i">>, "x", 1, 1, "")
    BY <2>1 DEF Event, Silent
  <2>2. CASE e = Event("start", <<>>, "x", 1, 1, "stop")
    BY <2>2 DEF Event, Silent
  <2>3. CASE e = Event("delta", <<"a">>, "", NoCount, NoCount, "")
    BY <2>3 DEF Event, Silent
  <2>4. CASE e = Event("delta", <<"b">>, "", NoCount, NoCount, "")
    BY <2>4 DEF Event, Silent
  <2>5. CASE e = Event("ending", <<>>, "", NoCount, 2, "length")
    BY <2>5 DEF Event, Silent
  <2> QED BY <1>1, <2>1, <2>2, <2>3, <2>4, <2>5
<1> QED BY <1>2, Pieces DEF Piece

Mute(e) == e.text = <<>> /\ e.id = "" /\ Silent(e) /\ e.finish = ""

LEMMA ChatClosing ==
  ASSUME NEW e \in Closing("chat")
  PROVE  e.type \in {"done", "error", "junk"} /\ Mute(e)
<1>1. e \in {Plain("done"), Plain("error"), Plain("junk")}
  BY DEF Closing, Junk
<1> QED BY <1>1, PlainFields DEF Mute

LEMMA ResponsesClosing ==
  ASSUME NEW e \in Closing("responses")
  PROVE  \/ e.type \in {"failed", "overloaded", "incomplete", "junk"} /\ Mute(e)
         \/ /\ e.type = "completed" /\ e.text = <<"c">> /\ e.in # NoCount /\ e.out # NoCount
            /\ e.finish \in {"completed", "in_progress"}
<1>1. e \in {Event("completed", <<"c">>, "x", 1, 2, "completed"),
             Event("completed", <<"c">>, "x", 1, 2, "in_progress"),
             Plain("failed"), Plain("overloaded"), Plain("incomplete"), Plain("junk")}
  BY DEF Closing, Junk
<1>2. CASE e \in {Plain("failed"), Plain("overloaded"), Plain("incomplete"), Plain("junk")}
  <2>1. CASE e = Plain("failed")
    BY <2>1, PlainFields DEF Mute
  <2>2. CASE e = Plain("overloaded")
    BY <2>2, PlainFields DEF Mute
  <2>3. CASE e = Plain("incomplete")
    BY <2>3, PlainFields DEF Mute
  <2>4. CASE e = Plain("junk")
    BY <2>4, PlainFields DEF Mute
  <2> QED BY <1>2, <2>1, <2>2, <2>3, <2>4
<1>3. CASE e \in {Event("completed", <<"c">>, "x", 1, 2, "completed"),
                  Event("completed", <<"c">>, "x", 1, 2, "in_progress")}
  <2>1. /\ e.type = "completed" /\ e.text = <<"c">> /\ e.in = 1 /\ e.out = 2
        /\ e.finish \in {"completed", "in_progress"}
    BY <1>3, EventFields
  <2> QED BY <2>1 DEF NoCount
<1> QED BY <1>1, <1>2, <1>3

LEMMA MessagesClosing ==
  ASSUME NEW e \in Closing("messages")
  PROVE  e.type \in {"stop", "error", "overloaded", "junk"} /\ Mute(e)
<1>1. e \in {Plain("stop"), Plain("error"), Plain("overloaded"), Plain("junk")}
  BY DEF Closing, Junk
<1> QED BY <1>1, PlainFields DEF Mute

LEMMA Disjoint ==
  ASSUME NEW p \in Protocols, NEW e \in Opening(p)
  PROVE  e \notin Closing(p) /\ e.type # "junk"
<1>1. CASE p = "chat"
  BY <1>1, ChatOpening, ChatClosing
<1>2. CASE p = "responses"
  BY <1>2, ResponsesOpening, ResponsesClosing
<1>3. CASE p = "messages"
  BY <1>3, MessagesOpening, MessagesClosing
<1> QED BY <1>1, <1>2, <1>3 DEF Protocols

-----------------------------------------------------------------------------
(***************************************************************************)
(* What an event leads to: an error with its excuse, a complete answer, or *)
(* one more event understood.                                              *)
(***************************************************************************)
BrokenOn(ws, p) ==
    \/ \E i \in 1..Len(ws) :
        \/ ws[i].e.type = "junk"
        \/ /\ p = "messages"
           /\ ws[i].e.type \in {"delta", "ending", "stop"}
           /\ \A j \in 1..(i - 1) : ws[j].e.type # "start"
    \/ \E j \in 1..Len(ws) : \E i \in 1..(j - 1) :
        \/ Conflicts(ws[i].e.id, ws[j].e.id)
        \/ Conflicts(ws[i].e.finish, ws[j].e.finish)
        \/ ws[i].e.type = "start" /\ ws[j].e.type = "start"

SpokenOn(ws, text) ==
    IF SpeakingIn(ws, Len(ws)) = {} THEN text = ws[Len(ws)].e.text
    ELSE Says(ws, Len(ws), text)

Excused(ws, p, error) ==
    /\ error = "invalid_provider_stream" => BrokenOn(ws, p)
    /\ error = "incomplete_provider_stream" => ws[Len(ws)].e.finish = "in_progress"
    /\ error = "provider_response_too_large" =>
          Cardinality(SpeakingIn(ws, Len(ws))) > TextLimit
    /\ error # "answered"

Complete(ws, p, a) ==
    /\ ws[Len(ws)].e.type \in {"done", "completed", "stop"}
    /\ ~BrokenOn(ws, p)
    /\ SpokenOn(ws, a.text)
    /\ LastIn(ws, Len(ws), p, a.in) /\ LastOut(ws, Len(ws), p, a.out)

Understood(ws, k, p, b) ==
    /\ b.error # "" => Excused(ws, p, b.error)
    /\ b.error = "" /\ b.done => k + 1 = Len(ws) /\ Complete(ws, p, b)
    /\ b.error = "" /\ ~b.done => Told(ws, k + 1, p, b)

Alphabet(ws, p) ==
    /\ ws \in Seq(WireRow)
    /\ \A i \in 1..Len(ws) : /\ ws[i].e \in Opening(p) \cup Closing(p)
                             /\ i < Len(ws) => ws[i].e \notin Closing(p)

LEMMA SentAlphabet ==
  ASSUME NEW T, NEW ws, NEW st, NEW p, Sent(T, ws, st, p)
  PROVE  Alphabet(ws, p)
BY DEF Sent, EventOnWire, Alphabet

\* A stream is sound when it has one id, one finish reason and one start.
LEMMA Sound ==
  ASSUME NEW ws, NEW p, Len(ws) \in Nat \ {0}, NEW id, NEW f,
         KeepsId(ws, Len(ws), id), KeepsFinish(ws, Len(ws), f),
         \A i \in 1..Len(ws) : ws[i].e.type # "junk" /\ (ws[i].e.type = "start" => i = 1),
         p = "messages" => ws[1].e.type = "start"
  PROVE  ~BrokenOn(ws, p)
<1>1. ASSUME NEW i \in 1..Len(ws), p = "messages", ws[i].e.type \in {"delta", "ending", "stop"},
             \A j \in 1..(i - 1) : ws[j].e.type # "start"
      PROVE  FALSE
  <2>1. i # 1
    BY <1>1
  <2>2. 1 \in 1..(i - 1)
    BY <2>1
  <2> QED BY <1>1, <2>2
<1>2. ASSUME NEW j \in 1..Len(ws), NEW i \in 1..(j - 1)
      PROVE  /\ ~Conflicts(ws[i].e.id, ws[j].e.id)
             /\ ~Conflicts(ws[i].e.finish, ws[j].e.finish)
             /\ ~(ws[i].e.type = "start" /\ ws[j].e.type = "start")
  <2>1. i \in 1..Len(ws) /\ i # j
    BY <1>2
  <2>2. ws[i].e.id \in {"", id} /\ ws[j].e.id \in {"", id}
    BY <2>1 DEF KeepsId
  <2>3. ws[i].e.finish \in {"", f} /\ ws[j].e.finish \in {"", f}
    BY <2>1 DEF KeepsFinish
  <2> QED BY <2>1, <2>2, <2>3 DEF Conflicts
<1> QED BY <1>1, <1>2, Zenon DEF BrokenOn

\* Where it conflicts with itself it is broken.
LEMMA BrokenById ==
  ASSUME NEW ws, NEW p, NEW k \in Nat, k + 1 \in 1..Len(ws), NEW id, KeepsId(ws, k, id),
         Conflicts(id, ws[k + 1].e.id)
  PROVE  BrokenOn(ws, p)
<1>1. PICK i \in 1..k : ws[i].e.id = id
  BY DEF KeepsId, Conflicts
<1>2. k + 1 - 1 = k
  OBVIOUS
<1>3. i \in 1..(k + 1 - 1) /\ Conflicts(ws[i].e.id, ws[k + 1].e.id)
  BY <1>1, <1>2
<1>4. \E h \in 1..Len(ws) : \E g \in 1..(h - 1) : Conflicts(ws[g].e.id, ws[h].e.id)
  BY <1>3
<1> QED BY <1>4 DEF BrokenOn

LEMMA BrokenByFinish ==
  ASSUME NEW ws, NEW p, NEW k \in Nat, k + 1 \in 1..Len(ws), NEW f, KeepsFinish(ws, k, f),
         Conflicts(f, ws[k + 1].e.finish)
  PROVE  BrokenOn(ws, p)
<1>1. PICK i \in 1..k : ws[i].e.finish = f
  BY DEF KeepsFinish, Conflicts
<1>2. k + 1 - 1 = k
  OBVIOUS
<1>3. i \in 1..(k + 1 - 1) /\ Conflicts(ws[i].e.finish, ws[k + 1].e.finish)
  BY <1>1, <1>2
<1>4. \E h \in 1..Len(ws) : \E g \in 1..(h - 1) : Conflicts(ws[g].e.finish, ws[h].e.finish)
  BY <1>3
<1> QED BY <1>4 DEF BrokenOn

\* _append_text on an event with at most one piece: refused, or ...
Refused(a, e, b) ==
    /\ Piece(e) /\ Len(a.text) + 1 > TextLimit
    /\ b.error = "provider_response_too_large"

\* ... taken, and nothing else changes.
Taken(a, e, b) ==
    /\ \/ e.text = <<>> /\ b.text = a.text
       \/ Piece(e) /\ b.text = a.text \o e.text
    /\ b.id = a.id /\ b.finish = a.finish /\ b.started = a.started
    /\ b.in = a.in /\ b.out = a.out /\ b.done = a.done /\ b.error = a.error

LEMMA Appended ==
  ASSUME NEW a, AccOK(a), NEW e, e.text = <<>> \/ Piece(e), NEW b, b = AppendText(a, e.text)
  PROVE  Refused(a, e, b) \/ Taken(a, e, b)
<1>1. a \in Gathered /\ a.text \in Seq(Names) /\ Len(a.text) \in Nat /\ Len(a.text) <= TextLimit
  BY LenProperties DEF AccOK, Gathered
<1>2. CASE e.text = <<>>
  <2>1. ~(Len(a.text) + Len(e.text) > TextLimit)
    BY <1>1, <1>2, StreamAssumption
  <2>2. a.text \o e.text = a.text
    BY <1>1, <1>2, ConcatEmptySeq
  <2>3. AppendText(a, e.text) = [a EXCEPT !.text = a.text]
    BY <2>1, <2>2 DEF AppendText
  <2> QED BY <1>1, <1>2, <2>3 DEF Gathered, Taken
<1>3. CASE Piece(e)
  <2>1. PICK c \in Names : e.text = <<c>>
    BY <1>3 DEF Piece
  <2>2. Len(e.text) = 1
    BY <2>1
  <2>3. CASE Len(a.text) + 1 > TextLimit
    <3>1. AppendText(a, e.text).error = "provider_response_too_large"
      BY <1>1, <2>2, <2>3 DEF AppendText, ProviderError, Gathered
    <3> QED BY <1>3, <2>3, <3>1 DEF Refused
  <2>4. CASE ~(Len(a.text) + 1 > TextLimit)
    <3> DEFINE x == a.text \o e.text
    <3>1. AppendText(a, e.text) = [a EXCEPT !.text = x]
      BY <2>2, <2>4 DEF AppendText
    <3> HIDE DEF x
    <3>2. /\ b.text = x
          /\ b.id = a.id /\ b.finish = a.finish /\ b.started = a.started
          /\ b.in = a.in /\ b.out = a.out /\ b.done = a.done /\ b.error = a.error
      BY <1>1, <3>1 DEF Gathered
    <3> QED BY <1>3, <3>2 DEF x, Taken
  <2> QED BY <2>3, <2>4
<1> QED BY <1>2, <1>3

LEMMA SaysNext ==
  ASSUME NEW ws, NEW k \in Nat, NEW text \in Seq(Names), Says(ws, k, text), NEW new,
         \/ ws[k + 1].e.text = <<>> /\ new = text
         \/ Piece(ws[k + 1].e) /\ ws[k + 1].e.type # "completed" /\ new = text \o ws[k + 1].e.text
  PROVE  Says(ws, k + 1, new)
BY SaysStays, SaysMore DEF Piece

\* Too many pieces: _append_text refuses what is over the limit.
LEMMA TooMuch ==
  ASSUME NEW ws \in Seq(WireRow), NEW k \in Nat, k + 1 \in 1..Len(ws), NEW text \in Seq(Names),
         Says(ws, k, text), Piece(ws[k + 1].e), ws[k + 1].e.type # "completed",
         Len(text) + 1 > TextLimit
  PROVE  Cardinality(SpeakingIn(ws, Len(ws))) > TextLimit
<1>1. PICK c \in Names : ws[k + 1].e.text = <<c>>
  BY DEF Piece
<1> DEFINE new == text \o <<c>>
<1>2. Says(ws, k + 1, new)
  BY <1>1, SaysMore
<1>3. Len(text) \in Nat /\ Len(ws) \in Nat
  BY LenProperties
<1>4. Len(new) = Len(text) + 1
  BY <1>1, ConcatProperties
<1> HIDE DEF new
<1> DEFINE S == SpeakingIn(ws, k + 1)
           R == SpeakingIn(ws, Len(ws))
<1>5. Cardinality(S) \in Nat /\ Len(new) <= Cardinality(S)
  BY <1>2, <1>3, <1>4, SaysCount
<1>6. IsFiniteSet(R) /\ S \in SUBSET R
  <2>1. IsFiniteSet(1..Len(ws)) /\ R \in SUBSET (1..Len(ws))
    BY <1>3, FS_Interval DEF SpeakingIn
  <2>2. S \in SUBSET R
    BY <1>3 DEF SpeakingIn
  <2> QED BY <2>1, <2>2, FS_Subset
<1> HIDE DEF S, R
<1>7. Cardinality(S) <= Cardinality(R) /\ Cardinality(R) \in Nat
  BY <1>6, FS_Subset, FS_CardinalityType
<1>8. Cardinality(R) > TextLimit
  BY <1>3, <1>4, <1>5, <1>7, StreamAssumption
<1> QED BY <1>8 DEF R

LEMMA ClosingIsLast ==
  ASSUME NEW ws, NEW p, Alphabet(ws, p), NEW k \in Nat, k + 1 \in 1..Len(ws),
         ws[k + 1].e \in Closing(p)
  PROVE  k + 1 = Len(ws)
<1>1. Len(ws) \in Nat
  BY LenProperties DEF Alphabet
<1>2. ~(k + 1 < Len(ws))
  BY DEF Alphabet
<1> QED BY <1>1, <1>2

LEMMA JunkBreaks ==
  ASSUME NEW ws, NEW p, NEW k, k + 1 \in 1..Len(ws), ws[k + 1].e.type = "junk"
  PROVE  BrokenOn(ws, p)
BY DEF BrokenOn

LEMMA SilentStep ==
  ASSUME NEW ws, NEW k \in Nat, NEW p, NEW x, NEW y, LastIn(ws, k, p, x), LastOut(ws, k, p, y),
         Silent(ws[k + 1].e)
  PROVE  LastIn(ws, k + 1, p, x) /\ LastOut(ws, k + 1, p, y)
<1>1. ~ReportsIn(p, ws[k + 1].e) /\ ~ReportsOut(p, ws[k + 1].e)
  BY DEF Silent, ReportsIn, ReportsOut, Reports
<1> QED BY <1>1, LastInStep, LastOutStep

LEMMA RaisedFields ==
  ASSUME NEW a, AccOK(a), NEW error, NEW r
  PROVE  ProviderError(a, error, r).error = error
BY DEF AccOK, Gathered, ProviderError

LEMMA EventRead ==
  ASSUME NEW ws, NEW p, Alphabet(ws, p), NEW i \in 1..Len(ws)
  PROVE  ws[i].e \in Documents /\ ws \in Seq(WireRow)
<1>1. ws \in Seq(WireRow)
  BY DEF Alphabet
<1>2. ws[i] \in WireRow
  BY <1>1
<1> QED BY <1>1, <1>2 DEF WireRow

\* The end marker of a chat or a Messages stream completes the answer.
LEMMA MarkerCompletes ==
  ASSUME NEW ws, NEW p \in {"chat", "messages"}, Alphabet(ws, p), NEW k \in Nat,
         k + 1 = Len(ws), NEW a, AccOK(a), Told(ws, k, p, a),
         ws[k + 1].e.type \in {"done", "stop"}, Mute(ws[k + 1].e), p = "messages" => a.started,
         NEW b, b.text = a.text, b.in = a.in, b.out = a.out
  PROVE  Complete(ws, p, b)
<1> DEFINE e == ws[k + 1].e
<1>1. a.text \in Seq(Names)
  BY DEF AccOK, Gathered
<1>2. e.text = <<>> /\ e.id = "" /\ e.finish = "" /\ Silent(e)
  BY DEF Mute
<1>3. KeepsId(ws, k + 1, a.id) /\ KeepsFinish(ws, k + 1, a.finish)
  BY <1>2, IdStays, FinishStays DEF Told
<1>4. \A i \in 1..k : ws[i].e \in Opening(p)
  BY DEF Told
<1>5. \A i \in 1..k : ws[i].e.type # "junk" /\ (ws[i].e.type = "start" => i = 1)
  <2> TAKE i \in 1..k
  <2>1. ws[i].e.type # "junk"
    BY <1>4, Disjoint DEF Protocols
  <2>2. CASE p = "chat"
    BY <2>1, <2>2, <1>4, ChatOpening
  <2>3. CASE p = "messages"
    BY <2>1, <2>3 DEF Told, StartsOnce
  <2> QED BY <2>2, <2>3
<1>6. \A i \in 1..(k + 1) : ws[i].e.type # "junk" /\ (ws[i].e.type = "start" => i = 1)
  BY <1>5, UpToNext
<1>7. p = "messages" => ws[1].e.type = "start"
  <2> SUFFICES ASSUME p = "messages" PROVE ws[1].e.type = "start"
    OBVIOUS
  <2>1. a.started = (k > 0) /\ \A i \in 1..k : ws[i].e.type = "start" <=> i = 1
    BY DEF Told, StartsOnce
  <2>2. k > 0
    BY <2>1, Zenon
  <2>3. 1 \in 1..k
    BY <2>2
  <2> QED BY <2>1, <2>3
<1>8. ~BrokenOn(ws, p)
  BY <1>3, <1>6, <1>7, Sound
<1>9. Says(ws, k + 1, a.text)
  BY <1>2, SaysStays DEF Told
<1>10. SpokenOn(ws, b.text)
  <2>1. a.text = <<>> <=> SpeakingIn(ws, k + 1) = {}
    BY <1>1, <1>9, SaysNothing
  <2> QED BY <1>2, <1>9, <2>1 DEF SpokenOn
<1>11. LastIn(ws, k + 1, p, b.in) /\ LastOut(ws, k + 1, p, b.out)
  BY <1>2, SilentStep DEF Told
<1> QED BY <1>8, <1>10, <1>11 DEF Complete

-----------------------------------------------------------------------------
\* consume_event of the chat accumulator.
LEMMA ChatUnderstood ==
  ASSUME NEW ws, Alphabet(ws, "chat"), NEW k \in Nat, k + 1 \in 1..Len(ws),
         NEW a, AccOK(a), Told(ws, k, "chat", a)
  PROVE  Understood(ws, k, "chat", ConsumeChat(a, ws[k + 1].e))
<1> DEFINE e == ws[k + 1].e
           b == ConsumeChat(a, e)
<1>1. /\ a \in Gathered /\ a.text \in Seq(Names) /\ a.error = "" /\ a.done = FALSE
      /\ e \in Documents /\ ws \in Seq(WireRow)
  BY EventRead DEF AccOK, Gathered, Told
<1>2. e \in Opening("chat") \cup Closing("chat")
  BY DEF Alphabet
<1>3. CASE e \in Closing("chat")
  <2>1. k + 1 = Len(ws)
    BY <1>3, ClosingIsLast
  <2>2. e.type \in {"done", "error", "junk"} /\ Mute(e)
    BY <1>3, ChatClosing
  <2>3. CASE e.type = "done"
    <3>1. b = [a EXCEPT !.done = TRUE]
      BY <2>3 DEF ConsumeChat
    <3>2. b.error = "" /\ b.done = TRUE /\ b.text = a.text /\ b.in = a.in /\ b.out = a.out
      BY <1>1, <3>1 DEF Gathered
    <3> HIDE DEF b
    <3>3. Complete(ws, "chat", b)
      BY <2>1, <2>2, <2>3, <3>2, MarkerCompletes
    <3> QED BY <2>1, <3>2, <3>3 DEF Understood, b
  <2>4. CASE e.type = "error"
    <3>1. b = ProviderError(a, "provider_stream_error", FALSE)
      BY <2>4 DEF ConsumeChat
    <3>2. b.error = "provider_stream_error"
      <4> HIDE DEF b
      <4> QED BY <3>1, RaisedFields
    <3> QED BY <3>2 DEF Understood, Excused
  <2>5. CASE e.type = "junk"
    <3>1. b = Invalid(a)
      BY <2>5 DEF ConsumeChat
    <3>2. b.error = "invalid_provider_stream"
      <4> HIDE DEF b
      <4> QED BY <3>1, RaisedFields DEF Invalid
    <3> QED BY <2>5, <3>2, JunkBreaks DEF Understood, Excused
  <2> QED BY <2>2, <2>3, <2>4, <2>5
<1>4. CASE e \in Opening("chat")
  <2>1. e.type = "chunk" /\ (e.text = <<>> \/ Piece(e))
    BY <1>4, ChatOpening
  <2>2. CASE Conflicts(a.id, e.id) \/ Conflicts(a.finish, e.finish)
    <3>1. b = Invalid(a)
      BY <2>1, <2>2 DEF ConsumeChat
    <3>2. b.error = "invalid_provider_stream"
      <4> HIDE DEF b
      <4> QED BY <3>1, RaisedFields DEF Invalid
    <3>3. BrokenOn(ws, "chat")
      BY <2>2, BrokenById, BrokenByFinish DEF Told
    <3> QED BY <3>2, <3>3 DEF Understood, Excused
  <2>3. CASE ~(Conflicts(a.id, e.id) \/ Conflicts(a.finish, e.finish))
    <3> DEFINE c == [ReplaceUsage(a, e) EXCEPT !.id = Keep(@, e.id),
                                               !.finish = Keep(@, e.finish)]
    <3>1. b = AppendText(c, e.text)
      BY <2>1, <2>3 DEF ConsumeChat
    <3>2. AccOK(ReplaceUsage(a, e))
      BY <1>1, UsageOK
    <3>3. AccOK(c)
      BY <3>2, <1>1, KeepOK DEF AccOK, Gathered, Documents
    <3>4. /\ c.text = a.text /\ c.error = "" /\ c.done = FALSE
          /\ c.id = Keep(a.id, e.id) /\ c.finish = Keep(a.finish, e.finish)
          /\ c.in = (IF Reports(e) THEN e.in ELSE a.in)
          /\ c.out = (IF Reports(e) THEN e.out ELSE a.out)
      <4>1. CASE Reports(e)
        <5>1. ReplaceUsage(a, e) = [a EXCEPT !.in = e.in, !.out = e.out]
          BY <4>1 DEF ReplaceUsage
        <5> QED BY <1>1, <4>1, <5>1 DEF Gathered
      <4>2. CASE ~Reports(e)
        <5>1. ReplaceUsage(a, e) = a
          BY <4>2 DEF ReplaceUsage
        <5> QED BY <1>1, <4>2, <5>1 DEF Gathered
      <4> QED BY <4>1, <4>2
    <3> HIDE DEF c
    <3>5. Refused(c, e, b) \/ Taken(c, e, b)
      <4> HIDE DEF b, e
      <4> QED BY <2>1, <3>1, <3>3, Appended
    <3> HIDE DEF b
    <3>6. CASE Refused(c, e, b)
      <4>1. Cardinality(SpeakingIn(ws, Len(ws))) > TextLimit
        BY <1>1, <2>1, <3>4, <3>6, TooMuch DEF Told, Refused
      <4> QED BY <3>6, <4>1 DEF Understood, Excused, Refused, b
    <3>7. CASE Taken(c, e, b)
      <4>1. Says(ws, k + 1, b.text)
        BY <1>1, <2>1, <3>4, <3>7, SaysNext DEF Told, Taken
      <4>2. KeepsId(ws, k + 1, b.id) /\ KeepsFinish(ws, k + 1, b.finish)
        BY <2>3, <3>4, <3>7, IdStep, FinishStep DEF Told, Taken
      <4>3. LastIn(ws, k + 1, "chat", b.in) /\ LastOut(ws, k + 1, "chat", b.out)
        <5>1. /\ ReportsIn("chat", e) <=> Reports(e)
              /\ ReportsOut("chat", e) <=> Reports(e)
          BY DEF ReportsIn, ReportsOut
        <5>2. LastIn(ws, k, "chat", a.in) /\ LastOut(ws, k, "chat", a.out)
          BY DEF Told
        <5> QED BY <5>1, <5>2, <3>4, <3>7, LastInStep, LastOutStep DEF Taken
      <4>4. \A i \in 1..(k + 1) : ws[i].e \in Opening("chat")
        BY <1>4, UpToNext DEF Told
      <4>5. b.error = "" /\ b.done = FALSE
        BY <3>4, <3>7 DEF Taken
      <4>6. Told(ws, k + 1, "chat", b)
        BY <4>1, <4>2, <4>3, <4>4, <4>5 DEF Told, StartsOnce
      <4> QED BY <4>5, <4>6 DEF Understood, b
    <3> QED BY <3>5, <3>6, <3>7
  <2> QED BY <2>2, <2>3
<1> QED BY <1>2, <1>3, <1>4

\* An event with text or without, understood: the accumulator says it too.
LEMMA TakenTold ==
  ASSUME NEW ws, NEW p, Alphabet(ws, p), NEW k \in Nat, k + 1 \in 1..Len(ws),
         NEW c, AccOK(c), c.error = "", c.done = FALSE, NEW b, NEW e, e = ws[k + 1].e,
         e \in Opening(p), e.type # "completed", Refused(c, e, b) \/ Taken(c, e, b),
         \A i \in 1..k : ws[i].e \in Opening(p),
         KeepsId(ws, k + 1, c.id), KeepsFinish(ws, k + 1, c.finish),
         StartsOnce(ws, k + 1, p, c.started), Says(ws, k, c.text),
         LastIn(ws, k + 1, p, c.in), LastOut(ws, k + 1, p, c.out)
  PROVE  Understood(ws, k, p, b)
<1>1. c.text \in Seq(Names) /\ ws \in Seq(WireRow)
  BY EventRead DEF AccOK, Gathered
<1>2. CASE Refused(c, e, b)
  <2>1. Cardinality(SpeakingIn(ws, Len(ws))) > TextLimit
    BY <1>1, <1>2, TooMuch DEF Refused
  <2> QED BY <1>2, <2>1 DEF Understood, Excused, Refused
<1>3. CASE Taken(c, e, b)
  <2>1. Says(ws, k + 1, b.text)
    BY <1>1, <1>3, SaysNext DEF Taken
  <2>2. \A i \in 1..(k + 1) : ws[i].e \in Opening(p)
    BY UpToNext
  <2>3. Told(ws, k + 1, p, b)
    BY <1>3, <2>1, <2>2 DEF Told, Taken
  <2> QED BY <1>3, <2>3 DEF Understood, Taken
<1> QED BY <1>2, <1>3

Replaced(a, e, u) ==
    /\ AccOK(u) /\ u.text = a.text /\ u.error = a.error /\ u.done = a.done
    /\ u.id = a.id /\ u.finish = a.finish /\ u.started = a.started
    /\ u.in = (IF Reports(e) THEN e.in ELSE a.in)
    /\ u.out = (IF Reports(e) THEN e.out ELSE a.out)

LEMMA ReplacedFields ==
  ASSUME NEW a, AccOK(a), NEW e \in Documents, NEW u, u = ReplaceUsage(a, e)
  PROVE  Replaced(a, e, u)
<1>1. AccOK(u)
  BY UsageOK
<1>2. a \in Gathered
  BY DEF AccOK
<1>3. CASE Reports(e)
  <2>1. u = [a EXCEPT !.in = e.in, !.out = e.out]
    BY <1>3 DEF ReplaceUsage
  <2> QED BY <1>1, <1>2, <1>3, <2>1 DEF Gathered, Replaced
<1>4. CASE ~Reports(e)
  <2>1. u = a
    BY <1>4 DEF ReplaceUsage
  <2> QED BY <1>1, <1>2, <1>4, <2>1 DEF Gathered, Replaced
<1> QED BY <1>3, <1>4

LEMMA ReplacedUsage ==
  ASSUME NEW ws, NEW p, p # "messages", NEW k \in Nat, NEW a, NEW x, NEW y,
         LastIn(ws, k, p, a.in), LastOut(ws, k, p, a.out),
         x = (IF Reports(ws[k + 1].e) THEN ws[k + 1].e.in ELSE a.in),
         y = (IF Reports(ws[k + 1].e) THEN ws[k + 1].e.out ELSE a.out)
  PROVE  LastIn(ws, k + 1, p, x) /\ LastOut(ws, k + 1, p, y)
<1>1. /\ ReportsIn(p, ws[k + 1].e) <=> Reports(ws[k + 1].e)
      /\ ReportsOut(p, ws[k + 1].e) <=> Reports(ws[k + 1].e)
  BY DEF ReportsIn, ReportsOut
<1> QED BY <1>1, LastInStep, LastOutStep

LEMMA CompletedCompletes ==
  ASSUME NEW ws, Alphabet(ws, "responses"), NEW k \in Nat, k + 1 = Len(ws),
         NEW a, AccOK(a), Told(ws, k, "responses", a), NEW e, e = ws[k + 1].e,
         e.type = "completed", e.text = <<"c">>, e.finish = "completed",
         ~Conflicts(a.id, e.id), NEW d,
         d.text = (IF a.text = <<>> THEN <<"c">> ELSE a.text),
         d.in = (IF Reports(e) THEN e.in ELSE a.in),
         d.out = (IF Reports(e) THEN e.out ELSE a.out)
  PROVE  Complete(ws, "responses", d)
<1>1. a.text \in Seq(Names)
  BY DEF AccOK, Gathered
<1>2. \A i \in 1..k : ws[i].e \in Opening("responses")
  BY DEF Told
<1>3. \A i \in 1..k : /\ ws[i].e.type # "junk" /\ ws[i].e.type # "start"
                      /\ ws[i].e.finish = ""
  BY <1>2, ResponsesOpening
<1>4. KeepsId(ws, k + 1, Keep(a.id, e.id))
  BY IdStep DEF Told
<1>5. KeepsFinish(ws, k + 1, "completed")
  BY <1>3, UpToNext DEF KeepsFinish
<1>6. \A i \in 1..(k + 1) : ws[i].e.type # "junk" /\ (ws[i].e.type = "start" => i = 1)
  BY <1>3, UpToNext
<1>7. ~BrokenOn(ws, "responses")
  BY <1>4, <1>5, <1>6, Sound
<1>8. Says(ws, k + 1, a.text)
  BY SaysStays DEF Told
<1>9. SpokenOn(ws, d.text)
  <2>1. a.text = <<>> <=> SpeakingIn(ws, k + 1) = {}
    BY <1>1, <1>8, SaysNothing
  <2> QED BY <1>8, <2>1 DEF SpokenOn
<1>10. LastIn(ws, k + 1, "responses", d.in) /\ LastOut(ws, k + 1, "responses", d.out)
  BY ReplacedUsage DEF Told
<1> QED BY <1>7, <1>9, <1>10 DEF Complete

LEMMA ResponsesUnderstood ==
  ASSUME NEW ws, Alphabet(ws, "responses"), NEW k \in Nat, k + 1 \in 1..Len(ws),
         NEW a, AccOK(a), Told(ws, k, "responses", a), NEW e, e = ws[k + 1].e,
         NEW r, r = ConsumeResponses(a, e)
  PROVE  Understood(ws, k, "responses", r)
<1>1. /\ a \in Gathered /\ a.text \in Seq(Names) /\ a.error = "" /\ a.done = FALSE
      /\ e \in Documents /\ ws \in Seq(WireRow) /\ \A i \in 1..k : ws[i].e \in Opening("responses")
  BY EventRead DEF AccOK, Gathered, Told
<1>2. e \in Opening("responses") \cup Closing("responses")
  BY DEF Alphabet
<1>3. CASE Conflicts(a.id, e.id) /\ e.type \in {"created", "completed"}
  <2>1. r = Invalid(a)
    BY <1>3 DEF ConsumeResponses
  <2>2. r.error = "invalid_provider_stream"
    BY <1>1, <2>1 DEF Invalid, ProviderError, Gathered
  <2>3. BrokenOn(ws, "responses")
    BY <1>3, BrokenById DEF Told
  <2> QED BY <2>2, <2>3 DEF Understood, Excused
<1> DEFINE b == [ReplaceUsage(a, e) EXCEPT !.id = Keep(@, e.id)]
<1>4. /\ AccOK(b) /\ b.text = a.text /\ b.error = "" /\ b.done = FALSE
      /\ b.id = Keep(a.id, e.id) /\ b.finish = a.finish /\ b.started = a.started
      /\ b.in = (IF Reports(e) THEN e.in ELSE a.in)
      /\ b.out = (IF Reports(e) THEN e.out ELSE a.out)
  <2>1. PICK u : u = ReplaceUsage(a, e)
    OBVIOUS
  <2>2. b = [u EXCEPT !.id = Keep(u.id, e.id)]
    BY <2>1
  <2> HIDE DEF b
  <2>3. Replaced(a, e, u)
    BY <1>1, <2>1, ReplacedFields
  <2>4. AccOK(u) /\ u.text = a.text /\ u.error = a.error /\ u.done = a.done
    BY <2>3, Zenon DEF Replaced
  <2>5. u.id = a.id /\ u.finish = a.finish /\ u.started = a.started
    BY <2>3, Zenon DEF Replaced
  <2>6. /\ u.in = (IF Reports(e) THEN e.in ELSE a.in)
        /\ u.out = (IF Reports(e) THEN e.out ELSE a.out)
    BY <2>3, Zenon DEF Replaced
  <2>7. Keep(u.id, e.id) \in Names
    BY <1>1, <2>4, KeepOK DEF AccOK, Gathered, Documents
  <2>8. AccOK(b)
    BY <2>2, <2>4, <2>7 DEF AccOK, Gathered
  <2>9. /\ b.text = u.text /\ b.error = u.error /\ b.done = u.done /\ b.id = Keep(u.id, e.id)
        /\ b.finish = u.finish /\ b.started = u.started /\ b.in = u.in /\ b.out = u.out
    BY <2>2, <2>4 DEF AccOK, Gathered
  <2> QED BY <2>4, <2>5, <2>6, <2>8, <2>9, <1>1
<1>5. ASSUME ~Conflicts(a.id, e.id), e \in Opening("responses"), e.type = "created"
      PROVE  Understood(ws, k, "responses", r)
  <2>1. r = b /\ e.text = <<>> /\ e.finish = ""
    BY <1>5, ResponsesOpening DEF ConsumeResponses
  <2> HIDE DEF b
  <2>2. Taken(b, e, r)
    BY <2>1 DEF Taken
  <2>3. KeepsId(ws, k + 1, b.id) /\ KeepsFinish(ws, k + 1, b.finish)
    BY <1>4, <1>5, <2>1, IdStep, FinishStays DEF Told
  <2>4. LastIn(ws, k + 1, "responses", b.in) /\ LastOut(ws, k + 1, "responses", b.out)
    BY <1>4, ReplacedUsage DEF Told
  <2>5. Says(ws, k, b.text) /\ StartsOnce(ws, k + 1, "responses", b.started)
    BY <1>4 DEF Told, StartsOnce
  <2> QED BY <1>1, <1>4, <1>5, <2>2, <2>3, <2>4, <2>5, TakenTold
<1>6. ASSUME e \in Opening("responses"), e.type = "delta"
      PROVE  Understood(ws, k, "responses", r)
  <2>1. r = AppendText(a, e.text) /\ Piece(e) /\ e.id = "" /\ e.finish = "" /\ Silent(e)
    BY <1>6, ResponsesOpening DEF ConsumeResponses
  <2>2. Refused(a, e, r) \/ Taken(a, e, r)
    BY <2>1, Appended
  <2>3. KeepsId(ws, k + 1, a.id) /\ KeepsFinish(ws, k + 1, a.finish)
    BY <2>1, IdStays, FinishStays DEF Told
  <2>4. LastIn(ws, k + 1, "responses", a.in) /\ LastOut(ws, k + 1, "responses", a.out)
    BY <2>1, SilentStep DEF Told
  <2>5. Says(ws, k, a.text) /\ StartsOnce(ws, k + 1, "responses", a.started)
    BY DEF Told, StartsOnce
  <2> QED BY <1>1, <1>6, <2>2, <2>3, <2>4, <2>5, TakenTold
<1>7. ASSUME e.type \in {"failed", "overloaded", "incomplete", "junk"}
      PROVE  Understood(ws, k, "responses", r)
  <2>1. CASE e.type = "failed"
    <3>1. r = ProviderError(a, "provider_stream_error", FALSE)
      BY <2>1 DEF ConsumeResponses
    <3>2. r.error = "provider_stream_error"
      BY <1>1, <3>1 DEF ProviderError, Gathered
    <3> QED BY <3>2 DEF Understood, Excused
  <2>2. CASE e.type = "overloaded"
    <3>1. r = ProviderError(a, "provider_5xx", TRUE)
      BY <2>2 DEF ConsumeResponses
    <3>2. r.error = "provider_5xx"
      BY <1>1, <3>1 DEF ProviderError, Gathered
    <3> QED BY <3>2 DEF Understood, Excused
  <2>3. CASE e.type = "incomplete"
    <3>1. r = ProviderError(a, "output_truncated", FALSE)
      BY <2>3 DEF ConsumeResponses
    <3>2. r.error = "output_truncated"
      BY <1>1, <3>1 DEF ProviderError, Gathered
    <3> QED BY <3>2 DEF Understood, Excused
  <2>4. CASE e.type = "junk"
    <3>1. r = Invalid(a)
      BY <2>4 DEF ConsumeResponses
    <3>2. r.error = "invalid_provider_stream"
      BY <1>1, <3>1 DEF Invalid, ProviderError, Gathered
    <3> QED BY <2>4, <3>2, JunkBreaks DEF Understood, Excused
  <2> QED BY <1>7, <2>1, <2>2, <2>3, <2>4
<1>8. ASSUME ~Conflicts(a.id, e.id), e \in Closing("responses"), e.type = "completed"
      PROVE  Understood(ws, k, "responses", r)
  <2>1. /\ k + 1 = Len(ws) /\ e.text = <<"c">> /\ e.finish \in {"completed", "in_progress"}
    BY <1>8, ClosingIsLast, ResponsesClosing
  <2> DEFINE c == IF b.text = <<>> THEN AppendText(b, e.text) ELSE b
             d == [c EXCEPT !.finish = "completed", !.done = TRUE]
  <2>2. r = IF e.finish # "completed" THEN ProviderError(b, "incomplete_provider_stream", FALSE)
            ELSE IF c.error # "" THEN c ELSE d
    BY <1>8 DEF ConsumeResponses
  <2> HIDE DEF b
  <2>3. CASE e.finish = "in_progress"
    <3>1. r = ProviderError(b, "incomplete_provider_stream", FALSE)
      BY <2>2, <2>3
    <3>2. r.error = "incomplete_provider_stream"
      BY <1>4, <3>1 DEF ProviderError, AccOK, Gathered
    <3> QED BY <2>1, <2>3, <3>2 DEF Understood, Excused
  <2>4. CASE e.finish = "completed"
    <3>1. /\ AccOK(c) /\ c.error = "" /\ c.text = (IF a.text = <<>> THEN <<"c">> ELSE a.text)
          /\ c.in = b.in /\ c.out = b.out
      <4>1. CASE a.text = <<>>
        <5> DEFINE x == AppendText(b, e.text)
        <5>1. c = x
          BY <4>1, <1>4
        <5>2. AccOK(x)
          BY <1>1, <1>4, AppendOK DEF Documents
        <5>3. Piece(e)
          BY <2>1, Pieces DEF Piece
        <5> HIDE DEF x, c
        <5>4. Refused(b, e, x) \/ Taken(b, e, x)
          BY <1>4, <5>3, Appended DEF x
        <5>5. ~Refused(b, e, x)
          <6>1. b.text = <<>>
            BY <4>1, <1>4
          <6>2. Len(b.text) = 0
            BY <6>1
          <6> QED BY <6>2, StreamAssumption DEF Refused
        <5>6. e.text # <<>>
          BY <2>1
        <5>7. x.text = b.text \o e.text /\ x.error = b.error /\ x.in = b.in /\ x.out = b.out
          BY <5>4, <5>5, <5>6, Zenon DEF Taken
        <5>8. b.text \o e.text = <<"c">>
          <6>1. <<"c">> \in Seq(Names)
            BY Pieces, Singleton
          <6>2. << >> \o <<"c">> = <<"c">>
            BY <6>1, ConcatEmptySeq
          <6> QED BY <6>2, <4>1, <1>4, <2>1
        <5> QED BY <5>1, <5>2, <5>7, <5>8, <1>4, <4>1
      <4>2. CASE a.text # <<>>
        <5>1. c = b
          BY <4>2, <1>4
        <5> HIDE DEF c
        <5> QED BY <5>1, <4>2, <1>4
      <4> QED BY <4>1, <4>2
    <3> HIDE DEF c
    <3>2. r = d
      BY <2>2, <2>4, <3>1
    <3>3. d.error = "" /\ d.done = TRUE /\ d.text = c.text /\ d.in = c.in /\ d.out = c.out
      BY <3>1 DEF AccOK, Gathered
    <3> HIDE DEF d
    <3>4. Complete(ws, "responses", d)
      <4>1. /\ d.text = (IF a.text = <<>> THEN <<"c">> ELSE a.text)
            /\ d.in = (IF Reports(e) THEN e.in ELSE a.in)
            /\ d.out = (IF Reports(e) THEN e.out ELSE a.out)
        BY <1>4, <3>1, <3>3, Zenon
      <4>2. k + 1 = Len(ws) /\ e.text = <<"c">> /\ e.type = "completed" /\ ~Conflicts(a.id, e.id)
        BY <1>8, <2>1
      <4> QED BY <2>4, <4>1, <4>2, CompletedCompletes
    <3> QED BY <2>1, <3>2, <3>3, <3>4 DEF Understood
  <2> QED BY <2>1, <2>3, <2>4
<1>9. CASE e \in Opening("responses")
  <2>1. e.type \in {"created", "delta"}
    BY <1>9, ResponsesOpening
  <2> QED BY <1>3, <1>5, <1>6, <1>9, <2>1
<1>10. CASE e \in Closing("responses")
  <2>1. e.type \in {"failed", "overloaded", "incomplete", "junk", "completed"}
    BY <1>10, ResponsesClosing
  <2> QED BY <1>3, <1>7, <1>8, <1>10, <2>1
<1> QED BY <1>2, <1>9, <1>10

\* A Messages report has one field or both; the others stay.
Merged(a, e, u) ==
    /\ AccOK(u) /\ u.text = a.text /\ u.error = a.error /\ u.done = a.done
    /\ u.id = a.id /\ u.finish = a.finish /\ u.started = a.started
    /\ u.in = (IF e.in = NoCount THEN a.in ELSE e.in)
    /\ u.out = (IF e.out = NoCount THEN a.out ELSE e.out)

LEMMA MergedFields ==
  ASSUME NEW a, AccOK(a), NEW e \in Documents, NEW u, u = MergeUsage(a, e)
  PROVE  Merged(a, e, u)
<1>1. PICK x : x = IF e.in = NoCount THEN a.in ELSE e.in
  OBVIOUS
<1>2. PICK y : y = IF e.out = NoCount THEN a.out ELSE e.out
  OBVIOUS
<1>3. x \in Int /\ y \in Int
  BY <1>1, <1>2 DEF AccOK, Gathered, Documents
<1>4. u = [a EXCEPT !.in = x, !.out = y]
  BY <1>1, <1>2 DEF MergeUsage
<1>5. AccOK(u)
  BY <1>3, <1>4 DEF AccOK, Gathered
<1>6. /\ u.text = a.text /\ u.error = a.error /\ u.done = a.done
      /\ u.id = a.id /\ u.finish = a.finish /\ u.started = a.started
      /\ u.in = x /\ u.out = y
  BY <1>4 DEF AccOK, Gathered
<1> QED BY <1>1, <1>2, <1>5, <1>6 DEF Merged

LEMMA MergedUsage ==
  ASSUME NEW ws, NEW k \in Nat, NEW a, NEW x, NEW y,
         LastIn(ws, k, "messages", a.in), LastOut(ws, k, "messages", a.out),
         x = (IF ws[k + 1].e.in = NoCount THEN a.in ELSE ws[k + 1].e.in),
         y = (IF ws[k + 1].e.out = NoCount THEN a.out ELSE ws[k + 1].e.out)
  PROVE  LastIn(ws, k + 1, "messages", x) /\ LastOut(ws, k + 1, "messages", y)
<1>1. /\ ReportsIn("messages", ws[k + 1].e) <=> ws[k + 1].e.in # NoCount
      /\ ReportsOut("messages", ws[k + 1].e) <=> ws[k + 1].e.out # NoCount
  BY DEF ReportsIn, ReportsOut
<1> QED BY <1>1, LastInStep, LastOutStep

\* message_start, content, message_delta and message_stop out of their order.
LEMMA OutOfOrder ==
  ASSUME NEW ws, NEW k \in Nat, k + 1 \in 1..Len(ws), NEW started \in BOOLEAN,
         StartsOnce(ws, k, "messages", started),
         \/ ws[k + 1].e.type = "start" /\ started
         \/ ws[k + 1].e.type \in {"delta", "ending", "stop"} /\ ~started
  PROVE  BrokenOn(ws, "messages")
<1>1. started <=> k > 0
  BY DEF StartsOnce
<1>2. \A i \in 1..k : ws[i].e.type = "start" <=> i = 1
  BY DEF StartsOnce
<1>3. CASE ws[k + 1].e.type = "start" /\ started
  <2>1. k > 0
    BY <1>1, <1>3
  <2>2. 1 \in 1..k /\ 1 \in 1..(k + 1 - 1)
    BY <2>1
  <2>3. ws[1].e.type = "start" /\ ws[k + 1].e.type = "start"
    BY <1>2, <1>3, <2>2
  <2>4. \E j \in 1..Len(ws) : \E i \in 1..(j - 1) : ws[i].e.type = "start" /\ ws[j].e.type = "start"
    BY <2>2, <2>3
  <2> QED BY <2>4, Zenon DEF BrokenOn
<1>4. CASE ws[k + 1].e.type \in {"delta", "ending", "stop"} /\ ~started
  <2>1. k = 0
    BY <1>1, <1>4
  <2>2. 1..(k + 1 - 1) = {}
    BY <2>1
  <2>3. \E i \in 1..Len(ws) : /\ ws[i].e.type \in {"delta", "ending", "stop"}
                              /\ \A j \in 1..(i - 1) : ws[j].e.type # "start"
    BY <2>2, <1>4
  <2> QED BY <2>3, Zenon DEF BrokenOn
<1> QED BY <1>3, <1>4

LEMMA Starting ==
  ASSUME NEW k \in Nat, NEW started \in BOOLEAN, NEW ws, StartsOnce(ws, k, "messages", started),
         IF started THEN ws[k + 1].e.type # "start" ELSE ws[k + 1].e.type = "start"
  PROVE  StartsOnce(ws, k + 1, "messages", TRUE)
<1>1. started <=> k > 0
  BY DEF StartsOnce
<1>2. \A i \in 1..k : ws[i].e.type = "start" <=> i = 1
  BY DEF StartsOnce
<1>3. \A i \in 1..(k + 1) : ws[i].e.type = "start" <=> i = 1
  BY <1>1, <1>2, UpToNext
<1>4. TRUE = (k + 1 > 0)
  OBVIOUS
<1> QED BY <1>3, <1>4 DEF StartsOnce

LEMMA MessagesUnderstood ==
  ASSUME NEW ws, Alphabet(ws, "messages"), NEW k \in Nat, k + 1 \in 1..Len(ws),
         NEW a, AccOK(a), Told(ws, k, "messages", a), NEW e, e = ws[k + 1].e,
         NEW r, r = ConsumeMessages(a, e)
  PROVE  Understood(ws, k, "messages", r)
<1>1. /\ a \in Gathered /\ a.text \in Seq(Names) /\ a.error = "" /\ a.done = FALSE
      /\ a.started \in BOOLEAN
      /\ e \in Documents /\ ws \in Seq(WireRow) /\ \A i \in 1..k : ws[i].e \in Opening("messages")
  BY EventRead DEF AccOK, Gathered, Told
<1>2. e \in Opening("messages") \cup Closing("messages")
  BY DEF Alphabet
<1>3. StartsOnce(ws, k, "messages", a.started) /\ KeepsId(ws, k, a.id)
      /\ KeepsFinish(ws, k, a.finish) /\ Says(ws, k, a.text)
      /\ LastIn(ws, k, "messages", a.in) /\ LastOut(ws, k, "messages", a.out)
  BY DEF Told
<1>4. ASSUME r = Invalid(a), BrokenOn(ws, "messages")
      PROVE  Understood(ws, k, "messages", r)
  <2>1. r.error = "invalid_provider_stream"
    BY <1>1, <1>4 DEF Invalid, ProviderError, Gathered
  <2> QED BY <1>4, <2>1 DEF Understood, Excused
<1>5. ASSUME \/ e.type = "start" /\ a.started
             \/ e.type \in {"delta", "ending", "stop"} /\ ~a.started
      PROVE  Understood(ws, k, "messages", r)
  <2>1. r = Invalid(a)
    BY <1>5 DEF ConsumeMessages
  <2>2. BrokenOn(ws, "messages")
    BY <1>1, <1>3, <1>5, OutOfOrder
  <2> QED BY <1>4, <2>1, <2>2
<1>6. ASSUME e \in Opening("messages"), e.type = "start", ~a.started
      PROVE  Understood(ws, k, "messages", r)
  <2>1. PICK u : u = MergeUsage(a, e)
    OBVIOUS
  <2>2. PICK c : c = [u EXCEPT !.started = TRUE, !.id = e.id, !.finish = e.finish]
    OBVIOUS
  <2>3. r = AppendText(c, e.text)
    BY <1>6, <2>1, <2>2 DEF ConsumeMessages
  <2>4. Merged(a, e, u)
    BY <1>1, <2>1, MergedFields
  <2>5. AccOK(u) /\ u.text = a.text /\ u.error = a.error /\ u.done = a.done
    BY <2>4, Zenon DEF Merged
  <2>6. /\ u.in = (IF e.in = NoCount THEN a.in ELSE e.in)
        /\ u.out = (IF e.out = NoCount THEN a.out ELSE e.out)
    BY <2>4, Zenon DEF Merged
  <2>7. e.id \in Names /\ e.finish \in Names
    BY <1>1 DEF Documents
  <2>8. AccOK(c)
    BY <2>2, <2>5, <2>7 DEF AccOK, Gathered
  <2>9. /\ c.text = u.text /\ c.error = u.error /\ c.done = u.done /\ c.id = e.id
        /\ c.finish = e.finish /\ c.in = u.in /\ c.out = u.out /\ c.started = TRUE
    BY <2>2, <2>5 DEF AccOK, Gathered
  <2>10. e.text = <<>> \/ Piece(e)
    BY <1>6, MessagesOpening
  <2>11. Refused(c, e, r) \/ Taken(c, e, r)
    BY <2>3, <2>8, <2>10, Appended
  <2>12. k = 0
    <3>1. a.started = (k > 0)
      BY <1>3, Zenon DEF StartsOnce
    <3>2. ~(k > 0)
      BY <1>6, <3>1, Zenon
    <3> QED BY <3>2
  <2>13. KeepsId(ws, k + 1, c.id) /\ KeepsFinish(ws, k + 1, c.finish)
    <3>1. 1..(k + 1) = {k + 1}
      BY <2>12
    <3> QED BY <2>9, <3>1 DEF KeepsId, KeepsFinish
  <2>14. StartsOnce(ws, k + 1, "messages", c.started)
    BY <1>1, <1>3, <1>6, <2>9, Starting
  <2>15. LastIn(ws, k + 1, "messages", c.in) /\ LastOut(ws, k + 1, "messages", c.out)
    BY <1>3, <2>6, <2>9, MergedUsage
  <2>16. Says(ws, k, c.text) /\ c.error = "" /\ c.done = FALSE
    BY <1>1, <1>3, <2>5, <2>9
  <2>17. e.type # "completed"
    BY <1>6
  <2> QED BY <1>1, <1>6, <2>8, <2>11, <2>13, <2>14, <2>15, <2>16, <2>17, TakenTold
<1>7. ASSUME e \in Opening("messages"), e.type = "delta", a.started
      PROVE  Understood(ws, k, "messages", r)
  <2>1. r = AppendText(a, e.text) /\ Piece(e) /\ e.id = "" /\ e.finish = "" /\ Silent(e)
    BY <1>7, MessagesOpening DEF ConsumeMessages
  <2>2. Refused(a, e, r) \/ Taken(a, e, r)
    BY <2>1, Appended
  <2>3. KeepsId(ws, k + 1, a.id) /\ KeepsFinish(ws, k + 1, a.finish)
    BY <1>3, <2>1, IdStays, FinishStays
  <2>4. LastIn(ws, k + 1, "messages", a.in) /\ LastOut(ws, k + 1, "messages", a.out)
    BY <1>3, <2>1, SilentStep
  <2>5. StartsOnce(ws, k + 1, "messages", a.started)
    BY <1>1, <1>3, <1>7, Starting
  <2>6. e.type # "completed"
    BY <1>7
  <2> QED BY <1>1, <1>3, <1>7, <2>2, <2>3, <2>4, <2>5, <2>6, TakenTold
<1>8. ASSUME e \in Opening("messages"), e.type = "ending", a.started
      PROVE  Understood(ws, k, "messages", r)
  <2>1. CASE Conflicts(a.finish, e.finish)
    <3>1. r = Invalid(a)
      BY <1>8, <2>1 DEF ConsumeMessages
    <3>2. BrokenOn(ws, "messages")
      BY <1>3, <2>1, BrokenByFinish
    <3> QED BY <1>4, <3>1, <3>2
  <2>2. CASE ~Conflicts(a.finish, e.finish)
    <3>1. PICK u : u = MergeUsage(a, e)
      OBVIOUS
    <3>2. r = [u EXCEPT !.finish = Keep(u.finish, e.finish)]
      BY <1>8, <2>2, <3>1 DEF ConsumeMessages
    <3>3. Merged(a, e, u)
      BY <1>1, <3>1, MergedFields
    <3>4. AccOK(u) /\ u.text = a.text /\ u.error = a.error /\ u.done = a.done
      BY <3>3, Zenon DEF Merged
    <3>5. u.id = a.id /\ u.finish = a.finish /\ u.started = a.started
      BY <3>3, Zenon DEF Merged
    <3>6. /\ u.in = (IF e.in = NoCount THEN a.in ELSE e.in)
          /\ u.out = (IF e.out = NoCount THEN a.out ELSE e.out)
      BY <3>3, Zenon DEF Merged
    <3>7. /\ r.text = u.text /\ r.error = u.error /\ r.done = u.done /\ r.id = u.id
          /\ r.finish = Keep(u.finish, e.finish) /\ r.in = u.in /\ r.out = u.out
          /\ r.started = u.started
      BY <3>2, <3>4 DEF AccOK, Gathered
    <3>8. e.text = <<>> /\ e.id = "" /\ e.type # "completed"
      BY <1>8, MessagesOpening
    <3>9. KeepsId(ws, k + 1, r.id) /\ KeepsFinish(ws, k + 1, r.finish)
      BY <1>3, <2>2, <3>5, <3>7, <3>8, IdStays, FinishStep
    <3>10. LastIn(ws, k + 1, "messages", r.in) /\ LastOut(ws, k + 1, "messages", r.out)
      BY <1>3, <3>6, <3>7, MergedUsage
    <3>11. StartsOnce(ws, k + 1, "messages", r.started)
      BY <1>1, <1>3, <1>8, <3>5, <3>7, Starting
    <3>12. Says(ws, k + 1, r.text)
      BY <1>3, <3>4, <3>7, <3>8, SaysStays
    <3>13. r.error = "" /\ r.done = FALSE
      BY <1>1, <3>4, <3>7, Zenon
    <3>14. \A i \in 1..(k + 1) : ws[i].e \in Opening("messages")
      BY <1>1, <1>8, UpToNext
    <3>15. Told(ws, k + 1, "messages", r)
      BY <3>9, <3>10, <3>11, <3>12, <3>13, <3>14 DEF Told
    <3> QED BY <3>13, <3>15 DEF Understood
  <2> QED BY <2>1, <2>2
<1>9. ASSUME e \in Closing("messages"), e.type = "stop", a.started
      PROVE  Understood(ws, k, "messages", r)
  <2>1. k + 1 = Len(ws) /\ Mute(e)
    BY <1>9, ClosingIsLast, MessagesClosing
  <2>2. r = [a EXCEPT !.done = TRUE]
    BY <1>9 DEF ConsumeMessages
  <2>3. r.error = "" /\ r.done = TRUE /\ r.text = a.text /\ r.in = a.in /\ r.out = a.out
    BY <1>1, <2>2 DEF Gathered
  <2>4. Complete(ws, "messages", r)
    BY <1>9, <2>1, <2>3, MarkerCompletes
  <2> QED BY <2>1, <2>3, <2>4 DEF Understood
<1>10. ASSUME e.type \in {"error", "overloaded", "junk"}
       PROVE  Understood(ws, k, "messages", r)
  <2>1. CASE e.type = "error"
    <3>1. r = ProviderError(a, "provider_stream_error", FALSE)
      BY <2>1 DEF ConsumeMessages
    <3>2. r.error = "provider_stream_error"
      BY <1>1, <3>1 DEF ProviderError, Gathered
    <3> QED BY <3>2 DEF Understood, Excused
  <2>2. CASE e.type = "overloaded"
    <3>1. r = ProviderError(a, "provider_5xx", TRUE)
      BY <2>2 DEF ConsumeMessages
    <3>2. r.error = "provider_5xx"
      BY <1>1, <3>1 DEF ProviderError, Gathered
    <3> QED BY <3>2 DEF Understood, Excused
  <2>3. CASE e.type = "junk"
    <3>1. r = Invalid(a)
      BY <2>3 DEF ConsumeMessages
    <3> QED BY <1>4, <2>3, <3>1, JunkBreaks
  <2> QED BY <1>10, <2>1, <2>2, <2>3
<1>11. CASE e \in Opening("messages")
  <2>1. e.type \in {"start", "delta", "ending"}
    BY <1>11, MessagesOpening
  <2> QED BY <1>1, <1>5, <1>6, <1>7, <1>8, <1>11, <2>1
<1>12. CASE e \in Closing("messages")
  <2>1. e.type \in {"stop", "error", "overloaded", "junk"}
    BY <1>12, MessagesClosing
  <2> QED BY <1>1, <1>5, <1>9, <1>10, <1>12, <2>1
<1> QED BY <1>2, <1>11, <1>12

\* _decode_typed_event on an event read to its blank line gives the event.
LEMMA WholeEvent ==
  ASSUME style \in Styles, NEW p \in Protocols, NEW w, w.e \in Opening(p) \cup Closing(p),
         NEW rd, rd.data = DataAt(w, style, BlankLine(w, style)),
         rd.name = NameAt(w, style, BlankLine(w, style))
  PROVE  Decoded(p, rd) = w.e /\ rd.data # <<>>
<1>1. p # "chat" => w.e.type # "done"
  <2>1. CASE p = "responses"
    BY <2>1, ResponsesOpening, ResponsesClosing
  <2>2. CASE p = "messages"
    BY <2>2, MessagesOpening, MessagesClosing
  <2> QED BY <2>1, <2>2 DEF Protocols
<1>2. CASE LongForm(w, style)
  <2>1. rd.data = <<Sym("head", w.e), Sym("tail", w.e)>> /\ rd.name = w.e.type
    BY <1>2 DEF BlankLine, DataAt, NameAt
  <2>2. Len(rd.data) = 2 /\ rd.data[1] = Sym("head", w.e) /\ rd.data[2] = Sym("tail", w.e)
    BY <2>1
  <2>3. Document(rd.data) = w.e
    BY <2>2 DEF Document, Sym
  <2> QED BY <2>1, <2>3 DEF Decoded
<1>3. CASE ~LongForm(w, style)
  <2>1. rd.data = <<Sym("data", w.e)>>
    BY <1>3 DEF BlankLine, DataAt
  <2>2. Len(rd.data) = 1 /\ rd.data[1] = Sym("data", w.e)
    BY <2>1
  <2>3. Document(rd.data) = w.e
    BY <2>2 DEF Document, Sym
  <2>4. p = "chat" \/ ~style.long
    BY <1>1, <1>3 DEF LongForm
  <2> QED BY <2>1, <2>3, <2>4 DEF Decoded
<1> QED BY <1>2, <1>3

LEMMA DispatchUnderstood ==
  ASSUME style \in Styles, NEW p \in Protocols, NEW ws, Alphabet(ws, p), NEW k \in Nat,
         k + 1 \in 1..Len(ws), NEW a, AccOK(a), Told(ws, k, p, a), NEW rd,
         rd.data = DataAt(ws[k + 1], style, BlankLine(ws[k + 1], style)),
         rd.name = NameAt(ws[k + 1], style, BlankLine(ws[k + 1], style)),
         NEW r, r = Dispatch(p, rd, a)
  PROVE  Understood(ws, k, p, r)
<1>1. ws[k + 1].e \in Opening(p) \cup Closing(p)
  BY DEF Alphabet
<1>2. Decoded(p, rd) = ws[k + 1].e /\ rd.data # <<>>
  BY <1>1, WholeEvent
<1>3. r = Consume(p, a, ws[k + 1].e)
  BY <1>2 DEF Dispatch
<1>4. CASE p = "chat"
  <2>1. r = ConsumeChat(a, ws[k + 1].e)
    BY <1>3, <1>4 DEF Consume
  <2> QED BY <1>4, <2>1, ChatUnderstood
<1>5. CASE p = "responses"
  <2>1. r = ConsumeResponses(a, ws[k + 1].e)
    BY <1>3, <1>5 DEF Consume
  <2> QED BY <1>5, <2>1, ResponsesUnderstood
<1>6. CASE p = "messages"
  <2>1. r = ConsumeMessages(a, ws[k + 1].e)
    BY <1>3, <1>6 DEF Consume
  <2> QED BY <1>6, <2>1, MessagesUnderstood
<1> QED BY <1>4, <1>5, <1>6 DEF Protocols

\* What is left of an event cut short is nothing, or no document.
LEMMA DispatchJunk ==
  ASSUME NEW p \in Protocols, NEW a, AccOK(a), NEW rd,
         rd.data = <<>> \/ Document(rd.data) = Junk, NEW r, r = Dispatch(p, rd, a)
  PROVE  r = a \/ r.error = "invalid_provider_stream"
<1>1. CASE rd.data = <<>>
  BY <1>1 DEF Dispatch
<1>2. CASE rd.data # <<>> /\ Document(rd.data) = Junk
  <2>1. Junk.type = "junk"
    BY DEF Junk, Plain, Event
  <2>2. Decoded(p, rd) = Junk
    BY <1>2, <2>1 DEF Decoded
  <2>3. r = Consume(p, a, Junk)
    BY <1>2, <2>2 DEF Dispatch
  <2>4. Consume(p, a, Junk) = Invalid(a)
    BY <2>1 DEF Consume, ConsumeChat, ConsumeResponses, ConsumeMessages, Protocols
  <2>5. r.error = "invalid_provider_stream"
    BY <2>3, <2>4 DEF Invalid, ProviderError, AccOK, Gathered
  <2> QED BY <2>5
<1> QED BY <1>1, <1>2

-----------------------------------------------------------------------------
(***************************************************************************)
(* What was read: k events, and of the next one the lines before t.        *)
(***************************************************************************)
Place(ws, st, k, t, pos, rd) ==
    \/ /\ k = Len(ws) /\ pos = UpTo(ws, k)
       /\ rd.data = <<>> /\ rd.name = "" /\ rd.eventBytes = 0
    \/ /\ k < Len(ws) /\ t \in FirstLine(ws[k + 1], st)..BlankLine(ws[k + 1], st)
       /\ pos = UpTo(ws, k) + Offset(ws[k + 1], st, t)
       /\ rd.data = DataAt(ws[k + 1], st, t) /\ rd.name = NameAt(ws[k + 1], st, t)
       /\ rd.eventBytes = BytesAt(ws[k + 1], st, t)

\* The first m symbols of the buffer and the pipe are what follows in T.
Unread(T, pos, m, buffer, rest) ==
    /\ m \in 0..Len(buffer) /\ pos + m + Len(rest) = Len(T)
    /\ \A q \in 1..m : buffer[q] = T[pos + q]
    /\ \A q \in 1..Len(rest) : rest[q] = T[pos + m + q]

\* A line cut short before the end of the body.
Severed(T, pos, m, buffer, rest) ==
    /\ Len(buffer) = m + 1 /\ Len(rest) > 0
    /\ buffer[m + 1] \in {Mark("comment"), Mark("head")}
    /\ T[pos + m + 1].s \in {"data", "head", "tail"}

\* Of the last event only a part can be read.
Broke(ws, st, k, rd) ==
    \/ rd.data = <<>> \/ Document(rd.data) = Junk
    \/ /\ k < Len(ws)
       /\ rd.data = DataAt(ws[k + 1], st, BlankLine(ws[k + 1], st))
       /\ rd.name = NameAt(ws[k + 1], st, BlankLine(ws[k + 1], st))

\* The line that _pop_sse_line returns: whole, ...
Whole(b, m, n, st, popped) ==
    /\ n + EndLen(st) <= m
    /\ popped.line = SubSeq(b, 1, n)
    /\ popped.rest = SubSeq(b, n + EndLen(st) + 1, Len(b))

\* ... or with half of its CRLF, or with none of its ending, ...
Short(b, m, n, rest, popped) ==
    /\ m = Len(b) /\ Len(rest) > 0 /\ popped.rest = <<>>
    /\ \/ m = n + 1 /\ popped.line = SubSeq(b, 1, n)
       \/ m >= 1 /\ m <= n /\ popped.line = b

\* ... or a part of its content.
Stub(T, pos, b, m, n, rest, popped) ==
    /\ Severed(T, pos, m, b, rest) /\ m = 0 /\ n = 1
    /\ popped.line = b /\ popped.rest = <<>>

LEMMA PopNow ==
  ASSUME NEW b \in Seq(Symbols), NEW eof \in BOOLEAN, NEW rest \in Seq(Symbols),
         NEW st \in Styles, NEW T \in Seq(Symbols), st.ending = "CR" => NoLF(T),
         NEW pos \in Nat, NEW n \in Nat, NEW body, n # 0 => body.s \notin {"CR", "LF"},
         n <= 1 \/ body.s = "comment", Lays(T, pos, n, body, st),
         NEW m, Unread(T, pos, m, b, rest),
         m = Len(b) \/ (eof /\ Severed(T, pos, m, b, rest)),
         NEW popped, popped = Popped(b, eof), popped.some = TRUE
  PROVE  \/ Whole(b, m, n, st, popped)
         \/ eof /\ Short(b, m, n, rest, popped)
         \/ eof /\ Stub(T, pos, b, m, n, rest, popped)
<1>1. /\ Len(b) \in Nat /\ Len(rest) \in Nat /\ m \in 0..Len(b) /\ Len(T) \in Nat
      /\ pos + m + Len(rest) = Len(T) /\ pos + n + EndLen(st) <= Len(T)
  BY LenProperties DEF Unread, Lays
<1>2. EndLen(st) = (IF st.ending = "CRLF" THEN 2 ELSE 1)
      /\ st.ending \in {"LF", "CR", "CRLF"}
  BY DEF EndLen, Styles
<1>3. \A q \in 1..m : q <= n => b[q].s \notin {"CR", "LF"}
  <2> TAKE q \in 1..m
  <2> HAVE q <= n
  <2>1. b[q] = T[pos + q]
    BY DEF Unread
  <2>2. T[pos + q] = body
    BY <1>1 DEF Lays
  <2> QED BY <2>1, <2>2, <1>1
<1>4. m >= n + 1 => b[n + 1].s = FirstEnd(st)
  <2> HAVE m >= n + 1
  <2>1. n + 1 \in 1..m
    BY <1>1
  <2>2. b[n + 1] = T[pos + (n + 1)] /\ pos + (n + 1) = pos + n + 1
    BY <2>1 DEF Unread
  <2>3. b[n + 1] = Mark(FirstEnd(st))
    BY <2>2 DEF Lays
  <2> QED BY <2>3 DEF Mark, Sym
<1>5. m >= n + 2 /\ st.ending = "CRLF" => b[n + 2].s = "LF"
  <2> HAVE m >= n + 2 /\ st.ending = "CRLF"
  <2>1. n + 2 \in 1..m
    BY <1>1
  <2>2. b[n + 2] = T[pos + (n + 2)] /\ pos + (n + 2) = pos + n + 2
    BY <2>1 DEF Unread
  <2>3. b[n + 2] = Mark("LF")
    BY <2>2 DEF Lays
  <2> QED BY <2>3 DEF Mark, Sym
<1>6. Len(b) = m \/ (Len(b) = m + 1 /\ eof /\ Severed(T, pos, m, b, rest))
  BY DEF Severed
<1>7. Severed(T, pos, m, b, rest) => /\ b[m + 1].s \in {"comment", "head"}
                                     /\ T[pos + m + 1].s \in {"data", "head", "tail"}
                                     /\ Len(rest) > 0
  BY DEF Severed, Mark, Sym
<1>8. st.ending = "CR" => NoLF(b)
  <2> HAVE st.ending = "CR"
  <2> SUFFICES ASSUME NEW i \in 1..Len(b) PROVE b[i].s # "LF"
    BY DEF NoLF
  <2>1. CASE i <= m
    <3>1. b[i] = T[pos + i] /\ pos + i \in 1..Len(T)
      BY <1>1, <2>1 DEF Unread
    <3> QED BY <3>1 DEF NoLF
  <2>2. CASE i = m + 1 /\ Severed(T, pos, m, b, rest)
    BY <1>7, <2>2
  <2> QED BY <1>1, <1>6, <2>1, <2>2
<1>9. CASE n + EndLen(st) <= m /\ (eof \/ st.ending # "CR" \/ n + 2 <= Len(b))
  <2>1. n + EndLen(st) <= Len(b)
    BY <1>1, <1>2, <1>9
  <2>2. \A q \in 1..n : b[q].s \notin {"CR", "LF"}
    BY <1>1, <1>2, <1>3, <1>9
  <2>3. b[n + 1].s = FirstEnd(st) /\ (st.ending = "CRLF" => b[n + 2].s = "LF")
    BY <1>1, <1>2, <1>4, <1>5, <1>9
  <2>4. popped.line = SubSeq(b, 1, n) /\ popped.rest = SubSeq(b, n + EndLen(st) + 1, Len(b))
    BY <1>8, <1>9, <2>1, <2>2, <2>3, PopWhole
  <2> QED BY <1>9, <2>4 DEF Whole
<1>10. CASE n + EndLen(st) <= m /\ ~(eof \/ st.ending # "CR" \/ n + 2 <= Len(b))
  <2>1. ~eof /\ st.ending = "CR" /\ Len(b) = n + 1 /\ m = n + 1
    BY <1>1, <1>2, <1>6, <1>10
  <2>2. b[n + 1].s = "CR"
    BY <1>1, <1>4, <2>1 DEF FirstEnd
  <2>3. popped.some = FALSE
    <3>1. \A q \in 1..Len(b) : q <= n => b[q].s \notin {"CR", "LF"}
      BY <1>3, <2>1
    <3>2. Len(b) <= n + 1 /\ (n + 1 = Len(b) => b[n + 1].s = "CR")
      BY <2>1, <2>2
    <3> QED BY <2>1, <3>1, <3>2, PopNothing
  <2> QED BY <2>3
<1>11. CASE m = n + 1 /\ st.ending = "CRLF"
  <2>1. ~Severed(T, pos, m, b, rest)
    <3>1. T[pos + n + 2] = Mark("LF") /\ pos + m + 1 = pos + n + 2
      BY <1>1, <1>11 DEF Lays
    <3>2. T[pos + m + 1].s = "LF"
      BY <3>1 DEF Mark, Sym
    <3> QED BY <1>7, <3>2
  <2>2. m = Len(b)
    BY <2>1
  <2>3. b[n + 1].s = "CR" /\ \A q \in 1..n : b[q].s \notin {"CR", "LF"}
    BY <1>1, <1>3, <1>4, <1>11 DEF FirstEnd
  <2>4. eof
    <3> SUFFICES ASSUME ~eof PROVE FALSE
      OBVIOUS
    <3>1. \A q \in 1..Len(b) : q <= n => b[q].s \notin {"CR", "LF"}
      BY <1>3, <2>2
    <3>2. Len(b) <= n + 1 /\ (n + 1 = Len(b) => b[n + 1].s = "CR")
      BY <1>11, <2>2, <2>3
    <3>3. popped.some = FALSE
      BY <3>1, <3>2, PopNothing
    <3> QED BY <3>3
  <2>5. popped.line = SubSeq(b, 1, n) /\ popped.rest = <<>>
    BY <1>11, <2>2, <2>3, <2>4, PopHalf
  <2>6. Len(rest) > 0
    BY <1>1, <1>2, <1>11
  <2> QED BY <1>11, <2>2, <2>4, <2>5, <2>6 DEF Short
<1>12. CASE m <= n /\ m = Len(b)
  <2>1. eof
    <3> SUFFICES ASSUME ~eof PROVE FALSE
      OBVIOUS
    <3>1. Len(b) <= n + 1 /\ n + 1 # Len(b)
      BY <1>1, <1>12
    <3>2. popped.some = FALSE
      BY <1>3, <1>12, <3>1, PopNothing
    <3> QED BY <3>2
  <2>2. b # <<>>
    BY PopEmpty
  <2>3. m >= 1
    BY <1>1, <1>12, <2>2, EmptySeq
  <2>4. \A q \in 1..Len(b) : b[q].s \notin {"CR", "LF"}
    BY <1>1, <1>3, <1>12
  <2>5. popped.line = b /\ popped.rest = <<>>
    BY <2>1, <2>2, <2>4, PopCut
  <2>6. Len(rest) > 0
    BY <1>1, <1>2, <1>12
  <2> QED BY <1>12, <2>1, <2>3, <2>5, <2>6 DEF Short
<1>13. CASE m <= n /\ eof /\ Severed(T, pos, m, b, rest)
  <2>1. m # n
    <3> SUFFICES ASSUME m = n PROVE FALSE
      OBVIOUS
    <3>1. T[pos + m + 1].s = FirstEnd(st)
      BY DEF Lays, Mark, Sym
    <3> QED BY <1>7, <1>13, <3>1 DEF FirstEnd
  <2>2. T[pos + m + 1] = body
    <3>1. m + 1 \in 1..n /\ pos + (m + 1) = pos + m + 1
      BY <1>1, <1>13, <2>1
    <3> QED BY <3>1 DEF Lays
  <2>3. n = 1 /\ m = 0
    BY <1>1, <1>7, <1>13, <2>1, <2>2
  <2>4. Len(b) = 1 /\ b # <<>>
    <3>1. Len(b) = 1
      BY <1>13, <2>3 DEF Severed
    <3>2. ASSUME b = <<>> PROVE FALSE
      <4>1. Len(b) = 0
        BY <3>2
      <4> QED BY <3>1, <4>1
    <3> QED BY <3>1, <3>2
  <2>5. \A q \in 1..Len(b) : b[q].s \notin {"CR", "LF"}
    BY <1>7, <1>13, <2>3, <2>4
  <2>6. popped.line = b /\ popped.rest = <<>>
    BY <1>13, <2>4, <2>5, PopCut
  <2> QED BY <1>13, <2>3, <2>6 DEF Stub
<1>14. \/ n + EndLen(st) <= m \/ (m = n + 1 /\ st.ending = "CRLF") \/ m <= n
  BY <1>1, <1>2
<1> QED BY <1>6, <1>9, <1>10, <1>11, <1>12, <1>13, <1>14

\* Where the reader stands, the line is.
LEMMA Here ==
  ASSUME NEW st \in Styles, NEW T, NEW ws, NEW p, Sent(T, ws, st, p), NEW k \in Nat,
         k < Len(ws), NEW w, w = ws[k + 1], NEW t \in FirstLine(w, st)..BlankLine(w, st),
         NEW pos, pos = UpTo(ws, k) + Offset(w, st, t)
  PROVE  /\ Row(w, st) /\ pos \in Nat /\ UpTo(ws, k) \in Nat
         /\ UpTo(ws, k + 1) = UpTo(ws, k) + EventLength(w, st)
         /\ Lays(T, pos, BodyLen(w, st, t), Body(w, st, t), st)
<1>1. ws \in Seq(WireRow) /\ Len(ws) \in Nat
  BY LenProperties DEF Sent
<1>2. k + 1 \in 1..Len(ws) /\ k + 1 - 1 = k /\ k \in 0..Len(ws)
  BY <1>1
<1>3. EventOnWire(T, ws, st, p, k + 1)
  BY <1>2 DEF Sent
<1>4. /\ Row(w, st) /\ w.upto = UpTo(ws, k) + EventLength(w, st)
      /\ LaidOut(T, UpTo(ws, k), w, st)
  BY <1>2, <1>3 DEF EventOnWire
<1>5. UpTo(ws, k) \in Nat
  BY <1>1, <1>2, UpToOK
<1>6. Offset(w, st, t) \in Nat
  BY <1>4, Geometry
<1>7. UpTo(ws, k + 1) = w.upto
  BY DEF UpTo
<1>8. Lays(T, pos, BodyLen(w, st, t), Body(w, st, t), st)
  BY <1>4 DEF LaidOut
<1> QED BY <1>4, <1>5, <1>6, <1>7, <1>8

LEMMA BodyKind ==
  ASSUME NEW w, NEW st \in Styles, Row(w, st), NEW t \in FirstLine(w, st)..BlankLine(w, st)
  PROVE  /\ BodyLen(w, st, t) # 0 => Body(w, st, t).s \notin {"CR", "LF"}
         /\ BodyLen(w, st, t) <= 1 \/ Body(w, st, t).s = "comment"
<1>1. t # BlankLine(w, st) => Body(w, st, t).s \notin {"CR", "LF"}
  BY LineContent
<1>2. t = BlankLine(w, st) => BodyLen(w, st, t) = 0
  BY Geometry
<1>3. t # 0 => BodyLen(w, st, t) <= 1
  BY Geometry
<1>4. t = 0 => Body(w, st, t).s = "comment"
  BY DEF Body, Mark, Sym
<1> QED BY <1>1, <1>2, <1>3, <1>4

LEMMA HeadIsJunk ==
  ASSUME NEW x, x.s = "head"
  PROVE  Document(<<x>>) = Junk
<1>1. Len(<<x>>) = 1 /\ <<x>>[1] = x
  OBVIOUS
<1> QED BY <1>1 DEF Document

LEMMA PartBroke ==
  ASSUME NEW ws, NEW k, k < Len(ws), NEW w, w = ws[k + 1], NEW st \in Styles, Row(w, st),
         NEW t \in FirstLine(w, st)..BlankLine(w, st),
         NEW rd, rd.data = DataAt(w, st, t), rd.name = NameAt(w, st, t)
  PROVE  Broke(ws, st, k, rd)
<1>1. CASE t = BlankLine(w, st)
  BY <1>1 DEF Broke
<1>2. CASE t # BlankLine(w, st) /\ LongForm(w, st)
  <2>1. t \in 0..3
    BY <1>2 DEF BlankLine, FirstLine
  <2>2. CASE t = 3
    <3>1. rd.data = <<Sym("head", w.e)>> /\ Sym("head", w.e).s = "head"
      BY <1>2, <2>2 DEF DataAt, Sym
    <3> QED BY <3>1, HeadIsJunk DEF Broke
  <2>3. CASE t # 3
    BY <1>2, <2>1, <2>3 DEF DataAt, Broke
  <2> QED BY <2>2, <2>3
<1>3. CASE t # BlankLine(w, st) /\ ~LongForm(w, st)
  BY <1>3 DEF BlankLine, DataAt, Broke
<1> QED BY <1>1, <1>2, <1>3

LEMMA AppendTwo == ASSUME NEW x, NEW y PROVE Len(Append(<<x>>, y)) = 2 /\ Append(<<x>>, y)[2] = y
OBVIOUS

LEMMA StubBroke ==
  ASSUME NEW ws, NEW k, k < Len(ws), NEW w, w = ws[k + 1], NEW st \in Styles, Row(w, st),
         NEW t \in FirstLine(w, st)..BlankLine(w, st), t # BlankLine(w, st),
         NEW rd, rd.name = NameAt(w, st, t), Body(w, st, t).s \in {"data", "head", "tail"},
         \/ rd.data = DataAt(w, st, t) \/ rd.data = Append(DataAt(w, st, t), Mark("head"))
  PROVE  Broke(ws, st, k, rd)
<1>1. CASE rd.data = DataAt(w, st, t)
  BY <1>1, PartBroke
<1>2. CASE rd.data = Append(DataAt(w, st, t), Mark("head"))
  <2>1. Mark("head").s = "head"
    BY DEF Mark, Sym
  <2>2. CASE DataAt(w, st, t) = <<>>
    <3>1. rd.data = <<Mark("head")>>
      BY <1>2, <2>2
    <3> QED BY <2>1, <3>1, HeadIsJunk DEF Broke
  <2>3. CASE DataAt(w, st, t) # <<>>
    <3>1. LongForm(w, st) /\ t = 3
      BY <2>3 DEF DataAt, BlankLine
    <3>2. rd.data = Append(<<Sym("head", w.e)>>, Mark("head"))
      BY <1>2, <3>1 DEF DataAt
    <3>3. Len(rd.data) = 2 /\ rd.data[2].s = "head"
      BY <2>1, <3>2, AppendTwo
    <3>4. Document(rd.data) = Junk
      BY <3>3 DEF Document
    <3> QED BY <3>4 DEF Broke
  <2> QED BY <2>2, <2>3
<1> QED BY <1>1, <1>2

\* What is left in the buffer and the pipe after a whole line.
LEMMA Onward ==
  ASSUME NEW b \in Seq(Symbols), NEW T, NEW rest, NEW pos \in Nat, NEW m,
         Unread(T, pos, m, b, rest), NEW c \in Nat, c <= m,
         NEW d, d = SubSeq(b, c + 1, Len(b))
  PROVE  /\ Unread(T, pos + c, m - c, d, rest)
         /\ m = Len(b) => m - c = Len(d)
         /\ Severed(T, pos, m, b, rest) => Severed(T, pos + c, m - c, d, rest)
<1>1. Len(b) \in Nat /\ m \in 0..Len(b)
  BY LenProperties DEF Unread
<1>2. Len(d) = Len(b) - c /\ \A i \in 1..(Len(b) - c) : d[i] = b[c + i]
  <2>1. c + 1 \in 1..(Len(b) + 1) /\ Len(b) \in (c + 1 - 1)..Len(b)
    BY <1>1
  <2>2. Len(d) = Len(b) - (c + 1) + 1
    BY <1>1, <2>1, SubSeqProperties
  <2>3. \A i \in 1..(Len(b) - (c + 1) + 1) : d[i] = b[c + 1 + i - 1]
    BY <1>1, <2>1, SubSeqProperties
  <2>4. \A i \in 1..(Len(b) - c) : d[i] = b[c + i]
    <3> TAKE i \in 1..(Len(b) - c)
    <3>1. c + 1 + i - 1 = c + i /\ i \in 1..(Len(b) - (c + 1) + 1)
      BY <1>1
    <3> QED BY <2>3, <3>1
  <2> QED BY <1>1, <2>2, <2>4
<1>3. m - c \in 0..Len(d) /\ pos + c + (m - c) = pos + m
  BY <1>1, <1>2
<1>4. \A q \in 1..(m - c) : d[q] = T[pos + c + q]
  <2> TAKE q \in 1..(m - c)
  <2>1. c + q \in 1..m /\ q \in 1..(Len(b) - c) /\ pos + (c + q) = pos + c + q
    BY <1>1
  <2>2. b[c + q] = T[pos + (c + q)]
    BY <2>1 DEF Unread
  <2> QED BY <1>2, <2>1, <2>2
<1>5. Unread(T, pos + c, m - c, d, rest)
  <2>1. pos + c + (m - c) + Len(rest) = Len(T)
    BY <1>3 DEF Unread
  <2>2. \A q \in 1..Len(rest) : rest[q] = T[pos + c + (m - c) + q]
    BY <1>3 DEF Unread
  <2> QED BY <1>3, <1>4, <2>1, <2>2 DEF Unread
<1>6. ASSUME Severed(T, pos, m, b, rest)
      PROVE  Severed(T, pos + c, m - c, d, rest)
  <2>1. Len(b) = m + 1 /\ Len(d) = m - c + 1
    BY <1>1, <1>2, <1>6 DEF Severed
  <2>2. d[m - c + 1] = b[m + 1]
    <3>1. m - c + 1 \in 1..(Len(b) - c) /\ c + (m - c + 1) = m + 1
      BY <1>1, <2>1
    <3> QED BY <1>2, <3>1
  <2>3. pos + c + (m - c) + 1 = pos + m + 1
    BY <1>1
  <2> QED BY <1>6, <2>1, <2>2, <2>3 DEF Severed
<1> QED BY <1>1, <1>2, <1>5, <1>6

\* The reader has k events and follows the next one, ...
Follows(T, ws, st, rest, rd, k, t, pos, m) ==
    /\ pos \in Nat /\ Place(ws, st, k, t, pos, rd)
    /\ Unread(T, pos, m, rd.buffer, rest)
    /\ \/ rd.eof = FALSE /\ m = Len(rd.buffer) /\ rd.wireBytes = pos + m
       \/ rd.eof = TRUE /\ m = Len(rd.buffer)
       \/ rd.eof = TRUE /\ Severed(T, pos, m, rd.buffer, rest)

\* ... or the end of the body has cut the next one.
Torn(ws, st, rest, rd, k) ==
    /\ rd.eof = TRUE /\ rd.buffer = <<>> /\ rest # <<>> /\ Broke(ws, st, k, rd)

Reading(T, ws, st, p, rest, rd, a, k) ==
    /\ Sent(T, ws, st, p) /\ k \in 0..Len(ws) /\ Told(ws, k, p, a)
    /\ \/ \E t, pos, m : Follows(T, ws, st, rest, rd, k, t, pos, m)
       \/ Torn(ws, st, rest, rd, k)

\* With every event read there is nothing more to read.
LEMMA NothingLeft ==
  ASSUME NEW T, NEW ws, NEW st, NEW p, Sent(T, ws, st, p), NEW b \in Seq(Symbols),
         NEW rest \in Seq(Symbols), NEW pos, pos = UpTo(ws, Len(ws)), NEW m,
         Unread(T, pos, m, b, rest)
  PROVE  m = 0 /\ Len(rest) = 0
<1>1. Len(ws) \in Nat /\ ws \in Seq(WireRow)
  BY LenProperties DEF Sent
<1>2. Len(T) = pos /\ pos \in Nat
  BY <1>1, UpToOK DEF Sent
<1>3. Len(b) \in Nat /\ Len(rest) \in Nat /\ m \in 0..Len(b) /\ pos + m + Len(rest) = Len(T)
  BY LenProperties DEF Unread
<1> QED BY <1>2, <1>3

LEMMA Overflowing ==
  ASSUME NEW rd, Overflows(rd), NEW eof \in BOOLEAN, ~eof
  PROVE  Popped(rd.buffer, eof).some # TRUE /\ rd.eventBytes + Len(rd.buffer) > EventLimit
<1>1. eof = FALSE
  OBVIOUS
<1>2. Popped(rd.buffer, FALSE) = Popped(rd.buffer, eof)
  BY <1>1, Zenon
<1>3. ~Popped(rd.buffer, FALSE).some
  BY Zenon DEF Overflows
<1>4. rd.eventBytes + Len(rd.buffer) > EventLimit
  BY Zenon DEF Overflows
<1> QED BY <1>2, <1>3, <1>4, Zenon

\* A buffer without a line that is too long belongs to an event that is.
LEMMA OverflowExcuse ==
  ASSUME NEW st \in Styles, NEW T, NEW ws, NEW p, Sent(T, ws, st, p), NEW k \in 0..Len(ws),
         NEW rest \in Seq(Symbols), NEW rd, rd.buffer \in Seq(Symbols), NEW t, NEW pos, NEW m,
         Follows(T, ws, st, rest, rd, k, t, pos, m), rd.eof = FALSE, Overflows(rd)
  PROVE  \E i \in 1..Len(ws) : ws[i].size >= EventLimit
<1>1. /\ pos \in Nat /\ Place(ws, st, k, t, pos, rd) /\ m = Len(rd.buffer)
      /\ Unread(T, pos, m, rd.buffer, rest)
  BY DEF Follows
<1>2. PICK b : b = rd.buffer
  OBVIOUS
<1>3. PICK eof \in BOOLEAN : ~eof
  OBVIOUS
<1>4. Popped(b, eof).some # TRUE /\ rd.eventBytes + Len(b) > EventLimit
  BY <1>2, <1>3, Overflowing
<1>5. Len(b) \in Nat /\ EventLimit \in Nat /\ Len(ws) \in Nat /\ m = Len(b)
      /\ b \in Seq(Symbols) /\ T \in Seq(Symbols) /\ k \in Nat
  BY <1>1, <1>2, LenProperties, StreamAssumption DEF Sent
<1>6. CASE k = Len(ws) /\ pos = UpTo(ws, k) /\ rd.eventBytes = 0
  <2>1. Len(b) = 0
    BY <1>1, <1>2, <1>6, NothingLeft
  <2> QED BY <1>4, <1>5, <1>6, <2>1
<1>7. CASE /\ k < Len(ws) /\ t \in FirstLine(ws[k + 1], st)..BlankLine(ws[k + 1], st)
           /\ pos = UpTo(ws, k) + Offset(ws[k + 1], st, t)
           /\ rd.eventBytes = BytesAt(ws[k + 1], st, t)
  <2>1. PICK w : w = ws[k + 1]
    OBVIOUS
  <2>2. PICK n : n = BodyLen(w, st, t)
    OBVIOUS
  <2>3. Row(w, st) /\ Lays(T, pos, n, Body(w, st, t), st)
    BY <1>5, <1>7, <2>1, <2>2, Here
  <2>4. n \in Nat /\ EndLen(st) \in {1, 2} /\ BytesAt(w, st, t) \in Nat
    BY <1>7, <2>1, <2>2, <2>3, Geometry
  <2>5. BytesAt(w, st, t) + n <= w.size
    <3>1. CASE t = BlankLine(w, st)
      <4>1. n = 0 /\ BytesAt(w, st, t) <= w.size
        BY <1>7, <2>1, <2>2, <2>3, <3>1, Geometry
      <4> QED BY <2>4, <4>1
    <3>2. CASE t # BlankLine(w, st)
      <4>1. BytesAt(w, st, t) + n + 1 <= w.size /\ w.size \in Nat
        BY <1>7, <2>1, <2>2, <2>3, <3>2, Geometry DEF Row, WireRow
      <4> QED BY <2>4, <4>1
    <3> QED BY <3>1, <3>2
  <2>6. w.size \in Nat /\ k + 1 \in 1..Len(ws)
    BY <1>5, <1>7, <2>3 DEF Row, WireRow
  <2>7. n # 0 => Body(w, st, t).s \notin {"CR", "LF"}
    BY <1>7, <2>1, <2>2, <2>3, BodyKind
  <2>8. Len(b) <= n + 1
    <3> SUFFICES ASSUME Len(b) >= n + 2 PROVE FALSE
      BY <1>5, <2>4
    <3>1. \A q \in 1..Len(b) : b[q] = T[pos + q]
      BY <1>1, <1>2, <1>5 DEF Unread
    <3>2. \A q \in 1..n : b[q].s \notin {"CR", "LF"}
      <4> TAKE q \in 1..n
      <4>1. q \in 1..Len(b) /\ n # 0
        BY <1>5, <2>4
      <4>2. T[pos + q] = Body(w, st, t)
        BY <2>3 DEF Lays
      <4> QED BY <2>7, <3>1, <4>1, <4>2
    <3>3. b[n + 1].s = FirstEnd(st)
      <4>1. n + 1 \in 1..Len(b) /\ pos + (n + 1) = pos + n + 1
        BY <1>1, <1>5, <2>4
      <4>2. b[n + 1] = Mark(FirstEnd(st))
        BY <2>3, <3>1, <4>1 DEF Lays
      <4> QED BY <4>2 DEF Mark, Sym
    <3>4. st.ending = "CRLF" => b[n + 2].s = "LF"
      <4> HAVE st.ending = "CRLF"
      <4>1. n + 2 \in 1..Len(b) /\ pos + (n + 2) = pos + n + 2
        BY <1>1, <1>5, <2>4
      <4>2. b[n + 2] = Mark("LF")
        BY <2>3, <3>1, <4>1 DEF Lays
      <4> QED BY <4>2 DEF Mark, Sym
    <3>5. st.ending = "CR" => NoLF(b)
      <4> HAVE st.ending = "CR"
      <4>1. NoLF(T)
        BY DEF Sent
      <4>2. Len(rest) \in Nat /\ pos + Len(b) + Len(rest) = Len(T) /\ Len(T) \in Nat
        BY <1>1, <1>5, LenProperties DEF Unread
      <4>3. \A q \in 1..Len(b) : pos + q \in 1..Len(T)
        BY <1>1, <1>5, <4>2
      <4> QED BY <3>1, <4>1, <4>3 DEF NoLF
    <3>6. n + EndLen(st) <= Len(b)
      BY <1>5, <2>4
    <3>7. Popped(b, eof).some = TRUE
      BY <1>5, <2>4, <3>2, <3>3, <3>4, <3>5, <3>6, PopWhole
    <3> QED BY <1>4, <3>7
  <2>9. w.size >= EventLimit
    <3>1. BytesAt(w, st, t) + Len(b) > EventLimit
      BY <1>4, <1>7, <2>1
    <3> QED BY <1>5, <2>4, <2>5, <2>6, <2>8, <3>1
  <2> QED BY <2>1, <2>6, <2>9
<1> QED BY <1>1, <1>6, <1>7 DEF Place

\* The line that is read is line t of event k + 1.
Stand(ws, st, k, t, pos, rd, w) ==
    /\ k < Len(ws) /\ t \in FirstLine(w, st)..BlankLine(w, st)
    /\ pos = UpTo(ws, k) + Offset(w, st, t)
    /\ rd.data = DataAt(w, st, t) /\ rd.name = NameAt(w, st, t)
    /\ rd.eventBytes = BytesAt(w, st, t)

LEMMA ThisLine ==
  ASSUME NEW st \in Styles, NEW T, NEW ws, NEW p, Sent(T, ws, st, p), NEW k \in 0..Len(ws),
         NEW rest \in Seq(Symbols), NEW rd, rd.buffer \in Seq(Symbols), rd.eof \in BOOLEAN,
         NEW t, NEW pos, NEW m, Follows(T, ws, st, rest, rd, k, t, pos, m),
         NEW popped, popped = Popped(rd.buffer, rd.eof), popped.some = TRUE,
         NEW w, w = ws[k + 1], NEW n, n = BodyLen(w, st, t)
  PROVE  /\ Stand(ws, st, k, t, pos, rd, w) /\ n \in Nat
         /\ Row(w, st) /\ Lays(T, pos, n, Body(w, st, t), st)
         /\ \/ Whole(rd.buffer, m, n, st, popped)
            \/ rd.eof = TRUE /\ Short(rd.buffer, m, n, rest, popped)
            \/ rd.eof = TRUE /\ Stub(T, pos, rd.buffer, m, n, rest, popped)
<1>1. PICK b : b = rd.buffer
  OBVIOUS
<1>2. PICK eof \in BOOLEAN : eof = rd.eof
  OBVIOUS
<1>3. /\ pos \in Nat /\ Place(ws, st, k, t, pos, rd) /\ Unread(T, pos, m, b, rest)
      /\ m = Len(b) \/ (eof /\ Severed(T, pos, m, b, rest))
  BY <1>1, <1>2 DEF Follows
<1>4. popped = Popped(b, eof) /\ b \in Seq(Symbols) /\ Len(b) \in Nat /\ k \in Nat
      /\ Len(ws) \in Nat
  BY <1>1, <1>2, LenProperties DEF Sent
<1>5. b # <<>>
  BY <1>4, PopEmpty
<1>6. ~(k = Len(ws) /\ pos = UpTo(ws, k))
  <2> SUFFICES ASSUME k = Len(ws), pos = UpTo(ws, k) PROVE FALSE
    OBVIOUS
  <2>1. m = 0 /\ Len(rest) = 0
    BY <1>3, <1>4, NothingLeft
  <2>2. Len(b) = 0
    BY <1>3, <2>1 DEF Severed
  <2> QED BY <1>4, <1>5, <2>2, EmptySeq
<1>7. Stand(ws, st, k, t, pos, rd, w)
  BY <1>3, <1>6 DEF Place, Stand
<1>8. Row(w, st) /\ Lays(T, pos, n, Body(w, st, t), st)
  BY <1>4, <1>7, Here DEF Stand
<1>9. n \in Nat
  BY <1>7, <1>8, Geometry DEF Stand
<1>10. PICK body : body = Body(w, st, t)
  OBVIOUS
<1>11. (n # 0 => body.s \notin {"CR", "LF"}) /\ (n <= 1 \/ body.s = "comment")
  BY <1>7, <1>8, <1>10, BodyKind DEF Stand
<1>12. T \in Seq(Symbols) /\ (st.ending = "CR" => NoLF(T))
  BY DEF Sent
<1>13. \/ Whole(b, m, n, st, popped)
       \/ eof /\ Short(b, m, n, rest, popped)
       \/ eof /\ Stub(T, pos, b, m, n, rest, popped)
  BY <1>3, <1>4, <1>8, <1>9, <1>10, <1>11, <1>12, PopNow
<1> QED BY <1>1, <1>2, <1>7, <1>8, <1>9, <1>13

\* After a whole line the reader follows what comes behind it.
LEMMA Followed ==
  ASSUME NEW st \in Styles, NEW T, NEW ws, NEW p, Sent(T, ws, st, p), NEW k \in 0..Len(ws),
         NEW rest \in Seq(Symbols), NEW rd, rd.buffer \in Seq(Symbols), rd.eof \in BOOLEAN,
         NEW t, NEW pos, NEW m, Follows(T, ws, st, rest, rd, k, t, pos, m),
         NEW n \in Nat, NEW popped, Whole(rd.buffer, m, n, st, popped),
         NEW nd, nd.buffer = popped.rest, nd.eof = rd.eof, nd.wireBytes = rd.wireBytes,
         NEW j, NEW s, NEW new, new = pos + n + EndLen(st), Place(ws, st, j, s, new, nd)
  PROVE  \E t2, pos2, m2 : Follows(T, ws, st, rest, nd, j, t2, pos2, m2)
<1>1. PICK b : b = rd.buffer
  OBVIOUS
<1>2. PICK c : c = n + EndLen(st)
  OBVIOUS
<1>3. PICK d : d = SubSeq(b, c + 1, Len(b))
  OBVIOUS
<1>4. c \in Nat /\ c <= m /\ nd.buffer = d /\ pos \in Nat
  BY <1>1, <1>2, <1>3 DEF Whole, EndLen, Follows
<1>5. Unread(T, pos, m, b, rest) /\ b \in Seq(Symbols) /\ Len(b) \in Nat /\ m \in Nat
  BY <1>1, LenProperties DEF Follows, Unread
<1>6. /\ Unread(T, pos + c, m - c, d, rest)
      /\ m = Len(b) => m - c = Len(d)
      /\ Severed(T, pos, m, b, rest) => Severed(T, pos + c, m - c, d, rest)
  BY <1>3, <1>4, <1>5, Onward
<1>7. pos + c = new /\ new \in Nat /\ (pos + c) + (m - c) = pos + m
  <2>1. EndLen(st) \in Nat
    BY DEF EndLen
  <2>2. new = pos + c
    BY <1>2, <1>4, <2>1
  <2>3. pos + c \in Nat /\ (pos + c) + (m - c) = pos + m
    BY <1>4, <1>5
  <2> QED BY <2>2, <2>3
<1>8. \/ nd.eof = FALSE /\ m - c = Len(nd.buffer) /\ nd.wireBytes = new + (m - c)
      \/ nd.eof = TRUE /\ m - c = Len(nd.buffer)
      \/ nd.eof = TRUE /\ Severed(T, new, m - c, nd.buffer, rest)
  <2>1. \/ rd.eof = FALSE /\ m = Len(b) /\ rd.wireBytes = pos + m
        \/ rd.eof = TRUE /\ m = Len(b)
        \/ rd.eof = TRUE /\ Severed(T, pos, m, b, rest)
    BY <1>1 DEF Follows
  <2> QED BY <1>4, <1>6, <1>7, <2>1
<1>9. Follows(T, ws, st, rest, nd, j, s, new, m - c)
  BY <1>4, <1>6, <1>7, <1>8 DEF Follows
<1> QED BY <1>9

\* process_line on a line with content.
Gathers(rd, popped, nd) ==
    LET line == popped.line
    IN  /\ nd.buffer = popped.rest /\ nd.eof = rd.eof /\ nd.wireBytes = rd.wireBytes
        /\ nd.eventBytes = rd.eventBytes + Len(line) + 1
        /\ nd.data = IF line[1].s \in {"data", "head", "tail"}
                     THEN Append(rd.data, line[1]) ELSE rd.data
        /\ nd.name = IF line[1].s = "name" THEN line[1].e.type ELSE rd.name

LEMMA LineOrStub ==
  ASSUME NEW w, NEW st \in Styles, Row(w, st), NEW t \in FirstLine(w, st)..BlankLine(w, st),
         t # BlankLine(w, st), NEW ws, NEW k, k < Len(ws), w = ws[k + 1],
         NEW rd, rd.data = DataAt(w, st, t), rd.name = NameAt(w, st, t),
         NEW popped, NEW nd, Gathers(rd, popped, nd)
  PROVE  /\ popped.line[1] = Body(w, st, t) =>
               nd.data = DataAt(w, st, t + 1) /\ nd.name = NameAt(w, st, t + 1)
         /\ /\ popped.line[1] \in {Mark("comment"), Mark("head")}
            /\ Body(w, st, t).s \in {"data", "head", "tail"}
            => Broke(ws, st, k, nd)
<1>1. PICK x : x = popped.line[1]
  OBVIOUS
<1>2. /\ nd.data = IF x.s \in {"data", "head", "tail"} THEN Append(rd.data, x) ELSE rd.data
      /\ nd.name = IF x.s = "name" THEN x.e.type ELSE rd.name
  BY <1>1 DEF Gathers
<1>3. ASSUME x = Body(w, st, t)
      PROVE  nd.data = DataAt(w, st, t + 1) /\ nd.name = NameAt(w, st, t + 1)
  BY <1>2, <1>3, LineContent
<1>4. ASSUME x \in {Mark("comment"), Mark("head")}, Body(w, st, t).s \in {"data", "head", "tail"}
      PROVE  Broke(ws, st, k, nd)
  <2>1. Mark("comment").s = "comment" /\ Mark("head").s = "head"
    BY DEF Mark, Sym
  <2>2. nd.name = NameAt(w, st, t)
    BY <1>2, <1>4, <2>1
  <2>3. \/ nd.data = DataAt(w, st, t) \/ nd.data = Append(DataAt(w, st, t), Mark("head"))
    BY <1>2, <1>4, <2>1
  <2> QED BY <1>4, <2>2, <2>3, StubBroke
<1> QED BY <1>1, <1>3, <1>4

LEMMA LineRead ==
  ASSUME NEW st \in Styles, NEW T, NEW ws, NEW p, Sent(T, ws, st, p), NEW k \in 0..Len(ws),
         NEW rest \in Seq(Symbols), NEW rd, rd.buffer \in Seq(Symbols), rd.eof \in BOOLEAN,
         NEW t, NEW pos, NEW m, Follows(T, ws, st, rest, rd, k, t, pos, m),
         NEW popped, popped = Popped(rd.buffer, rd.eof), popped.some = TRUE,
         popped.line # <<>>, NEW nd, Gathers(rd, popped, nd)
  PROVE  /\ nd.eventBytes > EventLimit => \E i \in 1..Len(ws) : ws[i].size >= EventLimit
         /\ \/ \E t2, pos2, m2 : Follows(T, ws, st, rest, nd, k, t2, pos2, m2)
            \/ Torn(ws, st, rest, nd, k)
<1>1. PICK w : w = ws[k + 1]
  OBVIOUS
<1>2. PICK n : n = BodyLen(w, st, t)
  OBVIOUS
<1>3. PICK b : b = rd.buffer
  OBVIOUS
<1>4. PICK line : line = popped.line
  OBVIOUS
<1>5. /\ Stand(ws, st, k, t, pos, rd, w) /\ n \in Nat
      /\ Row(w, st) /\ Lays(T, pos, n, Body(w, st, t), st)
      /\ \/ Whole(b, m, n, st, popped)
         \/ rd.eof = TRUE /\ Short(b, m, n, rest, popped)
         \/ rd.eof = TRUE /\ Stub(T, pos, b, m, n, rest, popped)
  BY <1>1, <1>2, <1>3, ThisLine
<1>6. /\ b \in Seq(Symbols) /\ Len(b) \in Nat /\ pos \in Nat /\ m \in 0..Len(b)
      /\ \A q \in 1..m : b[q] = T[pos + q]
  BY <1>3, LenProperties DEF Follows, Unread
<1>7. /\ k < Len(ws) /\ t \in FirstLine(w, st)..BlankLine(w, st)
      /\ pos = UpTo(ws, k) + Offset(w, st, t)
      /\ rd.data = DataAt(w, st, t) /\ rd.name = NameAt(w, st, t)
      /\ rd.eventBytes = BytesAt(w, st, t)
  BY <1>5 DEF Stand
<1>8. /\ nd.buffer = popped.rest /\ nd.eof = rd.eof /\ nd.wireBytes = rd.wireBytes
      /\ nd.eventBytes = BytesAt(w, st, t) + Len(line) + 1
  BY <1>4, <1>7 DEF Gathers
<1>9. /\ EndLen(st) \in {1, 2} /\ BytesAt(w, st, t) \in Nat /\ w.size \in Nat
  BY <1>5, <1>7, Geometry DEF Row, WireRow
<1>10. k + 1 \in 1..Len(ws)
  BY <1>7, LenProperties DEF Sent
<1>11. \A l \in 0..m : l <= n =>
          Len(SubSeq(b, 1, l)) = l /\ (l >= 1 => SubSeq(b, 1, l)[1] = Body(w, st, t))
  <2> TAKE l \in 0..m
  <2> HAVE l <= n
  <2>1. \A i \in 1..l : b[i] \in Symbols
    BY <1>6
  <2>2. Len(SubSeq(b, 1, l)) = l
    BY <1>6, <2>1, SubSeqProperties
  <2>3. ASSUME l >= 1 PROVE SubSeq(b, 1, l)[1] = Body(w, st, t)
    <3>1. SubSeq(b, 1, l)[1] = b[1]
      BY <1>6, <2>1, <2>3, SubSeqProperties
    <3>2. 1 \in 1..m /\ 1 \in 1..n
      BY <1>5, <1>6, <2>3
    <3>3. b[1] = T[pos + 1] /\ T[pos + 1] = Body(w, st, t)
      BY <1>5, <1>6, <3>2 DEF Lays
    <3> QED BY <3>1, <3>3
  <2> QED BY <2>2, <2>3
<1>12. SubSeq(b, 1, Len(b)) = b
  BY <1>6
<1>13. CASE Whole(b, m, n, st, popped)
  <2>1. line = SubSeq(b, 1, n) /\ n <= m /\ n \in 0..m
    BY <1>4, <1>5, <1>6, <1>9, <1>13 DEF Whole
  <2>2. Len(line) = n
    BY <1>5, <1>11, <2>1
  <2>3. n # 0
    BY <1>4, <2>1, <2>2, EmptySeq
  <2>4. line[1] = Body(w, st, t)
    BY <1>5, <1>11, <2>1, <2>3
  <2>5. t # BlankLine(w, st)
    BY <1>2, <1>5, <1>7, <2>3, Geometry
  <2>6. nd.data = DataAt(w, st, t + 1) /\ nd.name = NameAt(w, st, t + 1)
    BY <1>1, <1>4, <1>5, <1>7, <2>4, <2>5, LineOrStub
  <2>7. /\ t + 1 \in FirstLine(w, st)..BlankLine(w, st)
        /\ Offset(w, st, t + 1) = Offset(w, st, t) + n + EndLen(st)
        /\ BytesAt(w, st, t + 1) = BytesAt(w, st, t) + n + 1
        /\ BytesAt(w, st, t) + n + 1 <= w.size
        /\ Offset(w, st, t) \in Nat
    BY <1>2, <1>5, <1>7, <2>5, Geometry
  <2>8. UpTo(ws, k) \in Nat
    BY <1>1, <1>7, Here
  <2>9. PICK new : new = pos + n + EndLen(st)
    OBVIOUS
  <2>10. new = UpTo(ws, k) + Offset(w, st, t + 1)
    <3>1. UpTo(ws, k) \in Nat /\ Offset(w, st, t) \in Nat /\ n \in Nat /\ EndLen(st) \in Nat
      BY <1>5, <1>9, <2>7, <2>8
    <3>2. new = UpTo(ws, k) + Offset(w, st, t) + n + EndLen(st)
      BY <1>7, <2>9
    <3>3. Offset(w, st, t + 1) = Offset(w, st, t) + n + EndLen(st)
      BY <2>7
    <3> QED BY ONLY <3>1, <3>2, <3>3
  <2>11. Place(ws, st, k, t + 1, new, nd)
    BY <1>1, <1>7, <1>8, <2>2, <2>6, <2>7, <2>10 DEF Place
  <2>12. \E t2, pos2, m2 : Follows(T, ws, st, rest, nd, k, t2, pos2, m2)
    BY <1>3, <1>5, <1>8, <1>13, <2>9, <2>11, Followed
  <2>13. nd.eventBytes <= w.size
    BY <1>8, <2>2, <2>7
  <2>14. nd.eventBytes > EventLimit => w.size >= EventLimit
    BY <1>5, <1>8, <1>9, <2>2, <2>13, StreamAssumption
  <2> QED BY <1>1, <1>10, <2>12, <2>14
<1>14. CASE rd.eof = TRUE /\ Short(b, m, n, rest, popped)
  <2>1. PICK l : l = IF m <= n THEN m ELSE n
    OBVIOUS
  <2>2. line = SubSeq(b, 1, l) /\ l \in 0..m /\ l <= n /\ nd.buffer = <<>> /\ Len(rest) > 0
    <3>1. m = n + 1 \/ (m >= 1 /\ m <= n)
      BY <1>14 DEF Short
    <3>2. l \in 0..m /\ l <= n
      BY <1>5, <1>6, <2>1, <3>1
    <3>3. m = Len(b) /\ Len(rest) > 0 /\ nd.buffer = <<>>
      BY <1>8, <1>14 DEF Short
    <3>4. CASE m <= n
      <4>1. line = b /\ l = m
        BY <1>4, <1>5, <1>6, <1>14, <2>1, <3>4 DEF Short
      <4> QED BY <1>12, <3>2, <3>3, <4>1
    <3>5. CASE ~(m <= n)
      <4>1. line = SubSeq(b, 1, n) /\ l = n
        BY <1>4, <1>14, <2>1, <3>5 DEF Short
      <4> QED BY <3>2, <3>3, <4>1
    <3> QED BY <3>4, <3>5
  <2>3. Len(line) = l
    BY <1>11, <2>2
  <2>4. l # 0
    BY <1>4, <2>2, <2>3, EmptySeq
  <2>5. line[1] = Body(w, st, t) /\ n # 0
    <3>1. l \in 0..m /\ l <= n /\ m \in Nat /\ n \in Nat
      BY <1>5, <1>6, <2>2
    <3>2. l >= 1 /\ n # 0
      BY <2>4, <3>1
    <3>3. SubSeq(b, 1, l)[1] = Body(w, st, t)
      BY <1>11, <3>1, <3>2
    <3> QED BY <2>2, <3>2, <3>3
  <2>6. t # BlankLine(w, st)
    BY <1>2, <1>5, <1>7, <2>5, Geometry
  <2>7. nd.data = DataAt(w, st, t + 1) /\ nd.name = NameAt(w, st, t + 1)
    BY <1>1, <1>4, <1>5, <1>7, <2>5, <2>6, LineOrStub
  <2>8. /\ t + 1 \in FirstLine(w, st)..BlankLine(w, st)
        /\ BytesAt(w, st, t) + n + 1 <= w.size
    BY <1>2, <1>5, <1>7, <2>6, Geometry
  <2>9. Broke(ws, st, k, nd)
    BY <1>1, <1>5, <1>7, <2>7, <2>8, PartBroke
  <2>10. rest # <<>>
    BY <2>2
  <2>11. Torn(ws, st, rest, nd, k)
    BY <1>8, <1>14, <2>2, <2>9, <2>10 DEF Torn
  <2>12. nd.eventBytes > EventLimit => w.size >= EventLimit
    <3>1. l \in Nat /\ l <= n
      BY <1>5, <1>6, <2>2
    <3>2. nd.eventBytes = BytesAt(w, st, t) + l + 1
      BY <1>8, <2>3
    <3>3. nd.eventBytes <= w.size
      BY <1>5, <1>9, <2>8, <3>1, <3>2
    <3> QED BY <1>9, <3>1, <3>2, <3>3, StreamAssumption
  <2> QED BY <1>1, <1>10, <2>11, <2>12
<1>15. CASE rd.eof = TRUE /\ Stub(T, pos, b, m, n, rest, popped)
  <2>1. /\ line = b /\ m = 0 /\ n = 1 /\ nd.buffer = <<>> /\ Len(b) = 1 /\ Len(rest) > 0
        /\ b[1] \in {Mark("comment"), Mark("head")} /\ T[pos + 1].s \in {"data", "head", "tail"}
    BY <1>4, <1>6, <1>8, <1>15 DEF Stub, Severed
  <2>2. T[pos + 1] = Body(w, st, t)
    BY <1>5, <2>1 DEF Lays
  <2>3. t # BlankLine(w, st)
    <3>1. n # 0
      BY <2>1
    <3> QED BY <1>2, <1>5, <1>7, <3>1, Geometry
  <2>4. Broke(ws, st, k, nd)
    <3>1. popped.line[1] \in {Mark("comment"), Mark("head")}
      BY <1>4, <2>1
    <3>2. Body(w, st, t).s \in {"data", "head", "tail"}
      BY <2>1, <2>2
    <3> QED BY <1>1, <1>5, <1>7, <2>3, <3>1, <3>2, LineOrStub
  <2>5. BytesAt(w, st, t) + n + 1 <= w.size
    BY <1>2, <1>5, <1>7, <2>3, Geometry
  <2>6. rest # <<>>
    BY <2>1
  <2>7. Torn(ws, st, rest, nd, k)
    BY <1>8, <1>15, <2>1, <2>4, <2>6 DEF Torn
  <2>8. nd.eventBytes > EventLimit => w.size >= EventLimit
    BY <1>8, <1>9, <2>1, <2>5, StreamAssumption
  <2> QED BY <1>1, <1>10, <2>7, <2>8
<1> QED BY <1>5, <1>13, <1>14, <1>15

Cleared(rd) == rd.data = <<>> /\ rd.name = "" /\ rd.eventBytes = 0

\* Between two events the reader stands before the next one.
LEMMA FreshPlace ==
  ASSUME NEW st \in Styles, NEW T, NEW ws, NEW p, Sent(T, ws, st, p), NEW j \in 0..Len(ws),
         NEW nd, Cleared(nd), NEW pos, pos = UpTo(ws, j)
  PROVE  \E s : Place(ws, st, j, s, pos, nd)
<1>1. Len(ws) \in Nat /\ ws \in Seq(WireRow) /\ UpTo(ws, j) \in Nat
  BY LenProperties, UpToOK DEF Sent
<1>2. CASE j = Len(ws)
  BY <1>2 DEF Place, Cleared
<1>3. CASE j < Len(ws)
  <2>1. PICK w : w = ws[j + 1]
    OBVIOUS
  <2>2. j + 1 \in 1..Len(ws)
    BY <1>1, <1>3
  <2>3. Row(w, st)
    BY <2>1, <2>2 DEF Sent, EventOnWire
  <2>4. PICK s : s = FirstLine(w, st)
    OBVIOUS
  <2>5. /\ s \in FirstLine(w, st)..BlankLine(w, st)
        /\ Offset(w, st, s) = 0 /\ BytesAt(w, st, s) = 0
        /\ DataAt(w, st, s) = <<>> /\ NameAt(w, st, s) = ""
    BY <2>3, <2>4, StartsFresh
  <2>6. pos = UpTo(ws, j) + Offset(w, st, s)
    <3>1. Offset(w, st, s) = 0 /\ UpTo(ws, j) \in Nat
      BY <1>1, <2>5
    <3> QED BY <3>1
  <2>7. Place(ws, st, j, s, pos, nd)
    BY <1>3, <2>1, <2>5, <2>6 DEF Place, Cleared
  <2> QED BY <2>7
<1> QED BY <1>1, <1>2, <1>3

\* process_line on a blank line.
Clears(rd, popped, nd) ==
    /\ popped.line = <<>>
    /\ nd.buffer = popped.rest /\ nd.eof = rd.eof /\ nd.wireBytes = rd.wireBytes
    /\ Cleared(nd)

\* The event k + 1 is all there, and the reader goes on behind it.
Collects(T, ws, st, rest, rd, nd, k, w) ==
    /\ k + 1 \in 1..Len(ws) /\ rd.data = DataAt(w, st, BlankLine(w, st))
    /\ rd.name = NameAt(w, st, BlankLine(w, st))
    /\ \/ \E t2, pos2, m2 : Follows(T, ws, st, rest, nd, k + 1, t2, pos2, m2)
       \/ Torn(ws, st, rest, nd, k + 1)

LEMMA BlankRead ==
  ASSUME NEW st \in Styles, NEW T, NEW ws, NEW p, Sent(T, ws, st, p), NEW k \in 0..Len(ws),
         NEW rest \in Seq(Symbols), NEW rd, rd.buffer \in Seq(Symbols), rd.eof \in BOOLEAN,
         NEW t, NEW pos, NEW m, Follows(T, ws, st, rest, rd, k, t, pos, m),
         NEW popped, popped = Popped(rd.buffer, rd.eof), popped.some = TRUE,
         NEW nd, Clears(rd, popped, nd), NEW w, w = ws[k + 1]
  PROVE  Collects(T, ws, st, rest, rd, nd, k, w)
<1>1. PICK n : n = BodyLen(w, st, t)
  OBVIOUS
<1>2. PICK b : b = rd.buffer
  OBVIOUS
<1>3. /\ Stand(ws, st, k, t, pos, rd, w) /\ n \in Nat
      /\ Row(w, st) /\ Lays(T, pos, n, Body(w, st, t), st)
      /\ \/ Whole(b, m, n, st, popped)
         \/ rd.eof = TRUE /\ Short(b, m, n, rest, popped)
         \/ rd.eof = TRUE /\ Stub(T, pos, b, m, n, rest, popped)
  BY <1>1, <1>2, ThisLine
<1>4. b \in Seq(Symbols) /\ Len(b) \in Nat /\ pos \in Nat /\ m \in 0..Len(b)
  BY <1>2, LenProperties DEF Follows, Unread
<1>5. Len(popped.line) = 0
  BY DEF Clears
<1>6. /\ k < Len(ws) /\ t \in FirstLine(w, st)..BlankLine(w, st)
      /\ pos = UpTo(ws, k) + Offset(w, st, t)
      /\ rd.data = DataAt(w, st, t) /\ rd.name = NameAt(w, st, t)
  BY <1>3 DEF Stand
<1>7. EndLen(st) \in {1, 2}
  BY <1>3, <1>6, Geometry
<1>8. n <= m => Len(SubSeq(b, 1, n)) = n
  <2> HAVE n <= m
  <2>1. \A i \in 1..n : b[i] \in Symbols
    BY <1>3, <1>4
  <2> QED BY <1>3, <2>1, SubSeqProperties
<1>9. n = 0
  <2>1. CASE Whole(b, m, n, st, popped)
    <3>1. n <= m /\ popped.line = SubSeq(b, 1, n)
      BY <1>3, <1>4, <1>7, <2>1 DEF Whole
    <3> QED BY <1>5, <1>8, <3>1
  <2>2. CASE Short(b, m, n, rest, popped)
    <3>1. CASE m = n + 1 /\ popped.line = SubSeq(b, 1, n)
      <4>1. n <= m
        BY <1>3, <3>1
      <4> QED BY <1>5, <1>8, <3>1, <4>1
    <3>2. CASE m >= 1 /\ popped.line = b
      <4>1. m = 0
        BY <1>4, <1>5, <3>2
      <4> QED BY <3>2, <4>1
    <3> QED BY <2>2, <3>1, <3>2 DEF Short
  <2>3. CASE Stub(T, pos, b, m, n, rest, popped)
    <3>1. Len(b) = 1 /\ popped.line = b
      BY <2>3 DEF Stub, Severed
    <3>2. Len(b) = 0
      BY <1>5, <3>1, Zenon
    <3> QED BY <3>1, <3>2
  <2> QED BY <1>3, <2>1, <2>2, <2>3
<1>10. t = BlankLine(w, st)
  <2>1. t # BlankLine(w, st) => n >= 1
    BY <1>1, <1>3, <1>6, Geometry
  <2> QED BY <1>9, <2>1
<1>11. k + 1 \in 1..Len(ws) /\ k + 1 \in 0..Len(ws) /\ k \in Nat
  BY <1>6, LenProperties DEF Sent
<1>12. PICK new : new = UpTo(ws, k + 1)
  OBVIOUS
<1>13. new = pos + n + EndLen(st)
  <2>1. UpTo(ws, k + 1) = UpTo(ws, k) + EventLength(w, st) /\ UpTo(ws, k) \in Nat
    BY <1>6, <1>11, Here
  <2>2. EventLength(w, st) = Offset(w, st, t) + EndLen(st) /\ Offset(w, st, t) \in Nat
    BY <1>3, <1>6, <1>10, Geometry
  <2> QED BY <1>6, <1>7, <1>9, <1>12, <2>1, <2>2
<1>14. \/ \E t2, pos2, m2 : Follows(T, ws, st, rest, nd, k + 1, t2, pos2, m2)
       \/ Torn(ws, st, rest, nd, k + 1)
  <2>1. CASE Whole(b, m, n, st, popped)
    <3>1. PICK s : Place(ws, st, k + 1, s, new, nd)
      BY <1>11, <1>12, FreshPlace DEF Clears
    <3>2. nd.buffer = popped.rest /\ nd.eof = rd.eof /\ nd.wireBytes = rd.wireBytes
      BY Zenon DEF Clears
    <3> QED BY <1>2, <1>3, <1>13, <2>1, <3>1, <3>2, Followed
  <2>2. CASE rd.eof = TRUE /\ (Short(b, m, n, rest, popped) \/ Stub(T, pos, b, m, n, rest, popped))
    <3>1. popped.rest = <<>> /\ Len(rest) > 0
      BY <2>2 DEF Short, Stub, Severed
    <3>2. rest # <<>>
      BY <3>1
    <3>3. nd.buffer = <<>> /\ nd.eof = TRUE /\ nd.data = <<>>
      BY <2>2, <3>1 DEF Clears, Cleared
    <3> QED BY <3>2, <3>3 DEF Torn, Broke
  <2> QED BY <1>3, <2>1, <2>2
<1> QED BY <1>6, <1>10, <1>11, <1>14 DEF Collects

-----------------------------------------------------------------------------
(***************************************************************************)
(* What a call that is over says of the stream it read.                    *)
(***************************************************************************)
Excuses(ws, p, rest, eof, error) ==
    /\ error # "answered"
    /\ ws # <<>> =>
        /\ error = "invalid_provider_stream" => BrokenOn(ws, p) \/ (eof /\ rest # <<>>)
        /\ error = "incomplete_provider_stream" =>
              \/ rest # <<>> \/ ws[Len(ws)].e \notin Closing(p)
              \/ ws[Len(ws)].e.finish = "in_progress"
        /\ error = "provider_response_too_large" =>
              \/ \E i \in 1..Len(ws) : ws[i].size >= EventLimit
              \/ UpTo(ws, Len(ws)) > WireLimit
              \/ Cardinality(SpeakingIn(ws, Len(ws))) > TextLimit

Fair(ws, p, rest, eof, result) ==
    \/ result.status = "answered" /\ (ws # <<>> => Complete(ws, p, result))
    \/ Excuses(ws, p, rest, eof, result.status)

LEMMA FairNoResult ==
  ASSUME NEW ws, NEW p, NEW rest, NEW eof PROVE Fair(ws, p, rest, eof, NoResult)
<1>1. NoResult.status = ""
  BY DEF NoResult
<1> QED BY <1>1 DEF Fair, Excuses

\* What an accumulator raises has an excuse.
LEMMA ExcusedExcuses ==
  ASSUME NEW ws, NEW p, NEW error, Excused(ws, p, error), NEW rest, NEW eof
  PROVE  Excuses(ws, p, rest, eof, error)
BY DEF Excused, Excuses

LEMMA OtherErrors ==
  ASSUME NEW error \in {"network_error", "rate_limited", "provider_4xx", "provider_5xx",
             "authentication_error", "unsupported_provider_response_encoding",
             "invalid_provider_response", "output_truncated", "empty_response", "cancelled"},
         NEW ws, NEW p, NEW rest, NEW eof
  PROVE  Excuses(ws, p, rest, eof, error)
BY DEF Excuses

\* An attempt that fails: generate() goes on, or returns the error.
Fails(c, d) == /\ d.protocol = c.protocol /\ d.phase \in {"sending", "over"}
               /\ d.phase # "over" => d.result = NoResult

LEMMA FairFailure ==
  ASSUME CallOK(call), call.result = NoResult, NEW error, NEW retryable \in BOOLEAN,
         NEW d, d = AfterFailure(error, retryable), NEW ws, NEW rest, NEW eof,
         Excuses(ws, call.protocol, rest, eof, error)
  PROVE  Fails(call, d) /\ Fair(ws, d.protocol, rest, eof, d.result)
<1>1. CASE retryable /\ call.attempt <= MaxRetries
  <2>1. d = [call EXCEPT !.attempt = @ + 1, !.phase = "sending"]
    BY <1>1 DEF AfterFailure
  <2>2. d.protocol = call.protocol /\ d.phase = "sending" /\ d.result = NoResult
    BY <2>1 DEF CallOK
  <2> QED BY <2>2, FairNoResult DEF Fails
<1>2. CASE ~(retryable /\ call.attempt <= MaxRetries)
  <2>1. PICK r : r = [NoResult EXCEPT !.status = error]
    OBVIOUS
  <2>2. d = [call EXCEPT !.phase = "over", !.result = r]
    BY <1>2, <2>1 DEF AfterFailure
  <2>3. d.protocol = call.protocol /\ d.phase = "over" /\ d.result = r
    BY <2>2 DEF CallOK
  <2>4. r.status = error
    BY <2>1 DEF NoResult
  <2> QED BY <2>3, <2>4 DEF Fails, Fair
<1> QED BY <1>1, <1>2

LEMMA FairAnswer ==
  ASSUME CallOK(call), call.result = NoResult, NEW a, Replied(a),
         NEW ws, NEW rest, NEW eof, ws # <<>> => Complete(ws, call.protocol, a)
  PROVE  Fails(call, call') /\ Fair(ws, call'.protocol, rest, eof, call'.result)
<1>1. CASE a.text = <<>>
  <2>1. PICK error : error = IF a.finish = "length" THEN "output_truncated" ELSE "empty_response"
    OBVIOUS
  <2>2. PICK retryable \in BOOLEAN : retryable = FALSE
    OBVIOUS
  <2>3. AfterFailure(error, retryable) = AfterFailure(error, FALSE)
    BY <2>2, Zenon
  <2>4. call' = AfterFailure(error, FALSE)
    BY <1>1, <2>1, Zenon DEF Replied, AttemptFailed
  <2>5. Excuses(ws, call.protocol, rest, eof, error)
    BY <2>1, OtherErrors
  <2> QED BY <2>3, <2>4, <2>5, FairFailure
<1>2. CASE a.text # <<>>
  <2>1. PICK r : r = [status |-> "answered", text |-> a.text, in |-> a.in, out |-> a.out]
    OBVIOUS
  <2>2. call' = [call EXCEPT !.phase = "over", !.result = r]
    BY <1>2, <2>1 DEF Replied
  <2>3. call'.protocol = call.protocol /\ call'.phase = "over" /\ call'.result = r
    BY <2>2 DEF CallOK
  <2>4. r.status = "answered" /\ r.text = a.text /\ r.in = a.in /\ r.out = a.out
    BY <2>1
  <2>5. ws # <<>> => Complete(ws, call.protocol, r)
    BY <2>4 DEF Complete
  <2> QED BY <2>3, <2>4, <2>5 DEF Fails, Fair
<1> QED BY <1>1, <1>2

SameEvent(rd, nd) ==
    nd.data = rd.data /\ nd.name = rd.name /\ nd.eventBytes = rd.eventBytes

LEMMA PlaceKept ==
  ASSUME NEW ws, NEW st, NEW k, NEW t, NEW pos, NEW rd, NEW nd, SameEvent(rd, nd),
         Place(ws, st, k, t, pos, rd)
  PROVE  Place(ws, st, k, t, pos, nd)
BY DEF Place, SameEvent

\* process_chunk moves n symbols from the pipe to the buffer.
Takes(rd, rest, n, nd, left) ==
    /\ nd.buffer = rd.buffer \o SubSeq(rest, 1, n) /\ nd.wireBytes = rd.wireBytes + n
    /\ nd.eof = FALSE /\ SameEvent(rd, nd) /\ left = SubSeq(rest, n + 1, Len(rest))

LEMMA ChunkRead ==
  ASSUME NEW st \in Styles, NEW T, NEW ws, NEW p, Sent(T, ws, st, p), NEW k \in 0..Len(ws),
         NEW rest \in Seq(Symbols), NEW rd, rd.buffer \in Seq(Symbols), rd.eof = FALSE,
         NEW t, NEW pos, NEW m, Follows(T, ws, st, rest, rd, k, t, pos, m),
         NEW n \in 1..Len(rest), NEW nd, NEW left, Takes(rd, rest, n, nd, left)
  PROVE  /\ Follows(T, ws, st, left, nd, k, t, pos, m + n)
         /\ nd.wireBytes <= UpTo(ws, Len(ws))
         /\ left \in Seq(Symbols) /\ nd.buffer \in Seq(Symbols)
<1>1. /\ nd.buffer = rd.buffer \o SubSeq(rest, 1, n) /\ nd.wireBytes = rd.wireBytes + n
      /\ nd.eof = FALSE /\ SameEvent(rd, nd) /\ left = SubSeq(rest, n + 1, Len(rest))
  BY DEF Takes
<1>2. PICK b : b = rd.buffer
  OBVIOUS
<1>3. PICK c : c = SubSeq(rest, 1, n)
  OBVIOUS
<1>4. PICK d : d = nd.buffer
  OBVIOUS
<1>5. Len(b) \in Nat /\ Len(rest) \in Nat /\ Len(T) \in Nat /\ b \in Seq(Symbols)
  BY <1>2, LenProperties DEF Sent
<1>6. /\ pos \in Nat /\ Place(ws, st, k, t, pos, rd) /\ m = Len(b)
      /\ Unread(T, pos, m, b, rest) /\ rd.wireBytes = pos + m
  BY <1>2 DEF Follows
<1>7. \A i \in 1..Len(rest) : rest[i] \in Symbols
  OBVIOUS
<1>8. c \in Seq(Symbols) /\ Len(c) = n /\ \A i \in 1..n : c[i] = rest[i]
  BY <1>3, <1>5, <1>7, SubSeqProperties
<1>9. /\ left \in Seq(Symbols) /\ Len(left) = Len(rest) - n
      /\ \A i \in 1..(Len(rest) - n) : left[i] = rest[n + i]
  <2>1. \A i \in (n + 1)..Len(rest) : rest[i] \in Symbols
    BY <1>5, <1>7
  <2>2. /\ left \in Seq(Symbols)
        /\ Len(left) = IF n + 1 <= Len(rest) THEN Len(rest) - (n + 1) + 1 ELSE 0
        /\ \A i \in 1..(Len(rest) - (n + 1) + 1) : left[i] = rest[n + 1 + i - 1]
    BY <1>1, <1>5, <2>1, SubSeqProperties
  <2>3. \A i \in 1..(Len(rest) - n) : left[i] = rest[n + i]
    <3> TAKE i \in 1..(Len(rest) - n)
    <3>1. n + 1 + i - 1 = n + i /\ i \in 1..(Len(rest) - (n + 1) + 1)
      BY <1>5
    <3> QED BY <2>2, <3>1
  <2> QED BY <1>5, <2>2, <2>3
<1>10. /\ d \in Seq(Symbols) /\ Len(d) = m + n
       /\ \A i \in 1..m : d[i] = b[i]
       /\ \A i \in 1..n : d[m + i] = c[i]
  BY <1>1, <1>2, <1>3, <1>4, <1>5, <1>6, <1>8, Joined
<1>11. /\ pos + m + Len(rest) = Len(T) /\ \A q \in 1..m : b[q] = T[pos + q]
       /\ \A q \in 1..Len(rest) : rest[q] = T[pos + m + q]
  BY <1>6 DEF Unread
<1>12. Unread(T, pos, m + n, d, left)
  <2>1. m + n \in 0..Len(d) /\ pos + (m + n) + Len(left) = Len(T)
    <3>1. Len(left) = Len(rest) - n /\ Len(d) = m + n /\ pos + m + Len(rest) = Len(T)
      BY <1>9, <1>10, <1>11
    <3>2. m \in Nat /\ n \in Nat /\ pos \in Nat /\ Len(rest) \in Nat
      BY <1>5, <1>6
    <3>3. pos + (m + n) + (Len(rest) - n) = pos + m + Len(rest)
      BY <3>2
    <3>4. m + n \in 0..Len(d)
      BY <3>1, <3>2
    <3> QED BY <3>1, <3>3, <3>4
  <2>2. ASSUME NEW q \in 1..(m + n) PROVE d[q] = T[pos + q]
    <3>1. CASE q <= m
      <4>1. q \in 1..m
        BY <3>1, <1>5, <1>6
      <4> QED BY <4>1, <1>10, <1>11
    <3>2. CASE ~(q <= m)
      <4>1. /\ q - m \in 1..n /\ m + (q - m) = q /\ q - m \in 1..Len(rest)
            /\ pos + m + (q - m) = pos + q
        BY <3>2, <1>5, <1>6
      <4> QED BY <4>1, <1>8, <1>10, <1>11
    <3> QED BY <3>1, <3>2
  <2>3. ASSUME NEW q \in 1..Len(left) PROVE left[q] = T[pos + (m + n) + q]
    <3>1. /\ q \in 1..(Len(rest) - n) /\ n + q \in 1..Len(rest)
          /\ pos + m + (n + q) = pos + (m + n) + q
      BY <1>5, <1>6, <1>9
    <3> QED BY <3>1, <1>9, <1>11
  <2> QED BY <2>1, <2>2, <2>3 DEF Unread
<1>13. Place(ws, st, k, t, pos, nd)
  BY <1>1, <1>6, PlaceKept
<1>14. nd.wireBytes = pos + (m + n)
  BY <1>1, <1>5, <1>6
<1>15. Follows(T, ws, st, left, nd, k, t, pos, m + n)
  BY <1>1, <1>4, <1>6, <1>10, <1>12, <1>13, <1>14 DEF Follows
<1>16. nd.wireBytes <= UpTo(ws, Len(ws))
  <2>1. Len(T) = UpTo(ws, Len(ws))
    BY DEF Sent
  <2>2. pos + (m + n) <= Len(T)
    BY <1>5, <1>6, <1>11
  <2> QED BY <1>14, <2>1, <2>2
<1> QED BY <1>4, <1>9, <1>10, <1>15, <1>16

\* The body ends, perhaps within a line.
LEMMA BodyEnds ==
  ASSUME NEW T, NEW ws, NEW st, NEW rest \in Seq(Symbols), NEW rd, rd.buffer \in Seq(Symbols),
         rd.eof = FALSE, NEW k, NEW t, NEW pos, NEW m,
         Follows(T, ws, st, rest, rd, k, t, pos, m),
         NEW part \in {<<>>, <<Mark("comment")>>, <<Mark("head")>>},
         part # <<>> => rest # <<>> /\ rest[1].s \in {"data", "head", "tail"},
         NEW nd, nd.buffer = rd.buffer \o part, nd.eof = TRUE, SameEvent(rd, nd)
  PROVE  Follows(T, ws, st, rest, nd, k, t, pos, m)
<1>1. PICK b : b = rd.buffer
  OBVIOUS
<1>2. PICK d : d = nd.buffer
  OBVIOUS
<1>3. /\ pos \in Nat /\ Place(ws, st, k, t, pos, rd) /\ m = Len(b)
      /\ Unread(T, pos, m, b, rest) /\ Len(b) \in Nat /\ b \in Seq(Symbols)
  BY <1>1, LenProperties DEF Follows
<1>4. Place(ws, st, k, t, pos, nd)
  BY <1>3, PlaceKept
<1>5. CASE part = <<>>
  <2>1. d = b
    BY <1>1, <1>2, <1>3, <1>5, ConcatEmptySeq
  <2> QED BY <1>2, <1>3, <1>4, <2>1 DEF Follows
<1>6. CASE part # <<>>
  <2>1. PICK x \in {Mark("comment"), Mark("head")} : part = <<x>>
    BY <1>6
  <2>2. x \in Symbols
    BY <2>1, JunkOK DEF Mark, Sym, Symbols, Marks
  <2>3. PICK c : c = <<x>>
    OBVIOUS
  <2>4. c \in Seq(Symbols) /\ Len(c) = 1 /\ c[1] = x
    BY <2>2, <2>3
  <2>5. Len(d) = m + 1 /\ (\A i \in 1..m : d[i] = b[i]) /\ d[m + 1] = x
    BY <1>1, <1>2, <1>3, <2>1, <2>3, <2>4, Joined
  <2>6. Len(rest) \in Nat /\ Len(rest) > 0
    BY <1>6, EmptySeq, LenProperties
  <2>7. T[pos + m + 1].s \in {"data", "head", "tail"}
    <3>1. 1 \in 1..Len(rest)
      BY <2>6
    <3> QED BY <1>3, <1>6, <3>1 DEF Unread
  <2>8. Severed(T, pos, m, d, rest)
    BY <2>1, <2>5, <2>6, <2>7 DEF Severed
  <2>9. Unread(T, pos, m, d, rest)
    <3>1. m \in 0..Len(d)
      BY <1>3, <2>5
    <3> QED BY <1>3, <2>5, <3>1 DEF Unread
  <2> QED BY <1>2, <1>3, <1>4, <2>8, <2>9 DEF Follows
<1> QED BY <1>5, <1>6

LEMMA JoinedAs ==
  ASSUME NEW S \in Seq(Symbols), NEW R \in Seq(Symbols), NEW V, V = S \o R
  PROVE  /\ Len(V) = Len(S) + Len(R) /\ Len(S) \in Nat /\ Len(R) \in Nat
         /\ \A i \in 1..Len(S) : V[i] = S[i]
         /\ \A i \in 1..Len(R) : V[Len(S) + i] = R[i]
BY Joined

\* The Provider writes one more event while the reader waits.
LEMMA Wrote ==
  ASSUME NEW st \in Styles, NEW T, NEW ws, NEW p, Sent(T, ws, st, p), NEW k \in 0..Len(ws),
         NEW a, Told(ws, k, p, a), NEW rest \in Seq(Symbols), NEW rd, rd.eof = FALSE,
         rd.buffer \in Seq(Symbols),
         NEW t, NEW pos, NEW m, Follows(T, ws, st, rest, rd, k, t, pos, m),
         NEW w \in WireRow, w.e \in Opening(p) \cup Closing(p), w.size = EventSize(w.e, st),
         w.upto = UpTo(ws, Len(ws)) + Len(Encode(w.e, st)),
         ws # <<>> => ws[Len(ws)].e \notin Closing(p),
         NEW C, C = Encode(w.e, st), C \in Seq(Symbols), NEW vs, vs = Append(ws, w),
         NEW more, more = rest \o C
  PROVE  \E U : Reading(U, vs, st, p, more, rd, a, k)
<1>1. PICK U : U = T \o C
  OBVIOUS
<1>2. Sent(U, vs, st, p)
  BY <1>1, SentMore
<1>3. T \in Seq(Symbols) /\ ws \in Seq(WireRow) /\ Len(ws) \in Nat /\ k \in Nat
  BY LenProperties DEF Sent
<1>4. Len(vs) = Len(ws) + 1 /\ \A i \in 1..Len(ws) : vs[i] = ws[i]
  BY <1>3, AppendProperties
<1>5. k \in 0..Len(vs)
  BY <1>3, <1>4
<1>6. \A i \in 1..k : ws[i] = vs[i]
  BY <1>3, <1>4
<1>7. Told(vs, k, p, a)
  BY <1>3, <1>6, ToldSame
<1>8. UpTo(vs, k) = UpTo(ws, k)
  <2>1. k # 0 => vs[k] = ws[k]
    BY <1>3, <1>4
  <2> QED BY <2>1 DEF UpTo
<1>9. pos \in Nat /\ Place(ws, st, k, t, pos, rd) /\ Unread(T, pos, m, rd.buffer, rest)
      /\ m = Len(rd.buffer) /\ rd.wireBytes = pos + m
  BY DEF Follows
<1>10. PICK s : Place(vs, st, k, s, pos, rd)
  <2>1. CASE k = Len(ws) /\ pos = UpTo(ws, k) /\ Cleared(rd)
    BY <1>2, <1>5, <1>8, <2>1, FreshPlace
  <2>2. CASE /\ k < Len(ws) /\ t \in FirstLine(ws[k + 1], st)..BlankLine(ws[k + 1], st)
             /\ pos = UpTo(ws, k) + Offset(ws[k + 1], st, t)
             /\ rd.data = DataAt(ws[k + 1], st, t) /\ rd.name = NameAt(ws[k + 1], st, t)
             /\ rd.eventBytes = BytesAt(ws[k + 1], st, t)
    <3>1. k < Len(vs) /\ vs[k + 1] = ws[k + 1]
      BY <1>3, <1>4, <2>2
    <3>2. Place(vs, st, k, t, pos, rd)
      BY <1>8, <2>2, <3>1 DEF Place
    <3> QED BY <3>2
  <2> QED BY <1>9, <2>1, <2>2 DEF Place, Cleared
<1>11. PICK b : b = rd.buffer
  OBVIOUS
<1>12. /\ m \in Nat /\ Len(b) \in Nat /\ m \in 0..Len(b) /\ pos + m + Len(rest) = Len(T)
       /\ \A q \in 1..m : b[q] = T[pos + q]
       /\ \A q \in 1..Len(rest) : rest[q] = T[pos + m + q]
  BY <1>9, <1>11, LenProperties DEF Unread
<1>13. /\ Len(more) = Len(rest) + Len(C) /\ Len(rest) \in Nat /\ Len(C) \in Nat
       /\ \A i \in 1..Len(rest) : more[i] = rest[i]
       /\ \A i \in 1..Len(C) : more[Len(rest) + i] = C[i]
  BY Joined
<1>14. /\ Len(U) = Len(T) + Len(C) /\ Len(T) \in Nat
       /\ \A i \in 1..Len(T) : U[i] = T[i]
       /\ \A i \in 1..Len(C) : U[Len(T) + i] = C[i]
  BY <1>1, <1>3, JoinedAs
<1>15. pos + m + Len(more) = Len(U)
  <2>1. pos + m + (Len(rest) + Len(C)) = pos + m + Len(rest) + Len(C)
    <3>1. pos \in Nat /\ m \in Nat /\ Len(rest) \in Nat /\ Len(C) \in Nat
      BY <1>9, <1>12, <1>13
    <3> QED BY <3>1
  <2> QED BY <1>12, <1>13, <1>14, <2>1
<1>16. ASSUME NEW q \in 1..m PROVE b[q] = U[pos + q]
  <2>1. pos + q \in 1..Len(T)
    <3>1. /\ pos \in Nat /\ m \in Nat /\ q \in 1..m /\ Len(rest) \in Nat
          /\ pos + m + Len(rest) = Len(T)
      BY <1>9, <1>12, <1>13
    <3> QED BY ONLY <3>1
  <2> QED BY <1>12, <1>14, <2>1
<1>17. ASSUME NEW q \in 1..Len(more) PROVE more[q] = U[pos + m + q]
  <2>1. CASE q <= Len(rest)
    <3>1. q \in 1..Len(rest) /\ pos + m + q \in 1..Len(T)
      <4>1. pos \in Nat /\ m \in Nat /\ Len(rest) \in Nat /\ pos + m + Len(rest) = Len(T)
        BY <1>9, <1>12, <1>13
      <4>2. q \in 1..Len(rest)
        BY <1>13, <2>1
      <4> QED BY <4>1, <4>2
    <3> QED BY <1>12, <1>13, <1>14, <3>1
  <2>2. CASE ~(q <= Len(rest))
    <3>1. q \in Nat /\ q - Len(rest) \in 1..Len(C) /\ Len(rest) + (q - Len(rest)) = q
      BY <1>13, <2>2
    <3>2. Len(T) + (q - Len(rest)) = pos + m + q
      <4>1. pos + m + Len(rest) + (q - Len(rest)) = pos + m + q
        BY <1>9, <1>12, <1>13, <3>1
      <4> QED BY <1>12, <4>1
    <3>3. more[q] = C[q - Len(rest)]
      BY <1>13, <3>1
    <3>4. U[Len(T) + (q - Len(rest))] = C[q - Len(rest)]
      BY <1>14, <3>1
    <3> QED BY <3>2, <3>3, <3>4
  <2> QED BY <1>13, <2>1, <2>2
<1>18. Unread(U, pos, m, b, more)
  BY <1>12, <1>15, <1>16, <1>17 DEF Unread
<1>19. Follows(U, vs, st, more, rd, k, s, pos, m)
  BY <1>9, <1>10, <1>11, <1>18 DEF Follows
<1> QED BY <1>2, <1>5, <1>7, <1>19 DEF Reading

LEMMA FromStart ==
  ASSUME NEW st \in Styles, NEW U, NEW vs, NEW p, Sent(U, vs, st, p), NEW a, Told(vs, 0, p, a),
         NEW rd, rd = FreshReader
  PROVE  Reading(U, vs, st, p, U, rd, a, 0)
<1>1. U \in Seq(Symbols) /\ Len(U) \in Nat /\ Len(vs) \in Nat
  BY LenProperties DEF Sent
<1>2. /\ rd.buffer = <<>> /\ rd.eof = FALSE /\ rd.wireBytes = 0 /\ Cleared(rd)
  BY DEF FreshReader, Cleared
<1>3. UpTo(vs, 0) = 0 /\ 0 \in 0..Len(vs)
  BY <1>1 DEF UpTo
<1>4. PICK s : Place(vs, st, 0, s, 0, rd)
  BY <1>2, <1>3, FreshPlace
<1>5. Len(rd.buffer) = 0
  BY <1>2
<1>6. Unread(U, 0, 0, rd.buffer, U)
  <2>1. 0 \in 0..Len(rd.buffer) /\ 0 + 0 + Len(U) = Len(U)
    BY <1>1, <1>5
  <2>2. \A q \in 1..Len(U) : 0 + 0 + q = q
    BY <1>1
  <2> QED BY <2>1, <2>2 DEF Unread
<1>7. rd.wireBytes = 0 + 0
  BY <1>2
<1>8. Follows(U, vs, st, U, rd, 0, s, 0, 0)
  BY <1>2, <1>4, <1>5, <1>6, <1>7 DEF Follows
<1> QED BY <1>3, <1>8 DEF Reading

LEMMA ToldNothing ==
  ASSUME NEW ws, NEW p, NEW a, a = FreshAcc PROVE Told(ws, 0, p, a)
<1>1. /\ a.error = "" /\ a.done = FALSE /\ a.id = "" /\ a.finish = "" /\ a.started = FALSE
      /\ a.text = <<>> /\ a.in = NoCount /\ a.out = NoCount
  BY DEF FreshAcc
<1>2. 1..0 = {}
  OBVIOUS
<1>3. Says(ws, 0, a.text)
  <2>1. Len(a.text) = 0
    BY <1>1
  <2>2. SpeakingIn(ws, 0) = {}
    BY <1>2 DEF SpeakingIn
  <2>3. PICK at : at = [i \in {} |-> 0]
    OBVIOUS
  <2>4. at \in [{} -> {}]
    BY <2>3
  <2> QED BY <1>2, <2>1, <2>2, <2>4 DEF Says
<1>4. KeepsId(ws, 0, a.id) /\ KeepsFinish(ws, 0, a.finish)
  BY <1>1, <1>2 DEF KeepsId, KeepsFinish
<1>5. StartsOnce(ws, 0, p, a.started)
  <2>1. FALSE = (0 > 0)
    OBVIOUS
  <2> QED BY <1>1, <1>2, <2>1 DEF StartsOnce
<1>6. LastIn(ws, 0, p, a.in) /\ LastOut(ws, 0, p, a.out)
  BY <1>1, <1>2 DEF LastIn, LastOut
<1> QED BY <1>1, <1>2, <1>3, <1>4, <1>5, <1>6 DEF Told

LEMMA SentNothing ==
  ASSUME NEW st, NEW p, NEW E, E = <<>> PROVE Sent(E, E, st, p)
<1>1. E \in Seq(Symbols) /\ E \in Seq(WireRow) /\ Len(E) = 0
  OBVIOUS
<1>2. UpTo(E, 0) = 0 /\ 1..0 = {}
  BY DEF UpTo
<1> QED BY <1>1, <1>2 DEF Sent, NoLF

\* The body is over and no line is left.
LEMMA StreamEnds ==
  ASSUME style \in Styles, NEW p \in Protocols, NEW T, NEW ws, NEW rest \in Seq(Symbols),
         NEW rd, rd.buffer \in Seq(Symbols), Len(rd.buffer) = 0, NEW eof \in BOOLEAN, eof,
         rd.eof = eof, NEW a, AccOK(a), NEW k, Reading(T, ws, style, p, rest, rd, a, k),
         NEW r, r = Dispatch(p, rd, a)
  PROVE  /\ r.error # "" => Excuses(ws, p, rest, eof, r.error)
         /\ r.error = "" /\ r.done = TRUE => Complete(ws, p, r)
         /\ r.error = "" /\ r.done = FALSE =>
               Excuses(ws, p, rest, eof, "incomplete_provider_stream")
<1>1. /\ Sent(T, ws, style, p) /\ k \in 0..Len(ws) /\ Told(ws, k, p, a)
      /\ \/ \E t, pos, m : Follows(T, ws, style, rest, rd, k, t, pos, m)
         \/ Torn(ws, style, rest, rd, k)
  BY DEF Reading
<1>2. /\ Alphabet(ws, p) /\ ws \in Seq(WireRow) /\ Len(ws) \in Nat /\ k \in Nat
      /\ a.error = "" /\ a.done = FALSE
  <2>1. Alphabet(ws, p) /\ ws \in Seq(WireRow)
    BY <1>1, SentAlphabet DEF Sent
  <2>2. Len(ws) \in Nat
    BY <2>1, LenProperties
  <2>3. k \in Nat
    BY <1>1, <2>2
  <2>4. a.error = "" /\ a.done = FALSE
    BY <1>1, Zenon DEF Told
  <2> QED BY <2>1, <2>2, <2>3, <2>4
<1>3. ASSUME k = Len(ws), rd.data = <<>>
      PROVE  r = a /\ Excuses(ws, p, rest, eof, "incomplete_provider_stream")
  <2>1. r = a
    BY <1>3 DEF Dispatch
  <2>2. ws # <<>> => ws[Len(ws)].e \notin Closing(p)
    <3> HAVE ws # <<>>
    <3>1. Len(ws) \in 1..k
      <4>1. Len(ws) \in Nat /\ Len(ws) # 0
        BY <1>2, EmptySeq
      <4> QED BY <1>3, <4>1
    <3>2. ws[Len(ws)].e \in Opening(p)
      BY <1>1, <3>1 DEF Told
    <3> QED BY <3>2, Disjoint
  <2> QED BY <2>1, <2>2 DEF Excuses
<1>4. ASSUME rest # <<>>, Broke(ws, style, k, rd)
      PROVE  /\ r.error # "" => Excuses(ws, p, rest, eof, r.error)
             /\ r.error = "" /\ r.done = TRUE => Complete(ws, p, r)
             /\ Excuses(ws, p, rest, eof, "incomplete_provider_stream")
  <2>1. Excuses(ws, p, rest, eof, "incomplete_provider_stream")
    BY <1>4 DEF Excuses
  <2>2. CASE rd.data = <<>> \/ Document(rd.data) = Junk
    <3>1. r = a \/ r.error = "invalid_provider_stream"
      BY <2>2, DispatchJunk
    <3>2. Excuses(ws, p, rest, eof, "invalid_provider_stream")
      BY <1>4 DEF Excuses
    <3>3. CASE r = a
      BY <1>2, <2>1, <3>3
    <3>4. CASE r.error = "invalid_provider_stream"
      BY <2>1, <3>2, <3>4
    <3> QED BY <3>1, <3>3, <3>4
  <2>3. CASE /\ k < Len(ws)
             /\ rd.data = DataAt(ws[k + 1], style, BlankLine(ws[k + 1], style))
             /\ rd.name = NameAt(ws[k + 1], style, BlankLine(ws[k + 1], style))
    <3>1. k + 1 \in 1..Len(ws)
      <4>1. Len(ws) \in Nat /\ k \in Nat /\ k < Len(ws)
        BY <1>2, <2>3
      <4> QED BY <4>1
    <3>2. Understood(ws, k, p, r)
      BY <1>1, <1>2, <2>3, <3>1, DispatchUnderstood
    <3> QED BY <2>1, <3>2, ExcusedExcuses DEF Understood
  <2> QED BY <1>4, <2>2, <2>3 DEF Broke
<1>5. CASE \E t, pos, m : Follows(T, ws, style, rest, rd, k, t, pos, m)
  <2>1. PICK t, pos, m : Follows(T, ws, style, rest, rd, k, t, pos, m)
    BY <1>5
  <2>2. pos \in Nat /\ Place(ws, style, k, t, pos, rd) /\ Unread(T, pos, m, rd.buffer, rest)
    BY <2>1 DEF Follows
  <2>3. CASE k = Len(ws) /\ rd.data = <<>>
    BY <1>2, <1>3, <2>3
  <2>4. CASE Stand(ws, style, k, t, pos, rd, ws[k + 1])
    <3>1. PICK w : w = ws[k + 1]
      OBVIOUS
    <3>2. PICK n : n = BodyLen(w, style, t)
      OBVIOUS
    <3>3. /\ k < Len(ws) /\ t \in FirstLine(w, style)..BlankLine(w, style)
          /\ pos = UpTo(ws, k) + Offset(w, style, t)
          /\ rd.data = DataAt(w, style, t) /\ rd.name = NameAt(w, style, t)
      BY <2>4, <3>1 DEF Stand
    <3>4. Row(w, style) /\ Lays(T, pos, n, Body(w, style, t), style)
      BY <1>1, <1>2, <3>1, <3>2, <3>3, Here
    <3>5. n \in Nat /\ EndLen(style) \in {1, 2}
      BY <3>2, <3>3, <3>4, Geometry
    <3>6. pos + n + EndLen(style) <= Len(T) /\ pos + m + Len(rest) = Len(T) /\ m = 0
      BY <2>2, <3>4 DEF Lays, Unread
    <3>7. Len(rest) > 0
      <4>1. Len(rest) \in Nat
        BY LenProperties
      <4> QED BY <2>2, <3>5, <3>6, <4>1
    <3>8. rest # <<>>
      BY <3>7
    <3>9. Broke(ws, style, k, rd)
      BY <3>1, <3>3, <3>4, PartBroke
    <3> QED BY <1>4, <3>8, <3>9
  <2> QED BY <2>2, <2>3, <2>4 DEF Place, Stand
<1>6. CASE Torn(ws, style, rest, rd, k)
  BY <1>4, <1>6 DEF Torn
<1> QED BY <1>1, <1>5, <1>6

LEMMA EofPops ==
  ASSUME NEW b \in Seq(Symbols), NEW eof \in BOOLEAN, eof, Popped(b, eof).some # TRUE
  PROVE  Len(b) = 0
<1>1. CASE LineAt(b, eof) # 0
  BY <1>1 DEF Popped
<1>2. CASE LineAt(b, eof) = 0
  <2>1. b # <<>> => Popped(b, eof).some = TRUE
    BY <1>2 DEF Popped
  <2>2. b = <<>>
    BY <2>1
  <2> QED BY <2>2
<1> QED BY <1>1, <1>2

-----------------------------------------------------------------------------
(***************************************************************************)
(* The inductive invariant: while the adapter reads, it stands where       *)
(* Reading says in what was sent; a result is fair to what was sent.       *)
(***************************************************************************)
Reads == \E T, k : Reading(T, wire, style, call.protocol, pipe, reader, acc, k)

AnswerInv ==
    /\ wire \in Seq(WireRow)
    /\ call.phase # "over" => call.result = NoResult
    /\ call.phase = "reading" => Reads
    /\ Fair(wire, call.protocol, pipe, reader.eof, call.result)

LEMMA Leaves ==
  ASSUME Fails(call, call'), wire' \in Seq(WireRow),
         Fair(wire', call'.protocol, pipe', reader'.eof, call'.result)
  PROVE  AnswerInv'
BY DEF AnswerInv, Fails

LEMMA Stays ==
  ASSUME AnswerInv, call.phase = "reading", call' = call, style' = style, NEW T, NEW k,
         Reading(T, wire', style, call.protocol, pipe', reader', acc', k)
  PROVE  AnswerInv'
<1>1. Reads'
  BY DEF Reads
<1>2. call'.result = NoResult /\ call'.phase = "reading"
  BY DEF AnswerInv
<1>3. Fair(wire', call'.protocol, pipe', reader'.eof, call'.result)
  BY <1>2, FairNoResult
<1>4. wire' \in Seq(WireRow)
  BY DEF Reading, Sent
<1> QED BY <1>1, <1>2, <1>3, <1>4 DEF AnswerInv

LEMMA FailStep ==
  ASSUME StreamIInv, AnswerInv, call.phase # "over", NEW error, NEW retryable \in BOOLEAN,
         AttemptFailed(error, retryable), wire' \in Seq(WireRow),
         Excuses(wire', call.protocol, pipe', reader.eof, error)
  PROVE  AnswerInv'
<1>1. CallOK(call) /\ call.result = NoResult
  BY DEF StreamIInv, AnswerInv
<1>2. call' = AfterFailure(error, retryable) /\ reader' = reader
  BY DEF AttemptFailed
<1>3. Fails(call, call') /\ Fair(wire', call'.protocol, pipe', reader.eof, call'.result)
  BY <1>1, <1>2, FairFailure
<1> QED BY <1>2, <1>3, Leaves

LEMMA FailOnce ==
  ASSUME StreamIInv, AnswerInv, call.phase # "over", NEW error, AttemptFailed(error, FALSE),
         wire' \in Seq(WireRow), Excuses(wire', call.protocol, pipe', reader.eof, error)
  PROVE  AnswerInv'
<1>1. PICK retryable \in BOOLEAN : retryable = FALSE
  OBVIOUS
<1>2. AttemptFailed(error, retryable)
  BY <1>1, Zenon
<1> QED BY <1>2, FailStep

LEMMA AnswerStep ==
  ASSUME StreamIInv, AnswerInv, call.phase # "over", NEW a, Replied(a),
         wire' \in Seq(WireRow), wire' # <<>> => Complete(wire', call.protocol, a)
  PROVE  AnswerInv'
<1>1. CallOK(call) /\ call.result = NoResult
  BY DEF StreamIInv, AnswerInv
<1>2. PICK eof : eof = reader'.eof
  OBVIOUS
<1>3. Fails(call, call') /\ Fair(wire', call'.protocol, pipe', eof, call'.result)
  BY <1>1, FairAnswer
<1> QED BY <1>2, <1>3, Leaves

LEMMA NothingRead == << >> \in Seq(WireRow)
OBVIOUS

LEMMA AttemptsFair ==
  ASSUME StreamIInv, AnswerInv, OpenStream \/ JsonBody \/ ErrorStatus \/ ConnectionLost \/ Cancelled
  PROVE  AnswerInv'
<1>1. CallOK(call) /\ style \in Styles /\ call.protocol \in Protocols
  BY DEF StreamIInv, Styles, Protocols, CallOK
<1>2. call.phase # "over" /\ call.result = NoResult
  BY DEF AnswerInv, OpenStream, JsonBody, ErrorStatus, ConnectionLost, Cancelled
<1>3. PICK E : E = <<>>
  OBVIOUS
<1>4. wire' = E /\ E \in Seq(WireRow)
  BY <1>3, NothingRead DEF OpenStream, JsonBody, ErrorStatus, ConnectionLost, Cancelled, Discard
<1>5. \A error : error # "answered" => \A p, rest, eof : Excuses(E, p, rest, eof, error)
  BY <1>3 DEF Excuses
<1>6. CASE OpenStream
  <2>1. /\ call' = [call EXCEPT !.phase = "reading"] /\ pipe' = E
        /\ reader' = FreshReader /\ acc' = FreshAcc /\ style' = style
    BY <1>3, <1>6 DEF OpenStream
  <2>2. call'.phase = "reading" /\ call'.result = NoResult /\ call'.protocol = call.protocol
    BY <1>1, <1>2, <2>1 DEF CallOK
  <2>3. Sent(E, E, style, call.protocol)
    BY <1>3, SentNothing
  <2>4. Told(E, 0, call.protocol, acc')
    BY <2>1, ToldNothing
  <2>5. Reading(E, E, style, call.protocol, E, reader', acc', 0)
    BY <1>1, <2>1, <2>3, <2>4, FromStart
  <2>6. Reads'
    BY <1>4, <2>1, <2>2, <2>5 DEF Reads
  <2>7. Fair(wire', call'.protocol, pipe', reader'.eof, call'.result)
    BY <2>2, FairNoResult
  <2> QED BY <1>4, <2>2, <2>6, <2>7 DEF AnswerInv
<1>7. CASE JsonBody
  <2>1. \/ \E a : Replied(a)
        \/ \E error \in {"invalid_provider_response", "provider_response_too_large"} :
              AttemptFailed(error, FALSE)
    BY <1>7 DEF JsonBody
  <2>2. CASE \E a : Replied(a)
    BY <1>2, <1>3, <1>4, <2>2, AnswerStep
  <2>3. CASE \E error \in {"invalid_provider_response", "provider_response_too_large"} :
              AttemptFailed(error, FALSE)
    <3>1. PICK error \in {"invalid_provider_response", "provider_response_too_large"} :
              AttemptFailed(error, FALSE)
      BY <2>3
    <3>2. Excuses(wire', call.protocol, pipe', reader.eof, error)
      BY <1>4, <1>5
    <3> QED BY <1>2, <1>4, <3>1, <3>2, FailOnce
  <2> QED BY <2>1, <2>2, <2>3
<1>8. CASE ErrorStatus
  <2>1. PICK error \in {"rate_limited", "provider_5xx", "authentication_error", "provider_4xx",
                        "provider_response_too_large", "unsupported_provider_response_encoding"},
             retryable \in BOOLEAN : AttemptFailed(error, retryable)
    BY <1>8 DEF ErrorStatus
  <2>2. Excuses(wire', call.protocol, pipe', reader.eof, error)
    BY <1>4, <1>5
  <2> QED BY <1>2, <1>4, <2>1, <2>2, FailStep
<1>9. CASE ConnectionLost
  <2>1. PICK retryable \in BOOLEAN : retryable = TRUE
    OBVIOUS
  <2>2. call' = AfterFailure("network_error", retryable)
    BY <1>9, <2>1, Zenon DEF ConnectionLost
  <2>3. Excuses(wire', call.protocol, pipe', reader'.eof, "network_error")
    BY <1>4, <1>5
  <2>4. Fails(call, call') /\ Fair(wire', call'.protocol, pipe', reader'.eof, call'.result)
    BY <1>1, <1>2, <2>2, <2>3, FairFailure
  <2> QED BY <1>4, <2>4, Leaves
<1>10. CASE Cancelled
  <2>1. PICK r : r = [NoResult EXCEPT !.status = "cancelled"]
    OBVIOUS
  <2>2. call' = [call EXCEPT !.phase = "over", !.result = r]
    BY <1>10, <2>1 DEF Cancelled
  <2>3. call'.phase = "over" /\ call'.result = r /\ call'.protocol = call.protocol
    BY <1>1, <2>2 DEF CallOK
  <2>4. r.status = "cancelled"
    BY <2>1 DEF NoResult
  <2>5. Excuses(wire', call'.protocol, pipe', reader'.eof, r.status)
    BY <1>4, <1>5, <2>4
  <2> QED BY <1>4, <2>3, <2>5, Leaves DEF Fails, Fair
<1> QED BY <1>6, <1>7, <1>8, <1>9, <1>10

LEMMA TypesNow ==
  ASSUME StreamIInv
  PROVE  /\ style \in Styles /\ call.protocol \in Protocols /\ pipe \in Seq(Symbols)
         /\ reader.buffer \in Seq(Symbols) /\ reader.eof \in BOOLEAN /\ AccOK(acc)
         /\ CallOK(call) /\ ReaderOK(reader)
BY DEF StreamIInv, Styles, Protocols, ReaderOK, CallOK

\* Before the end of the body the reader follows what was sent.
LEMMA WhereItReads ==
  ASSUME AnswerInv, call.phase = "reading", reader.eof = FALSE
  PROVE  \E T, k, t, pos, m :
            /\ Sent(T, wire, style, call.protocol) /\ k \in 0..Len(wire)
            /\ Told(wire, k, call.protocol, acc)
            /\ Follows(T, wire, style, pipe, reader, k, t, pos, m)
<1>1. PICK T, k : Reading(T, wire, style, call.protocol, pipe, reader, acc, k)
  BY DEF AnswerInv, Reads
<1>2. ~Torn(wire, style, pipe, reader, k)
  BY DEF Torn
<1> QED BY <1>1, <1>2 DEF Reading

LEMMA WritesFair == ASSUME StreamIInv, AnswerInv, Write \/ WriteComment PROVE AnswerInv'
<1>1. /\ style \in Styles /\ call.protocol \in Protocols /\ pipe \in Seq(Symbols)
      /\ reader.buffer \in Seq(Symbols) /\ reader.eof \in BOOLEAN
  BY TypesNow
<1>2. /\ call.phase = "reading" /\ reader.eof = FALSE
      /\ wire # <<>> => wire[Len(wire)].e \notin Closing(call.protocol)
      /\ UNCHANGED <<call, style, reader, acc>>
  BY <1>1 DEF Write, WriteComment, Writing
<1>3. PICK T, k, t, pos, m :
            /\ Sent(T, wire, style, call.protocol) /\ k \in 0..Len(wire)
            /\ Told(wire, k, call.protocol, acc)
            /\ Follows(T, wire, style, pipe, reader, k, t, pos, m)
  BY <1>2, WhereItReads
<1>4. wire \in Seq(WireRow) /\ Len(wire) \in Nat
  BY <1>3, LenProperties DEF Sent
<1>5. CASE Write
  <2>1. PICK e \in Opening(call.protocol) \cup Closing(call.protocol) :
        /\ pipe' = pipe \o Encode(e, style)
        /\ wire' = Append(wire, [e |-> e, size |-> EventSize(e, style),
                                 upto |-> Written + Len(Encode(e, style))])
    BY <1>5 DEF Write
  <2>2. e \in Documents
    BY <1>1, SaidOK DEF Protocols
  <2>3. PICK C : C = Encode(e, style)
    OBVIOUS
  <2>4. C \in Seq(Symbols) /\ Len(C) \in Nat
    BY <1>1, <2>2, <2>3, EncodeOK, LenProperties DEF Styles
  <2>5. Written = UpTo(wire, Len(wire)) /\ UpTo(wire, Len(wire)) \in Nat
    <3>1. wire = <<>> <=> Len(wire) = 0
      BY <1>4, EmptySeq
    <3>2. Len(wire) \in 0..Len(wire)
      BY <1>4
    <3> QED BY <1>4, <3>1, <3>2, UpToOK DEF Written, UpTo
  <2>6. PICK w : w = [e |-> e, size |-> EventSize(e, style), upto |-> Written + Len(C)]
    OBVIOUS
  <2>7. Written + Len(C) \in Nat /\ EventSize(e, style) \in Nat
    BY <2>4, <2>5 DEF EventSize
  <2>8. /\ w \in WireRow /\ w.e = e /\ w.size = EventSize(e, style)
        /\ w.upto = UpTo(wire, Len(wire)) + Len(C)
    BY <2>2, <2>5, <2>6, <2>7 DEF WireRow
  <2>9. pipe' = pipe \o C /\ wire' = Append(wire, w)
    BY <2>1, <2>3, <2>6
  <2>10. PICK U : Reading(U, wire', style, call.protocol, pipe', reader, acc, k)
    BY <1>1, <1>2, <1>3, <2>3, <2>4, <2>8, <2>9, Wrote
  <2>11. reader' = reader /\ acc' = acc /\ call' = call /\ style' = style
    BY <1>2
  <2>12. Reading(U, wire', style, call.protocol, pipe', reader', acc', k)
    BY <2>10, <2>11
  <2> QED BY <1>2, <2>11, <2>12, Stays
<1>6. CASE WriteComment
  <2>1. PICK n \in {1, EventLimit + 1}, e \in Opening(call.protocol) :
        /\ pipe' = [i \in 1..n |-> Mark("comment")]
                        \o LineEnd(style.ending) \o Encode(e, style)
        /\ wire' = <<[e |-> e, size |-> n + 1 + EventSize(e, style), upto |-> Len(pipe')]>>
    BY <1>6 DEF WriteComment
  <2>2. e \in Documents /\ n \in Nat \ {0} /\ EventSize(e, style) \in Nat
    BY <1>1, SaidOK, StreamAssumption DEF Protocols, EventSize
  <2>3. PICK U : U = pipe'
    OBVIOUS
  <2>4. StreamIInv'
    BY <1>6, WritesOK
  <2>5. U \in Seq(Symbols) /\ Len(U) \in Nat
    BY <2>3, <2>4, LenProperties DEF StreamIInv
  <2>6. PICK w : w = [e |-> e, size |-> n + 1 + EventSize(e, style), upto |-> Len(U)]
    OBVIOUS
  <2>7. n + 1 + EventSize(e, style) \in Nat
    BY <2>2
  <2>8. w \in WireRow /\ w.e = e /\ w.size = n + 1 + EventSize(e, style) /\ w.upto = Len(U)
    BY <2>2, <2>5, <2>6, <2>7 DEF WireRow
  <2>9. PICK vs : vs = <<w>>
    OBVIOUS
  <2>10. wire' = vs
    BY <2>1, <2>3, <2>6, <2>9
  <2>11. U = [i \in 1..n |-> Mark("comment")] \o LineEnd(style.ending) \o Encode(w.e, style)
    BY <2>1, <2>3, <2>8
  <2>12. Sent(U, vs, style, call.protocol)
    BY <1>1, <2>2, <2>8, <2>9, <2>11, SentComment
  <2>13. Told(vs, 0, call.protocol, acc)
    <3>1. wire = <<>>
      BY <1>6 DEF WriteComment
    <3>2. k = 0
      BY <1>3, <3>1
    <3>3. \A i \in 1..k : wire[i] = vs[i]
      BY <3>2
    <3> QED BY <1>3, <3>2, <3>3, ToldSame
  <2>14. reader = FreshReader
    BY <1>6 DEF WriteComment
  <2>15. Reading(U, vs, style, call.protocol, U, reader, acc, 0)
    BY <1>1, <2>12, <2>13, <2>14, FromStart
  <2>16. reader' = reader /\ acc' = acc /\ call' = call /\ style' = style
    BY <1>2
  <2>17. Reading(U, wire', style, call.protocol, pipe', reader', acc', 0)
    BY <2>3, <2>10, <2>15, <2>16
  <2> QED BY <1>2, <2>16, <2>17, Stays
<1> QED BY <1>5, <1>6

LEMMA ReadChunkFair == ASSUME StreamIInv, AnswerInv, ReadChunk PROVE AnswerInv'
<1>1. /\ style \in Styles /\ call.protocol \in Protocols /\ pipe \in Seq(Symbols)
      /\ reader.buffer \in Seq(Symbols) /\ reader.eof \in BOOLEAN /\ ReaderOK(reader)
  BY TypesNow
<1>2. /\ call.phase = "reading" /\ reader.eof = FALSE /\ wire' = wire /\ style' = style
  BY <1>1 DEF ReadChunk
<1>3. PICK T, k, t, pos, m :
            /\ Sent(T, wire, style, call.protocol) /\ k \in 0..Len(wire)
            /\ Told(wire, k, call.protocol, acc)
            /\ Follows(T, wire, style, pipe, reader, k, t, pos, m)
  BY <1>2, WhereItReads
<1>4. wire \in Seq(WireRow) /\ Len(wire) \in Nat
  BY <1>3, LenProperties DEF Sent
<1>5. PICK n \in 1..Len(pipe) :
        LET rd == [reader EXCEPT !.buffer = @ \o SubSeq(pipe, 1, n),
                                 !.wireBytes = @ + n]
        IN  /\ pipe' = SubSeq(pipe, n + 1, Len(pipe))
            /\ IF rd.wireBytes > WireLimit \/ Overflows(rd)
               THEN AttemptFailed("provider_response_too_large", FALSE)
               ELSE reader' = rd /\ UNCHANGED <<call, acc>>
  BY DEF ReadChunk
<1>6. PICK rd : rd = [reader EXCEPT !.buffer = @ \o SubSeq(pipe, 1, n), !.wireBytes = @ + n]
  OBVIOUS
<1>7. /\ pipe' = SubSeq(pipe, n + 1, Len(pipe))
      /\ IF rd.wireBytes > WireLimit \/ Overflows(rd)
         THEN AttemptFailed("provider_response_too_large", FALSE)
         ELSE reader' = rd /\ UNCHANGED <<call, acc>>
  BY <1>5, <1>6, Zenon
<1>8. /\ rd.buffer = reader.buffer \o SubSeq(pipe, 1, n) /\ rd.wireBytes = reader.wireBytes + n
      /\ rd.eof = FALSE /\ SameEvent(reader, rd)
  BY <1>1, <1>2, <1>6 DEF ReaderOK, SameEvent
<1>9. /\ Follows(T, wire, style, pipe', rd, k, t, pos, m + n)
      /\ rd.wireBytes <= UpTo(wire, Len(wire))
      /\ pipe' \in Seq(Symbols) /\ rd.buffer \in Seq(Symbols)
  <2>1. PICK left : left = SubSeq(pipe, n + 1, Len(pipe))
    OBVIOUS
  <2>2. /\ Follows(T, wire, style, left, rd, k, t, pos, m + n)
        /\ rd.wireBytes <= UpTo(wire, Len(wire))
        /\ left \in Seq(Symbols) /\ rd.buffer \in Seq(Symbols)
    <3>1. Takes(reader, pipe, n, rd, left)
      BY <1>8, <2>1 DEF Takes
    <3> QED BY <1>1, <1>2, <1>3, <3>1, ChunkRead
  <2>3. pipe' = left
    BY <1>7, <2>1
  <2> QED BY <2>2, <2>3
<1>10. CASE rd.wireBytes > WireLimit \/ Overflows(rd)
  <2>1. UpTo(wire, Len(wire)) > WireLimit \/ \E i \in 1..Len(wire) : wire[i].size >= EventLimit
    <3>1. CASE rd.wireBytes > WireLimit
      <4>1. Len(wire) \in 0..Len(wire)
        BY <1>4
      <4>2. UpTo(wire, Len(wire)) \in Nat
        BY <1>4, <4>1, UpToOK
      <4>3. rd.wireBytes \in Nat /\ WireLimit \in Nat
        BY <1>1, <1>8, StreamAssumption DEF ReaderOK
      <4> QED BY <1>9, <3>1, <4>2, <4>3
    <3>2. CASE Overflows(rd)
      BY <1>1, <1>3, <1>8, <1>9, <3>2, OverflowExcuse
    <3> QED BY <1>10, <3>1, <3>2
  <2>2. Excuses(wire', call.protocol, pipe', reader.eof, "provider_response_too_large")
    BY <1>2, <2>1 DEF Excuses
  <2>3. AttemptFailed("provider_response_too_large", FALSE)
    BY <1>7, <1>10, Zenon
  <2> QED BY <1>2, <1>4, <2>2, <2>3, FailOnce
<1>11. CASE ~(rd.wireBytes > WireLimit \/ Overflows(rd))
  <2>1. reader' = rd /\ call' = call /\ acc' = acc
    BY <1>7, <1>11
  <2>2. Reading(T, wire', style, call.protocol, pipe', reader', acc', k)
    BY <1>2, <1>3, <1>9, <2>1 DEF Reading
  <2> QED BY <1>2, <2>1, <2>2, Stays
<1> QED BY <1>10, <1>11

LEMMA EndOfBodyFair == ASSUME StreamIInv, AnswerInv, EndOfBody PROVE AnswerInv'
<1>1. /\ style \in Styles /\ pipe \in Seq(Symbols)
      /\ reader.buffer \in Seq(Symbols) /\ reader.eof \in BOOLEAN /\ ReaderOK(reader)
  BY TypesNow
<1>2. /\ call.phase = "reading" /\ reader.eof = FALSE
      /\ call' = call /\ pipe' = pipe /\ wire' = wire /\ style' = style /\ acc' = acc
  BY <1>1 DEF EndOfBody
<1>3. PICK T, k, t, pos, m :
            /\ Sent(T, wire, style, call.protocol) /\ k \in 0..Len(wire)
            /\ Told(wire, k, call.protocol, acc)
            /\ Follows(T, wire, style, pipe, reader, k, t, pos, m)
  BY <1>2, WhereItReads
<1>4. PICK part \in {<<>>, <<Mark("comment")>>, <<Mark("head")>>} :
        /\ part # <<>> => pipe # <<>> /\ pipe[1].s \in {"data", "head", "tail"}
        /\ reader' = [reader EXCEPT !.eof = TRUE, !.buffer = @ \o part]
  BY DEF EndOfBody
<1>5. PICK nd : nd = reader'
  OBVIOUS
<1>6. nd.buffer = reader.buffer \o part /\ nd.eof = TRUE /\ SameEvent(reader, nd)
  BY <1>1, <1>4, <1>5 DEF ReaderOK, SameEvent
<1>7. Follows(T, wire, style, pipe, nd, k, t, pos, m)
  BY <1>1, <1>2, <1>3, <1>4, <1>6, BodyEnds
<1>8. Reading(T, wire, style, call.protocol, pipe, nd, acc, k)
  BY <1>3, <1>7 DEF Reading
<1>9. Reading(T, wire', style, call.protocol, pipe', reader', acc', k)
  BY <1>2, <1>5, <1>8
<1> QED BY <1>2, <1>9, Stays

LEMMA EndStreamFair == ASSUME StreamIInv, AnswerInv, EndStream PROVE AnswerInv'
<1>1. /\ style \in Styles /\ call.protocol \in Protocols /\ pipe \in Seq(Symbols)
      /\ reader.buffer \in Seq(Symbols) /\ reader.eof \in BOOLEAN /\ AccOK(acc)
  BY TypesNow
<1>2. /\ call.phase = "reading" /\ pipe' = pipe /\ wire' = wire
      /\ reader.eof /\ ~Popped(reader.buffer, reader.eof).some
  BY DEF EndStream, HasLine
<1>3. PICK eof \in BOOLEAN : eof = reader.eof
  BY <1>1
<1>4. eof /\ Popped(reader.buffer, eof).some # TRUE
  BY <1>2, <1>3, Zenon
<1>5. Len(reader.buffer) = 0
  BY <1>1, <1>4, EofPops
<1>6. PICK T, k : Reading(T, wire, style, call.protocol, pipe, reader, acc, k)
  BY <1>2 DEF AnswerInv, Reads
<1>7. PICK r : r = Dispatch(call.protocol, reader, acc)
  OBVIOUS
<1>8. r.error \in Statuses /\ r.done \in BOOLEAN /\ r.retryable \in BOOLEAN
  BY <1>1, <1>7, DispatchOK DEF AccOK, Gathered, StreamIInv, Protocols
<1>9. /\ r.error # "" => Excuses(wire, call.protocol, pipe, eof, r.error)
      /\ r.error = "" /\ r.done = TRUE => Complete(wire, call.protocol, r)
      /\ r.error = "" /\ r.done = FALSE =>
            Excuses(wire, call.protocol, pipe, eof, "incomplete_provider_stream")
  BY <1>1, <1>3, <1>4, <1>5, <1>6, <1>7, StreamEnds
<1>10. IF r.error # "" THEN AttemptFailed(r.error, r.retryable)
       ELSE IF ~r.done THEN AttemptFailed("incomplete_provider_stream", FALSE)
       ELSE Replied(r)
  BY <1>7 DEF EndStream
<1>11. wire' \in Seq(WireRow) /\ call.phase # "over"
  BY <1>2 DEF AnswerInv
<1>12. CASE r.error # ""
  <2>1. Excuses(wire', call.protocol, pipe', reader.eof, r.error)
    BY <1>2, <1>3, <1>9, <1>12
  <2>2. AttemptFailed(r.error, r.retryable)
    BY <1>10, <1>12, Zenon
  <2> QED BY <1>8, <1>11, <2>1, <2>2, FailStep
<1>13. CASE r.error = "" /\ ~r.done
  <2>1. Excuses(wire', call.protocol, pipe', reader.eof, "incomplete_provider_stream")
    BY <1>2, <1>3, <1>8, <1>9, <1>13
  <2>2. AttemptFailed("incomplete_provider_stream", FALSE)
    BY <1>10, <1>13, Zenon
  <2> QED BY <1>11, <2>1, <2>2, FailOnce
<1>14. CASE r.error = "" /\ r.done
  <2>1. Complete(wire', call.protocol, r)
    BY <1>2, <1>8, <1>9, <1>14
  <2>2. Replied(r)
    BY <1>10, <1>14, Zenon
  <2> QED BY <1>11, <2>1, <2>2, AnswerStep
<1> QED BY <1>12, <1>13, <1>14

\* The reader after process_line has taken the line of popped.
AfterLine(rd, popped) ==
    IF popped.line = <<>>
    THEN [rd EXCEPT !.buffer = popped.rest, !.data = <<>>, !.name = "", !.eventBytes = 0]
    ELSE [rd EXCEPT
            !.buffer = popped.rest, !.eventBytes = rd.eventBytes + Len(popped.line) + 1,
            !.data = IF popped.line[1].s \in {"data", "head", "tail"}
                     THEN Append(@, popped.line[1]) ELSE @,
            !.name = IF popped.line[1].s = "name" THEN popped.line[1].e.type ELSE @]

LEMMA AfterLineIs ==
  ASSUME NEW rd, ReaderOK(rd), NEW popped, NEW nd, nd = AfterLine(rd, popped)
  PROVE  /\ popped.line = <<>> => Clears(rd, popped, nd)
         /\ popped.line # <<>> => Gathers(rd, popped, nd)
<1>1. CASE popped.line = <<>>
  <2>1. nd = [rd EXCEPT !.buffer = popped.rest, !.data = <<>>, !.name = "", !.eventBytes = 0]
    BY <1>1 DEF AfterLine
  <2>2. Clears(rd, popped, nd)
    BY <1>1, <2>1 DEF Clears, Cleared, ReaderOK
  <2> QED BY <1>1, <2>2
<1>2. CASE popped.line # <<>>
  <2>1. PICK line : line = popped.line
    OBVIOUS
  <2>2. PICK data : data = IF line[1].s \in {"data", "head", "tail"}
                           THEN Append(rd.data, line[1]) ELSE rd.data
    OBVIOUS
  <2>3. PICK name : name = IF line[1].s = "name" THEN line[1].e.type ELSE rd.name
    OBVIOUS
  <2>4. PICK bytes : bytes = rd.eventBytes + Len(line) + 1
    OBVIOUS
  <2>5. nd = [rd EXCEPT !.buffer = popped.rest, !.eventBytes = bytes, !.data = data, !.name = name]
    BY <1>2, <2>1, <2>2, <2>3, <2>4 DEF AfterLine
  <2>6. /\ nd.buffer = popped.rest /\ nd.eof = rd.eof /\ nd.wireBytes = rd.wireBytes
        /\ nd.eventBytes = bytes /\ nd.data = data /\ nd.name = name
    BY <2>5 DEF ReaderOK
  <2>7. Gathers(rd, popped, nd)
    BY <2>1, <2>2, <2>3, <2>4, <2>6 DEF Gathers
  <2> QED BY <1>2, <2>7
<1> QED BY <1>1, <1>2

\* What ProcessLine does on a blank line, and on one with content.
BlankLeads(a, nd) ==
    IF a.error # "" THEN AttemptFailed(a.error, a.retryable)
    ELSE IF a.done THEN Replied(a)
    ELSE IF ~reader.eof /\ Overflows(nd)
    THEN AttemptFailed("provider_response_too_large", FALSE)
    ELSE reader' = nd /\ acc' = a /\ call' = call

FieldLeads(bytes, nd) ==
    IF bytes > EventLimit \/ (~reader.eof /\ Overflows(nd))
    THEN AttemptFailed("provider_response_too_large", FALSE)
    ELSE reader' = nd /\ acc' = acc /\ call' = call

LEMMA ProcessLineIs ==
  ASSUME StreamIInv, ProcessLine, NEW popped, popped = Popped(reader.buffer, reader.eof),
         NEW a, a = Dispatch(call.protocol, reader, acc), NEW nd, nd = AfterLine(reader, popped)
  PROVE  /\ popped.line = <<>> => BlankLeads(a, nd)
         /\ popped.line # <<>> => FieldLeads(reader.eventBytes + Len(popped.line) + 1, nd)
<1>1. IF popped.line = <<>> /\ a.error # ""
      THEN AttemptFailed(a.error, a.retryable)
      ELSE IF popped.line = <<>> /\ a.done
      THEN Replied(a)
      ELSE IF \/ popped.line # <<>> /\ reader.eventBytes + Len(popped.line) + 1 > EventLimit
              \/ ~reader.eof /\ Overflows(nd)
      THEN AttemptFailed("provider_response_too_large", FALSE)
      ELSE /\ reader' = nd
           /\ acc' = IF popped.line = <<>> THEN a ELSE acc
           /\ UNCHANGED call
  BY Zenon DEF ProcessLine, AfterLine
<1>2. CASE popped.line = <<>>
  BY <1>1, <1>2, Zenon DEF BlankLeads
<1>3. CASE popped.line # <<>>
  BY <1>1, <1>3, Zenon DEF FieldLeads
<1> QED BY <1>2, <1>3, Zenon

\* A buffer with a line to take is not behind the tear.
LEMMA LineStands ==
  ASSUME StreamIInv, AnswerInv, ProcessLine
  PROVE  /\ Popped(reader.buffer, reader.eof).some = TRUE
         /\ \E T, k, t, pos, m :
              /\ Sent(T, wire, style, call.protocol) /\ k \in 0..Len(wire)
              /\ Told(wire, k, call.protocol, acc)
              /\ Follows(T, wire, style, pipe, reader, k, t, pos, m)
<1>1. reader.eof \in BOOLEAN /\ call.phase = "reading"
  BY TypesNow DEF ProcessLine
<1>2. Popped(reader.buffer, reader.eof).some
  BY DEF ProcessLine, HasLine
<1>3. Popped(reader.buffer, reader.eof).some \in BOOLEAN
  BY DEF Popped
<1>4. Popped(reader.buffer, reader.eof).some = TRUE
  BY <1>2, <1>3
<1>5. PICK T, k : Reading(T, wire, style, call.protocol, pipe, reader, acc, k)
  BY <1>1 DEF AnswerInv, Reads
<1>6. ASSUME Torn(wire, style, pipe, reader, k) PROVE FALSE
  <2>1. reader.buffer = <<>>
    BY <1>6 DEF Torn
  <2>2. Popped(<<>>, reader.eof).some = FALSE
    BY <1>1, PopEmpty
  <2> QED BY <1>2, <2>1, <2>2
<1> QED BY <1>4, <1>5, <1>6 DEF Reading

LEMMA OverflowFair ==
  ASSUME NEW T, style \in Styles, Sent(T, wire, style, call.protocol), NEW j \in 0..Len(wire),
         pipe \in Seq(Symbols), NEW nd, nd.buffer \in Seq(Symbols), nd.eof = reader.eof,
         reader.eof \in BOOLEAN, ~reader.eof, Overflows(nd),
         \/ \E t, pos, m : Follows(T, wire, style, pipe, nd, j, t, pos, m)
         \/ Torn(wire, style, pipe, nd, j)
  PROVE  Excuses(wire, call.protocol, pipe, reader.eof, "provider_response_too_large")
<1>1. nd.eof = FALSE
  OBVIOUS
<1>2. PICK t, pos, m : Follows(T, wire, style, pipe, nd, j, t, pos, m)
  BY <1>1 DEF Torn
<1>3. \E i \in 1..Len(wire) : wire[i].size >= EventLimit
  BY <1>1, <1>2, OverflowExcuse
<1> QED BY <1>3 DEF Excuses

LEMMA BlankLineFair ==
  ASSUME StreamIInv, AnswerInv, ProcessLine, Popped(reader.buffer, reader.eof).line = <<>>
  PROVE  AnswerInv'
<1>1. /\ style \in Styles /\ call.protocol \in Protocols /\ pipe \in Seq(Symbols)
      /\ reader.buffer \in Seq(Symbols) /\ reader.eof \in BOOLEAN /\ AccOK(acc)
      /\ ReaderOK(reader)
  BY TypesNow
<1>2. /\ call.phase = "reading" /\ pipe' = pipe /\ wire' = wire /\ style' = style
      /\ wire' \in Seq(WireRow) /\ call.phase # "over"
  BY DEF ProcessLine, AnswerInv
<1>3. PICK T, k, t, pos, m :
        /\ Sent(T, wire, style, call.protocol) /\ k \in 0..Len(wire)
        /\ Told(wire, k, call.protocol, acc)
        /\ Follows(T, wire, style, pipe, reader, k, t, pos, m)
  BY LineStands
<1>4. PICK popped : popped = Popped(reader.buffer, reader.eof)
  OBVIOUS
<1>5. PICK a : a = Dispatch(call.protocol, reader, acc)
  OBVIOUS
<1>6. PICK nd : nd = AfterLine(reader, popped)
  OBVIOUS
<1>7. popped.some = TRUE /\ popped.line = <<>> /\ popped.rest \in Seq(Symbols)
  BY <1>1, <1>4, LineStands, PoppedOK
<1>8. BlankLeads(a, nd)
  BY <1>4, <1>5, <1>6, <1>7, ProcessLineIs
<1>9. Clears(reader, popped, nd)
  BY <1>1, <1>6, <1>7, AfterLineIs
<1>10. nd.buffer \in Seq(Symbols) /\ nd.eof = reader.eof
  BY <1>7, <1>9 DEF Clears
<1>11. PICK w : w = wire[k + 1]
  OBVIOUS
<1>12. /\ k + 1 \in 1..Len(wire) /\ reader.data = DataAt(w, style, BlankLine(w, style))
       /\ reader.name = NameAt(w, style, BlankLine(w, style))
       /\ \/ \E t2, pos2, m2 : Follows(T, wire, style, pipe, nd, k + 1, t2, pos2, m2)
          \/ Torn(wire, style, pipe, nd, k + 1)
  <2>1. popped.some = TRUE
    BY <1>7
  <2>2. /\ Sent(T, wire, style, call.protocol) /\ k \in 0..Len(wire)
        /\ Follows(T, wire, style, pipe, reader, k, t, pos, m)
    BY <1>3
  <2>3. /\ style \in Styles /\ pipe \in Seq(Symbols)
        /\ reader.buffer \in Seq(Symbols) /\ reader.eof \in BOOLEAN
    BY <1>1
  <2>4. Collects(T, wire, style, pipe, reader, nd, k, w)
    BY <1>4, <1>9, <1>11, <2>1, <2>2, <2>3, BlankRead
  <2> QED BY <2>4 DEF Collects
<1>13. Alphabet(wire, call.protocol) /\ k \in Nat /\ Len(wire) \in Nat
  BY <1>3, SentAlphabet, LenProperties DEF Sent
<1>14. Understood(wire, k, call.protocol, a)
  BY <1>1, <1>3, <1>5, <1>11, <1>12, <1>13, DispatchUnderstood
<1>15. a.error \in Statuses /\ a.done \in BOOLEAN /\ a.retryable \in BOOLEAN
  BY <1>1, <1>5, DispatchOK DEF AccOK, Gathered, Protocols
<1>16. CASE a.error # ""
  <2>1. Excuses(wire', call.protocol, pipe', reader.eof, a.error)
    BY <1>2, <1>14, <1>16, ExcusedExcuses DEF Understood
  <2>2. AttemptFailed(a.error, a.retryable)
    BY <1>8, <1>16, Zenon DEF BlankLeads
  <2> QED BY <1>2, <1>15, <2>1, <2>2, FailStep
<1>17. CASE a.error = "" /\ a.done
  <2>1. Complete(wire', call.protocol, a)
    BY <1>2, <1>14, <1>17 DEF Understood
  <2>2. Replied(a)
    BY <1>8, <1>17, Zenon DEF BlankLeads
  <2> QED BY <1>2, <2>1, <2>2, AnswerStep
<1>18. CASE a.error = "" /\ ~a.done
  <2>1. Told(wire, k + 1, call.protocol, a)
    BY <1>14, <1>18 DEF Understood
  <2>2. k + 1 \in 0..Len(wire)
    BY <1>12, <1>13
  <2>3. CASE ~reader.eof /\ Overflows(nd)
    <3>1. AttemptFailed("provider_response_too_large", FALSE)
      BY <1>8, <1>18, <2>3, Zenon DEF BlankLeads
    <3>2. Excuses(wire, call.protocol, pipe, reader.eof, "provider_response_too_large")
      BY <1>1, <1>3, <1>10, <1>12, <2>2, <2>3, OverflowFair
    <3> QED BY <1>2, <3>1, <3>2, FailOnce
  <2>4. CASE ~(~reader.eof /\ Overflows(nd))
    <3>1. reader' = nd /\ acc' = a /\ call' = call
      BY <1>8, <1>18, <2>4, Zenon DEF BlankLeads
    <3>2. Reading(T, wire, style, call.protocol, pipe, nd, a, k + 1)
      BY <1>3, <1>12, <2>1, <2>2 DEF Reading
    <3>3. Reading(T, wire', style, call.protocol, pipe', reader', acc', k + 1)
      BY <1>2, <3>1, <3>2
    <3> QED BY <1>2, <3>1, <3>3, Stays
  <2> QED BY <2>3, <2>4
<1> QED BY <1>16, <1>17, <1>18

LEMMA FieldLineFair ==
  ASSUME StreamIInv, AnswerInv, ProcessLine, Popped(reader.buffer, reader.eof).line # <<>>
  PROVE  AnswerInv'
<1>1. /\ style \in Styles /\ pipe \in Seq(Symbols) /\ reader.buffer \in Seq(Symbols)
      /\ reader.eof \in BOOLEAN /\ ReaderOK(reader)
  BY TypesNow
<1>2. /\ call.phase = "reading" /\ pipe' = pipe /\ wire' = wire /\ style' = style
      /\ wire' \in Seq(WireRow) /\ call.phase # "over"
  BY DEF ProcessLine, AnswerInv
<1>3. PICK T, k, t, pos, m :
        /\ Sent(T, wire, style, call.protocol) /\ k \in 0..Len(wire)
        /\ Told(wire, k, call.protocol, acc)
        /\ Follows(T, wire, style, pipe, reader, k, t, pos, m)
  BY LineStands
<1>4. PICK popped : popped = Popped(reader.buffer, reader.eof)
  OBVIOUS
<1>5. PICK a : a = Dispatch(call.protocol, reader, acc)
  OBVIOUS
<1>6. PICK nd : nd = AfterLine(reader, popped)
  OBVIOUS
<1>7. popped.some = TRUE /\ popped.line # <<>> /\ popped.rest \in Seq(Symbols)
  BY <1>1, <1>4, LineStands, PoppedOK
<1>8. FieldLeads(reader.eventBytes + Len(popped.line) + 1, nd)
  BY <1>4, <1>5, <1>6, <1>7, ProcessLineIs
<1>9. Gathers(reader, popped, nd)
  BY <1>1, <1>6, <1>7, AfterLineIs
<1>10. /\ nd.buffer \in Seq(Symbols) /\ nd.eof = reader.eof
       /\ nd.eventBytes = reader.eventBytes + Len(popped.line) + 1
  BY <1>7, <1>9 DEF Gathers
<1>11. /\ nd.eventBytes > EventLimit => \E i \in 1..Len(wire) : wire[i].size >= EventLimit
       /\ \/ \E t2, pos2, m2 : Follows(T, wire, style, pipe, nd, k, t2, pos2, m2)
          \/ Torn(wire, style, pipe, nd, k)
  BY <1>1, <1>3, <1>4, <1>7, <1>9, LineRead
<1>12. CASE nd.eventBytes > EventLimit
  <2>1. AttemptFailed("provider_response_too_large", FALSE)
    BY <1>8, <1>10, <1>12, Zenon DEF FieldLeads
  <2>2. Excuses(wire', call.protocol, pipe', reader.eof, "provider_response_too_large")
    BY <1>2, <1>11, <1>12 DEF Excuses
  <2> QED BY <1>2, <2>1, <2>2, FailOnce
<1>13. CASE ~reader.eof /\ Overflows(nd)
  <2>1. AttemptFailed("provider_response_too_large", FALSE)
    BY <1>8, <1>13, Zenon DEF FieldLeads
  <2>2. Excuses(wire, call.protocol, pipe, reader.eof, "provider_response_too_large")
    BY <1>1, <1>3, <1>10, <1>11, <1>13, OverflowFair
  <2> QED BY <1>2, <2>1, <2>2, FailOnce
<1>14. CASE ~(nd.eventBytes > EventLimit) /\ ~(~reader.eof /\ Overflows(nd))
  <2>1. reader' = nd /\ acc' = acc /\ call' = call
    BY <1>8, <1>10, <1>14, Zenon DEF FieldLeads
  <2>2. Reading(T, wire, style, call.protocol, pipe, nd, acc, k)
    BY <1>3, <1>11 DEF Reading
  <2>3. Reading(T, wire', style, call.protocol, pipe', reader', acc', k)
    BY <1>2, <2>1, <2>2
  <2> QED BY <1>2, <2>1, <2>3, Stays
<1> QED BY <1>12, <1>13, <1>14, Zenon

LEMMA AnswerStart == StreamInit => AnswerInv
<1> SUFFICES ASSUME StreamInit PROVE AnswerInv
  OBVIOUS
<1>1. wire = <<>> /\ call.phase = "sending" /\ call.result = NoResult
  BY DEF StreamInit
<1>2. Fair(wire, call.protocol, pipe, reader.eof, call.result)
  BY <1>1, FairNoResult
<1>3. wire \in Seq(WireRow)
  BY <1>1, NothingRead
<1> QED BY <1>1, <1>2, <1>3 DEF AnswerInv

LEMMA AnswerNext == StreamIInv /\ AnswerInv /\ [StreamNext]_streamVars => AnswerInv'
<1> SUFFICES ASSUME StreamIInv, AnswerInv, [StreamNext]_streamVars PROVE AnswerInv'
  OBVIOUS
<1>1. CASE UNCHANGED streamVars
  <2>1. /\ call' = call /\ pipe' = pipe /\ wire' = wire /\ style' = style
        /\ reader' = reader /\ acc' = acc
    BY <1>1 DEF streamVars
  <2>2. CASE call.phase = "reading"
    <3>1. PICK T, k : Reading(T, wire, style, call.protocol, pipe, reader, acc, k)
      BY <2>2 DEF AnswerInv, Reads
    <3>2. Reading(T, wire', style, call.protocol, pipe', reader', acc', k)
      BY <2>1, <3>1
    <3> QED BY <2>1, <2>2, <3>2, Stays
  <2>3. CASE call.phase # "reading"
    BY <2>1, <2>3 DEF AnswerInv
  <2> QED BY <2>2, <2>3
<1>2. CASE ProcessLine
  BY <1>2, BlankLineFair, FieldLineFair
<1>3. CASE StreamNext /\ ~ProcessLine
  BY <1>3, AttemptsFair, WritesFair, ReadChunkFair, EndOfBodyFair, EndStreamFair DEF StreamNext
<1> QED BY <1>1, <1>2, <1>3

-----------------------------------------------------------------------------
(***************************************************************************)
(* The properties, from the inductive invariant.                           *)
(***************************************************************************)
LEMMA BrokenIs == Broken <=> BrokenOn(wire, call.protocol)
BY DEF Broken, BrokenOn

LEMMA SpeakingIs == Speaking = SpeakingIn(wire, Len(wire))
BY DEF Speaking, SpeakingIn

LEMMA SpokenIs == ASSUME NEW text, SpokenOn(wire, text) PROVE Spoken(text)
<1>1. CASE Speaking = {}
  BY <1>1, SpeakingIs DEF Spoken, SpokenOn
<1>2. CASE Speaking # {}
  BY <1>2, SpeakingIs DEF Spoken, SpokenOn, Says
<1> QED BY <1>1, <1>2

\* The last of the reports is the one a CHOOSE of the greatest index finds.
LEMMA LastReport ==
  ASSUME NEW R, NEW n \in Nat, R \subseteq 1..n, NEW i \in R, \A j \in (i + 1)..n : j \notin R
  PROVE  (CHOOSE h \in R : \A j \in R : j <= h) = i
<1>1. \A j \in R : j <= i
  <2> SUFFICES ASSUME NEW j \in R, ~(j <= i) PROVE FALSE
    OBVIOUS
  <2>1. i \in Nat /\ j \in 1..n
    OBVIOUS
  <2>2. j \in (i + 1)..n
    BY <2>1
  <2> QED BY <2>2
<1>2. \A h \in R : (\A j \in R : j <= h) => h = i
  <2> SUFFICES ASSUME NEW h \in R, \A j \in R : j <= h PROVE h = i
    OBVIOUS
  <2>1. h <= i /\ i <= h /\ h \in Int /\ i \in Int
    BY <1>1
  <2> QED BY <2>1
<1>3. PICK c : c = CHOOSE h \in R : \A j \in R : j <= h
  OBVIOUS
<1>4. c \in R /\ \A j \in R : j <= c
  BY <1>1, <1>3
<1> QED BY <1>2, <1>3, <1>4

LEMMA ReportedIn ==
  ASSUME wire \in Seq(WireRow), NEW x, LastIn(wire, Len(wire), call.protocol, x)
  PROVE  x = Reported("in")
<1>1. PICK R : R = {i \in 1..Len(wire) :
                IF call.protocol = "messages" THEN wire[i].e["in"] # NoCount
                ELSE Reports(wire[i].e)}
  OBVIOUS
<1>2. Reported("in") = IF R = {} THEN NoCount
                       ELSE wire[CHOOSE i \in R : \A j \in R : j <= i].e["in"]
  BY <1>1 DEF Reported
<1>3. R = {i \in 1..Len(wire) : ReportsIn(call.protocol, wire[i].e)}
  BY <1>1 DEF ReportsIn
<1>4. Len(wire) \in Nat
  BY LenProperties
<1>5. CASE x = NoCount /\ \A i \in 1..Len(wire) : ~ReportsIn(call.protocol, wire[i].e)
  BY <1>2, <1>3, <1>5
<1>6. CASE \E i \in 1..Len(wire) : /\ ReportsIn(call.protocol, wire[i].e) /\ x = wire[i].e.in
             /\ \A j \in (i + 1)..Len(wire) : ~ReportsIn(call.protocol, wire[j].e)
  <2>1. PICK i \in 1..Len(wire) : /\ ReportsIn(call.protocol, wire[i].e) /\ x = wire[i].e.in
             /\ \A j \in (i + 1)..Len(wire) : ~ReportsIn(call.protocol, wire[j].e)
    BY <1>6
  <2>2. i \in R /\ \A j \in (i + 1)..Len(wire) : j \notin R
    BY <1>3, <2>1
  <2>3. R \subseteq 1..Len(wire)
    BY <1>3
  <2>4. (CHOOSE h \in R : \A j \in R : j <= h) = i
    BY <1>4, <2>2, <2>3, LastReport
  <2>5. Reported("in") = wire[i].e["in"]
    BY <1>2, <2>2, <2>4
  <2> QED BY <2>1, <2>5
<1> QED BY <1>5, <1>6 DEF LastIn

LEMMA ReportedOut ==
  ASSUME wire \in Seq(WireRow), NEW x, LastOut(wire, Len(wire), call.protocol, x)
  PROVE  x = Reported("out")
<1>1. PICK R : R = {i \in 1..Len(wire) :
                IF call.protocol = "messages" THEN wire[i].e["out"] # NoCount
                ELSE Reports(wire[i].e)}
  OBVIOUS
<1>2. Reported("out") = IF R = {} THEN NoCount
                       ELSE wire[CHOOSE i \in R : \A j \in R : j <= i].e["out"]
  BY <1>1 DEF Reported
<1>3. R = {i \in 1..Len(wire) : ReportsOut(call.protocol, wire[i].e)}
  BY <1>1 DEF ReportsOut
<1>4. Len(wire) \in Nat
  BY LenProperties
<1>5. CASE x = NoCount /\ \A i \in 1..Len(wire) : ~ReportsOut(call.protocol, wire[i].e)
  BY <1>2, <1>3, <1>5
<1>6. CASE \E i \in 1..Len(wire) : /\ ReportsOut(call.protocol, wire[i].e) /\ x = wire[i].e.out
             /\ \A j \in (i + 1)..Len(wire) : ~ReportsOut(call.protocol, wire[j].e)
  <2>1. PICK i \in 1..Len(wire) : /\ ReportsOut(call.protocol, wire[i].e) /\ x = wire[i].e.out
             /\ \A j \in (i + 1)..Len(wire) : ~ReportsOut(call.protocol, wire[j].e)
    BY <1>6
  <2>2. i \in R /\ \A j \in (i + 1)..Len(wire) : j \notin R
    BY <1>3, <2>1
  <2>3. R \subseteq 1..Len(wire)
    BY <1>3
  <2>4. (CHOOSE h \in R : \A j \in R : j <= h) = i
    BY <1>4, <2>2, <2>3, LastReport
  <2>5. Reported("out") = wire[i].e["out"]
    BY <1>2, <2>2, <2>4
  <2> QED BY <2>1, <2>5
<1> QED BY <1>5, <1>6 DEF LastOut

LEMMA SaysWhatWasSaid == AnswerInv => AnswersWhatWasSaid
<1> SUFFICES ASSUME AnswerInv, call.result.status = "answered", wire # <<>>
             PROVE  /\ wire[Len(wire)].e.type \in {"done", "completed", "stop"}
                    /\ ~Broken /\ Spoken(call.result.text)
                    /\ call.result.in = Reported("in") /\ call.result.out = Reported("out")
  BY DEF AnswersWhatWasSaid
<1>1. Fair(wire, call.protocol, pipe, reader.eof, call.result) /\ wire \in Seq(WireRow)
  BY DEF AnswerInv
<1>2. Complete(wire, call.protocol, call.result)
  BY <1>1 DEF Fair, Excuses
<1>3. /\ wire[Len(wire)].e.type \in {"done", "completed", "stop"}
      /\ ~BrokenOn(wire, call.protocol) /\ SpokenOn(wire, call.result.text)
      /\ LastIn(wire, Len(wire), call.protocol, call.result.in)
      /\ LastOut(wire, Len(wire), call.protocol, call.result.out)
  BY <1>2 DEF Complete
<1> QED BY <1>1, <1>3, BrokenIs, SpokenIs, ReportedIn, ReportedOut

LEMMA BlamesTheRightParty == AnswerInv => RefusesOnlyBrokenStreams
<1> SUFFICES ASSUME AnswerInv, wire # <<>>
             PROVE  RefusesOnlyBrokenStreams
  BY DEF RefusesOnlyBrokenStreams
<1>1. Fair(wire, call.protocol, pipe, reader.eof, call.result) /\ wire \in Seq(WireRow)
  BY DEF AnswerInv
<1>2. Written = UpTo(wire, Len(wire))
  <2>1. Len(wire) # 0
    BY <1>1, EmptySeq
  <2> QED BY <2>1 DEF Written, UpTo
<1>3. CASE call.result.status = "answered"
  BY <1>3 DEF RefusesOnlyBrokenStreams
<1>4. CASE Excuses(wire, call.protocol, pipe, reader.eof, call.result.status)
  BY <1>2, <1>4, BrokenIs, SpeakingIs DEF Excuses, RefusesOnlyBrokenStreams
<1> QED BY <1>1, <1>3, <1>4 DEF Fair

\* However the answer of a Provider is cut into chunks, whatever its line
\* endings, its comments and the attempts before it, generate() returns the
\* text and the last token counts of one stream that kept its protocol and
\* reached its end marker (_consume_sse_response, _consume_typed_sse,
\* consume_event, generate), for every value of the limits.
THEOREM StreamAnswers == StreamSpec => []AnswersWhatWasSaid
BY StreamStart, StreamStep, AnswerStart, AnswerNext, SaysWhatWasSaid, PTL DEF StreamSpec

\* No place where a chunk is cut makes a sound stream fail: each error of
\* the framing and of the accumulators has its cause in what was sent, and
\* an adapter that waits is within its limits (_pop_sse_line, process_line,
\* process_chunk, _append_text).
THEOREM StreamRefusals == StreamSpec => []StreamInv
<1>1. StreamSpec => []RefusesOnlyBrokenStreams
  BY StreamStart, StreamStep, AnswerStart, AnswerNext, BlamesTheRightParty, PTL DEF StreamSpec
<1> QED BY <1>1, StreamMemory, PTL DEF StreamInv
=============================================================================
