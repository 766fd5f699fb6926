--------------------------- MODULE ProviderStream ---------------------------
(***************************************************************************)
(* One call of generate() of the provider adapters: the attempt loop, and  *)
(* the incremental reading of a Server-Sent Events answer in the three     *)
(* protocols (chat completions, Responses, Messages).                      *)
(*   backend/app/adapters/openai_compatible.py                             *)
(*   backend/app/adapters/provider_protocols.py                            *)
(*                                                                         *)
(* A byte sequence is a sequence of symbols: CR and LF, and one symbol for *)
(* the bytes of a line's content ("event: n", "data: json", one half of a  *)
(* JSON document written over two data lines, one byte of a comment).      *)
(* The Provider writes events of a small alphabet; the network delivers    *)
(* what it wrote in chunks cut anywhere, ends the body anywhere, or breaks *)
(* the connection.  The ledger calls around an attempt are in              *)
(* EvaluationRunner and GovernanceLedger; redaction, byte order marks and  *)
(* encodings are left out.                                                 *)
(***************************************************************************)
EXTENDS Integers, Sequences, FiniteSets

CONSTANTS
    MaxRetries,       \* max_retries: attempts after the first
    EventLimit,       \* MAX_CHAT_STREAM_EVENT_BYTES, in symbols
    WireLimit,        \* MAX_CHAT_STREAM_WIRE_BYTES, in symbols
    TextLimit,        \* MAX_CHAT_SUCCESS_RESPONSE_BYTES, in text pieces
    MaxWireEvents     \* bound: events the Provider writes in one attempt

ASSUME StreamAssumption ==
    /\ MaxRetries \in Nat /\ MaxWireEvents \in Nat
    /\ EventLimit \in Nat \ {0} /\ WireLimit \in Nat \ {0}
    /\ TextLimit \in Nat \ {0}

VARIABLES
    call,      \* generate(): protocol, attempt, phase, result
    pipe,      \* symbols written by the Provider and not read yet
    wire,      \* what the Provider wrote in this attempt, event by event
    style,     \* how it writes: line ending, long or short events
    reader,    \* line_buffer, data_lines, event_name and the byte counters
    acc        \* the SSE accumulator of this attempt

streamVars == <<call, pipe, wire, style, reader, acc>>

-----------------------------------------------------------------------------
(* Events. An event is what the JSON document says; text is a sequence of  *)
(* pieces, id and finish are "" and a token count is NoCount when the       *)
(* document does not have the field.                                       *)

NoCount == -1

Event(type, text, id, in, out, finish) ==
    [type |-> type, text |-> text, id |-> id, in |-> in, out |-> out,
     finish |-> finish]

Plain(type) == Event(type, <<>>, "", NoCount, NoCount, "")

Junk == Plain("junk")     \* not JSON, not an object, a field of another type

\* The events after which the Provider writes nothing more.
Closing(protocol) ==
    CASE protocol = "chat" -> {Plain("done"), Plain("error"), Junk}
      [] protocol = "responses" ->
            {Event("completed", <<"c">>, "x", 1, 2, "completed"),
             Event("completed", <<"c">>, "x", 1, 2, "in_progress"),
             Plain("failed"), Plain("overloaded"), Plain("incomplete"), Junk}
      [] protocol = "messages" ->
            {Plain("stop"), Plain("error"), Plain("overloaded"), Junk}

Opening(protocol) ==
    CASE protocol = "chat" ->
            {Event("chunk", <<"a">>, "x", 1, 1, ""),
             Event("chunk", <<"b">>, "x", 1, NoCount, "stop"),
             Event("chunk", <<"b">>, "y", NoCount, NoCount, ""),
             Event("chunk", <<>>, "x", NoCount, NoCount, "length"),
             Event("chunk", <<>>, "", 1, 2, "")}
      [] protocol = "responses" ->
            {Event("created", <<>>, "x", NoCount, NoCount, ""),
             Event("created", <<>>, "y", NoCount, NoCount, ""),
             Event("delta", <<"a">>, "", NoCount, NoCount, ""),
             Event("delta", <<"b">>, "", NoCount, NoCount, "")}
      [] protocol = "messages" ->
            {Event("start", <<"i">>, "x", 1, 1, ""),
             Event("start", <<>>, "x", 1, 1, "stop"),
             Event("delta", <<"a">>, "", NoCount, NoCount, ""),
             Event("delta", <<"b">>, "", NoCount, NoCount, ""),
             Event("ending", <<>>, "", NoCount, 2, "length")}

-----------------------------------------------------------------------------
(* The accumulators.                                                       *)

FreshAcc ==
    [text |-> <<>>, id |-> "", in |-> NoCount, out |-> NoCount, finish |-> "",
     started |-> FALSE, done |-> FALSE, error |-> "", retryable |-> FALSE]

ProviderError(a, error, retryable) ==
    [a EXCEPT !.error = error, !.retryable = retryable]

Invalid(a) == ProviderError(a, "invalid_provider_stream", FALSE)

AppendText(a, text) ==
    IF Len(a.text) + Len(text) > TextLimit
    THEN ProviderError(a, "provider_response_too_large", FALSE)
    ELSE [a EXCEPT !.text = @ \o text]

Reports(e) == e.in # NoCount \/ e.out # NoCount

\* Usage is cumulative: a report replaces the one before it, and in the
\* Messages protocol only the fields it has.
ReplaceUsage(a, e) ==
    IF Reports(e) THEN [a EXCEPT !.in = e.in, !.out = e.out] ELSE a

MergeUsage(a, e) ==
    [a EXCEPT !.in = IF e.in = NoCount THEN @ ELSE e.in,
              !.out = IF e.out = NoCount THEN @ ELSE e.out]

Conflicts(old, new) == old # "" /\ new # "" /\ old # new

Keep(old, new) == IF new = "" THEN old ELSE new

ConsumeChat(a, e) ==
    CASE e.type = "done" -> [a EXCEPT !.done = TRUE]
      [] e.type = "error" -> ProviderError(a, "provider_stream_error", FALSE)
      [] e.type = "chunk" ->
            IF Conflicts(a.id, e.id) \/ Conflicts(a.finish, e.finish)
            THEN Invalid(a)
            ELSE AppendText([ReplaceUsage(a, e) EXCEPT
                                !.id = Keep(@, e.id),
                                !.finish = Keep(@, e.finish)], e.text)
      [] OTHER -> Invalid(a)

ConsumeResponses(a, e) ==
    CASE e.type = "delta" -> AppendText(a, e.text)
      [] e.type = "failed" -> ProviderError(a, "provider_stream_error", FALSE)
      [] e.type = "overloaded" -> ProviderError(a, "provider_5xx", TRUE)
      [] e.type = "incomplete" -> ProviderError(a, "output_truncated", FALSE)
      [] e.type = "created" /\ ~Conflicts(a.id, e.id) ->
            [ReplaceUsage(a, e) EXCEPT !.id = Keep(@, e.id)]
      [] e.type = "completed" /\ ~Conflicts(a.id, e.id) ->
            LET b == [ReplaceUsage(a, e) EXCEPT !.id = Keep(@, e.id)]
                c == IF b.text = <<>> THEN AppendText(b, e.text) ELSE b
            IN  IF e.finish # "completed"
                THEN ProviderError(b, "incomplete_provider_stream", FALSE)
                ELSE IF c.error # "" THEN c
                ELSE [c EXCEPT !.finish = "completed", !.done = TRUE]
      [] OTHER -> Invalid(a)

ConsumeMessages(a, e) ==
    CASE e.type = "error" -> ProviderError(a, "provider_stream_error", FALSE)
      [] e.type = "overloaded" -> ProviderError(a, "provider_5xx", TRUE)
      [] e.type = "start" /\ ~a.started ->
            AppendText([MergeUsage(a, e) EXCEPT !.started = TRUE,
                            !.id = e.id, !.finish = e.finish], e.text)
      [] e.type = "delta" /\ a.started -> AppendText(a, e.text)
      [] e.type = "ending" /\ a.started /\ ~Conflicts(a.finish, e.finish) ->
            [MergeUsage(a, e) EXCEPT !.finish = Keep(@, e.finish)]
      [] e.type = "stop" /\ a.started -> [a EXCEPT !.done = TRUE]
      [] OTHER -> Invalid(a)

Consume(protocol, a, e) ==
    CASE protocol = "chat" -> ConsumeChat(a, e)
      [] protocol = "responses" -> ConsumeResponses(a, e)
      [] protocol = "messages" -> ConsumeMessages(a, e)

-----------------------------------------------------------------------------
(* The wire.                                                               *)

Sym(s, e) == [s |-> s, e |-> e]

Mark(s) == Sym(s, Junk)

LineEnd(ending) ==
    CASE ending = "LF" -> <<Mark("LF")>>
      [] ending = "CR" -> <<Mark("CR")>>
      [] ending = "CRLF" -> <<Mark("CR"), Mark("LF")>>

\* In the long style an event has its type in an "event:" line and its
\* document on two data lines, else a document with the type on one.  The
\* end marker of a chat stream is no document.
Encode(e, st) ==
    LET end == LineEnd(st.ending)
    IN  IF st.long /\ e.type # "done"
        THEN <<Sym("name", e)>> \o end \o <<Sym("head", e)>> \o end
                \o <<Sym("tail", e)>> \o end \o end
        ELSE <<Sym("data", e)>> \o end \o end

\* The bytes process_line counts for an event: each line and one more.
EventSize(e, st) == IF st.long /\ e.type # "done" THEN 6 ELSE 2

-----------------------------------------------------------------------------
(* Framing.                                                                *)

FreshReader ==
    [buffer |-> <<>>, data |-> <<>>, name |-> "", eventBytes |-> 0,
     wireBytes |-> 0, eof |-> FALSE]

\* The document of the joined data lines: whole, or both halves of one.
Document(data) ==
    CASE Len(data) = 1 /\ data[1].s = "data" -> data[1].e
      [] Len(data) = 2 /\ data[1].s = "head" /\ data[2].s = "tail"
                       /\ data[1].e = data[2].e -> data[1].e
      [] OTHER -> Junk

\* _decode_typed_event: the type stands in the document or in the name.
\* A chat event needs neither.
Decoded(protocol, rd) ==
    LET e == Document(rd.data)
    IN  IF protocol = "chat" \/ e.type = "junk" THEN e
        ELSE IF style.long /\ rd.name # e.type THEN Junk ELSE e

Dispatch(protocol, rd, a) ==
    IF rd.data = <<>> THEN a ELSE Consume(protocol, a, Decoded(protocol, rd))

\* Slip: a CR at the end of the buffer ends its line at once.
LineAt_Eager(buffer, eof) ==
    LET endings == {i \in 1..Len(buffer) : buffer[i].s \in {"CR", "LF"}}
    IN  IF endings = {} THEN 0
        ELSE CHOOSE i \in endings : \A j \in endings : i <= j

\* Index of the ending of the first line of the buffer, 0 if there is none:
\* a CR that ends the buffer waits for the symbol after it.
LineAt(buffer, eof) ==
    LET endings == {i \in 1..Len(buffer) : buffer[i].s \in {"CR", "LF"}}
        first == CHOOSE i \in endings : \A j \in endings : i <= j
    IN  IF endings = {} THEN 0
        ELSE IF buffer[first].s = "CR" /\ first = Len(buffer) /\ ~eof THEN 0
        ELSE first

\* _pop_sse_line: the line and the buffer left, or no line.
Popped(buffer, eof) ==
    LET at == LineAt(buffer, eof)
        size == IF at < Len(buffer) /\ buffer[at].s = "CR"
                   /\ buffer[at + 1].s = "LF" THEN 2 ELSE 1
    IN  IF at # 0
        THEN [some |-> TRUE, line |-> SubSeq(buffer, 1, at - 1),
              rest |-> SubSeq(buffer, at + size, Len(buffer))]
        ELSE IF eof /\ buffer # <<>>
        THEN [some |-> TRUE, line |-> buffer, rest |-> <<>>]
        ELSE [some |-> FALSE, line |-> <<>>, rest |-> buffer]

-----------------------------------------------------------------------------
(* The attempt loop.                                                       *)

NoResult == [status |-> "", text |-> <<>>, in |-> NoCount, out |-> NoCount]

\* An attempt failed: another one after the backoff, or the error.
AfterFailure(error, retryable) ==
    IF retryable /\ call.attempt <= MaxRetries
    THEN [call EXCEPT !.attempt = @ + 1, !.phase = "sending"]
    ELSE [call EXCEPT !.phase = "over",
             !.result = [NoResult EXCEPT !.status = error]]

AttemptFailed(error, retryable) ==
    /\ call' = AfterFailure(error, retryable)
    /\ UNCHANGED <<reader, acc>>

\* The answer of an attempt that ends from outside is forgotten.
Discard ==
    /\ pipe' = <<>> /\ wire' = <<>>
    /\ reader' = FreshReader /\ acc' = FreshAcc
    /\ UNCHANGED style

\* _build_generation_result / _build_result.
Replied(a) ==
    IF a.text = <<>>
    THEN AttemptFailed(IF a.finish = "length" THEN "output_truncated"
                ELSE "empty_response", FALSE)
    ELSE /\ call' = [call EXCEPT !.phase = "over",
                        !.result = [status |-> "answered", text |-> a.text,
                                    in |-> a.in, out |-> a.out]]
         /\ UNCHANGED <<reader, acc>>

\* The request is sent and the answer is an event stream: each attempt has
\* an accumulator and a line buffer of its own.
OpenStream ==
    /\ call.phase = "sending"
    /\ call' = [call EXCEPT !.phase = "reading"]
    /\ pipe' = <<>> /\ wire' = <<>>
    /\ reader' = FreshReader /\ acc' = FreshAcc
    /\ UNCHANGED style

\* It is a JSON body, as from Providers that ignore stream=true: a document
\* with the answer, one without, or one longer than the limit.
JsonBody ==
    /\ call.phase = "sending"
    /\ \/ Replied([FreshAcc EXCEPT !.text = <<"j">>, !.in = 1, !.out = 1])
       \/ Replied([FreshAcc EXCEPT !.finish = "length"])
       \/ \E error \in {"invalid_provider_response",
                        "provider_response_too_large"} : AttemptFailed(error, FALSE)
    /\ wire' = <<>>
    /\ UNCHANGED <<pipe, style>>

\* It is an error status, or compressed against the request.
ErrorStatus ==
    /\ call.phase = "sending"
    /\ \/ \E error \in {"rate_limited", "provider_5xx"} : AttemptFailed(error, TRUE)
       \/ \E error \in {"authentication_error", "provider_4xx",
                        "provider_response_too_large",
                        "unsupported_provider_response_encoding"} :
            AttemptFailed(error, FALSE)
    /\ wire' = <<>>
    /\ UNCHANGED <<pipe, style>>

\* No connection, or it breaks while the answer is read.
ConnectionLost ==
    /\ \/ call.phase = "sending"
       \/ call.phase = "reading" /\ ~reader.eof
    /\ call' = AfterFailure("network_error", TRUE)
    /\ Discard

Cancelled ==
    /\ call.phase \in {"sending", "reading"}
    /\ call' = [call EXCEPT !.phase = "over",
                    !.result = [NoResult EXCEPT !.status = "cancelled"]]
    /\ Discard

-----------------------------------------------------------------------------
(* The Provider writes.                                                    *)

Written == IF wire = <<>> THEN 0 ELSE wire[Len(wire)].upto

Writing ==
    /\ call.phase = "reading" /\ ~reader.eof
    /\ Len(pipe) <= 1
    /\ Len(wire) < MaxWireEvents
    /\ wire # <<>> => wire[Len(wire)].e \notin Closing(call.protocol)

Write ==
    /\ Writing
    /\ \E e \in Opening(call.protocol) \cup Closing(call.protocol) :
        /\ pipe' = pipe \o Encode(e, style)
        /\ wire' = Append(wire, [e |-> e, size |-> EventSize(e, style),
                                 upto |-> Written + Len(Encode(e, style))])
    /\ UNCHANGED <<call, style, reader, acc>>

\* A comment, short or longer than an event may be, before an event.
WriteComment ==
    /\ Writing /\ wire = <<>> /\ pipe = <<>> /\ reader = FreshReader
    /\ \E n \in {1, EventLimit + 1}, e \in Opening(call.protocol) :
        /\ pipe' = [i \in 1..n |-> Mark("comment")]
                        \o LineEnd(style.ending) \o Encode(e, style)
        /\ wire' = <<[e |-> e, size |-> n + 1 + EventSize(e, style),
                       upto |-> Len(pipe')]>>
    /\ UNCHANGED <<call, style, reader, acc>>

-----------------------------------------------------------------------------
(* The adapter reads.                                                      *)

\* Slip: an unfinished line may grow.
Overflows_Never(rd) == FALSE

\* What stays in the buffer after the last line is no longer than an event.
Overflows(rd) ==
    /\ ~Popped(rd.buffer, FALSE).some
    /\ rd.eventBytes + Len(rd.buffer) > EventLimit

HasLine == Popped(reader.buffer, reader.eof).some

\* process_chunk, up to its loop over the lines: a chunk is what has been
\* written up to any point.
ReadChunk ==
    /\ call.phase = "reading" /\ ~reader.eof /\ ~HasLine
    /\ \E n \in 1..Len(pipe) :
        LET rd == [reader EXCEPT !.buffer = @ \o SubSeq(pipe, 1, n),
                                 !.wireBytes = @ + n]
        IN  /\ pipe' = SubSeq(pipe, n + 1, Len(pipe))
            /\ IF rd.wireBytes > WireLimit \/ Overflows(rd)
               THEN AttemptFailed("provider_response_too_large", FALSE)
               ELSE reader' = rd /\ UNCHANGED <<call, acc>>
    /\ UNCHANGED <<wire, style>>

\* process_line, and the check of what is left after the last line.
ProcessLine ==
    /\ call.phase = "reading" /\ HasLine
    /\ LET popped == Popped(reader.buffer, reader.eof)
           line == popped.line
           bytes == reader.eventBytes + Len(line) + 1
           a == Dispatch(call.protocol, reader, acc)
           rd == IF line = <<>>
                 THEN [reader EXCEPT !.buffer = popped.rest, !.data = <<>>,
                                     !.name = "", !.eventBytes = 0]
                 ELSE [reader EXCEPT
                        !.buffer = popped.rest, !.eventBytes = bytes,
                        !.data = IF line[1].s \in {"data", "head", "tail"}
                                 THEN Append(@, line[1]) ELSE @,
                        !.name = IF line[1].s = "name"
                                 THEN line[1].e.type ELSE @]
       IN  IF line = <<>> /\ a.error # ""
           THEN AttemptFailed(a.error, a.retryable)
           ELSE IF line = <<>> /\ a.done
           THEN Replied(a)
           ELSE IF \/ line # <<>> /\ bytes > EventLimit
                   \/ ~reader.eof /\ Overflows(rd)
           THEN AttemptFailed("provider_response_too_large", FALSE)
           ELSE /\ reader' = rd
                /\ acc' = IF line = <<>> THEN a ELSE acc
                /\ UNCHANGED call
    /\ UNCHANGED <<pipe, wire, style>>

\* The body ends here; a line cut short is a part of its data or, cut
\* before the colon, a field nobody reads.
EndOfBody ==
    /\ call.phase = "reading" /\ ~reader.eof /\ ~HasLine
    /\ \E part \in {<<>>, <<Mark("comment")>>, <<Mark("head")>>} :
        /\ part # <<>> =>
              pipe # <<>> /\ pipe[1].s \in {"data", "head", "tail"}
        /\ reader' = [reader EXCEPT !.eof = TRUE, !.buffer = @ \o part]
    /\ UNCHANGED <<call, pipe, wire, style, acc>>

\* Slip: a stream without its end marker is an answer.
EndStream_TakesWhatCame ==
    /\ call.phase = "reading" /\ reader.eof /\ ~HasLine
    /\ LET a == Dispatch(call.protocol, reader, acc)
       IN  IF a.error # "" THEN AttemptFailed(a.error, a.retryable)
           ELSE Replied(a)
    /\ UNCHANGED <<pipe, wire, style>>

\* After the last line: an event without its blank line is taken all the
\* same, and a stream without its end marker is an error.
EndStream ==
    /\ call.phase = "reading" /\ reader.eof /\ ~HasLine
    /\ LET a == Dispatch(call.protocol, reader, acc)
       IN  IF a.error # "" THEN AttemptFailed(a.error, a.retryable)
           ELSE IF ~a.done THEN AttemptFailed("incomplete_provider_stream", FALSE)
           ELSE Replied(a)
    /\ UNCHANGED <<pipe, wire, style>>

-----------------------------------------------------------------------------

StreamInit ==
    /\ \E protocol \in {"chat", "responses", "messages"} :
        call = [protocol |-> protocol, attempt |-> 1, phase |-> "sending",
                result |-> NoResult]
    /\ \E ending \in {"LF", "CR", "CRLF"}, long \in BOOLEAN :
        style = [ending |-> ending, long |-> long]
    /\ pipe = <<>> /\ wire = <<>>
    /\ reader = FreshReader /\ acc = FreshAcc

StreamNext ==
    \/ OpenStream \/ JsonBody \/ ErrorStatus \/ ConnectionLost \/ Cancelled
    \/ Write \/ WriteComment
    \/ ReadChunk \/ ProcessLine \/ EndOfBody \/ EndStream

StreamSpec == StreamInit /\ [][StreamNext]_streamVars

-----------------------------------------------------------------------------
(* Properties, stated on what the Provider wrote and not on how it was     *)
(* read.                                                                   *)

\* The token count of the last report; a Messages report without the count
\* leaves the one before it in force.
Reported(field) ==
    LET at == {i \in 1..Len(wire) :
                IF call.protocol = "messages" THEN wire[i].e[field] # NoCount
                ELSE Reports(wire[i].e)}
    IN  IF at = {} THEN NoCount
        ELSE wire[CHOOSE i \in at : \A j \in at : j <= i].e[field]

\* The events with a piece of text of their own: a Responses stream repeats
\* its text in the completed event, which counts only when none came before.
Speaking ==
    {i \in 1..Len(wire) : wire[i].e.text # <<>> /\ wire[i].e.type # "completed"}

\* text is made of the pieces of those events, each once and in their order.
Spoken(text) ==
    IF Speaking = {} THEN text = wire[Len(wire)].e.text
    ELSE \E at \in [1..Len(text) -> Speaking] :
            /\ \A m, n \in 1..Len(text) : m < n => at[m] < at[n]
            /\ \A i \in Speaking : \E n \in 1..Len(text) : at[n] = i
            /\ \A n \in 1..Len(text) : text[n] = wire[at[n]].e.text[1]

\* The stream breaks its own protocol.
Broken ==
    \/ \E i \in 1..Len(wire) :
        \/ wire[i].e.type = "junk"
        \/ /\ call.protocol = "messages"
           /\ wire[i].e.type \in {"delta", "ending", "stop"}
           /\ \A j \in 1..(i - 1) : wire[j].e.type # "start"
    \/ \E j \in 1..Len(wire) : \E i \in 1..(j - 1) :
        \/ Conflicts(wire[i].e.id, wire[j].e.id)
        \/ Conflicts(wire[i].e.finish, wire[j].e.finish)
        \/ wire[i].e.type = "start" /\ wire[j].e.type = "start"

\* However the answer was cut into chunks, whatever its line endings, and
\* whatever an earlier attempt had received before it failed, generate()
\* returns the text and the last token counts of one stream that kept its
\* protocol and reached its end marker: a stream that stops early is never
\* an answer, no piece is lost, doubled or taken from another attempt, and
\* usage reports are not added up (_consume_sse_response,
\* _consume_typed_sse, consume_event, generate).
AnswersWhatWasSaid ==
    call.result.status = "answered" /\ wire # <<>> =>
        /\ wire[Len(wire)].e.type \in {"done", "completed", "stop"}
        /\ ~Broken
        /\ Spoken(call.result.text)
        /\ call.result.in = Reported("in")
        /\ call.result.out = Reported("out")

\* An error blames the Provider only for what it did: a stream is refused
\* as invalid when it breaks its protocol or is cut inside an event, as
\* incomplete when its end was not all read, and as too large when an event
\* reaches the limit or the whole exceeds one.  No place where a chunk is
\* cut, in the middle of a CRLF included, makes a sound stream fail
\* (_pop_sse_line, process_line, process_chunk).
RefusesOnlyBrokenStreams ==
    wire # <<>> =>
        /\ call.result.status = "invalid_provider_stream" =>
               Broken \/ (reader.eof /\ pipe # <<>>)
        /\ call.result.status = "incomplete_provider_stream" =>
               \/ pipe # <<>>
               \/ wire[Len(wire)].e \notin Closing(call.protocol)
               \/ wire[Len(wire)].e.finish = "in_progress"
        /\ call.result.status = "provider_response_too_large" =>
               \/ \E i \in 1..Len(wire) : wire[i].size >= EventLimit
               \/ Written > WireLimit
               \/ Cardinality(Speaking) > TextLimit

\* While it waits for the next chunk the adapter holds no more than one
\* event and the text limit, whether the Provider sends endless lines,
\* endless events or endless text (process_chunk, process_line,
\* _append_text).
StreamMemoryBounded ==
    call.phase = "reading" /\ ~reader.eof /\ ~HasLine =>
        /\ reader.eventBytes + Len(reader.buffer) <= EventLimit
        /\ reader.wireBytes <= WireLimit
        /\ Len(acc.text) <= TextLimit

\* A call that fails blames the right party, and one that goes on stays
\* within the memory limits of process_chunk and process_line.
StreamInv == RefusesOnlyBrokenStreams /\ StreamMemoryBounded
=============================================================================
