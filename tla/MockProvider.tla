---------------------------- MODULE MockProvider ----------------------------
(***************************************************************************)
(* src/aiobs/providers/mock.py, the seeded provider every example runs on, *)
(* and measure_ttft of chapters/ch04_instrumentation.py, which reads one   *)
(* of its streams.  A text is its length in characters; what the seeded    *)
(* generator of a prompt draws is the prompt and the number of the draw.   *)
(***************************************************************************)
EXTENDS Naturals, Sequences, FiniteSets

CONSTANTS
  Prompts,     \* the prompts, each with its length: [id, length, retried]
  Contexts,    \* lengths of the context, 0 for none
  MaxTokens,   \* values of max_tokens
  StreamTokens,\* values of stream_completion_tokens
  Latency,     \* stream_chunk_latency_ms
  MaxCalls     \* bound on the calls of a behaviour

ASSUME ProviderOK ==
  /\ \A p \in Prompts : p.length \in Nat /\ p.retried \in BOOLEAN
  /\ Contexts \subseteq Nat /\ MaxTokens \subseteq Nat /\ StreamTokens \subseteq Nat
  /\ Latency \in Nat /\ MaxCalls \in Nat

VARIABLES
  failure_mode,
  call_count,
  replies,     \* what chat returned, with what it was asked
  stream,      \* the stream measure_ttft reads, << >> between two
  reader,      \* what it has read so far
  measured     \* what it returned

providerStateVars == <<failure_mode, call_count, replies, stream, reader, measured>>

ScriptedLength == [confidently_wrong |-> 62, ungrounded |-> 49, retry_loop |-> 49,
                   no_termination |-> 55, drift |-> 48]

FailureModes == DOMAIN ScriptedLength \cup {"none", "slow", "error"}

Least(a, b) == IF a < b THEN a ELSE b
Most(a, b) == IF a > b THEN a ELSE b

count_tokens(length) == Most(1, (length + 3) \div 4)

(* The scripted modes answer with a text of their own, the healthy path    *)
(* with the first sentence of the context, or that it has no source.       *)
TextLength(context) ==
  IF failure_mode \in DOMAIN ScriptedLength THEN ScriptedLength[failure_mode]
  ELSE IF context = 0 THEN 32 ELSE context + 1

\* Only a drifting answer draws, for its noise, before the response id is drawn.
DrawsOfText == IF failure_mode = "drift" THEN 1 ELSE 0

\* Mutant: one generator for the provider, which every call moves on.
ResponseIdShared(prompt) == <<prompt.id, DrawsOfText + call_count>>

(* _rng starts a generator of its own for every call.                      *)
ResponseId(prompt) == <<prompt.id, DrawsOfText>>

-----------------------------------------------------------------------------
(* chat                                                                    *)
Attempts(prompt) == IF prompt.retried THEN 2 ELSE 1

Reply(prompt, context, max_tokens) ==
  LET once_in == count_tokens(prompt.length + context)
      once_out == Least(max_tokens, count_tokens(TextLength(context)))
      output == once_out * Attempts(prompt)
  IN  [input_tokens |-> once_in * Attempts(prompt), output_tokens |-> output,
       attempts |-> Attempts(prompt),
       finish_reason |-> IF output >= max_tokens THEN "length" ELSE "stop",
       response_id |-> ResponseId(prompt), text |-> TextLength(context)]

ProviderInit ==
  /\ failure_mode \in FailureModes
  /\ call_count = 0
  /\ replies = << >>
  /\ stream = << >>
  /\ reader = << >>
  /\ measured = << >>

(* A call is counted before it fails.                                      *)
Chat(prompt, context, max_tokens) ==
  /\ call_count < MaxCalls
  /\ call_count' = call_count + 1
  /\ replies' = IF failure_mode = "error" THEN replies
       ELSE Append(replies, [prompt |-> prompt, context |-> context, max_tokens |-> max_tokens,
                             reply |-> Reply(prompt, context, max_tokens)])
  /\ UNCHANGED <<failure_mode, stream, reader, measured>>

-----------------------------------------------------------------------------
(* stream_chat and its reader.  The generator runs up to its next chunk    *)
(* when the reader asks for one, the clock moves inside it.                *)

\* _split_stream_text: where each part ends, as even as whole characters allow.
Parts(length, parts) == Most(1, Least(parts, length))
Ends(length, parts) ==
  LET n == Parts(length, parts)
      end[i \in 0..n] ==
        IF i = 0 THEN 0 ELSE IF i = n THEN length
        ELSE LET start == end[i - 1] IN start + Most(1, (length - start) \div (n - i + 1))
  IN  end

(* Its finish_reason starts as "stop" and no chunk says otherwise.         *)
NoReader == [first |-> 0, now |-> 0, contents |-> << >>, usage |-> 0]

OpenStream(prompt, context, max_tokens, parts) ==
  /\ stream = << >>
  /\ call_count < MaxCalls
  /\ stream' = [text |-> TextLength(context), next |-> 0, prompt |-> prompt,
                parts |-> Parts(TextLength(context), Most(1, Least(max_tokens, parts))),
                clock |-> IF failure_mode = "slow" THEN 50 ELSE 0]
  /\ reader' = NoReader
  /\ UNCHANGED <<failure_mode, call_count, replies, measured>>

(* The call is counted, and fails, when the first chunk is asked for.      *)
(* Chunk 0 carries the role and no content, chunks 1 to n the content, the *)
(* last one the usage and no choice.                                       *)
StreamFails ==
  /\ stream # << >>
  /\ failure_mode = "error"
  /\ stream' = << >>
  /\ reader' = << >>
  /\ call_count' = call_count + 1
  /\ UNCHANGED <<failure_mode, replies, measured>>

ReadRole ==
  /\ stream # << >> /\ failure_mode # "error" /\ stream.next = 0
  /\ stream' = [stream EXCEPT !.next = 1]
  /\ reader' = [reader EXCEPT !.now = stream.clock]
  /\ call_count' = call_count + 1
  /\ UNCHANGED <<failure_mode, replies, measured>>

\* Mutant: the time to first token is that of the role chunk.
FirstTokenAtRole(now) == reader.now

FirstTokenAt(now) == now

ReadContent ==
  /\ stream # << >> /\ stream.next \in 1..stream.parts
  /\ LET now == stream.clock + Latency
         end == Ends(stream.text, stream.parts)
         content == end[stream.next] - end[stream.next - 1]
     IN  /\ stream' = [stream EXCEPT !.next = @ + 1, !.clock = now]
         /\ reader' = [reader EXCEPT !.now = now,
              !.first = IF content > 0 /\ reader.contents = << >> THEN FirstTokenAt(now) ELSE @,
              !.contents = IF content > 0 THEN Append(@, content) ELSE @]
  /\ UNCHANGED <<failure_mode, call_count, replies, measured>>

(* The answer, its contents put together.                                  *)
Joined(contents) ==
  LET answer[i \in 0..Len(contents)] == IF i = 0 THEN 0 ELSE answer[i - 1] + contents[i]
  IN  answer[Len(contents)]

(* What measure_ttft returns of a stream read to its end.                  *)
Measurement(read, text) ==
  [answer |-> Joined(read.contents), text |-> text, ttft |-> read.first, total |-> read.now,
   output_tokens |-> read.usage, window |-> read.now - read.first,
   received |-> Len(read.contents)]

ReadUsage ==
  /\ stream # << >> /\ stream.next = stream.parts + 1
  /\ measured' = Measurement([reader EXCEPT !.now = stream.clock + Latency,
                                            !.usage = stream.parts], stream.text)
  /\ stream' = << >>
  /\ reader' = << >>
  /\ UNCHANGED <<failure_mode, call_count, replies>>

StreamStep == StreamFails \/ ReadRole \/ ReadContent \/ ReadUsage

ProviderNext ==
  \/ \E prompt \in Prompts, context \in Contexts, max_tokens \in MaxTokens :
       \/ Chat(prompt, context, max_tokens)
       \/ \E parts \in StreamTokens : OpenStream(prompt, context, max_tokens, parts)
  \/ StreamStep

ProviderSpec == ProviderInit /\ [][ProviderNext]_providerStateVars

-----------------------------------------------------------------------------
(* Properties                                                              *)

(* The same call gets the same reply whatever was called in between, which *)
(* the fixed numbers of the book's tests rely on; the tokens are those of  *)
(* the text times the attempts that were paid for; and a reply that says   *)
(* "stop" was not cut (one of two attempts may say "length" uncut).        *)
RepliesReplay ==
  /\ \A i, j \in DOMAIN replies :
       [replies[i] EXCEPT !.reply = 0] = [replies[j] EXCEPT !.reply = 0]
         => replies[i].reply = replies[j].reply
  /\ \A i \in DOMAIN replies : LET r == replies[i].reply IN
       /\ r.finish_reason = "stop" =>
            r.output_tokens = r.attempts * count_tokens(r.text)
       /\ r.attempts = 1 /\ r.finish_reason = "length" =>
            count_tokens(r.text) >= replies[i].max_tokens

(* The reader puts the text together again from any split; the tokens it   *)
(* reports are the chunks it received; the first one is timed when content *)
(* arrives; and the window it divides by is one latency per token, so that *)
(* tokens per second is the rate of the stream.                            *)
StreamMeasured ==
  measured # << >> =>
    /\ measured.answer = measured.text
    /\ measured.output_tokens = measured.received
    /\ measured.window = measured.output_tokens * Latency
    /\ measured.total = measured.ttft + measured.window
    /\ measured.ttft >= Latency

(* Both: what the provider answers, and streams, is what the book prints. *)
ProviderReplays == RepliesReplay /\ StreamMeasured
=============================================================================
