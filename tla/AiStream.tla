------------------------------- MODULE AiStream -------------------------------
(***************************************************************************)
(* The server-sent events of an AI interpretation: the event_stream of the *)
(* chart routers (app/routers/horoscope.py, transits.py, ... and their     *)
(* common form in _sse_utils.py) over the stream_completion of the two     *)
(* providers (app/services/perplexity.py, providers/mistral_client.py).    *)
(*                                                                         *)
(* All streams of this module ask for the same text: same prompt, same     *)
(* role, same model, hence one cache key.  The cache may lose the entry at *)
(* any time, which is all TextCache says of it.  A text is the sequence of *)
(* the chunks it arrived in.                                               *)
(***************************************************************************)
EXTENDS Integers, Sequences, SequencesExt

CONSTANTS
  Streams,     \* requests for the text
  Responses,   \* Responses[p]: texts provider p may answer with
  Openings,    \* texts the normalised prompt starts with
  Echoes,      \* texts _looks_like_prompt_echo recognises
  Users,       \* the streams of a logged-in user
  NoText,      \* "None": nothing is cached
  Attempts,    \* attempts of Mistral at one stream: range(3)
  MaxRestarts  \* bound: restarts of the server

Placeholder == <<"placeholder">>  \* what DISABLE_AI answers
ErrorText == <<"error">>          \* _format_mistral_error

Providers == {"perplexity", "mistral"}

AllResponses == UNION {Responses[p] : p \in Providers}

ASSUME AiStreamAssumption ==
  /\ Users \subseteq Streams
  /\ \A t \in AllResponses : t \in Seq(Range(t))
  /\ <<>> \notin Echoes /\ NoText \notin Echoes
  \* the beginning of what the prompt starts with, it starts with as well
  /\ \A t \in Openings : Len(t) > 1 => SubSeq(t, 1, Len(t) - 1) \in Openings
  /\ {Placeholder, ErrorText} \cap (Echoes \cup Openings \cup AllResponses) = {}
  /\ Attempts \in Nat \ {0}
  /\ MaxRestarts \in Nat

VARIABLES
  provider,  \* ai_provider of the settings: "perplexity" or "mistral"
  disabled,  \* DISABLE_AI, read once when the server starts
  restarts,  \* number of restarts
  cache,     \* what the cache holds for the text
  complete,  \* history: answers whose request ended without an exception
  phase,     \* phase[k]: what stream k does next
  given,     \* given[k]: the text the cache gave stream k, or NoText
  rest,      \* rest[k]: chunks of the response that have not arrived
  held,      \* held[k]: chunks kept back because the prompt starts with them
  pending,   \* pending[k]: prompt_prefix_pending
  attempt,   \* attempt[k]: requests to the provider that were rate limited
  full,      \* full[k]: summary_parts
  events     \* events[k]: the events sent to the client

own == <<given, rest, held, pending, attempt, full, events>>
vars == <<provider, disabled, restarts, cache, complete, phase, own>>

-----------------------------------------------------------------------------
Event(kind, t) == [kind |-> kind, text |-> t]

Kinds(k) == [i \in DOMAIN events[k] |-> events[k][i].kind]

\* The text of the summary_delta events of k, and whether there was one
Deltas(k) ==
  FlattenSeq([i \in DOMAIN events[k] |->
                IF events[k][i].kind = "delta" THEN events[k][i].text ELSE <<>>])
Streamed(k) == \E i \in DOMAIN events[k] : events[k][i].kind = "delta"

At(k, p) == phase[k] = p
Goto(k, p) == phase' = [phase EXCEPT ![k] = p]

Send(k, kind, t) == events' = [events EXCEPT ![k] = Append(@, Event(kind, t))]

\* A chunk is sent and collected.
Deliver(k, t) ==
  /\ Send(k, "delta", t)
  /\ full' = [full EXCEPT ![k] = @ \o t]

\* An exception inside the try of event_stream
Raise(k) == Send(k, "error", <<>>) /\ Goto(k, "ended")

\* get_cached
Hit ==
  IF disabled \/ (provider = "perplexity" /\ cache \in Echoes) THEN NoText ELSE cache

\* Perplexity's get_cached_summary deletes an entry that echoes the prompt.
Purged ==
  IF ~disabled /\ provider = "perplexity" /\ cache \in Echoes THEN NoText ELSE cache

Init ==
  /\ provider \in Providers
  /\ disabled \in BOOLEAN
  /\ restarts = 0
  /\ cache = NoText
  /\ complete = {}
  /\ phase = [k \in Streams |-> "new"]
  /\ given = [k \in Streams |-> NoText]
  /\ rest = [k \in Streams |-> <<>>]
  /\ held = [k \in Streams |-> <<>>]
  /\ pending = [k \in Streams |-> provider = "perplexity"]
  /\ attempt = [k \in Streams |-> 0]
  /\ full = [k \in Streams |-> <<>>]
  /\ events = [k \in Streams |-> <<>>]

-----------------------------------------------------------------------------
(* The handler.                                                             *)

\* The chart gave no prompt: meta, an empty done, and nothing is saved.
PrepareEmpty(k) ==
  /\ At(k, "new")
  /\ Goto(k, "bareMeta")
  /\ UNCHANGED <<provider, disabled, restarts, cache, complete, own>>

Bare(k) ==
  /\ \/ At(k, "bareMeta") /\ Send(k, "meta", <<>>) /\ Goto(k, "bareDone")
     \/ At(k, "bareDone") /\ Send(k, "done", <<>>) /\ Goto(k, "ended")
  /\ UNCHANGED <<provider, disabled, restarts, cache, complete, given, rest, held, pending, attempt, full>>

\* The cache is asked before the rate limit, and a hit costs nothing of it.
Prepare(k, allowed) ==
  /\ At(k, "new")
  /\ cache' = Purged
  /\ given' = [given EXCEPT ![k] = Hit]
  /\ Goto(k, IF Hit # NoText \/ allowed THEN "meta" ELSE "refused")
  /\ UNCHANGED <<provider, disabled, restarts, complete, rest, held, pending, attempt, full, events>>

Meta(k) ==
  /\ At(k, "meta")
  /\ Send(k, "meta", <<>>)
  /\ Goto(k, IF given[k] # NoText THEN "done" ELSE "open")
  /\ UNCHANGED <<provider, disabled, restarts, cache, complete, given, rest, held, pending, attempt, full>>

-----------------------------------------------------------------------------
(* stream_completion.                                                       *)

\* DISABLE_AI: the placeholder is the whole stream.
OpenDisabled(k) ==
  /\ At(k, "open") /\ disabled
  /\ Deliver(k, Placeholder)
  /\ Goto(k, "collected")
  /\ UNCHANGED <<provider, disabled, restarts, cache, complete, given, rest, held, pending, attempt>>

\* The cache is asked again: another stream may have filled it meanwhile.
OpenCached(k) ==
  /\ At(k, "open") /\ ~disabled /\ Hit # NoText
  /\ Deliver(k, Hit)
  /\ Goto(k, "collected")
  /\ UNCHANGED <<provider, disabled, restarts, cache, complete, given, rest, held, pending, attempt>>

OpenMiss(k) ==
  /\ At(k, "open") /\ ~disabled /\ Hit = NoText
  /\ cache' = Purged
  /\ Goto(k, "connect")
  /\ UNCHANGED <<provider, disabled, restarts, complete, own>>

Connect(k, t) ==
  /\ At(k, "connect")
  /\ rest' = [rest EXCEPT ![k] = t]
  /\ Goto(k, "read")
  /\ UNCHANGED <<provider, disabled, restarts, cache, complete, given, held, pending, attempt, full, events>>

Read(k) ==
  /\ At(k, "read") /\ rest[k] # <<>> /\ ~pending[k]
  /\ rest' = [rest EXCEPT ![k] = Tail(@)]
  /\ Deliver(k, <<Head(rest[k])>>)
  /\ UNCHANGED <<provider, disabled, restarts, cache, complete, phase, given, held, pending, attempt>>

\* mutant: the chunk that is still in doubt is sent
ReadPending_Eager(k) ==
  LET t == Append(held[k], Head(rest[k])) IN
  /\ At(k, "read") /\ rest[k] # <<>> /\ pending[k]
  /\ rest' = [rest EXCEPT ![k] = Tail(@)]
  /\ Deliver(k, t)
  /\ held' = [held EXCEPT ![k] = <<>>]
  /\ pending' = [pending EXCEPT ![k] = t \in Openings]
  /\ UNCHANGED <<provider, disabled, restarts, cache, complete, phase, given, attempt>>
\* mutant: the buffer is not cleared when its chunks have been sent
ReadPending_NotCleared(k) ==
  LET t == Append(held[k], Head(rest[k])) IN
  /\ At(k, "read") /\ rest[k] # <<>> /\ pending[k]
  /\ rest' = [rest EXCEPT ![k] = Tail(@)]
  /\ held' = [held EXCEPT ![k] = t]
  /\ IF t \in Openings
     THEN UNCHANGED <<pending, full, events>>
     ELSE pending' = [pending EXCEPT ![k] = FALSE] /\ Deliver(k, t)
  /\ UNCHANGED <<provider, disabled, restarts, cache, complete, phase, given, attempt>>
\* Perplexity: as long as the answer is what the prompt starts with, it is
\* held back; with the first deviation all of it is sent.
ReadPending(k) ==
  LET t == Append(held[k], Head(rest[k])) IN
  /\ At(k, "read") /\ rest[k] # <<>> /\ pending[k]
  /\ rest' = [rest EXCEPT ![k] = Tail(@)]
  /\ IF t \in Openings
     THEN /\ held' = [held EXCEPT ![k] = t]
          /\ UNCHANGED <<pending, full, events>>
     ELSE /\ held' = [held EXCEPT ![k] = <<>>]
          /\ pending' = [pending EXCEPT ![k] = FALSE]
          /\ Deliver(k, t)
  /\ UNCHANGED <<provider, disabled, restarts, cache, complete, phase, given, attempt>>

\* Perplexity: a line that cannot be decoded or has no choices is passed over.
Skip(k) ==
  /\ At(k, "read") /\ rest[k] # <<>> /\ provider = "perplexity"
  /\ rest' = [rest EXCEPT ![k] = Tail(@)]
  /\ UNCHANGED <<provider, disabled, restarts, cache, complete, phase, given, held, pending, attempt, full, events>>

\* The connection is closed in order before all of the answer has come: the
\* lines are over, and nobody misses the [DONE] that never came.
Close(k) ==
  /\ At(k, "read") /\ rest[k] # <<>>
  /\ rest' = [rest EXCEPT ![k] = <<>>]
  /\ UNCHANGED <<provider, disabled, restarts, cache, complete, phase, given, held, pending, attempt, full, events>>

\* What _ThinkStreamFilter kept back comes at the end of the lines and is not
\* compared with the prompt.
Flush(k) ==
  /\ At(k, "read") /\ rest[k] # <<>> /\ pending[k]
  /\ rest' = [rest EXCEPT ![k] = <<>>]
  /\ held' = [held EXCEPT ![k] = Append(@, Head(rest[k]))]
  /\ UNCHANGED <<provider, disabled, restarts, cache, complete, phase, given, pending, attempt, full, events>>

\* The stream ends and nothing is in doubt.
EndOfStream(k) ==
  /\ At(k, "read") /\ rest[k] = <<>> /\ held[k] = <<>>
  /\ complete' = complete \cup {full[k]}
  /\ Goto(k, "collected")
  /\ UNCHANGED <<provider, disabled, restarts, cache, own>>

\* The stream ends in doubt, but it is no echo.
EndInDoubt(k) ==
  /\ At(k, "read") /\ rest[k] = <<>> /\ held[k] # <<>> /\ held[k] \notin Echoes
  /\ Deliver(k, held[k])
  /\ complete' = complete \cup {full'[k]}
  /\ held' = [held EXCEPT ![k] = <<>>]
  /\ Goto(k, "collected")
  /\ UNCHANGED <<provider, disabled, restarts, cache, given, rest, pending, attempt>>

\* mutant: the stream is opened again instead
EndInEcho_Reconnect(k) ==
  /\ At(k, "read") /\ rest[k] = <<>> /\ held[k] \in Echoes
  /\ held' = [held EXCEPT ![k] = <<>>]
  /\ Goto(k, "connect")
  /\ UNCHANGED <<provider, disabled, restarts, cache, complete, given, rest, pending, attempt, full, events>>
\* The provider sent the prompt back: it is asked once more, without a stream.
EndInEcho(k) ==
  /\ At(k, "read") /\ rest[k] = <<>> /\ held[k] \in Echoes
  /\ held' = [held EXCEPT ![k] = <<>>]
  /\ Goto(k, "echo")
  /\ UNCHANGED <<provider, disabled, restarts, cache, complete, given, rest, pending, attempt, full, events>>

\* What send_summary_text answers: no echo, for it asks a second time and
\* then raises an exception.
SummaryTexts == Responses[provider] \ Echoes

\* send_summary_text caches its answer itself (an exception of the cache is
\* swallowed).  An empty answer is as bad as an echo, but it has been cached.
EchoFallback(k, t) ==
  /\ At(k, "echo") /\ t \in SummaryTexts
  /\ cache' \in {cache, t}
  /\ complete' = complete \cup {t}
  /\ IF t # <<>>
     THEN Deliver(k, t) /\ Goto(k, "collected")
     ELSE Raise(k) /\ UNCHANGED full
  /\ UNCHANGED <<provider, disabled, restarts, given, rest, held, pending, attempt>>

\* mutant: what has arrived when the connection breaks is taken for the answer
Break_AsEnd(k) ==
  /\ phase[k] \in {"connect", "read", "echo"} /\ provider = "perplexity"
  /\ Goto(k, "collected")
  /\ UNCHANGED <<provider, disabled, restarts, cache, complete, own>>
\* Perplexity: the request fails, the connection breaks or its timeout
\* passes.  Mistral: there is no API key.
Break(k) ==
  /\ \/ provider = "perplexity" /\ phase[k] \in {"connect", "read", "echo"}
     \/ provider = "mistral" /\ At(k, "connect") /\ attempt[k] = 0
  /\ Raise(k)
  /\ UNCHANGED <<provider, disabled, restarts, cache, complete, given, rest, held, pending, attempt, full>>

\* mutant: the chunks of the failed attempt are forgotten
Retry_Restarted(k) ==
  /\ phase[k] \in {"connect", "read"} /\ provider = "mistral"
  /\ attempt[k] < Attempts - 1
  /\ attempt' = [attempt EXCEPT ![k] = @ + 1]
  /\ full' = [full EXCEPT ![k] = <<>>]
  /\ Goto(k, "connect")
  /\ UNCHANGED <<provider, disabled, restarts, cache, complete, given, rest, held, pending, events>>
\* Mistral is rate limited: the request is repeated from the start, also when
\* chunks of the answer have been sent already.
Retry(k) ==
  /\ phase[k] \in {"connect", "read"} /\ provider = "mistral"
  /\ attempt[k] < Attempts - 1
  /\ attempt' = [attempt EXCEPT ![k] = @ + 1]
  /\ Goto(k, "connect")
  /\ UNCHANGED <<provider, disabled, restarts, cache, complete, given, rest, held, pending, full, events>>

\* Any other failure, or the last attempt: an error text ends the stream.
GiveUp(k) ==
  /\ phase[k] \in {"connect", "read"} /\ provider = "mistral"
  /\ Deliver(k, ErrorText)
  /\ Goto(k, "collected")
  /\ UNCHANGED <<provider, disabled, restarts, cache, complete, given, rest, held, pending, attempt>>

-----------------------------------------------------------------------------
(* After the stream.                                                        *)

\* No chunk arrived: chat_completion is asked in a thread.
Fallback(k, t) ==
  /\ At(k, "collected") /\ ~Streamed(k)
  /\ \/ provider = "mistral" /\ t \in Responses[provider] /\ UNCHANGED cache
     \/ provider = "perplexity" /\ Hit # NoText /\ t = Hit /\ UNCHANGED cache
     \/ provider = "perplexity" /\ Hit = NoText /\ t \in SummaryTexts
          /\ cache' \in {Purged, t}
  /\ complete' = complete \cup {t}
  /\ full' = [full EXCEPT ![k] = t]
  /\ Goto(k, "cache")
  /\ UNCHANGED <<provider, disabled, restarts, given, rest, held, pending, attempt, events>>

\* It failed as well: the answer is empty.
FallbackFails(k) ==
  /\ At(k, "collected") /\ ~Streamed(k)
  /\ provider = "mistral" \/ Hit = NoText
  /\ cache' = Purged
  /\ Goto(k, "cache")
  /\ UNCHANGED <<provider, disabled, restarts, complete, own>>

\* Mistral's message may have no content: there is no text to join.
FallbackNull(k) ==
  /\ At(k, "collected") /\ ~Streamed(k) /\ provider = "mistral"
  /\ Raise(k)
  /\ UNCHANGED <<provider, disabled, restarts, cache, complete, given, rest, held, pending, attempt, full>>

Collected(k) ==
  /\ At(k, "collected") /\ Streamed(k)
  /\ Goto(k, "cache")
  /\ UNCHANGED <<provider, disabled, restarts, cache, complete, own>>

\* cache_result; an exception is swallowed.
CacheResult(k) ==
  /\ At(k, "cache")
  /\ cache' \in {cache, full[k]}
  /\ Goto(k, "done")
  /\ UNCHANGED <<provider, disabled, restarts, complete, own>>

Done(k) ==
  /\ At(k, "done")
  /\ Send(k, "done", IF given[k] # NoText THEN given[k] ELSE full[k])
  /\ Goto(k, "save")
  /\ UNCHANGED <<provider, disabled, restarts, cache, complete, given, rest, held, pending, attempt, full>>

Save(k) ==
  /\ At(k, "save") /\ k \in Users
  /\ Send(k, "saved", IF given[k] # NoText THEN given[k] ELSE full[k])
  /\ Goto(k, "ended")
  /\ UNCHANGED <<provider, disabled, restarts, cache, complete, given, rest, held, pending, attempt, full>>

\* mutant: the exception of the save reaches the handler of the stream
SaveFails_Raised(k) ==
  /\ At(k, "save")
  /\ Raise(k)
  /\ UNCHANGED <<provider, disabled, restarts, cache, complete, given, rest, held, pending, attempt, full>>
\* Nobody is logged in, or saving failed, which is logged.
SaveFails(k) ==
  /\ At(k, "save")
  /\ Goto(k, "ended")
  /\ UNCHANGED <<provider, disabled, restarts, cache, complete, own>>

-----------------------------------------------------------------------------
(* The world.                                                               *)

\* The client goes away: the generator is closed at its next yield.
Disconnect(k) ==
  /\ phase[k] \notin {"new", "refused", "ended"}
  /\ Goto(k, "ended")
  /\ UNCHANGED <<provider, disabled, restarts, cache, complete, own>>

\* The entry expires, is evicted or deleted.
Forget ==
  /\ cache # NoText
  /\ cache' = NoText
  /\ UNCHANGED <<provider, disabled, restarts, complete, phase, own>>

\* The server restarts, possibly with another DISABLE_AI: the streams end,
\* what Redis holds survives.
Restart ==
  /\ restarts < MaxRestarts
  /\ restarts' = restarts + 1
  /\ disabled' \in BOOLEAN
  /\ phase' = [k \in Streams |-> IF phase[k] = "new" THEN "new" ELSE "ended"]
  /\ UNCHANGED <<provider, cache, complete, own>>

Step(k) ==
  \/ PrepareEmpty(k) \/ Bare(k)
  \/ \E allowed \in BOOLEAN : Prepare(k, allowed)
  \/ Meta(k)
  \/ OpenDisabled(k) \/ OpenCached(k) \/ OpenMiss(k)
  \/ \E t \in Responses[provider] : Connect(k, t)
  \/ Read(k) \/ ReadPending(k) \/ Skip(k) \/ Close(k) \/ Flush(k)
  \/ EndOfStream(k) \/ EndInDoubt(k) \/ EndInEcho(k)
  \/ \E t \in Responses[provider] : EchoFallback(k, t)
  \/ Break(k) \/ Retry(k) \/ GiveUp(k)
  \/ \E t \in Responses[provider] \cup {cache} : Fallback(k, t)
  \/ FallbackFails(k) \/ FallbackNull(k) \/ Collected(k)
  \/ CacheResult(k) \/ Done(k) \/ Save(k) \/ SaveFails(k)

Next ==
  \/ \E k \in Streams : Step(k) \/ Disconnect(k)
  \/ Forget
  \/ Restart

\* The stream waits for Mistral: the SDK is given no timeout (self.timeout of
\* the client is never used), neither for a stream nor for a completion.
Awaits(k) ==
  /\ provider = "mistral"
  /\ \/ phase[k] \in {"connect", "read"}
     \/ At(k, "collected") /\ ~Streamed(k)

\* A worker goes on with every stream it has accepted.  Perplexity sends, ends
\* or fails a request (httpx gives up after 60 seconds without a byte, and
\* max_tokens bounds an answer); of Mistral nothing is assumed.
Fairness == \A k \in Streams : WF_vars(~At(k, "new") /\ ~Awaits(k) /\ Step(k))

Spec == Init /\ [][Next]_vars /\ Fairness

-----------------------------------------------------------------------------
(* Properties.                                                              *)

Phases == {"new", "refused", "bareMeta", "bareDone", "meta", "open", "connect", "read", "echo",
           "collected", "cache", "done", "save", "ended"}

EventKinds == {"meta", "delta", "done", "saved", "error"}

Pieces == UNION {Range(t) : t \in AllResponses \cup Echoes \cup {Placeholder, ErrorText}}

\* Every variable has its type; only a response in doubt is held back.
TypeOK ==
  /\ provider \in Providers
  /\ disabled \in BOOLEAN
  /\ restarts \in 0 .. MaxRestarts
  /\ cache = NoText \/ Range(cache) \subseteq Pieces
  /\ phase \in [Streams -> Phases]
  /\ \A k \in Streams :
       /\ given[k] = NoText \/ Range(given[k]) \subseteq Pieces
       /\ held[k] # <<>> => phase[k] \in {"read", "ended"} /\ pending[k]
       /\ pending[k] \in BOOLEAN
       /\ attempt[k] \in 0 .. Attempts - 1
       /\ \A i \in DOMAIN events[k] : events[k][i].kind \in EventKinds

\* The events of a stream are meta, deltas, then either error or done, and
\* after done at most saved: the client stops reading at an error and takes
\* the text of done, whatever failed in between.
EventsInOrder ==
  \A k \in Streams : \A i \in DOMAIN events[k] :
    LET kind == Kinds(k) IN
    /\ kind[i] = "meta" <=> i = 1
    /\ kind[i] \in {"error", "saved"} => i = Len(kind)
    /\ kind[i] = "done" => i = Len(kind) \/ kind[i + 1] = "saved"
    /\ kind[i] = "saved" => kind[i - 1] = "done"

\* The text of done, which the client shows in the end and which is stored,
\* is the text it has shown chunk by chunk, however often the request to the
\* provider was repeated.
DoneIsWhatWasShown ==
  \A k \in Streams : \A i \in DOMAIN events[k] :
    events[k][i].kind = "done" /\ Streamed(k) => events[k][i].text = Deltas(k)

\* The text k got out of the cache, once it has been sent
ServedFromCache(k) ==
  IF given[k] # NoText /\ "done" \in Range(Kinds(k)) THEN given[k] ELSE NoText

\* Perplexity: a response that is nothing but the beginning of the prompt is
\* not shown, neither while it arrives nor at its end; and an echo that did
\* get into the cache (it deviates from the prompt only after its beginning,
\* so it was streamed) is never served from it.
NoEcho ==
  provider = "perplexity" =>
    \A k \in Streams : /\ Deltas(k) \notin Echoes \cap Openings
                       /\ ServedFromCache(k) \notin Echoes

\* Perplexity: what had been collected when an exception, a disconnection or a
\* restart ended a stream is never cached: the next stream for the text asks
\* the provider again.  (What was collected when the connection was closed in
\* order is: the code takes it for the whole answer.)
NoFragmentCached ==
  provider = "perplexity" => cache \in complete \cup {NoText, <<>>, Placeholder}

\* A stream the server has accepted comes to its end, if Mistral does not let it
\* wait for ever: an echo, an empty response, a broken connection or a rate
\* limit never leaves the client waiting.
EveryStreamEnds ==
  \A k \in Streams : <>[]Awaits(k) \/ ((phase[k] = "meta") ~> (phase[k] = "ended"))

\* "Return cached completion or None" (ChatProvider.get_cached): what the cache
\* gives is a completion, neither the text of an error nor the text that says
\* that DISABLE_AI is set.
OnlyCompletionsServed ==
  \A k \in Streams :
    ServedFromCache(k) # NoText =>
      {"error", "placeholder"} \cap Range(ServedFromCache(k)) = {}
=============================================================================
