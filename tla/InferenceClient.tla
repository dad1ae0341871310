-------------------------- MODULE InferenceClient --------------------------
(***************************************************************************)
(* A call of the local inference client (inference/client): the requests   *)
(* that identify the model, the streams of a generation with its retries   *)
(* and repairs, and the thread that reads a stream into a queue.  The      *)
(* backend answers, fails, stalls or breaks off as it likes, and another   *)
(* thread may cancel the call at any moment.  Of a stream only the kind of *)
(* each line is kept, numbered by the stream it came from.                 *)
(***************************************************************************)
EXTENDS Calls, Naturals, Sequences

CONSTANTS MaxTries,         \* MAX_ATTEMPTS of a request
          MaxRepairs,       \* MAX_REPAIR_ATTEMPTS of a structured output
          MaxLines          \* bound: lines of a stream

VARIABLE client

NoClient == [pc |-> "idle", kind |-> "none", backend |-> "none", structured |-> FALSE, tries |-> 0, round |-> 0,
             stream |-> 0, queue |-> <<>>, ended |-> FALSE, read |-> 0, text |-> <<>>, waits |-> 0,
             cancel |-> FALSE, answer |-> "none"]

ClientInit == client = NoClient

Replies == {"ok", "missing", "busy", "timeout", "unreachable", "malformed"}
StreamEnds == {"done", "timeout", "backend_error", "architecture_unsupported"}

Calling == client.pc \notin {"idle", "back"}

\* generate, embed and health: each begins with the list of models, vLLM is
\* asked for its health before that.
StartCall(kind, backend, structured) ==
  /\ call = Ready /\ call' = [op |-> "client"]
  /\ client' = [NoClient EXCEPT !.pc = IF backend = "vllm" THEN "healthy" ELSE "list", !.kind = kind,
                                !.backend = backend, !.structured = structured]

CancelCall == Calling /\ ~client.cancel /\ client' = [client EXCEPT !.cancel = TRUE] /\ UNCHANGED call

\* failed_result, EmbeddingResult and HealthStatus of an error.
Answered(status) == client' = [client EXCEPT !.pc = "back", !.answer = status]

\* Errors that no attempt follows, of a request and of a stream.
Final == IF client.pc = "stream" THEN {"timeout", "cancelled", "architecture_unsupported"}
         ELSE {"timeout", "cancelled"}

\* The except clauses of _json and _complete; rest is what is left in the queue.
Failed(status, rest) ==
  LET after == [client EXCEPT !.queue = rest, !.waits = @ + (IF status = "timeout" THEN 1 ELSE 0)]
  IN  IF status \in Final \/ client.tries + 1 >= MaxTries
      THEN client' = [after EXCEPT !.pc = "back", !.answer = status]
      ELSE client' = [after EXCEPT !.pc = IF @ = "stream" THEN "open" ELSE @, !.tries = @ + 1]

\* What follows a request that was answered well: identify, for which Ollama is
\* asked about the model and vLLM has to list it, then the vectors or the stream.
Go(pc) == client' = [client EXCEPT !.pc = pc, !.tries = 0]
Identified ==
  \/ Go(IF client.kind = "embed" THEN "embed" ELSE "open")
  \/ Answered("architecture_unsupported")         \* the model cannot do that
Followed ==
  CASE client.pc = "healthy" -> Go("list")
    [] client.pc = "list" /\ client.kind # "health" -> IF client.backend = "vllm" THEN Identified ELSE Go("show")
    [] client.pc = "show" -> Identified
    [] OTHER -> Answered("ok")

\* _json over request_json: one attempt of a request.
Exchange ==
  /\ client.pc \in {"healthy", "list", "show", "embed"}
  /\ IF client.cancel THEN Failed("cancelled", client.queue)
     ELSE \E reply \in Replies :
            CASE reply = "ok" -> Followed
              [] reply = "missing" -> \/ Answered("backend_error")
                                      \/ client.pc \in {"show", "embed"} /\ Answered("architecture_unsupported")
              [] reply \in {"busy", "unreachable"} -> Failed("backend_error", client.queue)
              [] OTHER -> Failed(reply, client.queue)
  /\ UNCHANGED call

\* _generate's check, then stream_lines: a queue and a thread of its own.
OpenStream ==
  /\ client.pc = "open"
  /\ IF client.cancel THEN Answered("cancelled")
     ELSE client' = [client EXCEPT !.pc = "stream", !.stream = @ + 1, !.queue = <<>>,
                                   !.ended = FALSE, !.read = 0, !.text = <<>>]
  /\ UNCHANGED call

\* _stream_worker of the open stream: a line, the end or an error.  Whoever
\* gave the stream up never looks at its queue again.
Worker ==
  /\ client.pc = "stream" /\ ~client.ended
  /\ \E line \in StreamEnds \cup (IF client.read < MaxLines THEN {"text", "filter", "junk", "too large"} ELSE {}) :
       client' = [client EXCEPT !.queue = Append(@, [line |-> line, of |-> client.stream]),
                                !.ended = line \in StreamEnds,
                                !.read = @ + (IF line \in StreamEnds THEN 0 ELSE 1)]
  /\ UNCHANGED call

\* validate_structured and the repair loop of _generate.
Completed ==
  IF client.text # <<>> /\ client.text[Len(client.text)].line = "filter" THEN Answered("refused")
  ELSE IF ~client.structured THEN Answered("ok")
  ELSE \/ Answered("ok")
       \/ Answered("refused")
       \/ IF client.round >= MaxRepairs THEN Answered("malformed")
          ELSE client' = [client EXCEPT !.pc = "open", !.tries = 0, !.round = @ + 1]

\* _next_event and collect_text: cancellation is looked at first.
TakeLine ==
  /\ client.pc = "stream"
  /\ IF client.cancel THEN Failed("cancelled", client.queue)
     ELSE /\ client.queue # <<>>
          /\ LET head == Head(client.queue)
             IN  CASE head.line = "done" -> Completed
                   [] head.line = "junk" -> Failed("malformed", Tail(client.queue))
                   [] head.line = "too large" -> Failed("backend_error", Tail(client.queue))
                   [] head.line \in StreamEnds \ {"done"} -> Failed(head.line, Tail(client.queue))
                   [] OTHER -> client' = [client EXCEPT !.queue = Tail(@), !.text = Append(@, head)]
  /\ UNCHANGED call

\* Mutant: the client waits for the thread however long it reads.
NeverLate == FALSE /\ UNCHANGED <<call, client>>

\* The deadline of stream_lines passes.
Late == client.pc = "stream" /\ ~client.cancel /\ Failed("timeout", client.queue) /\ UNCHANGED call

ReturnCall ==
  client.pc = "back" /\ call' = Ready /\ client' = NoClient

ClientNext ==
  \/ \E backend \in {"ollama", "vllm"} :
       \/ \E structured \in BOOLEAN : StartCall("generate", backend, structured)
       \/ \E kind \in {"embed", "health"} : StartCall(kind, backend, FALSE)
  \/ CancelCall \/ Exchange \/ OpenStream \/ Worker \/ TakeLine \/ Late \/ ReturnCall

\* The calling thread goes on; the backend need not.
ClientFairness ==
  LET vars == <<call, client>>
  IN  WF_vars(Exchange) /\ WF_vars(OpenStream) /\ WF_vars(TakeLine) /\ WF_vars(Late) /\ WF_vars(ReturnCall)

-----------------------------------------------------------------------------
(* Properties.                                                             *)

\* What a completed generation answers is read from its last stream alone, to
\* the end: no line of a stream that was given up before it is mixed in.
OneStreamAnswers ==
  client.pc = "back" /\ client.kind = "generate" /\ client.answer = "ok" =>
    /\ Len(client.text) = client.read /\ client.ended
    /\ \A i \in 1..Len(client.text) : client.text[i].of = client.stream

\* However many attempts and repairs a call has, it waits for one timeout.
WaitsOnce == client.waits <= 1

\* A call returns even if the backend stalls in the middle of a stream.
CallReturns == (client.pc # "idle") ~> (client.pc = "idle")

\* A call to a model server returns in time, with the answer of one stream.
ClientSound ==
  /\ []OneStreamAnswers
  /\ []WaitsOnce
  /\ CallReturns
=============================================================================
