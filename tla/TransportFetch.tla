--------------------------- MODULE TransportFetch ---------------------------
(***************************************************************************)
(* One HTTP exchange of the native client (src/native-openai-              *)
(* transport.ts): the choice of the route, the fetch, the buffering of an  *)
(* error body under a deadline, and the observed body the SDK pulls from,  *)
(* with the abort of the attempt possible between any two of them.  An     *)
(* exchange that asks for a fresh connection owns a dispatcher (undici     *)
(* Agent) of its own that must be closed again.  The trace of stages goes  *)
(* to the event log.                                                       *)
(***************************************************************************)
EXTENDS Naturals, Sequences

CONSTANTS MaxChunks   \* bound: chunks of one body

ChunksAssumption == MaxChunks \in Nat

Modes == {"off", "connection-close", "undici-request-adapter"}

VARIABLES
  setup,      \* where the client runs and what is asked: a record of inputs
  pc,         \* of the fetch wrapper
  aborted,    \* the attempt's signal
  settled,    \* what the awaited promise has settled to: "" not yet
  response,   \* the response the fetch resolved to
  source,     \* the network's body: "none", "open", "ended" or "cancelled"
  agent,      \* the dispatcher of this exchange: "none", "open", "closed"
  recorded,   \* fetchTerminalRecorded
  pull,       \* what the observed body is doing
  terminal,   \* of the observed body
  chunks,     \* chunks read from the body
  trace       \* history: the stages emitted

inputs == <<setup>>
vars == <<setup, pc, aborted, settled, response, source, agent, recorded, pull, terminal, chunks, trace>>

Responses == {"stream", "json", "empty", "http_error"}

-----------------------------------------------------------------------------
(* selectNativeTransport, and the kind createNativeOpenAiFetch derives.    *)
Hybrid == ~setup.mobile /\ ~setup.proxied /\ setup.mode = "off"

Route ==
  CASE setup.mobile -> "mobile-host"
    [] ~setup.mobile /\ setup.proxied -> "desktop-proxy"
    [] Hybrid /\ ~setup.streaming -> "desktop-host"
    [] OTHER -> "desktop-direct"

(* The diagnostic modes and a repeated attempt get a dispatcher each.      *)
OwnAgent == Route = "desktop-direct" /\ (setup.mode # "off" \/ setup.fresh)

RawStream == Route = "desktop-direct" /\ setup.mode = "off" /\ response = "stream"

Closed == IF agent = "open" THEN "closed" ELSE agent

Emit(stages) == trace' = trace \o stages

Init ==
  /\ setup \in [mobile : BOOLEAN, proxied : BOOLEAN, mode : Modes, streaming : BOOLEAN, fresh : BOOLEAN]
  /\ pc = "idle" /\ aborted = FALSE /\ settled = "" /\ response = "none" /\ source = "none"
  /\ agent = "none" /\ recorded = FALSE /\ pull = "idle" /\ terminal = FALSE /\ chunks = 0
  /\ trace = <<>>

Fetch ==
  /\ pc = "idle" /\ pc' = "fetching"
  /\ agent' = IF OwnAgent THEN "open" ELSE "none"
  /\ recorded' = aborted
  /\ Emit(IF aborted THEN <<"fetch_start", "fetch_abort">> ELSE <<"fetch_start">>)
  /\ UNCHANGED <<setup, aborted, settled, response, source, pull, terminal, chunks>>

(* The fetch resolves or rejects; an aborted fetch rejects at last.        *)
FetchSettles ==
  /\ pc = "fetching" /\ settled = ""
  /\ \/ /\ settled' = "resolved" /\ response' \in Responses
        /\ (response' = "stream" => setup.streaming)
        /\ source' = IF response' = "empty" THEN "none" ELSE "open"
     \/ /\ settled' = "rejected" /\ UNCHANGED <<response, source>>
  /\ UNCHANGED <<setup, pc, aborted, agent, recorded, pull, terminal, chunks, trace>>

(* A mutated form: the dispatcher of a failed fetch is forgotten.          *)
FetchFailedForgets ==
  /\ pc = "fetching" /\ settled = "rejected"
  /\ pc' = "thrown" /\ recorded' = TRUE
  /\ \E aborting \in {aborted, TRUE} :
       Emit(IF recorded THEN <<>> ELSE IF aborting THEN <<"fetch_abort">> ELSE <<"fetch_error">>)
  /\ UNCHANGED <<setup, aborted, settled, response, source, agent, pull, terminal, chunks>>

(* The catch block; the error's name may say an abort of its own.          *)
FetchFailed ==
  /\ pc = "fetching" /\ settled = "rejected"
  /\ pc' = "thrown" /\ recorded' = TRUE /\ agent' = Closed
  /\ \E aborting \in {aborted, TRUE} :
       Emit(IF recorded THEN <<>> ELSE IF aborting THEN <<"fetch_abort">> ELSE <<"fetch_error">>)
  /\ UNCHANGED <<setup, aborted, settled, response, source, pull, terminal, chunks>>

(* After the fetch: an abort that came in between wins; an error's body is *)
(* buffered first on the direct route; a stream on the direct route is     *)
(* handed over raw and its dispatcher told to close when it is done.       *)
Headers ==
  /\ pc = "fetching" /\ settled = "resolved" /\ settled' = ""
  /\ IF recorded
     THEN /\ pc' = "thrown" /\ agent' = Closed
          /\ source' = IF source = "open" THEN "cancelled" ELSE source
          /\ UNCHANGED <<trace, terminal>>
     ELSE /\ source' = source
          /\ CASE Route = "desktop-direct" /\ response = "http_error" ->
                    /\ pc' = "buffering" /\ Emit(<<"fetch_headers">>) /\ UNCHANGED <<agent, terminal>>
               [] RawStream -> /\ pc' = "raw" /\ agent' = Closed /\ Emit(<<"fetch_headers">>)
                               /\ UNCHANGED terminal
               [] OTHER -> /\ pc' = "observed"
                           /\ IF response = "empty"
                              THEN /\ Emit(<<"fetch_headers", "body_start", "body_end">>)
                                   /\ terminal' = TRUE /\ agent' = Closed
                              ELSE Emit(<<"fetch_headers">>) /\ UNCHANGED <<agent, terminal>>
  /\ UNCHANGED <<setup, aborted, response, recorded, pull, chunks>>

-----------------------------------------------------------------------------
(* readResponseBodyWithin: the body, its deadline and the abort race; the  *)
(* first settles it.  At the deadline, and when the text so far is already *)
(* complete JSON, the rest is cancelled; a read error rejects.             *)
BufferSettles ==
  /\ pc = "buffering" /\ settled = ""
  /\ \/ settled' = "resolved" /\ source' = "ended"
     \/ settled' = "resolved" /\ source' = "cancelled"
     \/ settled' = "rejected" /\ source' = "ended"
  /\ UNCHANGED <<setup, pc, aborted, response, agent, recorded, pull, terminal, chunks, trace>>

(* The buffered error goes on as a body in memory; an abort since then is  *)
(* seen when it is observed, unless the body is known to be empty.         *)
Buffered ==
  /\ pc = "buffering" /\ settled # "" /\ settled' = ""
  /\ \/ /\ settled = "rejected" /\ pc' = "thrown"
        /\ Emit(<<"body_start", "body_error">>)
        /\ agent' = Closed /\ UNCHANGED terminal
     \/ /\ settled = "resolved" /\ pc' = "observed"
        /\ terminal' = aborted
        /\ agent' = IF aborted THEN Closed ELSE agent
        /\ Emit(IF aborted THEN <<"body_error">> ELSE <<>>)
     \/ /\ settled = "resolved" /\ source = "ended" /\ pc' = "observed"
        /\ terminal' = TRUE /\ agent' = Closed
        /\ Emit(<<"body_start", "body_end">>)
  /\ UNCHANGED <<setup, aborted, response, source, recorded, pull, chunks>>

-----------------------------------------------------------------------------
(* finish: the first end of the body is recorded and the dispatcher closed *)
(* once.                                                                   *)
Finish(stage, before) ==
  /\ terminal' = TRUE /\ agent' = Closed
  /\ Emit(IF terminal THEN before ELSE before \o <<stage>>)

In(story, stages) == \E i \in 1..Len(story) : story[i] \in stages

BodyStarted == In(trace, {"body_start"})
StartBody == IF BodyStarted THEN <<>> ELSE <<"body_start">>

Reads == {"reading", "chunk", "done_mark", "end", "error", "cancelling"}

(* The SDK asks for a chunk of the body.                                   *)
PullChunk ==
  /\ pc = "observed" /\ pull = "idle"
  /\ IF terminal THEN pull' = "errored" /\ UNCHANGED trace
                 ELSE pull' = "reading" /\ Emit(StartBody)
  /\ UNCHANGED <<setup, pc, aborted, settled, response, source, agent, recorded, terminal, chunks>>

(* The reader delivers: a chunk, a chunk with the [DONE] mark of a stream, *)
(* the end or an error; a cancelled reader only ends.                      *)
ReaderDelivers ==
  /\ pc = "observed" /\ pull = "reading"
  /\ \/ /\ pull' = "chunk" /\ source # "cancelled" /\ chunks < MaxChunks /\ UNCHANGED source
     \/ /\ pull' = "done_mark" /\ source # "cancelled" /\ response = "stream" /\ UNCHANGED source
     \/ /\ pull' \in {"end", "error"} /\ source' = IF source = "cancelled" THEN source ELSE "ended"
  /\ UNCHANGED <<setup, pc, aborted, settled, response, agent, recorded, terminal, chunks, trace>>

(* A mutated form: after an abort, what was read is passed on.             *)
AfterReadRegardless ==
  /\ pc = "observed" /\ pull \in {"chunk", "done_mark"}
  /\ chunks' = chunks + 1 /\ Emit(<<"body_chunk">>)
  /\ pull' = IF pull = "done_mark" THEN "cancelling" ELSE "idle"
  /\ source' = IF pull = "done_mark" THEN "cancelled" ELSE source
  /\ UNCHANGED <<setup, pc, aborted, settled, response, agent, recorded, terminal>>

(* The pull goes on after the read: a body that ended meanwhile errors.    *)
AfterRead ==
  /\ pc = "observed" /\ pull \in {"chunk", "done_mark"}
  /\ IF terminal
     THEN pull' = "errored" /\ UNCHANGED <<source, chunks, trace>>
     ELSE /\ chunks' = chunks + 1 /\ Emit(<<"body_chunk">>)
          /\ pull' = IF pull = "done_mark" THEN "cancelling" ELSE "idle"
          /\ source' = IF pull = "done_mark" THEN "cancelled" ELSE source
  /\ UNCHANGED <<setup, pc, aborted, settled, response, agent, recorded, terminal>>

AfterEnd ==
  /\ pc = "observed" /\ pull \in {"end", "error"}
  /\ IF terminal THEN pull' = "errored" /\ UNCHANGED <<terminal, agent, trace>>
     ELSE /\ pull' = IF pull = "end" THEN "closed" ELSE "errored"
          /\ Finish(IF pull = "end" THEN "body_end" ELSE "body_error", <<>>)
  /\ UNCHANGED <<setup, pc, aborted, settled, response, source, recorded, chunks>>

(* After the [DONE] mark the reader is cancelled, which may fail; the      *)
(* body may have ended by an abort while that was awaited.                 *)
AfterDone ==
  /\ pc = "observed" /\ pull = "cancelling"
  /\ \/ pull' = "closed" /\ Finish("body_end", <<>>)
     \/ pull' = "errored" /\ Finish("body_error", <<>>)
  /\ UNCHANGED <<setup, pc, aborted, settled, response, source, recorded, chunks>>

(* The SDK gives up the body between two pulls.                            *)
CancelBody ==
  /\ pc = "observed" /\ pull = "idle" /\ pull' = "closed"
  /\ source' = IF source = "open" THEN "cancelled" ELSE source
  /\ Finish("body_error", IF terminal THEN <<>> ELSE StartBody)
  /\ UNCHANGED <<setup, pc, aborted, settled, response, recorded, chunks>>

(* The attempt's signal aborts: while the fetch is pending its end is      *)
(* recorded at once; the buffering rejects; the observed body ends.        *)
Abort ==
  /\ ~aborted /\ aborted' = TRUE
  /\ CASE pc = "fetching" -> /\ recorded' = TRUE
                             /\ Emit(IF recorded THEN <<>> ELSE <<"fetch_abort">>)
                             /\ UNCHANGED <<settled, source, agent, terminal>>
       [] pc = "buffering" /\ settled = "" ->
            /\ settled' = "rejected" /\ source' = "cancelled"
            /\ UNCHANGED <<recorded, trace, agent, terminal>>
       [] pc = "observed" /\ ~terminal ->
            /\ Finish("body_error", <<>>)
            /\ source' = IF source = "open" THEN "cancelled" ELSE source
            /\ UNCHANGED <<recorded, settled>>
       [] pc = "raw" -> /\ source' = IF source = "open" THEN "cancelled" ELSE source
                        /\ UNCHANGED <<recorded, settled, agent, terminal, trace>>
       [] OTHER -> UNCHANGED <<recorded, settled, source, agent, terminal, trace>>
  /\ UNCHANGED <<setup, pc, response, pull, chunks>>

Finished == pc \in {"thrown", "raw"} \/ (pc = "observed" /\ pull \in {"closed", "errored"})

Next ==
  \/ Fetch \/ FetchSettles \/ FetchFailed \/ Headers \/ BufferSettles \/ Buffered
  \/ PullChunk \/ ReaderDelivers \/ AfterRead \/ AfterEnd \/ AfterDone \/ CancelBody
  \/ Abort
  \/ (Finished /\ aborted /\ UNCHANGED vars)

Spec == Init /\ [][Next]_vars

AbortedSettles == aborted /\ FetchSettles
Continues == FetchFailed \/ Headers \/ Buffered \/ AfterRead \/ AfterEnd \/ AfterDone

(* Settled promises continue; an aborted fetch settles; a buffering body   *)
(* settles at its deadline.  The network and the SDK owe nothing else.     *)
FairSpec ==
  /\ Spec
  /\ WF_vars(Continues)
  /\ WF_vars(AbortedSettles) /\ WF_vars(BufferSettles)

-----------------------------------------------------------------------------
FetchEnds == {"fetch_headers", "fetch_error", "fetch_abort"}
BodyEnds == {"body_end", "body_error"}
Stages == {"fetch_start", "body_start", "body_chunk"} \cup FetchEnds \cup BodyEnds

(* The variables of an exchange are of their types, and only an exchange   *)
(* that asks for one owns a dispatcher.                                    *)
TypeOK ==
  /\ setup \in [mobile : BOOLEAN, proxied : BOOLEAN, mode : Modes, streaming : BOOLEAN, fresh : BOOLEAN]
  /\ pc \in {"idle", "fetching", "buffering", "raw", "observed", "thrown"}
  /\ {aborted, recorded, terminal} \subseteq BOOLEAN
  /\ settled \in {"", "resolved", "rejected"} /\ response \in Responses \cup {"none"}
  /\ source \in {"none", "open", "ended", "cancelled"} /\ agent \in {"none", "open", "closed"}
  /\ pull \in Reads \cup {"idle", "closed", "errored"}
  /\ agent # "none" => OwnAgent
  /\ chunks \in 0..(MaxChunks + 1) /\ trace \in Seq(Stages)

(* The stages after which there is none.                                   *)
LastStages == BodyEnds \cup {"fetch_error", "fetch_abort"}

Tells(story) ==
  \A i, j \in 1..Len(story) :
    i < j => /\ ~(story[i] \in FetchEnds /\ story[j] \in FetchEnds)
             /\ story[i] \notin LastStages
             /\ ~(story[i] = "body_start" /\ story[j] \in FetchEnds \cup {"body_start"})
             /\ (story[j] = "body_chunk" => \E k \in 1..(j - 1) : story[k] = "body_start")

(* The trace tells one story: the fetch has one end, a body is only traced *)
(* after headers, a body has one end, and nothing comes after it.          *)
OneStory == Tells(trace)

(* Once the attempt is aborted no further chunk reaches the SDK through an *)
(* observed body, also when it was read before the abort.                  *)
NothingAfterAbort == aborted => chunks' = chunks

(* When the exchange is over its dispatcher is not left open, and neither  *)
(* is the network's body unless the SDK holds it raw.                      *)
NothingLeftOpen ==
  Finished => agent # "open" /\ (pc # "raw" => source # "open")

(* Once the attempt is aborted its own dispatcher is closed in the end,    *)
(* wherever the exchange was.                                              *)
Pending == aborted /\ agent = "open"

-----------------------------------------------------------------------------
(* The inductive invariant.  What is on the network, and the dispatcher, by *)
(* the place of the code.                                                   *)
OnNetwork ==
  /\ pc = "idle" => source = "none" /\ agent = "none"
  /\ pc = "fetching" /\ (settled # "resolved" \/ response = "empty") => source = "none"
  /\ pc = "buffering" /\ settled # "" => source # "open"
  /\ pc = "thrown" => source # "open"
  /\ pc \in {"thrown", "raw"} \/ terminal => agent # "open"
  /\ terminal \/ pull \in {"end", "error", "cancelling"} => source # "open"

(* The body: one that has ended is not pulled from any more, and nothing of *)
(* it is passed on after an abort.                                          *)
Body ==
  /\ pc # "observed" => pull = "idle" /\ ~terminal /\ chunks = 0
  /\ pull \in {"closed", "errored"} => terminal
  /\ pull = "chunk" => chunks < MaxChunks
  /\ pull \notin {"cancelling", "closed", "errored"} => chunks <= MaxChunks
  /\ aborted /\ pc = "fetching" => recorded
  /\ aborted /\ pc = "observed" => terminal

(* The stages emitted so far, by the place of the code.                     *)
Traced ==
  /\ pc = "idle" => trace = <<>>
  /\ pc = "fetching" => /\ ~In(trace, BodyEnds \cup {"fetch_headers", "fetch_error", "body_start"})
                        /\ (~recorded => ~In(trace, {"fetch_abort"}))
  /\ pc = "buffering" => ~In(trace, LastStages \cup {"body_start"})
  /\ pc = "observed" => /\ ~In(trace, {"fetch_error", "fetch_abort"})
                        /\ (~terminal => ~In(trace, BodyEnds))
  /\ pull \in Reads => BodyStarted

Inv == TypeOK /\ OnNetwork /\ Body /\ Traced /\ OneStory
=============================================================================
