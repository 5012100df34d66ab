--------------------------- MODULE NativeRequest ---------------------------
(***************************************************************************)
(* One logical request to the model through the native client              *)
(* (src/native-llm-executor.ts): attempts that follow each other, the idle *)
(* and response-start timers, the abort of the caller, the buffering of    *)
(* chunks until one carries text, and the row of the lifecycle trace each  *)
(* attempt owns.  An attempt waits for a race between the network, its     *)
(* timer and the abort; the race settles first and the code continues      *)
(* later, so an abort may fall in between.                                 *)
(***************************************************************************)
EXTENDS LlmLifecycle, Sequences, FiniteSets

CONSTANTS
  MaxRetries,        \* opts.nativeRequestRetries
  MaxStartRetries,   \* maxResponseStartRetries
  IdleTimeout,       \* whether nativeRequestIdleTimeoutMs is positive
  Errors,            \* the errors the network may raise, each a set of marks
  MaxChunks          \* bound: valid chunks of one attempt

(* What the race may settle to besides an error: the answers to create, to *)
(* the pull of a chunk, and the end of a delay.                            *)
Replies == {"response", "empty", "meaningful", "keepalive", "done"}

BoundsAssumption ==
  /\ {MaxRetries, MaxStartRetries, MaxChunks} \subseteq Nat
  /\ IdleTimeout \in BOOLEAN
  /\ \A error \in Errors : error # {} /\ error \cap Replies = {}

VARIABLES
  transport,     \* "stream" or "non-stream"
  pc, attempt,
  race,          \* how the race the code awaits has settled: {} not yet,
                 \* else one answer or the marks of an error
  timer,         \* the timer that is armed: "off", "idle" or "start"
  aborted,       \* the caller's signal
  firstSeen, meaningful,   \* firstModelChunkSeen, meaningfulOutputSeen
  buffered,      \* chunks held back; while yielding, those to hand over next
  arrived,       \* valid chunks of this attempt so far
  finishing,     \* the stream has ended, what is buffered is handed over
  rows, active,  \* the lifecycle trace, and whether the current row is open
  live,          \* the attempts whose network request is open
  received       \* history: chunks (or the completion) the consumer got

attemptVars == <<firstSeen, meaningful, buffered, arrived, finishing>>
vars == <<transport, pc, attempt, race, timer, aborted, attemptVars, rows, active, live, received>>

Attempts == 0..MaxRetries
Stream == transport = "stream"

Init ==
  /\ transport \in {"stream", "non-stream"} /\ aborted \in BOOLEAN
  /\ pc = "idle" /\ attempt = 0 /\ race = {} /\ timer = "off"
  /\ firstSeen = FALSE /\ meaningful = FALSE /\ buffered = <<>>
  /\ arrived = 0 /\ finishing = FALSE
  /\ rows = [a \in Attempts |-> "none"] /\ active = FALSE
  /\ live = {} /\ received = <<>>

-----------------------------------------------------------------------------
(* classifyNativeRetry: the first mark of an error, along its causes, that *)
(* is on this list decides.                                                *)
Marks == <<"abort", "permanent_tls", "context_limit", "semantic", "no_retry_header", "retry_header",
           "start_timeout", "connection", "temporary_code", "retryable_http">>

RetryableMarks == {"retry_header", "start_timeout", "connection", "temporary_code", "retryable_http"}

Retryable(error) ==
  \E i \in 1..Len(Marks) :
    /\ Marks[i] \in error /\ Marks[i] \in RetryableMarks
    /\ \A j \in 1..(i - 1) : Marks[j] \notin error

AttemptLimit(error) ==
  IF "start_timeout" \in error /\ "retry_header" \notin error
  THEN IF MaxStartRetries < MaxRetries THEN MaxStartRetries ELSE MaxRetries
  ELSE MaxRetries

(* A mutated form: an attempt is repeated although its text was shown.     *)
CanRetryAfterOutput(error) == Retryable(error) /\ attempt < AttemptLimit(error)

CanRetry(error) == Retryable(error) /\ ~meaningful /\ attempt < AttemptLimit(error)

RetryingRow ==
  [rows EXCEPT ![attempt] = Reduce(@, "retrying"), ![attempt + 1] = Reduce(@, "preparing")]

(* lifecycle.close of the current row; a second close is ignored.          *)
Close(phase) ==
  /\ rows' = IF active THEN [rows EXCEPT ![attempt] = Reduce(@, phase)] ELSE rows
  /\ active' = FALSE

(* scope.dispose with a reason aborts the attempt's request.               *)
Disposed == live \ {attempt}

(* The catch block of an attempt: the caller's abort wins over the error.  *)
Catch(error) ==
  /\ timer' = "off" /\ live' = Disposed /\ race' = {}
  /\ UNCHANGED <<transport, aborted, attemptVars, received>>
  /\ \/ /\ aborted \/ error = {"abort"}
        /\ Close("cancelled")
        /\ pc' = "thrown" /\ UNCHANGED attempt
     \/ /\ ~aborted /\ error # {"abort"} /\ CanRetry(error)
        /\ rows' = RetryingRow /\ active' = TRUE
        /\ pc' = "delay" /\ attempt' = attempt + 1
     \/ /\ ~aborted /\ error # {"abort"} /\ ~CanRetry(error)
        /\ Close("failed")
        /\ pc' = "thrown" /\ UNCHANGED attempt

-----------------------------------------------------------------------------
(* The consumer's first request, or the call of create for a non-stream.   *)
(* A stream listens to the caller's abort for the row's sake.              *)
Start ==
  /\ pc = "idle" /\ pc' = "send"
  /\ rows' = IF Stream /\ aborted
             THEN [rows EXCEPT ![0] = Reduce(Reduce(@, "preparing"), "cancelled")]
             ELSE [rows EXCEPT ![0] = Reduce(@, "preparing")]
  /\ active' = ~(Stream /\ aborted)
  /\ UNCHANGED <<transport, attempt, race, timer, aborted, attemptVars, live, received>>

(* The head of the attempt loop.                                           *)
Send ==
  /\ pc = "send"
  /\ IF aborted THEN Catch({"abort"})
     ELSE /\ rows' = [rows EXCEPT ![attempt] = Reduce(Reduce(@, "sent"), "waiting")]
          /\ timer' = IF IdleTimeout THEN "idle" ELSE "off"
          /\ live' = live \cup {attempt}
          /\ pc' = "create" /\ race' = {}
          /\ firstSeen' = FALSE /\ meaningful' = FALSE /\ buffered' = <<>>
          /\ arrived' = 0 /\ finishing' = FALSE
          /\ UNCHANGED <<transport, attempt, aborted, active, received>>

(* What the network may answer to create and to the pull of a chunk.       *)
Answers ==
  CASE pc = "create" /\ Stream -> {{"response"}}
    [] pc = "create" /\ ~Stream -> {{"empty"}, {"meaningful"}}
    [] pc = "next" /\ arrived < MaxChunks -> {{"empty"}, {"meaningful"}, {"keepalive"}, {"done"}}
    [] pc = "next" /\ arrived >= MaxChunks -> {{"keepalive"}, {"done"}}
    [] OTHER -> {}

Network ==
  /\ race = {}
  /\ \/ /\ race' \in Answers
        /\ live' = IF Stream /\ race' # {"done"} THEN live ELSE live \ {attempt}
     \/ /\ pc \in {"create", "next"}
        /\ race' \in Errors /\ live' = live \ {attempt}
  /\ UNCHANGED <<transport, pc, attempt, timer, aborted, attemptVars, rows, active, received>>

(* The attempt's timer aborts the attempt with its own error.              *)
TimerFires ==
  /\ race = {} /\ timer # "off"
  /\ race' = IF timer = "idle" THEN {"connection"} ELSE {"start_timeout"}
  /\ timer' = "off" /\ live' = live \ {attempt}
  /\ UNCHANGED <<transport, pc, attempt, aborted, attemptVars, rows, active, received>>

DelayOver ==
  /\ pc = "delay" /\ race = {} /\ race' = {"response"}
  /\ UNCHANGED <<transport, pc, attempt, timer, aborted, attemptVars, rows, active, live, received>>

Ended == {"returned", "thrown", "left"}

(* The caller's signal: it settles a race that is open, aborts the scope   *)
(* of the attempt, and closes the row of a stream at once.                 *)
Abort ==
  /\ ~aborted /\ aborted' = TRUE /\ pc \notin Ended
  /\ race' = IF race = {} /\ pc \in {"create", "next", "delay"} THEN {"abort"} ELSE race
  /\ IF pc \in {"create", "next", "yield"}
       THEN timer' = "off" /\ live' = live \ {attempt}
       ELSE UNCHANGED <<timer, live>>
  /\ IF Stream /\ pc # "idle" THEN Close("cancelled") ELSE UNCHANGED <<rows, active>>
  /\ UNCHANGED <<transport, pc, attempt, attemptVars, received>>

-----------------------------------------------------------------------------
(* The code continues after a race that failed.                            *)
AfterError ==
  /\ pc \in {"create", "next", "delay"} /\ race \in Errors \cup {{"abort"}, {"connection"}, {"start_timeout"}}
  /\ IF pc = "delay"
       THEN /\ Close("cancelled") /\ pc' = "thrown" /\ race' = {}
            /\ UNCHANGED <<transport, attempt, timer, aborted, attemptVars, live, received>>
       ELSE Catch(race)

AfterDelay ==
  /\ pc = "delay" /\ race = {"response"}
  /\ pc' = "send" /\ race' = {}
  /\ UNCHANGED <<transport, attempt, timer, aborted, attemptVars, rows, active, live, received>>

(* executeNonStream after create; the abort is looked at once more.        *)
Completion ==
  /\ pc = "create" /\ race \in {{"empty"}, {"meaningful"}}
  /\ IF aborted THEN Catch({"abort"})
     ELSE /\ pc' = "returned" /\ timer' = "off" /\ race' = {}
          /\ meaningful' = (race = {"meaningful"})
          /\ rows' = IF race = {"meaningful"} THEN [rows EXCEPT ![attempt] = Reduce(@, "producing")]
                     ELSE rows
          /\ received' = Append(received, <<attempt, 1>>) /\ arrived' = 1
          /\ UNCHANGED <<transport, attempt, aborted, firstSeen, buffered, finishing, active, live>>

(* The timer is armed and the next chunk is asked for; once the scope is   *)
(* aborted, the race is lost from the start.                               *)
Pull ==
  /\ pc' = "next"
  /\ race' = IF aborted THEN {"abort"} ELSE {}
  /\ timer' = IF aborted \/ ~IdleTimeout THEN "off" ELSE IF firstSeen THEN "idle" ELSE "start"

Response ==
  /\ pc = "create" /\ race = {"response"}
  /\ Pull
  /\ UNCHANGED <<transport, attempt, aborted, attemptVars, rows, active, live, received>>

(* A chunk without choices leaves the timer as it is.                      *)
KeepAlive ==
  /\ pc = "next" /\ race = {"keepalive"}
  /\ race' = IF aborted THEN {"abort"} ELSE {}
  /\ UNCHANGED <<transport, pc, attempt, timer, aborted, attemptVars, rows, active, live, received>>

(* The generator hands over the first of the chunks it owes.               *)
HandOver(chunks) ==
  /\ pc' = "yield"
  /\ received' = Append(received, Head(chunks))
  /\ buffered' = Tail(chunks)

Producing == race = {"meaningful"} /\ ~meaningful /\ active

Chunk ==
  /\ pc = "next" /\ race \in {{"empty"}, {"meaningful"}}
  /\ arrived' = arrived + 1 /\ firstSeen' = TRUE
  /\ meaningful' = (meaningful \/ race = {"meaningful"})
  /\ rows' = IF Producing THEN [rows EXCEPT ![attempt] = Reduce(@, "producing")] ELSE rows
  /\ LET chunks == Append(buffered, <<attempt, arrived + 1>>)
     IN IF meaningful'
        THEN HandOver(chunks) /\ timer' = "off" /\ race' = {}
        ELSE /\ buffered' = chunks /\ UNCHANGED received
             /\ pc' = "next"
             /\ race' = IF aborted THEN {"abort"} ELSE {}
             /\ timer' = IF aborted \/ ~IdleTimeout THEN "off" ELSE "idle"
  /\ UNCHANGED <<transport, attempt, aborted, finishing, active, live>>

(* The end of the stream: what is held back is handed over, then the       *)
(* request returns; the abort is not looked at any more.                   *)
StreamEnd ==
  /\ pc = "next" /\ race = {"done"}
  /\ timer' = "off" /\ race' = {} /\ finishing' = TRUE
  /\ IF buffered = <<>> THEN pc' = "returned" /\ UNCHANGED <<buffered, received>>
     ELSE HandOver(buffered)
  /\ UNCHANGED <<transport, attempt, aborted, firstSeen, meaningful, arrived, rows, active, live>>

(* The consumer asks for more, or leaves the generator.                    *)
Ask ==
  /\ pc = "yield"
  /\ \/ /\ buffered # <<>> /\ HandOver(buffered) /\ UNCHANGED <<race, timer>>
     \/ /\ buffered = <<>> /\ ~finishing /\ Pull /\ UNCHANGED <<buffered, received>>
     \/ /\ buffered = <<>> /\ finishing /\ pc' = "returned"
        /\ UNCHANGED <<race, timer, buffered, received>>
  /\ UNCHANGED <<transport, attempt, aborted, firstSeen, meaningful, arrived, finishing, rows,
                 active, live>>

Leave ==
  /\ pc = "yield" /\ pc' = "left"
  /\ Close("cancelled")
  /\ timer' = "off" /\ live' = Disposed
  /\ UNCHANGED <<transport, attempt, race, aborted, attemptVars, received>>

Next ==
  \/ Start \/ Send \/ Network \/ TimerFires \/ DelayOver \/ Abort
  \/ AfterError \/ AfterDelay \/ Completion \/ Response \/ KeepAlive \/ Chunk \/ StreamEnd
  \/ Ask \/ Leave
  \/ (pc \in Ended /\ UNCHANGED vars)

Spec == Init /\ [][Next]_vars

Continues ==
  Start \/ Send \/ AfterError \/ AfterDelay \/ Completion \/ Response \/ KeepAlive \/ Chunk \/ StreamEnd

(* The event loop continues settled races and fires timers; the consumer's *)
(* loop asks or leaves.  Nothing is assumed of the network or the caller.  *)
FairSpec ==
  /\ Spec
  /\ WF_vars(Continues)
  /\ SF_vars(TimerFires) /\ WF_vars(DelayOver)
  /\ WF_vars(Ask \/ Leave)

-----------------------------------------------------------------------------
(* Every variable of the executor is of its type: attempts stay within the *)
(* configured retries and no row of the trace ever refuses an event.       *)
TypeOK ==
  /\ transport \in {"stream", "non-stream"}
  /\ pc \in {"idle", "send", "create", "next", "yield", "delay"} \cup Ended
  /\ attempt \in Attempts /\ timer \in {"off", "idle", "start"}
  /\ {aborted, firstSeen, meaningful, finishing, active} \subseteq BOOLEAN
  /\ arrived \in 0..(MaxChunks + 1) /\ buffered \in Seq(Attempts \X Nat)
  /\ received \in Seq(Attempts \X Nat)
  /\ rows \in [Attempts -> RowPhases] /\ live \subseteq Attempts

(* The view's reducer accepts every event of every attempt, whatever the   *)
(* order of chunks, timers, retries and aborts.                            *)
RowsAccepted == \A a \in Attempts : rows[a] # "refused"

(* The trace never shows two attempts at work: earlier attempts are        *)
(* closed as retrying, a request that threw or was left is closed, and one *)
(* that returned unaborted is left open for its caller.                    *)
RowsSettled ==
  /\ \A a \in Attempts : a < attempt => rows[a] = "retrying"
  /\ pc \in {"thrown", "left"} => rows[attempt] \in TerminalPhases
  /\ pc = "returned" /\ ~aborted =>
       rows[attempt] = IF meaningful THEN "producing" ELSE "waiting"

(* The consumer gets the chunks of one attempt only, from its first chunk  *)
(* on, in order and without a gap, although attempts are repeated.         *)
OneAttemptInOrder ==
  \A i \in 1..Len(received) : received[i] = <<attempt, i>>

(* A request that returns has handed over every chunk that arrived, those  *)
(* held back for want of text included.                                    *)
ReturnsEverything == pc = "returned" => Len(received) = arrived

(* At most the current attempt has a request on the network, and none is   *)
(* left when the executor is through, an abort or a departure included.    *)
NoOrphanRequest == live \subseteq {attempt} /\ (pc \in Ended \cup {"send", "delay"} => live = {})

(* With an idle timeout every request comes to an end however silent the   *)
(* network or however long it sends only keep-alive chunks.                *)
Pending == pc \notin Ended \cup {"idle"}

-----------------------------------------------------------------------------
(* The inductive invariant: for every place of the code what the row of the *)
(* attempt is, how the race can have settled, and where the chunks that     *)
(* arrived are.                                                             *)
AtWork == {"create", "next", "yield", "returned"}
Places == {"idle", "send", "create", "next", "yield", "delay"} \cup Ended

(* The flags and the place: the row of the current attempt is open until   *)
(* the request threw, was left, or a stream was aborted.                   *)
Control ==
  /\ transport \in {"stream", "non-stream"} /\ pc \in Places
  /\ attempt \in Attempts /\ timer \in {"off", "idle", "start"}
  /\ aborted \in BOOLEAN /\ firstSeen \in BOOLEAN /\ meaningful \in BOOLEAN
  /\ finishing \in BOOLEAN
  /\ active = (pc \notin {"idle", "thrown", "left"} /\ ~(Stream /\ aborted))
  /\ pc = "idle" => attempt = 0
  /\ timer # "off" => pc \in {"create", "next"}
  /\ pc \in {"next", "yield"} => Stream
  /\ meaningful => pc \notin {"idle", "send", "create", "delay"}
  /\ finishing => pc \in {"yield", "returned", "left"}
  /\ pc = "yield" => meaningful \/ finishing

(* A race that has settled is awaited, by an answer its place allows.      *)
Awaited ==
  /\ race # {} => pc \in {"create", "next", "delay"}
  /\ race = {"response"} => pc = "delay" \/ (pc = "create" /\ Stream)
  /\ race \in {{"empty"}, {"meaningful"}} =>
       (pc = "create" /\ ~Stream /\ live = {}) \/ (pc = "next" /\ arrived < MaxChunks)
  /\ race = {"keepalive"} => pc = "next"
  /\ race = {"done"} => pc = "next" /\ live = {}

(* The phase the row of the current attempt has while it is open.          *)
OpenPhase ==
  IF pc \in {"send", "delay"} THEN "preparing"
  ELSE IF meaningful THEN "producing" ELSE "waiting"

Rows ==
  /\ rows \in [Attempts -> RowPhases]
  /\ \A a \in Attempts : a < attempt => rows[a] = "retrying"
  /\ \A a \in Attempts : a > attempt => rows[a] = "none"
  /\ pc = "idle" => rows[attempt] = "none"
  /\ active => rows[attempt] = OpenPhase
  /\ pc # "idle" /\ ~active => rows[attempt] \in {"cancelled", "failed"}

(* Only the current attempt is on the network, and only while it works.    *)
OnNetwork ==
  /\ live \subseteq {attempt}
  /\ live # {} => pc \in {"create", "next", "yield"} /\ ~finishing

(* Chunks `got` and then `held` are those of the current attempt, from the *)
(* first on.                                                               *)
InTurn(got, held) ==
  /\ \A i \in 1..Len(got) : got[i] = <<attempt, i>>
  /\ \A j \in 1..Len(held) : held[j] = <<attempt, Len(got) + j>>

(* Where the chunks are.                                                   *)
Chunks ==
  /\ buffered \in Seq(Attempts \X Nat) /\ received \in Seq(Attempts \X Nat)
  /\ arrived \in 0..(MaxChunks + 1)
  /\ \A i \in 1..Len(received) : received[i] = <<attempt, i>>
  /\ ~meaningful /\ ~finishing /\ pc # "returned" => received = <<>>
  /\ pc = "create" => buffered = <<>> /\ arrived = 0
  /\ pc = "next" /\ meaningful => buffered = <<>>
  /\ pc = "returned" => buffered = <<>>
  /\ pc \in AtWork => InTurn(received, buffered) /\ Len(received) + Len(buffered) = arrived

Inv == Control /\ Awaited /\ Rows /\ OnNetwork /\ Chunks
=============================================================================
