-------------------------- MODULE StructuredOutput --------------------------
(***************************************************************************)
(* A structured call (src/phases/structured-output.ts): the request is     *)
(* repeated with a repair prompt until its text validates, asked for in    *)
(* poorer response formats when the provider refuses the richer ones, sent *)
(* again without streaming, and given a larger output limit when the reply *)
(* was cut off.  Sizes are in tokens: a prompt has a size, a reply uses    *)
(* some of its limit, and the context window has to hold both.             *)
(*                                                                         *)
(* A native client emits the phases of its attempts itself and closes the  *)
(* row of one that throws (module NativeRequest); for any other client     *)
(* they are emitted here.                                                  *)
(***************************************************************************)
EXTENDS LlmLifecycle

CONSTANTS
  MaxRetries,      \* args.maxRetries
  Window,          \* opts.contextWindowTokens
  BasePrompt,      \* the size of the caller's messages
  InputBudget, RepairBudget,   \* inputBudgetTokens, repairInputBudgetTokens
  OutputBudget,    \* opts.maxTokens
  CompactThreshold,   \* profile.compactRepairThresholdTokens
  ReplySizes       \* bound: the output sizes a provider reports

SizesAssumption ==
  /\ {MaxRetries, Window, BasePrompt, InputBudget, RepairBudget, OutputBudget, CompactThreshold} \subseteq Nat
  /\ ReplySizes \subseteq Nat
  /\ BasePrompt <= InputBudget /\ InputBudget + OutputBudget <= Window

VARIABLES
  call,       \* the arguments: client, profile, transport, the two switches
  pc, attempt, retryLimit,
  mode, callMode,   \* the response format of the call, of the request
  extra,      \* responseFormatFallbackRetries
  maxTokens, inputBudget, prompt,
  style,      \* of the request in flight: "stream" or "non-stream"
  reply, tokens, consumed,   \* what the provider answered
  aborted,
  row, active, past   \* the lifecycle row, whether it is open, how others ended

callVars == <<call, attempt, retryLimit, mode, callMode, extra, maxTokens, inputBudget, prompt>>
replyVars == <<reply, tokens, consumed>>
rowVars == <<row, active, past>>
vars == <<callVars, pc, style, replyVars, aborted, rowVars>>

Modes == {"json_schema", "json_object", "none"}
Rank(m) == CASE m = "json_schema" -> 0 [] m = "json_object" -> 1 [] OTHER -> 2

Texts == {"valid", "invalid", "blank"}
Failures == {"truncated", "context", "json_mode", "refused", "broken", "abort"}

Init ==
  /\ call \in [native : BOOLEAN, json : BOOLEAN, stream : BOOLEAN, exhausted : {"failed", "retrying"},
               contextRetries : BOOLEAN]
  /\ pc = "attempt" /\ attempt = 0 /\ retryLimit = MaxRetries
  /\ mode \in IF call.json THEN {"json_schema", "none"} ELSE {"none"}
  /\ callMode = mode /\ extra = 0
  /\ maxTokens = OutputBudget /\ inputBudget = InputBudget /\ prompt = BasePrompt
  /\ style = "stream" /\ reply = "none" /\ tokens = 0 /\ consumed = FALSE
  /\ aborted = FALSE /\ row = "none" /\ active = FALSE /\ past = {}

-----------------------------------------------------------------------------
(* The rows: begin opens a new one, close ends the open one.               *)
Began(phases, p) == p \cup ({phases} \ {"none"})

Close(phase) ==
  /\ row' = IF active THEN Reduce(row, phase) ELSE row
  /\ active' = FALSE /\ UNCHANGED past

(* The outer catch block.                                                  *)
Thrown(error) ==
  /\ pc' = "thrown"
  /\ Close(IF aborted \/ error = "abort" THEN "cancelled"
           ELSE IF call.contextRetries /\ error = "context" THEN "retrying" ELSE "failed")
  /\ UNCHANGED <<callVars, style, replyVars, aborted>>

-----------------------------------------------------------------------------
(* A mutated form: the room is taken to be the whole window.               *)
CeilingWindow == IF maxTokens > Window THEN maxTokens ELSE Window

(* withOutputCeiling and outputCeiling: what the prompt leaves, but never  *)
(* less than the limit already in force.                                   *)
Ceiling == IF maxTokens > Window - prompt THEN maxTokens ELSE Window - prompt

(* outputRetryOptions                                                      *)
Grown(observed) ==
  LET half == (3 * observed + 1) \div 2
      want == IF half > maxTokens THEN half ELSE maxTokens
  IN IF want < Ceiling THEN want ELSE Ceiling

RepairInput == IF RepairBudget > inputBudget THEN RepairBudget ELSE inputBudget

CompactPrompt == BasePrompt + 1
FullPrompt == BasePrompt + tokens + 1

(* repairMessages: the refused text goes into the prompt if it fits.       *)
RepairPrompt ==
  CASE reply = "blank" -> CompactPrompt
    [] reply # "blank" /\ FullPrompt >= CompactThreshold /\ CompactPrompt <= RepairInput -> CompactPrompt
    [] reply # "blank" /\ FullPrompt > RepairInput /\ CompactPrompt <= RepairInput -> CompactPrompt
    [] OTHER -> FullPrompt

-----------------------------------------------------------------------------
(* The head of the attempt loop.                                           *)
Attempt ==
  /\ pc = "attempt"
  /\ IF aborted THEN Thrown("abort")
     ELSE /\ pc' = "call" /\ callMode' = mode
          /\ UNCHANGED <<call, attempt, retryLimit, mode, extra, maxTokens, inputBudget, prompt, style,
                         replyVars, aborted, rowVars>>

(* callWithFormatFallback up to the request; a prompt over the budget is   *)
(* refused before anything is sent.                                        *)
Request ==
  /\ pc = "call"
  /\ LET begun == Reduce("none", "preparing")
         fits == prompt <= inputBudget
     IN /\ pc' = IF fits THEN "request" ELSE "over_budget"
        /\ style' = IF call.stream THEN "stream" ELSE "non-stream"
        /\ IF call.native THEN UNCHANGED rowVars
           ELSE /\ past' = Began(row, past) /\ active' = TRUE
                /\ row' = IF fits THEN Reduce(Reduce(begun, "sent"), "waiting") ELSE begun
  /\ UNCHANGED <<callVars, replyVars, aborted>>

OverBudget == pc = "over_budget" /\ Thrown("budget")

(* The provider answers, and a native client tells what became of its row: *)
(* attempts it repeated, and the one that returned or threw.               *)
Reply ==
  /\ pc = "request" /\ pc' = "reply"
  /\ reply' \in Texts \cup Failures
  /\ tokens' \in IF reply' \in Texts THEN {n \in ReplySizes : n <= maxTokens} \cup {maxTokens} ELSE {0}
  /\ consumed' \in IF reply' \in {"context", "json_mode", "refused", "broken"} /\ style = "stream"
                   THEN BOOLEAN ELSE {FALSE}
  /\ reply' = "json_mode" => callMode # "none" \/ ~call.json
  /\ \E shown \in BOOLEAN :
       LET waiting == IF call.native THEN "waiting" ELSE row
           seen == IF shown \/ reply' \in {"valid", "invalid"} \/ consumed'
                   THEN Reduce(waiting, "producing") ELSE waiting
       IN IF call.native
          THEN /\ \E earlier \in {{}, {"retrying"}} : past' = Began(row, past) \cup earlier
               /\ active' = (reply' \in Texts \cup {"truncated"})
               /\ row' = IF reply' \in Texts \cup {"truncated"} THEN seen
                         ELSE Reduce(seen, IF reply' = "abort" THEN "cancelled" ELSE "failed")
          ELSE row' = seen /\ UNCHANGED <<active, past>>
  /\ UNCHANGED <<callVars, style, aborted>>

(* The caller aborts; a request in flight fails with it.                   *)
Abort ==
  /\ ~aborted /\ aborted' = TRUE /\ pc \notin {"returned", "thrown"}
  /\ IF pc = "request"
     THEN /\ pc' = "reply" /\ reply' = "abort" /\ tokens' = 0 /\ consumed' = FALSE
          /\ IF call.native
             THEN past' = Began(row, past) /\ active' = FALSE /\ row' = "cancelled"
             ELSE UNCHANGED rowVars
     ELSE UNCHANGED <<pc, replyVars, rowVars>>
  /\ UNCHANGED <<callVars, style>>

-----------------------------------------------------------------------------
(* streamOnce asks again without streaming when nothing was consumed.      *)
StreamFallback ==
  /\ pc = "reply" /\ reply = "refused" /\ ~consumed /\ style = "stream" /\ ~aborted
  /\ pc' = "request" /\ style' = "non-stream"
  /\ IF call.native THEN UNCHANGED rowVars
     ELSE /\ past' = past \cup {Reduce(row, "retrying")} /\ active' = TRUE
          /\ row' = Reduce(Reduce(Reduce("none", "preparing"), "sent"), "waiting")
  /\ UNCHANGED <<callVars, replyVars, aborted>>

NextMode(m) == IF m = "json_schema" THEN "json_object" ELSE "none"

(* callWithFormatFallback asks for a poorer format.                        *)
FormatFallback ==
  /\ pc = "reply" /\ reply = "json_mode" /\ ~aborted /\ call.json /\ callMode # "none"
  /\ pc' = "call" /\ callMode' = NextMode(callMode)
  /\ Close("retrying")
  /\ UNCHANGED <<call, attempt, retryLimit, mode, extra, maxTokens, inputBudget, prompt, style, replyVars,
                 aborted>>

(* A failure that is not retried here.                                     *)
Fails ==
  /\ pc = "reply"
  /\ \/ aborted \/ reply \in {"abort", "context", "broken"}
     \/ reply = "refused" /\ (consumed \/ style = "non-stream")
     \/ reply = "json_mode" /\ (~call.json \/ callMode = "none")
     \/ reply = "truncated" /\ (attempt = retryLimit \/ Grown(maxTokens) = maxTokens)
  /\ Thrown(IF aborted THEN "abort" ELSE reply)

(* Another attempt begins with what was learned of this one.               *)
Again(limit, next, budget) ==
  /\ pc' = "attempt" /\ attempt' = attempt + 1
  /\ Close("retrying")
  /\ maxTokens' = limit /\ prompt' = next /\ inputBudget' = budget
  /\ UNCHANGED <<call, callMode, style, replyVars, aborted>>

(* A reply that was cut off is asked for again with a larger limit; the    *)
(* format that was found is forgotten.                                     *)
Truncated ==
  /\ pc = "reply" /\ reply = "truncated" /\ ~aborted
  /\ attempt < retryLimit /\ Grown(maxTokens) # maxTokens
  /\ Again(Grown(maxTokens), prompt, RepairInput)
  /\ UNCHANGED <<retryLimit, mode, extra>>

Exhausted ==
  /\ pc' = "thrown" /\ Close(call.exhausted)
  /\ UNCHANGED <<call, attempt, callMode, maxTokens, inputBudget, prompt, style, replyVars, aborted>>

(* The limit was consumed, blank or not valid: a compact prompt and a      *)
(* larger limit.                                                           *)
OutputLimit ==
  /\ pc = "reply" /\ reply \in {"blank", "invalid"} /\ ~aborted /\ tokens >= maxTokens
  /\ mode' = callMode
  /\ IF attempt = retryLimit THEN Exhausted ELSE Again(Grown(tokens), CompactPrompt, RepairInput)
  /\ UNCHANGED <<retryLimit, extra>>

(* An empty reply: a poorer format, for which an attempt is added twice at *)
(* most, or a repair prompt.                                               *)
EmptyOutput ==
  /\ pc = "reply" /\ reply = "blank" /\ ~aborted /\ tokens < maxTokens
  /\ LET poorer == call.json /\ callMode # "none"
         adds == poorer /\ MaxRetries > 0 /\ extra < 2
         limit == IF adds THEN retryLimit + 1 ELSE retryLimit
     IN /\ mode' = IF poorer THEN NextMode(callMode) ELSE callMode
        /\ extra' = IF adds THEN extra + 1 ELSE extra
        /\ retryLimit' = limit
        /\ IF attempt = limit THEN Exhausted
           ELSE IF poorer THEN Again(maxTokens, prompt, inputBudget)
           ELSE Again(maxTokens, RepairPrompt, RepairInput)

Repair ==
  /\ pc = "reply" /\ reply = "invalid" /\ ~aborted /\ tokens < maxTokens
  /\ mode' = callMode
  /\ IF attempt = retryLimit THEN Exhausted ELSE Again(maxTokens, RepairPrompt, RepairInput)
  /\ UNCHANGED <<retryLimit, extra>>

(* The row is left for the caller to apply and complete.                   *)
Return ==
  /\ pc = "reply" /\ reply = "valid" /\ ~aborted
  /\ pc' = "returned" /\ mode' = callMode
  /\ row' = IF active THEN Reduce(row, "validating") ELSE row
  /\ UNCHANGED <<call, attempt, retryLimit, callMode, extra, maxTokens, inputBudget, prompt, style,
                 replyVars, aborted, active, past>>

Next ==
  \/ Attempt \/ Request \/ OverBudget \/ Reply \/ Abort
  \/ StreamFallback \/ FormatFallback \/ Fails \/ Truncated \/ OutputLimit \/ EmptyOutput \/ Repair \/ Return
  \/ (pc \in {"returned", "thrown"} /\ UNCHANGED vars)

Spec == Init /\ [][Next]_vars

(* Every request is answered or fails (a client's timeouts), and the code  *)
(* goes on.                                                                *)
FairSpec == Spec /\ WF_vars(Next)

-----------------------------------------------------------------------------
(* The variables of a call are of their types; the attempts stay within    *)
(* the retry limit, which only empty replies raise, at most twice.         *)
TypeOK ==
  /\ pc \in {"attempt", "call", "request", "over_budget", "reply", "returned", "thrown"}
  /\ retryLimit \in MaxRetries..(MaxRetries + 2) /\ attempt \in 0..retryLimit
  /\ {mode, callMode} \subseteq Modes /\ extra \in 0..2
  /\ {maxTokens, inputBudget, prompt, tokens} \subseteq Nat
  /\ style \in {"stream", "non-stream"} /\ reply \in Texts \cup Failures \cup {"none"}
  /\ {consumed, aborted, active} \subseteq BOOLEAN
  /\ row \in RowPhases /\ past \subseteq RowPhases

(* The view's reducer accepts every event, over format fallbacks, stream   *)
(* fallbacks, repairs and aborts, and with either kind of client.          *)
RowsAccepted == row # "refused" /\ "refused" \notin past

(* One logical call shows one open row at a time: rows that were replaced  *)
(* are closed, a call that threw has closed its last one, a call that      *)
(* returned leaves it in validation.                                       *)
OneOpenRow ==
  /\ past \subseteq {"retrying", "failed"}
  /\ pc = "thrown" => row \in TerminalPhases \cup {"none"}
  /\ pc = "returned" => row = "validating"

(* A value is never returned from a reply after which the caller aborted.  *)
AbortPreventsReturn == pc' = "returned" => ~aborted

(* A request with the caller's own prompt fits the context window together *)
(* with its output limit, however often that limit was raised.             *)
BasePromptFits == prompt = BasePrompt => prompt + maxTokens <= Window

(* Every call returns or throws: repairs, fallbacks and larger limits do   *)
(* not chase each other.                                                   *)
Pending == pc \notin {"returned", "thrown"}

-----------------------------------------------------------------------------
(* The inductive invariant.  The row by the place of the code: a native     *)
(* client opens it with its answer and has closed it when it threw.         *)
RowOf ==
  /\ pc \in {"attempt", "call"} => ~active
  /\ pc = "attempt" => row \in {"none", "retrying"}
  /\ pc \in {"call", "request", "over_budget"} /\ ~active => row \in {"none", "retrying", "failed"}
  /\ pc = "over_budget" /\ active => row = "preparing"
  /\ pc = "request" /\ active => row = "waiting"
  /\ pc \in {"request", "over_budget", "reply"} /\ ~call.native => active
  /\ pc \in {"request", "over_budget"} /\ call.native => ~active
  /\ pc = "reply" => /\ active => row = "producing" \/ (row = "waiting" /\ reply # "valid")
                     /\ ~active => row = IF reply = "abort" THEN "cancelled" ELSE "failed"
                     /\ call.native => (active <=> reply \in Texts \cup {"truncated"})
  /\ pc = "reply" => reply # "none"
  /\ pc = "returned" => ~aborted

Limits ==
  /\ call \in [native : BOOLEAN, json : BOOLEAN, stream : BOOLEAN, exhausted : {"failed", "retrying"},
               contextRetries : BOOLEAN]
  /\ retryLimit = MaxRetries + extra

Inv == TypeOK /\ Limits /\ RowOf /\ RowsAccepted /\ OneOpenRow /\ BasePromptFits
=============================================================================
