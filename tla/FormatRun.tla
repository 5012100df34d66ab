------------------------------ MODULE FormatRun ------------------------------
(***************************************************************************)
(* The formatting of a note (runFormat in src/phases/format.ts): its       *)
(* attachments are described, the whole note is sent, and, when the answer *)
(* is cut off, out of shape or loses tokens of the note, sent again in one *)
(* of four ways; a note too long is formatted in pieces (FormatSegments).  *)
(* The text is written beside the note and shown.  The user may stop the   *)
(* run between any two steps; every request has a row of the trace.        *)
(***************************************************************************)
EXTENDS Naturals, FiniteSets

CONSTANTS
  Tokens,      \* significantTokens of the note
  Far,         \* those the first 117 characters of their line do not contain
  MaxEmbeds,   \* bound: attachments
  MaxPieces,   \* bound: pieces the note is cut into
  MaxCuts      \* bound: pieces cut again

FormatRunAssumption == Far \subseteq Tokens /\ {MaxEmbeds, MaxPieces, MaxCuts} \subseteq Nat /\ MaxPieces > 0

VARIABLES
  at,        \* "read", "see", "fit", "wait", "parse", "pieces", "restore", "write", "end"
  stopped,   \* the signal
  images,    \* directImagePaths is not empty
  embeds,    \* attachments to describe
  why,       \* the request: "whole", "longer", "again", "restore", "piece", "piece again"
  stream,    \* whether the request is the streamed one or its fallback
  row,       \* the phase of activeFormatLifecycle, "none" without one
  reply,     \* of the last request: whether it is parsed, its finish_reason, its tokens
  segmented, checked,  \* the note is in pieces; the signal is asked after the last of them
  left,      \* pieces still to be sent
  cuts,      \* pieces cut again
  kept,      \* tokens of finalFormatted
  note,      \* the file beside the note: its tokens, none without it
  told       \* "nothing", "preview", "result", "error", "thrown"

vars == <<at, stopped, images, embeds, why, stream, row, reply, segmented, checked, left, cuts, kept, note, told>>
request == <<why, stream>>
pieces == <<segmented, checked, left, cuts>>
cutting == <<left, cuts>>

NoReply == [good |-> FALSE, finish |-> "none", tokens |-> {}]
Replies == [good : BOOLEAN, finish : {"stop", "length", "none"}, tokens : SUBSET Tokens]

Init ==
  /\ at = "read" /\ stopped \in BOOLEAN /\ images \in BOOLEAN /\ embeds \in 0..MaxEmbeds
  /\ why = "none" /\ stream = TRUE /\ row = "none" /\ reply = NoReply
  /\ segmented = FALSE /\ checked = FALSE /\ left = 0 /\ cuts = 0
  /\ kept = {} /\ note = {} /\ told = "nothing"

Stop ==
  /\ ~stopped /\ at # "end" /\ stopped' = TRUE
  /\ UNCHANGED <<at, images, embeds, request, row, reply, pieces, kept, note, told>>

(* The end of the run with what the user is told.                          *)
End(how) == at' = "end" /\ told' = how

(* No path, a stop before the start, a note that cannot be read or is empty. *)
Read ==
  /\ at = "read"
  /\ \/ /\ ~stopped /\ at' = "see" /\ UNCHANGED told
     \/ End(IF stopped THEN "nothing" ELSE "error")
  /\ UNCHANGED <<stopped, images, embeds, request, row, reply, pieces, kept, note>>

(* The loop over the attachments: a stop leaves the rest undescribed, a failed one *)
(* is passed over.                                                                 *)
See ==
  /\ at = "see"
  /\ IF embeds = 0 \/ stopped THEN at' = "fit" /\ UNCHANGED embeds ELSE at' = at /\ embeds' = embeds - 1
  /\ UNCHANGED <<stopped, images, request, row, reply, pieces, kept, note, told>>

(* callOnce: a row left open is closed as completed, and the request is sent. *)
Send(w) == at' = "wait" /\ why' = w /\ stream' = TRUE /\ row' = "sent"

(* runSegmentedFormatting begins: some pieces, which are put together later. *)
InPieces(ask) ==
  /\ at' = "pieces" /\ segmented' = TRUE /\ checked' = ask /\ left' \in 1..MaxPieces /\ UNCHANGED cuts

(* The note fits the budget, or it does not and is cut unless it has images. *)
Fit ==
  /\ at = "fit"
  /\ \/ Send("whole") /\ UNCHANGED <<pieces, told>>
     \/ ~images /\ InPieces(FALSE) /\ UNCHANGED <<request, row, told>>
     \/ images /\ End("error") /\ UNCHANGED <<request, row, pieces>>
  /\ UNCHANGED <<stopped, images, embeds, reply, kept, note>>

-----------------------------------------------------------------------------
(* The answer comes, or the request was stopped and gives what it got so far; *)
(* a fallback that is stopped is an exception like any other.                 *)
Answered ==
  /\ at = "wait" /\ at' = "parse"
  /\ \/ reply' \in {r \in Replies : r.finish # "none"} /\ row' = "validating"
     \/ stopped /\ stream /\ row' = "none" /\ reply' \in {r \in Replies : r.finish = "none"}
  /\ UNCHANGED <<stopped, images, embeds, request, pieces, kept, note, told>>

(* The streamed request fails before its first chunk in a way that allows a *)
(* request without streaming.                                               *)
Fallback ==
  /\ at = "wait" /\ stream /\ ~stopped /\ stream' = FALSE /\ row' = "sent"
  /\ UNCHANGED <<at, stopped, images, embeds, why, reply, pieces, kept, note, told>>

(* A piece is cut in two.                                                  *)
CutPiece == cuts < MaxCuts /\ cuts' = cuts + 1 /\ left' = left + 1 /\ at' = "pieces"

(* runSegmentedFormatting catches what goes wrong with a piece.            *)
PiecesFail == row' = "none" /\ End("error")

(* The provider says the request is too long: the whole note is cut, a piece is *)
(* cut in two; any other request ends the run with the exception.               *)
TooLong ==
  /\ at = "wait" /\ (~stream \/ ~stopped) /\ row' = "none"
  /\ CASE why = "whole" /\ ~images -> InPieces(TRUE) /\ UNCHANGED <<request, told>>
       [] why = "whole" /\ images -> End("error") /\ UNCHANGED <<request, pieces>>
       [] why \in {"piece", "piece again"} ->
            \/ End("error") /\ UNCHANGED <<request, pieces>>
            \/ CutPiece /\ UNCHANGED <<request, segmented, checked, told>>
       [] OTHER -> End("thrown") /\ UNCHANGED <<request, pieces>>
  /\ UNCHANGED <<stopped, images, embeds, reply, kept, note>>

(* Any other failure, after the first chunk or of the fallback.            *)
Broken ==
  /\ at = "wait" /\ (~stream \/ ~stopped)
  /\ row' = "none" /\ End(IF why \in {"piece", "piece again"} THEN "error" ELSE "thrown")
  /\ UNCHANGED <<stopped, images, embeds, request, reply, pieces, kept, note>>

-----------------------------------------------------------------------------
(* The note is formatted as the reply says: on to the tokens.              *)
Accept == at' = "restore" /\ kept' = reply.tokens

(* A request for the whole note with a longer output or a hint: it may not fit. *)
Resend(w) ==
  \/ Send(w) /\ UNCHANGED told
  \/ row' = "none" /\ End("thrown") /\ UNCHANGED request

(* A mutated form: the length is not asked after the longer answer.        *)
ParseForever ==
  /\ at = "parse" /\ why \in {"whole", "longer", "again"}
  /\ IF stopped THEN row' = "none" /\ End("nothing") /\ UNCHANGED <<request, pieces, kept>>
     ELSE IF reply.good THEN Accept /\ UNCHANGED <<request, row, pieces, told>>
     ELSE Resend("again") /\ UNCHANGED <<pieces, kept>>
  /\ UNCHANGED <<stopped, images, embeds, reply, note>>

(* The answer for the whole note.  Cut off, it is asked for with a larger output *)
(* when there is room and it is the first, and in pieces after that; out of      *)
(* shape, it is asked for once more.                                             *)
Parse ==
  /\ at = "parse" /\ why \in {"whole", "longer", "again"}
  /\ CASE stopped -> row' = "none" /\ End("nothing") /\ UNCHANGED <<request, pieces, kept>>
       [] ~stopped /\ reply.good -> Accept /\ UNCHANGED <<request, row, pieces, told>>
       [] ~stopped /\ ~reply.good /\ why = "again" ->
            row' = "none" /\ End("error") /\ UNCHANGED <<request, pieces, kept>>
       [] ~stopped /\ ~reply.good /\ why # "again" /\ reply.finish = "length" ->
            /\ UNCHANGED kept
            /\ \/ why = "whole" /\ Resend("longer") /\ UNCHANGED pieces
               \/ ~images /\ row' = "none" /\ InPieces(FALSE) /\ UNCHANGED <<request, told>>
               \/ images /\ row' = "none" /\ End("error") /\ UNCHANGED <<request, pieces>>
       [] OTHER -> Resend("again") /\ UNCHANGED <<pieces, kept>>
  /\ UNCHANGED <<stopped, images, embeds, reply, note>>

(* A mutated form: the row of the piece before is forgotten.               *)
NextPieceOpen ==
  /\ at = "pieces" /\ left > 0
  /\ IF stopped THEN End("error") /\ UNCHANGED <<request, row, cutting>>
     ELSE \/ Send("piece") /\ UNCHANGED <<cutting, told>>
          \/ End("error") /\ UNCHANGED <<request, row, cutting>>
          \/ CutPiece /\ UNCHANGED <<request, row, told>>
  /\ UNCHANGED <<stopped, images, embeds, reply, segmented, checked, kept, note>>
(* The next piece is sent, cut in two because it does not fit, or given up. *)
NextPiece ==
  /\ at = "pieces" /\ left > 0
  /\ IF stopped THEN PiecesFail /\ UNCHANGED <<request, cutting>>
     ELSE \/ Send("piece") /\ UNCHANGED <<cutting, told>>
          \/ PiecesFail /\ UNCHANGED <<request, cutting>>
          \/ CutPiece /\ UNCHANGED <<request, row, told>>
  /\ UNCHANGED <<stopped, images, embeds, reply, segmented, checked, kept, note>>

(* The answer for a piece: taken, cut in two, asked for once more, or the end. *)
(* A stopped request gives the piece as it is in the note.                     *)
ParsePiece ==
  /\ at = "parse" /\ why \in {"piece", "piece again"}
  /\ IF (stopped /\ why = "piece") \/ reply.good
     THEN /\ at' = "pieces" /\ left' = left - 1 /\ UNCHANGED cuts
          /\ row' = (IF stopped /\ why = "piece" THEN "none" ELSE row) /\ UNCHANGED <<request, told>>
     ELSE \/ PiecesFail /\ UNCHANGED <<request, cutting>>
          \/ why = "piece" /\ Send("piece again") /\ UNCHANGED <<cutting, told>>
          \/ why = "piece" /\ CutPiece /\ row' = "none" /\ UNCHANGED <<request, told>>
  /\ UNCHANGED <<stopped, images, embeds, reply, segmented, checked, kept, note>>

(* reassembleFormatSegments; a note the provider refused as a whole is then *)
(* looked at with the signal, one that did not fit the budget is not.       *)
Joined ==
  /\ at = "pieces" /\ left = 0
  /\ IF checked /\ stopped THEN row' = "none" /\ End("nothing") /\ UNCHANGED kept
     ELSE at' = "restore" /\ kept' \in SUBSET Tokens /\ UNCHANGED <<row, told>>
  /\ UNCHANGED <<stopped, images, embeds, request, reply, pieces, note>>

-----------------------------------------------------------------------------
(* appendMissingLines: the lines of the lost tokens, as far as they are kept. *)
WithLines(tokens) == tokens \cup (Tokens \ Far)

(* The lost tokens: of pieces, their lines are appended; else the model is asked *)
(* once, and when that does not fit the lines are appended too.                  *)
Restore ==
  /\ at = "restore"
  /\ IF kept = Tokens \/ (~segmented /\ stopped)
     THEN at' = "write" /\ UNCHANGED <<request, row, kept, told>>
     ELSE IF segmented THEN at' = "write" /\ kept' = WithLines(kept) /\ UNCHANGED <<request, row, told>>
     ELSE \/ Send("restore") /\ UNCHANGED <<kept, told>>
          \/ at' = "write" /\ kept' = WithLines(kept) /\ UNCHANGED <<request, row, told>>
          \/ row' = "none" /\ End("error") /\ UNCHANGED <<request, kept>>
  /\ UNCHANGED <<stopped, images, embeds, reply, pieces, note>>

(* The answer with the lost tokens, or the first one when it cannot be read; what *)
(* it has lost itself is appended.  A stop leaves the row as it is.               *)
Restored ==
  /\ at = "parse" /\ why = "restore"
  /\ IF stopped THEN End("nothing") /\ UNCHANGED kept
     ELSE /\ at' = "write" /\ UNCHANGED told
          /\ kept' = WithLines(IF reply.good THEN reply.tokens ELSE kept)
  /\ UNCHANGED <<stopped, images, embeds, request, row, reply, pieces, note>>

(* The file is written, the preview shown and the row closed; a failed write is *)
(* told as an error.  (That embeds, links and frontmatter are put right and     *)
(* markers swept out before it is left out.)                                    *)
Write ==
  /\ at = "write" /\ row' = "none"
  /\ \/ End("result") /\ note' = kept
     \/ End("error") /\ UNCHANGED note
  /\ UNCHANGED <<stopped, images, embeds, request, reply, pieces, kept>>

Work ==
  \/ Read \/ See \/ Fit \/ Answered \/ Fallback \/ TooLong \/ Broken
  \/ Parse \/ NextPiece \/ ParsePiece \/ Joined \/ Restore \/ Restored \/ Write
Next == Stop \/ Work
Spec == Init /\ [][Next]_vars /\ WF_vars(Work)

-----------------------------------------------------------------------------
TypeOK ==
  /\ at \in {"read", "see", "fit", "wait", "parse", "pieces", "restore", "write", "end"}
  /\ row \in {"none", "sent", "validating"} /\ left \in 0..(MaxPieces + MaxCuts) /\ kept \subseteq Tokens
  /\ told \in {"nothing", "result", "error", "thrown"} /\ reply.tokens \subseteq Tokens

(* A run that is not stopped closes the row of every request, whichever of its *)
(* ends it takes.                                                              *)
RowsClosed == at = "end" /\ ~stopped => row = "none"

(* What is shown to the user as the formatted note was written, and it has every  *)
(* token of the note whose line is kept: after a lost token, a second answer that *)
(* loses another one, and pieces.                                                 *)
TokensKept == told = "result" /\ ~stopped => Tokens \ Far \subseteq note

(* A note in pieces is never sent as a whole again ("segmented missing-token *)
(* recovery never rebuilds an oversized whole-file model request").          *)
PiecesOnly == segmented /\ at' = "wait" => why' \in {"piece", "piece again"}

(* A run that is not stopped tells the user how it ended.                  *)
EndTold == at = "end" /\ ~stopped => told # "nothing"

(* Every run comes to an end, whatever is answered and however often.      *)
Pending == at # "end"

-----------------------------------------------------------------------------
(* The inductive invariant.  The pieces: there is one in every request for  *)
(* a piece, and a note in pieces is past the requests for the whole.        *)
InPiece == at \in {"wait", "parse"} /\ why \in {"piece", "piece again"}

Counted == {left, cuts} \subseteq Nat /\ left <= MaxPieces + cuts /\ cuts <= MaxCuts

Cut ==
  /\ stopped \in BOOLEAN /\ reply \in Replies
  /\ InPiece => left > 0
  /\ at \in {"wait", "parse"} => why \in {"whole", "longer", "again", "restore", "piece", "piece again"}
  /\ segmented => at \notin {"read", "see", "fit"} /\ (at \in {"wait", "parse"} => InPiece)

(* The row by the place of the code, and what is about to be written.       *)
InOrder ==
  /\ at \in {"read", "see", "fit"} => row = "none"
  /\ at = "write" /\ ~stopped => Tokens \ Far \subseteq kept
  /\ told = "result" => at = "end"

Inv == TypeOK /\ Counted /\ Cut /\ InOrder /\ RowsClosed /\ EndTold /\ TokensKept
=============================================================================
