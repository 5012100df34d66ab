--------------------------- MODULE RequestsProofs ---------------------------
(***************************************************************************)
(* Proofs about the module Requests, part by part: the inductive           *)
(* invariant of a part is the one its module ends with.  The variables of  *)
(* a part are s1, s2, ... in the order of its module.                      *)
(***************************************************************************)
EXTENDS Requests, FiniteSetTheorems, SequenceTheorems, WellFoundedInduction, TLAPS

(* The parts count with the library's cardinality.                         *)
LEMMA SameCardinality ==
  \A S : /\ Context!Cardinality(S) = Cardinality(S) /\ Query!Cardinality(S) = Cardinality(S)
         /\ Pdf!Cardinality(S) = Cardinality(S)
<1>1. \A S : Context!Cardinality(S) = Cardinality(S)
  BY DEF Context!Cardinality, Cardinality
<1>2. \A S : Query!Cardinality(S) = Cardinality(S)
  BY DEF Query!Cardinality, Cardinality
<1>3. \A S : Pdf!Cardinality(S) = Cardinality(S)
  BY DEF Pdf!Cardinality, Cardinality
<1> QED
  BY <1>1, <1>2, <1>3

-----------------------------------------------------------------------------
(* The phases in their order, and which follows which.                     *)
LEMMA NativePhasesInOrder ==
  /\ Native!OrderedPhases[1] = "preparing" /\ Native!OrderedPhases[2] = "sent"
  /\ Native!OrderedPhases[3] = "waiting"
  /\ Native!OrderedPhases[4] = "producing" /\ Native!OrderedPhases[5] = "validating"
  /\ Native!OrderedPhases[6] = "applying"
  /\ {Native!OrderedPhases[i] : i \in 1..6} =
       {"preparing", "sent", "waiting", "producing", "validating", "applying"}
  /\ {Native!OrderedPhases[i] : i \in 1..5} =
       {"preparing", "sent", "waiting", "producing", "validating"}
  <1>1. /\ Native!OrderedPhases[1] = "preparing" /\ Native!OrderedPhases[2] = "sent"
        /\ Native!OrderedPhases[3] = "waiting" /\ Native!OrderedPhases[4] = "producing"
        /\ Native!OrderedPhases[5] = "validating" /\ Native!OrderedPhases[6] = "applying"
    BY DEF Native!OrderedPhases
  <1>2. 1..6 = {1, 2, 3, 4, 5, 6} /\ 1..5 = {1, 2, 3, 4, 5}
    OBVIOUS
  <1> QED BY <1>1, <1>2

LEMMA NativeNextPhases ==
  /\ Native!NextPhase("preparing") = "sent" /\ Native!NextPhase("sent") = "waiting"
  /\ Native!NextPhase("waiting") = "producing"
  /\ Native!NextPhase("producing") = "validating" /\ Native!NextPhase("validating") = "applying"
<1> DEFINE Follows(p, q) == \E i \in 1..5 : Native!OrderedPhases[i] = p /\ Native!OrderedPhases[i + 1] = q
           After(p) == CASE p = "preparing" -> "sent" [] p = "sent" -> "waiting" [] p = "waiting" -> "producing"
                         [] p = "producing" -> "validating" [] OTHER -> "applying"
           Known == {"preparing", "sent", "waiting", "producing", "validating"}
<1>1. ASSUME NEW p \in Known, NEW q PROVE Follows(p, q) <=> q = After(p)
  <2>1. \A i \in 1..5 : i = 1 \/ i = 2 \/ i = 3 \/ i = 4 \/ i = 5
    OBVIOUS
  <2> QED
    BY <2>1, NativePhasesInOrder
<1>2. {"sent", "waiting", "producing", "validating", "applying"} \subseteq Native!RowPhases
  BY NativePhasesInOrder DEF Native!RowPhases
<1>3. ASSUME NEW p \in Known PROVE After(p) \in Native!RowPhases
  BY <1>2
<1> HIDE DEF Follows, After
<1>4. \A p : Native!NextPhase(p) = CHOOSE q \in Native!RowPhases : Follows(p, q)
  BY DEF Native!NextPhase, Follows
<1>5. ASSUME NEW p \in Known PROVE Native!NextPhase(p) = After(p)
  BY <1>1, <1>3, <1>4
<1> QED
  BY <1>5 DEF After

(* What the reducer makes of the events of a request: the phases follow    *)
(* each other, and each of them may be closed.                             *)
LEMMA NativeReductions ==
  /\ Native!Reduce("none", "preparing") = "preparing" /\ Native!Reduce("preparing", "sent") = "sent"
  /\ Native!Reduce("sent", "waiting") = "waiting" /\ Native!Reduce("waiting", "producing") = "producing"
  /\ Native!Reduce("producing", "validating") = "validating"
  /\ Native!Reduce("validating", "applying") = "applying"
  /\ Native!Reduce("applying", "completed") = "completed"
  /\ \A p \in {"preparing", "sent", "waiting", "producing", "validating", "applying"} :
       \A e \in {"retrying", "failed", "cancelled"} : Native!Reduce(p, e) = e
  /\ Native!RowPhases = {"preparing", "sent", "waiting", "producing", "validating", "applying"}
                   \cup {"completed", "retrying", "failed", "cancelled"} \cup {"none", "refused"}
<1>1. Native!RowPhases = {"preparing", "sent", "waiting", "producing", "validating", "applying"}
                   \cup {"completed", "retrying", "failed", "cancelled"} \cup {"none", "refused"}
  BY NativePhasesInOrder DEF Native!RowPhases, Native!TerminalPhases
<1>2. \A p \in {"preparing", "sent", "waiting", "producing", "validating", "applying"} :
        \A e \in {"retrying", "failed", "cancelled"} : Native!Reduce(p, e) = e
  BY NativePhasesInOrder DEF Native!Reduce, Native!TerminalPhases
<1>3. Native!Reduce("none", "preparing") = "preparing" /\ Native!Reduce("applying", "completed") = "completed"
  BY DEF Native!Reduce
<1>4. /\ Native!Reduce("preparing", "sent") = "sent" /\ Native!Reduce("sent", "waiting") = "waiting"
      /\ Native!Reduce("waiting", "producing") = "producing"
      /\ Native!Reduce("producing", "validating") = "validating"
      /\ Native!Reduce("validating", "applying") = "applying"
  BY NativePhasesInOrder, NativeNextPhases DEF Native!Reduce, Native!TerminalPhases
<1> QED
  BY <1>1, <1>2, <1>3, <1>4

(* Closing the current row: an open row is closed, a closed one stays.     *)
LEMMA NativeCloseRow ==
  ASSUME Native!Control, Native!Rows, NEW phase \in {"failed", "cancelled"}, Native!Close(phase), s2 # "idle"
  PROVE  /\ s12' \in [Native!Attempts -> Native!RowPhases] /\ s13' = FALSE
         /\ s12'[s3] \in {"cancelled", "failed"}
         /\ \A a \in Native!Attempts : a # s3 => s12'[a] = s12[a]
  <1>1. s13 => s12[s3] \in {"preparing", "waiting", "producing"}
    BY DEF Native!Rows, Native!OpenPhase
  <1>2. s13 => Native!Reduce(s12[s3], phase) = phase /\ phase \in Native!RowPhases
    BY <1>1, NativeReductions
  <1>3. CASE s13
    BY <1>2, <1>3 DEF Native!Close, Native!Rows, Native!Control
  <1>4. CASE ~s13
    BY <1>4 DEF Native!Close, Native!Rows, Native!Control
  <1> QED BY <1>3, <1>4 DEF Native!Control

(* An attempt is repeated only while none of its text was shown, and never *)
(* beyond the configured number.                                           *)
LEMMA NativeRetryBound ==
  ASSUME Native!BoundsAssumption, Native!Control, NEW error, Native!CanRetry(error)
  PROVE  s3 + 1 \in Native!Attempts /\ s3 \in Nat /\ ~s8
  BY DEF Native!BoundsAssumption, Native!Control, Native!CanRetry, Native!AttemptLimit, Native!Attempts

(* What a retry does to the rows.                                          *)
LEMMA NativeRetryRow ==
  ASSUME Native!Control, Native!Rows, s13, ~s8, s2 \in {"create", "next"},
         s3 + 1 \in Native!Attempts, s12' = Native!RetryingRow
  PROVE  /\ s12' \in [Native!Attempts -> Native!RowPhases]
         /\ s12'[s3] = "retrying" /\ s12'[s3 + 1] = "preparing"
         /\ \A a \in Native!Attempts : a \notin {s3, s3 + 1} => s12'[a] = s12[a]
  <1>1. s12[s3] = "waiting" /\ s12[s3 + 1] = "none" /\ s3 \in Nat
    BY DEF Native!Rows, Native!OpenPhase, Native!Control, Native!Attempts
  <1>2. /\ Native!Reduce(s12[s3], "retrying") = "retrying"
        /\ Native!Reduce(s12[s3 + 1], "preparing") = "preparing"
    BY <1>1, NativeReductions
  <1>3. {"retrying", "preparing"} \subseteq Native!RowPhases
    BY NativeReductions
  <1> QED BY <1>1, <1>2, <1>3 DEF Native!RetryingRow, Native!Rows, Native!Control

(* An attempt that ends by an error: the request is over, or goes on with  *)
(* the next attempt.                                                       *)
LEMMA NativeCatchStep ==
  ASSUME Native!BoundsAssumption, Native!Inv, NEW error, Native!Catch(error),
         s2 \in {"create", "next"} \/ (s2 = "send" /\ s6)
  PROVE  Native!Inv'
  <1>0. Native!Control /\ Native!Awaited /\ Native!Rows /\ Native!OnNetwork /\ Native!Chunks
    BY DEF Native!Inv
  <1>1. /\ s5' = "off" /\ s14' = s14 \ {s3} /\ s4' = {}
        /\ UNCHANGED <<s1, s6, s7, s8, s9, s10, s11, s15>>
    BY DEF Native!Catch, Native!Disposed, Native!attemptVars
  <1>2. s14' = {} /\ Native!Awaited'
    BY <1>0, <1>1 DEF Native!OnNetwork, Native!Awaited
  <1>3. ASSUME NEW phase \in {"failed", "cancelled"}, Native!Close(phase), s2' = "thrown", s3' = s3
        PROVE  Native!Inv'
    <2>1. /\ s12' \in [Native!Attempts -> Native!RowPhases] /\ s13' = FALSE
          /\ s12'[s3] \in {"cancelled", "failed"}
          /\ \A a \in Native!Attempts : a # s3 => s12'[a] = s12[a]
      BY <1>0, <1>3, NativeCloseRow
    <2>2. Native!Control'
      BY <1>0, <1>1, <1>3, <2>1 DEF Native!Control, Native!Places, Native!Ended, Native!Stream
    <2>3. Native!Rows'
      BY <1>0, <1>3, <2>1 DEF Native!Rows, Native!Attempts, Native!Control
    <2>4. Native!OnNetwork'
      BY <1>2 DEF Native!OnNetwork
    <2>5. Native!Chunks'
      BY <1>0, <1>1, <1>3 DEF Native!Chunks, Native!AtWork
    <2> QED BY <1>2, <2>2, <2>3, <2>4, <2>5 DEF Native!Inv
  <1>4. ASSUME ~s6, Native!CanRetry(error), s12' = Native!RetryingRow, s13' = TRUE,
               s2' = "delay", s3' = s3 + 1
        PROVE  Native!Inv'
    <2>1. s3 + 1 \in Native!Attempts /\ s3 \in Nat /\ ~s8
      BY <1>0, <1>4, NativeRetryBound
    <2>2. s13 /\ s2 \in {"create", "next"}
      BY <1>0, <1>4 DEF Native!Control
    <2>3. /\ s12' \in [Native!Attempts -> Native!RowPhases]
          /\ s12'[s3] = "retrying" /\ s12'[s3 + 1] = "preparing"
          /\ \A a \in Native!Attempts : a \notin {s3, s3 + 1} => s12'[a] = s12[a]
      BY <1>0, <1>4, <2>1, <2>2, NativeRetryRow
    <2>4. Native!Control'
      BY <1>0, <1>1, <1>4, <2>1, <2>2 DEF Native!Control, Native!Places, Native!Ended, Native!Stream
    <2>5. Native!Rows'
      <3>1. \A a \in Native!Attempts : a \in Nat
        BY DEF Native!Attempts
      <3>2. \A a \in Native!Attempts : a < s3' => s12'[a] = "retrying"
        BY <1>0, <1>4, <2>1, <2>3, <3>1 DEF Native!Rows
      <3>3. \A a \in Native!Attempts : a > s3' => s12'[a] = "none"
        BY <1>0, <1>4, <2>1, <2>3, <3>1 DEF Native!Rows
      <3> QED BY <1>4, <2>3, <3>2, <3>3 DEF Native!Rows, Native!OpenPhase
    <2>6. Native!OnNetwork'
      BY <1>2 DEF Native!OnNetwork
    <2>7. Native!Chunks'
      <3>1. ~s11 /\ s2 # "returned" /\ s15 = <<>>
        BY <1>0, <2>1, <2>2 DEF Native!Chunks, Native!Control
      <3> QED BY <1>0, <1>1, <1>4, <3>1 DEF Native!Chunks, Native!AtWork
    <2> QED BY <1>2, <2>4, <2>5, <2>6, <2>7 DEF Native!Inv
  <1> QED BY <1>3, <1>4 DEF Native!Catch

-----------------------------------------------------------------------------
(* The invariant holds at first.                                           *)
LEMMA NativeBeginning == Native!BoundsAssumption /\ Native!Init => Native!Inv
  <1> SUFFICES ASSUME Native!BoundsAssumption, Native!Init PROVE Native!Inv
    OBVIOUS
  <1>1. Native!Control /\ Native!Awaited /\ Native!OnNetwork
    BY DEF Native!Init, Native!BoundsAssumption, Native!Control, Native!Awaited, Native!OnNetwork,
           Native!Places, Native!Attempts
  <1>2. Native!Rows
    BY NativeReductions DEF Native!Init, Native!Rows, Native!Attempts, Native!BoundsAssumption
  <1>3. Native!Chunks
    BY DEF Native!Init, Native!BoundsAssumption, Native!Chunks, Native!AtWork
  <1> QED BY <1>1, <1>2, <1>3 DEF Native!Inv

(* The request begins; a stream that is aborted already shows so.          *)
LEMMA NativeStartStep == Native!BoundsAssumption /\ Native!Inv /\ Native!Start => Native!Inv'
  <1> SUFFICES ASSUME Native!BoundsAssumption, Native!Inv, Native!Start PROVE Native!Inv'
    OBVIOUS
  <1>0. /\ Native!Control /\ Native!Awaited /\ Native!Rows /\ Native!OnNetwork /\ Native!Chunks /\ s3 = 0
        /\ 0 \in Native!Attempts
    BY DEF Native!Inv, Native!Start, Native!Control
  <1>1. Native!Control'
    BY <1>0 DEF Native!Start, Native!Control, Native!Places, Native!attemptVars, Native!Stream
  <1>2. Native!Awaited' /\ Native!OnNetwork'
    BY <1>0 DEF Native!Start, Native!Awaited, Native!OnNetwork
  <1>3. Native!Rows'
    <2>1. s12[0] = "none"
      BY <1>0 DEF Native!Rows, Native!Start
    <2>2. Native!Reduce(s12[0], "preparing") = "preparing" /\
          Native!Reduce("preparing", "cancelled") = "cancelled"
          /\ {"preparing", "cancelled"} \subseteq Native!RowPhases
      BY <2>1, NativeReductions
    <2>3. /\ s12' \in [Native!Attempts -> Native!RowPhases]
          /\ s12'[0] = (IF s13' THEN "preparing" ELSE "cancelled")
          /\ \A a \in Native!Attempts : a # 0 => s12'[a] = s12[a]
      BY <1>0, <2>2 DEF Native!Start, Native!Rows
    <2> QED BY <1>0, <2>3 DEF Native!Rows, Native!Start, Native!OpenPhase, Native!Attempts
  <1>4. Native!Chunks'
    BY <1>0 DEF Native!Start, Native!Chunks, Native!AtWork, Native!attemptVars
  <1> QED BY <1>1, <1>2, <1>3, <1>4 DEF Native!Inv

(* The head of the loop: the attempt is sent, unless the caller aborted.   *)
LEMMA NativeSendStep == Native!BoundsAssumption /\ Native!Inv /\ Native!Send => Native!Inv'
  <1> SUFFICES ASSUME Native!BoundsAssumption, Native!Inv, Native!Send PROVE Native!Inv'
    OBVIOUS
  <1>1. CASE s6
    BY <1>1, NativeCatchStep DEF Native!Send
  <1>2. CASE ~s6
    <2>0. /\ Native!Control /\ Native!Awaited /\ Native!Rows /\ Native!OnNetwork /\ Native!Chunks
          /\ s2 = "send"
          /\ s13
      BY <1>2 DEF Native!Inv, Native!Send, Native!Control
    <2>1. Native!Control'
      BY <1>2, <2>0 DEF Native!Send, Native!Control, Native!Places, Native!Stream
    <2>2. Native!Awaited' /\ Native!OnNetwork'
      BY <1>2, <2>0 DEF Native!Send, Native!Awaited, Native!OnNetwork
    <2>3. Native!Rows'
      <3>1. s12[s3] = "preparing"
        BY <2>0 DEF Native!Rows, Native!OpenPhase
      <3>2. /\ Native!Reduce(Native!Reduce(s12[s3], "sent"), "waiting") = "waiting"
            /\ "waiting" \in Native!RowPhases
        BY <3>1, NativeReductions
      <3>3. /\ s12' \in [Native!Attempts -> Native!RowPhases] /\ s12'[s3] = "waiting"
            /\ \A a \in Native!Attempts : a # s3 => s12'[a] = s12[a]
        BY <1>2, <2>0, <3>2 DEF Native!Send, Native!Rows, Native!Control
      <3> QED BY <1>2, <2>0, <3>3 DEF Native!Rows, Native!Send, Native!OpenPhase, Native!Control,
             Native!Attempts
    <2>4. Native!Chunks'
      <3>1. s15 = <<>> /\ s15' = <<>> /\ s9' = <<>> /\ s10' = 0 /\ s2' = "create"
        BY <1>2, <2>0 DEF Native!Send, Native!Chunks, Native!Control
      <3> QED BY <2>0, <3>1 DEF Native!Chunks, Native!AtWork, Native!InTurn, Native!BoundsAssumption
    <2> QED BY <2>1, <2>2, <2>3, <2>4 DEF Native!Inv
  <1> QED BY <1>1, <1>2

(* The race settles: by the network, the timer, or the end of the delay.   *)
LEMMA NativeSettleStep ==
  Native!BoundsAssumption /\ Native!Inv /\ (Native!Network \/ Native!TimerFires \/ Native!DelayOver)
    => Native!Inv'
  <1> SUFFICES ASSUME Native!BoundsAssumption, Native!Inv,
                      Native!Network \/ Native!TimerFires \/ Native!DelayOver
               PROVE  Native!Inv'
    OBVIOUS
  <1>0. Native!Control /\ Native!Awaited /\ Native!Rows /\ Native!OnNetwork /\ Native!Chunks
    BY DEF Native!Inv
  <1>1. /\ UNCHANGED <<s1, s2, s3, s6, Native!attemptVars, s12, s13, s15>>
        /\ s5' \in {s5, "off"} /\ s14' \subseteq s14
    BY DEF Native!Network, Native!TimerFires, Native!DelayOver
  <1>2. Native!Control' /\ Native!Rows' /\ Native!OnNetwork' /\ Native!Chunks'
    <2>1. UNCHANGED <<s7, s8, s9, s10, s11>>
      BY <1>1 DEF Native!attemptVars
    <2>2. Native!Control'
      BY <1>0, <1>1, <2>1 DEF Native!Control, Native!Stream
    <2>3. Native!Rows' /\ Native!OnNetwork'
      BY <1>0, <1>1, <2>1 DEF Native!Rows, Native!OnNetwork, Native!OpenPhase
    <2>4. Native!Chunks'
      BY <1>0, <1>1, <2>1 DEF Native!Chunks, Native!InTurn
    <2> QED BY <2>2, <2>3, <2>4
  <1>3. Native!Awaited'
    <2>1. CASE Native!DelayOver
      BY <1>1, <2>1 DEF Native!DelayOver, Native!Awaited
    <2>2. CASE Native!TimerFires
      BY <1>0, <1>1, <2>2 DEF Native!TimerFires, Native!Awaited, Native!Control
    <2>3. CASE Native!Network /\ s4' \in Errors /\ s2 \in {"create", "next"}
      <3>1. s4' \notin {{"response"}, {"empty"}, {"meaningful"}, {"keepalive"}, {"done"}}
        BY <2>3 DEF Native!BoundsAssumption, Native!Replies
      <3> QED BY <1>1, <2>3, <3>1 DEF Native!Awaited
    <2>4. CASE /\ Native!Network /\ s4' \in Native!Answers
               /\ s14' = IF Native!Stream /\ s4' # {"done"} THEN s14 ELSE s14 \ {s3}
      <3>1. Native!Stream' = Native!Stream /\ s10' = s10
        BY <1>1 DEF Native!Stream, Native!attemptVars
      <3>2. CASE s2 = "create"
        <4>1. \/ Native!Stream /\ s4' = {"response"}
              \/ ~Native!Stream /\ s4' \in {{"empty"}, {"meaningful"}}
          <5>1. CASE Native!Stream
            BY <2>4, <3>2, <5>1 DEF Native!Answers
          <5>2. CASE ~Native!Stream
            BY <2>4, <3>2, <5>2 DEF Native!Answers
          <5> QED BY <5>1, <5>2
        <4>2. ~Native!Stream => s14' = {}
          BY <1>0, <2>4 DEF Native!OnNetwork
        <4> QED BY <1>1, <3>1, <3>2, <4>1, <4>2 DEF Native!Awaited
      <3>3. CASE s2 = "next"
        <4>1. s4' \in {{"empty"}, {"meaningful"}, {"keepalive"}, {"done"}}
              /\ (s4' \in {{"empty"}, {"meaningful"}} => s10 < MaxAnswers)
          BY <2>4, <3>3 DEF Native!Answers
        <4> QED BY <1>0, <1>1, <2>4, <3>1, <3>3, <4>1 DEF Native!Awaited, Native!OnNetwork
      <3>4. s2 \in {"create", "next"}
        BY <2>4 DEF Native!Answers
      <3> QED BY <3>2, <3>3, <3>4
    <2> QED BY <2>1, <2>2, <2>3, <2>4 DEF Native!Network
  <1> QED BY <1>2, <1>3 DEF Native!Inv

(* The caller aborts: the row of a stream is closed at once, the request   *)
(* leaves the network, and the place of the code stays.                    *)
LEMMA NativeAbortStep == Native!BoundsAssumption /\ Native!Inv /\ Native!Abort => Native!Inv'
  <1> SUFFICES ASSUME Native!BoundsAssumption, Native!Inv, Native!Abort PROVE Native!Inv'
    OBVIOUS
  <1>0. /\ Native!Control /\ Native!Awaited /\ Native!Rows /\ Native!OnNetwork /\ Native!Chunks
        /\ ~s6 /\ s6' = TRUE /\ s2 \notin Native!Ended
        /\ UNCHANGED <<s1, s2, s3, s7, s8, s9, s10, s11, s15>>
        /\ s5' \in {s5, "off"} /\ s14' \subseteq s14
    BY DEF Native!Inv, Native!Abort, Native!attemptVars
  <1>1. Native!Awaited'
    BY <1>0 DEF Native!Abort, Native!Awaited, Native!Stream
  <1>2. Native!OnNetwork' /\ Native!Chunks'
    BY <1>0 DEF Native!OnNetwork, Native!Chunks, Native!InTurn
  <1>3. CASE Native!Stream /\ s2 # "idle"
    <2>1. /\ s12' \in [Native!Attempts -> Native!RowPhases] /\ s13' = FALSE
          /\ s12'[s3] \in {"cancelled", "failed"}
          /\ \A a \in Native!Attempts : a # s3 => s12'[a] = s12[a]
      BY <1>0, <1>3, NativeCloseRow DEF Native!Abort
    <2>2. Native!Control'
      BY <1>0, <1>3, <2>1 DEF Native!Control, Native!Stream
    <2>3. Native!Rows'
      BY <1>0, <1>3, <2>1 DEF Native!Rows, Native!Attempts, Native!Control
    <2> QED BY <1>1, <1>2, <2>2, <2>3 DEF Native!Inv
  <1>4. CASE ~(Native!Stream /\ s2 # "idle")
    <2>1. s12' = s12 /\ s13' = s13
      BY <1>4 DEF Native!Abort
    <2>2. Native!Control'
      BY <1>0, <1>4, <2>1 DEF Native!Control, Native!Stream, Native!Ended
    <2>3. Native!Rows'
      BY <1>0, <2>1 DEF Native!Rows, Native!OpenPhase
    <2> QED BY <1>1, <1>2, <2>2, <2>3 DEF Native!Inv
  <1> QED BY <1>3, <1>4
(* The code goes on after an error, or after the delay.                    *)
LEMMA NativeAfterStep ==
  Native!BoundsAssumption /\ Native!Inv /\ (Native!AfterError \/ Native!AfterDelay) => Native!Inv'
  <1> SUFFICES ASSUME Native!BoundsAssumption, Native!Inv, Native!AfterError \/ Native!AfterDelay
               PROVE  Native!Inv'
    OBVIOUS
  <1>0. Native!Control /\ Native!Awaited /\ Native!Rows /\ Native!OnNetwork /\ Native!Chunks
    BY DEF Native!Inv
  <1>1. CASE Native!AfterError /\ s2 # "delay"
    BY <1>1, NativeCatchStep DEF Native!AfterError
  <1>2. CASE Native!AfterError /\ s2 = "delay"
    <2>0. /\ Native!Close("cancelled") /\ s2' = "thrown" /\ s4' = {} /\ s14 = {}
          /\ UNCHANGED <<s1, s3, s5, s6, s7, s8, s9,
                         s10, s11, s14, s15>>
      BY <1>0, <1>2 DEF Native!AfterError, Native!attemptVars, Native!OnNetwork
    <2>1. /\ s12' \in [Native!Attempts -> Native!RowPhases] /\ s13' = FALSE
          /\ s12'[s3] \in {"cancelled", "failed"}
          /\ \A a \in Native!Attempts : a # s3 => s12'[a] = s12[a]
      BY <1>0, <1>2, <2>0, NativeCloseRow
    <2>2. Native!Control' /\ Native!Awaited'
      BY <1>0, <1>2, <2>0, <2>1 DEF Native!Control, Native!Awaited, Native!Places, Native!Ended,
             Native!Stream
    <2>3. Native!Rows'
      BY <1>0, <2>0, <2>1 DEF Native!Rows, Native!Attempts, Native!Control
    <2>4. Native!OnNetwork'
      BY <2>0 DEF Native!OnNetwork
    <2>5. Native!Chunks'
      BY <1>0, <1>2, <2>0 DEF Native!Chunks, Native!AtWork
    <2> QED BY <2>2, <2>3, <2>4, <2>5 DEF Native!Inv
  <1>3. CASE Native!AfterDelay
    <2>0. /\ s2 = "delay" /\ s2' = "send" /\ s4' = {}
          /\ UNCHANGED <<s1, s3, s5, s6, s7, s8, s9,
                         s10, s11, s12, s13, s14, s15>>
      BY <1>3 DEF Native!AfterDelay, Native!attemptVars
    <2>1. Native!Control' /\ Native!Awaited'
      BY <1>0, <2>0 DEF Native!Control, Native!Awaited, Native!Places, Native!Ended, Native!Stream
    <2>2. Native!Rows' /\ Native!OnNetwork'
      BY <1>0, <2>0 DEF Native!Rows, Native!OpenPhase, Native!OnNetwork
    <2>3. Native!Chunks'
      BY <1>0, <2>0 DEF Native!Chunks, Native!AtWork
    <2> QED BY <2>1, <2>2, <2>3 DEF Native!Inv
  <1> QED BY <1>1, <1>2, <1>3

(* The whole answer to a request that is not streamed.                     *)
LEMMA NativeCompletionStep == Native!BoundsAssumption /\ Native!Inv /\ Native!Completion => Native!Inv'
  <1> SUFFICES ASSUME Native!BoundsAssumption, Native!Inv, Native!Completion PROVE Native!Inv'
    OBVIOUS
  <1>1. CASE s6
    BY <1>1, NativeCatchStep DEF Native!Completion
  <1>2. CASE ~s6
    <2>0. /\ Native!Control /\ Native!Awaited /\ Native!Rows /\ Native!OnNetwork /\ Native!Chunks
          /\ s2 = "create" /\ s13
          /\ ~s8 /\ ~s11 /\ ~Native!Stream /\ s14 = {} /\ s9 = <<>> /\ s15 = <<>>
      BY <1>2 DEF Native!Inv, Native!Completion, Native!Control, Native!Awaited, Native!Chunks
    <2>1. /\ s2' = "returned" /\ s5' = "off" /\ s4' = {}
          /\ s8' = (s4 = {"meaningful"})
          /\ s15' = Append(s15, <<s3, 1>>) /\ s10' = 1
          /\ UNCHANGED <<s1, s3, s6, s7, s9, s11, s13, s14>>
          /\ s12' = IF s4 = {"meaningful"} THEN [s12 EXCEPT ![s3] = Native!Reduce(@, "producing")]
                     ELSE s12
      BY <1>2 DEF Native!Completion
    <2>2. Native!Control' /\ Native!Awaited' /\ Native!OnNetwork'
      BY <1>2, <2>0, <2>1 DEF Native!Control, Native!Awaited, Native!OnNetwork, Native!Places, Native!Ended,
             Native!Stream
    <2>3. Native!Rows'
      <3>1. s12[s3] = "waiting" /\ Native!Reduce(s12[s3], "producing") = "producing"
            /\ "producing" \in Native!RowPhases
        BY <2>0, NativeReductions DEF Native!Rows, Native!OpenPhase
      <3>2. /\ s12' \in [Native!Attempts -> Native!RowPhases]
            /\ s12'[s3] = (IF s8' THEN "producing" ELSE "waiting")
            /\ \A a \in Native!Attempts : a # s3 => s12'[a] = s12[a]
        BY <2>0, <2>1, <3>1 DEF Native!Rows, Native!Control
      <3> QED BY <2>0, <2>1, <3>2 DEF Native!Rows, Native!OpenPhase, Native!Attempts, Native!Control
    <2>4. Native!Chunks'
      <3>1. /\ s15' \in Seq(Native!Attempts \X Nat) /\ Len(s15') = 1
            /\ s15'[1] = <<s3', 1>> /\ s9' = <<>>
        BY <2>0, <2>1 DEF Native!Control
      <3> QED BY <2>0, <2>1, <3>1 DEF Native!Chunks, Native!AtWork, Native!InTurn, Native!BoundsAssumption
    <2> QED BY <2>2, <2>3, <2>4 DEF Native!Inv
  <1> QED BY <1>1, <1>2

-----------------------------------------------------------------------------
(* Handing over the first of the chunks that are held moves one chunk from *)
(* the ones to come to the ones received.                                  *)
LEMMA NativeHandOverKeeps ==
  ASSUME NEW chunks \in Seq(Native!Attempts \X Nat), chunks # <<>>, s15 \in Seq(Native!Attempts \X Nat),
         Native!InTurn(s15, chunks), Native!HandOver(chunks), s3' = s3
  PROVE  /\ s15' \in Seq(Native!Attempts \X Nat) /\ s9' \in Seq(Native!Attempts \X Nat)
         /\ \A i \in 1..Len(s15') : s15'[i] = <<s3', i>>
         /\ \A j \in 1..Len(s9') : s9'[j] = <<s3', Len(s15') + j>>
         /\ Len(s15') + Len(s9') = Len(s15) + Len(chunks)
  <1>1. /\ Len(chunks) \in Nat /\ Len(chunks) > 0 /\ Head(chunks) = chunks[1]
        /\ Head(chunks) \in Native!Attempts \X Nat
    OBVIOUS
  <1>2. /\ s15' = Append(s15, chunks[1]) /\ s15' \in Seq(Native!Attempts \X Nat)
        /\ Len(s15') = Len(s15) + 1 /\ Len(s15) \in Nat
        /\ \A i \in 1..Len(s15) : s15'[i] = s15[i]
        /\ s15'[Len(s15) + 1] = chunks[1]
    BY <1>1 DEF Native!HandOver
  <1>3. /\ s9' = Tail(chunks) /\ s9' \in Seq(Native!Attempts \X Nat)
        /\ Len(s9') = Len(chunks) - 1
        /\ \A j \in 1..Len(s9') : s9'[j] = chunks[j + 1]
    BY <1>1 DEF Native!HandOver
  <1>4. chunks[1] = <<s3, Len(s15) + 1>>
    BY <1>1 DEF Native!InTurn
  <1>5. \A i \in 1..Len(s15') : s15'[i] = <<s3', i>>
    BY <1>2, <1>4 DEF Native!InTurn
  <1>6. \A j \in 1..Len(s9') : s9'[j] = <<s3', Len(s15') + j>>
    <2> SUFFICES ASSUME NEW j \in 1..Len(s9') PROVE s9'[j] = <<s3', Len(s15') + j>>
      OBVIOUS
    <2>1. j + 1 \in 1..Len(chunks) /\ s9'[j] = chunks[j + 1]
      BY <1>1, <1>3
    <2>2. chunks[j + 1] = <<s3, Len(s15) + (j + 1)>>
      BY <2>1 DEF Native!InTurn
    <2>3. Len(s15) + (j + 1) = Len(s15') + j
      BY <1>2
    <2> QED BY <2>1, <2>2, <2>3
  <1>7. Len(s15') + Len(s9') = Len(s15) + Len(chunks)
    BY <1>1, <1>2, <1>3
  <1> QED BY <1>2, <1>3, <1>5, <1>6, <1>7

(* The head of the response has come: the first chunk is asked for.        *)
LEMMA NativeResponseStep == Native!BoundsAssumption /\ Native!Inv /\ Native!Response => Native!Inv'
  <1> SUFFICES ASSUME Native!BoundsAssumption, Native!Inv, Native!Response PROVE Native!Inv'
    OBVIOUS
  <1>0. /\ Native!Control /\ Native!Awaited /\ Native!Rows /\ Native!OnNetwork /\ Native!Chunks
        /\ s2 = "create" /\ Native!Stream
        /\ s2' = "next" /\ s4' \in {{"abort"}, {}} /\ s5' \in {"off", "idle", "start"}
        /\ UNCHANGED <<s1, s3, s6, s7, s8, s9, s10,
                       s11, s12, s13, s14, s15>>
    BY DEF Native!Inv, Native!Response, Native!Pull, Native!Awaited, Native!attemptVars
  <1>1. Native!Control' /\ Native!Awaited' /\ Native!OnNetwork'
    BY <1>0 DEF Native!Control, Native!Awaited, Native!OnNetwork, Native!Places, Native!Ended, Native!Stream
  <1>2. Native!Rows'
    BY <1>0 DEF Native!Rows, Native!OpenPhase
  <1>3. Native!Chunks'
    BY <1>0 DEF Native!Chunks, Native!AtWork, Native!InTurn
  <1> QED BY <1>1, <1>2, <1>3 DEF Native!Inv

(* A chunk without choices.                                                *)
LEMMA NativeKeepAliveStep == Native!BoundsAssumption /\ Native!Inv /\ Native!KeepAlive => Native!Inv'
  <1> SUFFICES ASSUME Native!BoundsAssumption, Native!Inv, Native!KeepAlive PROVE Native!Inv'
    OBVIOUS
  <1>0. /\ Native!Control /\ Native!Awaited /\ Native!Rows /\ Native!OnNetwork /\ Native!Chunks
        /\ s4' \in {{"abort"}, {}}
        /\ s2 = "next" /\ s2' = "next"
        /\ UNCHANGED <<s1, s3, s5, s6, s7, s8, s9, s10,
                       s11, s12, s13, s14, s15>>
    BY DEF Native!Inv, Native!KeepAlive, Native!attemptVars
  <1>1. Native!Control' /\ Native!Awaited' /\ Native!OnNetwork'
    BY <1>0 DEF Native!Control, Native!Awaited, Native!OnNetwork, Native!Stream
  <1>2. Native!Rows' /\ Native!Chunks'
    BY <1>0 DEF Native!Rows, Native!OpenPhase, Native!Chunks, Native!InTurn
  <1> QED BY <1>1, <1>2 DEF Native!Inv

(* A sequence with one element more.                                       *)
LEMMA NativeAppended ==
  ASSUME NEW S, NEW s \in Seq(S), NEW e \in S
  PROVE  /\ Append(s, e) \in Seq(S) /\ Append(s, e) # <<>>
         /\ Len(Append(s, e)) = Len(s) + 1 /\ Append(s, e)[Len(s) + 1] = e
         /\ \A j \in 1..Len(s) : Append(s, e)[j] = s[j]
  <1>1. /\ Append(s, e) \in Seq(S) /\ Len(s) \in Nat
        /\ Len(Append(s, e)) = Len(s) + 1 /\ Append(s, e)[Len(s) + 1] = e
        /\ \A j \in 1..Len(s) : Append(s, e)[j] = s[j]
    OBVIOUS
  <1>2. Len(Append(s, e)) # 0
    BY <1>1
  <1> QED BY <1>1, <1>2

(* A chunk with choices is held back until one of the attempt carries      *)
(* text; then the oldest one that is held is handed over.                  *)
LEMMA NativeChunkStep == Native!BoundsAssumption /\ Native!Inv /\ Native!Chunk => Native!Inv'
  <1> SUFFICES ASSUME Native!BoundsAssumption, Native!Inv, Native!Chunk PROVE Native!Inv'
    OBVIOUS
  <1> DEFINE chunks == Append(s9, <<s3, s10 + 1>>)
  <1>0. /\ Native!Control /\ Native!Awaited /\ Native!Rows /\ Native!OnNetwork /\ Native!Chunks
        /\ s2 = "next" /\ s4 \in {{"empty"}, {"meaningful"}} /\ s10 < MaxAnswers /\ ~s11
        /\ s10' = s10 + 1 /\ s7' = TRUE
        /\ s8' = (s8 \/ s4 = {"meaningful"})
        /\ UNCHANGED <<s1, s3, s6, s11, s13, s14>>
    BY DEF Native!Inv, Native!Chunk, Native!Awaited, Native!Control
  <1>1. Native!Rows'
    <2>1. s13 => s12[s3] = (IF s8 THEN "producing" ELSE "waiting")
      BY <1>0 DEF Native!Rows, Native!OpenPhase
    <2>2. Native!Producing => Native!Reduce(s12[s3], "producing") = "producing"
      BY <2>1, NativeReductions DEF Native!Producing
    <2>3. /\ s12' \in [Native!Attempts -> Native!RowPhases]
          /\ \A a \in Native!Attempts : a # s3 => s12'[a] = s12[a]
          /\ s13 => s12'[s3] = (IF s8' THEN "producing" ELSE "waiting")
          /\ ~s13 => s12'[s3] = s12[s3]
      BY <1>0, <2>1, <2>2, NativeReductions DEF Native!Chunk, Native!Producing, Native!Rows, Native!Control
    <2>4. s2' \in {"next", "yield"}
      BY DEF Native!Chunk, Native!HandOver
    <2> QED BY <1>0, <2>3, <2>4 DEF Native!Rows, Native!OpenPhase, Native!Attempts, Native!Control
  <1>2. /\ chunks \in Seq(Native!Attempts \X Nat) /\ chunks # <<>> /\ Len(chunks) = Len(s9) + 1
        /\ s15 \in Seq(Native!Attempts \X Nat) /\ s9 \in Seq(Native!Attempts \X Nat)
        /\ Native!InTurn(s15, chunks) /\ Len(s15) + Len(chunks) = s10'
    <2>1. /\ s9 \in Seq(Native!Attempts \X Nat) /\ s15 \in Seq(Native!Attempts \X Nat)
          /\ s10 \in Nat /\ s3 \in Native!Attempts
          /\ Native!InTurn(s15, s9) /\ Len(s15) + Len(s9) = s10
      BY <1>0 DEF Native!Chunks, Native!AtWork, Native!Control, Native!BoundsAssumption
    <2>2. <<s3, s10 + 1>> \in Native!Attempts \X Nat
      BY <2>1
    <2>6. Len(s9) \in Nat
      BY <2>1
    <2>3. /\ chunks \in Seq(Native!Attempts \X Nat) /\ chunks # <<>> /\ Len(chunks) = Len(s9) + 1
          /\ \A j \in 1..Len(s9) : chunks[j] = s9[j]
          /\ chunks[Len(s9) + 1] = <<s3, s10 + 1>>
      <3> DEFINE S == Native!Attempts \X Nat
                 e == <<s3, s10 + 1>>
      <3>1. s9 \in Seq(S) /\ e \in S
        BY <2>1, <2>2
      <3> HIDE DEF S, e
      <3>2. /\ Append(s9, e) \in Seq(S) /\ Append(s9, e) # <<>>
            /\ Len(Append(s9, e)) = Len(s9) + 1 /\ Append(s9, e)[Len(s9) + 1] = e
            /\ \A j \in 1..Len(s9) : Append(s9, e)[j] = s9[j]
        BY <3>1, NativeAppended
      <3> QED BY <3>2 DEF S, e
    <2>5. Len(s15) \in Nat /\ Len(s9) \in Nat
      BY <2>1
    <2>4. \A j \in 1..Len(chunks) : chunks[j] = <<s3, Len(s15) + j>>
      <3> SUFFICES ASSUME NEW j \in 1..Len(chunks) PROVE chunks[j] = <<s3, Len(s15) + j>>
        OBVIOUS
      <3> HIDE DEF chunks
      <3>1. CASE j \in 1..Len(s9)
        BY <2>1, <2>3, <3>1 DEF Native!InTurn
      <3>2. CASE j = Len(s9) + 1
        <4>1. Len(s15) + j = s10 + 1
          <5>1. Len(s15) + Len(s9) = s10 /\ s10 \in Nat
            BY <2>1
          <5> QED BY <2>5, <3>2, <5>1
        <4>2. chunks[j] = <<s3, s10 + 1>>
          BY <2>3, <3>2
        <4> QED BY <4>1, <4>2
      <3> QED BY <2>3, <2>5, <3>1, <3>2
    <2> HIDE DEF chunks
    <2> QED BY <1>0, <2>1, <2>3, <2>4, <2>5 DEF Native!InTurn
  <1>5. s10' \in 0..(MaxAnswers + 1) /\ ~s11'
    BY <1>0 DEF Native!Chunks, Native!BoundsAssumption
  <1>3. CASE s8'
    <2>1. Native!HandOver(chunks) /\ s5' = "off" /\ s4' = {}
      BY <1>3 DEF Native!Chunk
    <2> HIDE DEF chunks
    <2>2. Native!Control' /\ Native!Awaited' /\ Native!OnNetwork'
      BY <1>0, <1>3, <2>1 DEF Native!Control, Native!Awaited, Native!OnNetwork, Native!Places, Native!Ended,
             Native!Stream, Native!HandOver
    <2>3. /\ s15' \in Seq(Native!Attempts \X Nat) /\ s9' \in Seq(Native!Attempts \X Nat)
          /\ \A i \in 1..Len(s15') : s15'[i] = <<s3', i>>
          /\ \A j \in 1..Len(s9') : s9'[j] = <<s3', Len(s15') + j>>
          /\ Len(s15') + Len(s9') = s10'
      BY <1>0, <1>2, <2>1, NativeHandOverKeeps
    <2>4. Native!Chunks'
      BY <1>3, <1>5, <2>1, <2>3 DEF Native!Chunks, Native!AtWork, Native!InTurn, Native!HandOver
    <2> QED BY <1>1, <2>2, <2>4 DEF Native!Inv
  <1>4. CASE ~s8'
    <2>1. /\ s9' = chunks /\ s15' = s15 /\ s2' = "next"
          /\ s4' \in {{"abort"}, {}} /\ s5' \in {"off", "idle"}
      BY <1>4 DEF Native!Chunk
    <2> HIDE DEF chunks
    <2>2. Native!Control' /\ Native!Awaited' /\ Native!OnNetwork'
      BY <1>0, <1>4, <2>1 DEF Native!Control, Native!Awaited, Native!OnNetwork, Native!Places, Native!Ended,
             Native!Stream
    <2>3. Native!Chunks'
      <3>1. s15 = <<>> /\ \A i \in 1..Len(s15) : s15[i] = <<s3, i>>
        BY <1>0, <1>4 DEF Native!Chunks
      <3> QED BY <1>0, <1>2, <1>4, <1>5, <2>1, <3>1 DEF Native!Chunks, Native!AtWork, Native!InTurn
    <2> QED BY <1>1, <2>2, <2>3 DEF Native!Inv
  <1> QED BY <1>3, <1>4

(* The stream has ended: what is held is handed over, or the request       *)
(* returns.                                                                *)
LEMMA NativeStreamEndStep == Native!BoundsAssumption /\ Native!Inv /\ Native!StreamEnd => Native!Inv'
  <1> SUFFICES ASSUME Native!BoundsAssumption, Native!Inv, Native!StreamEnd PROVE Native!Inv'
    OBVIOUS
  <1>0. /\ Native!Control /\ Native!Awaited /\ Native!Rows /\ Native!OnNetwork /\ Native!Chunks
        /\ s2 = "next" /\ s14 = {} /\ s5' = "off" /\ s4' = {} /\ s11' = TRUE
        /\ UNCHANGED <<s1, s3, s6, s7, s8, s10, s12, s13, s14>>
        /\ s2' \in {"yield", "returned"}
    BY DEF Native!Inv, Native!StreamEnd, Native!Awaited, Native!HandOver
  <1>1. Native!Control' /\ Native!Awaited' /\ Native!OnNetwork'
    BY <1>0 DEF Native!Control, Native!Awaited, Native!OnNetwork, Native!Places, Native!Ended, Native!Stream
  <1>2. Native!Rows'
    BY <1>0 DEF Native!Rows, Native!OpenPhase
  <1>3. CASE s9 = <<>>
    <2>1. s2' = "returned" /\ s9' = s9 /\ s15' = s15
      BY <1>3 DEF Native!StreamEnd
    <2>2. Native!Chunks'
      BY <1>0, <1>3, <2>1 DEF Native!Chunks, Native!AtWork, Native!InTurn
    <2> QED BY <1>1, <1>2, <2>2 DEF Native!Inv
  <1>4. CASE s9 # <<>>
    <2>1. Native!HandOver(s9) /\ s2' = "yield"
      BY <1>4 DEF Native!StreamEnd, Native!HandOver
    <2>2. /\ s15' \in Seq(Native!Attempts \X Nat) /\ s9' \in Seq(Native!Attempts \X Nat)
          /\ \A i \in 1..Len(s15') : s15'[i] = <<s3', i>>
          /\ \A j \in 1..Len(s9') : s9'[j] = <<s3', Len(s15') + j>>
          /\ Len(s15') + Len(s9') = Len(s15) + Len(s9)
      BY <1>0, <1>4, <2>1, NativeHandOverKeeps DEF Native!Chunks, Native!AtWork
    <2>3. Native!Chunks'
      BY <1>0, <2>1, <2>2 DEF Native!Chunks, Native!AtWork, Native!InTurn
    <2> QED BY <1>1, <1>2, <2>3 DEF Native!Inv
  <1> QED BY <1>3, <1>4

(* The consumer asks again.                                                *)
LEMMA NativeAskStep == Native!BoundsAssumption /\ Native!Inv /\ Native!Ask => Native!Inv'
  <1> SUFFICES ASSUME Native!BoundsAssumption, Native!Inv, Native!Ask PROVE Native!Inv'
    OBVIOUS
  <1>0. /\ Native!Control /\ Native!Awaited /\ Native!Rows /\ Native!OnNetwork /\ Native!Chunks
        /\ s2 = "yield"
        /\ s5 = "off" /\ s4 = {}
        /\ UNCHANGED <<s1, s3, s6, s7, s8, s10, s11, s12,
                       s13, s14>>
    BY DEF Native!Inv, Native!Ask, Native!Control, Native!Awaited
  <1>1. CASE s9 # <<>>
    <2>1. Native!HandOver(s9) /\ s2' = "yield" /\ s4' = s4 /\ s5' = s5
      BY <1>1 DEF Native!Ask, Native!HandOver
    <2>2. Native!Control' /\ Native!Awaited' /\ Native!OnNetwork' /\ Native!Rows'
      BY <1>0, <2>1 DEF Native!Control, Native!Awaited, Native!OnNetwork, Native!Rows, Native!OpenPhase,
             Native!Stream
    <2>3. /\ s15' \in Seq(Native!Attempts \X Nat) /\ s9' \in Seq(Native!Attempts \X Nat)
          /\ \A i \in 1..Len(s15') : s15'[i] = <<s3', i>>
          /\ \A j \in 1..Len(s9') : s9'[j] = <<s3', Len(s15') + j>>
          /\ Len(s15') + Len(s9') = Len(s15) + Len(s9)
      BY <1>0, <1>1, <2>1, NativeHandOverKeeps DEF Native!Chunks, Native!AtWork
    <2>4. Native!Chunks'
      BY <1>0, <2>1, <2>3 DEF Native!Chunks, Native!AtWork, Native!InTurn, Native!Control
    <2> QED BY <2>2, <2>4 DEF Native!Inv
  <1>2. CASE s9 = <<>> /\ ~s11
    <2>1. /\ s2' = "next" /\ s4' \in {{"abort"}, {}} /\ s5' \in {"off", "idle", "start"}
          /\ s9' = s9 /\ s15' = s15
      BY <1>2 DEF Native!Ask, Native!Pull
    <2>2. Native!Control' /\ Native!Awaited' /\ Native!OnNetwork'
      BY <1>0, <1>2, <2>1 DEF Native!Control, Native!Awaited, Native!OnNetwork, Native!Places, Native!Ended,
             Native!Stream
    <2>3. Native!Rows' /\ Native!Chunks'
      BY <1>0, <1>2, <2>1 DEF Native!Rows, Native!OpenPhase, Native!Chunks, Native!AtWork, Native!InTurn
    <2> QED BY <2>2, <2>3 DEF Native!Inv
  <1>3. CASE s9 = <<>> /\ s11
    <2>1. s2' = "returned" /\ UNCHANGED <<s4, s5, s9, s15>>
      BY <1>3 DEF Native!Ask
    <2>2. Native!Control' /\ Native!Awaited' /\ Native!OnNetwork'
      BY <1>0, <1>3, <2>1 DEF Native!Control, Native!Awaited, Native!OnNetwork, Native!Places, Native!Ended,
             Native!Stream
    <2>3. Native!Rows' /\ Native!Chunks'
      BY <1>0, <1>3, <2>1 DEF Native!Rows, Native!OpenPhase, Native!Chunks, Native!AtWork, Native!InTurn
    <2> QED BY <2>2, <2>3 DEF Native!Inv
  <1> QED BY <1>1, <1>2, <1>3

(* The consumer leaves the generator.                                      *)
LEMMA NativeLeaveStep == Native!BoundsAssumption /\ Native!Inv /\ Native!Leave => Native!Inv'
  <1> SUFFICES ASSUME Native!BoundsAssumption, Native!Inv, Native!Leave PROVE Native!Inv'
    OBVIOUS
  <1>0. /\ Native!Control /\ Native!Awaited /\ Native!Rows /\ Native!OnNetwork /\ Native!Chunks
        /\ s2 = "yield" /\ s2' = "left"
        /\ Native!Close("cancelled") /\ s5' = "off" /\ s14' = s14 \ {s3} /\ s4 = {}
        /\ UNCHANGED <<s1, s3, s4, s6, s7, s8, s9, s10,
                       s11, s15>>
    BY DEF Native!Inv, Native!Leave, Native!attemptVars, Native!Disposed, Native!Awaited
  <1>1. /\ s12' \in [Native!Attempts -> Native!RowPhases] /\ s13' = FALSE
        /\ s12'[s3] \in {"cancelled", "failed"}
        /\ \A a \in Native!Attempts : a # s3 => s12'[a] = s12[a]
    BY <1>0, NativeCloseRow
  <1>2. Native!Control' /\ Native!Awaited' /\ Native!OnNetwork'
    BY <1>0, <1>1 DEF Native!Control, Native!Awaited, Native!OnNetwork, Native!Places, Native!Ended,
           Native!Stream
  <1>3. Native!Rows'
    BY <1>0, <1>1 DEF Native!Rows, Native!Attempts, Native!Control
  <1>4. Native!Chunks'
    BY <1>0 DEF Native!Chunks, Native!AtWork
  <1> QED BY <1>2, <1>3, <1>4 DEF Native!Inv

(* A stuttering step.                                                      *)
LEMMA NativeStutter == Native!Inv /\ UNCHANGED Native!vars => Native!Inv'
  BY DEF Native!Inv, Native!vars, Native!attemptVars, Native!Control, Native!Awaited, Native!Rows,
         Native!OnNetwork, Native!Chunks, Native!OpenPhase, Native!InTurn, Native!Stream

(* Every step keeps the invariant.                                         *)
LEMMA NativeStep == Native!BoundsAssumption /\ Native!Inv /\ [Native!Next]_(Native!vars) => Native!Inv'
  BY NativeStartStep, NativeSendStep, NativeSettleStep, NativeAbortStep, NativeAfterStep,
     NativeCompletionStep, NativeResponseStep,
     NativeKeepAliveStep, NativeChunkStep, NativeStreamEndStep, NativeAskStep, NativeLeaveStep,
     NativeStutter DEF Native!Next

(* The invariant of the executor says all that is claimed of it.           *)
LEMMA NativeHolds ==
  Native!Inv => /\ Native!TypeOK /\ Native!OneAttemptInOrder /\ Native!ReturnsEverything
                /\ Native!RowsAccepted /\ Native!RowsSettled /\ Native!NoOrphanRequest
<1>1. Native!Inv => Native!TypeOK
  BY DEF Native!Inv, Native!TypeOK, Native!Control, Native!Rows, Native!OnNetwork, Native!Chunks,
         Native!Places
<1>2. Native!Inv => Native!OneAttemptInOrder
  BY DEF Native!Inv, Native!Chunks, Native!OneAttemptInOrder
<1>3. Native!Inv => Native!ReturnsEverything
  BY DEF Native!Inv, Native!Chunks, Native!AtWork, Native!InTurn, Native!ReturnsEverything
<1>4. Native!Inv => Native!RowsAccepted
  <2> SUFFICES ASSUME Native!Inv, NEW a \in Native!Attempts PROVE s12[a] # "refused"
    BY DEF Native!RowsAccepted
  <2>1. CASE a # s3
    BY <2>1 DEF Native!Inv, Native!Rows, Native!Control, Native!Attempts
  <2>2. CASE a = s3
    BY <2>2 DEF Native!Inv, Native!Rows, Native!OpenPhase
  <2> QED
    BY <2>1, <2>2
<1>5. Native!Inv => Native!RowsSettled
  BY DEF Native!Inv, Native!Rows, Native!Control, Native!RowsSettled, Native!OpenPhase, Native!TerminalPhases
<1>6. Native!Inv => Native!NoOrphanRequest
  BY DEF Native!Inv, Native!OnNetwork, Native!NoOrphanRequest, Native!Ended
<1> QED
  BY <1>1, <1>2, <1>3, <1>4, <1>5, <1>6

(* The executor by itself: no attempt beyond the configured retries is made, the  *)
(* consumer gets the chunks of one attempt from its first on and without a gap,   *)
(* however many attempts fail, time out or are repeated, the reducer accepts      *)
(* every event, and a request that is over has nothing on the network.            *)
THEOREM NativeRequestSafe ==
  ASSUME Native!BoundsAssumption
  PROVE  Native!Spec => [](/\ Native!TypeOK /\ Native!OneAttemptInOrder /\ Native!ReturnsEverything
                           /\ Native!RowsAccepted /\ Native!RowsSettled /\ Native!NoOrphanRequest)
<1>1. Native!Init => Native!Inv
  BY NativeBeginning
<1>2. Native!Inv /\ [Native!Next]_(Native!vars) => Native!Inv'
  BY NativeStep
<1> QED
  BY <1>1, <1>2, NativeHolds, PTL DEF Native!Spec

-----------------------------------------------------------------------------
(* A stage after a story has its place when nothing before it rules it out. *)
TransportFits(t, e) ==
  /\ ~Transport!In(t, Transport!LastStages)
  /\ (e \in Transport!FetchEnds => ~Transport!In(t, Transport!FetchEnds \cup {"body_start"}))
  /\ (e = "body_start" => ~Transport!In(t, {"body_start"}))
  /\ (e = "body_chunk" => Transport!In(t, {"body_start"}))

LEMMA TransportJoined ==
  ASSUME NEW t \in Seq(Transport!Stages), NEW e \in Transport!Stages
  PROVE  /\ t \o <<e>> \in Seq(Transport!Stages)
         /\ \A S : Transport!In(t \o <<e>>, S) <=> Transport!In(t, S) \/ e \in S
<1> DEFINE u == t \o <<e>>
<1>1. /\ u \in Seq(Transport!Stages) /\ Len(t) \in Nat
      /\ Len(u) = Len(t) + 1 /\ u[Len(t) + 1] = e
      /\ \A i \in 1..Len(t) : u[i] = t[i]
  OBVIOUS
<1>2. ASSUME NEW S PROVE Transport!In(u, S) <=> Transport!In(t, S) \/ e \in S
  <2> HIDE DEF u
  <2>1. ASSUME Transport!In(u, S) PROVE Transport!In(t, S) \/ e \in S
    <3>1. PICK i \in 1..Len(u) : u[i] \in S
      BY <2>1 DEF Transport!In
    <3>2. i \in 1..Len(t) \/ i = Len(t) + 1
      BY <1>1
    <3> QED
      BY <1>1, <3>1, <3>2 DEF Transport!In
  <2>2. ASSUME Transport!In(t, S) PROVE Transport!In(u, S)
    BY <1>1, <2>2 DEF Transport!In
  <2>3. ASSUME e \in S PROVE Transport!In(u, S)
    <3>1. Len(t) + 1 \in 1..Len(u)
      BY <1>1
    <3> QED
      BY <1>1, <2>3, <3>1 DEF Transport!In
  <2> QED
    BY <2>1, <2>2, <2>3
<1> QED
  BY <1>1, <1>2

LEMMA TransportContinued ==
  ASSUME NEW t \in Seq(Transport!Stages), Transport!Tells(t), NEW e \in Transport!Stages, TransportFits(t, e)
  PROVE  Transport!Tells(t \o <<e>>)
<1> DEFINE u == t \o <<e>>
<1>1. /\ Len(t) \in Nat
      /\ Len(u) = Len(t) + 1 /\ u[Len(t) + 1] = e
      /\ \A i \in 1..Len(t) : u[i] = t[i]
  OBVIOUS
<1> HIDE DEF u
<1>2. ASSUME NEW i \in 1..Len(u), NEW j \in 1..Len(u), i < j
      PROVE  /\ ~(u[i] \in Transport!FetchEnds /\ u[j] \in Transport!FetchEnds)
             /\ u[i] \notin Transport!LastStages
             /\ ~(u[i] = "body_start" /\ u[j] \in Transport!FetchEnds \cup {"body_start"})
             /\ u[j] = "body_chunk" => \E k \in 1..(j - 1) : u[k] = "body_start"
  <2>1. i \in 1..Len(t) /\ u[i] = t[i]
    BY <1>1, <1>2
  <2>2. CASE j \in 1..Len(t)
    <3>1. u[j] = t[j] /\ \A k \in 1..(j - 1) : k \in 1..Len(t) /\ u[k] = t[k]
      BY <1>1, <2>2
    <3> QED
      BY <1>2, <2>1, <2>2, <3>1 DEF Transport!Tells
  <2>3. CASE j = Len(t) + 1
    <3>1. u[j] = e /\ \A k \in 1..Len(t) : k \in 1..(j - 1) /\ u[k] = t[k]
      BY <1>1, <2>3
    <3>2. e \in Transport!FetchEnds => t[i] \notin Transport!FetchEnds /\ t[i] # "body_start"
      BY <2>1 DEF TransportFits, Transport!In
    <3>3. t[i] \notin Transport!LastStages /\ (e = "body_start" => t[i] # "body_start")
      BY <2>1 DEF TransportFits, Transport!In
    <3>4. e = "body_chunk" => \E k \in 1..Len(t) : t[k] = "body_start"
      BY DEF TransportFits, Transport!In
    <3> QED
      BY <2>1, <3>1, <3>2, <3>3, <3>4
  <2> QED
    BY <1>1, <2>2, <2>3
<1> QED
  BY <1>2 DEF Transport!Tells, u

(* Two stages at once are one after the other.                             *)
LEMMA TransportTwo ==
  ASSUME NEW t \in Seq(Transport!Stages), NEW a \in Transport!Stages, NEW b \in Transport!Stages
  PROVE  t \o <<a, b>> = (t \o <<a>>) \o <<b>>
<1>1. /\ t \o <<a, b>> \in Seq(Transport!Stages) /\ Len(t \o <<a, b>>) = Len(t) + 2
      /\ \A i \in 1..(Len(t) + 2) : (t \o <<a, b>>)[i] = IF i <= Len(t) THEN t[i] ELSE <<a, b>>[i - Len(t)]
  OBVIOUS
<1>2. /\ t \o <<a>> \in Seq(Transport!Stages) /\ Len(t \o <<a>>) = Len(t) + 1
      /\ \A i \in 1..(Len(t) + 1) : (t \o <<a>>)[i] = IF i <= Len(t) THEN t[i] ELSE a
  OBVIOUS
<1> DEFINE v == t \o <<a>>
<1> HIDE DEF v
<1>3. /\ v \o <<b>> \in Seq(Transport!Stages) /\ Len(v \o <<b>>) = Len(v) + 1
      /\ \A i \in 1..(Len(v) + 1) : (v \o <<b>>)[i] = IF i <= Len(v) THEN v[i] ELSE b
  BY <1>2 DEF v
<1>4. ASSUME NEW i \in 1..(Len(t) + 2) PROVE (t \o <<a, b>>)[i] = (v \o <<b>>)[i]
  <2>1. i \in 1..Len(t) \/ i = Len(t) + 1 \/ i = Len(t) + 2
    OBVIOUS
  <2>2. <<a, b>>[1] = a /\ <<a, b>>[2] = b /\ Len(t) \in Nat
    OBVIOUS
  <2>3. Len(v) = Len(t) + 1 /\ v[Len(t) + 1] = a /\ \A k \in 1..Len(t) : v[k] = t[k]
    BY <1>2, <2>2 DEF v
  <2>4. CASE i \in 1..Len(t)
    BY <1>1, <1>3, <2>2, <2>3, <2>4
  <2>5. CASE i = Len(t) + 1
    BY <1>1, <1>3, <2>2, <2>3, <2>5
  <2>6. CASE i = Len(t) + 2
    BY <1>1, <1>3, <2>2, <2>3, <2>6
  <2> QED
    BY <2>1, <2>4, <2>5, <2>6
<1>5. Len(t \o <<a, b>>) = Len(v \o <<b>>)
  BY <1>1, <1>2, <1>3 DEF v
<1>6. t \o <<a, b>> = v \o <<b>>
  BY <1>1, <1>3, <1>4, <1>5, SeqEqual
<1> QED
  BY <1>6 DEF v

LEMMA TransportThree ==
  ASSUME NEW t \in Seq(Transport!Stages), NEW a \in Transport!Stages, NEW b \in Transport!Stages,
         NEW c \in Transport!Stages
  PROVE  t \o <<a, b, c>> = ((t \o <<a>>) \o <<b>>) \o <<c>>
<1>1. /\ <<a>> \in Seq(Transport!Stages) /\ <<b, c>> \in Seq(Transport!Stages)
      /\ <<a, b, c>> \in Seq(Transport!Stages) /\ <<b>> \in Seq(Transport!Stages)
  OBVIOUS
<1>2. <<a>> \o <<b, c>> = <<a, b, c>>
  <2>1. /\ <<a>> \o <<b, c>> \in Seq(Transport!Stages) /\ Len(<<a>> \o <<b, c>>) = 3
        /\ (<<a>> \o <<b, c>>)[1] = a /\ (<<a>> \o <<b, c>>)[2] = b /\ (<<a>> \o <<b, c>>)[3] = c
    OBVIOUS
  <2>2. Len(<<a, b, c>>) = 3 /\ <<a, b, c>>[1] = a /\ <<a, b, c>>[2] = b /\ <<a, b, c>>[3] = c
    OBVIOUS
  <2>3. \A i \in 1..3 : i = 1 \/ i = 2 \/ i = 3
    OBVIOUS
  <2>4. \A i \in 1..Len(<<a>> \o <<b, c>>) : (<<a>> \o <<b, c>>)[i] = <<a, b, c>>[i]
    BY <2>1, <2>2, <2>3
  <2> QED
    BY <1>1, <2>1, <2>2, <2>4, SeqEqual
<1>3. (t \o <<a>>) \o <<b, c>> = t \o <<a, b, c>>
  BY <1>1, <1>2, ConcatAssociative
<1>4. t \o <<a>> \in Seq(Transport!Stages)
  BY TransportJoined
<1> QED
  BY <1>3, <1>4, TransportTwo

-----------------------------------------------------------------------------
(* The invariant holds at first.                                           *)
LEMMA TransportBegins == Transport!ChunksAssumption /\ Transport!Init => Transport!Inv
<1> SUFFICES ASSUME Transport!ChunksAssumption, Transport!Init PROVE Transport!Inv
  OBVIOUS
<1>0. 0 \in 0..(MaxReads + 1) /\ 0 <= MaxReads
  BY DEF Transport!ChunksAssumption
<1>1. s12 = <<>> /\ 0 \in 0..(MaxReads + 1) /\ 0 <= MaxReads
  BY <1>0 DEF Transport!Init
<1>2. s12 \in Seq(Transport!Stages) /\ Transport!OneStory
  BY <1>1 DEF Transport!OneStory, Transport!Tells
<1>3. Transport!TypeOK
  BY <1>1, <1>2 DEF Transport!Init, Transport!TypeOK, Transport!Reads
<1>4. Transport!OnNetwork /\ Transport!Body /\ Transport!Traced
  BY <1>1 DEF Transport!Init, Transport!OnNetwork, Transport!Body, Transport!Traced, Transport!Reads
<1> QED
  BY <1>2, <1>3, <1>4 DEF Transport!Inv

(* What the types say, for a step that leaves the setup alone.             *)
LEMMA TransportTypes ==
  ASSUME Transport!Inv, s1' = s1
  PROVE  /\ s3 \in BOOLEAN /\ s8 \in BOOLEAN /\ s10 \in BOOLEAN
         /\ s12 \in Seq(Transport!Stages) /\ Transport!Tells(s12)
         /\ (Transport!OwnAgent => Transport!OwnAgent') /\ Transport!Route' = Transport!Route
BY DEF Transport!Inv, Transport!TypeOK, Transport!OwnAgent, Transport!Route, Transport!Hybrid,
       Transport!OneStory

(* A step keeps the types when what it changes has them.                   *)
LEMMA TransportKept ==
  ASSUME Transport!Inv, UNCHANGED <<s1, s5, s11>>, s7' \in {s7, Transport!Closed},
         s12' \in Seq(Transport!Stages),
         s10' \in BOOLEAN, s3' \in BOOLEAN, s8' \in BOOLEAN,
         s2' \in {"idle", "fetching", "buffering", "raw", "observed", "thrown"},
         s4' \in {"", "resolved", "rejected"}, s6' \in {"none", "open", "ended", "cancelled"},
         s9' \in Transport!Reads \cup {"idle", "closed", "errored"}
  PROVE  Transport!TypeOK'
<1>1. {s3, s8, s10}' \subseteq BOOLEAN
  OBVIOUS
<1>2. s5' \in Transport!Responses \cup {"none"} /\ s7' \in {"none", "open", "closed"}
  BY DEF Transport!Inv, Transport!TypeOK, Transport!Closed
<1>3. s7' # "none" => Transport!OwnAgent'
  BY DEF Transport!Inv, Transport!TypeOK, Transport!Closed, Transport!OwnAgent, Transport!Route,
         Transport!Hybrid
<1>4. s11' \in 0..(MaxReads + 1)
  BY DEF Transport!Inv, Transport!TypeOK
<1>5. s1' \in [mobile : BOOLEAN, proxied : BOOLEAN, mode : Transport!Modes, streaming : BOOLEAN,
      fresh : BOOLEAN]
  BY DEF Transport!Inv, Transport!TypeOK
<1> QED
  BY <1>1, <1>2, <1>3, <1>4, <1>5 DEF Transport!TypeOK

(* The stages, each by its kind.                                           *)
LEMMA TransportKinds ==
  /\ {"fetch_start", "fetch_headers", "fetch_error", "fetch_abort", "body_start", "body_chunk",
      "body_end", "body_error"} \subseteq Transport!Stages
  /\ "fetch_start" \notin Transport!FetchEnds \cup Transport!LastStages \cup {"body_start", "body_chunk"}
  /\ {"fetch_headers", "fetch_error", "fetch_abort"} \subseteq Transport!FetchEnds
  /\ {"body_start", "body_chunk", "body_end", "body_error"} \cap Transport!FetchEnds = {}
BY DEF Transport!Stages, Transport!FetchEnds, Transport!BodyEnds, Transport!LastStages

(* A story without the stages of a set has none of a smaller one.          *)
LEMMA TransportFewer ==
  ASSUME NEW t, NEW S, NEW R, ~Transport!In(t, S), R \subseteq S
  PROVE  ~Transport!In(t, R)
BY DEF Transport!In

(* The fetch begins.                                                       *)
LEMMA TransportFetchStep == Transport!ChunksAssumption /\ Transport!Inv /\ Transport!Fetch => Transport!Inv'
<1> SUFFICES ASSUME Transport!ChunksAssumption, Transport!Inv, Transport!Fetch PROVE Transport!Inv'
  OBVIOUS
<1> DEFINE one == <<>> \o <<"fetch_start">>
           two == one \o <<"fetch_abort">>
<1>1. s12 = <<>> /\ <<>> \in Seq(Transport!Stages) /\ Transport!Tells(<<>>)
  <2>1. s12 = <<>>
    BY DEF Transport!Fetch, Transport!Inv, Transport!Traced
  <2>2. Transport!Tells(<<>>)
    BY DEF Transport!Tells
  <2> QED
    BY <2>1, <2>2
<1>2. \A S : ~Transport!In(<<>>, S)
  BY DEF Transport!In
<1>3. /\ one \in Seq(Transport!Stages) /\ Transport!Tells(one)
      /\ \A S : Transport!In(one, S) <=> "fetch_start" \in S
  <2>1. TransportFits(<<>>, "fetch_start")
    BY <1>2, TransportKinds DEF TransportFits
  <2> QED
    BY <1>1, <1>2, <2>1, TransportKinds, TransportJoined, TransportContinued
<1>4. /\ two \in Seq(Transport!Stages) /\ Transport!Tells(two)
      /\ \A S : Transport!In(two, S) <=> "fetch_start" \in S \/ "fetch_abort" \in S
  <2> HIDE DEF one
  <2>1. TransportFits(one, "fetch_abort")
    BY <1>3, TransportKinds DEF TransportFits
  <2> QED
    BY <1>3, <2>1, TransportKinds, TransportJoined, TransportContinued
<1>5. s12' = IF s3 THEN two ELSE one
  <2>1. two = <<>> \o <<"fetch_start", "fetch_abort">>
    BY <1>1, TransportTwo, TransportKinds
  <2> QED
    BY <1>1, <2>1 DEF Transport!Fetch, Transport!Emit
<1> HIDE DEF one, two
<1>6. s3 \in BOOLEAN /\ s8' = s3 /\ s2' = "fetching" /\ (Transport!OwnAgent => Transport!OwnAgent')
  BY TransportTypes DEF Transport!Fetch
<1>7. Transport!OneStory' /\ s12' \in Seq(Transport!Stages)
  BY <1>3, <1>4, <1>5, <1>6 DEF Transport!OneStory
<1>8. Transport!TypeOK'
  <2>1. s10 \in BOOLEAN /\ s3' = s3 /\ s10' = s10
    BY TransportTypes DEF Transport!Fetch
  <2>2. s10' \in BOOLEAN /\ s3' \in BOOLEAN /\ s8' \in BOOLEAN
    BY <1>6, <2>1, Zenon
  <2>3. {s3, s8, s10}' \subseteq BOOLEAN
    BY <2>2
  <2>4. s7' \in {"none", "open", "closed"} /\ (s7' # "none" => Transport!OwnAgent)
    BY DEF Transport!Fetch
  <2>5. /\ s1' = s1 /\ s5' = s5 /\ s4' = s4 /\ s6' = s6
        /\ s11' = s11 /\ s9' = s9
    BY DEF Transport!Fetch
  <2>6. /\ s1' \in [mobile : BOOLEAN, proxied : BOOLEAN, mode : Transport!Modes, streaming : BOOLEAN,
           fresh : BOOLEAN]
        /\ s5' \in Transport!Responses \cup {"none"} /\ s11' \in 0..(MaxReads + 1)
        /\ s4' \in {"", "resolved", "rejected"} /\ s6' \in {"none", "open", "ended", "cancelled"}
        /\ s9' \in Transport!Reads \cup {"idle", "closed", "errored"}
    BY <2>5 DEF Transport!Inv, Transport!TypeOK
  <2>7. s7' # "none" => Transport!OwnAgent'
    BY <1>6, <2>4
  <2> QED
    BY <1>6, <1>7, <2>3, <2>4, <2>6, <2>7 DEF Transport!TypeOK
<1>9. Transport!OnNetwork' /\ Transport!Body'
  BY DEF Transport!Fetch, Transport!Inv, Transport!OnNetwork, Transport!Body, Transport!TypeOK,
         Transport!Reads
<1>10. Transport!Traced'
  <2>1. s9' \notin Transport!Reads
    BY DEF Transport!Fetch, Transport!Inv, Transport!Body, Transport!Reads
  <2>2. ~Transport!In(s12', Transport!BodyEnds \cup {"fetch_headers", "fetch_error", "body_start"})
    BY <1>3, <1>4, <1>5 DEF Transport!BodyEnds
  <2>3. ~s8' => ~Transport!In(s12', {"fetch_abort"})
    BY <1>3, <1>5, <1>6
  <2> QED
    BY <1>6, <2>1, <2>2, <2>3 DEF Transport!Traced
<1> QED
  BY <1>7, <1>8, <1>9, <1>10 DEF Transport!Inv

(* A step that traces nothing keeps the story, and what is traced when the *)
(* place and the ends stay.                                                *)
LEMMA TransportSilent ==
  ASSUME Transport!Inv, s12' = s12
  PROVE  /\ Transport!OneStory' /\ s12' \in Seq(Transport!Stages)
         /\ s2' = s2 /\ s8' = s8 /\ s10' = s10 /\ (s9' \in Transport!Reads => s9 \in Transport!Reads)
              => Transport!Traced'
<1>1. Transport!OneStory' /\ s12' \in Seq(Transport!Stages)
  BY DEF Transport!Inv, Transport!OneStory, Transport!TypeOK
<1>2. ASSUME s2' = s2, s8' = s8, s10' = s10, s9' \in Transport!Reads => s9 \in Transport!Reads
      PROVE  Transport!Traced'
  BY <1>2 DEF Transport!Inv, Transport!Traced, Transport!BodyStarted
<1> QED
  BY <1>1, <1>2

(* The fetch settles.                                                      *)
LEMMA TransportSettlesStep ==
  Transport!ChunksAssumption /\ Transport!Inv /\ Transport!FetchSettles => Transport!Inv'
<1> SUFFICES ASSUME Transport!ChunksAssumption, Transport!Inv, Transport!FetchSettles PROVE Transport!Inv'
  OBVIOUS
<1>1. (Transport!OwnAgent => Transport!OwnAgent')
  BY TransportTypes DEF Transport!FetchSettles
<1>2. Transport!TypeOK'
  BY <1>1 DEF Transport!FetchSettles, Transport!Inv, Transport!TypeOK
<1>3. Transport!OnNetwork'
  BY DEF Transport!FetchSettles, Transport!Inv, Transport!OnNetwork, Transport!Body, Transport!TypeOK,
         Transport!Reads
<1>4. Transport!Body'
  BY DEF Transport!FetchSettles, Transport!Inv, Transport!Body, Transport!TypeOK, Transport!Reads
<1>5. Transport!Traced' /\ Transport!OneStory'
  BY TransportSilent DEF Transport!FetchSettles
<1> QED
  BY <1>2, <1>3, <1>4, <1>5 DEF Transport!Inv

(* The buffering of an error's body settles.                               *)
LEMMA TransportBufferStep ==
  Transport!ChunksAssumption /\ Transport!Inv /\ Transport!BufferSettles => Transport!Inv'
<1> SUFFICES ASSUME Transport!ChunksAssumption, Transport!Inv, Transport!BufferSettles PROVE Transport!Inv'
  OBVIOUS
<1>1. (Transport!OwnAgent => Transport!OwnAgent')
  BY TransportTypes DEF Transport!BufferSettles
<1>2. Transport!TypeOK'
  BY <1>1 DEF Transport!BufferSettles, Transport!Inv, Transport!TypeOK
<1>3. Transport!OnNetwork' /\ Transport!Body'
  BY DEF Transport!BufferSettles, Transport!Inv, Transport!OnNetwork, Transport!Body, Transport!TypeOK,
         Transport!Reads
<1>4. Transport!Traced' /\ Transport!OneStory'
  BY TransportSilent DEF Transport!BufferSettles
<1> QED
  BY <1>2, <1>3, <1>4 DEF Transport!Inv

(* A fetch that failed is over; its end is recorded once.                  *)
LEMMA TransportFailedStep ==
  Transport!ChunksAssumption /\ Transport!Inv /\ Transport!FetchFailed => Transport!Inv'
<1> SUFFICES ASSUME Transport!ChunksAssumption, Transport!Inv, Transport!FetchFailed PROVE Transport!Inv'
  OBVIOUS
<1>1. /\ s2 = "fetching" /\ s2' = "thrown" /\ (Transport!OwnAgent => Transport!OwnAgent')
      /\ s12 \in Seq(Transport!Stages) /\ Transport!Tells(s12)
      /\ ~Transport!In(s12, Transport!BodyEnds \cup {"fetch_headers", "fetch_error", "body_start"})
      /\ (~s8 => ~Transport!In(s12, {"fetch_abort"}))
  BY TransportTypes DEF Transport!FetchFailed, Transport!Inv, Transport!Traced
<1>2. \/ s12' = s12
      \/ /\ ~s8
         /\ \E e \in {"fetch_abort", "fetch_error"} : s12' = s12 \o <<e>>
  <2>1. PICK aborting \in {s3, TRUE} :
          s12' = s12 \o (IF s8 THEN <<>>
                             ELSE IF aborting THEN <<"fetch_abort">> ELSE <<"fetch_error">>)
    BY DEF Transport!FetchFailed, Transport!Emit
  <2>2. s12 \o <<>> = s12
    BY <1>1
  <2> QED
    BY <2>1, <2>2, Zenon
<1>3. Transport!OneStory' /\ s12' \in Seq(Transport!Stages)
  <2>1. CASE s12' = s12
    BY <2>1, TransportSilent
  <2>2. ASSUME ~s8, NEW e \in {"fetch_abort", "fetch_error"}, s12' = s12 \o <<e>>
        PROVE  Transport!OneStory' /\ s12' \in Seq(Transport!Stages)
    <3>1. e \in Transport!Stages /\ e \in Transport!FetchEnds /\ e \notin {"body_start", "body_chunk"}
      BY TransportKinds
    <3>2. /\ ~Transport!In(s12, Transport!LastStages)
          /\ ~Transport!In(s12, Transport!FetchEnds \cup {"body_start"})
      BY <1>1, <2>2 DEF Transport!In, Transport!LastStages, Transport!FetchEnds
    <3>3. TransportFits(s12, e)
      BY <3>1, <3>2 DEF TransportFits
    <3> QED
      BY <1>1, <2>2, <3>1, <3>3, TransportJoined, TransportContinued DEF Transport!OneStory
  <2> QED
    BY <1>2, <2>1, <2>2
<1>4. Transport!TypeOK'
  BY <1>1, <1>3 DEF Transport!FetchFailed, Transport!Inv, Transport!TypeOK, Transport!Closed
<1>5. Transport!OnNetwork' /\ Transport!Body' /\ Transport!Traced'
  BY DEF Transport!FetchFailed, Transport!Inv, Transport!TypeOK, Transport!OnNetwork, Transport!Body,
         Transport!Traced, Transport!Closed, Transport!Reads
<1> QED
  BY <1>3, <1>4, <1>5 DEF Transport!Inv

(* The headers are there: the exchange goes on as the body it is, or ends  *)
(* at once because it was aborted in between.                              *)
LEMMA TransportHeadersStep ==
  Transport!ChunksAssumption /\ Transport!Inv /\ Transport!Headers => Transport!Inv'
<1> SUFFICES ASSUME Transport!ChunksAssumption, Transport!Inv, Transport!Headers PROVE Transport!Inv'
  OBVIOUS
<1>1. /\ (Transport!OwnAgent => Transport!OwnAgent') /\ s12 \in Seq(Transport!Stages) /\ Transport!Tells(s12)
      /\ s9 = "idle" /\ s9' = "idle"
      /\ ~s10 /\ s11 = 0 /\ s11' = 0 /\ s2 = "fetching" /\ (s3 => s8)
      /\ s3' = s3 /\ s8' = s8
      /\ ~Transport!In(s12, Transport!BodyEnds \cup {"fetch_headers", "fetch_error", "body_start"})
      /\ (~s8 => ~Transport!In(s12, {"fetch_abort"}))
  BY TransportTypes DEF Transport!Headers, Transport!Inv, Transport!Body, Transport!Traced
<1>2. CASE s8
  <2>1. s2' = "thrown" /\ s12' = s12 /\ s6' # "open" /\ s7' = Transport!Closed /\ s10' = s10
        /\ s6' \in {s6, "cancelled"}
    BY <1>2 DEF Transport!Headers
  <2>2. Transport!OneStory' /\ s12' \in Seq(Transport!Stages)
    BY <2>1, TransportSilent
  <2>3. Transport!TypeOK'
    BY <1>1, <2>1, <2>2 DEF Transport!Headers, Transport!Inv, Transport!TypeOK, Transport!Closed
  <2>4. Transport!OnNetwork' /\ Transport!Body' /\ Transport!Traced'
    BY <1>1, <2>1 DEF Transport!Headers, Transport!Inv, Transport!OnNetwork, Transport!Body,
           Transport!Traced, Transport!Closed, Transport!TypeOK, Transport!Reads
  <2> QED
    BY <2>2, <2>3, <2>4 DEF Transport!Inv
<1>3. CASE ~s8
  <2>1. /\ s6' = s6
        /\ \/ s2' = "buffering" /\ Transport!Emit(<<"fetch_headers">>) /\ UNCHANGED <<s7, s10>>
           \/ s2' = "raw" /\ Transport!Emit(<<"fetch_headers">>) /\ s7' = Transport!Closed /\ UNCHANGED s10
           \/ s2' = "observed" /\ Transport!Emit(<<"fetch_headers">>) /\ UNCHANGED <<s7, s10>>
           \/ /\ s2' = "observed" /\ s5 = "empty"
              /\ Transport!Emit(<<"fetch_headers", "body_start", "body_end">>)
              /\ s10' = TRUE /\ s7' = Transport!Closed
    BY <1>3 DEF Transport!Headers
  <2> DEFINE one == s12 \o <<"fetch_headers">>
             two == one \o <<"body_start">>
  <2>2. /\ one \in Seq(Transport!Stages) /\ Transport!Tells(one)
        /\ \A S : Transport!In(one, S) <=> Transport!In(s12, S) \/ "fetch_headers" \in S
    <3>1. /\ ~Transport!In(s12, Transport!LastStages)
          /\ ~Transport!In(s12, Transport!FetchEnds \cup {"body_start"})
      BY <1>1, <1>3 DEF Transport!In, Transport!LastStages, Transport!FetchEnds
    <3>2. TransportFits(s12, "fetch_headers")
      BY <3>1, TransportKinds DEF TransportFits
    <3> QED
      BY <1>1, <3>2, TransportKinds, TransportJoined, TransportContinued
  <2>3. /\ ~Transport!In(one, Transport!LastStages) /\ ~Transport!In(one, Transport!BodyEnds)
        /\ ~Transport!In(one, {"body_start"})
    <3>1. /\ ~Transport!In(s12, Transport!LastStages) /\ ~Transport!In(s12, Transport!BodyEnds)
          /\ ~Transport!In(s12, {"body_start"})
      BY <1>1, <1>3 DEF Transport!In, Transport!LastStages
    <3>2. "fetch_headers" \notin Transport!LastStages \cup Transport!BodyEnds \cup {"body_start"}
      BY DEF Transport!LastStages, Transport!BodyEnds
    <3> QED
      BY <2>2, <3>1, <3>2
  <2>4. CASE /\ Transport!Emit(<<"fetch_headers">>) /\ s2' \in {"buffering", "raw", "observed"} /\ s10' = s10
             /\ s7' \in {s7, Transport!Closed} /\ (s2' = "raw" => s7' = Transport!Closed)
    <3>1. s12' = one
      BY <2>4 DEF Transport!Emit
    <3> HIDE DEF one
    <3>2. Transport!OneStory' /\ s12' \in Seq(Transport!Stages)
      BY <2>2, <3>1 DEF Transport!OneStory
    <3>3. /\ s2' \in {"buffering", "raw", "observed"} /\ s7' \in {s7, Transport!Closed}
          /\ (s2' = "raw" => s7' = Transport!Closed)
      BY <2>4
    <3>4. s10' = s10 /\ ~s10'
      BY <1>1, <2>4
    <3>5. Transport!TypeOK'
      BY <1>1, <2>1, <3>2, <3>3, <3>4 DEF Transport!Headers, Transport!Inv, Transport!TypeOK,
             Transport!Closed
    <3>6. Transport!OnNetwork'
      BY <1>1, <2>1, <3>3, <3>4 DEF Transport!Headers, Transport!Inv, Transport!OnNetwork, Transport!Closed,
             Transport!TypeOK, Transport!Reads
    <3>7. Transport!Body'
      BY <1>1, <1>3, <3>3, <3>4 DEF Transport!Body, Transport!Reads, Transport!ChunksAssumption
    <3>8. Transport!Traced'
      <4>1. /\ ~Transport!In(s12', Transport!LastStages) /\ ~Transport!In(s12', Transport!BodyEnds)
            /\ ~Transport!In(s12', {"body_start"})
        BY <2>3, <3>1
      <4> QED
        BY <1>1, <3>3, <4>1 DEF Transport!Traced, Transport!Reads, Transport!LastStages, Transport!In
    <3> QED
      BY <3>2, <3>5, <3>6, <3>7, <3>8 DEF Transport!Inv
  <2>5. CASE /\ s2' = "observed" /\ s5 = "empty"
             /\ Transport!Emit(<<"fetch_headers", "body_start", "body_end">>)
             /\ s10' = TRUE /\ s7' = Transport!Closed
    <3>1. s12' = two \o <<"body_end">>
      BY <1>1, <2>5, TransportThree, TransportKinds DEF Transport!Emit
    <3> HIDE DEF one
    <3>2. /\ two \in Seq(Transport!Stages) /\ Transport!Tells(two)
          /\ \A S : Transport!In(two, S) <=> Transport!In(one, S) \/ "body_start" \in S
      <4>1. TransportFits(one, "body_start")
        BY <2>3, TransportKinds DEF TransportFits
      <4> QED
        BY <2>2, <4>1, TransportKinds, TransportJoined, TransportContinued
    <3> HIDE DEF two
    <3>3. ~Transport!In(two, Transport!LastStages)
      BY <2>3, <3>2 DEF Transport!LastStages, Transport!BodyEnds
    <3>4. /\ Transport!OneStory' /\ s12' \in Seq(Transport!Stages)
          /\ \A S : Transport!In(s12', S) <=> Transport!In(two, S) \/ "body_end" \in S
      <4>1. TransportFits(two, "body_end")
        BY <3>3, TransportKinds DEF TransportFits
      <4> QED
        BY <3>1, <3>2, <4>1, TransportKinds, TransportJoined, TransportContinued DEF Transport!OneStory
    <3>5. s6 # "open"
      BY <1>1, <2>5 DEF Transport!Inv, Transport!OnNetwork
    <3>6. Transport!TypeOK'
      BY <1>1, <2>1, <2>5, <3>4 DEF Transport!Headers, Transport!Inv, Transport!TypeOK, Transport!Closed
    <3>7. Transport!OnNetwork'
      BY <1>1, <2>1, <2>5, <3>5 DEF Transport!Headers, Transport!Inv, Transport!OnNetwork, Transport!Closed,
             Transport!TypeOK, Transport!Reads
    <3>8. Transport!Body'
      BY <1>1, <2>5 DEF Transport!Body, Transport!Reads, Transport!ChunksAssumption
    <3>9. Transport!Traced'
      <4>1. ~Transport!In(s12', {"fetch_error", "fetch_abort"})
        <5>1. ~Transport!In(two, {"fetch_error", "fetch_abort"})
          BY <3>3 DEF Transport!In, Transport!LastStages
        <5> QED
          BY <3>4, <5>1
      <4> QED
        BY <1>1, <2>5, <4>1 DEF Transport!Traced, Transport!Reads
    <3> QED
      BY <3>4, <3>6, <3>7, <3>8, <3>9 DEF Transport!Inv
  <2> QED
    BY <2>1, <2>4, <2>5
<1> QED
  BY <1>2, <1>3

(* The buffered body goes on in memory, or its error is thrown.            *)
LEMMA TransportBufferedStep ==
  Transport!ChunksAssumption /\ Transport!Inv /\ Transport!Buffered => Transport!Inv'
<1> SUFFICES ASSUME Transport!ChunksAssumption, Transport!Inv, Transport!Buffered PROVE Transport!Inv'
  OBVIOUS
<1>1. /\ (Transport!OwnAgent => Transport!OwnAgent') /\ s12 \in Seq(Transport!Stages) /\ Transport!Tells(s12)
      /\ s9 = "idle" /\ s9' = "idle"
      /\ ~s10 /\ s11 = 0 /\ s11' = 0 /\ s2 = "buffering" /\ s6 # "open" /\ s6' = s6
      /\ s3' = s3 /\ s8' = s8 /\ s4' = "" /\ s3 \in BOOLEAN /\ s10 \in BOOLEAN
      /\ ~Transport!In(s12, Transport!LastStages \cup {"body_start"})
  BY TransportTypes DEF Transport!Buffered, Transport!Inv, Transport!Body, Transport!Traced,
         Transport!OnNetwork
<1>2. \/ /\ s2' = "thrown" /\ s7' = Transport!Closed /\ s10' = s10
         /\ s12' = s12 \o <<"body_start", "body_error">>
      \/ /\ s3 /\ s2' = "observed" /\ s10' = TRUE /\ s7' = Transport!Closed
         /\ s12' = s12 \o <<"body_error">>
      \/ /\ ~s3 /\ s2' = "observed" /\ s10' = FALSE /\ s7' = s7
         /\ s12' = s12 \o <<>>
      \/ /\ s2' = "observed" /\ s10' = TRUE /\ s7' = Transport!Closed
         /\ s12' = s12 \o <<"body_start", "body_end">>
  BY <1>1 DEF Transport!Buffered, Transport!Emit
<1> DEFINE one == s12 \o <<"body_start">>
<1>3. ~Transport!In(s12, Transport!LastStages) /\ ~Transport!In(s12, {"body_start"}) /\
      ~Transport!In(s12, Transport!BodyEnds)
      /\ ~Transport!In(s12, {"fetch_error", "fetch_abort"})
  BY <1>1 DEF Transport!In, Transport!LastStages
<1>4. /\ one \in Seq(Transport!Stages) /\ Transport!Tells(one)
      /\ \A S : Transport!In(one, S) <=> Transport!In(s12, S) \/ "body_start" \in S
  <2>1. TransportFits(s12, "body_start")
    BY <1>3, TransportKinds DEF TransportFits
  <2> QED
    BY <1>1, <2>1, TransportKinds, TransportJoined, TransportContinued
<1>5. ASSUME NEW e \in Transport!BodyEnds
      PROVE  /\ one \o <<e>> \in Seq(Transport!Stages) /\ Transport!Tells(one \o <<e>>)
             /\ s12 \o <<"body_start", e>> = one \o <<e>>
             /\ ~Transport!In(one \o <<e>>, {"fetch_error", "fetch_abort"})
             /\ s12 \o <<e>> \in Seq(Transport!Stages) /\ Transport!Tells(s12 \o <<e>>)
             /\ ~Transport!In(s12 \o <<e>>, {"fetch_error", "fetch_abort"})
  <2>1. /\ e \in Transport!Stages /\ e \notin Transport!FetchEnds
        /\ e \notin {"body_start", "body_chunk", "fetch_error", "fetch_abort"}
    BY DEF Transport!BodyEnds, Transport!FetchEnds, Transport!Stages
  <2>2. s12 \o <<"body_start", e>> = one \o <<e>>
    BY <1>1, <2>1, TransportKinds, TransportTwo
  <2> HIDE DEF one
  <2>3. ~Transport!In(one, Transport!LastStages) /\ ~Transport!In(one, {"fetch_error", "fetch_abort"})
    BY <1>3, <1>4 DEF Transport!LastStages, Transport!BodyEnds
  <2>4. TransportFits(one, e) /\ TransportFits(s12, e)
    BY <1>3, <2>1, <2>3 DEF TransportFits
  <2>5. one \o <<e>> \in Seq(Transport!Stages) /\ s12 \o <<e>> \in Seq(Transport!Stages)
    BY <1>1, <1>4, <2>1, TransportJoined
  <2>6. Transport!Tells(one \o <<e>>) /\ Transport!Tells(s12 \o <<e>>)
    BY <1>1, <1>4, <2>1, <2>4, TransportContinued
  <2>7. ~Transport!In(one \o <<e>>, {"fetch_error", "fetch_abort"})
    BY <1>4, <2>1, <2>3, TransportJoined
  <2>8. ~Transport!In(s12 \o <<e>>, {"fetch_error", "fetch_abort"})
    BY <1>1, <1>3, <2>1, TransportJoined
  <2> QED
    BY <2>2, <2>5, <2>6, <2>7, <2>8
<1>6. /\ Transport!Tells(s12') /\ s12' \in Seq(Transport!Stages)
      /\ (s2' = "observed" => ~Transport!In(s12', {"fetch_error", "fetch_abort"})
          /\ (~s10' => ~Transport!In(s12', Transport!BodyEnds)))
  <2>1. "body_end" \in Transport!BodyEnds /\ "body_error" \in Transport!BodyEnds
    BY DEF Transport!BodyEnds
  <2>2. s12 \o <<>> = s12
    BY <1>1, ConcatEmptySeq
  <2> HIDE DEF one
  <2> QED
    BY <1>1, <1>2, <1>3, <1>5, <2>1, <2>2
<1>7. /\ s2' \in {"thrown", "observed"} /\ s10' \in BOOLEAN /\ s7' \in {s7, Transport!Closed}
      /\ (s2' = "thrown" => s10' = s10) /\ (s2' = "thrown" \/ s10' => s7' = Transport!Closed)
      /\ (s3 /\ s2' = "observed" => s10')
  <2>1. CASE s2' = "thrown" /\ s7' = Transport!Closed /\ s10' = s10
    BY <1>1, <2>1
  <2>2. CASE s3 /\ s2' = "observed" /\ s10' = TRUE /\ s7' = Transport!Closed
    BY <2>2
  <2>3. CASE ~s3 /\ s2' = "observed" /\ s10' = FALSE /\ s7' = s7
    BY <2>3
  <2>4. CASE s2' = "observed" /\ s10' = TRUE /\ s7' = Transport!Closed
    BY <2>4
  <2> QED
    BY <1>2, <2>1, <2>2, <2>3, <2>4
<1>8. Transport!TypeOK'
  BY <1>1, <1>6, <1>7 DEF Transport!Buffered, Transport!Inv, Transport!TypeOK, Transport!Closed
<1>9. Transport!OnNetwork'
  BY <1>1, <1>7 DEF Transport!Inv, Transport!TypeOK, Transport!OnNetwork, Transport!Closed
<1>10. Transport!Body'
  <2>1. 0 <= MaxReads
    BY DEF Transport!ChunksAssumption
  <2>2. s11' <= MaxReads /\ s9' = "idle" /\ s2' \in {"thrown", "observed"}
    BY <1>1, <1>7, <2>1
  <2> QED
    BY <1>1, <1>7, <2>2 DEF Transport!Body
<1>11. Transport!Traced'
  BY <1>1, <1>6, <1>7 DEF Transport!Traced, Transport!Reads
<1> QED
  BY <1>6, <1>8, <1>9, <1>10, <1>11 DEF Transport!Inv, Transport!OneStory

(* A step of the observed body that traces nothing.                        *)
LEMMA TransportReaderStep ==
  Transport!ChunksAssumption /\ Transport!Inv /\ Transport!ReaderDelivers => Transport!Inv'
<1> SUFFICES ASSUME Transport!ChunksAssumption, Transport!Inv, Transport!ReaderDelivers PROVE Transport!Inv'
  OBVIOUS
<1>1. (Transport!OwnAgent => Transport!OwnAgent')
  BY TransportTypes DEF Transport!ReaderDelivers
<1>2. Transport!TypeOK'
  BY <1>1 DEF Transport!ReaderDelivers, Transport!Inv, Transport!TypeOK, Transport!Reads
<1>3. Transport!OnNetwork'
  BY DEF Transport!ReaderDelivers, Transport!Inv, Transport!OnNetwork, Transport!TypeOK, Transport!Reads
<1>4. Transport!Body'
  BY DEF Transport!ReaderDelivers, Transport!Inv, Transport!Body, Transport!TypeOK, Transport!Reads,
         Transport!ChunksAssumption
<1>5. Transport!Traced' /\ Transport!OneStory'
  BY TransportSilent DEF Transport!ReaderDelivers, Transport!Reads
<1> QED
  BY <1>2, <1>3, <1>4, <1>5 DEF Transport!Inv

(* The SDK asks for a chunk.                                               *)
LEMMA TransportPullStep ==
  Transport!ChunksAssumption /\ Transport!Inv /\ Transport!PullChunk => Transport!Inv'
<1> SUFFICES ASSUME Transport!ChunksAssumption, Transport!Inv, Transport!PullChunk PROVE Transport!Inv'
  OBVIOUS
<1>1. /\ (Transport!OwnAgent => Transport!OwnAgent') /\ s12 \in Seq(Transport!Stages) /\ Transport!Tells(s12)
      /\ s10 \in BOOLEAN
      /\ ~Transport!In(s12, {"fetch_error", "fetch_abort"})
      /\ (~s10 => ~Transport!In(s12, Transport!BodyEnds))
  BY TransportTypes DEF Transport!PullChunk, Transport!Inv, Transport!Traced
<1>2. /\ Transport!OneStory' /\ s12' \in Seq(Transport!Stages)
      /\ ~Transport!In(s12', {"fetch_error", "fetch_abort"})
      /\ (~s10 => ~Transport!In(s12', Transport!BodyEnds) /\ Transport!BodyStarted')
  <2>1. CASE s10
    BY <1>1, <2>1, TransportSilent DEF Transport!PullChunk
  <2>2. CASE ~s10 /\ Transport!BodyStarted
    <3>1. s12' = s12
      BY <1>1, <2>2 DEF Transport!PullChunk, Transport!Emit, Transport!StartBody
    <3> QED
      BY <1>1, <2>2, <3>1 DEF Transport!OneStory, Transport!BodyStarted
  <2>3. CASE ~s10 /\ ~Transport!BodyStarted
    <3>1. s12' = s12 \o <<"body_start">>
      BY <1>1, <2>3 DEF Transport!PullChunk, Transport!Emit, Transport!StartBody
    <3>2. ~Transport!In(s12, Transport!LastStages) /\ ~Transport!In(s12, {"body_start"})
      BY <1>1, <2>3 DEF Transport!In, Transport!LastStages, Transport!BodyStarted
    <3>3. TransportFits(s12, "body_start") /\ "body_start" \notin Transport!BodyEnds
      BY <3>2, TransportKinds DEF TransportFits, Transport!BodyEnds
    <3>4. /\ Transport!Tells(s12') /\ s12' \in Seq(Transport!Stages)
          /\ \A S : Transport!In(s12', S) <=> Transport!In(s12, S) \/ "body_start" \in S
      BY <1>1, <3>1, <3>3, TransportKinds, TransportJoined, TransportContinued
    <3> QED
      BY <1>1, <2>3, <3>3, <3>4 DEF Transport!OneStory, Transport!BodyStarted
  <2> QED
    BY <2>1, <2>2, <2>3
<1>3. Transport!TypeOK'
  BY <1>1, <1>2 DEF Transport!PullChunk, Transport!Inv, Transport!TypeOK, Transport!Reads
<1>4. Transport!OnNetwork' /\ Transport!Body'
  BY <1>1 DEF Transport!PullChunk, Transport!Inv, Transport!OnNetwork, Transport!Body, Transport!TypeOK,
         Transport!Reads
<1>5. Transport!Traced'
  BY <1>1, <1>2 DEF Transport!PullChunk, Transport!Traced, Transport!Reads
<1> QED
  BY <1>2, <1>3, <1>4, <1>5 DEF Transport!Inv

(* The pull goes on after a read.                                          *)
LEMMA TransportReadStep ==
  Transport!ChunksAssumption /\ Transport!Inv /\ Transport!AfterRead => Transport!Inv'
<1> SUFFICES ASSUME Transport!ChunksAssumption, Transport!Inv, Transport!AfterRead PROVE Transport!Inv'
  OBVIOUS
<1>1. /\ (Transport!OwnAgent => Transport!OwnAgent') /\ s12 \in Seq(Transport!Stages) /\ Transport!Tells(s12)
      /\ s10 \in BOOLEAN
      /\ ~Transport!In(s12, {"fetch_error", "fetch_abort"})
      /\ (~s10 => ~Transport!In(s12, Transport!BodyEnds)) /\ Transport!BodyStarted
  BY TransportTypes DEF Transport!AfterRead, Transport!Inv, Transport!Traced, Transport!Reads
<1>2. /\ Transport!OneStory' /\ s12' \in Seq(Transport!Stages)
      /\ ~Transport!In(s12', {"fetch_error", "fetch_abort"}) /\ Transport!BodyStarted'
      /\ (~s10 => ~Transport!In(s12', Transport!BodyEnds))
  <2>1. CASE s10
    BY <1>1, <2>1, TransportSilent DEF Transport!AfterRead, Transport!BodyStarted
  <2>2. CASE ~s10
    <3>1. s12' = s12 \o <<"body_chunk">>
      BY <2>2 DEF Transport!AfterRead, Transport!Emit
    <3>2. ~Transport!In(s12, Transport!LastStages)
      BY <1>1, <2>2 DEF Transport!In, Transport!LastStages
    <3>3. TransportFits(s12, "body_chunk") /\ "body_chunk" \notin Transport!BodyEnds
      BY <1>1, <3>2, TransportKinds DEF TransportFits, Transport!BodyEnds, Transport!BodyStarted
    <3>4. /\ Transport!Tells(s12') /\ s12' \in Seq(Transport!Stages)
          /\ \A S : Transport!In(s12', S) <=> Transport!In(s12, S) \/ "body_chunk" \in S
      BY <1>1, <3>1, <3>3, TransportKinds, TransportJoined, TransportContinued
    <3> QED
      BY <1>1, <2>2, <3>3, <3>4 DEF Transport!OneStory, Transport!BodyStarted
  <2> QED
    BY <2>1, <2>2
<1>3. s11' \in 0..(MaxReads + 1)
      /\ (s9' \notin {"cancelling", "closed", "errored"} => s11' <= MaxReads)
  <2>1. /\ MaxReads \in Nat /\ s11 \in 0..(MaxReads + 1) /\ (s9 = "chunk" => s11 < MaxReads)
        /\ (s9 \in {"chunk", "done_mark"} => s11 <= MaxReads)
    BY DEF Transport!Inv, Transport!TypeOK, Transport!Body, Transport!ChunksAssumption
  <2> QED
    BY <2>1 DEF Transport!AfterRead
<1>4. s9' \in {"errored", "idle", "cancelling"} /\ s6' \in {s6, "cancelled"}
      /\ (s9' = "cancelling" => s6' = "cancelled") /\ (s9' = "errored" => s10)
  BY DEF Transport!AfterRead
<1>5. Transport!TypeOK'
  <2>1. UNCHANGED <<s1, s2, s3, s4, s5, s7, s8, s10>>
    BY DEF Transport!AfterRead
  <2>2. Transport!TypeOK
    BY DEF Transport!Inv
  <2>3. s6' \in {"none", "open", "ended", "cancelled"}
    BY <1>4, <2>2 DEF Transport!TypeOK
  <2>4. s9' \in Transport!Reads \cup {"idle", "closed", "errored"}
    BY <1>4 DEF Transport!Reads
  <2>5. s12' \in Seq(Transport!Stages) /\ s11' \in 0..(MaxReads + 1)
    BY <1>2, <1>3
  <2> QED
    BY <1>1, <2>1, <2>2, <2>3, <2>4, <2>5 DEF Transport!TypeOK
<1>6. Transport!OnNetwork'
  BY <1>1, <1>4 DEF Transport!AfterRead, Transport!Inv, Transport!OnNetwork, Transport!TypeOK
<1>7. Transport!Body'
  BY <1>1, <1>3, <1>4 DEF Transport!AfterRead, Transport!Inv, Transport!Body
<1>8. Transport!Traced'
  BY <1>1, <1>2 DEF Transport!AfterRead, Transport!Traced
<1> QED
  BY <1>2, <1>5, <1>6, <1>7, <1>8 DEF Transport!Inv

(* The end of an observed body is recorded, once, with what comes before   *)
(* it.                                                                     *)
LEMMA TransportFinishes ==
  ASSUME Transport!Inv, s2 = "observed", s1' = s1, NEW stage \in Transport!BodyEnds,
         Transport!Finish(stage, <<>>)
  PROVE  /\ Transport!OneStory' /\ s12' \in Seq(Transport!Stages)
         /\ ~Transport!In(s12', {"fetch_error", "fetch_abort"})
         /\ (Transport!BodyStarted => Transport!BodyStarted')
<1>1. /\ s12 \in Seq(Transport!Stages) /\ Transport!Tells(s12) /\ s10 \in BOOLEAN
      /\ ~Transport!In(s12, {"fetch_error", "fetch_abort"})
      /\ (~s10 => ~Transport!In(s12, Transport!BodyEnds))
  BY TransportTypes DEF Transport!Inv, Transport!Traced
<1>2. s12 \o <<>> = s12 /\ <<>> \o <<stage>> = <<stage>>
  BY <1>1, ConcatEmptySeq
<1>3. CASE s10
  BY <1>1, <1>2, <1>3 DEF Transport!Finish, Transport!Emit, Transport!OneStory, Transport!BodyStarted
<1>4. CASE ~s10
  <2>1. s12' = s12 \o <<stage>>
    BY <1>2, <1>4 DEF Transport!Finish, Transport!Emit
  <2>2. /\ stage \in Transport!Stages /\ stage \notin Transport!FetchEnds
        /\ stage \notin {"body_start", "body_chunk", "fetch_error", "fetch_abort"}
    BY DEF Transport!BodyEnds, Transport!FetchEnds, Transport!Stages
  <2>3. ~Transport!In(s12, Transport!LastStages)
    BY <1>1, <1>4 DEF Transport!In, Transport!LastStages
  <2>4. TransportFits(s12, stage)
    BY <2>2, <2>3 DEF TransportFits
  <2>5. /\ Transport!Tells(s12') /\ s12' \in Seq(Transport!Stages)
        /\ \A S : Transport!In(s12', S) <=> Transport!In(s12, S) \/ stage \in S
    BY <1>1, <2>1, <2>2, <2>4, TransportJoined, TransportContinued
  <2> QED
    BY <1>1, <2>2, <2>5 DEF Transport!OneStory, Transport!BodyStarted
<1> QED
  BY <1>1, <1>3, <1>4

(* The reader's end or error ends the body.                                *)
LEMMA TransportEndStep == Transport!ChunksAssumption /\ Transport!Inv /\ Transport!AfterEnd => Transport!Inv'
<1> SUFFICES ASSUME Transport!ChunksAssumption, Transport!Inv, Transport!AfterEnd PROVE Transport!Inv'
  OBVIOUS
<1>1. /\ (Transport!OwnAgent => Transport!OwnAgent') /\ s12 \in Seq(Transport!Stages) /\ Transport!Tells(s12)
      /\ s10 \in BOOLEAN
      /\ ~Transport!In(s12, {"fetch_error", "fetch_abort"}) /\ Transport!BodyStarted
  BY TransportTypes DEF Transport!AfterEnd, Transport!Inv, Transport!Traced, Transport!Reads
<1>2. /\ Transport!OneStory' /\ s12' \in Seq(Transport!Stages)
      /\ ~Transport!In(s12', {"fetch_error", "fetch_abort"})
  <2>1. CASE s10
    BY <1>1, <2>1, TransportSilent DEF Transport!AfterEnd
  <2>2. CASE ~s10
    <3>1. PICK stage \in Transport!BodyEnds : Transport!Finish(stage, <<>>)
      BY <2>2 DEF Transport!AfterEnd, Transport!BodyEnds
    <3> QED
      BY <3>1, TransportFinishes DEF Transport!AfterEnd
  <2> QED
    BY <2>1, <2>2, <1>1
<1>3. s9' \in {"closed", "errored"} /\ s10' = TRUE /\ s7' \in {s7, Transport!Closed}
      /\ (~s10 => s7' = Transport!Closed)
  BY <1>1 DEF Transport!AfterEnd, Transport!Finish
<1>4. Transport!TypeOK'
  <2>1. UNCHANGED <<s1, s2, s3, s4, s5, s6, s8, s11>>
    BY DEF Transport!AfterEnd
  <2>2. s10' \in BOOLEAN /\ s3' \in BOOLEAN /\ s8' \in BOOLEAN
    BY <1>3, <2>1, TransportTypes
  <2>3. /\ s2' \in {"idle", "fetching", "buffering", "raw", "observed", "thrown"}
        /\ s4' \in {"", "resolved", "rejected"} /\ s6' \in {"none", "open", "ended", "cancelled"}
    BY <2>1 DEF Transport!Inv, Transport!TypeOK
  <2> QED
    BY <1>2, <1>3, <2>1, <2>2, <2>3, TransportKept
<1>5. Transport!OnNetwork'
  BY <1>1, <1>3 DEF Transport!AfterEnd, Transport!Inv, Transport!OnNetwork, Transport!TypeOK,
         Transport!Closed
<1>6. Transport!Body'
  BY <1>1, <1>3 DEF Transport!AfterEnd, Transport!Inv, Transport!Body, Transport!TypeOK
<1>7. Transport!Traced'
  BY <1>1, <1>2, <1>3 DEF Transport!AfterEnd, Transport!Traced, Transport!Reads
<1> QED
  BY <1>2, <1>4, <1>5, <1>6, <1>7 DEF Transport!Inv

(* The [DONE] mark of a stream ends it.                                    *)
LEMMA TransportDoneStep ==
  Transport!ChunksAssumption /\ Transport!Inv /\ Transport!AfterDone => Transport!Inv'
<1> SUFFICES ASSUME Transport!ChunksAssumption, Transport!Inv, Transport!AfterDone PROVE Transport!Inv'
  OBVIOUS
<1>1. /\ (Transport!OwnAgent => Transport!OwnAgent') /\ s10 \in BOOLEAN
  BY TransportTypes DEF Transport!AfterDone
<1>2. /\ Transport!OneStory' /\ s12' \in Seq(Transport!Stages)
      /\ ~Transport!In(s12', {"fetch_error", "fetch_abort"})
  <2>1. PICK stage \in Transport!BodyEnds : Transport!Finish(stage, <<>>)
    BY DEF Transport!AfterDone, Transport!BodyEnds
  <2> QED
    BY <2>1, TransportFinishes DEF Transport!AfterDone
<1>3. s9' \in {"closed", "errored"} /\ s10' = TRUE /\ s7' = Transport!Closed
  BY DEF Transport!AfterDone, Transport!Finish
<1>4. Transport!TypeOK'
  BY <1>1, <1>2, <1>3 DEF Transport!AfterDone, Transport!Inv, Transport!TypeOK, Transport!Closed
<1>5. Transport!OnNetwork'
  BY <1>1, <1>3 DEF Transport!AfterDone, Transport!Inv, Transport!OnNetwork, Transport!TypeOK,
         Transport!Closed
<1>6. Transport!Body'
  BY <1>1, <1>3 DEF Transport!AfterDone, Transport!Inv, Transport!Body, Transport!TypeOK
<1>7. Transport!Traced'
  BY <1>1, <1>2, <1>3 DEF Transport!AfterDone, Transport!Traced, Transport!Reads
<1> QED
  BY <1>2, <1>4, <1>5, <1>6, <1>7 DEF Transport!Inv

(* The SDK gives up the body.                                              *)
LEMMA TransportCancelStep ==
  Transport!ChunksAssumption /\ Transport!Inv /\ Transport!CancelBody => Transport!Inv'
<1> SUFFICES ASSUME Transport!ChunksAssumption, Transport!Inv, Transport!CancelBody PROVE Transport!Inv'
  OBVIOUS
<1>1. /\ (Transport!OwnAgent => Transport!OwnAgent') /\ s12 \in Seq(Transport!Stages) /\ Transport!Tells(s12)
      /\ s10 \in BOOLEAN
      /\ ~Transport!In(s12, {"fetch_error", "fetch_abort"})
      /\ (~s10 => ~Transport!In(s12, Transport!BodyEnds))
  BY TransportTypes DEF Transport!CancelBody, Transport!Inv, Transport!Traced
<1>2. /\ Transport!OneStory' /\ s12' \in Seq(Transport!Stages)
      /\ ~Transport!In(s12', {"fetch_error", "fetch_abort"})
  <2>1. CASE s10
    <3>1. s12' = s12
      BY <1>1, <2>1, ConcatEmptySeq DEF Transport!CancelBody, Transport!Finish, Transport!Emit
    <3> QED
      BY <1>1, <3>1 DEF Transport!OneStory
  <2>2. CASE ~s10 /\ Transport!BodyStarted
    <3>1. Transport!Finish("body_error", <<>>) /\ "body_error" \in Transport!BodyEnds
      BY <2>2 DEF Transport!CancelBody, Transport!StartBody, Transport!BodyEnds
    <3> QED
      BY <3>1, TransportFinishes DEF Transport!CancelBody
  <2>3. CASE ~s10 /\ ~Transport!BodyStarted
    <3> DEFINE one == s12 \o <<"body_start">>
    <3>1. s12' = s12 \o (<<"body_start">> \o <<"body_error">>)
      BY <2>3 DEF Transport!CancelBody, Transport!StartBody, Transport!Finish, Transport!Emit
    <3>2. s12' = one \o <<"body_error">>
      <4>1. <<"body_start">> \in Seq(Transport!Stages) /\ <<"body_error">> \in Seq(Transport!Stages)
        BY TransportKinds
      <4> QED
        BY <1>1, <3>1, <4>1, ConcatAssociative
    <3>3. ~Transport!In(s12, Transport!LastStages) /\ ~Transport!In(s12, {"body_start"})
      BY <1>1, <2>3 DEF Transport!In, Transport!LastStages, Transport!BodyStarted
    <3>4. /\ one \in Seq(Transport!Stages) /\ Transport!Tells(one)
          /\ \A S : Transport!In(one, S) <=> Transport!In(s12, S) \/ "body_start" \in S
      <4>1. TransportFits(s12, "body_start")
        BY <3>3, TransportKinds DEF TransportFits
      <4> QED
        BY <1>1, <4>1, TransportKinds, TransportJoined, TransportContinued
    <3> HIDE DEF one
    <3>5. ~Transport!In(one, Transport!LastStages)
      BY <3>3, <3>4 DEF Transport!LastStages, Transport!BodyEnds
    <3>6. TransportFits(one, "body_error")
      BY <3>5, TransportKinds DEF TransportFits
    <3>7. /\ Transport!Tells(s12') /\ s12' \in Seq(Transport!Stages)
          /\ \A S : Transport!In(s12', S) <=> Transport!In(one, S) \/ "body_error" \in S
      BY <3>2, <3>4, <3>6, TransportKinds, TransportJoined, TransportContinued
    <3> QED
      BY <1>1, <3>4, <3>7 DEF Transport!OneStory
  <2> QED
    BY <1>1, <2>1, <2>2, <2>3
<1>3. /\ s9' = "closed" /\ s10' = TRUE /\ s7' = Transport!Closed
      /\ s6' = IF s6 = "open" THEN "cancelled" ELSE s6
      /\ UNCHANGED <<s1, s2, s3, s4, s5, s8, s11>>
  BY DEF Transport!CancelBody, Transport!Finish
<1>4. Transport!TypeOK'
  BY <1>1, <1>2, <1>3 DEF Transport!Inv, Transport!TypeOK, Transport!Closed
<1>5. Transport!OnNetwork'
  BY <1>1, <1>3 DEF Transport!CancelBody, Transport!Inv, Transport!OnNetwork, Transport!TypeOK,
         Transport!Closed
<1>6. Transport!Body'
  BY <1>1, <1>3 DEF Transport!CancelBody, Transport!Inv, Transport!Body, Transport!TypeOK
<1>7. Transport!Traced'
  BY <1>1, <1>2, <1>3 DEF Transport!CancelBody, Transport!Traced, Transport!Reads
<1> QED
  BY <1>2, <1>4, <1>5, <1>6, <1>7 DEF Transport!Inv

(* The attempt's signal aborts, wherever the exchange is.                  *)
LEMMA TransportAbortStep == Transport!ChunksAssumption /\ Transport!Inv /\ Transport!Abort => Transport!Inv'
<1> SUFFICES ASSUME Transport!ChunksAssumption, Transport!Inv, Transport!Abort PROVE Transport!Inv'
  OBVIOUS
<1>1. /\ (Transport!OwnAgent => Transport!OwnAgent') /\ s12 \in Seq(Transport!Stages) /\ Transport!Tells(s12)
      /\ s10 \in BOOLEAN /\ s8 \in BOOLEAN
      /\ ~s3 /\ s3' = TRUE /\ UNCHANGED <<s1, s2, s5, s9, s11>>
  BY TransportTypes DEF Transport!Abort
<1>2. CASE s2 = "fetching"
  <2>1. s8' = TRUE /\ UNCHANGED <<s4, s6, s7, s10>>
    BY <1>2 DEF Transport!Abort
  <2>2. /\ ~Transport!In(s12, Transport!BodyEnds \cup {"fetch_headers", "fetch_error", "body_start"})
        /\ (~s8 => ~Transport!In(s12, {"fetch_abort"})) /\ s9 = "idle" /\ ~s10
    BY <1>2 DEF Transport!Inv, Transport!Traced, Transport!Body
  <2>3. Transport!OneStory' /\ s12' \in Seq(Transport!Stages)
        /\ ~Transport!In(s12', Transport!BodyEnds \cup {"fetch_headers", "fetch_error", "body_start"})
    <3>1. CASE s8
      <4>1. s12' = s12
        BY <1>1, <1>2, <3>1, ConcatEmptySeq DEF Transport!Abort, Transport!Emit
      <4> QED
        BY <1>1, <2>2, <4>1 DEF Transport!OneStory
    <3>2. CASE ~s8
      <4>1. s12' = s12 \o <<"fetch_abort">>
        BY <1>2, <3>2 DEF Transport!Abort, Transport!Emit
      <4>2. /\ ~Transport!In(s12, Transport!LastStages)
            /\ ~Transport!In(s12, Transport!FetchEnds \cup {"body_start"})
        BY <2>2, <3>2 DEF Transport!In, Transport!LastStages, Transport!FetchEnds
      <4>3. TransportFits(s12, "fetch_abort")
        BY <4>2, TransportKinds DEF TransportFits
      <4>4. /\ Transport!Tells(s12') /\ s12' \in Seq(Transport!Stages)
            /\ \A S : Transport!In(s12', S) <=> Transport!In(s12, S) \/ "fetch_abort" \in S
        BY <1>1, <4>1, <4>3, TransportKinds, TransportJoined, TransportContinued
      <4> QED
        BY <2>2, <4>4 DEF Transport!OneStory, Transport!BodyEnds
    <3> QED
      BY <1>1, <3>1, <3>2
  <2>4. Transport!TypeOK'
    <3>1. s10' \in BOOLEAN /\ s3' \in BOOLEAN /\ s8' \in BOOLEAN
      BY <1>1, <2>1
    <3>2. /\ s2' \in {"idle", "fetching", "buffering", "raw", "observed", "thrown"}
          /\ s4' \in {"", "resolved", "rejected"} /\ s6' \in {"none", "open", "ended", "cancelled"}
          /\ s9' \in Transport!Reads \cup {"idle", "closed", "errored"}
      BY <1>1, <2>1 DEF Transport!Inv, Transport!TypeOK
    <3> QED
      BY <1>1, <2>1, <2>3, <3>1, <3>2, TransportKept
  <2>5. Transport!OnNetwork'
    BY <1>1, <1>2, <2>1 DEF Transport!Inv, Transport!OnNetwork
  <2>6. Transport!Body'
    BY <1>1, <1>2, <2>1 DEF Transport!Inv, Transport!Body
  <2>7. Transport!Traced'
    BY <1>1, <1>2, <2>1, <2>2, <2>3 DEF Transport!Traced, Transport!Reads
  <2> QED
    BY <2>3, <2>4, <2>5, <2>6, <2>7 DEF Transport!Inv
<1>3. CASE s2 = "observed" /\ ~s10
  <2>1. /\ Transport!Finish("body_error", <<>>) /\ UNCHANGED <<s8, s4>>
        /\ s6' = IF s6 = "open" THEN "cancelled" ELSE s6
    BY <1>3 DEF Transport!Abort
  <2>2. "body_error" \in Transport!BodyEnds
    BY DEF Transport!BodyEnds
  <2>3. Transport!OneStory' /\ s12' \in Seq(Transport!Stages) /\
        ~Transport!In(s12', {"fetch_error", "fetch_abort"})
        /\ (Transport!BodyStarted => Transport!BodyStarted')
    BY <1>1, <1>3, <2>1, <2>2, TransportFinishes
  <2>4. s10' = TRUE /\ s7' = Transport!Closed
    BY <2>1 DEF Transport!Finish
  <2>5. Transport!TypeOK'
    <3>1. s10' \in BOOLEAN /\ s3' \in BOOLEAN /\ s8' \in BOOLEAN
      BY <1>1, <2>1, <2>4
    <3>2. /\ s2' \in {"idle", "fetching", "buffering", "raw", "observed", "thrown"}
          /\ s4' \in {"", "resolved", "rejected"} /\ s6' \in {"none", "open", "ended", "cancelled"}
          /\ s9' \in Transport!Reads \cup {"idle", "closed", "errored"}
      BY <1>1, <2>1 DEF Transport!Inv, Transport!TypeOK
    <3> QED
      BY <1>1, <2>1, <2>3, <2>4, <3>1, <3>2, TransportKept
  <2>6. Transport!OnNetwork'
    BY <1>1, <1>3, <2>1, <2>4 DEF Transport!Inv, Transport!OnNetwork, Transport!Closed
  <2>7. Transport!Body'
    BY <1>1, <1>3, <2>1, <2>4 DEF Transport!Inv, Transport!Body
  <2>8. Transport!Traced'
    BY <1>1, <1>3, <2>3, <2>4 DEF Transport!Inv, Transport!Traced
  <2> QED
    BY <2>3, <2>5, <2>6, <2>7, <2>8 DEF Transport!Inv
<1>4. CASE s2 # "fetching" /\ ~(s2 = "observed" /\ ~s10)
  <2>1. /\ s12' = s12 /\ s7' = s7 /\ s8' = s8 /\ s10' = s10
        /\ s4' \in {s4, "rejected"} /\ s6' \in {s6, "cancelled"}
        /\ (s2 # "buffering" => s4' = s4) /\ (s4' # s4 => s6' = "cancelled")
        /\ (s6' # s6 => s2 \in {"buffering", "raw"})
    BY <1>4 DEF Transport!Abort
  <2>2. Transport!Traced' /\ Transport!OneStory'
    BY <1>1, <2>1, TransportSilent
  <2>3. Transport!TypeOK'
    <3>1. s10' \in BOOLEAN /\ s3' \in BOOLEAN /\ s8' \in BOOLEAN
      BY <1>1, <2>1
    <3>2. /\ s2' \in {"idle", "fetching", "buffering", "raw", "observed", "thrown"}
          /\ s4' \in {"", "resolved", "rejected"} /\ s6' \in {"none", "open", "ended", "cancelled"}
          /\ s9' \in Transport!Reads \cup {"idle", "closed", "errored"}
      BY <1>1, <2>1 DEF Transport!Inv, Transport!TypeOK
    <3> QED
      BY <1>1, <2>1, <2>2, <3>1, <3>2, TransportKept
  <2>4. Transport!OnNetwork'
    BY <1>1, <1>4, <2>1 DEF Transport!Inv, Transport!OnNetwork
  <2>5. Transport!Body'
    BY <1>1, <1>4, <2>1 DEF Transport!Inv, Transport!Body
  <2> QED
    BY <2>2, <2>3, <2>4, <2>5 DEF Transport!Inv
<1> QED
  BY <1>2, <1>3, <1>4

(* Nothing changes: the invariant stays.                                   *)
LEMMA TransportStutter == Transport!Inv /\ UNCHANGED Transport!vars => Transport!Inv'
<1> SUFFICES ASSUME Transport!Inv, UNCHANGED Transport!vars PROVE Transport!Inv'
  OBVIOUS
<1>1. (Transport!OwnAgent => Transport!OwnAgent')
  BY TransportTypes DEF Transport!vars
<1>2. Transport!Traced' /\ Transport!OneStory'
  BY TransportSilent DEF Transport!vars
<1>3. s10' \in BOOLEAN /\ s3' \in BOOLEAN /\ s8' \in BOOLEAN
  BY TransportTypes DEF Transport!vars
<1>4. Transport!TypeOK'
  <2>1. /\ UNCHANGED <<s1, s5, s11>> /\ s7' = s7
        /\ s2' \in {"idle", "fetching", "buffering", "raw", "observed", "thrown"}
        /\ s4' \in {"", "resolved", "rejected"} /\ s6' \in {"none", "open", "ended", "cancelled"}
        /\ s9' \in Transport!Reads \cup {"idle", "closed", "errored"} /\ s12' \in Seq(Transport!Stages)
    BY DEF Transport!vars, Transport!Inv, Transport!TypeOK
  <2> QED
    BY <1>3, <2>1, TransportKept
<1>5. Transport!OnNetwork'
  BY <1>3, TransportTypes DEF Transport!vars, Transport!Inv, Transport!OnNetwork
<1>6. Transport!Body'
  BY DEF Transport!vars, Transport!Inv, Transport!Body
<1> QED
  BY <1>2, <1>4, <1>5, <1>6 DEF Transport!Inv

(* Every step keeps the invariant.                                         *)
LEMMA TransportStep ==
  Transport!ChunksAssumption /\ Transport!Inv /\ [Transport!Next]_(Transport!vars) => Transport!Inv'
BY TransportFetchStep, TransportSettlesStep, TransportFailedStep, TransportHeadersStep, TransportBufferStep,
   TransportBufferedStep, TransportPullStep, TransportReaderStep,
   TransportReadStep, TransportEndStep, TransportDoneStep, TransportCancelStep, TransportAbortStep,
   TransportStutter
   DEF Transport!Next

(* The invariant leaves nothing open when the exchange is over.            *)
LEMMA TransportHolds == Transport!Inv => Transport!NothingLeftOpen /\ Transport!OneStory /\ Transport!TypeOK
BY DEF Transport!Inv, Transport!NothingLeftOpen, Transport!Finished, Transport!OnNetwork, Transport!Body

(* After an abort no chunk passes.                                         *)
LEMMA TransportObeys ==
  Transport!ChunksAssumption /\ Transport!Inv /\ [Transport!Next]_(Transport!vars)
    => Transport!NothingAfterAbort
<1> SUFFICES ASSUME Transport!ChunksAssumption, Transport!Inv, [Transport!Next]_(Transport!vars), s3
             PROVE  s11' = s11
  BY DEF Transport!NothingAfterAbort
<1>1. CASE Transport!AfterRead
  <2>1. s10
    BY <1>1 DEF Transport!AfterRead, Transport!Inv, Transport!Body
  <2> QED
    BY <1>1, <2>1 DEF Transport!AfterRead
<1>2. CASE ~Transport!AfterRead
  BY <1>2 DEF Transport!Next, Transport!vars, Transport!Fetch, Transport!FetchSettles,
         Transport!FetchFailed, Transport!Headers, Transport!BufferSettles, Transport!Buffered,
         Transport!PullChunk,
     Transport!ReaderDelivers, Transport!AfterEnd, Transport!AfterDone, Transport!CancelBody, Transport!Abort
<1> QED
  BY <1>1, <1>2

-----------------------------------------------------------------------------
(* A structured call and a query keep their rows by the same reducer.      *)
LEMMA SameReducer ==
  /\ \A p, e : Structured!Reduce(p, e) = Native!Reduce(p, e) /\ Query!Reduce(p, e) = Native!Reduce(p, e)
  /\ Structured!RowPhases = Native!RowPhases /\ Query!RowPhases = Native!RowPhases
  /\ Structured!OrderedPhases = Native!OrderedPhases /\ Query!OrderedPhases = Native!OrderedPhases
<1>1. /\ Structured!OrderedPhases = Native!OrderedPhases /\ Query!OrderedPhases = Native!OrderedPhases
      /\ Structured!TerminalPhases = Native!TerminalPhases /\ Query!TerminalPhases = Native!TerminalPhases
  BY DEF Structured!OrderedPhases, Query!OrderedPhases, Native!OrderedPhases,
         Structured!TerminalPhases, Query!TerminalPhases, Native!TerminalPhases
<1>2. Structured!RowPhases = Native!RowPhases /\ Query!RowPhases = Native!RowPhases
  BY <1>1 DEF Structured!RowPhases, Query!RowPhases, Native!RowPhases
<1>3. \A p : Structured!NextPhase(p) = Native!NextPhase(p) /\ Query!NextPhase(p) = Native!NextPhase(p)
  BY <1>1, <1>2 DEF Structured!NextPhase, Query!NextPhase, Native!NextPhase
<1>4. \A p, e : Structured!Reduce(p, e) = Native!Reduce(p, e) /\ Query!Reduce(p, e) = Native!Reduce(p, e)
  BY <1>1, <1>3 DEF Structured!Reduce, Query!Reduce, Native!Reduce
<1> QED
  BY <1>1, <1>2, <1>4

LEMMA StructuredReductions ==
  /\ Structured!Reduce("none", "preparing") = "preparing" /\ Structured!Reduce("preparing", "sent") = "sent"
  /\ Structured!Reduce("sent", "waiting") = "waiting"
  /\ Structured!Reduce("waiting", "producing") = "producing"
  /\ Structured!Reduce("producing", "validating") = "validating"
  /\ Structured!Reduce("validating", "applying") = "applying"
  /\ Structured!Reduce("applying", "completed") = "completed"
  /\ \A p \in {"preparing", "sent", "waiting", "producing", "validating", "applying"} :
       \A e \in {"retrying", "failed", "cancelled"} : Structured!Reduce(p, e) = e
  /\ Structured!RowPhases = {"preparing", "sent", "waiting", "producing", "validating", "applying"}
                   \cup {"completed", "retrying", "failed", "cancelled"} \cup {"none", "refused"}
BY NativeReductions, SameReducer

(* What the types and the sizes say.                                       *)
LEMMA StructuredTypes ==
  ASSUME Structured!SizesAssumption, Structured!Inv
  PROVE  /\ s14 \in BOOLEAN /\ s15 \in BOOLEAN /\ s17 \in BOOLEAN
         /\ s10 \in Nat /\ s8 \in Nat /\ s9 \in Nat /\ s13 \in Nat
         /\ Repairs \in Nat /\ CallWindow \in Nat /\ CallPrompt \in Nat /\ CallInput \in Nat
         /\ CallRepair \in Nat /\ CallOutput \in Nat /\ Compact \in Nat
         /\ s7 \in 0..2 /\ s4 = Repairs + s7 /\ s3 \in 0..s4
         /\ s5 \in Structured!Modes /\ s6 \in Structured!Modes
         /\ s16 \in Structured!RowPhases /\ s16 # "refused" /\ s18 \subseteq {"retrying", "failed"}
BY DEF Structured!SizesAssumption, Structured!Inv, Structured!TypeOK, Structured!Limits,
       Structured!RowsAccepted, Structured!OneOpenRow

(* A step keeps the types when what it changes has them.                   *)
LEMMA StructuredTyped ==
  ASSUME s2' \in {"attempt", "call", "request", "over_budget", "reply", "returned", "thrown"},
         Repairs \in Nat, s7' \in 0..2, s4' = Repairs + s7', s3' \in 0..s4',
         s5' \in Structured!Modes, s6' \in Structured!Modes, s8' \in Nat, s9' \in Nat, s10' \in Nat,
         s13' \in Nat, s11' \in {"stream", "non-stream"},
         s12' \in Structured!Texts \cup Structured!Failures \cup {"none"},
         s14' \in BOOLEAN, s15' \in BOOLEAN, s17' \in BOOLEAN,
         s16' \in Structured!RowPhases, s18' \subseteq {"retrying", "failed"}
  PROVE  Structured!TypeOK'
<1>1. {s14, s15, s17}' \subseteq BOOLEAN
  OBVIOUS
<1>2. {s8, s9, s10, s13}' \subseteq Nat /\ {s5, s6}' \subseteq Structured!Modes
  OBVIOUS
<1>3. s4' \in Repairs..(Repairs + 2)
  <2> DEFINE e == s7'
             l == s4'
  <2>1. e \in 0..2 /\ l = Repairs + e
    OBVIOUS
  <2> HIDE DEF e, l
  <2>2. l \in Repairs..(Repairs + 2)
    BY <2>1
  <2> QED
    BY <2>2 DEF l
<1>4. s18' \subseteq Structured!RowPhases
  BY StructuredReductions
<1> QED
  BY <1>1, <1>2, <1>3, <1>4 DEF Structured!TypeOK

LEMMA StructuredBegins == Structured!SizesAssumption /\ Structured!Init => Structured!Inv
<1> SUFFICES ASSUME Structured!SizesAssumption, Structured!Init PROVE Structured!Inv
  OBVIOUS
<1>1. /\ Repairs \in Nat /\ CallWindow \in Nat /\ CallPrompt \in Nat /\ CallInput \in Nat
      /\ CallOutput \in Nat
      /\ CallPrompt <= CallInput /\ CallInput + CallOutput <= CallWindow
  BY DEF Structured!SizesAssumption
<1>2. /\ s2 = "attempt" /\ s3 = 0 /\ s4 = Repairs /\ s6 = s5 /\ s7 = 0
      /\ s8 = CallOutput /\ s9 = CallInput /\ s10 = CallPrompt
      /\ s11 = "stream" /\ s12 = "none" /\ s13 = 0 /\ s14 = FALSE
      /\ s15 = FALSE /\ s16 = "none" /\ s17 = FALSE /\ s18 = {}
  BY DEF Structured!Init
<1>3. s5 \in Structured!Modes
  BY DEF Structured!Init, Structured!Modes
<1>4. /\ s16 \in Structured!RowPhases /\ s16 # "refused" /\ s18 \subseteq Structured!RowPhases
      /\ "refused" \notin s18
  BY <1>2, StructuredReductions
<1>5. Structured!TypeOK
  <2>1. {s14, s15, s17} \subseteq BOOLEAN /\ {s5, s6} \subseteq Structured!Modes
    BY <1>2, <1>3
  <2>2. {s8, s9, s10, s13} \subseteq Nat
    BY <1>1, <1>2
  <2>3. s4 \in Repairs..(Repairs + 2) /\ s3 \in 0..s4 /\ s7 \in 0..2
    BY <1>1, <1>2
  <2> QED
    BY <1>2, <1>4, <2>1, <2>2, <2>3 DEF Structured!TypeOK
<1>6. Structured!Limits
  BY <1>1, <1>2 DEF Structured!Limits, Structured!Init
<1>7. Structured!RowOf /\ Structured!RowsAccepted /\ Structured!OneOpenRow
  BY <1>2, <1>4 DEF Structured!RowOf, Structured!RowsAccepted, Structured!OneOpenRow
<1>8. Structured!BasePromptFits
  BY <1>1, <1>2 DEF Structured!BasePromptFits
<1> QED
  BY <1>5, <1>6, <1>7, <1>8 DEF Structured!Inv

(* An open row is closed, a closed one stays.                              *)
LEMMA StructuredCloses ==
  ASSUME NEW phase \in {"retrying", "failed", "cancelled"}, Structured!Close(phase), s17 \in BOOLEAN,
         s17 => s16 \in {"preparing", "waiting", "producing"}
  PROVE  s16' = (IF s17 THEN phase ELSE s16) /\ s17' = FALSE /\ s18' = s18
BY StructuredReductions DEF Structured!Close

(* The call throws.                                                        *)
LEMMA StructuredThrows ==
  ASSUME Structured!SizesAssumption, Structured!Inv, NEW error, Structured!Thrown(error),
         s17 => s16 \in {"preparing", "waiting", "producing"},
         ~s17 => s16 \in {"none"} \cup Structured!TerminalPhases
  PROVE  Structured!Inv'
<1>1. s2' = "thrown" /\ UNCHANGED <<Structured!callVars, s11, Structured!replyVars, s15>>
  BY DEF Structured!Thrown
<1>2. PICK phase \in {"retrying", "failed", "cancelled"} : Structured!Close(phase)
  BY DEF Structured!Thrown
<1>3. s16' = (IF s17 THEN phase ELSE s16) /\ s17' = FALSE /\ s18' = s18
  BY <1>2, StructuredTypes, StructuredCloses
<1>4. s16' \in Structured!TerminalPhases \cup {"none"} /\ s16' \in Structured!RowPhases /\ s16' # "refused"
  BY <1>3, StructuredReductions, StructuredTypes DEF Structured!TerminalPhases
<1>5. Structured!TypeOK'
  BY <1>1, <1>3, <1>4, StructuredTypes, StructuredTyped DEF Structured!callVars, Structured!replyVars,
         Structured!Inv, Structured!TypeOK
<1>6. Structured!Limits' /\ Structured!BasePromptFits'
  BY <1>1 DEF Structured!callVars, Structured!Inv, Structured!Limits, Structured!BasePromptFits
<1>7. Structured!RowOf'
  BY <1>1 DEF Structured!RowOf
<1>8. Structured!RowsAccepted' /\ Structured!OneOpenRow'
  BY <1>1, <1>3, <1>4, StructuredTypes DEF Structured!RowsAccepted, Structured!OneOpenRow
<1> QED
  BY <1>5, <1>6, <1>7, <1>8 DEF Structured!Inv

(* A closed row, and the open one, by the place of the code.               *)
LEMMA StructuredOpenRows ==
  ASSUME Structured!SizesAssumption, Structured!Inv, s2 \in {"attempt", "over_budget", "reply"}
  PROVE  /\ s17 => s16 \in {"preparing", "waiting", "producing"}
         /\ ~s17 => s16 \in {"none"} \cup Structured!TerminalPhases
BY StructuredTypes DEF Structured!Inv, Structured!RowOf, Structured!TerminalPhases

LEMMA StructuredAttemptStep ==
  Structured!SizesAssumption /\ Structured!Inv /\
  (Structured!Attempt \/ Structured!OverBudget \/ Structured!Fails)
    => Structured!Inv'
<1> SUFFICES ASSUME Structured!SizesAssumption, Structured!Inv,
                    Structured!Attempt \/ Structured!OverBudget \/ Structured!Fails
             PROVE  Structured!Inv'
  OBVIOUS
<1>1. CASE \E error : s2 \in {"attempt", "over_budget", "reply"} /\ Structured!Thrown(error)
  BY <1>1, StructuredOpenRows, StructuredThrows
<1>2. CASE Structured!Attempt /\ ~s15
  <2>1. /\ s2 = "attempt" /\ s2' = "call" /\ s6' = s5
        /\ UNCHANGED <<s1, s3, s4, s5, s7, s8, s9, s10, s11,
                       Structured!replyVars, s15, Structured!rowVars>>
    BY <1>2 DEF Structured!Attempt
  <2>2. Structured!TypeOK'
    BY <2>1, StructuredTypes, StructuredTyped DEF Structured!replyVars, Structured!rowVars, Structured!Inv,
           Structured!TypeOK
  <2>3. Structured!Limits' /\ Structured!BasePromptFits'
    BY <2>1 DEF Structured!Inv, Structured!Limits, Structured!BasePromptFits
  <2>4. Structured!RowOf' /\ Structured!RowsAccepted' /\ Structured!OneOpenRow'
    BY <2>1 DEF Structured!rowVars, Structured!Inv, Structured!RowOf, Structured!RowsAccepted,
           Structured!OneOpenRow
  <2> QED
    BY <2>2, <2>3, <2>4 DEF Structured!Inv
<1> QED
  BY <1>1, <1>2 DEF Structured!Attempt, Structured!OverBudget, Structured!Fails

(* The request is made, or refused before it is sent.                      *)
LEMMA StructuredRequestStep ==
  Structured!SizesAssumption /\ Structured!Inv /\ Structured!Request => Structured!Inv'
<1> SUFFICES ASSUME Structured!SizesAssumption, Structured!Inv, Structured!Request PROVE Structured!Inv'
  OBVIOUS
<1>1. /\ s2 = "call" /\ ~s17 /\ s16 \in {"none", "retrying", "failed"}
      /\ s2' \in {"request", "over_budget"} /\ s11' \in {"stream", "non-stream"}
      /\ UNCHANGED <<Structured!callVars, Structured!replyVars, s15>>
  BY DEF Structured!Request, Structured!Inv, Structured!RowOf
<1>2. CASE s1.native
  <2>1. UNCHANGED Structured!rowVars
    BY <1>2 DEF Structured!Request
  <2>2. Structured!TypeOK'
    BY <1>1, <2>1, StructuredTypes, StructuredTyped DEF Structured!callVars, Structured!replyVars,
           Structured!rowVars, Structured!Inv, Structured!TypeOK
  <2>3. Structured!Limits' /\ Structured!BasePromptFits'
    BY <1>1 DEF Structured!callVars, Structured!Inv, Structured!Limits, Structured!BasePromptFits
  <2>4. Structured!RowOf' /\ Structured!RowsAccepted' /\ Structured!OneOpenRow'
    BY <1>1, <1>2, <2>1 DEF Structured!callVars, Structured!rowVars, Structured!Inv, Structured!RowOf,
           Structured!RowsAccepted, Structured!OneOpenRow
  <2> QED
    BY <2>2, <2>3, <2>4 DEF Structured!Inv
<1>3. CASE ~s1.native
  <2>1. s18' = s18 \cup ({s16} \ {"none"}) /\ s17' = TRUE
        /\ s16' = IF s2' = "request" THEN "waiting" ELSE "preparing"
    <3>1. /\ Structured!Reduce("none", "preparing") = "preparing"
          /\ Structured!Reduce(Structured!Reduce("preparing", "sent"), "waiting") = "waiting"
      BY StructuredReductions
    <3> QED
      BY <1>1, <1>3, <3>1 DEF Structured!Request, Structured!Began
  <2>2. s18' \subseteq {"retrying", "failed"}
    BY <1>1, <2>1, StructuredTypes
  <2>3. s16' \in Structured!RowPhases /\ s16' # "refused"
    BY <2>1, StructuredReductions
  <2>4. Structured!TypeOK'
    BY <1>1, <2>1, <2>2, <2>3, StructuredTypes, StructuredTyped DEF Structured!callVars,
           Structured!replyVars, Structured!Inv, Structured!TypeOK
  <2>5. Structured!Limits' /\ Structured!BasePromptFits'
    BY <1>1 DEF Structured!callVars, Structured!Inv, Structured!Limits, Structured!BasePromptFits
  <2>6. Structured!RowOf'
    BY <1>1, <1>3, <2>1 DEF Structured!callVars, Structured!RowOf
  <2>7. Structured!RowsAccepted' /\ Structured!OneOpenRow'
    BY <1>1, <2>2, <2>3 DEF Structured!RowsAccepted, Structured!OneOpenRow
  <2> QED
    BY <2>4, <2>5, <2>6, <2>7 DEF Structured!Inv
<1> QED
  BY <1>2, <1>3

(* The provider answers.                                                   *)
LEMMA StructuredReplyStep ==
  Structured!SizesAssumption /\ Structured!Inv /\ Structured!Reply => Structured!Inv'
<1> SUFFICES ASSUME Structured!SizesAssumption, Structured!Inv, Structured!Reply PROVE Structured!Inv'
  OBVIOUS
<1>1. /\ s2 = "request" /\ s2' = "reply" /\ UNCHANGED <<Structured!callVars, s11, s15>>
      /\ s12' \in Structured!Texts \cup Structured!Failures /\ s14' \in BOOLEAN
      /\ s16 # "refused" /\ s18 \subseteq {"retrying", "failed"}
  BY StructuredTypes DEF Structured!Reply
<1>2. s13' \in Nat
  BY StructuredTypes DEF Structured!Reply, Structured!SizesAssumption
<1>3. PICK shown \in BOOLEAN :
       LET waiting == IF s1.native THEN "waiting" ELSE s16
           seen == IF shown \/ s12' \in {"valid", "invalid"} \/ s14'
                   THEN Structured!Reduce(waiting, "producing") ELSE waiting
       IN IF s1.native
          THEN /\ \E earlier \in {{}, {"retrying"}} : s18' = Structured!Began(s16, s18) \cup earlier
               /\ s17' = (s12' \in Structured!Texts \cup {"truncated"})
               /\ s16' = IF s12' \in Structured!Texts \cup {"truncated"} THEN seen
                         ELSE Structured!Reduce(seen, IF s12' = "abort" THEN "cancelled" ELSE "failed")
          ELSE s16' = seen /\ UNCHANGED <<s17, s18>>
  BY DEF Structured!Reply
<1> DEFINE seen == IF shown \/ s12' \in {"valid", "invalid"} \/ s14' THEN "producing" ELSE "waiting"
<1>4. seen \in {"waiting", "producing"} /\ (s12' = "valid" => seen = "producing")
  OBVIOUS
<1>5. CASE s1.native
  <2>1. ~s17 /\ s16 \in {"none", "retrying", "failed"}
    BY <1>1, <1>5 DEF Structured!Inv, Structured!RowOf
  <2>2. /\ \E earlier \in {{}, {"retrying"}} : s18' = Structured!Began(s16, s18) \cup earlier
        /\ s17' = (s12' \in Structured!Texts \cup {"truncated"})
        /\ s16' = IF s12' \in Structured!Texts \cup {"truncated"} THEN seen
                  ELSE Structured!Reduce(seen, IF s12' = "abort" THEN "cancelled" ELSE "failed")
    BY <1>3, <1>5, StructuredReductions
  <2> HIDE DEF seen
  <2>3. s18' \subseteq {"retrying", "failed"}
    BY <1>1, <2>1, <2>2 DEF Structured!Began
  <2>4. s17' \in BOOLEAN /\ (s17' <=> s12' \in Structured!Texts \cup {"truncated"})
    <3>1. s17' = (s12' \in Structured!Texts \cup {"truncated"})
      BY <2>2
    <3>2. s17' \in BOOLEAN
      BY <3>1
    <3> QED
      BY <3>1, <3>2
  <2>5. /\ s17' => s16' = "producing" \/ (s16' = "waiting" /\ s12' # "valid")
        /\ ~s17' => s16' = IF s12' = "abort" THEN "cancelled" ELSE "failed"
    BY <1>4, <2>2, <2>4, StructuredReductions
  <2>6. s16' \in Structured!RowPhases /\ s16' # "refused"
    BY <2>4, <2>5, StructuredReductions
  <2>7. Structured!TypeOK'
    BY <1>1, <1>2, <2>3, <2>4, <2>6, StructuredTypes, StructuredTyped DEF Structured!callVars,
           Structured!Inv, Structured!TypeOK
  <2>8. Structured!Limits' /\ Structured!BasePromptFits'
    BY <1>1 DEF Structured!callVars, Structured!Inv, Structured!Limits, Structured!BasePromptFits
  <2>9. Structured!RowOf'
    BY <1>1, <1>5, <2>4, <2>5 DEF Structured!callVars, Structured!RowOf, Structured!Texts,
           Structured!Failures
  <2>10. Structured!RowsAccepted' /\ Structured!OneOpenRow'
    BY <1>1, <2>3, <2>6 DEF Structured!RowsAccepted, Structured!OneOpenRow
  <2> QED
    BY <2>7, <2>8, <2>9, <2>10 DEF Structured!Inv
<1>6. CASE ~s1.native
  <2>1. s17 /\ s16 = "waiting"
    BY <1>1, <1>6 DEF Structured!Inv, Structured!RowOf
  <2>2. s16' = seen /\ s17' = s17 /\ s18' = s18
    BY <1>3, <1>6, <2>1, StructuredReductions
  <2> HIDE DEF seen
  <2>3. s16' \in Structured!RowPhases /\ s16' # "refused"
    BY <1>4, <2>2, StructuredReductions
  <2>4. Structured!TypeOK'
    BY <1>1, <1>2, <2>2, <2>3, StructuredTypes, StructuredTyped DEF Structured!callVars, Structured!Inv,
           Structured!TypeOK
  <2>5. Structured!Limits' /\ Structured!BasePromptFits'
    BY <1>1 DEF Structured!callVars, Structured!Inv, Structured!Limits, Structured!BasePromptFits
  <2>6. Structured!RowOf'
    BY <1>1, <1>4, <1>6, <2>1, <2>2 DEF Structured!callVars, Structured!RowOf, Structured!Texts,
           Structured!Failures
  <2>7. Structured!RowsAccepted' /\ Structured!OneOpenRow'
    BY <1>1, <2>2, <2>3 DEF Structured!RowsAccepted, Structured!OneOpenRow
  <2> QED
    BY <2>4, <2>5, <2>6, <2>7 DEF Structured!Inv
<1> QED
  BY <1>5, <1>6

(* The caller aborts.                                                      *)
LEMMA StructuredAbortStep ==
  Structured!SizesAssumption /\ Structured!Inv /\ Structured!Abort => Structured!Inv'
<1> SUFFICES ASSUME Structured!SizesAssumption, Structured!Inv, Structured!Abort PROVE Structured!Inv'
  OBVIOUS
<1>1. s15' = TRUE /\ s2 \notin {"returned", "thrown"} /\ UNCHANGED <<Structured!callVars, s11>>
  BY DEF Structured!Abort
<1>2. Structured!Limits' /\ Structured!BasePromptFits'
  BY <1>1 DEF Structured!callVars, Structured!Inv, Structured!Limits, Structured!BasePromptFits
<1>3. CASE s2 # "request"
  <2>1. UNCHANGED <<s2, Structured!replyVars, Structured!rowVars>>
    BY <1>3 DEF Structured!Abort
  <2>2. Structured!TypeOK'
    BY <1>1, <2>1, StructuredTypes, StructuredTyped DEF Structured!callVars, Structured!replyVars,
           Structured!rowVars, Structured!Inv, Structured!TypeOK
  <2>3. Structured!RowOf' /\ Structured!RowsAccepted' /\ Structured!OneOpenRow'
    BY <1>1, <2>1 DEF Structured!callVars, Structured!replyVars, Structured!rowVars, Structured!Inv,
           Structured!RowOf, Structured!RowsAccepted, Structured!OneOpenRow
  <2> QED
    BY <1>2, <2>2, <2>3 DEF Structured!Inv
<1>4. CASE s2 = "request"
  <2>1. /\ s2' = "reply" /\ s12' = "abort" /\ s13' = 0 /\ s14' = FALSE
        /\ IF s1.native THEN s18' = Structured!Began(s16, s18) /\ s17' = FALSE /\ s16' = "cancelled"
                          ELSE UNCHANGED Structured!rowVars
    BY <1>4 DEF Structured!Abort
  <2>2. /\ s1.native => ~s17 /\ s16 \in {"none", "retrying", "failed"}
        /\ ~s1.native => s17 /\ s16 = "waiting"
    BY <1>4 DEF Structured!Inv, Structured!RowOf
  <2>3. /\ s18' \subseteq {"retrying", "failed"} /\ s17' \in BOOLEAN
        /\ s1.native => ~s17' /\ s16' = "cancelled"
        /\ ~s1.native => s17' /\ s16' = "waiting"
    BY <2>1, <2>2, StructuredTypes DEF Structured!Began, Structured!rowVars
  <2>4. s16' \in Structured!RowPhases /\ s16' # "refused"
    BY <2>3, StructuredReductions
  <2>5. Structured!TypeOK'
    BY <1>1, <2>1, <2>3, <2>4, StructuredTypes, StructuredTyped DEF Structured!callVars, Structured!Inv,
           Structured!TypeOK, Structured!Failures
  <2>6. Structured!RowOf'
    BY <1>1, <2>1, <2>3 DEF Structured!callVars, Structured!RowOf, Structured!Texts
  <2>7. Structured!RowsAccepted' /\ Structured!OneOpenRow'
    BY <2>1, <2>3, <2>4 DEF Structured!RowsAccepted, Structured!OneOpenRow
  <2> QED
    BY <1>2, <2>5, <2>6, <2>7 DEF Structured!Inv
<1> QED
  BY <1>3, <1>4

(* The same request again without streaming, or in a poorer format.        *)
LEMMA StructuredFallbackStep ==
  Structured!SizesAssumption /\ Structured!Inv /\ (Structured!StreamFallback \/ Structured!FormatFallback)
    => Structured!Inv'
<1> SUFFICES ASSUME Structured!SizesAssumption, Structured!Inv,
                    Structured!StreamFallback \/ Structured!FormatFallback
             PROVE  Structured!Inv'
  OBVIOUS
<1>1. /\ s2 = "reply" /\ (s17 => s16 \in {"producing", "waiting"})
      /\ (~s17 => s16 = IF s12 = "abort" THEN "cancelled" ELSE "failed")
      /\ (s1.native => (s17 <=> s12 \in Structured!Texts \cup {"truncated"})) /\ (~s1.native => s17)
  BY DEF Structured!StreamFallback, Structured!FormatFallback, Structured!Inv, Structured!RowOf
<1>2. CASE Structured!StreamFallback
  <2>1. /\ s2' = "request" /\ s11' = "non-stream"
        /\ UNCHANGED <<Structured!callVars, Structured!replyVars, s15>>
        /\ s12 = "refused"
    BY <1>2 DEF Structured!StreamFallback
  <2>2. Structured!Limits' /\ Structured!BasePromptFits'
    BY <2>1 DEF Structured!callVars, Structured!Inv, Structured!Limits, Structured!BasePromptFits
  <2>3. CASE s1.native
    <3>1. UNCHANGED Structured!rowVars /\ ~s17 /\ s16 = "failed"
      BY <1>1, <1>2, <2>1, <2>3 DEF Structured!StreamFallback, Structured!Texts
    <3>2. Structured!TypeOK'
      BY <2>1, <3>1, StructuredTypes, StructuredTyped DEF Structured!callVars, Structured!replyVars,
             Structured!rowVars, Structured!Inv, Structured!TypeOK
    <3>3. Structured!RowOf' /\ Structured!RowsAccepted' /\ Structured!OneOpenRow'
      BY <2>1, <2>3, <3>1, StructuredTypes DEF Structured!callVars, Structured!rowVars, Structured!RowOf,
             Structured!RowsAccepted, Structured!OneOpenRow
    <3> QED
      BY <2>2, <3>2, <3>3 DEF Structured!Inv
  <2>4. CASE ~s1.native
    <3>1. /\ s18' = s18 \cup {"retrying"} /\ s17' = TRUE /\ s16' = "waiting"
      BY <1>1, <1>2, <2>4, StructuredReductions DEF Structured!StreamFallback
    <3>2. s18' \subseteq {"retrying", "failed"} /\ s16' \in Structured!RowPhases /\ s16' # "refused"
      BY <3>1, StructuredTypes, StructuredReductions
    <3>3. Structured!TypeOK'
      BY <2>1, <3>1, <3>2, StructuredTypes, StructuredTyped DEF Structured!callVars, Structured!replyVars,
             Structured!Inv, Structured!TypeOK
    <3>4. Structured!RowOf' /\ Structured!RowsAccepted' /\ Structured!OneOpenRow'
      BY <2>1, <2>4, <3>1, <3>2 DEF Structured!callVars, Structured!RowOf, Structured!RowsAccepted,
             Structured!OneOpenRow
    <3> QED
      BY <2>2, <3>3, <3>4 DEF Structured!Inv
  <2> QED
    BY <2>3, <2>4
<1>3. CASE Structured!FormatFallback
  <2>1. /\ s2' = "call" /\ s6' = Structured!NextMode(s6) /\ Structured!Close("retrying") /\ s12 = "json_mode"
        /\ UNCHANGED <<s1, s3, s4, s5, s7, s8, s9, s10, s11,
                       Structured!replyVars, s15>>
    BY <1>3 DEF Structured!FormatFallback
  <2>2. s16' = (IF s17 THEN "retrying" ELSE s16) /\ s17' = FALSE /\ s18' = s18
    BY <1>1, <2>1, StructuredTypes, StructuredCloses
  <2>3. s16' \in {"retrying", "failed"}
    BY <1>1, <2>1, <2>2
  <2>4. s16' \in Structured!RowPhases /\ s16' # "refused" /\ s6' \in Structured!Modes
    BY <2>1, <2>3, StructuredReductions DEF Structured!NextMode, Structured!Modes
  <2>5. Structured!TypeOK'
    BY <2>1, <2>2, <2>4, StructuredTypes, StructuredTyped DEF Structured!replyVars, Structured!Inv,
           Structured!TypeOK
  <2>6. Structured!Limits' /\ Structured!BasePromptFits'
    BY <2>1 DEF Structured!Inv, Structured!Limits, Structured!BasePromptFits
  <2>7. Structured!RowOf' /\ Structured!RowsAccepted' /\ Structured!OneOpenRow'
    BY <2>1, <2>2, <2>3, <2>4, StructuredTypes DEF Structured!RowOf, Structured!RowsAccepted,
           Structured!OneOpenRow
  <2> QED
    BY <2>5, <2>6, <2>7 DEF Structured!Inv
<1> QED
  BY <1>2, <1>3

(* The limit that is asked for next: not smaller than the one in force, and *)
(* not larger than what the prompt leaves of the window.                   *)
LEMMA StructuredGrowth ==
  ASSUME Structured!SizesAssumption, Structured!Inv, NEW observed \in Nat
  PROVE  /\ Structured!Grown(observed) \in Nat
         /\ s10 = CallPrompt => s10 + Structured!Grown(observed) <= CallWindow
<1>1. s8 \in Nat /\ s10 \in Nat /\ CallWindow \in Nat
  BY StructuredTypes
<1>2. s10 = CallPrompt => s10 + s8 <= CallWindow
  BY DEF Structured!Inv, Structured!BasePromptFits
<1>3. (3 * observed + 1) \div 2 \in Nat
  OBVIOUS
<1>4. /\ Structured!Ceiling \in Nat /\ (Structured!Ceiling = s8 \/ Structured!Ceiling = CallWindow - s10)
      /\ Structured!Ceiling >= s8
  BY <1>1 DEF Structured!Ceiling
<1>5. Structured!Grown(observed) \in Nat /\ Structured!Grown(observed) <= Structured!Ceiling
  BY <1>1, <1>3, <1>4 DEF Structured!Grown
<1> QED
  BY <1>1, <1>2, <1>4, <1>5

(* Another attempt.                                                        *)
LEMMA StructuredRepeats ==
  ASSUME Structured!SizesAssumption, Structured!Inv, s2 = "reply", s12 \in {"truncated", "blank", "invalid"},
         NEW limit \in Nat, NEW next \in Nat, NEW budget \in Nat, Structured!Again(limit, next, budget),
         next = CallPrompt => next + limit <= CallWindow,
         s7' \in 0..2, s4' = Repairs + s7', s3 < s4', s5' \in Structured!Modes
  PROVE  Structured!Inv'
<1>1. /\ s2' = "attempt" /\ s3' = s3 + 1 /\ Structured!Close("retrying")
      /\ s8' = limit /\ s10' = next /\ s9' = budget
      /\ UNCHANGED <<s1, s6, s11, Structured!replyVars, s15>>
  BY DEF Structured!Again
<1>2. s17 /\ s16 \in {"producing", "waiting"}
  BY DEF Structured!Inv, Structured!RowOf, Structured!Texts
<1>3. s16' = "retrying" /\ s17' = FALSE /\ s18' = s18
  BY <1>1, <1>2, StructuredTypes, StructuredCloses
<1>4. s16' \in Structured!RowPhases /\ s16' # "refused"
  BY <1>3, StructuredReductions
<1>5. s3' \in 0..s4'
  <2>1. s3 \in Nat /\ s4' \in Nat
    BY StructuredTypes
  <2> QED
    BY <1>1, <2>1
<1>6. Structured!TypeOK'
  BY <1>1, <1>3, <1>4, <1>5, StructuredTypes, StructuredTyped DEF Structured!replyVars, Structured!Inv,
         Structured!TypeOK
<1>7. Structured!Limits' /\ Structured!BasePromptFits'
  BY <1>1 DEF Structured!Inv, Structured!Limits, Structured!BasePromptFits
<1>8. Structured!RowOf' /\ Structured!RowsAccepted' /\ Structured!OneOpenRow'
  BY <1>1, <1>3, <1>4, StructuredTypes DEF Structured!RowOf, Structured!RowsAccepted, Structured!OneOpenRow
<1> QED
  BY <1>6, <1>7, <1>8 DEF Structured!Inv

(* No attempt is left.                                                     *)
LEMMA StructuredEnds ==
  ASSUME Structured!SizesAssumption, Structured!Inv, s2 = "reply", s12 \in {"blank", "invalid"},
         Structured!Exhausted,
         s7' \in 0..2, s4' = Repairs + s7', s3 \in 0..s4', s5' \in Structured!Modes
  PROVE  Structured!Inv'
<1>1. /\ s2' = "thrown" /\ Structured!Close(s1.exhausted)
      /\ UNCHANGED <<s1, s3, s6, s8, s9, s10, s11, Structured!replyVars, s15>>
  BY DEF Structured!Exhausted
<1>2. s17 /\ s16 \in {"producing", "waiting"} /\ s1.exhausted \in {"failed", "retrying"}
  BY DEF Structured!Inv, Structured!RowOf, Structured!Texts, Structured!Limits
<1>3. s16' = s1.exhausted /\ s17' = FALSE /\ s18' = s18
  BY <1>1, <1>2, StructuredTypes, StructuredCloses
<1>4. s16' \in Structured!RowPhases /\ s16' # "refused" /\ s16' \in Structured!TerminalPhases
  BY <1>2, <1>3, StructuredReductions DEF Structured!TerminalPhases
<1>5. Structured!TypeOK'
  BY <1>1, <1>3, <1>4, StructuredTypes, StructuredTyped DEF Structured!replyVars, Structured!Inv,
         Structured!TypeOK
<1>6. Structured!Limits' /\ Structured!BasePromptFits'
  BY <1>1 DEF Structured!Inv, Structured!Limits, Structured!BasePromptFits
<1>7. Structured!RowOf' /\ Structured!RowsAccepted' /\ Structured!OneOpenRow'
  BY <1>1, <1>3, <1>4, StructuredTypes DEF Structured!RowOf, Structured!RowsAccepted, Structured!OneOpenRow
<1> QED
  BY <1>5, <1>6, <1>7 DEF Structured!Inv

(* The prompts of a repair are larger than the caller's own.               *)
LEMMA StructuredPrompts ==
  ASSUME Structured!SizesAssumption, Structured!Inv
  PROVE  /\ Structured!CompactPrompt \in Nat /\ Structured!CompactPrompt # CallPrompt
         /\ Structured!RepairPrompt \in Nat /\ Structured!RepairPrompt # CallPrompt
         /\ Structured!RepairInput \in Nat
<1>1. CallPrompt \in Nat /\ s13 \in Nat /\ CallRepair \in Nat /\ s9 \in Nat
  BY StructuredTypes
<1>2. /\ Structured!CompactPrompt \in Nat /\ Structured!CompactPrompt # CallPrompt
      /\ Structured!FullPrompt \in Nat /\ Structured!FullPrompt # CallPrompt
  BY <1>1 DEF Structured!CompactPrompt, Structured!FullPrompt
<1>3. Structured!RepairPrompt \in {Structured!CompactPrompt, Structured!FullPrompt}
  BY DEF Structured!RepairPrompt
<1> QED
  BY <1>1, <1>2, <1>3 DEF Structured!RepairInput

LEMMA StructuredRetryStep ==
  Structured!SizesAssumption /\ Structured!Inv /\
  (Structured!Truncated \/ Structured!OutputLimit \/ Structured!EmptyOutput \/ Structured!Repair)
    => Structured!Inv'
<1> SUFFICES ASSUME Structured!SizesAssumption, Structured!Inv,
                    Structured!Truncated \/ Structured!OutputLimit \/ Structured!EmptyOutput \/
                    Structured!Repair
             PROVE  Structured!Inv'
  OBVIOUS
<1>1. /\ s3 \in 0..s4 /\ s4 = Repairs + s7 /\ s7 \in 0..2 /\ Repairs \in Nat
      /\ s5 \in Structured!Modes /\ s6 \in Structured!Modes /\ s8 \in Nat /\ s13 \in Nat /\ s10 \in Nat
      /\ s9 \in Nat
      /\ (s10 = CallPrompt => s10 + s8 <= CallWindow)
  BY StructuredTypes DEF Structured!Inv, Structured!BasePromptFits
<1>2. CASE Structured!Truncated
  <2>1. /\ s2 = "reply" /\ s12 = "truncated" /\ s3 < s4
        /\ Structured!Again(Structured!Grown(s8), s10, Structured!RepairInput)
        /\ UNCHANGED <<s4, s5, s7>>
    BY <1>2 DEF Structured!Truncated
  <2>2. Structured!Grown(s8) \in Nat /\ (s10 = CallPrompt => s10 + Structured!Grown(s8) <= CallWindow)
    BY <1>1, StructuredGrowth
  <2>3. Structured!RepairInput \in Nat
    BY StructuredPrompts
  <2> QED
    BY <1>1, <2>1, <2>2, <2>3, StructuredRepeats
<1>3. CASE Structured!OutputLimit
  <2>1. /\ s2 = "reply" /\ s12 \in {"blank", "invalid"} /\ s5' = s6 /\ UNCHANGED <<s4, s7>>
        /\ IF s3 = s4 THEN Structured!Exhausted
           ELSE Structured!Again(Structured!Grown(s13), Structured!CompactPrompt, Structured!RepairInput)
    BY <1>3 DEF Structured!OutputLimit
  <2>2. CASE s3 = s4
    BY <1>1, <2>1, <2>2, StructuredEnds
  <2>3. CASE s3 # s4
    <3>1. s3 < s4' /\ Structured!Grown(s13) \in Nat
      BY <1>1, <2>1, <2>3, StructuredGrowth
    <3> QED
      BY <1>1, <2>1, <2>3, <3>1, StructuredPrompts, StructuredRepeats
  <2> QED
    BY <2>2, <2>3
<1>4. CASE Structured!EmptyOutput
  <2> DEFINE poorer == s1.json /\ s6 # "none"
             adds == poorer /\ Repairs > 0 /\ s7 < 2
             limit == IF adds THEN s4 + 1 ELSE s4
  <2>1. /\ s2 = "reply" /\ s12 = "blank"
        /\ s5' = IF poorer THEN Structured!NextMode(s6) ELSE s6
        /\ s7' = IF adds THEN s7 + 1 ELSE s7
        /\ s4' = limit
        /\ IF s3 = limit THEN Structured!Exhausted
           ELSE IF poorer THEN Structured!Again(s8, s10, s9)
           ELSE Structured!Again(s8, Structured!RepairPrompt, Structured!RepairInput)
    BY <1>4 DEF Structured!EmptyOutput
  <2>2. s7' \in 0..2 /\ s4' = Repairs + s7' /\ s3 \in 0..limit
    BY <1>1, <2>1
  <2>3. s5' \in Structured!Modes
    BY <1>1, <2>1 DEF Structured!NextMode, Structured!Modes
  <2> HIDE DEF limit, poorer
  <2>4. CASE s3 = limit
    BY <1>1, <2>1, <2>2, <2>3, <2>4, StructuredEnds
  <2>5. CASE s3 # limit /\ poorer
    <3>1. s3 < s4'
      BY <2>1, <2>2, <2>5
    <3> QED
      BY <1>1, <2>1, <2>2, <2>3, <2>5, <3>1, StructuredRepeats
  <2>6. CASE s3 # limit /\ ~poorer
    <3>1. s3 < s4'
      BY <2>1, <2>2, <2>6
    <3> QED
      BY <1>1, <2>1, <2>2, <2>3, <2>6, <3>1, StructuredPrompts, StructuredRepeats
  <2> QED
    BY <2>4, <2>5, <2>6
<1>5. CASE Structured!Repair
  <2>1. /\ s2 = "reply" /\ s12 = "invalid" /\ s5' = s6 /\ UNCHANGED <<s4, s7>>
        /\ IF s3 = s4 THEN Structured!Exhausted
           ELSE Structured!Again(s8, Structured!RepairPrompt, Structured!RepairInput)
    BY <1>5 DEF Structured!Repair
  <2>2. CASE s3 = s4
    BY <1>1, <2>1, <2>2, StructuredEnds
  <2>3. CASE s3 # s4
    <3>1. s3 < s4'
      BY <1>1, <2>1, <2>3
    <3> QED
      BY <1>1, <2>1, <2>3, <3>1, StructuredPrompts, StructuredRepeats
  <2> QED
    BY <2>2, <2>3
<1> QED
  BY <1>2, <1>3, <1>4, <1>5

(* The value is returned, its row in validation.                           *)
LEMMA StructuredReturnStep ==
  Structured!SizesAssumption /\ Structured!Inv /\ Structured!Return => Structured!Inv'
<1> SUFFICES ASSUME Structured!SizesAssumption, Structured!Inv, Structured!Return PROVE Structured!Inv'
  OBVIOUS
<1>1. /\ s2 = "reply" /\ s12 = "valid" /\ ~s15 /\ s2' = "returned" /\ s5' = s6
      /\ s16' = IF s17 THEN Structured!Reduce(s16, "validating") ELSE s16
      /\ UNCHANGED <<s1, s3, s4, s6, s7, s8, s9, s10, s11,
                     Structured!replyVars, s15, s17, s18>>
  BY DEF Structured!Return
<1>2. s17 /\ s16 = "producing"
  BY <1>1 DEF Structured!Inv, Structured!RowOf, Structured!Texts
<1>3. s16' = "validating" /\ s16' \in Structured!RowPhases
  BY <1>1, <1>2, StructuredReductions
<1>4. Structured!TypeOK'
  BY <1>1, <1>3, StructuredTypes, StructuredTyped DEF Structured!replyVars, Structured!Inv,
         Structured!TypeOK
<1>5. Structured!Limits' /\ Structured!BasePromptFits'
  BY <1>1 DEF Structured!Inv, Structured!Limits, Structured!BasePromptFits
<1>6. Structured!RowOf' /\ Structured!RowsAccepted' /\ Structured!OneOpenRow'
  BY <1>1, <1>3, StructuredTypes DEF Structured!RowOf, Structured!RowsAccepted, Structured!OneOpenRow
<1> QED
  BY <1>4, <1>5, <1>6 DEF Structured!Inv

LEMMA StructuredStutter ==
  Structured!SizesAssumption /\ Structured!Inv /\ UNCHANGED Structured!vars => Structured!Inv'
<1> SUFFICES ASSUME Structured!SizesAssumption, Structured!Inv, UNCHANGED Structured!vars
             PROVE  Structured!Inv'
  OBVIOUS
<1>1. UNCHANGED <<Structured!callVars, s2, s11, Structured!replyVars, s15, Structured!rowVars>>
  BY DEF Structured!vars
<1>2. Structured!TypeOK'
  BY <1>1, StructuredTypes, StructuredTyped DEF Structured!callVars, Structured!replyVars,
         Structured!rowVars, Structured!Inv, Structured!TypeOK
<1>3. Structured!Limits' /\ Structured!BasePromptFits'
  BY <1>1 DEF Structured!callVars, Structured!Inv, Structured!Limits, Structured!BasePromptFits
<1>4. Structured!RowOf' /\ Structured!RowsAccepted' /\ Structured!OneOpenRow'
  BY <1>1 DEF Structured!callVars, Structured!replyVars, Structured!rowVars, Structured!Inv,
         Structured!RowOf, Structured!RowsAccepted, Structured!OneOpenRow
<1> QED
  BY <1>2, <1>3, <1>4 DEF Structured!Inv

LEMMA StructuredStep ==
  Structured!SizesAssumption /\ Structured!Inv /\ [Structured!Next]_(Structured!vars) => Structured!Inv'
BY StructuredAttemptStep, StructuredRequestStep, StructuredReplyStep, StructuredAbortStep,
   StructuredFallbackStep, StructuredRetryStep, StructuredReturnStep, StructuredStutter DEF Structured!Next

(* No value is returned after an abort: the step that returns one sees     *)
(* none, and one that has returned stays.                                  *)
LEMMA StructuredObeys ==
  Structured!Inv /\ [Structured!Next]_(Structured!vars) => Structured!AbortPreventsReturn
<1> SUFFICES ASSUME Structured!Inv, [Structured!Next]_(Structured!vars), s2' = "returned" PROVE ~s15
  BY DEF Structured!AbortPreventsReturn
<1>1. CASE Structured!Return
  BY <1>1 DEF Structured!Return
<1>2. CASE s2 = "returned"
  BY <1>2 DEF Structured!Inv, Structured!RowOf
<1>3. CASE ~Structured!Return /\ s2 # "returned"
  BY <1>3 DEF Structured!Next, Structured!vars, Structured!Attempt, Structured!Thrown, Structured!Request,
         Structured!OverBudget, Structured!Reply, Structured!Abort, Structured!StreamFallback,
         Structured!FormatFallback, Structured!Fails,
     Structured!Truncated, Structured!OutputLimit, Structured!EmptyOutput, Structured!Repair,
     Structured!Again,
     Structured!Exhausted
<1> QED
  BY <1>1, <1>2, <1>3

(* The invariant gives the properties of the call.                         *)
LEMMA StructuredHolds ==
  Structured!Inv
    => Structured!TypeOK /\ Structured!RowsAccepted /\ Structured!OneOpenRow /\ Structured!BasePromptFits
BY DEF Structured!Inv

-----------------------------------------------------------------------------
(* What a record is made of.                                               *)
LEMMA ContextRecordParts ==
  ASSUME Context!WindowsAssumption
  PROVE  /\ Context!NoRecord \in Context!Records /\ Context!NoRecord.source = "none"
         /\ Context!NoRecord.samples \in 0..MaxSamples
         /\ Context!NoRecord.window = 0 /\ Context!NoRecord.expired = FALSE
         /\ \A x \in Context!Records : x.samples \in 0..MaxSamples /\ x.expired \in BOOLEAN /\
            x.window \in Nat
         /\ \A x \in Context!Records : x # Context!NoRecord => x.window \in ModelWindows \cup {Default}
         /\ \A x \in Context!Records : x.source # "none" => x # Context!NoRecord
         /\ \A w \in ModelWindows \cup {Default}, n \in 0..MaxSamples :
              \A s \in {"default", "discovered", "learned", "configured"} :
                /\ Context!Record(w, s, n) \in Context!Records /\ Context!Record(w, s, n) # Context!NoRecord
                /\ Context!Record(w, s, n).source = s /\ Context!Record(w, s, n).window = w
                /\ ~Context!Record(w, s, n).expired
<1>1. Context!NoRecord \in Context!Records /\ Context!NoRecord.source = "none" /\
      Context!NoRecord.samples \in 0..MaxSamples
      /\ Context!NoRecord.window = 0 /\ Context!NoRecord.expired = FALSE
  BY DEF Context!NoRecord, Context!Records, Context!WindowsAssumption
<1>2. ASSUME NEW x \in Context!Records
      PROVE  /\ x.samples \in 0..MaxSamples /\ x.expired \in BOOLEAN
             /\ x # Context!NoRecord => x.window \in ModelWindows \cup {Default}
             /\ x.source # "none" => x # Context!NoRecord
  BY <1>1, <1>2 DEF Context!Records
<1>3. ASSUME NEW w \in ModelWindows \cup {Default}, NEW n \in 0..MaxSamples,
             NEW s \in {"default", "discovered", "learned", "configured"}
      PROVE  /\ Context!Record(w, s, n) \in Context!Records /\ Context!Record(w, s, n) # Context!NoRecord
             /\ Context!Record(w, s, n).source = s /\ Context!Record(w, s, n).window = w
             /\ ~Context!Record(w, s, n).expired
  <2>1. /\ Context!Record(w, s, n).source = s /\ Context!Record(w, s, n).window = w
        /\ Context!Record(w, s, n).expired = FALSE
    BY DEF Context!Record
  <2>2. Context!Record(w, s, n) \in Context!Records
    BY DEF Context!Record, Context!Records
  <2> QED
    BY <1>1, <2>1, <2>2
<1>4. ASSUME NEW x \in Context!Records PROVE x.window \in Nat
  <2>1. CASE x = Context!NoRecord
    BY <1>1, <2>1
  <2>2. CASE x # Context!NoRecord
    <3>1. x.window \in ModelWindows \cup {Default}
      BY <1>2, <1>4, <2>2
    <3>2. \A w \in ModelWindows \cup {Default} : w \in Nat
      BY DEF Context!WindowsAssumption
    <3> QED
      BY <3>1, <3>2
  <2> QED
    BY <2>1, <2>2
<1> QED
  BY <1>1, <1>2, <1>3, <1>4

LEMMA ContextBegins == Context!WindowsAssumption /\ Context!Init => Context!Inv
<1> SUFFICES ASSUME Context!WindowsAssumption, Context!Init PROVE Context!Inv
  OBVIOUS
<1>1. Context!NoRecord \in Context!Records /\ ~Context!NoRecord.expired
  BY ContextRecordParts
<1>2. Context!TypeOK
  BY <1>1 DEF Context!Init, Context!TypeOK, Context!NoTask
<1>3. Context!Carried /\ Context!Known
  BY DEF Context!Init, Context!Carried, Context!Known, Context!UnderWay, Context!NoTask
<1> QED
  BY <1>2, <1>3 DEF Context!Inv

(* The decision of resolve: a window that is typed, a record that is fit   *)
(* for use, a probe that is under way or one that begins.                  *)
LEMMA ContextDecided ==
  ASSUME Context!WindowsAssumption, Context!Inv, NEW r \in Runs, NEW map \in [Keys -> Context!Records],
         NEW typed \in ModelWindows \cup {0},
         \A k \in Keys : map[k].expired => map[k].source = "default",
         s6[r] \in {"idle", "reading"}, Context!Decide(r, s7[r], typed, map), UNCHANGED <<s7, s10, s5>>,
         s8' \in [Runs -> ModelWindows \cup {0}], s1' \in BOOLEAN, s2' \in BOOLEAN
  PROVE  /\ Context!Inv'
         /\ \A k \in Keys : s3'[k] = map[k] \/ s3'[k].source = "configured"
<1> DEFINE k == s7[r]
<1>1. k \in Keys
  BY DEF Context!Inv, Context!TypeOK
<1>2. /\ s4 \in [Keys -> [owner : Runs \cup {"none"}, at : {"none", "models", "show", "write"},
         seen : Context!Records]]
      /\ s6 \in [Runs -> {"idle", "reading", "writing", "probing", "joined", "running", "cancelled",
         "failed"}]
      /\ s9 \in [Runs -> Context!Records] /\ "none" \notin Runs /\ 0 \notin ModelWindows
  BY DEF Context!Inv, Context!TypeOK, Context!WindowsAssumption
<1>3. CASE typed # 0
  <2> DEFINE record == Context!Record(typed, "configured", map[k].samples)
  <2>1. record \in Context!Records /\ record # Context!NoRecord /\ record.source = "configured" /\
        record.window = typed
        /\ ~record.expired
    BY <1>1, <1>3, ContextRecordParts
  <2>2. /\ s3' = map \/ s3' = [map EXCEPT ![k] = record]
        /\ s6' = [s6 EXCEPT ![r] = "running"] \/ s6' = [s6 EXCEPT ![r] = "writing"]
        /\ s9' = [s9 EXCEPT ![r] = record] /\ s4' = s4
    BY <1>3 DEF Context!Decide
  <2> HIDE DEF record
  <2>3. /\ s3' \in [Keys -> Context!Records] /\ s9' \in [Runs -> Context!Records]
        /\ s6' \in [Runs -> {"idle", "reading", "writing", "probing", "joined", "running", "cancelled",
           "failed"}]
        /\ \A j \in Keys : s3'[j].expired => s3'[j].source = "default"
        /\ \A j \in Keys : s3'[j] = map[j] \/ s3'[j].source = "configured"
    BY <1>1, <1>2, <2>1, <2>2
  <2>4. Context!TypeOK'
    BY <2>2, <2>3 DEF Context!Inv, Context!TypeOK
  <2>5. Context!Carried'
    BY <1>1, <1>2, <2>2 DEF Context!Inv, Context!Carried, Context!UnderWay
  <2>6. Context!Known'
    BY <1>2, <2>1, <2>2 DEF Context!Inv, Context!Known
  <2> QED
    BY <2>3, <2>4, <2>5, <2>6 DEF Context!Inv
<1>4. CASE typed = 0
  <2>1. /\ s3' = map
        /\ \/ /\ Context!Usable(map[k]) /\ s6' = [s6 EXCEPT ![r] = "running"]
              /\ s9' = [s9 EXCEPT ![r] = map[k]]
              /\ s4' = s4
           \/ ~Context!Usable(map[k]) /\ Context!UnderWay(k) /\ s6' = [s6 EXCEPT ![r] = "joined"] /\
              s9' = s9 /\ s4' = s4
           \/ /\ ~Context!Usable(map[k]) /\ ~Context!UnderWay(k) /\ s6' = [s6 EXCEPT ![r] = "probing"]
              /\ s9' = s9
              /\ s4' = [s4 EXCEPT ![k] = [owner |-> r, at |-> "models", seen |-> map[k]]]
    BY <1>4 DEF Context!Decide, Context!Give
  <2>2. CASE /\ Context!Usable(map[k]) /\ s6' = [s6 EXCEPT ![r] = "running"]
             /\ s9' = [s9 EXCEPT ![r] = map[k]]
             /\ s4' = s4
    <3>1. map[k] \in Context!Records /\ map[k] # Context!NoRecord
      BY <1>1, <2>2, ContextRecordParts DEF Context!Usable
    <3>2. Context!TypeOK'
      BY <1>1, <1>2, <2>1, <2>2, <3>1 DEF Context!Inv, Context!TypeOK
    <3>3. Context!Carried'
      BY <1>1, <1>2, <2>2 DEF Context!Inv, Context!Carried, Context!UnderWay
    <3>4. Context!Known'
      BY <1>2, <2>2, <3>1 DEF Context!Inv, Context!Known
    <3> QED
      BY <2>1, <3>2, <3>3, <3>4 DEF Context!Inv
  <2>3. CASE Context!UnderWay(k) /\ s6' = [s6 EXCEPT ![r] = "joined"] /\ s9' = s9 /\ s4' = s4
    <3>1. Context!TypeOK'
      BY <1>1, <1>2, <2>1, <2>3 DEF Context!Inv, Context!TypeOK
    <3>2. Context!Carried'
      BY <1>1, <1>2, <2>3 DEF Context!Inv, Context!Carried, Context!UnderWay
    <3>3. Context!Known'
      BY <1>2, <2>3 DEF Context!Inv, Context!Known
    <3> QED
      BY <2>1, <3>1, <3>2, <3>3 DEF Context!Inv
  <2>4. CASE /\ ~Context!Usable(map[k]) /\ ~Context!UnderWay(k) /\ s6' = [s6 EXCEPT ![r] = "probing"]
             /\ s9' = s9
             /\ s4' = [s4 EXCEPT ![k] = [owner |-> r, at |-> "models", seen |-> map[k]]]
    <3>1. map[k] \in Context!Records /\ map[k].source # "learned"
      BY <1>1, <2>4 DEF Context!Usable
    <3>2. Context!TypeOK'
      BY <1>1, <1>2, <2>1, <2>4, <3>1 DEF Context!Inv, Context!TypeOK
    <3>3. Context!Carried'
      <4>1. ASSUME NEW j \in Keys
            PROVE  /\ (Context!UnderWay(j) <=> s4[j].at # "none")'
                   /\ (Context!UnderWay(j) => s7[s4[j].owner] = j /\ s6[s4[j].owner] = "probing")'
        <5>1. CASE j = k
          BY <1>1, <1>2, <2>4, <5>1 DEF Context!UnderWay
        <5>2. CASE j # k
          <6>1. s4'[j] = s4[j]
            BY <1>2, <2>4, <5>2
          <6>2. Context!UnderWay(j) => s4[j].owner \in Runs /\ s4[j].owner # r
            BY <1>2 DEF Context!Inv, Context!Carried, Context!UnderWay
          <6> QED
            BY <1>2, <2>4, <6>1, <6>2 DEF Context!Inv, Context!Carried, Context!UnderWay
        <5> QED
          BY <5>1, <5>2
      <4>2. ASSUME NEW q \in Runs
            PROVE  /\ (s6[q] = "probing" => s4[s7[q]].owner = q)'
                   /\ (s6[q] = "joined" => Context!UnderWay(s7[q]))'
        <5>1. CASE q = r
          BY <1>1, <1>2, <2>4, <5>1 DEF Context!UnderWay
        <5>2. CASE q # r
          <6>1. s6'[q] = s6[q] /\ s7[q] \in Keys
            BY <1>2, <2>4, <5>2 DEF Context!Inv, Context!TypeOK
          <6>2. CASE s6[q] \in {"probing", "joined"}
            <7>1. Context!UnderWay(s7[q])
              BY <1>2, <6>1, <6>2 DEF Context!Inv, Context!Carried, Context!UnderWay
            <7>2. s7[q] # k
              BY <2>4, <7>1
            <7> QED
              BY <1>2, <2>4, <6>1, <7>1, <7>2 DEF Context!Inv, Context!Carried, Context!UnderWay
          <6> QED
            BY <6>1, <6>2
        <5> QED
          BY <5>1, <5>2
      <4> QED
        BY <4>1, <4>2 DEF Context!Carried
    <3>4. Context!Known'
      BY <1>1, <1>2, <2>4, <3>1 DEF Context!Inv, Context!Known
    <3> QED
      BY <2>1, <3>2, <3>3, <3>4 DEF Context!Inv
  <2> QED
    BY <2>1, <2>2, <2>3, <2>4
<1> QED
  BY <1>3, <1>4

LEMMA ContextResolveStep ==
  Context!WindowsAssumption /\ Context!Inv /\ (\E r \in Runs : Context!Resolve(r) \/ Context!ReadDone(r))
    => Context!Inv' /\ Context!LearnedHolds
<1> SUFFICES ASSUME Context!WindowsAssumption, Context!Inv, NEW r \in Runs,
                    Context!Resolve(r) \/ Context!ReadDone(r)
             PROVE  Context!Inv' /\ Context!LearnedHolds
  OBVIOUS
<1>1. /\ s5[s7[r]] \in ModelWindows \cup {0} /\ s8[r] \in ModelWindows \cup {0}
      /\ s8 \in [Runs -> ModelWindows \cup {0}] /\ s1 \in BOOLEAN /\ s2 \in BOOLEAN
      /\ s3 \in [Keys -> Context!Records] /\ s7[r] \in Keys
      /\ \A k \in Keys : s3[k].expired => s3[k].source = "default"
  BY DEF Context!Inv, Context!TypeOK
<1> DEFINE none == [k \in Keys |-> Context!NoRecord]
<1>2. none \in [Keys -> Context!Records] /\ \A k \in Keys : none[k] = Context!NoRecord /\ ~none[k].expired
  BY ContextRecordParts
<1>3. CASE s6[r] = "idle" /\ s1 /\ Context!Resolve(r)
  <2>1. /\ Context!Decide(r, s7[r], s5[s7[r]], s3) /\ UNCHANGED <<s7, s10, s5>>
        /\ s8' \in [Runs -> ModelWindows \cup {0}] /\ s1' \in BOOLEAN /\ s2' \in BOOLEAN
    BY <1>1, <1>3 DEF Context!Resolve
  <2>2. Context!Inv' /\ \A k \in Keys : s3'[k] = s3[k] \/ s3'[k].source = "configured"
    BY <1>1, <1>3, <2>1, ContextDecided
  <2>3. ASSUME NEW k \in Keys, s3'[k] = s3[k] PROVE ~(s3'[k].window > s3[k].window)
    <3>1. s3[k].window \in Nat
      BY <1>1, ContextRecordParts
    <3> QED
      BY <2>3, <3>1
  <2> QED
    BY <2>2, <2>3 DEF Context!LearnedHolds
<1>4. CASE s6[r] = "idle" /\ ~s1 /\ Context!Resolve(r)
  <2>1. /\ s6' = [s6 EXCEPT ![r] = "reading"] /\ s8' \in [Runs -> ModelWindows \cup {0}]
        /\ UNCHANGED <<s1, s2, s5, s7, s10, s3, s4, s9>>
    BY <1>1, <1>4 DEF Context!Resolve
  <2>2. Context!TypeOK'
    BY <2>1 DEF Context!Inv, Context!TypeOK
  <2>3. Context!Carried'
    BY <1>4, <2>1 DEF Context!Inv, Context!TypeOK, Context!Carried, Context!UnderWay
  <2>4. Context!Known'
    BY <2>1 DEF Context!Inv, Context!TypeOK, Context!Known
  <2>5. ASSUME NEW k \in Keys PROVE ~(s3'[k].window > s3[k].window)
    <3>1. s3[k].window \in Nat /\ s3' = s3
      BY <1>1, <2>1, ContextRecordParts
    <3> QED
      BY <3>1
  <2> QED
    BY <2>2, <2>3, <2>4, <2>5 DEF Context!Inv, Context!LearnedHolds
<1>5. CASE Context!ReadDone(r)
  <2> DEFINE map == IF s2 THEN s3 ELSE none
  <2>1. /\ Context!Decide(r, s7[r], s8[r], map) /\ UNCHANGED <<s7, s10, s5>> /\ s6[r] = "reading"
        /\ s8' \in [Runs -> ModelWindows \cup {0}] /\ s1' \in BOOLEAN /\ s2' \in BOOLEAN
    BY <1>1, <1>5 DEF Context!ReadDone
  <2>2. map \in [Keys -> Context!Records] /\ \A k \in Keys : map[k].expired => map[k].source = "default"
    BY <1>1, <1>2
  <2>3. \A k \in Keys : map[k] = s3[k] \/ map[k] = Context!NoRecord
    BY <1>2
  <2> HIDE DEF map
  <2>4. Context!Inv' /\ \A k \in Keys : s3'[k] = map[k] \/ s3'[k].source = "configured"
    BY <1>1, <2>1, <2>2, ContextDecided
  <2>5. ASSUME NEW k \in Keys, s3'[k] = map[k] PROVE ~(s3'[k].window > s3[k].window)
    <3>1. s3[k].window \in Nat /\ Context!NoRecord.window = 0
      BY <1>1, ContextRecordParts
    <3> QED
      BY <2>3, <2>5, <3>1
  <2> QED
    BY <2>4, <2>5 DEF Context!LearnedHolds
<1> QED
  BY <1>3, <1>4, <1>5 DEF Context!Resolve

(* A step that leaves the records alone, or makes none wider.              *)
LEMMA ContextNotWider ==
  ASSUME Context!WindowsAssumption, Context!Inv, s3' = s3
  PROVE  Context!LearnedHolds
<1> SUFFICES ASSUME NEW k \in Keys PROVE ~(s3'[k].window > s3[k].window)
  BY DEF Context!LearnedHolds
<1>1. s3[k].window \in Nat
  BY ContextRecordParts DEF Context!Inv, Context!TypeOK
<1> QED
  BY <1>1

LEMMA ContextRunStep ==
  Context!WindowsAssumption /\ Context!Inv /\
  (\E r \in Runs : Context!WriteDone(r) \/ Context!Abort(r) \/ Context!Leave(r))
    => Context!Inv' /\ Context!LearnedHolds
<1> SUFFICES ASSUME Context!WindowsAssumption, Context!Inv, NEW r \in Runs,
                    Context!WriteDone(r) \/ Context!Abort(r) \/ Context!Leave(r)
             PROVE  Context!Inv' /\ Context!LearnedHolds
  OBVIOUS
<1>1. CASE Context!WriteDone(r)
  <2>1. Context!TypeOK'
    BY <1>1 DEF Context!WriteDone, Context!Give, Context!Inv, Context!TypeOK
  <2>2. Context!Carried' /\ Context!Known'
    BY <1>1 DEF Context!WriteDone, Context!Give, Context!Inv, Context!TypeOK, Context!Carried,
           Context!Known, Context!UnderWay
  <2> QED
    BY <1>1, <2>1, <2>2, ContextNotWider DEF Context!Inv, Context!WriteDone
<1>2. CASE Context!Abort(r)
  <2>1. Context!TypeOK'
    BY <1>2 DEF Context!Abort, Context!Inv, Context!TypeOK
  <2>2. Context!Carried' /\ Context!Known'
    BY <1>2 DEF Context!Abort, Context!Inv, Context!TypeOK, Context!Carried, Context!Known, Context!UnderWay
  <2> QED
    BY <1>2, <2>1, <2>2, ContextNotWider DEF Context!Inv, Context!Abort
<1>3. CASE Context!Leave(r)
  <2>1. Context!TypeOK'
    BY <1>3, ContextRecordParts DEF Context!Leave, Context!Inv, Context!TypeOK
  <2>2. Context!Carried'
    BY <1>3 DEF Context!Leave, Context!Inv, Context!TypeOK, Context!Carried, Context!UnderWay
  <2>3. Context!Known'
    BY <1>3 DEF Context!Leave, Context!Inv, Context!TypeOK, Context!Known
  <2> QED
    BY <1>3, <2>1, <2>2, <2>3, ContextNotWider DEF Context!Inv, Context!Leave
<1> QED
  BY <1>1, <1>2, <1>3

(* Only the record of one key changes, and its window becomes no wider.    *)
LEMMA ContextRecordStep ==
  Context!WindowsAssumption /\ Context!Inv /\
  ((\E r \in Runs : Context!ObserveUsage(r) \/ Context!ObserveContextError(r)) \/
  (\E k \in Keys : Context!Expire(k)))
    => Context!Inv' /\ Context!LearnedHolds
<1> SUFFICES ASSUME Context!WindowsAssumption, Context!Inv,
                    (\E r \in Runs : Context!ObserveUsage(r) \/ Context!ObserveContextError(r)) \/
                    (\E k \in Keys : Context!Expire(k))
             PROVE  Context!Inv' /\ Context!LearnedHolds
  OBVIOUS
<1>1. UNCHANGED <<s1, s2, s4, s5, Context!runVars>>
  BY DEF Context!ObserveUsage, Context!ObserveContextError, Context!Expire
<1> DEFINE Changes(k, new) == /\ s3' = [s3 EXCEPT ![k] = new] /\ (new.expired => new.source = "default")
                              /\ ~(new.window > s3[k].window)
<1>2. \E k \in Keys : \E new \in Context!Records : Changes(k, new)
  <2>0. \A j \in Keys : /\ s3[j] \in Context!Records /\ s3[j].window \in Nat /\
                           s3[j].samples \in 0..MaxSamples
                        /\ (s3[j].expired => s3[j].source = "default")
    BY ContextRecordParts DEF Context!Inv, Context!TypeOK
  <2>1. ASSUME NEW r \in Runs, Context!ObserveUsage(r)
        PROVE  \E k \in Keys : \E new \in Context!Records : Changes(k, new)
    <3> DEFINE new == [s3[s7[r]] EXCEPT !.samples = Context!Least(@ + 1, MaxSamples)]
    <3>1. s7[r] \in Keys /\ s3' = [s3 EXCEPT ![s7[r]] = new] /\ s3[s7[r]] # Context!NoRecord
      BY <2>1 DEF Context!ObserveUsage, Context!Inv, Context!TypeOK
    <3>2. Context!Least(s3[s7[r]].samples + 1, MaxSamples) \in 0..MaxSamples
      BY <2>0, <3>1 DEF Context!Least, Context!WindowsAssumption
    <3>3. new \in Context!Records
      BY <2>0, <3>1, <3>2 DEF Context!Records
    <3>4. new.window = s3[s7[r]].window /\ (new.expired => new.source = "default")
      BY <2>0, <3>1, <3>3 DEF Context!Records
    <3>5. ~(new.window > s3[s7[r]].window)
      BY <2>0, <3>1, <3>4
    <3> HIDE DEF new
    <3> QED
      BY <3>1, <3>3, <3>4, <3>5
  <2>2. ASSUME NEW r \in Runs, Context!ObserveContextError(r)
        PROVE  \E k \in Keys : \E new \in Context!Records : Changes(k, new)
    <3>1. PICK reported \in ModelWindows : /\ reported < s3[s7[r]].window
                                      /\ s3' = [s3 EXCEPT ![s7[r]] =
                                                Context!Record(reported, "learned", @.samples)]
      BY <2>2 DEF Context!ObserveContextError
    <3> DEFINE new == Context!Record(reported, "learned", s3[s7[r]].samples)
    <3>2. s7[r] \in Keys /\ s3' = [s3 EXCEPT ![s7[r]] = new]
      BY <3>1 DEF Context!Inv, Context!TypeOK
    <3>3. new \in Context!Records /\ ~new.expired /\ new.window = reported
      BY <2>0, <3>2, ContextRecordParts
    <3>4. ~(reported > s3[s7[r]].window)
      BY <2>0, <3>1, <3>2 DEF Context!WindowsAssumption
    <3> QED
      BY <3>2, <3>3, <3>4
  <2>3. ASSUME NEW k \in Keys, Context!Expire(k) PROVE \E new \in Context!Records : Changes(k, new)
    <3> DEFINE new == [s3[k] EXCEPT !.expired = TRUE]
    <3>1. s3' = [s3 EXCEPT ![k] = new] /\ s3[k].source = "default" /\ s3[k] # Context!NoRecord
      BY <2>3 DEF Context!Expire, Context!NoRecord, Context!Inv, Context!TypeOK
    <3>2. new \in Context!Records /\ new.source = "default" /\ new.window = s3[k].window
      BY <2>0, <3>1 DEF Context!Records
    <3>3. ~(new.window > s3[k].window)
      BY <2>0, <3>2
    <3> HIDE DEF new
    <3> QED
      BY <3>1, <3>2, <3>3
  <2> QED
    BY <2>1, <2>2, <2>3
<1>3. PICK k \in Keys, new \in Context!Records : Changes(k, new)
  BY <1>2
<1>4. Context!TypeOK'
  BY <1>1, <1>3 DEF Context!Inv, Context!TypeOK, Context!runVars
<1>5. Context!Carried' /\ Context!Known'
  BY <1>1 DEF Context!Inv, Context!Carried, Context!Known, Context!UnderWay, Context!runVars
<1>6. Context!LearnedHolds
  <2> SUFFICES ASSUME NEW j \in Keys PROVE ~(s3'[j].window > s3[j].window)
    BY DEF Context!LearnedHolds
  <2>1. s3[j].window \in Nat /\ s3 \in [Keys -> Context!Records]
    BY ContextRecordParts DEF Context!Inv, Context!TypeOK
  <2> QED
    BY <1>3, <2>1
<1> QED
  BY <1>4, <1>5, <1>6 DEF Context!Inv

LEMMA ContextTypeStep ==
  Context!WindowsAssumption /\ Context!Inv /\ (\E k \in Keys : Context!TypeWindow(k))
    => Context!Inv' /\ Context!LearnedHolds
<1> SUFFICES ASSUME Context!WindowsAssumption, Context!Inv, NEW k \in Keys, Context!TypeWindow(k)
             PROVE  Context!Inv' /\ Context!LearnedHolds
  OBVIOUS
<1>1. Context!TypeOK'
  BY DEF Context!TypeWindow, Context!Inv, Context!TypeOK, Context!runVars
<1>2. Context!Carried' /\ Context!Known'
  BY DEF Context!TypeWindow, Context!Inv, Context!Carried, Context!Known, Context!UnderWay, Context!runVars
<1> QED
  BY <1>1, <1>2, ContextNotWider DEF Context!Inv, Context!TypeWindow

(* The listing or the model's page answers, or the probe is rejected.      *)
LEMMA ContextProbeStep ==
  Context!WindowsAssumption /\ Context!Inv /\ (\E k \in Keys : Context!Probe(k))
    => Context!Inv' /\ Context!LearnedHolds
<1> SUFFICES ASSUME Context!WindowsAssumption, Context!Inv, NEW k \in Keys, Context!Probe(k)
             PROVE  Context!Inv' /\ Context!LearnedHolds
  OBVIOUS
<1>1. /\ s4 \in [Keys -> [owner : Runs \cup {"none"}, at : {"none", "models", "show", "write"},
         seen : Context!Records]]
      /\ s6 \in [Runs -> {"idle", "reading", "writing", "probing", "joined", "running", "cancelled",
         "failed"}]
      /\ s3 \in [Keys -> Context!Records] /\ s7 \in [Runs -> Keys] /\ "none" \notin Runs
  BY DEF Context!Inv, Context!TypeOK, Context!WindowsAssumption
<1>2. UNCHANGED <<s1, s2, s5, s7, s8, s9, s10>>
  BY DEF Context!Probe
<1>3. Context!UnderWay(k) /\ s4[k].seen.source # "learned" /\ s4[k].seen.samples \in 0..MaxSamples
  BY <1>1, ContextRecordParts DEF Context!Probe, Context!Inv, Context!Carried, Context!Known
<1>4. CASE s4' = [s4 EXCEPT ![k].at = "show"] /\ UNCHANGED <<s3, s6>>
  <2>1. Context!TypeOK'
    BY <1>1, <1>2, <1>4 DEF Context!Inv, Context!TypeOK
  <2>2. Context!Carried' /\ Context!Known'
    BY <1>1, <1>2, <1>3, <1>4 DEF Context!Inv, Context!Carried, Context!Known, Context!UnderWay
  <2> QED
    BY <1>4, <2>1, <2>2, ContextNotWider DEF Context!Inv
<1>5. CASE Context!Reject(k)
  <2>1. Context!TypeOK'
    <3>1. Context!NoTask \in [owner : Runs \cup {"none"}, at : {"none", "models", "show", "write"},
          seen : Context!Records]
      BY ContextRecordParts DEF Context!NoTask
    <3> QED
      BY <1>1, <1>2, <1>5, <3>1 DEF Context!Reject, Context!Inv, Context!TypeOK
  <2>2. Context!Carried'
    <3>1. /\ s4' = [s4 EXCEPT ![k] = Context!NoTask] /\ Context!NoTask.owner = "none"
          /\ Context!NoTask.at = "none"
          /\ \A r \in Runs : s6'[r] = IF r \in Context!Waiting(k) THEN IF s10[r] THEN "cancelled" ELSE "failed" ELSE s6[r]
      BY <1>5 DEF Context!Reject, Context!NoTask
    <3>2. ASSUME NEW j \in Keys
          PROVE  /\ (Context!UnderWay(j) <=> s4[j].at # "none")'
                 /\ (Context!UnderWay(j) => s7[s4[j].owner] = j /\ s6[s4[j].owner] = "probing")'
      <4>1. CASE j = k
        BY <1>1, <3>1, <4>1 DEF Context!UnderWay
      <4>2. CASE j # k
        <5>1. s4'[j] = s4[j]
          BY <1>1, <3>1, <4>2
        <5>2. Context!UnderWay(j) => s4[j].owner \in Runs /\ s7[s4[j].owner] = j /\
              s4[j].owner \notin Context!Waiting(k)
          BY <1>1, <4>2 DEF Context!Inv, Context!Carried, Context!UnderWay, Context!Waiting
        <5> QED
          BY <1>2, <3>1, <5>1, <5>2 DEF Context!Inv, Context!Carried, Context!UnderWay
      <4> QED
        BY <4>1, <4>2
    <3>3. ASSUME NEW q \in Runs
          PROVE  /\ (s6[q] = "probing" => s4[s7[q]].owner = q)'
                 /\ (s6[q] = "joined" => Context!UnderWay(s7[q]))'
      <4>1. CASE q \in Context!Waiting(k)
        BY <3>1, <4>1
      <4>2. CASE q \notin Context!Waiting(k)
        <5>1. s6'[q] = s6[q] /\ s7[q] \in Keys
          BY <1>1, <3>1, <4>2
        <5>2. s6[q] \in {"probing", "joined"} => s7[q] # k
          BY <4>2 DEF Context!Waiting, Context!Inv, Context!Carried
        <5> QED
          BY <1>1, <1>2, <3>1, <5>1, <5>2 DEF Context!Inv, Context!Carried, Context!UnderWay
      <4> QED
        BY <4>1, <4>2
    <3> QED
      BY <3>2, <3>3 DEF Context!Carried
  <2>3. Context!Known'
    <3>1. s4' = [s4 EXCEPT ![k] = Context!NoTask] /\ Context!NoTask.at = "none"
          /\ \A r \in Runs : s6'[r] \in {"running", "writing"} => s6'[r] = s6[r]
      BY <1>5 DEF Context!Reject, Context!NoTask
    <3> QED
      BY <1>1, <1>2, <3>1 DEF Context!Inv, Context!Known
  <2> QED
    BY <1>5, <2>1, <2>2, <2>3, ContextNotWider DEF Context!Inv, Context!Reject
<1>6. ASSUME NEW record \in Context!Records, Context!Settle(k, record),
             record.source \in {"default", "discovered"}, ~record.expired
      PROVE  Context!Inv' /\ Context!LearnedHolds
  <2>1. /\ s3' = [s3 EXCEPT ![k] = record] /\ s6' = s6
        /\ s4' \in [Keys -> [owner : Runs \cup {"none"}, at : {"none", "models", "show", "write"},
           seen : Context!Records]]
        /\ s4'[k].owner = s4[k].owner /\ s4'[k].at = "write" /\ s4'[k].seen = record
        /\ \A j \in Keys : j # k => s4'[j] = s4[j]
    BY <1>1, <1>6 DEF Context!Settle
  <2>2. Context!TypeOK'
    BY <1>1, <1>2, <1>6, <2>1 DEF Context!Inv, Context!TypeOK
  <2>3. Context!Carried'
    <3>1. \A j \in Keys : s4'[j].owner = s4[j].owner
      BY <2>1
    <3>2. s4[k].at # "none" /\ s4'[k].at # "none" /\ Context!UnderWay(k)
      BY <1>2, <1>3, <2>1 DEF Context!Inv, Context!Carried, Context!UnderWay
    <3>3. \A j \in Keys : (Context!UnderWay(j) <=> Context!UnderWay(j)') /\
          (s4[j].at # "none" <=> s4'[j].at # "none")
      BY <2>1, <3>1, <3>2 DEF Context!UnderWay
    <3>4. Context!Carried /\ s7 \in [Runs -> Keys]
      BY <1>1 DEF Context!Inv
    <3>5. ASSUME NEW j \in Keys
          PROVE  /\ (Context!UnderWay(j) <=> s4[j].at # "none")'
                 /\ (Context!UnderWay(j) => s7[s4[j].owner] = j /\ s6[s4[j].owner] = "probing")'
      <4>1. s7' = s7 /\ s6' = s6
        BY <1>1, <1>2, <2>1
      <4> QED
        BY <3>1, <3>3, <3>4, <4>1 DEF Context!Carried
    <3>6. ASSUME NEW q \in Runs
          PROVE  /\ (s6[q] = "probing" => s4[s7[q]].owner = q)'
                 /\ (s6[q] = "joined" => Context!UnderWay(s7[q]))'
      <4>1. s7' = s7 /\ s6' = s6 /\ s7[q] \in Keys
        BY <1>1, <1>2, <2>1, <3>4
      <4> QED
        BY <3>1, <3>4, <4>1 DEF Context!Carried, Context!UnderWay
    <3> QED
      BY <3>5, <3>6 DEF Context!Carried
  <2>4. Context!Known'
    <3>1. record # Context!NoRecord
      BY <1>6, ContextRecordParts
    <3> QED
      BY <1>1, <1>2, <2>1, <3>1 DEF Context!Inv, Context!Known
  <2>5. Context!LearnedHolds
    <3> SUFFICES ASSUME NEW j \in Keys, s3'[j].window > s3[j].window
                 PROVE  \/ s3'[j].source = "discovered" /\ s4[j].seen.source # "learned"
                        \/ s3'[j].source = "default" /\ s4[j].seen.source # "learned"
      BY DEF Context!LearnedHolds
    <3>1. s3[j].window \in Nat
      BY <1>1, ContextRecordParts
    <3>2. j = k
      BY <1>1, <2>1, <3>1
    <3> QED
      BY <1>1, <1>3, <1>6, <2>1, <3>2
  <2> QED
    BY <2>2, <2>3, <2>4, <2>5 DEF Context!Inv
<1>7. ASSUME NEW window \in ModelWindows \cup {0}, NEW samples \in 0..MaxSamples,
             Context!Settle(k, IF window = 0 THEN Context!Record(Default, "default", samples)
                               ELSE Context!Record(window, "discovered", samples))
      PROVE  Context!Inv' /\ Context!LearnedHolds
  <2> DEFINE record == IF window = 0 THEN Context!Record(Default, "default", samples)
                       ELSE Context!Record(window, "discovered", samples)
  <2>1. record \in Context!Records /\ record.source \in {"default", "discovered"} /\ ~record.expired
    <3>1. CASE window = 0
      <4>1. record = Context!Record(Default, "default", samples)
        BY <3>1
      <4> HIDE DEF record
      <4>2. /\ Default \in ModelWindows \cup {Default}
            /\ "default" \in {"default", "discovered", "learned", "configured"}
        OBVIOUS
      <4>3. /\ Context!Record(Default, "default", samples) \in Context!Records
            /\ ~Context!Record(Default, "default", samples).expired
            /\ Context!Record(Default, "default", samples).source = "default"
        BY <4>2, ContextRecordParts
      <4> QED
        BY <4>1, <4>3
    <3>2. CASE window # 0
      <4>1. record = Context!Record(window, "discovered", samples) /\ window \in ModelWindows
        BY <3>2
      <4> HIDE DEF record
      <4> QED
        BY <4>1, ContextRecordParts
    <3> QED
      BY <3>1, <3>2
  <2> HIDE DEF record
  <2>2. Context!Settle(k, record)
    BY <1>7 DEF record
  <2> QED
    BY <1>6, <2>1, <2>2
<1> QED
  BY <1>3, <1>4, <1>5, <1>7 DEF Context!Probe

(* Every caller of a probe gets its record.                                *)
LEMMA ContextDoneStep ==
  Context!WindowsAssumption /\ Context!Inv /\ (\E k \in Keys : Context!ProbeDone(k))
    => Context!Inv' /\ Context!LearnedHolds
<1> SUFFICES ASSUME Context!WindowsAssumption, Context!Inv, NEW k \in Keys, Context!ProbeDone(k)
             PROVE  Context!Inv' /\ Context!LearnedHolds
  OBVIOUS
<1>1. /\ s4 \in [Keys -> [owner : Runs \cup {"none"}, at : {"none", "models", "show", "write"},
         seen : Context!Records]]
      /\ s6 \in [Runs -> {"idle", "reading", "writing", "probing", "joined", "running", "cancelled",
         "failed"}]
      /\ s9 \in [Runs -> Context!Records] /\ s7 \in [Runs -> Keys] /\ "none" \notin Runs
      /\ s4[k].seen \in Context!Records /\ s4[k].seen # Context!NoRecord
  BY DEF Context!Inv, Context!TypeOK, Context!WindowsAssumption, Context!ProbeDone, Context!Known
<1>2. /\ UNCHANGED <<s1, s2, s3, s5, s7, s8, s10>>
      /\ s4' = [s4 EXCEPT ![k] = Context!NoTask] /\ Context!NoTask.owner = "none"
      /\ Context!NoTask.at = "none"
      /\ \A r \in Runs : s6'[r] = IF r \in Context!Waiting(k) THEN "running" ELSE s6[r]
      /\ \A r \in Runs : s9'[r] = IF r \in Context!Waiting(k) THEN s4[k].seen ELSE s9[r]
  BY DEF Context!ProbeDone, Context!NoTask
<1>3. Context!TypeOK'
  <2>1. Context!NoTask \in [owner : Runs \cup {"none"}, at : {"none", "models", "show", "write"},
        seen : Context!Records]
    BY ContextRecordParts DEF Context!NoTask
  <2>2. s6' \in [Runs -> {"idle", "reading", "writing", "probing", "joined", "running", "cancelled",
        "failed"}]
    BY <1>1 DEF Context!ProbeDone
  <2>3. s9' \in [Runs -> Context!Records]
    BY <1>1 DEF Context!ProbeDone
  <2> QED
    BY <1>1, <1>2, <2>1, <2>2, <2>3 DEF Context!Inv, Context!TypeOK
<1>4. Context!Carried'
  <2>1. ASSUME NEW j \in Keys
        PROVE  /\ (Context!UnderWay(j) <=> s4[j].at # "none")'
               /\ (Context!UnderWay(j) => s7[s4[j].owner] = j /\ s6[s4[j].owner] = "probing")'
    <3>1. CASE j = k
      BY <1>1, <1>2, <3>1 DEF Context!UnderWay
    <3>2. CASE j # k
      <4>1. s4'[j] = s4[j]
        BY <1>1, <1>2, <3>2
      <4>2. Context!UnderWay(j) => s4[j].owner \in Runs /\ s7[s4[j].owner] = j /\
            s4[j].owner \notin Context!Waiting(k)
        BY <1>1, <3>2 DEF Context!Inv, Context!Carried, Context!UnderWay, Context!Waiting
      <4> QED
        BY <1>2, <4>1, <4>2 DEF Context!Inv, Context!Carried, Context!UnderWay
    <3> QED
      BY <3>1, <3>2
  <2>2. ASSUME NEW q \in Runs
        PROVE  /\ (s6[q] = "probing" => s4[s7[q]].owner = q)'
               /\ (s6[q] = "joined" => Context!UnderWay(s7[q]))'
    <3>1. CASE q \in Context!Waiting(k)
      BY <1>2, <3>1
    <3>2. CASE q \notin Context!Waiting(k)
      <4>1. s6'[q] = s6[q] /\ s7[q] \in Keys
        BY <1>1, <1>2, <3>2
      <4>2. s6[q] \in {"probing", "joined"} => s7[q] # k
        BY <3>2 DEF Context!Waiting, Context!Inv, Context!Carried
      <4> QED
        BY <1>1, <1>2, <4>1, <4>2 DEF Context!Inv, Context!Carried, Context!UnderWay
    <3> QED
      BY <3>1, <3>2
  <2> QED
    BY <2>1, <2>2 DEF Context!Carried
<1>5. Context!Known'
  <2>1. \A r \in Runs : s6'[r] \in {"running", "writing"} => s9'[r] # Context!NoRecord
    BY <1>1, <1>2 DEF Context!Inv, Context!Known
  <2> QED
    BY <1>1, <1>2, <2>1 DEF Context!Inv, Context!Known
<1> QED
  BY <1>2, <1>3, <1>4, <1>5, ContextNotWider DEF Context!Inv

LEMMA ContextStutter ==
  Context!WindowsAssumption /\ Context!Inv /\ UNCHANGED Context!vars => Context!Inv' /\ Context!LearnedHolds
<1> SUFFICES ASSUME Context!WindowsAssumption, Context!Inv, UNCHANGED Context!vars
             PROVE  Context!Inv' /\ Context!LearnedHolds
  OBVIOUS
<1>1. Context!TypeOK'
  BY DEF Context!vars, Context!Inv, Context!TypeOK
<1>2. Context!Carried' /\ Context!Known'
  BY DEF Context!vars, Context!Inv, Context!Carried, Context!Known, Context!UnderWay
<1> QED
  BY <1>1, <1>2, ContextNotWider DEF Context!Inv, Context!vars

LEMMA ContextStep ==
  Context!WindowsAssumption /\ Context!Inv /\ [Context!Next]_(Context!vars)
    => Context!Inv' /\ Context!LearnedHolds
BY ContextResolveStep, ContextRunStep, ContextRecordStep, ContextTypeStep, ContextProbeStep,
   ContextDoneStep, ContextStutter DEF Context!Next

(* One caller talks to the server, and a probe in the table has a caller.  *)
LEMMA ContextServed ==
  Context!WindowsAssumption /\ Context!Inv => Context!TypeOK /\ Context!OneProbe /\ Context!ProbeHasCaller
<1> SUFFICES ASSUME Context!WindowsAssumption, Context!Inv PROVE Context!OneProbe /\ Context!ProbeHasCaller
  BY DEF Context!Inv
<1>1. ASSUME NEW k \in Keys PROVE Cardinality({r \in Runs : s7[r] = k /\ s6[r] = "probing"}) <= 1
  <2> DEFINE talking == {r \in Runs : s7[r] = k /\ s6[r] = "probing"}
  <2>1. talking \subseteq {s4[k].owner}
    BY DEF Context!Inv, Context!Carried
  <2>2. IsFiniteSet({s4[k].owner}) /\ Cardinality({s4[k].owner}) = 1
    BY FS_Singleton
  <2> QED
    BY <2>1, <2>2, FS_Subset
<1>2. ASSUME NEW r \in Runs, s6[r] \in {"probing", "joined"} PROVE s4[s7[r]].owner # "none"
  BY <1>2 DEF Context!Inv, Context!Carried, Context!UnderWay, Context!WindowsAssumption
<1>3. ASSUME NEW k \in Keys, s4[k].owner # "none" PROVE Context!Waiting(k) # {}
  <2>1. s4[k].owner \in Runs /\ s7[s4[k].owner] = k /\ s6[s4[k].owner] = "probing"
    BY <1>3 DEF Context!Inv, Context!TypeOK, Context!Carried, Context!UnderWay
  <2> QED
    BY <2>1 DEF Context!Waiting
<1> QED
  BY <1>1, <1>2, <1>3, SameCardinality DEF Context!OneProbe, Context!ProbeHasCaller

(* The budgets of resolveBudget fit the window, whatever it and the caps   *)
(* are.                                                                    *)
LEMMA ContextBudgets ==
  ASSUME NEW window \in Nat, window >= 1024, NEW base \in Nat, base > 0, NEW share \in {2, 4},
         NEW capIn \in Nat, NEW capOut \in Nat
  PROVE  LET output == Context!OutputBudget(window, base, capOut, share)
             input == Context!InputBudget(window, output, capIn)
         IN /\ input >= 1 /\ output >= 1 /\ input + output <= window
            /\ Context!OutputCeiling(window, input) >= output
<1> DEFINE output == Context!OutputBudget(window, base, capOut, share)
           input == Context!InputBudget(window, output, capIn)
<1>1. output \in Nat /\ output >= 1 /\ output <= window \div 2
  BY DEF Context!OutputBudget, Context!Most, Context!Least
<1> HIDE DEF output
<1>2. input \in Nat /\ input >= 1 /\ input <= window - output
  BY <1>1 DEF Context!InputBudget, Context!Most, Context!Least
<1> HIDE DEF input
<1>3. Context!OutputCeiling(window, input) >= output
  BY <1>1, <1>2 DEF Context!OutputCeiling, Context!Most
<1>4. input + output <= window
  BY <1>1, <1>2
<1> QED
  BY <1>1, <1>2, <1>3, <1>4 DEF output, input

LEMMA ContextFits == Context!WindowsAssumption /\ Context!Inv => Context!BudgetFits
<1> SUFFICES ASSUME Context!WindowsAssumption, Context!Inv, NEW r \in Runs, s6[r] = "running",
                    NEW base \in {8192, 32768}, NEW share \in {2, 4}, NEW capIn \in Caps, NEW capOut \in Caps
             PROVE  LET window == s9[r].window
                        output == Context!OutputBudget(window, base, capOut, share)
                        input == Context!InputBudget(window, output, capIn)
                    IN /\ input >= 1 /\ output >= 1 /\ input + output <= window
                       /\ Context!OutputCeiling(window, input) >= output
  BY DEF Context!BudgetFits
<1>1. s9[r].window \in ModelWindows \cup {Default}
  BY ContextRecordParts DEF Context!Inv, Context!TypeOK, Context!Known
<1>2. s9[r].window \in Nat /\ s9[r].window >= 1024
  <2>1. \A w \in ModelWindows \cup {Default} : w \in Nat /\ w \notin 0..1023
    BY DEF Context!WindowsAssumption
  <2> DEFINE w == s9[r].window
  <2>2. w \in Nat /\ w \notin 0..1023
    BY <1>1, <2>1
  <2> HIDE DEF w
  <2>3. w \in Nat /\ w >= 1024
    BY <2>2
  <2> QED
    BY <2>3 DEF w
<1>3. base \in Nat /\ base > 0 /\ capIn \in Nat /\ capOut \in Nat
  BY DEF Context!WindowsAssumption
<1> QED
  BY <1>2, <1>3, ContextBudgets

-----------------------------------------------------------------------------
LEMMA QueryReductions ==
  /\ Query!Reduce("none", "preparing") = "preparing" /\ Query!Reduce("preparing", "sent") = "sent"
  /\ Query!Reduce("sent", "waiting") = "waiting" /\ Query!Reduce("waiting", "producing") = "producing"
  /\ Query!Reduce("producing", "validating") = "validating"
  /\ Query!Reduce("validating", "applying") = "applying"
  /\ Query!Reduce("applying", "completed") = "completed"
  /\ \A p \in {"preparing", "sent", "waiting", "producing", "validating", "applying"} :
       \A e \in {"retrying", "failed", "cancelled"} : Query!Reduce(p, e) = e
  /\ Query!RowPhases = {"preparing", "sent", "waiting", "producing", "validating", "applying"}
                   \cup {"completed", "retrying", "failed", "cancelled"} \cup {"none", "refused"}
BY NativeReductions, SameReducer

(* The open phases; an event is accepted or refused; a row is opened.      *)
LEMMA QueryPhases ==
  /\ \A p : Query!Open(p) <=> p \in {"preparing", "sent", "waiting", "producing", "validating", "applying"}
  /\ \A p, e : Query!Reduce(p, e) \in {e, "refused"}
  /\ Query!Reduce("waiting", "producing") = "producing"
  /\ Query!Opened("none") = "waiting"
  /\ {"none", "waiting", "producing", "refused"} \cup Query!TerminalPhases \subseteq Query!RowPhases
  /\ \A p, e : e \in Query!RowPhases => Query!Reduce(p, e) \in Query!RowPhases
<1>1. \A p : Query!Open(p) <=> p \in {"preparing", "sent", "waiting", "producing", "validating", "applying"}
  <2>1. \A p : Query!Open(p) <=> p \in {Query!OrderedPhases[i] : i \in 1..6}
    BY DEF Query!Open
  <2> QED
    BY <2>1, SameReducer, NativePhasesInOrder
<1>2. \A p, e : Query!Reduce(p, e) \in {e, "refused"}
  BY DEF Query!Reduce
<1>3. {"none", "waiting", "producing", "refused"} \cup Query!TerminalPhases \subseteq Query!RowPhases
  BY QueryReductions DEF Query!TerminalPhases
<1>4. \A p, e : e \in Query!RowPhases => Query!Reduce(p, e) \in Query!RowPhases
  BY <1>2, <1>3
<1>5. Query!Opened("none") = "waiting" /\ Query!Reduce("waiting", "producing") = "producing"
  BY QueryReductions DEF Query!Opened
<1> QED
  BY <1>1, <1>2, <1>3, <1>4, <1>5

(* The current row changes: the others are as they were.                   *)
LEMMA QueryMarks ==
  ASSUME Query!Traced, NEW p \in Query!RowPhases, s12' = [s12 EXCEPT ![s11] = p], s11' = s11
  PROVE  /\ s12' \in [Query!Rows -> Query!RowPhases] /\ s12'[s11'] = p /\ Query!RowsInTurn'
         /\ s11' \in Query!Rows
<1>1. s11 \in Query!Rows /\ s12 \in [Query!Rows -> Query!RowPhases]
  BY DEF Query!Traced, Query!TypeOK
<1>2. /\ s12' \in [Query!Rows -> Query!RowPhases] /\ s12'[s11] = p
      /\ \A r \in Query!Rows : r # s11 => s12'[r] = s12[r]
  BY <1>1
<1>3. ASSUME NEW r \in Query!Rows PROVE (r < s11' => ~Query!Open(s12'[r])) /\ (r > s11' => s12'[r] = "none")
  BY <1>1, <1>2 DEF Query!Traced, Query!RowsInTurn, Query!Rows
<1> QED
  BY <1>1, <1>2, <1>3 DEF Query!RowsInTurn

(* The current row is closed, and the next one is opened.                  *)
LEMMA QueryMoves ==
  ASSUME Query!Traced, NEW p \in Query!RowPhases, ~Query!Open(p), s11 + 1 \in Query!Rows, s11' = s11 + 1,
         s12' = [s12 EXCEPT ![s11] = p, ![s11 + 1] = Query!Opened(@)]
  PROVE  /\ s12' \in [Query!Rows -> Query!RowPhases] /\ s12'[s11'] = "waiting" /\ Query!RowsInTurn'
         /\ s11' \in Query!Rows
<1>1. /\ s11 \in Query!Rows /\ s12 \in [Query!Rows -> Query!RowPhases] /\ s11 + 1 # s11
      /\ \A r \in Query!Rows : (r < s11 => ~Query!Open(s12[r])) /\ (r > s11 => s12[r] = "none")
  BY DEF Query!Traced, Query!TypeOK, Query!RowsInTurn, Query!Rows
<1>2. s12[s11 + 1] = "none" /\ "waiting" \in Query!RowPhases
  <2>1. s11 + 1 > s11
    BY <1>1 DEF Query!Rows
  <2> QED
    BY <1>1, <2>1, QueryPhases
<1>3. s12' = [s12 EXCEPT ![s11] = p, ![s11 + 1] = "waiting"]
  BY <1>1, <1>2, QueryPhases
<1>4. /\ s12' \in [Query!Rows -> Query!RowPhases] /\ s12'[s11 + 1] = "waiting" /\ s12'[s11] = p
      /\ \A r \in Query!Rows : r # s11 /\ r # s11 + 1 => s12'[r] = s12[r]
  BY <1>1, <1>2, <1>3
<1>5. ASSUME NEW r \in Query!Rows PROVE (r < s11' => ~Query!Open(s12'[r])) /\ (r > s11' => s12'[r] = "none")
  BY <1>1, <1>4 DEF Query!Rows
<1> QED
  BY <1>4, <1>5 DEF Query!RowsInTurn

LEMMA QueryRest ==
  ASSUME Query!Traced, s12' = s12, s11' = s11
  PROVE  /\ s12' \in [Query!Rows -> Query!RowPhases] /\ s12'[s11'] = s12[s11] /\ Query!RowsInTurn'
         /\ s11' \in Query!Rows
BY DEF Query!Traced, Query!TypeOK, Query!RowsInTurn

LEMMA QueryTraceBegins == Query!QueryRequestAssumption /\ Query!Init => Query!Traced
<1> SUFFICES ASSUME Query!QueryRequestAssumption, Query!Init PROVE Query!Traced
  OBVIOUS
<1>1. Query!TypeOK
  BY QueryPhases DEF Query!Init, Query!TypeOK, Query!QueryRequestAssumption, Query!Rows, Query!Repacks
<1>2. Query!RowsUsed /\ Query!RowsInTurn /\ Query!RowNow /\ Query!Voice
  BY QueryPhases DEF Query!Init, Query!RowsUsed, Query!RowsInTurn, Query!RowNow, Query!Voice, Query!Rows,
         Query!Repacks
<1> QED
  BY <1>1, <1>2 DEF Query!Traced

LEMMA QueryTraceTrue == Query!Traced => Query!TypeOK /\ Query!RowsClosed /\ Query!OneVoice
<1> SUFFICES ASSUME Query!Traced PROVE Query!TypeOK /\ Query!RowsClosed /\ Query!OneVoice
  OBVIOUS
<1>1. Query!TypeOK
  BY DEF Query!Traced
<1>2. Query!RowsClosed
  <2> SUFFICES ASSUME s1 = "end", NEW r \in Query!Rows PROVE ~Query!Open(s12[r])
    BY DEF Query!RowsClosed
  <2>1. r < s11 \/ r = s11 \/ r > s11
    BY <1>1 DEF Query!TypeOK, Query!Rows
  <2>2. ~Query!Open("none")
    BY QueryPhases
  <2> QED
    BY <2>1, <2>2 DEF Query!Traced, Query!RowsInTurn, Query!RowNow
<1>3. Query!OneVoice
  <2>1. s15 = {} \/ s15 = {Len(s14)}
    BY DEF Query!Traced, Query!Voice
  <2>2. Cardinality(s15) \in {0, 1}
    BY <2>1, FS_EmptySet, FS_Singleton
  <2> QED
    BY <2>1, <2>2, SameCardinality DEF Query!OneVoice
<1> QED
  BY <1>1, <1>2, <1>3

(* The rows and the counters of a run.                                     *)
LEMMA QueryTypes ==
  Query!Traced
    => /\ s11 \in 1..9 /\ s12 \in [Query!Rows -> Query!RowPhases] /\ Query!Rows = 1..9 /\ s6 \in 0..2 /\
          Query!Repacks = 2
         /\ s5 \in Nat \ {0} /\ s17 \in Nat /\ s16 \in Nat /\ s17 <= s16
BY DEF Query!Traced, Query!TypeOK, Query!Rows, Query!Repacks

LEMMA QueryStopStep == Query!Traced /\ Query!Stop => Query!Traced'
<1> SUFFICES ASSUME Query!Traced, Query!Stop PROVE Query!Traced'
  OBVIOUS
<1>1. UNCHANGED <<s1, Query!context, s9, s10, Query!trace, s13, Query!history, Query!refusals>>
  BY DEF Query!Stop
<1>2. /\ s12' \in [Query!Rows -> Query!RowPhases] /\ s12'[s11'] = s12[s11] /\ Query!RowsInTurn'
      /\ s11' \in Query!Rows
  BY <1>1, QueryRest DEF Query!trace
<1>3. Query!TypeOK' /\ Query!RowsUsed'
  BY <1>1, <1>2 DEF Query!context, Query!refusals, Query!trace, Query!Traced, Query!TypeOK, Query!RowsUsed
<1>4. Query!RowNow' /\ Query!Voice'
  BY <1>1, <1>2 DEF Query!context, Query!history, Query!Traced, Query!RowNow, Query!Voice
<1> QED
  BY <1>2, <1>3, <1>4 DEF Query!Traced

LEMMA QueryChunkStep == Query!Traced /\ Query!Chunk => Query!Traced'
<1> SUFFICES ASSUME Query!Traced, Query!Chunk PROVE Query!Traced'
  OBVIOUS
<1>1. /\ s1 = "stream" /\ s10' = TRUE /\ s14' = s14
      /\ UNCHANGED <<s1, Query!context, s9, s11, s13, Query!refusals>>
      /\ s15' \in {s15, s15 \cup {Len(s14)}}
      /\ (s12' = Query!Emit(s11, "producing") /\ s12[s11] = "waiting") \/ s12' = s12
  BY DEF Query!Chunk
<1>2. s12[s11] \in {"waiting", "producing"}
  BY <1>1 DEF Query!Traced, Query!RowNow
<1>3. /\ s12' \in [Query!Rows -> Query!RowPhases] /\ s12'[s11'] \in {"waiting", "producing"}
      /\ Query!RowsInTurn'
      /\ s11' \in Query!Rows
  <2>1. CASE s12' = s12
    BY <1>1, <1>2, <2>1, QueryRest
  <2>2. CASE s12' = [s12 EXCEPT ![s11] = "producing"]
    BY <1>1, <2>2, QueryMarks, QueryPhases
  <2> QED
    BY <1>1, <2>1, <2>2, QueryPhases DEF Query!Emit
<1>4. Query!TypeOK' /\ Query!RowsUsed'
  BY <1>1, <1>3 DEF Query!context, Query!refusals, Query!Traced, Query!TypeOK, Query!RowsUsed
<1>5. Query!RowNow' /\ Query!Voice'
  BY <1>1, <1>3 DEF Query!Traced, Query!RowNow, Query!Voice
<1> QED
  BY <1>3, <1>4, <1>5 DEF Query!Traced

LEMMA QueryStreamEndsStep == Query!Traced /\ Query!StreamEnds => Query!Traced'
<1> SUFFICES ASSUME Query!Traced, Query!StreamEnds PROVE Query!Traced'
  OBVIOUS
<1>1. /\ s1 = "stream" /\ s1' = "answered"
      /\ UNCHANGED <<Query!context, s9, s10, Query!trace, s13, Query!history, Query!refusals>>
  BY DEF Query!StreamEnds
<1>2. s12' \in [Query!Rows -> Query!RowPhases] /\ Query!RowsInTurn' /\ s11' \in Query!Rows
  BY <1>1, QueryRest DEF Query!trace
<1>3. Query!TypeOK'
  BY <1>1, <1>2 DEF Query!context, Query!refusals, Query!Traced, Query!TypeOK
<1>4. Query!RowsUsed'
  BY <1>1, QueryTypes DEF Query!context, Query!trace, Query!Traced, Query!RowsUsed
<1>5. Query!RowNow' /\ Query!Voice'
  BY <1>1 DEF Query!history, Query!Traced, Query!RowNow, Query!Voice
<1> QED
  BY <1>2, <1>3, <1>4, <1>5 DEF Query!Traced

(* A step that closes the row with the run.                                *)
LEMMA QueryCloses ==
  ASSUME Query!Traced, NEW how \in {"cancelled", "failed", "completed"},
         s1' = "end", s12' = Query!Emit(s11, how),
         UNCHANGED <<s11, s6, s5, s14, s15>>,
         s17' \in Nat, s16' \in Nat, s17' <= s16',
         s13' = "answered" => s1 \notin {"build"}
  PROVE  Query!Traced'
<1>1. Query!Reduce(s12[s11], how) \in Query!RowPhases /\ ~Query!Open(Query!Reduce(s12[s11], how))
  <2>1. Query!Reduce(s12[s11], how) \in {how, "refused"}
    BY QueryPhases
  <2> QED
    BY <2>1, QueryPhases DEF Query!TerminalPhases
<1>2. /\ s12' \in [Query!Rows -> Query!RowPhases] /\ ~Query!Open(s12'[s11']) /\ Query!RowsInTurn'
      /\ s11' \in Query!Rows
  BY <1>1, QueryMarks DEF Query!Emit
<1>3. Query!TypeOK'
  BY <1>2 DEF Query!Traced, Query!TypeOK
<1>4. Query!RowsUsed' /\ Query!RowNow' /\ Query!Voice'
  BY <1>2 DEF Query!Traced, Query!RowsUsed, Query!RowNow, Query!Voice
<1> QED
  BY <1>2, <1>3, <1>4 DEF Query!Traced

LEMMA QueryEndStep == Query!Traced /\ (Query!Aborted \/ Query!FailLate \/ Query!Fail) => Query!Traced'
<1> SUFFICES ASSUME Query!Traced, Query!Aborted \/ Query!FailLate \/ Query!Fail PROVE Query!Traced'
  OBVIOUS
<1>1. /\ s1' = "end" /\ UNCHANGED <<s11, s6, s5, s14, s15>> /\ s13' # "answered"
      /\ s17' = s17 /\ s16' \in {s16, s16 + 1}
      /\ s12' = Query!Emit(s11, "cancelled") \/ s12' = Query!Emit(s11, "failed")
  BY DEF Query!Aborted, Query!FailLate, Query!Fail, Query!context, Query!history, Query!refusals
<1>2. s17' \in Nat /\ s16' \in Nat /\ s17' <= s16'
  BY <1>1, QueryTypes
<1> QED
  BY <1>1, <1>2, QueryCloses

(* A request is built: the row of the attempt is opened.                   *)
LEMMA QueryBuildStep == Query!Traced /\ Query!Build => Query!Traced'
<1> SUFFICES ASSUME Query!Traced, Query!Build PROVE Query!Traced'
  OBVIOUS
<1>1. s1 = "build" /\ UNCHANGED <<s5, s6, Query!refusals>>
  BY DEF Query!Build
<1>2. CASE Query!End("failed")
  <2>1. s1' = "end" /\ UNCHANGED <<s11, s14, s15>> /\ (s12' = s12 \/ s12' = Query!Emit(s11, "failed"))
    BY <1>2 DEF Query!End, Query!history
  <2>2. CASE s12' = Query!Emit(s11, "failed")
    BY <1>1, <1>2, <2>1, <2>2, QueryTypes, QueryCloses DEF Query!End, Query!refusals
  <2>3. CASE s12' = s12
    <3>1. /\ s12' \in [Query!Rows -> Query!RowPhases] /\ s12'[s11'] = s12[s11] /\ Query!RowsInTurn'
          /\ s11' \in Query!Rows
      BY <2>1, <2>3, QueryRest
    <3>2. ~Query!Open(s12[s11])
      BY <1>1, QueryPhases DEF Query!Traced, Query!RowNow
    <3>3. Query!TypeOK'
      BY <1>1, <3>1 DEF Query!refusals, Query!Traced, Query!TypeOK
    <3>4. Query!RowsUsed' /\ Query!RowNow' /\ Query!Voice'
      BY <1>1, <2>1, <3>1, <3>2 DEF Query!Traced, Query!RowsUsed, Query!RowNow, Query!Voice
    <3> QED
      BY <3>1, <3>3, <3>4 DEF Query!Traced
  <2> QED
    BY <2>1, <2>2, <2>3
<1>3. CASE ~Query!End("failed")
  <2>1. /\ s1' = "stream" /\ s10' = FALSE /\ s9' = TRUE /\ s15' = s15
        /\ s11' = IF s6 = 0 THEN s11 ELSE s11 + 1
        /\ s12' = [s12 EXCEPT ![s11'] = Query!Opened(@)]
    BY <1>3 DEF Query!Build
  <2>2. s15' = {}
    BY <1>1, <2>1 DEF Query!Traced, Query!Voice
  <2>3. s11 \in Query!Rows /\ s11' \in Query!Rows /\ s11' <= 3 * s6 + 1
    BY <1>1, <2>1, QueryTypes DEF Query!Traced, Query!RowsUsed
  <2>4. /\ s12 \in [Query!Rows -> Query!RowPhases] /\ s12[s11'] = "none"
        /\ \A r \in Query!Rows : (r < s11' => ~Query!Open(s12[r])) /\ (r > s11' => s12[r] = "none")
    <3>1. CASE s6 = 0
      BY <1>1, <2>1, <3>1, QueryTypes DEF Query!Traced, Query!RowNow, Query!RowsInTurn
    <3>2. CASE s6 # 0
      <4>1. s11' = s11 + 1 /\ ~Query!Open(s12[s11])
        BY <1>1, <2>1, <3>2 DEF Query!Traced, Query!RowNow
      <4> QED
        BY <2>3, <4>1, QueryTypes DEF Query!Traced, Query!RowsInTurn
    <3> QED
      BY <3>1, <3>2
  <2>5. s12' = [s12 EXCEPT ![s11'] = "waiting"]
    BY <2>1, <2>3, <2>4, QueryPhases
  <2>6. /\ s12' \in [Query!Rows -> Query!RowPhases] /\ s12'[s11'] = "waiting"
        /\ \A r \in Query!Rows : r # s11' => s12'[r] = s12[r]
    BY <2>3, <2>4, <2>5, QueryPhases
  <2>7. Query!RowsInTurn'
    <3>1. ASSUME NEW r \in Query!Rows
          PROVE  (r < s11' => ~Query!Open(s12'[r])) /\ (r > s11' => s12'[r] = "none")
      BY <2>3, <2>4, <2>6 DEF Query!Rows
    <3> QED
      BY <3>1 DEF Query!RowsInTurn
  <2>8. Query!TypeOK'
    BY <1>1, <2>3, <2>6 DEF Query!refusals, Query!Traced, Query!TypeOK
  <2>9. Query!RowsUsed' /\ Query!RowNow' /\ Query!Voice'
    BY <1>1, <2>1, <2>2, <2>3, <2>6 DEF Query!RowsUsed, Query!RowNow, Query!Voice
  <2> QED
    BY <2>7, <2>8, <2>9 DEF Query!Traced
<1> QED
  BY <1>2, <1>3

(* A request is repeated within its attempt.                               *)
LEMMA QueryRepeatStep == Query!Traced /\ (Query!WithoutUsage \/ Query!FallBack) => Query!Traced'
<1> SUFFICES ASSUME Query!Traced, Query!WithoutUsage \/ Query!FallBack PROVE Query!Traced'
  OBVIOUS
<1>1. /\ s1 = "stream" /\ ~s10 /\ s11' = s11 + 1 /\ s12' = Query!Repeated
      /\ UNCHANGED <<s5, s6, s10, s13, s15, Query!refusals>>
      /\ (s9 /\ s1' = "stream" /\ s9' = FALSE) \/ s1' = "fallback"
  BY DEF Query!WithoutUsage, Query!FallBack, Query!context
<1>2. s11 + 1 \in Query!Rows /\ (s9 => s11 + 1 <= 3 * s6 + 2) /\ s11 + 1 <= 3 * s6 + 3
  BY <1>1, QueryTypes DEF Query!Traced, Query!RowsUsed
<1> DEFINE p == Query!Reduce(Query!Closed(s12[s11]), "retrying")
<1>3. p \in Query!RowPhases /\ ~Query!Open(p)
  <2>1. p \in {"retrying", "refused"}
    BY QueryPhases
  <2> QED
    BY <2>1, QueryPhases DEF Query!TerminalPhases
<1>4. s12' = [s12 EXCEPT ![s11] = p, ![s11 + 1] = Query!Opened(@)]
  BY <1>1 DEF Query!Repeated
<1> HIDE DEF p
<1>5. /\ s12' \in [Query!Rows -> Query!RowPhases] /\ s12'[s11'] = "waiting" /\ Query!RowsInTurn'
      /\ s11' \in Query!Rows
  BY <1>1, <1>2, <1>3, <1>4, QueryMoves
<1>6. s15' = {}
  BY <1>1 DEF Query!Traced, Query!Voice
<1>7. Query!TypeOK'
  BY <1>1, <1>5 DEF Query!refusals, Query!Traced, Query!TypeOK
<1>8. Query!RowsUsed' /\ Query!RowNow' /\ Query!Voice'
  BY <1>1, <1>2, <1>5, <1>6 DEF Query!RowsUsed, Query!RowNow, Query!Voice
<1> QED
  BY <1>5, <1>7, <1>8 DEF Query!Traced

(* The room after a refusal is smaller, and not nothing.                   *)
LEMMA QueryRepackStep ==
  ASSUME Query!Traced, s1 \in {"stream", "fallback"}, s1 = "stream" => ~s10, NEW reported \in BOOLEAN,
         Query!Repack(reported),
         UNCHANGED <<s11, s14, s15>>,
         s17' \in Nat, s16' \in Nat, s17' <= s16'
  PROVE  Query!Traced'
<1>1. s15' = {} /\ s11 \in Query!Rows
  BY QueryTypes DEF Query!Traced, Query!Voice
<1>2. PICK p \in {"failed", "retrying", "refused"} : s12' = [s12 EXCEPT ![s11] = p]
  <2>1. /\ Query!Reduce(s12[s11], "failed") \in {"failed", "refused"}
        /\ Query!Reduce(s12[s11], "retrying") \in {"retrying", "refused"}
        /\ Query!Reduce(Query!Reduce(s12[s11], "retrying"), "failed") \in {"failed", "refused"}
    BY QueryPhases
  <2>2. \/ s12' = [s12 EXCEPT ![s11] = Query!Reduce(s12[s11], "failed")]
        \/ s12' = [s12 EXCEPT ![s11] = Query!Reduce(s12[s11], "retrying")]
        \/ s12' = [s12 EXCEPT ![s11] = Query!Reduce(Query!Reduce(s12[s11], "retrying"), "failed")]
    BY DEF Query!Repack, Query!Emit
  <2> QED
    BY <2>1, <2>2
<1>3. p \in Query!RowPhases /\ ~Query!Open(p)
  BY QueryPhases DEF Query!TerminalPhases
<1>4. s12' \in [Query!Rows -> Query!RowPhases] /\ s12'[s11'] = p /\ Query!RowsInTurn' /\ s11' \in Query!Rows
  BY <1>2, <1>3, QueryMarks
<1>5. /\ s1' \in {"end", "build"} /\ s6' \in 0..2 /\ s5' \in Nat \ {0}
      /\ s1' = "build" => s6' = s6 + 1
  <2>1. CASE UNCHANGED <<s5, s6>> /\ s1' = "end"
    BY <2>1, QueryTypes
  <2>2. CASE s1' = "build" /\ s6' = s6 + 1 /\ s6 # 2
    <3>1. \E next \in {(s5 * 3) \div 4, s5 \div 2} : s5' = IF next < 1 THEN 1 ELSE next
      BY <2>2 DEF Query!Repack
    <3>2. (s5 * 3) \div 4 \in Nat /\ s5 \div 2 \in Nat
      BY QueryTypes
    <3> QED
      BY <2>2, <3>1, <3>2, QueryTypes
  <2> QED
    BY <2>1, <2>2, QueryTypes DEF Query!Repack
<1>6. s11 <= 3 * s6 + 3
  BY QueryTypes DEF Query!Traced, Query!RowsUsed
<1>7. Query!TypeOK'
  BY <1>4, <1>5, QueryTypes DEF Query!TypeOK
<1>8. Query!RowsUsed' /\ Query!RowNow' /\ Query!Voice'
  BY <1>1, <1>3, <1>4, <1>5, <1>6, QueryTypes DEF Query!RowsUsed, Query!RowNow, Query!Voice
<1> QED
  BY <1>4, <1>7, <1>8 DEF Query!Traced

LEMMA QueryRefusedStep == Query!Traced /\ (Query!TooLong \/ Query!NoResponse) => Query!Traced'
<1> SUFFICES ASSUME Query!Traced, Query!TooLong \/ Query!NoResponse PROVE Query!Traced'
  OBVIOUS
<1>1. /\ s1 \in {"stream", "fallback"} /\ (s1 = "stream" => ~s10) /\ UNCHANGED <<s11, s14, s15>>
      /\ \/ s1' = "end" /\ s13' = "failed" /\ s12' = Query!Emit(s11, "failed") /\ UNCHANGED <<s5, s6, s17>>
            /\ s16' \in {s16, s16 + 1}
         \/ Query!Repack(TRUE) /\ s16' = s16 + 1
         \/ Query!Repack(FALSE) /\ s16' = s16
  BY DEF Query!TooLong, Query!NoResponse, Query!history
<1>2. CASE s1' = "end" /\ s13' = "failed" /\ s12' = Query!Emit(s11, "failed") /\ UNCHANGED <<s5, s6, s17>>
           /\ s16' \in {s16, s16 + 1}
  <2>1. s17' \in Nat /\ s16' \in Nat /\ s17' <= s16'
    BY <1>2, QueryTypes
  <2> QED
    BY <1>1, <1>2, <2>1, QueryCloses
<1>3. CASE Query!Repack(TRUE) /\ s16' = s16 + 1
  <2>1. s17' \in Nat /\ s16' \in Nat /\ s17' <= s16'
    BY <1>3, QueryTypes DEF Query!Repack
  <2> QED
    BY <1>1, <1>3, <2>1, QueryRepackStep
<1>4. CASE Query!Repack(FALSE) /\ s16' = s16
  <2>1. s17' \in Nat /\ s16' \in Nat /\ s17' <= s16'
    BY <1>4, QueryTypes DEF Query!Repack
  <2> QED
    BY <1>1, <1>4, <2>1, QueryRepackStep
<1> QED
  BY <1>1, <1>2, <1>3, <1>4

LEMMA QueryRespondsStep == Query!Traced /\ Query!Responds => Query!Traced'
<1> SUFFICES ASSUME Query!Traced, Query!Responds PROVE Query!Traced'
  OBVIOUS
<1>1. /\ s1 = "fallback" /\ s1' = "answered" /\ s14' = s14
      /\ UNCHANGED <<s5, s6, s11, s13, Query!refusals>>
      /\ s15' \in {s15, s15 \cup {Len(s14)}}
      /\ s12' = Query!Emit(s11, "producing") \/ s12' = s12
  BY DEF Query!Responds, Query!context
<1>2. s12[s11] = "waiting"
  BY <1>1 DEF Query!Traced, Query!RowNow
<1>3. s12' \in [Query!Rows -> Query!RowPhases] /\ Query!RowsInTurn' /\ s11' \in Query!Rows
  <2>1. CASE s12' = s12
    BY <1>1, <2>1, QueryRest
  <2>2. CASE s12' = [s12 EXCEPT ![s11] = "producing"]
    BY <1>1, <2>2, QueryMarks, QueryPhases
  <2> QED
    BY <1>1, <1>2, <2>1, <2>2, QueryPhases DEF Query!Emit
<1>4. Query!TypeOK'
  BY <1>1, <1>3 DEF Query!refusals, Query!Traced, Query!TypeOK
<1>5. Query!RowsUsed' /\ Query!RowNow' /\ Query!Voice'
  BY <1>1 DEF Query!Traced, Query!RowsUsed, Query!RowNow, Query!Voice
<1> QED
  BY <1>3, <1>4, <1>5 DEF Query!Traced

LEMMA QueryShowStep == Query!Traced /\ Query!Show => Query!Traced'
<1> SUFFICES ASSUME Query!Traced, Query!Show PROVE Query!Traced'
  OBVIOUS
<1>1. /\ s1 \in {"answered", "validating", "applying"} /\ UNCHANGED <<s11, s6, s5, s14, s15, Query!refusals>>
      /\ \/ s1' = "end" /\ (s12' = Query!Emit(s11, "cancelled") \/ s12' = Query!Emit(s11, "completed"))
         \/ s1' \in {"validating", "applying"} /\ s12' = Query!Emit(s11, s1')
  BY DEF Query!Show, Query!context, Query!history
<1>2. CASE s1' = "end"
  <2>1. s17' \in Nat /\ s16' \in Nat /\ s17' <= s16'
    BY <1>1, QueryTypes DEF Query!refusals
  <2> QED
    BY <1>1, <1>2, <2>1, QueryCloses
<1>3. CASE s1' \in {"validating", "applying"} /\ s12' = Query!Emit(s11, s1')
  <2>1. Query!Reduce(s12[s11], s1') \in Query!RowPhases
    BY <1>3, QueryPhases, QueryReductions
  <2>2. s12' \in [Query!Rows -> Query!RowPhases] /\ Query!RowsInTurn' /\ s11' \in Query!Rows
    BY <1>1, <1>3, <2>1, QueryMarks DEF Query!Emit
  <2>3. Query!TypeOK'
    BY <1>1, <2>2 DEF Query!refusals, Query!Traced, Query!TypeOK
  <2>4. Query!RowsUsed' /\ Query!RowNow' /\ Query!Voice'
    BY <1>1, <1>3 DEF Query!Traced, Query!RowsUsed, Query!RowNow, Query!Voice
  <2> QED
    BY <2>2, <2>3, <2>4 DEF Query!Traced
<1> QED
  BY <1>1, <1>2, <1>3

LEMMA QueryStutter == Query!Traced /\ UNCHANGED Query!vars => Query!Traced'
<1> SUFFICES ASSUME Query!Traced, UNCHANGED Query!vars PROVE Query!Traced'
  OBVIOUS
<1>1. Query!TypeOK' /\ Query!RowsUsed' /\ Query!RowsInTurn'
  BY DEF Query!vars, Query!Traced, Query!TypeOK, Query!RowsUsed, Query!RowsInTurn
<1>2. Query!RowNow' /\ Query!Voice'
  BY DEF Query!vars, Query!Traced, Query!RowNow, Query!Voice
<1> QED
  BY <1>1, <1>2 DEF Query!Traced

LEMMA QueryTraceStep == Query!Traced /\ [Query!Next]_(Query!vars) => Query!Traced'
BY QueryStopStep, QueryChunkStep, QueryStreamEndsStep, QueryEndStep, QueryBuildStep, QueryRepeatStep,
   QueryRefusedStep, QueryRespondsStep, QueryShowStep, QueryStutter
   DEF Query!Next, Query!Progress

(* A set of units that is not empty has a last one.                        *)
LEMMA QueryLastUnit ==
  ASSUME Query!QueryRequestAssumption, NEW units, units \subseteq Query!Units, units # {}
  PROVE  \E u \in units : \A v \in units : v <= u
<1> DEFINE n == Len(Optional)
           T == {n - u : u \in units}
<1>1. n \in Nat /\ units \subseteq 1..n
  BY DEF Query!QueryRequestAssumption, Query!Units
<1> HIDE DEF n
<1>2. T \subseteq Nat /\ T # {}
  <2>1. ASSUME NEW u \in units PROVE n - u \in Nat
    BY <1>1
  <2> QED
    BY <2>1
<1>3. PICK t \in T : \A s \in T : ~(<<s, t>> \in OpToRel(<, Nat))
  BY <1>2, NatLessThanWellFounded, WFMin
<1>4. \A s \in T : ~(s < t)
  BY <1>2, <1>3 DEF OpToRel
<1>5. PICK u \in units : t = n - u
  OBVIOUS
<1>6. ASSUME NEW v \in units PROVE v <= u
  <2>1. n - v \in T /\ n - u = t
    BY <1>5
  <2>2. ~(n - v < n - u)
    BY <1>4, <2>1
  <2>3. n \in Nat /\ v \in Nat /\ u \in Nat
    BY <1>1
  <2> QED
    BY <2>2, <2>3
<1> QED
  BY <1>6

(* What is packed fits, and leaves out the last of what may be packed.     *)
LEMMA QueryPackFits ==
  ASSUME Query!QueryRequestAssumption, NEW units \in SUBSET Query!Units,
         NEW candidates \in SUBSET Query!Units, NEW room \in Nat,
         Required <= room, Query!Packs(units, candidates, room)
  PROVE  Query!Size(units) <= room
<1>1. CASE units = {}
  <2>1. UNION {{u} \X (1..Optional[u]) : u \in units} = {}
    BY <1>1
  <2>2. Cardinality({}) = 0
    BY FS_EmptySet
  <2>3. Query!Size(units) = Required + 0
    BY <2>1, <2>2, SameCardinality DEF Query!Size
  <2>4. Required \in Nat
    BY DEF Query!QueryRequestAssumption
  <2> QED
    BY <2>3, <2>4
<1>2. CASE units # {}
  <2>1. PICK u \in units : \A v \in units : v <= u
    BY <1>2, QueryLastUnit
  <2>2. units \subseteq Nat
    BY DEF Query!Units, Query!QueryRequestAssumption
  <2>3. ASSUME NEW v \in units PROVE v < u \/ v = u
    BY <2>1, <2>2
  <2>4. {v \in units : v < u} \cup {u} = units
    BY <2>3
  <2> QED
    BY <2>1, <2>4 DEF Query!Packs
<1> QED
  BY <1>1, <1>2

LEMMA QueryFrontFewer ==
  ASSUME Query!QueryRequestAssumption, NEW units \in SUBSET Query!Units, units # {}
  PROVE  Query!Front(units) \subseteq units /\ Query!Front(units) # units
<1>1. PICK u \in units : \A v \in units : v <= u
  BY QueryLastUnit
<1>2. units \subseteq Nat
  BY DEF Query!Units, Query!QueryRequestAssumption
<1>3. u \notin Query!Front(units)
  BY <1>1, <1>2 DEF Query!Front
<1> QED
  BY <1>3 DEF Query!Front

(* One more request, with fewer units when it is a new attempt.            *)
LEMMA QueryOneMore ==
  ASSUME Query!Sent, Query!StrictSubset, Query!RequestFits, NEW units \in SUBSET Query!Units,
         Query!Size(units) <= s5, s6 \in 0..Query!Repacks,
         s5 \in Nat \ {0}, s14' = Append(s14, [attempt |-> s6, units |-> units, budget |-> s5]),
         s14 # <<>> /\ s6 > s14[Len(s14)].attempt =>
           units \subseteq s14[Len(s14)].units /\ units # s14[Len(s14)].units
  PROVE  /\ Query!StrictSubset' /\ Query!RequestFits'
         /\ s14' \in Seq([attempt : 0..Query!Repacks, units : SUBSET Query!Units, budget : Nat \ {0}])
         /\ s14' # <<>> /\ s14'[Len(s14')].units = units
         /\ s14'[Len(s14')].attempt = s6
<1> DEFINE one == [attempt |-> s6, units |-> units, budget |-> s5]
           All == [attempt : 0..Query!Repacks, units : SUBSET Query!Units, budget : Nat \ {0}]
           n == Len(s14)
<1>1. one \in All /\ s14 \in Seq(All) /\ n \in Nat /\ (s14 = <<>> <=> n = 0)
  BY DEF Query!Sent
<1>2. /\ s14' \in Seq(All) /\ Len(s14') = n + 1 /\ DOMAIN s14 = 1..n
      /\ DOMAIN s14' = 1..(n + 1) /\ s14'[n + 1] = one
      /\ \A i \in 1..n : s14'[i] = s14[i]
  BY <1>1
<1> HIDE DEF n
<1>3. Query!StrictSubset'
  <2> SUFFICES ASSUME NEW i \in 1..n, s14'[i + 1].attempt > s14'[i].attempt
               PROVE  s14'[i + 1].units \subseteq s14'[i].units /\ s14'[i + 1].units # s14'[i].units
    <3>1. Len(s14') - 1 = n
      BY <1>1, <1>2
    <3> QED
      BY <3>1 DEF Query!StrictSubset
  <2>1. CASE i = n
    BY <1>1, <1>2, <2>1 DEF n
  <2>2. CASE i # n
    <3>1. i \in 1..(n - 1) /\ i + 1 \in 1..n
      BY <1>1, <2>2
    <3> QED
      BY <1>2, <3>1 DEF Query!StrictSubset, n
  <2> QED
    BY <2>1, <2>2
<1>4. Query!RequestFits'
  <2> SUFFICES ASSUME NEW i \in 1..(n + 1) PROVE Query!Size(s14'[i].units) <= s14'[i].budget
    BY <1>2 DEF Query!RequestFits, Query!Size
  <2>1. CASE i = n + 1
    BY <1>2, <2>1
  <2>2. CASE i # n + 1
    <3>1. i \in 1..n
      BY <1>1, <2>2
    <3> QED
      BY <1>2, <3>1 DEF Query!RequestFits
  <2> QED
    BY <2>1, <2>2
<1> QED
  BY <1>1, <1>2, <1>3, <1>4

(* Every step keeps what was sent within its room and with less each time. *)
LEMMA QuerySentStep ==
  Query!QueryRequestAssumption /\ Query!Inv /\ [Query!Next]_(Query!vars) => Query!Sent' /\
  Query!StrictSubset' /\ Query!RequestFits'
<1> SUFFICES ASSUME Query!QueryRequestAssumption, Query!Inv, [Query!Next]_(Query!vars)
             PROVE  Query!Sent' /\ Query!StrictSubset' /\ Query!RequestFits'
  OBVIOUS
<1>1. /\ s6 \in 0..Query!Repacks /\ s5 \in Nat \ {0} /\ Query!Repacks = 2 /\ Query!Sent /\ Query!StrictSubset
      /\ Query!RequestFits
  BY DEF Query!Inv, Query!Traced, Query!TypeOK, Query!Repacks
<1>2. CASE Query!Build
  <2>1. CASE Required > s5
    BY <1>1, <1>2, <2>1 DEF Query!Build, Query!End, Query!fixed, Query!refusals, Query!history, Query!Sent,
       Query!StrictSubset, Query!RequestFits
  <2>2. CASE ~(Required > s5)
    <3> DEFINE candidates == IF s6 = 0 THEN s7 ELSE Query!Front(s7)
    <3>1. PICK units \in SUBSET Query!Units :
            /\ Query!Packs(units, candidates, s5) /\ s8' = units /\ s7' = units
            /\ s14' = Append(s14, [attempt |-> s6, units |-> units, budget |-> s5])
      BY <1>2, <2>2 DEF Query!Build
    <3>2. s1 = "build" /\ s1' = "stream" /\ s5' = s5 /\ s6' = s6
      BY <1>2, <2>2 DEF Query!Build
    <3>3. candidates \in SUBSET Query!Units
      BY <1>1 DEF Query!Sent, Query!Front
    <3>4. Required \in Nat /\ Required <= s5
      BY <1>1, <2>2 DEF Query!QueryRequestAssumption
    <3>5. Query!Size(units) <= s5
      BY <1>1, <3>1, <3>3, <3>4, QueryPackFits
    <3>6. s14 # <<>> /\ s6 > s14[Len(s14)].attempt =>
            units \subseteq s14[Len(s14)].units /\ units # s14[Len(s14)].units
      <4> SUFFICES ASSUME s14 # <<>>
                   PROVE  units \subseteq s14[Len(s14)].units /\ units # s14[Len(s14)].units
        OBVIOUS
      <4>1. s6 > 0 /\ s7 = s8 /\ s14[Len(s14)].units = s8 /\ s8 # {} /\ s8 \in SUBSET Query!Units
        BY <1>1, <3>2 DEF Query!Sent
      <4>2. Query!Front(s8) \subseteq s8 /\ Query!Front(s8) # s8
        BY <4>1, QueryFrontFewer
      <4>3. units \subseteq Query!Front(s8)
        BY <1>1, <3>1, <4>1 DEF Query!Packs
      <4> QED
        BY <4>1, <4>2, <4>3
    <3>7. /\ Query!StrictSubset' /\ Query!RequestFits'
          /\ s14' \in Seq([attempt : 0..Query!Repacks, units : SUBSET Query!Units, budget : Nat \ {0}])
          /\ s14' # <<>> /\ s14'[Len(s14')].units = units
          /\ s14'[Len(s14')].attempt = s6
      BY <1>1, <3>1, <3>5, <3>6, QueryOneMore
    <3>8. Query!Size(s8)' <= s5'
      BY <3>1, <3>2, <3>5 DEF Query!Size
    <3> QED
      BY <3>1, <3>2, <3>7, <3>8 DEF Query!Sent
  <2> QED
    BY <2>1, <2>2
<1>3. CASE Query!WithoutUsage \/ Query!FallBack
  <2>1. /\ s1 = "stream" /\ s1' \in {"stream", "fallback"} /\ UNCHANGED Query!context
        /\ s14' = Append(s14, [attempt |-> s6, units |-> s8, budget |-> s5])
    BY <1>3 DEF Query!WithoutUsage, Query!FallBack
  <2>2. /\ s8 \in SUBSET Query!Units /\ Query!Size(s8) <= s5 /\ s7 = s8
        /\ s14 # <<>> /\ s14[Len(s14)].attempt = s6
    BY <1>1, <2>1 DEF Query!Sent
  <2>3. ~(s6 > s14[Len(s14)].attempt)
    BY <1>1, <2>2
  <2>4. /\ Query!StrictSubset' /\ Query!RequestFits'
        /\ s14' \in Seq([attempt : 0..Query!Repacks, units : SUBSET Query!Units, budget : Nat \ {0}])
        /\ s14' # <<>> /\ s14'[Len(s14')].units = s8
        /\ s14'[Len(s14')].attempt = s6
    BY <1>1, <2>1, <2>2, <2>3, QueryOneMore
  <2>5. Query!Size(s8)' <= s5'
    BY <2>1, <2>2, SameCardinality DEF Query!Size, Query!context
  <2> QED
    BY <2>1, <2>2, <2>4, <2>5 DEF Query!Sent, Query!context
<1>4. CASE Query!TooLong \/ Query!NoResponse
  <2>1. /\ s1 \in {"stream", "fallback"} /\ UNCHANGED <<s7, s8, s14>>
        /\ \/ s1' = "end"
           \/ s1' = "build" /\ s8 # {} /\ s6' = s6 + 1
    BY <1>4 DEF Query!TooLong, Query!NoResponse, Query!Repack, Query!history
  <2> QED
    BY <1>1, <2>1 DEF Query!Sent, Query!StrictSubset, Query!RequestFits
<1>5. ASSUME UNCHANGED <<Query!context, s14>>, s1' = s1 \/ s1' \notin {"build", "stream", "fallback"}
      PROVE  Query!Sent' /\ Query!StrictSubset' /\ Query!RequestFits'
  <2>1. Query!Size(s8)' = Query!Size(s8)
    BY <1>5 DEF Query!Size, Query!context
  <2> QED
    BY <1>1, <1>5, <2>1 DEF Query!context, Query!Sent, Query!StrictSubset, Query!RequestFits
<1>6. CASE Query!Stop \/ Query!Chunk \/ Query!StreamEnds \/ Query!Aborted \/ Query!FailLate \/ Query!Fail \/
           Query!Responds \/ Query!Show \/ UNCHANGED Query!vars
  <2>1. UNCHANGED <<Query!context, s14>> /\ (s1' = s1 \/ s1' \notin {"build", "stream", "fallback"})
    BY <1>6 DEF Query!Stop, Query!Chunk, Query!StreamEnds, Query!Aborted, Query!FailLate, Query!Fail,
       Query!Responds, Query!Show, Query!history, Query!vars, Query!context
  <2> QED
    BY <1>5, <2>1
<1> QED
  BY <1>2, <1>3, <1>4, <1>6 DEF Query!Next, Query!Progress

(* Together: the trace of a query, and what it sends.                      *)
LEMMA QueryBegins == Query!QueryRequestAssumption /\ Query!Init => Query!Inv
<1> SUFFICES ASSUME Query!QueryRequestAssumption, Query!Init PROVE Query!Inv
  OBVIOUS
<1>1. Query!Sent /\ Query!StrictSubset /\ Query!RequestFits
  BY DEF Query!Init, Query!Sent, Query!StrictSubset, Query!RequestFits
<1> QED
  BY <1>1, QueryTraceBegins DEF Query!Inv

LEMMA QueryStep == Query!QueryRequestAssumption /\ Query!Inv /\ [Query!Next]_(Query!vars) => Query!Inv'
BY QueryTraceStep, QuerySentStep DEF Query!Inv

LEMMA QueryHolds ==
  Query!Inv =>
    Query!TypeOK /\ Query!RowsClosed /\ Query!OneVoice /\ Query!RequestFits /\ Query!StrictSubset
BY QueryTraceTrue DEF Query!Inv

-----------------------------------------------------------------------------
(* The bounds are numbers, and what is answered is a record.               *)
LEMMA FormatSizes ==
  Format!FormatRunAssumption =>
    /\ Far \subseteq Tokens /\ MaxPieces \in Nat /\ MaxPieces > 0 /\ MaxCuts \in Nat
    /\ Format!NoReply \in Format!Replies
    /\ \A r \in Format!Replies : r.good \in BOOLEAN /\ r.tokens \subseteq Tokens
BY DEF Format!FormatRunAssumption, Format!NoReply, Format!Replies

LEMMA FormatPieces ==
  Format!FormatRunAssumption /\ Format!Counted => s11 \in 0..(MaxPieces + MaxCuts)
BY FormatSizes DEF Format!Counted

LEMMA FormatPiecesNow ==
  Format!FormatRunAssumption /\ Format!Counted' => s11' \in 0..(MaxPieces + MaxCuts)
BY FormatSizes DEF Format!Counted

LEMMA FormatBegins == Format!FormatRunAssumption /\ Format!Init => Format!Inv
BY FormatSizes DEF Format!Init, Format!Inv, Format!TypeOK, Format!Counted, Format!Cut, Format!InOrder,
       Format!InPiece, Format!RowsClosed, Format!EndTold, Format!TokensKept, Format!NoReply

(* The note is cut in pieces, and a piece in two, as the bounds allow.      *)
LEMMA FormatDivides ==
  Format!FormatRunAssumption /\ Format!Counted /\ (Format!CutPiece \/ \E ask : Format!InPieces(ask))
    => Format!Counted'
BY FormatSizes DEF Format!InPieces, Format!CutPiece, Format!Counted

LEMMA FormatStopStep == Format!FormatRunAssumption /\ Format!Inv /\ Format!Stop => Format!Inv'
<1> SUFFICES ASSUME Format!FormatRunAssumption, Format!Inv, Format!Stop PROVE Format!Inv'
  OBVIOUS
<1>1. Format!Counted'
  BY FormatSizes DEF Format!Stop, Format!request, Format!pieces, Format!Inv, Format!TypeOK, Format!Counted,
         Format!Cut, Format!InPiece
<1>2. Format!TypeOK'
  BY <1>1, FormatSizes, FormatPiecesNow DEF Format!Stop, Format!request, Format!pieces, Format!Inv,
         Format!TypeOK, Format!Cut
<1>3. Format!Cut'
  BY FormatSizes DEF Format!Stop, Format!request, Format!pieces, Format!Inv, Format!Cut, Format!InPiece,
         Format!TypeOK
<1>4. Format!InOrder' /\ Format!RowsClosed' /\ Format!EndTold' /\ Format!TokensKept'
  BY FormatSizes DEF Format!Stop, Format!request, Format!pieces, Format!Inv, Format!TypeOK, Format!Cut,
         Format!InPiece, Format!InOrder, Format!RowsClosed, Format!EndTold, Format!TokensKept
<1> QED
  BY <1>1, <1>2, <1>3, <1>4 DEF Format!Inv

LEMMA FormatReadStep == Format!FormatRunAssumption /\ Format!Inv /\ Format!Read => Format!Inv'
<1> SUFFICES ASSUME Format!FormatRunAssumption, Format!Inv, Format!Read PROVE Format!Inv'
  OBVIOUS
<1>1. Format!Counted'
  BY FormatSizes DEF Format!Read, Format!End, Format!request, Format!pieces, Format!Inv, Format!TypeOK,
         Format!Counted, Format!Cut, Format!InPiece
<1>2. Format!TypeOK'
  BY <1>1, FormatSizes, FormatPiecesNow DEF Format!Read, Format!End, Format!request, Format!pieces,
         Format!Inv, Format!TypeOK, Format!Cut
<1>3. Format!Cut'
  BY FormatSizes DEF Format!Read, Format!End, Format!request, Format!pieces, Format!Inv, Format!Cut,
         Format!InPiece, Format!TypeOK
<1>4. Format!InOrder' /\ Format!RowsClosed' /\ Format!EndTold' /\ Format!TokensKept'
  BY FormatSizes DEF Format!Read, Format!End, Format!request, Format!pieces, Format!Inv, Format!TypeOK,
         Format!Cut, Format!InPiece, Format!InOrder, Format!RowsClosed, Format!EndTold, Format!TokensKept
<1> QED
  BY <1>1, <1>2, <1>3, <1>4 DEF Format!Inv

LEMMA FormatSeeStep == Format!FormatRunAssumption /\ Format!Inv /\ Format!See => Format!Inv'
<1> SUFFICES ASSUME Format!FormatRunAssumption, Format!Inv, Format!See PROVE Format!Inv'
  OBVIOUS
<1>1. Format!Counted'
  BY FormatSizes DEF Format!See, Format!request, Format!pieces, Format!Inv, Format!TypeOK, Format!Counted,
         Format!Cut, Format!InPiece
<1>2. Format!TypeOK'
  BY <1>1, FormatSizes, FormatPiecesNow DEF Format!See, Format!request, Format!pieces, Format!Inv,
         Format!TypeOK, Format!Cut
<1>3. Format!Cut'
  BY FormatSizes DEF Format!See, Format!request, Format!pieces, Format!Inv, Format!Cut, Format!InPiece,
         Format!TypeOK
<1>4. Format!InOrder' /\ Format!RowsClosed' /\ Format!EndTold' /\ Format!TokensKept'
  BY FormatSizes DEF Format!See, Format!request, Format!pieces, Format!Inv, Format!TypeOK, Format!Cut,
         Format!InPiece, Format!InOrder, Format!RowsClosed, Format!EndTold, Format!TokensKept
<1> QED
  BY <1>1, <1>2, <1>3, <1>4 DEF Format!Inv

LEMMA FormatFitStep == Format!FormatRunAssumption /\ Format!Inv /\ Format!Fit => Format!Inv'
<1> SUFFICES ASSUME Format!FormatRunAssumption, Format!Inv, Format!Fit PROVE Format!Inv'
  OBVIOUS
<1>1. Format!Counted'
  BY FormatSizes DEF Format!Fit, Format!Send, Format!InPieces, Format!End, Format!request, Format!pieces,
         Format!Inv, Format!TypeOK, Format!Counted, Format!Cut, Format!InPiece
<1>2. Format!TypeOK'
  BY <1>1, FormatSizes, FormatPiecesNow DEF Format!Fit, Format!Send, Format!InPieces, Format!End,
         Format!request, Format!pieces, Format!Inv, Format!TypeOK, Format!Cut
<1>3. Format!Cut'
  <2>1. s1 = "fit" /\ UNCHANGED <<s2, s8>> /\ ~s9
    BY DEF Format!Fit, Format!Inv, Format!Cut
  <2>2. \/ s1' = "wait" /\ s5' = "whole" /\ UNCHANGED s9
        \/ s1' = "pieces"
        \/ s1' = "end" /\ UNCHANGED s9
    BY DEF Format!Fit, Format!Send, Format!InPieces, Format!End, Format!pieces
  <2>3. s2' \in BOOLEAN /\ s8' \in Format!Replies
    <3>1. s2 \in BOOLEAN /\ s8 \in Format!Replies
      BY DEF Format!Inv, Format!Cut
    <3> QED
      BY <2>1, <3>1
  <2>4. s1' # "parse" /\ ~Format!InPiece' /\ (s1' = "wait" => s5' = "whole")
    BY <2>2 DEF Format!InPiece
  <2>5. s9' => s1' = "pieces"
    BY <2>1, <2>2
  <2> QED
    BY <2>3, <2>4, <2>5 DEF Format!Cut
<1>4. Format!InOrder' /\ Format!RowsClosed' /\ Format!EndTold' /\ Format!TokensKept'
  BY FormatSizes DEF Format!Fit, Format!Send, Format!InPieces, Format!End, Format!request, Format!pieces,
         Format!Inv, Format!TypeOK, Format!Cut, Format!InPiece, Format!InOrder, Format!RowsClosed,
         Format!EndTold, Format!TokensKept
<1> QED
  BY <1>1, <1>2, <1>3, <1>4 DEF Format!Inv

LEMMA FormatAnsweredStep == Format!FormatRunAssumption /\ Format!Inv /\ Format!Answered => Format!Inv'
<1> SUFFICES ASSUME Format!FormatRunAssumption, Format!Inv, Format!Answered PROVE Format!Inv'
  OBVIOUS
<1>1. Format!Counted'
  BY FormatSizes DEF Format!Answered, Format!request, Format!pieces, Format!Inv, Format!TypeOK,
         Format!Counted, Format!Cut, Format!InPiece
<1>2. Format!TypeOK'
  BY <1>1, FormatSizes, FormatPiecesNow DEF Format!Answered, Format!request, Format!pieces, Format!Inv,
         Format!TypeOK, Format!Cut
<1>3. Format!Cut'
  BY FormatSizes DEF Format!Answered, Format!request, Format!pieces, Format!Inv, Format!Cut, Format!InPiece,
         Format!TypeOK
<1>4. Format!InOrder' /\ Format!RowsClosed' /\ Format!EndTold' /\ Format!TokensKept'
  BY FormatSizes DEF Format!Answered, Format!request, Format!pieces, Format!Inv, Format!TypeOK, Format!Cut,
         Format!InPiece, Format!InOrder, Format!RowsClosed, Format!EndTold, Format!TokensKept
<1> QED
  BY <1>1, <1>2, <1>3, <1>4 DEF Format!Inv

LEMMA FormatFallbackStep == Format!FormatRunAssumption /\ Format!Inv /\ Format!Fallback => Format!Inv'
<1> SUFFICES ASSUME Format!FormatRunAssumption, Format!Inv, Format!Fallback PROVE Format!Inv'
  OBVIOUS
<1>1. Format!Counted'
  BY FormatSizes DEF Format!Fallback, Format!pieces, Format!Inv, Format!TypeOK, Format!Counted, Format!Cut,
         Format!InPiece
<1>2. Format!TypeOK'
  BY <1>1, FormatSizes, FormatPiecesNow DEF Format!Fallback, Format!pieces, Format!Inv, Format!TypeOK,
         Format!Cut
<1>3. Format!Cut'
  BY FormatSizes DEF Format!Fallback, Format!pieces, Format!Inv, Format!Cut, Format!InPiece, Format!TypeOK
<1>4. Format!InOrder' /\ Format!RowsClosed' /\ Format!EndTold' /\ Format!TokensKept'
  BY FormatSizes DEF Format!Fallback, Format!pieces, Format!Inv, Format!TypeOK, Format!Cut, Format!InPiece,
         Format!InOrder, Format!RowsClosed, Format!EndTold, Format!TokensKept
<1> QED
  BY <1>1, <1>2, <1>3, <1>4 DEF Format!Inv

LEMMA FormatTooLongStep == Format!FormatRunAssumption /\ Format!Inv /\ Format!TooLong => Format!Inv'
<1> SUFFICES ASSUME Format!FormatRunAssumption, Format!Inv, Format!TooLong PROVE Format!Inv'
  OBVIOUS
<1>1. Format!Counted'
  <2>1. Format!CutPiece \/ (\E ask : Format!InPieces(ask)) \/ UNCHANGED <<s11, s12>>
    BY DEF Format!TooLong, Format!pieces
  <2> QED
    BY <2>1, FormatDivides DEF Format!Inv, Format!Counted
<1>2. Format!TypeOK'
  BY <1>1, FormatSizes, FormatPiecesNow DEF Format!TooLong, Format!InPieces, Format!CutPiece, Format!End,
         Format!request, Format!pieces, Format!Inv, Format!TypeOK, Format!Cut
<1>3. Format!Cut'
  BY FormatSizes DEF Format!TooLong, Format!InPieces, Format!CutPiece, Format!End, Format!request,
         Format!pieces, Format!Inv, Format!Cut, Format!InPiece, Format!TypeOK
<1>4. Format!InOrder' /\ Format!RowsClosed' /\ Format!EndTold' /\ Format!TokensKept'
  BY FormatSizes DEF Format!TooLong, Format!InPieces, Format!CutPiece, Format!End, Format!request,
         Format!pieces, Format!Inv, Format!TypeOK, Format!Cut, Format!InPiece, Format!InOrder,
         Format!RowsClosed, Format!EndTold, Format!TokensKept
<1> QED
  BY <1>1, <1>2, <1>3, <1>4 DEF Format!Inv

LEMMA FormatBrokenStep == Format!FormatRunAssumption /\ Format!Inv /\ Format!Broken => Format!Inv'
<1> SUFFICES ASSUME Format!FormatRunAssumption, Format!Inv, Format!Broken PROVE Format!Inv'
  OBVIOUS
<1>1. Format!Counted'
  BY FormatSizes DEF Format!Broken, Format!End, Format!request, Format!pieces, Format!Inv, Format!TypeOK,
         Format!Counted, Format!Cut, Format!InPiece
<1>2. Format!TypeOK'
  BY <1>1, FormatSizes, FormatPiecesNow DEF Format!Broken, Format!End, Format!request, Format!pieces,
         Format!Inv, Format!TypeOK, Format!Cut
<1>3. Format!Cut'
  BY FormatSizes DEF Format!Broken, Format!End, Format!request, Format!pieces, Format!Inv, Format!Cut,
         Format!InPiece, Format!TypeOK
<1>4. Format!InOrder' /\ Format!RowsClosed' /\ Format!EndTold' /\ Format!TokensKept'
  BY FormatSizes DEF Format!Broken, Format!End, Format!request, Format!pieces, Format!Inv, Format!TypeOK,
         Format!Cut, Format!InPiece, Format!InOrder, Format!RowsClosed, Format!EndTold, Format!TokensKept
<1> QED
  BY <1>1, <1>2, <1>3, <1>4 DEF Format!Inv

LEMMA FormatParseStep == Format!FormatRunAssumption /\ Format!Inv /\ Format!Parse => Format!Inv'
<1> SUFFICES ASSUME Format!FormatRunAssumption, Format!Inv, Format!Parse PROVE Format!Inv'
  OBVIOUS
<1>1. Format!Counted'
  <2>1. (\E ask : Format!InPieces(ask)) \/ UNCHANGED <<s11, s12>>
    BY DEF Format!Parse, Format!pieces
  <2> QED
    BY <2>1, FormatDivides DEF Format!Inv, Format!Counted
<1>2. Format!TypeOK'
  BY <1>1, FormatSizes, FormatPiecesNow DEF Format!Parse, Format!Accept, Format!Resend, Format!Send,
         Format!InPieces, Format!End, Format!request, Format!pieces, Format!Inv, Format!TypeOK, Format!Cut
<1>3. Format!Cut'
  BY FormatSizes DEF Format!Parse, Format!Accept, Format!Resend, Format!Send, Format!InPieces, Format!End,
         Format!request, Format!pieces, Format!Inv, Format!Cut, Format!InPiece, Format!TypeOK
<1>4. Format!InOrder' /\ Format!RowsClosed' /\ Format!EndTold' /\ Format!TokensKept'
  BY FormatSizes DEF Format!Parse, Format!Accept, Format!Resend, Format!Send, Format!InPieces, Format!End,
         Format!request, Format!pieces, Format!Inv, Format!TypeOK, Format!Cut, Format!InPiece,
         Format!InOrder, Format!RowsClosed, Format!EndTold, Format!TokensKept
<1> QED
  BY <1>1, <1>2, <1>3, <1>4 DEF Format!Inv

LEMMA FormatNextPieceStep == Format!FormatRunAssumption /\ Format!Inv /\ Format!NextPiece => Format!Inv'
<1> SUFFICES ASSUME Format!FormatRunAssumption, Format!Inv, Format!NextPiece PROVE Format!Inv'
  OBVIOUS
<1>1. Format!Counted'
  BY FormatSizes DEF Format!NextPiece, Format!PiecesFail, Format!CutPiece, Format!Send, Format!End,
         Format!request, Format!cutting, Format!Inv, Format!TypeOK, Format!Counted, Format!Cut,
         Format!InPiece
<1>2. Format!TypeOK'
  BY <1>1, FormatSizes, FormatPiecesNow DEF Format!NextPiece, Format!PiecesFail, Format!CutPiece,
         Format!Send, Format!End, Format!request, Format!cutting, Format!Inv, Format!TypeOK, Format!Cut
<1>3. Format!Cut'
  BY FormatSizes DEF Format!NextPiece, Format!PiecesFail, Format!CutPiece, Format!Send, Format!End,
         Format!request, Format!cutting, Format!Inv, Format!Cut, Format!InPiece, Format!TypeOK
<1>4. Format!InOrder' /\ Format!RowsClosed' /\ Format!EndTold' /\ Format!TokensKept'
  BY FormatSizes DEF Format!NextPiece, Format!PiecesFail, Format!CutPiece, Format!Send, Format!End,
         Format!request, Format!cutting, Format!Inv, Format!TypeOK, Format!Cut, Format!InPiece,
         Format!InOrder, Format!RowsClosed, Format!EndTold, Format!TokensKept
<1> QED
  BY <1>1, <1>2, <1>3, <1>4 DEF Format!Inv

LEMMA FormatParsePieceStep == Format!FormatRunAssumption /\ Format!Inv /\ Format!ParsePiece => Format!Inv'
<1> SUFFICES ASSUME Format!FormatRunAssumption, Format!Inv, Format!ParsePiece PROVE Format!Inv'
  OBVIOUS
<1>1. Format!Counted'
  <2>1. Format!CutPiece \/ UNCHANGED <<s11, s12>> \/ (s11' = s11 - 1 /\ s12' = s12)
    BY DEF Format!ParsePiece, Format!cutting
  <2>2. s11 > 0
    BY DEF Format!ParsePiece, Format!Inv, Format!Cut, Format!InPiece
  <2> QED
    BY <2>1, <2>2, FormatDivides, FormatSizes DEF Format!Inv, Format!Counted
<1>2. Format!TypeOK'
  BY <1>1, FormatSizes, FormatPiecesNow DEF Format!ParsePiece, Format!PiecesFail, Format!CutPiece,
         Format!Send, Format!End, Format!request, Format!cutting, Format!Inv, Format!TypeOK, Format!Cut
<1>3. Format!Cut'
  BY FormatSizes DEF Format!ParsePiece, Format!PiecesFail, Format!CutPiece, Format!Send, Format!End,
         Format!request, Format!cutting, Format!Inv, Format!Cut, Format!InPiece, Format!TypeOK
<1>4. Format!InOrder' /\ Format!RowsClosed' /\ Format!EndTold' /\ Format!TokensKept'
  BY FormatSizes DEF Format!ParsePiece, Format!PiecesFail, Format!CutPiece, Format!Send, Format!End,
         Format!request, Format!cutting, Format!Inv, Format!TypeOK, Format!Cut, Format!InPiece,
         Format!InOrder, Format!RowsClosed, Format!EndTold, Format!TokensKept
<1> QED
  BY <1>1, <1>2, <1>3, <1>4 DEF Format!Inv

LEMMA FormatJoinedStep == Format!FormatRunAssumption /\ Format!Inv /\ Format!Joined => Format!Inv'
<1> SUFFICES ASSUME Format!FormatRunAssumption, Format!Inv, Format!Joined PROVE Format!Inv'
  OBVIOUS
<1>1. Format!Counted'
  BY FormatSizes DEF Format!Joined, Format!End, Format!request, Format!pieces, Format!Inv, Format!TypeOK,
         Format!Counted, Format!Cut, Format!InPiece
<1>2. Format!TypeOK'
  BY <1>1, FormatSizes, FormatPiecesNow DEF Format!Joined, Format!End, Format!request, Format!pieces,
         Format!Inv, Format!TypeOK, Format!Cut
<1>3. Format!Cut'
  BY FormatSizes DEF Format!Joined, Format!End, Format!request, Format!pieces, Format!Inv, Format!Cut,
         Format!InPiece, Format!TypeOK
<1>4. Format!InOrder' /\ Format!RowsClosed' /\ Format!EndTold' /\ Format!TokensKept'
  BY FormatSizes DEF Format!Joined, Format!End, Format!request, Format!pieces, Format!Inv, Format!TypeOK,
         Format!Cut, Format!InPiece, Format!InOrder, Format!RowsClosed, Format!EndTold, Format!TokensKept
<1> QED
  BY <1>1, <1>2, <1>3, <1>4 DEF Format!Inv

LEMMA FormatRestoreStep == Format!FormatRunAssumption /\ Format!Inv /\ Format!Restore => Format!Inv'
<1> SUFFICES ASSUME Format!FormatRunAssumption, Format!Inv, Format!Restore PROVE Format!Inv'
  OBVIOUS
<1>1. Format!Counted'
  BY FormatSizes DEF Format!Restore, Format!WithLines, Format!Send, Format!End, Format!request,
         Format!pieces, Format!Inv, Format!TypeOK, Format!Counted, Format!Cut, Format!InPiece
<1>2. Format!TypeOK'
  BY <1>1, FormatSizes, FormatPiecesNow DEF Format!Restore, Format!WithLines, Format!Send, Format!End,
         Format!request, Format!pieces, Format!Inv, Format!TypeOK, Format!Cut
<1>3. Format!Cut'
  BY FormatSizes DEF Format!Restore, Format!WithLines, Format!Send, Format!End, Format!request,
         Format!pieces, Format!Inv, Format!Cut, Format!InPiece, Format!TypeOK
<1>4. Format!InOrder' /\ Format!RowsClosed' /\ Format!EndTold' /\ Format!TokensKept'
  BY FormatSizes DEF Format!Restore, Format!WithLines, Format!Send, Format!End, Format!request,
         Format!pieces, Format!Inv, Format!TypeOK, Format!Cut, Format!InPiece, Format!InOrder,
         Format!RowsClosed, Format!EndTold, Format!TokensKept
<1> QED
  BY <1>1, <1>2, <1>3, <1>4 DEF Format!Inv

LEMMA FormatRestoredStep == Format!FormatRunAssumption /\ Format!Inv /\ Format!Restored => Format!Inv'
<1> SUFFICES ASSUME Format!FormatRunAssumption, Format!Inv, Format!Restored PROVE Format!Inv'
  OBVIOUS
<1>1. Format!Counted'
  BY FormatSizes DEF Format!Restored, Format!WithLines, Format!End, Format!request, Format!pieces,
         Format!Inv, Format!TypeOK, Format!Counted, Format!Cut, Format!InPiece
<1>2. Format!TypeOK'
  BY <1>1, FormatSizes, FormatPiecesNow DEF Format!Restored, Format!WithLines, Format!End, Format!request,
         Format!pieces, Format!Inv, Format!TypeOK, Format!Cut
<1>3. Format!Cut'
  BY FormatSizes DEF Format!Restored, Format!WithLines, Format!End, Format!request, Format!pieces,
         Format!Inv, Format!Cut, Format!InPiece, Format!TypeOK
<1>4. Format!InOrder' /\ Format!RowsClosed' /\ Format!EndTold' /\ Format!TokensKept'
  BY FormatSizes DEF Format!Restored, Format!WithLines, Format!End, Format!request, Format!pieces,
         Format!Inv, Format!TypeOK, Format!Cut, Format!InPiece, Format!InOrder, Format!RowsClosed,
         Format!EndTold, Format!TokensKept
<1> QED
  BY <1>1, <1>2, <1>3, <1>4 DEF Format!Inv

LEMMA FormatWriteStep == Format!FormatRunAssumption /\ Format!Inv /\ Format!Write => Format!Inv'
<1> SUFFICES ASSUME Format!FormatRunAssumption, Format!Inv, Format!Write PROVE Format!Inv'
  OBVIOUS
<1>1. Format!Counted'
  BY FormatSizes DEF Format!Write, Format!End, Format!request, Format!pieces, Format!Inv, Format!TypeOK,
         Format!Counted, Format!Cut, Format!InPiece
<1>2. Format!TypeOK'
  BY <1>1, FormatSizes, FormatPiecesNow DEF Format!Write, Format!End, Format!request, Format!pieces,
         Format!Inv, Format!TypeOK, Format!Cut
<1>3. Format!Cut'
  BY FormatSizes DEF Format!Write, Format!End, Format!request, Format!pieces, Format!Inv, Format!Cut,
         Format!InPiece, Format!TypeOK
<1>4. Format!InOrder' /\ Format!RowsClosed' /\ Format!EndTold' /\ Format!TokensKept'
  BY FormatSizes DEF Format!Write, Format!End, Format!request, Format!pieces, Format!Inv, Format!TypeOK,
         Format!Cut, Format!InPiece, Format!InOrder, Format!RowsClosed, Format!EndTold, Format!TokensKept
<1> QED
  BY <1>1, <1>2, <1>3, <1>4 DEF Format!Inv

LEMMA FormatStutter == Format!Inv /\ UNCHANGED Format!vars => Format!Inv'
<1> SUFFICES ASSUME Format!Inv, UNCHANGED Format!vars PROVE Format!Inv'
  OBVIOUS
<1>1. Format!Counted'
  BY DEF Format!vars, Format!Inv, Format!Counted
<1>2. Format!TypeOK'
  BY DEF Format!vars, Format!Inv, Format!TypeOK
<1>3. Format!Cut'
  BY DEF Format!vars, Format!Inv, Format!Cut, Format!InPiece
<1>4. Format!InOrder' /\ Format!RowsClosed' /\ Format!EndTold' /\ Format!TokensKept'
  BY DEF Format!vars, Format!Inv, Format!InOrder, Format!RowsClosed, Format!EndTold, Format!TokensKept
<1> QED
  BY <1>1, <1>2, <1>3, <1>4 DEF Format!Inv

LEMMA FormatStep == Format!FormatRunAssumption /\ Format!Inv /\ [Format!Next]_(Format!vars) => Format!Inv'
BY FormatStopStep, FormatReadStep, FormatSeeStep, FormatFitStep, FormatAnsweredStep, FormatFallbackStep,
   FormatTooLongStep, FormatBrokenStep, FormatParseStep,
   FormatNextPieceStep, FormatParsePieceStep, FormatJoinedStep, FormatRestoreStep, FormatRestoredStep,
   FormatWriteStep, FormatStutter
   DEF Format!Next, Format!Work

LEMMA FormatHolds == Format!Inv => Format!TypeOK /\ Format!RowsClosed /\ Format!EndTold /\ Format!TokensKept
BY DEF Format!Inv

(* No step sends a note in pieces as a whole.                              *)
LEMMA FormatObeys == Format!Inv /\ [Format!Next]_(Format!vars) => Format!PiecesOnly
BY DEF Format!Inv, Format!Cut, Format!InPiece, Format!PiecesOnly, Format!Next, Format!Work, Format!vars,
       Format!request, Format!pieces, Format!cutting, Format!Stop, Format!Read, Format!See, Format!Fit,
       Format!Answered, Format!Fallback,
  Format!TooLong, Format!Broken, Format!Parse, Format!NextPiece, Format!ParsePiece, Format!Joined,
  Format!Restore, Format!Restored, Format!Write, Format!End, Format!Send, Format!InPieces, Format!CutPiece,
  Format!PiecesFail, Format!Accept, Format!Resend

-----------------------------------------------------------------------------
PdfPageSeqs == Seq(Pdf!Pages \X BOOLEAN)

LEMMA PdfListed ==
  ASSUME NEW S, NEW m \in Nat, NEW f \in [1..m -> S]
  PROVE  f \in Seq(S) /\ Len(f) = m /\ DOMAIN f = 1..m
OBVIOUS

LEMMA PdfMinMax ==
  ASSUME NEW a \in Int, NEW b \in Int
  PROVE  Pdf!Min({a, b}) = (IF a <= b THEN a ELSE b) /\ Pdf!Max({a, b}) = (IF a >= b THEN a ELSE b)
BY DEF Pdf!Min, Pdf!Max

(* A batch, and the pages from the first of it on.                         *)
LEMMA PdfBatches ==
  ASSUME NEW S, NEW k \in Nat \ {0}, NEW pages \in Nat \ {0}, s9 \in Seq(S)
  PROVE  LET b == Pdf!BatchAt(k, pages)
             n == IF k + pages - 1 <= Len(s9) THEN k + pages - 1 ELSE Len(s9)
         IN /\ b \in Seq(S) /\ Len(b) = (IF k <= n THEN n - k + 1 ELSE 0)
            /\ \A i \in 1..Len(b) : b[i] = s9[k + i - 1]
<1> DEFINE n == IF k + pages - 1 <= Len(s9) THEN k + pages - 1 ELSE Len(s9)
<1>1. Len(s9) \in Nat /\ \A i \in 1..Len(s9) : s9[i] \in S
  OBVIOUS
<1>2. n \in Int /\ n <= Len(s9) /\ Pdf!Min({k + pages - 1, Len(s9)}) = n
  BY <1>1, PdfMinMax
<1>3. Pdf!BatchAt(k, pages) = SubSeq(s9, k, n)
  BY <1>2 DEF Pdf!BatchAt
<1> HIDE DEF n
<1>4. \A i \in k..n : s9[i] \in S
  BY <1>1, <1>2
<1>5. /\ SubSeq(s9, k, n) \in Seq(S) /\ Len(SubSeq(s9, k, n)) = (IF k <= n THEN n - k + 1 ELSE 0)
      /\ \A i \in 1..(n - k + 1) : SubSeq(s9, k, n)[i] = s9[k + i - 1]
  BY <1>2, <1>4, SubSeqProperties
<1>6. \A i \in 1..Len(SubSeq(s9, k, n)) : SubSeq(s9, k, n)[i] = s9[k + i - 1]
  BY <1>2, <1>5
<1> QED
  BY <1>3, <1>5, <1>6 DEF n

LEMMA PdfBatchPages ==
  ASSUME NEW S, NEW k \in Nat \ {0}, NEW pages \in Nat \ {0}, s9 \in Seq(S)
  PROVE  \A i \in 1..Len(Pdf!BatchAt(k, pages)) : Pdf!BatchAt(k, pages)[i] = s9[k + i - 1]
BY PdfBatches

LEMMA PdfRemainders ==
  ASSUME NEW S, NEW k \in Nat \ {0}, NEW s \in Seq(S)
  PROVE  LET r == SubSeq(s, k, Len(s))
         IN /\ r \in Seq(S) /\ Len(r) = (IF k <= Len(s) THEN Len(s) - k + 1 ELSE 0)
            /\ \A i \in 1..Len(r) : r[i] = s[k + i - 1]
<1>1. Len(s) \in Nat /\ \A i \in 1..Len(s) : s[i] \in S
  OBVIOUS
<1>2. \A i \in k..Len(s) : s[i] \in S
  BY <1>1
<1> QED
  BY <1>1, <1>2, SubSeqProperties

(* What a batch costs is a number, and the room after a refusal is smaller *)
(* but for the smallest.                                                   *)
LEMMA PdfCosted ==
  ASSUME Pdf!PdfRecognitionAssumption, s3 \in Seq(Costs), NEW batch \in PdfPageSeqs
  PROVE  Pdf!Cost(batch) \in Nat \ {0}
<1> DEFINE U(k) == {k} \X (1..Pdf!Weight(batch[k]))
           Units == {U(k) : k \in DOMAIN batch}
<1>1. DOMAIN batch = 1..Len(batch) /\ Len(batch) \in Nat
  BY DEF PdfPageSeqs
<1>2. ASSUME NEW k \in DOMAIN batch PROVE IsFiniteSet(U(k))
  <2>1. batch[k][1] \in DOMAIN s3 /\ batch[k] \in Pdf!Pages \X BOOLEAN
    BY <1>1 DEF PdfPageSeqs, Pdf!Pages
  <2>2. s3[batch[k][1]] \in Nat
    <3>1. \A p \in DOMAIN s3 : s3[p] \in Costs
      OBVIOUS
    <3> QED
      BY <2>1, <3>1 DEF Pdf!PdfRecognitionAssumption
  <2>3. Pdf!Weight(batch[k]) \in Nat
    BY <2>2 DEF Pdf!Weight
  <2>4. IsFiniteSet(1..Pdf!Weight(batch[k])) /\ IsFiniteSet({k})
    <3> DEFINE w == Pdf!Weight(batch[k])
    <3> HIDE DEF w
    <3>1. w \in Int => IsFiniteSet(1..w)
      BY FS_Interval
    <3>2. IsFiniteSet(1..w)
      BY <2>3, <3>1 DEF w
    <3>3. IsFiniteSet({k})
      BY FS_Singleton
    <3> QED
      BY <3>2, <3>3 DEF w
  <2> QED
    BY <2>4, FS_Product
<1>3. IsFiniteSet(Units)
  <2> DEFINE f == [k \in DOMAIN batch |-> U(k)]
  <2>1. f \in Surjection(DOMAIN batch, Units)
    BY DEF Surjection
  <2>2. IsFiniteSet(DOMAIN batch)
    BY <1>1, FS_Interval
  <2> QED
    BY <2>1, <2>2, FS_Surjection
<1>4. IsFiniteSet(UNION Units)
  BY <1>2, <1>3, FS_UNION
<1>5. Cardinality(UNION Units) \in Nat
  BY <1>4, FS_CardinalityType
<1>6. Pdf!Cost(batch) = Fixed + Cardinality(UNION Units)
  BY SameCardinality DEF Pdf!Cost
<1> HIDE DEF Units
<1> QED
  BY <1>5, <1>6 DEF Pdf!PdfRecognitionAssumption

LEMMA PdfShrinks ==
  ASSUME Pdf!PdfRecognitionAssumption, s3 \in Seq(Costs), s4 \in PdfWindows, s7 \in Nat \ {0},
         NEW batch \in PdfPageSeqs
  PROVE  Pdf!Shrunk(batch) \in Nat \ {0} /\ Pdf!Shrunk(batch) <= s7
<1> DEFINE x == IF s5 THEN (s7 * s4 * 9) \div (Pdf!Cost(batch) * 10) ELSE (s7 * 3) \div 4
<1>1. x \in Nat
  <2>1. s4 \in Nat \ {0} /\ Pdf!Cost(batch) \in Nat \ {0}
    BY PdfCosted DEF Pdf!PdfRecognitionAssumption
  <2> DEFINE p == s7 * s4 * 9
             q == Pdf!Cost(batch) * 10
  <2>2. p \in Nat /\ q \in Nat \ {0}
    BY <2>1
  <2>3. (s7 * 3) \div 4 \in Nat
    OBVIOUS
  <2> HIDE DEF p, q
  <2>4. p \div q \in Nat
    BY <2>2
  <2> QED
    BY <2>3, <2>4 DEF p, q
<1>2. Pdf!Shrunk(batch) = Pdf!Max({1, Pdf!Min({s7 - 1, x})})
  BY DEF Pdf!Shrunk
<1> HIDE DEF x
<1>3. Pdf!Min({s7 - 1, x}) \in Int /\ Pdf!Min({s7 - 1, x}) <= s7 - 1
  BY <1>1, PdfMinMax
<1> DEFINE m == Pdf!Min({s7 - 1, x})
<1> HIDE DEF m
<1>4. m \in Int /\ m <= s7 - 1
  BY <1>3 DEF m
<1>5. Pdf!Max({1, m}) = (IF 1 >= m THEN 1 ELSE m)
  <2>1. 1 \in Int
    OBVIOUS
  <2> QED
    BY <1>4, <2>1, PdfMinMax
<1>6. Pdf!Shrunk(batch) = Pdf!Max({1, m})
  BY <1>2 DEF m
<1> QED
  BY <1>4, <1>5, <1>6

PdfReasons == {"none", "stopped", "render", "budget", "context", "request", "shape", "coverage"}

LEMMA PdfPagedBegins == Pdf!PdfRecognitionAssumption /\ Pdf!Init => Pdf!Paged
<1> SUFFICES ASSUME Pdf!PdfRecognitionAssumption, Pdf!Init PROVE Pdf!Paged
  OBVIOUS
<1>1. PICK n \in 1..MaxPages : s3 \in [1..n -> Costs]
  BY DEF Pdf!Init
<1>2. s3 \in Seq(Costs) /\ Len(s3) = n
  BY <1>1 DEF Pdf!PdfRecognitionAssumption
<1>3. s6 \in Nat \ {0}
  BY DEF Pdf!Init, Pdf!PdfRecognitionAssumption
<1>4. Pdf!TypeOK
  <2>1. <<>> \in Seq(Pdf!Pages \X BOOLEAN) /\ <<>> \in Seq(Pdf!Pages)
    OBVIOUS
  <2>2. s7 \in 1..s6 /\ s8 \in 0..Len(s3)
    BY <1>2, <1>3 DEF Pdf!Init
  <2>3. {s9, s13} \subseteq Seq(Pdf!Pages \X BOOLEAN) /\ s15 \in Seq(Pdf!Pages)
    BY <2>1 DEF Pdf!Init
  <2>4. {s2, s5} \subseteq BOOLEAN /\ s3 \in Seq(Costs) /\ Len(s3) \in 1..MaxPages
    BY <1>2 DEF Pdf!Init
  <2>5. /\ s4 \in PdfWindows /\ s6 \in PdfBudgets /\ s12 \in 0..2 /\ s10 \in Nat /\ s11 \in Nat \ {0}
        /\ s14 \subseteq Pdf!Pages /\ s17 \subseteq Seq(Pdf!Pages \X BOOLEAN)
    BY DEF Pdf!Init
  <2> QED
    BY <2>2, <2>3, <2>4, <2>5 DEF Pdf!Init, Pdf!TypeOK
<1>5. Pdf!PagesOnce /\ Pdf!RowAwaited /\ Pdf!ToGo
  BY <1>2 DEF Pdf!Init, Pdf!PagesOnce, Pdf!RowAwaited, Pdf!ToGo
<1> QED
  BY <1>4, <1>5 DEF Pdf!Paged

(* A step that leaves the pages where they are.                            *)
LEMMA PdfStill ==
  ASSUME Pdf!Paged, UNCHANGED <<Pdf!provider, Pdf!recovery, Pdf!packing, s8, s15>>,
         s2' \in BOOLEAN, s16' \in {"none", "waiting"}, s18' \in PdfReasons,
         s1' \notin {"ask", "repair"} => s16' = "none",
         \/ s1' = s1 \/ s1' \in {"failed", "described"}
         \/ s1 = "next" /\ s1' = "ask" /\ s11 <= Len(s9)
         \/ s1 = "ask" /\ s1' = "repair"
  PROVE  Pdf!Paged'
<1>1. UNCHANGED <<s3, s4, s5, s6, s7, s12, s13, s14, s17, s9, s10, s11,
                  s8, s15>>
  BY DEF Pdf!provider, Pdf!recovery, Pdf!packing
<1>2. Pdf!TypeOK'
  BY <1>1 DEF Pdf!Paged, Pdf!TypeOK, Pdf!Pages, PdfReasons
<1>3. \A left : Pdf!AllOnce(left) => Pdf!AllOnce(left)'
  BY <1>1 DEF Pdf!AllOnce, Pdf!Pages
<1>4. Pdf!Remaining' = Pdf!Remaining
  BY <1>1 DEF Pdf!Remaining
<1>5. Pdf!PagesOnce'
  BY <1>1 DEF Pdf!Paged, Pdf!PagesOnce, Pdf!AllOnce, Pdf!Pages, Pdf!Remaining
<1>6. Pdf!RowAwaited' /\ Pdf!ToGo'
  BY <1>1 DEF Pdf!Paged, Pdf!RowAwaited, Pdf!ToGo, Pdf!AllOnce, Pdf!Pages
<1> QED
  BY <1>2, <1>5, <1>6 DEF Pdf!Paged

LEMMA PdfQuietStep ==
  Pdf!Paged /\
  (Pdf!Stop \/ Pdf!Aborted \/ Pdf!Ask \/ Pdf!Broken \/ Pdf!StoppedAnswer \/ Pdf!Malformed \/ Pdf!Described)
    => Pdf!Paged'
<1> SUFFICES ASSUME Pdf!Paged, Pdf!Stop \/ Pdf!Aborted \/ Pdf!Ask \/ Pdf!Broken \/ Pdf!StoppedAnswer \/
                    Pdf!Malformed \/ Pdf!Described
             PROVE  Pdf!Paged'
  OBVIOUS
<1>1. /\ s2 \in BOOLEAN /\ s16 \in {"none", "waiting"} /\ s18 \in PdfReasons
      /\ s1 \notin {"ask", "repair"} => s16 = "none"
  BY DEF Pdf!Paged, Pdf!TypeOK, Pdf!RowAwaited, PdfReasons
<1>2. UNCHANGED <<Pdf!provider, Pdf!recovery, Pdf!packing, s8, s15>>
  BY DEF Pdf!Stop, Pdf!Aborted, Pdf!Ask, Pdf!Broken, Pdf!StoppedAnswer, Pdf!Malformed, Pdf!Described
<1>3. s2' \in BOOLEAN
  BY <1>1 DEF Pdf!Stop, Pdf!Aborted, Pdf!Ask, Pdf!Broken, Pdf!StoppedAnswer, Pdf!Malformed, Pdf!Described
<1>4. s16' \in {"none", "waiting"} /\ s18' \in PdfReasons
  BY <1>1 DEF Pdf!Stop, Pdf!Aborted, Pdf!Ask, Pdf!Broken, Pdf!StoppedAnswer, Pdf!Malformed, Pdf!Described,
         Pdf!Fail, PdfReasons
<1>5. s1' \notin {"ask", "repair"} => s16' = "none"
  BY <1>1 DEF Pdf!Stop, Pdf!Aborted, Pdf!Ask, Pdf!Broken, Pdf!StoppedAnswer, Pdf!Malformed, Pdf!Described,
         Pdf!Fail
<1>6. \/ s1' = s1 \/ s1' \in {"failed", "described"}
      \/ s1 = "next" /\ s1' = "ask" /\ s11 <= Len(s9)
      \/ s1 = "ask" /\ s1' = "repair"
  BY DEF Pdf!Stop, Pdf!Aborted, Pdf!Ask, Pdf!Broken, Pdf!StoppedAnswer, Pdf!Malformed, Pdf!Described,
         Pdf!Fail, Pdf!Answer
<1> QED
  BY <1>2, <1>3, <1>4, <1>5, <1>6, PdfStill

LEMMA PdfStutter == Pdf!Paged /\ UNCHANGED Pdf!vars => Pdf!Paged'
<1> SUFFICES ASSUME Pdf!Paged, UNCHANGED Pdf!vars PROVE Pdf!Paged'
  OBVIOUS
<1>1. UNCHANGED <<Pdf!provider, Pdf!recovery, Pdf!packing, s8, s15, s2, s16, s18, s1>>
  BY DEF Pdf!vars, Pdf!provider, Pdf!recovery, Pdf!packing
<1>2. /\ s2 \in BOOLEAN /\ s16 \in {"none", "waiting"} /\ s18 \in PdfReasons
      /\ s1 \notin {"ask", "repair"} => s16 = "none"
  BY DEF Pdf!Paged, Pdf!TypeOK, Pdf!RowAwaited, PdfReasons
<1> QED
  BY <1>1, <1>2, PdfStill

(* Every variable but those of a step keeps its type.                      *)
LEMMA PdfKept ==
  ASSUME Pdf!Paged, UNCHANGED <<s2, s3, s4, s5, s6>>,
         s1' \in {"render", "batch", "next", "ask", "repair", "resize", "described", "failed"},
         s7' \in 1..s6, s8' \in 0..Len(s3), s12' \in 0..2,
         s9' \in PdfPageSeqs, s13' \in PdfPageSeqs, s10' \in Nat, s11' \in Nat \ {0},
         s14' \subseteq Pdf!Pages, s15' \in Seq(Pdf!Pages), s17' \subseteq PdfPageSeqs,
         s16' \in {"none", "waiting"}, s18' \in PdfReasons
  PROVE  Pdf!TypeOK'
BY DEF Pdf!Paged, Pdf!TypeOK, Pdf!Pages, PdfPageSeqs, PdfReasons

LEMMA PdfTypes ==
  ASSUME Pdf!Paged
  PROVE  /\ s7 \in 1..s6 /\ s8 \in 0..Len(s3) /\ s12 \in 0..2
         /\ s9 \in PdfPageSeqs /\ s13 \in PdfPageSeqs /\ s10 \in Nat /\ s11 \in Nat \ {0}
         /\ s14 \subseteq Pdf!Pages /\ s15 \in Seq(Pdf!Pages) /\ s17 \subseteq PdfPageSeqs
         /\ s16 \in {"none", "waiting"} /\ s18 \in PdfReasons /\ s3 \in Seq(Costs) /\ Len(s3) \in Nat \ {0}
         /\ Pdf!Pages = 1..Len(s3) /\ s4 \in PdfWindows /\ s6 \in PdfBudgets
BY DEF Pdf!Paged, Pdf!TypeOK, Pdf!Pages, PdfPageSeqs, PdfReasons

(* All pages are rendered, and each is to be sent.                         *)
LEMMA PdfRenderStep == Pdf!Paged /\ Pdf!Render => Pdf!Paged'
<1> SUFFICES ASSUME Pdf!Paged, Pdf!Render PROVE Pdf!Paged'
  OBVIOUS
<1>1. /\ s1 = "render" /\ UNCHANGED <<s2, s3, s4, s5, s6, s7, s12, s13, s14,
                                      s17, s10, s11, s15, s16>>
      /\ s8 < Len(s3) /\ s15 = <<>> /\ s16 = "none"
  BY DEF Pdf!Render, Pdf!provider, Pdf!recovery, Pdf!Paged, Pdf!ToGo, Pdf!RowAwaited
<1>2. CASE s1' = "failed" /\ s18' = "render" /\ UNCHANGED <<s8, s9>>
  BY <1>1, <1>2, PdfTypes, PdfStill DEF Pdf!provider, Pdf!recovery, Pdf!packing, PdfReasons, Pdf!Paged,
         Pdf!TypeOK
<1>3. CASE s8' = s8 + 1 /\ s18' = s18 /\ s1' = "batch" /\ s9' = [p \in Pdf!Pages |-> <<p, FALSE>>]
  <2>1. /\ s9' \in PdfPageSeqs /\ Len(s9') = Len(s3) /\ DOMAIN s9' = Pdf!Pages
        /\ \A k \in Pdf!Pages : s9'[k][1] = k
    <3>1. s9' = [p \in 1..Len(s3) |-> <<p, FALSE>>] /\ Pdf!Pages = 1..Len(s3) /\ Len(s3) \in Nat
      BY <1>3, PdfTypes
    <3>2. \A p \in Pdf!Pages : <<p, FALSE>> \in Pdf!Pages \X BOOLEAN /\ <<p, FALSE>>[1] = p
      OBVIOUS
    <3>3. s9' \in [1..Len(s3) -> Pdf!Pages \X BOOLEAN]
      BY <3>1, <3>2
    <3>4. s9' \in Seq(Pdf!Pages \X BOOLEAN) /\ Len(s9') = Len(s3) /\ DOMAIN s9' = Pdf!Pages
      BY <3>1, <3>3, PdfListed
    <3>5. \A k \in Pdf!Pages : s9'[k] = <<k, FALSE>>
      BY <3>1
    <3> QED
      BY <3>2, <3>4, <3>5 DEF PdfPageSeqs
  <2>2. Pdf!TypeOK'
    BY <1>1, <1>3, <2>1, PdfTypes, PdfKept
  <2>3. Pdf!AllOnce(s9)'
    <3>1. Len(s15) = 0 /\ Pdf!ToSet(s15) = {}
      BY <1>1 DEF Pdf!ToSet
    <3>2. {s9'[k][1] : k \in DOMAIN s9'} = Pdf!Pages
      BY <2>1
    <3> QED
      BY <1>1, <2>1, <3>1, <3>2, PdfTypes DEF Pdf!AllOnce, Pdf!Pages
  <2>4. s9' # <<>>
    BY <2>1, PdfTypes
  <2>5. Pdf!PagesOnce' /\ Pdf!RowAwaited' /\ Pdf!ToGo'
    BY <1>1, <1>3, <2>3, <2>4 DEF Pdf!PagesOnce, Pdf!RowAwaited, Pdf!ToGo
  <2> QED
    BY <2>2, <2>5 DEF Pdf!Paged
<1>4. CASE s8' = s8 + 1 /\ s8' # Len(s3) /\ s18' = s18 /\ UNCHANGED <<s1, s9>>
  <2>1. s8' \in 0..Len(s3) /\ s8' < Len(s3)
    BY <1>1, <1>4, PdfTypes
  <2>2. Pdf!TypeOK'
    BY <1>1, <1>4, <2>1, PdfTypes, PdfKept
  <2>3. Pdf!PagesOnce' /\ Pdf!RowAwaited' /\ Pdf!ToGo'
    BY <1>1, <1>4, <2>1 DEF Pdf!PagesOnce, Pdf!RowAwaited, Pdf!ToGo
  <2> QED
    BY <2>2, <2>3 DEF Pdf!Paged
<1> QED
  BY <1>2, <1>3, <1>4 DEF Pdf!Render, Pdf!Fail

(* The pages are packed from the first on, or the budget is made smaller.  *)
LEMMA PdfPackStep == Pdf!PdfRecognitionAssumption /\ Pdf!Paged /\ Pdf!Pack => Pdf!Paged'
<1> SUFFICES ASSUME Pdf!PdfRecognitionAssumption, Pdf!Paged, Pdf!Pack PROVE Pdf!Paged'
  OBVIOUS
<1>1. /\ s1 = "batch" /\ Pdf!AllOnce(s9) /\ s9 # <<>> /\ s16 = "none"
      /\ UNCHANGED <<s2, s3, s4, s5, s6, s13, s14, s17, s9, s8, s15, s16>>
  BY DEF Pdf!Pack, Pdf!provider, Pdf!Paged, Pdf!ToGo, Pdf!RowAwaited
<1>2. \A left : Pdf!AllOnce(left)' <=> Pdf!AllOnce(left')
  BY <1>1 DEF Pdf!AllOnce, Pdf!Pages
<1>3. Pdf!PagesPerBatch \in Nat
  <2>1. s7 \in Nat /\ Fixed \in Nat /\ Reserved \in Nat \ {0}
    BY PdfTypes DEF Pdf!PdfRecognitionAssumption
  <2> QED
    BY <2>1 DEF Pdf!PagesPerBatch
<1>4. CASE s1' = "failed" /\ s18' \in {"budget", "context"} /\ UNCHANGED <<s10, s11, s7, s12>>
  BY <1>1, <1>4, PdfTypes, PdfStill DEF Pdf!provider, Pdf!recovery, Pdf!packing, PdfReasons, Pdf!Paged,
         Pdf!TypeOK
<1>5. CASE /\ s12 < 2 /\ s7' = Pdf!Shrunk(Pdf!BatchAt(1, Pdf!PagesPerBatch)) /\ s12' = s12 + 1
           /\ UNCHANGED <<s1, s18, s10, s11>> /\ Pdf!PagesPerBatch # 0
  <2>1. Pdf!BatchAt(1, Pdf!PagesPerBatch) \in PdfPageSeqs
    <3>1. s9 \in Seq(Pdf!Pages \X BOOLEAN) /\ Pdf!PagesPerBatch \in Nat \ {0} /\ 1 \in Nat \ {0}
      BY <1>3, <1>5, PdfTypes DEF PdfPageSeqs
    <3> QED
      BY <3>1, PdfBatches DEF PdfPageSeqs
  <2>2. s7' \in Nat \ {0} /\ s7' <= s7 /\ s6 \in Nat
    <3>1. s7 \in Nat \ {0} /\ s6 \in Nat /\ s4 \in PdfWindows /\ s3 \in Seq(Costs)
      <4>1. s6 \in Nat \ {0}
        BY PdfTypes DEF Pdf!PdfRecognitionAssumption
      <4> QED
        BY <4>1, PdfTypes
    <3> QED
      BY <1>5, <2>1, <3>1, PdfShrinks
  <2>3. s7' \in 1..s6 /\ s12' \in 0..2
    BY <1>5, <2>2, PdfTypes
  <2>4. Pdf!TypeOK'
    BY <1>1, <1>5, <2>3, PdfTypes, PdfKept
  <2>5. Pdf!PagesOnce' /\ Pdf!RowAwaited' /\ Pdf!ToGo'
    BY <1>1, <1>5 DEF Pdf!PagesOnce, Pdf!RowAwaited, Pdf!ToGo, Pdf!AllOnce, Pdf!Pages
  <2> QED
    BY <2>4, <2>5 DEF Pdf!Paged
<1>6. CASE /\ s1' = "next" /\ s11' = 1 /\ s10' = Pdf!PagesPerBatch /\ Pdf!PagesPerBatch # 0
           /\ UNCHANGED <<s7, s12, s18>>
  <2>1. Pdf!TypeOK'
    BY <1>1, <1>3, <1>6, PdfTypes, PdfKept
  <2>2. Pdf!Remaining' = s9
    BY <1>1, <1>6, PdfTypes, SubSeqFull DEF Pdf!Remaining, PdfPageSeqs
  <2>3. Pdf!AllOnce(Pdf!Remaining)'
    BY <1>1, <2>2 DEF Pdf!AllOnce, Pdf!Pages
  <2>4. Pdf!PagesOnce' /\ Pdf!RowAwaited' /\ Pdf!ToGo'
    BY <1>1, <1>3, <1>6, <2>3 DEF Pdf!PagesOnce, Pdf!RowAwaited, Pdf!ToGo
  <2> QED
    BY <2>1, <2>4 DEF Pdf!Paged
<1>7. s12 >= 2 \/ s12 < 2
  BY PdfTypes
<1> QED
  BY <1>4, <1>5, <1>6, <1>7 DEF Pdf!Pack, Pdf!Fail

(* What is left after a refusal is packed again.                           *)
LEMMA PdfRefusedStep == Pdf!PdfRecognitionAssumption /\ Pdf!Paged /\ Pdf!Refused => Pdf!Paged'
<1> SUFFICES ASSUME Pdf!PdfRecognitionAssumption, Pdf!Paged, Pdf!Refused PROVE Pdf!Paged'
  OBVIOUS
<1>1. /\ s1 \in {"ask", "repair"} /\ Pdf!AllOnce(Pdf!Remaining) /\ s11 <= Len(s9) /\ s10 > 0
      /\ s16' = "none" /\ s17' = s17 \cup {Pdf!Batch} /\ s13' = Pdf!Batch
      /\ UNCHANGED <<s2, s3, s4, s5, s6, s10, s11, s8, s15>>
  BY DEF Pdf!Refused, Pdf!provider, Pdf!Paged, Pdf!ToGo, Pdf!PagesOnce
<1>2. Pdf!Batch \in PdfPageSeqs /\ Len(Pdf!Batch) \in Nat \ {0}
  <2>1. s11 \in Nat \ {0} /\ s10 \in Nat \ {0} /\ s9 \in Seq(Pdf!Pages \X BOOLEAN) /\ Len(s9) \in Nat
    BY <1>1, PdfTypes DEF PdfPageSeqs
  <2>2. /\ Pdf!Batch \in Seq(Pdf!Pages \X BOOLEAN)
        /\ LET n == IF s11 + s10 - 1 <= Len(s9) THEN s11 + s10 - 1 ELSE Len(s9)
           IN Len(Pdf!Batch) = (IF s11 <= n THEN n - s11 + 1 ELSE 0)
    BY <2>1, PdfBatches DEF Pdf!Batch
  <2> QED
    BY <1>1, <2>1, <2>2 DEF PdfPageSeqs
<1>3. Pdf!Batch[1][1] \in Pdf!Pages
  <2>1. Pdf!Batch[1] \in Pdf!Pages \X BOOLEAN
    BY <1>2 DEF PdfPageSeqs
  <2> QED
    BY <2>1
<1>4. s17' \subseteq PdfPageSeqs /\ s13' \in PdfPageSeqs
  BY <1>1, <1>2, PdfTypes
<1>5. CASE s1' = "failed" /\ s18' = "context" /\ UNCHANGED <<s9, s7, s12, s14>>
  <2>1. Pdf!TypeOK'
    BY <1>1, <1>4, <1>5, PdfTypes, PdfKept DEF PdfReasons
  <2>2. Pdf!PagesOnce' /\ Pdf!RowAwaited' /\ Pdf!ToGo'
    BY <1>1, <1>5 DEF Pdf!PagesOnce, Pdf!RowAwaited, Pdf!ToGo
  <2> QED
    BY <2>1, <2>2 DEF Pdf!Paged
<1>6. CASE /\ s12 < 2 /\ s18' = s18 /\ s12' = s12 + 1 /\ s7' = Pdf!Shrunk(Pdf!Batch) /\ s9' = Pdf!Remaining
           /\ s1' \in {"resize", "batch"} /\ s14' \in {s14, s14 \cup {Pdf!Batch[1][1]}}
  <2>1. s7' \in Nat \ {0} /\ s7' <= s7 /\ s6 \in Nat
    <3>1. s7 \in Nat \ {0} /\ s6 \in Nat /\ s4 \in PdfWindows /\ s3 \in Seq(Costs)
      <4>1. s6 \in Nat \ {0}
        BY PdfTypes DEF Pdf!PdfRecognitionAssumption
      <4> QED
        BY <4>1, PdfTypes
    <3> QED
      BY <1>2, <1>6, <3>1, PdfShrinks
  <2>2. s7' \in 1..s6 /\ s12' \in 0..2
    BY <1>6, <2>1, PdfTypes
  <2>3. s9' \in PdfPageSeqs /\ s9' # <<>>
    <3>1. s11 \in Nat \ {0} /\ s9 \in Seq(Pdf!Pages \X BOOLEAN) /\ Len(s9) \in Nat
      BY PdfTypes DEF PdfPageSeqs
    <3>2. /\ Pdf!Remaining \in Seq(Pdf!Pages \X BOOLEAN)
          /\ Len(Pdf!Remaining) = (IF s11 <= Len(s9) THEN Len(s9) - s11 + 1 ELSE 0)
      BY <3>1, PdfRemainders DEF Pdf!Remaining
    <3> QED
      BY <1>1, <1>6, <3>1, <3>2 DEF PdfPageSeqs
  <2>4. s14' \subseteq Pdf!Pages
    BY <1>3, <1>6, PdfTypes
  <2>5. Pdf!TypeOK'
    BY <1>1, <1>4, <1>6, <2>2, <2>3, <2>4, PdfTypes, PdfKept
  <2>6. Pdf!AllOnce(s9)'
    BY <1>1, <1>6 DEF Pdf!AllOnce, Pdf!Pages
  <2>7. Pdf!PagesOnce' /\ Pdf!RowAwaited' /\ Pdf!ToGo'
    BY <1>1, <1>6, <2>3, <2>6 DEF Pdf!PagesOnce, Pdf!RowAwaited, Pdf!ToGo
  <2> QED
    BY <2>5, <2>7 DEF Pdf!Paged
<1>7. s12 >= 2 \/ s12 < 2
  BY PdfTypes
<1> QED
  BY <1>5, <1>6, <1>7 DEF Pdf!Refused, Pdf!Fail

(* A page becomes smaller and stays the page it is.                        *)
LEMMA PdfResizeStep == Pdf!Paged /\ Pdf!Resize => Pdf!Paged'
<1> SUFFICES ASSUME Pdf!Paged, Pdf!Resize PROVE Pdf!Paged'
  OBVIOUS
<1>1. /\ s1 = "resize" /\ Pdf!AllOnce(s9) /\ s9 # <<>> /\ s16 = "none"
      /\ UNCHANGED <<s2, s3, s4, s5, s6, s7, s12, s13, s14, s17, s10, s11,
                     s8, s15, s16>>
  BY DEF Pdf!Resize, Pdf!provider, Pdf!recovery, Pdf!Paged, Pdf!ToGo, Pdf!RowAwaited
<1>2. CASE s1' = "failed" /\ s18' = "render" /\ UNCHANGED s9
  BY <1>1, <1>2, PdfTypes, PdfStill DEF Pdf!provider, Pdf!recovery, Pdf!packing, PdfReasons, Pdf!Paged,
         Pdf!TypeOK
<1>3. CASE s1' = "batch" /\ s9' = [s9 EXCEPT ![1] = <<@[1], TRUE>>] /\ UNCHANGED s18
  <2>1. 1 \in DOMAIN s9 /\ s9[1] \in Pdf!Pages \X BOOLEAN
    BY <1>1, PdfTypes DEF PdfPageSeqs
  <2>2. s9' = [s9 EXCEPT ![1] = <<s9[1][1], TRUE>>]
    BY <1>3, <2>1
  <2>3. s9' \in PdfPageSeqs /\ Len(s9') = Len(s9) /\ DOMAIN s9' = DOMAIN s9
    <3>1. s9 \in Seq(Pdf!Pages \X BOOLEAN) /\ <<s9[1][1], TRUE>> \in Pdf!Pages \X BOOLEAN
      BY <2>1, PdfTypes DEF PdfPageSeqs
    <3> QED
      BY <2>1, <2>2, <3>1 DEF PdfPageSeqs
  <2>4. \A k \in DOMAIN s9 : s9'[k][1] = s9[k][1]
    BY <2>1, <2>2, PdfTypes DEF PdfPageSeqs
  <2>5. Pdf!TypeOK'
    BY <1>1, <1>3, <2>3, PdfTypes, PdfKept
  <2>6. Pdf!AllOnce(s9)'
    <3>1. {s9'[k][1] : k \in DOMAIN s9'} = {s9[k][1] : k \in DOMAIN s9}
      BY <2>3, <2>4
    <3> QED
      BY <1>1, <2>3, <3>1 DEF Pdf!AllOnce, Pdf!Pages
  <2>7. s9' # <<>>
    BY <2>1, <2>3
  <2>8. Pdf!PagesOnce' /\ Pdf!RowAwaited' /\ Pdf!ToGo'
    BY <1>1, <1>3, <2>6, <2>7 DEF Pdf!PagesOnce, Pdf!RowAwaited, Pdf!ToGo
  <2> QED
    BY <2>5, <2>8 DEF Pdf!Paged
<1> QED
  BY <1>2, <1>3 DEF Pdf!Resize, Pdf!Fail

(* The pages of a batch get their records and are sent no more.            *)
LEMMA PdfRecordsStep == Pdf!Paged /\ Pdf!Records => Pdf!Paged'
<1> SUFFICES ASSUME Pdf!Paged, Pdf!Records PROVE Pdf!Paged'
  OBVIOUS
<1>1. /\ s1 \in {"ask", "repair"} /\ Pdf!AllOnce(Pdf!Remaining) /\ s11 <= Len(s9) /\ s10 > 0
      /\ s16' = "none" /\ s1' = "next" /\ s11' = s11 + s10
      /\ UNCHANGED <<s2, s3, s4, s5, s6, s7, s12, s13, s14, s17, s9, s10,
                     s8, s18>>
  BY DEF Pdf!Records, Pdf!Answer, Pdf!provider, Pdf!recovery, Pdf!Paged, Pdf!ToGo, Pdf!PagesOnce
<1>2. PICK pages \in [1..Len(Pdf!Batch) -> Pdf!Pages] :
        Pdf!ToSet(pages) = {Pdf!Batch[k][1] : k \in DOMAIN Pdf!Batch} /\ s15' = s15 \o pages
  BY DEF Pdf!Records
<1>3. s11 \in Nat \ {0} /\ s10 \in Nat \ {0} /\ s9 \in Seq(Pdf!Pages \X BOOLEAN) /\ Len(s9) \in Nat
  BY <1>1, PdfTypes DEF PdfPageSeqs
<1> DEFINE n == IF s11 + s10 - 1 <= Len(s9) THEN s11 + s10 - 1 ELSE Len(s9)
           all == Len(s9)
<1>4. /\ n \in Nat /\ s11 <= n /\ n <= all
      /\ Pdf!Batch \in Seq(Pdf!Pages \X BOOLEAN) /\ Len(Pdf!Batch) = n - s11 + 1
      /\ \A i \in 1..Len(Pdf!Batch) : Pdf!Batch[i] = s9[s11 + i - 1]
  <2>1. n \in Nat /\ s11 <= n /\ n <= all
    BY <1>1, <1>3
  <2>2. /\ Pdf!Batch \in Seq(Pdf!Pages \X BOOLEAN) /\ Len(Pdf!Batch) = (IF s11 <= n THEN n - s11 + 1 ELSE 0)
        /\ \A i \in 1..Len(Pdf!Batch) : Pdf!Batch[i] = s9[s11 + i - 1]
    BY <1>3, PdfBatches DEF Pdf!Batch
  <2> QED
    BY <2>1, <2>2
<1>5. /\ Pdf!Remaining \in Seq(Pdf!Pages \X BOOLEAN) /\ Len(Pdf!Remaining) = all - s11 + 1
      /\ \A i \in 1..Len(Pdf!Remaining) : Pdf!Remaining[i] = s9[s11 + i - 1]
  <2>1. /\ Pdf!Remaining \in Seq(Pdf!Pages \X BOOLEAN)
        /\ Len(Pdf!Remaining) = (IF s11 <= all THEN all - s11 + 1 ELSE 0)
        /\ \A i \in 1..Len(Pdf!Remaining) : Pdf!Remaining[i] = s9[s11 + i - 1]
    BY <1>3, PdfRemainders DEF Pdf!Remaining
  <2> QED
    BY <1>1, <2>1
<1>6. /\ Pdf!Remaining' \in Seq(Pdf!Pages \X BOOLEAN) /\ Len(Pdf!Remaining') = all - n
      /\ \A i \in 1..Len(Pdf!Remaining') : Pdf!Remaining'[i] = s9[n + i]
  <2>1. Pdf!Remaining' = SubSeq(s9, s11 + s10, all) /\ s11 + s10 \in Nat \ {0}
    BY <1>1, <1>3 DEF Pdf!Remaining
  <2>2. /\ Pdf!Remaining' \in Seq(Pdf!Pages \X BOOLEAN)
        /\ Len(Pdf!Remaining') = (IF s11 + s10 <= all THEN all - (s11 + s10) + 1 ELSE 0)
        /\ \A i \in 1..Len(Pdf!Remaining') : Pdf!Remaining'[i] = s9[s11 + s10 + i - 1]
    BY <1>3, <2>1, PdfRemainders
  <2>3. CASE s11 + s10 <= all
    <3>1. n = s11 + s10 - 1
      BY <1>3, <2>3
    <3>2. \A i \in Nat : s11 + s10 + i - 1 = n + i
      BY <1>3, <3>1
    <3>3. n \in Nat /\ all \in Nat
      BY <1>3, <1>4
    <3> HIDE DEF n
    <3>4. Len(Pdf!Remaining') = all - (s11 + s10) + 1
      BY <2>2, <2>3
    <3>5. Len(Pdf!Remaining') = all - n
      BY <1>3, <3>1, <3>3, <3>4
    <3>6. ASSUME NEW i \in 1..Len(Pdf!Remaining') PROVE Pdf!Remaining'[i] = s9[n + i]
      <4>1. i \in Nat
        BY <3>3, <3>5
      <4> QED
        BY <2>2, <3>2, <3>6, <4>1
    <3> QED
      BY <2>2, <3>5, <3>6
  <2>4. CASE ~(s11 + s10 <= all)
    BY <1>3, <2>2, <2>4
  <2> QED
    BY <2>3, <2>4
<1> HIDE DEF n
<1>7. pages \in Seq(Pdf!Pages) /\ Len(pages) = n - s11 + 1
  <2>1. Len(Pdf!Batch) \in Nat
    BY <1>4
  <2> QED
    BY <1>2, <1>4, <2>1, PdfListed
<1>8. /\ s15' \in Seq(Pdf!Pages) /\ Len(s15') = Len(s15) + (n - s11 + 1)
      /\ Pdf!ToSet(s15') = Pdf!ToSet(s15) \cup Pdf!ToSet(pages)
  <2>1. s15 \in Seq(Pdf!Pages)
    BY PdfTypes
  <2>2. /\ s15' \in Seq(Pdf!Pages) /\ Len(s15') = Len(s15) + Len(pages)
        /\ \A i \in 1..(Len(s15) + Len(pages)) :
             s15'[i] = IF i <= Len(s15) THEN s15[i] ELSE pages[i - Len(s15)]
    BY <1>2, <1>7, <2>1, ConcatProperties
  <2>3. ASSUME NEW p \in Pdf!ToSet(s15') PROVE p \in Pdf!ToSet(s15) \cup Pdf!ToSet(pages)
    <3>1. PICK i \in 1..(Len(s15) + Len(pages)) : p = s15'[i]
      BY <2>2, <2>3 DEF Pdf!ToSet
    <3>2. CASE i <= Len(s15)
      BY <2>1, <2>2, <3>1, <3>2 DEF Pdf!ToSet
    <3>3. CASE ~(i <= Len(s15))
      <4>1. i - Len(s15) \in 1..Len(pages) /\ p = pages[i - Len(s15)]
        BY <1>7, <2>1, <2>2, <3>1, <3>3
      <4> QED
        BY <1>7, <4>1 DEF Pdf!ToSet
    <3> QED
      BY <3>2, <3>3
  <2>4. ASSUME NEW p \in Pdf!ToSet(s15) PROVE p \in Pdf!ToSet(s15')
    <3>1. PICK i \in 1..Len(s15) : p = s15[i]
      BY <2>1, <2>4 DEF Pdf!ToSet
    <3>2. i \in 1..Len(s15') /\ s15'[i] = p
      BY <1>7, <2>1, <2>2, <3>1
    <3> QED
      BY <2>2, <3>2 DEF Pdf!ToSet
  <2>5. ASSUME NEW p \in Pdf!ToSet(pages) PROVE p \in Pdf!ToSet(s15')
    <3>1. PICK i \in 1..Len(pages) : p = pages[i]
      BY <1>7, <2>5 DEF Pdf!ToSet
    <3>2. Len(s15) \in Nat /\ Len(pages) \in Nat
      BY <1>7, <2>1
    <3>3. /\ Len(s15) + i \in 1..(Len(s15) + Len(pages)) /\ Len(s15) + i - Len(s15) = i
          /\ ~(Len(s15) + i <= Len(s15))
      BY <3>2
    <3>4. Len(s15) + i \in 1..Len(s15') /\ s15'[Len(s15) + i] = pages[i]
      BY <2>2, <3>3
    <3> QED
      BY <2>2, <3>1, <3>4 DEF Pdf!ToSet
  <2> QED
    BY <1>7, <2>2, <2>3, <2>4, <2>5
<1>9. {Pdf!Remaining[k][1] : k \in DOMAIN Pdf!Remaining} =
        {Pdf!Batch[k][1] : k \in DOMAIN Pdf!Batch} \cup {Pdf!Remaining'[k][1] : k \in DOMAIN Pdf!Remaining'}
  <2>1. /\ DOMAIN Pdf!Remaining = 1..(all - s11 + 1) /\ DOMAIN Pdf!Batch = 1..(n - s11 + 1)
        /\ DOMAIN Pdf!Remaining' = 1..(all - n)
    BY <1>4, <1>5, <1>6
  <2>2. ASSUME NEW k \in DOMAIN Pdf!Remaining
        PROVE  \/ \E i \in DOMAIN Pdf!Batch : Pdf!Batch[i] = Pdf!Remaining[k]
               \/ \E i \in DOMAIN Pdf!Remaining' : Pdf!Remaining'[i] = Pdf!Remaining[k]
    <3>1. CASE k <= n - s11 + 1
      BY <1>4, <1>5, <2>1, <2>2, <3>1
    <3>2. CASE ~(k <= n - s11 + 1)
      <4>1. k - (n - s11 + 1) \in DOMAIN Pdf!Remaining' /\ n + (k - (n - s11 + 1)) = s11 + k - 1
        BY <1>3, <1>4, <2>1, <2>2, <3>2
      <4> QED
        BY <1>5, <1>6, <2>1, <2>2, <4>1
    <3> QED
      BY <3>1, <3>2
  <2>3. ASSUME NEW k \in DOMAIN Pdf!Batch
        PROVE  \E i \in DOMAIN Pdf!Remaining : Pdf!Remaining[i] = Pdf!Batch[k]
    <3>1. k \in DOMAIN Pdf!Remaining /\ k \in 1..Len(Pdf!Batch) /\ k \in 1..Len(Pdf!Remaining)
      BY <1>3, <1>4, <1>5, <2>1, <2>3
    <3>2. Pdf!Remaining[k] = Pdf!Batch[k]
      BY <1>4, <1>5, <3>1
    <3> QED
      BY <3>1, <3>2
  <2>4. ASSUME NEW k \in DOMAIN Pdf!Remaining'
        PROVE  \E i \in DOMAIN Pdf!Remaining : Pdf!Remaining[i] = Pdf!Remaining'[k]
    <3>1. k \in Nat /\ 1 <= k /\ k <= all - n
      BY <1>3, <1>4, <2>1, <2>4
    <3>2. /\ k + (n - s11 + 1) \in 1..(all - s11 + 1)
          /\ s11 + (k + (n - s11 + 1)) - 1 = n + k
      <4>1. k \in Nat /\ n \in Nat /\ s11 \in Nat /\ all \in Nat /\ s11 <= n /\ 1 <= k /\ k <= all - n
        BY <1>3, <1>4, <3>1
      <4> HIDE DEF all
      <4> QED
        BY <4>1
    <3>3. k + (n - s11 + 1) \in DOMAIN Pdf!Remaining /\ k + (n - s11 + 1) \in 1..Len(Pdf!Remaining)
      BY <1>5, <2>1, <3>2
    <3> QED
      BY <1>5, <1>6, <2>1, <2>4, <3>2, <3>3
  <2> QED
    BY <2>2, <2>3, <2>4
<1>10. Pdf!AllOnce(Pdf!Remaining)'
  <2>1. /\ Len(s15) + Len(Pdf!Remaining) = Len(s3)
        /\ Pdf!Pages = Pdf!ToSet(s15) \cup {Pdf!Remaining[k][1] : k \in DOMAIN Pdf!Remaining}
    BY <1>1 DEF Pdf!AllOnce
  <2>2. Len(s15') + Len(Pdf!Remaining') = Len(s3)
    <3>1. Len(s15) \in Nat
      BY PdfTypes
    <3> QED
      <4> DEFINE a == Len(s15)
                 b == Len(s15')
                 c == Len(Pdf!Remaining)
                 d == Len(Pdf!Remaining')
      <4>1. a \in Nat /\ n \in Nat /\ s11 \in Nat /\ all \in Nat
        BY <1>3, <1>4, <3>1
      <4>2. b = a + (n - s11 + 1) /\ c = all - s11 + 1 /\ d = all - n /\ a + c = Len(s3)
        BY <1>5, <1>6, <1>8, <2>1
      <4> HIDE DEF a, b, c, d, all
      <4>3. b + d = Len(s3)
        BY <4>1, <4>2
      <4> QED
        BY <4>3 DEF b, d
  <2>3. Pdf!Pages = Pdf!ToSet(s15') \cup {Pdf!Remaining'[k][1] : k \in DOMAIN Pdf!Remaining'}
    BY <1>2, <1>8, <1>9, <2>1
  <2> QED
    BY <1>1, <2>2, <2>3 DEF Pdf!AllOnce, Pdf!Pages
<1>11. Pdf!TypeOK'
  <2>1. s11' \in Nat \ {0}
    BY <1>1, <1>3
  <2> QED
    BY <1>1, <1>8, <2>1, PdfTypes, PdfKept
<1>12. Pdf!PagesOnce' /\ Pdf!RowAwaited' /\ Pdf!ToGo'
  BY <1>1, <1>10 DEF Pdf!PagesOnce, Pdf!RowAwaited, Pdf!ToGo
<1> QED
  BY <1>11, <1>12 DEF Pdf!Paged

LEMMA PdfPagedStep == Pdf!PdfRecognitionAssumption /\ Pdf!Paged /\ [Pdf!Next]_(Pdf!vars) => Pdf!Paged'
BY PdfQuietStep, PdfRenderStep, PdfPackStep, PdfRefusedStep, PdfResizeStep, PdfRecordsStep, PdfStutter
   DEF Pdf!Next, Pdf!Work

LEMMA PdfPagedTrue == Pdf!Paged => Pdf!TypeOK /\ Pdf!PagesOnce /\ Pdf!RowsClosed
BY DEF Pdf!Paged, Pdf!RowAwaited, Pdf!RowsClosed

(* A request is begun only where the signal is asked.                      *)
LEMMA PdfObeys == [Pdf!Next]_(Pdf!vars) => Pdf!NoLateRequest
<1> SUFFICES ASSUME [Pdf!Next]_(Pdf!vars), s1' # s1, s1' \in {"ask", "repair"} PROVE ~s2
  BY DEF Pdf!NoLateRequest
<1> QED
  BY DEF Pdf!Next, Pdf!Work, Pdf!vars, Pdf!Stop, Pdf!Aborted, Pdf!Render, Pdf!Pack, Pdf!Ask,
         Pdf!StoppedAnswer, Pdf!Broken, Pdf!Refused, Pdf!Resize, Pdf!Records, Pdf!Malformed,
      Pdf!Described, Pdf!Fail

(* The batch at work and the pages from its first on, by the pages to send. *)
LEMMA PdfAtWork ==
  ASSUME Pdf!Paged, s1 \in {"ask", "repair"}
  PROVE  LET n == IF s11 + s10 - 1 <= Len(s9) THEN s11 + s10 - 1 ELSE Len(s9)
         IN /\ s11 \in 1..Len(s9) /\ s10 \in Nat \ {0} /\ n \in s11..Len(s9)
            /\ Pdf!Batch \in PdfPageSeqs /\ Len(Pdf!Batch) = n - s11 + 1
            /\ \A i \in 1..Len(Pdf!Batch) : Pdf!Batch[i] = s9[s11 + i - 1]
            /\ Pdf!Remaining \in PdfPageSeqs /\ Len(Pdf!Remaining) = Len(s9) - s11 + 1
            /\ \A i \in 1..Len(Pdf!Remaining) : Pdf!Remaining[i] = s9[s11 + i - 1]
<1>1. /\ s11 \in Nat \ {0} /\ s10 \in Nat \ {0} /\ s9 \in Seq(Pdf!Pages \X BOOLEAN) /\ Len(s9) \in Nat
      /\ s11 <= Len(s9)
  BY PdfTypes DEF Pdf!Paged, Pdf!ToGo, PdfPageSeqs
<1> DEFINE n == IF s11 + s10 - 1 <= Len(s9) THEN s11 + s10 - 1 ELSE Len(s9)
<1>2. n \in s11..Len(s9) /\ s11 \in 1..Len(s9)
  BY <1>1
<1>3. /\ Pdf!Batch \in Seq(Pdf!Pages \X BOOLEAN) /\ Len(Pdf!Batch) = (IF s11 <= n THEN n - s11 + 1 ELSE 0)
      /\ \A i \in 1..Len(Pdf!Batch) : Pdf!Batch[i] = s9[s11 + i - 1]
  <2>1. /\ Pdf!Batch \in Seq(Pdf!Pages \X BOOLEAN)
        /\ LET m == IF s11 + s10 - 1 <= Len(s9) THEN s11 + s10 - 1 ELSE Len(s9)
           IN Len(Pdf!Batch) = (IF s11 <= m THEN m - s11 + 1 ELSE 0)
    BY <1>1, PdfBatches DEF Pdf!Batch
  <2>2. \A i \in 1..Len(Pdf!Batch) : Pdf!Batch[i] = s9[s11 + i - 1]
    BY <1>1, PdfBatchPages DEF Pdf!Batch
  <2> QED
    BY <2>1, <2>2
<1>4. /\ Pdf!Remaining \in Seq(Pdf!Pages \X BOOLEAN)
      /\ Len(Pdf!Remaining) = (IF s11 <= Len(s9) THEN Len(s9) - s11 + 1 ELSE 0)
      /\ \A i \in 1..Len(Pdf!Remaining) : Pdf!Remaining[i] = s9[s11 + i - 1]
  BY <1>1, PdfRemainders DEF Pdf!Remaining
<1> QED
  BY <1>1, <1>2, <1>3, <1>4 DEF PdfPageSeqs

(* With a smaller budget no more pages are a batch.                        *)
LEMMA PdfFewerPages ==
  ASSUME Pdf!PdfRecognitionAssumption, s7 \in Nat, s7' \in Nat, s7' <= s7
  PROVE  Pdf!PagesPerBatch \in Nat /\ Pdf!PagesPerBatch' \in Nat /\ Pdf!PagesPerBatch' <= Pdf!PagesPerBatch
<1>1. ASSUME NEW a \in Nat, NEW b \in Nat, NEW d \in Nat \ {0}, a <= b
      PROVE  a \div d \in Nat /\ b \div d \in Nat /\ a \div d <= b \div d
  BY <1>1
<1>2. Fixed \in Nat /\ Reserved \in Nat \ {0}
  BY DEF Pdf!PdfRecognitionAssumption
<1>3. CASE s7' < Fixed
  <2>1. Pdf!PagesPerBatch' = 0
    BY <1>3 DEF Pdf!PagesPerBatch
  <2>2. CASE s7 < Fixed
    BY <2>1, <2>2 DEF Pdf!PagesPerBatch
  <2>3. CASE ~(s7 < Fixed)
    <3>1. s7 - Fixed \in Nat
      BY <1>2, <2>3
    <3>2. (s7 - Fixed) \div Reserved \in Nat
      BY <1>1, <1>2, <3>1
    <3> QED
      BY <2>1, <2>3, <3>2 DEF Pdf!PagesPerBatch
  <2> QED
    BY <2>2, <2>3
<1>4. CASE ~(s7' < Fixed)
  <2>1. s7 - Fixed \in Nat /\ s7' - Fixed \in Nat /\ s7' - Fixed <= s7 - Fixed /\ ~(s7 < Fixed)
    <3>1. ASSUME NEW a \in Nat, NEW b \in Nat, NEW f \in Nat, b <= a, ~(b < f)
          PROVE  a - f \in Nat /\ b - f \in Nat /\ b - f <= a - f /\ ~(a < f)
      BY <3>1
    <3> QED
      BY <1>2, <1>4, <3>1
  <2>2. /\ (s7 - Fixed) \div Reserved \in Nat /\ (s7' - Fixed) \div Reserved \in Nat
        /\ (s7' - Fixed) \div Reserved <= (s7 - Fixed) \div Reserved
    BY <1>1, <1>2, <2>1
  <2> QED
    BY <1>4, <2>1, <2>2 DEF Pdf!PagesPerBatch
<1> QED
  BY <1>3, <1>4

(* Refusals are forgotten by no step that leaves the pages where they are. *)
LEMMA PdfTurnBegins == Pdf!Init => Pdf!InTurn /\ Pdf!Past /\ Pdf!Longer
<1> SUFFICES ASSUME Pdf!Init PROVE Pdf!InTurn /\ Pdf!Past /\ Pdf!Longer
  OBVIOUS
<1>1. s9 = <<>> /\ s17 = {} /\ s1 = "render"
  BY DEF Pdf!Init
<1>2. DOMAIN s9 = {}
  BY <1>1
<1> QED
  BY <1>1, <1>2 DEF Pdf!InTurn, Pdf!Past, Pdf!Longer

LEMMA PdfTurnStill ==
  ASSUME Pdf!Inv, UNCHANGED <<Pdf!provider, Pdf!recovery, Pdf!packing>>,
         \/ s1' = s1 \/ s1' \in {"failed", "described"}
         \/ s1 = "next" /\ s1' = "ask"
         \/ s1 = "ask" /\ s1' = "repair"
  PROVE  (Pdf!InTurn /\ Pdf!Past /\ Pdf!Longer)'
<1>1. UNCHANGED <<s3, s7, s13, s14, s17, s9, s10, s11>>
  BY DEF Pdf!provider, Pdf!recovery, Pdf!packing
<1>2. Pdf!InTurn' /\ Pdf!Past'
  BY <1>1 DEF Pdf!Inv, Pdf!InTurn, Pdf!Past
<1>3. Pdf!Again' = Pdf!Again /\ Pdf!PagesPerBatch' = Pdf!PagesPerBatch
  BY <1>1 DEF Pdf!Again, Pdf!PagesPerBatch
<1>4. Pdf!Longer'
  BY <1>1, <1>3 DEF Pdf!Inv, Pdf!Longer
<1> QED
  BY <1>2, <1>4

LEMMA PdfTurnQuietStep ==
  Pdf!Inv /\
  (Pdf!Stop \/ Pdf!Aborted \/ Pdf!Ask \/ Pdf!Broken \/ Pdf!StoppedAnswer \/ Pdf!Malformed \/ Pdf!Described \/
  UNCHANGED Pdf!vars)
    => (Pdf!InTurn /\ Pdf!Past /\ Pdf!Longer)'
<1> SUFFICES ASSUME Pdf!Inv, Pdf!Stop \/ Pdf!Aborted \/ Pdf!Ask \/ Pdf!Broken \/ Pdf!StoppedAnswer \/
                    Pdf!Malformed \/ Pdf!Described \/ UNCHANGED Pdf!vars
             PROVE  (Pdf!InTurn /\ Pdf!Past /\ Pdf!Longer)'
  OBVIOUS
<1>1. UNCHANGED <<Pdf!provider, Pdf!recovery, Pdf!packing>>
  BY DEF Pdf!Stop, Pdf!Aborted, Pdf!Ask, Pdf!Broken, Pdf!StoppedAnswer, Pdf!Malformed, Pdf!Described,
     Pdf!vars, Pdf!provider, Pdf!recovery, Pdf!packing
<1>2. \/ s1' = s1 \/ s1' \in {"failed", "described"}
      \/ s1 = "next" /\ s1' = "ask"
      \/ s1 = "ask" /\ s1' = "repair"
  BY DEF Pdf!Stop, Pdf!Aborted, Pdf!Ask, Pdf!Broken, Pdf!StoppedAnswer, Pdf!Malformed, Pdf!Described,
     Pdf!vars, Pdf!Fail, Pdf!Answer
<1> QED
  BY <1>1, <1>2, PdfTurnStill

LEMMA PdfTurnRenderStep == Pdf!Inv /\ Pdf!Render => (Pdf!InTurn /\ Pdf!Past /\ Pdf!Longer)'
<1> SUFFICES ASSUME Pdf!Inv, Pdf!Render PROVE (Pdf!InTurn /\ Pdf!Past /\ Pdf!Longer)'
  OBVIOUS
<1>1. s1 = "render" /\ UNCHANGED <<Pdf!provider, Pdf!recovery, s10, s11>> /\ s17 = {}
  BY DEF Pdf!Render, Pdf!Inv, Pdf!Past
<1>2. CASE s1' \in {s1, "failed"} /\ UNCHANGED s9
  BY <1>1, <1>2, PdfTurnStill DEF Pdf!packing
<1>3. CASE s1' = "batch" /\ s9' = [p \in Pdf!Pages |-> <<p, FALSE>>]
  <2>1. s3' = s3 /\ s17' = {}
    BY <1>1 DEF Pdf!provider, Pdf!recovery
  <2>2. /\ s9' \in Seq(Pdf!Pages \X BOOLEAN) /\ Len(s9') = Len(s3) /\ DOMAIN s9' = 1..Len(s3)
        /\ Len(s3) \in Nat /\ \A k \in 1..Len(s3) : s9'[k] = <<k, FALSE>>
    <3>1. Pdf!Pages = 1..Len(s3) /\ Len(s3) \in Nat
      BY PdfTypes DEF Pdf!Inv
    <3>2. s9' \in [1..Len(s3) -> Pdf!Pages \X BOOLEAN]
      BY <1>3, <3>1
    <3> QED
      BY <1>3, <3>1, <3>2, PdfListed
  <2>3. Pdf!InTurn'
    <3> SUFFICES ASSUME NEW k \in 1..Len(s3)
                 PROVE  /\ s9'[k][1] = Len(s3) - Len(s3) + k
                        /\ s9'[k][2] => k = 1 /\ s9'[k][1] \in s14'
      BY <2>1, <2>2 DEF Pdf!InTurn
    <3>1. s9'[k] = <<k, FALSE>>
      BY <2>2
    <3>2. Len(s3) - Len(s3) + k = k
      BY <2>2
    <3> QED
      BY <3>1, <3>2
  <2>4. Pdf!Past' /\ Pdf!Longer'
    BY <1>3, <2>1 DEF Pdf!Past, Pdf!Longer, Pdf!Again
  <2> QED
    BY <2>3, <2>4
<1> QED
  BY <1>1, <1>2, <1>3 DEF Pdf!Render, Pdf!Fail

(* What begins as a refused batch is packed smaller than it.               *)
LEMMA PdfTurnPackStep ==
  Pdf!PdfRecognitionAssumption /\ Pdf!Inv /\ Pdf!Pack => (Pdf!InTurn /\ Pdf!Past /\ Pdf!Longer)'
<1> SUFFICES ASSUME Pdf!PdfRecognitionAssumption, Pdf!Inv, Pdf!Pack
             PROVE  (Pdf!InTurn /\ Pdf!Past /\ Pdf!Longer)'
  OBVIOUS
<1>1. s1 = "batch" /\ UNCHANGED <<s3, s9, s13, s14, s17>> /\ UNCHANGED Pdf!provider
  BY DEF Pdf!Pack, Pdf!provider
<1>2. /\ s7 \in Nat \ {0} /\ s6 \in Nat /\ s4 \in PdfWindows /\ s3 \in Seq(Costs)
      /\ s9 \in Seq(Pdf!Pages \X BOOLEAN) /\ Len(s9) \in Nat \ {0} /\ s17 \subseteq PdfPageSeqs
  <2>1. s6 \in Nat
    BY PdfTypes DEF Pdf!PdfRecognitionAssumption, Pdf!Inv
  <2>2. s9 # <<>>
    BY <1>1 DEF Pdf!Inv, Pdf!Paged, Pdf!ToGo
  <2> QED
    BY <2>1, <2>2, PdfTypes DEF Pdf!Inv, PdfPageSeqs
<1>3. Pdf!InTurn' /\ Pdf!Again' = Pdf!Again
  BY <1>1 DEF Pdf!Inv, Pdf!InTurn, Pdf!Again
<1>4. Pdf!Past'
  BY <1>1 DEF Pdf!Inv, Pdf!Past, Pdf!Pack, Pdf!Fail
<1>5. Pdf!PagesPerBatch \in Nat
  <2>1. ASSUME NEW a \in Nat, NEW d \in Nat \ {0} PROVE a \div d \in Nat
    BY <2>1
  <2>2. Fixed \in Nat /\ Reserved \in Nat \ {0}
    BY DEF Pdf!PdfRecognitionAssumption
  <2>3. CASE ~(s7 < Fixed)
    <3>1. s7 - Fixed \in Nat
      BY <1>2, <2>2, <2>3
    <3> QED
      BY <2>1, <2>2, <2>3, <3>1 DEF Pdf!PagesPerBatch
  <2> QED
    BY <2>3 DEF Pdf!PagesPerBatch
<1>6. CASE s1' = "failed"
  BY <1>3, <1>4, <1>6 DEF Pdf!Longer
<1>7. CASE s1' = s1 /\ s7' = Pdf!Shrunk(Pdf!BatchAt(1, Pdf!PagesPerBatch)) /\ Pdf!PagesPerBatch # 0
  <2>1. Pdf!BatchAt(1, Pdf!PagesPerBatch) \in PdfPageSeqs
    <3>1. Pdf!PagesPerBatch \in Nat \ {0} /\ 1 \in Nat \ {0}
      BY <1>5, <1>7
    <3> QED
      BY <1>2, <3>1, PdfBatches DEF PdfPageSeqs
  <2>2. s7' \in Nat /\ s7' <= s7 /\ s7 \in Nat
    BY <1>2, <1>7, <2>1, PdfShrinks
  <2>3. Pdf!PagesPerBatch' \in Nat /\ Pdf!PagesPerBatch' <= Pdf!PagesPerBatch
    BY <2>2, PdfFewerPages
  <2>4. Pdf!Longer'
    <3> SUFFICES ASSUME NEW batch \in Pdf!Again
                 PROVE  /\ s13 = SubSeq(s9, 1, Len(s13)) /\ Len(s13) \in 1..Len(batch)
                        /\ Len(s13) \in 1..Len(s9)
                        /\ Pdf!PagesPerBatch' <= Len(s13) \/ Len(s13) = Len(s9)
      BY <1>1, <1>3, <1>7 DEF Pdf!Longer
    <3>1. /\ s13 = SubSeq(s9, 1, Len(s13)) /\ Len(s13) \in 1..Len(batch)
          /\ Len(s13) \in 1..Len(s9)
          /\ Pdf!PagesPerBatch <= Len(s13) \/ Len(s13) = Len(s9)
      BY <1>1 DEF Pdf!Inv, Pdf!Longer
    <3>2. Len(s13) \in Nat
      BY <1>2, <3>1
    <3> QED
      BY <1>5, <2>3, <3>1, <3>2
  <2> QED
    BY <1>3, <1>4, <2>4
<1>8. CASE /\ s1' = "next" /\ s11' = 1 /\ s10' = Pdf!PagesPerBatch /\ s7' = s7 /\ Pdf!PagesPerBatch # 0
           /\ ~(s13 # <<>> /\ Pdf!BatchAt(1, Pdf!PagesPerBatch) = s13)
  <2>1. Pdf!PagesPerBatch' = Pdf!PagesPerBatch
    BY <1>8 DEF Pdf!PagesPerBatch
  <2>2. ASSUME NEW batch \in Pdf!Again PROVE Len(batch) > Pdf!PagesPerBatch
    <3> DEFINE m == Len(s13)
               n == IF Pdf!PagesPerBatch <= Len(s9) THEN Pdf!PagesPerBatch ELSE Len(s9)
    <3>1. /\ s13 = SubSeq(s9, 1, m) /\ m \in 1..Len(batch) /\ m \in 1..Len(s9)
          /\ Pdf!PagesPerBatch <= m \/ m = Len(s9)
      BY <1>1 DEF Pdf!Inv, Pdf!Longer
    <3>2. s13 # <<>>
      <4>1. m # 0
        BY <3>1
      <4> QED
        BY <4>1
    <3>3. Pdf!BatchAt(1, Pdf!PagesPerBatch) = SubSeq(s9, 1, n)
      <4>1. Pdf!Min({Pdf!PagesPerBatch, Len(s9)}) = n
        BY <1>2, <1>5, PdfMinMax
      <4>2. 1 + Pdf!PagesPerBatch - 1 = Pdf!PagesPerBatch
        BY <1>5
      <4> QED
        BY <4>1, <4>2 DEF Pdf!BatchAt
    <3>4. n # m
      BY <1>8, <3>1, <3>2, <3>3
    <3>5. Len(batch) \in Nat
      BY <1>2 DEF Pdf!Again, PdfPageSeqs
    <3>6. m \in Nat /\ m <= Len(batch) /\ m <= Len(s9)
      BY <1>2, <3>1, <3>5
    <3> HIDE DEF m
    <3> QED
      BY <1>2, <1>5, <3>1, <3>4, <3>5, <3>6
  <2>3. Pdf!Longer'
    BY <1>3, <1>8, <2>1, <2>2 DEF Pdf!Longer
  <2> QED
    BY <1>3, <1>4, <2>3
<1> QED
  BY <1>6, <1>7, <1>8 DEF Pdf!Pack, Pdf!Fail

(* A refused batch becomes the last one, and every earlier one that begins *)
(* as it does is longer.                                                   *)
LEMMA PdfTurnRefusedStep ==
  Pdf!PdfRecognitionAssumption /\ Pdf!Inv /\ Pdf!Refused => (Pdf!InTurn /\ Pdf!Past /\ Pdf!Longer)'
<1> SUFFICES ASSUME Pdf!PdfRecognitionAssumption, Pdf!Inv, Pdf!Refused
             PROVE  (Pdf!InTurn /\ Pdf!Past /\ Pdf!Longer)'
  OBVIOUS
<1>1. /\ s1 \in {"ask", "repair"} /\ s17' = s17 \cup {Pdf!Batch} /\ s13' = Pdf!Batch
      /\ UNCHANGED <<s3, s10, s11>>
  BY DEF Pdf!Refused, Pdf!provider
<1> DEFINE n == IF s11 + s10 - 1 <= Len(s9) THEN s11 + s10 - 1 ELSE Len(s9)
           all == Len(s9)
<1>2. /\ s11 \in 1..all /\ s10 \in Nat \ {0} /\ n \in s11..all
      /\ Pdf!Batch \in PdfPageSeqs /\ Len(Pdf!Batch) = n - s11 + 1
      /\ \A i \in 1..Len(Pdf!Batch) : Pdf!Batch[i] = s9[s11 + i - 1]
      /\ Pdf!Remaining \in PdfPageSeqs /\ Len(Pdf!Remaining) = all - s11 + 1
      /\ \A i \in 1..Len(Pdf!Remaining) : Pdf!Remaining[i] = s9[s11 + i - 1]
  BY <1>1, PdfAtWork DEF Pdf!Inv
<1>3. /\ s9 \in Seq(Pdf!Pages \X BOOLEAN) /\ all \in Nat /\ Len(s3) \in Nat /\ DOMAIN s9 = 1..all
      /\ s17 \subseteq PdfPageSeqs /\ Pdf!Pages = 1..Len(s3) /\ s7 \in Nat \ {0} /\ s4 \in PdfWindows
      /\ s3 \in Seq(Costs)
  <2>1. s6 \in Nat
    BY PdfTypes DEF Pdf!PdfRecognitionAssumption, Pdf!Inv
  <2> QED
    BY <2>1, PdfTypes DEF Pdf!Inv, PdfPageSeqs
<1>4. \A k \in 1..all : s9[k][1] = Len(s3) - all + k /\ (s9[k][2] => k = 1 /\ s9[k][1] \in s14)
  BY <1>3 DEF Pdf!Inv, Pdf!InTurn
<1>5. \A batch \in s17 :
        batch # <<>> /\ batch[1][1] <= s9[1][1] /\ (batch[1][2] => batch[1][1] \in s14)
  BY <1>1 DEF Pdf!Inv, Pdf!Past
<1>6. CASE s1' = "failed" /\ UNCHANGED <<s9, s14>>
  <2>1. Pdf!InTurn'
    BY <1>1, <1>6 DEF Pdf!Inv, Pdf!InTurn
  <2> QED
    BY <1>6, <2>1 DEF Pdf!Past, Pdf!Longer
<1>7. CASE /\ s9' = Pdf!Remaining /\ s7' = Pdf!Shrunk(Pdf!Batch)
           /\ IF Len(Pdf!Batch) = 1 THEN s1' = "resize" /\ s14' = s14 \cup {Pdf!Batch[1][1]}
              ELSE s1' = "batch" /\ UNCHANGED s14
           /\ ~(Len(Pdf!Batch) = 1 /\ Pdf!Batch[1][1] \in s14)
  <2>1. /\ Len(Pdf!Remaining) \in Nat \ {0} /\ Len(Pdf!Batch) \in 1..Len(Pdf!Remaining) /\ s11 \in Nat
        /\ s10 \in Nat
        /\ n \in Nat
    BY <1>2, <1>3
  <2>2. DOMAIN Pdf!Remaining = 1..Len(Pdf!Remaining)
    BY <1>2 DEF PdfPageSeqs
  <2>3. s14 \subseteq s14'
    BY <1>7
  <2> DEFINE h == Len(s3) - all + s11
  <2>4. /\ Pdf!Remaining[1] = s9[s11] /\ Pdf!Batch[1] = s9[s11] /\ s9[s11][1] = h
        /\ (s9[s11][2] => s9[s11][1] \in s14)
    <3>1. 1 \in 1..Len(Pdf!Batch) /\ 1 \in 1..Len(Pdf!Remaining) /\ s11 + 1 - 1 = s11
      BY <2>1
    <3>2. Pdf!Remaining[1] = s9[s11 + 1 - 1] /\ Pdf!Batch[1] = s9[s11 + 1 - 1]
      BY <1>2, <3>1
    <3> QED
      BY <1>2, <1>4, <3>1, <3>2
  <2>5. s9[1][1] = Len(s3) - all + 1 /\ s9[1][1] <= h /\ s9[1][1] \in Int /\ h \in Int
    <3>1. 1 \in 1..all
      BY <1>2, <1>3
    <3>2. s9[1][1] = Len(s3) - all + 1
      BY <1>4, <3>1
    <3> QED
      BY <1>2, <1>3, <2>1, <3>2
  <2>6. \A batch \in s17 : batch[1] \in Pdf!Pages \X BOOLEAN /\ batch[1][1] \in Nat
    <3> SUFFICES ASSUME NEW batch \in s17 PROVE batch[1] \in Pdf!Pages \X BOOLEAN /\ batch[1][1] \in Nat
      OBVIOUS
    <3>1. batch \in Seq(Pdf!Pages \X BOOLEAN) /\ batch # <<>>
      BY <1>3, <1>5 DEF PdfPageSeqs
    <3>2. batch[1] \in Pdf!Pages \X BOOLEAN
      BY <3>1
    <3> QED
      BY <1>3, <3>2
  <2> HIDE DEF n, all, h
  <2>7. Pdf!InTurn'
    <3> SUFFICES ASSUME NEW k \in 1..Len(Pdf!Remaining)
                 PROVE  /\ Pdf!Remaining[k][1] = Len(s3) - Len(Pdf!Remaining) + k
                        /\ Pdf!Remaining[k][2] => k = 1 /\ Pdf!Remaining[k][1] \in s14'
      BY <1>1, <1>7, <2>2 DEF Pdf!InTurn
    <3>1. s11 + k - 1 \in 1..all /\ k \in Nat
      BY <1>2, <1>3, <2>1
    <3>2. Pdf!Remaining[k] = s9[s11 + k - 1]
      BY <1>2
    <3>3. /\ Pdf!Remaining[k][1] = Len(s3) - all + (s11 + k - 1)
          /\ Pdf!Remaining[k][2] => s11 + k - 1 = 1 /\ Pdf!Remaining[k][1] \in s14
      BY <1>4, <3>1, <3>2
    <3>4. Len(s3) - Len(Pdf!Remaining) + k = Len(s3) - all + (s11 + k - 1)
      BY <1>2, <1>3, <2>1, <3>1
    <3>5. s11 + k - 1 = 1 => k = 1
      BY <1>2, <1>3, <2>1, <3>1
    <3> QED
      BY <2>3, <3>3, <3>4, <3>5
  <2>8. Pdf!Past'
    <3> SUFFICES ASSUME NEW batch \in s17 \cup {Pdf!Batch}
                 PROVE  /\ batch # <<>> /\ batch[1][1] <= Pdf!Remaining[1][1]
                        /\ (batch[1][2] => batch[1][1] \in s14')
      BY <1>1, <1>7 DEF Pdf!Past
    <3>1. CASE batch \in s17
      <4>1. batch # <<>> /\ batch[1][1] <= s9[1][1] /\ (batch[1][2] => batch[1][1] \in s14)
        BY <1>5, <3>1
      <4>2. batch[1][1] \in Nat
        BY <2>6, <3>1
      <4> QED
        BY <2>3, <2>4, <2>5, <4>1, <4>2
    <3>2. CASE batch = Pdf!Batch
      <4>1. Pdf!Batch # <<>>
        <5>1. Len(Pdf!Batch) # 0
          BY <2>1
        <5> QED
          BY <5>1
      <4> QED
        BY <2>3, <2>4, <2>5, <3>2, <4>1
    <3> QED
      BY <3>1, <3>2
  <2>9. CASE Len(Pdf!Batch) = 1
    <3>1. s1' = "resize" /\ s14' = s14 \cup {h} /\ h \notin s14
      BY <1>7, <2>4, <2>9
    <3>2. ASSUME NEW batch \in s17 \cup {Pdf!Batch}, batch[1] = <<h, TRUE>> PROVE FALSE
      <4>1. batch[1][1] = h /\ batch[1][2]
        BY <3>2
      <4>2. batch[1][1] \in s14
        BY <1>5, <2>4, <4>1
      <4> QED
        BY <3>1, <4>1, <4>2
    <3>3. Pdf!Longer'
      BY <1>1, <1>7, <2>4, <3>1, <3>2 DEF Pdf!Longer
    <3> QED
      BY <2>7, <2>8, <3>3
  <2>10. CASE Len(Pdf!Batch) # 1
    <3>1. s1' = "batch"
      BY <1>7, <2>10
    <3>2. Pdf!PagesPerBatch' <= s10 /\ Pdf!PagesPerBatch' \in Nat
      <4>1. s7' \in Nat /\ s7' <= s7 /\ s7 \in Nat
        BY <1>2, <1>3, <1>7, PdfShrinks
      <4>2. s10 = Pdf!PagesPerBatch
        BY <1>1 DEF Pdf!Inv, Pdf!Longer
      <4> QED
        BY <4>1, <4>2, PdfFewerPages
    <3>3. Pdf!PagesPerBatch' <= Len(Pdf!Batch) \/ Len(Pdf!Batch) = Len(Pdf!Remaining)
      BY <1>2, <1>3, <2>1, <3>2 DEF n, all
    <3>4. Pdf!Batch = SubSeq(Pdf!Remaining, 1, Len(Pdf!Batch))
      <4>1. Pdf!Batch \in Seq(Pdf!Pages \X BOOLEAN) /\ Pdf!Remaining \in Seq(Pdf!Pages \X BOOLEAN)
        BY <1>2 DEF PdfPageSeqs
      <4>2. \A i \in 1..Len(Pdf!Batch) : Pdf!Batch[i] = Pdf!Remaining[i]
        BY <1>2, <2>1
      <4> DEFINE l == Len(Pdf!Batch)
                 begin == SubSeq(Pdf!Remaining, 1, l)
      <4>3. l \in Nat \ {0} /\ l <= Len(Pdf!Remaining)
        BY <2>1
      <4> HIDE DEF l
      <4>4. \A i \in 1..l : Pdf!Remaining[i] \in Pdf!Pages \X BOOLEAN
        BY <2>1, <4>1, <4>3
      <4>5. /\ begin \in Seq(Pdf!Pages \X BOOLEAN) /\ Len(begin) = l
            /\ \A i \in 1..l : begin[i] = Pdf!Remaining[i]
        <5>1. /\ begin \in Seq(Pdf!Pages \X BOOLEAN) /\ Len(begin) = IF 1 <= l THEN l - 1 + 1 ELSE 0
              /\ \A i \in 1..(l - 1 + 1) : begin[i] = Pdf!Remaining[1 + i - 1]
          BY <4>3, <4>4, SubSeqProperties
        <5> QED
          BY <4>3, <5>1
      <4> HIDE DEF begin
      <4>6. Pdf!Batch = begin
        BY <4>1, <4>2, <4>5, SeqEqual DEF l
      <4> QED
        BY <4>6 DEF begin, l
    <3>5. ASSUME NEW batch \in s17 \cup {Pdf!Batch}, batch[1] = Pdf!Remaining[1]
          PROVE  Len(Pdf!Batch) \in 1..Len(batch)
      <4>1. CASE batch = Pdf!Batch
        BY <2>1, <4>1
      <4>2. CASE batch \in s17
        <5>1. s11 = 1
          <6>1. batch[1][1] = h /\ batch[1][1] <= s9[1][1]
            BY <1>5, <2>4, <3>5, <4>2
          <6> QED
            BY <1>2, <1>3, <2>1, <2>5, <6>1 DEF h
        <5>2. batch \in Pdf!Again
          BY <2>4, <3>5, <4>2, <5>1 DEF Pdf!Again
        <5>3. Len(batch) > s10
          BY <1>1, <5>1, <5>2 DEF Pdf!Inv, Pdf!Longer
        <5>4. Len(batch) \in Nat
          BY <1>3, <4>2 DEF PdfPageSeqs
        <5>5. Len(Pdf!Batch) <= s10 /\ Len(Pdf!Batch) \in Nat \ {0}
          BY <1>2, <1>3, <2>1 DEF n
        <5> QED
          BY <2>1, <5>3, <5>4, <5>5
      <4> QED
        BY <4>1, <4>2
    <3>6. Pdf!Longer'
      <4> SUFFICES ASSUME NEW batch \in s17 \cup {Pdf!Batch}, batch[1] = Pdf!Remaining[1]
                   PROVE  /\ Pdf!Batch = SubSeq(Pdf!Remaining, 1, Len(Pdf!Batch))
                          /\ Len(Pdf!Batch) \in 1..Len(batch)
                          /\ Len(Pdf!Batch) \in 1..Len(Pdf!Remaining)
                          /\ Pdf!PagesPerBatch' <= Len(Pdf!Batch) \/ Len(Pdf!Batch) = Len(Pdf!Remaining)
        BY <1>1, <1>7, <3>1 DEF Pdf!Longer, Pdf!Again
      <4> QED
        BY <2>1, <3>3, <3>4, <3>5
    <3> QED
      BY <2>7, <2>8, <3>6
  <2> QED
    BY <2>9, <2>10
<1> QED
  BY <1>6, <1>7 DEF Pdf!Refused, Pdf!Fail

LEMMA PdfTurnResizeStep == Pdf!Inv /\ Pdf!Resize => (Pdf!InTurn /\ Pdf!Past /\ Pdf!Longer)'
<1> SUFFICES ASSUME Pdf!Inv, Pdf!Resize PROVE (Pdf!InTurn /\ Pdf!Past /\ Pdf!Longer)'
  OBVIOUS
<1>1. s1 = "resize" /\ UNCHANGED <<Pdf!provider, Pdf!recovery, s10, s11>> /\ s9 # <<>>
  BY DEF Pdf!Resize, Pdf!Inv, Pdf!Paged, Pdf!ToGo
<1>2. CASE s1' = "failed" /\ UNCHANGED s9
  BY <1>1, <1>2, PdfTurnStill DEF Pdf!packing
<1>3. CASE s1' = "batch" /\ s9' = [s9 EXCEPT ![1] = <<@[1], TRUE>>]
  <2>1. UNCHANGED <<s3, s17, s14>>
    BY <1>1 DEF Pdf!provider, Pdf!recovery
  <2>2. s9 \in Seq(Pdf!Pages \X BOOLEAN) /\ Len(s9) \in Nat \ {0} /\ DOMAIN s9 = 1..Len(s9)
    BY <1>1, PdfTypes DEF Pdf!Inv, PdfPageSeqs
  <2>3. /\ Len(s9') = Len(s9) /\ DOMAIN s9' = DOMAIN s9
        /\ s9'[1] = <<s9[1][1], TRUE>>
        /\ \A k \in DOMAIN s9 : k # 1 => s9'[k] = s9[k]
    <3>1. 1 \in DOMAIN s9 /\ s9[1] \in Pdf!Pages \X BOOLEAN
      BY <2>2
    <3>2. <<s9[1][1], TRUE>> \in Pdf!Pages \X BOOLEAN
      BY <3>1
    <3>3. s9' = [s9 EXCEPT ![1] = <<s9[1][1], TRUE>>]
      BY <1>3
    <3>4. s9' \in Seq(Pdf!Pages \X BOOLEAN) /\ Len(s9') = Len(s9)
      BY <2>2, <3>2, <3>3
    <3> QED
      BY <2>2, <3>1, <3>3, <3>4
  <2>4. /\ s9[1][1] \in s14 /\ \A batch \in s17 : batch[1] # <<s9[1][1], TRUE>>
    BY <1>1 DEF Pdf!Inv, Pdf!Longer
  <2>5. s9'[1][1] = s9[1][1]
    BY <2>3
  <2>6. Pdf!InTurn'
    <3> SUFFICES ASSUME NEW k \in DOMAIN s9
                 PROVE  /\ s9'[k][1] = Len(s3) - Len(s9) + k
                        /\ s9'[k][2] => k = 1 /\ s9'[k][1] \in s14
      BY <2>1, <2>3 DEF Pdf!InTurn
    <3>1. s9[k][1] = Len(s3) - Len(s9) + k /\ (s9[k][2] => k = 1 /\ s9[k][1] \in s14)
      BY DEF Pdf!Inv, Pdf!InTurn
    <3> QED
      BY <2>3, <2>4, <2>5, <3>1
  <2>7. Pdf!Past'
    BY <1>1, <1>3, <2>1, <2>5 DEF Pdf!Inv, Pdf!Past
  <2>8. Pdf!Again' = {}
    BY <2>1, <2>3, <2>4 DEF Pdf!Again
  <2>9. Pdf!Longer'
    BY <1>3, <2>8 DEF Pdf!Longer
  <2> QED
    BY <2>6, <2>7, <2>9
<1> QED
  BY <1>2, <1>3 DEF Pdf!Resize, Pdf!Fail

LEMMA PdfTurnRecordsStep == Pdf!Inv /\ Pdf!Records => (Pdf!InTurn /\ Pdf!Past /\ Pdf!Longer)'
<1> SUFFICES ASSUME Pdf!Inv, Pdf!Records PROVE (Pdf!InTurn /\ Pdf!Past /\ Pdf!Longer)'
  OBVIOUS
<1>1. /\ s1 \in {"ask", "repair"} /\ s1' = "next" /\ s11' = s11 + s10
      /\ UNCHANGED <<s3, s7, s13, s14, s17, s9, s10>>
  BY DEF Pdf!Records, Pdf!Answer, Pdf!provider, Pdf!recovery
<1>2. Pdf!InTurn' /\ Pdf!Past'
  BY <1>1 DEF Pdf!Inv, Pdf!InTurn, Pdf!Past
<1>3. s11' # 1
  <2>1. s11 \in Nat \ {0} /\ s10 \in Nat \ {0}
    BY <1>1, PdfTypes DEF Pdf!Inv, Pdf!Paged, Pdf!ToGo
  <2> QED
    BY <1>1, <2>1
<1>4. Pdf!PagesPerBatch' = Pdf!PagesPerBatch
  BY <1>1 DEF Pdf!PagesPerBatch
<1>5. Pdf!Longer'
  BY <1>1, <1>3, <1>4 DEF Pdf!Inv, Pdf!Longer
<1> QED
  BY <1>2, <1>5

LEMMA PdfTurnStep ==
  Pdf!PdfRecognitionAssumption /\ Pdf!Inv /\ [Pdf!Next]_(Pdf!vars) => (Pdf!InTurn /\ Pdf!Past /\ Pdf!Longer)'
BY PdfTurnQuietStep, PdfTurnRenderStep, PdfTurnPackStep, PdfTurnRefusedStep, PdfTurnResizeStep,
   PdfTurnRecordsStep DEF Pdf!Next, Pdf!Work

(* No batch is asked that was refused: one that begins as it does is longer. *)
LEMMA PdfNotAgain == Pdf!Inv => Pdf!NeverRefusedAgain
<1> SUFFICES ASSUME Pdf!Inv, s1 = "ask", Pdf!Batch \in s17 PROVE FALSE
  BY DEF Pdf!NeverRefusedAgain
<1> DEFINE n == IF s11 + s10 - 1 <= Len(s9) THEN s11 + s10 - 1 ELSE Len(s9)
<1>1. /\ s11 \in 1..Len(s9) /\ s10 \in Nat \ {0} /\ n \in s11..Len(s9)
      /\ Len(Pdf!Batch) = n - s11 + 1
      /\ \A i \in 1..Len(Pdf!Batch) : Pdf!Batch[i] = s9[s11 + i - 1]
  BY PdfAtWork DEF Pdf!Inv
<1>2. Len(s9) \in Nat /\ Len(s3) \in Nat /\ DOMAIN s9 = 1..Len(s9)
  BY PdfTypes DEF Pdf!Inv, PdfPageSeqs
<1>3. Pdf!Batch[1] = s9[s11] /\ Len(Pdf!Batch) \in Nat /\ Len(Pdf!Batch) <= s10
  <2>1. 1 \in 1..Len(Pdf!Batch) /\ s11 + 1 - 1 = s11 /\ Len(Pdf!Batch) \in Nat /\ Len(Pdf!Batch) <= s10
    BY <1>1, <1>2
  <2> QED
    BY <1>1, <2>1
<1>4. s9[s11][1] = Len(s3) - Len(s9) + s11 /\ s9[1][1] = Len(s3) - Len(s9) + 1
  <2>1. s11 \in DOMAIN s9 /\ 1 \in DOMAIN s9
    BY <1>1, <1>2
  <2> QED
    BY <2>1 DEF Pdf!Inv, Pdf!InTurn
<1>5. Pdf!Batch[1][1] <= s9[1][1]
  BY DEF Pdf!Inv, Pdf!Past
<1>6. s11 = 1
  BY <1>1, <1>2, <1>3, <1>4, <1>5
<1>7. Pdf!Batch \in Pdf!Again
  BY <1>3, <1>6 DEF Pdf!Again
<1>8. Len(Pdf!Batch) > s10
  BY <1>6, <1>7 DEF Pdf!Inv, Pdf!Longer
<1> QED
  BY <1>1, <1>3, <1>8

(* Together: the pages, and the batches that were refused.                 *)
LEMMA PdfBegins == Pdf!PdfRecognitionAssumption /\ Pdf!Init => Pdf!Inv
BY PdfPagedBegins, PdfTurnBegins DEF Pdf!Inv

LEMMA PdfStep == Pdf!PdfRecognitionAssumption /\ Pdf!Inv /\ [Pdf!Next]_(Pdf!vars) => Pdf!Inv'
BY PdfPagedStep, PdfTurnStep DEF Pdf!Inv

LEMMA PdfHolds ==
  Pdf!Inv => Pdf!TypeOK /\ Pdf!PagesOnce /\ Pdf!RowsClosed /\ Pdf!NeverRefusedAgain
BY PdfPagedTrue, PdfNotAgain DEF Pdf!Inv

-----------------------------------------------------------------------------
(* The whole: the part at work keeps its invariant.                        *)
RequestsInv ==
  /\ part = "native" => Native!Inv
  /\ part = "transport" => Transport!Inv
  /\ part = "structured" => Structured!Inv
  /\ part = "context" => Context!Inv
  /\ part = "query" => Query!Inv
  /\ part = "format" => Format!Inv
  /\ part = "pdf" => Pdf!Inv

LEMMA RequestsBegin == Init => RequestsInv
<1> SUFFICES ASSUME Init PROVE RequestsInv
  OBVIOUS
<1>1. CASE part = "native" /\ Native!Init
  BY <1>1, RequestsAssumption, NativeBeginning DEF RequestsAssumption, RequestsInv
<1>2. CASE part = "transport" /\ Transport!Init
  BY <1>2, RequestsAssumption, TransportBegins DEF RequestsAssumption, RequestsInv
<1>3. CASE part = "structured" /\ Structured!Init
  BY <1>3, RequestsAssumption, StructuredBegins DEF RequestsAssumption, RequestsInv
<1>4. CASE part = "context" /\ Context!Init
  BY <1>4, RequestsAssumption, ContextBegins DEF RequestsAssumption, RequestsInv
<1>5. CASE part = "query" /\ Query!Init
  BY <1>5, RequestsAssumption, QueryBegins DEF RequestsAssumption, RequestsInv
<1>6. CASE part = "format" /\ Format!Init
  BY <1>6, RequestsAssumption, FormatBegins DEF RequestsAssumption, RequestsInv
<1>7. CASE part = "pdf" /\ Pdf!Init
  BY <1>7, RequestsAssumption, PdfBegins DEF RequestsAssumption, RequestsInv
<1> QED
  BY <1>1, <1>2, <1>3, <1>4, <1>5, <1>6, <1>7 DEF Init

(* A step of a part keeps its invariant and what is claimed of its steps.  *)
LEMMA RequestsStep == RequestsInv /\ [Next]_vars => RequestsInv'
<1> SUFFICES ASSUME RequestsInv, [Next]_vars PROVE RequestsInv'
  OBVIOUS
<1>1. CASE DoNative
  BY <1>1, RequestsAssumption, NativeStep DEF RequestsAssumption, DoNative, RequestsInv
<1>2. CASE DoTransport
  BY <1>2, RequestsAssumption, TransportStep DEF RequestsAssumption, DoTransport, RequestsInv
<1>3. CASE DoStructured
  BY <1>3, RequestsAssumption, StructuredStep DEF RequestsAssumption, DoStructured, RequestsInv
<1>4. CASE DoContext
  BY <1>4, RequestsAssumption, ContextStep DEF RequestsAssumption, DoContext, RequestsInv
<1>5. CASE DoQuery
  BY <1>5, RequestsAssumption, QueryStep DEF RequestsAssumption, DoQuery, RequestsInv
<1>6. CASE DoFormat
  BY <1>6, RequestsAssumption, FormatStep DEF RequestsAssumption, DoFormat, RequestsInv
<1>7. CASE DoPdf
  BY <1>7, RequestsAssumption, PdfStep DEF RequestsAssumption, DoPdf, RequestsInv
<1>8. CASE UNCHANGED vars
  <2>1. part' = part
    BY <1>8 DEF vars
  <2>2. part = "native" => Native!Inv'
    <3>1. UNCHANGED Native!vars
      BY <1>8 DEF vars, Native!vars, Native!attemptVars
    <3> QED
      BY <3>1, RequestsAssumption, NativeStep DEF RequestsAssumption, RequestsInv
  <2>3. part = "transport" => Transport!Inv'
    <3>1. UNCHANGED Transport!vars
      BY <1>8 DEF vars, Transport!vars
    <3> QED
      BY <3>1, RequestsAssumption, TransportStep DEF RequestsAssumption, RequestsInv
  <2>4. part = "structured" => Structured!Inv'
    <3>1. UNCHANGED Structured!vars
      BY <1>8 DEF vars, Structured!vars, Structured!callVars, Structured!replyVars, Structured!rowVars
    <3> QED
      BY <3>1, RequestsAssumption, StructuredStep DEF RequestsAssumption, RequestsInv
  <2>5. part = "context" => Context!Inv'
    <3>1. UNCHANGED Context!vars
      BY <1>8 DEF vars, Context!vars
    <3> QED
      BY <3>1, RequestsAssumption, ContextStep DEF RequestsAssumption, RequestsInv
  <2>6. part = "query" => Query!Inv'
    <3>1. UNCHANGED Query!vars
      BY <1>8 DEF vars, Query!vars
    <3> QED
      BY <3>1, RequestsAssumption, QueryStep DEF RequestsAssumption, RequestsInv
  <2>7. part = "format" => Format!Inv'
    <3>1. UNCHANGED Format!vars
      BY <1>8 DEF vars, Format!vars
    <3> QED
      BY <3>1, RequestsAssumption, FormatStep DEF RequestsAssumption, RequestsInv
  <2>8. part = "pdf" => Pdf!Inv'
    <3>1. UNCHANGED Pdf!vars
      BY <1>8 DEF vars, Pdf!vars
    <3> QED
      BY <3>1, RequestsAssumption, PdfStep DEF RequestsAssumption, RequestsInv
  <2> QED
    BY <2>1, <2>2, <2>3, <2>4, <2>5, <2>6, <2>7, <2>8 DEF RequestsInv
<1> QED
  BY <1>1, <1>2, <1>3, <1>4, <1>5, <1>6, <1>7, <1>8 DEF Next

(* Whatever is repeated, repacked or cut in pieces, one whole answer is handed on: the *)
(* chunks of one attempt, the text of the request that is returned, every page once,   *)
(* the tokens of the note; for any number of attempts, chunks, pages and pieces.       *)
THEOREM AnswersWhole == Spec => []OneAnswer
<1>1. RequestsInv => OneAnswer
  BY RequestsAssumption, NativeHolds, QueryHolds, FormatHolds, PdfHolds
     DEF RequestsAssumption, RequestsInv, OneAnswer
<1> QED
  BY <1>1, RequestsBegin, RequestsStep, PTL DEF Spec

(* What the trace shows is true: no event is refused, one row at most is open, a row is *)
(* closed when its request is over, and the stages of an exchange tell one story.       *)
THEOREM TraceTrue == Spec => []RowsTrue
<1>1. RequestsInv => RowsTrue
  BY RequestsAssumption, NativeHolds, TransportHolds, StructuredHolds, QueryHolds, FormatHolds, PdfHolds
     DEF RequestsAssumption, RequestsInv, RowsTrue
<1> QED
  BY <1>1, RequestsBegin, RequestsStep, PTL DEF Spec

(* Every request fits its room, whatever was learned or raised on the way: a structured  *)
(* call, the budgets of a model, a query after any refusals, each of which is followed by *)
(* strictly less; and no batch of pages is sent again that was refused.                   *)
THEOREM WindowsKept == Spec => []WithinWindow
<1>1. RequestsInv => WithinWindow
  BY RequestsAssumption, StructuredHolds, ContextFits, QueryHolds, PdfHolds
     DEF RequestsAssumption, RequestsInv, WithinWindow
<1> QED
  BY <1>1, RequestsBegin, RequestsStep, PTL DEF Spec

(* An exchange that is over has no request on the network, no body and no dispatcher   *)
(* left, and no call waits for a probe that nobody carries: for any number of calls,   *)
(* models and chunks.                                                                  *)
THEOREM NothingLeft == Spec => []NothingLeftOpen
<1>1. RequestsInv => NothingLeftOpen
  BY RequestsAssumption, NativeHolds, TransportHolds, ContextServed
     DEF RequestsAssumption, RequestsInv, NothingLeftOpen
<1> QED
  BY <1>1, RequestsBegin, RequestsStep, PTL DEF Spec

(* After an abort no chunk, value or request follows, a note in pieces is not sent whole *)
(* again, and a window that was learned from a refusal is not widened by a probe.        *)
THEOREM StopsAreObeyed == Spec => StopsObeyed
<1>1. RequestsInv /\ [Next]_vars => [/\ part = "transport" => Transport!NothingAfterAbort
                                     /\ part = "structured" => Structured!AbortPreventsReturn
                                     /\ part = "context" => Context!LearnedHolds
                                     /\ part = "format" => Format!PiecesOnly
                                     /\ part = "pdf" => Pdf!NoLateRequest]_vars
  <2> SUFFICES ASSUME RequestsInv, Next
               PROVE  /\ part = "transport" => Transport!NothingAfterAbort
                      /\ part = "structured" => Structured!AbortPreventsReturn
                      /\ part = "context" => Context!LearnedHolds
                      /\ part = "format" => Format!PiecesOnly
                      /\ part = "pdf" => Pdf!NoLateRequest
    OBVIOUS
  <2>1. CASE DoTransport
    BY <2>1, RequestsAssumption, TransportObeys DEF RequestsAssumption, DoTransport, RequestsInv
  <2>2. CASE DoStructured
    BY <2>2, StructuredObeys DEF DoStructured, RequestsInv
  <2>3. CASE DoContext
    BY <2>3, RequestsAssumption, ContextStep DEF RequestsAssumption, DoContext, RequestsInv
  <2>4. CASE DoFormat
    BY <2>4, FormatObeys DEF DoFormat, RequestsInv
  <2>5. CASE DoPdf
    BY <2>5, PdfObeys DEF DoPdf
  <2> QED
    BY <2>1, <2>2, <2>3, <2>4, <2>5 DEF Next, DoNative, DoQuery
<1> QED
  BY <1>1, RequestsBegin, RequestsStep, PTL DEF Spec, StopsObeyed
=============================================================================
