---------------------------- MODULE AtomicDelete ----------------------------
(***************************************************************************)
(* What deleting a source promises: seen from outside, the governed files  *)
(* change all at once or not at all.  Files an external editor touches are *)
(* out of the promise and shown as Unknown.                                *)
(***************************************************************************)
CONSTANTS Path, Source, Image, Absent, Initial, Unknown

VARIABLES
  store,     \* the image of every file, as recovery would leave it
  touched,   \* the files an external editor has changed
  done       \* the deletion took effect

vars == <<store, touched, done>>

Init == store = Initial /\ touched = {} /\ done = FALSE

Touch(p) ==
  /\ touched' = touched \cup {p}
  /\ store' = [store EXCEPT ![p] = Unknown]
  /\ UNCHANGED done

Delete ==
  /\ ~done /\ done' = TRUE
  /\ store' \in [Path -> Image \cup {Unknown}]
  /\ \A p \in Path : store'[p] = Unknown <=> p \in touched
  /\ Source \notin touched => store'[Source] = Absent
  /\ UNCHANGED touched

Next == Delete \/ \E p \in Path : Touch(p)

Spec == Init /\ [][Next]_vars
=============================================================================
