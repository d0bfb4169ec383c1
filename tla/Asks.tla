-------------------------------- MODULE Asks --------------------------------
(***************************************************************************)
(* What the browser promises a page that stops to ask a human something (a *)
(* dialog, a permission, a login, a file): the question is answered once,  *)
(* by the viewer who is there or by the browser's own default, and it is   *)
(* answered eventually.  Who holds the question meanwhile, on which        *)
(* channel and against which timer, is not this module's business.         *)
(***************************************************************************)
CONSTANT Asks

VARIABLES
  state,  \* per question: idle, open, or how it was answered
  said    \* what the viewer who is here now has said: {<<question, answer>>}

ByViewer == {"yes", "no", "file"}
Answers == {"default", "withdrawn"} \union ByViewer

Init == state = [a \in Asks |-> "idle"] /\ said = {}

(* A page is blocked on its question. *)
Opens(a) == state[a] = "idle" /\ state'[a] = "open"

(* An answer is the default, or what the present viewer said.  A question   *)
(* nobody can be asked is answered as it is put.                           *)
Answered(a) ==
  /\ state[a] \in {"idle", "open"}
  /\ state'[a] \in Answers
  /\ state'[a] \in ByViewer => <<a, state'[a]>> \in said

(* One viewer speaks; or leaves, and another has said nothing yet. *)
Speaks == said \subseteq said'
Leaves == said' = {}

Next ==
  /\ \A a \in Asks : state'[a] = state[a] \/ Opens(a) \/ Answered(a)
  /\ Speaks \/ Leaves

(* A page that is blocked gets out. *)
Settles == \A a \in Asks : state[a] = "open" ~> state[a] # "open"

(* The promise without its end: at most one answer, by who may give it. *)
AnswersOnce == Init /\ [][Next]_<<state, said>>

Spec == AnswersOnce /\ Settles
=============================================================================
