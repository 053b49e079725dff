----------------------------- MODULE AtMostOnce -----------------------------
(***************************************************************************)
(* What a client may rely on when it repeats a request under its key: the  *)
(* request acts at most once, and from then on every answer to it is the   *)
(* result of that one act.  A request is refused only as long as it has    *)
(* not acted, when the key was used for another request, or when the       *)
(* session is closed to the caller.                                        *)
(***************************************************************************)
CONSTANTS Key, None, Refused

VARIABLES
  outcome,   \* [request, result] of the act under each key, or None
  access,    \* the session of each key: "OPEN", "CLOSED" to the caller, or "ENDING"
  reply      \* the answer given in the last step: [key, request, answer], or None

vars == <<outcome, access, reply>>

Access == [Key -> {"OPEN", "CLOSED", "ENDING"}]

Init == outcome = [k \in Key |-> None] /\ access \in Access /\ reply = None

Reply(k, request, answer) == [key |-> k, request |-> request, answer |-> answer]

\* The request of the key acts, and the caller learns the result.  The act may
\* close and open sessions, those of other keys too: nothing is said of access'.
Act(k) ==
  /\ outcome[k] = None /\ outcome'[k] # None
  /\ outcome' = [outcome EXCEPT ![k] = outcome'[k]]
  /\ reply' = Reply(k, outcome'[k].request, outcome'[k].result)

Repeat(k) ==
  /\ outcome[k] # None
  /\ reply' = Reply(k, outcome[k].request, outcome[k].result)
  /\ UNCHANGED <<outcome, access>>

Refuse(k) ==
  /\ reply' # None /\ reply' = Reply(k, reply'.request, Refused)
  /\ outcome[k] = None \/ outcome[k].request # reply'.request \/ access[k] # "OPEN"
  /\ UNCHANGED <<outcome, access>>

\* Nobody is answered.  A session that ends takes its keys with it.
Change ==
  /\ reply' = None
  /\ \A k \in Key :
       outcome'[k] = outcome[k] \/ (access[k] = "ENDING" /\ outcome'[k] = None)

Next == Change \/ \E k \in Key : Act(k) \/ Repeat(k) \/ Refuse(k)

Spec == Init /\ [][Next]_vars
=============================================================================
