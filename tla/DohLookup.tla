------------------------------ MODULE DohLookup ------------------------------
(***************************************************************************)
(* What the DoH client promises its callers: a lookup that was started is  *)
(* answered once, unless the caller cancels it first.                      *)
(***************************************************************************)
EXTENDS Naturals

CONSTANT Owners   \* the callers: sessions and mux streams

VARIABLES result, \* [Owners -> {"none", "waiting", "ok", "failed", "gone"}]
          told    \* how many answers each caller was given

vars == <<result, told>>

Init == result = [o \in Owners |-> "none"] /\ told = [o \in Owners |-> 0]

Ask(o) ==
  /\ result[o] \in {"none", "ok", "failed"}
  /\ result' = [result EXCEPT ![o] = "waiting"] /\ UNCHANGED told

Answer(o) ==
  /\ result[o] = "waiting"
  /\ \E r \in {"ok", "failed"} : result' = [result EXCEPT ![o] = r]
  /\ told' = [told EXCEPT ![o] = @ + 1]

Cancel(o) ==
  /\ result[o] = "waiting"
  /\ result' = [result EXCEPT ![o] = "gone"] /\ UNCHANGED told

Next == \E o \in Owners : Ask(o) \/ Answer(o) \/ Cancel(o)

Spec == Init /\ [][Next]_vars
        /\ \A o \in Owners : WF_vars(Answer(o) \/ Cancel(o))
=============================================================================
