----------------------------- MODULE Dictionary -----------------------------
(***************************************************************************)
(* What a concurrent index promises its callers: every insert and every    *)
(* lookup takes effect at one instant between its call and its return      *)
(* (linearizability), keys stay once inserted, and every call returns.     *)
(***************************************************************************)
EXTENDS Naturals

CONSTANTS Threads, Keys

VARIABLES dict,     \* the set of keys in the index
          phase,    \* [Threads -> {"idle", "called", "done"}]
          op, key,  \* each thread's operation and its argument
          answer    \* the answer of a lookup that took effect

vars == <<dict, phase, op, key, answer>>

Init ==
  /\ dict = {}
  /\ phase = [t \in Threads |-> "idle"]
  /\ op = [t \in Threads |-> "lookup"]
  /\ \E k \in Keys : key = [t \in Threads |-> k]
  /\ answer = [t \in Threads |-> FALSE]

Call(t, o, k) ==
  /\ phase[t] = "idle"
  /\ phase' = [phase EXCEPT ![t] = "called"]
  /\ op' = [op EXCEPT ![t] = o]
  /\ key' = [key EXCEPT ![t] = k]
  /\ UNCHANGED <<dict, answer>>

TakeEffect(t) ==
  /\ phase[t] = "called"
  /\ phase' = [phase EXCEPT ![t] = "done"]
  /\ \/ /\ op[t] = "insert"
        /\ dict' = dict \cup {key[t]}
        /\ UNCHANGED answer
     \/ /\ op[t] = "lookup"
        /\ answer' = [answer EXCEPT ![t] = key[t] \in dict]
        /\ UNCHANGED dict
  /\ UNCHANGED <<op, key>>

Return(t) ==
  /\ phase[t] = "done"
  /\ phase' = [phase EXCEPT ![t] = "idle"]
  /\ answer' = [answer EXCEPT ![t] = FALSE]
  /\ UNCHANGED <<dict, op, key>>

Next ==
  \E t \in Threads :
    \/ \E o \in {"insert", "lookup"}, k \in Keys : Call(t, o, k)
    \/ TakeEffect(t)
    \/ Return(t)

Fairness == \A t \in Threads : WF_vars(TakeEffect(t)) /\ WF_vars(Return(t))

Spec == Init /\ [][Next]_vars

FairSpec == Spec /\ Fairness
=============================================================================
