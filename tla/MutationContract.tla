-------------------------- MODULE MutationContract --------------------------
(***************************************************************************)
(* What a caller may conclude from the answer to a mutation, with no       *)
(* attempts, deadlines or connections: "Ok" means the broker executed it   *)
(* exactly once, "Error" that it did not and never will, and "Unknown"     *)
(* (Error::AmbiguousMutation) promises nothing but at most one execution.  *)
(***************************************************************************)
EXTENDS Naturals

CONSTANT Mutations

VARIABLES answer,   \* what the caller was told
          effects   \* how often the broker executed the mutation

contractVars == <<answer, effects>>

ContractInit ==
    /\ answer = [m \in Mutations |-> "none"]
    /\ effects = [m \in Mutations |-> 0]

TakeEffect(m) ==
    /\ effects[m] = 0
    /\ answer[m] \in {"none", "Unknown"}
    /\ effects' = [effects EXCEPT ![m] = 1]
    /\ UNCHANGED answer

Answer(m, what) ==
    /\ answer[m] = "none"
    /\ what = "Ok"    => effects[m] = 1
    /\ what = "Error" => effects[m] = 0
    /\ answer' = [answer EXCEPT ![m] = what]
    /\ UNCHANGED effects

ContractNext ==
    \E m \in Mutations :
        \/ TakeEffect(m)
        \/ \E what \in {"Ok", "Error", "Unknown"} : Answer(m, what)

ContractSpec == ContractInit /\ [][ContractNext]_contractVars
=============================================================================
