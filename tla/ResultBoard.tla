---------------------------- MODULE ResultBoard ----------------------------
(***************************************************************************)
(* What GPT may rely on when it looks at a project branch, and nothing of  *)
(* how the gateway gets there: tasks are submitted under an id, and a      *)
(* submitted task gets at most one result, in one step, with a state that  *)
(* may be reported and for one content; a result never changes and never   *)
(* goes away.                                                              *)
(***************************************************************************)
CONSTANTS Tasks, Digests, ReportableStates, NoBundle, NoResult

VARIABLES inbox,   \* [Tasks -> Digests \cup {NoBundle}]: the submitted content
          results  \* [Tasks -> result]: NoResult, or a state and content

Open(t) == inbox[t] # NoBundle /\ results[t] = NoResult

BoardInit ==
    /\ inbox = [t \in Tasks |-> NoBundle]
    /\ results = [t \in Tasks |-> NoResult]

Submit(t) ==
    /\ \E d \in Digests : inbox' = [inbox EXCEPT ![t] = d]
    /\ UNCHANGED results

Answer(t) ==
    /\ Open(t)
    /\ \E s \in ReportableStates, d \in Digests :
            results' = [results EXCEPT ![t] = [state |-> s, digest |-> d]]
    /\ UNCHANGED inbox

BoardNext == \E t \in Tasks : Submit(t) \/ Answer(t)

Board == BoardInit /\ [][BoardNext]_<<inbox, results>>
=============================================================================
