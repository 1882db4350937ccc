---------------------------- MODULE OneAnswer ----------------------------
(* What the protocol promises the front end: "exactly one answer per id".  *)
(* A command is asked, and answered once, some time later.                 *)
EXTENDS Naturals

CONSTANT Ids            \* the command ids the front end uses

VARIABLES asked,        \* the ids asked so far
          answers       \* how many answers each id has had

vars == <<asked, answers>>

Init == /\ asked = {}
        /\ answers = [id \in Ids |-> 0]

Ask(id) == /\ id \notin asked
           /\ asked' = asked \cup {id}
           /\ UNCHANGED answers

Answer(id) == /\ id \in asked
              /\ answers[id] = 0
              /\ answers' = [answers EXCEPT ![id] = 1]
              /\ UNCHANGED asked

Next == \E id \in Ids : Ask(id) \/ Answer(id)

Spec == /\ Init /\ [][Next]_vars
        /\ \A id \in Ids : WF_vars(Answer(id))
==========================================================================
