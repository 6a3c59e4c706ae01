---------------------------- MODULE CallbackRuns ----------------------------
(***************************************************************************)
(* What a list of callbacks promises: each value it accepts is given, in   *)
(* the order of the calls of fire, to all its members in the order in      *)
(* which they joined, once each, to those who join in the meantime too and *)
(* to nobody who has left; runs do not overlap; and a value that is kept   *)
(* is given at once to those who join later, and only to them.             *)
(***************************************************************************)
EXTENDS Integers, Sequences, SequencesExt

CONSTANT Nothing

VARIABLES members, \* those who are called
          todo,    \* those of them whom this run has still to call
          arg,     \* the value of this run, or the one that is kept
          waiting, \* the values of the runs to come
          busy,    \* a run is going on
          closed,  \* no value is accepted any more
          called,  \* the last call, [member, value]
          cleared  \* the list was emptied in this run

runVars == <<members, todo, arg, waiting, busy, closed, called, cleared>>

Start(value, whom) == arg' = value /\ todo' = whom /\ busy' = TRUE

\* A list for one value is closed by it.
Fire(value, single) ==
  /\ ~closed
  /\ closed' = single
  /\ IF busy THEN waiting' = Append(waiting, value) /\ UNCHANGED <<arg, todo, busy>>
     ELSE Start(value, members) /\ UNCHANGED waiting
  /\ UNCHANGED <<members, called, cleared>>

\* Those who join after the list was emptied in a run may miss the run.
Join(new, single) ==
  /\ members' = members \o new
  /\ \/ busy /\ todo' = todo \o new /\ UNCHANGED <<arg, busy, closed>>
     \/ /\ busy /\ cleared /\ UNCHANGED <<arg, busy, closed>>
        /\ \E i \in 1..Len(new) + 1 : todo' = todo \o SubSeq(new, i, Len(new))
     \/ ~busy /\ arg # Nothing /\ Start(arg, new) /\ closed' = (closed \/ single)
     \/ ~busy /\ arg = Nothing /\ UNCHANGED <<todo, arg, busy, closed>>
  /\ UNCHANGED <<waiting, called, cleared>>

Leave(Stays(_)) ==
  /\ members' = SelectSeq(members, Stays) /\ todo' = SelectSeq(todo, Stays)
  /\ UNCHANGED <<arg, waiting, busy, closed, called, cleared>>

Clear ==
  /\ members' = <<>> /\ todo' = <<>> /\ cleared' = busy
  /\ UNCHANGED <<arg, waiting, busy, closed, called>>

\* No value any more, and no member either, or those of the present run.
Close == closed' = TRUE /\ waiting' = <<>> /\ UNCHANGED <<busy, called, cleared>>
CloseAll == Close /\ members' = <<>> /\ todo' = <<>> /\ arg' = Nothing
CloseRun == Close /\ UNCHANGED <<members, todo, arg>>

Call ==
  /\ todo # <<>>
  /\ called' = [member |-> Head(todo), value |-> arg] /\ todo' = Tail(todo)
  /\ UNCHANGED <<members, arg, waiting, busy, closed, cleared>>

\* A member may end the run.
Stop == todo' = <<>> /\ arg' = Nothing
        /\ UNCHANGED <<members, waiting, busy, closed, called, cleared>>

NextRun ==
  /\ busy /\ todo = <<>> /\ waiting # <<>>
  /\ Start(Head(waiting), members) /\ waiting' = Tail(waiting) /\ cleared' = FALSE
  /\ UNCHANGED <<members, closed, called>>

\* The value is kept or not, and a closed list needs its members no more.
Rest(keeps) ==
  /\ busy /\ todo = <<>> /\ waiting = <<>>
  /\ busy' = FALSE /\ cleared' = FALSE
  /\ arg' = IF keeps THEN arg ELSE Nothing
  /\ members' = IF closed THEN <<>> ELSE members
  /\ UNCHANGED <<todo, waiting, closed, called>>
=============================================================================
