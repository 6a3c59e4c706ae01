----------------------------- MODULE Callbacks -----------------------------
(***************************************************************************)
(* jQuery.Callbacks, the list behind every Deferred, ready handler and     *)
(* animation of LAM's pages: the loop that fires it, and the operations    *)
(* that the page may call at any time, also from a callback in the middle  *)
(* of the loop.  Indices count from 1, so that firingIndex = -1 is 0 here. *)
(* A value is the context and the arguments of a call.                     *)
(***************************************************************************)
EXTENDS Integers, Sequences, SequencesExt

CONSTANTS ListOptions, \* [once, memory, unique, stopOnFalse : BOOLEAN]
          Fns,         \* functions that are added
          Values,      \* what fire is called with
          MaxAdds,     \* bound: calls of add
          MaxFires,    \* bound: calls of fire
          MaxOther     \* bound: calls of remove, empty, disable and lock

None == 0  \* memory is undefined, false or ""

ASSUME CallbacksAssumption ==
  /\ ListOptions \subseteq [once : BOOLEAN, memory : BOOLEAN, unique : BOOLEAN,
                            stopOnFalse : BOOLEAN]
  /\ None \notin Values /\ MaxAdds \in Nat /\ MaxFires \in Nat /\ MaxOther \in Nat

VARIABLES options, \* of the list
          cb,      \* the variables of the closure, see NewList
          loop,    \* where fire is: "rest", "for", "while", or "called" in a callback
          called,  \* history: the last call, [member, value]
          cleared, \* history: emptied since this run began
          calls    \* [adds, fires, other] so far

callbackVars == <<options, cb, loop, called, cleared, calls>>

\* Functions are told apart by the call of add they come from.
NewList == [list |-> <<>>, spent |-> FALSE, queue |-> <<>>, index |-> 0,
            memory |-> None, firing |-> FALSE, locked |-> FALSE]

CallbacksInit ==
  /\ options \in ListOptions
  /\ cb = NewList /\ loop = "rest"
  /\ called = [member |-> [fn |-> None, add |-> 0], value |-> None] /\ cleared = FALSE
  /\ calls = [adds |-> 0, fires |-> 0, other |-> 0]
-----------------------------------------------------------------------------
(* The loop of fire.                                                       *)

Fires(c) ==
  /\ cb' = [c EXCEPT !.locked = @ \/ options.once, !.firing = TRUE]
  /\ loop' = "for"

Shift ==
  /\ loop = "for" /\ cb.queue # <<>>
  /\ cb' = [cb EXCEPT !.memory = Head(cb.queue), !.queue = Tail(@)]
  /\ loop' = "while"
  /\ UNCHANGED <<options, called, cleared, calls>>

CallNext ==
  /\ loop = "while" /\ cb.index < Len(cb.list)
  /\ cb' = [cb EXCEPT !.index = @ + 1]
  /\ called' = [member |-> cb.list[cb'.index], value |-> cb.memory]
  /\ loop' = "called"
  /\ UNCHANGED <<options, cleared, calls>>

\* The callback returns; stopOnFalse jumps to the end of the list.
Return(isFalse) ==
  /\ loop = "called"
  /\ cb' = IF isFalse /\ options.stopOnFalse
           THEN [cb EXCEPT !.index = Len(cb.list), !.memory = None] ELSE cb
  /\ loop' = "while"
  /\ UNCHANGED <<options, called, cleared, calls>>

\* The callback throws, and fire with it: the list is firing for good.
Throw ==
  /\ loop = "called" /\ loop' = "rest"
  /\ UNCHANGED <<options, cb, called, cleared, calls>>

EndRun ==
  /\ loop = "while" /\ cb.index >= Len(cb.list)
  /\ cb' = [cb EXCEPT !.index = 0]
  /\ loop' = "for" /\ cleared' = (cleared /\ cb.queue = <<>>)
  /\ UNCHANGED <<options, called, calls>>

Finish ==
  /\ loop = "for" /\ cb.queue = <<>>
  /\ LET memory == IF options.memory THEN cb.memory ELSE None IN
     cb' = [cb EXCEPT !.memory = memory, !.firing = FALSE,
                      !.list = IF cb.locked THEN <<>> ELSE @,
                      !.spent = @ \/ (cb.locked /\ memory = None)]
  /\ loop' = "rest" /\ cleared' = FALSE
  /\ UNCHANGED <<options, called, calls>>
-----------------------------------------------------------------------------
(* The operations; the page is at rest or in a callback.                   *)

Calls(what, max) ==
  /\ loop \in {"rest", "called"} /\ calls[what] < max
  /\ calls' = [calls EXCEPT ![what] = @ + 1]
  /\ UNCHANGED <<options, called>>

\* What add puts into the list.
Added(fns) ==
  LET Push(new, f) ==
        IF options.unique /\ \E r \in ToSet(cb.list \o new) : r.fn = f THEN new
        ELSE Append(new, [fn |-> f, add |-> calls.adds + 1])
  IN  FoldLeft(Push, <<>>, fns)

\* A list with a memory calls what is added, and nothing else.
Add(fns) ==
  /\ Calls("adds", MaxAdds) /\ UNCHANGED cleared
  /\ LET c == [cb EXCEPT !.list = @ \o Added(fns)] IN
     IF cb.spent THEN UNCHANGED <<cb, loop>>
     ELSE IF cb.memory # None /\ ~cb.firing
     THEN Fires([c EXCEPT !.index = Len(cb.list), !.queue = Append(@, cb.memory)])
     ELSE cb' = c /\ UNCHANGED loop

\* Mutant of IndexAfter: the index is not corrected.
IndexKept(f) == cb.index

IndexAfter(f) == cb.index - Cardinality({i \in 1..Min({cb.index, Len(cb.list)}) : cb.list[i].fn = f})

RemoveFn(f) ==
  /\ Calls("other", MaxOther) /\ UNCHANGED <<loop, cleared>>
  /\ cb' = [cb EXCEPT !.list = SelectSeq(@, LAMBDA r : r.fn # f), !.index = IndexAfter(f)]

\* The index stays, so that what is added afterwards may be skipped.
Empty ==
  /\ Calls("other", MaxOther) /\ UNCHANGED loop
  /\ cb' = [cb EXCEPT !.list = <<>>]
  /\ cleared' = cb.firing

Disable ==
  /\ Calls("other", MaxOther) /\ UNCHANGED <<loop, cleared>>
  /\ cb' = [cb EXCEPT !.locked = TRUE, !.queue = <<>>, !.list = <<>>, !.spent = TRUE,
                      !.memory = None]

LockList ==
  /\ Calls("other", MaxOther) /\ UNCHANGED <<loop, cleared>>
  /\ LET c == [cb EXCEPT !.locked = TRUE, !.queue = <<>>] IN
     cb' = IF cb.memory = None /\ ~cb.firing
           THEN [c EXCEPT !.list = <<>>, !.spent = TRUE] ELSE c

FireWith(value) ==
  /\ Calls("fires", MaxFires) /\ UNCHANGED cleared
  /\ LET c == [cb EXCEPT !.queue = Append(@, value)] IN
     IF cb.locked THEN UNCHANGED <<cb, loop>>
     ELSE IF cb.firing THEN cb' = c /\ UNCHANGED loop
     ELSE Fires(c)

Arguments == UNION {[1..n -> Fns] : n \in 1..2}

CallbacksNext ==
  \/ Shift \/ CallNext \/ Throw \/ EndRun \/ Finish
  \/ \E isFalse \in BOOLEAN : Return(isFalse)
  \/ \E fns \in Arguments : Add(fns)
  \/ \E f \in Fns : RemoveFn(f)
  \/ Empty \/ Disable \/ LockList
  \/ \E value \in Values : FireWith(value)
-----------------------------------------------------------------------------
\* The run that is about to begin counts as begun.
Begins == loop = "for" /\ cb.queue # <<>>
Over == loop = "for" /\ cb.queue = <<>>

R == INSTANCE CallbackRuns
       WITH Nothing <- None, members <- cb.list,
            todo <- IF cb.firing /\ ~Over THEN SubSeq(cb.list, cb.index + 1, Len(cb.list))
                    ELSE <<>>,
            arg <- IF Begins THEN Head(cb.queue) ELSE cb.memory,
            waiting <- IF Begins THEN Tail(cb.queue) ELSE cb.queue,
            busy <- cb.firing, closed <- cb.locked

\* Whatever is added, removed, fired or closed while the loop is running, each
\* operation is the one of CallbackRuns: the index, the queue and the memory of the
\* loop are as good as a list of those who are still to be called (3255-3402).
RunsInOrder ==
  [][ \/ \E value \in Values :
           FireWith(value) /\ IF cb.locked THEN UNCHANGED R!runVars
                              ELSE R!Fire(value, options.once)
      \/ \E fns \in Arguments :
           Add(fns) /\ IF cb.spent THEN UNCHANGED R!runVars
                       ELSE R!Join(Added(fns), options.once)
      \/ \E f \in Fns : RemoveFn(f) /\ LET Stays(r) == r.fn # f IN R!Leave(Stays)
      \/ Empty /\ R!Clear
      \/ Disable /\ R!CloseAll
      \/ LockList /\ IF cb.firing \/ cb.memory # None THEN R!CloseRun ELSE R!CloseAll
      \/ CallNext /\ R!Call
      \/ EndRun /\ IF cb.queue # <<>> THEN R!NextRun ELSE UNCHANGED R!runVars
      \/ Finish /\ R!Rest(options.memory)
      \/ \E isFalse \in BOOLEAN :
           Return(isFalse) /\ IF isFalse /\ options.stopOnFalse THEN R!Stop
                              ELSE UNCHANGED R!runVars
      \/ (Shift \/ Throw) /\ UNCHANGED R!runVars ]_callbackVars
=============================================================================
