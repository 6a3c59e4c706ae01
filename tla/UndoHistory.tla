---------------------------- MODULE UndoHistory ----------------------------
(***************************************************************************)
(* What the undo stack of the editor promises, without selections, keys    *)
(* and locks: the contents recorded before and after the present one, and  *)
(* a document that may have run ahead of them.  No two neighbours are      *)
(* equal, but the first content of the future may be that of the present,  *)
(* and is skipped then.                                                    *)
(***************************************************************************)
EXTENDS Sequences, SequencesExt

VARIABLES past,   \* recorded contents before the present one, the oldest first
          now,    \* the recorded content of the present
          future, \* what redo would bring back, the next one first
          doc     \* the document's content

historyVars == <<past, now, future, doc>>

\* The oldest content may be forgotten.
Kept(p) == {p} \union (IF p = <<>> THEN {} ELSE {Tail(p)})

Skip(f, c) == IF f # <<>> /\ Head(f) = c THEN Tail(f) ELSE f

\* The document changes, or nothing does.
Edit == UNCHANGED <<past, now, future>>

\* The document is recorded, and there is nothing to redo.  (It may be recorded again
\* for its selection.)
Record ==
  /\ now' = doc' /\ future' = <<>>
  /\ past' \in Kept(IF doc' = now THEN past ELSE Append(past, now))

\* A present that has become c is merged with an equal past.
Merged(p, c) == IF p # <<>> /\ Last(p) = c THEN Front(p) ELSE p

\* The document replaces the present.
Amend ==
  /\ now' = doc'
  /\ past' = Merged(past, doc')
  /\ UNCHANGED future

\* One step back; a document that has run ahead is what redo would bring back.  The
\* content that is reached is loaded, and the present is what has become of it.
Back ==
  /\ now' = doc'
  /\ \/ /\ doc = now /\ past # <<>>
        /\ past' = Merged(Front(past), doc')
        /\ future' = <<now>> \o Skip(future, now)
     \/ /\ doc # now
        /\ past' \in {Merged(p, doc') : p \in Kept(past)}
        /\ future' = <<doc>>

\* One step forward again.  What was loaded remains ahead if it was recorded several
\* times.
Forward ==
  LET ahead == Skip(future, now) IN
  /\ doc = now /\ ahead # <<>>
  /\ now' = doc'
  /\ past' = Merged(Append(past, now), doc')
  /\ future' \in {ahead, Tail(ahead)}

Forget == past' = <<>> /\ now' = doc /\ future' = <<>> /\ UNCHANGED doc
=============================================================================
