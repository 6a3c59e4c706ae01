-------------------------- MODULE UndoManagerProofs --------------------------
(***************************************************************************)
(* Proofs about UndoManager, for any contents, selections, limits and      *)
(* numbers of events.  OfferInv says why the undo command is enabled when  *)
(* there is something to go back to: whatever moves the document away from *)
(* the recorded image is typing, which is counted until its keys are up,   *)
(* or is followed by an update when the lock is released or the script     *)
(* ends.                                                                   *)
(***************************************************************************)
EXTENDS UndoManager, SequenceTheorems, FiniteSetTheorems, WellFoundedInduction, TLAPS

UndoSpec == UndoInit /\ [][UndoNext]_undoVars

\* The types.  Only a change of mode locks a manager that is locked twice already.
Image == [content : Contents, sel : Selections]
UmType ==
  [snapshots : Seq(Image), index : Nat, current : Image, hasUndo : BOOLEAN,
   hasRedo : BOOLEAN, typing : BOOLEAN,
   locked : [level : 0..3, update : Contents \cup {NoUpdate, ForceUpdate}],
   strokes : [{"printable", "functional"} -> Nat],
   group : {"none", "printable", "functional"}]
KeyNames == Keys \cup {"zero"}
KeyType == [key : KeyNames, inputs : Nat]

InStack(u) == u.index \in 1..Len(u.snapshots) /\ Len(u.snapshots) <= Limit

UndoTypes ==
  /\ um \in UmType /\ InStack(um)
  /\ document \in Image /\ keyStack \in Seq(KeyType)
  /\ ignored \in BOOLEAN /\ mode \in {"wysiwyg", "source", "back", "changed"}
  /\ source \in Contents /\ script \in {"idle", "open", "changed"} /\ stray \in BOOLEAN
  /\ mode # "back" => um.locked.level <= 2

\* The image that is compared with is the one the index points at.
OnImage(u) == u.snapshots[u.index].content = u.current.content
CurrentInv == stray \/ OnImage(um)

\* What is recorded but for the selection; a key that is down has changed the document;
\* the lock will be followed by an update.
Back(u) == Previous(u) # 0
Typed == \E i \in DOMAIN keyStack : keyStack[i].inputs > 0
Seen(u) == Locked(u) /\ u.locked.update # NoUpdate

\* Typing, an earlier snapshot, and a document d that is not recorded: each of them
\* enables the undo command, the last two unless the keys are still to be counted (t).
TypingOffers(u) == (u.typing \/ u.strokes # NoStrokes) => u.hasUndo
RecordedOffers(u, t) == Back(u) => (u.hasUndo \/ t)
AheadOffers(u, d, t) == d.content # u.current.content => (u.hasUndo \/ t)

\* What the lock compares with in the end is what is recorded.
LockTrue(u) ==
  (Locked(u) /\ u.locked.update \in Contents) => u.current.content = u.locked.update

Offers(u, d, t) ==
  /\ RecordedOffers(u, t) /\ LockTrue(u)
  /\ Seen(u) \/ AheadOffers(u, d, t)

\* Neither a script nor a change of mode lets the document change unseen.
ModeInv ==
  /\ (script = "changed" /\ Locked(um)) => Seen(um)
  /\ script # "idle" => mode = "wysiwyg"
  /\ mode \in {"source", "changed"} => ~Locked(um)
  /\ mode = "back" => um.locked.level = 1 /\ um.locked.update = ForceUpdate

OfferInv ==
  /\ TypingOffers(um)
  /\ stray \/ (RecordedOffers(um, Typed) /\ LockTrue(um) /\ ModeInv)
  /\ (script = "idle" /\ mode = "wysiwyg") => stray \/ Seen(um) \/ AheadOffers(um, document, Typed)

UndoInv == UndoTypes /\ CurrentInv /\ OfferInv
-----------------------------------------------------------------------------
(* numbers and sequences                                                   *)

LEMMA Least ==
  ASSUME NEW T, T \subseteq Nat, T # {}
  PROVE  \E x \in T : \A y \in T : x <= y
  <1> DEFINE R == {ss \in Nat \X Nat : ss[1] < ss[2]}
  <1>1. IsWellFoundedOn(R, Nat)
    BY NatLessThanWellFounded DEF OpToRel
  <1>2. PICK x \in T : \A y \in T : ~ (<<y, x>> \in R)
    BY <1>1, WFMin
  <1>3. ASSUME NEW y \in T
        PROVE  x <= y
    <2>1. <<y, x>> \notin R /\ x \in Nat /\ y \in Nat
      BY <1>2
    <2> QED BY <2>1
  <1> QED BY <1>3

LEMMA GreatestIndex ==
  ASSUME NEW n \in Nat, NEW T, T \subseteq 1..n, T # {}
  PROVE  Max(T) \in T
  <1> DEFINE U == {n - t : t \in T}
  <1>a. PICK w \in T : TRUE
    OBVIOUS
  <1>b. n - w \in U
    OBVIOUS
  <1>c. \A t \in T : t \in 1..n
    OBVIOUS
  <1>d. \A t \in 1..n : n - t \in Nat
    OBVIOUS
  <1>1. U \subseteq Nat /\ U # {}
    BY <1>b, <1>c, <1>d
  <1>2. PICK x \in U : \A y \in U : x <= y
    BY <1>1, Least
  <1>3. PICK t \in T : x = n - t
    BY <1>2
  <1>4. ASSUME NEW y \in T
        PROVE  t >= y
    <2>1. n - y \in U
      OBVIOUS
    <2>2. n - t <= n - y
      BY <1>2, <1>3, <2>1
    <2>3. t \in Nat /\ y \in Nat
      OBVIOUS
    <2> QED BY <2>2, <2>3
  <1> QED BY <1>4 DEF Max

LEMMA LeastIndex ==
  ASSUME NEW T, T \subseteq Nat, T # {}
  PROVE  Min(T) \in T
  BY Least DEF Min
-----------------------------------------------------------------------------
(* the inputs that are counted                                             *)

\* Adding up a function, one element after the other, on all the subsets of its domain.
Chosen(s) == CHOOSE x \in s : TRUE
SumStep(f, h, s) == IF s = {} THEN 0 ELSE f[Chosen(s)] + h[s \ {Chosen(s)}]
Sums(f, S) == CHOOSE h : h = [s \in SUBSET S |-> SumStep(f, h, s)]

LEMMA ChosenFacts ==
  ASSUME NEW S, IsFiniteSet(S), NEW s \in SUBSET S, s # {}
  PROVE  /\ Chosen(s) \in s /\ s \ {Chosen(s)} \in SUBSET S
         /\ Cardinality(s) \in Nat \ {0} /\ Cardinality(s \ {Chosen(s)}) = Cardinality(s) - 1
  <1>1. Chosen(s) \in s
    BY DEF Chosen
  <1>2. IsFiniteSet(s)
    BY FS_Subset
  <1>3. Cardinality(s) \in Nat /\ Cardinality(s) # 0
    BY <1>2, FS_CardinalityType, FS_EmptySet
  <1>4. Cardinality(s \ {Chosen(s)}) = Cardinality(s) - 1
    BY <1>1, <1>2, FS_RemoveElement
  <1> QED BY <1>1, <1>3, <1>4

LEMMA SumDefined ==
  ASSUME NEW S, IsFiniteSet(S), NEW f
  PROVE  Sums(f, S) = [s \in SUBSET S |-> SumStep(f, Sums(f, S), s)]
  <1> DEFINE Good(h, n) == \A s \in SUBSET S : Cardinality(s) <= n => h[s] = SumStep(f, h, s)
             Bad == {n \in Nat : ~ \E h : Good(h, n)}
  <1>0. \A s \in SUBSET S : Cardinality(s) \in Nat /\ (Cardinality(s) = 0 <=> s = {})
    BY FS_Subset, FS_CardinalityType, FS_EmptySet
  <1>1. \E h : Good(h, 0)
    <2> DEFINE h == [s \in SUBSET S |-> 0]
    <2>1. ASSUME NEW s \in SUBSET S, Cardinality(s) <= 0
          PROVE  h[s] = SumStep(f, h, s)
      <3>1. s = {}
        BY <1>0, <2>1
      <3> QED BY <3>1 DEF SumStep
    <2>2. Good(h, 0)
      BY <2>1
    <2> QED BY <2>2
  <1>2. ASSUME NEW n \in Nat, NEW h, Good(h, n)
        PROVE  \E g : Good(g, n + 1)
    <2> DEFINE g == [s \in SUBSET S |-> IF Cardinality(s) <= n THEN h[s] ELSE SumStep(f, h, s)]
    <2>1. ASSUME NEW s \in SUBSET S, Cardinality(s) <= n + 1
          PROVE  g[s] = SumStep(f, g, s)
      <3>1. g[s] = SumStep(f, h, s)
        BY <1>2
      <3>2. SumStep(f, g, s) = SumStep(f, h, s)
        <4>1. CASE s = {}
          BY <4>1 DEF SumStep
        <4>2. CASE s # {}
          <5> DEFINE r == s \ {Chosen(s)}
          <5>1. r \in SUBSET S /\ Cardinality(s) \in Nat /\ Cardinality(r) = Cardinality(s) - 1
            BY <4>2, ChosenFacts
          <5>2. Cardinality(r) <= n
            BY <2>1, <5>1
          <5>3. g[r] = h[r]
            BY <5>1, <5>2
          <5> HIDE DEF g
          <5> QED BY <4>2, <5>3 DEF SumStep
        <4> QED BY <4>1, <4>2
      <3> QED BY <3>1, <3>2
    <2> HIDE DEF g
    <2>2. Good(g, n + 1)
      BY <2>1
    <2> QED BY <2>2
  <1> HIDE DEF Good
  <1>3. Bad = {}
    <2> SUFFICES ASSUME Bad # {} PROVE FALSE
      OBVIOUS
    <2>1. PICK n \in Bad : \A m \in Bad : n <= m
      BY Least
    <2>2. n \in Nat /\ n # 0
      BY <1>1
    <2>3. n - 1 \in Nat /\ ~(n <= n - 1) /\ (n - 1) + 1 = n
      BY <2>2
    <2>4. n - 1 \notin Bad
      BY <2>1, <2>3
    <2>5. \E g : Good(g, (n - 1) + 1)
      BY <1>2, <2>3, <2>4
    <2> QED BY <2>3, <2>5
  <1> DEFINE n == Cardinality(S)
  <1>4. n \in Nat
    BY <1>0
  <1>5. PICK h : Good(h, n)
    BY <1>3, <1>4
  <1> DEFINE g == [s \in SUBSET S |-> h[s]]
  <1>6. ASSUME NEW s \in SUBSET S
        PROVE  h[s] = SumStep(f, g, s)
    <2>1. Cardinality(s) <= n
      BY FS_Subset
    <2>2. h[s] = SumStep(f, h, s)
      BY <1>5, <2>1 DEF Good
    <2>3. s # {} => s \ {Chosen(s)} \in SUBSET S
      OBVIOUS
    <2> QED BY <2>2, <2>3 DEF SumStep
  <1>7. g = [s \in SUBSET S |-> SumStep(f, g, s)]
    BY <1>6
  <1> HIDE DEF g
  <1> QED BY <1>7 DEF Sums

LEMMA SumFacts ==
  ASSUME NEW S, IsFiniteSet(S), NEW f, \A x \in S : f[x] \in Nat,
         NEW h, h = [s \in SUBSET S |-> SumStep(f, h, s)],
         NEW s \in SUBSET S
  PROVE  h[s] \in Nat /\ ((\E x \in s : f[x] > 0) => h[s] > 0)
  <1> DEFINE OK(t) == h[t] \in Nat /\ ((\E x \in t : f[x] > 0) => h[t] > 0)
             Bad == {Cardinality(t) : t \in {t \in SUBSET S : ~ OK(t)}}
  <1>0. \A t \in SUBSET S : Cardinality(t) \in Nat
    BY FS_Subset, FS_CardinalityType
  <1>1. Bad \subseteq Nat
    BY <1>0
  <1>2. ASSUME NEW t \in SUBSET S, t = {} PROVE OK(t)
    BY <1>2 DEF SumStep
  <1>3. ASSUME NEW t \in SUBSET S, t # {}, OK(t \ {Chosen(t)}) PROVE OK(t)
    <2> DEFINE x == Chosen(t)
               r == t \ {x}
    <2>1. x \in t /\ f[x] \in Nat /\ h[r] \in Nat
      BY <1>3, ChosenFacts
    <2>2. h[t] = f[x] + h[r]
      BY <1>3 DEF SumStep
    <2>3. ASSUME NEW y \in t, f[y] > 0 PROVE h[t] > 0
      <3>1. CASE y = x
        BY <2>1, <2>2, <2>3, <3>1
      <3>2. CASE y # x
        <4>1. h[r] > 0
          BY <1>3, <2>3, <3>2
        <4> QED BY <2>1, <2>2, <4>1
      <3> QED BY <3>1, <3>2
    <2>4. h[t] \in Nat
      BY <2>1, <2>2
    <2> QED BY <2>3, <2>4
  <1> HIDE DEF OK
  <1>4. Bad = {}
    <2> SUFFICES ASSUME Bad # {} PROVE FALSE
      OBVIOUS
    <2>1. PICK n \in Bad : \A m \in Bad : n <= m
      BY <1>1, Least
    <2>2. PICK t \in SUBSET S : ~OK(t) /\ n = Cardinality(t)
      BY <2>1
    <2>3. t # {}
      BY <1>2, <2>2
    <2> DEFINE r == t \ {Chosen(t)}
    <2>4. r \in SUBSET S /\ n \in Nat /\ Cardinality(r) = n - 1
      BY <2>2, <2>3, ChosenFacts
    <2>5. ~OK(r)
      BY <1>3, <2>2, <2>3
    <2>6. Cardinality(r) \in Bad
      BY <2>4, <2>5
    <2>7. n <= n - 1
      BY <2>1, <2>4, <2>6
    <2> QED BY <2>4, <2>7
  <1>5. OK(s)
    BY <1>4
  <1> QED BY <1>5 DEF OK

LEMMA TotalFacts ==
  ASSUME keyStack \in Seq(KeyType)
  PROVE  TotalInputs \in Nat /\ (Typed => TotalInputs > 0)
  <1> DEFINE f == [i \in DOMAIN keyStack |-> keyStack[i].inputs]
             S == DOMAIN f
  <1>1. S = 1..Len(keyStack) /\ Len(keyStack) \in Nat
    OBVIOUS
  <1>2. IsFiniteSet(S)
    BY <1>1, FS_Interval
  <1>3. ASSUME NEW i \in DOMAIN keyStack
        PROVE  keyStack[i].inputs \in Nat
    <2>1. keyStack[i] \in KeyType
      OBVIOUS
    <2> QED BY <2>1 DEF KeyType
  <1>4. TotalInputs = Sums(f, S)[S]
    BY DEF TotalInputs, FoldFunction, FoldFunctionOnSet, MapThenFoldSet, Sums, SumStep, Chosen
  <1>5. Sums(f, S)[S] \in Nat /\ ((\E x \in S : f[x] > 0) => Sums(f, S)[S] > 0)
    <2>1. \A i \in S : f[i] \in Nat
      BY <1>3
    <2> HIDE DEF f
    <2> DEFINE D == S
               h == Sums(f, D)
    <2>2. h = [s \in SUBSET D |-> SumStep(f, h, s)]
      BY <1>2, SumDefined
    <2>3. IsFiniteSet(D) /\ D \in SUBSET D /\ \A i \in D : f[i] \in Nat
      BY <1>2, <2>1
    <2>4. h = Sums(f, S) /\ D = S
      OBVIOUS
    <2> HIDE DEF h, D
    <2>5. h[D] \in Nat /\ ((\E x \in D : f[x] > 0) => h[D] > 0)
      BY <2>2, <2>3, SumFacts
    <2> QED BY <2>4, <2>5
  <1> QED BY <1>4, <1>5 DEF Typed
-----------------------------------------------------------------------------
(* the manager's operations                                                *)

LEMMA PreviousFacts ==
  ASSUME NEW u \in UmType, InStack(u)
  PROVE  /\ Back(u) => Previous(u) \in 1..(u.index - 1)
         /\ ~Back(u) => \A i \in 1..(u.index - 1) : u.snapshots[i].content = u.current.content
  <1> DEFINE d == Differing(u, 1..(u.index - 1))
  <1>1. d \subseteq 1..(u.index - 1) /\ u.index - 1 \in Nat
    BY DEF Differing, InStack
  <1>2. d # {} => Max(d) \in d
    BY <1>1, GreatestIndex
  <1>3. Previous(u) = IF d = {} THEN 0 ELSE Max(d)
    BY DEF Previous
  <1>4. Back(u) => Previous(u) \in 1..(u.index - 1)
    BY <1>1, <1>2, <1>3 DEF Back
  <1>5. ~Back(u) => d = {}
    BY <1>1, <1>2, <1>3 DEF Back
  <1> QED BY <1>4, <1>5 DEF Differing

LEMMA FollowingFacts ==
  ASSUME NEW u \in UmType, InStack(u), Following(u) # 0
  PROVE  Following(u) \in (u.index + 1)..Len(u.snapshots)
  <1> DEFINE d == Differing(u, (u.index + 1)..Len(u.snapshots))
  <1>1. d \subseteq Nat /\ d \subseteq (u.index + 1)..Len(u.snapshots)
    BY DEF Differing, InStack
  <1>2. d # {} /\ Following(u) = Min(d)
    BY DEF Following
  <1> QED BY <1>1, <1>2, LeastIndex

LEMMA SameBack ==
  ASSUME NEW u, NEW v,
         v.snapshots = u.snapshots, v.index = u.index, v.current = u.current
  PROVE  (Back(v) <=> Back(u)) /\ (OnImage(v) <=> OnImage(u)) /\ (InStack(v) <=> InStack(u))
         /\ Previous(v) = Previous(u)
  BY DEF Back, Previous, Differing, OnImage, InStack

\* The operations that only concern the keys.
LEMMA ResetTypeFacts ==
  ASSUME NEW u \in UmType
  PROVE  LET v == ResetType(u) IN
         /\ v \in UmType /\ v.snapshots = u.snapshots /\ v.index = u.index
         /\ v.current = u.current /\ v.hasUndo = u.hasUndo /\ v.locked = u.locked
         /\ v.typing = FALSE /\ v.strokes = NoStrokes
  BY DEF ResetType, UmType, NoStrokes

LEMMA RefreshFacts ==
  ASSUME NEW u \in UmType
  PROVE  LET v == RefreshState(u) IN
         /\ v \in UmType /\ v.snapshots = u.snapshots /\ v.index = u.index
         /\ v.current = u.current /\ v.hasUndo = Back(u) /\ v.locked = u.locked
         /\ v.typing = FALSE /\ v.strokes = NoStrokes
  <1> DEFINE w == [u EXCEPT !.hasUndo = Previous(u) # 0, !.hasRedo = Following(u) # 0]
  <1>1. /\ w \in UmType /\ w.snapshots = u.snapshots /\ w.index = u.index
        /\ w.current = u.current /\ w.hasUndo = (Previous(u) # 0) /\ w.locked = u.locked
    BY DEF UmType
  <1> HIDE DEF w
  <1>2. RefreshState(u) = ResetType(w)
    BY DEF RefreshState, w
  <1>3. ResetType(w) \in UmType /\ ResetType(w).snapshots = w.snapshots
        /\ ResetType(w).index = w.index
        /\ ResetType(w).current = w.current /\ ResetType(w).hasUndo = w.hasUndo
        /\ ResetType(w).locked = w.locked /\ ResetType(w).typing = FALSE
        /\ ResetType(w).strokes = NoStrokes
    BY <1>1, ResetTypeFacts
  <1>4. Back(u) = (Previous(u) # 0)
    BY DEF Back
  <1> QED BY <1>1, <1>2, <1>3, <1>4

\* A new image is the last one, and the stack keeps its limit.
LEMMA PushedFacts ==
  ASSUME NEW u \in UmType, InStack(u), NEW d \in Image
  PROVE  LET v == Pushed(u, d) IN
         /\ v \in UmType /\ InStack(v) /\ v.current = d /\ v.snapshots[v.index] = d
         /\ v.hasUndo = u.hasUndo /\ v.locked = u.locked /\ v.typing = u.typing
         /\ v.strokes = u.strokes
  <1> DEFINE kept == SubSeq(u.snapshots, 1, u.index)
             room == IF Len(kept) = Limit THEN Tail(kept) ELSE kept
             v == [u EXCEPT !.snapshots = Append(room, d), !.index = Len(room) + 1, !.current = d]
  <1>a. /\ u.snapshots \in Seq(Image) /\ u.index \in 1..Len(u.snapshots)
        /\ 1 \in 1..(Len(u.snapshots) + 1) /\ Len(u.snapshots) \in Nat
        /\ Len(u.snapshots) <= Limit
    BY DEF UmType, InStack
  <1>b. /\ kept \in Seq(Image)
        /\ Len(kept) = (IF 1 <= u.index THEN u.index - 1 + 1 ELSE 0)
    BY <1>a, SubSeqProperties
  <1> HIDE DEF kept
  <1>1. kept \in Seq(Image) /\ Len(kept) = u.index /\ Len(kept) <= Limit
    <2>1. u.index \in Nat /\ u.index >= 1 /\ u.index <= Len(u.snapshots) /\ Limit \in Nat
      BY <1>a, UndoAssumption
    <2> QED BY <1>a, <1>b, <2>1
  <1>2. room \in Seq(Image) /\ Len(room) + 1 <= Limit
    BY <1>a, <1>1, UndoAssumption
  <1>3. /\ Append(room, d) \in Seq(Image) /\ Len(Append(room, d)) = Len(room) + 1
        /\ Append(room, d)[Len(room) + 1] = d /\ Len(room) \in Nat
    BY <1>2
  <1>5. Pushed(u, d) = v
    BY DEF Pushed, kept
  <1> HIDE DEF room
  <1> DEFINE stack == Append(room, d)
             last == Len(room) + 1
             w == [u EXCEPT !.snapshots = stack, !.index = last, !.current = d]
  <1>6. v = w /\ stack \in Seq(Image) /\ last \in Nat /\ stack[last] = d
        /\ last \in 1..Len(stack) /\ Len(stack) <= Limit
    BY <1>2, <1>3
  <1> HIDE DEF stack, last, v
  <1>4. /\ w \in UmType /\ w.snapshots = stack /\ w.index = last
        /\ w.current = d /\ w.hasUndo = u.hasUndo /\ w.locked = u.locked
        /\ w.typing = u.typing /\ w.strokes = u.strokes
    BY <1>6 DEF UmType
  <1> HIDE DEF w
  <1> QED BY <1>4, <1>5, <1>6 DEF InStack

\* Save takes the image or leaves the manager as it is.
LEMMA SaveFacts ==
  ASSUME NEW u \in UmType, InStack(u), NEW d \in Image, NEW contentOnly \in BOOLEAN
  PROVE  LET v == Save(u, d, contentOnly) IN
         /\ v \in UmType /\ InStack(v) /\ v.locked = u.locked
         /\ OnImage(u) => OnImage(v)
         /\ \/ v = u /\ (Locked(u) \/ d.content = u.current.content)
            \/ /\ ~Locked(u) /\ v.current = d /\ v.hasUndo = Back(v)
               /\ v.typing = FALSE /\ v.strokes = NoStrokes
  <1>1. CASE ~Saves(u, d, contentOnly)
    BY <1>1 DEF Save, Saves
  <1>2. CASE Saves(u, d, contentOnly)
    <2> DEFINE w == Pushed(u, d)
               v == RefreshState(w)
    <2>1. /\ w \in UmType /\ InStack(w) /\ w.current = d /\ w.snapshots[w.index] = d
          /\ w.locked = u.locked
      BY PushedFacts
    <2> HIDE DEF w
    <2>2. /\ v \in UmType /\ v.snapshots = w.snapshots /\ v.index = w.index
          /\ v.current = w.current /\ v.hasUndo = Back(w) /\ v.locked = w.locked
          /\ v.typing = FALSE /\ v.strokes = NoStrokes
      BY <2>1, RefreshFacts
    <2>3. ~Locked(u) /\ Save(u, d, contentOnly) = v
      BY <1>2 DEF Save, Saves, w
    <2> HIDE DEF v
    <2>4. Back(v) = Back(w) /\ InStack(v)
      BY <2>1, <2>2, SameBack DEF Back
    <2> QED BY <2>1, <2>2, <2>3, <2>4 DEF OnImage
  <1> QED BY <1>1, <1>2

LEMMA SaveQuietlyFacts ==
  ASSUME NEW u \in UmType, InStack(u), NEW d \in Image, NEW contentOnly \in BOOLEAN
  PROVE  LET v == SaveQuietly(u, d, contentOnly) IN
         /\ v \in UmType /\ InStack(v) /\ v.locked = u.locked /\ v.hasUndo = u.hasUndo
         /\ OnImage(u) => OnImage(v)
         /\ \/ v = u /\ (Locked(u) \/ d.content = u.current.content)
            \/ ~Locked(u) /\ v.current = d
  BY PushedFacts DEF SaveQuietly, Saves, OnImage

\* A selection is exchanged in the last snapshot, of which the contents stay.
Kept(u) == [i \in DOMAIN u.snapshots |-> u.snapshots[i].content]

LEMMA KeptFacts ==
  ASSUME NEW u \in UmType, NEW v \in UmType, Kept(v) = Kept(u), v.index = u.index,
         v.current.content = u.current.content, InStack(u)
  PROVE  (Back(v) <=> Back(u)) /\ (OnImage(u) => OnImage(v)) /\ InStack(v)
  <1>1. DOMAIN u.snapshots = 1..Len(u.snapshots) /\ DOMAIN v.snapshots = 1..Len(v.snapshots)
        /\ Len(u.snapshots) \in Nat /\ Len(v.snapshots) \in Nat
    BY DEF UmType
  <1>2. DOMAIN v.snapshots = DOMAIN u.snapshots
    BY DEF Kept
  <1>3. Len(v.snapshots) = Len(u.snapshots)
    BY <1>1, <1>2
  <1>4. \A i \in 1..Len(u.snapshots) : v.snapshots[i].content = u.snapshots[i].content
    BY <1>1, <1>2 DEF Kept
  <1>5. \A i \in 1..(u.index - 1) : i \in 1..Len(u.snapshots)
    BY <1>1 DEF InStack
  <1>6. Differing(v, 1..(v.index - 1)) = Differing(u, 1..(u.index - 1))
    BY <1>4, <1>5 DEF Differing
  <1>7. Previous(v) = Previous(u)
    BY <1>6 DEF Previous
  <1> QED BY <1>3, <1>4, <1>7 DEF Back, OnImage, InStack

LEMMA SelectionFacts ==
  ASSUME NEW u \in UmType, InStack(u), NEW d \in Image
  PROVE  LET v == AmendSelection(u, d) IN
         /\ v \in UmType /\ Kept(v) = Kept(u) /\ v.index = u.index /\ InStack(v)
         /\ v.current.content \in {u.current.content, d.content}
         /\ v.hasUndo = u.hasUndo /\ v.locked = u.locked
         /\ v.typing = FALSE /\ v.strokes = NoStrokes
  <1> DEFINE w == UpdateSelection(u, d)
             n == Len(u.snapshots)
  <1>1. /\ w \in UmType /\ w.index = u.index /\ w.hasUndo = u.hasUndo /\ w.locked = u.locked
        /\ w.current \in {u.current, d} /\ Kept(w) = Kept(u)
        /\ Len(w.snapshots) = Len(u.snapshots)
    <2>1. CASE u.snapshots[n].content = d.content /\ u.snapshots[n] # d
      <3> DEFINE stack == [u.snapshots EXCEPT ![n] = d]
      <3>1. w = [u EXCEPT !.snapshots = stack, !.current = d]
        BY <2>1 DEF UpdateSelection
      <3>2. u.snapshots \in Seq(Image) /\ n \in DOMAIN u.snapshots
        BY DEF UmType, InStack
      <3>3. stack \in Seq(Image) /\ Len(stack) = n /\ DOMAIN stack = DOMAIN u.snapshots
            /\ \A i \in DOMAIN stack : stack[i].content = u.snapshots[i].content
        BY <2>1, <3>2
      <3> HIDE DEF stack
      <3>4. /\ w \in UmType /\ w.snapshots = stack /\ w.index = u.index
            /\ w.hasUndo = u.hasUndo /\ w.locked = u.locked /\ w.current = d
        BY <3>1, <3>3 DEF UmType
      <3> QED BY <3>3, <3>4 DEF Kept
    <2>2. CASE ~(u.snapshots[n].content = d.content /\ u.snapshots[n] # d)
      BY <2>2 DEF UpdateSelection
    <2> QED BY <2>1, <2>2
  <1> HIDE DEF w
  <1> DEFINE v == ResetType(w)
  <1>2. /\ v \in UmType /\ v.snapshots = w.snapshots /\ v.index = w.index
        /\ v.current = w.current /\ v.hasUndo = w.hasUndo /\ v.locked = w.locked
        /\ v.typing = FALSE /\ v.strokes = NoStrokes
    BY <1>1, ResetTypeFacts
  <1>3. AmendSelection(u, d) = v
    BY DEF AmendSelection, w
  <1> HIDE DEF v
  <1>4. Kept(v) = Kept(u) /\ InStack(v)
    BY <1>1, <1>2 DEF Kept, InStack
  <1> QED BY <1>1, <1>2, <1>3, <1>4

\* Typing offers to undo, until it is saved; under a lock it does not save.
LEMMA TypeFacts ==
  ASSUME NEW u \in UmType, InStack(u), NEW d \in Image, NEW key \in KeyNames,
         NEW exceeded \in BOOLEAN, TypingOffers(u)
  PROVE  LET v == Type(u, d, key, exceeded) IN
         /\ v.locked = u.locked
         /\ v \in UmType /\ InStack(v)
         /\ OnImage(u) => OnImage(v)
         /\ \/ /\ v.hasUndo /\ v.snapshots = u.snapshots /\ v.index = u.index
               /\ v.current = u.current
            \/ /\ ~Locked(u) /\ v.current = d /\ v.hasUndo = Back(v)
               /\ v.typing = FALSE /\ v.strokes = NoStrokes
  <1> DEFINE n == u.strokes[Group(key)] + 1
             full == exceeded \/ n >= StrokesLimit
             t == TypingStarts(u)
             w == IF full THEN Save(t, d, FALSE) ELSE t
             m == IF full THEN 0 ELSE n
             g == Group(key)
             v == [w EXCEPT !.strokes[g] = m, !.group = g]
  <1>1. g \in {"printable", "functional"} /\ n \in Nat /\ m \in Nat
    BY DEF Group, UmType, KeyNames
  <1>2. /\ t \in UmType /\ t.snapshots = u.snapshots /\ t.index = u.index /\ t.hasUndo = TRUE
        /\ t.current = u.current /\ t.locked = u.locked /\ t.strokes = u.strokes
    BY DEF TypingStarts, UmType, TypingOffers
  <1>3. InStack(t) /\ (OnImage(t) <=> OnImage(u))
    BY <1>2 DEF InStack, OnImage
  <1> HIDE DEF t
  <1>4. /\ w \in UmType /\ InStack(w) /\ w.locked = u.locked /\ (OnImage(t) => OnImage(w))
        /\ \/ w = t
           \/ /\ full /\ ~Locked(u) /\ w.current = d /\ w.hasUndo = Back(w)
              /\ w.typing = FALSE /\ w.strokes = NoStrokes
    <2>1. CASE full
      <3> HIDE DEF full
      <3> DEFINE z == Save(t, d, FALSE)
      <3>1. /\ z \in UmType /\ InStack(z) /\ z.locked = t.locked /\ (OnImage(t) => OnImage(z))
            /\ \/ z = t
               \/ /\ ~Locked(t) /\ z.current = d /\ z.hasUndo = Back(z)
                  /\ z.typing = FALSE /\ z.strokes = NoStrokes
        BY <1>2, <1>3, SaveFacts
      <3>2. w = z
        BY <2>1
      <3> QED BY <1>2, <2>1, <3>1, <3>2 DEF Locked
    <2>2. CASE ~full
      BY <1>2, <1>3, <2>2
    <2> QED BY <2>1, <2>2
  <1>5. full => m = 0
    OBVIOUS
  <1> HIDE DEF w, m, g, full
  <1>6. /\ v \in UmType /\ v.snapshots = w.snapshots /\ v.index = w.index
        /\ v.hasUndo = w.hasUndo /\ v.current = w.current /\ v.locked = w.locked
        /\ v.typing = w.typing /\ v.strokes = [w.strokes EXCEPT ![g] = m] /\ v.group = g
    BY <1>1, <1>4 DEF UmType
  <1>7. Type(u, d, key, exceeded) = v
    BY DEF Type, w, m, g, full, t
  <1> HIDE DEF v
  <1>8. (Back(v) <=> Back(w)) /\ (OnImage(v) <=> OnImage(w)) /\ (InStack(v) <=> InStack(w))
    BY <1>6, SameBack
  <1>9. (w.strokes = NoStrokes /\ full) => v.strokes = NoStrokes
    BY <1>1, <1>5, <1>6 DEF NoStrokes, g
  <1>10. Back(v) \in BOOLEAN /\ Back(w) \in BOOLEAN
    BY DEF Back
  <1> QED BY <1>2, <1>3, <1>4, <1>6, <1>7, <1>8, <1>9, <1>10

\* The lock keeps the content that was there, to see at the end if it has changed.
LEMMA LockOnFacts ==
  ASSUME NEW u \in UmType, u.locked.level <= 2, document \in Image,
         NEW dont \in BOOLEAN, NEW force \in BOOLEAN
  PROVE  LET v == LockOn(u, dont, force) IN
         /\ v \in UmType /\ v.snapshots = u.snapshots /\ v.index = u.index
         /\ v.current = u.current /\ v.hasUndo = u.hasUndo
         /\ v.typing = u.typing /\ v.strokes = u.strokes /\ Locked(v)
         /\ IF Locked(u)
            THEN v.locked.level = u.locked.level + 1 /\ v.locked.update = u.locked.update
            ELSE /\ v.locked.level = 1
                 /\ v.locked.update \in Contents => u.current.content = v.locked.update
                 /\ (force /\ ~dont) => v.locked.update = ForceUpdate
  <1>1. u.locked.level \in 0..2 /\ u.locked.update \in Contents \cup {NoUpdate, ForceUpdate}
        /\ u.locked = [level |-> u.locked.level, update |-> u.locked.update]
    BY DEF UmType
  <1>2. CASE Locked(u)
    <2> DEFINE k == [level |-> u.locked.level + 1, update |-> u.locked.update]
               v == [u EXCEPT !.locked = k]
    <2>1. k \in [level : 0..3, update : Contents \cup {NoUpdate, ForceUpdate}]
      BY <1>1
    <2>2. LockOn(u, dont, force) = v
      BY <1>1, <1>2 DEF LockOn, UmType
    <2>3. k.level = u.locked.level + 1 /\ k.update = u.locked.update
      OBVIOUS
    <2> HIDE DEF k
    <2>4. /\ v \in UmType /\ v.snapshots = u.snapshots /\ v.index = u.index
          /\ v.current = u.current /\ v.hasUndo = u.hasUndo
          /\ v.typing = u.typing /\ v.strokes = u.strokes /\ v.locked = k
      BY <2>1 DEF UmType
    <2> HIDE DEF v
    <2> QED BY <1>1, <1>2, <2>2, <2>3, <2>4 DEF Locked
  <1>3. CASE ~Locked(u)
    <2> DEFINE x == IF dont THEN NoUpdate ELSE IF force THEN ForceUpdate
                    ELSE IF u.current.content = document.content THEN document.content
                    ELSE NoUpdate
               k == [level |-> 1, update |-> x]
               v == [u EXCEPT !.locked = k]
    <2>1. x \in Contents \cup {NoUpdate, ForceUpdate}
      BY DEF Image
    <2>2. /\ x \in Contents => u.current.content = x
          /\ (force /\ ~dont) => x = ForceUpdate
      BY UndoAssumption DEF NoUpdate, ForceUpdate
    <2>3. LockOn(u, dont, force) = v
      BY <1>3 DEF LockOn
    <2> HIDE DEF x
    <2>4. /\ k \in [level : 0..3, update : Contents \cup {NoUpdate, ForceUpdate}]
          /\ k.level = 1 /\ k.update = x
      BY <2>1
    <2> HIDE DEF k
    <2>5. /\ v \in UmType /\ v.snapshots = u.snapshots /\ v.index = u.index
          /\ v.current = u.current /\ v.hasUndo = u.hasUndo
          /\ v.typing = u.typing /\ v.strokes = u.strokes /\ v.locked = k
      BY <2>4 DEF UmType
    <2> HIDE DEF v
    <2> QED BY <1>3, <2>2, <2>3, <2>4, <2>5 DEF Locked
  <1> QED BY <1>2, <1>3

\* An update replaces snapshots of one content, and makes no other one.
LEMMA UpdateFacts ==
  ASSUME NEW u \in UmType, InStack(u), NEW d \in Image
  PROVE  LET v == Update(u, d) IN
         /\ v \in UmType /\ InStack(v) /\ v.hasUndo = u.hasUndo /\ v.locked = u.locked
         /\ v.typing = u.typing /\ v.strokes = u.strokes
         /\ Back(v) => Back(u)
         /\ IF Locked(u) THEN v = u ELSE v.current = d /\ OnImage(v)
  <1>1. CASE Locked(u)
    BY <1>1 DEF Update
  <1>2. CASE ~Locked(u)
    <2> DEFINE other == {i \in 1..(u.index - 1) : u.snapshots[i].content # u.current.content}
               i == IF other = {} THEN 1 ELSE Max(other) + 1
               low == SubSeq(u.snapshots, 1, i - 1)
               high == SubSeq(u.snapshots, u.index + 1, Len(u.snapshots))
               stack == low \o <<d>> \o high
               v == [u EXCEPT !.snapshots = stack, !.index = i, !.current = d]
    <2>1. Update(u, d) = v
      BY <1>2 DEF Update, UmType
    <2>2. /\ u.snapshots \in Seq(Image) /\ Len(u.snapshots) \in Nat /\ u.index \in Nat
          /\ u.index >= 1 /\ u.index <= Len(u.snapshots) /\ Len(u.snapshots) <= Limit
      BY DEF UmType, InStack
    <2>3. other \subseteq 1..(u.index - 1) /\ u.index - 1 \in Nat
      BY <2>2
    <2>4. other # {} => Max(other) \in 1..(u.index - 1)
      BY <2>3, GreatestIndex
    <2>5. i \in Nat /\ i >= 1 /\ i <= u.index /\ (other = {} => i = 1)
      BY <2>2, <2>4
    <2>6. ~Back(u) => other = {}
      BY PreviousFacts, <2>2
    <2> HIDE DEF other, i
    <2>7. low \in Seq(Image) /\ Len(low) = i - 1
      <3>1. i = 1 => low = <<>>
        BY <2>2, SubSeqEmpty
      <3>2. i # 1 => low \in Seq(Image) /\ Len(low) = i - 1
        <4> SUFFICES ASSUME i # 1 PROVE low \in Seq(Image) /\ Len(low) = i - 1
          OBVIOUS
        <4>1. 1 \in 1..(Len(u.snapshots) + 1) /\ i - 1 \in 1..Len(u.snapshots)
              /\ i - 1 \in 0..Len(u.snapshots)
          BY <2>2, <2>5
        <4>2. low \in Seq(Image) /\ Len(low) = IF 1 <= i - 1 THEN i - 1 - 1 + 1 ELSE 0
          BY <2>2, <4>1, SubSeqProperties
        <4> QED BY <2>5, <4>2
      <3> QED BY <3>1, <3>2
    <2>8. high \in Seq(Image) /\ Len(high) = Len(u.snapshots) - u.index
      <3>1. u.index + 1 \in 1..(Len(u.snapshots) + 1) /\ Len(u.snapshots) \in 0..Len(u.snapshots)
        BY <2>2
      <3>2. /\ high \in Seq(Image)
            /\ Len(high) = IF u.index + 1 <= Len(u.snapshots)
                           THEN Len(u.snapshots) - (u.index + 1) + 1 ELSE 0
        BY <2>2, <3>1, SubSeqProperties
      <3> QED BY <2>2, <3>2
    <2> HIDE DEF low, high
    <2>9. /\ stack \in Seq(Image) /\ Len(stack) = i - 1 + 1 + (Len(u.snapshots) - u.index)
          /\ stack[i] = d
      <3> DEFINE one == low \o <<d>>
      <3>1. one \in Seq(Image) /\ Len(one) = i - 1 + 1 /\ one[i] = d
        BY <2>5, <2>7
      <3>2. stack = one \o high
        OBVIOUS
      <3> HIDE DEF one, stack
      <3>a. stack \in Seq(Image) /\ Len(stack) = Len(one) + Len(high)
        BY <2>8, <3>1, <3>2, ConcatProperties
      <3>3. Len(stack) = i - 1 + 1 + (Len(u.snapshots) - u.index) /\ stack \in Seq(Image)
        BY <2>8, <3>1, <3>a
      <3>4. i \in 1..Len(one)
        BY <2>5, <3>1
      <3>5. stack[i] = one[i]
        BY <2>8, <3>1, <3>2, <3>4
      <3> QED BY <3>1, <3>3, <3>5
    <2>10. i \in 1..Len(stack) /\ Len(stack) <= Limit
      <3>1. Limit \in Nat
        BY UndoAssumption
      <3> QED BY <2>2, <2>5, <2>9, <3>1
    <2> HIDE DEF stack
    <2>11. /\ v \in UmType /\ v.snapshots = stack /\ v.index = i /\ v.current = d
           /\ v.hasUndo = u.hasUndo /\ v.locked = u.locked
           /\ v.typing = u.typing /\ v.strokes = u.strokes
      BY <2>5, <2>9 DEF UmType
    <2> HIDE DEF v
    <2>12. InStack(v) /\ OnImage(v)
      BY <2>9, <2>10, <2>11 DEF InStack, OnImage
    <2>13. ASSUME Back(v), ~Back(u)
           PROVE  FALSE
      <3>1. v.index = 1
        BY <2>5, <2>6, <2>11, <2>13
      <3>2. Previous(v) \in 1..(v.index - 1)
        BY <2>11, <2>12, <2>13, PreviousFacts
      <3> QED BY <3>1, <3>2
    <2> QED BY <1>2, <2>1, <2>11, <2>12, <2>13
  <1> QED BY <1>1, <1>2

LEMMA RestoreFacts ==
  ASSUME NEW u \in UmType, InStack(u), NEW i \in 1..Len(u.snapshots), NEW d \in Image
  PROVE  LET v == Restore(u, i, d) IN
         /\ v \in UmType /\ InStack(v) /\ v.hasUndo = Back(v) /\ OnImage(v)
         /\ v.current = d /\ v.locked = [level |-> 0, update |-> NoUpdate]
         /\ v.typing = FALSE /\ v.strokes = NoStrokes
  <1> DEFINE free == [level |-> 0, update |-> NoUpdate]
             s == u.snapshots[i]
             w == [u EXCEPT !.locked = free, !.index = i, !.current = s]
             x == Update(w, d)
             v == RefreshState(x)
  <1>1. /\ u.snapshots \in Seq(Image) /\ s \in Image /\ i \in Nat /\ Len(u.snapshots) <= Limit
        /\ free \in [level : 0..3, update : Contents \cup {NoUpdate, ForceUpdate}]
        /\ free.level = 0
    BY DEF UmType, InStack
  <1>2. Restore(u, i, d) = v
    BY DEF Restore
  <1> HIDE DEF free, s
  <1>3. w \in UmType /\ w.snapshots = u.snapshots /\ w.index = i /\ w.locked = free
    BY <1>1 DEF UmType
  <1> HIDE DEF w
  <1>4. InStack(w) /\ ~Locked(w)
    BY <1>1, <1>3 DEF InStack, Locked
  <1>5. x \in UmType /\ InStack(x) /\ x.current = d /\ OnImage(x) /\ x.locked = free
    BY <1>1, <1>3, <1>4, UpdateFacts
  <1> HIDE DEF x
  <1>6. /\ v \in UmType /\ v.snapshots = x.snapshots /\ v.index = x.index
        /\ v.current = x.current /\ v.hasUndo = Back(x) /\ v.locked = x.locked
        /\ v.typing = FALSE /\ v.strokes = NoStrokes
    BY <1>5, RefreshFacts
  <1> HIDE DEF v
  <1>7. (Back(v) <=> Back(x)) /\ (OnImage(v) <=> OnImage(x)) /\ (InStack(v) <=> InStack(x))
        /\ Back(v) \in BOOLEAN /\ Back(x) \in BOOLEAN
    BY <1>6, SameBack DEF Back
  <1> QED BY <1>2, <1>5, <1>6, <1>7 DEF free

\* The last holder of the lock updates the snapshot if the content has changed.
LEMMA LockOffFacts ==
  ASSUME NEW u \in UmType, InStack(u), NEW d \in Image, Locked(u)
  PROVE  LET v == LockOff(u, d) IN
         /\ v \in UmType /\ InStack(v) /\ v.hasUndo = u.hasUndo
         /\ v.typing = u.typing /\ v.strokes = u.strokes
         /\ Back(v) => Back(u)
         /\ OnImage(u) => OnImage(v)
         /\ \/ /\ u.locked.level > 1 /\ v.locked.level = u.locked.level - 1
               /\ v.locked.update = u.locked.update /\ v.snapshots = u.snapshots
               /\ v.index = u.index /\ v.current = u.current
            \/ /\ u.locked.level = 1 /\ ~Locked(v) /\ v.locked.level = 0
               /\ v.locked.update = NoUpdate
               /\ \/ v.current = d
                  \/ /\ u.locked.update \in {NoUpdate, d.content}
                     /\ v.current = u.current
  <1> DEFINE free == [level |-> 0, update |-> NoUpdate]
             down == [level |-> u.locked.level - 1, update |-> u.locked.update]
             k == IF u.locked.level > 1 THEN down ELSE free
             w == [u EXCEPT !.locked = k]
             update == u.locked.update
             v == IF ~Locked(w) /\ (update = ForceUpdate \/ update \notin {NoUpdate, d.content})
                  THEN Update(w, d) ELSE w
  <1>1. u.locked.level \in 1..3 /\ update \in Contents \cup {NoUpdate, ForceUpdate}
        /\ u.locked = [level |-> u.locked.level, update |-> u.locked.update]
    BY DEF UmType, Locked
  <1>2. k \in [level : 0..3, update : Contents \cup {NoUpdate, ForceUpdate}]
    BY <1>1
  <1>3. LockOff(u, d) = v
    BY DEF LockOff
  <1>4. /\ u.locked.level > 1 => k.level = u.locked.level - 1 /\ k.update = update
        /\ ~(u.locked.level > 1) => k.level = 0 /\ k.update = NoUpdate /\ u.locked.level = 1
    BY <1>1
  <1> HIDE DEF k
  <1>5. /\ w \in UmType /\ w.snapshots = u.snapshots /\ w.index = u.index
        /\ w.current = u.current /\ w.hasUndo = u.hasUndo
        /\ w.typing = u.typing /\ w.strokes = u.strokes /\ w.locked = k
    BY <1>2 DEF UmType
  <1> HIDE DEF w
  <1>6. (Back(w) <=> Back(u)) /\ (OnImage(w) <=> OnImage(u)) /\ (InStack(w) <=> InStack(u))
    BY <1>5, SameBack
  <1>7. Locked(w) <=> u.locked.level > 1
    BY <1>1, <1>4, <1>5 DEF Locked
  <1>8. CASE u.locked.level > 1
    BY <1>3, <1>4, <1>5, <1>6, <1>7, <1>8
  <1>9. CASE /\ ~(u.locked.level > 1)
             /\ update = ForceUpdate \/ update \notin {NoUpdate, d.content}
    <2> DEFINE x == Update(w, d)
    <2>1. v = x
      BY <1>7, <1>9
    <2>2. /\ x \in UmType /\ InStack(x) /\ x.hasUndo = w.hasUndo /\ x.locked = w.locked
          /\ x.typing = w.typing /\ x.strokes = w.strokes
          /\ Back(x) => Back(w)
          /\ x.current = d /\ OnImage(x)
      BY <1>5, <1>6, <1>7, <1>9, UpdateFacts
    <2> HIDE DEF x
    <2>3. ~Locked(x)
      BY <1>7, <1>9, <2>2 DEF Locked
    <2> QED BY <1>3, <1>4, <1>5, <1>6, <1>9, <2>1, <2>2, <2>3
  <1>10. CASE /\ ~(u.locked.level > 1)
              /\ ~(update = ForceUpdate \/ update \notin {NoUpdate, d.content})
    BY <1>3, <1>4, <1>5, <1>6, <1>7, <1>10
  <1> QED BY <1>8, <1>9, <1>10
-----------------------------------------------------------------------------
(* what the operations offer                                               *)

LEMMA SaveOffers ==
  ASSUME NEW u \in UmType, InStack(u), NEW d \in Image, NEW contentOnly \in BOOLEAN,
         NEW t \in BOOLEAN, TypingOffers(u)
  PROVE  LET v == Save(u, d, contentOnly) IN
         /\ TypingOffers(v)
         /\ RecordedOffers(u, t) => RecordedOffers(v, t)
         /\ LockTrue(u) => LockTrue(v)
         /\ Offers(u, d, t) => Offers(v, d, t)
         /\ v.locked = u.locked
         /\ (~Locked(u) /\ ~contentOnly) => d.content = v.current.content
  <1> DEFINE v == Save(u, d, contentOnly)
  <1>1. /\ v.locked = u.locked
        /\ \/ v = u /\ (Locked(u) \/ d.content = u.current.content)
           \/ /\ ~Locked(u) /\ v.current = d /\ v.hasUndo = Back(v)
              /\ v.typing = FALSE /\ v.strokes = NoStrokes
    BY SaveFacts
  <1> HIDE DEF v
  <1>2. TypingOffers(v)
    BY <1>1 DEF TypingOffers
  <1>3. (RecordedOffers(u, t) => RecordedOffers(v, t)) /\ (LockTrue(u) => LockTrue(v))
    BY <1>1 DEF RecordedOffers, LockTrue, Locked
  <1>4. Offers(u, d, t) => Offers(v, d, t)
    BY <1>1, <1>3 DEF Offers, AheadOffers
  <1> QED BY <1>1, <1>2, <1>3, <1>4 DEF v

LEMMA TypeLocked ==
  ASSUME NEW u \in UmType, InStack(u), NEW d \in Image, NEW key \in KeyNames,
         NEW exceeded \in BOOLEAN, TypingOffers(u)
  PROVE  Type(u, d, key, exceeded).locked = u.locked
  BY TypeFacts

LEMMA TypeUnderLock ==
  ASSUME NEW u \in UmType, InStack(u), NEW d \in Image, NEW key \in KeyNames,
         NEW exceeded \in BOOLEAN, TypingOffers(u), Locked(u)
  PROVE  Type(u, d, key, exceeded).snapshots = u.snapshots
  BY TypeFacts

LEMMA TypeOffers ==
  ASSUME NEW u \in UmType, InStack(u), NEW d \in Image, NEW key \in KeyNames,
         NEW exceeded \in BOOLEAN, TypingOffers(u), LockTrue(u)
  PROVE  /\ TypingOffers(Type(u, d, key, exceeded))
         /\ \A t : Offers(Type(u, d, key, exceeded), d, t)
  <1> DEFINE v == Type(u, d, key, exceeded)
  <1>0. v.locked = u.locked
    BY TypeLocked
  <1>1. \/ v.hasUndo /\ v.current = u.current
        \/ /\ ~Locked(u) /\ v.current = d /\ v.hasUndo = Back(v)
           /\ v.typing = FALSE /\ v.strokes = NoStrokes
    BY TypeFacts
  <1> HIDE DEF v
  <1>2. TypingOffers(v)
    BY <1>1 DEF TypingOffers
  <1>3. \A t : RecordedOffers(v, t) /\ AheadOffers(v, d, t)
    BY <1>1 DEF RecordedOffers, AheadOffers
  <1>4. LockTrue(v)
    BY <1>0, <1>1 DEF LockTrue, Locked
  <1> QED BY <1>2, <1>3, <1>4 DEF Offers, v

\* The invariant after an event that leaves the editor idle in the wysiwyg mode.
LEMMA Established ==
  ASSUME UndoInv, um' \in UmType, InStack(um'), um'.locked.level <= 2,
         document' \in Image, keyStack' \in Seq(KeyType), ignored' \in BOOLEAN,
         mode' = "wysiwyg", source' = source, script' = "idle", stray' \in BOOLEAN,
         stray' \/ OnImage(um'), TypingOffers(um'), stray' \/ Offers(um', document', Typed')
  PROVE  UndoInv'
  <1>1. UndoTypes'
    BY DEF UndoInv, UndoTypes, InStack
  <1>2. CurrentInv'
    BY DEF CurrentInv, OnImage
  <1>3. OfferInv'
    BY DEF OfferInv, ModeInv, Offers
  <1> QED BY <1>1, <1>2, <1>3 DEF UndoInv
-----------------------------------------------------------------------------
(* the events                                                              *)

LEMMA Idle ==
  ASSUME UndoInv, ~stray, Event
  PROVE  /\ um \in UmType /\ InStack(um) /\ um.locked.level <= 2 /\ document \in Image
         /\ keyStack \in Seq(KeyType) /\ ignored \in BOOLEAN /\ source \in Contents
         /\ script = "idle" /\ mode = "wysiwyg"
         /\ OnImage(um) /\ TypingOffers(um) /\ Offers(um, document, Typed)
         /\ Typed \in BOOLEAN /\ stray \in BOOLEAN
  BY DEF UndoInv, UndoTypes, CurrentInv, OfferInv, Event, Offers, Typed

LEMMA SavedFacts ==
  ASSUME UndoInv, ~stray, Event
  PROVE  /\ Saved \in UmType /\ InStack(Saved) /\ OnImage(Saved) /\ Saved.locked = um.locked
         /\ TypingOffers(Saved) /\ Offers(Saved, document, Typed)
  <1>1. /\ Save(um, document, TRUE) \in UmType /\ InStack(Save(um, document, TRUE))
        /\ OnImage(um) => OnImage(Save(um, document, TRUE))
    BY Idle, SaveFacts
  <1>2. /\ TypingOffers(Save(um, document, TRUE))
        /\ Offers(um, document, Typed) => Offers(Save(um, document, TRUE), document, Typed)
        /\ Save(um, document, TRUE).locked = um.locked
    BY Idle, SaveOffers
  <1> QED BY <1>1, <1>2, Idle DEF Saved

LEMMA GoToStep ==
  ASSUME UndoInv, ~stray, Event, NEW i, i # 0 => i \in 1..Len(Saved.snapshots), GoTo(i)
  PROVE  UndoInv'
  <1>1. /\ ignored' = ignored /\ mode' = mode /\ source' = source /\ script' = script
        /\ keyStack' = keyStack /\ stray' \in BOOLEAN
    BY DEF GoTo, Quiet, Locked
  <1>2. Typed' = Typed
    BY <1>1 DEF Typed
  <1>3. CASE i # 0
    <2> DEFINE v == Restore(Saved, i, document')
    <2>1. um' = v /\ document' \in Image
      <3>1. \E c \in Contents : Loads(c, Saved.snapshots[i])
        BY <1>3 DEF GoTo
      <3>2. PICK c \in Contents : document' = [Saved.snapshots[i] EXCEPT !.content = c]
        BY <3>1 DEF Loads
      <3>3. Saved.snapshots[i] \in Image
        BY <1>3, SavedFacts DEF UmType
      <3> QED BY <1>3, <3>2, <3>3 DEF GoTo, Image
    <2> DEFINE d == document'
    <2>d. d = document' /\ d \in Image /\ v = Restore(Saved, i, d)
      BY <2>1
    <2> HIDE DEF d, v
    <2>2. /\ v \in UmType /\ InStack(v) /\ v.hasUndo = Back(v) /\ OnImage(v)
          /\ v.current = d
          /\ v.locked = [level |-> 0, update |-> NoUpdate]
          /\ v.typing = FALSE /\ v.strokes = NoStrokes
      BY <1>3, <2>d, SavedFacts, RestoreFacts
    <2>3. v.locked.level = 0 /\ v.locked.level <= 2 /\ document' \in Image
      BY <2>1, <2>2 DEF UmType
    <2>4. TypingOffers(v)
      BY <2>2 DEF TypingOffers
    <2>5. Offers(v, document', Typed')
      BY <2>d, <2>2, <2>3 DEF Offers, RecordedOffers, LockTrue, AheadOffers, Locked
    <2> QED BY <1>1, <2>1, <2>2, <2>3, <2>4, <2>5, Idle, Established
  <1>4. CASE i = 0
    <2>1. um' = Saved /\ document' = document
      BY <1>4 DEF GoTo
    <2> QED BY <1>1, <1>2, <2>1, SavedFacts, Idle, Established
  <1> QED BY <1>3, <1>4

LEMMA UndoRedoStep ==
  ASSUME UndoInv, ~stray, Undo \/ Redo
  PROVE  UndoInv'
  <1>1. Event
    BY DEF Undo, Redo
  <1>2. Saved \in UmType /\ InStack(Saved)
    BY <1>1, SavedFacts
  <1>3. CASE Undo
    <2>1. Previous(Saved) # 0 => Previous(Saved) \in 1..Len(Saved.snapshots)
      <3>1. Back(Saved) => Previous(Saved) \in 1..(Saved.index - 1)
        BY <1>2, PreviousFacts
      <3> QED BY <1>2, <3>1 DEF Back, InStack, UmType
    <2>2. GoTo(Previous(Saved))
      BY <1>3 DEF Undo
    <2> QED BY <1>1, <2>1, <2>2, GoToStep
  <1>4. CASE Redo
    <2> DEFINE i == IF Saved.hasRedo THEN Following(Saved) ELSE 0
    <2>1. i # 0 => i \in 1..Len(Saved.snapshots)
      <3>1. Following(Saved) # 0 => Following(Saved) \in (Saved.index + 1)..Len(Saved.snapshots)
        BY <1>2, FollowingFacts
      <3> QED BY <1>2, <3>1 DEF InStack, UmType
    <2>2. GoTo(i)
      BY <1>4 DEF Redo
    <2> HIDE DEF i
    <2> QED BY <1>1, <2>1, <2>2, GoToStep
  <1> QED BY <1>3, <1>4

LEMMA KeydownStep ==
  ASSUME UndoInv, ~stray, NEW key \in Keys, Keydown(key)
  PROVE  UndoInv'
  <1>1. /\ Event /\ document' = document /\ stray' = stray /\ ignored' = ignored
        /\ mode' = mode /\ source' = source /\ script' = script
    BY DEF Keydown, Quiet
  <1>2. keyStack' \in Seq(KeyType) /\ Typed' = Typed
    <2> DEFINE k == [key |-> key, inputs |-> 0]
    <2>1. k \in KeyType /\ k.inputs = 0
      BY DEF KeyType, KeyNames
    <2>2. keyStack' = Append(keyStack, k) \/ keyStack' = keyStack
      BY DEF Keydown
    <2> HIDE DEF k
    <2>3. CASE keyStack' = Append(keyStack, k)
      <3>1. /\ keyStack' \in Seq(KeyType) /\ Len(keyStack') = Len(keyStack) + 1
            /\ keyStack'[Len(keyStack) + 1] = k
            /\ \A i \in 1..Len(keyStack) : keyStack'[i] = keyStack[i]
        BY <1>1, <2>1, <2>3, Idle
      <3>2. DOMAIN keyStack' = 1..(Len(keyStack) + 1) /\ DOMAIN keyStack = 1..Len(keyStack)
            /\ Len(keyStack) \in Nat
        BY <1>1, <3>1, Idle
      <3>3. Typed' => Typed
        BY <2>1, <3>1, <3>2 DEF Typed
      <3>4. Typed => Typed'
        BY <3>1, <3>2 DEF Typed
      <3>5. Typed \in BOOLEAN /\ Typed' \in BOOLEAN
        BY DEF Typed
      <3> QED BY <3>1, <3>3, <3>4, <3>5
    <2>4. CASE keyStack' = keyStack
      BY <1>1, <2>4, Idle DEF Typed
    <2> QED BY <2>2, <2>3, <2>4
  <1>3. CASE um' = um
    BY <1>1, <1>2, <1>3, Idle, Established
  <1>4. CASE um.strokes # NoStrokes /\ um' = ResetType(SaveQuietly(um, document, FALSE))
    <2> DEFINE w == SaveQuietly(um, document, FALSE)
               v == ResetType(w)
    <2>1. /\ w \in UmType /\ InStack(w) /\ w.locked = um.locked /\ w.hasUndo = um.hasUndo
          /\ OnImage(um) => OnImage(w)
          /\ w = um \/ ~Locked(um)
      BY <1>1, Idle, SaveQuietlyFacts
    <2> HIDE DEF w
    <2>2. /\ v \in UmType /\ v.snapshots = w.snapshots /\ v.index = w.index
          /\ v.current = w.current /\ v.hasUndo = w.hasUndo /\ v.locked = w.locked
          /\ v.typing = FALSE /\ v.strokes = NoStrokes
      BY <2>1, ResetTypeFacts
    <2>3. um' = v
      BY <1>4 DEF w
    <2> HIDE DEF v
    <2>4. v.hasUndo
      BY <1>1, <1>4, <2>1, <2>2, Idle DEF TypingOffers
    <2>5. InStack(v) /\ OnImage(v) /\ TypingOffers(v)
      BY <1>1, <2>1, <2>2, Idle DEF InStack, OnImage, TypingOffers
    <2>6. LockTrue(v)
      BY <1>1, <2>1, <2>2, Idle DEF LockTrue, Locked, Offers
    <2>7. Offers(v, document', Typed')
      BY <2>4, <2>6 DEF Offers, RecordedOffers, AheadOffers
    <2> QED BY <1>1, <1>2, <2>1, <2>2, <2>3, <2>5, <2>7, Idle, Established
  <1> QED BY <1>3, <1>4 DEF Keydown

\* The keys while an input is counted.
LEMMA CountedFacts ==
  ASSUME NEW stack \in Seq(KeyType), stack # <<>>
  PROVE  LET counted == [stack EXCEPT ![Len(stack)].inputs = @ + 1] IN
         /\ Last(stack).key \in KeyNames
         /\ counted \in Seq(KeyType)
         /\ \E i \in DOMAIN counted : counted[i].inputs > 0
         /\ [i \in DOMAIN counted |-> [counted[i] EXCEPT !.inputs = 0]] \in Seq(KeyType)
  <1> DEFINE n == Len(stack)
             last == stack[n]
             more == [last EXCEPT !.inputs = @ + 1]
             counted == [stack EXCEPT ![n] = more]
             zeroed == [i \in DOMAIN counted |-> [counted[i] EXCEPT !.inputs = 0]]
  <1>1. n \in 1..n /\ n \in Nat /\ DOMAIN stack = 1..n /\ last \in KeyType
    OBVIOUS
  <1>2. last.key \in KeyNames /\ more \in KeyType /\ more.inputs > 0
    BY <1>1 DEF KeyType
  <1>3. counted = [stack EXCEPT ![Len(stack)].inputs = @ + 1]
    BY <1>1
  <1> HIDE DEF more
  <1>4. counted \in Seq(KeyType) /\ DOMAIN counted = 1..n /\ counted[n] = more
    BY <1>1, <1>2
  <1> HIDE DEF counted
  <1>5. zeroed \in Seq(KeyType)
    <2>1. ASSUME NEW i \in 1..n
          PROVE  [counted[i] EXCEPT !.inputs = 0] \in KeyType
      <3>1. counted[i] \in KeyType
        BY <1>4
      <3> QED BY <3>1 DEF KeyType
    <2> QED BY <1>1, <1>4, <2>1
  <1> HIDE DEF zeroed
  <1>6. \E i \in DOMAIN counted : counted[i].inputs > 0
    BY <1>1, <1>2, <1>4
  <1>7. zeroed = [i \in DOMAIN counted |-> [counted[i] EXCEPT !.inputs = 0]]
    BY DEF zeroed
  <1> QED BY <1>2, <1>3, <1>4, <1>5, <1>6, <1>7 DEF Last

LEMMA ChangedFacts ==
  ASSUME document \in Image, NEW c \in Contents, Changes(c)
  PROVE  document' \in Image /\ document'.content = c
  BY DEF Changes, Image

LEMMA InputStep ==
  ASSUME UndoInv, ~stray, NEW c \in Contents, Input(c)
  PROVE  UndoInv'
  <1>1. /\ Event /\ mode' = mode /\ source' = source /\ script' = script
        /\ stray' = (stray \/ ignored)
        /\ document' \in Image
    BY Idle, ChangedFacts DEF Input
  <1>2. CASE ignored
    <2>1. um' = um /\ keyStack' = keyStack /\ ignored' = FALSE /\ stray'
      BY <1>1, <1>2 DEF Input
    <2>2. stray' \in BOOLEAN
      BY <1>1, Idle
    <2> QED BY <1>1, <2>1, <2>2, Idle, Established
  <1>3. CASE ~ignored
    <2> DEFINE stack == IF keyStack = <<>> THEN <<[key |-> "zero", inputs |-> 0]>> ELSE keyStack
               key == Last(stack).key
               counted == [stack EXCEPT ![Len(stack)].inputs = @ + 1]
               zeroed == [i \in DOMAIN counted |-> [counted[i] EXCEPT !.inputs = 0]]
    <2>1. /\ ignored' = ignored /\ stray' = FALSE
          /\ \/ um' = Type(um, document', key, TRUE) /\ keyStack' = zeroed
             \/ um' = um /\ keyStack' = counted
      BY <1>1, <1>3, Idle DEF Input
    <2>2. stack \in Seq(KeyType) /\ stack # <<>>
      <3>1. [key |-> "zero", inputs |-> 0] \in KeyType
        BY DEF KeyType, KeyNames
      <3>2. keyStack \in Seq(KeyType)
        BY <1>1, Idle
      <3> QED BY <3>1, <3>2
    <2> HIDE DEF stack
    <2>3. /\ key \in KeyNames /\ counted \in Seq(KeyType) /\ zeroed \in Seq(KeyType)
          /\ \E i \in DOMAIN counted : counted[i].inputs > 0
      BY <2>2, CountedFacts
    <2> HIDE DEF key, counted, zeroed
    <2>4. CASE um' = um /\ keyStack' = counted
      <3>1. Typed'
        BY <2>3, <2>4 DEF Typed
      <3>2. Offers(um', document', Typed')
        BY <1>1, <2>4, <3>1, Idle DEF Offers, RecordedOffers, AheadOffers
      <3> QED BY <1>1, <2>1, <2>3, <2>4, <3>2, Idle, Established
    <2>5. CASE um' = Type(um, document', key, TRUE) /\ keyStack' = zeroed
      <3> DEFINE d == document'
                 v == Type(um, d, key, TRUE)
      <3>1. d \in Image /\ um \in UmType /\ InStack(um) /\ TypingOffers(um) /\ LockTrue(um)
            /\ OnImage(um) /\ um.locked.level <= 2
        BY <1>1, Idle DEF Offers
      <3>2. um' = v
        BY <2>5
      <3> HIDE DEF d
      <3>3. v \in UmType /\ InStack(v) /\ (OnImage(um) => OnImage(v))
        BY <2>3, <3>1, TypeFacts
      <3>4. v.locked = um.locked
        BY <2>3, <3>1, TypeLocked
      <3>5. TypingOffers(v) /\ \A t : Offers(v, d, t)
        BY <2>3, <3>1, TypeOffers
      <3>6. d = document'
        BY DEF d
      <3> HIDE DEF v
      <3> QED BY <1>1, <2>1, <2>3, <2>5, <3>1, <3>2, <3>3, <3>4, <3>5, <3>6, Idle, Established
    <2> QED BY <2>1, <2>4, <2>5
  <1> QED BY <1>2, <1>3

LEMMA MovesFacts ==
  ASSUME document \in Image, NEW sel \in Selections, Moves(sel)
  PROVE  document' \in Image /\ document'.content = document.content
  BY DEF Moves, Image

LEMMA WithoutFacts ==
  ASSUME keyStack \in Seq(KeyType), NEW key
  PROVE  Without(key) \in Seq(KeyType)
  <1> DEFINE T == {i \in DOMAIN keyStack : keyStack[i].key = key}
             i == LastIndex(key)
             n == Len(keyStack)
  <1>1. n \in Nat /\ DOMAIN keyStack = 1..n
    OBVIOUS
  <1>2. CASE i = 0
    BY <1>2 DEF Without
  <1>3. CASE i # 0
    <2>1. T # {} /\ i = Max(T)
      BY <1>3 DEF LastIndex
    <2>2. i \in 1..n
      BY <1>1, <2>1, GreatestIndex
    <2> HIDE DEF i
    <2>3. Without(key) = SubSeq(keyStack, 1, i - 1) \o SubSeq(keyStack, i + 1, n)
      BY <1>3 DEF Without, RemoveAt, i
    <2>4. SubSeq(keyStack, 1, i - 1) \in Seq(KeyType)
      <3>1. \A j \in 1..(i - 1) : keyStack[j] \in KeyType
        BY <1>1, <2>2
      <3> QED BY <2>2, <3>1, SubSeqProperties
    <2>5. SubSeq(keyStack, i + 1, n) \in Seq(KeyType)
      <3>1. \A j \in (i + 1)..n : keyStack[j] \in KeyType
        BY <1>1, <2>2
      <3> QED BY <1>1, <2>2, <3>1, SubSeqProperties
    <2> QED BY <2>3, <2>4, <2>5
  <1> QED BY <1>2, <1>3

\* The selection may be exchanged when there is nothing that is not recorded.
LEMMA AmendStep ==
  ASSUME NEW u \in UmType, InStack(u), NEW d \in Image, NEW t, NEW t2,
         OnImage(u), Offers(u, d, t), d.content = u.current.content,
         u.hasUndo \/ ~t \/ t2
  PROVE  OnImage(AmendSelection(u, d)) /\ Offers(AmendSelection(u, d), d, t2)
  <1> DEFINE v == AmendSelection(u, d)
  <1>1. /\ v \in UmType /\ Kept(v) = Kept(u) /\ v.index = u.index
        /\ v.current.content = u.current.content
        /\ v.hasUndo = u.hasUndo /\ v.locked = u.locked
    BY SelectionFacts
  <1> HIDE DEF v
  <1>2. (Back(v) <=> Back(u)) /\ (OnImage(u) => OnImage(v))
    BY <1>1, KeptFacts
  <1>3. RecordedOffers(v, t2)
    BY <1>1, <1>2 DEF RecordedOffers, Offers
  <1>4. LockTrue(v)
    BY <1>1 DEF LockTrue, Offers, Locked
  <1>5. AheadOffers(v, d, t2)
    BY <1>1 DEF AheadOffers
  <1> QED BY <1>2, <1>3, <1>4, <1>5 DEF Offers, v

LEMMA KeyupStep ==
  ASSUME UndoInv, ~stray, NEW key \in Keys, NEW sel \in Selections, Keyup(key, sel)
  PROVE  UndoInv'
  <1>1. /\ Event /\ ignored' = ignored /\ mode' = mode /\ source' = source /\ script' = script
        /\ stray' = (stray \/ (key = "arrow" /\ TotalInputs = 0 /\ AmendsOther))
        /\ keyStack' = Without(key)
    BY DEF Keyup, Quiet
  <1>2. keyStack' \in Seq(KeyType)
    BY <1>1, Idle, WithoutFacts
  <1>3. document' \in Image /\ document'.content = document.content
    <2>1. Moves(IF key = "arrow" THEN sel ELSE document.sel)
      BY DEF Keyup
    <2>2. document \in Image /\ document.sel \in Selections
      BY <1>1, Idle DEF Image
    <2>3. (IF key = "arrow" THEN sel ELSE document.sel) \in Selections
      BY <2>2
    <2> QED BY <2>1, <2>2, <2>3, MovesFacts
  <1>4. TotalInputs \in Nat /\ (Typed => TotalInputs > 0)
    BY <1>1, Idle, TotalFacts
  <1>5. stray' \in BOOLEAN
    BY <1>1, Idle DEF AmendsOther
  <1>6. Offers(um, document', Typed)
    BY <1>1, <1>3, Idle DEF Offers, AheadOffers
  <1> DEFINE d == document'
  <1>7. /\ d \in Image /\ um \in UmType /\ InStack(um) /\ TypingOffers(um) /\ LockTrue(um)
        /\ OnImage(um) /\ um.locked.level <= 2 /\ Offers(um, d, Typed)
    BY <1>1, <1>3, <1>6, Idle DEF Offers
  <1>8. d = document' /\ d.content = document.content
    BY <1>3
  <1> HIDE DEF d
  <1>9. CASE TotalInputs > 0
    <2> DEFINE v == Type(um, d, key, FALSE)
    <2>1. um' = v
      BY <1>8, <1>9 DEF Keyup
    <2>2. key \in KeyNames
      BY DEF KeyNames
    <2>3. v \in UmType /\ InStack(v) /\ (OnImage(um) => OnImage(v))
      BY <1>7, <2>2, TypeFacts
    <2>4. v.locked = um.locked
      BY <1>7, <2>2, TypeLocked
    <2>5. TypingOffers(v) /\ \A t : Offers(v, d, t)
      BY <1>7, <2>2, TypeOffers
    <2> HIDE DEF v
    <2> QED BY <1>1, <1>2, <1>3, <1>5, <1>7, <1>8, <2>1, <2>3, <2>4, <2>5, Idle, Established
  <1>10. CASE ~(TotalInputs > 0) /\ key = "arrow"
    <2> DEFINE v == AmendSelection(um, d)
    <2>1. um' = v
      BY <1>8, <1>10 DEF Keyup
    <2>2. v \in UmType /\ InStack(v) /\ v.locked = um.locked /\ TypingOffers(v)
      BY <1>7, SelectionFacts DEF TypingOffers
    <2>3. TotalInputs = 0 /\ ~Typed
      BY <1>4, <1>10
    <2>4. ~stray' => d.content = um.current.content
      BY <1>1, <1>8, <1>10, <2>3 DEF AmendsOther
    <2>5. ~stray' => OnImage(v) /\ Offers(v, d, Typed')
      BY <1>7, <2>3, <2>4, AmendStep
    <2> HIDE DEF v
    <2> QED BY <1>1, <1>2, <1>3, <1>5, <1>7, <1>8, <2>1, <2>2, <2>5, Idle, Established
  <1>11. CASE ~(TotalInputs > 0) /\ key # "arrow"
    <2>1. um' = um
      BY <1>11 DEF Keyup
    <2>2. ~Typed
      BY <1>4, <1>11
    <2>3. Offers(um', document', Typed')
      BY <1>6, <2>1, <2>2 DEF Offers, RecordedOffers, AheadOffers
    <2> QED BY <1>1, <1>2, <1>3, <1>5, <1>7, <2>1, <2>3, Idle, Established
  <1> QED BY <1>9, <1>10, <1>11

LEMMA ClickStep ==
  ASSUME UndoInv, ~stray, NEW sel \in Selections, Click(sel)
  PROVE  UndoInv'
  <1>1. /\ Event /\ ignored' = ignored /\ mode' = mode /\ source' = source /\ script' = script
        /\ stray' = (stray \/ (Locked(um) /\ AmendsOther)) /\ keyStack' = keyStack
    BY DEF Click, Quiet
  <1>2. document' \in Image /\ document'.content = document.content
    BY <1>1, Idle, MovesFacts DEF Click
  <1>3. stray' \in BOOLEAN
    BY <1>1, Idle DEF AmendsOther, Locked
  <1>4. Typed' = Typed
    BY <1>1 DEF Typed
  <1> DEFINE d == document'
  <1>5. /\ d \in Image /\ um \in UmType /\ InStack(um) /\ TypingOffers(um) /\ LockTrue(um)
        /\ OnImage(um) /\ um.locked.level <= 2 /\ Offers(um, d, Typed)
    BY <1>1, <1>2, Idle DEF Offers, AheadOffers
  <1>6. d = document' /\ d.content = document.content
    BY <1>2
  <1> HIDE DEF d
  <1>7. CASE Saves(um, d, TRUE)
    <2> DEFINE w == Pushed(um, d)
               v == ResetType(w)
    <2>1. um' = v
      BY <1>6, <1>7 DEF Click
    <2>2. /\ w \in UmType /\ InStack(w) /\ w.current = d /\ w.snapshots[w.index] = d
          /\ w.hasUndo = um.hasUndo /\ w.locked = um.locked
      BY <1>5, PushedFacts
    <2> HIDE DEF w
    <2>3. /\ v \in UmType /\ v.snapshots = w.snapshots /\ v.index = w.index
          /\ v.current = w.current /\ v.hasUndo = w.hasUndo /\ v.locked = w.locked
          /\ v.typing = FALSE /\ v.strokes = NoStrokes
      BY <2>2, ResetTypeFacts
    <2> HIDE DEF v
    <2>4. ~Locked(um) /\ d.content # um.current.content
      BY <1>7 DEF Saves
    <2>5. um.hasUndo \/ Typed
      BY <1>5, <2>4 DEF Offers, Seen, AheadOffers
    <2>6. Offers(v, d, Typed)
      BY <2>2, <2>3, <2>4, <2>5 DEF Offers, RecordedOffers, AheadOffers, LockTrue, Locked
    <2>7. InStack(v) /\ OnImage(v) /\ TypingOffers(v)
      BY <2>2, <2>3 DEF InStack, OnImage, TypingOffers
    <2> QED BY <1>1, <1>2, <1>3, <1>4, <1>5, <1>6, <2>1, <2>2, <2>3, <2>6, <2>7, Idle, Established
  <1>8. CASE ~Saves(um, d, TRUE)
    <2> DEFINE v == AmendSelection(um, d)
    <2>1. um' = v
      BY <1>6, <1>8 DEF Click
    <2>2. v \in UmType /\ InStack(v) /\ v.locked = um.locked /\ TypingOffers(v)
      BY <1>5, SelectionFacts DEF TypingOffers
    <2>3. ~stray' => d.content = um.current.content
      BY <1>1, <1>6, <1>8 DEF AmendsOther, Saves
    <2>4. um.hasUndo \/ ~Typed \/ Typed
      OBVIOUS
    <2>5. ~stray' => OnImage(v) /\ Offers(v, d, Typed)
      BY <1>5, <2>3, <2>4, AmendStep
    <2> HIDE DEF v
    <2> QED BY <1>1, <1>2, <1>3, <1>4, <1>5, <1>6, <2>1, <2>2, <2>5, Idle, Established
  <1> QED BY <1>7, <1>8

FirstImageOK(d) ==
  LET v == FirstImage(d) IN
  /\ v \in UmType /\ InStack(v) /\ v.locked.level = 0 /\ OnImage(v) /\ TypingOffers(v)
  /\ \A t : Offers(v, d, t)

LEMMA FirstImageFacts ==
  ASSUME NEW d \in Image
  PROVE  FirstImageOK(d)
  <1> DEFINE v == FirstImage(d)
  <1>1. <<d>> \in Seq(Image) /\ Len(<<d>>) = 1 /\ <<d>>[1] = d /\ 1 \in 1..1
        /\ Limit \in Nat /\ Limit >= 1
    BY UndoAssumption
  <1>2. /\ v \in UmType /\ v.snapshots = <<d>> /\ v.index = 1 /\ v.current = d
        /\ v.locked.level = 0 /\ v.typing = FALSE /\ v.strokes = NoStrokes
    BY <1>1 DEF FirstImage, UmType, NoStrokes
  <1> HIDE DEF v
  <1>3. InStack(v) /\ OnImage(v) /\ TypingOffers(v)
    BY <1>1, <1>2 DEF InStack, OnImage, TypingOffers
  <1>4. ~Back(v)
    <2>1. Back(v) => Previous(v) \in 1..(v.index - 1)
      BY <1>2, <1>3, PreviousFacts
    <2> QED BY <1>2, <2>1
  <1>5. \A t : Offers(v, d, t)
    BY <1>2, <1>4 DEF Offers, RecordedOffers, AheadOffers, LockTrue, Locked
  <1> QED BY <1>2, <1>3, <1>5 DEF FirstImageOK, v

LEMMA PasteStep ==
  ASSUME UndoInv, ~stray, Paste \/ AfterPaste
  PROVE  UndoInv'
  <1>1. /\ Event /\ um' = um /\ document' = document /\ keyStack' = keyStack /\ mode' = mode
        /\ source' = source /\ script' = script /\ stray' = stray /\ ignored' \in BOOLEAN
    BY DEF Paste, AfterPaste
  <1>2. Typed' = Typed
    BY <1>1 DEF Typed
  <1> QED BY <1>1, <1>2, Idle, Established

LEMMA ResetStep ==
  ASSUME UndoInv, ~stray, ResetUndo
  PROVE  UndoInv'
  <1> DEFINE v == FirstImage(document)
  <1>1. /\ Event /\ um' = v /\ document' = document /\ keyStack' = keyStack /\ mode' = mode
        /\ source' = source /\ script' = script /\ stray' = stray /\ ignored' = ignored
    BY DEF ResetUndo, Still
  <1>2. document \in Image
    BY <1>1, Idle
  <1>3. FirstImageOK(document)
    BY <1>2, FirstImageFacts
  <1> HIDE DEF v
  <1> QED BY <1>1, <1>2, <1>3, Idle, Established DEF FirstImageOK, v

LEMMA TakeLockStep ==
  ASSUME UndoInv, ~stray, NEW dont \in BOOLEAN, NEW force \in BOOLEAN, TakeLock(dont, force)
  PROVE  UndoInv'
  <1> DEFINE v == LockOn(um, dont, force)
  <1>1. /\ Event /\ um' = v /\ document' = document /\ keyStack' = keyStack /\ mode' = mode
        /\ source' = source /\ script' = script /\ stray' = stray /\ ignored' = ignored
        /\ um.locked.level < 2
    BY DEF TakeLock, Still
  <1>2. Typed' = Typed
    BY <1>1 DEF Typed
  <1>3. /\ um \in UmType /\ InStack(um) /\ um.locked.level <= 2 /\ document \in Image
        /\ OnImage(um) /\ TypingOffers(um) /\ Offers(um, document, Typed)
    BY <1>1, Idle
  <1>4. /\ v \in UmType /\ v.snapshots = um.snapshots /\ v.index = um.index
        /\ v.current = um.current /\ v.hasUndo = um.hasUndo
        /\ v.typing = um.typing /\ v.strokes = um.strokes /\ Locked(v)
        /\ IF Locked(um)
           THEN v.locked.level = um.locked.level + 1 /\ v.locked.update = um.locked.update
           ELSE /\ v.locked.level = 1
                /\ v.locked.update \in Contents => um.current.content = v.locked.update
    BY <1>3, LockOnFacts
  <1> HIDE DEF v
  <1>5. (Back(v) <=> Back(um)) /\ (OnImage(v) <=> OnImage(um)) /\ (InStack(v) <=> InStack(um))
    BY <1>4, SameBack
  <1>6. v.locked.level <= 2
    BY <1>1, <1>3, <1>4 DEF UmType
  <1>7. TypingOffers(v)
    BY <1>3, <1>4 DEF TypingOffers
  <1>8. RecordedOffers(v, Typed)
    BY <1>3, <1>4, <1>5 DEF RecordedOffers, Offers
  <1>9. LockTrue(v)
    BY <1>3, <1>4 DEF LockTrue, Offers
  <1>10. Seen(v) \/ AheadOffers(v, document, Typed)
    BY <1>3, <1>4 DEF Seen, AheadOffers, Offers
  <1> QED BY <1>1, <1>2, <1>3, <1>4, <1>5, <1>6, <1>7, <1>8, <1>9, <1>10, Idle, Established
          DEF Offers

LEMMA HolderStep ==
  ASSUME UndoInv, ~stray, NEW c \in Contents, HolderChanges(c)
  PROVE  UndoInv'
  <1>1. /\ Event /\ Locked(um) /\ um' = um /\ keyStack' = keyStack /\ mode' = mode
        /\ source' = source /\ script' = script /\ stray' = (stray \/ Unseen)
        /\ ignored' = ignored /\ Changes(c)
    BY DEF HolderChanges, Quiet
  <1>2. Typed' = Typed
    BY <1>1 DEF Typed
  <1>3. document' \in Image
    BY <1>1, Idle, ChangedFacts
  <1>4. stray' \in BOOLEAN
    BY <1>1, Idle DEF Unseen, Locked
  <1>5. ~stray' => Seen(um)
    BY <1>1 DEF Unseen, Seen
  <1>6. stray' \/ Offers(um, document', Typed)
    BY <1>1, <1>5, Idle DEF Offers
  <1> QED BY <1>1, <1>2, <1>3, <1>4, <1>6, Idle, Established

LEMMA ReleaseStep ==
  ASSUME UndoInv, ~stray, ReleaseLock
  PROVE  UndoInv'
  <1> DEFINE v == LockOff(um, document)
  <1>1. /\ Event /\ Locked(um) /\ um' = v /\ document' = document /\ keyStack' = keyStack
        /\ mode' = mode /\ source' = source /\ script' = script /\ stray' = stray
        /\ ignored' = ignored
    BY DEF ReleaseLock, Still
  <1>2. Typed' = Typed
    BY <1>1 DEF Typed
  <1>3. /\ um \in UmType /\ InStack(um) /\ um.locked.level <= 2 /\ document \in Image
        /\ OnImage(um) /\ TypingOffers(um) /\ Offers(um, document, Typed)
    BY <1>1, Idle
  <1>4. /\ v \in UmType /\ InStack(v) /\ v.hasUndo = um.hasUndo
        /\ v.typing = um.typing /\ v.strokes = um.strokes
        /\ Back(v) => Back(um)
        /\ OnImage(um) => OnImage(v)
        /\ \/ /\ um.locked.level > 1 /\ v.locked.level = um.locked.level - 1
              /\ v.locked.update = um.locked.update /\ v.snapshots = um.snapshots
              /\ v.index = um.index /\ v.current = um.current
           \/ /\ um.locked.level = 1 /\ ~Locked(v) /\ v.locked.level = 0
              /\ v.locked.update = NoUpdate
              /\ \/ v.current = document
                 \/ /\ um.locked.update \in {NoUpdate, document.content}
                    /\ v.current = um.current
    BY <1>1, <1>3, LockOffFacts
  <1> HIDE DEF v
  <1>5. v.locked.level <= 2 /\ um.locked.level \in Nat /\ document.content \in Contents
    BY <1>3, <1>4 DEF UmType, Image
  <1>6. TypingOffers(v)
    BY <1>3, <1>4 DEF TypingOffers
  <1>7. RecordedOffers(v, Typed)
    BY <1>3, <1>4 DEF RecordedOffers, Offers
  <1>8. LockTrue(v)
    BY <1>1, <1>3, <1>4 DEF LockTrue, Offers
  <1>9. Seen(v) \/ AheadOffers(v, document, Typed)
    <2>1. CASE um.locked.level > 1
      <3>1. Locked(v)
        BY <1>4, <1>5, <2>1 DEF Locked
      <3> QED BY <1>1, <1>3, <1>4, <1>5, <2>1, <3>1 DEF Seen, AheadOffers, Offers
    <2>2. CASE v.current = document
      BY <2>2 DEF AheadOffers
    <2>3. CASE um.locked.update = NoUpdate /\ v.current = um.current
      BY <1>3, <1>4, <2>3 DEF Seen, AheadOffers, Offers
    <2>4. CASE um.locked.update = document.content /\ v.current = um.current
      BY <1>1, <1>3, <1>5, <2>4 DEF LockTrue, AheadOffers, Offers
    <2> QED BY <1>4, <2>1, <2>2, <2>3, <2>4
  <1> QED BY <1>1, <1>2, <1>3, <1>4, <1>5, <1>6, <1>7, <1>8, <1>9, Idle, Established
          DEF Offers

\* What the invariant says outside the wysiwyg mode and between the parts of a script.
LEMMA Ruled ==
  ASSUME UndoInv, ~stray
  PROVE  /\ um \in UmType /\ InStack(um) /\ document \in Image /\ keyStack \in Seq(KeyType)
         /\ ignored \in BOOLEAN /\ source \in Contents /\ stray \in BOOLEAN
         /\ mode \in {"wysiwyg", "source", "back", "changed"}
         /\ script \in {"idle", "open", "changed"}
         /\ mode # "back" => um.locked.level <= 2
         /\ OnImage(um) /\ TypingOffers(um) /\ RecordedOffers(um, Typed) /\ LockTrue(um)
         /\ ModeInv
  BY DEF UndoInv, UndoTypes, CurrentInv, OfferInv

\* The invariant after an event that leaves the editor in another mode or a script.
LEMMA EstablishedApart ==
  ASSUME UndoInv, um' \in UmType, InStack(um'), mode' # "back" => um'.locked.level <= 2,
         document' \in Image, keyStack' \in Seq(KeyType), ignored' \in BOOLEAN,
         mode' \in {"wysiwyg", "source", "back", "changed"}, source' \in Contents,
         script' \in {"idle", "open", "changed"}, stray' \in BOOLEAN,
         script' # "idle" \/ mode' # "wysiwyg",
         stray' \/ OnImage(um'), TypingOffers(um'),
         stray' \/ (RecordedOffers(um', Typed') /\ LockTrue(um') /\ ModeInv')
  PROVE  UndoInv'
  <1>1. UndoTypes'
    BY DEF UndoInv, UndoTypes, InStack
  <1>2. CurrentInv'
    BY DEF CurrentInv, OnImage
  <1>3. OfferInv'
    BY DEF OfferInv
  <1> QED BY <1>1, <1>2, <1>3 DEF UndoInv

\* Both ways in which the manager takes an image without failing its types.
LEMMA SaveStays ==
  ASSUME NEW u \in UmType, InStack(u), OnImage(u), NEW d \in Image,
         NEW contentOnly \in BOOLEAN
  PROVE  /\ Save(u, d, contentOnly) \in UmType /\ InStack(Save(u, d, contentOnly))
         /\ OnImage(Save(u, d, contentOnly))
         /\ Save(u, d, contentOnly).locked = u.locked
  BY SaveFacts

LEMMA ScriptBeginsStep ==
  ASSUME UndoInv, ~stray, NEW contentOnly \in BOOLEAN, ScriptBegins(contentOnly)
  PROVE  UndoInv'
  <1> DEFINE v == Save(um, document, contentOnly)
  <1>1. /\ Event /\ um' = v /\ script' = "open" /\ document' = document
        /\ keyStack' = keyStack /\ ignored' = ignored /\ mode' = mode /\ source' = source
        /\ stray' = stray
    BY DEF ScriptBegins
  <1>2. Typed' = Typed
    BY <1>1 DEF Typed
  <1>3. v \in UmType /\ InStack(v) /\ OnImage(v) /\ v.locked = um.locked
    BY <1>1, Idle, SaveStays
  <1>4. TypingOffers(v) /\ Offers(v, document, Typed)
    BY <1>1, Idle, SaveOffers
  <1> HIDE DEF v
  <1>5. ModeInv'
    BY <1>1, Idle DEF ModeInv
  <1> QED BY <1>1, <1>2, <1>3, <1>4, <1>5, Idle, EstablishedApart DEF Offers

LEMMA ScriptChangesStep ==
  ASSUME UndoInv, ~stray, NEW c \in Contents, ScriptChanges(c)
  PROVE  UndoInv'
  <1>1. /\ script = "open" /\ script' = "changed" /\ Changes(c) /\ um' = um
        /\ keyStack' = keyStack /\ ignored' = ignored /\ mode' = mode /\ source' = source
        /\ stray' = (stray \/ Unseen)
    BY DEF ScriptChanges
  <1>2. Typed' = Typed
    BY <1>1 DEF Typed
  <1>3. document' \in Image
    BY Ruled, <1>1, ChangedFacts
  <1>4. stray' \in BOOLEAN
    BY <1>1, Ruled DEF Unseen, Locked
  <1>5. mode = "wysiwyg"
    BY <1>1, Ruled DEF ModeInv
  <1>6. ~stray' => ModeInv'
    BY <1>1, <1>5 DEF Unseen, Seen, ModeInv, Locked
  <1> QED BY <1>1, <1>2, <1>3, <1>4, <1>5, <1>6, Ruled, EstablishedApart

LEMMA ScriptEndsStep ==
  ASSUME UndoInv, ~stray, ScriptEnds
  PROVE  UndoInv'
  <1>1. /\ script = "changed" /\ script' = "idle" /\ document' = document
        /\ keyStack' = keyStack /\ ignored' = ignored /\ mode' = mode /\ source' = source
        /\ stray' = stray
        /\ um' = Save(um, document, FALSE) \/ um' = Update(um, document)
    BY DEF ScriptEnds
  <1>2. Typed' = Typed /\ mode = "wysiwyg"
    BY <1>1, Ruled DEF Typed, ModeInv
  <1>3. Locked(um) => Seen(um)
    BY <1>1, Ruled DEF ModeInv
  <1>4. /\ um \in UmType /\ InStack(um) /\ document \in Image /\ um.locked.level <= 2
        /\ OnImage(um) /\ TypingOffers(um) /\ RecordedOffers(um, Typed) /\ LockTrue(um)
        /\ Typed \in BOOLEAN
    BY <1>2, Ruled DEF Typed
  <1>5. CASE um' = Save(um, document, FALSE)
    <2> DEFINE v == Save(um, document, FALSE)
    <2>1. v \in UmType /\ InStack(v) /\ OnImage(v)
      BY <1>4, SaveStays
    <2>2. /\ TypingOffers(v)
          /\ RecordedOffers(um, Typed) => RecordedOffers(v, Typed)
          /\ LockTrue(um) => LockTrue(v)
          /\ v.locked = um.locked
          /\ ~Locked(um) => document.content = v.current.content
      BY <1>4, SaveOffers
    <2>3. um' = v
      BY <1>5
    <2> HIDE DEF v
    <2>4. Seen(v) \/ AheadOffers(v, document, Typed)
      BY <1>3, <2>2 DEF Seen, Locked, AheadOffers
    <2> QED BY <1>1, <1>2, <1>4, <2>1, <2>2, <2>3, <2>4, Ruled, Established DEF Offers
  <1>6. CASE um' = Update(um, document)
    <2> DEFINE v == Update(um, document)
    <2>1. /\ v \in UmType /\ InStack(v) /\ v.hasUndo = um.hasUndo /\ v.locked = um.locked
          /\ v.typing = um.typing /\ v.strokes = um.strokes
          /\ Back(v) => Back(um)
          /\ IF Locked(um) THEN v = um ELSE v.current = document /\ OnImage(v)
      BY <1>4, UpdateFacts
    <2>2. um' = v
      BY <1>6
    <2> HIDE DEF v
    <2>3. OnImage(v) /\ TypingOffers(v) /\ RecordedOffers(v, Typed)
      BY <1>4, <2>1 DEF TypingOffers, RecordedOffers
    <2>4. LockTrue(v)
      BY <1>4, <2>1 DEF LockTrue, Locked
    <2>5. Seen(v) \/ AheadOffers(v, document, Typed)
      BY <1>3, <2>1 DEF Seen, Locked, AheadOffers
    <2> QED BY <1>1, <1>2, <1>4, <2>1, <2>2, <2>3, <2>4, <2>5, Ruled, Established DEF Offers
  <1> QED BY <1>1, <1>5, <1>6

LEMMA ToSourceStep ==
  ASSUME UndoInv, ~stray, ToSource
  PROVE  UndoInv'
  <1> DEFINE v == Save(um, document, TRUE)
  <1>1. /\ Event /\ um' = v /\ mode' = "source" /\ source' = document.content
        /\ stray' = (stray \/ Locked(um)) /\ document' = document
        /\ keyStack' = keyStack /\ ignored' = ignored /\ script' = script
    BY DEF ToSource
  <1>2. Typed' = Typed
    BY <1>1 DEF Typed
  <1>3. v \in UmType /\ InStack(v) /\ OnImage(v) /\ v.locked = um.locked
    BY <1>1, Idle, SaveStays
  <1>4. TypingOffers(v) /\ Offers(v, document, Typed)
    BY <1>1, Idle, SaveOffers
  <1>5. source' \in Contents /\ stray' \in BOOLEAN
    BY <1>1, Idle DEF Image, Locked
  <1> HIDE DEF v
  <1>6. ~stray' => ModeInv'
    BY <1>1, <1>3, Idle DEF ModeInv, Locked
  <1> QED BY <1>1, <1>2, <1>3, <1>4, <1>5, <1>6, Idle, EstablishedApart DEF Offers

LEMMA SourceChangesStep ==
  ASSUME UndoInv, ~stray, NEW c \in Contents, SourceChanges(c)
  PROVE  UndoInv'
  <1>1. /\ mode = "source" /\ Changes(c) /\ um' = um /\ keyStack' = keyStack
        /\ ignored' = ignored /\ mode' = mode /\ source' = source /\ script' = script
        /\ stray' = stray
    BY DEF SourceChanges, Quiet
  <1>2. Typed' = Typed
    BY <1>1 DEF Typed
  <1>3. document' \in Image
    BY Ruled, <1>1, ChangedFacts
  <1>4. ModeInv'
    BY <1>1, Ruled DEF ModeInv, Seen, Locked
  <1> QED BY <1>1, <1>2, <1>3, <1>4, Ruled, EstablishedApart

LEMMA FromSourceStep ==
  ASSUME UndoInv, ~stray, FromSource
  PROVE  UndoInv'
  <1>1. /\ mode = "source" /\ document' = document /\ keyStack' = keyStack
        /\ ignored' = ignored /\ source' = source /\ script' = script /\ stray' = stray
        /\ \/ mode' = "back" /\ um' = LockOn(um, FALSE, TRUE)
           \/ mode' = "changed" /\ um' = um
    BY DEF FromSource
  <1>2. Typed' = Typed
    BY <1>1 DEF Typed
  <1>3. ~Locked(um) /\ script = "idle"
    BY <1>1, Ruled DEF ModeInv
  <1>4. CASE mode' = "changed" /\ um' = um
    <2>1. ModeInv'
      BY <1>1, <1>3, <1>4 DEF ModeInv, Locked
    <2>2. um.locked.level <= 2
      BY <1>1, Ruled
    <2> QED BY <1>1, <1>2, <1>4, <2>1, <2>2, Ruled, EstablishedApart
  <1>5. CASE mode' = "back" /\ um' = LockOn(um, FALSE, TRUE)
    <2> DEFINE v == LockOn(um, FALSE, TRUE)
    <2>1. um \in UmType /\ InStack(um) /\ um.locked.level <= 2 /\ document \in Image
      BY <1>1, Ruled
    <2>2. /\ v \in UmType /\ v.snapshots = um.snapshots /\ v.index = um.index
          /\ v.current = um.current /\ v.hasUndo = um.hasUndo
          /\ v.typing = um.typing /\ v.strokes = um.strokes
          /\ v.locked.level = 1 /\ v.locked.update = ForceUpdate
      BY <1>3, <2>1, LockOnFacts
    <2>3. um' = v
      BY <1>5
    <2> HIDE DEF v
    <2>4. (Back(v) <=> Back(um)) /\ (OnImage(v) <=> OnImage(um)) /\ (InStack(v) <=> InStack(um))
      BY <2>2, SameBack
    <2>5. TypingOffers(v) /\ RecordedOffers(v, Typed)
      BY <2>2, <2>4, Ruled DEF TypingOffers, RecordedOffers
    <2>6. LockTrue(v)
      BY <2>2, UndoAssumption DEF LockTrue, ForceUpdate
    <2>7. ModeInv'
      BY <1>1, <1>3, <1>5, <2>2, <2>3 DEF ModeInv
    <2> QED BY <1>1, <1>2, <1>5, <2>1, <2>2, <2>3, <2>4, <2>5, <2>6, <2>7, Ruled, EstablishedApart
  <1> QED BY <1>1, <1>4, <1>5

LEMMA ModeLoadedStep ==
  ASSUME UndoInv, ~stray, NEW c \in Contents, ModeLoaded(c)
  PROVE  UndoInv'
  <1>1. /\ mode \in {"back", "changed"} /\ mode' = "wysiwyg" /\ keyStack' = keyStack
        /\ ignored' = ignored /\ source' = source /\ script' = script /\ stray' = stray
        /\ document' = [document EXCEPT !.content = IF mode = "back" THEN c ELSE @]
        /\ um' = IF mode = "back" THEN LockOff(um, document') ELSE Save(um, document', FALSE)
    BY DEF ModeLoaded
  <1>2. Typed' = Typed /\ script = "idle"
    BY <1>1, Ruled DEF Typed, ModeInv
  <1> DEFINE d == document'
  <1>3. d \in Image /\ d = document' /\ d.content \in Contents
    BY <1>1, Ruled DEF Image
  <1> HIDE DEF d
  <1>4. /\ um \in UmType /\ InStack(um) /\ OnImage(um) /\ TypingOffers(um)
        /\ RecordedOffers(um, Typed) /\ LockTrue(um) /\ Typed \in BOOLEAN
    BY Ruled DEF Typed
  <1>5. CASE mode = "back"
    <2> DEFINE v == LockOff(um, d)
    <2>1. um.locked.level = 1 /\ um.locked.update = ForceUpdate /\ Locked(um)
      BY <1>5, Ruled DEF ModeInv, Locked
    <2>2. /\ v \in UmType /\ InStack(v) /\ v.hasUndo = um.hasUndo
          /\ v.typing = um.typing /\ v.strokes = um.strokes
          /\ Back(v) => Back(um)
          /\ OnImage(um) => OnImage(v)
          /\ ~Locked(v) /\ v.locked.level = 0
          /\ \/ v.current = d
             \/ um.locked.update \in {NoUpdate, d.content}
      BY <1>3, <1>4, <2>1, LockOffFacts
    <2>3. um' = v
      BY <1>1, <1>3, <1>5
    <2> HIDE DEF v
    <2>4. ForceUpdate # NoUpdate /\ ForceUpdate # d.content
      BY <1>3, UndoAssumption DEF ForceUpdate, NoUpdate
    <2>5. v.current = d /\ v.locked.level <= 2
      BY <2>1, <2>2, <2>4
    <2>6. TypingOffers(v) /\ RecordedOffers(v, Typed)
      BY <1>4, <2>2 DEF TypingOffers, RecordedOffers
    <2>7. Offers(v, d, Typed)
      BY <2>2, <2>5, <2>6 DEF Offers, LockTrue, AheadOffers
    <2> QED BY <1>1, <1>2, <1>3, <1>4, <2>2, <2>3, <2>5, <2>6, <2>7, Ruled, Established
  <1>6. CASE mode = "changed"
    <2> DEFINE v == Save(um, d, FALSE)
    <2>1. v \in UmType /\ InStack(v) /\ OnImage(v)
      BY <1>3, <1>4, SaveStays
    <2>2. /\ TypingOffers(v)
          /\ RecordedOffers(um, Typed) => RecordedOffers(v, Typed)
          /\ LockTrue(um) => LockTrue(v)
          /\ v.locked = um.locked
          /\ ~Locked(um) => d.content = v.current.content
      BY <1>3, <1>4, SaveOffers
    <2>3. um' = v
      BY <1>1, <1>3, <1>6
    <2> HIDE DEF v
    <2>4. ~Locked(um) /\ um.locked.level <= 2
      BY <1>6, Ruled DEF ModeInv
    <2>5. Offers(v, d, Typed)
      BY <1>4, <2>2, <2>4 DEF Offers, AheadOffers
    <2> QED BY <1>1, <1>2, <1>3, <1>4, <2>1, <2>2, <2>3, <2>4, <2>5, Ruled, Established
  <1> QED BY <1>1, <1>5, <1>6
-----------------------------------------------------------------------------
(* the theorems                                                            *)

LEMMA UndoInitInv ==
  UndoInit => UndoInv
  <1> SUFFICES ASSUME UndoInit PROVE UndoInv
    OBVIOUS
  <1>1. document \in Image
    BY UndoAssumption DEF UndoInit, Image
  <1>2. FirstImageOK(document) /\ um = FirstImage(document)
    BY <1>1, FirstImageFacts DEF UndoInit
  <1>3. /\ keyStack \in Seq(KeyType) /\ ignored = FALSE /\ mode = "wysiwyg"
        /\ source \in Contents /\ script = "idle" /\ stray = FALSE
    BY <1>1 DEF UndoInit, Image
  <1>4. /\ um \in UmType /\ InStack(um) /\ um.locked.level = 0 /\ OnImage(um)
        /\ TypingOffers(um) /\ Offers(um, document, Typed)
    BY <1>2 DEF FirstImageOK
  <1>5. UndoTypes
    <2>1. um.locked.level <= 2
      BY <1>4
    <2>2. /\ ignored \in BOOLEAN /\ mode \in {"wysiwyg", "source", "back", "changed"}
          /\ script \in {"idle", "open", "changed"} /\ stray \in BOOLEAN
      BY <1>3
    <2> QED BY <1>1, <1>3, <1>4, <2>1, <2>2 DEF UndoTypes
  <1> QED BY <1>3, <1>4, <1>5 DEF UndoInv, CurrentInv, OfferInv, ModeInv, Offers, Locked

LEMMA UndoStep ==
  UndoInv /\ ~stray /\ [UndoNext]_undoVars => UndoInv'
  <1> SUFFICES ASSUME UndoInv, ~stray, [UndoNext]_undoVars PROVE UndoInv'
    OBVIOUS
  <1>1. CASE UNCHANGED undoVars
    BY <1>1 DEF undoVars, UndoInv, UndoTypes, CurrentInv, OfferInv, ModeInv, InStack, OnImage,
                TypingOffers, RecordedOffers, LockTrue, AheadOffers, Seen, Locked, Typed, Back,
                Previous, Differing
  <1>2. CASE UndoNext
    <2>1. ~stray /\ UndoEvents
      BY <1>2 DEF UndoNext
    <2>2. CASE Undo \/ Redo
      BY <2>1, <2>2, UndoRedoStep
    <2>3. CASE Paste \/ AfterPaste
      BY <2>1, <2>3, PasteStep
    <2>4. CASE ScriptEnds
      BY <2>1, <2>4, ScriptEndsStep
    <2>5. CASE ReleaseLock
      BY <2>1, <2>5, ReleaseStep
    <2>6. CASE ToSource
      BY <2>1, <2>6, ToSourceStep
    <2>7. CASE FromSource
      BY <2>1, <2>7, FromSourceStep
    <2>8. CASE ResetUndo
      BY <2>1, <2>8, ResetStep
    <2>9. CASE \E key \in Keys : Keydown(key) \/ \E sel \in Selections : Keyup(key, sel)
      BY <2>1, <2>9, KeydownStep, KeyupStep
    <2>10. CASE \E sel \in Selections : Click(sel)
      BY <2>1, <2>10, ClickStep
    <2>11. CASE \E c \in Contents :
                  \/ Input(c) \/ ScriptChanges(c) \/ HolderChanges(c) \/ SourceChanges(c)
                  \/ ModeLoaded(c)
      BY <2>1, <2>11, InputStep, ScriptChangesStep, HolderStep, SourceChangesStep, ModeLoadedStep
    <2>12. CASE \E b \in BOOLEAN : ScriptBegins(b)
      BY <2>1, <2>12, ScriptBeginsStep
    <2>13. CASE \E dont, force \in BOOLEAN : TakeLock(dont, force)
      BY <2>1, <2>13, TakeLockStep
    <2> QED BY <2>1, <2>2, <2>3, <2>4, <2>5, <2>6, <2>7, <2>8, <2>9, <2>10, <2>11, <2>12, <2>13
            DEF UndoEvents
  <1> QED BY <1>1, <1>2

LEMMA NeverStray == UndoSpec => []~stray
  <1>1. UndoInit => ~stray
    BY DEF UndoInit
  <1>2. ~stray /\ [UndoNext]_undoVars => ~stray'
    BY DEF UndoNext, undoVars
  <1> QED BY <1>1, <1>2, PTL DEF UndoSpec

LEMMA UndoInvariant == UndoSpec => []UndoInv
  BY UndoInitInv, UndoStep, NeverStray, PTL DEF UndoSpec

\* The stack of snapshots never exceeds its limit, the index points into it, and the
\* image that new images are compared with has the content of the snapshot there.
THEOREM StackOKHolds == UndoSpec => []StackOK
  <1>1. UndoInv => StackOK
    <2> SUFFICES ASSUME UndoInv PROVE StackOK
      OBVIOUS
    <2>1. um.index \in DOMAIN um.snapshots /\ Len(um.snapshots) <= Limit
          /\ um.locked.level \in 0..3
      BY DEF UndoInv, UndoTypes, InStack, UmType
    <2>2. keyStack \in Seq([key : Keys \union {"zero"}, inputs : Nat])
      BY DEF UndoInv, UndoTypes, KeyType, KeyNames
    <2> QED BY <2>1, <2>2 DEF StackOK, UndoInv, CurrentInv, OnImage
  <1> QED BY <1>1, UndoInvariant, PTL

\* The undo command is enabled whenever there is something to go back to.
THEOREM UndoOfferedHolds == UndoSpec => []UndoOffered
  <1>1. UndoInv => UndoOffered
    <2> SUFFICES ASSUME UndoInv, ~stray, script = "idle", ~Locked(um), ~(TotalInputs > 0),
                        mode = "wysiwyg",
                        Previous(um) # 0 \/ document.content # um.current.content
                 PROVE  um.hasUndo
      BY DEF UndoOffered
    <2>1. ~Typed
      <3>1. keyStack \in Seq(KeyType)
        BY DEF UndoInv, UndoTypes
      <3> QED BY <3>1, TotalFacts
    <2>2. Offers(um, document, Typed) /\ ~Seen(um)
      BY DEF UndoInv, OfferInv, Offers, Seen
    <2> QED BY <2>1, <2>2 DEF Offers, RecordedOffers, AheadOffers, Back
  <1> QED BY <1>1, UndoInvariant, PTL

\* Under a lock that is held before and after a step no recorded content changes: every
\* operation but the exchange of a selection looks at the lock.
THEOREM LockKeepsHolds == UndoSpec => LockKeeps
  <1>1. ASSUME UndoInv, ~stray, [UndoNext]_undoVars, Locked(um), Locked(um')
        PROVE  Kept(um') = Kept(um)
    <2>1. CASE UNCHANGED undoVars
      BY <2>1 DEF undoVars, Kept
    <2>2. CASE UndoNext
      <3>1. ~stray /\ UndoEvents
        BY <1>1, <2>2 DEF UndoNext
      <3>2. um \in UmType /\ InStack(um) /\ document \in Image /\ TypingOffers(um)
        BY <1>1, <3>1, Ruled
      <3>3. \A d, b : Save(um, d, b) = um /\ SaveQuietly(um, d, b) = um /\ Update(um, d) = um
                      /\ ~Saves(um, d, b)
        BY <1>1 DEF Save, SaveQuietly, Update, Saves
      <3>4. CASE Undo \/ Redo
        <4>1. Saved = um
          BY <3>3 DEF Saved
        <4>2. PICK i : GoTo(i) /\ (i # 0 => i \in 1..Len(Saved.snapshots))
          <5>1. CASE Undo
            <6>1. Previous(um) # 0 => Previous(um) \in 1..Len(um.snapshots)
              <7>1. Back(um) => Previous(um) \in 1..(um.index - 1)
                BY <3>2, PreviousFacts
              <7> QED BY <3>2, <7>1 DEF Back, InStack, UmType
            <6>2. GoTo(Previous(Saved))
              BY <5>1 DEF Undo
            <6> QED BY <4>1, <6>1, <6>2
          <5>2. CASE Redo
            <6>1. Following(um) # 0 => Following(um) \in (um.index + 1)..Len(um.snapshots)
              BY <3>2, FollowingFacts
            <6>2. Following(um) # 0 => Following(um) \in 1..Len(um.snapshots)
              BY <3>2, <6>1 DEF InStack, UmType
            <6>3. GoTo(IF Saved.hasRedo THEN Following(Saved) ELSE 0)
              BY <5>2 DEF Redo
            <6> QED BY <4>1, <6>2, <6>3
          <5> QED BY <3>4, <5>1, <5>2
        <4>3. i # 0 => \E d \in Image : um' = Restore(Saved, i, d)
          <5>1. SUFFICES ASSUME i # 0 PROVE \E d \in Image : um' = Restore(Saved, i, d)
            OBVIOUS
          <5>2. um' = Restore(Saved, i, document')
            BY <4>2, <5>1 DEF GoTo
          <5>3. PICK c \in Contents : Loads(c, Saved.snapshots[i])
            BY <4>2, <5>1 DEF GoTo
          <5>4. Saved.snapshots[i] \in Image
            BY <3>2, <4>1, <4>2, <5>1 DEF UmType
          <5>5. document' \in Image
            BY <5>3, <5>4 DEF Loads, Image
          <5> QED BY <5>2, <5>5
        <4>4. i # 0 => \A d \in Image :
                Restore(Saved, i, d).locked = [level |-> 0, update |-> NoUpdate]
          BY <3>2, <4>1, <4>2, RestoreFacts
        <4>5. i = 0
          BY <1>1, <4>3, <4>4 DEF Locked
        <4>6. um' = um
          BY <4>1, <4>2, <4>5 DEF GoTo
        <4> QED BY <4>6
      <3>5. CASE Paste \/ AfterPaste \/ ScriptEnds \/ ToSource
        BY <3>3, <3>5 DEF Paste, AfterPaste, ScriptEnds, ToSource
      <3>6. CASE ReleaseLock
        <4> DEFINE v == LockOff(um, document)
        <4>1. um' = v
          BY <3>6 DEF ReleaseLock
        <4>2. \/ v.snapshots = um.snapshots
              \/ ~Locked(v)
          BY <1>1, <3>2, LockOffFacts
        <4> HIDE DEF v
        <4> QED BY <1>1, <4>1, <4>2 DEF Kept
      <3>7. CASE FromSource \/ \E dont, force \in BOOLEAN : TakeLock(dont, force)
        <4>1. \/ um' = um
              \/ \E dont, force \in BOOLEAN :
                   um' = LockOn(um, dont, force) /\ um.locked.level <= 2
          <5>1. CASE FromSource
            <6>1. um.locked.level <= 2
              BY <1>1, <3>1, <5>1, Ruled DEF FromSource
            <6>2. um' = um \/ um' = LockOn(um, FALSE, TRUE)
              BY <5>1 DEF FromSource
            <6> QED BY <6>1, <6>2
          <5>2. ASSUME NEW dont \in BOOLEAN, NEW force \in BOOLEAN, TakeLock(dont, force)
                PROVE  um' = LockOn(um, dont, force) /\ um.locked.level <= 2
            BY <3>2, <5>2 DEF TakeLock, UmType
          <5> QED BY <3>7, <5>1, <5>2
        <4>2. um'.snapshots = um.snapshots
          BY <3>2, <4>1, LockOnFacts
        <4> QED BY <4>2 DEF Kept
      <3>8. CASE ResetUndo
        <4>1. um'.locked.level = 0
          BY <3>8 DEF ResetUndo, FirstImage
        <4> QED BY <1>1, <4>1 DEF Locked
      <3>9. ASSUME NEW key \in Keys, Keydown(key)
            PROVE  Kept(um') = Kept(um)
        <4>1. um' = um \/ um' = ResetType(um)
          BY <3>3, <3>9 DEF Keydown
        <4>2. um'.snapshots = um.snapshots
          BY <3>2, <4>1, ResetTypeFacts
        <4> QED BY <4>2 DEF Kept
      <3>10. ASSUME NEW d \in Image, NEW key \in KeyNames, NEW b \in BOOLEAN,
                    um' = Type(um, d, key, b)
             PROVE  Kept(um') = Kept(um)
        <4>1. Type(um, d, key, b).snapshots = um.snapshots
          BY <1>1, <3>2, TypeUnderLock
        <4> QED BY <3>10, <4>1 DEF Kept
      <3>11. ASSUME NEW d \in Image, um' = AmendSelection(um, d)
             PROVE  Kept(um') = Kept(um)
        BY <3>2, <3>11, SelectionFacts
      <3>12. ASSUME NEW key \in Keys, NEW sel \in Selections, Keyup(key, sel)
             PROVE  Kept(um') = Kept(um)
        <4>1. document' \in Image
          <5>1. Moves(IF key = "arrow" THEN sel ELSE document.sel)
            BY <3>12 DEF Keyup
          <5>2. (IF key = "arrow" THEN sel ELSE document.sel) \in Selections
            BY <3>2 DEF Image
          <5> QED BY <3>2, <5>1, <5>2, MovesFacts
        <4>2. \/ um' = Type(um, document', key, FALSE)
              \/ um' = AmendSelection(um, document')
              \/ um' = um
          BY <3>12 DEF Keyup
        <4> DEFINE d == document'
        <4>3. d \in Image /\ key \in KeyNames
          BY <4>1 DEF KeyNames
        <4>4. um' = Type(um, d, key, FALSE) \/ um' = AmendSelection(um, d) \/ um' = um
          BY <4>2
        <4> HIDE DEF d
        <4> QED BY <3>10, <3>11, <4>3, <4>4
      <3>13. ASSUME NEW sel \in Selections, Click(sel)
             PROVE  Kept(um') = Kept(um)
        <4> DEFINE d == document'
        <4>1. d \in Image
          BY <3>2, <3>13, MovesFacts DEF Click
        <4>2. um' = AmendSelection(um, d)
          BY <3>3, <3>13 DEF Click
        <4> HIDE DEF d
        <4> QED BY <3>11, <4>1, <4>2
      <3>14. ASSUME NEW c \in Contents, Input(c)
             PROVE  Kept(um') = Kept(um)
        <4> DEFINE stack == IF keyStack = <<>> THEN <<[key |-> "zero", inputs |-> 0]>>
                            ELSE keyStack
                   d == document'
        <4>1. um' = um \/ um' = Type(um, d, Last(stack).key, TRUE)
          BY <3>14 DEF Input
        <4>2. stack \in Seq(KeyType) /\ stack # <<>>
          <5>1. [key |-> "zero", inputs |-> 0] \in KeyType /\ keyStack \in Seq(KeyType)
            BY <1>1, <3>1, Ruled DEF KeyType, KeyNames
          <5> QED BY <5>1
        <4>3. d \in Image
          BY <3>2, <3>14, ChangedFacts DEF Input
        <4> HIDE DEF stack, d
        <4>4. Last(stack).key \in KeyNames
          BY <4>2, CountedFacts
        <4> QED BY <3>10, <4>1, <4>3, <4>4
      <3>15. ASSUME NEW c \in Contents,
                    ScriptChanges(c) \/ HolderChanges(c) \/ SourceChanges(c)
             PROVE  Kept(um') = Kept(um)
        BY <3>15 DEF ScriptChanges, HolderChanges, SourceChanges
      <3>16. ASSUME NEW c \in Contents, ModeLoaded(c)
             PROVE  Kept(um') = Kept(um)
        <4> DEFINE d == document'
        <4>1. d \in Image
          BY <3>2, <3>16 DEF ModeLoaded, Image
        <4>2. um' = LockOff(um, d) \/ um' = um
          BY <3>3, <3>16 DEF ModeLoaded
        <4> HIDE DEF d
        <4>3. LockOff(um, d).snapshots = um.snapshots \/ ~Locked(LockOff(um, d))
          BY <1>1, <3>2, <4>1, LockOffFacts
        <4> QED BY <1>1, <4>2, <4>3 DEF Kept
      <3>17. ASSUME NEW b \in BOOLEAN, ScriptBegins(b)
             PROVE  Kept(um') = Kept(um)
        BY <3>3, <3>17 DEF ScriptBegins
      <3> QED BY <3>1, <3>4, <3>5, <3>6, <3>7, <3>8, <3>9, <3>12, <3>13, <3>14, <3>15, <3>16,
                 <3>17 DEF UndoEvents
    <2> QED BY <1>1, <2>1, <2>2
  <1>2. UndoInv /\ ~stray /\ [UndoNext]_undoVars =>
        [ (Locked(um) /\ Locked(um)') =>
          [i \in DOMAIN um.snapshots |-> um.snapshots[i].content]' =
          [i \in DOMAIN um.snapshots |-> um.snapshots[i].content] ]_um
    <2>1. Locked(um)' <=> Locked(um')
      BY DEF Locked
    <2> QED BY <1>1, <2>1 DEF Kept
  <1> QED BY <1>2, UndoInvariant, NeverStray, PTL DEF UndoSpec, LockKeeps
=============================================================================
