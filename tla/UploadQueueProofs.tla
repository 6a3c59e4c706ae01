------------------------- MODULE UploadQueueProofs -------------------------
(***************************************************************************)
(* Proofs about UploadQueue, for any numbers of files, connections and     *)
(* attempts: until a call sends the widget astray, there is one request or *)
(* timer for each of the first files of the queue, and the page shows what *)
(* is queued.                                                              *)
(***************************************************************************)
EXTENDS UploadQueue, SequenceTheorems, FiniteSetTheorems, WellFoundedInduction, TLAPS

UploadSpec == UploadInit /\ [][UploadNext]_uploadVars

\* The records have their fields; of most of them no more need be known.
Whole(s) ==
  /\ s = [w |-> s.w, p |-> s.p]
  /\ s.w = [files |-> s.w.files, queue |-> s.w.queue, stored |-> s.w.stored,
            progress |-> s.w.progress, sent |-> s.w.sent, retries |-> s.w.retries,
            barred |-> s.w.barred, links |-> s.w.links]

\* The entries that use the connections.
First(q) == {q[i] : i \in {j \in 1..Len(q) : j <= MaxConnections}}

\* A bag of different closures.
Simple(p) == p = SetToBag(DOMAIN p)

\* A closure has the file of its id, and a request is the one that abort finds.
Closure(w, r) ==
  /\ r = Kind(r.id, r.file, r.what) /\ r.what \in {"request", "timer"}
  /\ r.file = w.files[r.id]
  /\ r.what = "request" => r.id \in DOMAIN w.sent /\ w.sent[r.id] = r.file

\* The queue, and a set R of ids that wait outside of it: all of them are files of the
\* list, and the first ones of the queue have one closure each, but those in M, which
\* are about to be sent.
QueueSound(s, R, M) ==
  /\ Whole(s)
  /\ s.w.files \in Seq(Nat) /\ s.w.queue \in Seq(Nat) /\ IsInjective(s.w.queue)
  /\ R \cap ToSet(s.w.queue) = {}
  /\ \A id \in R \cup ToSet(s.w.queue) : Uploads(s.w, id)
  /\ Simple(s.p)
  /\ {r.id : r \in DOMAIN s.p} = First(s.w.queue) \ M
  /\ \A r \in DOMAIN s.p : Closure(s.w, r)
  /\ \A r1, r2 \in DOMAIN s.p : r1.id = r2.id => r1 = r2

\* What the page shows of the file id.
LinkTrue(w, R, id) ==
  /\ w.links[id] = "cancel" => id \in R \cup ToSet(w.queue)
  /\ w.links[id] = "retry" => id \notin R \cup ToSet(w.queue)

PageSound(w, R) ==
  /\ w.progress = Len(w.queue)
  /\ \A id \in DOMAIN w.links : LinkTrue(w, R, id)

Sound(s, R) == QueueSound(s, R, {}) /\ PageSound(s.w, R)

CountType == [submits : 0..MaxSubmits, resets : 0..MaxResets, manual : 0..MaxManual]

\* The stored files are those that wait, in an order; only without autoUpload are there any.
StateOK(m, s) ==
  /\ s.w.stored \in Seq(Nat) /\ IsInjective(s.w.stored)
  /\ m.autoUpload => s.w.stored = <<>>
  /\ Sound(s, ToSet(s.w.stored))

UploadInv ==
  /\ uploadMode \in UploadModes /\ uploadCount \in CountType /\ astray \in BOOLEAN
  /\ astray \/ StateOK(uploadMode, Now)
-----------------------------------------------------------------------------
(* bags and sequences                                                      *)

LEMMA BagFacts ==
  ASSUME NEW p, Simple(p), NEW E
  PROVE  /\ \A r \in DOMAIN p : p[r] = 1
         /\ Simple(p (-) SetToBag(E)) /\ DOMAIN (p (-) SetToBag(E)) = DOMAIN p \ E
         /\ E \cap DOMAIN p = {} =>
              Simple(p (+) SetToBag(E)) /\ DOMAIN (p (+) SetToBag(E)) = DOMAIN p \cup E
  <1> DEFINE D == DOMAIN p
             b == SetToBag(E)
             m == p (-) b
             a == p (+) b
  <1>1. DOMAIN b = E /\ \A e \in E : b[e] = 1
    BY DEF SetToBag
  <1>2. \A r \in D : p[r] = 1
    BY DEF Simple, SetToBag
  <1>3. m = [e \in {d \in D : (IF d \in E THEN p[d] - b[d] ELSE p[d]) > 0} |->
               IF e \in E THEN p[e] - b[e] ELSE p[e]]
    <2>1. m = [e \in {d \in D :
                     [x \in D |-> IF x \in DOMAIN b THEN p[x] - b[x] ELSE p[x]][d] > 0}
                 |-> [x \in D |-> IF x \in DOMAIN b THEN p[x] - b[x] ELSE p[x]][e]]
      BY DEF (-)
    <2> HIDE DEF m, b
    <2> QED BY <2>1, <1>1
  <1>4. {d \in D : (IF d \in E THEN p[d] - b[d] ELSE p[d]) > 0} = D \ E
    <2> HIDE DEF b
    <2> QED BY <1>1, <1>2
  <1>5. m = [e \in D \ E |-> 1]
    <2> HIDE DEF b, m
    <2> QED BY <1>1, <1>2, <1>3, <1>4
  <1>6. DOMAIN m = D \ E /\ Simple(m)
    <2> HIDE DEF m
    <2> QED BY <1>5 DEF Simple, SetToBag
  <1>7. ASSUME E \cap D = {}
        PROVE  DOMAIN a = D \cup E /\ Simple(a)
    <2>1. a = [e \in D \cup E |-> (IF e \in D THEN p[e] ELSE 0) + (IF e \in E THEN b[e] ELSE 0)]
      BY <1>1 DEF (+)
    <2> HIDE DEF a, b
    <2>2. a = [e \in D \cup E |-> 1]
      BY <1>1, <1>2, <1>7, <2>1
    <2> QED BY <2>2 DEF Simple, SetToBag
  <1> QED BY <1>2, <1>6, <1>7

LEMMA MinFacts ==
  ASSUME NEW m \in Nat, NEW n \in Nat
  PROVE  Min({m, n}) = IF m <= n THEN m ELSE n
  BY DEF Min

LEMMA FirstFacts ==
  ASSUME NEW q \in Seq(Nat)
  PROVE  /\ First(q) = {q[i] : i \in 1..Min({Len(q), MaxConnections})}
         /\ First(q) \subseteq ToSet(q)
  <1>1. Len(q) \in Nat /\ MaxConnections \in Nat
    BY UploadAssumption
  <1>2. {j \in 1..Len(q) : j <= MaxConnections} = 1..Min({Len(q), MaxConnections})
    <2>1. Min({Len(q), MaxConnections}) =
            IF Len(q) <= MaxConnections THEN Len(q) ELSE MaxConnections
      BY <1>1, MinFacts
    <2> QED BY <1>1, <2>1
  <1> QED BY <1>2 DEF First, ToSet

LEMMA AppendFacts ==
  ASSUME NEW q \in Seq(Nat), NEW id \in Nat
  PROVE  LET a == Append(q, id) IN
         /\ a \in Seq(Nat) /\ Len(a) = Len(q) + 1
         /\ ToSet(a) = ToSet(q) \cup {id}
         /\ IsInjective(q) /\ id \notin ToSet(q) => IsInjective(a)
         /\ First(a) = IF Len(a) <= MaxConnections THEN First(q) \cup {id} ELSE First(q)
  <1> DEFINE a == Append(q, id)
             n == Len(q)
  <1>1. a \in Seq(Nat) /\ Len(a) = n + 1 /\ n \in Nat /\ MaxConnections \in Nat
    BY UploadAssumption
  <1>2. a[n + 1] = id /\ \A i \in 1..n : a[i] = q[i]
    OBVIOUS
  <1>3. DOMAIN a = 1..(n + 1) /\ DOMAIN q = 1..n
    BY <1>1
  <1> HIDE DEF a
  <1>4. 1..(n + 1) = (1..n) \cup {n + 1} /\ n + 1 \notin 1..n
    BY <1>1
  <1>5. ToSet(a) = ToSet(q) \cup {id}
    <2>1. ToSet(a) = {a[i] : i \in (1..n) \cup {n + 1}}
      BY <1>3, <1>4 DEF ToSet
    <2>2. ToSet(q) = {q[i] : i \in 1..n}
      BY <1>3 DEF ToSet
    <2> HIDE DEF n
    <2> QED BY <1>2, <2>1, <2>2
  <1>6. ASSUME IsInjective(q), id \notin ToSet(q) PROVE IsInjective(a)
    <2>1. \A i \in 1..n : q[i] # id
      BY <1>3, <1>6 DEF ToSet
    <2> HIDE DEF n
    <2> QED BY <1>2, <1>3, <1>4, <1>6, <2>1 DEF IsInjective
  <1>7. First(a) = IF Len(a) <= MaxConnections THEN First(q) \cup {id} ELSE First(q)
    <2> DEFINE A == {j \in 1..(n + 1) : j <= MaxConnections}
               Q == {j \in 1..n : j <= MaxConnections}
    <2>1. A = (IF n + 1 <= MaxConnections THEN Q \cup {n + 1} ELSE Q) /\ Q \subseteq 1..n
      BY <1>1, <1>4
    <2>2. First(a) = {a[i] : i \in A} /\ First(q) = {q[i] : i \in Q}
      BY <1>1 DEF First
    <2>3. Len(a) <= MaxConnections <=> n + 1 <= MaxConnections
      BY <1>1
    <2> HIDE DEF A, Q
    <2>4. {a[i] : i \in Q} = {q[i] : i \in Q}
      BY <1>2, <2>1
    <2>5. CASE n + 1 <= MaxConnections
      <3>1. {a[i] : i \in A} = {a[i] : i \in Q} \cup {a[n + 1]}
        BY <2>1, <2>5
      <3> QED BY <1>2, <2>2, <2>3, <2>4, <2>5, <3>1
    <2>6. CASE ~(n + 1 <= MaxConnections)
      BY <2>1, <2>2, <2>3, <2>4, <2>6
    <2> QED BY <2>5, <2>6
  <1> QED BY <1>1, <1>5, <1>6, <1>7 DEF a

\* Taking an entry out moves those behind it up by one.
LEMMA RemoveFacts ==
  ASSUME NEW q \in Seq(Nat), IsInjective(q), NEW i \in 1..Len(q)
  PROVE  LET s == RemoveAt(q, i) IN
         /\ s \in Seq(Nat) /\ Len(s) = Len(q) - 1 /\ IsInjective(s)
         /\ \A k \in 1..Len(s) : s[k] = IF k < i THEN q[k] ELSE q[k + 1]
         /\ ToSet(s) = ToSet(q) \ {q[i]}
  <1> DEFINE n == Len(q)
             l == SubSeq(q, 1, i - 1)
             r == SubSeq(q, i + 1, n)
             s == RemoveAt(q, i)
  <1>0. /\ n \in Nat /\ i \in Nat /\ 1 <= i /\ i <= n
        /\ DOMAIN q = 1..n /\ \A k \in 1..n : q[k] \in Nat
    OBVIOUS
  <1>1. l \in Seq(Nat) /\ Len(l) = i - 1 /\ \A k \in 1..(i - 1) : l[k] = q[k]
    <2>1. 1 \in Int /\ i - 1 \in Int /\ \A k \in 1..(i - 1) : q[k] \in Nat
      BY <1>0
    <2>2. /\ l \in Seq(Nat) /\ Len(l) = IF 1 <= i - 1 THEN (i - 1) - 1 + 1 ELSE 0
          /\ \A k \in 1..((i - 1) - 1 + 1) : l[k] = q[1 + k - 1]
      BY <2>1, SubSeqProperties
    <2> HIDE DEF l
    <2>3. \A k \in 1..(i - 1) : k \in 1..((i - 1) - 1 + 1) /\ 1 + k - 1 = k
      BY <1>0
    <2> QED BY <1>0, <2>2, <2>3
  <1>2. r \in Seq(Nat) /\ Len(r) = n - i /\ \A k \in 1..(n - i) : r[k] = q[i + k]
    <2>1. i + 1 \in Int /\ n \in Int /\ \A k \in (i + 1)..n : q[k] \in Nat
      BY <1>0
    <2>2. /\ r \in Seq(Nat) /\ Len(r) = IF i + 1 <= n THEN n - (i + 1) + 1 ELSE 0
          /\ \A k \in 1..(n - (i + 1) + 1) : r[k] = q[(i + 1) + k - 1]
      BY <2>1, SubSeqProperties
    <2> HIDE DEF r
    <2>3. \A k \in 1..(n - i) : k \in 1..(n - (i + 1) + 1) /\ (i + 1) + k - 1 = i + k
      BY <1>0
    <2>4. Len(r) = n - i
      <3> HIDE DEF n
      <3>1. (IF i + 1 <= n THEN n - (i + 1) + 1 ELSE 0) = n - i
        BY <1>0
      <3> QED BY <2>2, <3>1
    <2>5. \A k \in 1..(n - i) : r[k] = q[i + k]
      <3> HIDE DEF n
      <3> QED BY <2>2, <2>3
    <2> QED BY <2>2, <2>4, <2>5
  <1>3. s = l \o r
    BY DEF RemoveAt
  <1> HIDE DEF l, r, s
  <1>4. /\ s \in Seq(Nat) /\ Len(s) = n - 1
        /\ \A k \in 1..(n - 1) : s[k] = IF k <= i - 1 THEN l[k] ELSE r[k - (i - 1)]
    <2>0. l \in Seq(Nat) /\ r \in Seq(Nat)
      BY <1>1, <1>2
    <2>1. s \in Seq(Nat) /\ Len(s) = Len(l) + Len(r)
      BY <2>0, <1>3, ConcatProperties
    <2>2. \A k \in 1..(Len(l) + Len(r)) : s[k] = IF k <= Len(l) THEN l[k] ELSE r[k - Len(l)]
      BY <2>0, <1>3, ConcatProperties
    <2>3. Len(l) = i - 1 /\ Len(l) + Len(r) = n - 1
      BY <1>0, <1>1, <1>2
    <2> QED BY <2>1, <2>2, <2>3
  <1>5. ASSUME NEW k \in 1..(n - 1)
        PROVE  s[k] = IF k < i THEN q[k] ELSE q[k + 1]
    <2>1. CASE k < i
      <3>1. k \in 1..(i - 1) /\ k <= i - 1
        BY <1>0, <2>1
      <3> QED BY <1>1, <1>4, <2>1, <3>1
    <2>2. CASE ~(k < i)
      <3>1. ~(k <= i - 1) /\ k - (i - 1) \in 1..(n - i) /\ i + (k - (i - 1)) = k + 1
        BY <1>0, <2>2
      <3> QED BY <1>2, <1>4, <2>2, <3>1
    <2> QED BY <2>1, <2>2
  <1>6. DOMAIN s = 1..(n - 1)
    BY <1>0, <1>4
  <1> DEFINE Up(k) == IF k < i THEN k ELSE k + 1
  <1>7. \A k \in 1..(n - 1) : Up(k) \in 1..n /\ Up(k) # i /\ s[k] = q[Up(k)]
    <2>1. \A k \in 1..(n - 1) : Up(k) \in 1..n /\ Up(k) # i
      BY <1>0
    <2> QED BY <2>1, <1>5
  <1>8. \A k \in 1..n : k # i => \E j \in 1..(n - 1) : Up(j) = k
    <2> TAKE k \in 1..n
    <2> HAVE k # i
    <2>1. CASE k < i
      <3>1. k \in 1..(n - 1) /\ Up(k) = k
        BY <1>0, <2>1
      <3> QED BY <3>1
    <2>2. CASE ~(k < i)
      <3>1. k - 1 \in 1..(n - 1) /\ Up(k - 1) = k
        BY <1>0, <2>2
      <3> QED BY <3>1
    <2> QED BY <2>1, <2>2
  <1>9. \A j, k \in 1..(n - 1) : Up(j) = Up(k) => j = k
    BY <1>0
  <1> HIDE DEF Up
  <1>10. IsInjective(s)
    BY <1>0, <1>6, <1>7, <1>9 DEF IsInjective
  <1>11. ToSet(s) = ToSet(q) \ {q[i]}
    <2> DEFINE Rest == 1..(n - 1)
               Places == 1..n
    <2>1. \A k \in Rest : s[k] \in {q[j] : j \in Places} /\ s[k] # q[i]
      BY <1>0, <1>7 DEF IsInjective
    <2>2. \A k \in Places : q[k] # q[i] => \E j \in Rest : s[j] = q[k]
      BY <1>7, <1>8
    <2>3. ToSet(s) = {s[k] : k \in Rest} /\ ToSet(q) = {q[k] : k \in Places}
      BY <1>0, <1>6 DEF ToSet
    <2> HIDE DEF Rest, Places
    <2>4. {s[k] : k \in Rest} = {q[k] : k \in Places} \ {q[i]}
      BY <2>1, <2>2
    <2> QED BY <2>3, <2>4
  <1> QED BY <1>4, <1>5, <1>10, <1>11 DEF s
-----------------------------------------------------------------------------
(* sending                                                                 *)

LEMMA WithFacts ==
  ASSUME NEW f, NEW id, NEW v
  PROVE  LET g == With(f, id, v) IN
         /\ DOMAIN g = DOMAIN f \cup {id} /\ g[id] = v
         /\ \A i \in DOMAIN f : i # id => g[i] = f[i]
  BY DEF With

LEMMA KindFacts ==
  ASSUME NEW id, NEW file, NEW what
  PROVE  LET r == Kind(id, file, what) IN r.id = id /\ r.file = file /\ r.what = what
  BY DEF Kind

LEMMA UploadsFacts ==
  ASSUME NEW w, w.files \in Seq(Nat), NEW id, Uploads(w, id)
  PROVE  id \in DOMAIN w.files /\ id \in Nat /\ w.files[id] \in Nat \ {0}
         /\ id \in DOMAIN w.links
  BY DEF Uploads, File, Gone, Listed

\* All that the properties look at, but the closures and what they have sent.
Same(v, w) ==
  /\ v.files = w.files /\ v.queue = w.queue /\ v.stored = w.stored
  /\ v.progress = w.progress /\ v.links = w.links

LEMMA SendFacts ==
  ASSUME NEW s, Whole(s), NEW id, Uploads(s.w, id), Simple(s.p),
         Kind(id, s.w.files[id], "request") \notin DOMAIN s.p
  PROVE  LET t == SendFile(s, id) IN
         /\ Whole(t) /\ Same(t.w, s.w)
         /\ t.w.sent = With(s.w.sent, id, s.w.files[id])
         /\ Simple(t.p) /\ DOMAIN t.p = DOMAIN s.p \cup {Kind(id, s.w.files[id], "request")}
  <1> DEFINE c == Kind(id, s.w.files[id], "request")
             g == With(s.w.sent, id, s.w.files[id])
             v == [s.w EXCEPT !.sent = g]
             b == s.p (+) SetToBag({c})
             t == [w |-> v, p |-> b]
  <1>1. SendFile(s, id) = t
    BY DEF SendFile
  <1>2. Simple(b) /\ DOMAIN b = DOMAIN s.p \cup {c}
    <2> DEFINE E == {c}
    <2>1. E \cap DOMAIN s.p = {}
      OBVIOUS
    <2> HIDE DEF E
    <2>2. Simple(s.p (+) SetToBag(E)) /\ DOMAIN (s.p (+) SetToBag(E)) = DOMAIN s.p \cup E
      BY <2>1, BagFacts
    <2> QED BY <2>2 DEF E
  <1> HIDE DEF b, g
  <1>3. Whole(t) /\ Same(v, s.w) /\ v.sent = g
    BY DEF Whole, Same
  <1>4. t.w = v /\ t.p = b
    OBVIOUS
  <1>5. g = With(s.w.sent, id, s.w.files[id])
    BY DEF g
  <1> HIDE DEF t, v, c
  <1>6. Simple(t.p) /\ DOMAIN t.p = DOMAIN s.p \cup {c} /\ Same(t.w, s.w) /\ t.w.sent = g
    BY <1>2, <1>3, <1>4
  <1> QED BY <1>1, <1>3, <1>5, <1>6 DEF c

\* What a change to other fields leaves alone.
LEMMA OtherFields ==
  ASSUME NEW s, NEW t, NEW R, NEW M, QueueSound(s, R, M), Whole(t),
         t.w.files = s.w.files, t.w.queue = s.w.queue, t.w.sent = s.w.sent,
         DOMAIN t.w.links = DOMAIN s.w.links, t.p = s.p
  PROVE  QueueSound(t, R, M)
  BY DEF QueueSound, Closure, Uploads, File, Listed

\* The entry of the first that had no closure gets its request.
LEMMA StartSound ==
  ASSUME NEW s, NEW R, NEW id, QueueSound(s, R, {id}), id \in First(s.w.queue)
  PROVE  QueueSound(SendFile(s, id), R, {}) /\ Same(SendFile(s, id).w, s.w)
  <1> DEFINE c == Kind(id, s.w.files[id], "request")
             t == SendFile(s, id)
  <1>1. id \in ToSet(s.w.queue) /\ Uploads(s.w, id)
    BY FirstFacts DEF QueueSound
  <1>2. c.id = id /\ c.file = s.w.files[id] /\ c.what = "request"
    BY KindFacts
  <1>3. \A r \in DOMAIN s.p : r.id # id
    BY DEF QueueSound
  <1>4. /\ Whole(t) /\ Same(t.w, s.w) /\ t.w.sent = With(s.w.sent, id, s.w.files[id])
        /\ Simple(t.p) /\ DOMAIN t.p = DOMAIN s.p \cup {c}
    BY <1>1, <1>2, <1>3, SendFacts DEF QueueSound
  <1> HIDE DEF t
  <1>5. \A r \in DOMAIN t.p : Closure(t.w, r)
    <2> DEFINE g == With(s.w.sent, id, s.w.files[id])
    <2>0. /\ DOMAIN g = DOMAIN s.w.sent \cup {id} /\ g[id] = s.w.files[id]
          /\ \A i \in DOMAIN s.w.sent : i # id => g[i] = s.w.sent[i]
      BY DEF With
    <2>g. t.w.sent = g /\ t.w.files = s.w.files
      BY <1>4 DEF Same
    <2> HIDE DEF g
    <2>1. Closure(t.w, c)
      <3>1. c = Kind(c.id, c.file, c.what)
        BY <1>2
      <3> HIDE DEF c
      <3> QED BY <1>2, <2>0, <2>g, <3>1 DEF Closure
    <2>2. ASSUME NEW r \in DOMAIN s.p PROVE Closure(t.w, r)
      <3>1. Closure(s.w, r) /\ r.id # id
        BY <1>3 DEF QueueSound
      <3> QED BY <2>0, <2>g, <3>1 DEF Closure
    <2> QED BY <1>4, <2>1, <2>2
  <1>6. {r.id : r \in DOMAIN t.p} = First(t.w.queue)
    <2> HIDE DEF c
    <2>1. {r.id : r \in DOMAIN s.p} = First(s.w.queue) \ {id}
      BY DEF QueueSound
    <2>2. {r.id : r \in DOMAIN t.p} = {r.id : r \in DOMAIN s.p} \cup {id}
      BY <1>2, <1>4
    <2> QED BY <1>4, <2>1, <2>2 DEF Same
  <1>7. \A r1, r2 \in DOMAIN t.p : r1.id = r2.id => r1 = r2
    <2> HIDE DEF c
    <2> QED BY <1>2, <1>3, <1>4 DEF QueueSound
  <1>8. \A i \in R \cup ToSet(t.w.queue) : Uploads(t.w, i)
    BY <1>4 DEF QueueSound, Same, Uploads, File, Listed
  <1>9. First(t.w.queue) \ {} = First(t.w.queue)
    OBVIOUS
  <1>10. QueueSound(t, R, {})
    <2> HIDE DEF c
    <2> QED BY <1>4, <1>5, <1>6, <1>7, <1>8, <1>9 DEF QueueSound, Same
  <1> QED BY <1>4, <1>10 DEF t

\* Without one of its closures the entry is lacking.
LEMMA EndedSound ==
  ASSUME NEW s, NEW R, QueueSound(s, R, {}), NEW r \in DOMAIN s.p,
         NEW p, p = s.p (-) SetToBag({r})
  PROVE  LET t == [w |-> s.w, p |-> p] IN
         /\ QueueSound(t, R, {r.id})
         /\ r.id \in First(s.w.queue) /\ Uploads(s.w, r.id) /\ r.file = s.w.files[r.id]
  <1> DEFINE t == [w |-> s.w, p |-> p]
  <1>1. Simple(p) /\ DOMAIN p = DOMAIN s.p \ {r}
    BY BagFacts DEF QueueSound
  <1>2. Whole(t) /\ t.w = s.w /\ t.p = p
    BY DEF QueueSound, Whole
  <1>3. {x.id : x \in DOMAIN s.p} = First(s.w.queue)
        /\ \A r1, r2 \in DOMAIN s.p : r1.id = r2.id => r1 = r2
    BY DEF QueueSound
  <1>4. r.id \in First(s.w.queue) /\ {x.id : x \in DOMAIN p} = First(s.w.queue) \ {r.id}
    BY <1>1, <1>3
  <1>5. Uploads(s.w, r.id) /\ r.file = s.w.files[r.id]
    BY <1>4, FirstFacts DEF QueueSound, Closure
  <1> HIDE DEF t
  <1>6. QueueSound(t, R, {r.id})
    BY <1>1, <1>2, <1>4 DEF QueueSound
  <1> QED BY <1>4, <1>5, <1>6 DEF t

\* An id that waits outside of the queue comes into it, and starts if it is one of the first.
LEMMA UploadSound ==
  ASSUME NEW s, NEW R, NEW id, id \notin R, QueueSound(s, R \cup {id}, {}),
         s.w.progress = Len(s.w.queue) + 1,
         \A i \in DOMAIN s.w.links : LinkTrue(s.w, R \cup {id}, i)
  PROVE  Sound(Upload(s, id), R) /\ Upload(s, id).w.stored = s.w.stored
  <1> DEFINE q == s.w.queue
             a == Append(q, id)
             v == [s.w EXCEPT !.queue = a]
             t == [w |-> v, p |-> s.p]
  <1>0. q \in Seq(Nat) /\ id \notin ToSet(q) /\ Uploads(s.w, id) /\ IsInjective(q) /\ id \in Nat
    BY UploadsFacts DEF QueueSound
  <1>1. /\ a \in Seq(Nat) /\ Len(a) = Len(q) + 1 /\ ToSet(a) = ToSet(q) \cup {id}
        /\ IsInjective(a)
        /\ First(a) = IF Len(a) <= MaxConnections THEN First(q) \cup {id} ELSE First(q)
    BY <1>0, AppendFacts
  <1> HIDE DEF a
  <1>2. /\ Whole(t) /\ v.files = s.w.files /\ v.queue = a /\ v.stored = s.w.stored
        /\ v.progress = s.w.progress /\ v.links = s.w.links /\ v.sent = s.w.sent
        /\ t.p = s.p /\ t.w = v
    BY DEF QueueSound, Whole
  <1>3. [s EXCEPT !.w.queue = Append(@, id)] = t
    <2>1. s = [w |-> s.w, p |-> s.p]
      BY DEF QueueSound, Whole
    <2>2. [s EXCEPT !.w.queue = Append(@, id)] = [s EXCEPT !.w = v]
      BY <2>1 DEF a
    <2> HIDE DEF v
    <2>3. [s EXCEPT !.w = v] = [w |-> v, p |-> s.p]
      BY <2>1
    <2> QED BY <2>2, <2>3
  <1>4. Upload(s, id) = IF Len(a) <= MaxConnections THEN SendFile(t, id) ELSE t
    BY <1>2, <1>3 DEF Upload
  <1> HIDE DEF t, v
  <1> DEFINE M == IF Len(a) <= MaxConnections THEN {id} ELSE {}
  <1>5. First(q) \subseteq ToSet(q)
    BY <1>0, FirstFacts
  <1>6. First(a) \ M = First(q)
    BY <1>0, <1>1, <1>5
  <1> HIDE DEF M
  <1>7. QueueSound(t, R, M)
    <2>1. {r.id : r \in DOMAIN s.p} = First(q)
      BY DEF QueueSound
    <2>2. \A r \in DOMAIN s.p : Closure(s.w, r) => Closure(v, r)
      BY <1>2 DEF Closure
    <2>3. \A i : Uploads(s.w, i) => Uploads(v, i)
      BY <1>2 DEF Uploads, File, Listed
    <2> HIDE DEF q
    <2>4. R \cap ToSet(a) = {} /\ R \cup ToSet(a) = (R \cup {id}) \cup ToSet(q)
      <3>1. (R \cup {id}) \cap ToSet(q) = {}
        BY DEF QueueSound, q
      <3> QED BY <1>1, <3>1
    <2>5. \A i \in R \cup ToSet(a) : Uploads(v, i)
      BY <2>3, <2>4 DEF QueueSound, q
    <2> QED BY <1>1, <1>2, <1>6, <2>1, <2>2, <2>4, <2>5 DEF QueueSound
  <1>8. QueueSound(Upload(s, id), R, {}) /\ Same(Upload(s, id).w, v)
    <2>1. CASE Len(a) <= MaxConnections
      <3>1. M = {id} /\ id \in First(t.w.queue)
        BY <1>1, <1>2, <2>1 DEF M
      <3> QED BY <1>2, <1>4, <1>7, <2>1, <3>1, StartSound
    <2>2. CASE ~(Len(a) <= MaxConnections)
      BY <1>2, <1>4, <1>7, <2>2 DEF M, Same
    <2> QED BY <2>1, <2>2
  <1>9. PageSound(Upload(s, id).w, R)
    <2> DEFINE u == Upload(s, id).w
    <2>1. u.queue = a /\ u.progress = s.w.progress /\ u.links = s.w.links
      BY <1>2, <1>8 DEF Same
    <2>2. R \cup ToSet(a) = (R \cup {id}) \cup ToSet(q)
      BY <1>1
    <2> HIDE DEF u
    <2> QED BY <1>1, <2>1, <2>2 DEF PageSound, LinkTrue, u
  <1> QED BY <1>2, <1>8, <1>9 DEF Sound, Same
-----------------------------------------------------------------------------
(* the end of a file                                                       *)

LEMMA IndexFacts ==
  ASSUME NEW q \in Seq(Nat), IsInjective(q), NEW id \in ToSet(q)
  PROVE  IndexOf(q, id) \in 1..Len(q) /\ q[IndexOf(q, id)] = id
  <1>1. PICK k \in 1..Len(q) : q[k] = id
    BY DEF ToSet
  <1>2. id \notin ToSet(SubSeq(q, 1, k - 1))
    <2>1. /\ 1 \in Int /\ k - 1 \in Int
          /\ \A i \in 1..(k - 1) : i \in 1..Len(q) /\ q[i] \in Nat /\ i # k
      OBVIOUS
    <2>2. \A i \in 1..(k - 1) : q[i] # id
      BY <1>1, <2>1 DEF IsInjective
    <2> DEFINE l == SubSeq(q, 1, k - 1)
    <2>3. /\ l \in Seq(Nat) /\ Len(l) = IF 1 <= k - 1 THEN (k - 1) - 1 + 1 ELSE 0
          /\ \A i \in 1..((k - 1) - 1 + 1) : l[i] = q[1 + i - 1]
      BY <2>1, SubSeqProperties
    <2> HIDE DEF l
    <2>4. Len(l) = k - 1
      BY <2>3
    <2>5. \A i \in 1..(k - 1) : i \in 1..((k - 1) - 1 + 1) /\ 1 + i - 1 = i
      OBVIOUS
    <2>6. \A i \in 1..(k - 1) : l[i] # id
      BY <2>2, <2>3, <2>5
    <2>7. DOMAIN l = 1..(k - 1)
      BY <2>3, <2>4
    <2> QED BY <2>6, <2>7 DEF ToSet, l
  <1> DEFINE P(i) == q[i] = id /\ id \notin ToSet(SubSeq(q, 1, i - 1))
  <1>3. \E i \in DOMAIN q : P(i)
    BY <1>1, <1>2
  <1>4. IndexOf(q, id) = CHOOSE i \in DOMAIN q : P(i)
    BY DEF IndexOf
  <1>5. IndexOf(q, id) \in DOMAIN q /\ P(IndexOf(q, id))
    BY <1>3, <1>4
  <1> QED BY <1>5

\* Without entry i of the queue, the one that comes after the connections moves up if i
\* has used one.
LEMMA RemovedFirst ==
  ASSUME NEW q \in Seq(Nat), IsInjective(q), NEW i \in 1..Len(q),
         NEW s, s = RemoveAt(q, i)
  PROVE  IF Len(s) >= MaxConnections /\ i <= MaxConnections
         THEN First(s) = (First(q) \ {q[i]}) \cup {s[MaxConnections]}
              /\ s[MaxConnections] \notin First(q)
         ELSE First(s) = First(q) \ {q[i]}
  <1> DEFINE n == Len(q)
             C == MaxConnections
             Up(k) == IF k < i THEN k ELSE k + 1
  <1>0. n \in Nat /\ C \in Nat \ {0} /\ i \in 1..n /\ DOMAIN q = 1..n
    BY UploadAssumption
  <1>1. /\ s \in Seq(Nat) /\ Len(s) = n - 1
        /\ \A k \in 1..(n - 1) : s[k] = q[Up(k)]
    <2>1. /\ s \in Seq(Nat) /\ Len(s) = n - 1
          /\ \A k \in 1..Len(s) : s[k] = IF k < i THEN q[k] ELSE q[k + 1]
      BY RemoveFacts
    <2> QED BY <2>1
  <1>2. \A j, k \in 1..n : q[j] = q[k] => j = k
    BY <1>0 DEF IsInjective
  <1> DEFINE Q == {j \in 1..n : j <= C}
             S == {j \in 1..(n - 1) : j <= C}
  <1>3. First(q) = {q[j] : j \in Q} /\ First(s) = {s[j] : j \in S}
    BY <1>1 DEF First
  <1>4. First(s) = {q[Up(j)] : j \in S}
    BY <1>1, <1>3
  <1>5. CASE n - 1 >= C /\ i <= C
    <2>1. {Up(j) : j \in S} = (Q \ {i}) \cup {C + 1}
      <3>1. \A j \in S : Up(j) \in (Q \ {i}) \cup {C + 1}
        BY <1>0, <1>5
      <3>2. ASSUME NEW k \in (Q \ {i}) \cup {C + 1} PROVE \E j \in S : Up(j) = k
        <4>1. CASE k < i
          <5>1. k \in S /\ Up(k) = k
            BY <1>0, <1>5, <3>2, <4>1
          <5> QED BY <5>1
        <4>2. CASE ~(k < i)
          <5>1. k - 1 \in S /\ Up(k - 1) = k
            BY <1>0, <1>5, <3>2, <4>2
          <5> QED BY <5>1
        <4> QED BY <4>1, <4>2
      <3> HIDE DEF S, Q, Up
      <3> QED BY <3>1, <3>2
    <2>2. /\ C \in 1..(n - 1) /\ Up(C) = C + 1 /\ C + 1 \in 1..n
          /\ C + 1 \notin Q /\ Q \subseteq 1..n /\ i \in Q
      BY <1>0, <1>5
    <2>3. s[C] = q[C + 1]
      BY <1>1, <2>2
    <2> HIDE DEF S, Q, Up, n
    <2>4. First(s) = {q[j] : j \in (Q \ {i}) \cup {C + 1}}
      BY <1>4, <2>1
    <2>5. {q[j] : j \in Q \ {i}} = First(q) \ {q[i]} /\ q[C + 1] \notin First(q)
      BY <1>2, <1>3, <2>2
    <2>6. First(s) = (First(q) \ {q[i]}) \cup {s[C]} /\ s[C] \notin First(q)
      BY <2>3, <2>4, <2>5
    <2> QED BY <1>1, <1>5, <2>6
  <1>6. CASE ~(n - 1 >= C /\ i <= C)
    <2>1. {Up(j) : j \in S} = Q \ {i}
      <3>1. \A j \in S : Up(j) \in Q \ {i}
        BY <1>0, <1>6
      <3>2. ASSUME NEW k \in Q \ {i} PROVE \E j \in S : Up(j) = k
        <4>1. CASE k < i
          <5>1. k \in S /\ Up(k) = k
            BY <1>0, <1>6, <3>2, <4>1
          <5> QED BY <5>1
        <4>2. CASE ~(k < i)
          <5>1. k - 1 \in S /\ Up(k - 1) = k
            BY <1>0, <1>6, <3>2, <4>2
          <5> QED BY <5>1
        <4> QED BY <4>1, <4>2
      <3> HIDE DEF S, Q, Up
      <3> QED BY <3>1, <3>2
    <2>2. Q \subseteq 1..n
      OBVIOUS
    <2> HIDE DEF S, Q, Up, n
    <2>3. First(s) = {q[j] : j \in Q \ {i}}
      BY <1>4, <2>1
    <2>4. {q[j] : j \in Q \ {i}} = First(q) \ {q[i]}
      BY <1>0, <1>2, <1>3, <2>2
    <2> QED BY <1>1, <1>6, <2>3, <2>4
  <1> QED BY <1>5, <1>6

\* The widget t, in which the file id of s has ended, but for its place in the queue.
Ended(s, t, id) ==
  /\ Whole(t) /\ t.w.queue = s.w.queue
  /\ t.w.files \in Seq(Nat) /\ DOMAIN t.w.files = DOMAIN s.w.files
  /\ \A i \in DOMAIN s.w.files : i # id => t.w.files[i] = s.w.files[i]
  /\ DOMAIN t.w.links = DOMAIN s.w.links
  /\ DOMAIN s.w.sent \subseteq DOMAIN t.w.sent
  /\ \A i \in DOMAIN s.w.sent : i # id => t.w.sent[i] = s.w.sent[i]
  /\ Simple(t.p) /\ DOMAIN t.p = {r \in DOMAIN s.p : r.id # id}

\* What the rest of the widget is after _dequeue.
Dequeued(s, t, id) ==
  LET u == Dequeue(t, id) IN
  /\ ~DequeueThrows(t, id)
  /\ Len(u.w.queue) = Len(s.w.queue) - 1
  /\ ToSet(u.w.queue) = ToSet(s.w.queue) \ {id}
  /\ u.w.links = t.w.links /\ u.w.progress = t.w.progress /\ u.w.stored = t.w.stored

\* What _dequeue makes of a file that was queued: it does not throw.
LEMMA DequeueSound ==
  ASSUME NEW s, NEW R, QueueSound(s, R, {}), NEW id \in ToSet(s.w.queue),
         NEW t, Ended(s, t, id)
  PROVE  QueueSound(Dequeue(t, id), R, {}) /\ Dequeued(s, t, id)
  <1> DEFINE q == s.w.queue
             i == IndexOf(q, id)
             a == RemoveAt(q, i)
             v == [t.w EXCEPT !.queue = a]
             x == [w |-> v, p |-> t.p]
             C == MaxConnections
             next == Len(a) >= C /\ i <= C
  <1>0. q \in Seq(Nat) /\ IsInjective(q) /\ t.w.queue = q
    BY DEF QueueSound, Ended
  <1>1. i \in 1..Len(q) /\ q[i] = id
    BY <1>0, IndexFacts
  <1> HIDE DEF i
  <1>2. /\ a \in Seq(Nat) /\ Len(a) = Len(q) - 1 /\ IsInjective(a)
        /\ ToSet(a) = ToSet(q) \ {id}
    BY <1>0, <1>1, RemoveFacts
  <1>3. IF next THEN First(a) = (First(q) \ {id}) \cup {a[C]} /\ a[C] \notin First(q)
        ELSE First(a) = First(q) \ {id}
    BY <1>0, <1>1, RemovedFirst
  <1>4. Spliced(q, i) = a
    BY <1>1 DEF Spliced
  <1> HIDE DEF a
  <1>5. /\ Whole(x) /\ v.files = t.w.files /\ v.queue = a /\ v.stored = t.w.stored
        /\ v.progress = t.w.progress /\ v.links = t.w.links /\ v.sent = t.w.sent
        /\ x.p = t.p /\ x.w = v
    BY DEF Ended, Whole
  <1>6. [t EXCEPT !.w.queue = Spliced(@, i)] = x
    <2>1. t = [w |-> t.w, p |-> t.p]
      BY DEF Ended, Whole
    <2>2. [t EXCEPT !.w.queue = Spliced(@, i)] = [t EXCEPT !.w = v]
      BY <1>0, <1>4, <2>1
    <2> HIDE DEF v
    <2>3. [t EXCEPT !.w = v] = [w |-> v, p |-> t.p]
      BY <2>1
    <2> QED BY <2>2, <2>3
  <1>7. Dequeue(t, id) = IF next THEN SendFile(x, a[C]) ELSE x
    <2>1. Dequeue(t, id) =
            LET y == [t EXCEPT !.w.queue = Spliced(@, i)] IN
            IF Len(y.w.queue) >= C /\ i <= C THEN SendFile(y, y.w.queue[C]) ELSE y
      BY <1>0 DEF Dequeue, i
    <2>2. x.w.queue = a
      BY <1>5
    <2> HIDE DEF x
    <2> QED BY <1>6, <2>1, <2>2
  <1>8. DequeueThrows(t, id) <=> (next /\ ~Uploads(t.w, a[C]))
    BY <1>0, <1>4 DEF DequeueThrows, i
  <1> HIDE DEF x, v
  <1> DEFINE M == IF next THEN {a[C]} ELSE {}
  <1>9. next => a[C] \in ToSet(a) /\ a[C] \in First(a)
    <2>1. next => C \in 1..Len(a) /\ C \in Nat
      BY <1>2, UploadAssumption
    <2> QED BY <1>3, <2>1, <1>2 DEF ToSet
  <1> HIDE DEF next
  <1>10. First(a) \ M = First(q) \ {id}
    BY <1>3
  <1> HIDE DEF M, q
  <1>s. /\ R \cap ToSet(q) = {} /\ \A j \in R \cup ToSet(q) : Uploads(s.w, j)
        /\ {r.id : r \in DOMAIN s.p} = First(q) /\ First(q) \subseteq ToSet(q)
        /\ s.w.files \in Seq(Nat) /\ id \in ToSet(q)
    <2>1. First(q) \ {} = First(q)
      OBVIOUS
    <2> QED BY <1>0, <2>1, FirstFacts DEF QueueSound, q
  <1>11. QueueSound(x, R, M)
    <2>1. ASSUME NEW j \in R \cup ToSet(a) PROVE Uploads(v, j)
      <3>1. j # id /\ j \in R \cup ToSet(q)
        BY <1>2, <1>s, <2>1
      <3>2. Uploads(s.w, j) /\ j \in DOMAIN s.w.files
        BY <1>s, <3>1, UploadsFacts
      <3>3. v.files[j] = s.w.files[j] /\ DOMAIN v.files = DOMAIN s.w.files
            /\ DOMAIN v.links = DOMAIN s.w.links
        BY <1>5, <3>1, <3>2 DEF Ended
      <3> QED BY <3>2, <3>3 DEF Uploads, File, Listed
    <2>2. ASSUME NEW r \in DOMAIN t.p PROVE Closure(v, r)
      <3>1. r \in DOMAIN s.p /\ r.id # id
        BY <2>2 DEF Ended
      <3>2. Closure(s.w, r) /\ r.id \in ToSet(q)
        BY <1>s, <3>1 DEF QueueSound
      <3>3. r.id \in DOMAIN s.w.files
        BY <1>s, <3>2, UploadsFacts
      <3>4. v.files[r.id] = s.w.files[r.id]
        BY <1>5, <3>1, <3>3 DEF Ended
      <3>5. r.id \in DOMAIN s.w.sent => r.id \in DOMAIN v.sent /\ v.sent[r.id] = s.w.sent[r.id]
        BY <1>5, <3>1 DEF Ended
      <3> QED BY <3>2, <3>4, <3>5 DEF Closure
    <2>3. {r.id : r \in DOMAIN t.p} = First(a) \ M
      <3>1. DOMAIN t.p = {r \in DOMAIN s.p : r.id # id}
        BY DEF Ended
      <3> QED BY <1>10, <1>s, <3>1
    <2>4. \A r1, r2 \in DOMAIN t.p : r1.id = r2.id => r1 = r2
      BY DEF Ended, QueueSound
    <2>5. R \cap ToSet(a) = {}
      BY <1>2, <1>s
    <2>6. Simple(t.p) /\ t.w.files \in Seq(Nat)
      BY DEF Ended
    <2> QED BY <1>2, <1>5, <2>1, <2>2, <2>3, <2>4, <2>5, <2>6 DEF QueueSound
  <1>12. next => Uploads(t.w, a[C])
    <2>1. next => Uploads(v, a[C])
      BY <1>5, <1>9, <1>11 DEF QueueSound
    <2> QED BY <1>5, <2>1 DEF Uploads, File, Listed
  <1>13. QueueSound(Dequeue(t, id), R, {}) /\ Same(Dequeue(t, id).w, v)
    <2>1. CASE next
      <3>1. M = {a[C]} /\ a[C] \in First(x.w.queue)
        BY <1>5, <1>9, <2>1 DEF M
      <3> QED BY <1>5, <1>7, <1>11, <2>1, <3>1, StartSound
    <2>2. CASE ~next
      BY <1>5, <1>7, <1>11, <2>2 DEF M, Same
    <2> QED BY <2>1, <2>2
  <1>14. ~DequeueThrows(t, id)
    BY <1>8, <1>12
  <1> QED BY <1>2, <1>5, <1>13, <1>14 DEF Same, q, Dequeued
-----------------------------------------------------------------------------
(* the invariant                                                           *)

LEMMA EmptyFacts ==
  /\ <<>> \in Seq(Nat) /\ Len(<<>>) = 0 /\ DOMAIN <<>> = {} /\ ToSet(<<>>) = {}
  /\ IsInjective(<<>>) /\ First(<<>>) = {}
  <1>1. <<>> \in Seq(Nat) /\ Len(<<>>) = 0 /\ DOMAIN <<>> = {}
    OBVIOUS
  <1> QED BY <1>1 DEF ToSet, IsInjective, First

LEMMA FreshOK ==
  ASSUME NEW m
  PROVE  StateOK(m, [w |-> Fresh, p |-> EmptyBag])
  <1> DEFINE s == [w |-> Fresh, p |-> EmptyBag]
  <1>1. Whole(s)
    BY DEF Whole, Fresh
  <1>2. /\ s.w.files = <<>> /\ s.w.queue = <<>> /\ s.w.stored = <<>> /\ s.w.links = <<>>
        /\ s.w.progress = 0
    BY DEF Fresh
  <1>3. DOMAIN s.p = {} /\ Simple(s.p)
    BY DEF EmptyBag, SetToBag, Simple
  <1> HIDE DEF s
  <1>4. QueueSound(s, {}, {})
    BY <1>1, <1>2, <1>3, EmptyFacts DEF QueueSound
  <1>5. PageSound(s.w, {})
    BY <1>2, EmptyFacts DEF PageSound
  <1> QED BY <1>2, <1>4, <1>5, EmptyFacts DEF StateOK, Sound, s

LEMMA UploadInitInv == UploadInit => UploadInv
  <1> SUFFICES ASSUME UploadInit PROVE UploadInv
    OBVIOUS
  <1>1. uploadMode \in UploadModes /\ uploadCount \in CountType /\ astray \in BOOLEAN
    <2>1. 0 \in 0..MaxSubmits /\ 0 \in 0..MaxResets /\ 0 \in 0..MaxManual
      BY UploadAssumption
    <2>2. uploadCount \in CountType
      BY <2>1 DEF UploadInit, CountType
    <2> QED BY <2>2 DEF UploadInit
  <1>2. Now = [w |-> Fresh, p |-> EmptyBag]
    BY DEF UploadInit, Now
  <1>3. StateOK(uploadMode, Now)
    BY <1>2, FreshOK
  <1> QED BY <1>1, <1>3 DEF UploadInv

\* What a handler makes of a widget that has not gone astray.
LEMMA BecomesOK ==
  ASSUME NEW STATE s, Becomes(s), UploadInv,
         uploadCount' \in CountType, astray' \in BOOLEAN,
         astray' \/ StateOK(uploadMode, s)
  PROVE  UploadInv'
  <1>1. uploadMode' = uploadMode
    BY DEF Becomes
  <1>2. ASSUME StateOK(uploadMode, s) PROVE StateOK(uploadMode', Now')
    <2>1. s = [w |-> s.w, p |-> s.p]
      BY <1>2 DEF StateOK, Sound, QueueSound, Whole
    <2>2. Now' = s
      BY <2>1 DEF Now, Becomes
    <2> QED BY <1>1, <1>2, <2>2
  <1>3. astray' \/ StateOK(uploadMode', Now')
    BY <1>2
  <1> DEFINE m == uploadMode'
             n == Now'
  <1> QED BY <1>1, <1>3 DEF UploadInv

LEMMA NowOK ==
  ASSUME UploadInv, ~astray
  PROVE  /\ StateOK(uploadMode, Now) /\ Now.w = widget /\ Now.p = pending
         /\ Sound(Now, ToSet(widget.stored)) /\ QueueSound(Now, ToSet(widget.stored), {})
         /\ PageSound(widget, ToSet(widget.stored)) /\ Whole(Now)
  <1>1. StateOK(uploadMode, Now) /\ Now.w = widget /\ Now.p = pending
    BY DEF UploadInv, Now
  <1> QED BY <1>1 DEF StateOK, Sound, QueueSound
-----------------------------------------------------------------------------
(* what the user and the page's script do                                  *)

LEMMA CountFacts ==
  ASSUME uploadCount \in CountType
  PROVE  /\ uploadCount.submits \in Nat
         /\ uploadCount.submits < MaxSubmits =>
              [uploadCount EXCEPT !.submits = @ + 1] \in CountType
         /\ uploadCount.resets < MaxResets =>
              [uploadCount EXCEPT !.resets = @ + 1] \in CountType
         /\ uploadCount.manual < MaxManual =>
              [uploadCount EXCEPT !.manual = @ + 1] \in CountType
  <1>1. MaxSubmits \in Nat /\ MaxResets \in Nat /\ MaxManual \in Nat
    BY UploadAssumption
  <1>2. /\ uploadCount.submits \in 0..MaxSubmits /\ uploadCount.resets \in 0..MaxResets
        /\ uploadCount.manual \in 0..MaxManual
    BY DEF CountType
  <1>3. /\ uploadCount.submits < MaxSubmits => uploadCount.submits + 1 \in 0..MaxSubmits
        /\ uploadCount.resets < MaxResets => uploadCount.resets + 1 \in 0..MaxResets
        /\ uploadCount.manual < MaxManual => uploadCount.manual + 1 \in 0..MaxManual
    BY <1>1, <1>2
  <1>4. uploadCount.submits \in Nat
    BY <1>1, <1>2
  <1> QED BY <1>3, <1>4 DEF CountType

\* The list keeps the other items, and the page its stored ids, or both are emptied.
ListKept(s, R, kept, K) ==
  \/ kept = s.w.links /\ K = R
  \/ kept = <<>> /\ K = {} /\ s.w.queue = <<>>

\* The widget t, in which a file has the new id, and an item in the list.
Chosen(s, t, kept, id) ==
  /\ Whole(t) /\ id = Len(s.w.files) + 1
  /\ \E file \in Nat \ {0} : t.w.files = Append(s.w.files, file)
  /\ t.w.queue = s.w.queue /\ t.w.sent = s.w.sent /\ t.p = s.p
  /\ t.w.links = With(kept, id, "cancel")

\* A new file waits outside of the queue.
LEMMA SubmitSound ==
  ASSUME NEW s, NEW R, Sound(s, R), NEW kept, NEW K, ListKept(s, R, kept, K),
         NEW t, NEW id, Chosen(s, t, kept, id)
  PROVE  /\ id \in Nat /\ id \notin K /\ QueueSound(t, K \cup {id}, {})
         /\ \A i \in DOMAIN t.w.links : LinkTrue(t.w, K \cup {id}, i)
  <1> DEFINE q == s.w.queue
             files == t.w.files
  <1> USE DEF ListKept, Chosen
  <1>q. QueueSound(s, R, {}) /\ PageSound(s.w, R)
    BY DEF Sound
  <1>f. PICK file \in Nat \ {0} : t.w.files = Append(s.w.files, file)
    OBVIOUS
  <1>1. /\ files \in Seq(Nat) /\ DOMAIN files = DOMAIN s.w.files \cup {id}
        /\ files[id] = file /\ \A i \in DOMAIN s.w.files : files[i] = s.w.files[i]
        /\ id \in Nat /\ id \notin DOMAIN s.w.files
    BY <1>q, <1>f DEF QueueSound
  <1>2. DOMAIN t.w.links = DOMAIN kept \cup {id} /\ t.w.links[id] = "cancel"
        /\ \A i \in DOMAIN kept : i # id => t.w.links[i] = kept[i]
    BY DEF With
  <1>3. \A i \in R \cup ToSet(q) : Uploads(s.w, i) /\ i \in DOMAIN s.w.files
    BY <1>q, UploadsFacts DEF QueueSound
  <1>4. id \notin R /\ id \notin ToSet(q)
    BY <1>1, <1>3
  <1>5. id \notin K
    BY <1>4
  <1> HIDE DEF files, q
  <1>6. Uploads(t.w, id)
    BY <1>1, <1>2, <1>f DEF Uploads, File, Listed, Gone, files
  <1>7. \A i \in K \cup ToSet(q) : Uploads(t.w, i)
    <2>1. CASE kept = s.w.links /\ K = R
      BY <1>1, <1>2, <1>3, <2>1 DEF Uploads, File, Listed, files
    <2>2. CASE K = {} /\ s.w.queue = <<>>
      BY <2>2, EmptyFacts DEF q
    <2> QED BY <2>1, <2>2
  <1>8. \A r \in DOMAIN s.p : Closure(t.w, r)
    <2> TAKE r \in DOMAIN s.p
    <2>1. Closure(s.w, r) /\ r.id \in ToSet(q)
      <3>1. r.id \in First(q) /\ q \in Seq(Nat)
        BY <1>q DEF QueueSound, q
      <3> QED BY <1>q, <3>1, FirstFacts DEF QueueSound
    <2>2. files[r.id] = s.w.files[r.id]
      BY <1>1, <1>3, <2>1
    <2> QED BY <2>1, <2>2 DEF Closure, files
  <1>9. (K \cup {id}) \cap ToSet(q) = {}
    <2>1. R \cap ToSet(q) = {}
      BY <1>q DEF QueueSound, q
    <2> QED BY <1>4, <2>1
  <1>10. QueueSound(t, K \cup {id}, {})
    BY <1>q, <1>1, <1>6, <1>7, <1>8, <1>9 DEF QueueSound, q, files
  <1>11. ASSUME NEW i \in DOMAIN t.w.links
         PROVE  LinkTrue(t.w, K \cup {id}, i)
    <2>1. CASE i = id
      BY <1>2, <2>1 DEF LinkTrue
    <2>2. CASE i # id
      <3>1. i \in DOMAIN kept /\ t.w.links[i] = kept[i]
        BY <1>2, <1>11, <2>2
      <3>2. kept = s.w.links /\ K = R
        BY <3>1, EmptyFacts
      <3>3. LinkTrue(s.w, R, i)
        BY <1>q, <3>1, <3>2 DEF PageSound
      <3> QED BY <2>2, <3>1, <3>2, <3>3 DEF LinkTrue
    <2> QED BY <2>1, <2>2
  <1> QED BY <1>1, <1>5, <1>10, <1>11

LEMMA SubmitKeeps ==
  ASSUME UploadInv, Submit
  PROVE  UploadInv'
  <1> DEFINE id == Len(widget.files) + 1
             kept == IF uploadMode.multiple THEN widget.links ELSE <<>>
             st == IF uploadMode.multiple THEN widget.stored ELSE <<>>
             file == uploadCount.submits + 1
             w == [widget EXCEPT !.files = Append(@, file),
                                 !.links = With(kept, id, "cancel"),
                                 !.stored = IF uploadMode.multiple THEN @ ELSE <<>>]
             wa == [w EXCEPT !.progress = @ + 1]
             ws == [w EXCEPT !.stored = Append(@, id)]
             ta == [w |-> wa, p |-> pending]
             ts == [w |-> ws, p |-> pending]
             u == IF uploadMode.autoUpload THEN Upload(ta, id) ELSE ts
  <1>1. Becomes(u)
    BY DEF Submit
  <1>2. uploadCount' \in CountType /\ astray' \in BOOLEAN /\ file \in Nat \ {0}
    <2>1. uploadCount \in CountType /\ astray \in BOOLEAN
      BY DEF UploadInv
    <2>2. /\ uploadCount' = [uploadCount EXCEPT !.submits = @ + 1]
          /\ uploadCount.submits < MaxSubmits
      BY DEF Submit
    <2>3. astray' \in BOOLEAN
      BY DEF Submit
    <2>4. uploadCount.submits \in Nat /\ uploadCount' \in CountType
      BY <2>1, <2>2, CountFacts
    <2> QED BY <2>3, <2>4
  <1>3. ASSUME ~astray' PROVE StateOK(uploadMode, u)
    <2>0. ~astray /\ (uploadMode.multiple \/ widget.queue = <<>>)
      BY <1>3 DEF Submit
    <2>1. /\ StateOK(uploadMode, Now) /\ Now.w = widget /\ Now.p = pending
          /\ Sound(Now, ToSet(widget.stored)) /\ PageSound(widget, ToSet(widget.stored))
          /\ Whole(Now)
      BY <2>0, NowOK
    <2>2. /\ Whole(ta) /\ wa.files = Append(widget.files, file) /\ wa.queue = widget.queue
          /\ wa.links = With(kept, id, "cancel") /\ wa.sent = widget.sent /\ wa.stored = st
          /\ wa.progress = widget.progress + 1 /\ ta.w = wa /\ ta.p = pending
      BY <2>1 DEF Whole
    <2>3. /\ Whole(ts) /\ ws.files = Append(widget.files, file) /\ ws.queue = widget.queue
          /\ ws.links = With(kept, id, "cancel") /\ ws.sent = widget.sent
          /\ ws.stored = Append(st, id)
          /\ ws.progress = widget.progress /\ ts.w = ws /\ ts.p = pending
      BY <2>1 DEF Whole
    <2> HIDE DEF ta, ts, wa, ws, w, file
    <2> DEFINE K == ToSet(st)
    <2>4. \/ kept = Now.w.links /\ K = ToSet(widget.stored)
          \/ kept = <<>> /\ K = {} /\ Now.w.queue = <<>>
      BY <2>0, <2>1, EmptyFacts
    <2>5. st \in Seq(Nat) /\ IsInjective(st) /\ (uploadMode.autoUpload => st = <<>>)
      BY <2>1, EmptyFacts DEF StateOK
    <2>6. id = Len(Now.w.files) + 1
      BY <2>1
    <2> DEFINE n == Now
               R == ToSet(widget.stored)
    <2>9. Sound(n, R) /\ ListKept(n, R, kept, K)
      BY <2>1, <2>4 DEF ListKept
    <2>10. Chosen(n, ta, kept, id)
      BY <1>2, <2>1, <2>2, <2>6 DEF Chosen
    <2>11. Chosen(n, ts, kept, id)
      BY <1>2, <2>1, <2>3, <2>6 DEF Chosen
    <2> HIDE DEF kept, st, K, id, n, R
    <2>7. CASE uploadMode.autoUpload
      <3>1. /\ id \in Nat /\ id \notin K /\ QueueSound(ta, K \cup {id}, {})
            /\ \A i \in DOMAIN ta.w.links : LinkTrue(ta.w, K \cup {id}, i)
        BY <2>9, <2>10, SubmitSound
      <3>2. ta.w.progress = Len(ta.w.queue) + 1
        BY <2>1, <2>2 DEF PageSound
      <3>3. Sound(Upload(ta, id), K) /\ Upload(ta, id).w.stored = st
        BY <2>2, <3>1, <3>2, UploadSound
      <3> QED BY <2>5, <2>7, <3>3 DEF StateOK, K
    <2>8. CASE ~uploadMode.autoUpload
      <3>1. /\ id \in Nat /\ id \notin K /\ QueueSound(ts, K \cup {id}, {})
            /\ \A i \in DOMAIN ts.w.links : LinkTrue(ts.w, K \cup {id}, i)
        BY <2>9, <2>11, SubmitSound
      <3>2. ts.w.progress = Len(ts.w.queue)
        BY <2>1, <2>3 DEF PageSound
      <3>3. /\ Append(st, id) \in Seq(Nat) /\ ToSet(Append(st, id)) = K \cup {id}
            /\ IsInjective(Append(st, id))
        BY <2>5, <3>1, AppendFacts DEF K
      <3> QED BY <2>3, <2>8, <3>1, <3>2, <3>3 DEF StateOK, Sound, PageSound
    <2> QED BY <2>7, <2>8
  <1> HIDE DEF u
  <1> QED BY <1>1, <1>2, <1>3, BecomesOK
-----------------------------------------------------------------------------
(* uploadStoredFiles                                                       *)

LEMMA Least ==
  ASSUME NEW T, T \subseteq Nat, T # {}
  PROVE  \E x \in T : \A y \in T : x <= y
  <1> DEFINE R == {ss \in Nat \X Nat : ss[1] < ss[2]}
  <1>1. IsWellFoundedOn(R, Nat)
    BY NatLessThanWellFounded DEF OpToRel
  <1>2. PICK x \in T : \A y \in T : ~ (<<y, x>> \in R)
    BY <1>1, WFMin
  <1>3. ASSUME NEW y \in T
        PROVE  x <= y
    <2>1. <<y, x>> \notin R /\ x \in Nat /\ y \in Nat
      BY <1>2
    <2> QED BY <2>1
  <1> QED BY <1>3

LEMMA GreatestIndex ==
  ASSUME NEW n \in Nat, NEW T, T \subseteq 1..n, T # {}
  PROVE  Max(T) \in T
  <1> DEFINE U == {n - t : t \in T}
  <1>a. PICK w \in T : TRUE
    OBVIOUS
  <1>b. n - w \in U
    OBVIOUS
  <1>c. \A t \in T : t \in 1..n
    OBVIOUS
  <1>d. \A t \in 1..n : n - t \in Nat
    OBVIOUS
  <1>1. U \subseteq Nat /\ U # {}
    BY <1>b, <1>c, <1>d
  <1>2. PICK x \in U : \A y \in U : x <= y
    BY <1>1, Least
  <1>3. PICK t \in T : x = n - t
    BY <1>2
  <1>4. ASSUME NEW y \in T
        PROVE  t >= y
    <2>1. n - y \in U
      OBVIOUS
    <2>2. n - t <= n - y
      BY <1>2, <1>3, <2>1
    <2>3. t \in Nat /\ y \in Nat
      OBVIOUS
    <2> QED BY <2>2, <2>3
  <1> QED BY <1>4 DEF Max

\* Stored files f come into the queue one after the other, from widget b: on every
\* subset of their places, which is how the fold is defined.
UploadOne(s, id) == Upload([s EXCEPT !.w.progress = @ + 1], id)
FoldStep(b, f, h, S) == IF S = {} THEN b ELSE UploadOne(h[S \ {Max(S)}], f[Max(S)])
Folds(b, f) == CHOOSE h : h = [S \in SUBSET (DOMAIN f) |-> FoldStep(b, f, h, S)]

LEMMA PlacesFacts ==
  ASSUME NEW n \in Nat, NEW S \in SUBSET (1..n)
  PROVE  /\ Cardinality(S) \in Nat /\ (Cardinality(S) = 0 <=> S = {})
         /\ S # {} => /\ Max(S) \in S /\ S \ {Max(S)} \in SUBSET (1..n)
                      /\ Cardinality(S \ {Max(S)}) = Cardinality(S) - 1
  <1>1. IsFiniteSet(S)
    <2>1. IsFiniteSet(1..n)
      BY FS_Interval
    <2> QED BY <2>1, FS_Subset
  <1>2. Cardinality(S) \in Nat /\ (Cardinality(S) = 0 <=> S = {})
    BY <1>1, FS_CardinalityType, FS_EmptySet
  <1>3. S # {} => Max(S) \in S
    BY GreatestIndex
  <1>4. S # {} => Cardinality(S \ {Max(S)}) = Cardinality(S) - 1
    BY <1>1, <1>3, FS_RemoveElement
  <1> QED BY <1>2, <1>3, <1>4

LEMMA FoldDefined ==
  ASSUME NEW b, NEW n \in Nat, NEW f, DOMAIN f = 1..n
  PROVE  Folds(b, f) = [S \in SUBSET (1..n) |-> FoldStep(b, f, Folds(b, f), S)]
  <1> DEFINE Sets == SUBSET (1..n)
             Good(h, k) == \A S \in Sets : Cardinality(S) <= k => h[S] = FoldStep(b, f, h, S)
             Bad == {k \in Nat : ~ \E h : Good(h, k)}
  <1>0. \A S \in Sets : /\ Cardinality(S) \in Nat /\ (Cardinality(S) = 0 <=> S = {})
                        /\ S # {} => /\ Max(S) \in S /\ S \ {Max(S)} \in Sets
                                     /\ Cardinality(S \ {Max(S)}) = Cardinality(S) - 1
    BY PlacesFacts
  <1> HIDE DEF Sets
  <1>1. \E h : Good(h, 0)
    <2> DEFINE h == [S \in Sets |-> b]
    <2>1. ASSUME NEW S \in Sets, Cardinality(S) <= 0
          PROVE  h[S] = FoldStep(b, f, h, S)
      <3>1. S = {}
        <4>1. Cardinality(S) \in Nat /\ (Cardinality(S) = 0 => S = {})
          BY <1>0
        <4>2. \A k \in Nat : k <= 0 => k = 0
          OBVIOUS
        <4> QED BY <2>1, <4>1, <4>2
      <3> QED BY <3>1 DEF FoldStep
    <2>2. Good(h, 0)
      BY <2>1
    <2> QED BY <2>2
  <1>2. ASSUME NEW k \in Nat, NEW h, Good(h, k)
        PROVE  \E g : Good(g, k + 1)
    <2> DEFINE g == [S \in Sets |-> IF Cardinality(S) <= k THEN h[S] ELSE FoldStep(b, f, h, S)]
    <2>1. ASSUME NEW S \in Sets, Cardinality(S) <= k + 1
          PROVE  g[S] = FoldStep(b, f, g, S)
      <3>1. g[S] = FoldStep(b, f, h, S)
        BY <1>2
      <3>2. FoldStep(b, f, g, S) = FoldStep(b, f, h, S)
        <4>1. CASE S = {}
          BY <4>1 DEF FoldStep
        <4>2. CASE S # {}
          <5> DEFINE r == S \ {Max(S)}
          <5>1. r \in Sets /\ Cardinality(S) \in Nat /\ Cardinality(r) = Cardinality(S) - 1
            BY <1>0, <4>2
          <5>2. Cardinality(r) <= k
            BY <2>1, <5>1
          <5>3. g[r] = h[r]
            BY <5>1, <5>2
          <5> HIDE DEF g
          <5> QED BY <4>2, <5>3 DEF FoldStep
        <4> QED BY <4>1, <4>2
      <3> QED BY <3>1, <3>2
    <2> HIDE DEF g
    <2>2. Good(g, k + 1)
      BY <2>1
    <2> QED BY <2>2
  <1> HIDE DEF Good
  <1>3. Bad = {}
    <2> SUFFICES ASSUME Bad # {} PROVE FALSE
      OBVIOUS
    <2>1. PICK k \in Bad : \A m \in Bad : k <= m
      BY Least
    <2>2. k \in Nat /\ k # 0
      BY <1>1
    <2>3. k - 1 \in Nat /\ ~(k <= k - 1) /\ (k - 1) + 1 = k
      BY <2>2
    <2>4. k - 1 \notin Bad
      BY <2>1, <2>3
    <2>5. \E g : Good(g, (k - 1) + 1)
      BY <1>2, <2>3, <2>4
    <2> QED BY <2>3, <2>5
  <1>4. PICK h : Good(h, n)
    BY <1>3
  <1> DEFINE g == [S \in Sets |-> h[S]]
  <1>5. ASSUME NEW S \in Sets
        PROVE  h[S] = FoldStep(b, f, g, S)
    <2>1. Cardinality(S) <= n
      <3>1. IsFiniteSet(1..n) /\ Cardinality(1..n) = IF 1 > n THEN 0 ELSE n - 1 + 1
        BY FS_Interval
      <3>2. (IF 1 > n THEN 0 ELSE n - 1 + 1) = n
        OBVIOUS
      <3>3. S \subseteq 1..n
        BY DEF Sets
      <3>4. Cardinality(S) <= Cardinality(1..n)
        BY <3>1, <3>3, FS_Subset
      <3> QED BY <3>1, <3>2, <3>4
    <2>2. h[S] = FoldStep(b, f, h, S)
      BY <1>4, <2>1 DEF Good
    <2>3. CASE S = {}
      BY <2>2, <2>3 DEF FoldStep
    <2>4. CASE S # {}
      <3>1. g[S \ {Max(S)}] = h[S \ {Max(S)}]
        BY <1>0, <2>4
      <3> HIDE DEF g
      <3> QED BY <2>2, <2>4, <3>1 DEF FoldStep
    <2> QED BY <2>3, <2>4
  <1>6. g = [S \in Sets |-> FoldStep(b, f, g, S)]
    BY <1>5
  <1> HIDE DEF g
  <1> QED BY <1>6 DEF Folds, Sets

LEMMA UploadOneSound ==
  ASSUME NEW s, NEW R, NEW id, id \notin R, Sound(s, R \cup {id})
  PROVE  Sound(UploadOne(s, id), R) /\ UploadOne(s, id).w.stored = s.w.stored
  <1> DEFINE v == [s.w EXCEPT !.progress = @ + 1]
             t == [w |-> v, p |-> s.p]
  <1>1. QueueSound(s, R \cup {id}, {}) /\ PageSound(s.w, R \cup {id}) /\ Whole(s)
    BY DEF Sound, QueueSound
  <1>2. /\ Whole(t) /\ v.files = s.w.files /\ v.queue = s.w.queue /\ v.stored = s.w.stored
        /\ v.progress = s.w.progress + 1 /\ v.links = s.w.links /\ v.sent = s.w.sent
        /\ t.p = s.p /\ t.w = v
    BY <1>1 DEF Whole
  <1>3. [s EXCEPT !.w.progress = @ + 1] = t
    <2>1. s = [w |-> s.w, p |-> s.p]
      BY <1>1 DEF Whole
    <2>2. [s EXCEPT !.w.progress = @ + 1] = [s EXCEPT !.w = v]
      BY <2>1
    <2> HIDE DEF v
    <2>3. [s EXCEPT !.w = v] = [w |-> v, p |-> s.p]
      BY <2>1
    <2> QED BY <2>2, <2>3
  <1> HIDE DEF t, v
  <1>4. QueueSound(t, R \cup {id}, {})
    BY <1>1, <1>2, OtherFields
  <1>5. t.w.progress = Len(t.w.queue) + 1
    BY <1>1, <1>2 DEF PageSound
  <1>6. \A i \in DOMAIN t.w.links : LinkTrue(t.w, R \cup {id}, i)
    BY <1>1, <1>2 DEF PageSound, LinkTrue
  <1>7. Sound(Upload(t, id), R) /\ Upload(t, id).w.stored = t.w.stored
    BY <1>4, <1>5, <1>6, UploadSound
  <1> QED BY <1>2, <1>3, <1>7 DEF UploadOne

\* When the first k stored files are in the queue, the others wait.
LEMMA FoldSound ==
  ASSUME NEW b, NEW f \in Seq(Nat), IsInjective(f), Sound(b, ToSet(f))
  PROVE  /\ Sound(Folds(b, f)[1..Len(f)], {})
         /\ Folds(b, f)[1..Len(f)].w.stored = b.w.stored
  <1> DEFINE n == Len(f)
             h == Folds(b, f)
             Rest(k) == {f[j] : j \in (k + 1)..n}
             OK(k) == Sound(h[1..k], Rest(k)) /\ h[1..k].w.stored = b.w.stored
             Bad == {k \in Nat : k <= n /\ ~OK(k)}
  <1>0. n \in Nat /\ DOMAIN f = 1..n
    OBVIOUS
  <1>1. \A S \in SUBSET (1..n) : h[S] = FoldStep(b, f, h, S)
    <2>1. h = [S \in SUBSET (1..n) |-> FoldStep(b, f, h, S)]
      BY <1>0, FoldDefined
    <2> HIDE DEF h
    <2> QED BY <2>1
  <1> HIDE DEF h
  <1>2. OK(0)
    <2>1. 1..0 = {} /\ Rest(0) = ToSet(f)
      BY <1>0 DEF ToSet
    <2>2. h[{}] = b
      BY <1>1 DEF FoldStep
    <2> HIDE DEF Rest
    <2> QED BY <2>1, <2>2
  <1>3. ASSUME NEW k \in Nat, k + 1 <= n, OK(k)
        PROVE  OK(k + 1)
    <2>1. /\ 1..(k + 1) # {} /\ 1..(k + 1) \in SUBSET (1..n)
          /\ 1..(k + 1) \ {k + 1} = 1..k
      <3>1. k + 1 \in 1..(k + 1)
        OBVIOUS
      <3>2. \A j \in 1..(k + 1) : j \in 1..n
        BY <1>0, <1>3
      <3>3. 1..(k + 1) \ {k + 1} = 1..k
        OBVIOUS
      <3> QED BY <3>1, <3>2, <3>3
    <2>2. Max(1..(k + 1)) = k + 1
      <3>1. Max(1..(k + 1)) \in 1..(k + 1) /\ \A y \in 1..(k + 1) : Max(1..(k + 1)) >= y
        <4>1. \E x \in 1..(k + 1) : \A y \in 1..(k + 1) : x >= y
          <5>1. k + 1 \in 1..(k + 1) /\ \A y \in 1..(k + 1) : k + 1 >= y
            OBVIOUS
          <5> QED BY <5>1
        <4> QED BY <4>1 DEF Max
      <3>2. k + 1 \in 1..(k + 1)
        OBVIOUS
      <3> QED BY <3>1, <3>2
    <2>3. h[1..(k + 1)] = UploadOne(h[1..k], f[k + 1])
      BY <1>1, <2>1, <2>2 DEF FoldStep
    <2>4. Rest(k) = Rest(k + 1) \cup {f[k + 1]} /\ f[k + 1] \notin Rest(k + 1)
      <3>1. (k + 1)..n = ((k + 1) + 1)..n \cup {k + 1} /\ k + 1 \notin ((k + 1) + 1)..n
            /\ (k + 1)..n \subseteq 1..n /\ k + 1 \in 1..n
        BY <1>0, <1>3
      <3> DEFINE A == (k + 1)..n
                 B == ((k + 1) + 1)..n
      <3>2. A = B \cup {k + 1} /\ k + 1 \notin B /\ A \subseteq 1..n /\ k + 1 \in 1..n
        BY <3>1
      <3>3. \A i, j \in 1..n : f[i] = f[j] => i = j
        BY <1>0 DEF IsInjective
      <3> HIDE DEF A, B
      <3>4. {f[j] : j \in A} = {f[j] : j \in B} \cup {f[k + 1]}
        BY <3>2
      <3>5. f[k + 1] \notin {f[j] : j \in B}
        BY <3>2, <3>3
      <3> QED BY <3>4, <3>5 DEF A, B
    <2> HIDE DEF Rest
    <2>5. Sound(h[1..k], Rest(k + 1) \cup {f[k + 1]}) /\ h[1..k].w.stored = b.w.stored
      BY <1>3, <2>4
    <2>6. /\ Sound(UploadOne(h[1..k], f[k + 1]), Rest(k + 1))
          /\ UploadOne(h[1..k], f[k + 1]).w.stored = h[1..k].w.stored
      BY <2>4, <2>5, UploadOneSound
    <2> QED BY <2>3, <2>5, <2>6
  <1> HIDE DEF OK
  <1>4. Bad = {}
    <2> SUFFICES ASSUME Bad # {} PROVE FALSE
      OBVIOUS
    <2>1. PICK k \in Bad : \A m \in Bad : k <= m
      BY Least
    <2>2. k \in Nat /\ k # 0 /\ k <= n
      BY <1>2, <2>1
    <2>3. k - 1 \in Nat /\ ~(k <= k - 1) /\ (k - 1) + 1 = k /\ k - 1 <= n
      BY <1>0, <2>2
    <2>4. k - 1 \notin Bad
      BY <2>1, <2>3
    <2>5. OK(k)
      BY <1>3, <2>2, <2>3, <2>4
    <2> QED BY <2>1, <2>5
  <1>5. OK(n)
    BY <1>0, <1>4
  <1>6. Rest(n) = {}
    BY <1>0
  <1> QED BY <1>5, <1>6 DEF OK, h

LEMMA UploadStoredKeeps ==
  ASSUME UploadInv, UploadStored
  PROVE  UploadInv'
  <1> DEFINE f == widget.stored
             v == [widget EXCEPT !.stored = <<>>]
             b == [w |-> v, p |-> pending]
             u == Folds(b, f)[1..Len(f)]
  <1>1. ASSUME ~astray
        PROVE  /\ f \in Seq(Nat) /\ IsInjective(f)
               /\ Sound(b, ToSet(f)) /\ v.stored = <<>>
    <2>1. /\ StateOK(uploadMode, Now) /\ Now.w = widget /\ Now.p = pending
          /\ QueueSound(Now, ToSet(f), {}) /\ PageSound(widget, ToSet(f))
          /\ Whole(Now)
      BY <1>1, NowOK
    <2>2. /\ Whole(b) /\ v.files = widget.files /\ v.queue = widget.queue
          /\ v.stored = <<>> /\ v.progress = widget.progress /\ v.links = widget.links
          /\ v.sent = widget.sent /\ b.p = pending /\ b.w = v
      BY <2>1 DEF Whole
    <2>3. f \in Seq(Nat) /\ IsInjective(f)
      BY <2>1 DEF StateOK
    <2> HIDE DEF b, v
    <2>4. QueueSound(b, ToSet(f), {})
      BY <2>1, <2>2, OtherFields
    <2>5. PageSound(b.w, ToSet(f))
      BY <2>1, <2>2 DEF PageSound, LinkTrue
    <2> QED BY <2>2, <2>3, <2>4, <2>5 DEF Sound
  <1>2. ASSUME ~astray PROVE Becomes(u) /\ StateOK(uploadMode, u)
    <2>1. /\ Sound(u, {}) /\ u.w.stored = <<>>
      <3>1. b.w.stored = <<>>
        BY <1>1, <1>2
      <3> HIDE DEF b, f
      <3> QED BY <1>1, <1>2, <3>1, FoldSound
    <2>2. DOMAIN f = 1..Len(f)
      BY <1>1, <1>2
    <2>3. Becomes(u)
      BY <2>2 DEF UploadStored, FoldLeft, MapThenFoldSet, Folds, FoldStep, UploadOne
    <2> HIDE DEF u
    <2> QED BY <2>1, <2>3, EmptyFacts DEF StateOK
  <1>3. uploadCount' = uploadCount /\ astray' = astray
    BY DEF UploadStored
  <1>4. CASE ~astray
    <2>1. uploadCount' \in CountType /\ astray' \in BOOLEAN
      BY <1>3 DEF UploadInv
    <2> HIDE DEF u
    <2> QED BY <1>2, <1>4, <2>1, BecomesOK
  <1>5. CASE astray
    <2>1. uploadMode' = uploadMode
      BY DEF UploadStored, Becomes
    <2> QED BY <1>3, <1>5, <2>1 DEF UploadInv
  <1> QED BY <1>4, <1>5
-----------------------------------------------------------------------------
(* answers and timers                                                      *)

LEMMA AstrayKeeps ==
  ASSUME UploadInv, astray, astray' = astray, uploadMode' = uploadMode,
         uploadCount' = uploadCount
  PROVE  UploadInv'
  BY DEF UploadInv

LEMMA LastByteKeeps ==
  ASSUME UploadInv, NEW r \in Closures, LastByte(r)
  PROVE  UploadInv'
  <1> DEFINE v == [widget EXCEPT !.links[r.id] = "none"]
             t == [w |-> v, p |-> pending]
  <1>1. Becomes(t) /\ uploadCount' = uploadCount /\ astray' = astray /\ Listed(widget, r.id)
    BY DEF LastByte, Becomes
  <1>2. ASSUME ~astray PROVE StateOK(uploadMode, t)
    <2> DEFINE R == ToSet(widget.stored)
    <2>1. /\ StateOK(uploadMode, Now) /\ Now.w = widget /\ Now.p = pending
          /\ QueueSound(Now, R, {}) /\ PageSound(widget, R) /\ Whole(Now)
      BY <1>2, NowOK
    <2>2. /\ Whole(t) /\ v.files = widget.files /\ v.queue = widget.queue
          /\ v.stored = widget.stored /\ v.progress = widget.progress
          /\ v.links = [widget.links EXCEPT ![r.id] = "none"]
          /\ v.sent = widget.sent /\ t.p = pending /\ t.w = v
      BY <2>1 DEF Whole
    <2> HIDE DEF t, v
    <2>3. DOMAIN v.links = DOMAIN widget.links
          /\ \A i \in DOMAIN widget.links : v.links[i] =
                IF i = r.id THEN "none" ELSE widget.links[i]
      BY <2>2
    <2>4. QueueSound(t, R, {})
      BY <2>1, <2>2, <2>3, OtherFields
    <2>5. PageSound(t.w, R)
      BY <2>1, <2>2, <2>3 DEF PageSound, LinkTrue
    <2> QED BY <2>1, <2>2, <2>4, <2>5 DEF StateOK, Sound
  <1>3. uploadMode' = uploadMode /\ uploadCount' \in CountType /\ astray' \in BOOLEAN
    BY <1>1 DEF UploadInv, Becomes
  <1> HIDE DEF t
  <1>4. CASE ~astray
    BY <1>1, <1>2, <1>3, <1>4, BecomesOK
  <1>5. CASE astray
    BY <1>1, <1>3, <1>5, AstrayKeeps
  <1> QED BY <1>4, <1>5

\* A widget x that has lost closure r of s, and no other field that matters.
Without(s, x, r) ==
  /\ Whole(x) /\ Same(x.w, s.w) /\ x.w.sent = s.w.sent
  /\ x.p = s.p (-) SetToBag({r})

LEMMA WithoutSound ==
  ASSUME NEW s, NEW R, Sound(s, R), NEW r \in DOMAIN s.p, NEW x, Without(s, x, r)
  PROVE  /\ QueueSound(x, R, {r.id}) /\ PageSound(x.w, R)
         /\ r.id \in First(x.w.queue) /\ r.id \in ToSet(x.w.queue)
         /\ Uploads(x.w, r.id) /\ r.file = x.w.files[r.id]
         /\ Simple(x.p) /\ DOMAIN x.p = {c \in DOMAIN s.p : c.id # r.id}
  <1>1. QueueSound(s, R, {}) /\ PageSound(s.w, R)
    BY DEF Sound
  <1> DEFINE y == [w |-> s.w, p |-> x.p]
  <1>2. /\ QueueSound(y, R, {r.id}) /\ r.id \in First(s.w.queue) /\ Uploads(s.w, r.id)
        /\ r.file = s.w.files[r.id]
    BY <1>1, EndedSound DEF Without
  <1>3. QueueSound(x, R, {r.id})
    <2>1. y.w = s.w /\ y.p = x.p
      OBVIOUS
    <2> HIDE DEF y
    <2> QED BY <1>2, <2>1, OtherFields DEF Without, Same
  <1>4. PageSound(x.w, R)
    BY <1>1 DEF PageSound, LinkTrue, Without, Same
  <1>5. Uploads(x.w, r.id)
    BY <1>2 DEF Uploads, File, Listed, Without, Same
  <1>6. Simple(x.p) /\ DOMAIN x.p = {c \in DOMAIN s.p : c.id # r.id}
    <2>1. Simple(x.p) /\ DOMAIN x.p = DOMAIN s.p \ {r}
      <3> DEFINE E == {r}
      <3>1. Simple(s.p) /\ x.p = s.p (-) SetToBag(E)
        BY <1>1 DEF QueueSound, Without
      <3> HIDE DEF E
      <3>2. /\ Simple(s.p (-) SetToBag(E))
            /\ DOMAIN (s.p (-) SetToBag(E)) = DOMAIN s.p \ E
        BY <3>1, BagFacts
      <3> QED BY <3>1, <3>2 DEF E
    <2>2. \A c \in DOMAIN s.p : c.id = r.id => c = r
      BY <1>1 DEF QueueSound
    <2> QED BY <2>1, <2>2
  <1>7. r.id \in ToSet(x.w.queue) /\ r.id \in First(x.w.queue)
    <2>1. s.w.queue \in Seq(Nat)
      BY <1>1 DEF QueueSound
    <2> QED BY <1>2, <2>1, FirstFacts DEF Without, Same
  <1> QED BY <1>2, <1>3, <1>4, <1>5, <1>6, <1>7 DEF Without, Same

\* The last answer for a file.
LEMMA CompletedSound ==
  ASSUME NEW s, NEW R, Sound(s, R), NEW r \in DOMAIN s.p, NEW x, Without(s, x, r),
         NEW link \in {"none", "retry"}
  PROVE  /\ Sound(Completed(x, r.id, link), R)
         /\ Completed(x, r.id, link).w.stored = s.w.stored
  <1>w. /\ QueueSound(x, R, {r.id}) /\ PageSound(x.w, R)
        /\ r.id \in First(x.w.queue) /\ r.id \in ToSet(x.w.queue)
        /\ Uploads(x.w, r.id) /\ r.file = x.w.files[r.id]
        /\ Simple(x.p) /\ DOMAIN x.p = {c \in DOMAIN s.p : c.id # r.id}
    BY WithoutSound
  <1> DEFINE id == r.id
             v == [x.w EXCEPT !.progress = @ - 1, !.links[id] = link,
                              !.sent = With(@, id, Gone)]
             t == [w |-> v, p |-> x.p]
             q == s.w.queue
             u == Dequeue(t, id)
  <1>1. /\ QueueSound(x, R, {id}) /\ PageSound(x.w, R) /\ id \in ToSet(q)
        /\ Uploads(x.w, id) /\ Simple(x.p) /\ DOMAIN x.p = {c \in DOMAIN s.p : c.id # id}
        /\ Whole(x)
    BY <1>w DEF Without, Same
  <1>2. /\ Whole(t) /\ v.files = x.w.files /\ v.queue = x.w.queue /\ v.stored = x.w.stored
        /\ v.progress = x.w.progress - 1 /\ v.links = [x.w.links EXCEPT ![id] = link]
        /\ v.sent = With(x.w.sent, id, Gone) /\ t.p = x.p /\ t.w = v
    BY <1>1 DEF Whole
  <1>3. Completed(x, id, link) = u
    <2>1. x = [w |-> x.w, p |-> x.p]
      BY <1>1 DEF Whole
    <2>2. [x EXCEPT !.w.progress = @ - 1, !.w.links[id] = link,
                    !.w.sent = With(@, id, Gone)] = [x EXCEPT !.w = v]
      BY <2>1
    <2> HIDE DEF v
    <2>3. [x EXCEPT !.w = v] = [w |-> v, p |-> x.p]
      BY <2>1
    <2> QED BY <2>2, <2>3 DEF Completed, v
  <1> HIDE DEF t, v
  <1>4. Ended(s, t, id)
    <2>1. DOMAIN s.w.sent \subseteq DOMAIN v.sent
          /\ \A i \in DOMAIN s.w.sent : i # id => v.sent[i] = s.w.sent[i]
      BY <1>2 DEF With, Without
    <2>2. DOMAIN v.links = DOMAIN s.w.links
      BY <1>2 DEF Without, Same
    <2>3. s.w.files \in Seq(Nat)
      BY DEF Sound, QueueSound
    <2> QED BY <1>1, <1>2, <2>1, <2>2, <2>3 DEF Ended, Without, Same
  <1>5. QueueSound(s, R, {})
    BY DEF Sound
  <1> HIDE DEF u
  <1>6. /\ QueueSound(u, R, {}) /\ Len(u.w.queue) = Len(q) - 1
        /\ ToSet(u.w.queue) = ToSet(q) \ {id}
        /\ u.w.links = t.w.links /\ u.w.progress = t.w.progress /\ u.w.stored = t.w.stored
    <2>1. id \in ToSet(s.w.queue)
      BY <1>1
    <2> HIDE DEF id, q
    <2>2. QueueSound(Dequeue(t, id), R, {}) /\ Dequeued(s, t, id)
      BY <1>4, <1>5, <2>1, DequeueSound
    <2> QED BY <2>2 DEF u, q, Dequeued
  <1>7. PageSound(u.w, R)
    <2>1. u.w.progress = Len(u.w.queue)
      BY <1>1, <1>2, <1>6 DEF PageSound, Without, Same
    <2>2. id \notin R /\ R \cap ToSet(q) = {}
      BY <1>1, <1>5 DEF QueueSound
    <2>3. ASSUME NEW i \in DOMAIN u.w.links PROVE LinkTrue(u.w, R, i)
      <3>1. i \in DOMAIN x.w.links /\ u.w.links[i] = IF i = id THEN link ELSE x.w.links[i]
        BY <1>2, <1>6, <2>3
      <3>2. LinkTrue(x.w, R, i) /\ x.w.queue = q
        BY <1>1, <3>1 DEF PageSound, Without, Same
      <3> QED BY <1>6, <2>2, <3>1, <3>2 DEF LinkTrue
    <2> QED BY <2>1, <2>3 DEF PageSound
  <1> QED BY <1>2, <1>3, <1>6, <1>7 DEF Sound, Without, Same

\* The widget t, which has a timer for file id of widget x.
Waits(x, t, id) ==
  /\ Whole(t) /\ t.w.files = x.w.files /\ t.w.queue = x.w.queue
  /\ t.w.progress = x.w.progress /\ t.w.sent = x.w.sent
  /\ t.w.links = [x.w.links EXCEPT ![id] = "cancel"]
  /\ t.p = x.p (+) SetToBag({Kind(id, x.w.files[id], "timer")})

\* An answer after which the file waits for its timer.
LEMMA WaitsSound ==
  ASSUME NEW s, NEW R, Sound(s, R), NEW r \in DOMAIN s.p, NEW x, Without(s, x, r),
         NEW t, Waits(x, t, r.id)
  PROVE  Sound(t, R)
  <1>w. /\ QueueSound(x, R, {r.id}) /\ PageSound(x.w, R)
        /\ r.id \in First(x.w.queue) /\ r.id \in ToSet(x.w.queue)
        /\ Uploads(x.w, r.id) /\ r.file = x.w.files[r.id]
        /\ Simple(x.p) /\ DOMAIN x.p = {c \in DOMAIN s.p : c.id # r.id}
    BY WithoutSound
  <1> DEFINE id == r.id
             c == Kind(id, x.w.files[id], "timer")
  <1>t. Waits(x, t, id)
    OBVIOUS
  <1>1. /\ QueueSound(x, R, {id}) /\ PageSound(x.w, R) /\ id \in ToSet(x.w.queue)
        /\ id \in First(x.w.queue) /\ Simple(x.p)
        /\ DOMAIN x.p = {d \in DOMAIN s.p : d.id # id}
    BY <1>w
  <1>2. c.id = id /\ c.file = x.w.files[id] /\ c.what = "timer"
    BY KindFacts
  <1>3. c = Kind(c.id, c.file, c.what)
    BY <1>2
  <1>4. \A d \in DOMAIN x.p : d.id # id
    BY <1>1
  <1>5. Simple(t.p) /\ DOMAIN t.p = DOMAIN x.p \cup {c}
    <2> DEFINE E == {c}
    <2>1. E \cap DOMAIN x.p = {}
      BY <1>2, <1>4
    <2>2. t.p = x.p (+) SetToBag(E)
      BY DEF Waits
    <2> HIDE DEF E
    <2>3. Simple(x.p (+) SetToBag(E)) /\ DOMAIN (x.p (+) SetToBag(E)) = DOMAIN x.p \cup E
      BY <1>1, <2>1, BagFacts
    <2> QED BY <2>2, <2>3 DEF E
  <1> HIDE DEF c, id
  <1>6. \A d \in DOMAIN t.p : Closure(t.w, d)
    <2>1. Closure(t.w, c)
      BY <1>2, <1>3 DEF Closure, Waits
    <2>2. \A d \in DOMAIN x.p : Closure(t.w, d)
      BY <1>1, <1>t DEF QueueSound, Closure, Waits
    <2> QED BY <1>5, <2>1, <2>2
  <1>7. {d.id : d \in DOMAIN t.p} = First(t.w.queue) \ {}
    <2>1. {d.id : d \in DOMAIN x.p} = First(x.w.queue) \ {id}
      BY <1>1 DEF QueueSound
    <2>2. {d.id : d \in DOMAIN t.p} = {d.id : d \in DOMAIN x.p} \cup {id}
      BY <1>2, <1>5
    <2> QED BY <1>1, <1>t, <2>1, <2>2 DEF Waits
  <1>8. \A d, e \in DOMAIN t.p : d.id = e.id => d = e
    BY <1>1, <1>2, <1>4, <1>5 DEF QueueSound
  <1>9. DOMAIN t.w.links = DOMAIN x.w.links
        /\ \A i \in DOMAIN x.w.links : t.w.links[i] = IF i = id THEN "cancel" ELSE x.w.links[i]
    BY <1>t DEF Waits
  <1>10. \A i \in R \cup ToSet(t.w.queue) : Uploads(t.w, i)
    BY <1>1, <1>9, <1>t DEF QueueSound, Uploads, File, Listed, Waits
  <1>11. QueueSound(t, R, {})
    BY <1>1, <1>5, <1>6, <1>7, <1>8, <1>10, <1>t DEF QueueSound, Waits
  <1>12. PageSound(t.w, R)
    BY <1>1, <1>9, <1>t DEF PageSound, LinkTrue, Waits
  <1> QED BY <1>11, <1>12 DEF Sound

LEMMA AnswerOK ==
  ASSUME UploadInv, ~astray, NEW r \in Closures,
         NEW success \in BOOLEAN, NEW prevent \in BOOLEAN, Answer(r, success, prevent)
  PROVE  \E u : Becomes(u) /\ StateOK(uploadMode, u)
  <1> DEFINE R == ToSet(widget.stored)
             b == IF prevent THEN widget.barred \union {r.id} ELSE widget.barred \ {r.id}
             p == pending (-) SetToBag({r})
             vf == [widget EXCEPT !.barred = b]
             s == [w |-> widget, p |-> p]
             f == [w |-> vf, p |-> p]
             n == Now
  <1>1. /\ StateOK(uploadMode, n) /\ n.w = widget /\ n.p = pending /\ Sound(n, R) /\ Whole(n)
    BY NowOK
  <1>2. r \in DOMAIN n.p
    BY <1>1 DEF Closures, BagToSet
  <1>3. Without(n, s, r) /\ Without(n, f, r)
    BY <1>1 DEF Without, Whole, Same
  <1>4. /\ [Now EXCEPT !.p = @ (-) SetToBag({r})] = s
        /\ [s EXCEPT !.w.barred = b] = f
    <2>1. Now = [w |-> widget, p |-> pending]
      BY DEF Now
    <2> QED BY <2>1
  <1>5. Answered(widget, r)
    <2>1. Uploads(s.w, r.id)
      <3> HIDE DEF s, f, n, R
      <3> QED BY <1>1, <1>2, <1>3, WithoutSound
    <2> QED BY <2>1 DEF Answered, Uploads
  <1> DEFINE vt == [vf EXCEPT !.links[r.id] = "cancel",
                              !.retries = With(@, r.id, Retries(widget, r.id))]
             pt == p (+) SetToBag({Kind(r.id, widget.files[r.id], "timer")})
             t == [w |-> vt, p |-> pt]
             link == IF uploadMode.showButton /\ ~prevent THEN "retry" ELSE "none"
  <1>6. \/ Becomes(Completed(s, r.id, "none"))
        \/ Becomes(t)
        \/ Becomes(Completed(f, r.id, link))
    <2>1. Becomes(Completed(s, r.id, "none"))
          \/ Becomes([f EXCEPT !.w.links[r.id] = "cancel",
                               !.w.retries = With(@, r.id, Retries(widget, r.id)),
                               !.p = @ (+) SetToBag({Kind(r.id, widget.files[r.id], "timer")})])
          \/ Becomes(Completed(f, r.id, link))
      <3> HIDE DEF s, f
      <3> QED BY <1>4, <1>5 DEF Answer
    <2>2. [f EXCEPT !.w.links[r.id] = "cancel",
                    !.w.retries = With(@, r.id, Retries(widget, r.id)),
                    !.p = @ (+) SetToBag({Kind(r.id, widget.files[r.id], "timer")})] = t
      <3> DEFINE rs == Retries(widget, r.id)
                 c == SetToBag({Kind(r.id, widget.files[r.id], "timer")})
                 g == [f EXCEPT !.w.links[r.id] = "cancel", !.w.retries = With(@, r.id, rs)]
      <3>1. f = [w |-> vf, p |-> p]
        OBVIOUS
      <3>2. g = [f EXCEPT !.w = vt]
        <4> HIDE DEF rs, vf, p
        <4>1. f = [w |-> f.w, p |-> f.p] /\ f.w = vf
          BY <3>1
        <4> HIDE DEF f
        <4>2. g = [f EXCEPT !.w = [[f.w EXCEPT !.links[r.id] = "cancel"]
                                      EXCEPT !.retries = With(@, r.id, rs)]]
          BY <4>1
        <4> QED BY <4>1, <4>2 DEF rs
      <3> HIDE DEF vt, vf, p, rs, c
      <3>3. [f EXCEPT !.w = vt] = [w |-> vt, p |-> p]
        BY <3>1
      <3>4. [f EXCEPT !.w.links[r.id] = "cancel", !.w.retries = With(@, r.id, rs),
                      !.p = @ (+) c] = [g EXCEPT !.p = p (+) c]
        BY <3>1
      <3> HIDE DEF g, f
      <3>5. [g EXCEPT !.p = p (+) c] = [w |-> vt, p |-> p (+) c]
        <4>1. g = [w |-> vt, p |-> p]
          BY <3>2, <3>3
        <4> QED BY <4>1
      <3> USE DEF f
      <3> QED BY <3>4, <3>5 DEF rs, c
    <2> QED BY <2>1, <2>2
  <1>7. /\ Waits(f, t, r.id) /\ t.w.stored = widget.stored
    BY <1>1 DEF Waits, Whole
  <1>8. link \in {"none", "retry"} /\ "none" \in {"none", "retry"}
    OBVIOUS
  <1>9. n.w.stored = widget.stored
    BY <1>1
  <1> HIDE DEF s, f, t, n, R, link
  <1>10. /\ Sound(Completed(s, r.id, "none"), R)
         /\ Completed(s, r.id, "none").w.stored = n.w.stored
    BY <1>1, <1>2, <1>3, <1>8, CompletedSound
  <1>11. Sound(Completed(f, r.id, link), R) /\ Completed(f, r.id, link).w.stored = n.w.stored
    BY <1>1, <1>2, <1>3, <1>8, CompletedSound
  <1>12. Sound(t, R)
    BY <1>1, <1>2, <1>3, <1>7, WaitsSound
  <1> QED BY <1>1, <1>6, <1>7, <1>9, <1>10, <1>11, <1>12 DEF StateOK, R

LEMMA TimerOK ==
  ASSUME UploadInv, ~astray, NEW r \in Closures, TimerFires(r)
  PROVE  \E u : Becomes(u) /\ StateOK(uploadMode, u)
  <1> DEFINE R == ToSet(widget.stored)
             k == IF r.id \in DOMAIN widget.retries THEN widget.retries[r.id] + 1
                  ELSE MaxAutoAttempts
             v == [widget EXCEPT !.retries = With(@, r.id, k)]
             p == pending (-) SetToBag({r})
             s == [w |-> v, p |-> p]
             n == Now
             u == SendFile(s, r.id)
  <1>1. /\ StateOK(uploadMode, n) /\ n.w = widget /\ n.p = pending /\ Sound(n, R) /\ Whole(n)
    BY NowOK
  <1>2. r \in DOMAIN n.p
    BY <1>1 DEF Closures, BagToSet
  <1>3. Without(n, s, r)
    BY <1>1 DEF Without, Whole, Same
  <1>4. Becomes(Retry(s, r.id))
    BY DEF TimerFires
  <1>5. n.w.stored = widget.stored
    BY <1>1
  <1> HIDE DEF s, n, R
  <1>6. /\ QueueSound(s, R, {r.id}) /\ PageSound(s.w, R)
        /\ r.id \in First(s.w.queue) /\ r.id \in ToSet(s.w.queue)
    BY <1>1, <1>2, <1>3, WithoutSound
  <1>7. Retry(s, r.id) = u
    BY <1>6 DEF Retry
  <1>8. QueueSound(u, R, {}) /\ Same(u.w, s.w)
    BY <1>6, StartSound
  <1> HIDE DEF u
  <1>9. Sound(u, R)
    BY <1>6, <1>8 DEF Sound, PageSound, LinkTrue, Same
  <1>10. u.w.stored = n.w.stored
    BY <1>3, <1>8 DEF Same, Without
  <1> QED BY <1>1, <1>4, <1>5, <1>7, <1>9, <1>10 DEF StateOK, R

LEMMA AnswersKeep ==
  ASSUME UploadInv, NEW r \in Closures,
         TimerFires(r) \/ \E success, prevent \in BOOLEAN : Answer(r, success, prevent)
  PROVE  UploadInv'
  <1>1. uploadCount' = uploadCount /\ astray' = astray
    BY DEF TimerFires, Answer
  <1>2. uploadCount' \in CountType /\ astray' \in BOOLEAN
    BY <1>1 DEF UploadInv
  <1>3. CASE ~astray
    <2>1. PICK u : Becomes(u) /\ StateOK(uploadMode, u)
      BY <1>3, TimerOK, AnswerOK
    <2> QED BY <1>2, <2>1, BecomesOK
  <1>4. CASE astray
    <2>1. uploadMode' = uploadMode
      BY DEF TimerFires, Answer, Becomes
    <2> QED BY <1>1, <1>4, <2>1, AstrayKeeps
  <1> QED BY <1>3, <1>4
-----------------------------------------------------------------------------
(* the links of the list                                                   *)

\* The widget t, in which file id is gone: what a click on cancel does before _dequeue.
Cancelled(s, t, id) ==
  /\ Whole(t) /\ t.w.files = [s.w.files EXCEPT ![id] = Gone]
  /\ t.w.sent = With(s.w.sent, id, Gone) /\ t.w.queue = s.w.queue /\ t.w.links = s.w.links
  /\ t.p = s.p (-) SetToBag({Kind(id, IF id \in DOMAIN s.w.sent THEN s.w.sent[id] ELSE Gone,
                                  "request"),
                             Kind(id, s.w.files[id], "timer")})

\* The item of file id goes from the list.
Delisted(u, id) == [u EXCEPT !.w.links = Restrict(@, DOMAIN @ \ {id})]

\* Aborting takes all closures of the file, and no other.
LEMMA CancelledClosures ==
  ASSUME NEW s, NEW R, QueueSound(s, R, {}), NEW id, File(s.w, id) # Gone,
         NEW t, Cancelled(s, t, id)
  PROVE  Simple(t.p) /\ DOMAIN t.p = {r \in DOMAIN s.p : r.id # id}
  <1> DEFINE sent == IF id \in DOMAIN s.w.sent THEN s.w.sent[id] ELSE Gone
             a == Kind(id, sent, "request")
             b == Kind(id, s.w.files[id], "timer")
             E == {a, b}
  <1>1. t.p = s.p (-) SetToBag(E) /\ Simple(s.p)
    BY DEF Cancelled, QueueSound
  <1>2. a.id = id /\ b.id = id
    BY KindFacts
  <1>3. ASSUME NEW r \in DOMAIN s.p, r.id = id PROVE r \in E
    <2>1. Closure(s.w, r)
      BY DEF QueueSound
    <2>2. CASE r.what = "request"
      BY <1>3, <2>1, <2>2 DEF Closure
    <2>3. CASE r.what = "timer"
      BY <1>3, <2>1, <2>3 DEF Closure
    <2> QED BY <2>1, <2>2, <2>3 DEF Closure
  <1>4. \A r \in E : r.id = id
    BY <1>2
  <1> HIDE DEF E
  <1>5. /\ Simple(s.p (-) SetToBag(E)) /\ DOMAIN (s.p (-) SetToBag(E)) = DOMAIN s.p \ E
    BY <1>1, BagFacts
  <1> QED BY <1>1, <1>3, <1>4, <1>5

LEMMA CancelledFields ==
  ASSUME NEW s, NEW R, QueueSound(s, R, {}), NEW id, File(s.w, id) # Gone,
         NEW t, Cancelled(s, t, id)
  PROVE  Ended(s, t, id)
  <1>1. id \in DOMAIN s.w.files /\ s.w.files \in Seq(Nat)
    BY DEF File, QueueSound
  <1>2. /\ t.w.files \in Seq(Nat) /\ DOMAIN t.w.files = DOMAIN s.w.files
        /\ \A i \in DOMAIN s.w.files : i # id => t.w.files[i] = s.w.files[i]
    BY <1>1 DEF Cancelled, Gone
  <1>3. /\ DOMAIN s.w.sent \subseteq DOMAIN t.w.sent
        /\ \A i \in DOMAIN s.w.sent : i # id => t.w.sent[i] = s.w.sent[i]
    BY DEF Cancelled, With
  <1>4. Simple(t.p) /\ DOMAIN t.p = {r \in DOMAIN s.p : r.id # id}
    BY CancelledClosures
  <1>5. Whole(t) /\ t.w.queue = s.w.queue /\ DOMAIN t.w.links = DOMAIN s.w.links
    BY DEF Cancelled
  <1> QED BY <1>2, <1>3, <1>4, <1>5 DEF Ended

\* In an empty queue there is nothing to take out.
LEMMA NothingQueued ==
  ASSUME NEW s, NEW R, QueueSound(s, R, {}), NEW id, File(s.w, id) # Gone,
         s.w.queue = <<>>, NEW t, Cancelled(s, t, id)
  PROVE  /\ Dequeue(t, id) = t /\ ~DequeueThrows(t, id)
         /\ QueueSound(t, R \ {id}, {})
  <1>1. Whole(t) /\ t.w.queue = <<>>
    BY DEF Cancelled
  <1>2. IndexOf(<<>>, id) = 0 /\ Spliced(<<>>, 0) = <<>>
    BY EmptyFacts DEF IndexOf, Spliced
  <1>3. ~(Len(<<>>) >= MaxConnections)
    BY EmptyFacts, UploadAssumption
  <1>4. [t EXCEPT !.w.queue = Spliced(@, 0)] = t
    <2> DEFINE v == [t.w EXCEPT !.queue = <<>>]
    <2>1. t = [w |-> t.w, p |-> t.p]
      BY <1>1 DEF Whole
    <2>2. [t EXCEPT !.w.queue = Spliced(@, 0)] = [t EXCEPT !.w = v]
      BY <1>1, <1>2, <2>1
    <2>3. v = t.w
      BY <1>1 DEF Whole
    <2> HIDE DEF v
    <2>4. [t EXCEPT !.w = v] = [w |-> v, p |-> t.p]
      BY <2>1
    <2> QED BY <2>1, <2>2, <2>3, <2>4
  <1>5. Dequeue(t, id) = t
    BY <1>1, <1>2, <1>3, <1>4 DEF Dequeue
  <1>6. ~DequeueThrows(t, id)
    BY <1>1, <1>2, <1>3 DEF DequeueThrows
  <1>7. Ended(s, t, id)
    BY CancelledFields
  <1>8. DOMAIN t.p = {}
    <2>1. {r.id : r \in DOMAIN s.p} = {}
      BY EmptyFacts DEF QueueSound
    <2>2. DOMAIN s.p = {}
      BY <2>1
    <2>3. DOMAIN t.p \subseteq DOMAIN s.p
      BY <1>7 DEF Ended
    <2> QED BY <2>2, <2>3
  <1>9. \A i \in R \ {id} : Uploads(t.w, i)
    <2> TAKE i \in R \ {id}
    <2>1. Uploads(s.w, i) /\ s.w.files \in Seq(Nat)
      BY DEF QueueSound
    <2>2. i \in DOMAIN s.w.files
      BY <2>1, UploadsFacts
    <2> QED BY <1>7, <2>1, <2>2 DEF Ended, Uploads, File, Listed
  <1>10. QueueSound(t, R \ {id}, {})
    <2>1. /\ t.w.queue \in Seq(Nat) /\ IsInjective(t.w.queue) /\ ToSet(t.w.queue) = {}
          /\ First(t.w.queue) = {}
      BY <1>1, EmptyFacts
    <2>2. Simple(t.p) /\ t.w.files \in Seq(Nat)
      BY <1>7 DEF Ended
    <2> QED BY <1>1, <1>8, <1>9, <2>1, <2>2 DEF QueueSound
  <1> QED BY <1>5, <1>6, <1>10

LEMMA DelistedSound ==
  ASSUME NEW u, NEW R, QueueSound(u, R, {}), NEW id, id \notin R \cup ToSet(u.w.queue),
         u.w.progress = Len(u.w.queue),
         \A i \in DOMAIN u.w.links : i # id => LinkTrue(u.w, R, i)
  PROVE  Sound(Delisted(u, id), R) /\ Delisted(u, id).w.stored = u.w.stored
  <1> DEFINE v == [u.w EXCEPT !.links = Restrict(@, DOMAIN @ \ {id})]
             x == [w |-> v, p |-> u.p]
  <1>1. /\ Whole(x) /\ v.files = u.w.files /\ v.queue = u.w.queue /\ v.stored = u.w.stored
        /\ v.progress = u.w.progress /\ v.links = Restrict(u.w.links, DOMAIN u.w.links \ {id})
        /\ v.sent = u.w.sent /\ x.w = v /\ x.p = u.p
    BY DEF QueueSound, Whole
  <1>2. Delisted(u, id) = x
    <2>1. u = [w |-> u.w, p |-> u.p]
      BY DEF QueueSound, Whole
    <2>2. Delisted(u, id) = [u EXCEPT !.w = v]
      BY <2>1 DEF Delisted
    <2> HIDE DEF v
    <2>3. [u EXCEPT !.w = v] = [w |-> v, p |-> u.p]
      BY <2>1
    <2> QED BY <2>2, <2>3
  <1> HIDE DEF x, v
  <1>3. /\ DOMAIN v.links = DOMAIN u.w.links \ {id}
        /\ \A i \in DOMAIN v.links : v.links[i] = u.w.links[i]
    BY <1>1 DEF Restrict
  <1>4. \A i \in R \cup ToSet(v.queue) : Uploads(v, i)
    <2> TAKE i \in R \cup ToSet(v.queue)
    <2>1. Uploads(u.w, i) /\ i # id
      BY <1>1 DEF QueueSound
    <2> QED BY <1>1, <1>3, <2>1 DEF Uploads, File, Listed
  <1>5. \A r \in DOMAIN x.p : Closure(v, r)
    BY <1>1 DEF QueueSound, Closure
  <1>6. QueueSound(x, R, {})
    BY <1>1, <1>4, <1>5 DEF QueueSound
  <1>7. PageSound(x.w, R)
    BY <1>1, <1>3 DEF PageSound, LinkTrue
  <1> QED BY <1>1, <1>2, <1>6, <1>7 DEF Sound

LEMMA CancelOK ==
  ASSUME UploadInv, NEW id \in Files, Cancel(id), ~astray, ~astray'
  PROVE  \E u : Becomes(u) /\ StateOK(uploadMode, u)
  <1> DEFINE R == ToSet(widget.stored)
             counted == uploadMode.autoUpload \/ id \notin ToSet(widget.stored)
             sent == IF id \in DOMAIN widget.sent THEN widget.sent[id] ELSE Gone
             st == IF counted THEN widget.stored
                   ELSE Spliced(widget.stored, IndexOf(widget.stored, id))
             k == IF counted THEN widget.progress - 1 ELSE widget.progress
             v == [widget EXCEPT !.files[id] = Gone, !.sent = With(@, id, Gone),
                                 !.progress = k, !.stored = st]
             p == pending (-) SetToBag({Kind(id, sent, "request"),
                                        Kind(id, widget.files[id], "timer")})
             t == [w |-> v, p |-> p]
             n == Now
             u == Dequeue(t, id)
  <1>1. /\ StateOK(uploadMode, n) /\ n.w = widget /\ n.p = pending /\ QueueSound(n, R, {})
        /\ PageSound(widget, R) /\ Whole(n)
    BY NowOK
  <1>2. /\ Listed(widget, id) /\ widget.links[id] = "cancel" /\ File(widget, id) # Gone
        /\ (id \in ToSet(widget.queue) \/ widget.queue = <<>>)
    BY DEF Cancel
  <1>3. Becomes(IF DequeueThrows(t, id) THEN u ELSE Delisted(u, id))
    <2>1. [widget EXCEPT !.files[id] = Gone, !.sent = With(@, id, Gone),
                         !.progress = IF counted THEN @ - 1 ELSE @,
                         !.stored = IF counted THEN @ ELSE Spliced(@, IndexOf(@, id))] = v
      OBVIOUS
    <2> HIDE DEF v
    <2> QED BY <2>1 DEF Cancel, Delisted
  <1>4. /\ Whole(t) /\ v.files = [widget.files EXCEPT ![id] = Gone]
        /\ v.sent = With(widget.sent, id, Gone) /\ v.queue = widget.queue
        /\ v.links = widget.links /\ v.progress = k /\ v.stored = st /\ t.w = v /\ t.p = p
    BY <1>1 DEF Whole
  <1> HIDE DEF t, v
  <1>5. Cancelled(n, t, id) /\ File(n.w, id) # Gone
    BY <1>1, <1>2, <1>4 DEF Cancelled
  <1>6. id \in R \cup ToSet(widget.queue)
    BY <1>1, <1>2 DEF PageSound, LinkTrue, Listed
  <1>7. /\ widget.stored \in Seq(Nat) /\ IsInjective(widget.stored)
        /\ uploadMode.autoUpload => widget.stored = <<>>
        /\ R \cap ToSet(widget.queue) = {}
        /\ widget.queue \in Seq(Nat)
    BY <1>1 DEF StateOK, QueueSound
  <1> HIDE DEF n, p, k, st, u
  <1>8. CASE id \in ToSet(widget.queue)
    <2>1. id \notin R /\ st = widget.stored /\ k = widget.progress - 1
      BY <1>7, <1>8 DEF st, k
    <2>2. Ended(n, t, id)
      BY <1>1, <1>5, CancelledFields
    <2>3. id \in ToSet(n.w.queue)
      BY <1>1, <1>8
    <2> HIDE DEF R
    <2>4. QueueSound(u, R, {}) /\ Dequeued(n, t, id)
      BY <1>1, <2>2, <2>3, DequeueSound DEF u
    <2>5. /\ ~DequeueThrows(t, id) /\ Len(u.w.queue) = Len(widget.queue) - 1
          /\ ToSet(u.w.queue) = ToSet(widget.queue) \ {id}
          /\ u.w.links = widget.links /\ u.w.progress = k /\ u.w.stored = st
      BY <1>1, <1>4, <2>4 DEF Dequeued, u
    <2>6. u.w.progress = Len(u.w.queue) /\ id \notin R \cup ToSet(u.w.queue)
      BY <1>1, <2>1, <2>5 DEF PageSound
    <2>7. \A i \in DOMAIN u.w.links : i # id => LinkTrue(u.w, R, i)
      BY <1>1, <2>5 DEF PageSound, LinkTrue
    <2>8. Sound(Delisted(u, id), R) /\ Delisted(u, id).w.stored = u.w.stored
      BY <2>4, <2>6, <2>7, DelistedSound
    <2>9. StateOK(uploadMode, Delisted(u, id))
      BY <1>7, <2>1, <2>5, <2>8 DEF StateOK, R
    <2> QED BY <1>3, <2>5, <2>9
  <1>9. CASE id \notin ToSet(widget.queue)
    <2>1. widget.queue = <<>> /\ id \in R
      BY <1>2, <1>6, <1>9
    <2>2. widget.stored # <<>>
      BY <2>1, EmptyFacts
    <2>3. ~counted
      BY <1>7, <2>1, <2>2
    <2>4. k = widget.progress
      BY <2>3 DEF k
    <2>5. st \in Seq(Nat) /\ IsInjective(st) /\ ToSet(st) = R \ {id}
      <3> DEFINE i == IndexOf(widget.stored, id)
      <3>1. i \in 1..Len(widget.stored) /\ widget.stored[i] = id
        BY <1>7, <2>1, IndexFacts
      <3> HIDE DEF i
      <3>2. st = RemoveAt(widget.stored, i)
        BY <2>3, <3>1 DEF st, Spliced, i
      <3> QED BY <1>7, <3>1, <3>2, RemoveFacts
    <2> HIDE DEF R
    <2>6. /\ Dequeue(t, id) = t /\ ~DequeueThrows(t, id)
          /\ QueueSound(t, R \ {id}, {})
      BY <1>1, <1>5, <2>1, NothingQueued
    <2>7. t.w.progress = Len(t.w.queue) /\ id \notin (R \ {id}) \cup ToSet(t.w.queue)
      BY <1>1, <1>4, <1>9, <2>1, <2>4 DEF PageSound
    <2>8. \A i \in DOMAIN t.w.links : i # id => LinkTrue(t.w, R \ {id}, i)
      BY <1>1, <1>4 DEF PageSound, LinkTrue
    <2>9. Sound(Delisted(t, id), R \ {id}) /\ Delisted(t, id).w.stored = st
      BY <1>4, <2>6, <2>7, <2>8, DelistedSound
    <2>10. StateOK(uploadMode, Delisted(t, id))
      BY <2>3, <2>5, <2>9 DEF StateOK
    <2> QED BY <1>3, <2>6, <2>10 DEF u
  <1> QED BY <1>8, <1>9

\* The new place of the file in the queue.
LEMMA ManualRetryOK ==
  ASSUME UploadInv, NEW id \in Files, ManualRetry(id), ~astray
  PROVE  \E u : Becomes(u) /\ StateOK(uploadMode, u)
  <1> DEFINE R == ToSet(widget.stored)
             va == [widget EXCEPT !.progress = @ + 1, !.links[id] = "cancel"]
             vb == [widget EXCEPT !.links[id] = "none"]
             a == [w |-> va, p |-> pending]
             b == [w |-> vb, p |-> pending]
             n == Now
             q == widget.queue
  <1>1. /\ StateOK(uploadMode, n) /\ n.w = widget /\ n.p = pending /\ QueueSound(n, R, {})
        /\ PageSound(widget, R) /\ Whole(n)
    BY NowOK
  <1>2. Listed(widget, id) /\ widget.links[id] = "retry"
    BY DEF ManualRetry
  <1>3. \/ Becomes(b)
        \/ Becomes(Retry(a, id)) /\ File(widget, id) # Gone
    <2>1. [Now EXCEPT !.w.links[id] = "none"] = b
      <3>1. Now = [w |-> widget, p |-> pending]
        BY DEF Now
      <3>2. [Now EXCEPT !.w.links[id] = "none"] = [Now EXCEPT !.w = vb]
        BY <3>1
      <3> HIDE DEF vb
      <3> QED BY <3>1, <3>2
    <2> HIDE DEF b
    <2> QED BY <2>1 DEF ManualRetry
  <1>4. id \notin R /\ id \notin ToSet(q)
    BY <1>1, <1>2 DEF PageSound, LinkTrue, Listed
  <1>5. /\ Whole(b) /\ vb.files = widget.files /\ vb.queue = q /\ vb.stored = widget.stored
        /\ vb.progress = widget.progress /\ vb.links = [widget.links EXCEPT ![id] = "none"]
        /\ vb.sent = widget.sent /\ b.w = vb /\ b.p = pending
    BY <1>1 DEF Whole
  <1>6. /\ Whole(a) /\ va.files = widget.files /\ va.queue = q /\ va.stored = widget.stored
        /\ va.progress = widget.progress + 1
        /\ va.links = [widget.links EXCEPT ![id] = "cancel"]
        /\ va.sent = widget.sent /\ a.w = va /\ a.p = pending
    BY <1>1 DEF Whole
  <1> HIDE DEF a, b, va, vb, n
  <1>7. StateOK(uploadMode, b)
    <2>1. DOMAIN vb.links = DOMAIN widget.links
          /\ \A i \in DOMAIN widget.links :
                vb.links[i] = IF i = id THEN "none" ELSE widget.links[i]
      BY <1>5
    <2>2. QueueSound(b, R, {})
      BY <1>1, <1>5, <2>1, OtherFields
    <2>3. PageSound(b.w, R)
      BY <1>1, <1>5, <2>1 DEF PageSound, LinkTrue
    <2> QED BY <1>1, <1>5, <2>2, <2>3 DEF StateOK, Sound
  <1>8. ASSUME File(widget, id) # Gone PROVE StateOK(uploadMode, Retry(a, id))
    <2>1. DOMAIN va.links = DOMAIN widget.links
          /\ \A i \in DOMAIN widget.links :
                va.links[i] = IF i = id THEN "cancel" ELSE widget.links[i]
      BY <1>6
    <2>2. QueueSound(a, R, {})
      BY <1>1, <1>6, <2>1, OtherFields
    <2>3. Uploads(a.w, id)
      BY <1>2, <1>6, <1>8, <2>1 DEF Uploads, File, Listed
    <2>4. QueueSound(a, R \cup {id}, {})
      <3>1. (R \cup {id}) \cap ToSet(a.w.queue) = {}
        BY <1>4, <1>6, <2>2 DEF QueueSound
      <3> HIDE DEF R
      <3> QED BY <2>2, <2>3, <3>1 DEF QueueSound
    <2>5. a.w.progress = Len(a.w.queue) + 1
      BY <1>1, <1>6 DEF PageSound
    <2>6. \A i \in DOMAIN a.w.links : LinkTrue(a.w, R \cup {id}, i)
      BY <1>1, <1>6, <2>1 DEF PageSound, LinkTrue
    <2>7. Retry(a, id) = Upload(a, id)
      BY <1>4, <1>6 DEF Retry
    <2> HIDE DEF R
    <2>8. Sound(Upload(a, id), R) /\ Upload(a, id).w.stored = a.w.stored
      BY <1>4, <2>4, <2>5, <2>6, UploadSound
    <2> QED BY <1>1, <1>6, <2>7, <2>8 DEF StateOK, R
  <1> QED BY <1>3, <1>7, <1>8

LEMMA ClicksKeep ==
  ASSUME UploadInv, NEW id \in Files, Cancel(id) \/ ManualRetry(id)
  PROVE  UploadInv'
  <1>1. uploadMode' = uploadMode /\ (astray => astray')
    <2>1. CASE Cancel(id)
      <3>1. \E u : Becomes(u)
        BY <2>1, Zenon DEF Cancel
      <3>2. astray' = (astray \/ (id \notin ToSet(widget.queue) /\ widget.queue # <<>>))
        BY <2>1, Zenon DEF Cancel
      <3> QED BY <3>1, <3>2 DEF Becomes
    <2>2. CASE ManualRetry(id)
      <3>1. \E u : Becomes(u)
        BY <2>2, Zenon DEF ManualRetry
      <3>2. astray' = astray
        BY <2>2, Zenon DEF ManualRetry
      <3> QED BY <3>1, <3>2 DEF Becomes
    <2> QED BY <2>1, <2>2
  <1>2. uploadCount' \in CountType /\ astray' \in BOOLEAN
    <2>1. uploadCount \in CountType /\ astray \in BOOLEAN
      BY DEF UploadInv
    <2>2. CASE Cancel(id)
      <3>1. uploadCount' = uploadCount
        BY <2>2 DEF Cancel
      <3>2. astray' \in BOOLEAN
        BY <2>2 DEF Cancel
      <3> QED BY <2>1, <3>1, <3>2
    <2>3. CASE ManualRetry(id)
      <3>1. /\ uploadCount' = [uploadCount EXCEPT !.manual = @ + 1]
            /\ uploadCount.manual < MaxManual /\ astray' = astray
        BY <2>3 DEF ManualRetry
      <3> QED BY <2>1, <3>1, CountFacts
    <2> QED BY <2>2, <2>3
  <1>3. CASE astray'
    BY <1>1, <1>2, <1>3 DEF UploadInv
  <1>4. CASE ~astray'
    <2>1. PICK u : Becomes(u) /\ StateOK(uploadMode, u)
      BY <1>1, <1>4, CancelOK, ManualRetryOK
    <2> QED BY <1>2, <2>1, BecomesOK
  <1> QED BY <1>3, <1>4

LEMMA ResetKeeps ==
  ASSUME UploadInv, Reset
  PROVE  UploadInv'
  <1>1. /\ Becomes([w |-> Fresh, p |-> pending]) /\ astray' \in BOOLEAN
        /\ uploadCount' = [uploadCount EXCEPT !.resets = @ + 1]
        /\ uploadCount.resets < MaxResets
        /\ astray' \/ pending = EmptyBag
    BY DEF Reset
  <1>2. uploadCount' \in CountType
    BY <1>1, CountFacts DEF UploadInv
  <1>3. astray' \/ StateOK(uploadMode, [w |-> Fresh, p |-> pending])
    BY <1>1, FreshOK
  <1> QED BY <1>1, <1>2, <1>3, BecomesOK

LEMMA UploadInductive == UploadInv /\ [UploadNext]_uploadVars => UploadInv'
  <1> SUFFICES ASSUME UploadInv, [UploadNext]_uploadVars PROVE UploadInv'
    OBVIOUS
  <1>1. CASE Submit
    BY <1>1, SubmitKeeps
  <1>2. CASE UploadStored
    BY <1>2, UploadStoredKeeps
  <1>3. CASE Reset
    BY <1>3, ResetKeeps
  <1>4. CASE \E r \in Closures : LastByte(r)
    BY <1>4, LastByteKeeps
  <1>5. CASE \E r \in Closures :
               \/ TimerFires(r)
               \/ \E success, prevent \in BOOLEAN : Answer(r, success, prevent)
    BY <1>5, AnswersKeep
  <1>6. CASE \E id \in Files : Cancel(id) \/ ManualRetry(id)
    BY <1>6, ClicksKeep
  <1>7. CASE UNCHANGED uploadVars
    BY <1>7 DEF uploadVars, UploadInv, Now
  <1> QED BY <1>1, <1>2, <1>3, <1>4, <1>5, <1>6, <1>7 DEF UploadNext

LEMMA UploadInvariant == UploadSpec => []UploadInv
  <1> QED BY UploadInitInv, UploadInductive, PTL DEF UploadSpec

\* No connection is left idle or used twice, and what is sent is the file of its id:
\* for any numbers of files, connections, retries and resets, until the widget has
\* gone astray.
THEOREM ConnectionsUsedHolds == UploadSpec => []ConnectionsUsed
  <1>1. UploadInv => ConnectionsUsed
    <2> SUFFICES ASSUME UploadInv, ~astray PROVE ConnectionsUsed
      BY DEF ConnectionsUsed
    <2> DEFINE q == widget.queue
    <2>1. QueueSound(Now, ToSet(widget.stored), {}) /\ Now.w = widget /\ Now.p = pending
      BY NowOK
    <2>2. /\ q \in Seq(Nat) /\ IsInjective(q) /\ Simple(pending)
          /\ {r.id : r \in DOMAIN pending} = First(q) \ {}
          /\ \A r \in DOMAIN pending : Closure(widget, r)
          /\ \A r1, r2 \in DOMAIN pending : r1.id = r2.id => r1 = r2
          /\ \A id \in ToSet(q) : Uploads(widget, id)
          /\ widget.files \in Seq(Nat)
      BY <2>1 DEF QueueSound
    <2>3. First(q) = {q[i] : i \in 1..Min({Len(q), MaxConnections})}
          /\ First(q) \subseteq ToSet(q)
      BY <2>2, FirstFacts
    <2>4. Closures = DOMAIN pending
      BY DEF Closures, BagToSet
    <2>5. ASSUME NEW r \in Closures
          PROVE  pending[r] = 1 /\ PendingFor(r.id) = {r} /\ File(widget, r.id) = r.file
      <3>1. pending[r] = 1
        BY <2>2, <2>4, BagFacts
      <3>2. PendingFor(r.id) = {r}
        BY <2>2, <2>4 DEF PendingFor
      <3>3. r.id \in First(q)
        BY <2>2, <2>4
      <3>4. r.id \in DOMAIN widget.files
        BY <2>2, <2>3, <3>3, UploadsFacts
      <3>5. File(widget, r.id) = r.file
        BY <2>2, <2>4, <3>4 DEF File, Closure
      <3> QED BY <3>1, <3>2, <3>5
    <2>6. {r.id : r \in Closures} = First(q)
      BY <2>2, <2>4
    <2> HIDE DEF q
    <2> QED BY <2>2, <2>3, <2>5, <2>6 DEF ConnectionsUsed, q
  <1> QED BY <1>1, UploadInvariant, PTL

\* The page asks before it is left exactly while files are queued, and its links are
\* shown for files for which their handlers do what they say.
THEOREM PageTrueHolds == UploadSpec => []PageTrue
  <1>1. UploadInv => PageTrue
    <2> SUFFICES ASSUME UploadInv, ~astray PROVE LeaveAsks /\ LinksTrue
      BY DEF PageTrue
    <2>1. PageSound(widget, ToSet(widget.stored))
      BY NowOK
    <2> QED BY <2>1 DEF PageSound, LinkTrue, LeaveAsks, LinksTrue, Queued
  <1> QED BY <1>1, UploadInvariant, PTL
=============================================================================
