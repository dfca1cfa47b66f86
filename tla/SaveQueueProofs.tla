-------------------------- MODULE SaveQueueProofs --------------------------
(***************************************************************************)
(* The safety properties of SaveQueue for any number of posts, workers,    *)
(* errors and any capacity of the channel.  A worker has a post exactly    *)
(* while it saves (Handed), so that receiving never overwrites one; a post *)
(* is in one place at a time unless a commit was misreported (Single); one *)
(* worker at most is at work, for it needs the token (OneWorker); and the  *)
(* table, the worker's hand and the channel, read in this order, keep the  *)
(* order of the posts that were never put back (InOrder).                  *)
(***************************************************************************)
EXTENDS SaveQueue, SequenceTheorems, TLAPS

Handed == \A w \in Workers : pc[w] = "saving" <=> hand[w] # None

InHand(t) == \E w \in Workers : hand[w] = t

Once(s, t) == \A i, j \in DOMAIN s : s[i] = t /\ s[j] = t => i = j

\* No post is in two places, or in a place before it was sent.
Single ==
  \A t \in Tasks :
    /\ t \notin doubtful =>
         /\ Once(queue, t) /\ Once(rows, t)
         /\ t \in ToSet(queue) => t \notin parked /\ ~InHand(t) /\ t \notin ToSet(rows)
         /\ t \in parked => ~InHand(t) /\ t \notin ToSet(rows)
         /\ InHand(t) => t \notin ToSet(rows)
         /\ \A w, v \in Workers : hand[w] = t /\ hand[v] = t => w = v
    /\ t \in ToSet(queue) \cup parked \cup ToSet(rows) => t \in ToSet(sent)
    /\ InHand(t) => t \in ToSet(sent)

\* Whoever is at work has the token.
OneWorker ==
  \A w, v \in Workers : pc[w] \notin {"off", "closing"} =>
    /\ token = 1
    /\ pc[v] \notin {"off", "closing"} => v = w

PutBack == parked \subseteq retried /\ doubtful \subseteq retried

\* A post that was never put back comes after those of its kind sent earlier.
InOrder ==
  \A t, u \in Tasks \ retried : Before(sent, t, u) =>
    /\ u \in ToSet(rows) => Before(rows, t, u)
    /\ InHand(u) => t \in ToSet(rows)
    /\ u \in ToSet(queue) => t \in ToSet(rows) \/ InHand(t) \/ Before(queue, t, u)

QueueInv == /\ TypeOK /\ Handed /\ Single /\ OneWorker /\ PutBack /\ NoSilentLoss /\ InOrder
-----------------------------------------------------------------------------
(* Sequences of posts *)

LEMMA Appended ==
  ASSUME NEW s \in Seq(Tasks), NEW e \in Tasks
  PROVE  /\ Append(s, e) \in Seq(Tasks) /\ Len(Append(s, e)) = Len(s) + 1
         /\ ToSet(Append(s, e)) = ToSet(s) \cup {e}
         /\ \A t : Once(s, t) /\ (t # e \/ t \notin ToSet(s)) => Once(Append(s, e), t)
         /\ \A t, u : Before(s, t, u) => Before(Append(s, e), t, u)
         /\ \A t \in ToSet(s) : Before(Append(s, e), t, e)
         /\ \A t, u : Before(Append(s, e), t, u) => Before(s, t, u) \/ (u = e /\ t \in ToSet(s))
  <1>1. PICK n \in Nat : n = Len(s)
    OBVIOUS
  <1>2. PICK a \in Seq(Tasks) : a = Append(s, e)
    BY AppendProperties
  <1>3. /\ Len(a) = n + 1 /\ DOMAIN s = 1..n /\ DOMAIN a = 1..(n + 1)
        /\ \A i \in 1..n : a[i] = s[i]
        /\ a[n + 1] = e
        /\ \A i \in 1..(n + 1) : i \in 1..n \/ i = n + 1
        /\ n + 1 \notin 1..n /\ \A i \in 1..n : i \in 1..(n + 1) /\ i < n + 1
    BY <1>1, <1>2, AppendProperties
  <1>4. ToSet(a) = ToSet(s) \cup {e}
    BY <1>3 DEF ToSet
  <1>5. \A t : Once(s, t) /\ (t # e \/ t \notin ToSet(s)) => Once(a, t)
    BY <1>3 DEF ToSet, Once
  <1>6. \A t, u : Before(s, t, u) => Before(a, t, u)
    BY <1>3 DEF Before
  <1>7. \A t \in ToSet(s) : Before(a, t, e)
    BY <1>3 DEF ToSet, Before
  <1>8. ASSUME NEW t, NEW u, Before(a, t, u)
        PROVE  Before(s, t, u) \/ (u = e /\ t \in ToSet(s))
    <2>1. PICK i, j \in 1..(n + 1) : i < j /\ a[i] = t /\ a[j] = u
      BY <1>3, <1>8 DEF Before
    <2>2. i \in 1..n
      BY <2>1
    <2>3. QED
      BY <1>3, <2>1, <2>2 DEF Before, ToSet
  <1>9. QED
    BY <1>1, <1>2, <1>3, <1>4, <1>5, <1>6, <1>7, <1>8

LEMMA Beheaded ==
  ASSUME NEW s \in Seq(Tasks), s # <<>>
  PROVE  /\ Head(s) \in Tasks /\ Tail(s) \in Seq(Tasks) /\ Len(Tail(s)) <= Len(s)
         /\ ToSet(s) = {Head(s)} \cup ToSet(Tail(s))
         /\ \A t : Once(s, t) => Once(Tail(s), t)
         /\ Once(s, Head(s)) => Head(s) \notin ToSet(Tail(s))
         /\ \A t, u : Before(s, t, u) => t = Head(s) \/ Before(Tail(s), t, u)
         /\ Once(s, Head(s)) => \A t : ~Before(s, t, Head(s))
  <1>1. PICK n \in Nat : n + 1 = Len(s)
    <2>1. Len(s) \in Nat /\ Len(s) # 0
      OBVIOUS
    <2>2. Len(s) - 1 \in Nat /\ (Len(s) - 1) + 1 = Len(s)
      BY <2>1
    <2>3. QED
      BY <2>2
  <1> DEFINE b == Tail(s)
             h == Head(s)
  <1>2. b \in Seq(Tasks)
    BY HeadTailProperties
  <1>3. h \in Tasks
    BY HeadTailProperties
  <1>4. /\ Len(b) = n /\ DOMAIN b = 1..n /\ DOMAIN s = 1..(n + 1)
        /\ \A i \in 1..n : b[i] = s[i + 1]
        /\ h = s[1]
    BY <1>1, <1>2, <1>3, HeadTailProperties
  <1> HIDE DEF b, h
  <1>5. /\ 1 \in 1..(n + 1)
        /\ \A i \in 1..n : i + 1 \in 1..(n + 1) /\ i + 1 # 1
        /\ \A i \in 1..(n + 1) : i # 1 => \E k \in 1..n : k + 1 = i
    <2>1. ASSUME NEW i \in 1..(n + 1), i # 1 PROVE i - 1 \in 1..n /\ (i - 1) + 1 = i
      BY <2>1
    <2>2. QED
      BY <2>1
  <1>6. ToSet(s) = {h} \cup ToSet(b)
    <2>1. ASSUME NEW i \in 1..n PROVE b[i] \in ToSet(s)
      <3>1. i + 1 \in DOMAIN s /\ b[i] = s[i + 1]
        BY <1>4, <1>5
      <3>2. QED
        BY <3>1 DEF ToSet
    <2>2. h \in ToSet(s)
      BY <1>4, <1>5 DEF ToSet
    <2>3. ASSUME NEW i \in 1..(n + 1), i # 1
          PROVE  s[i] \in ToSet(b)
      <3>1. PICK k \in 1..n : k + 1 = i
        BY <1>5, <2>3
      <3>2. s[i] = b[k]
        BY <1>4, <3>1
      <3>3. QED
        BY <1>4, <3>2 DEF ToSet
    <2>4. ToSet(b) \subseteq ToSet(s)
      BY <1>4, <2>1 DEF ToSet
    <2>5. ToSet(s) \subseteq {h} \cup ToSet(b)
      BY <1>4, <2>3 DEF ToSet
    <2>6. QED
      BY <2>2, <2>4, <2>5
  <1>7. ASSUME NEW t, Once(s, t) PROVE Once(b, t)
    <2>1. ASSUME NEW i \in 1..n, NEW j \in 1..n, b[i] = t, b[j] = t PROVE i = j
      <3>1. /\ i + 1 \in DOMAIN s /\ s[i + 1] = t
            /\ j + 1 \in DOMAIN s /\ s[j + 1] = t
        BY <1>4, <1>5, <2>1
      <3>2. i + 1 = j + 1
        BY <1>7, <3>1 DEF Once
      <3>3. QED
        BY <3>2
    <2>2. QED
      BY <1>4, <2>1 DEF Once
  <1>8. ASSUME Once(s, h) PROVE h \notin ToSet(b)
    <2>1. ASSUME NEW i \in 1..n, b[i] = h PROVE FALSE
      <3>1. i + 1 \in DOMAIN s /\ s[i + 1] = h /\ 1 \in DOMAIN s /\ s[1] = h /\ i + 1 # 1
        BY <1>4, <1>5, <2>1
      <3>2. QED
        BY <1>8, <3>1 DEF Once
    <2>2. QED
      BY <1>4, <2>1 DEF ToSet
  <1>9. ASSUME NEW t, NEW u, Before(s, t, u), t # h PROVE Before(b, t, u)
    <2>1. PICK i, j \in 1..(n + 1) : i < j /\ s[i] = t /\ s[j] = u
      BY <1>4, <1>9 DEF Before
    <2>2. i # 1 /\ j # 1
      BY <1>4, <1>9, <2>1
    <2>3. PICK k, l \in 1..n : k + 1 = i /\ l + 1 = j
      BY <1>5, <2>2
    <2>4. k < l
      BY <2>1, <2>3
    <2>5. b[k] = t /\ b[l] = u
      BY <1>4, <2>1, <2>3
    <2>6. QED
      BY <1>4, <2>4, <2>5 DEF Before
  <1>10. ASSUME Once(s, h), NEW t, Before(s, t, h) PROVE FALSE
    <2>1. PICK i, j \in 1..(n + 1) : i < j /\ s[i] = t /\ s[j] = h
      BY <1>4, <1>10 DEF Before
    <2>2. j = 1
      BY <1>4, <1>5, <1>10, <2>1 DEF Once
    <2>3. QED
      BY <2>1, <2>2
  <1>11. Len(b) <= Len(s)
    BY <1>1, <1>4
  <1>12. \A t, u : Before(s, t, u) => t = h \/ Before(b, t, u)
    BY <1>9
  <1>13. (\A t : Once(s, t) => Once(b, t)) /\ (Once(s, h) => \A t : ~Before(s, t, h))
    BY <1>7, <1>10
  <1>14. QED
    BY <1>2, <1>3, <1>6, <1>8, <1>11, <1>12, <1>13 DEF b, h
-----------------------------------------------------------------------------
(* The steps *)

LEMMA Typed == ASSUME QueueInv
               PROVE  /\ sent \in Seq(Tasks) /\ queue \in Seq(Tasks) /\ rows \in Seq(Tasks)
                      /\ parked \subseteq Tasks /\ retried \subseteq Tasks /\ doubtful \subseteq Tasks
                      /\ pc \in [Workers -> Stages] /\ hand \in [Workers -> Tasks \cup {None}]
                      /\ None \notin Tasks /\ Len(queue) \in Nat /\ Capacity \in Nat
                      /\ token \in 0..1 /\ errors \in Nat
  BY SaveQueueAssumption DEF QueueInv, TypeOK

LEMMA SubmitStep == ASSUME QueueInv, NEW e \in Tasks, Submit(e) PROVE QueueInv'
  <1>1. /\ e \notin ToSet(sent) /\ Len(queue) < Capacity
        /\ sent' = Append(sent, e) /\ queue' = Append(queue, e)
        /\ UNCHANGED <<parked, token, pc, hand, dog, rows, retried, doubtful, errors>>
    BY DEF Submit, worker
  <1>2. /\ sent' \in Seq(Tasks) /\ queue' \in Seq(Tasks) /\ Len(queue') = Len(queue) + 1
        /\ ToSet(sent') = ToSet(sent) \cup {e} /\ ToSet(queue') = ToSet(queue) \cup {e}
        /\ \A t : Once(queue, t) /\ (t # e \/ t \notin ToSet(queue)) => Once(queue', t)
        /\ \A t, u : Before(queue, t, u) => Before(queue', t, u)
        /\ \A t \in ToSet(queue) : Before(queue', t, e)
        /\ \A t, u : Before(sent', t, u) => Before(sent, t, u) \/ (u = e /\ t \in ToSet(sent))
    BY <1>1, Typed, Appended
  <1>3. e \notin ToSet(queue) \cup parked \cup ToSet(rows) /\ ~InHand(e)
    BY <1>1 DEF QueueInv, Single
  <1>4. TypeOK'
    <2>1. Len(queue') <= Capacity
      BY <1>1, <1>2, Typed
    <2>2. QED
      BY <1>1, <1>2, <2>1 DEF QueueInv, TypeOK
  <1>5. Handed' /\ OneWorker' /\ PutBack'
    BY <1>1 DEF QueueInv, Handed, OneWorker, PutBack
  <1>6. \A t : InHand(t)' <=> InHand(t)
    BY <1>1 DEF InHand
  <1>7. Single'
    BY <1>1, <1>2, <1>3, <1>6 DEF QueueInv, Single
  <1>8. NoSilentLoss'
    BY <1>1, <1>2 DEF QueueInv, NoSilentLoss, Waiting
  <1>9. InOrder'
    <2> SUFFICES ASSUME NEW t \in Tasks \ retried, NEW u \in Tasks \ retried, Before(sent', t, u)
                 PROVE  /\ u \in ToSet(rows) => Before(rows, t, u)
                        /\ InHand(u) => t \in ToSet(rows)
                        /\ u \in ToSet(queue') => t \in ToSet(rows) \/ InHand(t) \/ Before(queue', t, u)
      BY <1>1, <1>6 DEF InOrder
    <2>1. CASE Before(sent, t, u) /\ u # e
      BY <1>2, <2>1 DEF QueueInv, InOrder
    <2>2. CASE u = e
      <3>1. t \in ToSet(sent)
        <4>1. ~Before(sent, t, e)
          BY <1>1 DEF Before, ToSet
        <4>2. QED
          BY <1>2, <2>2, <4>1
      <3>2. t \in ToSet(rows) \/ t \in ToSet(queue) \/ InHand(t)
        BY <3>1 DEF QueueInv, NoSilentLoss, Waiting, PutBack, InHand
      <3>3. QED
        BY <1>2, <1>3, <2>2, <3>2
    <2>3. QED
      BY <1>2, <2>1, <2>2
  <1>10. QED
    BY <1>4, <1>5, <1>7, <1>8, <1>9 DEF QueueInv

\* A worker that moves on, with or without its post.
LEMMA Going ==
  ASSUME QueueInv, NEW w \in Workers, NEW from, NEW to, Goto(w, from, to), to \in Stages
  PROVE  /\ pc[w] = from /\ pc'[w] = to /\ pc' \in [Workers -> Stages]
         /\ \A v \in Workers \ {w} : pc'[v] = pc[v]
  BY Typed DEF Goto

LEMMA ReceiveStep == ASSUME QueueInv, NEW w \in Workers, Receive(w) PROVE QueueInv'
  <1>1. /\ queue # <<>> /\ queue' = Tail(queue)
        /\ UNCHANGED <<sent, parked, token, dog, rows, retried, doubtful, errors>>
    BY DEF Receive
  <1>2. /\ pc[w] = "selecting" /\ pc'[w] = "saving" /\ pc' \in [Workers -> Stages]
        /\ \A v \in Workers \ {w} : pc'[v] = pc[v]
    BY Going DEF Receive, Stages
  <1>3. PICK h \in Tasks : h = Head(queue)
    BY <1>1, Typed, Beheaded
  <1>4. /\ queue' \in Seq(Tasks) /\ Len(queue') <= Len(queue)
        /\ ToSet(queue) = {h} \cup ToSet(queue')
        /\ \A t : Once(queue, t) => Once(queue', t)
        /\ Once(queue, h) => h \notin ToSet(queue')
        /\ \A t, u : Before(queue, t, u) => t = h \/ Before(queue', t, u)
        /\ Once(queue, h) => \A t : ~Before(queue, t, h)
    BY <1>1, <1>3, Typed, Beheaded
  <1>5. /\ hand' \in [Workers -> Tasks \cup {None}] /\ hand'[w] = h /\ hand[w] = None
        /\ \A v \in Workers \ {w} : hand'[v] = hand[v]
    BY <1>2, <1>3, Typed DEF Receive, QueueInv, Handed
  <1>6. \A t \in Tasks : InHand(t)' <=> InHand(t) \/ t = h
    BY <1>5, Typed DEF InHand
  <1>7. TypeOK'
    <2>1. Len(queue') <= Capacity
      <3>1. Len(queue') \in Nat /\ Len(queue) <= Capacity
        BY <1>4 DEF QueueInv, TypeOK
      <3>2. QED
        BY <1>4, <3>1, Typed
    <2>2. QED
      BY <1>1, <1>2, <1>4, <1>5, <2>1 DEF QueueInv, TypeOK
  <1>8. Handed' /\ OneWorker' /\ PutBack'
    BY <1>1, <1>2, <1>5, Typed DEF QueueInv, Handed, OneWorker, PutBack
  <1>9. Single'
    <2> SUFFICES ASSUME NEW t \in Tasks
                 PROVE  /\ t \notin doubtful =>
                             /\ Once(queue', t) /\ Once(rows, t)
                             /\ t \in ToSet(queue') => t \notin parked /\ ~InHand(t)' /\ t \notin ToSet(rows)
                             /\ t \in parked => ~InHand(t)' /\ t \notin ToSet(rows)
                             /\ InHand(t)' => t \notin ToSet(rows)
                             /\ \A v, x \in Workers : hand'[v] = t /\ hand'[x] = t => v = x
                        /\ t \in ToSet(queue') \cup parked \cup ToSet(rows) => t \in ToSet(sent)
                        /\ InHand(t)' => t \in ToSet(sent)
      BY <1>1 DEF Single
    <2>1. CASE t = h
      <3>1. t \notin doubtful => Once(queue, t) /\ ~InHand(t)
        BY <1>4, <2>1 DEF QueueInv, Single
      <3>2. t \notin doubtful => \A v, x \in Workers : hand'[v] = t /\ hand'[x] = t => v = x
        BY <1>5, <3>1 DEF InHand
      <3>3. QED
        BY <1>4, <2>1, <3>1, <3>2 DEF QueueInv, Single
    <2>2. CASE t # h
      <3>1. \A v \in Workers : hand'[v] = t => hand[v] = t
        BY <1>5, <2>2
      <3>2. QED
        BY <1>4, <1>6, <2>2, <3>1 DEF QueueInv, Single
    <2>3. QED
      BY <2>1, <2>2
  <1>10. NoSilentLoss'
    <2>1. \A t \in Tasks : Waiting(t) <=> t \in ToSet(queue) \cup parked \/ InHand(t)
      BY DEF Waiting, InHand
    <2>2. \A t \in Tasks : Waiting(t)' <=> t \in ToSet(queue') \cup parked' \/ InHand(t)'
      BY DEF Waiting, InHand
    <2>3. ToSet(sent) \subseteq Tasks
      BY Typed DEF ToSet
    <2>4. QED
      BY <1>1, <1>4, <1>6, <2>1, <2>2, <2>3 DEF QueueInv, NoSilentLoss
  <1>11. InOrder'
    <2>1. \A t \in Tasks : ~InHand(t)
      <3>1. \A v \in Workers \ {w} : pc[v] # "saving"
        BY <1>2 DEF QueueInv, OneWorker
      <3>2. QED
        BY <1>2, <3>1, Typed DEF InHand, QueueInv, Handed
    <2>2. h \notin retried => Once(queue, h) /\ h \notin ToSet(queue') /\ h \notin ToSet(rows)
      BY <1>4 DEF QueueInv, Single, PutBack
    <2> SUFFICES ASSUME NEW t \in Tasks \ retried, NEW u \in Tasks \ retried, Before(sent, t, u)
                 PROVE  /\ u \in ToSet(rows) => Before(rows, t, u)
                        /\ InHand(u)' => t \in ToSet(rows)
                        /\ u \in ToSet(queue') => t \in ToSet(rows) \/ InHand(t)' \/ Before(queue', t, u)
      BY <1>1 DEF InOrder
    <2>3. /\ u \in ToSet(rows) => Before(rows, t, u)
          /\ u \in ToSet(queue) => t \in ToSet(rows) \/ Before(queue, t, u)
      BY <2>1 DEF QueueInv, InOrder
    <2>4. CASE u = h
      BY <1>4, <2>2, <2>3, <2>4
    <2>5. CASE u # h
      BY <1>4, <1>6, <2>1, <2>3, <2>5
    <2>6. QED
      BY <2>4, <2>5
  <1>12. QED
    BY <1>7, <1>8, <1>9, <1>10, <1>11 DEF QueueInv

LEMMA SaveStep == ASSUME QueueInv, NEW w \in Workers, Save(w) PROVE QueueInv'
  <1>1. UNCHANGED <<sent, queue, parked, token, dog, retried, doubtful, errors>>
    BY DEF Save, channel
  <1>2. /\ pc[w] = "saving" /\ pc'[w] = "selecting" /\ pc' \in [Workers -> Stages]
        /\ \A v \in Workers \ {w} : pc'[v] = pc[v]
    BY Going DEF Save, Stages
  <1>3. PICK e \in Tasks : e = hand[w]
    BY <1>2, Typed DEF QueueInv, Handed
  <1>4. /\ rows' \in Seq(Tasks) /\ ToSet(rows') = ToSet(rows) \cup {e}
        /\ \A t : Once(rows, t) /\ (t # e \/ t \notin ToSet(rows)) => Once(rows', t)
        /\ \A t, u : Before(rows, t, u) => Before(rows', t, u)
        /\ \A t \in ToSet(rows) : Before(rows', t, e)
    BY <1>3, Typed, Appended DEF Save
  <1>5. /\ hand' \in [Workers -> Tasks \cup {None}] /\ hand'[w] = None
        /\ \A v \in Workers \ {w} : hand'[v] = hand[v]
    BY Typed DEF Save
  <1>6. \A t \in Tasks : /\ InHand(t)' => InHand(t)
                         /\ InHand(t) => InHand(t)' \/ t = e
    BY <1>3, <1>5, Typed DEF InHand
  <1>7. InHand(e)
    BY <1>3 DEF InHand
  <1>8. e \notin doubtful => ~InHand(e)'
    BY <1>3, <1>5, Typed DEF InHand, QueueInv, Single
  <1>9. TypeOK'
    BY <1>1, <1>2, <1>4, <1>5 DEF QueueInv, TypeOK
  <1>10. Handed' /\ OneWorker' /\ PutBack'
    BY <1>1, <1>2, <1>5, Typed DEF QueueInv, Handed, OneWorker, PutBack
  <1>11. Single'
    <2> SUFFICES ASSUME NEW t \in Tasks
                 PROVE  /\ t \notin doubtful =>
                             /\ Once(queue, t) /\ Once(rows', t)
                             /\ t \in ToSet(queue) => t \notin parked /\ ~InHand(t)' /\ t \notin ToSet(rows')
                             /\ t \in parked => ~InHand(t)' /\ t \notin ToSet(rows')
                             /\ InHand(t)' => t \notin ToSet(rows')
                             /\ \A v, x \in Workers : hand'[v] = t /\ hand'[x] = t => v = x
                        /\ t \in ToSet(queue) \cup parked \cup ToSet(rows') => t \in ToSet(sent)
                        /\ InHand(t)' => t \in ToSet(sent)
      BY <1>1 DEF Single
    <2>1. \A v \in Workers : hand'[v] = t => hand[v] = t
      BY <1>5, Typed
    <2>2. CASE t = e
      BY <1>4, <1>7, <1>8, <2>1, <2>2 DEF QueueInv, Single
    <2>3. CASE t # e
      BY <1>4, <1>6, <2>1, <2>3 DEF QueueInv, Single
    <2>4. QED
      BY <2>2, <2>3
  <1>12. NoSilentLoss'
    <2>1. \A t \in Tasks : Waiting(t) <=> t \in ToSet(queue) \cup parked \/ InHand(t)
      BY DEF Waiting, InHand
    <2>2. \A t \in Tasks : Waiting(t)' <=> t \in ToSet(queue') \cup parked' \/ InHand(t)'
      BY DEF Waiting, InHand
    <2>3. ToSet(sent) \subseteq Tasks
      BY Typed DEF ToSet
    <2>4. QED
      BY <1>1, <1>4, <1>6, <2>1, <2>2, <2>3 DEF QueueInv, NoSilentLoss
  <1>13. InOrder'
    <2> SUFFICES ASSUME NEW t \in Tasks \ retried, NEW u \in Tasks \ retried, Before(sent, t, u)
                 PROVE  /\ u \in ToSet(rows') => Before(rows', t, u)
                        /\ InHand(u)' => t \in ToSet(rows')
                        /\ u \in ToSet(queue) => t \in ToSet(rows') \/ InHand(t)' \/ Before(queue, t, u)
      BY <1>1 DEF InOrder
    <2>1. /\ u \in ToSet(rows) => Before(rows, t, u)
          /\ InHand(u) => t \in ToSet(rows)
          /\ u \in ToSet(queue) => t \in ToSet(rows) \/ InHand(t) \/ Before(queue, t, u)
      BY DEF QueueInv, InOrder
    <2>2. QED
      BY <1>4, <1>6, <1>7, <2>1
  <1>14. QED
    BY <1>9, <1>10, <1>11, <1>12, <1>13 DEF QueueInv

\* What could not be saved is put back, at the end of the channel or with a
\* goroutine that waits for room.
LEMMA RequeueStep ==
  ASSUME QueueInv, NEW w \in Workers, SaveBusy(w) \/ SaveFails(w)
  PROVE  QueueInv'
  <1>1. UNCHANGED <<sent, token, dog>> /\ errors' \in 0..MaxErrors /\ Requeue(hand[w])
    BY SaveQueueAssumption DEF SaveBusy, SaveFails, AnError, Requeue, QueueInv, TypeOK
  <1>2. PICK to \in {"selecting", "leaving"} : Goto(w, "saving", to)
    BY DEF SaveBusy, SaveFails
  <1>3. /\ pc[w] = "saving" /\ pc'[w] = to /\ pc' \in [Workers -> Stages]
        /\ \A v \in Workers \ {w} : pc'[v] = pc[v]
    BY <1>2, Going DEF Stages
  <1>4. PICK e \in Tasks : e = hand[w]
    BY <1>3, Typed DEF QueueInv, Handed
  <1>5. /\ hand' \in [Workers -> Tasks \cup {None}] /\ hand'[w] = None
        /\ \A v \in Workers \ {w} : hand'[v] = hand[v]
    BY Typed DEF SaveBusy, SaveFails
  <1>6. \A t \in Tasks : /\ InHand(t)' => InHand(t)
                         /\ InHand(t) => InHand(t)' \/ t = e
    BY <1>4, <1>5, Typed DEF InHand
  <1>7. InHand(e)
    BY <1>4 DEF InHand
  <1>8. /\ retried' = retried \cup {e}
        /\ \/ queue' = Append(queue, e) /\ parked' = parked /\ Len(queue) < Capacity
           \/ parked' = parked \cup {e} /\ queue' = queue
    BY <1>1, <1>4 DEF Requeue
  <1>9. \/ UNCHANGED <<rows, doubtful>>
        \/ rows' = Append(rows, e) /\ doubtful' = doubtful \cup {e}
    BY <1>4 DEF SaveBusy, SaveFails
  <1>10. /\ queue' \in Seq(Tasks) /\ Len(queue') <= Capacity
         /\ ToSet(queue) \subseteq ToSet(queue') /\ ToSet(queue') \subseteq ToSet(queue) \cup {e}
         /\ parked \subseteq parked' /\ parked' \subseteq parked \cup {e}
         /\ e \in ToSet(queue') \cup parked'
         /\ e \in ToSet(queue') /\ e \in parked' => e \in ToSet(queue) \cup parked
         /\ \A t : Once(queue, t) /\ (t # e \/ t \notin ToSet(queue)) => Once(queue', t)
         /\ \A t, u : Before(queue, t, u) => Before(queue', t, u)
    <2>1. Len(queue) \in Nat /\ Len(queue) <= Capacity
      BY DEF QueueInv, TypeOK
    <2>2. /\ queue \in Seq(Tasks)
          /\ Append(queue, e) \in Seq(Tasks) /\ Len(Append(queue, e)) = Len(queue) + 1
          /\ ToSet(Append(queue, e)) = ToSet(queue) \cup {e}
          /\ \A t : Once(queue, t) /\ (t # e \/ t \notin ToSet(queue)) => Once(Append(queue, e), t)
          /\ \A t, u : Before(queue, t, u) => Before(Append(queue, e), t, u)
      BY Typed, Appended
    <2>3. CASE queue' = Append(queue, e) /\ parked' = parked /\ Len(queue) < Capacity
      <3>1. Len(queue') <= Capacity
        BY <2>1, <2>2, <2>3, Typed
      <3>2. QED
        BY <2>2, <2>3, <3>1
    <2>4. CASE parked' = parked \cup {e} /\ queue' = queue
      BY <2>1, <2>2, <2>4
    <2>5. QED
      BY <1>8, <2>3, <2>4
  <1>11. /\ rows' \in Seq(Tasks)
         /\ ToSet(rows) \subseteq ToSet(rows') /\ ToSet(rows') \subseteq ToSet(rows) \cup {e}
         /\ e \notin doubtful' => rows' = rows
         /\ \A t : Once(rows, t) /\ t # e => Once(rows', t)
         /\ \A t, u : Before(rows, t, u) => Before(rows', t, u)
         /\ doubtful \subseteq doubtful' /\ doubtful' \subseteq doubtful \cup {e}
    <2>1. /\ rows \in Seq(Tasks) /\ Append(rows, e) \in Seq(Tasks)
          /\ ToSet(Append(rows, e)) = ToSet(rows) \cup {e}
          /\ \A t : Once(rows, t) /\ t # e => Once(Append(rows, e), t)
          /\ \A t, u : Before(rows, t, u) => Before(Append(rows, e), t, u)
      BY Typed, Appended
    <2>2. QED
      BY <1>9, <2>1
  <1>12. TypeOK'
    BY <1>1, <1>3, <1>5, <1>8, <1>10, <1>11, Typed DEF QueueInv, TypeOK
  <1>13. Handed' /\ OneWorker' /\ PutBack'
    BY <1>1, <1>3, <1>5, <1>8, <1>10, <1>11, Typed DEF QueueInv, Handed, OneWorker, PutBack
  <1>14. Single'
    <2> SUFFICES ASSUME NEW t \in Tasks
                 PROVE  /\ t \notin doubtful' =>
                             /\ Once(queue', t) /\ Once(rows', t)
                             /\ t \in ToSet(queue') => t \notin parked' /\ ~InHand(t)' /\ t \notin ToSet(rows')
                             /\ t \in parked' => ~InHand(t)' /\ t \notin ToSet(rows')
                             /\ InHand(t)' => t \notin ToSet(rows')
                             /\ \A v, x \in Workers : hand'[v] = t /\ hand'[x] = t => v = x
                        /\ t \in ToSet(queue') \cup parked' \cup ToSet(rows') => t \in ToSet(sent)
                        /\ InHand(t)' => t \in ToSet(sent)
      BY <1>1 DEF Single
    <2>1. \A v \in Workers : hand'[v] = t => hand[v] = t
      BY <1>5, Typed
    <2>2. CASE t = e
      <3>1. t \in ToSet(sent)
        BY <1>7, <2>2 DEF QueueInv, Single
      <3>2. ASSUME t \notin doubtful'
            PROVE  /\ t \notin ToSet(queue) \cup parked \cup ToSet(rows) /\ ~InHand(t)'
                   /\ Once(queue, t) /\ Once(rows, t) /\ rows' = rows
        <4>1. t \notin doubtful /\ rows' = rows
          BY <1>11, <2>2, <3>2
        <4>2. ~InHand(t)'
          BY <1>4, <1>5, <2>2, <4>1, Typed DEF InHand, QueueInv, Single
        <4>3. QED
          BY <1>7, <2>2, <4>1, <4>2 DEF QueueInv, Single
      <3>3. QED
        BY <1>10, <2>1, <2>2, <3>1, <3>2 DEF InHand
    <2>3. CASE t # e
      BY <1>6, <1>10, <1>11, <2>1, <2>3 DEF QueueInv, Single
    <2>4. QED
      BY <2>2, <2>3
  <1>15. NoSilentLoss'
    <2>1. \A t \in Tasks : Waiting(t) <=> t \in ToSet(queue) \cup parked \/ InHand(t)
      BY DEF Waiting, InHand
    <2>2. \A t \in Tasks : Waiting(t)' <=> t \in ToSet(queue') \cup parked' \/ InHand(t)'
      BY DEF Waiting, InHand
    <2>3. ToSet(sent) \subseteq Tasks
      BY Typed DEF ToSet
    <2>4. QED
      BY <1>1, <1>6, <1>10, <1>11, <2>1, <2>2, <2>3 DEF QueueInv, NoSilentLoss
  <1>16. InOrder'
    <2> SUFFICES ASSUME NEW t \in Tasks \ retried', NEW u \in Tasks \ retried', Before(sent, t, u)
                 PROVE  /\ u \in ToSet(rows') => Before(rows', t, u)
                        /\ InHand(u)' => t \in ToSet(rows')
                        /\ u \in ToSet(queue') => t \in ToSet(rows') \/ InHand(t)' \/ Before(queue', t, u)
      BY <1>1 DEF InOrder
    <2>1. t # e /\ u # e /\ t \in Tasks \ retried /\ u \in Tasks \ retried
      BY <1>8
    <2>2. /\ u \in ToSet(rows) => Before(rows, t, u)
          /\ InHand(u) => t \in ToSet(rows)
          /\ u \in ToSet(queue) => t \in ToSet(rows) \/ InHand(t) \/ Before(queue, t, u)
      BY <2>1 DEF QueueInv, InOrder
    <2>3. QED
      BY <1>6, <1>10, <1>11, <2>1, <2>2
  <1>17. QED
    BY <1>12, <1>13, <1>14, <1>15, <1>16 DEF QueueInv

LEMMA ResendStep == ASSUME QueueInv, NEW e \in Tasks, Resend(e) PROVE QueueInv'
  <1>1. /\ e \in parked /\ Len(queue) < Capacity
        /\ queue' = Append(queue, e) /\ parked' = parked \ {e}
        /\ UNCHANGED <<sent, token, pc, hand, dog, rows, retried, doubtful, errors>>
    BY DEF Resend, worker
  <1>2. /\ queue' \in Seq(Tasks) /\ Len(queue') = Len(queue) + 1
        /\ ToSet(queue') = ToSet(queue) \cup {e}
        /\ \A t : Once(queue, t) /\ (t # e \/ t \notin ToSet(queue)) => Once(queue', t)
        /\ \A t, u : Before(queue, t, u) => Before(queue', t, u)
    BY <1>1, Typed, Appended
  <1>3. TypeOK'
    <2>1. Len(queue') <= Capacity
      BY <1>1, <1>2, Typed
    <2>2. QED
      BY <1>1, <1>2, <2>1 DEF QueueInv, TypeOK
  <1>4. Handed' /\ OneWorker' /\ PutBack'
    BY <1>1 DEF QueueInv, Handed, OneWorker, PutBack
  <1>5. \A t : InHand(t)' <=> InHand(t)
    BY <1>1 DEF InHand
  <1>6. Single'
    BY <1>1, <1>2, <1>5 DEF QueueInv, Single
  <1>7. NoSilentLoss'
    BY <1>1, <1>2 DEF QueueInv, NoSilentLoss, Waiting
  <1>8. InOrder'
    <2>1. e \in retried
      BY <1>1 DEF QueueInv, PutBack
    <2>2. QED
      BY <1>1, <1>2, <1>5, <2>1 DEF QueueInv, InOrder
  <1>9. QED
    BY <1>3, <1>4, <1>6, <1>7, <1>8 DEF QueueInv

\* Workers that come and go, and their watchdogs, leave every post in its place.
LEMMA ControlStep ==
  ASSUME QueueInv, NEW w \in Workers,
         \/ Spawn(w) \/ Connect(w) \/ ConnectFails(w) \/ Heed(w) \/ Leave(w) \/ Close(w)
         \/ Touch(w) \/ Rest(w) \/ Bark(w)
  PROVE  QueueInv'
  <1>1. UNCHANGED <<sent, queue, parked, hand, rows, retried, doubtful>>
    BY DEF Spawn, Connect, ConnectFails, Heed, Leave, Close, Touch, Rest, Bark, channel
  <1>2. /\ pc' \in [Workers -> Stages]
        /\ \A v \in Workers \ {w} : pc'[v] = pc[v]
        /\ pc[w] = "saving" <=> pc'[w] = "saving"
    BY Typed DEF Spawn, Connect, ConnectFails, Heed, Leave, Close, Touch, Rest, Bark, Goto, Stages
  <1>3. TypeOK'
    <2>1. errors' \in 0..MaxErrors
      BY SaveQueueAssumption DEF Spawn, Connect, ConnectFails, Heed, Leave, Close, Touch, Rest, Bark,
                                 AnError, QueueInv, TypeOK
    <2>2. token' \in 0..1 /\ dog' \in [Workers -> {"off", "watching", "touching", "barking"}]
      BY DEF Spawn, Connect, ConnectFails, Heed, Leave, Close, Touch, Rest, Bark, QueueInv, TypeOK
    <2>3. QED
      BY <1>1, <1>2, <2>1, <2>2 DEF QueueInv, TypeOK
  <1>4. Handed'
    BY <1>1, <1>2 DEF QueueInv, Handed
  <1>5. OneWorker'
    <2>1. \/ pc[w] = "off" /\ token = 0 /\ token' = 1
          \/ pc[w] = "leaving" /\ pc'[w] = "closing"
          \/ token' = token /\ (pc'[w] \notin {"off", "closing"} => pc[w] \notin {"off", "closing"})
      BY Typed DEF Spawn, Connect, ConnectFails, Heed, Leave, Close, Touch, Rest, Bark, Goto
    <2>2. QED
      BY <1>2, <2>1 DEF QueueInv, OneWorker
  <1>6. \A t : InHand(t)' <=> InHand(t)
    BY <1>1 DEF InHand
  <1>7. Single' /\ PutBack' /\ InOrder'
    BY <1>1, <1>6 DEF QueueInv, Single, PutBack, InOrder
  <1>8. NoSilentLoss'
    BY <1>1 DEF QueueInv, NoSilentLoss, Waiting
  <1>9. QED
    BY <1>3, <1>4, <1>5, <1>7, <1>8 DEF QueueInv

LEMMA QueueStart == Init => QueueInv
  <1> SUFFICES ASSUME Init PROVE QueueInv
    OBVIOUS
  <1>1. /\ sent = <<>> /\ queue = <<>> /\ rows = <<>> /\ parked = {} /\ retried = {} /\ doubtful = {}
        /\ token = 0 /\ errors = 0
        /\ \A w \in Workers : pc[w] = "off" /\ hand[w] = None
    BY DEF Init
  <1>2. ToSet(<<>>) = {} /\ \A t, u : ~Before(<<>>, t, u)
    BY DEF ToSet, Before
  <1>3. \A t : Once(<<>>, t)
    BY DEF Once
  <1>4. \A t \in Tasks : ~InHand(t)
    BY <1>1, SaveQueueAssumption DEF InHand
  <1>5. TypeOK
    BY SaveQueueAssumption DEF Init, TypeOK, Stages
  <1>6. Handed /\ OneWorker /\ PutBack
    BY <1>1 DEF Handed, OneWorker, PutBack
  <1>7. Single
    BY <1>1, <1>2, <1>3, <1>4, SaveQueueAssumption DEF Single
  <1>8. NoSilentLoss /\ InOrder
    BY <1>1, <1>2 DEF NoSilentLoss, InOrder
  <1>9. QED
    BY <1>5, <1>6, <1>7, <1>8 DEF QueueInv

LEMMA QueueStep == QueueInv /\ [Next]_vars => QueueInv'
  <1> SUFFICES ASSUME QueueInv, [Next]_vars PROVE QueueInv'
    OBVIOUS
  <1>1. CASE UNCHANGED vars
    <2>1. UNCHANGED <<sent, queue, parked, token, pc, hand, dog, rows, retried, doubtful, errors>>
      BY <1>1 DEF vars, channel, worker
    <2>2. \A t : InHand(t)' <=> InHand(t)
      BY <2>1 DEF InHand
    <2>3. QED
      BY <2>1, <2>2 DEF QueueInv, TypeOK, Handed, Single, OneWorker, PutBack, NoSilentLoss, InOrder, Waiting
  <1>2. CASE \E t \in Tasks : Submit(t) \/ Resend(t)
    BY <1>2, SubmitStep, ResendStep
  <1>3. ASSUME NEW w \in Workers, Spawn(w) \/ Work(w) \/ Touch(w) \/ Rest(w) \/ Bark(w)
        PROVE  QueueInv'
    BY <1>3, ReceiveStep, SaveStep, RequeueStep, ControlStep DEF Work
  <1>4. QED
    BY <1>1, <1>2, <1>3 DEF Next

LEMMA QueueInvariance == Spec => []QueueInv
  BY QueueStart, QueueStep, PTL DEF Spec
-----------------------------------------------------------------------------
(* The results *)

\* Every variable has its type; in particular the channel never holds more than
\* its capacity.
THEOREM Types == Spec => []TypeOK
  BY QueueInvariance, PTL DEF QueueInv

\* A post that was sent is never lost while the process runs, whatever errors
\* the database gives (requeueDatabaseSavePostTask).
THEOREM NothingIsLost == Spec => []NoSilentLoss
  BY QueueInvariance, PTL DEF QueueInv

\* A post is saved twice only if a commit that was done was reported as an error
\* (processDatabaseSavePostTask).
THEOREM NothingIsSavedTwice == Spec => []SavedOnce
  <1>1. QueueInv => SavedOnce
    <2> SUFFICES ASSUME QueueInv, NEW i \in DOMAIN rows, rows[i] \notin doubtful
                 PROVE  ~Waiting(rows[i]) /\ \A j \in DOMAIN rows : rows[j] = rows[i] => j = i
      BY DEF SavedOnce
    <2>1. rows[i] \in Tasks /\ rows[i] \in ToSet(rows)
      BY Typed DEF ToSet
    <2>2. Once(rows, rows[i]) /\ rows[i] \notin ToSet(queue) \cup parked /\ ~InHand(rows[i])
      BY <2>1 DEF QueueInv, Single
    <2>3. QED
      BY <2>2 DEF Once, Waiting, InHand
  <1>2. QED
    BY <1>1, QueueInvariance, PTL

\* Posts that are saved at the first attempt are saved in the order in which
\* they were sent, also when a worker is replaced (Run, databaseWorkerRun).
THEOREM OrderIsKept == Spec => []OrderKept
  <1>1. QueueInv => OrderKept
    <2>1. QueueInv => ToSet(rows) \subseteq Tasks
      BY Typed DEF ToSet
    <2>2. QED
      BY <2>1 DEF QueueInv, InOrder, OrderKept
  <1>2. QED
    BY <1>1, QueueInvariance, PTL
-----------------------------------------------------------------------------
(* The queue as a set of posts that wait *)

Promise == INSTANCE Delivery WITH waiting <- {t \in Tasks : Waiting(t)}

ImplementsDelivery == Promise!Spec

\* Also a post whose commit was misreported is in one place at a time.
Placed == \A t \in Tasks :
  /\ Once(queue, t)
  /\ t \in ToSet(queue) => t \notin parked /\ ~InHand(t)
  /\ t \in parked => ~InHand(t)

LEMMA WaitingPlaces ==
  ASSUME NEW t \in Tasks
  PROVE  /\ Waiting(t) <=> t \in ToSet(queue) \cup parked \/ InHand(t)
         /\ Waiting(t)' <=> t \in ToSet(queue)' \cup parked' \/ InHand(t)'
  BY DEF Waiting, InHand

\* Only one worker has a post.
LEMMA OneHand ==
  ASSUME QueueInv, NEW w \in Workers, pc[w] = "saving"
  PROVE  /\ hand[w] \in Tasks
         /\ \A v \in Workers \ {w} : hand[v] = None
  <1>1. \A v \in Workers \ {w} : pc[v] # "saving"
    BY DEF QueueInv, OneWorker
  <1>2. QED
    BY <1>1, Typed DEF QueueInv, Handed

LEMMA PlacedStep == QueueInv /\ Placed /\ [Next]_vars => Placed'
  <1> SUFFICES ASSUME QueueInv, Placed, [Next]_vars PROVE Placed'
    OBVIOUS
  <1>1. ASSUME UNCHANGED <<queue, parked, hand>> PROVE Placed'
    <2>1. \A t : InHand(t)' <=> InHand(t)
      BY <1>1 DEF InHand
    <2>2. QED
      BY <1>1, <2>1 DEF Placed
  <1>2. ASSUME NEW e \in Tasks, Submit(e) PROVE Placed'
    <2>1. /\ queue' = Append(queue, e) /\ UNCHANGED <<parked, hand>> /\ e \notin ToSet(sent)
      BY <1>2 DEF Submit, worker
    <2>2. e \notin ToSet(queue) \cup parked /\ ~InHand(e)
      BY <2>1 DEF QueueInv, Single
    <2>3. /\ ToSet(queue') = ToSet(queue) \cup {e}
          /\ \A t : Once(queue, t) /\ (t # e \/ t \notin ToSet(queue)) => Once(queue', t)
      BY <2>1, Typed, Appended
    <2>4. \A t : InHand(t)' <=> InHand(t)
      BY <2>1 DEF InHand
    <2>5. QED
      BY <2>1, <2>2, <2>3, <2>4 DEF Placed
  <1>3. ASSUME NEW e \in Tasks, Resend(e) PROVE Placed'
    <2>1. /\ queue' = Append(queue, e) /\ parked' = parked \ {e} /\ e \in parked /\ hand' = hand
      BY <1>3 DEF Resend, worker
    <2>2. /\ ToSet(queue') = ToSet(queue) \cup {e}
          /\ \A t : Once(queue, t) /\ (t # e \/ t \notin ToSet(queue)) => Once(queue', t)
      BY <2>1, Typed, Appended
    <2>3. \A t : InHand(t)' <=> InHand(t)
      BY <2>1 DEF InHand
    <2>4. QED
      BY <2>1, <2>2, <2>3 DEF Placed
  <1>4. ASSUME NEW w \in Workers, Receive(w) PROVE Placed'
    <2>1. queue # <<>> /\ queue' = Tail(queue) /\ parked' = parked /\ pc[w] = "selecting"
      BY <1>4 DEF Receive, Goto
    <2>2. PICK h \in Tasks : h = Head(queue)
      BY <2>1, Typed, Beheaded
    <2>3. /\ ToSet(queue) = {h} \cup ToSet(queue')
          /\ \A t : Once(queue, t) => Once(queue', t)
          /\ Once(queue, h) => h \notin ToSet(queue')
      BY <2>1, <2>2, Typed, Beheaded
    <2>4. \A t \in Tasks : InHand(t)' => InHand(t) \/ t = h
      BY <1>4, <2>2, Typed DEF Receive, InHand
    <2>5. QED
      BY <2>1, <2>2, <2>3, <2>4 DEF Placed
  <1>5. ASSUME NEW w \in Workers, Save(w) \/ SaveBusy(w) \/ SaveFails(w) PROVE Placed'
    <2>1. pc[w] = "saving" /\ hand' = [hand EXCEPT ![w] = None]
      BY <1>5 DEF Save, SaveBusy, SaveFails, Goto
    <2>2. PICK e \in Tasks : e = hand[w]
      BY <2>1, OneHand
    <2>3. InHand(e) /\ \A t \in Tasks : ~InHand(t)'
      BY <2>1, <2>2, OneHand, Typed DEF InHand
    <2>4. \/ UNCHANGED <<queue, parked>>
          \/ queue' = Append(queue, e) /\ parked' = parked
          \/ queue' = queue /\ parked' = parked \cup {e}
      BY <1>5, <2>2 DEF Save, SaveBusy, SaveFails, Requeue, channel
    <2>5. /\ ToSet(Append(queue, e)) = ToSet(queue) \cup {e}
          /\ \A t : Once(queue, t) /\ (t # e \/ t \notin ToSet(queue)) => Once(Append(queue, e), t)
      BY Typed, Appended
    <2>6. e \notin ToSet(queue) \cup parked
      BY <2>3 DEF Placed
    <2>7. QED
      BY <2>3, <2>4, <2>5, <2>6 DEF Placed
  <1>6. ASSUME NEW w \in Workers,
               \/ Spawn(w) \/ Connect(w) \/ ConnectFails(w) \/ Heed(w) \/ Leave(w) \/ Close(w)
               \/ Touch(w) \/ Rest(w) \/ Bark(w)
        PROVE  UNCHANGED <<queue, parked, hand>>
    BY <1>6 DEF Spawn, Connect, ConnectFails, Heed, Leave, Close, Touch, Rest, Bark, channel
  <1>7. UNCHANGED vars => UNCHANGED <<queue, parked, hand>>
    BY DEF vars, channel, worker
  <1>8. QED
    BY <1>1, <1>2, <1>3, <1>4, <1>5, <1>6, <1>7 DEF Next, Work

\* A worker that is done with its post has saved it, or has put it back.
LEMMA WorkerDelivers ==
  ASSUME QueueInv, Placed, NEW w \in Workers, Save(w) \/ SaveBusy(w) \/ SaveFails(w)
  PROVE  Promise!Next \/ UNCHANGED <<{t \in Tasks : Waiting(t)}, rows>>
  <1>1. pc[w] = "saving" /\ hand' = [hand EXCEPT ![w] = None]
    BY DEF Save, SaveBusy, SaveFails, Goto
  <1>2. PICK e \in Tasks : e = hand[w]
    BY <1>1, OneHand
  <1>3. \A t \in Tasks : (InHand(t) <=> t = e) /\ ~InHand(t)'
    BY <1>1, <1>2, OneHand, Typed DEF InHand
  <1>4. Waiting(e) /\ e \notin ToSet(queue) \cup parked
    BY <1>3, WaitingPlaces DEF Placed
  <1>5. CASE Save(w)
    <2>1. rows' = Append(rows, e) /\ UNCHANGED <<queue, parked>>
      BY <1>2, <1>5 DEF Save, channel
    <2>2. \A t \in Tasks : Waiting(t)' <=> Waiting(t) /\ t # e
      BY <1>3, <1>4, <2>1, WaitingPlaces
    <2>3. Promise!Save(e)
      BY <1>4, <2>1, <2>2 DEF Promise!Save
    <2>4. QED
      BY <2>3 DEF Promise!Next
  <1>6. CASE SaveBusy(w) \/ SaveFails(w)
    <2>1. /\ rows' = rows \/ rows' = Append(rows, e)
          /\ \/ queue' = Append(queue, e) /\ parked' = parked
             \/ queue' = queue /\ parked' = parked \cup {e}
      BY <1>2, <1>6 DEF SaveBusy, SaveFails, Requeue
    <2>2. ToSet(Append(queue, e)) = ToSet(queue) \cup {e}
      BY Typed, Appended
    <2>3. \A t \in Tasks : Waiting(t)' <=> Waiting(t)
      BY <1>3, <2>1, <2>2, WaitingPlaces
    <2>4. UNCHANGED {t \in Tasks : Waiting(t)}
      BY <2>3
    <2>5. CASE rows' = Append(rows, e)
      <3>1. Promise!Misreport(e)
        BY <1>4, <2>4, <2>5 DEF Promise!Misreport
      <3>2. QED
        BY <3>1 DEF Promise!Next
    <2>6. QED
      BY <2>1, <2>4, <2>5
  <1>7. QED
    BY <1>5, <1>6

\* Whatever happens to the workers, their connections and the channel, a post
\* that was sent waits until it is saved, and is then gone from the queue, also
\* if it was put back before (Run, requeueDatabaseSavePostTask); only a commit
\* that was misreported is tried again.
THEOREM PostsAreDelivered == Spec => ImplementsDelivery
  <1>1. Init => Promise!Init /\ Placed
    <2> SUFFICES ASSUME Init PROVE Promise!Init /\ Placed
      OBVIOUS
    <2>1. /\ queue = <<>> /\ parked = {} /\ rows = <<>>
          /\ \A w \in Workers : hand[w] = None
      BY DEF Init
    <2>2. ToSet(queue) = {} /\ \A t : Once(queue, t)
      BY <2>1 DEF ToSet, Once
    <2>3. \A t \in Tasks : ~InHand(t)
      BY <2>1, SaveQueueAssumption DEF InHand
    <2>4. \A t \in Tasks : ~Waiting(t)
      BY <2>1, <2>2, <2>3, WaitingPlaces
    <2>5. QED
      BY <2>1, <2>2, <2>3, <2>4 DEF Promise!Init, Placed
  <1>2. QueueInv /\ Placed /\ [Next]_vars
          => [Promise!Next]_<<{t \in Tasks : Waiting(t)}, rows>>
    <2> SUFFICES ASSUME QueueInv, Placed, [Next]_vars
                 PROVE  Promise!Next \/ UNCHANGED <<{t \in Tasks : Waiting(t)}, rows>>
      OBVIOUS
    <2>1. ASSUME NEW e \in Tasks, Submit(e) PROVE Promise!Next
      <3>1. /\ queue' = Append(queue, e) /\ UNCHANGED <<parked, hand, rows>> /\ e \notin ToSet(sent)
        BY <2>1 DEF Submit, worker
      <3>2. ToSet(queue') = ToSet(queue) \cup {e}
        BY <3>1, Typed, Appended
      <3>3. \A t : InHand(t)' <=> InHand(t)
        BY <3>1 DEF InHand
      <3>4. \A t \in Tasks : Waiting(t)' <=> Waiting(t) \/ t = e
        BY <3>1, <3>2, <3>3, WaitingPlaces
      <3>5. ~Waiting(e) /\ e \notin ToSet(rows)
        BY <3>1, WaitingPlaces DEF QueueInv, Single
      <3>6. ~Promise!Saved(e)
        BY <3>5 DEF Promise!Saved, ToSet
      <3>7. Promise!Send(e)
        BY <3>1, <3>4, <3>5, <3>6 DEF Promise!Send
      <3>8. QED
        BY <3>7 DEF Promise!Next
    <2>2. ASSUME NEW e \in Tasks, Resend(e)
          PROVE  UNCHANGED <<{t \in Tasks : Waiting(t)}, rows>>
      <3>1. /\ queue' = Append(queue, e) /\ parked' = parked \ {e} /\ e \in parked
            /\ UNCHANGED <<hand, rows>>
        BY <2>2 DEF Resend, worker
      <3>2. ToSet(queue') = ToSet(queue) \cup {e}
        BY <3>1, Typed, Appended
      <3>3. \A t : InHand(t)' <=> InHand(t)
        BY <3>1 DEF InHand
      <3>4. \A t \in Tasks : Waiting(t)' <=> Waiting(t)
        BY <3>1, <3>2, <3>3, WaitingPlaces
      <3>5. QED
        BY <3>1, <3>4
    <2>3. ASSUME NEW w \in Workers, Receive(w)
          PROVE  UNCHANGED <<{t \in Tasks : Waiting(t)}, rows>>
      <3>1. /\ queue # <<>> /\ queue' = Tail(queue) /\ UNCHANGED <<parked, rows>>
            /\ hand' = [hand EXCEPT ![w] = Head(queue)] /\ pc[w] = "selecting"
        BY <2>3 DEF Receive, Goto
      <3>2. PICK h \in Tasks : h = Head(queue)
        BY <3>1, Typed, Beheaded
      <3>3. ToSet(queue) = {h} \cup ToSet(queue')
        BY <3>1, <3>2, Typed, Beheaded
      <3>4. hand[w] = None
        BY <3>1, Typed DEF QueueInv, Handed
      <3>5. \A t \in Tasks : InHand(t)' <=> InHand(t) \/ t = h
        BY <3>1, <3>2, <3>4, Typed DEF InHand
      <3>6. \A t \in Tasks : Waiting(t)' <=> Waiting(t)
        BY <3>1, <3>3, <3>5, WaitingPlaces
      <3>7. QED
        BY <3>1, <3>6
    <2>4. ASSUME UNCHANGED <<queue, parked, hand, rows>>
          PROVE  UNCHANGED <<{t \in Tasks : Waiting(t)}, rows>>
      BY <2>4 DEF Waiting
    <2>5. ASSUME NEW w \in Workers,
                 \/ Spawn(w) \/ Connect(w) \/ ConnectFails(w) \/ Heed(w) \/ Leave(w) \/ Close(w)
                 \/ Touch(w) \/ Rest(w) \/ Bark(w)
          PROVE  UNCHANGED <<queue, parked, hand, rows>>
      BY <2>5 DEF Spawn, Connect, ConnectFails, Heed, Leave, Close, Touch, Rest, Bark, channel
    <2>6. UNCHANGED vars => UNCHANGED <<queue, parked, hand, rows>>
      BY DEF vars, channel, worker
    <2>7. QED
      BY <2>1, <2>2, <2>3, <2>4, <2>5, <2>6, WorkerDelivers DEF Next, Work
  <1>3. QED
    BY QueueInvariance, PlacedStep, <1>1, <1>2, PTL DEF Spec, ImplementsDelivery, Promise!Spec
=============================================================================
