------------------------- MODULE DeliveryCountProofs -------------------------
(***************************************************************************)
(* Delivery dispatches nothing more often than it was asked to, for every   *)
(* value of its constants, given finitely many sessions.  What is still to  *)
(* be dispatched is counted where it waits: in the events no worker has     *)
(* handled and in the sessions that hold an approved card.                  *)
(***************************************************************************)
EXTENDS DeliveryProofs

\* One job is in hand while its books are done, and none otherwise.
InHand(s) == IF s.pc \in {"mark", "resolve"} THEN \E j \in s.todo : s.cur = {j} ELSE s.cur = {}

\* What a worker does is about the rows it locked, and each of them has one fate.
Batched(s, ev) ==
    /\ s.batch \subseteq ev
    /\ s.todo \union s.made \union s.kept \union s.dropped \subseteq s.batch
    /\ s.todo \intersect (s.made \union s.kept) = {} /\ s.made \intersect s.kept = {}
    /\ s.pc \in {"idle", "ship"} => s.batch = {}

\* No row is locked twice.
Skipped == \A v, w \in Workers : v # w => actor[v].batch \intersect actor[w].batch = {}

Shape ==
    /\ \A a \in Actors : InHand(actor[a])
    /\ \A w \in Workers : Batched(actor[w], event)
    /\ Skipped
    /\ \A s \in Sessions : actor[s].todo \subseteq Dels \X {"card"}

\* Events of d that no worker dispatched in the batch it is at.
Handled(w) == actor[w].made \union actor[w].cur
Due(d) == {e \in event : e[1] = d /\ \A w \in Workers : e \notin Handled(w)}

\* Sessions that have still to dispatch the card of d.
Calling(d) == {s \in Sessions : <<d, "card">> \in actor[s].todo \ actor[s].cur}

\* Every dispatch still to come was asked for.
Covered(d) == owed[d] >= Cardinality(Due(d)) + Cardinality(Calling(d))
CountInv == IsFiniteSet(Sessions) /\ Shape /\ \A d \in Dels : Covered(d)

-----------------------------------------------------------------------------
(* The shape of what the processes hold.                                    *)

\* One process goes on to s, and nobody else's rows go.
LEMMA ShapeStep ==
    ASSUME TypeOK, Shape, NEW a \in Actors, NEW s, actor' = [actor EXCEPT ![a] = s], InHand(s),
           a \in Workers => Batched(s, event'),
           a \in Sessions => s.todo \subseteq Dels \X {"card"},
           \A w \in Workers : w # a => /\ actor[w].batch \subseteq event'
                                       /\ a \in Workers => s.batch \intersect actor[w].batch = {}
    PROVE  Shape'
<1>1. actor'[a] = s /\ \A b \in Actors : b # a => actor'[b] = actor[b]
  BY DEF TypeOK
<1>2. Workers \subseteq Actors /\ Sessions \subseteq Actors
  BY DEF Actors
<1>3. \A b \in Actors : InHand(actor[b])'
  BY <1>1 DEF Shape, InHand
<1>4. \A w \in Workers : Batched(actor[w], event)'
  <2> SUFFICES ASSUME NEW w \in Workers
               PROVE  Batched(actor'[w], event')
    BY DEF Batched
  <2>1. CASE w = a
    BY <1>1, <2>1
  <2>2. CASE w # a
    BY <1>1, <1>2, <2>2 DEF Shape, Batched
  <2>3. QED
    BY <2>1, <2>2
<1>5. Skipped'
  <2> SUFFICES ASSUME NEW v \in Workers, NEW w \in Workers, v # w
               PROVE  actor'[v].batch \intersect actor'[w].batch = {}
    BY DEF Skipped
  <2>1. CASE v # a /\ w # a
    BY <1>1, <1>2, <2>1 DEF Shape, Skipped
  <2>2. CASE v = a \/ w = a
    BY <1>1, <1>2, <2>2
  <2>3. QED
    BY <2>1, <2>2
<1>6. \A t \in Sessions : actor'[t].todo \subseteq Dels \X {"card"}
  BY <1>1, <1>2 DEF Shape
<1>7. QED
  BY <1>3, <1>4, <1>5, <1>6 DEF Shape

\* A process that keeps its rows, or part of them, with the table as it was.
LEMMA KeepsRows ==
    ASSUME TypeOK, Shape, NEW a \in Actors, NEW s, actor' = [actor EXCEPT ![a] = s], InHand(s),
           event' = event, s.batch \subseteq actor[a].batch, s.todo \subseteq actor[a].todo,
           a \in Workers => Batched(s, event)
    PROVE  Shape'
BY ShapeStep DEF Shape, Skipped, Batched

-----------------------------------------------------------------------------
(* Counting.                                                                *)

LEMMA EventsFinite ==
    ASSUME NEW d, NEW S, \A e \in S : e \in Events /\ e[1] = d
    PROVE  IsFiniteSet(S)
<1>1. IsFiniteSet({<<d, "emitted">>} \union {<<d, "resent">>})
  BY FS_Singleton, FS_AddElement
<1>2. S \subseteq {<<d, "emitted">>} \union {<<d, "resent">>}
  BY DEF Events
<1>3. QED
  BY <1>1, <1>2, FS_Subset

LEMMA CountsFinite ==
    ASSUME TypeOK, TypeOK', IsFiniteSet(Sessions), NEW d \in Dels
    PROVE  /\ IsFiniteSet(Due(d)) /\ IsFiniteSet(Due(d)')
           /\ IsFiniteSet(Calling(d)) /\ IsFiniteSet(Calling(d)')
           /\ owed[d] \in Int /\ owed'[d] \in Int
<1>1. \A e \in Due(d) : e \in Events /\ e[1] = d
  BY DEF Due, TypeOK
<1>2. \A e \in Due(d)' : e \in Events /\ e[1] = d
  BY DEF Due, TypeOK
<1>3. Calling(d) \subseteq Sessions /\ Calling(d)' \subseteq Sessions
  BY DEF Calling
<1>4. IsFiniteSet(Due(d)) /\ IsFiniteSet(Due(d)')
  BY <1>1, <1>2, EventsFinite
<1>5. IsFiniteSet(Calling(d)) /\ IsFiniteSet(Calling(d)')
  BY <1>3, FS_Subset
<1>6. owed[d] \in Int /\ owed'[d] \in Int
  BY DEF TypeOK
<1>7. QED
  BY <1>4, <1>5, <1>6

\* At most the events of X are due anew, and they were asked for.
LEMMA AskedMore ==
    ASSUME TypeOK, TypeOK', IsFiniteSet(Sessions), NEW d \in Dels, Covered(d),
           NEW X, IsFiniteSet(X), owed'[d] >= owed[d] + Cardinality(X),
           Due(d)' \subseteq Due(d) \union X, Calling(d)' \subseteq Calling(d)
    PROVE  Covered(d)'
<1> DEFINE D == Due(d)   C == Calling(d)   E == Due(d)'   B == Calling(d)'
<1>1. /\ IsFiniteSet(D) /\ IsFiniteSet(C) /\ IsFiniteSet(E) /\ IsFiniteSet(B)
      /\ owed[d] \in Int /\ owed'[d] \in Int
  BY CountsFinite
<1>2. E \subseteq D \union X /\ B \subseteq C
  OBVIOUS
<1>3. owed[d] >= Cardinality(D) + Cardinality(C)
  BY DEF Covered
<1> HIDE DEF D, C, E, B
<1>4. Cardinality(D \union X) <= Cardinality(D) + Cardinality(X) /\ IsFiniteSet(D \union X)
  <2>1. /\ IsFiniteSet(D \union X)
        /\ Cardinality(D \union X) = Cardinality(D) + Cardinality(X) - Cardinality(D \intersect X)
    BY <1>1, FS_Union
  <2>2. IsFiniteSet(D \intersect X)
    BY <1>1, FS_Subset
  <2>3. Cardinality(D) \in Nat /\ Cardinality(X) \in Nat /\ Cardinality(D \intersect X) \in Nat
    BY <1>1, <2>2, FS_CardinalityType
  <2>4. QED
    BY <2>1, <2>3
<1>5. Cardinality(E) <= Cardinality(D \union X) /\ Cardinality(B) <= Cardinality(C)
  BY <1>1, <1>2, <1>4, FS_Subset
<1>6. owed'[d] >= Cardinality(E) + Cardinality(B)
  BY <1>1, <1>3, <1>4, <1>5, FS_CardinalityType
<1>7. QED
  BY <1>6 DEF Covered, E, B

\* Nothing is due or called for that was not.
LEMMA AskedSame ==
    ASSUME TypeOK, TypeOK', IsFiniteSet(Sessions), NEW d \in Dels, Covered(d),
           owed'[d] = owed[d], Due(d)' \subseteq Due(d), Calling(d)' \subseteq Calling(d)
    PROVE  Covered(d)'
<1>1. IsFiniteSet({}) /\ Cardinality({}) = 0
  BY FS_EmptySet
<1>2. owed'[d] >= owed[d] + Cardinality({})
  BY <1>1, CountsFinite
<1>3. QED
  BY <1>1, <1>2, AskedMore

\* One more session calls, and was asked to.
LEMMA CallsMore ==
    ASSUME TypeOK, TypeOK', IsFiniteSet(Sessions), NEW d \in Dels, Covered(d), NEW s,
           owed'[d] >= owed[d] + 1, Due(d)' \subseteq Due(d), Calling(d)' \subseteq Calling(d) \union {s}
    PROVE  Covered(d)'
<1> DEFINE D == Due(d)   C == Calling(d)   E == Due(d)'   B == Calling(d)'
<1>1. /\ IsFiniteSet(D) /\ IsFiniteSet(C) /\ IsFiniteSet(E) /\ IsFiniteSet(B)
      /\ owed[d] \in Int /\ owed'[d] \in Int
  BY CountsFinite
<1>2. E \subseteq D /\ B \subseteq C \union {s}
  OBVIOUS
<1>3. owed[d] >= Cardinality(D) + Cardinality(C)
  BY DEF Covered
<1> HIDE DEF D, C, E, B
<1>4. Cardinality(C \union {s}) <= Cardinality(C) + 1 /\ IsFiniteSet(C \union {s})
  <2>1. Cardinality(C) \in Nat
    BY <1>1, FS_CardinalityType
  <2>2. /\ IsFiniteSet(C \union {s})
        /\ Cardinality(C \union {s}) = IF s \in C THEN Cardinality(C) ELSE Cardinality(C) + 1
    BY <1>1, FS_AddElement
  <2>3. QED
    BY <2>1, <2>2
<1>5. Cardinality(E) <= Cardinality(D) /\ Cardinality(B) <= Cardinality(C \union {s})
  BY <1>1, <1>2, <1>4, FS_Subset
<1>6. owed'[d] >= Cardinality(E) + Cardinality(B)
  BY <1>1, <1>3, <1>4, <1>5, FS_CardinalityType
<1>7. QED
  BY <1>6 DEF Covered, E, B

\* A dispatch pays for the event or the card it takes.
LEMMA PaidFor ==
    ASSUME TypeOK, TypeOK', IsFiniteSet(Sessions), NEW d \in Dels, Covered(d), NEW x,
           owed'[d] = owed[d] - 1, Due(d)' \subseteq Due(d), Calling(d)' \subseteq Calling(d),
           (x \in Due(d) /\ x \notin Due(d)') \/ (x \in Calling(d) /\ x \notin Calling(d)')
    PROVE  Covered(d)'
<1> DEFINE D == Due(d)   C == Calling(d)   E == Due(d)'   B == Calling(d)'
<1>1. /\ IsFiniteSet(D) /\ IsFiniteSet(C) /\ IsFiniteSet(E) /\ IsFiniteSet(B)
      /\ owed[d] \in Int /\ owed'[d] \in Int
  BY CountsFinite
<1>2. E \subseteq D /\ B \subseteq C /\ ((x \in D /\ x \notin E) \/ (x \in C /\ x \notin B))
  OBVIOUS
<1>3. owed[d] >= Cardinality(D) + Cardinality(C)
  BY DEF Covered
<1> HIDE DEF D, C, E, B
<1>4. /\ Cardinality(E) <= Cardinality(D) /\ Cardinality(B) <= Cardinality(C)
      /\ E # D => Cardinality(E) # Cardinality(D)
      /\ B # C => Cardinality(B) # Cardinality(C)
  BY <1>1, <1>2, FS_Subset
<1>5. owed'[d] >= Cardinality(E) + Cardinality(B)
  BY <1>1, <1>2, <1>3, <1>4, FS_CardinalityType
<1>6. QED
  BY <1>5 DEF Covered, E, B

-----------------------------------------------------------------------------
(* One process goes on.                                                     *)

\* Nothing falls due when a worker forgets no dispatch and a session takes no new card.
LEMMA OneMoves ==
    ASSUME TypeOK, NEW a \in Actors, NEW s, actor' = [actor EXCEPT ![a] = s], event' \subseteq event,
           a \in Workers => actor[a].made \union actor[a].cur \subseteq s.made \union s.cur,
           a \in Sessions => s.todo \ s.cur \subseteq actor[a].todo \ actor[a].cur
    PROVE  \A d \in Dels : Due(d)' \subseteq Due(d) /\ Calling(d)' \subseteq Calling(d)
<1>1. actor'[a] = s /\ \A b \in Actors : b # a => actor'[b] = actor[b]
  BY DEF TypeOK
<1>2. Workers \subseteq Actors /\ Sessions \subseteq Actors
  BY DEF Actors
<1>3. \A w \in Workers : Handled(w) \subseteq Handled(w)'
  BY <1>1, <1>2 DEF Handled
<1>4. \A t \in Sessions : actor'[t].todo \ actor'[t].cur \subseteq actor[t].todo \ actor[t].cur
  BY <1>1, <1>2
<1>5. QED
  BY <1>3, <1>4 DEF Due, Calling

\* The same, with the rows kept and nothing asked for or dispatched.
LEMMA QuietCount ==
    ASSUME Inv, Inv', CountInv, NEW a \in Actors, NEW s, actor' = [actor EXCEPT ![a] = s],
           InHand(s), event' = event, owed' = owed,
           s.batch \subseteq actor[a].batch, s.todo \subseteq actor[a].todo,
           a \in Workers => Batched(s, event),
           a \in Workers => actor[a].made \union actor[a].cur \subseteq s.made \union s.cur,
           a \in Sessions => s.todo \ s.cur \subseteq actor[a].todo \ actor[a].cur
    PROVE  CountInv'
<1>1. Shape'
  BY KeepsRows DEF Inv, CountInv
<1>2. \A d \in Dels : Covered(d)'
  BY OneMoves, AskedSame DEF Inv, CountInv
<1>3. QED
  BY <1>1, <1>2 DEF CountInv

\* A worker has dispatched nothing but rows it locked, so that nobody else has.
LEMMA HandledOwn ==
    ASSUME Shape
    PROVE  /\ \A w \in Workers : Handled(w) \subseteq actor[w].batch
           /\ \A v, w \in Workers : v # w => Handled(v) \intersect actor[w].batch = {}
<1>1. ASSUME NEW w \in Workers
      PROVE  Handled(w) \subseteq actor[w].batch
  <2>1. InHand(actor[w]) /\ Batched(actor[w], event)
    BY DEF Shape, Actors
  <2>2. QED
    BY <2>1 DEF InHand, Batched, Handled
<1>2. QED
  BY <1>1 DEF Shape, Skipped

\* A job whose turn has come is still due, or called for.
LEMMA TurnDue ==
    ASSUME TypeOK, Shape, NEW a \in Actors, NEW j \in actor[a].todo, actor[a].pc = "work"
    PROVE  /\ actor[a].cur = {}
           /\ a \in Workers => j \in Due(j[1])
           /\ a \in Sessions => j = <<j[1], "card">> /\ a \in Calling(j[1])
<1>1. actor[a].cur = {}
  BY DEF Shape, InHand
<1>2. ASSUME a \in Workers
      PROVE  j \in Due(j[1])
  <2>1. j \in event /\ j \in actor[a].batch /\ j \notin Handled(a)
    BY <1>1, <1>2 DEF Shape, Batched, Handled
  <2>2. \A w \in Workers : j \notin Handled(w)
    BY <2>1, <1>2, HandledOwn
  <2>3. QED
    BY <2>1, <2>2 DEF Due
<1>3. ASSUME a \in Sessions
      PROVE  j = <<j[1], "card">> /\ a \in Calling(j[1])
  BY <1>1, <1>3 DEF Shape, Calling
<1>4. QED
  BY <1>1, <1>2, <1>3

\* A turn that dispatches its job is paid for.
LEMMA TurnPaid ==
    ASSUME Inv, Inv', CountInv, NEW a \in Actors, NEW j \in actor[a].todo, actor[a].pc = "work",
           NEW s, actor' = [actor EXCEPT ![a] = s], event' = event,
           actor[a].made \subseteq s.made \union s.cur, j \in s.made \union s.cur,
           s.todo \ s.cur \subseteq actor[a].todo \ {j},
           j[1] \in Dels, owed' = [owed EXCEPT ![j[1]] = @ - 1]
    PROVE  \A d \in Dels : Covered(d)'
<1>1. TypeOK /\ TypeOK' /\ Shape /\ IsFiniteSet(Sessions) /\ \A d \in Dels : Covered(d)
  BY DEF Inv, CountInv
<1>2. /\ actor[a].cur = {}
      /\ a \in Workers => j \in Due(j[1])
      /\ a \in Sessions => j = <<j[1], "card">> /\ a \in Calling(j[1])
  BY <1>1, TurnDue
<1>3. \A d \in Dels : Due(d)' \subseteq Due(d) /\ Calling(d)' \subseteq Calling(d)
  BY <1>1, <1>2, OneMoves
<1>4. actor'[a] = s
  BY <1>1 DEF TypeOK
<1>5. a \in Workers => j \notin Due(j[1])'
  BY <1>4 DEF Due, Handled
<1>6. a \in Sessions => a \notin Calling(j[1])'
  BY <1>2, <1>4 DEF Calling
<1>7. ASSUME NEW d \in Dels
      PROVE  Covered(d)'
  <2>1. CASE d = j[1]
    <3>1. owed'[d] = owed[d] - 1
      BY <1>1, <2>1 DEF TypeOK
    <3>2. CASE a \in Workers
      BY <1>1, <1>2, <1>3, <1>5, <2>1, <3>1, <3>2, PaidFor
    <3>3. CASE a \in Sessions
      BY <1>1, <1>2, <1>3, <1>6, <2>1, <3>1, <3>3, PaidFor
    <3>4. QED
      BY <3>2, <3>3 DEF Actors
  <2>2. CASE d # j[1]
    <3>1. owed'[d] = owed[d]
      BY <1>1, <2>2 DEF TypeOK
    <3>2. QED
      BY <1>1, <1>3, <3>1, AskedSame
  <2>3. QED
    BY <2>1, <2>2
<1>8. QED
  BY <1>7

-----------------------------------------------------------------------------
(* One lemma per group of actions.                                          *)

\* What a settled turn leaves: the job is made, its row is still locked.
LEMMA SettledShape ==
    ASSUME TypeOK, Shape, NEW a \in Actors, NEW j, j \in actor[a].todo \union actor[a].cur,
           actor[a].pc = "work" \/ j \in actor[a].cur
    PROVE  /\ InHand(Settled(a, j))
           /\ a \in Workers => Batched(Settled(a, j), event)
           /\ Settled(a, j).batch = actor[a].batch
           /\ Settled(a, j).todo = actor[a].todo \ {j}
           /\ Settled(a, j).cur = {}
           /\ Settled(a, j).made = actor[a].made \union {j}
<1>1. actor[a] \in ActorStates
  BY DEF TypeOK
<1>2. /\ Settled(a, j).pc = "work" /\ Settled(a, j).cur = {}
      /\ Settled(a, j).batch = actor[a].batch
      /\ Settled(a, j).todo = actor[a].todo \ {j}
      /\ Settled(a, j).made = actor[a].made \union {j}
      /\ Settled(a, j).kept = actor[a].kept /\ Settled(a, j).dropped = actor[a].dropped
  BY <1>1 DEF ActorStates, Settled
<1>3. InHand(Settled(a, j))
  BY <1>2 DEF InHand
<1>4. j \in actor[a].todo
  BY DEF Shape, InHand
<1>5. ASSUME a \in Workers
      PROVE  Batched(Settled(a, j), event)
  <2>1. Batched(actor[a], event)
    BY <1>5 DEF Shape
  <2>2. QED
    BY <1>2, <1>4, <2>1 DEF Batched
<1>6. QED
  BY <1>2, <1>3, <1>5

LEMMA LandsCount ==
    ASSUME Inv, Inv', CountInv, NEW a \in Actors, NEW j \in actor[a].todo, Lands(a, j)
    PROVE  CountInv'
<1> DEFINE s == [actor[a] EXCEPT !.pc = "mark", !.cur = {j}]
<1>1. /\ TypeOK /\ Shape /\ actor[a] \in ActorStates /\ actor[a].pc = "work"
      /\ j[1] \in Dels /\ event' = event
  BY JobParts DEF Inv, CountInv, TypeOK, ActorStates, Lands, MayDispatch
<1>2. /\ s.pc = "mark" /\ s.cur = {j} /\ s.batch = actor[a].batch /\ s.todo = actor[a].todo
      /\ s.made = actor[a].made /\ s.kept = actor[a].kept /\ s.dropped = actor[a].dropped
  BY <1>1 DEF ActorStates
<1>3. actor' = [actor EXCEPT ![a] = s]
  BY DEF Lands, Inv, TypeOK
<1> HIDE DEF s
<1>4. InHand(s)
  BY <1>2 DEF InHand
<1>5. a \in Workers => Batched(s, event)
  BY <1>1, <1>2 DEF Shape, Batched
<1>6. Shape'
  BY <1>1, <1>2, <1>3, <1>4, <1>5, KeepsRows
<1>7. owed' = [owed EXCEPT ![j[1]] = @ - 1]
  BY DEF Lands, Sent
<1>8. \A d \in Dels : Covered(d)'
  BY <1>1, <1>2, <1>3, <1>7, TurnPaid
<1>9. QED
  BY <1>6, <1>8 DEF CountInv

LEMMA RefusedCount ==
    ASSUME Inv, Inv', CountInv, NEW a \in Actors, NEW j \in actor[a].todo, Refused(a, j)
    PROVE  CountInv'
<1> DEFINE s == Settled(a, j)
<1>1. /\ TypeOK /\ Shape /\ actor[a].pc = "work" /\ j[1] \in Dels /\ event' = event
      /\ actor' = [actor EXCEPT ![a] = s]
  BY JobParts DEF Inv, CountInv, TypeOK, ActorStates, Refused, MayDispatch
<1>2. /\ InHand(s) /\ (a \in Workers => Batched(s, event))
      /\ s.batch = actor[a].batch /\ s.todo = actor[a].todo \ {j}
      /\ s.cur = {} /\ s.made = actor[a].made \union {j}
  BY <1>1, SettledShape
<1>3. actor[a].cur = {}
  BY <1>1, TurnDue
<1> HIDE DEF s
<1>4. CASE owed' = owed
  BY <1>1, <1>2, <1>3, <1>4, QuietCount
<1>5. CASE owed' = [owed EXCEPT ![j[1]] = @ - 1]
  <2>1. Shape'
    BY <1>1, <1>2, KeepsRows
  <2>2. \A d \in Dels : Covered(d)'
    BY <1>1, <1>2, <1>5, TurnPaid
  <2>3. QED
    BY <2>1, <2>2 DEF CountInv
<1>6. QED
  BY <1>4, <1>5 DEF Refused, Sent

\* What raised may have gone out, and is asked for again: nothing is paid.
LEMMA RaisesCount ==
    ASSUME Inv, Inv', CountInv, NEW a \in Actors, NEW j \in actor[a].todo, Raises(a, j)
    PROVE  CountInv'
<1>1. /\ TypeOK /\ Shape /\ actor[a].pc = "work" /\ actor[a] \in ActorStates
      /\ event' = event /\ owed' = owed
  BY DEF Inv, CountInv, TypeOK, Raises, MayDispatch, past
<1>2. actor[a].cur = {}
  BY <1>1, TurnDue
<1>3. CASE a \in Sessions
  <2>1. actor' = [actor EXCEPT ![a] = Settled(a, j)]
    BY <1>3 DEF Raises
  <2>2. /\ InHand(Settled(a, j)) /\ (a \in Workers => Batched(Settled(a, j), event))
        /\ Settled(a, j).batch = actor[a].batch /\ Settled(a, j).todo = actor[a].todo \ {j}
        /\ Settled(a, j).cur = {} /\ Settled(a, j).made = actor[a].made \union {j}
    BY <1>1, SettledShape
  <2>3. QED
    BY <1>1, <1>2, <2>1, <2>2, QuietCount
<1>4. CASE a \notin Sessions
  <2>1. Batched(actor[a], event)
    BY <1>1, <1>4 DEF Shape, Actors
  <2>2. PICK s : /\ actor' = [actor EXCEPT ![a] = s]
                 /\ s = [actor[a] EXCEPT !.todo = @ \ {j}, !.dropped = @ \union {j}]
                    \/ s = [actor[a] EXCEPT !.todo = @ \ {j}]
    BY <1>1, <1>4 DEF Raises, TypeOK
  <2>3. /\ s.pc = "work" /\ s.cur = {} /\ s.batch = actor[a].batch /\ s.todo = actor[a].todo \ {j}
        /\ s.made = actor[a].made /\ s.kept = actor[a].kept
        /\ s.dropped \subseteq actor[a].dropped \union {j}
    BY <1>1, <1>2, <2>2 DEF ActorStates
  <2>4. InHand(s) /\ Batched(s, event)
    BY <1>1, <2>1, <2>3 DEF InHand, Batched
  <2>5. QED
    BY <1>1, <1>2, <1>4, <2>2, <2>3, <2>4, QuietCount
<1>5. QED
  BY <1>3, <1>4

\* The books of a job in hand change nothing of what is asked for.
LEMMA BooksCount ==
    ASSUME Inv, Inv', CountInv, NEW a \in Actors, Mark(a) \/ Resolve(a) \/ BooksFail(a)
    PROVE  CountInv'
<1>1. /\ TypeOK /\ Shape /\ actor[a] \in ActorStates /\ event' = event /\ owed' = owed
  BY DEF Inv, CountInv, TypeOK, Mark, Resolve, BooksFail, past
<1>2. PICK j \in actor[a].todo : actor[a].cur = {j}
  BY <1>1 DEF Mark, Resolve, BooksFail, Shape, InHand
<1>3. CASE Mark(a)
  <2> DEFINE s == [actor[a] EXCEPT !.pc = "resolve"]
  <2>1. actor' = [actor EXCEPT ![a] = s] /\ actor[a].pc = "mark"
    BY <1>1, <1>3 DEF Mark, TypeOK
  <2>2. /\ s.pc = "resolve" /\ s.cur = actor[a].cur /\ s.batch = actor[a].batch
        /\ s.todo = actor[a].todo /\ s.made = actor[a].made /\ s.kept = actor[a].kept
        /\ s.dropped = actor[a].dropped
    BY <1>1 DEF ActorStates
  <2> HIDE DEF s
  <2>3. InHand(s)
    BY <1>2, <2>2 DEF InHand
  <2>4. a \in Workers => Batched(s, event)
    BY <1>1, <2>1, <2>2 DEF Shape, Batched
  <2>5. QED
    BY <1>1, <2>1, <2>2, <2>3, <2>4, QuietCount
<1>4. CASE Resolve(a) \/ BooksFail(a)
  <2>1. actor' = [actor EXCEPT ![a] = Settled(a, j)]
    BY <1>2, <1>4 DEF Resolve, BooksFail
  <2>2. /\ InHand(Settled(a, j)) /\ (a \in Workers => Batched(Settled(a, j), event))
        /\ Settled(a, j).batch = actor[a].batch /\ Settled(a, j).todo = actor[a].todo \ {j}
        /\ Settled(a, j).cur = {} /\ Settled(a, j).made = actor[a].made \union {j}
    BY <1>1, <1>2, SettledShape
  <2>3. QED
    BY <1>1, <1>2, <2>1, <2>2, QuietCount
<1>5. QED
  BY <1>3, <1>4

\* A worker between two batches has no rows and has dispatched none of them.
LEMMA EmptyHanded ==
    ASSUME Shape, NEW w \in Workers, actor[w].pc \in {"idle", "ship"}
    PROVE  actor[w].batch = {} /\ actor[w].made = {} /\ actor[w].cur = {}
<1>1. InHand(actor[w]) /\ Batched(actor[w], event)
  BY DEF Shape, Actors
<1>2. QED
  BY <1>1 DEF InHand, Batched

LEMMA ClaimCount ==
    ASSUME Inv, Inv', CountInv, NEW w \in Workers, Claim(w)
    PROVE  CountInv'
<1> DEFINE rows == event \ Locked
           s == [Idle EXCEPT !.pc = IF rows = {} THEN "ship" ELSE "work",
                             !.op = "drain", !.batch = rows, !.todo = rows]
<1>1. /\ TypeOK /\ Shape /\ w \in Actors /\ w \notin Sessions /\ event' = event /\ owed' = owed
      /\ actor' = [actor EXCEPT ![w] = s] /\ actor[w].pc = "idle"
  BY ActorAssumption DEF Inv, CountInv, Actors, Claim, past
<1>2. /\ s.pc = IF rows = {} THEN "ship" ELSE "work"
      /\ s.batch = rows /\ s.todo = rows
      /\ s.made = {} /\ s.kept = {} /\ s.dropped = {} /\ s.cur = {}
  BY DEF Idle
<1> HIDE DEF s
<1>3. InHand(s) /\ Batched(s, event)
  BY <1>2 DEF InHand, Batched
<1>4. \A v \in Workers : /\ actor[v].batch \subseteq event
                         /\ s.batch \intersect actor[v].batch = {}
  BY <1>1, <1>2 DEF Shape, Batched, Locked
<1>5. Shape'
  BY <1>1, <1>3, <1>4, ShapeStep
<1>6. \A d \in Dels : Due(d)' \subseteq Due(d) /\ Calling(d)' \subseteq Calling(d)
  BY <1>1, OneMoves, EmptyHanded
<1>7. \A d \in Dels : Covered(d)'
  BY <1>1, <1>6, AskedSame DEF Inv, CountInv
<1>8. QED
  BY <1>5, <1>7 DEF CountInv

LEMMA HoldCount ==
    ASSUME Inv, Inv', CountInv, NEW w \in Workers, NEW e \in actor[w].todo, Hold(w, e)
    PROVE  CountInv'
<1> DEFINE s == [actor[w] EXCEPT !.todo = @ \ {e}, !.kept = @ \union {e}]
<1>1. /\ TypeOK /\ Shape /\ w \in Actors /\ w \notin Sessions /\ event' = event /\ owed' = owed
      /\ actor[w].pc = "work" /\ actor[w] \in ActorStates
  BY ActorAssumption DEF Inv, CountInv, Actors, Hold, past, TypeOK
<1>2. actor' = [actor EXCEPT ![w] = s]
  BY <1>1 DEF Hold, TypeOK
<1>3. /\ s.pc = "work" /\ s.batch = actor[w].batch /\ s.todo = actor[w].todo \ {e}
      /\ s.made = actor[w].made /\ s.kept = actor[w].kept \union {e}
      /\ s.dropped = actor[w].dropped /\ s.cur = actor[w].cur
  BY <1>1 DEF ActorStates
<1>4. actor[w].cur = {} /\ Batched(actor[w], event)
  BY <1>1, TurnDue DEF Shape
<1> HIDE DEF s
<1>5. InHand(s) /\ Batched(s, event)
  BY <1>3, <1>4 DEF InHand, Batched
<1>6. QED
  BY <1>1, <1>2, <1>3, <1>5, QuietCount

\* The rows that leave were dispatched, given up, or held; a card pays for its event.
LEMMA CommitCount ==
    ASSUME Inv, Inv', CountInv, NEW w \in Workers, Commit(w)
    PROVE  CountInv'
<1> DEFINE s == [Idle EXCEPT !.op = "drain", !.pc = "ship"]
           cards == {e[1] : e \in actor[w].kept}
<1>1. /\ TypeOK /\ TypeOK' /\ Shape /\ IsFiniteSet(Sessions) /\ \A d \in Dels : Covered(d)
  BY DEF Inv, CountInv
<1>2. /\ w \in Actors /\ w \notin Sessions /\ actor[w].pc = "work"
      /\ event' = event \ (actor[w].made \union actor[w].kept \union actor[w].dropped)
      /\ owed' = [d \in Dels |-> IF d \in cards THEN owed[d] - 1 ELSE owed[d]]
      /\ actor' = [actor EXCEPT ![w] = s]
  BY ActorAssumption DEF Actors, Commit
<1>3. Batched(actor[w], event) /\ actor[w].cur = {}
  BY <1>1, <1>2 DEF Shape, InHand
<1>4. /\ s.pc = "ship" /\ s.batch = {} /\ s.todo = {} /\ s.made = {} /\ s.kept = {}
      /\ s.dropped = {} /\ s.cur = {}
  BY DEF Idle
<1> HIDE DEF s
<1>5. actor'[w] = s /\ \A b \in Actors : b # w => actor'[b] = actor[b]
  BY <1>1, <1>2 DEF TypeOK
<1>6. Shape'
  <2>1. InHand(s) /\ Batched(s, event')
    BY <1>4 DEF InHand, Batched
  <2>2. \A v \in Workers : v # w => actor[v].batch \subseteq event'
    BY <1>1, <1>2, <1>3 DEF Shape, Batched, Skipped
  <2>3. QED
    BY <1>1, <1>2, <1>4, <2>1, <2>2, ShapeStep
<1>7. \A d \in Dels : Calling(d)' = Calling(d)
  BY <1>2, <1>5 DEF Calling, Actors
<1>8. \A d \in Dels : Due(d)' \subseteq Due(d)
  BY <1>2, <1>3, <1>5 DEF Due, Handled, Actors
<1>9. ASSUME NEW d \in Dels
      PROVE  Covered(d)'
  <2>1. CASE d \in cards
    <3>1. PICK x \in actor[w].kept : x[1] = d
      BY <2>1
    <3>2. x \in event /\ x \in actor[w].batch /\ x \notin Handled(w)
      BY <1>3 DEF Batched, Handled
    <3>3. x \in Due(d)
      BY <1>1, <3>1, <3>2, HandledOwn DEF Due
    <3>4. x \notin Due(d)'
      BY <1>2 DEF Due
    <3>5. owed'[d] = owed[d] - 1
      BY <1>2, <2>1
    <3>6. QED
      BY <1>1, <1>7, <1>8, <3>3, <3>4, <3>5, PaidFor
  <2>2. CASE d \notin cards
    <3>1. owed'[d] = owed[d]
      BY <1>2, <2>2
    <3>2. QED
      BY <1>1, <1>7, <1>8, <3>1, AskedSame
  <2>3. QED
    BY <2>1, <2>2
<1>10. QED
  BY <1>1, <1>6, <1>9 DEF CountInv

LEMMA SweepCount ==
    ASSUME Inv, Inv', CountInv, NEW w \in Workers, Sweep(w)
    PROVE  CountInv'
<1>1. /\ TypeOK /\ Shape /\ w \in Actors /\ w \notin Sessions /\ event' = event /\ owed' = owed
      /\ actor' = [actor EXCEPT ![w] = Idle] /\ actor[w].pc = "ship"
  BY ActorAssumption DEF Inv, CountInv, Actors, Sweep, past
<1>2. actor[w].batch = {} /\ actor[w].made = {} /\ actor[w].cur = {}
  BY <1>1, EmptyHanded
<1>3. InHand(Idle) /\ Batched(Idle, event) /\ Idle.batch = {} /\ Idle.todo = {}
  BY DEF InHand, Batched, Idle
<1>4. QED
  BY <1>1, <1>2, <1>3, QuietCount

\* A worker that dies forgets what it dispatched of its batch, and all of it is asked for
\* once more.
LEMMA CrashCount ==
    ASSUME Inv, Inv', CountInv, NEW a \in Actors, Crash(a)
    PROVE  CountInv'
<1>1. /\ TypeOK /\ TypeOK' /\ Shape /\ IsFiniteSet(Sessions) /\ \A d \in Dels : Covered(d)
      /\ event' = event /\ actor' = [actor EXCEPT ![a] = Idle]
  BY DEF Inv, CountInv, Crash
<1>2. /\ InHand(Idle) /\ Batched(Idle, event) /\ Idle.batch = {} /\ Idle.todo = {}
      /\ Idle.made = {} /\ Idle.cur = {}
  BY DEF InHand, Batched, Idle
<1>3. Shape'
  BY <1>1, <1>2, KeepsRows
<1>4. CASE a \in Workers
  <2>1. a \notin Sessions
    BY <1>4, ActorAssumption
  <2>2. actor'[a] = Idle /\ \A b \in Actors : b # a => actor'[b] = actor[b]
    BY <1>1 DEF TypeOK
  <2>3. ASSUME NEW d \in Dels
        PROVE  Covered(d)'
    <3> DEFINE X == {j \in actor[a].made \union actor[a].cur : j[1] = d}
    <3>1. owed'[d] = owed[d] + Cardinality(X)
      BY <1>4 DEF Crash
    <3>2. \A e \in X : e \in Events /\ e[1] = d
      <4>1. Handled(a) \subseteq event
        BY <1>1, <1>4, HandledOwn DEF Shape, Batched
      <4>2. QED
        BY <1>1, <4>1 DEF Handled, TypeOK
    <3>3. IsFiniteSet(X)
      BY <3>2, EventsFinite
    <3>4. Due(d)' \subseteq Due(d) \union X
      BY <1>1, <2>2 DEF Due, Handled, Actors
    <3>5. Calling(d)' \subseteq Calling(d)
      BY <2>1, <2>2 DEF Calling, Actors
    <3>6. owed'[d] >= owed[d] + Cardinality(X)
      <4>1. owed'[d] \in Int
        BY <1>1 DEF TypeOK
      <4>2. QED
        BY <3>1, <4>1
    <3> HIDE DEF X
    <3>7. QED
      BY <1>1, <3>3, <3>4, <3>5, <3>6, AskedMore
  <2>4. QED
    BY <1>1, <1>3, <2>3 DEF CountInv
<1>5. CASE a \notin Workers
  <2>1. owed' = owed
    BY <1>5 DEF Crash
  <2>2. QED
    BY <1>1, <1>2, <1>5, <2>1, QuietCount
<1>6. QED
  BY <1>4, <1>5

\* A session that reads, decides against a dispatch, or is done.
LEMMA SessionCount ==
    ASSUME Inv, Inv', CountInv, NEW s \in Sessions,
           \/ ApproveDone(s) \/ CheckLeft(s) \/ Deny(s) \/ Reject(s)
           \/ \E op, D : ReadCards(s, op, D)
    PROVE  CountInv'
<1>1. /\ TypeOK /\ Shape /\ s \in Actors /\ s \notin Workers /\ actor[s] \in ActorStates
      /\ event' = event /\ owed' = owed
  BY ActorAssumption DEF Inv, CountInv, Actors, TypeOK, past, ApproveDone, CheckLeft, Deny,
                         Reject, ReadCards
<1>2. actor[s].pc \notin {"mark", "resolve"} /\ actor[s].cur = {}
  BY <1>1 DEF ApproveDone, CheckLeft, Deny, Reject, ReadCards, Shape, InHand
<1>3. PICK t : /\ actor' = [actor EXCEPT ![s] = t]
               /\ t.pc \notin {"mark", "resolve"} /\ t.cur = {} /\ t.batch \subseteq actor[s].batch
               /\ t.todo \subseteq actor[s].todo
  <2>1. CASE ApproveDone(s) \/ Deny(s) \/ Reject(s)
    <3>1. actor' = [actor EXCEPT ![s] = Idle]
      BY <2>1 DEF ApproveDone, Deny, Reject
    <3>2. Idle.pc = "idle" /\ Idle.cur = {} /\ Idle.batch = {} /\ Idle.todo = {}
      BY DEF Idle
    <3>3. QED
      BY <3>1, <3>2
  <2>2. CASE CheckLeft(s)
    <3>1. PICK f : actor' = [actor EXCEPT ![s].pc = "checked", ![s].freed = f]
      BY <2>2 DEF CheckLeft
    <3> DEFINE t == [actor[s] EXCEPT !.pc = "checked", !.freed = f]
    <3>2. actor' = [actor EXCEPT ![s] = t]
      BY <1>1, <3>1 DEF TypeOK
    <3>3. t.pc = "checked" /\ t.cur = {} /\ t.batch = actor[s].batch /\ t.todo = actor[s].todo
      BY <1>1, <1>2 DEF ActorStates
    <3> HIDE DEF t
    <3>4. QED
      BY <3>2, <3>3
  <2>3. CASE \E op, D : ReadCards(s, op, D)
    <3>1. PICK op, D : actor' = [actor EXCEPT ![s] = [Idle EXCEPT !.pc = "read", !.op = op,
                                                                  !.held = D]]
      BY <2>3 DEF ReadCards
    <3> DEFINE t == [Idle EXCEPT !.pc = "read", !.op = op, !.held = D]
    <3>2. t.pc = "read" /\ t.cur = {} /\ t.batch = {} /\ t.todo = {}
      BY DEF Idle
    <3>3. actor' = [actor EXCEPT ![s] = t]
      BY <3>1
    <3> HIDE DEF t
    <3>4. QED
      BY <3>2, <3>3
  <2>4. QED
    BY <2>1, <2>2, <2>3
<1>4. InHand(t)
  BY <1>3 DEF InHand
<1>5. QED
  BY <1>1, <1>2, <1>3, <1>4, QuietCount

\* An approval asks for one dispatch of each card it approves.
LEMMA ApproveCount ==
    ASSUME Inv, Inv', CountInv, NEW s \in Sessions, Approve(s)
    PROVE  CountInv'
<1> DEFINE H == actor[s].held
           t == [actor[s] EXCEPT !.pc = "work", !.todo = H \X {"card"}]
<1>1. /\ TypeOK /\ TypeOK' /\ Shape /\ IsFiniteSet(Sessions) /\ \A d \in Dels : Covered(d)
      /\ s \in Actors /\ s \notin Workers /\ actor[s] \in ActorStates
  BY ActorAssumption DEF Inv, CountInv, Actors, TypeOK
<1>2. event' = event /\ actor[s].pc = "read" /\ Owe(H) /\ H \subseteq Dels
  BY <1>1 DEF Approve, ActorStates
<1>3. actor' = [actor EXCEPT ![s] = t]
  BY <1>1 DEF Approve, TypeOK
<1>4. t.pc = "work" /\ t.todo = H \X {"card"} /\ t.cur = actor[s].cur
  BY <1>1 DEF ActorStates
<1>5. actor[s].cur = {}
  BY <1>1, <1>2 DEF Shape, InHand
<1> HIDE DEF t
<1>6. actor'[s] = t /\ \A b \in Actors : b # s => actor'[b] = actor[b]
  BY <1>1, <1>3 DEF TypeOK
<1>7. Shape'
  <2>1. InHand(t) /\ t.todo \subseteq Dels \X {"card"}
    BY <1>2, <1>4, <1>5 DEF InHand
  <2>2. \A w \in Workers : actor[w].batch \subseteq event'
    BY <1>1, <1>2 DEF Shape, Batched
  <2>3. QED
    BY <1>1, <1>3, <2>1, <2>2, ShapeStep
<1>8. \A d \in Dels : Due(d)' \subseteq Due(d)
  BY <1>1, <1>2, <1>6 DEF Due, Handled, Actors
<1>9. ASSUME NEW d \in Dels
      PROVE  Covered(d)'
  <2>1. CASE d \in H
    <3>1. owed'[d] >= owed[d] + 1
      BY <1>1, <1>2, <2>1 DEF Owe, TypeOK
    <3>2. Calling(d)' \subseteq Calling(d) \union {s}
      BY <1>6 DEF Calling, Actors
    <3>3. QED
      BY <1>1, <1>8, <3>1, <3>2, CallsMore
  <2>2. CASE d \notin H
    <3>1. owed'[d] = owed[d]
      BY <1>2, <2>2 DEF Owe
    <3>2. <<d, "card">> \notin t.todo
      BY <1>4, <2>2
    <3>3. Calling(d)' \subseteq Calling(d)
      BY <1>6, <3>2 DEF Calling, Actors
    <3>4. QED
      BY <1>1, <1>8, <3>1, <3>3, AskedSame
  <2>3. QED
    BY <2>1, <2>2
<1>10. QED
  BY <1>1, <1>7, <1>9 DEF CountInv

\* An event is asked for when it is written.
LEMMA WrittenCount ==
    ASSUME Inv, Inv', CountInv, NEW D \in SUBSET Dels, NEW k, actor' = actor,
           event' = event \union (D \X {k}), Owe(D)
    PROVE  CountInv'
<1>1. /\ TypeOK /\ TypeOK' /\ Shape /\ IsFiniteSet(Sessions) /\ \A d \in Dels : Covered(d)
  BY DEF Inv, CountInv
<1>2. Shape'
  BY <1>1 DEF Shape, InHand, Batched, Skipped
<1>3. ASSUME NEW d \in Dels
      PROVE  Covered(d)'
  <2>1. Calling(d)' = Calling(d)
    BY DEF Calling
  <2>2. CASE d \in D
    <3>1. IsFiniteSet({<<d, k>>}) /\ Cardinality({<<d, k>>}) = 1
      BY FS_Singleton
    <3>2. Due(d)' \subseteq Due(d) \union {<<d, k>>}
      BY DEF Due, Handled
    <3>3. owed'[d] >= owed[d] + Cardinality({<<d, k>>})
      BY <1>1, <2>2, <3>1 DEF Owe, TypeOK
    <3>4. QED
      BY <1>1, <2>1, <3>1, <3>2, <3>3, AskedMore
  <2>3. CASE d \notin D
    <3>1. Due(d)' \subseteq Due(d)
      BY <2>3 DEF Due, Handled
    <3>2. owed'[d] = owed[d]
      BY <2>3 DEF Owe
    <3>3. QED
      BY <1>1, <2>1, <3>1, <3>2, AskedSame
  <2>4. QED
    BY <2>2, <2>3
<1>4. QED
  BY <1>1, <1>2, <1>3 DEF CountInv

\* Nothing of what is counted changes.
LEMMA ElsewhereCount ==
    ASSUME CountInv, actor' = actor, event' = event, owed' = owed
    PROVE  CountInv'
<1>1. Shape'
  BY DEF CountInv, Shape, InHand, Batched, Skipped
<1>2. \A d \in Dels : Covered(d)'
  BY DEF CountInv, Covered, Due, Handled, Calling
<1>3. QED
  BY <1>1, <1>2 DEF CountInv

\* The run and the founder.
LEMMA RunCount ==
    ASSUME Inv, Inv', CountInv, RunSteps \/ Founder \/ Concludes
    PROVE  CountInv'
<1>1. CASE RunSteps
  <2>1. ASSUME NEW r \in Runs, Pick(r) \/ PauseForReview(r)
        PROVE  CountInv'
    BY <2>1, ElsewhereCount DEF Pick, PauseForReview, past
  <2>2. ASSUME NEW D \in SUBSET Dels, Emitted(D), actor' = actor
        PROVE  CountInv'
    BY <2>2, WrittenCount DEF Emitted
  <2>3. ASSUME NEW r \in Runs, Finish(r)
        PROVE  CountInv'
    <3>1. PICK d \in Of(r) : Emitted({d})
      BY <2>3 DEF Finish
    <3>2. {d} \in SUBSET Dels /\ actor' = actor
      BY <2>3 DEF Finish, Of
    <3>3. QED
      BY <2>2, <3>1, <3>2
  <2>4. ASSUME NEW d \in Dels, EmitPartial(d)
        PROVE  CountInv'
    BY <2>2, <2>4 DEF EmitPartial
  <2>5. QED
    BY <1>1, <2>1, <2>3, <2>4 DEF RunSteps
<1>2. CASE Founder
  <2>1. ASSUME SetSafeMode
        PROVE  CountInv'
    BY <2>1, ElsewhereCount DEF SetSafeMode, past
  <2>2. ASSUME NEW r \in Runs, CancelRun(r) \/ Reopen(r)
        PROVE  CountInv'
    BY <2>2, ElsewhereCount DEF CancelRun, Reopen, past
  <2>3. ASSUME NEW r \in Runs, ShipDecision(r)
        PROVE  CountInv'
    <3>1. PICK minted \in IF Of(r) \intersect born = {} THEN {{d} : d \in Of(r) \intersect Final}
                                                        ELSE {{}} :
              LET sends == IF r \in Remote THEN minted ELSE {} IN
              event' = event \union (sends \X {"resent"}) /\ Owe(sends) /\ actor' = actor
      BY <2>3 DEF ShipDecision
    <3> DEFINE sends == IF r \in Remote THEN minted ELSE {}
    <3>2. sends \in SUBSET Dels
      BY DEF Of
    <3> HIDE DEF sends
    <3>3. event' = event \union (sends \X {"resent"}) /\ Owe(sends) /\ actor' = actor
      BY <3>1 DEF sends
    <3>4. QED
      BY <3>2, <3>3, WrittenCount
  <2>4. ASSUME NEW d \in Dels, Redeliver(d)
        PROVE  CountInv'
    <3>1. event' = event \union ({d} \X {"resent"})
      BY <2>4 DEF Redeliver
    <3>2. Owe({d}) /\ actor' = actor /\ {d} \in SUBSET Dels
      BY <2>4 DEF Redeliver
    <3>3. QED
      BY <3>1, <3>2, WrittenCount
  <2>5. QED
    BY <1>2, <2>1, <2>2, <2>3, <2>4 DEF Founder
<1>3. CASE Concludes
  BY <1>3, ElsewhereCount DEF Concludes, PrConcluded, past
<1>4. QED
  BY <1>1, <1>2, <1>3

-----------------------------------------------------------------------------
(* The theorem.                                                             *)

LEMMA CountStep == Inv /\ Inv' /\ CountInv /\ [Next]_vars => CountInv'
<1> SUFFICES ASSUME Inv, Inv', CountInv, [Next]_vars
             PROVE  CountInv'
  OBVIOUS
<1>1. CASE Dispatches
  BY <1>1, LandsCount, RefusedCount, RaisesCount DEF Dispatches
<1>2. CASE Books
  BY <1>2, BooksCount DEF Books
<1>3. CASE Drains
  BY <1>3, ClaimCount, CommitCount, SweepCount, HoldCount DEF Drains
<1>4. CASE Queue
  BY <1>4, ApproveCount, SessionCount DEF Queue
<1>5. CASE Crashes
  BY <1>5, CrashCount DEF Crashes
<1>6. CASE RunSteps \/ Founder \/ Concludes
  BY <1>6, RunCount
<1>7. CASE UNCHANGED vars
  BY <1>7, ElsewhereCount DEF vars
<1>8. QED
  BY <1>1, <1>2, <1>3, <1>4, <1>5, <1>6, <1>7 DEF Next

LEMMA CountInit == IsFiniteSet(Sessions) /\ Init => CountInv
<1> SUFFICES ASSUME IsFiniteSet(Sessions), Init
             PROVE  CountInv
  OBVIOUS
<1>1. \A a \in Actors : actor[a] = Idle
  BY DEF Init
<1>2. Shape
  BY <1>1 DEF Shape, InHand, Batched, Skipped, Idle, Actors
<1>3. ASSUME NEW d \in Dels
      PROVE  Covered(d)
  <2>1. Due(d) = {} /\ Calling(d) = {} /\ owed[d] = 0
    BY <1>1 DEF Init, Due, Calling, Idle, Actors
  <2>2. Cardinality(Due(d)) = 0 /\ Cardinality(Calling(d)) = 0
    BY <2>1, FS_EmptySet
  <2>3. QED
    BY <2>1, <2>2 DEF Covered
<1>4. QED
  BY <1>2, <1>3 DEF CountInv

\* Every dispatch still to come was asked for, whatever the workers, the founder's
\* sessions and their crashes do to the event table.
LEMMA CountHolds == IsFiniteSet(Sessions) /\ Spec => []CountInv
<1>1. IsFiniteSet(Sessions) /\ Init => CountInv
  BY CountInit
<1>2. Inv /\ Inv' /\ CountInv /\ [Next]_vars => CountInv'
  BY CountStep
<1>3. QED
  BY <1>1, <1>2, Invariance, PTL DEF Spec

\* AskedFor: no delivery is dispatched more often than the events, approvals, "Send again"
\* clicks, raised dispatches and lost batches ask for (delivery_worker.drain_once with its
\* row locks, SafeModeQueue and _redeliver), with any number of workers and finitely many
\* sessions.
THEOREM DeliveryAskedFor == IsFiniteSet(Sessions) /\ Spec => []AskedFor
<1>1. Inv /\ CountInv => AskedFor
  <2> SUFFICES ASSUME Inv, CountInv, NEW d \in Dels
               PROVE  owed[d] >= 0
    BY DEF AskedFor
  <2>1. IsFiniteSet(Due(d)) /\ IsFiniteSet(Calling(d)) /\ owed[d] \in Int
    <3>1. \A e \in Due(d) : e \in Events /\ e[1] = d
      BY DEF Due, Inv, TypeOK
    <3>2. Calling(d) \subseteq Sessions
      BY DEF Calling
    <3>3. QED
      BY <3>1, <3>2, EventsFinite, FS_Subset DEF Inv, CountInv, TypeOK
  <2>2. owed[d] >= Cardinality(Due(d)) + Cardinality(Calling(d))
    BY DEF CountInv, Covered
  <2>3. Cardinality(Due(d)) \in Nat /\ Cardinality(Calling(d)) \in Nat
    BY <2>1, FS_CardinalityType
  <2>4. QED
    BY <2>1, <2>2, <2>3
<1>2. QED
  BY <1>1, Invariance, CountHolds, PTL

=============================================================================
