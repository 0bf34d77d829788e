------------------------- MODULE BlockingQueueProofs -------------------------
(***************************************************************************)
(* No wakeup is lost in a BlockingQueue, however many threads pop.         *)
(***************************************************************************)
EXTENDS BlockingQueue, FiniteSetTheorems, SequenceTheorems, TLAPS

\* The threads inside pop that do not wait.
Awake == popping \ pop_q

\* The counts below are counts of finite sets.
LEMMA AwakeFinite ==
  ASSUME TypeOK
  PROVE  IsFiniteSet(Awake) /\ Cardinality(Awake) \in Nat /\ Len(q) \in Nat
<1>1. IsFiniteSet(Awake)
  BY BlockingQueueAssumption, FS_Subset DEF TypeOK, Awake
<1> QED BY <1>1, FS_CardinalityType DEF TypeOK

\* notify_one wakes a thread that waits, if one does.
LEMMA Notified ==
  ASSUME TypeOK, notify_one(pop_q)
  PROVE  \/ pop_q = {} /\ pop_q' = {}
         \/ \E t \in pop_q : pop_q' = pop_q \ {t}
BY DEF notify_one

\* Types, whatever is pushed and popped.
LEMMA TypeStep == TypeOK /\ [Next]_vars => TypeOK'
<1> SUFFICES ASSUME TypeOK, [Next]_vars PROVE TypeOK'
  OBVIOUS
<1>1. CASE \E v \in Messages : push(v)
  BY <1>1, Notified DEF TypeOK, push
<1>2. CASE \E t \in Poppers : pop(t)
  BY <1>2 DEF TypeOK, pop
<1>3. CASE \E t \in Poppers : pop_wait(t)
  BY <1>3 DEF TypeOK, pop_wait
<1>4. CASE \E t \in Poppers : pop_front(t)
  <2>1. PICK t \in Poppers : pop_front(t)
    BY <1>4
  <2>2. Tail(q) \in Seq(Messages)
    BY <2>1, HeadTailProperties DEF TypeOK, pop_front
  <2>3. pop_q' \subseteq pop_q
    BY <2>1, Notified DEF pop_front
  <2> QED BY <2>1, <2>2, <2>3 DEF TypeOK, pop_front
<1>5. CASE \E t \in Poppers : Spurious(t)
  BY <1>5 DEF TypeOK, Spurious
<1>6. CASE UNCHANGED vars
  BY <1>6 DEF TypeOK, vars
<1> QED BY <1>1, <1>2, <1>3, <1>4, <1>5, <1>6 DEF Next

\* NoLostWakeup with TypeOK is inductive: a message more wakes a thread more,
\* a thread that returns takes a message along, and none waits while there is
\* a message.
LEMMA WakeupStep == TypeOK /\ NoLostWakeup /\ [Next]_vars => NoLostWakeup'
<1> SUFFICES ASSUME TypeOK, NoLostWakeup, [Next]_vars, pop_q' # {}
             PROVE  Len(q') <= Cardinality(Awake')
  BY DEF NoLostWakeup, Awake
<1>1. IsFiniteSet(Awake) /\ Cardinality(Awake) \in Nat /\ Len(q) \in Nat
  BY AwakeFinite
<1>2. pop_q # {} => Len(q) <= Cardinality(Awake)
  BY DEF NoLostWakeup, Awake
<1>3. ASSUME NEW t, t \notin Awake
      PROVE  Cardinality(Awake \cup {t}) = Cardinality(Awake) + 1
  BY <1>1, <1>3, FS_AddElement
<1>4. ASSUME NEW v \in Messages, push(v) PROVE Len(q') <= Cardinality(Awake')
  <2>1. PICK t \in pop_q : pop_q' = pop_q \ {t}
    BY <1>4, Notified DEF push
  <2>2. Awake' = Awake \cup {t} /\ t \notin Awake
    BY <1>4, <2>1 DEF push, Awake, TypeOK
  <2>3. Len(q') = Len(q) + 1
    BY <1>4, AppendProperties DEF push, TypeOK
  <2>4. Cardinality(Awake') = Cardinality(Awake) + 1
    BY <1>3, <2>2
  <2> QED BY <1>1, <1>2, <2>1, <2>3, <2>4
<1>5. ASSUME NEW t \in Poppers, pop(t) PROVE Len(q') <= Cardinality(Awake')
  <2>1. Awake' = Awake \cup {t} /\ t \notin Awake /\ pop_q' = pop_q /\ q' = q
    BY <1>5 DEF pop, Awake, TypeOK
  <2>2. Cardinality(Awake') = Cardinality(Awake) + 1
    BY <1>3, <2>1
  <2> QED BY <1>1, <1>2, <2>1, <2>2
<1>6. ASSUME NEW t \in Poppers, pop_wait(t) PROVE Len(q') <= Cardinality(Awake')
  <2>1. Len(q') = 0
    BY <1>6 DEF pop_wait
  <2>2. Cardinality(Awake') \in Nat
    <3>1. IsFiniteSet(Awake')
      <4>1. Awake' \subseteq Awake
        BY <1>6 DEF pop_wait, Awake
      <4> QED BY <1>1, <4>1, FS_Subset
    <3> QED BY <3>1, FS_CardinalityType
  <2> QED BY <2>1, <2>2
<1>7. ASSUME NEW t \in Poppers, pop_front(t) PROVE Len(q') <= Cardinality(Awake')
  <2>1. PICK u \in pop_q : pop_q' = pop_q \ {u}
    BY <1>7, Notified DEF pop_front
  <2>2. t \in Awake /\ u \notin Awake
    BY <1>7 DEF pop_front, Awake
  <2>3. Awake' = (Awake \ {t}) \cup {u}
    BY <1>7, <2>1 DEF pop_front, Awake, TypeOK
  <2>4. IsFiniteSet(Awake \ {t}) /\ Cardinality(Awake \ {t}) = Cardinality(Awake) - 1
    BY <1>1, <2>2, FS_RemoveElement
  <2>5. Cardinality(Awake') = Cardinality(Awake \ {t}) + 1
    BY <2>2, <2>3, <2>4, FS_AddElement
  <2>6. Len(q') = Len(q) - 1
    BY <1>7, HeadTailProperties DEF pop_front, TypeOK
  <2> QED BY <1>1, <1>2, <2>1, <2>4, <2>5, <2>6
<1>8. ASSUME NEW t \in Poppers, Spurious(t) PROVE Len(q') <= Cardinality(Awake')
  <2>1. Awake' = Awake \cup {t} /\ t \notin Awake /\ t \in pop_q /\ q' = q
    BY <1>8 DEF Spurious, Awake, TypeOK
  <2>2. Cardinality(Awake') = Cardinality(Awake) + 1
    BY <1>3, <2>1
  <2> QED BY <1>1, <1>2, <2>1, <2>2
<1>9. CASE UNCHANGED vars
  BY <1>2, <1>9 DEF vars, Awake
<1> QED BY <1>4, <1>5, <1>6, <1>7, <1>8, <1>9 DEF Next

\* No wakeup is lost, for every set of threads and every length of the queue.
THEOREM NoWakeupIsLost == Spec => [](TypeOK /\ NoLostWakeup)
<1>1. Init => TypeOK /\ NoLostWakeup
  BY DEF Init, TypeOK, NoLostWakeup
<1>2. TypeOK /\ NoLostWakeup /\ [Next]_vars => (TypeOK /\ NoLostWakeup)'
  BY TypeStep, WakeupStep
<1> QED BY <1>1, <1>2, PTL DEF Spec
=============================================================================
