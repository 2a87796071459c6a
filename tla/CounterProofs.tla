--------------------------- MODULE CounterProofs ---------------------------
(***************************************************************************)
(* Proofs about the message counter under any load.                        *)
(***************************************************************************)
EXTENDS CounterLoad, TLAPS

LEMMA LoadTypes == LoadTypeOK /\ [LoadNext]_vars => LoadTypeOK'
<1> SUFFICES ASSUME LoadTypeOK, [LoadNext]_vars
             PROVE  LoadTypeOK'
  OBVIOUS
<1> USE MaxSentAssumption DEF LoadTypeOK, TypeOK
<1>1. CASE Count
  <2>1. increased' \in BOOLEAN
    BY <1>1, Zenon DEF Count, Increase
  <2>2. size' \in Int /\ waitsFor' = waitsFor /\ asleep' \subseteq asleep
    BY <1>1 DEF Count, Increase, NotifyOne
  <2>3. sent' \in 0..MaxSent /\ size' \in 0..sent'
    BY <1>1 DEF Count, Increase
  <2> QED
    BY <2>1, <2>2, <2>3
<1>2. CASE Discount
  BY <1>2 DEF Discount, Decrease, NotifyOne
<1>3. ASSUME NEW w \in Waiters, Wait(w), UNCHANGED sent
      PROVE  LoadTypeOK'
  BY <1>3 DEF Wait, WaitUntilFirst, WaitUntilEmpty, Recheck, Return, SleepAgain, SpuriousWakeup
<1>4. CASE UNCHANGED vars
  BY <1>4 DEF vars
<1> QED
  BY <1>1, <1>2, <1>3, <1>4 DEF LoadNext

LEMMA LoadTypesInit == LoadInit => LoadTypeOK
<1> SUFFICES ASSUME LoadInit
             PROVE  LoadTypeOK
  OBVIOUS
<1>1. increased \in BOOLEAN
  BY Zenon DEF LoadInit, Init
<1> QED
  BY <1>1, MaxSentAssumption DEF LoadInit, Init, LoadTypeOK, TypeOK

\* The counter keeps its types, and it is never negative under this load.
THEOREM LoadTypeCorrect == Spec => []LoadTypeOK
<1> QED
  BY LoadTypesInit, LoadTypes, PTL DEF Spec

(***************************************************************************)
(* With one waiting thread no wake-up is lost: notify_one is enough, since *)
(* the thread it wakes is the only one that sleeps (message_counter.hpp).  *)
(***************************************************************************)
THEOREM OneSleeperCanRely ==
  ASSUME \A v, w \in Waiters : v = w
  PROVE  Spec => []SleepersCanRely
<1>1. LoadInit => SleepersCanRely
  BY DEF LoadInit, Init, SleepersCanRely
<1>2. LoadTypeOK /\ SleepersCanRely /\ [LoadNext]_vars => SleepersCanRely'
  <2> SUFFICES ASSUME LoadTypeOK, SleepersCanRely, [LoadNext]_vars,
                      NEW w \in asleep'
               PROVE  ~MayReturn(w)'
    BY DEF SleepersCanRely
  <2> USE DEF LoadTypeOK, TypeOK, SleepersCanRely, MayReturn
  <2>1. ASSUME NotifyOne
        PROVE  FALSE
    BY <2>1 DEF NotifyOne
  <2>2. CASE Count
    BY <2>1, <2>2, MaxSentAssumption DEF Count, Increase
  <2>3. CASE Discount
    BY <2>1, <2>3 DEF Discount, Decrease, NotifyOne
  <2>4. ASSUME NEW v \in Waiters, Wait(v)
        PROVE  ~MayReturn(w)'
    BY <2>4 DEF Wait, WaitUntilFirst, WaitUntilEmpty, Recheck, Return, SleepAgain, SpuriousWakeup
  <2>5. CASE UNCHANGED vars
    BY <2>5 DEF vars
  <2> QED
    BY <2>2, <2>3, <2>4, <2>5 DEF LoadNext
<1> QED
  BY <1>1, <1>2, LoadTypeCorrect, PTL DEF Spec
=============================================================================
