--------------------------- MODULE MessageCounter ---------------------------
(***************************************************************************)
(* The process-wide counter of messages that were sent and whose handling  *)
(* has not been completed (class message_counter, a singleton).            *)
(*                                                                         *)
(* Every member function holds _mtx from its first to its last statement,  *)
(* except while it sleeps in _cv.wait, so each critical section is one     *)
(* action.  Both kinds of waiting threads sleep on the same condition      *)
(* variable, and both writers wake one sleeper only (notify_one).          *)
(***************************************************************************)
EXTENDS Integers

CONSTANT Waiters   \* application threads that may wait for the counter

VARIABLES
  size,        \* _size
  increased,   \* _increase_was_called
  waitsFor,    \* waitsFor[w]: the call thread w is inside of, or "nothing"
  asleep       \* the threads suspended in _cv.wait

counterVars == <<size, increased, waitsFor, asleep>>

TypeOK ==
  /\ size \in Int
  /\ increased \in BOOLEAN
  /\ waitsFor \in [Waiters -> {"nothing", "first", "empty"}]
  /\ asleep \subseteq Waiters
  /\ \A w \in asleep : waitsFor[w] # "nothing"

Init ==
  /\ size = 0
  /\ increased = FALSE
  /\ waitsFor = [w \in Waiters |-> "nothing"]
  /\ asleep = {}

\* Mutant: nobody is notified.
NotifyNobody == UNCHANGED asleep

(***************************************************************************)
(* _cv.notify_one(): some sleeping thread, if there is one, is woken.  It  *)
(* has to take _mtx again and to look at its predicate (Recheck).          *)
(***************************************************************************)
NotifyOne ==
  \/ asleep = {} /\ UNCHANGED asleep
  \/ \E w \in asleep : asleep' = asleep \ {w}

Increase ==
  /\ size' = size + 1
  /\ IF size' = 1 THEN increased' = TRUE /\ NotifyOne
                  ELSE UNCHANGED <<increased, asleep>>
  /\ UNCHANGED waitsFor

\* Mutants: _size-- == 0 instead of --_size == 0; a second decrement in a log line.
DecreasePostfix ==
  /\ size' = size - 1
  /\ IF size = 0 THEN NotifyOne ELSE UNCHANGED asleep
  /\ UNCHANGED <<increased, waitsFor>>

DecreaseTwice ==
  /\ size' = size - 2
  /\ IF size' = 0 THEN NotifyOne ELSE UNCHANGED asleep
  /\ UNCHANGED <<increased, waitsFor>>

Decrease ==
  /\ size' = size - 1
  /\ IF size' = 0 THEN NotifyOne ELSE UNCHANGED asleep
  /\ UNCHANGED <<increased, waitsFor>>

\* wait_until_first(): sleeps unless some message was ever counted.
WaitUntilFirst(w) ==
  /\ waitsFor[w] = "nothing"
  /\ ~increased
  /\ waitsFor' = [waitsFor EXCEPT ![w] = "first"]
  /\ asleep' = asleep \cup {w}
  /\ UNCHANGED <<size, increased>>

\* Mutant: _cv.wait without a predicate.
WaitWithoutPredicate(w) ==
  /\ waitsFor[w] = "nothing"
  /\ size > 0
  /\ asleep' = asleep \cup {w}
  /\ UNCHANGED <<size, increased, waitsFor>>

\* wait_until_empty(): sleeps if messages are outstanding.
WaitUntilEmpty(w) ==
  /\ waitsFor[w] = "nothing"
  /\ size > 0
  /\ waitsFor' = [waitsFor EXCEPT ![w] = "empty"]
  /\ asleep' = asleep \cup {w}
  /\ UNCHANGED <<size, increased>>

\* Mutant: every wake-up ends the wait.
MayAlwaysReturn(w) == waitsFor[w] # "nothing"

\* The predicate a sleeping thread passed to _cv.wait.
MayReturn(w) ==
  \/ waitsFor[w] = "first" /\ increased
  \/ waitsFor[w] = "empty" /\ size = 0

\* A woken thread holds _mtx again: it returns, or it goes back to sleep.
Return(w) ==
  /\ waitsFor[w] # "nothing"
  /\ w \notin asleep
  /\ MayReturn(w)
  /\ waitsFor' = [waitsFor EXCEPT ![w] = "nothing"]
  /\ UNCHANGED <<size, increased, asleep>>

SleepAgain(w) ==
  /\ waitsFor[w] # "nothing"
  /\ w \notin asleep
  /\ ~MayReturn(w)
  /\ asleep' = asleep \cup {w}
  /\ UNCHANGED <<size, increased, waitsFor>>

\* The standard lets a condition variable wake a thread for no reason.
SpuriousWakeup(w) ==
  /\ w \in asleep
  /\ asleep' = asleep \ {w}
  /\ UNCHANGED <<size, increased, waitsFor>>

Recheck(w) == Return(w) \/ SleepAgain(w)

Wait(w) ==
  \/ WaitUntilFirst(w)
  \/ WaitUntilEmpty(w)
  \/ Recheck(w)
  \/ SpuriousWakeup(w)
=============================================================================
