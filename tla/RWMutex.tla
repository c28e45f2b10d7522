------------------------------- MODULE RWMutex -------------------------------
(***************************************************************************)
(* Go's sync.RWMutex, as the main server uses it through server.mu.  The   *)
(* library is not part of the repository; what matters to its users is     *)
(* kept: a goroutine that calls Lock excludes later readers from the       *)
(* moment of the call, even while it still waits for the readers that were *)
(* there first, and Unlock admits every reader that queued up meanwhile    *)
(* before the next Lock can take effect.                                   *)
(***************************************************************************)
CONSTANTS
  Goroutines,  \* the goroutines that use the mutex
  Nobody       \* not a goroutine: the owner of a mutex nobody has locked

VARIABLE
  mu           \* [owner, readers, waiting]

MutexType == [owner   : Goroutines \cup {Nobody},
              readers : SUBSET Goroutines,
              waiting : SUBSET Goroutines]

Unlocked == [owner |-> Nobody, readers |-> {}, waiting |-> {}]

-----------------------------------------------------------------------------
\* Holding: what a goroutine blocked in RLock or Lock waits for.
ReadHeld(g)  == g \in mu.readers
WriteHeld(g) == mu.owner = g /\ mu.readers = {}

\* A call of RLock: admitted at once, or queued behind the goroutine that
\* has called Lock.
RLock(g) ==
  mu' = IF mu.owner = Nobody THEN [mu EXCEPT !.readers = @ \cup {g}]
                             ELSE [mu EXCEPT !.waiting = @ \cup {g}]

RUnlock(g) == mu' = [mu EXCEPT !.readers = @ \ {g}]

\* A call of Lock that wins the writers' mutex.  The lock is held only once
\* the readers admitted before it have left (WriteHeld).
Lock(g) == mu.owner = Nobody /\ mu' = [mu EXCEPT !.owner = g]

Unlock == mu' = [owner |-> Nobody, readers |-> mu.waiting, waiting |-> {}]
=============================================================================
