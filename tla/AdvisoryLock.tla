---------------------------- MODULE AdvisoryLock ----------------------------
(***************************************************************************)
(* What the semaphore of sys/fio/osfnlock.x promises, without its files,   *)
(* its timers or its retries: an advisory lock that one process takes by   *)
(* consuming the free token, and that stays exclusive until somebody who   *)
(* does not hold it puts a token back (a break).                           *)
(***************************************************************************)

CONSTANT Proc           \* the processes that may ask for the lock

VARIABLES free,         \* a token is there to be taken
          holders,      \* the processes that believe they hold the lock
          broken        \* a token was put back by a process that had not taken it

avars == <<free, holders, broken>>

AInit ==
    /\ free \in BOOLEAN
    /\ holders = {}
    /\ broken = FALSE

Acquire(p) ==
    /\ free
    /\ free' = FALSE
    /\ holders' = holders \cup {p}
    /\ UNCHANGED broken

Release(p) ==
    /\ p \in holders
    /\ free' = TRUE
    /\ holders' = holders \ {p}
    /\ UNCHANGED broken

\* The holder goes away and leaves no token behind: it died, it gave up, or
\* it found that the lock was not its own any more.
Abandon(p) ==
    /\ p \in holders
    /\ holders' = holders \ {p}
    /\ UNCHANGED <<free, broken>>

\* The holder removes the semaphore together with the file it protects.
Withdraw(p) ==
    /\ p \in holders
    /\ free' = FALSE
    /\ UNCHANGED <<holders, broken>>

\* The semaphore is put in place for the first time.
Install ==
    /\ holders = {}
    /\ free' = TRUE
    /\ UNCHANGED <<holders, broken>>

\* A process that does not hold the lock puts a token back, or tries to.
Break ==
    /\ free' \in {free, TRUE}
    /\ broken' = TRUE
    /\ UNCHANGED holders

ANext ==
    \/ \E p \in Proc : Acquire(p) \/ Release(p) \/ Abandon(p) \/ Withdraw(p)
    \/ Install
    \/ Break

ASpec == AInit /\ [][ANext]_avars

ATypeOK ==
    /\ free \in BOOLEAN
    /\ holders \subseteq Proc
    /\ broken \in BOOLEAN

\* Exclusion of the advisory lock that osfn_lock implements: until the lock is
\* broken there is one token; either it is free, or one process has it.
Exclusion ==
    ~broken => /\ \A p, q \in holders : p = q
               /\ free => holders = {}

=============================================================================
