---------------------------- MODULE MCSoftLocks ----------------------------
(* Programs for the fibers of SoftLocks.tla. *)
EXTENDS SoftLocks

\* The main fiber starts the others, feeds them through a semaphore and joins
\* them; they sleep, contend for a lock and end with exit (as those of
\* Scripts/philosophers.fs and Scripts/pizzashop.fs).  Anything they do may
\* end in an error.
Workers ==
    [f \in Fibers |->
        IF f = main THEN {"init", "start", "sleep", "post", "join"}
        ELSE {"setError", "wait", "grab", "tryGrab", "ungrab", "sleep", "exit"}]

\* Semaphores may be initialised below zero.
SomeCounts == {-1, 1}

\* A main fiber that never waits, and others that take turns with a lock.
TakeTurns ==
    [f \in Fibers |-> IF f = main THEN {"yield", "start"}
                      ELSE {"yield", "grab", "ungrab"}]

=============================================================================
