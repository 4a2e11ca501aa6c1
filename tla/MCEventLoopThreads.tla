------------------------- MODULE MCEventLoopThreads -------------------------
(* EventLoopThreads on two posted tasks and two timers.                    *)
EXTENDS EventLoopThreads, TLC

CONSTANTS i1, i2, d1, d2

\* The timers are started by the posted tasks, as the coroutines do.
NestedOrigin == (i1 :> Outside) @@ (i2 :> Outside) @@ (d1 :> i1) @@ (d2 :> i2)

=============================================================================
