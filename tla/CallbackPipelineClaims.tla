------------------------ MODULE CallbackPipelineClaims ------------------------
(***************************************************************************)
(* What the documents of the repository say of callbacks and Close, and    *)
(* the steps of CallbackPipeline refute.                                   *)
(***************************************************************************)
EXTENDS CallbackPipeline

(* Callbacks that work until their context ends, as a callback may that    *)
(* trusts README.md: they are sure to return only once it is cancelled.    *)
UntilCancelledSpec ==
    /\ Spec
    /\ \A d \in Dispatchers : WF_vars(DispatcherStep(d))
    /\ WF_vars(Receive) /\ WF_vars(CallBack) /\ WF_vars(WorkerExit)
    /\ WF_vars(CallbackReturns /\ baseCtx = "cancelled")
    /\ \A c \in Closers : WF_vars(CloserStep(c))
    /\ WF_vars(EvictorSwept) /\ SF_vars(EvictorExit)

(* README.md: "ctx is cancelled when server.Close() is called." Close       *)
(* cancels it only after the last callback has returned, so a callback that *)
(* waits for it and Close wait for each other.                              *)
CloseCancelsContext ==
    (\E c \in Closers : closer[c] = "signal") ~> baseCtx = "cancelled"
===============================================================================
