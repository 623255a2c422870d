----------------------------- MODULE SdkInterrupts -----------------------------
(***************************************************************************)
(* SdkSession with Ctrl+C in the main thread also where run() has started  *)
(* the Run's thread and not yet begun to wait for it.  Python raises       *)
(* KeyboardInterrupt there too: Thread.start() itself waits until the new  *)
(* thread has begun.                                                       *)
(***************************************************************************)
EXTENDS SdkSession

\* Out of Thread.start(): started is still False although the thread goes
\* on, so the finally clause of run() finishes the Run.
InterruptStart(t) ==
  /\ t = Main
  /\ pc[t] = "starting"
  /\ Goto(t, "clear")
  /\ UNCHANGED <<session, run_of, seen_run, seen_input, timed, threads, core, attempts>>

InterruptedSpec == Init /\ [][Next \/ \E t \in Threads : InterruptStart(t)]_vars
=============================================================================
