------------------------------ MODULE MC_Executor ------------------------------
(* The instance of Executor that TLC checks.  The task queue is as small   *)
(* as the two spawned ids need, so the run also asks whether it can fill.  *)
EXTENDS Executor

\* Two characters read per interrupt and a scancode queue of two: an
\* interrupt can bring more than one character, a character can arrive in
\* each window, and the scancode queue can fill and drop.
MC_MaxReads == 2
MC_SCap == 2

\* As few task-queue slots as the two spawned ids need, and twice as many
\* characters as slots, each a chance for one more copy of the keyboard
\* task id.
MC_QCapSmall == 2
MC_MaxKeysMany == 2 * MC_QCapSmall
=============================================================================
