-------------------------- MODULE SessionLifecycle --------------------------
(***************************************************************************)
(* What the session registry promises about each SSH session, without the   *)
(* handlers: a session is opened once, is closed once, and disappears in    *)
(* one step, when all of it is closed.  A session that is being closed      *)
(* never becomes usable again.                                              *)
(***************************************************************************)
CONSTANT Sessions

VARIABLE life   \* where each session is in its life

LifeInit == life = [c \in Sessions |-> "unborn"]

Move(c, from, to) ==
    /\ life[c] = from
    /\ life' = [life EXCEPT ![c] = to]

Open(c) == Move(c, "unborn", "live")

BeginClose(c) == Move(c, "live", "closing")

Forget(c) == Move(c, "closing", "gone")

LifeNext == \E c \in Sessions : Open(c) \/ BeginClose(c) \/ Forget(c)

LifeSpec == LifeInit /\ [][LifeNext]_life

\* What has begun to close is gone in the end.
Completes(c) == (life[c] = "closing") ~> (life[c] = "gone")
=============================================================================
