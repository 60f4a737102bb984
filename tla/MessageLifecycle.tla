--------------------------- MODULE MessageLifecycle ---------------------------
(***************************************************************************)
(* What the send path of the messenger promises about one message id,      *)
(* whatever the number of concurrent and repeated calls that carry it: the *)
(* message is stored, then its idempotency key, then ONE outbox event, and *)
(* the event is marked published last.  No id ever skips a stage or moves  *)
(* back: an announcement without a stored message, or a second event for a *)
(* message whose first event was already published, is impossible.         *)
(*                                                                         *)
(* This is the abstract specification; MessagePipeline implements it.      *)
(***************************************************************************)

CONSTANT Messages       \* message ids

VARIABLE stage          \* how far each id has come

Stages == {"absent", "stored", "keyed", "queued", "published"}

Follows(s, t) ==
    <<s, t>> \in { <<"absent", "stored">>, <<"stored", "keyed">>,
                   <<"keyed", "queued">>, <<"queued", "published">> }

LifecycleInit == stage = [m \in Messages |-> "absent"]

Advance(m) ==
    \E t \in Stages : /\ Follows(stage[m], t)
                      /\ stage' = [stage EXCEPT ![m] = t]

LifecycleNext == \E m \in Messages : Advance(m)

LifecycleSpec == LifecycleInit /\ [][LifecycleNext]_stage
=============================================================================
