------------------------------ MODULE JobLifecycle ------------------------------
(***************************************************************************)
(* What the delivery of messages to clients promises about one job, the    *)
(* pair of a message and a client, whatever the number of workers and the  *)
(* order of their steps: it is held by the process, then sent, or put off  *)
(* to the retry table, and it is at one of these at a time.  What was sent *)
(* is never sent again, and what was put off is never held again: it waits *)
(* until it is over.  A restart ends what the process was to do, and no    *)
(* more.                                                                   *)
(*                                                                         *)
(* This is the abstract specification; Delivery implements it.             *)
(***************************************************************************)

CONSTANTS Messages, Clients

VARIABLE place          \* where each job is

Jobs == Messages \X Clients

Places == {"new", "held", "waiting", "sent", "over"}

Leads(s, t) ==
    <<s, t>> \in { <<"new", "held">>, <<"new", "over">>, <<"held", "sent">>,
                   <<"held", "waiting">>, <<"held", "over">> }

LifecycleInit == place = [j \in Jobs |-> "new"]

\* The jobs of a message that will not be held are settled at once.
Announce(m) ==
    /\ place' \in [Jobs -> Places]
    /\ \A j \in Jobs :
          \/ place'[j] = place[j]
          \/ j[1] = m /\ place[j] = "new" /\ place'[j] \in {"sent", "over"}

Advance(j) ==
    \E t \in Places : /\ Leads(place[j], t)
                      /\ place' = [place EXCEPT ![j] = t]

\* All that wait with a message end.
Discard(m) ==
    \E ended \in SUBSET {j \in Jobs : j[1] = m /\ place[j] = "waiting"} :
        place' = [j \in Jobs |-> IF j \in ended THEN "over" ELSE place[j]]

Restart ==
    \E ended \in SUBSET {j \in Jobs : place[j] \in {"new", "held"}} :
        place' = [j \in Jobs |-> IF j \in ended THEN "over" ELSE place[j]]

LifecycleNext ==
    \/ \E m \in Messages : Announce(m) \/ Discard(m)
    \/ \E j \in Jobs : Advance(j)
    \/ Restart

LifecycleSpec == LifecycleInit /\ [][LifecycleNext]_place
=============================================================================
