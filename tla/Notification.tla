---------------------------- MODULE Notification ----------------------------
(***************************************************************************)
(* What the publication path promises its clients, without its queue, its  *)
(* worker or its batches: signals are hints to query a key again, so only  *)
(* the latest mark of a key matters.  Every listener has heard the latest  *)
(* mark, or is still owed a signal, or missed it.  Nobody hears a mark     *)
(* before it is made, and after a signal nothing older is called current.  *)
(***************************************************************************)
CONSTANTS Listeners, Keys, Intents, None

VARIABLES
    last,    \* per key: the latest mark
    heard,   \* per listener and key: the latest signal
    status   \* per listener and key: told, owed or missed

vars == <<last, heard, status>>

Init ==
    /\ last = [k \in Keys |-> None]
    /\ heard = [t \in Listeners |-> [k \in Keys |-> None]]
    /\ status = [t \in Listeners |-> [k \in Keys |-> "told"]]

\* A mark owes every listener a signal, or is missed.
Mark(k, i, s) ==
    /\ last' = [last EXCEPT ![k] = i]
    /\ status' = [t \in Listeners |-> [status[t] EXCEPT ![k] = s[t]]]
    /\ UNCHANGED heard

\* A listener that is owed a signal gets one; it is told once the signal is
\* the latest mark.
Tell(t, k, i, s) ==
    /\ status[t][k] = "owed"
    /\ s = "told" => i = last[k]
    /\ heard' = [heard EXCEPT ![t][k] = i]
    /\ status' = [status EXCEPT ![t][k] = s]
    /\ UNCHANGED last

\* Signals that were owed are missed.
Miss(missed) ==
    /\ missed # {}
    /\ \A p \in missed : status[p[1]][p[2]] = "owed"
    /\ status' = [t \in Listeners |-> [k \in Keys |->
                    IF <<t, k>> \in missed THEN "missed" ELSE status[t][k]]]
    /\ UNCHANGED <<last, heard>>

Next ==
    \/ \E k \in Keys, i \in Intents, s \in [Listeners -> {"owed", "missed"}] :
          Mark(k, i, s)
    \/ \E t \in Listeners, k \in Keys, i \in Intents,
          s \in {"owed", "told", "missed"} :
          Tell(t, k, i, s)
    \/ \E missed \in SUBSET (Listeners \X Keys) : Miss(missed)

Spec == Init /\ [][Next]_vars

\* Whoever is neither owed a signal nor missed one has heard the latest mark.
ToldIsCurrent ==
    \A t \in Listeners, k \in Keys : status[t][k] = "told" => heard[t][k] = last[k]

=============================================================================
