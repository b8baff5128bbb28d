---------------------------- MODULE EndlessMonitor ----------------------------
(***************************************************************************)
(* The monitor of one worker thread (skynet_monitor.c): the worker notes   *)
(* the service whose callback it enters, and the monitor thread looks      *)
(* every five seconds whether it is still the same callback.  There is no  *)
(* lock: the worker stores the destination and then counts the version,    *)
(* the monitor thread reads both again each time it needs them.            *)
(***************************************************************************)
EXTENDS Naturals

CONSTANTS Services,
          MaxVersion    \* bound on the callbacks

Nobody == "none"

VARIABLES version, checked, destination,   \* skynet_monitor
          worker,      \* "idle", "stored", "callback", "returned" or "cleared"
          running,     \* the service whose callback runs
          monitor,     \* "sleep", "same" or "named": where the check is
          named,       \* the destination the check has read
          endless,     \* skynet_context.endless
          recent       \* history: what was dispatched since the last check

vars == <<version, checked, destination, worker, running, monitor, named, endless, recent>>

Init == /\ version = 0 /\ checked = 0 /\ destination = Nobody
        /\ worker = "idle" /\ running = Nobody
        /\ monitor = "sleep" /\ named = Nobody
        /\ endless = {} /\ recent = {}

-----------------------------------------------------------------------------
(* A worker dispatches a message.                                          *)

\* skynet_monitor_trigger(sm, source, handle): the destination
Store(s) == /\ worker = "idle" /\ version < MaxVersion
            /\ destination' = s /\ running' = s
            /\ worker' = "stored"
            /\ recent' = recent \cup {s}
            /\ UNCHANGED <<version, checked, monitor, named, endless>>

\* skynet_monitor_trigger: the version
CountUp == /\ worker = "stored" /\ version' = version + 1
           /\ worker' = "callback"
           /\ UNCHANGED <<checked, destination, running, monitor, named, endless, recent>>

\* cmd_stat("endless"): the service reads and clears its mark
ReadMark == /\ worker = "callback" /\ running \in endless
            /\ endless' = endless \ {running}
            /\ UNCHANGED <<version, checked, destination, worker, running, monitor, named, recent>>

Return == /\ worker = "callback"
          /\ worker' = "returned"
          /\ UNCHANGED <<version, checked, destination, running, monitor, named, endless, recent>>

\* A fault: the destination is left as it was.
Clear_not == /\ worker = "returned" /\ worker' = "cleared" /\ running' = Nobody
             /\ UNCHANGED <<version, checked, destination, monitor, named, endless, recent>>

\* skynet_monitor_trigger(sm, 0, 0)
Clear == /\ worker = "returned"
         /\ destination' = Nobody /\ running' = Nobody
         /\ worker' = "cleared"
         /\ UNCHANGED <<version, checked, monitor, named, endless, recent>>

CountCleared == /\ worker = "cleared" /\ version < MaxVersion
                /\ version' = version + 1
                /\ worker' = "idle"
                /\ UNCHANGED <<checked, destination, running, monitor, named, endless, recent>>

-----------------------------------------------------------------------------
(* thread_monitor                                                          *)

Between == recent' = IF running = Nobody THEN {} ELSE {running}

\* skynet_monitor_check: the version
Look == /\ monitor = "sleep"
        /\ IF version = checked THEN monitor' = "same" /\ UNCHANGED <<checked, recent>>
                                ELSE checked' = version /\ Between /\ UNCHANGED monitor
        /\ UNCHANGED <<version, destination, worker, running, named, endless>>

\* The destination is read to be tested, and read again for the call.
Test == /\ monitor = "same"
        /\ IF destination = Nobody THEN monitor' = "sleep" /\ Between
                                 ELSE monitor' = "named" /\ UNCHANGED recent
        /\ UNCHANGED <<version, checked, destination, worker, running, named, endless>>

\* skynet_context_endless: no service has the handle 0
Mark == /\ monitor = "named"
        /\ named' = destination
        /\ endless' = IF destination = Nobody THEN endless ELSE endless \cup {destination}
        /\ monitor' = "sleep" /\ Between
        /\ UNCHANGED <<version, checked, destination, worker, running>>

Next == \/ \E s \in Services : Store(s)
        \/ CountUp \/ ReadMark \/ Return \/ Clear \/ CountCleared
        \/ Look \/ Test \/ Mark

\* The monitor thread wakes up for ever; a callback need not return.
Spec == /\ Init /\ [][Next]_vars
        /\ WF_vars(Look) /\ WF_vars(Test) /\ WF_vars(Mark)
        /\ WF_vars(CountUp)

-----------------------------------------------------------------------------
TypeOK == /\ version \in 0..MaxVersion /\ checked \in 0..version
          /\ destination \in Services \cup {Nobody}
          /\ worker \in {"idle", "stored", "callback", "returned", "cleared"}
          /\ running \in Services \cup {Nobody} /\ named \in Services \cup {Nobody}
          /\ monitor \in {"sleep", "same", "named"}
          /\ endless \subseteq Services /\ recent \subseteq Services

\* A service is marked only if the worker has been in its callback since the
\* last check, whatever the two threads read of each other's halfway changes.
\* (It need not have been there for five seconds: a check between the two
\* stores of the worker takes the new destination for the old callback.)
MarksRecent == [][\A s \in endless' \ endless : s \in recent]_vars

\* A callback that does not return is found, unless the service looks at its
\* mark itself.
FindsEndless == \A s \in Services :
    [](<>[](worker = "callback" /\ running = s) => <>(s \in endless))
=============================================================================
