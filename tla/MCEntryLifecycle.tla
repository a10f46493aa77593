-------------------------- MODULE MCEntryLifecycle --------------------------
(* A small instance of EntryLifecycle for TLC, in two halves: an entry with  *)
(* a relay, whose polls read it and whose switch shows it, is set up once;   *)
(* one without goes through changes, reloads and setups that fail.           *)
EXTENDS EntryLifecycle

VARIABLE relays     \* the options have a relay

Unread == {"idle", "polling", "none"}

MCInit == Init /\ relays \in BOOLEAN

MCNext ==
    /\ Next
    /\ UNCHANGED relays
    /\ IF relays THEN UNCHANGED config
       ELSE /\ \A g \in Gens, w \in Ways : poll'[g][w] \in Unread
            /\ \A c \in Calls : call'[c] = Idle \/ call'[c].kind # "switch"

MCSpec == MCInit /\ [][MCNext]_<<vars, relays>> /\ Fairness
=============================================================================
