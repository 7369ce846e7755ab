------------------------------ MODULE McpAuthority ------------------------------
(***************************************************************************)
(* What external access to a Job promises its owner.  The owner opens and  *)
(* closes numbered windows; someone who knows the code of the open window  *)
(* approves it; only an approved window admits keys, a key is admitted     *)
(* when it is first seen or never, and a new window admits nobody yet.     *)
(***************************************************************************)
EXTENDS Naturals

CONSTANTS Jobs, Names   \* Names: every key that may be drawn

VARIABLES
  window,     \* the current window of each Job
  approved,   \* windows whose code was presented while they were open
  admitted,   \* <<key, job>>: the keys with external authority over a Job
  seen        \* keys ever issued

vars == <<window, approved, admitted, seen>>

Init ==
  /\ window = [j \in Jobs |-> [enabled |-> FALSE, generation |-> 0]]
  /\ approved = {}
  /\ admitted = {}
  /\ seen = {}

\* The owner opens or closes a Job: its next window starts without its keys.
Reopen(job, enabled) ==
  /\ window' = [window EXCEPT ![job] = [enabled |-> enabled, generation |-> @.generation + 1]]
  /\ admitted' = {pair \in admitted : pair[2] # job}
  /\ UNCHANGED <<approved, seen>>

Approve(job) ==
  /\ window[job].enabled
  /\ approved' = approved \cup {<<job, window[job].generation>>}
  /\ UNCHANGED <<window, admitted, seen>>

\* A new key, admitted only when a window is open and approved.
See(key) ==
  /\ key \notin seen
  /\ seen' = seen \cup {key}
  /\ \/ admitted' = admitted
     \/ \E job \in Jobs :
          /\ window[job].enabled
          /\ <<job, window[job].generation>> \in approved
          /\ admitted' = admitted \cup {<<key, job>>}
  /\ UNCHANGED <<window, approved>>

\* A key is revoked or expires.
Drop(key) ==
  /\ admitted' = {pair \in admitted : pair[1] # key}
  /\ UNCHANGED <<window, approved, seen>>

Next ==
  \/ \E job \in Jobs, enabled \in BOOLEAN : Reopen(job, enabled)
  \/ \E job \in Jobs : Approve(job)
  \/ \E key \in Names : See(key)
  \/ \E key \in seen : Drop(key)

Spec == Init /\ [][Next]_vars
=============================================================================
