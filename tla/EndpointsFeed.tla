---------------------------- MODULE EndpointsFeed ----------------------------
(***************************************************************************)
(* What the registration shim promises EPP, without threads, ids or files: *)
(* engines come and go one at a time, and each change is published before  *)
(* the next one is made, so that a reader sees the registry's own history, *)
(* with nothing skipped, repeated or half written.  Requests that overlap  *)
(* or fail disturb this, and then the reader may see anything, until a     *)
(* later change is published in full.                                      *)
(***************************************************************************)
CONSTANTS Addresses  \* what engines register

VARIABLES registry,  \* the engines registered now
          feed,      \* what a reader gets
          disturbed  \* the promise is suspended

fvars == <<registry, feed, disturbed>>

FInit == registry = {} /\ feed = {} /\ disturbed = FALSE

Settled == disturbed \/ feed = registry

(* An engine comes or goes, the last change having been published.         *)
Come == /\ Settled
        /\ \E u \in Addresses \ registry : registry' = registry \cup {u}
        /\ UNCHANGED <<feed, disturbed>>

Go == /\ Settled
      /\ \E u \in registry : registry' = registry \ {u}
      /\ UNCHANGED <<feed, disturbed>>

(* Publishing a change makes up for everything a disturbance has left.     *)
Publish == feed' = registry /\ ~disturbed' /\ UNCHANGED registry

Disturb == disturbed' /\ UNCHANGED <<registry, feed>>

Scramble == disturbed /\ disturbed' /\ UNCHANGED registry

Restart == registry' = {} /\ feed' = {} /\ ~disturbed'

FNext == Come \/ Go \/ Publish \/ Disturb \/ Scramble \/ Restart

FSpec == FInit /\ [][FNext]_fvars
=============================================================================
