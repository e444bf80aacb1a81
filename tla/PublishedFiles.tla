--------------------------- MODULE PublishedFiles ---------------------------
(***************************************************************************)
(* TrackedFiles, with what the subscribers of FileStatusChangedEvent were  *)
(* told: of an update that changes something, in the same step; and of     *)
(* anything else by others, of which no entry changes.                     *)
(***************************************************************************)
EXTENDS TrackedFiles

VARIABLE told

PublishingInit == Init /\ told \in [Entries -> {"none"}]

Tell(i, s) == told' = [told EXCEPT ![i] = s]

PublishingNext ==
    \/ \E i \in Entries, s \in Status :
          Update(i, s) /\ Tell(i, IF status[i] = s THEN told[i] ELSE s)
    \/ \E i \in Entries, s \in Status : Tell(i, s) /\ UNCHANGED fileVars
    \/ /\ \/ \E i \in Entries : Add(i) \/ Schedule(i) \/ Cancel(i) \/ Fire(i)
          \/ CancelAll
          \/ \E missing \in SUBSET known : Sweep(missing)
       /\ UNCHANGED told
    \/ \E old \in SUBSET known :
          /\ Forget(old)
          /\ told' = [i \in Entries |-> IF i \in old THEN "none" ELSE told[i]]

PublishingSpec == PublishingInit /\ [][PublishingNext]_<<fileVars, told>>
=============================================================================
