---------------------------- MODULE VersionStore ----------------------------
(***************************************************************************)
(* What the live update server (tool/liveupdate-node) promises those who   *)
(* use it: a version is published at most once, with its data; its data    *)
(* never changes or goes away; whoever downloads it, in however many       *)
(* pieces, gets these data from the first byte on; and the list of         *)
(* versions only grows, by versions that are published.                    *)
(***************************************************************************)
EXTENDS Naturals, Sequences

CONSTANTS Versions,  \* names of versions
          Data,      \* the data a version can have
          Size       \* Size[d]: bytes of the data d

VARIABLES published, \* the data of the versions published so far
          listed,    \* the versions on the list
          wanted,    \* the version the client downloads
          got        \* what he has of it: [d, i] is the i-th byte of d

vars == <<published, listed, wanted, got>>

Init ==
  /\ published = [v \in {} |-> 0] /\ listed = {}
  /\ wanted \in Versions /\ got = <<>>

Publish(v, d) ==
  /\ v \notin DOMAIN published
  /\ published' = [w \in DOMAIN published \cup {v} |-> IF w = v THEN d ELSE published[w]]
  /\ UNCHANGED <<listed, wanted, got>>

List(v) ==
  /\ v \in DOMAIN published
  /\ listed' = listed \cup {v}
  /\ UNCHANGED <<published, wanted, got>>

\* The client gets the next byte.
Receive ==
  /\ wanted \in DOMAIN published
  /\ LET d == published[wanted] IN
       Len(got) < Size[d] /\ got' = Append(got, [d |-> d, i |-> Len(got) + 1])
  /\ UNCHANGED <<published, listed, wanted>>

\* He starts again, with this or another version.
Restart ==
  /\ wanted' \in Versions /\ got' = <<>>
  /\ UNCHANGED <<published, listed>>

Next == (\E v \in Versions, d \in Data : Publish(v, d)) \/ (\E v \in Versions : List(v))
        \/ Receive \/ Restart

Spec == Init /\ [][Next]_vars
=============================================================================
