--------------------------- MODULE ChannelContract --------------------------
(***************************************************************************)
(* What a FrameChannel promises its callers, without its queue, its index, *)
(* its lock or its coroutine (the comment on FrameChannel::send in         *)
(* src/include/srnp/session.h).  Frames are numbered in the order they are *)
(* accepted.                                                               *)
(*                                                                         *)
(*  - Control frames are received in the order they were accepted, with    *)
(*    none skipped: the peer has a prefix of them, whatever else happens.  *)
(*  - Updates of a pair are last-value-wins: the peer may miss some, but   *)
(*    what it is shown only moves forward.                                 *)
(*                                                                         *)
(* A connection that fails simply delivers nothing more.                   *)
(***************************************************************************)
EXTENDS Integers, Sequences

CONSTANT Keys

VARIABLES accepted,  \* serials of the control frames accepted, in order
          received,  \* serials of the control frames the peer has, in order
          offered,   \* serial of the last frame accepted
          shown      \* serial of the last update of each pair the peer has

cvars == <<accepted, received, offered, shown>>

Init ==
  /\ accepted = <<>>
  /\ received = <<>>
  /\ offered = 0
  /\ shown = [k \in Keys |-> 0]

AcceptControl ==
  /\ offered' = offered + 1
  /\ accepted' = Append(accepted, offered')
  /\ UNCHANGED <<received, shown>>

AcceptUpdate ==
  /\ offered' = offered + 1
  /\ UNCHANGED <<accepted, received, shown>>

DeliverControl ==
  /\ Len(received) < Len(accepted)
  /\ received' = Append(received, accepted[Len(received) + 1])
  /\ UNCHANGED <<accepted, offered, shown>>

DeliverUpdate(k) ==
  \E n \in shown[k] + 1 .. offered :
    /\ shown' = [shown EXCEPT ![k] = n]
    /\ UNCHANGED <<accepted, received, offered>>

Next ==
  \/ AcceptControl
  \/ AcceptUpdate
  \/ DeliverControl
  \/ \E k \in Keys : DeliverUpdate(k)

Spec == Init /\ [][Next]_cvars

=============================================================================
