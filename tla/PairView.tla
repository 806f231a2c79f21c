------------------------------ MODULE PairView ------------------------------
(***************************************************************************)
(* The GUI's window (src/gui/pair_view.cpp) as one component of Network.   *)
(* A frame is drawn from one snapshot of the pair space and handles one    *)
(* click; between two frames the network does as it likes.  What the view  *)
(* keeps from frame to frame is its selection, whether the confirmation of *)
(* a deletion is open, and the pairs it has subscribed to one by one.      *)
(* Filters, headings and text are left out.                                *)
(*                                                                         *)
(* The link is connected (Node is about how it gets there) and has made    *)
(* the wildcard subscription; link_.subscribedToAll() is that its record   *)
(* is there, which is WildcardAgrees of Node.                              *)
(***************************************************************************)
EXTENDS Network

CONSTANTS gui,     \* the id of the view's node
          Nowhere  \* no selection

ASSUME ViewAssumption == gui \in Components /\ Nowhere \notin Components

VARIABLES
  selection,     \* selection_
  confirming,    \* whether the popup "Confirm delete" is open
  subscriptions  \* subscriptions_: the pairs with a toggle of their own

view == <<selection, confirming, subscriptions>>
vars == <<net, view>>

Everything == <<kAnyOwner, kWildcardKey>>
PerPair(o) == <<o, Key>>

everything == Everything \in records[gui]

\* The link has subscribed to everything.
Init ==
  /\ NetInit([c \in Components |-> IF c = gui THEN {Everything} ELSE {}])
  /\ selection = Nowhere /\ confirming = FALSE /\ subscriptions = {}

-----------------------------------------------------------------------------

\* The pairs with a value, in this frame's snapshot.
snapshotPairs == {o \in Components : pairs[gui][o] > Invalid}

\* selected(pairs) is not null
Selected == selection \in snapshotPairs

\* The dialog is on screen and takes all clicks: it is modal.
Asking == confirming /\ Selected

\* A click on a row.
Select(o) ==
  /\ ~Asking /\ o \in snapshotPairs
  /\ selection' = o
  /\ UNCHANGED <<net, confirming, subscriptions>>

\* The selected pair's value names another pair, which need not be there.
JumpToTarget(o) ==
  /\ ~Asking /\ Selected
  /\ selection' = o
  /\ UNCHANGED <<net, confirming, subscriptions>>

\* The post form, with an id of ours, of another component or none.
Post(o) ==
  /\ ~Asking
  /\ IF o = gui THEN SetPair(gui) ELSE SetRemotePair(gui, o)
  /\ UNCHANGED view

PressDelete ==
  /\ ~Asking /\ Selected
  /\ confirming' = TRUE
  /\ UNCHANGED <<net, selection, subscriptions>>

\* Delete and Cancel in the dialog.  A component that has left cannot be asked.
ConfirmDelete ==
  /\ Asking
  /\ \/ selection = gui /\ RemoveOwnPair(gui)
     \/ RemoveRemotePair(gui, selection)
     \/ selection \notin sessions[gui] \cup {gui} /\ UNCHANGED net
  /\ selection' = Nowhere /\ confirming' = FALSE
  /\ UNCHANGED subscriptions

CancelDelete ==
  /\ Asking
  /\ confirming' = FALSE
  /\ UNCHANGED <<net, selection, subscriptions>>

\* A popup that is not drawn, because the pair is gone, may be closed by ImGui.
PopupCloses ==
  /\ confirming /\ ~Selected
  /\ confirming' = FALSE
  /\ UNCHANGED <<net, selection, subscriptions>>

-----------------------------------------------------------------------------
(* drawSubscriptionControls                                                *)

\* The checkbox "Subscribe to everything", by way of setSubscribedToAll.
ToggleEverything ==
  /\ ~Asking
  /\ IF everything THEN CancelSubscription(gui, Everything)
                   ELSE RegisterSubscription(gui, Everything)
  /\ UNCHANGED view

\* Mutant: the toggles are not disabled under a wildcard subscription.
UntogglePairAnytime(o) ==
  /\ ~Asking /\ o \in subscriptions
  /\ CancelSubscription(gui, PerPair(o))
  /\ subscriptions' = subscriptions \ {o}
  /\ UNCHANGED <<selection, confirming>>

\* A pair's own toggle is switched off.
UntogglePair(o) ==
  /\ ~Asking /\ ~everything /\ o \in subscriptions
  /\ CancelSubscription(gui, PerPair(o))
  /\ subscriptions' = subscriptions \ {o}
  /\ UNCHANGED <<selection, confirming>>

\* "Subscribe to the selected pair"; a selection that is gone will do.
SubscribeToSelected ==
  /\ ~Asking /\ ~everything
  /\ selection \in Components \ subscriptions
  /\ RegisterSubscription(gui, PerPair(selection))
  /\ subscriptions' = subscriptions \cup {selection}
  /\ UNCHANGED <<selection, confirming>>

-----------------------------------------------------------------------------

Window ==
  \/ PressDelete \/ ConfirmDelete \/ CancelDelete \/ PopupCloses
  \/ ToggleEverything \/ SubscribeToSelected
  \/ \E o \in Components : Select(o) \/ JumpToTarget(o) \/ Post(o) \/ UntogglePair(o)

Others ==
  \E c \in Components \ {gui} : Application(c) \/ Leave(c) \/ Join(c)

Handlers == \E src, c \in Components : Handle(src, c) \/ Announce(src, c)

Next == Window \/ (UNCHANGED view /\ (Others \/ Handlers))

Spec == Init /\ [][Next]_vars

\* Frames are read and handled, on every connection, and a component that left
\* is no concern.
FairSpec == Spec /\ \A src, c \in Components :
  WF_vars((Handle(src, c) \/ Announce(src, c)) /\ UNCHANGED view)

-----------------------------------------------------------------------------
(* Properties                                                              *)

TypeOK ==
  /\ NetTypeOK
  /\ selection \in Components \cup {Nowhere}
  /\ confirming \in BOOLEAN
  /\ subscriptions \subseteq Components

\* The toggles on screen are the records of the client: each can be switched off,
\* and nothing the view subscribed to is out of its reach.
TogglesHeld ==
  records[gui] \ {Everything} = {PerPair(o) : o \in subscriptions}

\* While the checkbox for everything is on, every owner sends the view its pair.
\* The per-pair toggles, which would take single pairs out of it, are disabled.
EverythingIsEverything ==
  \A d \in up :
    everything /\ Settled(gui, d) /\ pairs[d][d] # Absent => gui \in subscribers[d][d]

\* Each owner sends the view the pair whose toggle is on, except that switching the
\* checkbox for everything off over it (cut) has taken the view off the owner's list:
\* then the pair does not come, until it is subscribed to again, everything is, or
\* the owner comes back.  The comment in drawSubscriptionControls has it otherwise:
\* "The wildcard is gone; anything we subscribed to per pair is not."
TogglesServed ==
  \A o \in subscriptions \cap up :
    Settled(gui, o) /\ pairs[o][o] # Absent =>
      (gui \in subscribers[o][o] <=> <<gui, o>> \notin cut)

\* The subscription controls show what the view holds, and what the owners send
\* but for the toggles that the checkbox was switched off over.
WindowAgrees == TogglesHeld /\ EverythingIsEverything /\ TogglesServed
=============================================================================
