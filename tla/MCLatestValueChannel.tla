------------------------ MODULE MCLatestValueChannel ------------------------
(***************************************************************************)
(* Model checking LatestValueChannel, and what its documentation says of   *)
(* the notification that the code does not do.                             *)
(***************************************************************************)
EXTENDS LatestValueChannel, TLC

ChannelSymmetry ==
  Permutations(Senders) \cup Permutations(Items)

(* dashboard/sink.rs:234: a notification means that a frame may be pending *)
(* or that all senders are gone; after each, try_recv is called.  A        *)
(* selector that does so once per notification learns of both.             *)
SelectorsAreTold ==
  NoSender ~> \A r \in Selectors : Told(r)
=============================================================================
