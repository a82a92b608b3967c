--------------------------- MODULE MCBridgeInbox ---------------------------
(* Instances of BridgeInbox: two inboxes of one window.  The files are read by *)
(* one tick and share the offsets file and its timer, nothing else.           *)
EXTENDS BridgeInbox, TLC

CONSTANTS f1, f2

OneInbox == {f1}
TwoInboxes == {f1, f2}
UnevenLines == f1 :> 2 @@ f2 :> 1
TwoLines == f1 :> 2
=============================================================================
