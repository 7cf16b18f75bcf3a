---------------------------- MODULE MCEventFeed ----------------------------
(* One page on one connection, which is all that a miss needs.  The feed in  *)
(* full is checked beside the tenant stores, in MCSideBySide.               *)
EXTENDS EventFeed
=============================================================================
