------------------------- MODULE MCSocialLinkTree -------------------------
(* TLC instance of SocialLinkTree: two users, of whom one is an admin.      *)
EXTENDS SocialLinkTree

CONSTANTS admin, alice

MCOwner == [x \in Links |-> IF x = 1 \/ alice \notin Users THEN admin ELSE alice]
===========================================================================
