------------------------------ MODULE MCLiveFeed ------------------------------
(* A small instance of LiveFeed: one page, two sockets at a time.             *)
EXTENDS LiveFeed
=============================================================================
