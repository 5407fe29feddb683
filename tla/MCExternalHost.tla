-------------------------- MODULE MCExternalHost --------------------------
(* An instance of ExternalHost for TLC. *)
EXTENDS ExternalHost, TLC

CONSTANTS h1, h2, s1, s2, a1, a2

\* The first attempt runs on the server, its retry or sibling on the owner.
Placed == First :> h1 @@ Second :> h2
Named == First :> s1 @@ Second :> s2

=============================================================================
