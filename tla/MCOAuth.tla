------------------------------ MODULE MCOAuth -------------------------------
(***************************************************************************)
(* OAuth on small instances.  In each behaviour one part moves: sign-in,   *)
(* the token endpoint (from scratch, and with a family of tokens in use),  *)
(* or start-up and key rotation.                                           *)
(***************************************************************************)
EXTENDS OAuth

CONSTANTS c1, i1, i2, e1, e2, p1, p2, k1, k2, k3, b1, b2

MCReqs == 1..3
MCCodes == {c1}
MCTokens == 1..4
MCUsers == 1..2
MCMembers == {1}
MCLogins == 1..2
MCIdents == {i1, i2}
MCEmails == {e1, e2}
MCReplicas == {p1, p2}
MCKeys == {k1, k2, k3}
MCUrls == {b1, b2}
MCWork == {{"logins"}, {"tokens", "fresh"}, {"tokens", "family"}, {"boot"}, {"boot", "operator"}}
=============================================================================
