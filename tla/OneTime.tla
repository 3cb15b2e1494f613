------------------------------ MODULE OneTime -------------------------------
(***************************************************************************)
(* What a store of one-time credentials promises its callers: a credential *)
(* is issued once, redeemed by at most one request or not at all, and what *)
(* was redeemed or has lapsed stays so.  A redemption is one atomic step.  *)
(***************************************************************************)
CONSTANTS Creds, Reqs, None

VARIABLES live,   \* credentials that can be redeemed
          spent,  \* credentials that no longer can
          won     \* what each request redeemed, or None

vars == <<live, spent, won>>

Init == /\ live \in SUBSET Creds /\ spent \in SUBSET (Creds \ live)
        /\ won = [r \in Reqs |-> None]

Issue(c) == /\ c \notin live \cup spent
            /\ live' = live \cup {c}
            /\ UNCHANGED <<spent, won>>

Redeem(r, c) == /\ c \in live /\ won[r] = None
                /\ live' = live \ {c}
                /\ spent' = spent \cup {c}
                /\ won' = [won EXCEPT ![r] = c]

Lapse(C) == /\ C \subseteq live
            /\ live' = live \ C
            /\ spent' = spent \cup C
            /\ UNCHANGED won

Next == \/ \E c \in Creds : Issue(c)
        \/ \E r \in Reqs, c \in Creds : Redeem(r, c)
        \/ \E C \in SUBSET Creds : Lapse(C)

Spec == Init /\ [][Next]_vars

\* No two requests redeem the same credential.
AtMostOnce == \A r, s \in Reqs : won[r] # None /\ won[r] = won[s] => r = s
\* What a request redeemed is no longer live, and nothing spent is.
Spent == /\ \A r \in Reqs : won[r] # None => won[r] \in spent
         /\ live \cap spent = {}
=============================================================================
