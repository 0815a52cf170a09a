------------------------------ MODULE Sessions ------------------------------
(***************************************************************************)
(* What signing in promises, without cookies, browsers or providers.  A    *)
(* credential -- a link that was mailed, a flow that was approved -- opens *)
(* one session at most, of one user.  A session that is over stays over.   *)
(* Signing out everywhere ends all sessions of a user at once, for good    *)
(* (README.md:68), and so does disabling the account.                      *)
(***************************************************************************)
EXTENDS Naturals

CONSTANT Users

VARIABLES
    live,   \* the sessions that stand for their user
    used,   \* the credentials that were used up
    outs,   \* outs[u]: how often u has signed out everywhere
    barred  \* the users whose account was disabled

sessionVars == <<live, used, outs, barred>>

SessionsInit ==
    /\ live = {}
    /\ used = {}
    /\ outs = [u \in Users |-> 0]
    /\ barred = {}

OthersThan(u) == {s \in live : s.user # u}

(* A fresh credential is used up, and may open a session, perhaps in the   *)
(* place of another.                                                       *)
Open ==
    /\ \E c \in used' \ used, u \in Users :
          /\ used' = used \cup {c}
          /\ live' \subseteq live \cup (IF u \in barred THEN {} ELSE {[user |-> u, by |-> c]})
    /\ UNCHANGED <<outs, barred>>

(* Sessions end: signed out of, or replaced. *)
End == live' \subseteq live /\ UNCHANGED <<used, outs, barred>>

SignOutEverywhere(u) ==
    /\ outs' = [outs EXCEPT ![u] = @ + 1]
    /\ live' = OthersThan(u)
    /\ UNCHANGED <<used, barred>>

Bar(u) ==
    /\ barred' = barred \cup {u}
    /\ live' = OthersThan(u)
    /\ UNCHANGED <<used, outs>>

SessionsNext == Open \/ End \/ \E u \in Users : SignOutEverywhere(u) \/ Bar(u)

SessionsSpec == SessionsInit /\ [][SessionsNext]_sessionVars

(* A credential has opened one session at most, and nobody barred has one. *)
OneSessionEach ==
    /\ \A s, t \in live : s.by = t.by => s = t
    /\ \A s \in live : s.by \in used /\ s.user \notin barred
=============================================================================
