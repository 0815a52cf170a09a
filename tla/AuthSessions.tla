---------------------------- MODULE AuthSessions ----------------------------
(***************************************************************************)
(* Sign-in implements Sessions.  A session is live while some cookie, in a *)
(* browser or in a response on its way to one, has its user's epoch; that  *)
(* the cookie expires unless it is renewed is left to Auth.                *)
(***************************************************************************)
EXTENDS Auth

Live == {[user |-> c.user, by |-> c.via] :
            c \in {d \in Cookies : d.user \notin disabled /\ d.epoch = epoch[d.user]}}

Used == {<<"link", n>> : n \in {m \in DOMAIN links : links[m].spent > 0}}
            \cup {<<"flow", f>> : f \in {g \in DOMAIN flows : flows[g].spent}}

Outs == [u \in Emails |-> IF epoch[u] = None THEN 0 ELSE epoch[u]]

Sess == INSTANCE Sessions WITH
    Users <- Emails, live <- Live, used <- Used, outs <- Outs, barred <- disabled

(***************************************************************************)
(* Whatever is requested, answered late, refreshed or restarted, a link or *)
(* a flow opens one session, a session that ended never comes back, and a  *)
(* sign-out everywhere ends all of its user's (app.py:154-173, 342-404).   *)
(***************************************************************************)
ImplementsSessions == Sess!SessionsSpec
=============================================================================
