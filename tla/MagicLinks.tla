----------------------------- MODULE MagicLinks -----------------------------
(***************************************************************************)
(* Sign-in links (POST /auth/magic and /auth/magic/verify of app.py, the   *)
(* magic_tokens table of store.py, the magic tokens of auth.py): who may   *)
(* ask for a link, for how long it works, and what is left of it.  What a  *)
(* link opens, the session, is in Auth.  A nonce is the place of its link  *)
(* in links; the mail is the environment's, which may lose it.             *)
(***************************************************************************)
EXTENDS Integers, Sequences, FiniteSets

CONSTANTS
    Emails,       \* the addresses people give
    Clients,      \* the client addresses requests come from
    Window,       \* the hour of the rate windows
    PerIp,        \* magic_per_ip_hour
    PerEmail,     \* magic_per_email_hour
    MagicMaxAge,  \* how long a link works
    PurgeAfter,   \* when issue_magic deletes a row
    EmailMode,    \* GATEWAY_EMAIL_MODE: "log", "resend" or "smtp"
    Configured,   \* resend has its key, smtp its URL
    PublicHttps,  \* the public URL is https
    Quotas        \* the bounds: each quota explores one case (see Auth)

ASSUME LinksAssumption ==
    /\ {Window, PerIp, PerEmail, MagicMaxAge, PurgeAfter} \subseteq Nat
    /\ MagicMaxAge < PurgeAfter
    /\ {Configured, PublicHttps} \subseteq BOOLEAN

VARIABLES
    now,        \* the clock
    starts,     \* how often the process was started again
    ipHits,     \* _magic_ip._hits
    emailHits,  \* _magic_email._hits
    links,      \* the links issued: the token's claims, the client, and their history
    magic,      \* magic_tokens: what each nonce's row says
    quota       \* the bounds in force, chosen at the start

linkVars == <<now, starts, ipHits, emailHits, links, magic, quota>>

LinksInit ==
    /\ now = 0 /\ starts = 0
    /\ ipHits = [c \in Clients |-> <<>>]
    /\ emailHits = [e \in Emails |-> <<>>]
    /\ links = <<>>
    /\ magic = <<>>
    /\ quota \in Quotas

(* mailer.configured: the log needs nothing. *)
MailerConfigured == EmailMode \in {"resend", "smtp"} => Configured

(* email_signin: log mode on https is no method of signing in. *)
EmailSignin == MailerConfigured /\ ~ (EmailMode = "log" /\ PublicHttps)

(* Signer.loads: what was signed at time t is still good. *)
Good(t, maxAge) == now - t <= maxAge

-----------------------------------------------------------------------------
\* A hit of exactly the window's age is popped, too.
TooOldAtAge(q, n) == /\ \A i \in 1 .. n : q[i] <= now - Window
                     /\ n < Len(q) => q[n + 1] > now - Window

(***************************************************************************)
(* _RateWindow.allow: hits are popped from the front while they are older  *)
(* than the window, then the limit decides.                                *)
(***************************************************************************)
TooOld(q, n) == /\ \A i \in 1 .. n : q[i] < now - Window
                /\ n < Len(q) => q[n + 1] >= now - Window
Popped(q) == CHOOSE n \in 0 .. Len(q) : TooOld(q, n)
Recent(q) == SubSeq(q, Popped(q) + 1, Len(q))
Allows(q, limit) == Len(Recent(q)) < limit
Allow(q, limit) == IF Allows(q, limit) THEN Append(Recent(q), now) ELSE Recent(q)

\* Rows are deleted as soon as they are not of this very moment.
PurgeEager == [n \in DOMAIN magic |-> IF links[n].at < now THEN "purged" ELSE magic[n]]

(* The DELETE of issue_magic. *)
Purge == [n \in DOMAIN magic |-> IF links[n].at < now - PurgeAfter THEN "purged" ELSE magic[n]]

Link(c, e) ==
    [client |-> c, email |-> e, at |-> now, start |-> starts, mailed |-> FALSE, spent |-> 0]

(***************************************************************************)
(* magic_request: the client's window decides first and counts its hit     *)
(* even if the address's window then refuses; the row is written before    *)
(* the mail is tried.                                                      *)
(***************************************************************************)
RequestLink(c, e) ==
    /\ EmailSignin
    /\ Len(links) < quota.links
    /\ ipHits' = [ipHits EXCEPT ![c] = Allow(@, PerIp)]
    /\ \/ /\ ~ Allows(ipHits[c], PerIp)
          /\ UNCHANGED <<emailHits, links, magic>>
       \/ /\ Allows(ipHits[c], PerIp)
          /\ emailHits' = [emailHits EXCEPT ![e] = Allow(@, PerEmail)]
          /\ IF Allows(emailHits[e], PerEmail)
             THEN links' = Append(links, Link(c, e)) /\ magic' = Append(Purge, "unused")
             ELSE UNCHANGED <<links, magic>>
    /\ UNCHANGED <<now, starts, quota>>

(* mailer.send got through: somebody has the link.  It may fail instead. *)
MailArrives(n) ==
    /\ ~ links[n].mailed
    /\ links' = [links EXCEPT ![n].mailed = TRUE]
    /\ UNCHANGED <<now, starts, ipHits, emailHits, magic, quota>>

(* read_magic: somebody has the link, and it is young enough. *)
ReadMagic(n) == links[n].mailed /\ Good(links[n].at, MagicMaxAge)

\* A link with its row is good, used or not.
ConsumeAgain(n) ==
    /\ magic[n] # "purged"
    /\ magic' = [magic EXCEPT ![n] = "used"]
    /\ links' = [links EXCEPT ![n].spent = @ + 1]

(* consume_magic says True: this nonce's row was there, and unused. *)
ConsumeMagic(n) ==
    /\ magic[n] = "unused"
    /\ magic' = [magic EXCEPT ![n] = "used"]
    /\ links' = [links EXCEPT ![n].spent = @ + 1]

(* A restart: the windows were in memory, the table was not. *)
RestartLinks ==
    /\ starts < quota.starts
    /\ starts' = starts + 1
    /\ ipHits' = [c \in Clients |-> <<>>]
    /\ emailHits' = [e \in Emails |-> <<>>]
    /\ UNCHANGED <<now, quota>>

Tick ==
    /\ now < quota.clock
    /\ now' = now + 1
    /\ UNCHANGED <<starts, ipHits, emailHits, links, magic, quota>>

-----------------------------------------------------------------------------
Issued(key, k, t) ==
    {n \in DOMAIN links : /\ links[n][key] = k /\ links[n].start = starts
                          /\ links[n].at \in t .. t + Window}

(***************************************************************************)
(* In no hour do more links go out to one address than allowed by          *)
(* magic_per_email_hour, or for one client than by magic_per_ip_hour,      *)
(* wherever the hour begins and though hits are forgotten as it slides     *)
(* (app.py:81) -- since the last start, as the windows are in memory.      *)
(***************************************************************************)
LinkRate ==
    \A t \in 0 .. now :
        /\ \A e \in Emails : Cardinality(Issued("email", e, t)) <= PerEmail
        /\ \A c \in Clients : Cardinality(Issued("client", c, t)) <= PerIp

(***************************************************************************)
(* consume_magic is "True exactly once per nonce" (store.py:214), whoever  *)
(* posts the link how often, before or after a restart.                    *)
(***************************************************************************)
LinkOnce == \A n \in DOMAIN links : links[n].spent <= 1

(***************************************************************************)
(* A link that was never spent works for its fifteen minutes (README.md:64)*)
(* whatever else is issued, refused or purged meanwhile.                   *)
(***************************************************************************)
LinkWorks ==
    \A n \in DOMAIN links :
        links[n].spent = 0 /\ Good(links[n].at, MagicMaxAge) => magic[n] = "unused"
=============================================================================
