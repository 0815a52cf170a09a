----------------------------- MODULE AuthProofs -----------------------------
(***************************************************************************)
(* Theorems about sign-in, for all addresses, browsers, providers, windows,*)
(* ages and quotas.  AuthInv is their common inductive invariant: a part   *)
(* on links, a part on accounts, and a part on sessions, whose claims stay *)
(* sound because whatever they refer to only grows.  The rate windows have *)
(* one of their own, RateInv, which rests on it.  Under AuthInv each step  *)
(* is one of Sessions, or a stutter.                                       *)
(***************************************************************************)
EXTENDS AuthSessions, FiniteSetTheorems, SequenceTheorems, WellFoundedInduction, TLAPS

LinkRecord == [client : Clients, email : Emails, at : Nat, start : Nat,
               mailed : BOOLEAN, spent : Nat]
FlowRecord == [provider : Providers, browser : Browsers, at : Nat,
               subject : Subjects \cup {None}, spent : BOOLEAN]
Claims     == [user : Emails, epoch : Nat, at : Nat, root : Nat,
               via : {"link", "flow"} \X Nat]

-----------------------------------------------------------------------------
(* The links: their types, and what each row says of its link's history. *)
LinkShape ==
    /\ now \in Nat /\ starts \in Nat
    /\ links \in Seq(LinkRecord)
    /\ magic \in Seq({"unused", "used", "purged"})
    /\ Len(magic) = Len(links)

RowsTell ==
    \A n \in 1 .. Len(links) :
        /\ magic[n] = "unused" => links[n].spent = 0
        /\ links[n].spent <= 1
        /\ magic[n] = "used" => links[n].spent = 1
        /\ magic[n] = "purged" => links[n].at < now - PurgeAfter

LinkInv == LinkShape /\ RowsTell

(* Flows, the state cookies, and the callbacks under way. *)
FlowShape ==
    /\ flows \in Seq(FlowRecord)
    /\ state \in [Browsers -> Nat]
    /\ \A b \in Browsers : state[b] # 0 =>
          state[b] \in 1 .. Len(flows) /\ flows[state[b]].browser = b
    /\ \A x \in exchanges :
          /\ x.flow \in 1 .. Len(flows)
          /\ flows[x.flow].subject # None
          /\ flows[x.flow].browser = x.browser

(* Accounts: their types, and that they precede whatever refers to them. *)
AccountShape ==
    /\ address \in [External -> Emails \cup {None}]
    /\ moves \in Nat
    /\ epoch \in [Emails -> Nat \cup {None}]
    /\ disabled \subseteq Emails
    /\ identity \in [Identities -> Emails \cup {None}]
    /\ \A i \in Identities : identity[i] # None => epoch[identity[i]] # None
    /\ \A u \in disabled : epoch[u] # None

(* Identities follow the addresses, until an address moves. *)
Reaches ==
    /\ reached \in [Emails -> SUBSET Emails]
    /\ \A e \in Emails : identity[<<"email", e>>] \in {None, e}
    /\ moves = 0 =>
          /\ \A i \in External : identity[i] # None => identity[i] = address[i]
          /\ \A e \in Emails : reached[e] \subseteq {e}

(***************************************************************************)
(* The claims c of a cookie made for browser b are sound at time n, given  *)
(* the epochs ep, the flows fl and the identities id.                      *)
(***************************************************************************)
Sound(c, b, n, ep, fl, id) ==
    /\ c \in Claims /\ b \in Browsers
    /\ ep[c.user] \in Nat /\ c.epoch <= ep[c.user]
    /\ c.root = c.epoch
    /\ c.at <= n
    /\ ByFlow(c) =>
          /\ c.via[2] \in 1 .. Len(fl)
          /\ fl[c.via[2]].browser = b
          /\ fl[c.via[2]].subject # None
          /\ id[<<fl[c.via[2]].provider, fl[c.via[2]].subject>>] = c.user

SessionInv ==
    /\ cookie \in [Browsers -> Claims \cup {None}]
    /\ \A b \in Browsers : cookie[b] # None => Sound(cookie[b], b, now, epoch, flows, identity)
    /\ \A r \in refreshes : Sound(r.caller, r.browser, now, epoch, flows, identity)

AuthInv == LinkInv /\ FlowShape /\ AccountShape /\ Reaches /\ SessionInv

-----------------------------------------------------------------------------
(* Sequences and records. *)

LEMMA PutAt ==
    ASSUME NEW T, NEW s \in Seq(T), NEW n \in 1 .. Len(s), NEW v \in T
    PROVE  /\ [s EXCEPT ![n] = v] \in Seq(T)
           /\ Len([s EXCEPT ![n] = v]) = Len(s)
           /\ [s EXCEPT ![n] = v][n] = v
           /\ \A m \in 1 .. Len(s) : m # n => [s EXCEPT ![n] = v][m] = s[m]
OBVIOUS

(* What the three updates of a record of a link or a flow leave alone. *)
LEMMA MailedRecord ==
    ASSUME NEW r \in LinkRecord
    PROVE  /\ [r EXCEPT !.mailed = TRUE] \in LinkRecord
           /\ [r EXCEPT !.mailed = TRUE].spent = r.spent
           /\ [r EXCEPT !.mailed = TRUE].at = r.at
BY DEF LinkRecord

LEMMA SpentRecord ==
    ASSUME NEW r \in LinkRecord
    PROVE  /\ [r EXCEPT !.spent = @ + 1] \in LinkRecord
           /\ [r EXCEPT !.spent = @ + 1].spent = r.spent + 1
           /\ [r EXCEPT !.spent = @ + 1].at = r.at
BY DEF LinkRecord

LEMMA ApprovedRecord ==
    ASSUME NEW r \in FlowRecord, NEW s \in Subjects
    PROVE  /\ [r EXCEPT !.subject = s] \in FlowRecord
           /\ [r EXCEPT !.subject = s].provider = r.provider
           /\ [r EXCEPT !.subject = s].browser = r.browser
           /\ [r EXCEPT !.subject = s].subject = s
BY DEF FlowRecord

LEMMA SpentFlowRecord ==
    ASSUME NEW r \in FlowRecord
    PROVE  /\ [r EXCEPT !.spent = TRUE] \in FlowRecord
           /\ [r EXCEPT !.spent = TRUE].provider = r.provider
           /\ [r EXCEPT !.spent = TRUE].browser = r.browser
           /\ [r EXCEPT !.spent = TRUE].subject = r.subject
BY DEF FlowRecord

-----------------------------------------------------------------------------
(* Links. *)

LEMMA LinksStart == LinksInit => LinkInv
BY DEF LinksInit, LinkInv, LinkShape, RowsTell

(* A row says "purged" or what it said; one that turns "purged" is old. *)
LEMMA PurgeRows ==
    ASSUME LinkShape
    PROVE  /\ Purge \in Seq({"unused", "used", "purged"})
           /\ Len(Purge) = Len(links)
           /\ \A n \in 1 .. Len(links) :
                 \/ Purge[n] = magic[n]
                 \/ Purge[n] = "purged" /\ links[n].at < now - PurgeAfter
<1>1. DOMAIN magic = 1 .. Len(links) /\ Len(links) \in Nat
    BY DEF LinkShape
<1>2. Purge = [n \in 1 .. Len(links) |->
                  IF links[n].at < now - PurgeAfter THEN "purged" ELSE magic[n]]
    BY <1>1 DEF Purge
<1>3. \A n \in 1 .. Len(links) : magic[n] \in {"unused", "used", "purged"}
    BY <1>1 DEF LinkShape
<1> QED
    BY <1>1, <1>2, <1>3

LEMMA RequestLinkInv ==
    ASSUME LinkInv, NEW c \in Clients, NEW e \in Emails, RequestLink(c, e)
    PROVE  LinkInv'
<1> DEFINE new == Link(c, e)
<1>1. LinkShape /\ RowsTell /\ PurgeAfter \in Nat
    BY LinksAssumption DEF LinkInv
<1>2. CASE links' = Append(links, Link(c, e)) /\ magic' = Append(Purge, "unused")
    <2>1. new \in LinkRecord /\ new.spent = 0
        BY <1>1 DEF Link, LinkRecord, LinkShape
    <2>2. links' = Append(links, new) /\ now' = now /\ starts' = starts
        BY <1>2 DEF RequestLink
    <2> HIDE DEF new
    <2>3. links' \in Seq(LinkRecord) /\ Len(links') = Len(links) + 1 /\ Len(links) \in Nat
        BY <1>1, <2>1, <2>2 DEF LinkShape
    <2>4. magic' \in Seq({"unused", "used", "purged"}) /\ Len(magic') = Len(links')
        BY <1>1, <1>2, <2>3, PurgeRows
    <2>5. LinkShape'
        BY <1>1, <2>2, <2>3, <2>4 DEF LinkShape
    <2>6. \A n \in 1 .. Len(links) :
              /\ links'[n] = links[n]
              /\ magic'[n] = magic[n] \/ (magic'[n] = "purged" /\ links[n].at < now - PurgeAfter)
        BY <1>1, <1>2, <2>2, <2>3, PurgeRows DEF LinkShape
    <2>7. links'[Len(links) + 1].spent = 0 /\ magic'[Len(links) + 1] = "unused"
        BY <1>1, <1>2, <2>1, <2>2, <2>3, PurgeRows DEF LinkShape
    <2>8. RowsTell'
        BY <1>1, <2>2, <2>3, <2>6, <2>7 DEF RowsTell
    <2> QED BY <2>5, <2>8 DEF LinkInv
<1>3. CASE UNCHANGED <<links, magic>>
    BY <1>1, <1>3 DEF RequestLink, LinkInv, LinkShape, RowsTell
<1> QED BY <1>2, <1>3 DEF RequestLink

LEMMA MailArrivesInv ==
    ASSUME LinkInv, NEW n \in DOMAIN links, MailArrives(n)
    PROVE  LinkInv'
<1>1. LinkShape /\ RowsTell
    BY DEF LinkInv
<1> DEFINE v == [links[n] EXCEPT !.mailed = TRUE]
<1>2. links' = [links EXCEPT ![n] = v] /\ UNCHANGED <<now, starts, magic>>
    BY DEF MailArrives
<1>3. n \in 1 .. Len(links) /\ links \in Seq(LinkRecord) /\ links[n] \in LinkRecord
    BY <1>1 DEF LinkShape
<1>4. v \in LinkRecord /\ v.spent = links[n].spent /\ v.at = links[n].at
    BY <1>3, MailedRecord
<1> HIDE DEF v
<1>5. links' \in Seq(LinkRecord) /\ Len(links') = Len(links)
    BY <1>2, <1>3, <1>4, PutAt
<1>6. \A m \in 1 .. Len(links) : links'[m].spent = links[m].spent /\ links'[m].at = links[m].at
    BY <1>2, <1>3, <1>4, PutAt
<1> QED BY <1>1, <1>2, <1>5, <1>6 DEF LinkInv, LinkShape, RowsTell

LEMMA TickInv ==
    ASSUME LinkInv, Tick
    PROVE  LinkInv'
<1>1. LinkShape /\ RowsTell /\ PurgeAfter \in Nat
    BY LinksAssumption DEF LinkInv
<1>2. now' = now + 1 /\ UNCHANGED <<starts, links, magic>>
    BY DEF Tick
<1>3. \A n \in 1 .. Len(links) : links[n].at \in Nat
    <2>1. \A n \in 1 .. Len(links) : links[n] \in LinkRecord
        BY <1>1 DEF LinkShape
    <2> QED BY <2>1 DEF LinkRecord
<1>4. \A n \in 1 .. Len(links) : links[n].at < now - PurgeAfter => links[n].at < now' - PurgeAfter
    BY <1>1, <1>2, <1>3 DEF LinkShape
<1> QED BY <1>1, <1>2, <1>4 DEF LinkInv, LinkShape, RowsTell

LEMMA ConsumeInv ==
    ASSUME LinkInv, NEW n \in DOMAIN links, ConsumeMagic(n), UNCHANGED now, starts' \in Nat
    PROVE  LinkInv'
<1>1. LinkShape /\ RowsTell /\ n \in 1 .. Len(links)
    BY DEF LinkInv, LinkShape
<1> DEFINE v == [links[n] EXCEPT !.spent = @ + 1]
<1>2. /\ links' = [links EXCEPT ![n] = v]
      /\ magic' = [magic EXCEPT ![n] = "used"]
      /\ magic[n] = "unused"
    BY DEF ConsumeMagic
<1>3. links \in Seq(LinkRecord) /\ links[n] \in LinkRecord /\ links[n].spent = 0
    BY <1>1, <1>2 DEF LinkShape, RowsTell
<1>4. v \in LinkRecord /\ v.spent = 1 /\ v.at = links[n].at
    BY <1>3, SpentRecord
<1> HIDE DEF v
<1>5. links' \in Seq(LinkRecord) /\ Len(links') = Len(links)
    BY <1>1, <1>2, <1>3, <1>4, PutAt
<1>6. /\ links'[n] = v
      /\ \A m \in 1 .. Len(links) : m # n => links'[m] = links[m]
    BY <1>1, <1>2, <1>3, <1>4, PutAt
<1>7. /\ magic' \in Seq({"unused", "used", "purged"}) /\ Len(magic') = Len(magic)
      /\ magic'[n] = "used"
      /\ \A m \in 1 .. Len(links) : m # n => magic'[m] = magic[m]
    BY <1>1, <1>2 DEF LinkShape
<1>8. LinkShape'
    BY <1>1, <1>5, <1>7 DEF LinkShape
<1>9. RowsTell'
    BY <1>1, <1>4, <1>5, <1>6, <1>7 DEF RowsTell
<1> QED BY <1>8, <1>9 DEF LinkInv

-----------------------------------------------------------------------------
(* Flows: who began a flow, where, and who approved it is never rewritten. *)

FlowsGrow ==
    /\ Len(flows) <= Len(flows')
    /\ \A f \in 1 .. Len(flows) :
          /\ flows'[f].provider = flows[f].provider
          /\ flows'[f].browser = flows[f].browser
          /\ flows[f].subject # None => flows'[f].subject = flows[f].subject

LEMMA FlowsSame ==
    ASSUME FlowShape, UNCHANGED flows
    PROVE  FlowsGrow
BY DEF FlowShape, FlowsGrow

LEMMA OAuthStartFlows ==
    ASSUME FlowShape, NEW b \in Browsers, NEW p \in Providers, now \in Nat, OAuthStart(b, p)
    PROVE  FlowShape' /\ FlowsGrow
<1> DEFINE v == [provider |-> p, browser |-> b, at |-> now, subject |-> None, spent |-> FALSE]
<1>1. v \in FlowRecord /\ v.browser = b
    BY DEF FlowRecord
<1>2. /\ flows' = Append(flows, v)
      /\ state' = [state EXCEPT ![b] = Len(flows) + 1]
      /\ exchanges' = exchanges
    BY DEF OAuthStart
<1> HIDE DEF v
<1>3. /\ flows' \in Seq(FlowRecord) /\ Len(flows') = Len(flows) + 1 /\ Len(flows) \in Nat
      /\ flows'[Len(flows) + 1] = v
      /\ \A f \in 1 .. Len(flows) : flows'[f] = flows[f]
    BY <1>1, <1>2 DEF FlowShape
<1>4. state' \in [Browsers -> Nat]
    BY <1>2, <1>3 DEF FlowShape
<1>5. \A c \in Browsers : state'[c] # 0 =>
          state'[c] \in 1 .. Len(flows') /\ flows'[state'[c]].browser = c
    BY <1>1, <1>2, <1>3 DEF FlowShape
<1>6. \A x \in exchanges : x.flow \in 1 .. Len(flows') /\ flows'[x.flow] = flows[x.flow]
    BY <1>3 DEF FlowShape
<1> QED BY <1>2, <1>3, <1>4, <1>5, <1>6 DEF FlowShape, FlowsGrow

(* One flow's record is replaced by one that agrees with it. *)
LEMMA FlowPut ==
    ASSUME FlowShape, NEW f \in 1 .. Len(flows), NEW v \in FlowRecord,
           flows' = [flows EXCEPT ![f] = v],
           v.provider = flows[f].provider, v.browser = flows[f].browser,
           flows[f].subject # None => v.subject = flows[f].subject
    PROVE  /\ FlowsGrow /\ flows' \in Seq(FlowRecord) /\ Len(flows') = Len(flows)
           /\ \A c \in Browsers : state[c] # 0 =>
                 state[c] \in 1 .. Len(flows') /\ flows'[state[c]].browser = c
           /\ \A x \in exchanges :
                 /\ x.flow \in 1 .. Len(flows')
                 /\ flows'[x.flow].subject # None
                 /\ flows'[x.flow].browser = x.browser
<1>1. flows \in Seq(FlowRecord)
    BY DEF FlowShape
<1>2. /\ flows' \in Seq(FlowRecord) /\ Len(flows') = Len(flows) /\ flows'[f] = v
      /\ \A m \in 1 .. Len(flows) : m # f => flows'[m] = flows[m]
    BY <1>1, PutAt
<1>3. FlowsGrow
    BY <1>1, <1>2 DEF FlowsGrow
<1> QED BY <1>1, <1>2, <1>3 DEF FlowShape, FlowsGrow

LEMMA ApproveFlows ==
    ASSUME FlowShape, NEW f \in DOMAIN flows, Approve(f)
    PROVE  FlowShape' /\ FlowsGrow
<1>1. f \in 1 .. Len(flows) /\ flows[f] \in FlowRecord /\ flows[f].subject = None
    BY DEF FlowShape, Approve
<1>2. PICK s \in Subjects : flows' = [flows EXCEPT ![f].subject = s]
    BY DEF Approve
<1> DEFINE v == [flows[f] EXCEPT !.subject = s]
<1>3. v \in FlowRecord /\ v.provider = flows[f].provider /\ v.browser = flows[f].browser
    BY <1>1, ApprovedRecord
<1>4. flows' = [flows EXCEPT ![f] = v]
    BY <1>2
<1> HIDE DEF v
<1>5. UNCHANGED <<state, exchanges>>
    BY DEF Approve
<1> QED BY <1>1, <1>3, <1>4, <1>5, FlowPut, ZenonT(60) DEF FlowShape

LEMMA CallbackFlows ==
    ASSUME FlowShape, NEW b \in Browsers, NEW f \in DOMAIN flows, OAuthCallback(b, f)
    PROVE  FlowShape' /\ FlowsGrow
<1> DEFINE x == [flow |-> f, browser |-> b]
<1>1. f \in 1 .. Len(flows) /\ f # 0 /\ Len(flows) \in Nat
    BY DEF FlowShape
<1>2. /\ flows[f].subject # None /\ state[b] = f
      /\ exchanges' = exchanges \cup {x} /\ UNCHANGED <<flows, state>>
    BY DEF OAuthCallback
<1>3. flows[x.flow].browser = x.browser /\ x.flow = f
    BY <1>1, <1>2 DEF FlowShape
<1> HIDE DEF x
<1>4. FlowsGrow
    BY <1>2, FlowsSame
<1> QED BY <1>1, <1>2, <1>3, <1>4 DEF FlowShape

LEMMA ExchangedFlows ==
    ASSUME FlowShape, NEW x \in exchanges, Exchanged(x)
    PROVE  FlowShape' /\ FlowsGrow
<1>1. /\ x.flow \in 1 .. Len(flows) /\ flows[x.flow] \in FlowRecord
      /\ x.browser \in Browsers
    <2>1. x.flow \in 1 .. Len(flows) /\ flows[x.flow] \in FlowRecord
          /\ flows[x.flow].browser = x.browser
        BY DEF FlowShape
    <2> QED BY <2>1 DEF FlowRecord
<1> DEFINE v == [flows[x.flow] EXCEPT !.spent = TRUE]
<1>2. /\ v \in FlowRecord /\ v.provider = flows[x.flow].provider
      /\ v.browser = flows[x.flow].browser /\ v.subject = flows[x.flow].subject
    BY <1>1, SpentFlowRecord
<1>3. /\ flows' = [flows EXCEPT ![x.flow] = v]
      /\ state' = [state EXCEPT ![x.browser] = 0]
      /\ exchanges' = exchanges \ {x}
    BY DEF Exchanged
<1> HIDE DEF v
<1>4. /\ state' \in [Browsers -> Nat]
      /\ \A c \in Browsers : state'[c] # 0 => state'[c] = state[c]
    BY <1>1, <1>3 DEF FlowShape
<1> QED BY <1>1, <1>2, <1>3, <1>4, FlowPut, ZenonT(60) DEF FlowShape

-----------------------------------------------------------------------------
(* Accounts. *)

(* The rows of an account only gain: an epoch never falls, and an identity *)
(* is of one account for good.                                             *)
AccountsGrow ==
    /\ \A u \in Emails : epoch[u] \in Nat => epoch'[u] \in Nat /\ epoch[u] <= epoch'[u]
    /\ \A i \in Identities : identity[i] # None => identity'[i] = identity[i]

LEMMA AccountsSame ==
    ASSUME AccountShape, UNCHANGED <<epoch, identity>>
    PROVE  AccountsGrow
BY DEF AccountShape, AccountsGrow

LEMMA BumpAccounts ==
    ASSUME AccountShape, NEW u \in Emails, epoch[u] \in Nat, BumpEpoch(u),
           UNCHANGED <<address, moves, disabled, identity>>
    PROVE  AccountShape' /\ AccountsGrow
<1>1. epoch' = [epoch EXCEPT ![u] = @ + 1] /\ None \notin Nat
    BY AuthAssumption DEF BumpEpoch
<1>2. epoch' \in [Emails -> Nat \cup {None}] /\ epoch'[u] = epoch[u] + 1
      /\ \A w \in Emails : w # u => epoch'[w] = epoch[w]
    BY <1>1 DEF AccountShape
<1>3. \A w \in Emails : epoch[w] # None => epoch'[w] # None
    BY <1>1, <1>2
<1>4. AccountShape'
    BY <1>2, <1>3 DEF AccountShape
<1>5. AccountsGrow
    BY <1>2 DEF AccountsGrow, AccountShape
<1> QED BY <1>4, <1>5

(* Users.sign_in writes the identity of the account whose cookie it sets;  *)
(* while no address has moved, that is the account of the address itself.  *)
LEMMA SignInAccounts ==
    ASSUME AccountShape, Reaches, NEW b, NEW i \in Identities, NEW e \in Emails, NEW f,
           SignIn(b, i, e, f), UNCHANGED <<address, moves>>,
           i = <<"email", e>> \/ (i \in External /\ address[i] = e)
    PROVE  /\ AccountShape' /\ Reaches' /\ AccountsGrow
           /\ \E u \in Emails : /\ identity'[i] = u /\ epoch'[u] \in Nat
                                /\ SignedInResponse(b, u, epoch'[u], f)
<1> DEFINE u == Account(i, e)
           ep == IF epoch[u] = None THEN 0 ELSE epoch[u]
<1>1. None \notin Emails /\ None \notin Nat
    BY AuthAssumption
<1>2. u \in Emails /\ (identity[i] # None => u = identity[i]) /\ (identity[i] = None => u = e)
    BY DEF AccountShape, Account
<1>3. ep \in Nat /\ (epoch[u] \in Nat => ep = epoch[u])
    BY <1>1, <1>2 DEF AccountShape
<1>4. /\ epoch' = [epoch EXCEPT ![u] = ep]
      /\ identity' = [identity EXCEPT ![i] = u]
      /\ reached' = [reached EXCEPT ![e] = @ \cup {u}]
      /\ SignedInResponse(b, u, ep, f)
      /\ UNCHANGED disabled
    BY DEF SignIn
<1> HIDE DEF u, ep
<1>5. epoch' \in [Emails -> Nat \cup {None}] /\ epoch'[u] = ep
      /\ \A w \in Emails : w # u => epoch'[w] = epoch[w]
    BY <1>2, <1>3, <1>4 DEF AccountShape
<1>6. identity' \in [Identities -> Emails \cup {None}] /\ identity'[i] = u
      /\ \A j \in Identities : j # i => identity'[j] = identity[j]
    BY <1>2, <1>4 DEF AccountShape
<1>7. \A w \in Emails : epoch[w] # None => epoch'[w] # None
    BY <1>1, <1>3, <1>5
<1>8. epoch'[u] # None
    BY <1>1, <1>3, <1>5
<1>9. AccountShape'
    <2>1. \A j \in Identities : identity'[j] # None => epoch'[identity'[j]] # None
        BY <1>6, <1>7, <1>8 DEF AccountShape
    <2>2. \A w \in disabled' : epoch'[w] # None
        BY <1>4, <1>7 DEF AccountShape
    <2> QED BY <1>4, <1>5, <1>6, <2>1, <2>2 DEF AccountShape
<1>10. AccountsGrow
    <2>1. \A w \in Emails : epoch[w] \in Nat => epoch'[w] \in Nat /\ epoch[w] <= epoch'[w]
        BY <1>3, <1>5
    <2>2. \A j \in Identities : identity[j] # None => identity'[j] = identity[j]
        BY <1>2, <1>6
    <2> QED BY <2>1, <2>2 DEF AccountsGrow
<1>11. Reaches'
    <2>1. reached' \in [Emails -> SUBSET Emails] /\ reached'[e] = reached[e] \cup {u}
          /\ \A w \in Emails : w # e => reached'[w] = reached[w]
        BY <1>2, <1>4 DEF Reaches
    <2>2. i = <<"email", e>> => u = e
        BY <1>2 DEF Reaches
    <2>3. \A w \in Emails : <<"email", w>> \in Identities
        BY DEF Identities
    <2>4. \A w \in Emails : <<"email", w>> \notin External
        BY AuthAssumption DEF External
    <2>5. \A w \in Emails : identity'[<<"email", w>>] \in {None, w}
        <3> SUFFICES ASSUME NEW w \in Emails
                     PROVE  identity'[<<"email", w>>] \in {None, w}
            OBVIOUS
        <3>1. CASE <<"email", w>> = i
            <4>1. i = <<"email", e>>
                BY <2>4, <3>1
            <4>2. w = e
                BY <3>1, <4>1
            <4> QED BY <1>6, <2>2, <3>1, <4>1, <4>2
        <3>2. CASE <<"email", w>> # i
            <4>1. identity'[<<"email", w>>] = identity[<<"email", w>>]
                BY <1>6, <2>3, <3>2
            <4> QED BY <4>1 DEF Reaches
        <3> QED BY <3>1, <3>2
    <2>6. moves = 0 => u = e
        BY <1>2, <2>2 DEF Reaches
    <2>7. External \subseteq Identities
        BY DEF Identities
    <2>8. moves = 0 => \A j \in External : identity'[j] # None => identity'[j] = address[j]
        <3> SUFFICES ASSUME moves = 0, NEW j \in External, identity'[j] # None
                     PROVE  identity'[j] = address[j]
            OBVIOUS
        <3>1. CASE j = i
            <4>1. address[i] = e
                BY <2>4, <3>1
            <4> QED BY <1>6, <2>6, <3>1, <4>1
        <3>2. CASE j # i
            <4>1. identity'[j] = identity[j]
                BY <1>6, <2>7, <3>2
            <4> QED BY <4>1 DEF Reaches
        <3> QED BY <3>1, <3>2
    <2>9. moves = 0 => \A w \in Emails : reached'[w] \subseteq {w}
        BY <2>1, <2>6 DEF Reaches
    <2> QED BY <2>1, <2>5, <2>8, <2>9 DEF Reaches
<1> QED BY <1>2, <1>3, <1>4, <1>5, <1>6, <1>9, <1>10, <1>11

-----------------------------------------------------------------------------
(* Sessions: claims that are sound stay sound, whoever holds them. *)

Grows == now <= now' /\ FlowsGrow /\ AccountsGrow

LEMMA KeepsSound ==
    ASSUME LinkShape, LinkShape', FlowShape, AccountShape, Grows,
           NEW c, NEW b, Sound(c, b, now, epoch, flows, identity)
    PROVE  Sound(c, b, now', epoch', flows', identity')
<1>1. c \in Claims /\ b \in Browsers /\ c.at <= now /\ c.root = c.epoch
      /\ epoch[c.user] \in Nat /\ c.epoch <= epoch[c.user]
    BY DEF Sound
<1>2. c.user \in Emails /\ c.at \in Nat /\ c.epoch \in Nat /\ c.via[2] \in Nat
    BY <1>1 DEF Claims
<1>3. c.at <= now'
    BY <1>1, <1>2 DEF Grows, LinkShape
<1>4. epoch'[c.user] \in Nat /\ c.epoch <= epoch'[c.user]
    <2>1. epoch'[c.user] \in Nat /\ epoch[c.user] <= epoch'[c.user]
        BY <1>1, <1>2 DEF Grows, AccountsGrow
    <2> QED BY <1>1, <1>2, <2>1
<1>5. ASSUME ByFlow(c)
      PROVE  /\ c.via[2] \in 1 .. Len(flows')
             /\ flows'[c.via[2]].browser = b
             /\ flows'[c.via[2]].subject # None
             /\ identity'[<<flows'[c.via[2]].provider, flows'[c.via[2]].subject>>] = c.user
    <2> DEFINE i == <<flows[c.via[2]].provider, flows[c.via[2]].subject>>
    <2>1. /\ c.via[2] \in 1 .. Len(flows) /\ flows[c.via[2]].browser = b
          /\ flows[c.via[2]].subject # None /\ identity[i] = c.user
        BY <1>5 DEF Sound
    <2>2. flows[c.via[2]] \in FlowRecord
        BY <2>1 DEF FlowShape
    <2>3. i \in Identities
        BY <2>1, <2>2 DEF FlowRecord, Identities, External
    <2>4. c.user # None
        BY <1>2, AuthAssumption
    <2>5. identity'[i] = c.user
        BY <2>1, <2>3, <2>4 DEF Grows, AccountsGrow
    <2>6. Len(flows) \in Nat /\ Len(flows') \in Nat /\ Len(flows) <= Len(flows')
        <3>1. Len(flows) <= Len(flows')
            BY DEF Grows, FlowsGrow
        <3> QED BY <1>2, <3>1 DEF FlowShape
    <2>7. /\ flows'[c.via[2]].provider = flows[c.via[2]].provider
          /\ flows'[c.via[2]].browser = b
          /\ flows'[c.via[2]].subject = flows[c.via[2]].subject
        BY <2>1 DEF Grows, FlowsGrow
    <2> QED BY <2>1, <2>5, <2>6, <2>7
<1> QED BY <1>1, <1>3, <1>4, <1>5 DEF Sound

(* A step that makes only sound claims keeps all of them sound. *)
LEMMA SessionStep ==
    ASSUME LinkShape, LinkShape', FlowShape, AccountShape, Grows, SessionInv,
           \A b \in Browsers : \/ cookie'[b] = cookie[b]
                               \/ cookie'[b] = None
                               \/ Sound(cookie'[b], b, now', epoch', flows', identity'),
           cookie' \in [Browsers -> Claims \cup {None}],
           \A r \in refreshes' :
               r \in refreshes \/ Sound(r.caller, r.browser, now, epoch, flows, identity)
    PROVE  SessionInv'
<1>1. ASSUME NEW b \in Browsers, cookie'[b] # None
      PROVE  Sound(cookie'[b], b, now', epoch', flows', identity')
    <2>1. CASE cookie'[b] = cookie[b]
        BY <1>1, <2>1, KeepsSound DEF SessionInv
    <2> QED BY <1>1, <2>1
<1>2. ASSUME NEW r \in refreshes'
      PROVE  Sound(r.caller, r.browser, now', epoch', flows', identity')
    <2>1. Sound(r.caller, r.browser, now, epoch, flows, identity)
        BY <1>2 DEF SessionInv
    <2> QED BY <2>1, KeepsSound
<1> QED BY <1>1, <1>2 DEF SessionInv

LEMMA SessionsSame ==
    ASSUME LinkShape, LinkShape', FlowShape, AccountShape, Grows, SessionInv,
           UNCHANGED cookie, refreshes' \subseteq refreshes
    PROVE  SessionInv'
<1>1. cookie' \in [Browsers -> Claims \cup {None}]
    BY DEF SessionInv
<1> QED BY <1>1, SessionStep

(* The cookie a sign-in sets, by a link or by the flow f. *)
LEMMA SignInSession ==
    ASSUME LinkShape, LinkShape', FlowShape, AccountShape, Grows, SessionInv,
           NEW b \in Browsers, NEW u \in Emails,
           NEW via \in {"link", "flow"} \X Nat,
           epoch'[u] \in Nat, SignedInResponse(b, u, epoch'[u], via),
           UNCHANGED now, refreshes' = refreshes,
           via[1] = "flow" =>
               /\ via[2] \in 1 .. Len(flows') /\ flows'[via[2]].browser = b
               /\ flows'[via[2]].subject # None
               /\ identity'[<<flows'[via[2]].provider, flows'[via[2]].subject>>] = u
    PROVE  SessionInv'
<1> DEFINE v == Session(u, epoch'[u], via)
<1>1. /\ v.user = u /\ v.epoch = epoch'[u] /\ v.root = epoch'[u] /\ v.via = via /\ v.at = now
      /\ v \in Claims
    BY DEF Session, Claims, LinkShape
<1>2. cookie' = [cookie EXCEPT ![b] = v]
    BY DEF SignedInResponse
<1> HIDE DEF v
<1>3. Sound(v, b, now', epoch', flows', identity')
    BY <1>1 DEF Sound, LinkShape, ByFlow
<1>4. cookie' \in [Browsers -> Claims \cup {None}] /\ cookie'[b] = v
      /\ \A c \in Browsers : c # b => cookie'[c] = cookie[c]
    BY <1>1, <1>2 DEF SessionInv
<1> QED BY <1>3, <1>4, SessionStep

(* The renewed cookie is for the user and the epoch the request had. *)
LEMMA RespondSession ==
    ASSUME LinkShape, LinkShape', FlowShape, AccountShape, Grows, SessionInv,
           NEW r \in refreshes, Respond(r)
    PROVE  SessionInv'
<1> DEFINE v == [r.caller EXCEPT !.at = now]
<1>1. Sound(r.caller, r.browser, now, epoch, flows, identity)
    BY DEF SessionInv
<1>2. r.caller \in Claims /\ r.browser \in Browsers
    BY <1>1 DEF Sound
<1>3. /\ v \in Claims /\ v.user = r.caller.user /\ v.epoch = r.caller.epoch
      /\ v.root = r.caller.root /\ v.via = r.caller.via /\ v.at = now
    BY <1>2 DEF Claims, LinkShape
<1>4. cookie' = [cookie EXCEPT ![r.browser] = v] /\ refreshes' = refreshes \ {r}
    BY DEF Respond
<1> HIDE DEF v
<1>5. Sound(v, r.browser, now, epoch, flows, identity)
    BY <1>1, <1>3 DEF Sound, LinkShape, ByFlow
<1>6. Sound(v, r.browser, now', epoch', flows', identity')
    BY <1>5, KeepsSound
<1>7. cookie' \in [Browsers -> Claims \cup {None}] /\ cookie'[r.browser] = v
      /\ \A c \in Browsers : c # r.browser => cookie'[c] = cookie[c]
    BY <1>2, <1>3, <1>4 DEF SessionInv
<1> QED BY <1>4, <1>6, <1>7, SessionStep

(* A cookie that identifies its user is of that user's epoch. *)
LEMMA Identified ==
    ASSUME NEW c, Identify(c) # None
    PROVE  c # None /\ Identify(c) = c.user /\ epoch[c.user] = c.epoch
BY DEF Identify, Read

-----------------------------------------------------------------------------
(* The invariant. *)

LEMMA AuthStart == AuthInit => AuthInv
<1> SUFFICES ASSUME AuthInit PROVE AuthInv
    OBVIOUS
<1>1. LinkInv
    BY LinksStart DEF AuthInit
<1>2. FlowShape
    BY DEF AuthInit, FlowShape
<1>3. AccountShape
    BY DEF AuthInit, AccountShape
<1>4. Reaches
    <2>1. \A e \in Emails : <<"email", e>> \in Identities
        BY DEF Identities
    <2>2. External \subseteq Identities
        BY DEF Identities
    <2> QED BY <2>1, <2>2 DEF AuthInit, Reaches
<1>5. SessionInv
    BY DEF AuthInit, SessionInv
<1> QED BY <1>1, <1>2, <1>3, <1>4, <1>5 DEF AuthInv

(* A step that leaves accounts and flows alone. *)
LEMMA AccountsAside ==
    ASSUME AuthInv, LinkInv', now <= now',
           UNCHANGED <<accountVars, address, moves, flows, state, cookie>>,
           exchanges' \subseteq exchanges, refreshes' \subseteq refreshes
    PROVE  AuthInv'
<1>1. LinkShape /\ LinkShape' /\ FlowShape /\ AccountShape /\ Reaches /\ SessionInv
    BY DEF AuthInv, LinkInv
<1>2. FlowShape' /\ AccountShape' /\ Reaches'
    BY <1>1 DEF FlowShape, AccountShape, Reaches, accountVars
<1>3. Grows
    BY <1>1, FlowsSame, AccountsSame DEF Grows, accountVars
<1>4. SessionInv'
    BY <1>1, <1>3, SessionsSame
<1> QED BY <1>2, <1>4 DEF AuthInv

LEMMA LinksStepInv ==
    ASSUME AuthInv, LinksStep
    PROVE  AuthInv'
<1>1. LinkInv /\ now \in Nat
    BY DEF AuthInv, LinkInv, LinkShape
<1>2. LinkInv' /\ now <= now'
    <2>1. CASE \E c \in Clients, e \in Emails : RequestLink(c, e)
        <3>1. PICK c \in Clients, e \in Emails : RequestLink(c, e)
            BY <2>1
        <3>2. LinkInv'
            BY <1>1, <3>1, RequestLinkInv
        <3>3. now' = now
            BY <3>1 DEF RequestLink
        <3> QED BY <1>1, <3>2, <3>3
    <2>2. CASE \E n \in DOMAIN links : MailArrives(n)
        <3>1. PICK n \in DOMAIN links : MailArrives(n)
            BY <2>2
        <3>2. LinkInv'
            BY <1>1, <3>1, MailArrivesInv
        <3>3. now' = now
            BY <3>1 DEF MailArrives
        <3> QED BY <1>1, <3>2, <3>3
    <2>3. CASE Tick
        BY <1>1, <2>3, TickInv DEF Tick
    <2> QED BY <2>1, <2>2, <2>3 DEF LinksStep
<1> QED BY <1>2, AccountsAside DEF LinksStep

LEMMA RestartInv ==
    ASSUME AuthInv, Restart
    PROVE  AuthInv'
<1>1. LinkInv /\ now \in Nat /\ UNCHANGED now /\ starts' \in Nat
    BY DEF AuthInv, LinkInv, LinkShape, Restart, RestartLinks
<1>2. LinkInv'
    <2>1. CASE UNCHANGED <<links, magic>>
        BY <1>1, <2>1 DEF LinkInv, LinkShape, RowsTell
    <2>2. CASE \E n \in DOMAIN links : ReadMagic(n) /\ ConsumeMagic(n)
        BY <1>1, <2>2, ConsumeInv
    <2> QED BY <2>1, <2>2 DEF Restart
<1> QED BY <1>1, <1>2, AccountsAside DEF Restart

LEMMA VerifyLinkInv ==
    ASSUME AuthInv, NEW b \in Browsers, NEW n \in DOMAIN links, VerifyLink(b, n)
    PROVE  AuthInv'
<1> DEFINE e == links[n].email
           i == <<"email", e>>
<1>1. LinkInv /\ LinkShape /\ FlowShape /\ AccountShape /\ Reaches /\ SessionInv
    BY DEF AuthInv, LinkInv
<1>2. /\ ConsumeMagic(n) /\ SignIn(b, i, e, <<"link", n>>)
      /\ UNCHANGED <<now, starts>>
      /\ UNCHANGED <<address, moves, flows, state, exchanges, refreshes>>
    BY DEF VerifyLink
<1>3. LinkInv' /\ LinkShape'
    BY <1>1, <1>2, ConsumeInv DEF LinkInv, LinkShape
<1>4. e \in Emails /\ i \in Identities
    <2>1. links[n] \in LinkRecord
        BY <1>1 DEF LinkShape
    <2> QED BY <2>1 DEF LinkRecord, Identities
<1> HIDE DEF e
<1>5. /\ AccountShape' /\ Reaches' /\ AccountsGrow
      /\ \E u \in Emails : /\ identity'[i] = u /\ epoch'[u] \in Nat
                           /\ SignedInResponse(b, u, epoch'[u], <<"link", n>>)
    BY <1>1, <1>2, <1>4, SignInAccounts
<1>6. FlowShape' /\ Grows
    BY <1>1, <1>2, <1>5, FlowsSame DEF FlowShape, Grows, LinkShape
<1>7. <<"link", n>> \in {"link", "flow"} \X Nat /\ <<"link", n>>[1] # "flow"
    BY <1>1 DEF LinkShape
<1>8. SessionInv'
    BY <1>1, <1>2, <1>3, <1>5, <1>6, <1>7, SignInSession
<1> QED BY <1>3, <1>5, <1>6, <1>8 DEF AuthInv

LEMMA ExchangedInv ==
    ASSUME AuthInv, NEW x \in exchanges, Exchanged(x)
    PROVE  AuthInv'
<1> DEFINE i == Who(x)
           e == address[i]
<1>1. LinkInv /\ LinkShape /\ FlowShape /\ AccountShape /\ Reaches /\ SessionInv
    BY DEF AuthInv, LinkInv
<1>2. /\ e # None /\ SignIn(x.browser, i, e, <<"flow", x.flow>>)
      /\ UNCHANGED <<linkVars, address, moves, refreshes>>
    BY DEF Exchanged
<1>3. LinkInv' /\ LinkShape' /\ now' = now
    BY <1>1, <1>2 DEF LinkInv, LinkShape, RowsTell, linkVars
<1>4. FlowShape' /\ FlowsGrow
    BY <1>1, ExchangedFlows
<1>5. /\ x.flow \in 1 .. Len(flows) /\ flows[x.flow] \in FlowRecord
      /\ flows[x.flow].subject # None /\ flows[x.flow].browser = x.browser
    BY <1>1 DEF FlowShape
<1>6. x.browser \in Browsers /\ i \in External /\ x.flow \in Nat
    BY <1>5 DEF FlowRecord, Who, External
<1>7. e \in Emails /\ i \in Identities
    BY <1>1, <1>2, <1>6 DEF AccountShape, Identities
<1>8. /\ x.flow \in 1 .. Len(flows') /\ flows'[x.flow].browser = x.browser
      /\ flows'[x.flow].subject # None
      /\ <<flows'[x.flow].provider, flows'[x.flow].subject>> = i
    BY <1>1, <1>4, <1>5 DEF FlowsGrow, FlowShape, Who
<1> HIDE DEF e, i
<1>9. e = address[i]
    BY DEF e
<1>10. /\ AccountShape' /\ Reaches' /\ AccountsGrow
      /\ \E u \in Emails : /\ identity'[i] = u /\ epoch'[u] \in Nat
                           /\ SignedInResponse(x.browser, u, epoch'[u], <<"flow", x.flow>>)
    BY <1>1, <1>2, <1>6, <1>7, <1>9, SignInAccounts
<1>11. Grows
    BY <1>1, <1>3, <1>4, <1>10 DEF Grows, LinkShape
<1>12. SessionInv'
    BY <1>1, <1>2, <1>3, <1>6, <1>8, <1>10, <1>11, SignInSession
<1> QED BY <1>3, <1>4, <1>10, <1>12 DEF AuthInv

LEMMA OAuthStepInv ==
    ASSUME AuthInv, OAuthStep
    PROVE  AuthInv'
<1>1. LinkInv /\ LinkShape /\ FlowShape /\ AccountShape /\ Reaches /\ SessionInv /\ now \in Nat
    BY DEF AuthInv, LinkInv, LinkShape
<1>2. ASSUME UNCHANGED <<linkVars, accountVars, address, moves, cookie, refreshes>>,
             FlowShape', FlowsGrow
      PROVE  AuthInv'
    <2>1. LinkInv' /\ LinkShape'
        BY <1>1, <1>2 DEF LinkInv, LinkShape, RowsTell, linkVars
    <2>2. AccountShape' /\ Reaches'
        BY <1>1, <1>2 DEF AccountShape, Reaches, accountVars
    <2>3. Grows
        BY <1>1, <1>2, AccountsSame DEF Grows, accountVars, linkVars
    <2>4. SessionInv'
        BY <1>1, <1>2, <2>1, <2>3, SessionsSame
    <2> QED BY <1>2, <2>1, <2>2, <2>4 DEF AuthInv
<1>3. CASE \E b \in Browsers, p \in Providers : OAuthStart(b, p)
    <2>1. PICK b \in Browsers, p \in Providers : OAuthStart(b, p)
        BY <1>3
    <2>2. FlowShape' /\ FlowsGrow
        BY <1>1, <2>1, OAuthStartFlows
    <2> QED BY <1>2, <2>1, <2>2 DEF OAuthStart
<1>4. CASE \E f \in DOMAIN flows : Approve(f)
    <2>1. PICK f \in DOMAIN flows : Approve(f)
        BY <1>4
    <2>2. FlowShape' /\ FlowsGrow
        BY <1>1, <2>1, ApproveFlows
    <2> QED BY <1>2, <2>1, <2>2 DEF Approve
<1>5. CASE \E f \in DOMAIN flows, b \in Browsers : OAuthCallback(b, f)
    <2>1. PICK f \in DOMAIN flows, b \in Browsers : OAuthCallback(b, f)
        BY <1>5
    <2>2. FlowShape' /\ FlowsGrow
        BY <1>1, <2>1, CallbackFlows
    <2> QED BY <1>2, <2>1, <2>2 DEF OAuthCallback
<1>6. CASE \E x \in exchanges : Exchanged(x)
    BY <1>6, ExchangedInv
<1>7. CASE \E x \in exchanges : ExchangeFails(x)
    <2>1. LinkInv' /\ now <= now'
        BY <1>1, <1>7 DEF ExchangeFails, LinkInv, LinkShape, RowsTell, linkVars
    <2> QED BY <1>7, <2>1, AccountsAside DEF ExchangeFails
<1>8. CASE \E i \in External : ChangeAddress(i)
    <2>1. PICK i \in External : ChangeAddress(i)
        BY <1>8
    <2>2. PICK e \in Emails \cup {None} : address' = [address EXCEPT ![i] = e]
        BY <2>1 DEF ChangeAddress
    <2>3. /\ UNCHANGED <<linkVars, accountVars, flows, state, cookie, exchanges, refreshes>>
          /\ moves' = moves + 1
        BY <2>1 DEF ChangeAddress
    <2>4. LinkInv' /\ LinkShape'
        BY <1>1, <2>3 DEF LinkInv, LinkShape, RowsTell, linkVars
    <2>5. FlowShape'
        BY <1>1, <2>3 DEF FlowShape
    <2>6. address' \in [External -> Emails \cup {None}] /\ moves' \in Nat /\ moves' # 0
        BY <1>1, <2>2, <2>3 DEF AccountShape
    <2>7. AccountShape'
        BY <1>1, <2>3, <2>6 DEF AccountShape, accountVars
    <2>8. Reaches'
        BY <1>1, <2>3, <2>6 DEF Reaches, accountVars
    <2>9. Grows
        BY <1>1, <2>3, FlowsSame, AccountsSame DEF Grows, accountVars, linkVars
    <2>10. SessionInv'
        BY <1>1, <2>3, <2>4, <2>9, SessionsSame
    <2> QED BY <2>4, <2>5, <2>7, <2>8, <2>10 DEF AuthInv
<1> QED BY <1>3, <1>4, <1>5, <1>6, <1>7, <1>8 DEF OAuthStep

(* Requests, responses, sign-outs and an operator's disabling. *)
LEMMA SessionStepInv ==
    ASSUME AuthInv,
           \/ \E b \in Browsers : Request(b) \/ SignOut(b)
           \/ \E r \in refreshes : Respond(r)
           \/ \E u \in Emails : Disable(u)
    PROVE  AuthInv'
<1>1. LinkInv /\ LinkShape /\ FlowShape /\ AccountShape /\ Reaches /\ SessionInv /\ now \in Nat
    BY DEF AuthInv, LinkInv, LinkShape
<1>2. UNCHANGED linkVars /\ UNCHANGED <<address, moves, flows, state, identity, reached, exchanges>>
    BY DEF Request, SignOut, Respond, Disable, accountVars
<1>3. LinkInv' /\ LinkShape' /\ FlowShape' /\ Reaches' /\ FlowsGrow /\ now <= now'
    BY <1>1, <1>2, FlowsSame DEF LinkInv, LinkShape, RowsTell, linkVars, FlowShape, Reaches
<1>4. CASE \E b \in Browsers : Request(b)
    <2>1. PICK b \in Browsers : Request(b)
        BY <1>4
    <2> DEFINE r == [browser |-> b, caller |-> cookie[b]]
    <2>2. /\ Identify(cookie[b]) # None /\ refreshes' = refreshes \cup {r}
          /\ UNCHANGED <<accountVars, cookie>>
        BY <2>1 DEF Request
    <2>3. r.caller = cookie[b] /\ r.browser = b
        OBVIOUS
    <2> HIDE DEF r
    <2>4. Sound(r.caller, r.browser, now, epoch, flows, identity)
        BY <1>1, <2>2, <2>3, Identified DEF SessionInv
    <2>5. AccountShape' /\ Grows
        BY <1>1, <1>2, <1>3, <2>2, AccountsSame DEF AccountShape, Grows, accountVars
    <2>6. cookie' \in [Browsers -> Claims \cup {None}]
        BY <1>1, <2>2 DEF SessionInv
    <2>7. SessionInv'
        BY <1>1, <1>3, <2>2, <2>4, <2>5, <2>6, SessionStep
    <2> QED BY <1>3, <2>5, <2>7 DEF AuthInv
<1>5. CASE \E b \in Browsers : SignOut(b)
    <2>1. PICK b \in Browsers : SignOut(b)
        BY <1>5
    <2>2. /\ cookie' = [cookie EXCEPT ![b] = None] /\ refreshes' = refreshes
          /\ UNCHANGED <<address, moves, disabled, identity>>
        BY <2>1 DEF SignOut
    <2>3. AccountShape' /\ AccountsGrow
        <3>1. CASE UNCHANGED epoch
            BY <1>1, <2>2, <3>1, AccountsSame DEF AccountShape
        <3>2. CASE Identify(cookie[b]) # None /\ BumpEpoch(Identify(cookie[b]))
            <4>1. cookie[b] # None /\ Identify(cookie[b]) = cookie[b].user
                BY <3>2, Identified
            <4>2. cookie[b].user \in Emails /\ epoch[cookie[b].user] \in Nat
                BY <1>1, <4>1 DEF SessionInv, Sound, Claims
            <4> QED BY <1>1, <2>2, <3>2, <4>1, <4>2, BumpAccounts
        <3> QED BY <2>1, <3>1, <3>2 DEF SignOut
    <2>4. Grows
        BY <1>3, <2>3 DEF Grows
    <2>5. cookie' \in [Browsers -> Claims \cup {None}]
          /\ \A c \in Browsers : cookie'[c] = cookie[c] \/ cookie'[c] = None
        BY <1>1, <2>2 DEF SessionInv
    <2>6. SessionInv'
        BY <1>1, <1>3, <2>2, <2>4, <2>5, SessionStep
    <2> QED BY <1>3, <2>3, <2>6 DEF AuthInv
<1>6. CASE \E r \in refreshes : Respond(r)
    <2>1. PICK r \in refreshes : Respond(r)
        BY <1>6
    <2>2. AccountShape' /\ Grows
        BY <1>1, <1>2, <1>3, <2>1, AccountsSame DEF Respond, AccountShape, Grows, accountVars
    <2>3. SessionInv'
        BY <1>1, <1>3, <2>1, <2>2, RespondSession
    <2> QED BY <1>3, <2>2, <2>3 DEF AuthInv
<1>7. CASE \E u \in Emails : Disable(u)
    <2>1. PICK u \in Emails : Disable(u)
        BY <1>7
    <2>2. /\ epoch[u] # None /\ disabled' = disabled \cup {u}
          /\ UNCHANGED <<cookie, epoch, refreshes>>
        BY <2>1 DEF Disable
    <2>3. AccountShape' /\ Grows
        BY <1>1, <1>2, <1>3, <2>2, AccountsSame DEF AccountShape, Grows
    <2>4. SessionInv'
        BY <1>1, <1>3, <2>2, <2>3, SessionsSame
    <2> QED BY <1>3, <2>3, <2>4 DEF AuthInv
<1> QED BY <1>4, <1>5, <1>6, <1>7

LEMMA AuthStep == AuthInv /\ [AuthNext]_authVars => AuthInv'
<1> SUFFICES ASSUME AuthInv, [AuthNext]_authVars PROVE AuthInv'
    OBVIOUS
<1>1. CASE LinksStep
    BY <1>1, LinksStepInv
<1>2. CASE OAuthStep
    BY <1>2, OAuthStepInv
<1>3. CASE Restart
    BY <1>3, RestartInv
<1>4. CASE \E b \in Browsers, n \in DOMAIN links : VerifyLink(b, n)
    BY <1>4, VerifyLinkInv
<1>5. CASE \/ \E b \in Browsers : Request(b) \/ SignOut(b)
           \/ \E r \in refreshes : Respond(r)
           \/ \E u \in Emails : Disable(u)
    BY <1>5, SessionStepInv
<1>6. CASE UNCHANGED authVars
    <2>1. LinkInv' /\ now <= now'
        BY <1>6 DEF authVars, linkVars, AuthInv, LinkInv, LinkShape, RowsTell
    <2> QED BY <1>6, <2>1, AccountsAside DEF authVars
<1> QED BY <1>1, <1>2, <1>3, <1>4, <1>5, <1>6 DEF AuthNext

THEOREM AuthInvariant == AuthSpec => []AuthInv
BY AuthStart, AuthStep, PTL DEF AuthSpec

-----------------------------------------------------------------------------
(***************************************************************************)
(* The rate windows.  T gives the times of the links counted by a window q *)
(* of a limit, at time t: the young ones have a hit of their own in q,     *)
(* whatever else q forgets, and no hour has more links than the limit.     *)
(***************************************************************************)
Backed(T, q, t) ==
    \E h \in [{n \in DOMAIN T : T[n] >= t - Window} -> 1 .. Len(q)] :
        \A m, n \in {l \in DOMAIN T : T[l] >= t - Window} :
            q[h[n]] = T[n] /\ (h[m] = h[n] => m = n)

Hour(T, u) == {n \in DOMAIN T : T[n] \in u .. u + Window}

Rationed(T, q, limit, t) ==
    /\ \A n \in DOMAIN T : T[n] \in Nat /\ T[n] <= t
    /\ Backed(T, q, t)
    /\ \A u \in Nat : IsFiniteSet(Hour(T, u)) /\ Cardinality(Hour(T, u)) <= limit

(* The times of the links of this start with value k in field key. *)
Times(key, k) ==
    [n \in {m \in DOMAIN links : links[m][key] = k /\ links[m].start = starts} |-> links[n].at]

RateInv ==
    /\ ipHits \in [Clients -> Seq(Nat)] /\ emailHits \in [Emails -> Seq(Nat)]
    /\ \A c \in Clients : Rationed(Times("client", c), ipHits[c], PerIp, now)
    /\ \A e \in Emails : Rationed(Times("email", e), emailHits[e], PerEmail, now)
    /\ \A n \in DOMAIN links : links[n].start \in Nat /\ links[n].start <= starts

(* There is a longest front of hits that are too old. *)
LEMMA PoppedFront ==
    ASSUME now \in Nat, NEW q \in Seq(Nat)
    PROVE  Popped(q) \in 0 .. Len(q) /\ \A i \in 1 .. Popped(q) : q[i] < now - Window
<1> DEFINE Stops == {n \in 0 .. Len(q) : n < Len(q) => q[n + 1] >= now - Window}
           Less  == {p \in Nat \X Nat : p[1] < p[2]}
<1>1. Len(q) \in Nat /\ Window \in Nat /\ \A i \in 1 .. Len(q) : q[i] \in Nat
    BY LinksAssumption
<1>2. Stops \subseteq Nat /\ Len(q) \in Stops
    BY <1>1
<1>3. IsWellFoundedOn(Less, Nat)
    BY NatLessThanWellFounded DEF OpToRel
<1> HIDE DEF Less, Stops
<1>4. PICK k \in Stops : \A i \in Stops : <<i, k>> \notin Less
    BY <1>2, <1>3, WFMin
<1>5. k \in 0 .. Len(q) /\ (k < Len(q) => q[k + 1] >= now - Window)
    BY <1>4 DEF Stops
<1>6. ASSUME NEW i \in 1 .. k
      PROVE  q[i] < now - Window
    <2>1. i - 1 \in Nat /\ i - 1 < k /\ i - 1 \in 0 .. Len(q) /\ k \in Nat
        BY <1>1, <1>5
    <2>2. <<i - 1, k>> \in Less
        BY <2>1 DEF Less
    <2>3. i - 1 \notin Stops
        BY <1>4, <2>2
    <2>4. i - 1 < Len(q) /\ ~ (q[i - 1 + 1] >= now - Window)
        BY <2>1, <2>3 DEF Stops
    <2>5. i - 1 + 1 = i /\ q[i] \in Nat
        BY <1>1, <2>1, <2>4
    <2> QED BY <1>1, <2>4, <2>5
<1>7. TooOld(q, k)
    BY <1>5, <1>6 DEF TooOld
<1>8. Popped(q) \in 0 .. Len(q) /\ TooOld(q, Popped(q))
    BY <1>5, <1>7, Zenon DEF Popped
<1> QED BY <1>8 DEF TooOld

LEMMA RecentHits ==
    ASSUME now \in Nat, NEW q \in Seq(Nat)
    PROVE  /\ Recent(q) \in Seq(Nat)
           /\ \E k \in 0 .. Len(q) :
                 /\ Len(Recent(q)) = Len(q) - k
                 /\ \A i \in 1 .. k : q[i] < now - Window
                 /\ \A i \in 1 .. Len(q) - k : Recent(q)[i] = q[k + i]
<1>1. PICK k \in 0 .. Len(q) : Popped(q) = k /\ \A i \in 1 .. k : q[i] < now - Window
    BY PoppedFront
<1>2. Recent(q) = SubSeq(q, k + 1, Len(q)) /\ Len(q) \in Nat
    BY <1>1 DEF Recent
<1>3. /\ SubSeq(q, k + 1, Len(q)) \in Seq(Nat)
      /\ Len(SubSeq(q, k + 1, Len(q))) = Len(q) - k
      /\ \A i \in 1 .. Len(q) - k : SubSeq(q, k + 1, Len(q))[i] = q[k + i]
    <2>1. \A i \in k + 1 .. Len(q) : q[i] \in Nat
        BY <1>1
    <2>2. k + 1 \in Int /\ Len(q) \in Int
        BY <1>2
    <2> QED BY <1>1, <1>2, <2>1, <2>2, SubSeqProperties
<1> QED BY <1>1, <1>2, <1>3

(* What is popped is too old to be anybody's hit. *)
LEMMA RecentBacks ==
    ASSUME now \in Nat, NEW q \in Seq(Nat), NEW T, Backed(T, q, now),
           \A n \in DOMAIN T : T[n] \in Nat
    PROVE  Backed(T, Recent(q), now)
<1> DEFINE S == {n \in DOMAIN T : T[n] >= now - Window}
<1>1. PICK h \in [S -> 1 .. Len(q)] : \A m, n \in S : q[h[n]] = T[n] /\ (h[m] = h[n] => m = n)
    BY DEF Backed
<1>2. PICK k \in 0 .. Len(q) :
          /\ Len(Recent(q)) = Len(q) - k
          /\ \A i \in 1 .. k : q[i] < now - Window
          /\ \A i \in 1 .. Len(q) - k : Recent(q)[i] = q[k + i]
    BY RecentHits
<1>3. ASSUME NEW n \in S
      PROVE  h[n] - k \in 1 .. Len(Recent(q)) /\ Recent(q)[h[n] - k] = T[n]
    <2>1. T[n] \in Nat /\ T[n] >= now - Window /\ Window \in Nat
        BY LinksAssumption
    <2>2. h[n] \in 1 .. Len(q) /\ q[h[n]] = T[n] /\ Len(q) \in Nat
        BY <1>1
    <2>3. h[n] \notin 1 .. k
        BY <1>2, <2>1, <2>2
    <2>4. h[n] - k \in 1 .. Len(q) - k /\ k + (h[n] - k) = h[n]
        BY <2>2, <2>3
    <2> QED BY <1>2, <2>2, <2>4
<1> DEFINE g == [n \in S |-> h[n] - k]
<1>4. g \in [S -> 1 .. Len(Recent(q))]
    BY <1>3
<1>5. \A m, n \in S : g[m] = g[n] => m = n
    <2>1. \A n \in S : h[n] \in Int
        BY <1>1
    <2>2. k \in Int
        BY <1>2
    <2> QED BY <1>1, <2>1, <2>2
<1>6. \A n \in S : Recent(q)[g[n]] = T[n]
    BY <1>3
<1> HIDE DEF g
<1> QED BY <1>4, <1>5, <1>6 DEF Backed

(* Each of a set of young links has its hit, so there are no more of them. *)
LEMMA BackedBound ==
    ASSUME NEW T, NEW q \in Seq(Nat), NEW t \in Nat, Backed(T, q, t),
           NEW S \in SUBSET {n \in DOMAIN T : T[n] >= t - Window}
    PROVE  IsFiniteSet(S) /\ Cardinality(S) <= Len(q)
<1> DEFINE Y == {n \in DOMAIN T : T[n] >= t - Window}
<1>1. PICK h \in [Y -> 1 .. Len(q)] : \A m, n \in Y : q[h[n]] = T[n] /\ (h[m] = h[n] => m = n)
    BY DEF Backed
<1> DEFINE g == [n \in S |-> h[n]]
<1>2. g \in Injection(S, 1 .. Len(q))
    <2>1. g \in [S -> 1 .. Len(q)] /\ \A m, n \in S : g[m] = g[n] => m = n
        BY <1>1
    <2> QED BY <2>1 DEF Injection, IsInjective
<1>3. Len(q) \in Nat
    OBVIOUS
<1>4. IsFiniteSet(1 .. Len(q)) /\ Cardinality(1 .. Len(q)) = Len(q)
    <2>1. 1 \in Int /\ Len(q) \in Int
        BY <1>3
    <2>2. /\ IsFiniteSet(1 .. Len(q))
          /\ Cardinality(1 .. Len(q)) = IF 1 > Len(q) THEN 0 ELSE Len(q) - 1 + 1
        BY <2>1, FS_Interval
    <2> QED BY <1>3, <2>2
<1> HIDE DEF g
<1> QED BY <1>2, <1>4, FS_Injection

(* The window at rest, as time goes by, is one for fewer links. *)
LEMMA RationedLater ==
    ASSUME NEW T, NEW q \in Seq(Nat), NEW limit, NEW t \in Nat, Rationed(T, q, limit, t)
    PROVE  Rationed(T, q, limit, t + 1)
<1> DEFINE Y == {n \in DOMAIN T : T[n] >= t - Window}
           Z == {n \in DOMAIN T : T[n] >= (t + 1) - Window}
<1>1. Window \in Nat /\ \A n \in DOMAIN T : T[n] \in Nat /\ T[n] <= t
    BY LinksAssumption DEF Rationed
<1>2. PICK h \in [Y -> 1 .. Len(q)] : \A m, n \in Y : q[h[n]] = T[n] /\ (h[m] = h[n] => m = n)
    BY DEF Rationed, Backed
<1>3. Z \subseteq Y
    BY <1>1
<1> DEFINE g == [n \in Z |-> h[n]]
<1>4. g \in [Z -> 1 .. Len(q)]
    BY <1>2, <1>3
<1>5. \A n \in Z : q[g[n]] = T[n]
    BY <1>2, <1>3
<1>6. \A m, n \in Z : g[m] = g[n] => m = n
    BY <1>2, <1>3
<1> HIDE DEF g
<1>7. Backed(T, q, t + 1)
    BY <1>4, <1>5, <1>6 DEF Backed
<1>8. \A n \in DOMAIN T : T[n] <= t + 1
    BY <1>1
<1> QED BY <1>1, <1>7, <1>8 DEF Rationed

LEMMA RationedRefused ==
    ASSUME NEW T, NEW q \in Seq(Nat), NEW limit, now \in Nat, Rationed(T, q, limit, now)
    PROVE  Rationed(T, Recent(q), limit, now)
BY RecentBacks DEF Rationed

(* One more link and one more hit: its hours held fewer than the limit. *)
LEMMA RationedGranted ==
    ASSUME NEW T, NEW U, NEW q \in Seq(Nat), NEW limit \in Nat, NEW m, now \in Nat,
           Rationed(T, q, limit, now), Allows(q, limit),
           m \notin DOMAIN T, DOMAIN U = DOMAIN T \cup {m},
           U[m] = now, \A n \in DOMAIN T : U[n] = T[n]
    PROVE  Rationed(U, Append(Recent(q), now), limit, now)
<1> DEFINE r == Recent(q)
           Y == {n \in DOMAIN T : T[n] >= now - Window}
           Z == {n \in DOMAIN U : U[n] >= now - Window}
<1>1. Window \in Nat /\ \A n \in DOMAIN T : T[n] \in Nat /\ T[n] <= now
    BY LinksAssumption DEF Rationed
<1>2. r \in Seq(Nat) /\ Len(r) \in Nat /\ Len(r) < limit
    BY RecentHits DEF Allows
<1>3. Backed(T, r, now)
    BY <1>1, RecentBacks DEF Rationed
<1> HIDE DEF r
<1>4. Z = Y \cup {m}
    BY <1>1
<1>5. PICK h \in [Y -> 1 .. Len(r)] : \A l, n \in Y : r[h[n]] = T[n] /\ (h[l] = h[n] => l = n)
    BY <1>3 DEF Backed
<1>6. /\ Len(Append(r, now)) = Len(r) + 1 /\ Append(r, now)[Len(r) + 1] = now
      /\ \A i \in 1 .. Len(r) : Append(r, now)[i] = r[i]
    BY <1>2
<1> DEFINE g == [n \in Z |-> IF n = m THEN Len(r) + 1 ELSE h[n]]
<1>7. \A n \in Y : n # m /\ h[n] \in 1 .. Len(r) /\ g[n] = h[n] /\ U[n] = T[n]
    BY <1>4, <1>5
<1>8. g[m] = Len(r) + 1 /\ m \in Z
    BY <1>4
<1>9. g \in [Z -> 1 .. Len(r) + 1]
    BY <1>2, <1>4, <1>7
<1> HIDE DEF g
<1>10. \A n \in Z : Append(r, now)[g[n]] = U[n]
    BY <1>4, <1>5, <1>6, <1>7, <1>8
<1>11. \A l, n \in Z : g[l] = g[n] => l = n
    BY <1>2, <1>4, <1>5, <1>7, <1>8
<1>12. Backed(U, Append(r, now), now)
    BY <1>6, <1>9, <1>10, <1>11, ZenonT(60) DEF Backed
<1>13. ASSUME NEW u \in Nat
       PROVE  IsFiniteSet(Hour(U, u)) /\ Cardinality(Hour(U, u)) <= limit
    <2>1. IsFiniteSet(Hour(T, u)) /\ Cardinality(Hour(T, u)) <= limit
        BY DEF Rationed
    <2>2. CASE now \in u .. u + Window
        <3>1. Hour(T, u) \in SUBSET Y
            BY <1>1, <2>2 DEF Hour
        <3>2. Cardinality(Hour(T, u)) <= Len(r)
            BY <1>2, <1>3, <3>1, BackedBound
        <3>3. Hour(U, u) = Hour(T, u) \cup {m} /\ m \notin Hour(T, u)
            BY <2>2 DEF Hour
        <3>4. /\ IsFiniteSet(Hour(U, u))
              /\ Cardinality(Hour(U, u)) = Cardinality(Hour(T, u)) + 1
            BY <2>1, <3>3, FS_AddElement
        <3>5. Cardinality(Hour(T, u)) \in Nat
            BY <2>1, FS_CardinalityType
        <3> QED BY <1>2, <3>2, <3>4, <3>5
    <2>3. CASE now \notin u .. u + Window
        <3>1. Hour(U, u) = Hour(T, u)
            BY <2>3 DEF Hour
        <3> QED BY <2>1, <3>1
    <2> QED BY <2>2, <2>3
<1>14. \A n \in DOMAIN U : U[n] \in Nat /\ U[n] <= now
    BY <1>1
<1> QED BY <1>12, <1>13, <1>14 DEF Rationed, r

(* A hit more than there are links: the client's, when the address refuses. *)
LEMMA RationedSpare ==
    ASSUME NEW T, NEW q \in Seq(Nat), NEW limit, now \in Nat, Rationed(T, q, limit, now)
    PROVE  Rationed(T, Append(Recent(q), now), limit, now)
<1> DEFINE r == Recent(q)
           Y == {n \in DOMAIN T : T[n] >= now - Window}
<1>1. Backed(T, r, now)
    BY RecentBacks DEF Rationed
<1>2. r \in Seq(Nat)
    BY RecentHits
<1> HIDE DEF r
<1>3. PICK h \in [Y -> 1 .. Len(r)] : \A l, n \in Y : r[h[n]] = T[n] /\ (h[l] = h[n] => l = n)
    BY <1>1 DEF Backed
<1>4. /\ Len(Append(r, now)) = Len(r) + 1 /\ Len(r) \in Nat
      /\ \A i \in 1 .. Len(r) : Append(r, now)[i] = r[i]
    BY <1>2
<1>5. h \in [Y -> 1 .. Len(Append(r, now))]
    <2>1. \A n \in Y : h[n] \in 1 .. Len(Append(r, now))
        BY <1>3, <1>4
    <2> QED BY <1>3, <2>1
<1>6. \A l, n \in Y : Append(r, now)[h[n]] = T[n] /\ (h[l] = h[n] => l = n)
    BY <1>3, <1>4
<1>7. Backed(T, Append(r, now), now)
    BY <1>5, <1>6 DEF Backed
<1> QED BY <1>7 DEF Rationed, r

(* With no links of this start, any window will do. *)
LEMMA RationedNone ==
    ASSUME NEW T, DOMAIN T = {}, NEW q, NEW limit \in Nat, NEW t
    PROVE  Rationed(T, q, limit, t)
<1> DEFINE g == [n \in {} |-> 1]
<1>1. {n \in DOMAIN T : T[n] >= t - Window} = {} /\ g \in [{} -> 1 .. Len(q)]
    OBVIOUS
<1>2. Backed(T, q, t)
    BY <1>1 DEF Backed
<1>3. \A u \in Nat : Hour(T, u) = {}
    BY DEF Hour
<1>4. IsFiniteSet({}) /\ Cardinality({}) = 0
    BY FS_EmptySet
<1>5. \A n \in DOMAIN T : T[n] \in Nat /\ T[n] <= t
    OBVIOUS
<1>6. \A u \in Nat : IsFiniteSet(Hour(T, u)) /\ Cardinality(Hour(T, u)) <= limit
    <2>1. 0 <= limit
        OBVIOUS
    <2> TAKE u \in Nat
    <2>2. Hour(T, u) = {}
        BY <1>3
    <2> HIDE DEF g
    <2> QED BY <1>4, <2>1, <2>2, Zenon
<1> QED BY <1>2, <1>5, <1>6 DEF Rationed

(* A link's window is found by the fields of its record. *)
LEMMA LinkKeys ==
    ASSUME NEW r \in LinkRecord
    PROVE  r["client"] = r.client /\ r["email"] = r.email /\ r.at \in Nat
BY DEF LinkRecord

(* What is mailed or spent says the same of who asked for it, and when. *)
LEMMA LinkKept ==
    ASSUME NEW r \in LinkRecord,
           NEW v \in {[r EXCEPT !.mailed = TRUE], [r EXCEPT !.spent = @ + 1]}
    PROVE  /\ v \in LinkRecord /\ v.client = r.client /\ v.email = r.email
           /\ v.at = r.at /\ v.start = r.start
<1>1. CASE v = [r EXCEPT !.mailed = TRUE]
    BY <1>1 DEF LinkRecord
<1>2. CASE v = [r EXCEPT !.spent = @ + 1]
    <2>1. r.spent + 1 \in Nat
        BY DEF LinkRecord
    <2> QED BY <1>2, <2>1 DEF LinkRecord
<1> QED BY <1>1, <1>2

(* What the windows count does not change with that. *)
LEMMA TimesKept ==
    ASSUME LinkShape, links' \in Seq(LinkRecord), Len(links') = Len(links), starts' = starts,
           \A n \in 1 .. Len(links) :
               /\ links'[n].client = links[n].client /\ links'[n].email = links[n].email
               /\ links'[n].at = links[n].at /\ links'[n].start = links[n].start
    PROVE  /\ \A c \in Clients : Times("client", c)' = Times("client", c)
           /\ \A e \in Emails : Times("email", e)' = Times("email", e)
<1>1. /\ DOMAIN links = 1 .. Len(links) /\ DOMAIN links' = 1 .. Len(links)
      /\ \A n \in 1 .. Len(links) : links[n] \in LinkRecord /\ links'[n] \in LinkRecord
    BY DEF LinkShape
<1>2. \A n \in 1 .. Len(links) :
          links'[n]["client"] = links[n]["client"] /\ links'[n]["email"] = links[n]["email"]
    BY <1>1, LinkKeys
<1> QED BY <1>1, <1>2 DEF Times

LEMMA TimesStarted ==
    ASSUME LinkShape, NEW c \in Clients, NEW e \in Emails,
           links' = Append(links, Link(c, e)), starts' = starts
    PROVE  /\ \A d \in Clients : d # c => Times("client", d)' = Times("client", d)
           /\ \A d \in Emails : d # e => Times("email", d)' = Times("email", d)
           /\ \A T \in {Times("client", c), Times("email", e)} : Len(links) + 1 \notin DOMAIN T
           /\ DOMAIN Times("client", c)' = DOMAIN Times("client", c) \cup {Len(links) + 1}
           /\ DOMAIN Times("email", e)' = DOMAIN Times("email", e) \cup {Len(links) + 1}
           /\ Times("client", c)'[Len(links) + 1] = now
           /\ Times("email", e)'[Len(links) + 1] = now
           /\ \A n \in DOMAIN Times("client", c) : Times("client", c)'[n] = Times("client", c)[n]
           /\ \A n \in DOMAIN Times("email", e) : Times("email", e)'[n] = Times("email", e)[n]
<1> DEFINE m == Len(links) + 1
           r == Link(c, e)
<1>1. /\ r \in LinkRecord /\ r.at = now /\ r.start = starts
      /\ r["client"] = c /\ r["email"] = e
    BY DEF Link, LinkRecord, LinkShape
<1> HIDE DEF r
<1>2. /\ links' \in Seq(LinkRecord) /\ Len(links') = m
      /\ DOMAIN links = 1 .. Len(links) /\ DOMAIN links' = 1 .. m /\ links'[m] = r
      /\ Len(links) \in Nat
      /\ \A n \in 1 .. Len(links) : links'[n] = links[n]
    BY <1>1 DEF LinkShape, r
<1>3. 1 .. m = (1 .. Len(links)) \cup {m} /\ m \notin 1 .. Len(links)
    BY <1>2
<1> HIDE DEF m
<1>4. \A d \in Clients : d # c => Times("client", d)' = Times("client", d)
    BY <1>1, <1>2, <1>3 DEF Times
<1>5. \A d \in Emails : d # e => Times("email", d)' = Times("email", d)
    BY <1>1, <1>2, <1>3 DEF Times
<1>6. m \notin DOMAIN Times("client", c) /\ m \notin DOMAIN Times("email", e)
    BY <1>2, <1>3 DEF Times
<1>7. DOMAIN Times("client", c)' = DOMAIN Times("client", c) \cup {m}
    BY <1>1, <1>2, <1>3 DEF Times
<1>8. DOMAIN Times("email", e)' = DOMAIN Times("email", e) \cup {m}
    BY <1>1, <1>2, <1>3 DEF Times
<1>9. Times("client", c)'[m] = now /\ Times("email", e)'[m] = now
    BY <1>1, <1>2, <1>3 DEF Times
<1>10. \A n \in DOMAIN Times("client", c) : Times("client", c)'[n] = Times("client", c)[n]
    BY <1>1, <1>2, <1>3 DEF Times
<1>11. \A n \in DOMAIN Times("email", e) : Times("email", e)'[n] = Times("email", e)[n]
    BY <1>1, <1>2, <1>3 DEF Times
<1> QED BY <1>4, <1>5, <1>6, <1>7, <1>8, <1>9, <1>10, <1>11 DEF m

LEMMA RateStart == LinksInit => RateInv
<1> SUFFICES ASSUME LinksInit PROVE RateInv
    OBVIOUS
<1>1. PerIp \in Nat /\ PerEmail \in Nat
    BY LinksAssumption
<1>2. ipHits \in [Clients -> Seq(Nat)] /\ emailHits \in [Emails -> Seq(Nat)]
    BY DEF LinksInit
<1>3. \A c \in Clients : DOMAIN Times("client", c) = {}
    BY DEF LinksInit, Times
<1>4. \A e \in Emails : DOMAIN Times("email", e) = {}
    BY DEF LinksInit, Times
<1>5. \A c \in Clients : Rationed(Times("client", c), ipHits[c], PerIp, now)
    BY <1>1, <1>3, RationedNone
<1>6. \A e \in Emails : Rationed(Times("email", e), emailHits[e], PerEmail, now)
    BY <1>1, <1>4, RationedNone
<1> QED BY <1>2, <1>5, <1>6 DEF RateInv, LinksInit

LEMMA RequestLinkRate ==
    ASSUME LinkInv, RateInv, NEW c \in Clients, NEW e \in Emails, RequestLink(c, e)
    PROVE  RateInv'
<1>1. /\ LinkShape /\ now \in Nat /\ PerIp \in Nat /\ PerEmail \in Nat
      /\ ipHits \in [Clients -> Seq(Nat)] /\ emailHits \in [Emails -> Seq(Nat)]
    BY LinksAssumption DEF LinkInv, LinkShape, RateInv
<1>2. /\ ipHits' = [ipHits EXCEPT ![c] = Allow(ipHits[c], PerIp)]
      /\ now' = now /\ starts' = starts
    BY DEF RequestLink
<1>3. \A q \in Seq(Nat) : Recent(q) \in Seq(Nat) /\ Append(Recent(q), now) \in Seq(Nat)
    BY <1>1, RecentHits
<1>4. ASSUME NEW q \in Seq(Nat), NEW limit
      PROVE  Allow(q, limit) \in Seq(Nat)
    BY <1>3 DEF Allow
<1>5. /\ ipHits[c] \in Seq(Nat) /\ emailHits[e] \in Seq(Nat)
      /\ Rationed(Times("client", c), ipHits[c], PerIp, now)
      /\ Rationed(Times("email", e), emailHits[e], PerEmail, now)
    BY <1>1 DEF RateInv
<1>6. ipHits' \in [Clients -> Seq(Nat)]
    BY <1>1, <1>2, <1>4, <1>5
<1>7. emailHits' \in [Emails -> Seq(Nat)]
    <2>1. emailHits' = emailHits \/ emailHits' = [emailHits EXCEPT ![e] = Allow(emailHits[e], PerEmail)]
        BY DEF RequestLink
    <2> QED BY <1>1, <1>4, <1>5, <2>1
<1>8. \A n \in DOMAIN links' : links'[n].start \in Nat /\ links'[n].start <= starts'
    <2>1. \A n \in DOMAIN links : links[n].start \in Nat /\ links[n].start <= starts
        BY DEF RateInv
    <2>2. CASE links' = Append(links, Link(c, e))
        <3>1. Link(c, e).start = starts /\ starts \in Nat /\ Link(c, e) \in LinkRecord
            BY <1>1 DEF Link, LinkRecord, LinkShape
        <3> HIDE DEF Link
        <3>2. /\ DOMAIN links' = 1 .. Len(links) + 1 /\ links'[Len(links) + 1] = Link(c, e)
              /\ DOMAIN links = 1 .. Len(links) /\ Len(links) \in Nat
              /\ \A n \in 1 .. Len(links) : links'[n] = links[n]
            BY <1>1, <2>2, <3>1 DEF LinkShape
        <3> QED BY <1>2, <2>1, <3>1, <3>2
    <2> QED BY <1>2, <2>1, <2>2 DEF RequestLink
<1>9. CASE Allows(ipHits[c], PerIp) /\ Allows(emailHits[e], PerEmail)
    <2>1. /\ links' = Append(links, Link(c, e))
          /\ emailHits' = [emailHits EXCEPT ![e] = Allow(emailHits[e], PerEmail)]
        BY <1>9 DEF RequestLink
    <2>2. /\ ipHits'[c] = Append(Recent(ipHits[c]), now)
          /\ emailHits'[e] = Append(Recent(emailHits[e]), now)
          /\ \A d \in Clients : d # c => ipHits'[d] = ipHits[d]
          /\ \A d \in Emails : d # e => emailHits'[d] = emailHits[d]
        BY <1>1, <1>2, <1>9, <2>1 DEF Allow
    <2>3. Rationed(Times("client", c)', ipHits'[c], PerIp, now)
        <3>1. PICK T : T = Times("client", c)
            OBVIOUS
        <3>2. PICK U : U = Times("client", c)'
            OBVIOUS
        <3>3. PICK m : m = Len(links) + 1
            OBVIOUS
        <3>4. /\ m \notin DOMAIN T /\ DOMAIN U = DOMAIN T \cup {m}
              /\ U[m] = now /\ \A n \in DOMAIN T : U[n] = T[n]
            BY <1>1, <1>2, <2>1, <3>1, <3>2, <3>3, TimesStarted
        <3>5. Rationed(U, Append(Recent(ipHits[c]), now), PerIp, now)
            BY <1>1, <1>5, <1>9, <3>1, <3>4, RationedGranted
        <3> QED BY <2>2, <3>2, <3>5
    <2>4. Rationed(Times("email", e)', emailHits'[e], PerEmail, now)
        <3>1. PICK T : T = Times("email", e)
            OBVIOUS
        <3>2. PICK U : U = Times("email", e)'
            OBVIOUS
        <3>3. PICK m : m = Len(links) + 1
            OBVIOUS
        <3>4. /\ m \notin DOMAIN T /\ DOMAIN U = DOMAIN T \cup {m}
              /\ U[m] = now /\ \A n \in DOMAIN T : U[n] = T[n]
            BY <1>1, <1>2, <2>1, <3>1, <3>2, <3>3, TimesStarted
        <3>5. Rationed(U, Append(Recent(emailHits[e]), now), PerEmail, now)
            BY <1>1, <1>5, <1>9, <3>1, <3>4, RationedGranted
        <3> QED BY <2>2, <3>2, <3>5
    <2>5. ASSUME NEW d \in Clients
          PROVE  Rationed(Times("client", d)', ipHits'[d], PerIp, now)
        <3>1. CASE d # c
            <4>1. Times("client", d)' = Times("client", d) /\ ipHits'[d] = ipHits[d]
                BY <1>1, <1>2, <2>1, <2>2, <3>1, TimesStarted, ZenonT(60)
            <4>2. Rationed(Times("client", d), ipHits[d], PerIp, now)
                BY DEF RateInv
            <4> QED BY <4>1, <4>2
        <3> QED BY <2>3, <3>1
    <2>6. ASSUME NEW d \in Emails
          PROVE  Rationed(Times("email", d)', emailHits'[d], PerEmail, now)
        <3>1. CASE d # e
            <4>1. Times("email", d)' = Times("email", d) /\ emailHits'[d] = emailHits[d]
                BY <1>1, <1>2, <2>1, <2>2, <3>1, TimesStarted, ZenonT(60)
            <4>2. Rationed(Times("email", d), emailHits[d], PerEmail, now)
                BY DEF RateInv
            <4> QED BY <4>1, <4>2
        <3> QED BY <2>4, <3>1
    <2> QED BY <1>2, <1>6, <1>7, <1>8, <2>5, <2>6 DEF RateInv
<1>10. CASE ~ (Allows(ipHits[c], PerIp) /\ Allows(emailHits[e], PerEmail))
    <2>1. links' = links
        BY <1>10 DEF RequestLink
    <2>2. /\ \A d \in Clients : Times("client", d)' = Times("client", d)
          /\ \A d \in Emails : Times("email", d)' = Times("email", d)
        BY <1>2, <2>1 DEF Times
    <2>3. Rationed(Times("client", c), ipHits'[c], PerIp, now)
        <3>1. CASE Allows(ipHits[c], PerIp)
            \* The address refuses: a hit too many for the client.
            <4>1. ipHits'[c] = Append(Recent(ipHits[c]), now)
                BY <1>1, <1>2, <3>1 DEF Allow
            <4> QED BY <1>1, <1>5, <4>1, RationedSpare
        <3>2. CASE ~ Allows(ipHits[c], PerIp)
            <4>1. ipHits'[c] = Recent(ipHits[c])
                BY <1>1, <1>2, <3>2 DEF Allow
            <4> QED BY <1>1, <1>5, <4>1, RationedRefused
        <3> QED BY <3>1, <3>2
    <2>4. Rationed(Times("email", e), emailHits'[e], PerEmail, now)
        <3>1. emailHits'[e] = emailHits[e] \/ emailHits'[e] = Recent(emailHits[e])
            BY <1>1, <1>10 DEF RequestLink, Allow
        <3> QED BY <1>1, <1>5, <3>1, RationedRefused
    <2>5. /\ \A d \in Clients : d # c => ipHits'[d] = ipHits[d]
          /\ \A d \in Emails : d # e => emailHits'[d] = emailHits[d]
        BY <1>1 DEF RequestLink
    <2>6. \A d \in Clients : Rationed(Times("client", d)', ipHits'[d], PerIp, now)
        BY <2>2, <2>3, <2>5 DEF RateInv
    <2>7. \A d \in Emails : Rationed(Times("email", d)', emailHits'[d], PerEmail, now)
        BY <2>2, <2>4, <2>5 DEF RateInv
    <2> QED BY <1>2, <1>6, <1>7, <1>8, <2>6, <2>7 DEF RateInv
<1> QED BY <1>9, <1>10

(* Mail that arrives and links that are spent, before a restart or not. *)
LEMMA KeptLinks ==
    ASSUME LinkInv, RateInv, NEW n \in DOMAIN links, MailArrives(n) \/ ConsumeMagic(n)
    PROVE  /\ links' \in Seq(LinkRecord) /\ Len(links') = Len(links)
           /\ \A m \in 1 .. Len(links) :
                 /\ links'[m].client = links[m].client /\ links'[m].email = links[m].email
                 /\ links'[m].at = links[m].at /\ links'[m].start = links[m].start
<1>1. links \in Seq(LinkRecord) /\ n \in 1 .. Len(links) /\ links[n] \in LinkRecord
    BY DEF LinkInv, LinkShape
<1>2. PICK v \in LinkRecord :
          /\ links' = [links EXCEPT ![n] = v]
          /\ v.client = links[n].client /\ v.email = links[n].email
          /\ v.at = links[n].at /\ v.start = links[n].start
    <2>1. PICK v \in {[links[n] EXCEPT !.mailed = TRUE], [links[n] EXCEPT !.spent = @ + 1]} :
              links' = [links EXCEPT ![n] = v]
        BY DEF MailArrives, ConsumeMagic
    <2> QED BY <1>1, <2>1, LinkKept
<1>3. /\ links' \in Seq(LinkRecord) /\ Len(links') = Len(links) /\ links'[n] = v
      /\ \A m \in 1 .. Len(links) : m # n => links'[m] = links[m]
    BY <1>1, <1>2, PutAt
<1> QED BY <1>2, <1>3

LEMMA SameTimesRate ==
    ASSUME LinkInv, RateInv, NEW n \in DOMAIN links, MailArrives(n) \/ ConsumeMagic(n),
           UNCHANGED <<now, starts, ipHits, emailHits>>
    PROVE  RateInv'
<1>1. /\ links' \in Seq(LinkRecord) /\ Len(links') = Len(links)
      /\ \A m \in 1 .. Len(links) :
            /\ links'[m].client = links[m].client /\ links'[m].email = links[m].email
            /\ links'[m].at = links[m].at /\ links'[m].start = links[m].start
    BY KeptLinks
<1>2. LinkShape /\ starts' = starts
    BY DEF LinkInv
<1>3. /\ \A c \in Clients : Times("client", c)' = Times("client", c)
      /\ \A e \in Emails : Times("email", e)' = Times("email", e)
    BY <1>1, <1>2, TimesKept
<1>4. \A m \in DOMAIN links' : links'[m].start \in Nat /\ links'[m].start <= starts'
    <2>1. DOMAIN links = 1 .. Len(links) /\ DOMAIN links' = 1 .. Len(links)
        BY <1>1, <1>2 DEF LinkShape
    <2> QED BY <1>1, <1>2, <2>1 DEF RateInv
<1> QED BY <1>3, <1>4 DEF RateInv

LEMMA LinksStepRate ==
    ASSUME LinkInv, RateInv, LinksStep
    PROVE  RateInv'
<1>1. LinkShape /\ now \in Nat
    BY DEF LinkInv, LinkShape
<1>2. CASE \E c \in Clients, e \in Emails : RequestLink(c, e)
    BY <1>2, RequestLinkRate
<1>3. CASE \E n \in DOMAIN links : MailArrives(n)
    <2>1. PICK n \in DOMAIN links : MailArrives(n)
        BY <1>3
    <2>2. UNCHANGED <<now, starts, ipHits, emailHits>>
        BY <2>1 DEF MailArrives
    <2> QED BY <2>1, <2>2, SameTimesRate
<1>4. CASE Tick
    <2>1. now' = now + 1 /\ UNCHANGED <<starts, ipHits, emailHits, links>>
        BY <1>4 DEF Tick
    <2>2. /\ \A c \in Clients : Times("client", c)' = Times("client", c)
          /\ \A e \in Emails : Times("email", e)' = Times("email", e)
        BY <2>1 DEF Times
    <2>3. ipHits \in [Clients -> Seq(Nat)] /\ emailHits \in [Emails -> Seq(Nat)]
        BY DEF RateInv
    <2>4. ASSUME NEW c \in Clients
          PROVE  Rationed(Times("client", c), ipHits[c], PerIp, now + 1)
        <3>1. Rationed(Times("client", c), ipHits[c], PerIp, now) /\ ipHits[c] \in Seq(Nat)
            BY <2>3 DEF RateInv
        <3> QED BY <1>1, <3>1, RationedLater
    <2>5. ASSUME NEW e \in Emails
          PROVE  Rationed(Times("email", e), emailHits[e], PerEmail, now + 1)
        <3>1. Rationed(Times("email", e), emailHits[e], PerEmail, now) /\ emailHits[e] \in Seq(Nat)
            BY <2>3 DEF RateInv
        <3> QED BY <1>1, <3>1, RationedLater
    <2> QED BY <2>1, <2>2, <2>3, <2>4, <2>5 DEF RateInv
<1> QED BY <1>2, <1>3, <1>4 DEF LinksStep

(* A restart forgets the hits, and its links are not counted any more. *)
LEMMA RestartRate ==
    ASSUME LinkInv, RateInv, Restart
    PROVE  RateInv'
<1>1. /\ starts' = starts + 1 /\ now' = now /\ starts \in Nat /\ PerIp \in Nat /\ PerEmail \in Nat
      /\ ipHits' = [c \in Clients |-> <<>>] /\ emailHits' = [e \in Emails |-> <<>>]
    BY LinksAssumption DEF Restart, RestartLinks, LinkInv, LinkShape
<1>2. \A n \in DOMAIN links' : links'[n].start \in Nat /\ links'[n].start < starts'
    <2>1. LinkShape /\ \A n \in DOMAIN links : links[n].start <= starts /\ links[n].start \in Nat
        BY DEF RateInv, LinkInv
    <2>2. links' = links \/ \E n \in DOMAIN links : ConsumeMagic(n)
        BY DEF Restart
    <2>3. CASE links' = links
        BY <1>1, <2>1, <2>3
    <2>4. CASE \E n \in DOMAIN links : ConsumeMagic(n)
        <3>1. /\ links' \in Seq(LinkRecord) /\ Len(links') = Len(links)
              /\ \A m \in 1 .. Len(links) : links'[m].start = links[m].start
            BY <2>4, KeptLinks
        <3>2. DOMAIN links' = DOMAIN links
            BY <2>1, <3>1 DEF LinkShape
        <3> QED BY <1>1, <2>1, <3>1, <3>2 DEF LinkShape
    <2> QED BY <2>2, <2>3, <2>4
<1>3. /\ \A c \in Clients : DOMAIN Times("client", c)' = {}
      /\ \A e \in Emails : DOMAIN Times("email", e)' = {}
    BY <1>1, <1>2 DEF Times
<1>4. ASSUME NEW c \in Clients
      PROVE  Rationed(Times("client", c)', ipHits'[c], PerIp, now')
    BY <1>1, <1>3, RationedNone
<1>5. ASSUME NEW e \in Emails
      PROVE  Rationed(Times("email", e)', emailHits'[e], PerEmail, now')
    BY <1>1, <1>3, RationedNone
<1>6. ipHits' \in [Clients -> Seq(Nat)] /\ emailHits' \in [Emails -> Seq(Nat)]
    BY <1>1
<1> QED BY <1>1, <1>2, <1>4, <1>5, <1>6 DEF RateInv

LEMMA RateStep == AuthInv /\ RateInv /\ [AuthNext]_authVars => RateInv'
<1> SUFFICES ASSUME AuthInv, RateInv, [AuthNext]_authVars PROVE RateInv'
    OBVIOUS
<1>1. LinkInv
    BY DEF AuthInv
<1>2. CASE LinksStep
    BY <1>1, <1>2, LinksStepRate
<1>3. CASE Restart
    BY <1>1, <1>3, RestartRate
<1>4. CASE \E b \in Browsers, n \in DOMAIN links : VerifyLink(b, n)
    <2>1. PICK n \in DOMAIN links : ConsumeMagic(n) /\ UNCHANGED <<now, starts, ipHits, emailHits>>
        BY <1>4 DEF VerifyLink
    <2> QED BY <1>1, <2>1, SameTimesRate
<1>5. CASE UNCHANGED linkVars
    <2>1. /\ \A c \in Clients : Times("client", c)' = Times("client", c)
          /\ \A e \in Emails : Times("email", e)' = Times("email", e)
        BY <1>5 DEF Times, linkVars
    <2> QED BY <1>5, <2>1 DEF RateInv, linkVars
<1>6. CASE OAuthStep
    <2>1. UNCHANGED linkVars
        BY <1>6 DEF OAuthStep, OAuthStart, Approve, OAuthCallback, Exchanged, ExchangeFails,
                    ChangeAddress
    <2> QED BY <1>5, <2>1
<1>7. CASE \/ \E b \in Browsers : Request(b) \/ SignOut(b)
           \/ \E r \in refreshes : Respond(r)
           \/ \E u \in Emails : Disable(u)
    <2>1. UNCHANGED linkVars
        BY <1>7 DEF Request, SignOut, Respond, Disable
    <2> QED BY <1>5, <2>1
<1>8. CASE UNCHANGED authVars
    BY <1>5, <1>8 DEF authVars
<1> QED BY <1>2, <1>3, <1>4, <1>6, <1>7, <1>8 DEF AuthNext

-----------------------------------------------------------------------------
(* What the invariants show. *)

(* Every variable has its type; accounts precede whatever refers to them. *)
THEOREM AuthTypes == AuthSpec => []AuthTypeOK
<1>1. AuthInv => AuthTypeOK
    <2> SUFFICES ASSUME AuthInv PROVE AuthTypeOK
        OBVIOUS
    <2>1. LinkShape /\ FlowShape /\ AccountShape /\ SessionInv
        BY DEF AuthInv, LinkInv
    <2>2. \A n \in DOMAIN links : magic[n] \in {"unused", "used", "purged"}
        BY <2>1 DEF LinkShape
    <2>3. state \in [Browsers -> 0 .. Len(flows)]
        <3>1. \A b \in Browsers : state[b] \in 0 .. Len(flows)
            BY <2>1 DEF FlowShape
        <3> QED BY <2>1, <3>1 DEF FlowShape
    <2>4. ASSUME NEW c \in Cookies
          PROVE  epoch[c.user] \in Nat /\ c.at <= now /\ c.epoch <= epoch[c.user]
        <3>1. \E b : Sound(c, b, now, epoch, flows, identity)
            BY <2>1 DEF Cookies, SessionInv
        <3> QED BY <3>1 DEF Sound
    <2> QED BY <2>1, <2>2, <2>3, <2>4 DEF AuthTypeOK, LinkShape, AccountShape
<1> QED BY <1>1, AuthInvariant, PTL

(***************************************************************************)
(* A link signs in at most once, whoever posts it and whatever is purged   *)
(* or restarted in between (consume_magic, store.py:214).                  *)
(***************************************************************************)
THEOREM LinksSpentOnce == AuthSpec => []LinkOnce
<1>1. AuthInv => LinkOnce
    BY DEF AuthInv, LinkInv, LinkShape, RowsTell, LinkOnce
<1> QED BY <1>1, AuthInvariant, PTL

(***************************************************************************)
(* In no hour do more links go out to an address, or for a client, than    *)
(* the limits allow (_RateWindow.allow and magic_request, app.py:81), for  *)
(* all windows and limits and however hits are forgotten as hours slide.   *)
(***************************************************************************)
THEOREM LinksRationed == AuthSpec => []LinkRate
<1>1. AuthInit => RateInv
    BY RateStart DEF AuthInit
<1>2. AuthInv /\ RateInv => LinkRate
    <2> SUFFICES ASSUME AuthInv, RateInv, NEW t \in 0 .. now
                 PROVE  /\ \A e \in Emails : Cardinality(Issued("email", e, t)) <= PerEmail
                        /\ \A c \in Clients : Cardinality(Issued("client", c, t)) <= PerIp
        BY DEF LinkRate
    <2>1. t \in Nat
        OBVIOUS
    <2>2. ASSUME NEW e \in Emails
          PROVE  Cardinality(Issued("email", e, t)) <= PerEmail
        <3>1. Issued("email", e, t) = Hour(Times("email", e), t)
            BY DEF Issued, Hour, Times
        <3> QED BY <2>1, <3>1 DEF RateInv, Rationed
    <2>3. ASSUME NEW c \in Clients
          PROVE  Cardinality(Issued("client", c, t)) <= PerIp
        <3>1. Issued("client", c, t) = Hour(Times("client", c), t)
            BY DEF Issued, Hour, Times
        <3> QED BY <2>1, <3>1 DEF RateInv, Rationed
    <2> QED BY <2>2, <2>3
<1> QED BY <1>1, <1>2, RateStep, AuthInvariant, PTL DEF AuthSpec

(***************************************************************************)
(* A link nobody spent works while it is young: issue_magic deletes a row  *)
(* only when its link has expired, as MagicMaxAge < PurgeAfter.            *)
(***************************************************************************)
THEOREM UnspentLinksWork == AuthSpec => []LinkWorks
<1>1. AuthInv => LinkWorks
    <2> SUFFICES ASSUME AuthInv, NEW n \in 1 .. Len(links), links[n].spent = 0,
                        Good(links[n].at, MagicMaxAge)
                 PROVE  magic[n] = "unused"
        BY DEF AuthInv, LinkInv, LinkShape, LinkWorks
    <2>1. LinkShape /\ RowsTell /\ now \in Nat /\ MagicMaxAge \in Nat /\ PurgeAfter \in Nat
          /\ MagicMaxAge < PurgeAfter
        BY LinksAssumption DEF AuthInv, LinkInv, LinkShape
    <2>2. links[n].at \in Nat
        <3>1. links[n] \in LinkRecord
            BY <2>1 DEF LinkShape
        <3> QED BY <3>1 DEF LinkRecord
    <2>3. ~ (links[n].at < now - PurgeAfter)
        BY <2>1, <2>2 DEF Good
    <2>4. magic[n] \in {"unused", "used", "purged"}
        BY <2>1 DEF LinkShape
    <2> QED BY <2>1, <2>3, <2>4 DEF RowsTell
<1> QED BY <1>1, AuthInvariant, PTL

(***************************************************************************)
(* No response in flight, and no chain of renewals, carries a session over *)
(* a "sign out everywhere" (finish and identify of app.py, bump_epoch).    *)
(***************************************************************************)
THEOREM SignOutIsFinal == AuthSpec => []BumpReachesAll
<1>1. AuthInv => BumpReachesAll
    <2> SUFFICES ASSUME AuthInv, NEW c \in Cookies, Identify(c) # None
                 PROVE  c.root = epoch[c.user]
        BY DEF BumpReachesAll
    <2>1. \E b : Sound(c, b, now, epoch, flows, identity)
        BY DEF AuthInv, SessionInv, Cookies
    <2> QED BY <2>1, Identified DEF Sound
<1> QED BY <1>1, AuthInvariant, PTL

(***************************************************************************)
(* A session that came through a provider is in the browser that began the *)
(* flow and in the account of who approved it (oauth_callback of app.py).  *)
(***************************************************************************)
THEOREM OwnFlows == AuthSpec => []OwnFlow
<1>1. AuthInv => OwnFlow
    <2> SUFFICES ASSUME AuthInv PROVE OwnFlow
        OBVIOUS
    <2>1. SessionInv
        BY DEF AuthInv
    <2>2. \A b \in Browsers : cookie[b] # None /\ ByFlow(cookie[b]) =>
              FlowOf(cookie[b]).browser = b
        BY <2>1 DEF SessionInv, Sound, FlowOf
    <2>3. ASSUME NEW c \in Cookies, ByFlow(c)
          PROVE  identity[<<FlowOf(c).provider, FlowOf(c).subject>>] = c.user
        <3>1. \E b : Sound(c, b, now, epoch, flows, identity)
            BY <2>1 DEF SessionInv, Cookies
        <3> QED BY <2>3, <3>1 DEF Sound, FlowOf
    <2> QED BY <2>2, <2>3 DEF OwnFlow
<1> QED BY <1>1, AuthInvariant, PTL

(***************************************************************************)
(* Until a provider's account changes its address, an address signs in to  *)
(* one account through any method and any interleaving (Users.sign_in).    *)
(***************************************************************************)
THEOREM AddressesKeepTheirAccount == AuthSpec => []OneAccountPerAddress
<1>1. AuthInv => OneAccountPerAddress
    <2> SUFFICES ASSUME AuthInv, moves = 0, NEW e \in Emails
                 PROVE  Cardinality(reached[e]) <= 1
        BY DEF OneAccountPerAddress, SameAccount
    <2>1. reached[e] \subseteq {e}
        BY DEF AuthInv, Reaches
    <2>2. reached[e] = {} \/ reached[e] = {e}
        BY <2>1
    <2>3. Cardinality({}) = 0 /\ Cardinality({e}) = 1
        BY FS_EmptySet, FS_Singleton
    <2> QED BY <2>2, <2>3
<1> QED BY <1>1, AuthInvariant, PTL

-----------------------------------------------------------------------------
(* Sign-in implements Sessions. *)

LEMMA CookieEpochs ==
    ASSUME AuthInv, NEW c \in Cookies
    PROVE  /\ c.user \in Emails /\ c.epoch \in Nat
           /\ epoch[c.user] \in Nat /\ c.epoch <= epoch[c.user]
<1>1. \E b : Sound(c, b, now, epoch, flows, identity)
    BY DEF AuthInv, SessionInv, Cookies
<1> QED BY <1>1 DEF Sound, Claims

(* What a step may not do to cookies, if no session is to come of it: each *)
(* new one has the claims of an old one.                                   *)
SameClaims ==
    \A c \in Cookies' : \E d \in Cookies : d.user = c.user /\ d.epoch = c.epoch /\ d.via = c.via

(* Sessions only end, if cookies do and epochs and disabled stay. *)
LEMMA LiveFewer ==
    ASSUME UNCHANGED <<epoch, disabled>>,
           SameClaims
    PROVE  Live' \subseteq Live /\ Outs' = Outs
<1>1. Outs' = Outs
    BY DEF Outs
<1>2. ASSUME NEW s \in Live'
      PROVE  s \in Live
    <2>1. PICK c \in Cookies' : /\ s = [user |-> c.user, by |-> c.via]
                                /\ c.user \notin disabled' /\ c.epoch = epoch'[c.user]
        BY DEF Live
    <2>2. PICK d \in Cookies : d.user = c.user /\ d.epoch = c.epoch /\ d.via = c.via
        BY DEF SameClaims
    <2> QED BY <2>1, <2>2 DEF Live
<1> QED BY <1>1, <1>2

LEMMA Ends ==
    ASSUME UNCHANGED <<links, flows, epoch, disabled>>,
           SameClaims
    PROVE  Sess!End
<1>1. Used' = Used
    BY DEF Used
<1> QED BY <1>1, LiveFewer DEF Sess!End

(* A flow that is begun or approved is not used up by that; nor is a link  *)
(* by being asked for, or mailed.                                          *)
LEMMA UsedSame ==
    ASSUME LinkShape, LinkShape', FlowShape, FlowShape',
           Len(links) <= Len(links'), Len(flows) <= Len(flows'),
           \A n \in 1 .. Len(links) : links'[n].spent = links[n].spent,
           \A n \in 1 .. Len(links') : n \notin 1 .. Len(links) => links'[n].spent = 0,
           \A f \in 1 .. Len(flows) : flows'[f].spent = flows[f].spent,
           \A f \in 1 .. Len(flows') : f \notin 1 .. Len(flows) => flows'[f].spent = FALSE
    PROVE  Used' = Used
<1>1. /\ DOMAIN links = 1 .. Len(links) /\ DOMAIN links' = 1 .. Len(links')
      /\ DOMAIN flows = 1 .. Len(flows) /\ DOMAIN flows' = 1 .. Len(flows')
      /\ Len(links) \in Nat /\ Len(links') \in Nat /\ Len(flows) \in Nat /\ Len(flows') \in Nat
    BY DEF LinkShape, FlowShape
<1>2. {m \in DOMAIN links' : links'[m].spent > 0} = {m \in DOMAIN links : links[m].spent > 0}
    BY <1>1
<1>3. {g \in DOMAIN flows' : flows'[g].spent} = {g \in DOMAIN flows : flows[g].spent}
    BY <1>1
<1> QED BY <1>2, <1>3 DEF Used

(* One credential is used up. *)
LEMMA LinkUsed ==
    ASSUME LinkInv, NEW n \in DOMAIN links, ConsumeMagic(n), UNCHANGED flows
    PROVE  Used' = Used \cup {<<"link", n>>} /\ <<"link", n>> \notin Used
<1> DEFINE v == [links[n] EXCEPT !.spent = @ + 1]
<1>1. /\ links \in Seq(LinkRecord) /\ n \in 1 .. Len(links) /\ links[n] \in LinkRecord
      /\ links[n].spent = 0
    BY DEF ConsumeMagic, LinkInv, LinkShape, RowsTell
<1>2. v \in LinkRecord /\ v.spent = 1
    BY <1>1, SpentRecord
<1>3. links' = [links EXCEPT ![n] = v]
    BY DEF ConsumeMagic
<1> HIDE DEF v
<1>4. /\ links' \in Seq(LinkRecord) /\ DOMAIN links' = DOMAIN links /\ links'[n] = v
      /\ \A m \in DOMAIN links : m # n => links'[m] = links[m]
    BY <1>1, <1>2, <1>3, PutAt
<1>5. {m \in DOMAIN links' : links'[m].spent > 0}
          = {m \in DOMAIN links : links[m].spent > 0} \cup {n}
    BY <1>1, <1>2, <1>4
<1>6. n \notin {m \in DOMAIN links : links[m].spent > 0}
    BY <1>1
<1>7. \A m, f : <<"link", m>> # <<"flow", f>>
    OBVIOUS
<1> QED BY <1>5, <1>6, <1>7 DEF Used

LEMMA FlowUsed ==
    ASSUME FlowShape, NEW f \in 1 .. Len(flows), ~ flows[f].spent,
           flows' = [flows EXCEPT ![f].spent = TRUE], UNCHANGED links
    PROVE  Used' = Used \cup {<<"flow", f>>} /\ <<"flow", f>> \notin Used
<1> DEFINE v == [flows[f] EXCEPT !.spent = TRUE]
<1>1. flows \in Seq(FlowRecord) /\ flows[f] \in FlowRecord
    BY DEF FlowShape
<1>2. v \in FlowRecord /\ v.spent = TRUE
    BY <1>1 DEF FlowRecord
<1>3. flows' = [flows EXCEPT ![f] = v]
    OBVIOUS
<1> HIDE DEF v
<1>4. /\ DOMAIN flows' = DOMAIN flows /\ flows'[f] = v /\ f \in DOMAIN flows
      /\ \A m \in DOMAIN flows : m # f => flows'[m] = flows[m]
    BY <1>1, <1>2, <1>3, PutAt
<1>5. {g \in DOMAIN flows' : flows'[g].spent} = {g \in DOMAIN flows : flows[g].spent} \cup {f}
    BY <1>2, <1>4
<1>6. f \notin {g \in DOMAIN flows : flows[g].spent}
    OBVIOUS
<1>7. \A m, g : <<"link", m>> # <<"flow", g>>
    OBVIOUS
<1> QED BY <1>5, <1>6, <1>7 DEF Used

(* A sign-in: the epochs that matter stay, and one cookie is new. *)
LEMMA SignInOpens ==
    ASSUME AuthInv, NEW b, NEW i \in Identities, NEW e \in Emails, NEW via,
           SignIn(b, i, e, via), refreshes' = refreshes,
           Used' = Used \cup {via}, via \notin Used
    PROVE  Sess!Open
<1> DEFINE u == Account(i, e)
           ep == IF epoch[u] = None THEN 0 ELSE epoch[u]
           v == Session(u, ep, via)
<1>1. AccountShape /\ SessionInv
    BY DEF AuthInv
<1>2. u \in Emails
    BY <1>1 DEF AccountShape, Account
<1>3. /\ epoch' = [epoch EXCEPT ![u] = ep] /\ cookie' = [cookie EXCEPT ![b] = v]
      /\ disabled' = disabled
    BY DEF SignIn, SignedInResponse
<1>4. v.user = u /\ v.via = via /\ v.epoch = ep
    BY DEF Session
<1>5. (epoch[u] # None => ep = epoch[u]) /\ (epoch[u] = None => ep = 0)
    OBVIOUS
<1> HIDE DEF u, ep, v
<1>6. epoch'[u] = ep /\ \A w \in Emails : w # u => epoch'[w] = epoch[w]
    BY <1>1, <1>2, <1>3 DEF AccountShape
<1>7. Outs' = Outs
    BY <1>2, <1>5, <1>6, AuthAssumption DEF Outs
<1>8. ASSUME NEW c \in Cookies'
      PROVE  c \in Cookies \/ c = v
    <2>1. CASE \E r \in refreshes' : c = r.caller
        BY <2>1 DEF Cookies
    <2>2. CASE \E d \in Browsers : c = cookie'[d] /\ c # None
        <3>1. PICK d \in Browsers : c = cookie'[d] /\ c # None
            BY <2>2
        <3>2. cookie'[d] = cookie[d] \/ cookie'[d] = v
            BY <1>1, <1>3, <3>1 DEF SessionInv
        <3> QED BY <3>1, <3>2 DEF Cookies
    <2> QED BY <2>1, <2>2 DEF Cookies
<1>9. ASSUME NEW s \in Live'
      PROVE  s \in Live \cup (IF u \in disabled THEN {} ELSE {[user |-> u, by |-> via]})
    <2>1. PICK c \in Cookies' : /\ s = [user |-> c.user, by |-> c.via]
                                /\ c.user \notin disabled /\ c.epoch = epoch'[c.user]
        BY <1>3 DEF Live
    <2>2. CASE c = v
        BY <1>4, <2>1, <2>2
    <2>3. CASE c \in Cookies
        <3>1. c.user \in Emails /\ epoch[c.user] \in Nat
            BY <2>3, CookieEpochs
        <3>2. epoch'[c.user] = epoch[c.user]
            BY <1>5, <1>6, <3>1, AuthAssumption
        <3> QED BY <2>1, <2>3, <3>2 DEF Live
    <2> QED BY <1>8, <2>2, <2>3
<1>10. via \in Used' \ Used
    OBVIOUS
<1> QED BY <1>2, <1>3, <1>7, <1>9, <1>10 DEF Sess!Open

LEMMA SameCookies ==
    ASSUME UNCHANGED cookie, refreshes' \subseteq refreshes
    PROVE  SameClaims
BY DEF SameClaims, Cookies

LEMMA LinksStepSessions ==
    ASSUME AuthInv, AuthInv', LinksStep
    PROVE  UNCHANGED Sess!sessionVars
<1>1. /\ LinkShape /\ LinkShape' /\ FlowShape /\ FlowShape'
      /\ UNCHANGED <<accountVars, flows, cookie, refreshes>>
    BY DEF AuthInv, LinkInv, LinksStep
<1>2. links \in Seq(LinkRecord) /\ Len(links) \in Nat /\ flows' = flows
    BY <1>1 DEF LinkShape
<1>3. /\ Len(links) <= Len(links')
      /\ \A n \in 1 .. Len(links) : links'[n].spent = links[n].spent
      /\ \A n \in 1 .. Len(links') : n \notin 1 .. Len(links) => links'[n].spent = 0
    <2>1. CASE \E c \in Clients, e \in Emails : RequestLink(c, e)
        <3>1. PICK c \in Clients, e \in Emails : links' = links \/ links' = Append(links, Link(c, e))
            BY <2>1 DEF RequestLink
        <3>2. Link(c, e).spent = 0
            BY DEF Link
        <3> HIDE DEF Link
        <3>3. CASE links' = links
            BY <1>2, <3>3
        <3>4. CASE links' = Append(links, Link(c, e))
            <4>1. /\ Len(links') = Len(links) + 1 /\ links'[Len(links) + 1] = Link(c, e)
                  /\ \A n \in 1 .. Len(links) : links'[n] = links[n]
                BY <1>2, <3>4
            <4> QED BY <1>2, <3>2, <4>1
        <3> QED BY <3>1, <3>3, <3>4
    <2>2. CASE \E n \in DOMAIN links : MailArrives(n)
        <3>1. PICK n \in DOMAIN links : MailArrives(n)
            BY <2>2
        <3> DEFINE v == [links[n] EXCEPT !.mailed = TRUE]
        <3>2. n \in 1 .. Len(links) /\ links[n] \in LinkRecord /\ links' = [links EXCEPT ![n] = v]
            BY <1>2, <3>1 DEF MailArrives
        <3>3. v \in LinkRecord /\ v.spent = links[n].spent
            BY <3>2, MailedRecord
        <3> HIDE DEF v
        <3>4. /\ Len(links') = Len(links) /\ links'[n] = v
              /\ \A m \in 1 .. Len(links) : m # n => links'[m] = links[m]
            BY <1>2, <3>2, <3>3, PutAt
        <3> QED BY <1>2, <3>3, <3>4
    <2>3. CASE Tick
        BY <1>2, <2>3 DEF Tick
    <2> QED BY <2>1, <2>2, <2>3 DEF LinksStep
<1>4. /\ Len(flows) <= Len(flows') /\ Len(flows) \in Nat
      /\ \A f \in 1 .. Len(flows) : flows'[f].spent = flows[f].spent
      /\ \A f \in 1 .. Len(flows') : f \notin 1 .. Len(flows) => flows'[f].spent = FALSE
    BY <1>1, <1>2 DEF FlowShape
<1>5. Used' = Used
    BY <1>1, <1>3, <1>4, UsedSame
<1>6. Cookies' = Cookies
    BY <1>1 DEF Cookies
<1>7. Live' = Live /\ Outs' = Outs /\ disabled' = disabled
    BY <1>1, <1>6 DEF Live, Outs, accountVars
<1> QED BY <1>5, <1>7 DEF Sess!sessionVars

(* Flows begin, are approved, come back and fail: only a sign-in tells.    *)
LEMMA FlowsStepSessions ==
    ASSUME AuthInv, AuthInv',
           \/ \E b \in Browsers, p \in Providers : OAuthStart(b, p)
           \/ \E f \in DOMAIN flows : Approve(f) \/ \E b \in Browsers : OAuthCallback(b, f)
           \/ \E x \in exchanges : ExchangeFails(x)
           \/ \E i \in External : ChangeAddress(i)
    PROVE  UNCHANGED Sess!sessionVars
<1>1. /\ LinkShape /\ LinkShape' /\ FlowShape /\ FlowShape'
      /\ UNCHANGED <<linkVars, accountVars, cookie, refreshes>>
    BY DEF AuthInv, LinkInv, OAuthStart, Approve, OAuthCallback, ExchangeFails, ChangeAddress
<1>2. flows \in Seq(FlowRecord) /\ Len(flows) \in Nat /\ links' = links /\ Len(links) \in Nat
    BY <1>1 DEF FlowShape, LinkShape, linkVars
<1>3. /\ Len(flows) <= Len(flows')
      /\ \A f \in 1 .. Len(flows) : flows'[f].spent = flows[f].spent
      /\ \A f \in 1 .. Len(flows') : f \notin 1 .. Len(flows) => flows'[f].spent = FALSE
    <2>1. CASE \E b \in Browsers, p \in Providers : OAuthStart(b, p)
        <3>1. PICK b \in Browsers, p \in Providers :
                  flows' = Append(flows, [provider |-> p, browser |-> b, at |-> now,
                                          subject |-> None, spent |-> FALSE])
            BY <2>1 DEF OAuthStart
        <3> DEFINE v == [provider |-> p, browser |-> b, at |-> now,
                         subject |-> None, spent |-> FALSE]
        <3>2. v.spent = FALSE /\ flows' = Append(flows, v)
            BY <3>1
        <3> HIDE DEF v
        <3>3. /\ Len(flows') = Len(flows) + 1 /\ flows'[Len(flows) + 1] = v
              /\ \A f \in 1 .. Len(flows) : flows'[f] = flows[f]
            BY <1>2, <3>2
        <3> QED BY <1>2, <3>2, <3>3
    <2>2. CASE \E f \in DOMAIN flows : Approve(f)
        <3>1. PICK f \in DOMAIN flows : Approve(f)
            BY <2>2
        <3>2. PICK s \in Subjects : flows' = [flows EXCEPT ![f].subject = s]
            BY <3>1 DEF Approve
        <3> DEFINE v == [flows[f] EXCEPT !.subject = s]
        <3>3. f \in 1 .. Len(flows) /\ flows[f] \in FlowRecord /\ flows' = [flows EXCEPT ![f] = v]
            BY <1>2, <3>2
        <3>4. v \in FlowRecord /\ v.spent = flows[f].spent
            BY <3>3 DEF FlowRecord
        <3> HIDE DEF v
        <3>5. /\ Len(flows') = Len(flows) /\ flows'[f] = v
              /\ \A g \in 1 .. Len(flows) : g # f => flows'[g] = flows[g]
            BY <1>2, <3>3, <3>4, PutAt
        <3> QED BY <1>2, <3>4, <3>5
    <2>3. CASE flows' = flows
        BY <1>2, <2>3
    <2> QED BY <2>1, <2>2, <2>3 DEF OAuthCallback, ExchangeFails, ChangeAddress
<1>4. /\ Len(links) <= Len(links')
      /\ \A n \in 1 .. Len(links) : links'[n].spent = links[n].spent
      /\ \A n \in 1 .. Len(links') : n \notin 1 .. Len(links) => links'[n].spent = 0
    BY <1>2
<1>5. Used' = Used
    BY <1>1, <1>3, <1>4, UsedSame
<1>6. Cookies' = Cookies
    BY <1>1 DEF Cookies
<1>7. Live' = Live /\ Outs' = Outs /\ disabled' = disabled
    BY <1>1, <1>6 DEF Live, Outs, accountVars
<1> QED BY <1>5, <1>7 DEF Sess!sessionVars

(* A sign-out takes a cookie; "everywhere", it ends what its user has.     *)
LEMMA SignOutSessions ==
    ASSUME AuthInv, NEW b \in Browsers, SignOut(b)
    PROVE  Sess!SessionsNext
<1>1. /\ cookie' = [cookie EXCEPT ![b] = None]
      /\ UNCHANGED <<linkVars, flows, disabled, refreshes>>
      /\ SessionInv /\ AccountShape
    BY DEF SignOut, AuthInv
<1>2. \A d \in Browsers : cookie'[d] = cookie[d] \/ cookie'[d] = None
    BY <1>1 DEF SessionInv
<1>3. Cookies' \subseteq Cookies
    BY <1>1, <1>2 DEF Cookies
<1>4. CASE UNCHANGED epoch
    BY <1>1, <1>3, <1>4, Ends DEF SameClaims, linkVars, Sess!SessionsNext
<1>5. CASE Identify(cookie[b]) # None /\ BumpEpoch(Identify(cookie[b]))
    <2>1. PICK u : u = cookie[b].user
        OBVIOUS
    <2>2. cookie[b] # None /\ Identify(cookie[b]) = u /\ epoch[u] = cookie[b].epoch
        BY <1>5, <2>1, Identified
    <2>3. u \in Emails /\ epoch[u] \in Nat
        BY <1>1, <2>1, <2>2 DEF SessionInv, Sound, Claims
    <2>4. epoch' = [epoch EXCEPT ![u] = epoch[u] + 1]
        BY <1>5, <2>2 DEF BumpEpoch
    <2>5. epoch'[u] = epoch[u] + 1 /\ \A w \in Emails : w # u => epoch'[w] = epoch[w]
        BY <1>1, <2>3, <2>4 DEF AccountShape
    <2>6. Outs' = [Outs EXCEPT ![u] = @ + 1]
        <3>1. \A w \in Emails : Outs'[w] = IF w = u THEN Outs[w] + 1 ELSE Outs[w]
            BY <2>3, <2>5, AuthAssumption DEF Outs
        <3> QED BY <2>3, <3>1 DEF Outs
    <2>7. ASSUME NEW s \in Live'
          PROVE  s \in Live /\ s.user # u
        <3>1. PICK c \in Cookies' : /\ s = [user |-> c.user, by |-> c.via]
                                    /\ c.user \notin disabled' /\ c.epoch = epoch'[c.user]
            BY DEF Live
        <3>2. c \in Cookies
            BY <1>3
        <3>3. c.user \in Emails /\ c.epoch \in Nat /\ c.epoch <= epoch[c.user]
            BY <3>2, CookieEpochs
        <3>4. c.user # u
            BY <2>3, <2>5, <3>1, <3>3
        <3> QED BY <1>1, <2>5, <3>1, <3>2, <3>3, <3>4 DEF Live
    <2>8. ASSUME NEW s \in Live, s.user # u
          PROVE  s \in Live'
        <3>1. PICK c \in Cookies : /\ s = [user |-> c.user, by |-> c.via]
                                   /\ c.user \notin disabled /\ c.epoch = epoch[c.user]
            BY DEF Live
        <3>2. c.user \in Emails /\ c.user # u /\ c # cookie[b]
            BY <2>1, <2>8, <3>1, CookieEpochs
        <3>3. c \in Cookies'
            <4>1. CASE \E r \in refreshes : c = r.caller
                BY <1>1, <4>1 DEF Cookies
            <4>2. CASE \E d \in Browsers : c = cookie[d] /\ c # None
                <5>1. PICK d \in Browsers : c = cookie[d] /\ c # None
                    BY <4>2
                <5>2. d # b
                    BY <3>2, <5>1
                <5>3. cookie'[d] = c
                    BY <1>1, <5>1, <5>2 DEF SessionInv
                <5> QED BY <5>1, <5>3 DEF Cookies
            <4> QED BY <4>1, <4>2 DEF Cookies
        <3> QED BY <1>1, <2>5, <3>1, <3>2, <3>3 DEF Live
    <2>9. Live' = Sess!OthersThan(u)
        BY <2>7, <2>8 DEF Sess!OthersThan
    <2>10. Used' = Used
        BY <1>1 DEF Used, linkVars
    <2> QED BY <1>1, <2>3, <2>6, <2>9, <2>10 DEF Sess!SignOutEverywhere, Sess!SessionsNext
<1> QED BY <1>4, <1>5 DEF SignOut

LEMMA DisableSessions ==
    ASSUME AuthInv, NEW u \in Emails, Disable(u)
    PROVE  Sess!SessionsNext
<1>1. disabled' = disabled \cup {u} /\ UNCHANGED <<linkVars, flows, cookie, epoch, refreshes>>
    BY DEF Disable
<1>2. Cookies' = Cookies /\ Outs' = Outs /\ Used' = Used
    BY <1>1 DEF Cookies, Outs, Used, linkVars
<1>3. Live' = Sess!OthersThan(u)
    <2>1. ASSUME NEW s \in Live'
          PROVE  s \in Live /\ s.user # u
        BY <1>1, <1>2 DEF Live
    <2>2. ASSUME NEW s \in Live, s.user # u
          PROVE  s \in Live'
        <3>1. PICK c \in Cookies : /\ s = [user |-> c.user, by |-> c.via]
                                   /\ c.user \notin disabled /\ c.epoch = epoch[c.user]
            BY DEF Live
        <3> QED BY <1>1, <1>2, <2>2, <3>1 DEF Live
    <2> QED BY <2>1, <2>2 DEF Sess!OthersThan
<1> QED BY <1>1, <1>2, <1>3 DEF Sess!Bar, Sess!SessionsNext

(* A response brings back the claims its request came with. *)
LEMMA RespondSessions ==
    ASSUME AuthInv, NEW r \in refreshes, Respond(r)
    PROVE  Sess!SessionsNext
<1> DEFINE v == [r.caller EXCEPT !.at = now]
<1>1. /\ cookie' = [cookie EXCEPT ![r.browser] = v] /\ refreshes' \subseteq refreshes
      /\ UNCHANGED <<linkVars, flows, epoch, disabled>> /\ SessionInv
    BY DEF Respond, accountVars, AuthInv
<1>2. r.caller \in Claims
    BY <1>1 DEF SessionInv, Sound
<1>3. v.user = r.caller.user /\ v.epoch = r.caller.epoch /\ v.via = r.caller.via
    BY <1>2 DEF Claims
<1> HIDE DEF v
<1>4. \A d \in Browsers : cookie'[d] = cookie[d] \/ cookie'[d] = v
    BY <1>1 DEF SessionInv
<1>5. r.caller \in Cookies
    BY DEF Cookies
<1>6. ASSUME NEW c \in Cookies'
      PROVE  c \in Cookies \/ c = v
    BY <1>1, <1>4 DEF Cookies
<1> QED BY <1>1, <1>3, <1>5, <1>6, Ends DEF SameClaims, linkVars, Sess!SessionsNext

(* A restart loses what was on its way, and may use up a link for nothing. *)
LEMMA RestartSessions ==
    ASSUME AuthInv, Restart
    PROVE  Sess!SessionsNext
<1>1. /\ UNCHANGED <<epoch, disabled, flows, cookie>> /\ refreshes' = {} /\ LinkInv
    BY DEF Restart, accountVars, AuthInv
<1>2. SameClaims
    BY <1>1, SameCookies
<1>3. CASE UNCHANGED links
    BY <1>1, <1>2, <1>3, Ends DEF SameClaims, Sess!SessionsNext
<1>4. CASE \E n \in DOMAIN links : ConsumeMagic(n)
    <2>1. PICK n \in DOMAIN links : ConsumeMagic(n)
        BY <1>4
    <2>2. /\ Used' = Used \cup {<<"link", n>>} /\ <<"link", n>> \notin Used
        BY <1>1, <2>1, LinkUsed
    <2>3. Live' \subseteq Live /\ Outs' = Outs
        BY <1>1, <1>2, LiveFewer DEF SameClaims
    <2>4. \E u : u \in Emails
        <3>1. links[n] \in LinkRecord
            BY <1>1 DEF LinkInv, LinkShape
        <3> QED BY <3>1 DEF LinkRecord
    <2> QED BY <1>1, <2>2, <2>3, <2>4 DEF Sess!Open, Sess!SessionsNext
<1> QED BY <1>3, <1>4 DEF Restart

LEMMA SessionsStep ==
    ASSUME AuthInv, AuthInv', [AuthNext]_authVars
    PROVE  [Sess!SessionsNext]_(Sess!sessionVars)
<1>1. CASE LinksStep
    BY <1>1, LinksStepSessions
<1>2. CASE \E b \in Browsers, n \in DOMAIN links : VerifyLink(b, n)
    <2>1. PICK b \in Browsers, n \in DOMAIN links : VerifyLink(b, n)
        BY <1>2
    <2>2. links[n] \in LinkRecord
        BY DEF AuthInv, LinkInv, LinkShape
    <2>3. links[n].email \in Emails /\ <<"email", links[n].email>> \in Identities
        BY <2>2 DEF LinkRecord, Identities
    <2>4. /\ ConsumeMagic(n) /\ UNCHANGED <<flows, refreshes>>
          /\ SignIn(b, <<"email", links[n].email>>, links[n].email, <<"link", n>>)
        BY <2>1 DEF VerifyLink
    <2>5. Used' = Used \cup {<<"link", n>>} /\ <<"link", n>> \notin Used
        BY <2>4, LinkUsed DEF AuthInv
    <2> QED BY <2>3, <2>4, <2>5, SignInOpens DEF Sess!SessionsNext
<1>3. CASE \E x \in exchanges : Exchanged(x)
    <2>1. PICK x \in exchanges : Exchanged(x)
        BY <1>3
    <2>2. /\ ~ flows[x.flow].spent /\ address[Who(x)] # None
          /\ SignIn(x.browser, Who(x), address[Who(x)], <<"flow", x.flow>>)
          /\ flows' = [flows EXCEPT ![x.flow].spent = TRUE]
          /\ links' = links /\ refreshes' = refreshes
        BY <2>1 DEF Exchanged, linkVars
    <2>3. /\ x.flow \in 1 .. Len(flows) /\ flows[x.flow] \in FlowRecord
          /\ flows[x.flow].subject # None
        BY DEF AuthInv, FlowShape
    <2>4. Who(x) \in External
        BY <2>3 DEF FlowRecord, Who, External
    <2>5. Who(x) \in Identities /\ address[Who(x)] \in Emails
        BY <2>2, <2>4 DEF AuthInv, AccountShape, Identities
    <2>6. Used' = Used \cup {<<"flow", x.flow>>} /\ <<"flow", x.flow>> \notin Used
        BY <2>2, <2>3, FlowUsed DEF AuthInv
    <2> QED BY <2>2, <2>5, <2>6, SignInOpens DEF Sess!SessionsNext
<1>4. CASE \/ \E b \in Browsers, p \in Providers : OAuthStart(b, p)
           \/ \E f \in DOMAIN flows : Approve(f) \/ \E b \in Browsers : OAuthCallback(b, f)
           \/ \E x \in exchanges : ExchangeFails(x)
           \/ \E i \in External : ChangeAddress(i)
    BY <1>4, FlowsStepSessions
<1>5. CASE Restart
    BY <1>5, RestartSessions
<1>6. CASE \E b \in Browsers : Request(b)
    <2>1. PICK b \in Browsers : Request(b)
        BY <1>6
    <2> DEFINE r == [browser |-> b, caller |-> cookie[b]]
    <2>2. /\ refreshes' = refreshes \cup {r} /\ r.caller = cookie[b] /\ cookie[b] # None
          /\ UNCHANGED <<linkVars, flows, epoch, disabled, cookie>>
        BY <2>1, Identified DEF Request, accountVars
    <2> HIDE DEF r
    <2>3. Cookies' \subseteq Cookies
        BY <2>2 DEF Cookies
    <2> QED BY <2>2, <2>3, Ends DEF SameClaims, linkVars, Sess!SessionsNext
<1>7. CASE \E b \in Browsers : SignOut(b)
    BY <1>7, SignOutSessions
<1>8. CASE \E r \in refreshes : Respond(r)
    BY <1>8, RespondSessions
<1>9. CASE \E u \in Emails : Disable(u)
    BY <1>9, DisableSessions
<1>10. CASE UNCHANGED authVars
    BY <1>10 DEF authVars, linkVars, accountVars, Sess!sessionVars, Live, Used, Outs, Cookies
<1> QED BY <1>1, <1>2, <1>3, <1>4, <1>5, <1>6, <1>7, <1>8, <1>9, <1>10 DEF AuthNext, OAuthStep

LEMMA SessionsStart == AuthInit => Sess!SessionsInit
<1> SUFFICES ASSUME AuthInit PROVE Sess!SessionsInit
    OBVIOUS
<1>1. links = <<>> /\ flows = <<>> /\ refreshes = {} /\ disabled = {}
      /\ cookie = [b \in Browsers |-> None] /\ epoch = [e \in Emails |-> None]
    BY DEF AuthInit, LinksInit
<1>2. Cookies = {}
    BY <1>1 DEF Cookies
<1>3. Live = {} /\ Used = {} /\ Outs = [u \in Emails |-> 0]
    BY <1>1, <1>2 DEF Live, Used, Outs
<1> QED BY <1>1, <1>3 DEF Sess!SessionsInit

(***************************************************************************)
(* Every behavior of sign-in is one of Sessions: a link or a flow opens one*)
(* session, no late response or sign-in revives one, and a sign-out        *)
(* everywhere or a disabled account ends all of its user's (app.py).       *)
(***************************************************************************)
THEOREM SessionsImplemented == AuthSpec => ImplementsSessions
<1>1. AuthInit => Sess!SessionsInit
    BY SessionsStart
<1>2. AuthInv /\ AuthInv' /\ [AuthNext]_authVars => [Sess!SessionsNext]_(Sess!sessionVars)
    BY SessionsStep
<1> QED BY <1>1, <1>2, AuthInvariant, PTL DEF AuthSpec, ImplementsSessions, Sess!SessionsSpec

(***************************************************************************)
(* So no link or flow is behind the sessions of two users, and a disabled  *)
(* account has none (identify, consume_magic, exchange_code).              *)
(***************************************************************************)
THEOREM OneSession == AuthSpec => []Sess!OneSessionEach
<1>1. Sess!SessionsInit => Sess!OneSessionEach
    BY DEF Sess!SessionsInit, Sess!OneSessionEach
<1>2. Sess!OneSessionEach /\ [Sess!SessionsNext]_(Sess!sessionVars) => Sess!OneSessionEach'
    <2> SUFFICES ASSUME Sess!OneSessionEach, [Sess!SessionsNext]_(Sess!sessionVars)
                 PROVE  Sess!OneSessionEach'
        OBVIOUS
    <2>1. CASE Sess!Open
        <3>1. PICK c \in Used' \ Used, u \in Emails :
                  /\ Used' = Used \cup {c}
                  /\ Live' \subseteq Live \cup (IF u \in disabled THEN {} ELSE {[user |-> u, by |-> c]})
            BY <2>1 DEF Sess!Open
        <3>2. disabled' = disabled
            BY <2>1 DEF Sess!Open
        <3>3. \A s \in Live' : s \in Live \/ (s = [user |-> u, by |-> c] /\ u \notin disabled)
            BY <3>1
        <3> QED BY <3>1, <3>2, <3>3 DEF Sess!OneSessionEach
    <2>2. CASE Sess!End
        BY <2>2 DEF Sess!End, Sess!OneSessionEach
    <2>3. CASE \E u \in Emails : Sess!SignOutEverywhere(u) \/ Sess!Bar(u)
        BY <2>3 DEF Sess!SignOutEverywhere, Sess!Bar, Sess!OthersThan, Sess!OneSessionEach
    <2>4. CASE UNCHANGED Sess!sessionVars
        BY <2>4 DEF Sess!sessionVars, Sess!OneSessionEach
    <2> QED BY <2>1, <2>2, <2>3, <2>4 DEF Sess!SessionsNext
<1> QED BY <1>1, <1>2, SessionsImplemented, PTL DEF ImplementsSessions, Sess!SessionsSpec
=============================================================================
