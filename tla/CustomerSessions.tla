-------------------------- MODULE CustomerSessions --------------------------
(***************************************************************************)
(* Sessions of one end user of a project: sign-in, refresh rotation,       *)
(* one-time links, password change and reset, disabling and deleting the   *)
(* user.  packages/auth/src/customer/service.ts on the Postgres store of   *)
(* pg-store.ts, one awaited statement per action.                          *)
(*                                                                         *)
(* A request names what it makes: sign-in s makes session s and its first  *)
(* refresh token, refresh r makes token r, change c sets password c.       *)
(***************************************************************************)
EXTENDS Naturals, Sequences, FiniteSets

CONSTANTS
    SignIns,        \* password sign-ins
    Redeems,        \* magic-link sign-ins
    Refreshes,      \* refresh requests
    Changes,        \* password changes by the user
    Resets,         \* password resets with a link
    Admins,         \* administrators' updates of the user's status
    Deletions,      \* administrators' deletes of the user
    SignOuts,       \* sign-outs, of one session or of all
    MagicLinks, ResetLinks,
    MaxUsed,        \* length of used_refresh_hashes (20 in the code)
    MaxRequests,    \* bound: requests sent in a behaviour
    MaxCrashes,     \* bound: restarts of the API process
    None

Openers   == SignIns \cup Redeems           \* requests that make a session
Setters   == Changes \cup Resets            \* requests that set a password
Closers   == Admins \cup Deletions          \* requests that set the user's status
Revokers  == Setters \cup Closers           \* requests that revoke every session
Tokens    == Openers \cup Refreshes         \* each issues one refresh token
Redeemers == Redeems \cup Resets            \* requests that spend a link
Links     == MagicLinks \cup ResetLinks
Handlers  == Tokens \cup Revokers \cup SignOuts

ASSUME ConstantsAssumption ==
    /\ SignIns \cap Redeems = {} /\ Openers \cap Refreshes = {}
    /\ Changes \cap Resets = {} /\ Admins \cap Deletions = {}
    /\ Setters \cap Closers = {}
    /\ Tokens \cap Revokers = {}
    /\ SignOuts \cap (Tokens \cup Revokers) = {}
    /\ MagicLinks \cap ResetLinks = {}
    /\ MaxUsed \in Nat \ {0} /\ MaxRequests \in Nat /\ MaxCrashes \in Nat
    /\ None \notin Handlers \cup Links

VARIABLES
    status, closer,   \* the user's status, and who set it last
    password,         \* who set the password hash; None at first
    session,          \* "none", "live", "revoked" or "expired"
    current, used,    \* per session: refreshTokenHash, usedRefreshHashes
    link,             \* one-time tokens: "none", "asked", "live", "spent", "gone"
    pc,
    shown,            \* what a request presents: a refresh token or a link
    target,           \* the session a refresh works on
    handed,           \* refresh tokens that reached a client
    crashes,
    proof,            \* history: the password when an opener's check passed
    late,             \* history: openers past their check while all was revoked
    forked            \* history: sessions with a rotation that lost another

user  == <<status, closer, password>>
rows  == <<session, current, used>>
calls == <<pc, shown, target>>
past  == <<proof, late, forked>>
vars  == <<user, rows, link, calls, handed, crashes, past>>

PC == {"idle", "consume", "finduser", "insert", "respond", "reuse", "checkuser", "mark",
       "touch", "setpw", "revokeall", "dellinks", "done", "dead", "cut"}

TypeOK ==
    /\ status \in {"active", "disabled", "deleted"}
    /\ closer \in Closers \cup {None}
    /\ password \in Setters \cup {None}
    /\ session \in [Openers -> {"none", "live", "revoked", "expired"}]
    /\ current \in [Openers -> Tokens]
    /\ used \in [Openers -> Seq(Tokens)] /\ \A s \in Openers : Len(used[s]) <= MaxUsed
    /\ link \in [Links -> {"none", "asked", "live", "spent", "gone"}]
    /\ pc \in [Handlers -> PC]
    /\ shown \in [Handlers -> Tokens \cup Links \cup {None}]
    /\ target \in [Refreshes -> Openers \cup {None}]
    /\ handed \subseteq Tokens
    /\ crashes \in 0 .. MaxCrashes
    /\ proof \in [Openers -> Setters \cup {None}]
    /\ late \subseteq Openers /\ forked \subseteq Openers

Init ==
    /\ status = "active" /\ closer = None /\ password = None
    /\ session = [s \in Openers |-> "none"]
    /\ current = [s \in Openers |-> s]
    /\ used = [s \in Openers |-> <<>>]
    /\ link = [l \in Links |-> "none"]
    /\ pc = [h \in Handlers |-> "idle"]
    /\ shown = [h \in Handlers |-> None]
    /\ target = [r \in Refreshes |-> None]
    /\ handed = {} /\ crashes = 0
    /\ proof = [s \in Openers |-> None] /\ late = {} /\ forked = {}

Goto(h, label) == pc' = [pc EXCEPT ![h] = label]
Moved(h, from, to) == pc[h] = from /\ Goto(h, to)
Unsent(h) == pc[h] = "idle" /\ Cardinality({g \in Handlers : pc[g] # "idle"}) < MaxRequests
Shows(h, t) == shown' = [shown EXCEPT ![h] = t]

-----------------------------------------------------------------------------
(* Sign-in.                                                                *)

\* findUserByEmail and the password check: the right password, or an end.
SignIn(s) ==
    /\ Unsent(s) /\ status # "deleted"
    /\ IF status = "active"
         THEN Goto(s, "insert") /\ proof' = [proof EXCEPT ![s] = password]
         ELSE Goto(s, "done") /\ UNCHANGED proof
    /\ UNCHANGED <<user, rows, link, shown, target, handed, crashes, late, forked>>

\* issueSession: createSession does not look at the user again.
CreateSession(s) ==
    /\ Moved(s, "insert", "respond")
    /\ session' = [session EXCEPT ![s] = "live"]
    /\ UNCHANGED <<user, current, used, link, shown, target, handed, crashes, past>>

\* The reply with the token; a restart before it loses the reply.
Respond(t) ==
    /\ Moved(t, "respond", "done")
    /\ handed' = handed \cup {t}
    /\ UNCHANGED <<user, rows, link, shown, target, crashes, past>>

-----------------------------------------------------------------------------
(* refreshSession.                                                         *)

\* findSessionByRefreshHash: by the current hash or by a retired one.
Matches(t) == {s \in Openers : session[s] # "none" /\
                   (current[s] = t \/ \E i \in DOMAIN used[s] : used[s][i] = t)}

\* A client presents a token it was given, the newest or an older one.
Refresh(r) ==
    /\ Unsent(r)
    /\ \E t \in handed :
         /\ Shows(r, t)
         /\ \/ \E s \in Matches(t) :
                 /\ session[s] = "live"
                 /\ target' = [target EXCEPT ![r] = s]
                 /\ Goto(r, IF current[s] = t THEN "checkuser" ELSE "reuse")
            \/ /\ \A s \in Matches(t) : session[s] # "live"
               /\ Goto(r, "done") /\ UNCHANGED target
    /\ UNCHANGED <<user, rows, link, handed, crashes, past>>

\* Reuse of a retired token revokes the session.
RevokeReused(r) ==
    /\ Moved(r, "reuse", "done")
    /\ session' = [session EXCEPT ![target[r]] = IF @ = "live" THEN "revoked" ELSE @]
    /\ UNCHANGED <<user, current, used, link, shown, target, handed, crashes, past>>

CheckUser(r) ==
    /\ pc[r] = "checkuser"
    /\ Goto(r, IF status = "active" THEN "mark" ELSE "done")
    /\ UNCHANGED <<user, rows, link, shown, target, handed, crashes, past>>

\* The list keeps the MaxUsed newest hashes.
Retired(list, t) == Append(IF Len(list) >= MaxUsed THEN Tail(list) ELSE list, t)

\* Mutant: the presented token is retired nowhere.
MarkNothing(r) ==
    /\ Moved(r, "mark", "touch")
    /\ UNCHANGED <<user, rows, link, shown, target, handed, crashes, past>>

\* Mutant: the hash of the next token is retired.
MarkNext(r) ==
    /\ Moved(r, "mark", "touch")
    /\ used' = [used EXCEPT ![target[r]] = Retired(@, r)]
    /\ UNCHANGED <<user, session, current, link, shown, target, handed, crashes, past>>

\* markRefreshUsed, then touchSession: neither statement looks at revoked_at
\* or at the current hash.
MarkUsed(r) ==
    /\ Moved(r, "mark", "touch")
    /\ used' = [used EXCEPT ![target[r]] = Retired(@, shown[r])]
    /\ UNCHANGED <<user, session, current, link, shown, target, handed, crashes, past>>

Touch(r) ==
    /\ Moved(r, "touch", "respond")
    /\ current' = [current EXCEPT ![target[r]] = r]
    /\ forked' = IF current[target[r]] = shown[r] THEN forked ELSE forked \cup {target[r]}
    /\ UNCHANGED <<user, session, used, link, shown, target, handed, crashes, proof, late>>

-----------------------------------------------------------------------------
(* One-time links.                                                         *)

\* requestMagicLink, requestPasswordReset: an active user, then the row.
AskLink(l) ==
    /\ link[l] = "none" /\ status = "active"
    /\ link' = [link EXCEPT ![l] = "asked"]
    /\ UNCHANGED <<user, rows, calls, handed, crashes, past>>

SaveLink(l) ==
    /\ link[l] = "asked"
    /\ link' = [link EXCEPT ![l] = "live"]
    /\ UNCHANGED <<user, rows, calls, handed, crashes, past>>

\* Mutant: the look-up forgets consumed_at.
FindLinkSpent(h) ==
    /\ Unsent(h)
    /\ \E l \in (IF h \in Redeems THEN MagicLinks ELSE ResetLinks) :
         /\ link[l] \in {"live", "spent"}
         /\ Shows(h, l) /\ Goto(h, "consume")
         /\ proof' = IF h \in Redeems THEN [proof EXCEPT ![h] = password] ELSE proof
    /\ UNCHANGED <<user, rows, link, target, handed, crashes, late, forked>>

\* findToken: kind, not consumed, not expired.
FindLink(h) ==
    /\ Unsent(h)
    /\ \E l \in (IF h \in Redeems THEN MagicLinks ELSE ResetLinks) :
         /\ link[l] \notin {"none", "asked"}
         /\ Shows(h, l)
         /\ Goto(h, IF link[l] = "live" THEN "consume" ELSE "done")
         /\ proof' = IF h \in Redeems /\ link[l] = "live"
                       THEN [proof EXCEPT ![h] = password] ELSE proof
    /\ UNCHANGED <<user, rows, link, target, handed, crashes, late, forked>>

\* consumeToken: nobody looks at whether it found a row to consume.
ConsumeLink(h) ==
    /\ Moved(h, "consume", IF h \in Redeems THEN "finduser" ELSE "setpw")
    /\ link' = [link EXCEPT ![shown[h]] = IF @ = "live" THEN "spent" ELSE @]
    /\ UNCHANGED <<user, rows, shown, target, handed, crashes, past>>

FindUser(h) ==
    /\ pc[h] = "finduser"
    /\ Goto(h, IF status = "active" THEN "insert" ELSE "done")
    /\ UNCHANGED <<user, rows, link, shown, target, handed, crashes, past>>

-----------------------------------------------------------------------------
(* Password change and reset; the administrator; signing out.              *)

\* changePassword: a signed-in user gives the current password.
Change(c) ==
    /\ status # "deleted" /\ \E s \in Openers : session[s] = "live"
    /\ Unsent(c) /\ Goto(c, "setpw")
    /\ UNCHANGED <<user, rows, link, shown, target, handed, crashes, past>>

\* The hash is written to a user that is not deleted.  A reset ends there
\* otherwise (USER_NOT_FOUND), a change revokes all the same.
SetPassword(c) ==
    /\ pc[c] = "setpw"
    /\ IF status = "deleted"
         THEN Goto(c, IF c \in Resets THEN "done" ELSE "revokeall") /\ UNCHANGED password
         ELSE Goto(c, "revokeall") /\ password' = c
    /\ UNCHANGED <<status, closer, rows, link, shown, target, handed, crashes, past>>

\* Openers whose check is done and whose session row is not there yet.
Opening == {s \in Openers : pc[s] \in {"consume", "finduser", "insert"}}

AllRevoked == [s \in Openers |-> IF session[s] = "live" THEN "revoked" ELSE session[s]]

\* Mutant: the sessions are left to run out.
RevokeNothing(h) ==
    /\ Moved(h, "revokeall", IF h \in Admins THEN "done" ELSE "dellinks")
    /\ UNCHANGED <<user, rows, link, shown, target, handed, crashes, past>>

\* revokeUserSessions; an expired session stays refused either way.
RevokeAll(h) ==
    /\ Moved(h, "revokeall", IF h \in Admins THEN "done" ELSE "dellinks")
    /\ session' = AllRevoked
    /\ late' = late \cup Opening
    /\ UNCHANGED <<user, current, used, link, shown, target, handed, crashes, proof, forked>>

\* deleteUserTokens.
DeleteLinks(h) ==
    /\ Moved(h, "dellinks", "done")
    /\ link' = [l \in Links |-> IF link[l] \in {"live", "spent"} THEN "gone" ELSE link[l]]
    /\ UNCHANGED <<user, rows, shown, target, handed, crashes, past>>

\* adminUpdateUser, deleteUser: the status first, the sessions after it.
SetStatus(a) ==
    /\ Unsent(a) /\ status # "deleted"
    /\ status' \in (IF a \in Admins THEN {"active", "disabled"} ELSE {"deleted"})
    /\ closer' = a
    /\ Goto(a, IF status' = "active" THEN "done" ELSE "revokeall")
    /\ UNCHANGED <<password, rows, link, shown, target, handed, crashes, past>>

\* signOut, signOutByRefresh, revokeSession, revokeAllSessions.
SignOut(o) ==
    /\ Unsent(o) /\ Goto(o, "done")
    /\ session' \in {AllRevoked} \cup
         {[session EXCEPT ![s] = "revoked"] : s \in {x \in Openers : session[x] = "live"}}
    /\ UNCHANGED <<user, current, used, link, shown, target, handed, crashes, past>>

-----------------------------------------------------------------------------
(* Time and restarts.                                                      *)

ExpireSession(s) ==
    /\ session[s] = "live"
    /\ session' = [session EXCEPT ![s] = "expired"]
    /\ UNCHANGED <<user, current, used, link, calls, handed, crashes, past>>

ExpireLink(l) ==
    /\ link[l] = "live"
    /\ link' = [link EXCEPT ![l] = "gone"]
    /\ UNCHANGED <<user, rows, calls, handed, crashes, past>>

\* A restart ends every request under way; "cut" are those it stopped after
\* the user was written and before the sessions were revoked.
Crash ==
    /\ crashes < MaxCrashes
    /\ crashes' = crashes + 1
    /\ pc' = [h \in Handlers |->
                CASE pc[h] \in {"idle", "done", "dead", "cut"} -> pc[h]
                  [] pc[h] = "revokeall" -> "cut"
                  [] OTHER -> "dead"]
    /\ link' = [l \in Links |-> IF link[l] = "asked" THEN "gone" ELSE link[l]]
    /\ UNCHANGED <<user, rows, shown, target, handed, past>>

OpenStep    == \E s \in Openers : (s \in SignIns /\ SignIn(s)) \/ CreateSession(s)
RefreshStep == \E r \in Refreshes :
                 Refresh(r) \/ RevokeReused(r) \/ CheckUser(r) \/ MarkUsed(r) \/ Touch(r)
LinkStep    == \/ \E l \in Links : AskLink(l) \/ SaveLink(l) \/ ExpireLink(l)
               \/ \E h \in Redeemers :
                    FindLink(h) \/ ConsumeLink(h) \/ (h \in Redeems /\ FindUser(h))
UserStep    == \/ \E c \in Setters : (c \in Changes /\ Change(c)) \/ SetPassword(c)
               \/ \E h \in Revokers : RevokeAll(h) \/ DeleteLinks(h)
               \/ \E a \in Closers : SetStatus(a)
               \/ \E o \in SignOuts : SignOut(o)

Next == \/ OpenStep \/ RefreshStep \/ LinkStep \/ UserStep
        \/ \E t \in Tokens : Respond(t)
        \/ \E s \in Openers : ExpireSession(s)
        \/ Crash

Spec == Init /\ [][Next]_vars

-----------------------------------------------------------------------------
(* What is promised.                                                       *)

\* Whoever wrote the user last has not revoked the sessions yet, or was
\* stopped before it could.
Pending(writer) == writer # None /\ pc[writer] \in {"revokeall", "cut"}

\* A password change ends the sessions of the password before it: a live
\* session was opened with the present password, or by a request that was
\* past its check while the sessions were revoked (issueSession looks at
\* nothing again), or the change has not come to its revocation.
SessionsProveThePassword ==
    \A s \in Openers : session[s] = "live" =>
        proof[s] = password \/ s \in late \/ Pending(password)

\* Disabling or deleting the user ends its sessions, with the same two
\* exceptions; a rotation under way revives none.
ClosedUsersHaveNoSession ==
    \A s \in Openers : session[s] = "live" =>
        status = "active" \/ s \in late \/ Pending(closer)

\* The session whose chain a token belongs to.
ChainOf(t) == IF t \in Openers THEN t ELSE target[t]

\* Every token a client was given is its session's current one or is known as
\* retired, at every point of a rotation and after a restart in the middle of
\* one; two rotations of one token, and the end of the list, lose tokens.
TokensAreCurrentOrRetired ==
    \A t \in handed : LET s == ChainOf(t) IN
        \/ current[s] = t
        \/ \E i \in DOMAIN used[s] : used[s][i] = t
        \/ s \in forked \/ Len(used[s]) = MaxUsed

\* A session is revoked for reuse only if somebody presented one token twice:
\* a client that shows each token once, and no lost reply, is never signed out.
ReuseMeansShownTwice ==
    \A r \in Refreshes : pc[r] = "reuse" =>
        \E q \in Refreshes \ {r} : shown[q] = shown[r]

\* Requests that have found a link unspent and not yet spent it.
Spending(l) == {h \in Redeemers : shown[h] = l /\ pc[h] = "consume"}

\* Requests that got past spending it.
Spenders(l) == {h \in Redeemers :
    shown[h] = l /\ pc[h] \in {"finduser", "insert", "respond", "setpw", "revokeall", "dellinks"}}

\* A spent link is found by nobody, so two requests use one only if both had
\* found it before either spent it.
SpentLinksAreNotFound ==
    [][\A h \in Redeemers, l \in Links :
         h \in Spending(l)' /\ h \notin Spending(l) => Spenders(l) = {}]_vars
=============================================================================
