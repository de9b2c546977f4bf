----------------------- MODULE CustomerSessionsProofs -----------------------
(***************************************************************************)
(* TLAPS proofs about CustomerSessions, for any number of requests,        *)
(* sessions, links, restarts and any length of the list of retired tokens. *)
(***************************************************************************)
EXTENDS CustomerSessions, TLAPS

\* A refresh past its look-up knows its session and shows a token; a request
\* that spends a link shows one.
Shape ==
    /\ \A r \in Refreshes :
         pc[r] \in {"reuse", "checkuser", "mark", "touch", "respond"} \/ r \in handed =>
            pc[r] # "idle" /\ target[r] \in Openers /\ shown[r] \in Tokens
    /\ \A h \in Redeemers : pc[h] = "consume" => shown[h] \in Links

TypeInv == TypeOK /\ Shape

\* What sign-ins past their check still have to prove.
OpeningInv ==
    \A s \in Openers :
        /\ session[s] = "live" \/ s \in Opening =>
             proof[s] = password \/ s \in late \/ Pending(password)
        /\ session[s] = "live" \/ pc[s] = "insert" =>
             status = "active" \/ s \in late \/ Pending(closer)

In(t, list) == \E i \in DOMAIN list : list[i] = t

\* A token its session still knows, or lost for one of the two reasons.
Known(t) == LET s == ChainOf(t) IN
    current[s] = t \/ In(t, used[s]) \/ s \in forked \/ Len(used[s]) = MaxUsed

\* Tokens issued are known; a rotation that is about to replace the current
\* token has retired the one it was shown.
TokenInv ==
    /\ \A t \in Tokens : t \in Openers \/ t \in handed \/ pc[t] = "respond" => Known(t)
    /\ \A r \in Refreshes : pc[r] = "touch" =>
         In(shown[r], used[target[r]]) \/ Len(used[target[r]]) = MaxUsed

\* A retired token was shown, and one refused as reused was shown by another.
ShownInv ==
    /\ \A s \in Openers : \A i \in DOMAIN used[s] :
         \E q \in Refreshes : pc[q] # "idle" /\ shown[q] = used[s][i]
    /\ \A r \in Refreshes : pc[r] = "reuse" =>
         \E q \in Refreshes \ {r} : pc[q] # "idle" /\ shown[q] = shown[r]

\* A link somebody has found has been saved, one somebody has spent is not live.
LinkInv ==
    \A h \in Redeemers, l \in Links :
        /\ h \in Spending(l) => link[l] \in {"live", "spent", "gone"}
        /\ h \in Spenders(l) => link[l] \in {"spent", "gone"}

-----------------------------------------------------------------------------
(* The list of retired tokens.                                             *)

LEMMA RetiredList ==
  ASSUME NEW list \in Seq(Tokens), Len(list) <= MaxUsed, NEW t \in Tokens
  PROVE  /\ Retired(list, t) \in Seq(Tokens)
         /\ Len(Retired(list, t)) <= MaxUsed
         /\ Len(list) = MaxUsed => Len(Retired(list, t)) = MaxUsed
         /\ In(t, Retired(list, t))
         /\ \A x : In(x, list) => In(x, Retired(list, t)) \/ Len(list) = MaxUsed
         /\ \A j \in DOMAIN Retired(list, t) : Retired(list, t)[j] = t \/ In(Retired(list, t)[j], list)
<1> USE ConstantsAssumption
<1>1. CASE Len(list) < MaxUsed
  <2>1. Retired(list, t) = Append(list, t)
    BY <1>1 DEF Retired
  <2>2. Len(Append(list, t)) = Len(list) + 1 /\ Append(list, t) \in Seq(Tokens)
    OBVIOUS
  <2>3. \A i \in 1 .. Len(list) : Append(list, t)[i] = list[i]
    OBVIOUS
  <2>4. Append(list, t)[Len(list) + 1] = t
    OBVIOUS
  <2> QED
    BY <1>1, <2>1, <2>2, <2>3, <2>4 DEF In
<1>2. CASE Len(list) = MaxUsed
  <2>1. Retired(list, t) = Append(Tail(list), t)
    BY <1>2 DEF Retired
  <2>2. Tail(list) \in Seq(Tokens) /\ Len(Tail(list)) = Len(list) - 1
    BY <1>2
  <2>3. \A i \in 1 .. Len(list) - 1 : Tail(list)[i] = list[i + 1]
    BY <1>2
  <2>4. Len(Append(Tail(list), t)) = Len(list) /\ Append(Tail(list), t) \in Seq(Tokens)
    BY <2>2
  <2>5. Append(Tail(list), t)[Len(list)] = t
    BY <2>2
  <2>6. \A i \in 1 .. Len(list) - 1 : Append(Tail(list), t)[i] = list[i + 1]
    BY <2>2, <2>3
  <2> QED
    BY <1>2, <2>1, <2>4, <2>5, <2>6 DEF In
<1> QED
  BY <1>1, <1>2

-----------------------------------------------------------------------------
(* Type correctness.                                                       *)

LEMMA TypeInit == Init => TypeInv
<1> USE ConstantsAssumption
<1> SUFFICES ASSUME Init PROVE TypeInv
  OBVIOUS
<1>1. used \in [Openers -> Seq(Tokens)] /\ \A s \in Openers : Len(used[s]) <= MaxUsed
  BY DEF Init
<1>2. current \in [Openers -> Tokens]
  BY DEF Init, Tokens
<1>3. TypeOK
  BY <1>1, <1>2 DEF Init, TypeOK, PC
<1>4. Shape
  BY DEF Init, Shape, Tokens, Openers, Redeemers, Handlers, Revokers, Setters
<1> QED
  BY <1>3, <1>4 DEF TypeInv

LEMMA TypeStep == TypeInv /\ [Next]_vars => TypeInv'
<1> USE ConstantsAssumption
<1> SUFFICES ASSUME TypeInv, [Next]_vars PROVE TypeInv'
  OBVIOUS
<1> USE DEF TypeInv, TypeOK, Shape, PC, Openers, Setters, Closers, Revokers, Tokens, Redeemers,
            Handlers, Goto, Moved, Shows, Unsent, user, rows, calls, past
<1>1. ASSUME NEW s \in SignIns, SignIn(s) PROVE TypeInv'
  <2>1. s \in Openers /\ s \in Handlers /\ s \notin Refreshes /\ s \notin Redeemers
    OBVIOUS
  <2>2. \E label \in {"insert", "done"} : Goto(s, label)
    BY <1>1 DEF SignIn
  <2>3. proof' \in [Openers -> Setters \cup {None}]
    BY <1>1, <2>1 DEF SignIn
  <2>4. UNCHANGED <<user, rows, link, shown, target, handed, crashes, late, forked>>
    BY <1>1 DEF SignIn
  <2> QED
    BY <2>1, <2>2, <2>3, <2>4
<1>2. ASSUME NEW s \in Openers, CreateSession(s) PROVE TypeInv'
  BY <1>2 DEF CreateSession
<1>3. ASSUME NEW t \in Tokens, Respond(t) PROVE TypeInv'
  BY <1>3 DEF Respond
<1>4. ASSUME NEW r \in Refreshes, Refresh(r) PROVE TypeInv'
  <2>1. UNCHANGED <<user, rows, link, handed, crashes, past>>
    BY <1>4 DEF Refresh
  <2>2. PICK t \in handed : Shows(r, t)
    BY <1>4 DEF Refresh
  <2>3. \/ /\ \E s \in Openers : target' = [target EXCEPT ![r] = s]
           /\ \E label \in {"checkuser", "reuse"} : Goto(r, label)
        \/ UNCHANGED target /\ Goto(r, "done")
    BY <1>4 DEF Refresh, Matches
  <2>4. r \notin handed /\ r \notin Redeemers
    BY <1>4 DEF Refresh
  <2>5. t \in Tokens /\ shown[r]' = t /\ \A g \in Handlers : g # r => shown'[g] = shown[g]
    BY <2>2
  <2>6. TypeOK'
    <3>1. pc' \in [Handlers -> PC]
      BY <2>3
    <3>2. shown' \in [Handlers -> Tokens \cup Links \cup {None}]
      BY <2>2, <2>5
    <3>3. target' \in [Refreshes -> Openers \cup {None}]
      BY <2>3
    <3> QED
      BY ONLY TypeOK, <2>1, <3>1, <3>2, <3>3 DEF TypeOK, user, rows, past
  <2>7. \A g \in Handlers : g # r => pc'[g] = pc[g]
    BY <2>3
  <2>8. \A q \in Refreshes : q # r => target'[q] = target[q]
    BY <2>3
  <2>9. pc'[r] \in {"checkuser", "reuse"} => target'[r] \in Openers
    BY <2>3
  <2>10. pc'[r] \in {"checkuser", "reuse", "done"} /\ handed' = handed
    BY <2>1, <2>3
  <2>11. Shape'
    BY ONLY Shape, ConstantsAssumption, <2>4, <2>5, <2>7, <2>8, <2>9, <2>10
       DEF Shape, Handlers, Tokens, Redeemers, Openers, Revokers, Setters
  <2> QED
    BY <2>6, <2>11
<1>5. ASSUME NEW r \in Refreshes, RevokeReused(r) PROVE TypeInv'
  BY <1>5 DEF RevokeReused
<1>6. ASSUME NEW r \in Refreshes, CheckUser(r) PROVE TypeInv'
  BY <1>6 DEF CheckUser
<1>7. ASSUME NEW r \in Refreshes, MarkUsed(r) PROVE TypeInv'
  <2>1. target[r] \in Openers /\ shown[r] \in Tokens
    BY <1>7 DEF MarkUsed
  <2>2. /\ Retired(used[target[r]], shown[r]) \in Seq(Tokens)
        /\ Len(Retired(used[target[r]], shown[r])) <= MaxUsed
    BY <2>1, RetiredList
  <2> QED
    BY <1>7, <2>1, <2>2 DEF MarkUsed
<1>8. ASSUME NEW r \in Refreshes, Touch(r) PROVE TypeInv'
  BY <1>8 DEF Touch
<1>9. ASSUME NEW l \in Links, AskLink(l) \/ SaveLink(l) \/ ExpireLink(l) PROVE TypeInv'
  BY <1>9 DEF AskLink, SaveLink, ExpireLink
<1>10. ASSUME NEW h \in Redeemers, FindLink(h) PROVE TypeInv'
  BY <1>10 DEF FindLink, Links
<1>11. ASSUME NEW h \in Redeemers, ConsumeLink(h) PROVE TypeInv'
  BY <1>11 DEF ConsumeLink
<1>12. ASSUME NEW h \in Redeems, FindUser(h) PROVE TypeInv'
  BY <1>12 DEF FindUser
<1>13. ASSUME NEW c \in Changes, Change(c) PROVE TypeInv'
  BY <1>13 DEF Change
<1>14. ASSUME NEW c \in Setters, SetPassword(c) PROVE TypeInv'
  <2>1. PICK label \in {"done", "revokeall"} : Goto(c, label)
    BY <1>14 DEF SetPassword
  <2>2. password' \in Setters \cup {None}
        /\ UNCHANGED <<status, closer, rows, link, shown, target, handed, crashes, past>>
    BY <1>14 DEF SetPassword
  <2> QED
    BY <2>1, <2>2
<1>15. ASSUME NEW h \in Revokers, RevokeAll(h) PROVE TypeInv'
  BY <1>15 DEF RevokeAll, AllRevoked, Opening
<1>16. ASSUME NEW h \in Revokers, DeleteLinks(h) PROVE TypeInv'
  BY <1>16 DEF DeleteLinks
<1>17. ASSUME NEW a \in Closers, SetStatus(a) PROVE TypeInv'
  BY <1>17 DEF SetStatus
<1>18. ASSUME NEW o \in SignOuts, SignOut(o) PROVE TypeInv'
  <2>1. session' \in [Openers -> {"none", "live", "revoked", "expired"}]
    BY <1>18 DEF SignOut, AllRevoked
  <2>2. Goto(o, "done") /\ UNCHANGED <<user, current, used, link, shown, target, handed, crashes, past>>
    BY <1>18 DEF SignOut
  <2> QED
    BY <2>1, <2>2
<1>19. ASSUME NEW s \in Openers, ExpireSession(s) PROVE TypeInv'
  BY <1>19 DEF ExpireSession
<1>20. CASE Crash
  BY <1>20 DEF Crash
<1>21. CASE UNCHANGED vars
  BY <1>21 DEF vars
<1> QED
  BY <1>1, <1>2, <1>3, <1>4, <1>5, <1>6, <1>7, <1>8, <1>9, <1>10, <1>11, <1>12, <1>13, <1>14,
     <1>15, <1>16, <1>17, <1>18, <1>19, <1>20, <1>21
  DEF Next, OpenStep, RefreshStep, LinkStep, UserStep

\* Rows and requests keep their shape: statuses are those of the schema, the
\* list of retired hashes keeps its bound.
THEOREM TypeCorrect == Spec => []TypeOK
<1>1. Spec => []TypeInv
  BY TypeInit, TypeStep, PTL DEF Spec
<1> QED
  BY <1>1, PTL DEF TypeInv

-----------------------------------------------------------------------------
(* A password change, and closing the user, end the sessions before them.  *)

\* A step that leaves the user, the checks and the revokers where they are,
\* and makes sessions only out of openers past their check.
LEMMA QuietOpening ==
  ASSUME TypeInv, OpeningInv, UNCHANGED <<status, closer, password, proof, late>>,
         \A s \in Openers : session'[s] = "live" => session[s] = "live" \/ pc[s] = "insert",
         \A s \in Opening' : s \in Opening,
         \A s \in Openers : pc'[s] = "insert" => pc[s] = "insert" \/ status = "active",
         \A h \in Revokers : pc[h] \in {"revokeall", "cut"} => pc'[h] \in {"revokeall", "cut"}
  PROVE  OpeningInv'
<1>1. Pending(password) => Pending(password)'
  BY DEF Pending, TypeInv, TypeOK, Revokers
<1>2. Pending(closer) => Pending(closer)'
  BY DEF Pending, TypeInv, TypeOK, Revokers
<1> QED
  BY <1>1, <1>2 DEF OpeningInv, Opening

LEMMA OpeningInit == Init => OpeningInv
BY ConstantsAssumption DEF Init, OpeningInv, Opening, Handlers, Tokens

LEMMA OpeningStep == TypeInv /\ OpeningInv /\ [Next]_vars => OpeningInv'
<1> USE ConstantsAssumption
<1> SUFFICES ASSUME TypeInv, OpeningInv, [Next]_vars PROVE OpeningInv'
  OBVIOUS
<1> DEFINE Quiet ==
      /\ UNCHANGED <<status, closer, password, proof, late>>
      /\ \A s \in Openers : session'[s] = "live" => session[s] = "live" \/ pc[s] = "insert"
      /\ \A s \in Opening' : s \in Opening
      /\ \A s \in Openers : pc'[s] = "insert" => pc[s] = "insert" \/ status = "active"
      /\ \A h \in Revokers : pc[h] \in {"revokeall", "cut"} => pc'[h] \in {"revokeall", "cut"}
<1>0. Quiet => OpeningInv'
  BY QuietOpening
<1> USE DEF TypeInv, TypeOK, Openers, Setters, Closers, Revokers, Tokens, Redeemers, Handlers,
            Goto, Moved, Unsent, Opening, user, rows, calls, past
<1>1. ASSUME NEW s \in SignIns, SignIn(s) PROVE OpeningInv'
  <2>1. s \in Openers /\ \A h \in Revokers : pc'[h] = pc[h]
    BY <1>1 DEF SignIn
  <2>2. UNCHANGED <<status, closer, password, session, late>> /\ Pending(password)' = Pending(password)
        /\ Pending(closer)' = Pending(closer)
    BY <1>1, <2>1 DEF SignIn, Pending
  <2>3. \A x \in Openers : x # s => pc'[x] = pc[x] /\ proof'[x] = proof[x]
    BY <1>1, <2>1 DEF SignIn
  <2>4. pc \in [Handlers -> PC] /\ proof \in [Openers -> Setters \cup {None}] /\ s \in Handlers
    BY <2>1
  <2>5. CASE status = "active"
    <3>1. pc'[s] = "insert" /\ proof'[s] = password
      BY ONLY <1>1, <2>1, <2>4, <2>5 DEF SignIn, Goto
    <3> QED
      BY <2>1, <2>2, <2>3, <2>5, <3>1 DEF OpeningInv
  <2>6. CASE status # "active"
    <3>1. pc'[s] = "done" /\ proof' = proof
      BY ONLY <1>1, <2>1, <2>4, <2>6 DEF SignIn, Goto
    <3> QED
      BY <2>1, <2>2, <2>3, <2>6, <3>1 DEF OpeningInv
  <2> QED
    BY <2>5, <2>6
<1>2. ASSUME NEW s \in Openers, CreateSession(s) PROVE Quiet
  BY <1>2 DEF CreateSession
<1>3. ASSUME NEW t \in Tokens, Respond(t) PROVE Quiet
  BY <1>3 DEF Respond
<1>4. ASSUME NEW r \in Refreshes, Refresh(r) PROVE Quiet
  BY <1>4 DEF Refresh
<1>5. ASSUME NEW r \in Refreshes, RevokeReused(r) PROVE Quiet
  BY <1>5 DEF RevokeReused
<1>6. ASSUME NEW r \in Refreshes, CheckUser(r) PROVE Quiet
  BY <1>6 DEF CheckUser
<1>7. ASSUME NEW r \in Refreshes, MarkUsed(r) PROVE Quiet
  BY <1>7 DEF MarkUsed
<1>8. ASSUME NEW r \in Refreshes, Touch(r) PROVE Quiet
  BY <1>8 DEF Touch
<1>9. ASSUME NEW l \in Links, AskLink(l) \/ SaveLink(l) \/ ExpireLink(l) PROVE Quiet
  BY <1>9 DEF AskLink, SaveLink, ExpireLink
<1>10. ASSUME NEW h \in Redeemers, FindLink(h) PROVE OpeningInv'
  <2>1. \A g \in Revokers : pc[g] \in {"revokeall", "cut"} => pc'[g] = pc[g]
    BY <1>10 DEF FindLink
  <2>2. UNCHANGED <<status, closer, password, session, late>>
        /\ (Pending(password) => Pending(password)') /\ (Pending(closer) => Pending(closer)')
    BY <1>10, <2>1 DEF FindLink, Pending
  <2>3. \A x \in Openers : x # h => pc'[x] = pc[x] /\ proof'[x] = proof[x]
    BY <1>10 DEF FindLink
  <2>4. h \in Openers => h \in Redeems
    OBVIOUS
  <2>5. h \in Redeems =>
          \/ pc'[h] = "consume" /\ proof'[h] = password
          \/ pc'[h] = "done" /\ proof'[h] = proof[h]
    <3>1. pc \in [Handlers -> PC] /\ proof \in [Openers -> Setters \cup {None}] /\ h \in Handlers
      OBVIOUS
    <3>2. h \in Redeems => h \in Openers
      OBVIOUS
    <3>3. PICK l \in Links :
            /\ Goto(h, IF link[l] = "live" THEN "consume" ELSE "done")
            /\ proof' = IF h \in Redeems /\ link[l] = "live"
                         THEN [proof EXCEPT ![h] = password] ELSE proof
      BY ONLY <1>10 DEF FindLink, Links
    <3>4. CASE link[l] = "live"
      <4>1. Goto(h, "consume")
        BY ONLY <3>3, <3>4
      <4>2. h \in Redeems => proof' = [proof EXCEPT ![h] = password]
        BY ONLY <3>3, <3>4
      <4>3. pc'[h] = "consume"
        BY ONLY <3>1, <4>1 DEF Goto
      <4>4. h \in Redeems => proof'[h] = password
        BY ONLY <3>1, <3>2, <4>2
      <4> QED
        BY ONLY <4>3, <4>4
    <3>5. CASE link[l] # "live"
      BY ONLY <3>1, <3>3, <3>5 DEF Goto
    <3> QED
      BY <3>4, <3>5
  <2> QED
    BY <2>2, <2>3, <2>4, <2>5 DEF OpeningInv
<1>11. ASSUME NEW h \in Redeemers, ConsumeLink(h) PROVE Quiet
  BY <1>11 DEF ConsumeLink
<1>12. ASSUME NEW h \in Redeems, FindUser(h) PROVE Quiet
  BY <1>12 DEF FindUser
<1>13. ASSUME NEW c \in Changes, Change(c) PROVE Quiet
  BY <1>13 DEF Change
<1>14. ASSUME NEW c \in Setters, SetPassword(c) PROVE OpeningInv'
  <2>1. CASE status = "deleted"
    <3>1. Quiet
      BY <1>14, <2>1 DEF SetPassword
    <3> QED
      BY <3>1, <1>0
  <2>2. CASE status # "deleted"
    <3>1. UNCHANGED <<status, closer, session, late, proof>>
      BY <1>14 DEF SetPassword
    <3>2. \A x \in Openers : pc'[x] = pc[x]
      BY <1>14 DEF SetPassword
    <3>3. Pending(password)'
      BY <1>14, <2>2 DEF SetPassword, Pending
    <3>4. Pending(closer) => Pending(closer)'
      BY <1>14 DEF SetPassword, Pending
    <3> QED
      BY <3>1, <3>2, <3>3, <3>4 DEF OpeningInv
  <2> QED
    BY <2>1, <2>2
<1>15. ASSUME NEW h \in Revokers, RevokeAll(h) PROVE OpeningInv'
  <2>1. \A s \in Openers : session'[s] # "live"
    BY <1>15 DEF RevokeAll, AllRevoked
  <2>2. \A s \in Openers : pc'[s] = pc[s]
    BY <1>15 DEF RevokeAll
  <2>3. late' = late \cup Opening
    BY <1>15 DEF RevokeAll
  <2> QED
    BY <2>1, <2>2, <2>3 DEF OpeningInv
<1>16. ASSUME NEW h \in Revokers, DeleteLinks(h) PROVE Quiet
  BY <1>16 DEF DeleteLinks
<1>17. ASSUME NEW a \in Closers, SetStatus(a) PROVE OpeningInv'
  <2>1. UNCHANGED <<password, session, late, proof>> /\ closer' = a
    BY <1>17 DEF SetStatus
  <2>2. \A x \in Openers : pc'[x] = pc[x]
    BY <1>17 DEF SetStatus
  <2>3. status' = "active" \/ Pending(closer)'
    BY <1>17, <2>1 DEF SetStatus, Pending
  <2>4. Pending(password) => Pending(password)'
    BY <1>17, <2>1 DEF SetStatus, Pending
  <2> QED
    BY <2>1, <2>2, <2>3, <2>4 DEF OpeningInv
<1>18. ASSUME NEW o \in SignOuts, SignOut(o) PROVE Quiet
  BY <1>18 DEF SignOut, AllRevoked
<1>19. ASSUME NEW s \in Openers, ExpireSession(s) PROVE Quiet
  BY <1>19 DEF ExpireSession
<1>20. CASE Crash
  <2>1. Quiet
    BY <1>20 DEF Crash
  <2> QED
    BY <2>1, <1>0
<1>21. CASE UNCHANGED vars
  <2>1. Quiet
    BY <1>21 DEF vars
  <2> QED
    BY <2>1, <1>0
<1> HIDE DEF Quiet
<1> QED
  BY <1>0, <1>1, <1>2, <1>3, <1>4, <1>5, <1>6, <1>7, <1>8, <1>9, <1>10, <1>11, <1>12, <1>13,
     <1>14, <1>15, <1>16, <1>17, <1>18, <1>19, <1>20, <1>21
  DEF Next, OpenStep, RefreshStep, LinkStep, UserStep

\* A live session was opened with the present password, or while a change of
\* it was under way.
THEOREM PasswordChangesEndSessions == Spec => []SessionsProveThePassword
<1>1. Spec => [](TypeInv /\ OpeningInv)
  BY TypeInit, TypeStep, OpeningInit, OpeningStep, PTL DEF Spec
<1>2. OpeningInv => SessionsProveThePassword
  BY DEF OpeningInv, SessionsProveThePassword
<1> QED
  BY <1>1, <1>2, PTL

\* A disabled or deleted user has no live session but those opened while the
\* others were revoked.
THEOREM ClosingEndsSessions == Spec => []ClosedUsersHaveNoSession
<1>1. Spec => [](TypeInv /\ OpeningInv)
  BY TypeInit, TypeStep, OpeningInit, OpeningStep, PTL DEF Spec
<1>2. OpeningInv => ClosedUsersHaveNoSession
  BY DEF OpeningInv, ClosedUsersHaveNoSession
<1> QED
  BY <1>1, <1>2, PTL
-----------------------------------------------------------------------------
(* Refresh tokens.                                                         *)

LEMMA QuietTokens ==
  ASSUME TypeInv, TokenInv, UNCHANGED <<current, used, forked>>,
         \A t \in Tokens : t \in handed' \/ pc'[t] = "respond" =>
            t \in Openers \/ t \in handed \/ pc[t] = "respond",
         \A r \in Refreshes : r \in handed \/ pc[r] # "idle" =>
            target'[r] = target[r] /\ shown'[r] = shown[r],
         \A r \in Refreshes : pc'[r] = "touch" => pc[r] = "touch"
  PROVE  TokenInv'
<1>1. ASSUME NEW t \in Tokens, t \in Openers \/ t \in handed \/ pc[t] = "respond"
      PROVE Known(t)'
  <2>1. ChainOf(t)' = ChainOf(t)
    BY <1>1 DEF ChainOf, Tokens
  <2> QED
    BY <1>1, <2>1 DEF TokenInv, Known
<1>2. ASSUME NEW r \in Refreshes, pc'[r] = "touch"
      PROVE (In(shown[r], used[target[r]]) \/ Len(used[target[r]]) = MaxUsed)'
  BY <1>2 DEF TokenInv
<1> QED
  BY <1>1, <1>2 DEF TokenInv

LEMMA TokenInit == Init => TokenInv
BY ConstantsAssumption DEF Init, TokenInv, Known, ChainOf, Handlers, Tokens

LEMMA TokenStep == TypeInv /\ TokenInv /\ [Next]_vars => TokenInv'
<1> USE ConstantsAssumption
<1> SUFFICES ASSUME TypeInv, TokenInv, [Next]_vars PROVE TokenInv'
  OBVIOUS
<1> DEFINE Quiet ==
      /\ UNCHANGED <<current, used, forked>>
      /\ \A t \in Tokens : t \in handed' \/ pc'[t] = "respond" =>
            t \in Openers \/ t \in handed \/ pc[t] = "respond"
      /\ \A r \in Refreshes : r \in handed \/ pc[r] # "idle" =>
            target'[r] = target[r] /\ shown'[r] = shown[r]
      /\ \A r \in Refreshes : pc'[r] = "touch" => pc[r] = "touch"
<1>0. Quiet => TokenInv'
  BY QuietTokens
<1>t. /\ pc \in [Handlers -> PC] /\ Tokens \subseteq Handlers /\ Refreshes \subseteq Tokens
      /\ \A r \in Refreshes : r \in handed => pc[r] # "idle"
  BY DEF TypeInv, TypeOK, Shape, Handlers, Tokens
<1>d. /\ \A r \in Refreshes : r \notin Openers /\ r \notin Revokers /\ r \notin SignOuts /\ r \notin Redeemers
      /\ \A t \in Tokens : t \notin Revokers /\ t \notin SignOuts
  BY DEF Tokens, Revokers, Setters, Redeemers, Openers
<1> USE DEF Goto, Moved, Shows, Unsent, user, rows, calls, past
<1>1. ASSUME NEW s \in SignIns, SignIn(s) PROVE Quiet
  BY <1>1, <1>t, <1>d DEF SignIn, Openers
<1>2. ASSUME NEW s \in Openers, CreateSession(s) PROVE Quiet
  BY <1>2, <1>t, <1>d DEF CreateSession
<1>3. ASSUME NEW t \in Tokens, Respond(t) PROVE Quiet
  BY <1>3, <1>t, <1>d DEF Respond
<1>4. ASSUME NEW r \in Refreshes, Refresh(r) PROVE Quiet
  <2>1. UNCHANGED <<current, used, forked, handed>> /\ pc[r] = "idle" /\ r \notin handed
    BY <1>4, <1>t DEF Refresh
  <2>2. \E label \in {"checkuser", "reuse", "done"} : Goto(r, label)
    BY <1>4 DEF Refresh
  <2>3. \A t \in Tokens : t # r => pc'[t] = pc[t]
    BY <2>2, <1>t
  <2>4. pc'[r] \in {"checkuser", "reuse", "done"}
    BY <2>2, <1>t
  <2>5. \A q \in Refreshes : q # r => target'[q] = target[q] /\ shown'[q] = shown[q]
    BY <1>4, <1>t DEF Refresh, TypeInv, TypeOK
  <2> QED
    BY <1>t, <2>1, <2>3, <2>4, <2>5
<1>5. ASSUME NEW r \in Refreshes, RevokeReused(r) PROVE Quiet
  BY <1>5, <1>t, <1>d DEF RevokeReused
<1>6. ASSUME NEW r \in Refreshes, CheckUser(r) PROVE Quiet
  BY <1>6, <1>t, <1>d DEF CheckUser
<1>7. ASSUME NEW r \in Refreshes, MarkUsed(r) PROVE TokenInv'
  <2> DEFINE s == target[r]
             list == used[s]
  <2>1. s \in Openers /\ shown[r] \in Tokens /\ list \in Seq(Tokens) /\ Len(list) <= MaxUsed
    BY <1>7 DEF MarkUsed, TypeInv, TypeOK, Shape
  <2>2. /\ UNCHANGED <<current, forked, target, shown, handed>>
        /\ used'[s] = Retired(list, shown[r]) /\ \A x \in Openers : x # s => used'[x] = used[x]
    BY <1>7, <2>1 DEF MarkUsed, TypeInv, TypeOK
  <2>3. pc'[r] = "touch" /\ \A t \in Tokens : t # r => pc'[t] = pc[t]
    BY <1>7, <1>t DEF MarkUsed
  <2>4. In(shown[r], Retired(list, shown[r]))
        /\ (Len(list) = MaxUsed => Len(Retired(list, shown[r])) = MaxUsed)
        /\ \A x : In(x, list) => In(x, Retired(list, shown[r])) \/ Len(list) = MaxUsed
    BY <2>1, RetiredList
  <2>5. \A x : \A c \in Openers : In(x, used[c]) \/ Len(used[c]) = MaxUsed
                               => In(x, used'[c]) \/ Len(used'[c]) = MaxUsed
    BY ONLY <2>2, <2>4
  <2>6. ASSUME NEW t \in Tokens, t \in Openers \/ t \in handed \/ pc[t] = "respond"
        PROVE Known(t)'
    <3>1. ChainOf(t)' = ChainOf(t)
      BY <2>2 DEF ChainOf
    <3>2. ChainOf(t) \in Openers
      BY <2>6 DEF ChainOf, TypeInv, Shape, Tokens
    <3> QED
      BY <2>2, <2>5, <2>6, <3>1, <3>2 DEF TokenInv, Known
  <2>7. ASSUME NEW q \in Refreshes, pc'[q] = "touch"
        PROVE In(shown'[q], used'[target'[q]]) \/ Len(used'[target'[q]]) = MaxUsed
    <3>1. CASE q = r
      BY <2>2, <2>4, <3>1
    <3>2. CASE q # r
      <4>1. pc[q] = "touch" /\ target[q] \in Openers
        BY <1>t, <2>3, <2>7, <3>2 DEF TypeInv, Shape
      <4> QED
        BY <2>2, <2>5, <4>1 DEF TokenInv
    <3> QED
      BY <3>1, <3>2
  <2>8. \A t \in Tokens : t \in handed' \/ pc'[t] = "respond" => t \in handed \/ pc[t] = "respond"
    BY <2>2, <2>3
  <2> QED
    BY <2>6, <2>7, <2>8 DEF TokenInv
<1>8. ASSUME NEW r \in Refreshes, Touch(r) PROVE TokenInv'
  <2> DEFINE s == target[r]
  <2>1. s \in Openers /\ pc[r] = "touch" /\ (In(shown[r], used[s]) \/ Len(used[s]) = MaxUsed)
    BY <1>8 DEF Touch, TypeInv, Shape, TokenInv
  <2>2. /\ UNCHANGED <<used, target, shown, handed>>
        /\ current'[s] = r /\ \A x \in Openers : x # s => current'[x] = current[x]
        /\ forked \subseteq forked' /\ (current[s] # shown[r] => s \in forked')
    BY <1>8, <2>1 DEF Touch, TypeInv, TypeOK
  <2>3. pc'[r] = "respond" /\ \A t \in Tokens : t # r => pc'[t] = pc[t]
    BY <1>8, <1>t DEF Touch
  <2>4. Known(r)'
    BY <1>d, <2>2 DEF Known, ChainOf
  <2>5. ASSUME NEW t \in Tokens, t \in Openers \/ t \in handed \/ pc[t] = "respond"
        PROVE Known(t)'
    <3>1. ChainOf(t)' = ChainOf(t) /\ ChainOf(t) \in Openers
      BY <2>2, <2>5 DEF ChainOf, TypeInv, Shape, Tokens
    <3>2. Known(t)
      BY <2>5 DEF TokenInv
    <3>3. CASE ChainOf(t) = s /\ current[s] = t
      BY <2>1, <2>2, <3>1, <3>3 DEF Known
    <3>4. CASE ~(ChainOf(t) = s /\ current[s] = t)
      BY <2>2, <3>1, <3>2, <3>4 DEF Known
    <3> QED
      BY <3>3, <3>4
  <2>6. \A q \in Refreshes : pc'[q] = "touch" => pc[q] = "touch"
    BY <1>t, <2>3
  <2> QED
    BY <1>t, <2>2, <2>3, <2>4, <2>5, <2>6 DEF TokenInv
<1>9. ASSUME NEW l \in Links, AskLink(l) \/ SaveLink(l) \/ ExpireLink(l) PROVE Quiet
  BY <1>9 DEF AskLink, SaveLink, ExpireLink
<1>10. ASSUME NEW h \in Redeemers, FindLink(h) PROVE Quiet
  <2>1. UNCHANGED <<current, used, forked, handed, target>>
    BY <1>10 DEF FindLink
  <2>2. \E label \in {"consume", "done"} : Goto(h, label)
    BY <1>10 DEF FindLink
  <2>3. \A t \in Tokens : pc'[t] # pc[t] => t = h /\ pc'[t] \in {"consume", "done"}
    BY <2>2, <1>t
  <2>4. \A q \in Refreshes : shown'[q] = shown[q]
    BY <1>10, <1>d, <1>t DEF FindLink, TypeInv, TypeOK
  <2> QED
    BY <1>t, <2>1, <2>3, <2>4
<1>11. ASSUME NEW h \in Redeemers, ConsumeLink(h) PROVE Quiet
  BY <1>11, <1>t, <1>d DEF ConsumeLink
<1>12. ASSUME NEW h \in Redeems, FindUser(h) PROVE Quiet
  BY <1>12, <1>t, <1>d DEF FindUser
<1>13. ASSUME NEW c \in Changes, Change(c) PROVE Quiet
  BY <1>13, <1>t, <1>d DEF Change, Revokers, Setters
<1>14. ASSUME NEW c \in Setters, SetPassword(c) PROVE Quiet
  BY <1>14, <1>t, <1>d DEF SetPassword, Revokers
<1>15. ASSUME NEW h \in Revokers, RevokeAll(h) PROVE Quiet
  BY <1>15, <1>t, <1>d DEF RevokeAll
<1>16. ASSUME NEW h \in Revokers, DeleteLinks(h) PROVE Quiet
  BY <1>16, <1>t, <1>d DEF DeleteLinks
<1>17. ASSUME NEW a \in Closers, SetStatus(a) PROVE Quiet
  BY <1>17, <1>t, <1>d DEF SetStatus, Revokers
<1>18. ASSUME NEW o \in SignOuts, SignOut(o) PROVE Quiet
  BY <1>18, <1>t, <1>d DEF SignOut
<1>19. ASSUME NEW s \in Openers, ExpireSession(s) PROVE Quiet
  BY <1>19 DEF ExpireSession
<1>20. CASE Crash
  <2>1. Quiet
    BY <1>20, <1>t DEF Crash
  <2> QED
    BY <2>1, <1>0
<1>21. CASE UNCHANGED vars
  <2>1. Quiet
    BY <1>21 DEF vars
  <2> QED
    BY <2>1, <1>0
<1> HIDE DEF Quiet
<1> QED
  BY <1>0, <1>1, <1>2, <1>3, <1>4, <1>5, <1>6, <1>7, <1>8, <1>9, <1>10, <1>11, <1>12, <1>13,
     <1>14, <1>15, <1>16, <1>17, <1>18, <1>19, <1>20, <1>21
  DEF Next, OpenStep, RefreshStep, LinkStep, UserStep

\* A token a client holds is current or known as retired, whatever restarts
\* and revocations come between the two statements of a rotation.  Excepted
\* are the sessions the property excepts: those forked by two rotations of one
\* token, and those whose list of retired tokens is full, which forget their
\* oldest.
THEOREM HandedTokensStayKnown == Spec => []TokensAreCurrentOrRetired
<1>1. Spec => [](TypeInv /\ TokenInv)
  BY TypeInit, TypeStep, TokenInit, TokenStep, PTL DEF Spec
<1>2. TypeInv /\ TokenInv => TokensAreCurrentOrRetired
  BY DEF TypeInv, TypeOK, TokenInv, Known, In, TokensAreCurrentOrRetired
<1> QED
  BY <1>1, <1>2, PTL
-----------------------------------------------------------------------------
(* Reuse detection.                                                        *)

LEMMA QuietShown ==
  ASSUME ShownInv, UNCHANGED used,
         \A q \in Refreshes : pc[q] # "idle" => pc'[q] # "idle" /\ shown'[q] = shown[q],
         \A r \in Refreshes : pc'[r] = "reuse" => pc[r] = "reuse"
  PROVE  ShownInv'
BY DEF ShownInv

LEMMA ShownInit == Init => ShownInv
BY ConstantsAssumption DEF Init, ShownInv, Handlers, Tokens

LEMMA ShownStep == TypeInv /\ ShownInv /\ [Next]_vars => ShownInv'
<1> USE ConstantsAssumption
<1> SUFFICES ASSUME TypeInv, ShownInv, [Next]_vars PROVE ShownInv'
  OBVIOUS
<1> DEFINE Quiet ==
      /\ UNCHANGED used
      /\ \A q \in Refreshes : pc[q] # "idle" => pc'[q] # "idle" /\ shown'[q] = shown[q]
      /\ \A r \in Refreshes : pc'[r] = "reuse" => pc[r] = "reuse"
<1>0. Quiet => ShownInv'
  BY QuietShown
<1>t. pc \in [Handlers -> PC] /\ Refreshes \subseteq Handlers
  BY DEF TypeInv, TypeOK, Handlers, Tokens
<1>d. /\ \A r \in Refreshes : r \notin Openers /\ r \notin Revokers /\ r \notin SignOuts /\ r \notin Redeemers
  BY DEF Tokens, Revokers, Setters, Redeemers, Openers
<1> USE DEF Goto, Moved, Shows, Unsent, user, rows, calls, past
<1>1. ASSUME NEW s \in SignIns, SignIn(s) PROVE Quiet
  BY <1>1, <1>t, <1>d DEF SignIn, Openers
<1>2. ASSUME NEW s \in Openers, CreateSession(s) PROVE Quiet
  BY <1>2, <1>t, <1>d DEF CreateSession
<1>3. ASSUME NEW t \in Tokens, Respond(t) PROVE Quiet
  BY <1>3, <1>t, <1>d DEF Respond
<1>4. ASSUME NEW r \in Refreshes, Refresh(r) PROVE ShownInv'
  <2>1. pc[r] = "idle" /\ UNCHANGED used
    BY <1>4 DEF Refresh
  <2>2. \E label \in {"checkuser", "reuse", "done"} : Goto(r, label)
    BY <1>4 DEF Refresh
  <2>3. \A q \in Refreshes : q # r => pc'[q] = pc[q]
    BY <2>2, <1>t
  <2>4. \A q \in Refreshes : q # r => shown'[q] = shown[q]
    BY <1>4, <1>t DEF Refresh, TypeInv, TypeOK
  <2>5. ASSUME pc'[r] = "reuse"
        PROVE \E s \in Openers : In(shown'[r], used[s])
    <3>1. PICK t \in handed :
            /\ Shows(r, t)
            /\ \/ \E s \in Matches(t) : Goto(r, IF current[s] = t THEN "checkuser" ELSE "reuse")
               \/ Goto(r, "done")
      BY <1>4 DEF Refresh
    <3>2. PICK s \in Matches(t) : Goto(r, IF current[s] = t THEN "checkuser" ELSE "reuse")
      BY <1>t, <2>5, <3>1
    <3>3. current[s] # t
      BY <1>t, <2>5, <3>2
    <3>4. shown'[r] = t
      BY <1>t, <3>1 DEF TypeInv, TypeOK
    <3> QED
      BY <3>2, <3>3, <3>4 DEF Matches, In
  <2>6. ASSUME pc'[r] = "reuse"
        PROVE \E q \in Refreshes \ {r} : pc'[q] # "idle" /\ shown'[q] = shown'[r]
    BY <2>1, <2>3, <2>4, <2>5, <2>6 DEF ShownInv, In
  <2> QED
    BY <2>1, <2>3, <2>4, <2>6 DEF ShownInv
<1>5. ASSUME NEW r \in Refreshes, RevokeReused(r) PROVE Quiet
  BY <1>5, <1>t, <1>d DEF RevokeReused
<1>6. ASSUME NEW r \in Refreshes, CheckUser(r) PROVE Quiet
  BY <1>6, <1>t, <1>d DEF CheckUser
<1>7. ASSUME NEW r \in Refreshes, MarkUsed(r) PROVE ShownInv'
  <2> DEFINE s == target[r]
             list == used[s]
  <2>1. s \in Openers /\ shown[r] \in Tokens /\ list \in Seq(Tokens) /\ Len(list) <= MaxUsed
    BY <1>7 DEF MarkUsed, TypeInv, TypeOK, Shape
  <2>2. /\ UNCHANGED shown /\ used'[s] = Retired(list, shown[r])
        /\ \A x \in Openers : x # s => used'[x] = used[x]
    BY <1>7, <2>1 DEF MarkUsed, TypeInv, TypeOK
  <2>3. /\ pc[r] = "mark" /\ pc'[r] = "touch"
        /\ \A q \in Refreshes : q # r => pc'[q] = pc[q]
    BY <1>7, <1>t DEF MarkUsed
  <2>4. \A j \in DOMAIN Retired(list, shown[r]) :
           Retired(list, shown[r])[j] = shown[r] \/ In(Retired(list, shown[r])[j], list)
    BY <2>1, RetiredList
  <2>5. ASSUME NEW j \in DOMAIN used'[s]
        PROVE \E q \in Refreshes : pc'[q] # "idle" /\ shown'[q] = used'[s][j]
    <3>1. CASE used'[s][j] = shown[r]
      BY <2>2, <2>3, <3>1
    <3>2. CASE In(used'[s][j], list)
      BY <2>1, <2>2, <2>3, <3>2 DEF ShownInv, In
    <3> QED
      BY <2>2, <2>4, <2>5, <3>1, <3>2
  <2>6. ASSUME NEW x \in Openers, x # s, NEW j \in DOMAIN used'[x]
        PROVE \E q \in Refreshes : pc'[q] # "idle" /\ shown'[q] = used'[x][j]
    BY <2>2, <2>3, <2>6 DEF ShownInv
  <2>7. \A q \in Refreshes : pc'[q] = "reuse" => pc[q] = "reuse"
    BY <2>3
  <2>8. \A q \in Refreshes : pc[q] # "idle" => pc'[q] # "idle"
    BY <2>3
  <2> QED
    BY <2>2, <2>5, <2>6, <2>7, <2>8 DEF ShownInv
<1>8. ASSUME NEW r \in Refreshes, Touch(r) PROVE Quiet
  BY <1>8, <1>t, <1>d DEF Touch
<1>9. ASSUME NEW l \in Links, AskLink(l) \/ SaveLink(l) \/ ExpireLink(l) PROVE Quiet
  BY <1>9 DEF AskLink, SaveLink, ExpireLink
<1>10. ASSUME NEW h \in Redeemers, FindLink(h) PROVE Quiet
  <2>1. UNCHANGED used
    BY <1>10 DEF FindLink
  <2>2. \E label \in {"consume", "done"} : Goto(h, label)
    BY <1>10 DEF FindLink
  <2>3. \A q \in Refreshes : pc'[q] = pc[q]
    BY <2>2, <1>t, <1>d
  <2>4. \A q \in Refreshes : shown'[q] = shown[q]
    BY <1>10, <1>d, <1>t DEF FindLink, TypeInv, TypeOK
  <2> QED
    BY <2>1, <2>3, <2>4
<1>11. ASSUME NEW h \in Redeemers, ConsumeLink(h) PROVE Quiet
  BY <1>11, <1>t, <1>d DEF ConsumeLink
<1>12. ASSUME NEW h \in Redeems, FindUser(h) PROVE Quiet
  BY <1>12, <1>t, <1>d DEF FindUser, Redeemers
<1>13. ASSUME NEW c \in Changes, Change(c) PROVE Quiet
  BY <1>13, <1>t, <1>d DEF Change, Revokers, Setters
<1>14. ASSUME NEW c \in Setters, SetPassword(c) PROVE Quiet
  BY <1>14, <1>t, <1>d DEF SetPassword, Revokers
<1>15. ASSUME NEW h \in Revokers, RevokeAll(h) PROVE Quiet
  BY <1>15, <1>t, <1>d DEF RevokeAll
<1>16. ASSUME NEW h \in Revokers, DeleteLinks(h) PROVE Quiet
  BY <1>16, <1>t, <1>d DEF DeleteLinks
<1>17. ASSUME NEW a \in Closers, SetStatus(a) PROVE Quiet
  BY <1>17, <1>t, <1>d DEF SetStatus, Revokers
<1>18. ASSUME NEW o \in SignOuts, SignOut(o) PROVE Quiet
  BY <1>18, <1>t, <1>d DEF SignOut
<1>19. ASSUME NEW s \in Openers, ExpireSession(s) PROVE Quiet
  BY <1>19 DEF ExpireSession
<1>20. CASE Crash
  <2>1. Quiet
    BY <1>20, <1>t DEF Crash
  <2> QED
    BY <2>1, <1>0
<1>21. CASE UNCHANGED vars
  <2>1. Quiet
    BY <1>21 DEF vars
  <2> QED
    BY <2>1, <1>0
<1> HIDE DEF Quiet
<1> QED
  BY <1>0, <1>1, <1>2, <1>3, <1>4, <1>5, <1>6, <1>7, <1>8, <1>9, <1>10, <1>11, <1>12, <1>13,
     <1>14, <1>15, <1>16, <1>17, <1>18, <1>19, <1>20, <1>21
  DEF Next, OpenStep, RefreshStep, LinkStep, UserStep

\* Reuse detection signs nobody out who shows each token once.
THEOREM ReuseNeedsTwoRequests == Spec => []ReuseMeansShownTwice
<1>1. Spec => [](TypeInv /\ ShownInv)
  BY TypeInit, TypeStep, ShownInit, ShownStep, PTL DEF Spec
<1>2. ShownInv => ReuseMeansShownTwice
  BY DEF ShownInv, ReuseMeansShownTwice
<1> QED
  BY <1>1, <1>2, PTL
-----------------------------------------------------------------------------
(* One-time links.                                                         *)

SpenderPC == {"finduser", "insert", "respond", "setpw", "revokeall", "dellinks"}

\* A step that takes no link back and lets nobody begin to spend one.
LEMMA QuietLinks ==
  ASSUME LinkInv,
         \A l \in Links : /\ link[l] \in {"live", "spent", "gone"} => link'[l] \in {"live", "spent", "gone"}
                          /\ link[l] \in {"spent", "gone"} => link'[l] \in {"spent", "gone"},
         \A h \in Redeemers : pc'[h] = "consume" => pc[h] = "consume" /\ shown'[h] = shown[h],
         \A h \in Redeemers : pc'[h] \in SpenderPC => pc[h] \in SpenderPC /\ shown'[h] = shown[h]
  PROVE  LinkInv'
<1>1. \A h \in Redeemers, l \in Links : h \in Spending(l)' => h \in Spending(l)
  BY DEF Spending
<1>2. \A h \in Redeemers, l \in Links : h \in Spenders(l)' => h \in Spenders(l)
  BY DEF Spenders, SpenderPC
<1> SUFFICES ASSUME NEW h \in Redeemers, NEW l \in Links
             PROVE  /\ h \in Spending(l)' => link'[l] \in {"live", "spent", "gone"}
                    /\ h \in Spenders(l)' => link'[l] \in {"spent", "gone"}
  BY DEF LinkInv
<1>3. /\ h \in Spending(l) => link[l] \in {"live", "spent", "gone"}
      /\ h \in Spenders(l) => link[l] \in {"spent", "gone"}
  BY DEF LinkInv
<1> QED
  BY <1>1, <1>2, <1>3

LEMMA LinkInit == Init => LinkInv
BY ConstantsAssumption DEF Init, LinkInv, Spending, Spenders, Redeemers, Openers, Setters, Tokens,
   Revokers, Handlers

\* What a step does to the links, and who begins to spend one.
LEMMA SpendingStep ==
  ASSUME TypeInv, LinkInv, [Next]_vars
  PROVE  /\ LinkInv'
         /\ \A h \in Redeemers, l \in Links :
              h \in Spending(l)' /\ h \notin Spending(l) => Spenders(l) = {}
<1> USE ConstantsAssumption
<1> DEFINE Goal == /\ LinkInv'
                   /\ \A h \in Redeemers, l \in Links :
                        h \in Spending(l)' /\ h \notin Spending(l) => Spenders(l) = {}
           Quiet ==
      /\ \A l \in Links : /\ link[l] \in {"live", "spent", "gone"} => link'[l] \in {"live", "spent", "gone"}
                          /\ link[l] \in {"spent", "gone"} => link'[l] \in {"spent", "gone"}
      /\ \A h \in Redeemers : pc'[h] = "consume" => pc[h] = "consume" /\ shown'[h] = shown[h]
      /\ \A h \in Redeemers : pc'[h] \in SpenderPC => pc[h] \in SpenderPC /\ shown'[h] = shown[h]
<1>0. Quiet => Goal
  BY QuietLinks DEF Spending
<1>t. pc \in [Handlers -> PC] /\ Redeemers \subseteq Handlers
  BY DEF TypeInv, TypeOK, Handlers, Tokens, Redeemers, Openers, Revokers, Setters
<1>d. /\ \A h \in Redeemers : h \notin SignIns /\ h \notin Refreshes /\ h \notin Changes
                             /\ h \notin Closers /\ h \notin SignOuts
  BY DEF Tokens, Revokers, Setters, Redeemers, Openers
<1> USE DEF Goto, Moved, Shows, Unsent, user, rows, calls, past, SpenderPC
<1>1. ASSUME NEW s \in SignIns, SignIn(s) PROVE Quiet
  BY <1>1, <1>t, <1>d DEF SignIn
<1>2. ASSUME NEW s \in Openers, CreateSession(s) PROVE Quiet
  BY <1>2, <1>t, <1>d DEF CreateSession
<1>3. ASSUME NEW t \in Tokens, Respond(t) PROVE Quiet
  BY <1>3, <1>t, <1>d DEF Respond
<1>4. ASSUME NEW r \in Refreshes, Refresh(r) PROVE Quiet
  <2>1. UNCHANGED link
    BY <1>4 DEF Refresh
  <2>2. \E label \in PC : Goto(r, label)
    BY <1>4 DEF Refresh, PC
  <2>3. \A h \in Redeemers : pc'[h] = pc[h]
    BY <2>2, <1>t, <1>d
  <2>4. \A h \in Redeemers : shown'[h] = shown[h]
    BY <1>4, <1>t, <1>d DEF Refresh, TypeInv, TypeOK
  <2> QED
    BY <2>1, <2>3, <2>4
<1>5. ASSUME NEW r \in Refreshes, RevokeReused(r) \/ CheckUser(r) \/ MarkUsed(r) \/ Touch(r)
      PROVE Quiet
  BY <1>5, <1>t, <1>d DEF RevokeReused, CheckUser, MarkUsed, Touch
<1>6. ASSUME NEW l \in Links, AskLink(l) \/ SaveLink(l) \/ ExpireLink(l) PROVE Quiet
  BY <1>6 DEF AskLink, SaveLink, ExpireLink, TypeInv, TypeOK
<1>7. ASSUME NEW h \in Redeemers, FindLink(h) PROVE Goal
  <2>1. PICK l \in Links :
          /\ link[l] \notin {"none", "asked"} /\ Shows(h, l)
          /\ Goto(h, IF link[l] = "live" THEN "consume" ELSE "done")
    BY <1>7 DEF FindLink, Links
  <2>2. UNCHANGED link
    BY <1>7 DEF FindLink
  <2>3. (pc'[h] = "consume" /\ link[l] = "live") \/ pc'[h] = "done"
    BY <1>t, <2>1
  <2>4. shown'[h] = l /\ link[l] \in {"live", "spent", "gone"}
    BY <1>t, <2>1 DEF TypeInv, TypeOK
  <2>5. \A g \in Redeemers : g # h => pc'[g] = pc[g] /\ shown'[g] = shown[g]
    BY <1>t, <2>1 DEF TypeInv, TypeOK
  <2>6. LinkInv'
    BY <2>2, <2>3, <2>4, <2>5 DEF LinkInv, Spending, Spenders
  <2>7. ASSUME NEW g \in Redeemers, NEW k \in Links, g \in Spending(k)', g \notin Spending(k)
        PROVE Spenders(k) = {}
    <3>1. g = h /\ k = l /\ link[l] = "live"
      BY <2>3, <2>4, <2>5, <2>7 DEF Spending
    <3> QED
      BY <3>1 DEF LinkInv, Spenders
  <2> QED
    BY <2>6, <2>7
<1>8. ASSUME NEW h \in Redeemers, ConsumeLink(h) PROVE Goal
  <2>1. pc[h] = "consume" /\ shown[h] \in Links /\ link[shown[h]] \in {"live", "spent", "gone"}
    BY <1>8 DEF ConsumeLink, LinkInv, Spending, TypeInv, Shape
  <2>2. UNCHANGED shown /\ link'[shown[h]] \in {"spent", "gone"}
        /\ \A l \in Links : l # shown[h] => link'[l] = link[l]
    BY <1>8, <2>1 DEF ConsumeLink, TypeInv, TypeOK
  <2>3. pc'[h] \in {"finduser", "setpw"} /\ \A g \in Redeemers : g # h => pc'[g] = pc[g]
    BY <1>8, <1>t DEF ConsumeLink
  <2>4. LinkInv'
    BY <2>1, <2>2, <2>3 DEF LinkInv, Spending, Spenders
  <2>5. \A g \in Redeemers, l \in Links : g \in Spending(l)' => g \in Spending(l)
    BY <2>2, <2>3 DEF Spending
  <2> QED
    BY <2>4, <2>5
<1>9. ASSUME NEW h \in Redeems, FindUser(h) PROVE Quiet
  BY <1>9, <1>t DEF FindUser
<1>10. ASSUME NEW c \in Changes, Change(c) PROVE Quiet
  BY <1>10, <1>t, <1>d DEF Change
<1>11. ASSUME NEW c \in Setters, SetPassword(c) PROVE Quiet
  BY <1>11, <1>t DEF SetPassword
<1>12. ASSUME NEW h \in Revokers, RevokeAll(h) PROVE Quiet
  BY <1>12, <1>t DEF RevokeAll
<1>13. ASSUME NEW h \in Revokers, DeleteLinks(h) PROVE Quiet
  BY <1>13, <1>t DEF DeleteLinks, TypeInv, TypeOK
<1>14. ASSUME NEW a \in Closers, SetStatus(a) PROVE Quiet
  BY <1>14, <1>t, <1>d DEF SetStatus
<1>15. ASSUME NEW o \in SignOuts, SignOut(o) PROVE Quiet
  BY <1>15, <1>t, <1>d DEF SignOut
<1>16. ASSUME NEW s \in Openers, ExpireSession(s) PROVE Quiet
  BY <1>16 DEF ExpireSession
<1>17. ASSUME Crash PROVE Quiet
  BY <1>17, <1>t DEF Crash, TypeInv, TypeOK
<1>18. ASSUME UNCHANGED vars PROVE Quiet
  BY <1>18 DEF vars
<1> SUFFICES Goal
  OBVIOUS
<1> HIDE DEF Quiet, Goal
<1>19. CASE OpenStep
  BY ONLY <1>0, <1>1, <1>2, <1>19 DEF OpenStep
<1>20. CASE RefreshStep
  BY ONLY <1>0, <1>4, <1>5, <1>20 DEF RefreshStep
<1>21. CASE LinkStep
  BY ONLY <1>0, <1>6, <1>7, <1>8, <1>9, <1>21 DEF LinkStep
<1>22. CASE UserStep
  BY ONLY <1>0, <1>10, <1>11, <1>12, <1>13, <1>14, <1>15, <1>22 DEF UserStep
<1>23. CASE \E t \in Tokens : Respond(t)
  BY ONLY <1>0, <1>3, <1>23
<1>24. CASE \E s \in Openers : ExpireSession(s)
  BY ONLY <1>0, <1>16, <1>24
<1>25. CASE Crash \/ UNCHANGED vars
  BY ONLY <1>0, <1>17, <1>18, <1>25
<1> QED
  BY ONLY [Next]_vars, <1>19, <1>20, <1>21, <1>22, <1>23, <1>24, <1>25 DEF Next

\* A link that somebody has spent is found by nobody any more.
THEOREM LinksAreFoundUnspent == Spec => SpentLinksAreNotFound
<1>1. TypeInv /\ LinkInv /\ [Next]_vars => LinkInv'
  BY SpendingStep
<1>2. TypeInv /\ LinkInv /\ [Next]_vars =>
        [\A h \in Redeemers, l \in Links :
            h \in Spending(l)' /\ h \notin Spending(l) => Spenders(l) = {}]_vars
  BY SpendingStep
<1> QED
  BY <1>1, <1>2, TypeInit, TypeStep, LinkInit, PTL DEF Spec, SpentLinksAreNotFound
=============================================================================
