----------------------- MODULE RefreshSessionsProofs -----------------------
(* Theorems about RefreshSessions, for any number of browsers and requests. *)
EXTENDS RefreshSessions, FiniteSetTheorems, TLAPS

BoundIsNatural == MaxCalls \in Nat /\ MaxMishaps \in Nat

-----------------------------------------------------------------------------
(* What each step does to the books: the requests and their sessions.       *)

LEMMA InitAuth ==
  ASSUME BoundIsNatural, Browser # {}, AuthInit
  PROVE  BookInv /\ RotationInv /\ StayInv
<1>1. \A n \in Call : /\ call[n].pc = "unsent" /\ call[n].found = 0 /\ call[n].cookie = 0
                      /\ call[n].reply = "none" /\ n > sent
                      /\ session[n].state = "none" /\ session[n].login = 0
  BY DEF AuthInit, Call
<1>2. (CHOOSE b \in Browser : TRUE) \in Browser
  OBVIOUS
<1>3. AuthTypeOK
  <2>1. PICK b \in Browser : b = CHOOSE x \in Browser : TRUE
    BY <1>2
  <2>2. [pc |-> "unsent", kind |-> "login", cookie |-> 0, found |-> 0, browser |-> b,
         welcome |-> FALSE, reply |-> "none"] \in CallRecord
    BY DEF BoundIsNatural, CallRecord, CallPc, CallKind, Reply
  <2>3. call \in [Call -> CallRecord]
    BY <2>1, <2>2 DEF AuthInit
  <2>4. session \in [Call -> Session]
    BY DEF BoundIsNatural, AuthInit, Session, SessionState
  <2>5. /\ active \in BOOLEAN /\ shut \in BOOLEAN /\ signedIn = {} /\ overlapped = {}
        /\ sent = 0 /\ mishaps = 0 /\ jar = [x \in Browser |-> 0]
    BY DEF AuthInit
  <2>6. QED
    BY <2>3, <2>4, <2>5 DEF BoundIsNatural, AuthTypeOK
<1>4. \A n \in Call : CallInv(n)
  BY <1>1 DEF CallInv
<1>5. \A n \in Call : SessionInv(n)
  BY <1>1 DEF SessionInv
<1>6. BookInv
  BY <1>3, <1>4, <1>5 DEF BookInv, AuthInit
<1>7. \A b \in Browser : OnItsWay(b) = {} /\ jar[b] = 0
  BY <1>1 DEF OnItsWay, AuthInit
<1>8. RotationInv
  <2>1. \A l \in Call : session[l].login # l
    BY <1>1 DEF Call
  <2>2. QED
    BY <1>1, <1>7, <2>1 DEF RotationInv, AloneInv, LatestInv
<1>9. StayInv
  BY <1>1 DEF StayInv, HasCookie, AuthInit
<1>10. QED
  BY <1>6, <1>8, <1>9

(* A request that goes on without changing a session; only its last answer  *)
(* changes the cookie.                                                      *)
LEMMA MoveStep ==
  ASSUME BookInv, NEW n \in Call, NEW c \in CallRecord,
         call[n].pc \notin {"unsent", "done"},
         call' = [call EXCEPT ![n] = c],
         c.pc \notin {"unsent", "find"},
         c.kind = call[n].kind, c.browser = call[n].browser, c.cookie = call[n].cookie,
         c.pc = "user" => c.kind # "logout",
         c.pc \in {"user", "commit"} /\ c.kind # "login" => c.found # 0,
         c.pc = "commit" /\ c.kind = "login" => c.welcome,
         c.pc = "answer" => c.reply # "none",
         c.reply # "none" => c.pc \in {"answer", "done"},
         c.reply = "cleared" => c.kind = "logout",
         c.reply = "cookie" => call[n].reply = "cookie",
         c.found # 0 => c.found = c.cookie,
         call[n].pc = "answer" => c.pc = "done",
         jar' \in [Browser -> 0 .. MaxCalls],
         \A b \in Browser : \/ jar'[b] \in {0, jar[b]}
                            \/ /\ b = c.browser /\ jar'[b] = n
                               /\ c.pc = "done" /\ c.reply = "cookie",
         UNCHANGED <<session, sent, active, overlapped, shut>>,
         mishaps' \in Nat, signedIn' \subseteq Browser
  PROVE  BookInv'
<1>1. AuthTypeOK /\ CallInv(n) /\ SessionInv(n)
  BY DEF BookInv
<1>2. /\ call'[n] = c /\ \A m \in Call : m # n => call'[m] = call[m]
      /\ call' \in [Call -> CallRecord]
  BY <1>1 DEF AuthTypeOK
<1>3. AuthTypeOK'
  BY <1>1, <1>2 DEF AuthTypeOK
<1>4. \A s, b : Given(s, b) => Given(s, b)'
  BY <1>2 DEF Given
<1>5. ASSUME NEW m \in Call PROVE CallInv(m)'
  <2>1. CallInv(m)
    BY DEF BookInv
  <2>2. CASE m = n
    BY <1>2, <1>4, <2>1, <2>2 DEF CallInv
  <2>3. CASE m # n
    BY <1>2, <1>4, <2>1, <2>3 DEF CallInv
  <2>4. QED
    BY <2>2, <2>3
<1>6. ASSUME NEW s \in Call PROVE SessionInv(s)'
  <2>1. SessionInv(s)
    BY DEF BookInv
  <2>2. \A m \in Call : call'[m].browser = call[m].browser
    BY <1>2
  <2>3. call[s].pc \in {"answer", "done"} => call'[s].pc \in {"answer", "done"}
    BY <1>2
  <2>4. QED
    BY <2>1, <2>2, <2>3 DEF SessionInv
<1>7. ASSUME NEW b \in Browser, jar'[b] # 0 PROVE Given(jar[b], b)'
  <2>1. CASE jar'[b] = jar[b]
    BY <1>2, <1>7, <2>1 DEF BookInv, Given
  <2>2. CASE b = c.browser /\ jar'[b] = n /\ c.pc = "done" /\ c.reply = "cookie"
    <3>1. session[n].state # "none"
      BY <1>1, <2>2 DEF CallInv
    <3>2. QED
      BY <1>2, <2>2, <3>1 DEF Given
  <2>3. QED
    BY <1>7, <2>1, <2>2
<1>8. QED
  BY <1>3, <1>5, <1>6, <1>7 DEF BookInv

LEMMA SendBook ==
  ASSUME BoundIsNatural, BookInv, NEW b \in Browser, NEW kind \in CallKind, Send(b, kind)
  PROVE  /\ BookInv'
         /\ sent + 1 \in Call
         /\ \A m \in Call : m # sent + 1 => call'[m] = call[m]
         /\ call[sent + 1].pc = "unsent"
         /\ call'[sent + 1].pc = IF kind = "login" THEN "user" ELSE "find"
         /\ call'[sent + 1].kind = kind /\ call'[sent + 1].browser = b
         /\ call'[sent + 1].cookie = jar[b]
         /\ call'[sent + 1].found = 0 /\ call'[sent + 1].reply = "none"
<1>0. AuthTypeOK
  BY DEF BookInv
<1>1. /\ sent + 1 \in Call /\ sent' = sent + 1 /\ sent \in Nat
      /\ UNCHANGED <<active, session, jar, mishaps, shut>>
  BY <1>0 DEF Send, AuthTypeOK, Call, BoundIsNatural
<1>2. PICK n \in Call : n = sent + 1
  BY <1>1
<1>3. call[n].pc = "unsent" /\ call[n].reply = "none" /\ call[n].found = 0
  <2>1. CallInv(n)
    BY DEF BookInv
  <2>2. n > sent
    BY <1>1, <1>2
  <2>3. QED
    BY <2>1, <2>2 DEF CallInv
<1>4. PICK p \in CallPc : p = IF kind = "login" THEN "user" ELSE "find"
  BY DEF CallPc
<1>5. PICK c : /\ c = [call[n] EXCEPT !.pc = p, !.kind = kind, !.browser = b, !.cookie = jar[b]]
               /\ call' = [call EXCEPT ![n] = c]
  BY <1>2, <1>4 DEF Send
<1>6. /\ c.pc = p /\ c.kind = kind /\ c.browser = b /\ c.cookie = jar[b]
      /\ c.found = 0 /\ c.reply = "none" /\ c \in CallRecord
  BY <1>0, <1>3, <1>5 DEF AuthTypeOK, CallRecord
<1>7. /\ call'[n] = c /\ \A m \in Call : m # n => call'[m] = call[m]
      /\ call' \in [Call -> CallRecord]
  BY <1>0, <1>5, <1>6 DEF AuthTypeOK
<1>8. AuthTypeOK'
  <2>1. overlapped' \subseteq Browser /\ signedIn' \subseteq Browser
    BY <1>0 DEF AuthTypeOK, Send
  <2>2. sent' \in 0 .. MaxCalls
    BY <1>1 DEF Call, BoundIsNatural
  <2>3. QED
    BY <1>0, <1>1, <1>7, <2>1, <2>2 DEF AuthTypeOK
<1>9. \A s, x : Given(s, x) => Given(s, x)'
  BY <1>1, <1>3, <1>7 DEF Given
<1>10. ASSUME NEW m \in Call PROVE CallInv(m)'
  <2>1. CallInv(m)
    BY DEF BookInv
  <2>2. CASE m = n
    <3>1. jar[b] # 0 => Given(jar[b], b)'
      BY <1>1, <1>3, <1>7 DEF BookInv, Given
    <3>2. ~(n > sent') /\ c.pc # "unsent"
      BY <1>1, <1>2, <1>4, <1>6
    <3>3. QED
      BY <1>1, <1>4, <1>6, <1>7, <2>2, <3>1, <3>2 DEF CallInv
  <2>3. CASE m # n
    <3>1. m > sent' <=> m > sent
      BY <1>1, <1>2, <2>3 DEF Call
    <3>2. QED
      BY <1>1, <1>7, <1>9, <2>1, <2>3, <3>1 DEF CallInv
  <2>4. QED
    BY <2>2, <2>3
<1>11. ASSUME NEW s \in Call PROVE SessionInv(s)'
  <2>1. SessionInv(s) /\ \A l \in Call : session[l].state = "none" => session[l].login = 0
    BY DEF BookInv, SessionInv
  <2>2. session[n].state = "none" /\ session[n].login # n
    <3>1. SessionInv(n)
      BY DEF BookInv
    <3>2. QED
      BY <1>3, <3>1 DEF SessionInv, Call
  <2>3. QED
    BY <1>1, <1>7, <2>1, <2>2 DEF SessionInv
<1>12. \A x \in Browser : (jar[x] # 0 => Given(jar[x], x))'
  BY <1>1, <1>3, <1>7 DEF BookInv, Given
<1>13. QED
  BY <1>1, <1>2, <1>3, <1>4, <1>6, <1>7, <1>8, <1>10, <1>11, <1>12 DEF BookInv

(* The session a request commits is of the login that the one it replaces   *)
(* goes back to, or is a login of its own.                                  *)
LEMMA CommitFacts ==
  ASSUME BookInv, NEW n \in Call, CommitCall(n)
  PROVE  /\ call[n].pc = "commit" /\ session[n].state = "none" /\ session[n].login = 0
         /\ call[n].kind # "login" =>
              /\ call[n].found \in Call /\ call[n].found = call[n].cookie /\ call[n].found # n
              /\ Given(call[n].found, call[n].browser)
         /\ call'[n].pc = "answer" /\ call'[n].kind = call[n].kind
         /\ call'[n].browser = call[n].browser /\ call'[n].cookie = call[n].cookie
         /\ call'[n].found = call[n].found
         /\ call'[n].reply \in {"cookie", "cleared", "refused"}
         /\ call'[n].reply = "cleared" <=> call[n].kind = "logout"
         /\ call'[n].reply = "cookie" <=> call[n].kind # "logout" /\ call[n].welcome
         /\ call' \in [Call -> CallRecord]
         /\ \A m \in Call : m # n => call'[m] = call[m]
         /\ session' \in [Call -> Session]
         /\ \A s \in Call : s # n => session'[s].login = session[s].login
         /\ \A s \in Call : s # n =>
              session'[s].state = IF call[n].kind # "login" /\ s = call[n].found
                                  THEN "revoked" ELSE session[s].state
         /\ session'[n].state = IF call'[n].reply = "cookie" THEN "active" ELSE "none"
         /\ session'[n].login = IF call'[n].reply # "cookie" THEN 0
                                ELSE IF call[n].kind = "login" THEN n
                                ELSE session[call[n].found].login
<1>0. AuthTypeOK /\ CallInv(n) /\ SessionInv(n) /\ call[n].pc = "commit"
  BY DEF BookInv, CommitCall
<1>1. session[n].state = "none" /\ session[n].login = 0
  BY <1>0 DEF SessionInv
<1>2. call[n].kind # "login" =>
        /\ call[n].found \in Call /\ call[n].found = call[n].cookie /\ call[n].found # n
        /\ Given(call[n].found, call[n].browser)
  BY <1>0 DEF CallInv, Given
<1>3. PICK q \in CallRecord : q = call[n]
  BY <1>0 DEF AuthTypeOK
<1> DEFINE
  Replied(a) ==
    /\ call' \in [Call -> CallRecord] /\ \A m \in Call : m # n => call'[m] = call[m]
    /\ call'[n].pc = "answer" /\ call'[n].reply = a /\ call'[n].kind = q.kind
    /\ call'[n].browser = q.browser /\ call'[n].cookie = q.cookie
    /\ call'[n].found = q.found
  Made(state, login) ==
    /\ session' \in [Call -> Session]
    /\ session'[n].state = state /\ session'[n].login = login
    /\ \A s \in Call : s # n =>
         /\ session'[s].login = session[s].login
         /\ session'[s].state = IF q.kind # "login" /\ s = q.found
                                THEN "revoked" ELSE session[s].state
<1>4. CASE q.kind # "logout" /\ q.welcome
  <2>1. session' = Rotated(n) /\ call' = [call EXCEPT ![n] = [q EXCEPT !.pc = "answer", !.reply = "cookie"]]
    BY <1>3, <1>4 DEF CommitCall
  <2>2. PICK r : r = [q EXCEPT !.pc = "answer", !.reply = "cookie"]
    OBVIOUS
  <2>3. /\ r \in CallRecord /\ r.pc = "answer" /\ r.reply = "cookie" /\ r.kind = q.kind
        /\ r.browser = q.browser /\ r.cookie = q.cookie /\ r.found = q.found
    BY <2>2 DEF CallRecord, CallPc, Reply
  <2>4. /\ call' \in [Call -> CallRecord] /\ call'[n] = r
        /\ \A m \in Call : m # n => call'[m] = call[m]
    BY <1>0, <2>1, <2>2, <2>3 DEF AuthTypeOK
  <2>5. Replied("cookie")
    BY <2>3, <2>4
  <2>6. CASE q.kind = "login"
    <3>1. PICK s : s = [state |-> "active", login |-> n]
      OBVIOUS
    <3>2. session' = [session EXCEPT ![n] = s] /\ s \in Session
      BY <1>3, <2>1, <2>6, <3>1 DEF Rotated, Session, SessionState, Call
    <3>3. /\ session' \in [Call -> Session] /\ session'[n] = s
          /\ \A m \in Call : m # n => session'[m] = session[m]
      BY <1>0, <3>2 DEF AuthTypeOK
    <3>4. Made("active", n)
      BY <2>6, <3>1, <3>3
    <3>5. QED
      BY <1>0, <1>1, <1>2, <1>3, <1>4, <2>5, <2>6, <3>4
  <2>7. CASE q.kind # "login"
    <3>1. PICK s, t : /\ s = [state |-> "active", login |-> session[q.found].login]
                      /\ t = [session[q.found] EXCEPT !.state = "revoked"]
      OBVIOUS
    <3>2. q.found \in Call /\ q.found # n /\ session[q.found] \in Session
      BY <1>0, <1>2, <1>3, <2>7 DEF AuthTypeOK
    <3>3. /\ s \in Session /\ t \in Session /\ t.state = "revoked"
          /\ t.login = session[q.found].login
      BY <3>1, <3>2 DEF Session, SessionState
    <3>4. session' = [session EXCEPT ![q.found] = t, ![n] = s]
      BY <1>3, <2>1, <2>7, <3>1 DEF Rotated
    <3>5. /\ session' \in [Call -> Session] /\ session'[n] = s /\ session'[q.found] = t
          /\ \A m \in Call : m # n /\ m # q.found => session'[m] = session[m]
      BY <1>0, <3>2, <3>3, <3>4 DEF AuthTypeOK
    <3>6. Made("active", session[q.found].login)
      <4>1. ASSUME NEW m \in Call, m # n
            PROVE  /\ session'[m].login = session[m].login
                   /\ session'[m].state = IF q.kind # "login" /\ m = q.found
                                          THEN "revoked" ELSE session[m].state
        <5>1. CASE m = q.found
          BY <2>7, <3>3, <3>5, <5>1
        <5>2. CASE m # q.found
          BY <3>5, <4>1, <5>2
        <5>3. QED
          BY <5>1, <5>2
      <4>2. session'[n].state = "active" /\ session'[n].login = session[q.found].login
        BY <3>1, <3>5
      <4>3. QED
        BY <3>5, <4>1, <4>2
    <3>7. QED
      BY <1>0, <1>1, <1>2, <1>3, <1>4, <2>5, <2>7, <3>6
  <2>8. QED
    BY <2>6, <2>7
<1>5. CASE q.kind = "logout" \/ ~q.welcome
  <2>1. PICK a \in {"cleared", "refused"} : a = IF q.kind = "logout" THEN "cleared" ELSE "refused"
    OBVIOUS
  <2>2. PICK r : r = [q EXCEPT !.pc = "answer", !.reply = a]
    OBVIOUS
  <2>3. /\ call' = [call EXCEPT ![n] = r]
        /\ session' = [session EXCEPT ![q.found].state = "revoked"]
    BY <1>3, <1>5, <2>1, <2>2 DEF CommitCall
  <2>4. /\ r \in CallRecord /\ r.pc = "answer" /\ r.reply = a /\ r.kind = q.kind
        /\ r.browser = q.browser /\ r.cookie = q.cookie /\ r.found = q.found
    BY <2>2 DEF CallRecord, CallPc, Reply
  <2>5. /\ call' \in [Call -> CallRecord] /\ call'[n] = r
        /\ \A m \in Call : m # n => call'[m] = call[m]
    BY <1>0, <2>3, <2>4 DEF AuthTypeOK
  <2>6. Replied(a) /\ q.kind # "login"
    BY <1>0, <1>3, <1>5, <2>4, <2>5 DEF CallInv
  <2>7. QED
    <3>1. q.found \in Call /\ q.found # n /\ session[q.found] \in Session
      BY <1>0, <1>2, <1>3, <2>6 DEF AuthTypeOK
    <3>2. PICK t : t = [session[q.found] EXCEPT !.state = "revoked"]
      OBVIOUS
    <3>3. t \in Session /\ t.state = "revoked" /\ t.login = session[q.found].login
      BY <3>1, <3>2 DEF Session, SessionState
    <3>4. /\ session' \in [Call -> Session] /\ session'[q.found] = t
          /\ \A m \in Call : m # q.found => session'[m] = session[m]
      BY <1>0, <2>3, <3>1, <3>2, <3>3 DEF AuthTypeOK
    <3>5. Made("none", 0)
      BY <1>1, <2>6, <3>1, <3>3, <3>4
    <3>6. QED
      BY <1>0, <1>1, <1>2, <1>3, <1>5, <2>1, <2>6, <3>5
<1>6. QED
  BY <1>3, <1>4, <1>5

LEMMA CommitBook ==
  ASSUME BookInv, NEW n \in Call, CommitCall(n)
  PROVE  BookInv'
<1>0. AuthTypeOK
  BY DEF BookInv
<1>1. UNCHANGED <<active, jar, sent, mishaps, signedIn, overlapped, shut>>
  BY DEF CommitCall
<1>2. AuthTypeOK'
  BY <1>0, <1>1, CommitFacts DEF AuthTypeOK
<1>3. \A s, b : Given(s, b) => Given(s, b)'
  <2>1. ASSUME NEW s, NEW b, Given(s, b) PROVE Given(s, b)'
    <3>1. s \in Call /\ s # n
      BY <2>1, CommitFacts DEF Given
    <3>2. session'[s].state # "none"
      BY <2>1, <3>1, CommitFacts DEF Given
    <3>3. QED
      BY <2>1, <3>1, <3>2, CommitFacts DEF Given
  <2>2. QED
    BY <2>1
<1>4. ASSUME NEW m \in Call PROVE CallInv(m)'
  <2>1. CallInv(m)
    BY DEF BookInv
  <2>2. CASE m = n
    <3>1. n > sent <=> call'[n].pc = "unsent"
      BY <2>1, <2>2, CommitFacts DEF CallInv
    <3>2. call'[n].cookie # 0 => Given(call'[n].cookie, call'[n].browser)
      BY <2>1, <2>2, CommitFacts DEF CallInv
    <3>3. call'[n].found # 0 => call'[n].found = call'[n].cookie
      BY <2>1, <2>2, CommitFacts DEF CallInv
    <3>4. /\ call'[n].pc = "answer" /\ call'[n].reply # "none"
          /\ call'[n].reply = "cleared" => call'[n].kind = "logout"
          /\ call'[n].reply = "cookie" => call'[n].kind # "logout" /\ session'[n].state # "none"
      BY CommitFacts
    <3>5. QED
      BY <1>1, <1>3, <2>2, <3>1, <3>2, <3>3, <3>4 DEF CallInv
  <2>3. CASE m # n
    <3>1. /\ call'[m] = call[m]
          /\ session[m].state # "none" => session'[m].state # "none"
      BY <2>3, CommitFacts
    <3>2. QED
      BY <1>1, <1>3, <2>1, <3>1 DEF CallInv
  <2>4. QED
    BY <2>2, <2>3
<1>5. ASSUME NEW s \in Call PROVE SessionInv(s)'
  <2>1. /\ \A x \in Call : SessionInv(x)
        /\ \A m \in Call : call'[m].browser = call[m].browser
        /\ call[s].pc \in {"answer", "done"} => call'[s].pc \in {"answer", "done"}
    BY CommitFacts DEF BookInv
  <2>2. n # 0
    BY DEF Call
  <2>3. CASE s # n
    <3>1. /\ session'[s].login = session[s].login
          /\ session'[s].state = "none" <=> session[s].state = "none"
      BY <2>3, CommitFacts DEF Given
    <3>2. session[s].login # n \/ session[s].state = "none"
      BY <2>1, <2>2, CommitFacts DEF SessionInv
    <3>3. session[s].state # "none" => session'[session[s].login].login = session[s].login
      BY <2>1, <3>2, CommitFacts DEF SessionInv
    <3>4. QED
      BY <2>1, <3>1, <3>3 DEF SessionInv
  <2>4. CASE s = n
    <3>1. CASE call'[n].reply # "cookie"
      BY <2>4, <3>1, CommitFacts DEF SessionInv
    <3>2. CASE call'[n].reply = "cookie" /\ call[n].kind = "login"
      BY <2>4, <3>2, CommitFacts DEF SessionInv
    <3>3. CASE call'[n].reply = "cookie" /\ call[n].kind # "login"
      <4>1. PICK f \in Call : f = call[n].found
        BY <3>3, CommitFacts
      <4>2. f # n /\ session[f].state # "none" /\ call[f].browser = call[n].browser
        BY <3>3, <4>1, CommitFacts DEF Given
      <4>3. PICK l \in Call : l = session[f].login /\ session[l].login = l
                              /\ call[l].browser = call[n].browser
        BY <2>1, <4>2 DEF SessionInv
      <4>4. l # n
        BY <2>2, <4>3, CommitFacts
      <4>5. session'[n].login = l /\ session'[l].login = l /\ call'[n].pc = "answer"
        BY <3>3, <4>1, <4>3, <4>4, CommitFacts
      <4>6. call'[l].browser = call'[n].browser
        BY <2>1, <4>3
      <4>7. l # 0 /\ session'[n].state # "none"
        BY <3>3, CommitFacts DEF Call
      <4>8. QED
        BY <2>4, <4>5, <4>6, <4>7 DEF SessionInv
    <3>4. QED
      BY <3>1, <3>2, <3>3
  <2>5. QED
    BY <2>3, <2>4
<1>6. \A b \in Browser : (jar[b] # 0 => Given(jar[b], b))'
  <2>1. ASSUME NEW b \in Browser, jar[b] # 0 PROVE Given(jar[b], b)'
    <3>1. PICK s : s = jar[b] /\ s = jar'[b] /\ Given(s, b)
      BY <1>1, <2>1 DEF BookInv
    <3>2. Given(s, b)'
      BY <1>3, <3>1
    <3>3. QED
      BY <3>1, <3>2 DEF Given
  <2>2. QED
    BY <1>1, <2>1
<1>7. QED
  BY <1>2, <1>4, <1>5, <1>6 DEF BookInv

LEMMA ExpireBook ==
  ASSUME BookInv, NEW s \in Call, Expire(s)
  PROVE  /\ BookInv'
         /\ session[s].state = "active" /\ session'[s].state = "expired"
         /\ session' \in [Call -> Session]
         /\ \A x \in Call : session'[x].login = session[x].login
         /\ \A x \in Call : x # s => session'[x] = session[x]
<1>0. AuthTypeOK
  BY DEF BookInv
<1>1. PICK r : /\ r = [session[s] EXCEPT !.state = "expired"]
               /\ session' = [session EXCEPT ![s] = r]
  BY DEF Expire
<1>2. /\ r \in Session /\ r.state = "expired" /\ r.login = session[s].login
      /\ session[s].state = "active"
  BY <1>0, <1>1 DEF AuthTypeOK, Session, SessionState, Expire
<1>3. /\ session' \in [Call -> Session] /\ session'[s] = r
      /\ \A x \in Call : x # s => session'[x] = session[x]
  BY <1>0, <1>1, <1>2 DEF AuthTypeOK
<1>4. /\ \A x \in Call : session'[x].login = session[x].login
      /\ \A x \in Call : session'[x].state = "none" <=> session[x].state = "none"
  BY <1>2, <1>3
<1>5. /\ UNCHANGED <<active, jar, call, sent, signedIn, overlapped, shut>>
      /\ mishaps' \in Nat
  BY <1>0 DEF Expire, Mishap, AuthTypeOK
<1>6. AuthTypeOK'
  BY <1>0, <1>3, <1>5 DEF AuthTypeOK
<1>7. \A x, b : Given(x, b) => Given(x, b)'
  BY <1>4, <1>5 DEF Given
<1>8. \A m \in Call : CallInv(m)'
  <2>1. \A m \in Call : CallInv(m)
    BY DEF BookInv
  <2>2. QED
    BY <1>4, <1>5, <1>7, <2>1 DEF CallInv
<1>9. \A m \in Call : SessionInv(m)'
  <2>1. \A m \in Call : SessionInv(m)
    BY DEF BookInv
  <2>2. QED
    BY <1>4, <1>5, <2>1 DEF SessionInv
<1>10. \A b \in Browser : (jar[b] # 0 => Given(jar[b], b))'
  BY <1>4, <1>5 DEF BookInv, Given
<1>11. QED
  BY <1>2, <1>3, <1>4, <1>6, <1>8, <1>9, <1>10 DEF BookInv

(* The steps that read, answer or give up.                                  *)
LEMMA FindFacts ==
  ASSUME BoundIsNatural, BookInv, NEW n \in Call, Find(n)
  PROVE  /\ BookInv'
         /\ \A m \in Call : m # n => call'[m] = call[m]
         /\ call[n].pc = "find" /\ call[n].reply = "none"
         /\ call'[n].kind = call[n].kind /\ call'[n].browser = call[n].browser
         /\ call'[n].cookie = call[n].cookie
         /\ call'[n].pc \in {"user", "commit", "answer"}
         /\ call'[n].pc = "commit" => call'[n].kind = "logout"
         /\ call'[n].pc \in {"user", "commit"} =>
              /\ call'[n].found = call[n].cookie
              /\ call[n].cookie # 0 /\ session[call[n].cookie].state = "active"
         /\ call'[n].reply \in {"none", "refused", "cleared"}
         /\ call'[n].reply = "cleared" =>
              call[n].cookie = 0 \/ session[call[n].cookie].state # "active"
<1>1. AuthTypeOK /\ CallInv(n) /\ call[n].pc = "find"
  BY DEF BookInv, Find
<1>u. /\ UNCHANGED <<session, sent, active, overlapped, shut, jar>>
      /\ mishaps' \in Nat /\ signedIn' \subseteq Browser /\ jar' \in [Browser -> 0 .. MaxCalls]
  BY <1>1 DEF Find, AuthTypeOK
<1>2. PICK q \in CallRecord : q = call[n]
  BY <1>1 DEF AuthTypeOK
<1>3. PICK found : found = IF q.cookie # 0 /\ session[q.cookie].state = "active" THEN q.cookie ELSE 0
  OBVIOUS
<1>4. PICK c : /\ c = CASE found # 0 /\ q.kind = "refresh" -> [q EXCEPT !.pc = "user", !.found = found]
                        [] found # 0 /\ q.kind = "logout"  -> [q EXCEPT !.pc = "commit", !.found = found]
                        [] found = 0 /\ q.kind = "refresh" -> [q EXCEPT !.pc = "answer", !.reply = "refused"]
                        [] OTHER                           -> [q EXCEPT !.pc = "answer", !.reply = "cleared"]
               /\ call' = [call EXCEPT ![n] = c]
  BY <1>2, <1>3 DEF Find
<1>5. q.found = 0 /\ q.kind \in {"refresh", "logout"} /\ q.reply = "none" /\ q.pc = "find"
  BY <1>1, <1>2 DEF CallInv, CallRecord, CallKind, Reply
<1>6. found \in 0 .. MaxCalls /\ found \in {0, q.cookie}
  BY <1>2, <1>3 DEF BoundIsNatural, CallRecord, AuthTypeOK, Call
<1>7. CASE found # 0 /\ q.kind = "refresh"
  <2>1. c = [q EXCEPT !.pc = "user", !.found = found]
    BY <1>4, <1>7
  <2>2. /\ c \in CallRecord /\ c.pc = "user" /\ c.found = found /\ c.kind = q.kind /\ c.reply = "none"
        /\ c.browser = q.browser /\ c.cookie = q.cookie
    BY <1>5, <1>6, <2>1 DEF CallRecord, CallPc
  <2>3. call'[n] = c /\ \A m \in Call : m # n => call'[m] = call[m]
    BY <1>1, <1>4 DEF AuthTypeOK
  <2>4. BookInv'
    BY <1>1, <1>2, <1>4, <1>5, <1>6, <1>7, <2>2, <1>u, MoveStep
  <2>5. QED
    BY <1>2, <1>3, <1>5, <1>7, <2>2, <2>3, <2>4
<1>8. CASE found # 0 /\ q.kind = "logout"
  <2>1. c = [q EXCEPT !.pc = "commit", !.found = found]
    BY <1>4, <1>8
  <2>2. /\ c \in CallRecord /\ c.pc = "commit" /\ c.found = found /\ c.kind = q.kind /\ c.reply = "none"
        /\ c.browser = q.browser /\ c.cookie = q.cookie
    BY <1>5, <1>6, <2>1 DEF CallRecord, CallPc
  <2>3. call'[n] = c /\ \A m \in Call : m # n => call'[m] = call[m]
    BY <1>1, <1>4 DEF AuthTypeOK
  <2>4. BookInv'
    BY <1>1, <1>2, <1>4, <1>5, <1>6, <1>8, <2>2, <1>u, MoveStep
  <2>5. QED
    BY <1>2, <1>3, <1>5, <1>8, <2>2, <2>3, <2>4
<1>9. CASE found = 0
  <2>1. PICK a \in {"refused", "cleared"} : a = IF q.kind = "refresh" THEN "refused" ELSE "cleared"
    OBVIOUS
  <2>2. c = [q EXCEPT !.pc = "answer", !.reply = a]
    BY <1>4, <1>5, <1>9, <2>1
  <2>3. /\ c \in CallRecord /\ c.pc = "answer" /\ c.found = 0 /\ c.kind = q.kind /\ c.reply = a
        /\ c.browser = q.browser /\ c.cookie = q.cookie
    BY <1>5, <2>2 DEF CallRecord, CallPc, Reply
  <2>4. call'[n] = c /\ \A m \in Call : m # n => call'[m] = call[m]
    BY <1>1, <1>4 DEF AuthTypeOK
  <2>5. BookInv'
    BY <1>1, <1>2, <1>4, <1>5, <2>1, <2>3, <1>u, MoveStep, ZenonT(30)
  <2>6. QED
    BY <1>2, <1>3, <1>5, <1>9, <2>1, <2>3, <2>4, <2>5
<1>10. QED
  BY <1>5, <1>7, <1>8, <1>9

LEMMA ReadUserFacts ==
  ASSUME BoundIsNatural, BookInv, NEW n \in Call, ReadUser(n)
  PROVE  /\ BookInv'
         /\ \A m \in Call : m # n => call'[m] = call[m]
         /\ call[n].pc = "user" /\ call[n].reply = "none"
         /\ call'[n].kind = call[n].kind /\ call'[n].browser = call[n].browser
         /\ call'[n].cookie = call[n].cookie /\ call'[n].found = call[n].found
         /\ call'[n].pc \in {"commit", "answer"}
         /\ call'[n].pc = "commit" => call'[n].welcome = active
         /\ call'[n].reply \in {"none", "refused"}
<1>1. AuthTypeOK /\ CallInv(n) /\ call[n].pc = "user"
  BY DEF BookInv, ReadUser
<1>u. /\ UNCHANGED <<session, sent, active, overlapped, shut, jar>>
      /\ mishaps' \in Nat /\ signedIn' \subseteq Browser /\ jar' \in [Browser -> 0 .. MaxCalls]
  BY <1>1 DEF ReadUser, AuthTypeOK
<1>2. PICK q \in CallRecord : q = call[n]
  BY <1>1 DEF AuthTypeOK
<1>3. q.reply = "none" /\ q.kind # "logout" /\ (q.kind # "login" => q.found # 0)
      /\ (q.found # 0 => q.found = q.cookie)
  BY <1>1, <1>2 DEF CallInv
<1>4. CASE active \/ q.kind = "refresh"
  <2>1. PICK c : c = [q EXCEPT !.pc = "commit", !.welcome = active]
                 /\ call' = [call EXCEPT ![n] = c]
    BY <1>2, <1>4 DEF ReadUser
  <2>2. /\ c \in CallRecord /\ c.pc = "commit" /\ c.found = q.found /\ c.kind = q.kind
        /\ c.reply = "none" /\ c.browser = q.browser /\ c.cookie = q.cookie /\ c.welcome = active
    BY <1>1, <1>3, <2>1 DEF CallRecord, CallPc, AuthTypeOK
  <2>3. call'[n] = c /\ \A m \in Call : m # n => call'[m] = call[m]
    BY <1>1, <2>1 DEF AuthTypeOK
  <2>4. c.kind = "login" => c.welcome
    BY <1>4, <2>2
  <2>5. BookInv'
    BY <1>1, <1>2, <1>3, <2>1, <2>2, <2>4, <1>u, MoveStep
  <2>6. QED
    BY <1>1, <1>2, <1>3, <2>2, <2>3, <2>5
<1>5. CASE ~active /\ q.kind # "refresh"
  <2>1. PICK c : c = [q EXCEPT !.pc = "answer", !.reply = "refused"]
                 /\ call' = [call EXCEPT ![n] = c]
    BY <1>2, <1>5 DEF ReadUser
  <2>2. /\ c \in CallRecord /\ c.pc = "answer" /\ c.found = q.found /\ c.kind = q.kind
        /\ c.reply = "refused" /\ c.browser = q.browser /\ c.cookie = q.cookie
    BY <2>1 DEF CallRecord, CallPc, Reply
  <2>3. call'[n] = c /\ \A m \in Call : m # n => call'[m] = call[m]
    BY <1>1, <2>1 DEF AuthTypeOK
  <2>4. BookInv'
    BY <1>1, <1>2, <1>3, <2>1, <2>2, <1>u, MoveStep
  <2>5. QED
    BY <1>1, <1>2, <1>3, <2>2, <2>3, <2>4
<1>6. QED
  BY <1>4, <1>5

LEMMA EndedFacts ==
  ASSUME BoundIsNatural, BookInv, NEW n \in Call
  PROVE  /\ Ended(call[n]) \in CallRecord
         /\ Ended(call[n]).pc = "done" /\ Ended(call[n]).found = 0
         /\ Ended(call[n]).kind = call[n].kind /\ Ended(call[n]).browser = call[n].browser
         /\ Ended(call[n]).cookie = call[n].cookie /\ Ended(call[n]).reply = call[n].reply
<1>1. call[n] \in CallRecord /\ 0 \in 0 .. MaxCalls
  BY DEF BoundIsNatural, BookInv, AuthTypeOK, Call
<1>2. PICK q \in CallRecord : q = call[n]
  BY <1>1
<1>3. PICK c : c = [q EXCEPT !.pc = "done", !.found = 0, !.welcome = FALSE]
  OBVIOUS
<1>4. /\ c \in CallRecord /\ c.pc = "done" /\ c.found = 0 /\ c.kind = q.kind
      /\ c.browser = q.browser /\ c.cookie = q.cookie /\ c.reply = q.reply
  BY <1>1, <1>3 DEF CallRecord, CallPc
<1>5. QED
  BY <1>2, <1>3, <1>4 DEF Ended

LEMMA AnswerFacts ==
  ASSUME BoundIsNatural, BookInv, NEW n \in Call, Answer(n)
  PROVE  /\ BookInv'
         /\ \A m \in Call : m # n => call'[m] = call[m]
         /\ call[n].pc = "answer" /\ call'[n].pc = "done" /\ call'[n].found = 0
         /\ call'[n].kind = call[n].kind /\ call'[n].browser = call[n].browser
         /\ call'[n].cookie = call[n].cookie /\ call'[n].reply = call[n].reply
         /\ \A b \in Browser : b # call[n].browser => jar'[b] = jar[b]
         /\ jar'[call[n].browser] = CookieAfter(n)
<1>1. AuthTypeOK /\ CallInv(n) /\ call[n].pc = "answer"
  BY DEF BookInv, Answer
<1>2. PICK c \in CallRecord : c = Ended(call[n])
  BY EndedFacts
<1>3. /\ c.pc = "done" /\ c.found = 0 /\ c.kind = call[n].kind /\ c.browser = call[n].browser
      /\ c.cookie = call[n].cookie /\ c.reply = call[n].reply
  BY <1>2, EndedFacts
<1>4. call' = [call EXCEPT ![n] = c]
  BY <1>2 DEF Answer
<1>5. call'[n] = c /\ \A m \in Call : m # n => call'[m] = call[m]
  BY <1>1, <1>4 DEF AuthTypeOK
<1>6. PICK b \in Browser : b = call[n].browser
  BY <1>1 DEF AuthTypeOK, CallRecord
<1>7. CookieAfter(n) \in 0 .. MaxCalls
  BY <1>1, <1>6 DEF BoundIsNatural, CookieAfter, AuthTypeOK, Call
<1>8. /\ jar' \in [Browser -> 0 .. MaxCalls] /\ jar'[b] = CookieAfter(n)
      /\ \A x \in Browser : x # b => jar'[x] = jar[x]
  BY <1>1, <1>6, <1>7 DEF Answer, AuthTypeOK
<1>9. \A x \in Browser : \/ jar'[x] \in {0, jar[x]}
                         \/ /\ x = c.browser /\ jar'[x] = n
                            /\ c.pc = "done" /\ c.reply = "cookie"
  BY <1>3, <1>6, <1>8 DEF CookieAfter
<1>10. signedIn' \subseteq Browser
  BY <1>1, <1>6 DEF Answer, AuthTypeOK
<1>11. UNCHANGED <<session, sent, active, overlapped, shut>> /\ mishaps' \in Nat
  BY <1>1 DEF Answer, AuthTypeOK
<1>12. BookInv'
  <2>1. c.reply = "cleared" => c.kind = "logout"
    BY <1>1, <1>3 DEF CallInv
  <2>2. QED
    BY <1>1, <1>3, <1>4, <1>8, <1>9, <1>10, <1>11, <2>1, MoveStep
<1>13. QED
  BY <1>1, <1>3, <1>5, <1>6, <1>8, <1>12

LEMMA LoseFacts ==
  ASSUME BoundIsNatural, BookInv, NEW n \in Call, Lose(n)
  PROVE  /\ BookInv'
         /\ \A m \in Call : m # n => call'[m] = call[m]
         /\ call[n].pc \in {"find", "user", "commit", "answer"}
         /\ call'[n].pc = "done" /\ call'[n].found = 0
         /\ call'[n].kind = call[n].kind /\ call'[n].browser = call[n].browser
         /\ call'[n].cookie = call[n].cookie /\ call'[n].reply = call[n].reply
         /\ mishaps' # 0
<1>1. AuthTypeOK /\ CallInv(n) /\ call[n].pc \in {"find", "user", "commit", "answer"}
  BY DEF BookInv, Lose
<1>2. PICK c \in CallRecord : c = Ended(call[n])
  BY EndedFacts
<1>3. /\ c.pc = "done" /\ c.found = 0 /\ c.kind = call[n].kind /\ c.browser = call[n].browser
      /\ c.cookie = call[n].cookie /\ c.reply = call[n].reply
  BY <1>2, EndedFacts
<1>4. call' = [call EXCEPT ![n] = c]
  BY <1>2 DEF Lose
<1>5. call'[n] = c /\ \A m \in Call : m # n => call'[m] = call[m]
  BY <1>1, <1>4 DEF AuthTypeOK
<1>6. /\ UNCHANGED <<session, sent, active, overlapped, shut, jar>>
      /\ mishaps' \in Nat /\ mishaps' # 0 /\ signedIn' \subseteq Browser
  BY <1>1 DEF Lose, Mishap, AuthTypeOK
<1>7. jar' \in [Browser -> 0 .. MaxCalls]
  BY <1>1, <1>6 DEF AuthTypeOK
<1>8. BookInv'
  <2>1. c.reply = "cleared" => c.kind = "logout"
    BY <1>1, <1>3 DEF CallInv
  <2>2. QED
    BY <1>1, <1>3, <1>4, <1>6, <1>7, <2>1, MoveStep
<1>9. QED
  BY <1>1, <1>3, <1>5, <1>6, <1>8

LEMMA ActiveBook ==
  ASSUME BookInv, Deactivate \/ Bootstrap
  PROVE  BookInv' /\ UNCHANGED <<session, jar, call, sent, signedIn, overlapped>>
<1>1. UNCHANGED <<session, jar, call, sent, signedIn, overlapped>>
  BY DEF Deactivate, Bootstrap
<1>2. AuthTypeOK'
  <2>1. AuthTypeOK
    BY DEF BookInv
  <2>2. active' \in BOOLEAN /\ shut' \in BOOLEAN
    BY <2>1 DEF AuthTypeOK, Deactivate, Bootstrap
  <2>3. mishaps' \in Nat
    BY <2>1 DEF AuthTypeOK, Deactivate, Bootstrap, Mishap
  <2>4. QED
    BY <1>1, <2>1, <2>2, <2>3 DEF AuthTypeOK
<1>3. \A n \in Call : CallInv(n)' /\ SessionInv(n)'
  BY <1>1 DEF BookInv, CallInv, SessionInv, Given
<1>4. \A b \in Browser : (jar[b] # 0 => Given(jar[b], b))'
  BY <1>1 DEF BookInv, Given
<1>5. QED
  BY <1>1, <1>2, <1>3, <1>4 DEF BookInv

-----------------------------------------------------------------------------
(* Browsers that send one request at a time.                                *)

(* A request that moves on in the books of its browser.                     *)
LEMMA MoveRotation ==
  ASSUME BookInv, BookInv', RotationInv, NEW n \in Call,
         \A m \in Call : m # n => call'[m] = call[m],
         call[n].pc \notin {"unsent", "done"}, call'[n].pc # "unsent",
         call'[n].browser = call[n].browser, call'[n].cookie = call[n].cookie,
         UNCHANGED <<session, jar, overlapped>>,
         mishaps' = 0 => mishaps = 0,
         call'[n].pc \in {"user", "commit"} /\ call'[n].found # 0 =>
           \/ call'[n].found = call[n].found /\ call[n].pc \in {"user", "commit"}
           \/ call'[n].found = call[n].cookie /\ session[call[n].cookie].state = "active",
         mishaps' = 0 => ~HasCookie(n) /\ ~HasCookie(n)' /\ call'[n].pc # "done",
         call'[n].reply = "cleared" /\ call[n].reply # "cleared" =>
           /\ call[n].pc = "find"
           /\ call[n].cookie = 0 \/ session[call[n].cookie].state # "active"
  PROVE  RotationInv'
<1>1. SUFFICES ASSUME NEW b \in Browser, b \notin overlapped
               PROVE  AloneInv(b)' /\ (mishaps' = 0 => LatestInv(b)')
  BY DEF RotationInv
<1>2. AloneInv(b) /\ (mishaps' = 0 => LatestInv(b))
  BY <1>1 DEF RotationInv
<1>3. \A l : Alive(l)' = Alive(l)
  BY DEF Alive
<1>4. /\ OnItsWay(b)' \subseteq OnItsWay(b)
      /\ n \in OnItsWay(b)' => call[n].browser = b /\ n \in OnItsWay(b)
      /\ mishaps' = 0 => OnItsWay(b)' = OnItsWay(b)
  BY DEF OnItsWay
<1>5. \A l \in Call : (session[l].login = l /\ call[l].browser = b)' =>
                        session[l].login = l /\ call[l].browser = b
  OBVIOUS
<1>6. \A m \in Call : m \in OnItsWay(b) /\ call[m].cookie # 0 /\ session[call[m].cookie].state = "active" =>
        Alive(session[call[m].cookie].login) \subseteq {call[m].cookie}
  <2>1. ASSUME NEW m \in Call, m \in OnItsWay(b), call[m].cookie # 0,
               session[call[m].cookie].state = "active"
        PROVE  Alive(session[call[m].cookie].login) \subseteq {call[m].cookie}
    <3>1. PICK s \in Call : s = call[m].cookie /\ session[s].state = "active" /\ call[s].browser = b
      BY <2>1 DEF BookInv, CallInv, Given, OnItsWay
    <3>2. PICK l \in Call : l = session[s].login /\ session[l].login = l /\ call[l].browser = b
      BY <3>1 DEF BookInv, SessionInv
    <3>3. s \in Alive(l)
      BY <3>1, <3>2 DEF Alive
    <3>4. QED
      BY <1>2, <3>1, <3>2, <3>3 DEF AloneInv
  <2>2. QED
    BY <2>1
<1>7. AloneInv(b)'
  <2>1. \A x, y \in OnItsWay(b)' : x = y
    BY <1>2, <1>4 DEF AloneInv
  <2>2. \A x \in OnItsWay(b)' : call'[x].cookie = jar'[b]
    <3>1. \A x \in OnItsWay(b) : call[x].cookie = jar[b] /\ x \in Call
      BY <1>2 DEF AloneInv, OnItsWay
    <3>2. QED
      BY <1>4, <3>1
  <2>3. (\A l \in Call : session[l].login = l /\ call[l].browser = b => \A s, t \in Alive(l) : s = t)'
    BY <1>2, <1>3, <1>5 DEF AloneInv
  <2>4. ASSUME NEW x \in OnItsWay(b)', call'[x].pc \in {"user", "commit"}, call'[x].found # 0
        PROVE  Alive(session[call'[x].found].login) \subseteq {call'[x].found}
    <3>1. x \in OnItsWay(b) /\ x \in Call
      BY <1>4 DEF OnItsWay
    <3>2. CASE x # n
      <4>1. call'[x] = call[x]
        BY <3>1, <3>2
      <4>2. QED
        BY <1>2, <2>4, <3>1, <4>1 DEF AloneInv
    <3>3. CASE x = n /\ call'[n].found = call[n].found /\ call[n].pc \in {"user", "commit"}
      BY <1>2, <2>4, <3>1, <3>3 DEF AloneInv
    <3>4. CASE x = n /\ call'[n].found = call[n].cookie /\ session[call[n].cookie].state = "active"
      BY <1>6, <2>4, <3>1, <3>4
    <3>5. QED
      BY <2>4, <3>2, <3>3, <3>4
  <2>5. (\A x \in OnItsWay(b) : call[x].pc \in {"user", "commit"} /\ call[x].found # 0 =>
           Alive(session[call[x].found].login) \subseteq {call[x].found})'
    BY <1>3, <2>4
  <2>6. QED
    BY <2>1, <2>2, <2>3, <2>5 DEF AloneInv
<1>8. ASSUME mishaps' = 0 PROVE LatestInv(b)'
  <2>1. LatestInv(b) /\ OnItsWay(b)' = OnItsWay(b)
    BY <1>2, <1>4, <1>8
  <2>2. \A m \in Call : HasCookie(m)' <=> HasCookie(m)
    BY <1>8 DEF HasCookie
  <2>3. ASSUME NEW x \in OnItsWay(b), call'[x].pc \in {"user", "commit"}, call'[x].found # 0
        PROVE  session[call'[x].found].state = "active"
    <3>1. x \in Call
      BY DEF OnItsWay
    <3>2. CASE x # n
      BY <2>1, <2>3, <3>1, <3>2 DEF LatestInv
    <3>3. CASE x = n
      BY <2>1, <2>3, <3>1, <3>3 DEF LatestInv
    <3>4. QED
      BY <3>2, <3>3
  <2>4. \A x \in OnItsWay(b) : HasCookie(x) => Alive(session[x].login) \subseteq {x}
    BY <2>1 DEF LatestInv
  <2>5. jar[b] # 0 /\ (\A x \in OnItsWay(b) : ~HasCookie(x)) =>
          Alive(session[jar[b]].login) \subseteq {jar[b]}
    BY <2>1 DEF LatestInv
  <2>6. ASSUME NEW x \in Call, call'[x].browser = b, call'[x].reply = "cleared", call'[x].cookie # 0
        PROVE  Alive(session[call'[x].cookie].login) = {}
    <3>1. call[x].browser = b /\ call'[x].cookie = call[x].cookie
      BY <2>6
    <3>2. CASE call[x].reply = "cleared"
      BY <2>1, <2>6, <3>1, <3>2 DEF LatestInv
    <3>3. CASE call[x].reply # "cleared"
      <4>1. x = n /\ call[n].pc = "find" /\ session[call[n].cookie].state # "active"
        BY <2>6, <3>1, <3>3
      <4>2. n \in OnItsWay(b)
        BY <3>1, <4>1 DEF OnItsWay
      <4>3. call[n].cookie = jar[b] /\ \A m \in OnItsWay(b) : m = n
        BY <1>2, <4>2 DEF AloneInv
      <4>4. jar[b] # 0 /\ \A m \in OnItsWay(b) : ~HasCookie(m)
        BY <2>6, <3>1, <4>1, <4>3 DEF HasCookie
      <4>5. Alive(session[jar[b]].login) \subseteq {jar[b]}
        BY <2>5, <4>4
      <4>6. jar[b] \notin Alive(session[jar[b]].login)
        BY <4>1, <4>3 DEF Alive
      <4>7. QED
        BY <3>1, <4>1, <4>3, <4>5, <4>6
    <3>4. QED
      BY <3>2, <3>3
  <2>7. /\ (\A x \in OnItsWay(b) : call[x].pc \in {"user", "commit"} /\ call[x].found # 0 =>
              session[call[x].found].state = "active")'
        /\ (\A x \in OnItsWay(b) : HasCookie(x) => Alive(session[x].login) \subseteq {x})'
        /\ (jar[b] # 0 /\ (\A x \in OnItsWay(b) : ~HasCookie(x)) =>
              Alive(session[jar[b]].login) \subseteq {jar[b]})'
        /\ (\A x \in Call : call[x].browser = b /\ call[x].reply = "cleared" /\ call[x].cookie # 0 =>
              Alive(session[call[x].cookie].login) = {})'
    <3>1. \A x \in OnItsWay(b) : x \in Call
      BY DEF OnItsWay
    <3>2. QED
      BY <1>3, <2>1, <2>2, <2>3, <2>4, <2>5, <2>6, <3>1
  <2>8. QED
    BY <2>7 DEF LatestInv
<1>9. QED
  BY <1>7, <1>8

LEMMA SendRotation ==
  ASSUME BoundIsNatural, BookInv, RotationInv, NEW x \in Browser, NEW kind \in CallKind, Send(x, kind)
  PROVE  RotationInv'
<1>1. SUFFICES ASSUME NEW b \in Browser, b \notin overlapped'
               PROVE  AloneInv(b)' /\ (mishaps' = 0 => LatestInv(b)')
  BY DEF RotationInv
<1>2. PICK n \in Call : n = sent + 1
  BY SendBook
<1>3. /\ \A m \in Call : m # n => call'[m] = call[m]
      /\ call[n].pc = "unsent" /\ call'[n].pc \in {"user", "find"} /\ call'[n].browser = x
      /\ call'[n].cookie = jar[x] /\ call'[n].found = 0 /\ call'[n].reply = "none"
  BY <1>2, SendBook
<1>4. UNCHANGED <<session, jar, mishaps>> /\ overlapped \subseteq overlapped'
      /\ (x \notin overlapped' => Quiet(x))
  BY DEF Send
<1>5. AloneInv(b) /\ (mishaps' = 0 => LatestInv(b))
  BY <1>1, <1>4 DEF RotationInv
<1>6. \A l : Alive(l)' = Alive(l)
  BY <1>4 DEF Alive
<1>7. session[n].state = "none" /\ session[n].login = 0 /\ 0 \notin Call
  BY <1>3 DEF BookInv, SessionInv, Call
<1>8. \A l \in Call : (session[l].login = l /\ call[l].browser = b)' =>
                        session[l].login = l /\ call[l].browser = b
  BY <1>3, <1>4, <1>7
<1>9. /\ x # b => OnItsWay(b)' = OnItsWay(b) /\ n \notin OnItsWay(b)
      /\ x = b => OnItsWay(b)' = {n} /\ OnItsWay(b) = {}
  BY <1>1, <1>3, <1>4 DEF OnItsWay, Quiet
<1>10. \A y \in OnItsWay(b) : call'[y] = call[y]
  BY <1>3, <1>9 DEF OnItsWay
<1>11. AloneInv(b)'
  <2>1. CASE x = b
    BY <1>3, <1>4, <1>5, <1>6, <1>8, <1>9, <2>1 DEF AloneInv
  <2>2. CASE x # b
    <3>1. \A y \in OnItsWay(b)' : y \in OnItsWay(b) /\ call'[y] = call[y]
      BY <1>9, <1>10, <2>2
    <3>2. QED
      BY <1>4, <1>5, <1>6, <1>8, <3>1, ZenonT(30) DEF AloneInv
  <2>3. QED
    BY <2>1, <2>2
<1>12. ASSUME mishaps' = 0 PROVE LatestInv(b)'
  <2>1. LatestInv(b)
    BY <1>5, <1>12
  <2>2. \A y \in Call : (call[y].browser = b /\ call[y].reply = "cleared" /\ call[y].cookie # 0)' =>
          y # n /\ call'[y] = call[y]
    BY <1>3
  <2>3. (\A y \in Call : call[y].browser = b /\ call[y].reply = "cleared" /\ call[y].cookie # 0 =>
           Alive(session[call[y].cookie].login) = {})'
    BY <1>4, <1>6, <2>1, <2>2 DEF LatestInv
  <2>4. CASE x = b
    <3>1. /\ \A y \in OnItsWay(b)' : y = n
          /\ call'[n].found = 0 /\ ~HasCookie(n)'
      BY <1>3, <1>9, <2>4 DEF HasCookie
    <3>2. jar[b] # 0 => Alive(session[jar[b]].login) \subseteq {jar[b]}
      BY <1>9, <2>1, <2>4 DEF LatestInv
    <3>3. QED
      BY <1>4, <1>6, <2>3, <3>1, <3>2 DEF LatestInv
  <2>5. CASE x # b
    <3>1. OnItsWay(b)' = OnItsWay(b)
      BY <1>9, <2>5
    <3>2. \A y \in OnItsWay(b) : call'[y] = call[y] /\ (HasCookie(y)' <=> HasCookie(y))
      BY <1>10 DEF HasCookie
    <3>3. QED
      BY <1>4, <1>6, <2>1, <2>3, <3>1, <3>2 DEF LatestInv
  <2>6. QED
    BY <2>4, <2>5
<1>13. QED
  BY <1>11, <1>12

LEMMA AnswerRotation ==
  ASSUME BoundIsNatural, BookInv, RotationInv, NEW n \in Call, Answer(n)
  PROVE  RotationInv'
<1>1. SUFFICES ASSUME NEW b \in Browser, b \notin overlapped'
               PROVE  AloneInv(b)' /\ (mishaps' = 0 => LatestInv(b)')
  BY DEF RotationInv
<1>2. UNCHANGED <<session, mishaps, overlapped>>
  BY DEF Answer
<1>3. AloneInv(b) /\ (mishaps' = 0 => LatestInv(b))
  BY <1>1, <1>2 DEF RotationInv
<1>4. \A l : Alive(l)' = Alive(l)
  BY <1>2 DEF Alive
<1>5. \A m \in Call : call'[m].browser = call[m].browser /\ call'[m].reply = call[m].reply
                      /\ call'[m].cookie = call[m].cookie
  BY AnswerFacts
<1>6. OnItsWay(b)' = OnItsWay(b) \ {n}
  BY AnswerFacts DEF OnItsWay
<1>7. \A y \in OnItsWay(b)' : y \in OnItsWay(b) /\ call'[y] = call[y] /\ call[n].browser # b
  <2>1. ASSUME NEW y \in OnItsWay(b)' PROVE y \in OnItsWay(b) /\ call'[y] = call[y] /\ call[n].browser # b
    <3>1. y \in Call /\ y \in OnItsWay(b) /\ y # n
      BY <1>6 DEF OnItsWay
    <3>2. n \notin OnItsWay(b)
      BY <1>3, <3>1 DEF AloneInv
    <3>3. QED
      BY <3>1, <3>2, AnswerFacts DEF OnItsWay
  <2>2. QED
    BY <2>1
<1>8. AloneInv(b)'
  <2>1. call[n].browser # b => jar'[b] = jar[b]
    BY AnswerFacts
  <2>2. QED
    BY <1>2, <1>3, <1>4, <1>5, <1>7, <2>1 DEF AloneInv
<1>9. ASSUME mishaps' = 0 PROVE LatestInv(b)'
  <2>1. LatestInv(b)
    BY <1>3, <1>9
  <2>2. /\ (\A y \in OnItsWay(b) : call[y].pc \in {"user", "commit"} /\ call[y].found # 0 =>
              session[call[y].found].state = "active")'
        /\ (\A y \in Call : call[y].browser = b /\ call[y].reply = "cleared" /\ call[y].cookie # 0 =>
              Alive(session[call[y].cookie].login) = {})'
    BY <1>2, <1>4, <1>5, <1>7, <2>1 DEF LatestInv
  <2>3. (\A y \in OnItsWay(b) : HasCookie(y) => Alive(session[y].login) \subseteq {y})'
    BY <1>2, <1>4, <1>7, <2>1 DEF LatestInv, HasCookie
  <2>4. ASSUME jar'[b] # 0, \A y \in OnItsWay(b)' : ~HasCookie(y)'
        PROVE  Alive(session[jar'[b]].login) \subseteq {jar'[b]}
    <3>1. CASE call[n].browser # b
      <4>1. OnItsWay(b)' = OnItsWay(b) /\ jar'[b] = jar[b]
        BY <1>6, <3>1, AnswerFacts DEF OnItsWay
      <4>2. \A y \in OnItsWay(b) : ~HasCookie(y)
        BY <1>7, <2>4, <4>1 DEF HasCookie
      <4>3. QED
        BY <2>1, <2>4, <4>1, <4>2 DEF LatestInv
    <3>2. CASE call[n].browser = b
      <4>1. n \in OnItsWay(b) /\ (\A y \in OnItsWay(b) : y = n) /\ jar'[b] = CookieAfter(n)
        BY <1>3, <3>2, AnswerFacts DEF OnItsWay, AloneInv
      <4>2. CASE call[n].reply = "cookie"
        <5>1. HasCookie(n) /\ jar'[b] = n
          BY <4>1, <4>2, AnswerFacts DEF HasCookie, CookieAfter
        <5>2. QED
          BY <2>1, <4>1, <5>1 DEF LatestInv
      <4>3. CASE call[n].reply # "cookie"
        <5>1. ~HasCookie(n) /\ jar'[b] \in {0, jar[b]}
          BY <3>2, <4>1, <4>3 DEF HasCookie, CookieAfter
        <5>2. QED
          BY <2>1, <2>4, <4>1, <5>1 DEF LatestInv
      <4>4. QED
        BY <4>2, <4>3
    <3>3. QED
      BY <3>1, <3>2
  <2>5. (jar[b] # 0 /\ (\A y \in OnItsWay(b) : ~HasCookie(y)) =>
           Alive(session[jar[b]].login) \subseteq {jar[b]})'
    BY <1>2, <1>4, <2>4
  <2>6. QED
    BY <2>2, <2>3, <2>5 DEF LatestInv
<1>10. QED
  BY <1>8, <1>9

LEMMA ExpireRotation ==
  ASSUME BookInv, RotationInv, NEW s \in Call, Expire(s)
  PROVE  RotationInv'
<1>1. SUFFICES ASSUME NEW b \in Browser, b \notin overlapped'
               PROVE  AloneInv(b)' /\ (mishaps' = 0 => LatestInv(b)')
  BY DEF RotationInv
<1>2. UNCHANGED <<jar, call, overlapped>> /\ mishaps' # 0
  BY DEF Expire, Mishap, BookInv, AuthTypeOK
<1>3. AloneInv(b)
  BY <1>1, <1>2 DEF RotationInv
<1>4. /\ \A x \in Call : session'[x].login = session[x].login
      /\ \A l : Alive(l)' \subseteq Alive(l)
  BY ExpireBook DEF Alive
<1>5. OnItsWay(b)' = OnItsWay(b)
  BY <1>2 DEF OnItsWay
<1>6. \A m \in Call : call[m].found # 0 => call[m].found \in Call
  BY DEF BookInv, CallInv, Given
<1>7. \A m \in OnItsWay(b) : m \in Call
  BY DEF OnItsWay
<1>8. AloneInv(b)'
  BY <1>2, <1>3, <1>4, <1>5, <1>6, <1>7 DEF AloneInv
<1>9. QED
  BY <1>2, <1>8

(* A commit adds a session to one login at most; no other login gets more   *)
(* of its sessions alive.                                                   *)
LEMMA CommitAlive ==
  ASSUME BookInv, NEW n \in Call, CommitCall(n), NEW l \in Call
  PROVE  /\ call'[n].reply # "cookie" \/ l # session'[n].login => Alive(l)' \subseteq Alive(l)
         /\ Alive(l)' \subseteq Alive(l) \cup {n}
         /\ call[n].kind # "login" => call[n].found \notin Alive(l)'
         /\ session[l].login = l => l # n
         /\ session[n].login # l
<1>1. 0 \notin Call
  BY DEF Call
<1>2. call[n].kind # "login" => call[n].found # n
  BY CommitFacts
<1>3. QED
  BY <1>1, <1>2, CommitFacts DEF Alive

LEMMA CommitRotation ==
  ASSUME BookInv, RotationInv, NEW n \in Call, CommitCall(n)
  PROVE  RotationInv'
<1>1. SUFFICES ASSUME NEW b \in Browser, b \notin overlapped'
               PROVE  AloneInv(b)' /\ (mishaps' = 0 => LatestInv(b)')
  BY DEF RotationInv
<1>2. UNCHANGED <<jar, mishaps, overlapped>>
  BY DEF CommitCall
<1>3. AloneInv(b) /\ (mishaps' = 0 => LatestInv(b))
  BY <1>1, <1>2 DEF RotationInv
<1>4. /\ \A m \in Call : m # n => call'[m] = call[m]
      /\ call'[n].browser = call[n].browser /\ call'[n].cookie = call[n].cookie
      /\ call[n].pc = "commit" /\ call'[n].pc = "answer"
  BY CommitFacts
<1>5. OnItsWay(b)' = OnItsWay(b) /\ \A m \in OnItsWay(b) : m \in Call
  BY <1>4 DEF OnItsWay
<1>6. \A s \in Call : s # n => session'[s].login = session[s].login
  BY CommitFacts
<1>7. 0 \notin Call
  BY DEF Call
(* A session another request sent, found or brought. *)
<1>8. \A m \in Call : call[m].cookie # 0 =>
        /\ call[m].cookie \in Call /\ call[m].cookie # n /\ call[call[m].cookie].browser = call[m].browser
        /\ session[call[m].cookie].state # "none" /\ session[call[m].cookie].login \in Call
        /\ session[session[call[m].cookie].login].login = session[call[m].cookie].login
  <2>1. ASSUME NEW m \in Call, call[m].cookie # 0
        PROVE  /\ call[m].cookie \in Call /\ call[m].cookie # n /\ call[call[m].cookie].browser = call[m].browser
               /\ session[call[m].cookie].state # "none" /\ session[call[m].cookie].login \in Call
               /\ session[session[call[m].cookie].login].login = session[call[m].cookie].login
    <3>1. Given(call[m].cookie, call[m].browser)
      BY <2>1 DEF BookInv, CallInv
    <3>2. \A s \in Call : session[s].state # "none" =>
            session[s].login \in Call /\ session[session[s].login].login = session[s].login
      BY DEF BookInv, SessionInv
    <3>3. QED
      BY <1>4, <3>1, <3>2 DEF Given
  <2>2. QED
    BY <2>1
<1>9. \A m \in Call : call[m].found # 0 => call[m].found = call[m].cookie
  BY DEF BookInv, CallInv
<1>10. CASE call[n].browser # b
  <2>1. \A m \in OnItsWay(b) : m # n /\ call'[m] = call[m]
    BY <1>4, <1>5, <1>10 DEF OnItsWay
  <2>2. \A l \in Call : session'[l].login = l /\ call'[l].browser = b => session[l].login = l /\ call[l].browser = b
    BY <1>4, <1>6, <1>10
  <2>3. ASSUME NEW l \in Call, session[l].login = l, call[l].browser = b
        PROVE  Alive(l)' \subseteq Alive(l)
    <3>1. CASE call'[n].reply # "cookie" \/ l # session'[n].login
      BY <3>1, CommitAlive
    <3>2. CASE call'[n].reply = "cookie" /\ l = session'[n].login
      <4>1. SessionInv(n)' /\ session'[n].state # "none"
        BY <3>2, CommitBook, CommitFacts DEF BookInv
      <4>2. call'[l].browser = call'[n].browser
        BY <3>2, <4>1 DEF SessionInv
      <4>3. call'[l].browser = call[l].browser
        BY <1>4
      <4>4. FALSE
        BY <1>4, <1>10, <2>3, <4>2, <4>3
      <4>5. QED
        BY <4>4
    <3>3. QED
      BY <3>1, <3>2
  (* Sessions of this browser stay as they are. *)
  <2>4. ASSUME NEW s \in Call, s # n, call[s].browser = b, session[s].state # "none"
        PROVE  /\ session'[s] = session[s]
               /\ \A l : l = session[s].login => Alive(l)' \subseteq Alive(l)
    <3>1. PICK l \in Call : l = session[s].login /\ session[l].login = l /\ call[l].browser = b
      BY <2>4 DEF BookInv, SessionInv
    <3>2. Alive(l)' \subseteq Alive(l)
      BY <2>3, <3>1
    <3>3. call[n].kind # "login" => s # call[n].found
      BY <1>10, <2>4, CommitFacts DEF Given
    <3>4. session'[s].state = session[s].state /\ session'[s].login = session[s].login
      BY <2>4, <3>3, CommitFacts
    <3>5. session[s] \in Session /\ session'[s] \in Session
      BY CommitFacts DEF BookInv, AuthTypeOK
    <3>6. session'[s] = session[s]
      BY <3>4, <3>5 DEF Session
    <3>7. QED
      BY <3>1, <3>2, <3>6
  <2>5. \A m \in Call : m # n /\ call[m].browser = b /\ call[m].cookie # 0 =>
          session'[call[m].cookie] = session[call[m].cookie]
    BY <1>8, <2>4
  <2>6. \A m \in OnItsWay(b) : call[m].browser = b /\ m \in Call
    BY DEF OnItsWay
  <2>7. AloneInv(b)'
    <3>1. (\A l \in Call : session[l].login = l /\ call[l].browser = b => \A s, t \in Alive(l) : s = t)'
      BY <1>3, <2>2, <2>3 DEF AloneInv
    <3>2. ASSUME NEW m \in OnItsWay(b), call'[m].pc \in {"user", "commit"}, call'[m].found # 0
          PROVE  (Alive(session[call[m].found].login) \subseteq {call[m].found})'
      <4>1. PICK s \in Call : /\ s = call[m].found /\ s = call'[m].found /\ s = call[m].cookie
                              /\ s # n /\ call[s].browser = b /\ session[s].state # "none"
        BY <1>8, <1>9, <2>1, <2>6, <3>2
      <4>2. PICK l : l = session[s].login /\ l = session'[s].login
        BY <2>4, <4>1
      <4>3. Alive(l) \subseteq {s}
        BY <1>3, <2>1, <3>2, <4>1, <4>2 DEF AloneInv
      <4>4. Alive(l)' \subseteq Alive(l)
        BY <2>4, <4>1, <4>2
      <4>5. QED
        BY <4>1, <4>2, <4>3, <4>4
    <3>3. (\A m \in OnItsWay(b) : call[m].pc \in {"user", "commit"} /\ call[m].found # 0 =>
             Alive(session[call[m].found].login) \subseteq {call[m].found})'
      BY <1>5, <3>2
    <3>4. /\ (\A x, y \in OnItsWay(b) : x = y)'
          /\ (\A x \in OnItsWay(b) : call[x].cookie = jar[b])'
      BY <1>2, <1>3, <1>5, <2>1 DEF AloneInv
    <3>5. QED
      BY <3>1, <3>3, <3>4 DEF AloneInv
  <2>8. ASSUME mishaps' = 0 PROVE LatestInv(b)'
    <3>1. LatestInv(b)
      BY <1>3, <2>8
    <3>2. \A m \in OnItsWay(b) : HasCookie(m)' <=> HasCookie(m)
      BY <2>1 DEF HasCookie
    <3>3. (\A x \in OnItsWay(b) : call[x].pc \in {"user", "commit"} /\ call[x].found # 0 =>
             session[call[x].found].state = "active")'
      <4>1. ASSUME NEW m \in OnItsWay(b), call'[m].pc \in {"user", "commit"}, call'[m].found # 0
            PROVE  (session[call[m].found].state = "active")'
        <5>1. PICK s \in Call : s = call[m].found /\ s = call'[m].found /\ s = call[m].cookie
          BY <1>8, <1>9, <2>1, <2>6, <4>1
        <5>2. session'[s] = session[s]
          BY <1>7, <2>1, <2>5, <2>6, <5>1
        <5>3. QED
          BY <2>1, <3>1, <4>1, <5>1, <5>2 DEF LatestInv
      <4>2. QED
        BY <1>5, <4>1
    <3>4. (\A x \in OnItsWay(b) : HasCookie(x) => Alive(session[x].login) \subseteq {x})'
      <4>1. ASSUME NEW m \in OnItsWay(b), HasCookie(m)
            PROVE  (Alive(session[m].login) \subseteq {m})'
        <5>1. m \in Call /\ m # n /\ call[m].browser = b /\ session[m].state # "none"
          BY <2>1, <2>6, <4>1 DEF HasCookie, BookInv, CallInv
        <5>2. PICK l : l = session[m].login /\ l = session'[m].login
          BY <2>4, <5>1
        <5>3. Alive(l)' \subseteq Alive(l) /\ Alive(l) \subseteq {m}
          BY <2>4, <3>1, <4>1, <5>1, <5>2 DEF LatestInv
        <5>4. QED
          BY <5>2, <5>3
      <4>2. QED
        BY <1>5, <3>2, <4>1
    <3>5. (jar[b] # 0 /\ (\A x \in OnItsWay(b) : ~HasCookie(x)) =>
             Alive(session[jar[b]].login) \subseteq {jar[b]})'
      <4>1. SUFFICES ASSUME jar'[b] # 0, \A x \in OnItsWay(b)' : ~HasCookie(x)'
                     PROVE  (Alive(session[jar[b]].login) \subseteq {jar[b]})'
        OBVIOUS
      <4>2. PICK s \in Call : /\ s = jar[b] /\ s = jar'[b] /\ s # n /\ call[s].browser = b
                              /\ session[s].state # "none"
        BY <1>2, <1>4, <4>1 DEF BookInv, Given
      <4>3. PICK l : l = session[s].login /\ l = session'[s].login
        BY <2>4, <4>2
      <4>4. \A x \in OnItsWay(b) : ~HasCookie(x)
        BY <1>5, <3>2, <4>1
      <4>5. Alive(l)' \subseteq Alive(l) /\ Alive(l) \subseteq {s}
        BY <1>7, <2>4, <3>1, <4>2, <4>3, <4>4 DEF LatestInv
      <4>6. QED
        BY <4>2, <4>3, <4>5
    <3>6. (\A x \in Call : call[x].browser = b /\ call[x].reply = "cleared" /\ call[x].cookie # 0 =>
             Alive(session[call[x].cookie].login) = {})'
      <4>1. ASSUME NEW m \in Call, call'[m].browser = b, call'[m].reply = "cleared", call'[m].cookie # 0
            PROVE  (Alive(session[call[m].cookie].login) = {})'
        <5>1. m # n /\ call'[m] = call[m]
          BY <1>4, <1>10, <4>1
        <5>2. PICK s \in Call : /\ s = call[m].cookie /\ s = call'[m].cookie
                                /\ s # n /\ call[s].browser = b /\ session[s].state # "none"
          BY <1>8, <4>1, <5>1
        <5>3. PICK l : l = session[s].login /\ l = session'[s].login
          BY <2>4, <5>2
        <5>4. Alive(l)' \subseteq Alive(l) /\ Alive(l) = {}
          BY <2>4, <3>1, <4>1, <5>1, <5>2, <5>3 DEF LatestInv
        <5>5. QED
          BY <5>2, <5>3, <5>4
      <4>2. QED
        BY <4>1
    <3>7. QED
      BY <3>3, <3>4, <3>5, <3>6 DEF LatestInv
  <2>9. QED
    BY <2>7, <2>8
<1>11. CASE call[n].browser = b
  <2>1. n \in OnItsWay(b) /\ \A m \in OnItsWay(b) : m = n
    BY <1>3, <1>4, <1>11 DEF AloneInv, OnItsWay
  (* The login whose session the request replaces has no other alive. *)
  <2>2. call[n].kind # "login" =>
          /\ call[n].found = jar[b] /\ call[n].found = call[n].cookie /\ call[n].found # 0
          /\ \A l : l = session[call[n].found].login =>
               Alive(l)' \subseteq IF call'[n].reply = "cookie" THEN {n} ELSE {}
    <3>1. SUFFICES ASSUME call[n].kind # "login"
                   PROVE  /\ call[n].found = jar[b] /\ call[n].found = call[n].cookie /\ call[n].found # 0
                          /\ \A l : l = session[call[n].found].login =>
                               Alive(l)' \subseteq IF call'[n].reply = "cookie" THEN {n} ELSE {}
      OBVIOUS
    <3>2. PICK f \in Call : f = call[n].found /\ f = call[n].cookie /\ f # n
      BY <3>1, CommitFacts
    <3>3. f # 0 /\ f = jar[b]
      BY <1>3, <1>7, <2>1, <3>2 DEF AloneInv
    <3>4. PICK l \in Call : l = session[f].login
      BY <1>8, <3>2, <3>3
    <3>5. Alive(l) \subseteq {f}
      BY <1>3, <1>4, <2>1, <3>2, <3>3, <3>4 DEF AloneInv
    <3>6. f \notin Alive(l)' /\ Alive(l)' \subseteq Alive(l) \cup {n}
          /\ (call'[n].reply # "cookie" => Alive(l)' \subseteq Alive(l))
      <4>1. Alive(l)' \subseteq Alive(l) \cup {n}
        BY CommitAlive
      <4>0. f \notin Alive(l)'
        <5>1. session'[f].state = "revoked"
          BY <3>1, <3>2, CommitFacts
        <5>2. QED
          BY <5>1 DEF Alive
      <4>2. call'[n].reply # "cookie" => Alive(l)' \subseteq Alive(l)
        BY CommitAlive
      <4>3. QED
        BY <4>0, <4>1, <4>2
    <3>7. Alive(l)' \subseteq IF call'[n].reply = "cookie" THEN {n} ELSE {}
      BY <3>5, <3>6
    <3>8. QED
      BY <3>2, <3>3, <3>4, <3>7
  <2>3. call'[n].reply = "cookie" => (Alive(session[n].login) \subseteq {n})'
    <3>1. SUFFICES ASSUME call'[n].reply = "cookie" PROVE (Alive(session[n].login) \subseteq {n})'
      OBVIOUS
    <3>2. CASE call[n].kind = "login"
      <4>1. session'[n].login = n /\ Alive(n)' \subseteq Alive(n) \cup {n}
        BY <3>1, <3>2, CommitFacts, CommitAlive
      <4>2. Alive(n) = {}
        <5>1. \A s \in Call : session[s].login = n => session[s].state = "none"
          BY CommitFacts, CommitAlive DEF BookInv, SessionInv
        <5>2. QED
          BY <5>1 DEF Alive
      <4>3. QED
        BY <4>1, <4>2
    <3>3. CASE call[n].kind # "login"
      <4>1. PICK l : l = session'[n].login /\ l = session[call[n].found].login
        BY <3>1, <3>3, CommitFacts
      <4>2. Alive(l)' \subseteq {n}
        BY <2>2, <3>1, <3>3, <4>1
      <4>3. QED
        BY <4>1, <4>2
    <3>4. QED
      BY <3>2, <3>3
  <2>4. ASSUME NEW l \in Call, session'[l].login = l, call'[l].browser = b,
               NEW s \in Alive(l)', NEW t \in Alive(l)'
        PROVE  s = t
    <3>1. CASE call'[n].reply = "cookie" /\ l = session'[n].login
      BY <2>3, <2>4, <3>1
    <3>2. CASE call'[n].reply # "cookie" \/ l # session'[n].login
      <4>1. l # n
        BY <1>7, <2>4, <3>2, CommitFacts
      <4>2. session[l].login = l /\ call[l].browser = b /\ Alive(l)' \subseteq Alive(l)
        BY <1>4, <1>6, <2>4, <3>2, <4>1, CommitAlive
      <4>3. QED
        BY <1>3, <2>4, <4>2 DEF AloneInv
    <3>3. QED
      BY <3>1, <3>2
  <2>5. AloneInv(b)'
    <3>1. (\A l \in Call : session[l].login = l /\ call[l].browser = b => \A s, t \in Alive(l) : s = t)'
      BY <2>4
    <3>2. QED
      BY <1>2, <1>3, <1>4, <1>5, <2>1, <3>1 DEF AloneInv
  <2>6. ASSUME mishaps' = 0 PROVE LatestInv(b)'
    <3>1. LatestInv(b)
      BY <1>3, <2>6
    <3>2. (\A x \in OnItsWay(b) : call[x].pc \in {"user", "commit"} /\ call[x].found # 0 =>
             session[call[x].found].state = "active")'
      BY <1>4, <1>5, <2>1
    <3>3. (\A x \in OnItsWay(b) : HasCookie(x) => Alive(session[x].login) \subseteq {x})'
      BY <1>5, <2>1, <2>3 DEF HasCookie
    <3>4. (jar[b] # 0 /\ (\A x \in OnItsWay(b) : ~HasCookie(x)) =>
             Alive(session[jar[b]].login) \subseteq {jar[b]})'
      <4>1. SUFFICES ASSUME ~HasCookie(n)' PROVE (Alive(session[jar[b]].login) \subseteq {jar[b]})'
        BY <1>5, <2>1
      <4>2. call'[n].reply # "cookie" /\ call[n].kind # "login"
        BY <1>4, <4>1, CommitFacts DEF HasCookie, BookInv, CallInv
      <4>3. PICK f \in Call : f = jar[b] /\ f = jar'[b] /\ f = call[n].found /\ f # n
        BY <1>2, <2>2, <4>2, CommitFacts
      <4>4. PICK l : l = session[f].login /\ l = session'[f].login
        BY <1>6, <4>3
      <4>5. Alive(l)' = {}
        BY <2>2, <4>2, <4>3, <4>4
      <4>6. QED
        BY <4>3, <4>4, <4>5
    <3>5. (\A x \in Call : call[x].browser = b /\ call[x].reply = "cleared" /\ call[x].cookie # 0 =>
             Alive(session[call[x].cookie].login) = {})'
      <4>1. ASSUME NEW m \in Call, call'[m].browser = b, call'[m].reply = "cleared", call'[m].cookie # 0
            PROVE  (Alive(session[call[m].cookie].login) = {})'
        <5>1. PICK s \in Call : s = call[m].cookie /\ s = call'[m].cookie /\ s # n
          BY <1>4, <1>8, <4>1
        <5>2. PICK l \in Call : /\ l = session[s].login /\ l = session'[s].login
                                /\ session[l].login = l
          BY <1>4, <1>6, <1>7, <1>8, <4>1, <5>1, CommitAlive
        <5>3. CASE m = n
          <6>1. call[n].kind # "login" /\ call'[n].reply # "cookie"
            BY <4>1, <5>3, CommitFacts
          <6>2. Alive(l)' = {}
            BY <2>2, <5>1, <5>2, <5>3, <6>1
          <6>3. QED
            BY <5>1, <5>2, <6>2
        <5>4. CASE m # n
          <6>1. Alive(l) = {}
            BY <1>4, <1>7, <3>1, <4>1, <5>1, <5>2, <5>4 DEF LatestInv
          <6>2. call'[n].reply = "cookie" => l # session'[n].login
            <7>1. SUFFICES ASSUME call'[n].reply = "cookie", l = session'[n].login PROVE FALSE
              OBVIOUS
            <7>2. CASE call[n].kind = "login"
              BY <5>2, <7>1, <7>2, CommitFacts, CommitAlive
            <7>3. CASE call[n].kind # "login"
              <8>1. PICK f \in Call : f = call[n].found /\ f # 0
                BY <2>2, <7>3, CommitFacts
              <8>2. session[f].state = "active" /\ l = session[f].login
                BY <1>4, <2>1, <3>1, <7>1, <7>3, <8>1, CommitFacts DEF LatestInv
              <8>3. f \in Alive(l)
                BY <8>1, <8>2 DEF Alive
              <8>4. QED
                BY <6>1, <8>3
            <7>4. QED
              BY <7>2, <7>3
          <6>3. Alive(l)' \subseteq Alive(l)
            BY <6>2, CommitAlive
          <6>4. QED
            BY <5>1, <5>2, <6>1, <6>3
        <5>5. QED
          BY <5>3, <5>4
      <4>2. QED
        BY <4>1
    <3>6. QED
      BY <3>2, <3>3, <3>4, <3>5 DEF LatestInv
  <2>7. QED
    BY <2>5, <2>6
<1>12. QED
  BY <1>10, <1>11

LEMMA RotationStep ==
  ASSUME BoundIsNatural, BookInv, RotationInv, [AuthNext]_authVars
  PROVE  BookInv' /\ RotationInv'
<1>1. ASSUME NEW b \in Browser, NEW kind \in CallKind, Send(b, kind) PROVE BookInv' /\ RotationInv'
  BY <1>1, SendBook, SendRotation
<1>2. ASSUME NEW n \in Call, Find(n) PROVE BookInv' /\ RotationInv'
  <2>1. UNCHANGED <<session, jar, mishaps, overlapped>>
    BY <1>2 DEF Find
  <2>2. ~HasCookie(n) /\ ~HasCookie(n)'
    BY <1>2, FindFacts DEF HasCookie
  <2>3. BookInv'
    BY <1>2, FindFacts
  <2>4. /\ \A m \in Call : m # n => call'[m] = call[m]
        /\ call[n].pc = "find" /\ call'[n].pc \in {"user", "commit", "answer"}
        /\ call'[n].browser = call[n].browser /\ call'[n].cookie = call[n].cookie
        /\ call'[n].pc \in {"user", "commit"} =>
             call'[n].found = call[n].cookie /\ session[call[n].cookie].state = "active"
        /\ call'[n].reply = "cleared" =>
             call[n].cookie = 0 \/ session[call[n].cookie].state # "active"
    BY <1>2, FindFacts
  <2>5. RotationInv'
    BY <2>1, <2>2, <2>3, <2>4, MoveRotation
  <2>6. QED
    BY <2>3, <2>5
<1>3. ASSUME NEW n \in Call, ReadUser(n) PROVE BookInv' /\ RotationInv'
  <2>1. UNCHANGED <<session, jar, mishaps, overlapped>>
    BY <1>3 DEF ReadUser
  <2>2. ~HasCookie(n) /\ ~HasCookie(n)'
    BY <1>3, ReadUserFacts DEF HasCookie
  <2>3. BookInv'
    BY <1>3, ReadUserFacts
  <2>4. /\ \A m \in Call : m # n => call'[m] = call[m]
        /\ call[n].pc = "user" /\ call'[n].pc \in {"commit", "answer"}
        /\ call'[n].browser = call[n].browser /\ call'[n].cookie = call[n].cookie
        /\ call'[n].found = call[n].found /\ call'[n].reply # "cleared"
    BY <1>3, ReadUserFacts
  <2>5. RotationInv'
    BY <2>1, <2>2, <2>3, <2>4, MoveRotation
  <2>6. QED
    BY <2>3, <2>5
<1>4. ASSUME NEW n \in Call, CommitCall(n) PROVE BookInv' /\ RotationInv'
  BY <1>4, CommitBook, CommitRotation
<1>5. ASSUME NEW n \in Call, Answer(n) PROVE BookInv' /\ RotationInv'
  BY <1>5, AnswerFacts, AnswerRotation
<1>6. ASSUME NEW n \in Call, Lose(n) PROVE BookInv' /\ RotationInv'
  <2>1. UNCHANGED <<session, jar, overlapped>>
    BY <1>6 DEF Lose
  <2>2. BookInv'
    BY <1>6, LoseFacts
  <2>3. /\ \A m \in Call : m # n => call'[m] = call[m]
        /\ call[n].pc \notin {"unsent", "done"} /\ call'[n].pc = "done"
        /\ call'[n].browser = call[n].browser /\ call'[n].cookie = call[n].cookie
        /\ call'[n].reply = call[n].reply /\ mishaps' # 0
    BY <1>6, LoseFacts
  <2>4. RotationInv'
    BY <2>1, <2>2, <2>3, MoveRotation
  <2>5. QED
    BY <2>2, <2>4
<1>7. ASSUME NEW s \in Call, Expire(s) PROVE BookInv' /\ RotationInv'
  BY <1>7, ExpireBook, ExpireRotation
<1>8. ASSUME UNCHANGED <<session, jar, call, overlapped>>, mishaps' = 0 => mishaps = 0
      PROVE  RotationInv'
  <2>1. SUFFICES ASSUME NEW b \in Browser, b \notin overlapped
                 PROVE  AloneInv(b)' /\ (mishaps' = 0 => LatestInv(b)')
    BY <1>8 DEF RotationInv
  <2>2. AloneInv(b) /\ (mishaps' = 0 => LatestInv(b))
    BY <1>8, <2>1 DEF RotationInv
  <2>3. AloneInv(b)'
    BY <1>8, <2>2 DEF AloneInv, OnItsWay, Alive
  <2>4. LatestInv(b) => LatestInv(b)'
    BY <1>8 DEF LatestInv, OnItsWay, Alive, HasCookie
  <2>5. QED
    BY <2>2, <2>3, <2>4
<1>9. ASSUME Deactivate \/ Bootstrap PROVE BookInv' /\ RotationInv'
  <2>1. mishaps' = 0 => mishaps = 0
    BY <1>9 DEF Deactivate, Bootstrap, Mishap, BookInv, AuthTypeOK
  <2>2. QED
    BY <1>8, <1>9, <2>1, ActiveBook
<1>10. ASSUME UNCHANGED authVars PROVE BookInv' /\ RotationInv'
  <2>1. BookInv'
    BY <1>10 DEF authVars, BookInv, AuthTypeOK, CallInv, SessionInv, Given
  <2>2. QED
    BY <1>8, <1>10, <2>1 DEF authVars
<1>11. QED
  BY <1>1, <1>2, <1>3, <1>4, <1>5, <1>6, <1>7, <1>9, <1>10 DEF AuthNext

(* As long as it sends one request at a time, a browser has at most one     *)
(* session alive per login and, unless something was lost, none after a     *)
(* logout that was answered.                                                *)
THEOREM OneSessionIsKept ==
  ASSUME BoundIsNatural, Browser # {}
  PROVE  AuthSpec => []OneSessionPerLogin
<1>1. AuthInit => BookInv /\ RotationInv
  BY InitAuth
<1>2. BookInv /\ RotationInv /\ [AuthNext]_authVars => BookInv' /\ RotationInv'
  BY RotationStep
<1>3. BookInv /\ RotationInv => OneSessionPerLogin
  <2>1. SUFFICES ASSUME BookInv, RotationInv, NEW n \in Call, call[n].browser \notin overlapped
                 PROVE  /\ \A l \in Call : session[l].login = l /\ call[l].browser = call[n].browser =>
                             Cardinality(Alive(l)) <= 1
                        /\ call[n].reply = "cleared" /\ call[n].cookie # 0 /\ mishaps = 0 =>
                             Alive(session[call[n].cookie].login) = {}
    BY DEF OneSessionPerLogin
  <2>2. PICK b \in Browser : b = call[n].browser
    BY <2>1 DEF BookInv, AuthTypeOK, CallRecord
  <2>3. AloneInv(b) /\ (mishaps = 0 => LatestInv(b))
    BY <2>1, <2>2 DEF RotationInv
  <2>4. ASSUME NEW l \in Call, session[l].login = l, call[l].browser = b
        PROVE  Cardinality(Alive(l)) <= 1
    <3>1. \A s, t \in Alive(l) : s = t
      BY <2>3, <2>4 DEF AloneInv
    <3>2. CASE Alive(l) = {}
      BY <3>2, FS_EmptySet
    <3>3. CASE Alive(l) # {}
      <4>1. PICK s : Alive(l) = {s}
        BY <3>1, <3>3
      <4>2. Cardinality({s}) = 1
        BY FS_Singleton
      <4>3. QED
        BY <4>1, <4>2
    <3>4. QED
      BY <3>2, <3>3
  <2>5. QED
    BY <2>2, <2>3, <2>4 DEF LatestInv
<1>4. QED
  BY <1>1, <1>2, <1>3, PTL DEF AuthSpec

-----------------------------------------------------------------------------
(* Browsers that stay signed in.                                            *)

(* A request that moves on and changes no session and no cookie.            *)
LEMMA MoveStay ==
  ASSUME BookInv, StayInv, NEW n \in Call,
         \A m \in Call : m # n => call'[m] = call[m],
         call[n].pc \notin {"unsent", "done"},
         call'[n].browser = call[n].browser, call'[n].kind = call[n].kind,
         call'[n].pc = "commit" /\ call'[n].kind # "logout" => call'[n].welcome = active,
         ~HasCookie(n)',
         UNCHANGED <<active, session, jar, shut>>,
         signedIn' \subseteq signedIn,
         HasCookie(n) => call[n].browser \notin signedIn'
  PROVE  StayInv'
<1>1. SUFFICES ASSUME ~shut, ~shut'
               PROVE  /\ active'
                      /\ \A m \in Call : call'[m].pc = "commit" /\ call'[m].kind # "logout" => call'[m].welcome
                      /\ \A m \in Call : HasCookie(m)' => Usable(m)'
                      /\ \A b \in signedIn' :
                           /\ jar'[b] # 0
                           /\ \A m \in OnItsWay(b)' : call'[m].kind # "logout"
                           /\ (Usable(jar[b]) \/ \E m \in OnItsWay(b) : HasCookie(m))'
  BY DEF StayInv
<1>2. /\ active
      /\ \A m \in Call : call[m].pc = "commit" /\ call[m].kind # "logout" => call[m].welcome
      /\ \A m \in Call : HasCookie(m) => Usable(m)
  BY <1>1 DEF StayInv
<1>3. \A m \in Call : HasCookie(m)' => m # n /\ HasCookie(m)
  BY DEF HasCookie
<1>4. \A s : Usable(s)' <=> Usable(s)
  BY DEF Usable
<1>5. ASSUME NEW b \in signedIn'
      PROVE  /\ jar'[b] # 0
             /\ \A m \in OnItsWay(b)' : call'[m].kind # "logout"
             /\ (Usable(jar[b]) \/ \E m \in OnItsWay(b) : HasCookie(m))'
  <2>1. /\ jar[b] # 0
        /\ \A m \in OnItsWay(b) : call[m].kind # "logout"
        /\ Usable(jar[b]) \/ \E m \in OnItsWay(b) : HasCookie(m)
    BY <1>1 DEF StayInv
  <2>2. \A m \in OnItsWay(b)' : m \in OnItsWay(b) /\ call'[m].kind = call[m].kind
    BY DEF OnItsWay
  <2>3. ASSUME NEW m \in OnItsWay(b), HasCookie(m) PROVE m \in OnItsWay(b)' /\ HasCookie(m)'
    <3>1. m # n /\ m \in Call
      BY <2>3 DEF OnItsWay
    <3>2. QED
      BY <2>3, <3>1 DEF OnItsWay, HasCookie
  <2>4. Usable(jar[b]) => Usable(jar[b])'
    BY DEF Usable
  <2>5. QED
    BY <2>1, <2>2, <2>3, <2>4
<1>6. QED
  BY <1>2, <1>3, <1>4, <1>5

LEMMA SendStay ==
  ASSUME BoundIsNatural, BookInv, StayInv, NEW x \in Browser, NEW kind \in CallKind, Send(x, kind)
  PROVE  StayInv'
<1>1. PICK n \in Call : n = sent + 1
  BY SendBook
<1>2. /\ \A m \in Call : m # n => call'[m] = call[m]
      /\ call[n].pc = "unsent" /\ call'[n].pc \in {"user", "find"}
      /\ call'[n].browser = x /\ call'[n].kind = kind
  BY <1>1, SendBook
<1>3. /\ UNCHANGED <<active, session, jar, shut>> /\ signedIn' \subseteq signedIn
      /\ kind = "logout" => x \notin signedIn'
  BY DEF Send
<1>4. \A m \in Call : HasCookie(m)' <=> HasCookie(m)
  BY <1>2 DEF HasCookie
<1>5. \A s : Usable(s)' <=> Usable(s)
  BY <1>3 DEF Usable
<1>6. ASSUME ~shut, NEW b \in signedIn'
      PROVE  /\ jar'[b] # 0
             /\ \A m \in OnItsWay(b)' : call'[m].kind # "logout"
             /\ (Usable(jar[b]) \/ \E m \in OnItsWay(b) : HasCookie(m))'
  <2>1. /\ jar[b] # 0
        /\ \A m \in OnItsWay(b) : call[m].kind # "logout"
        /\ Usable(jar[b]) \/ \E m \in OnItsWay(b) : HasCookie(m)
    BY <1>3, <1>6 DEF StayInv
  <2>2. \A m \in OnItsWay(b)' : call'[m].kind # "logout"
    BY <1>2, <1>3, <1>6, <2>1 DEF OnItsWay
  <2>3. \A m \in OnItsWay(b) : HasCookie(m) => m \in OnItsWay(b)' /\ HasCookie(m)'
    BY <1>2, <1>4 DEF OnItsWay
  <2>4. Usable(jar[b]) => Usable(jar[b])'
    BY <1>3 DEF Usable
  <2>5. QED
    BY <1>3, <2>1, <2>2, <2>3, <2>4
<1>7. ~shut => /\ active'
               /\ \A m \in Call : call'[m].pc = "commit" /\ call'[m].kind # "logout" => call'[m].welcome
               /\ \A m \in Call : HasCookie(m)' => Usable(m)'
  BY <1>2, <1>3, <1>4, <1>5 DEF StayInv
<1>8. QED
  BY <1>3, <1>6, <1>7 DEF StayInv

LEMMA CommitStay ==
  ASSUME BookInv, StayInv, NEW n \in Call, CommitCall(n)
  PROVE  StayInv'
<1>1. UNCHANGED <<active, jar, signedIn, shut>>
  BY DEF CommitCall
<1>2. SUFFICES ASSUME ~shut PROVE StayInv'
  BY <1>1 DEF StayInv
<1>3. /\ active
      /\ \A m \in Call : call[m].pc = "commit" /\ call[m].kind # "logout" => call[m].welcome
      /\ \A m \in Call : HasCookie(m) => Usable(m)
  BY <1>2 DEF StayInv
<1>4. /\ \A m \in Call : m # n => call'[m] = call[m]
      /\ call[n].pc = "commit" /\ call'[n].pc = "answer" /\ call'[n].browser = call[n].browser
      /\ call'[n].kind = call[n].kind
  BY CommitFacts
<1>5. call[n].kind # "logout" => HasCookie(n)'
  BY <1>3, CommitFacts DEF HasCookie
(* The session that is revoked was answered to the same browser. *)
<1>6. \A s \in Call : s # n /\ (call[s].pc # "done" \/ call[s].browser # call[n].browser)
                        /\ Usable(s) => Usable(s)'
  BY CommitFacts DEF Usable, Given
<1>7. HasCookie(n)' => Usable(n)'
  BY CommitFacts DEF HasCookie, Usable
<1>8. \A m \in Call : HasCookie(m)' => Usable(m)'
  BY <1>3, <1>4, <1>6, <1>7 DEF HasCookie
<1>9. \A m \in Call : call'[m].pc = "commit" /\ call'[m].kind # "logout" => call'[m].welcome
  BY <1>3, <1>4
<1>10. ASSUME NEW b \in signedIn
       PROVE  /\ jar'[b] # 0
              /\ \A m \in OnItsWay(b)' : call'[m].kind # "logout"
              /\ (Usable(jar[b]) \/ \E m \in OnItsWay(b) : HasCookie(m))'
  <2>1. /\ jar[b] # 0
        /\ \A m \in OnItsWay(b) : call[m].kind # "logout"
        /\ Usable(jar[b]) \/ \E m \in OnItsWay(b) : HasCookie(m)
    BY <1>2 DEF StayInv
  <2>2. OnItsWay(b)' = OnItsWay(b)
    BY <1>4 DEF OnItsWay
  <2>3. \A m \in OnItsWay(b)' : call'[m].kind # "logout"
    BY <1>4, <2>1, <2>2 DEF OnItsWay
  <2>4. CASE call[n].browser = b
    <3>1. n \in OnItsWay(b)
      BY <1>4, <2>4 DEF OnItsWay
    <3>2. HasCookie(n)'
      BY <1>5, <2>1, <3>1
    <3>3. QED
      BY <1>1, <2>1, <2>2, <2>3, <3>1, <3>2
  <2>5. CASE call[n].browser # b
    <3>1. \A m \in OnItsWay(b) : HasCookie(m) => HasCookie(m)'
      BY <1>4, <2>5 DEF OnItsWay, HasCookie
    <3>2. PICK s \in Call : s = jar[b] /\ s = jar'[b] /\ s # n /\ call[s].browser = b
      BY <1>1, <1>4, <2>1 DEF BookInv, AuthTypeOK, Given
    <3>3. Usable(s) => Usable(s)'
      BY <1>6, <2>5, <3>2
    <3>4. Usable(jar[b]) => Usable(jar[b])'
      BY <3>2, <3>3 DEF Usable
    <3>5. QED
      BY <1>1, <2>1, <2>2, <2>3, <3>1, <3>4
  <2>6. QED
    BY <2>4, <2>5
<1>11. QED
  BY <1>1, <1>3, <1>8, <1>9, <1>10 DEF StayInv

LEMMA AnswerStay ==
  ASSUME BoundIsNatural, BookInv, StayInv, NEW n \in Call, Answer(n)
  PROVE  StayInv'
<1>1. UNCHANGED <<active, session, shut>>
  BY DEF Answer
<1>2. SUFFICES ASSUME ~shut PROVE StayInv'
  BY <1>1 DEF StayInv
<1>3. /\ active
      /\ \A m \in Call : call[m].pc = "commit" /\ call[m].kind # "logout" => call[m].welcome
      /\ \A m \in Call : HasCookie(m) => Usable(m)
  BY <1>2 DEF StayInv
<1>4. /\ \A m \in Call : m # n => call'[m] = call[m]
      /\ call[n].pc = "answer" /\ call'[n].pc = "done" /\ call'[n].browser = call[n].browser
      /\ \A b \in Browser : b # call[n].browser => jar'[b] = jar[b]
      /\ jar'[call[n].browser] = CookieAfter(n)
  BY AnswerFacts
<1>5. \A m \in Call : HasCookie(m)' => m # n /\ HasCookie(m)
  BY <1>4 DEF HasCookie
<1>6. \A s : Usable(s)' <=> Usable(s)
  BY <1>1 DEF Usable
<1>7. ASSUME NEW b \in signedIn'
      PROVE  /\ jar'[b] # 0
             /\ \A m \in OnItsWay(b)' : call'[m].kind # "logout"
             /\ (Usable(jar[b]) \/ \E m \in OnItsWay(b) : HasCookie(m))'
  <2>1. b \in Browser /\ OnItsWay(b)' = OnItsWay(b) \ {n}
    BY <1>4, AnswerFacts DEF BookInv, AuthTypeOK, OnItsWay
  <2>2. \A m \in OnItsWay(b)' : m \in OnItsWay(b) /\ call'[m] = call[m]
    BY <1>4, <2>1 DEF OnItsWay
  <2>3. b \in signedIn =>
          /\ jar[b] # 0
          /\ \A m \in OnItsWay(b) : call[m].kind # "logout"
          /\ Usable(jar[b]) \/ \E m \in OnItsWay(b) : HasCookie(m)
    BY <1>2 DEF StayInv
  <2>4. \A m \in OnItsWay(b) : m # n /\ HasCookie(m) => m \in OnItsWay(b)' /\ HasCookie(m)'
    BY <1>4, <2>1 DEF OnItsWay, HasCookie
  <2>5. CASE call[n].browser # b
    <3>1. b \in signedIn /\ n \notin OnItsWay(b) /\ jar'[b] = jar[b]
      BY <1>4, <2>1, <2>5 DEF Answer, OnItsWay
    <3>2. Usable(jar[b]) => Usable(jar[b])'
      BY <1>1, <3>1 DEF Usable
    <3>3. QED
      BY <2>2, <2>3, <2>4, <3>1, <3>2
  <2>6. CASE call[n].browser = b /\ call[n].reply = "cookie"
    <3>1. jar'[b] = n /\ n # 0 /\ Usable(n)
      BY <1>3, <1>4, <2>6 DEF CookieAfter, HasCookie, Call
    <3>2. \A m \in OnItsWay(b) : call[m].kind # "logout"
      BY <2>3, <2>6 DEF Answer
    <3>3. Usable(jar[b])'
      BY <1>1, <3>1 DEF Usable
    <3>4. QED
      BY <2>2, <3>1, <3>2, <3>3
  <2>7. CASE call[n].browser = b /\ call[n].reply # "cookie"
    <3>1. b \in signedIn /\ n \in OnItsWay(b)
      BY <1>4, <2>7 DEF Answer, OnItsWay
    <3>2. call[n].kind # "logout" /\ ~HasCookie(n)
      BY <2>3, <2>7, <3>1 DEF HasCookie
    <3>3. call[n].reply # "cleared"
      BY <3>2 DEF BookInv, CallInv
    <3>4. jar'[b] = jar[b]
      BY <1>4, <2>7, <3>3 DEF CookieAfter
    <3>5. Usable(jar[b]) => Usable(jar[b])'
      BY <1>1, <3>4 DEF Usable
    <3>6. QED
      BY <2>2, <2>3, <2>4, <3>1, <3>2, <3>4, <3>5
  <2>8. QED
    BY <2>5, <2>6, <2>7
<1>8. QED
  <2>1. \A m \in Call : call'[m].pc = "commit" /\ call'[m].kind # "logout" => call'[m].welcome
    BY <1>3, <1>4
  <2>2. QED
    BY <1>1, <1>3, <1>5, <1>6, <1>7, <2>1 DEF StayInv

LEMMA StayStep ==
  ASSUME BoundIsNatural, BookInv, StayInv, [AuthNext]_authVars
  PROVE  StayInv'
<1>1. ASSUME NEW b \in Browser, NEW kind \in CallKind, Send(b, kind) PROVE StayInv'
  BY <1>1, SendStay
<1>2. ASSUME NEW n \in Call, Find(n) PROVE StayInv'
  <2>1. UNCHANGED <<active, session, jar, shut, signedIn>>
    BY <1>2 DEF Find
  <2>2. ~HasCookie(n) /\ ~HasCookie(n)'
    BY <1>2, FindFacts DEF HasCookie
  <2>3. QED
    BY <1>2, <2>1, <2>2, FindFacts, MoveStay
<1>3. ASSUME NEW n \in Call, ReadUser(n) PROVE StayInv'
  <2>1. UNCHANGED <<active, session, jar, shut, signedIn>>
    BY <1>3 DEF ReadUser
  <2>2. ~HasCookie(n) /\ ~HasCookie(n)'
    BY <1>3, ReadUserFacts DEF HasCookie
  <2>3. QED
    BY <1>3, <2>1, <2>2, ReadUserFacts, MoveStay
<1>4. ASSUME NEW n \in Call, CommitCall(n) PROVE StayInv'
  BY <1>4, CommitStay
<1>5. ASSUME NEW n \in Call, Answer(n) PROVE StayInv'
  BY <1>5, AnswerStay
<1>6. ASSUME NEW n \in Call, Lose(n) PROVE StayInv'
  <2>1. /\ UNCHANGED <<active, session, jar, shut>>
        /\ signedIn' \subseteq signedIn /\ call[n].browser \notin signedIn'
    BY <1>6 DEF Lose
  <2>2. ~HasCookie(n)'
    BY <1>6, LoseFacts DEF HasCookie
  <2>3. QED
    BY <1>6, <2>1, <2>2, LoseFacts, MoveStay
<1>7. ASSUME NEW s \in Call, Expire(s) PROVE StayInv'
  <2>1. UNCHANGED <<active, jar, call, signedIn, shut>>
    BY <1>7 DEF Expire
  <2>2. \A x \in Call : Usable(x) => Usable(x)'
    BY <1>7, ExpireBook DEF Usable
  <2>3. \A b \in signedIn : jar[b] # 0 => jar[b] \in Call
    BY DEF BookInv, AuthTypeOK, Given
  <2>4. \A b \in signedIn : jar[b] # 0 /\ Usable(jar[b]) => Usable(jar[b])'
    BY <2>1, <2>2, <2>3 DEF Usable
  <2>5. /\ \A m : HasCookie(m)' <=> HasCookie(m)
        /\ \A b : OnItsWay(b)' = OnItsWay(b)
    BY <2>1 DEF HasCookie, OnItsWay
  <2>6. QED
    BY <2>1, <2>2, <2>4, <2>5 DEF StayInv
<1>8. ASSUME Deactivate \/ Bootstrap PROVE StayInv'
  BY <1>8 DEF Deactivate, Bootstrap, StayInv
<1>9. ASSUME UNCHANGED authVars PROVE StayInv'
  BY <1>9 DEF authVars, StayInv, HasCookie, Usable, OnItsWay
<1>10. QED
  BY <1>1, <1>2, <1>3, <1>4, <1>5, <1>6, <1>7, <1>8, <1>9 DEF AuthNext

(* Refreshes that race do not sign a browser out.                           *)
THEOREM RacingRefreshesStaySignedIn ==
  ASSUME BoundIsNatural, Browser # {}
  PROVE  AuthSpec => []StaysSignedIn
<1>1. AuthInit => BookInv /\ RotationInv /\ StayInv
  BY InitAuth
<1>2. BookInv /\ RotationInv /\ StayInv /\ [AuthNext]_authVars => (BookInv /\ RotationInv /\ StayInv)'
  BY RotationStep, StayStep
<1>3. BookInv /\ StayInv => StaysSignedIn
  BY DEF StayInv, StaysSignedIn, Quiet, Usable
<1>4. QED
  BY <1>1, <1>2, <1>3, PTL DEF AuthSpec
=============================================================================
