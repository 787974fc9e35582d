-------------------------- MODULE RefreshSessions --------------------------
(***************************************************************************)
(* Logins: the auth_refresh_sessions rows, the refresh cookie of a browser *)
(* and the requests to /auth/login, /auth/refresh and /auth/logout.  A     *)
(* refresh reads its session, then the user, and commits the successor; a  *)
(* browser with two tabs has several of these requests on their way.       *)
(***************************************************************************)
EXTENDS Integers, FiniteSets

CONSTANTS
  Browser,        (* The browsers the user is signed in from.               *)
  MaxCalls,       (* Bound: requests sent in a behaviour.                   *)
  MaxMishaps      (* Bound: requests lost, sessions expired, users shut out.*)

VARIABLES
  active,         (* The user's is_active.                                  *)
  session,        (* The rows, numbered by the request that made them.      *)
  jar,            (* Per browser, the session its cookie is for, 0 for none.*)
  call,           (* The requests.                                          *)
  sent,           (* Requests sent so far.                                  *)
  mishaps,        (* Of these, so far.                                      *)
  signedIn,       (* History: browsers that logged in, did not log out      *)
                  (* since and lost no answer since.                        *)
  overlapped,     (* History: browsers that had two requests on their way.  *)
  shut            (* History: the user has been inactive.                   *)

authVars == <<active, session, jar, call, sent, mishaps, signedIn, overlapped, shut>>

-----------------------------------------------------------------------------
Call == 1 .. MaxCalls

(* login is the first session of those that were rotated into this one.     *)
SessionState == {"none", "active", "revoked", "expired"}
Session      == [state : SessionState, login : 0 .. MaxCalls]

CallKind  == {"login", "refresh", "logout"}
CallPc  == {"unsent", "find", "user", "commit", "answer", "done"}
Reply == {"none", "cookie", "refused", "cleared"}

(* cookie is what the browser sent; found is the row that was read.         *)
CallRecord == [pc : CallPc, kind : CallKind, browser : Browser, cookie : 0 .. MaxCalls,
            found : 0 .. MaxCalls, welcome : BOOLEAN, reply : Reply]

Ended(c)    == [c EXCEPT !.pc = "done", !.found = 0, !.welcome = FALSE]
OnItsWay(b) == {n \in Call : call[n].browser = b /\ call[n].pc \notin {"unsent", "done"}}
Quiet(b)    == OnItsWay(b) = {}
Alive(l)    == {s \in Call : session[s].login = l /\ session[s].state = "active"}

-----------------------------------------------------------------------------
AuthInit ==
  /\ active = TRUE
  /\ session = [s \in Call |-> [state |-> "none", login |-> 0]]
  /\ jar = [b \in Browser |-> 0]
  /\ call = [n \in Call |-> [pc |-> "unsent", kind |-> "login", cookie |-> 0, found |-> 0,
                             browser |-> CHOOSE b \in Browser : TRUE,
                             welcome |-> FALSE, reply |-> "none"]]
  /\ sent = 0
  /\ mishaps = 0
  /\ signedIn = {}
  /\ overlapped = {}
  /\ shut = FALSE

(* A browser sends a request with the cookie it has.                        *)
Send(b, kind) ==
  /\ sent < MaxCalls
  /\ sent' = sent + 1
  /\ call' = [call EXCEPT ![sent + 1] =
       [@ EXCEPT !.pc = IF kind = "login" THEN "user" ELSE "find",
                 !.kind = kind, !.browser = b, !.cookie = jar[b]]]
  /\ overlapped' = IF Quiet(b) THEN overlapped ELSE overlapped \cup {b}
  /\ signedIn' = IF kind = "logout" THEN signedIn \ {b} ELSE signedIn
  /\ UNCHANGED <<active, session, jar, mishaps, shut>>

(* get_active_refresh_session; a refresh without one is refused, a logout   *)
(* without one only clears the cookie.                                      *)
Find(n) ==
  LET c == call[n]
      found == IF c.cookie # 0 /\ session[c.cookie].state = "active" THEN c.cookie ELSE 0
  IN
  /\ c.pc = "find"
  /\ call' = [call EXCEPT ![n] =
       CASE found # 0 /\ c.kind = "refresh" -> [@ EXCEPT !.pc = "user", !.found = found]
         [] found # 0 /\ c.kind = "logout"  -> [@ EXCEPT !.pc = "commit", !.found = found]
         [] found = 0 /\ c.kind = "refresh" -> [@ EXCEPT !.pc = "answer", !.reply = "refused"]
         [] OTHER                           -> [@ EXCEPT !.pc = "answer", !.reply = "cleared"]]
  /\ UNCHANGED <<active, session, jar, sent, mishaps, signedIn, overlapped, shut>>

(* The user and the password are checked; the session of an inactive user   *)
(* is revoked.                                                              *)
ReadUser(n) ==
  /\ call[n].pc = "user"
  /\ call' = [call EXCEPT ![n] =
       IF active \/ @.kind = "refresh" THEN [@ EXCEPT !.pc = "commit", !.welcome = active]
                                       ELSE [@ EXCEPT !.pc = "answer", !.reply = "refused"]]
  /\ UNCHANGED <<active, session, jar, sent, mishaps, signedIn, overlapped, shut>>

RotatedKeeping(n) ==
  LET c == call[n] IN
  [session EXCEPT ![n] =
    [state |-> "active", login |-> IF c.kind = "login" THEN n ELSE session[c.found].login]]

(* A login adds a session; a refresh replaces the one it found by another.  *)
Rotated(n) ==
  LET c == call[n] IN
  IF c.kind = "login" THEN [session EXCEPT ![n] = [state |-> "active", login |-> n]]
  ELSE [session EXCEPT ![c.found].state = "revoked",
                       ![n] = [state |-> "active", login |-> session[c.found].login]]

CommitCall(n) ==
  LET c == call[n] IN
  /\ c.pc = "commit"
  /\ \/ /\ c.kind # "logout" /\ c.welcome
        /\ session' = Rotated(n)
        /\ call' = [call EXCEPT ![n] = [@ EXCEPT !.pc = "answer", !.reply = "cookie"]]
     \/ /\ c.kind = "logout" \/ ~c.welcome
        /\ session' = [session EXCEPT ![c.found].state = "revoked"]
        /\ call' = [call EXCEPT ![n] = [@ EXCEPT !.pc = "answer",
             !.reply = IF c.kind = "logout" THEN "cleared" ELSE "refused"]]
  /\ UNCHANGED <<active, jar, sent, mishaps, signedIn, overlapped, shut>>

CookieAfterClearing(n) ==
  CASE call[n].reply = "cookie" -> n
    [] call[n].reply \in {"cleared", "refused"} -> 0
    [] OTHER -> jar[call[n].browser]

(* What the answer makes of the cookie.  A refused refresh deletes it in a  *)
(* response that the raised HTTPException replaces: the browser keeps it.   *)
CookieAfter(n) ==
  CASE call[n].reply = "cookie"  -> n
    [] call[n].reply = "cleared" -> 0
    [] OTHER                     -> jar[call[n].browser]

Answer(n) ==
  LET b == call[n].browser IN
  /\ call[n].pc = "answer"
  /\ jar' = [jar EXCEPT ![b] = CookieAfter(n)]
  /\ call' = [call EXCEPT ![n] = Ended(@)]
  /\ signedIn' = IF /\ call[n].kind = "login" /\ call[n].reply = "cookie"
                    /\ \A m \in OnItsWay(b) : call[m].kind # "logout"
                 THEN signedIn \cup {b} ELSE signedIn
  /\ UNCHANGED <<active, session, sent, mishaps, overlapped, shut>>

Mishap == mishaps < MaxMishaps /\ mishaps' = mishaps + 1

(* The server dies, the transaction is refused or the answer is lost.       *)
Lose(n) ==
  /\ Mishap
  /\ call[n].pc \in {"find", "user", "commit", "answer"}
  /\ call' = [call EXCEPT ![n] = Ended(@)]
  /\ signedIn' = signedIn \ {call[n].browser}
  /\ UNCHANGED <<active, session, jar, sent, overlapped, shut>>

(* expires_at passes. *)
Expire(s) ==
  /\ Mishap
  /\ session[s].state = "active"
  /\ session' = [session EXCEPT ![s].state = "expired"]
  /\ UNCHANGED <<active, jar, call, sent, signedIn, overlapped, shut>>

(* The user is made inactive in the database,                              *)
Deactivate ==
  /\ Mishap
  /\ active
  /\ active' = FALSE
  /\ shut' = TRUE
  /\ UNCHANGED <<session, jar, call, sent, signedIn, overlapped>>

(* and active again by bootstrap_auth_user when a server starts.            *)
Bootstrap ==
  /\ ~active
  /\ active' = TRUE
  /\ UNCHANGED <<session, jar, call, sent, mishaps, signedIn, overlapped, shut>>

AuthNext ==
  \/ \E b \in Browser, kind \in CallKind : Send(b, kind)
  \/ \E n \in Call : \/ Find(n)
                     \/ ReadUser(n)
                     \/ CommitCall(n)
                     \/ Answer(n)
                     \/ Lose(n)
                     \/ Expire(n)
  \/ Deactivate
  \/ Bootstrap

AuthSpec == AuthInit /\ [][AuthNext]_authVars

-----------------------------------------------------------------------------
(* Refreshes that race with the same cookie do not sign a browser out: when *)
(* its answers have arrived, in whatever order, and none was lost, the      *)
(* cookie it is left with is for a session nobody has revoked.              *)
StaysSignedIn ==
  \A b \in Browser :
    b \in signedIn /\ Quiet(b) /\ ~shut =>
      jar[b] # 0 /\ session[jar[b]].state \in {"active", "expired"}

(* As long as a browser sends one request at a time, a login never has two  *)
(* sessions alive, even if answers are lost, and a logout that was answered *)
(* leaves none of those of the cookie it was sent with.                     *)
OneSessionPerLogin ==
  \A n \in Call :
    LET c == call[n] IN
    /\ c.pc # "unsent" /\ c.browser \notin overlapped =>
         \A l \in Call : session[l].login = l /\ call[l].browser = c.browser =>
           Cardinality(Alive(l)) <= 1
    /\ c.pc = "done" /\ c.reply = "cleared" /\ c.cookie # 0 /\ mishaps = 0
       /\ c.browser \notin overlapped =>
         Alive(session[c.cookie].login) = {}

-----------------------------------------------------------------------------
(* Inductive invariant. *)

AuthTypeOK ==
  /\ active \in BOOLEAN
  /\ session \in [Call -> Session]
  /\ jar \in [Browser -> 0 .. MaxCalls]
  /\ call \in [Call -> CallRecord]
  /\ sent \in 0 .. MaxCalls
  /\ mishaps \in Nat
  /\ signedIn \subseteq Browser
  /\ overlapped \subseteq Browser
  /\ shut \in BOOLEAN

(* A session that a browser was answered with. *)
Given(s, b) == s \in Call /\ session[s].state # "none" /\ call[s].pc = "done" /\ call[s].browser = b

(* What a request has read and is going to answer. *)
CallInv(n) ==
  LET c == call[n] IN
  /\ n > sent <=> c.pc = "unsent"
  /\ c.pc \in {"unsent", "find"} => c.found = 0
  /\ c.pc = "find" => c.kind # "login"
  /\ c.pc = "user" => c.kind # "logout"
  /\ c.pc \in {"user", "commit"} /\ c.kind # "login" => c.found # 0
  /\ c.pc = "commit" /\ c.kind = "login" => c.welcome
  /\ c.pc = "answer" => c.reply # "none"
  /\ c.reply # "none" => c.pc \in {"answer", "done"}
  /\ c.reply = "cleared" => c.kind = "logout"
  /\ c.reply = "cookie" => c.kind # "logout" /\ session[n].state # "none"
  /\ c.found # 0 => c.found = c.cookie
  /\ c.cookie # 0 => Given(c.cookie, c.browser)

(* A session was made by its request, and goes back to a login from the     *)
(* same browser.                                                            *)
SessionInv(s) ==
  LET l == session[s].login IN
  /\ session[s].state = "none" => l = 0
  /\ session[s].state # "none" => /\ call[s].pc \in {"answer", "done"}
                                  /\ l \in Call /\ session[l].login = l
                                  /\ call[l].browser = call[s].browser

BookInv ==
  /\ AuthTypeOK
  /\ \A n \in Call : CallInv(n) /\ SessionInv(n)
  /\ \A b \in Browser : jar[b] # 0 => Given(jar[b], b)

(* The requests of a browser that sends one at a time rotate the only       *)
(* session of a login that is alive;                                        *)
HasCookie(n) == call[n].pc = "answer" /\ call[n].reply = "cookie"

AloneInv(b) ==
  /\ \A m, n \in OnItsWay(b) : m = n
  /\ \A n \in OnItsWay(b) : call[n].cookie = jar[b]
  /\ \A l \in Call : session[l].login = l /\ call[l].browser = b => \A s, t \in Alive(l) : s = t
  /\ \A n \in OnItsWay(b) : call[n].pc \in {"user", "commit"} /\ call[n].found # 0 =>
       Alive(session[call[n].found].login) \subseteq {call[n].found}

(* without lost answers this is the session of the cookie, or of the answer *)
(* that will bring the next one.                                            *)
LatestInv(b) ==
  /\ \A n \in OnItsWay(b) : call[n].pc \in {"user", "commit"} /\ call[n].found # 0 =>
       session[call[n].found].state = "active"
  /\ \A n \in OnItsWay(b) : HasCookie(n) => Alive(session[n].login) \subseteq {n}
  /\ jar[b] # 0 /\ (\A n \in OnItsWay(b) : ~HasCookie(n)) =>
       Alive(session[jar[b]].login) \subseteq {jar[b]}
  /\ \A n \in Call : call[n].browser = b /\ call[n].reply = "cleared" /\ call[n].cookie # 0 =>
       Alive(session[call[n].cookie].login) = {}

RotationInv ==
  \A b \in Browser \ overlapped : AloneInv(b) /\ (mishaps = 0 => LatestInv(b))

(* A session is revoked only by a request that brings its browser another   *)
(* one, as long as the user is active and does not log out.                 *)
Usable(s) == session[s].state \in {"active", "expired"}

StayInv ==
  ~shut =>
    /\ active
    /\ \A n \in Call : call[n].pc = "commit" /\ call[n].kind # "logout" => call[n].welcome
    /\ \A n \in Call : HasCookie(n) => Usable(n)
    /\ \A b \in signedIn :
         /\ jar[b] # 0
         /\ \A n \in OnItsWay(b) : call[n].kind # "logout"
         /\ Usable(jar[b]) \/ \E n \in OnItsWay(b) : HasCookie(n)
=============================================================================
