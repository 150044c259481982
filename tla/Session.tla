-------------------------------- MODULE Session --------------------------------
(***************************************************************************)
(* One tab of the web client and the session it holds: the access token    *)
(* and the Subsonic credentials in the tab, the two cookies of the         *)
(* browser, the calls under way, and the refresh they share when the token *)
(* has expired.  A step of the tab is one turn of its JavaScript.          *)
(***************************************************************************)
CONSTANTS
  Call,      \* bound: calls under way at once
  Idle

VARIABLES
  account,      \* users at the hub: the "first" password, a "second", or "gone"
  token,        \* accessToken, and its copy in localStorage
  creds,        \* subsonicCreds: the password it holds, or "none"
  jar,          \* the cookies: access_token and refresh_token
  path,         \* where the tab is: "login", "invite" or the rest, "app"
  user,         \* useAuth.user is set
  calls,        \* requests under way and what they have come to
  refreshing,   \* refreshPromise: "idle", "sent", "renewed", "refused"
  calm          \* history: nothing has happened since the login but expiry

Exchange ==
  [kind : {"api", "me", "login", "logout"},
   header : {"none", "live", "expired", "first", "second", "gone"}, first : BOOLEAN,
   stage : {"sent", "answered", "refused", "refreshing"}]

IdleAssumption == Idle \notin Exchange

sessionVars == <<account, token, creds, jar, path, user, calls, refreshing, calm>>

NoCookie == [access |-> FALSE, refresh |-> FALSE]
Cookies == [access |-> TRUE, refresh |-> TRUE]

NoCalls == [c \in Call |-> Idle]

Stage(c) == IF calls[c] = Idle THEN "idle" ELSE calls[c].stage

\* A request as apiFetch sends it: with the token of this moment.
Sent(kind, header, first) ==
  [kind |-> kind, header |-> header, first |-> first, stage |-> "sent"]

Without(c) == [calls EXCEPT ![c] = Idle]

Init ==
  /\ account = "first"
  /\ token = "none" /\ creds = "none" /\ jar = NoCookie
  /\ path \in {"login", "invite"} /\ user = FALSE
  /\ calls = NoCalls /\ refreshing = "idle" /\ calm = FALSE

-----------------------------------------------------------------------------
(* Pages.                                                                  *)

\* A page load at p drops every request of the page before.  Away from the two
\* open routes checkAuth asks who this is if there is a token (held) and
\* otherwise the router turns to /login.
Loaded(p, held) ==
  /\ user' = FALSE
  /\ refreshing' = "idle"
  /\ path' = IF p = "app" /\ held = "none" THEN "login" ELSE p
  /\ \E c \in Call :
       calls' = IF p = "app" /\ held # "none"
                  THEN [NoCalls EXCEPT ![c] = Sent("me", held, TRUE)]
                  ELSE NoCalls

Load(p) ==
  /\ Loaded(p, token)
  /\ UNCHANGED <<account, token, creds, jar, calm>>

\* clearTokens, and the redirect unless the page is one of open, where the other
\* requests (left, refresh) go on.
SignedOut(open, left, refresh) ==
  /\ token' = "none" /\ creds' = "none"
  /\ IF path \in open
       THEN /\ calls' = left /\ refreshing' = refresh
            /\ UNCHANGED <<path, user>>
       ELSE Loaded("login", "none")

-----------------------------------------------------------------------------
(* Calls.                                                                  *)

Send(c) ==
  /\ path = "app" /\ user /\ calls[c] = Idle
  /\ calls' = [calls EXCEPT ![c] = Sent("api", token, TRUE)]
  /\ UNCHANGED <<account, token, creds, jar, path, user, refreshing, calm>>

\* requireAuth: the header, or the cookie of a request without one.
Authorized(call) ==
  /\ account # "gone"
  /\ call.header = "live" \/ (call.header = "none" /\ jar.access)

\* The hub answers: /logout to anyone, /login with the present password.
Served(call) ==
  CASE call.kind \in {"api", "me"} ->
         [call EXCEPT !.stage = IF Authorized(call) THEN "answered" ELSE "refused"]
    [] call.kind = "login" ->
         [call EXCEPT !.stage = IF account = "gone" THEN "refused" ELSE "answered",
                      !.header = account]
    [] call.kind = "logout" -> [call EXCEPT !.stage = "answered"]

Serve(c) ==
  /\ Stage(c) = "sent"
  /\ calls' = [calls EXCEPT ![c] = Served(calls[c])]
  /\ UNCHANGED <<account, token, creds, jar, path, user, refreshing, calm>>

\* The answer of a call with a session arrives.
Answer(c) ==
  /\ Stage(c) = "answered" /\ calls[c].kind \in {"api", "me"}
  /\ calls' = Without(c)
  /\ user' = (user \/ calls[c].kind = "me")
  /\ UNCHANGED <<account, token, creds, jar, path, refreshing, calm>>

\* A first 401 joins the refresh under way, or begins it.
Await(c) ==
  /\ Stage(c) = "refused" /\ calls[c].kind \in {"api", "me"} /\ calls[c].first
  /\ calls' = [calls EXCEPT ![c].stage = "refreshing"]
  /\ refreshing' = IF refreshing = "idle" THEN "sent" ELSE refreshing
  /\ UNCHANGED <<account, token, creds, jar, path, user, calm>>

\* A second 401 ends the session.
Expelled(c) ==
  /\ Stage(c) = "refused" /\ calls[c].kind \in {"api", "me"} /\ ~calls[c].first
  /\ SignedOut({"login", "invite"}, Without(c), refreshing)
  /\ UNCHANGED <<account, jar, calm>>

\* No answer: an error for the caller, which checkAuth takes for a lost session.
Lose(c) ==
  /\ Stage(c) \in {"sent", "answered"} /\ calls[c].kind \in {"api", "me"}
  /\ IF calls[c].kind = "me"
       THEN /\ token' = "none" /\ creds' = "none" /\ calm' = FALSE
            /\ user' = FALSE /\ path' = "login"
       ELSE UNCHANGED <<token, creds, calm, user, path>>
  /\ calls' = Without(c)
  /\ UNCHANGED <<account, jar, refreshing>>

-----------------------------------------------------------------------------
(* The refresh.                                                            *)

RefreshServe ==
  /\ refreshing = "sent"
  /\ refreshing' = IF jar.refresh /\ account # "gone" THEN "renewed" ELSE "refused"
  /\ UNCHANGED <<account, token, creds, jar, path, user, calls, calm>>

\* Mutant: the retry repeats the request with the headers it was built with.
RetriedAsBuilt(call) == Sent(call.kind, call.header, FALSE)

Retried(call) == Sent(call.kind, "live", FALSE)

\* Everyone who waited for the refresh goes on in the same turn: with the new
\* token, or signed out.
Renewed ==
  /\ refreshing = "renewed"
  /\ refreshing' = "idle"
  /\ token' = "live" /\ jar' = Cookies
  /\ calls' = [c \in Call |-> IF Stage(c) = "refreshing" THEN Retried(calls[c]) ELSE calls[c]]
  /\ UNCHANGED <<account, creds, path, user, calm>>

\* Mutant: a refresh that fails settles nothing for those who wait for it.
NobodyGoes == calls

\* They were answered null, and give up.
LetGo == [c \in Call |-> IF Stage(c) = "refreshing" THEN Idle ELSE calls[c]]

NotRenewed ==
  /\ refreshing \in {"sent", "refused"}
  /\ calm' = (calm /\ refreshing = "refused")
  /\ SignedOut({"login", "invite"}, LetGo, "idle")
  /\ UNCHANGED <<account, jar>>

-----------------------------------------------------------------------------
(* Signing in and out.                                                     *)

\* The form of /login or of /invite.
Login(c) ==
  /\ path \in {"login", "invite"} /\ calls[c] = Idle
  /\ calls' = [calls EXCEPT ![c] = Sent("login", "none", FALSE)]
  /\ UNCHANGED <<account, token, creds, jar, path, user, refreshing, calm>>

LoggedIn(c) ==
  /\ Stage(c) = "answered" /\ calls[c].kind = "login"
  /\ token' = "live" /\ creds' = calls[c].header /\ jar' = Cookies
  /\ user' = TRUE /\ path' = "app"
  /\ calls' = Without(c)
  /\ calm' = (/\ refreshing = "idle" /\ \A d \in Call : calls'[d] = Idle
              /\ creds' = account)
  /\ UNCHANGED <<account, refreshing>>

LoginFails(c) ==
  /\ Stage(c) \in {"sent", "refused"} /\ calls[c].kind = "login"
  /\ calls' = Without(c)
  /\ UNCHANGED <<account, token, creds, jar, path, user, refreshing, calm>>

\* The store forgets the user at once, the tokens only when the hub has answered
\* or could not be reached.
Logout(c) ==
  /\ path = "app" /\ user /\ calls[c] = Idle
  /\ user' = FALSE /\ path' = "login" /\ calm' = FALSE
  /\ calls' = [calls EXCEPT ![c] = Sent("logout", token, TRUE)]
  /\ UNCHANGED <<account, token, creds, jar, refreshing>>

LoggedOut(c) ==
  /\ Stage(c) \in {"sent", "answered"} /\ calls[c].kind = "logout"
  /\ jar' = IF Stage(c) = "answered" THEN NoCookie ELSE jar
  /\ token' = "none" /\ creds' = "none" /\ calm' = FALSE
  /\ calls' = Without(c)
  /\ UNCHANGED <<account, path, user, refreshing>>

\* A Subsonic call of a tab whose password is no longer the account's, or that
\* has none: redirectToLogin spares /login only.
SubsonicRefused ==
  /\ path \in {"app", "invite"}
  /\ creds # account
  /\ SignedOut({"login"}, calls, refreshing)
  /\ UNCHANGED <<account, jar, calm>>

-----------------------------------------------------------------------------
(* Time and the owner.                                                     *)

\* Fifteen minutes.  A call takes less, so no retry is under way.
Expire ==
  /\ \A c \in Call : calls[c] # Idle => calls[c].first \/ calls[c].kind = "login"
  /\ token' = IF token = "live" THEN "expired" ELSE token
  /\ calls' = [c \in Call |->
                 IF Stage(c) = "sent" /\ calls[c].header = "live"
                   THEN [calls[c] EXCEPT !.header = "expired"] ELSE calls[c]]
  /\ jar' = [jar EXCEPT !.access = FALSE]
  /\ UNCHANGED <<account, creds, path, user, refreshing, calm>>

\* Seven days.
ExpireRefresh ==
  /\ jar.refresh
  /\ jar' = [jar EXCEPT !.refresh = FALSE]
  /\ calm' = FALSE
  /\ UNCHANGED <<account, token, creds, path, user, calls, refreshing>>

\* An admin changes the password or deletes the account.
ChangeAccount(a) ==
  /\ account \notin {"gone", a}
  /\ account' = a /\ calm' = FALSE
  /\ UNCHANGED <<token, creds, jar, path, user, calls, refreshing>>

Next ==
  \/ \E p \in {"app", "login", "invite"} : Load(p)
  \/ \E c \in Call :
       \/ Send(c) \/ Serve(c) \/ Answer(c) \/ Await(c) \/ Expelled(c) \/ Lose(c)
       \/ Login(c) \/ LoggedIn(c) \/ LoginFails(c) \/ Logout(c) \/ LoggedOut(c)
  \/ RefreshServe \/ Renewed \/ NotRenewed
  \/ SubsonicRefused
  \/ Expire \/ ExpireRefresh
  \/ \E a \in {"second", "gone"} : ChangeAccount(a)

Spec == Init /\ [][Next]_sessionVars

-----------------------------------------------------------------------------
(* Properties.                                                             *)

TypeOK ==
  /\ account \in {"first", "second", "gone"}
  /\ token \in {"none", "live", "expired"}
  /\ creds \in {"none", "first", "second"}
  /\ jar \in [access : BOOLEAN, refresh : BOOLEAN]
  /\ path \in {"app", "login", "invite"}
  /\ user \in BOOLEAN /\ calm \in BOOLEAN
  /\ refreshing \in {"idle", "sent", "renewed", "refused"}
  /\ calls \in [Call -> Exchange \cup {Idle}]
  /\ (refreshing = "idle") => \A c \in Call : Stage(c) # "refreshing"

\* Expiry alone never signs anyone out: however many calls meet an expired
\* token, and in whatever order their answers, the shared refresh and their
\* retries come, the tab keeps its token and its credentials.
RefreshIsSilent == calm => token # "none" /\ creds # "none"
=============================================================================
