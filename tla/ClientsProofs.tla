----------------------------- MODULE ClientsProofs -----------------------------
(***************************************************************************)
(* Proofs about the parts of module Clients: the session of a tab, the     *)
(* settings of the LAN, the count of a listen and the readers of the       *)
(* catalog; the boots have a module of their own.  They share no variable, *)
(* so each has an inductive invariant of its own; the theorems at the end  *)
(* are about the whole.                                                    *)
(***************************************************************************)
EXTENDS Clients, FiniteOrders, UpgradeProofs, SequenceTheorems, TLAPS

(* The session of a tab.                                                   *)

\* A call that was sent again goes with the token of the refresh, and the hub
\* cannot but accept it.
Accepted(x) ==
  /\ x.kind # "logout"
  /\ x.kind \in {"api", "me"} /\ ~x.first => x.header = "live" /\ x.stage # "refused"

\* A login that was answered carries the password it was answered for.
Honest(x) ==
  x.kind = "login" /\ x.stage = "answered" => x.header \in {"first", "second"}

Typed(t) == t \in [Call -> Session!Exchange \cup {Idle}]
AllHonest(t) == \A c \in Call : t[c] # Idle => Honest(t[c])
AllAccepted(t) == \A c \in Call : t[c] # Idle => Accepted(t[c])
NoneWaits(t) == \A c \in Call : t[c] # Idle => t[c].stage # "refreshing"

\* What a session is while nothing but expiry happens: the password is the one
\* the tab holds, the refresh cookie is good, and no refresh was refused.
Calm ==
  /\ token # "none" /\ creds = account /\ account # "gone"
  /\ jar.refresh /\ refreshing # "refused"
  /\ AllAccepted(calls)

SessionInv == Session!TypeOK /\ AllHonest(calls) /\ (calm => Calm)

\* All but the calls.
Scalars ==
  /\ account \in {"first", "second", "gone"}
  /\ token \in {"none", "live", "expired"}
  /\ creds \in {"none", "first", "second"}
  /\ jar \in [access : BOOLEAN, refresh : BOOLEAN]
  /\ path \in {"app", "login", "invite"}
  /\ user \in BOOLEAN /\ calm \in BOOLEAN
  /\ refreshing \in {"idle", "sent", "renewed", "refused"}

LEMMA SessionTypes ==
  Session!TypeOK <=>
    Scalars /\ Typed(calls) /\ (refreshing = "idle" => NoneWaits(calls))
  BY DEF Session!TypeOK, Scalars, Typed, NoneWaits, Session!Stage

LEMMA SessionTypesNext ==
  Session!TypeOK' <=>
    Scalars' /\ Typed(calls') /\ (refreshing' = "idle" => NoneWaits(calls'))
  BY DEF Session!TypeOK, Scalars, Typed, NoneWaits, Session!Stage

LEMMA Exchanges ==
  ASSUME NEW x \in Session!Exchange
  PROVE  /\ x # Idle
         /\ x.kind \in {"api", "me", "login", "logout"} /\ x.first \in BOOLEAN
         /\ x.header \in {"none", "live", "expired", "first", "second", "gone"}
         /\ x.stage \in {"sent", "answered", "refused", "refreshing"}
  BY ClientsAssumption DEF Session!Exchange, Session!IdleAssumption

\* What is sent for the first time, by a form, and again.
LEMMA FirstCalls ==
  ASSUME NEW kind \in {"api", "me", "logout"}, NEW header \in {"none", "live", "expired"}
  PROVE  LET x == Session!Sent(kind, header, TRUE)
         IN  /\ x \in Session!Exchange /\ Honest(x) /\ x.stage # "refreshing"
             /\ kind # "logout" => Accepted(x)
  BY DEF Session!Sent, Session!Exchange, Honest, Accepted

LEMMA FormCalls ==
  LET x == Session!Sent("login", "none", FALSE)
  IN  x \in Session!Exchange /\ Honest(x) /\ x.stage # "refreshing" /\ Accepted(x)
  BY DEF Session!Sent, Session!Exchange, Honest, Accepted

LEMMA RetriedCalls ==
  ASSUME NEW call \in Session!Exchange
  PROVE  LET x == Session!Retried(call)
         IN  /\ x \in Session!Exchange /\ Honest(x) /\ x.stage # "refreshing"
             /\ Accepted(call) => Accepted(x)
  BY DEF Session!Retried, Session!Sent, Session!Exchange, Honest, Accepted

LEMMA NobodyCalls ==
  /\ Typed(Session!NoCalls) /\ AllHonest(Session!NoCalls)
  /\ AllAccepted(Session!NoCalls) /\ NoneWaits(Session!NoCalls)
  BY DEF Session!NoCalls, Typed, AllHonest, AllAccepted, NoneWaits

\* One call more, or a call that came to something.
LEMMA CallMade ==
  ASSUME NEW t, Typed(t), NEW c \in Call, NEW x \in Session!Exchange
  PROVE  /\ Typed([t EXCEPT ![c] = x])
         /\ AllHonest(t) /\ Honest(x) => AllHonest([t EXCEPT ![c] = x])
         /\ AllAccepted(t) /\ Accepted(x) => AllAccepted([t EXCEPT ![c] = x])
         /\ NoneWaits(t) /\ x.stage # "refreshing" => NoneWaits([t EXCEPT ![c] = x])
  BY DEF Typed, AllHonest, AllAccepted, NoneWaits

LEMMA CallDropped ==
  ASSUME NEW t, Typed(t), NEW c \in Call
  PROVE  /\ Typed([t EXCEPT ![c] = Idle])
         /\ AllHonest(t) => AllHonest([t EXCEPT ![c] = Idle])
         /\ AllAccepted(t) => AllAccepted([t EXCEPT ![c] = Idle])
         /\ NoneWaits(t) => NoneWaits([t EXCEPT ![c] = Idle])
  BY DEF Typed, AllHonest, AllAccepted, NoneWaits

LEMMA SessionStart == Session!Init => SessionInv
  <1> SUFFICES ASSUME Session!Init PROVE SessionInv
    OBVIOUS
  <1>1. Scalars
    BY DEF Session!Init, Scalars, Session!NoCookie
  <1>2. Typed(calls) /\ AllHonest(calls) /\ NoneWaits(calls) /\ ~calm
    BY NobodyCalls DEF Session!Init
  <1> QED
    BY <1>1, <1>2, SessionTypes DEF SessionInv

\* A page load leaves one call at most, and that one fresh.
LEMMA Loading ==
  ASSUME NEW p \in {"app", "login", "invite"}, NEW held \in {"none", "live", "expired"},
         Session!Loaded(p, held)
  PROVE  /\ Typed(calls') /\ AllHonest(calls') /\ AllAccepted(calls') /\ NoneWaits(calls')
         /\ user' = FALSE /\ refreshing' = "idle" /\ path' \in {"app", "login", "invite"}
  <1> DEFINE x == Session!Sent("me", held, TRUE)
  <1>1. x \in Session!Exchange /\ Honest(x) /\ Accepted(x) /\ x.stage # "refreshing"
    BY FirstCalls
  <1>2. PICK c \in Call :
          calls' = Session!NoCalls \/ calls' = [Session!NoCalls EXCEPT ![c] = x]
    BY DEF Session!Loaded
  <1>3. /\ Typed(calls') /\ AllHonest(calls') /\ AllAccepted(calls') /\ NoneWaits(calls')
    <2> HIDE DEF x
    <2> QED
      BY <1>1, <1>2, NobodyCalls, CallMade
  <1> QED
    BY <1>3 DEF Session!Loaded

LEMMA SigningOut ==
  ASSUME Scalars, NEW open, NEW left, NEW refresh \in {"idle", "sent", "renewed", "refused"},
         Typed(left), AllHonest(left), refresh = "idle" => NoneWaits(left),
         Session!SignedOut(open, left, refresh)
  PROVE  /\ Typed(calls') /\ AllHonest(calls')
         /\ refreshing' = "idle" => NoneWaits(calls')
         /\ token' = "none" /\ creds' = "none"
         /\ user' \in BOOLEAN /\ path' \in {"app", "login", "invite"}
         /\ refreshing' \in {"idle", "sent", "renewed", "refused"}
  <1>1. CASE path \in open
    BY <1>1 DEF Session!SignedOut, Scalars
  <1>2. CASE path \notin open
    BY <1>2, Loading DEF Session!SignedOut
  <1> QED
    BY <1>1, <1>2

LEMMA SessionStep == SessionInv /\ [Session!Next]_session => SessionInv'
  <1> SUFFICES ASSUME SessionInv, [Session!Next]_session PROVE SessionInv'
    OBVIOUS
  <1>1. /\ Scalars /\ Typed(calls) /\ AllHonest(calls)
        /\ refreshing = "idle" => NoneWaits(calls)
        /\ calm => Calm
    BY SessionTypes DEF SessionInv
  <1>2. SUFFICES /\ Scalars' /\ Typed(calls') /\ AllHonest(calls')
                 /\ refreshing' = "idle" => NoneWaits(calls')
                 /\ calm' => Calm'
    BY SessionTypesNext DEF SessionInv
  <1>3. \A c \in Call : calls[c] # Idle =>
          calls[c] \in Session!Exchange /\ Honest(calls[c]) /\ (calm => Accepted(calls[c]))
    BY <1>1 DEF Typed, AllHonest, Calm, AllAccepted
  <1>4. CASE UNCHANGED session
    BY <1>1, <1>4 DEF session, Scalars, Calm, AllAccepted, AllHonest, Typed, NoneWaits
  <1>5. ASSUME NEW p \in {"app", "login", "invite"}, Session!Load(p)
        PROVE  <1>2!1
    BY <1>1, <1>5, Loading DEF Session!Load, Scalars, Calm
  <1>6. ASSUME NEW c \in Call, NEW x \in Session!Exchange, Honest(x), calm => Accepted(x),
               x.stage # "refreshing", calls' = [calls EXCEPT ![c] = x],
               UNCHANGED <<account, token, creds, jar, path, user, refreshing, calm>>
        PROVE  <1>2!1
    BY <1>1, <1>6, CallMade DEF Scalars, Calm
  <1>7. ASSUME NEW c \in Call, calls' = Session!Without(c)
        PROVE  /\ Typed(calls') /\ AllHonest(calls')
               /\ NoneWaits(calls) => NoneWaits(calls')
               /\ AllAccepted(calls) => AllAccepted(calls')
    BY <1>1, <1>7, CallDropped DEF Session!Without
  <1>8. ASSUME NEW c \in Call, Session!Send(c) PROVE <1>2!1
    <2> DEFINE x == Session!Sent("api", token, TRUE)
    <2>1. x \in Session!Exchange /\ Honest(x) /\ Accepted(x) /\ x.stage # "refreshing"
      BY <1>1, FirstCalls DEF Scalars
    <2>2. calls' = [calls EXCEPT ![c] = x]
      BY <1>8 DEF Session!Send
    <2>3. UNCHANGED <<account, token, creds, jar, path, user, refreshing, calm>>
      BY <1>8 DEF Session!Send
    <2> HIDE DEF x
    <2> QED
      BY <1>6, <2>1, <2>2, <2>3
  <1>9. ASSUME NEW c \in Call, Session!Login(c) PROVE <1>2!1
    <2> DEFINE x == Session!Sent("login", "none", FALSE)
    <2>1. x \in Session!Exchange /\ Honest(x) /\ Accepted(x) /\ x.stage # "refreshing"
      BY FormCalls
    <2>2. calls' = [calls EXCEPT ![c] = x]
      BY <1>9 DEF Session!Login
    <2>3. UNCHANGED <<account, token, creds, jar, path, user, refreshing, calm>>
      BY <1>9 DEF Session!Login
    <2> HIDE DEF x
    <2> QED
      BY <1>6, <2>1, <2>2, <2>3
  <1>10. ASSUME NEW c \in Call, Session!Serve(c) PROVE <1>2!1
    <2> DEFINE x == Session!Served(calls[c])
    <2>1. calls[c] \in Session!Exchange /\ calls[c].stage = "sent"
          /\ calls[c].kind \in {"api", "me", "login", "logout"}
          /\ (calm => Accepted(calls[c]))
      BY <1>3, <1>10, Exchanges DEF Session!Serve, Session!Stage
    <2>2. ASSUME calls[c].kind \in {"api", "me"}
          PROVE  x \in Session!Exchange /\ Honest(x) /\ x.stage # "refreshing" /\ (calm => Accepted(x))
      <3>1. x = [calls[c] EXCEPT !.stage = IF Session!Authorized(calls[c])
                                             THEN "answered" ELSE "refused"]
        BY <2>2 DEF Session!Served
      <3>2. x \in Session!Exchange /\ Honest(x) /\ x.stage # "refreshing"
        BY <2>1, <2>2, <3>1 DEF Session!Exchange, Honest
      <3>3. calm => Accepted(x)
        BY <1>1, <2>1, <2>2, <3>1
           DEF Session!Exchange, Accepted, Calm, Session!Authorized
      <3> QED
        BY <3>2, <3>3
    <2>3. ASSUME calls[c].kind = "login"
          PROVE  x \in Session!Exchange /\ Honest(x) /\ x.stage # "refreshing" /\ (calm => Accepted(x))
      <3>1. x = [calls[c] EXCEPT !.stage = IF account = "gone" THEN "refused" ELSE "answered",
                                 !.header = account]
        BY <2>3 DEF Session!Served
      <3> QED
        BY <1>1, <2>1, <2>3, <3>1 DEF Session!Exchange, Honest, Accepted, Scalars
    <2>4. ASSUME calls[c].kind = "logout"
          PROVE  x \in Session!Exchange /\ Honest(x) /\ x.stage # "refreshing" /\ (calm => Accepted(x))
      <3>1. x = [calls[c] EXCEPT !.stage = "answered"]
        BY <2>4 DEF Session!Served
      <3> QED
        BY <2>1, <2>4, <3>1 DEF Session!Exchange, Honest, Accepted
    <2>5. calls' = [calls EXCEPT ![c] = x]
      BY <1>10 DEF Session!Serve
    <2>6. UNCHANGED <<account, token, creds, jar, path, user, refreshing, calm>>
      BY <1>10 DEF Session!Serve
    <2> HIDE DEF x
    <2> QED
      BY <1>6, <2>1, <2>2, <2>3, <2>4, <2>5, <2>6
  <1>11. ASSUME NEW c \in Call, Session!Answer(c) PROVE <1>2!1
    BY <1>1, <1>7, <1>11 DEF Session!Answer, Scalars, Calm
  <1>12. ASSUME NEW c \in Call, Session!Await(c) PROVE <1>2!1
    <2> DEFINE x == [calls[c] EXCEPT !.stage = "refreshing"]
    <2>1. calls[c] \in Session!Exchange /\ calls[c].kind \in {"api", "me"} /\ calls[c].first
      BY <1>3, <1>12 DEF Session!Await, Session!Stage
    <2>2. x \in Session!Exchange /\ Honest(x) /\ Accepted(x)
      BY <2>1 DEF Session!Exchange, Honest, Accepted
    <2>3. calls' = [calls EXCEPT ![c] = x]
      BY <1>12 DEF Session!Await
    <2>4. Typed(calls') /\ AllHonest(calls') /\ (AllAccepted(calls) => AllAccepted(calls'))
      <3> HIDE DEF x
      <3> QED
        BY <1>1, <2>2, <2>3, CallMade
    <2>5. /\ refreshing' = IF refreshing = "idle" THEN "sent" ELSE refreshing
          /\ UNCHANGED <<account, token, creds, jar, path, user, calm>>
      BY <1>12 DEF Session!Await
    <2> HIDE DEF x
    <2> QED
      BY <1>1, <2>4, <2>5 DEF Scalars, Calm
  <1>13. ASSUME NEW c \in Call, Session!Expelled(c) PROVE <1>2!1
    <2>1. calls[c] \in Session!Exchange /\ calls[c].kind \in {"api", "me"} /\ ~calls[c].first
          /\ calls[c].stage = "refused"
      BY <1>3, <1>13 DEF Session!Expelled, Session!Stage
    <2>2. ~calm
      BY <1>3, <2>1, ClientsAssumption DEF Accepted, Session!IdleAssumption, Session!Stage
    <2>3. /\ Typed(Session!Without(c)) /\ AllHonest(Session!Without(c))
          /\ refreshing = "idle" => NoneWaits(Session!Without(c))
      BY <1>1, CallDropped DEF Session!Without
    <2>4. /\ Session!SignedOut({"login", "invite"}, Session!Without(c), refreshing)
          /\ UNCHANGED <<account, jar, calm>>
      BY <1>13 DEF Session!Expelled
    <2> QED
      BY <1>1, <2>2, <2>3, <2>4, SigningOut DEF Scalars
  <1>14. ASSUME NEW c \in Call, Session!Lose(c) PROVE <1>2!1
    <2>1. /\ Typed(calls') /\ AllHonest(calls') /\ (NoneWaits(calls) => NoneWaits(calls'))
          /\ AllAccepted(calls) => AllAccepted(calls')
      BY <1>7, <1>14 DEF Session!Lose
    <2>2. UNCHANGED <<account, jar, refreshing>>
      BY <1>14 DEF Session!Lose
    <2>3. \/ token' = "none" /\ creds' = "none" /\ calm' = FALSE /\ user' = FALSE /\ path' = "login"
          \/ UNCHANGED <<token, creds, calm, user, path>>
      BY <1>14 DEF Session!Lose
    <2>4. Scalars'
      BY <1>1, <2>2, <2>3 DEF Scalars
    <2>5. refreshing' = "idle" => NoneWaits(calls')
      BY <1>1, <2>1, <2>2
    <2>6. ASSUME calm' PROVE Calm'
      <3>1. UNCHANGED <<token, creds, calm, user, path>>
        BY <2>3, <2>6
      <3>2. AllAccepted(calls') /\ Calm
        BY <1>1, <2>1, <2>6, <3>1 DEF Calm
      <3> QED
        BY <2>2, <3>1, <3>2 DEF Calm
    <2> QED
      BY <2>1, <2>4, <2>5, <2>6
  <1>15. CASE Session!RefreshServe
    BY <1>1, <1>15 DEF Session!RefreshServe, Scalars, Calm
  <1>16. CASE Session!Renewed
    <2>1. \A c \in Call :
            calls'[c] = IF Session!Stage(c) = "refreshing"
                          THEN Session!Retried(calls[c]) ELSE calls[c]
      BY <1>16 DEF Session!Renewed
    <2>2. ASSUME NEW c \in Call, Session!Stage(c) = "refreshing"
          PROVE  calls[c] \in Session!Exchange /\ calls[c] # Idle
      BY <1>3, <2>2 DEF Session!Stage
    <2>3. ASSUME NEW c \in Call
          PROVE  /\ calls'[c] \in Session!Exchange \cup {Idle}
                 /\ calls'[c] # Idle => Honest(calls'[c]) /\ calls'[c].stage # "refreshing"
                                        /\ (calm => Accepted(calls'[c]))
      <3>1. CASE Session!Stage(c) = "refreshing"
        <4>1. calls'[c] = Session!Retried(calls[c])
          BY <2>1, <3>1
        <4> QED
          BY <1>3, <2>2, <3>1, <4>1, RetriedCalls
      <3>2. CASE Session!Stage(c) # "refreshing"
        <4>1. calls'[c] = calls[c]
          BY <2>1, <3>2
        <4>2. calls[c] # Idle => calls[c].stage # "refreshing"
          BY <3>2 DEF Session!Stage
        <4> QED
          BY <1>3, <4>1, <4>2
      <3> QED
        BY <3>1, <3>2
    <2>4. DOMAIN calls' = Call /\ calls' = [c \in Call |-> calls'[c]]
      BY <1>16 DEF Session!Renewed
    <2>5. /\ Typed(calls') /\ AllHonest(calls') /\ NoneWaits(calls')
          /\ calm => AllAccepted(calls')
      BY <2>3, <2>4 DEF Typed, AllHonest, NoneWaits, AllAccepted
    <2>6. /\ refreshing' = "idle" /\ token' = "live" /\ jar' = [access |-> TRUE, refresh |-> TRUE]
          /\ UNCHANGED <<account, creds, path, user, calm>>
      BY <1>16 DEF Session!Renewed, Session!Cookies
    <2> QED
      BY <1>1, <2>5, <2>6 DEF Scalars, Calm
  <1>17. CASE Session!NotRenewed
    <2>1. calm' = FALSE
      BY <1>1, <1>17 DEF Session!NotRenewed, Calm
    <2>2. Typed(Session!LetGo) /\ AllHonest(Session!LetGo) /\ NoneWaits(Session!LetGo)
      BY <1>1 DEF Session!LetGo, Session!Stage, Typed, AllHonest, NoneWaits
    <2>3. /\ Session!SignedOut({"login", "invite"}, Session!LetGo, "idle")
          /\ UNCHANGED <<account, jar>>
      BY <1>17 DEF Session!NotRenewed
    <2>4. /\ Typed(calls') /\ AllHonest(calls')
          /\ refreshing' = "idle" => NoneWaits(calls')
          /\ token' = "none" /\ creds' = "none"
          /\ user' \in BOOLEAN /\ path' \in {"app", "login", "invite"}
          /\ refreshing' \in {"idle", "sent", "renewed", "refused"}
      BY <1>1, <2>2, <2>3, SigningOut
    <2> QED
      BY <1>1, <2>1, <2>3, <2>4 DEF Scalars
  <1>18. ASSUME NEW c \in Call, Session!LoggedIn(c) PROVE <1>2!1
    <2>1. /\ calls[c] \in Session!Exchange /\ calls[c].header \in {"first", "second"}
      BY <1>3, <1>18 DEF Session!LoggedIn, Session!Stage, Honest
    <2>2. calls' = Session!Without(c)
      BY <1>18 DEF Session!LoggedIn
    <2>3. /\ token' = "live" /\ creds' = calls[c].header
          /\ jar' = [access |-> TRUE, refresh |-> TRUE]
          /\ user' = TRUE /\ path' = "app"
          /\ calm' = (/\ refreshing = "idle" /\ \A d \in Call : calls'[d] = Idle
                      /\ creds' = account)
          /\ UNCHANGED <<account, refreshing>>
      BY <1>18 DEF Session!LoggedIn, Session!Cookies
    <2>4. calm' \in BOOLEAN /\ (calm' => refreshing = "idle" /\ creds' = account
                                        /\ AllAccepted(calls'))
      BY <2>3 DEF AllAccepted
    <2> QED
      BY <1>1, <1>7, <2>1, <2>2, <2>3, <2>4 DEF Scalars, Calm
  <1>19. ASSUME NEW c \in Call, Session!LoginFails(c) PROVE <1>2!1
    BY <1>1, <1>7, <1>19 DEF Session!LoginFails, Scalars, Calm
  <1>20. ASSUME NEW c \in Call, Session!Logout(c) PROVE <1>2!1
    <2> DEFINE x == Session!Sent("logout", token, TRUE)
    <2>1. x \in Session!Exchange /\ Honest(x) /\ x.stage # "refreshing"
      BY <1>1, FirstCalls DEF Scalars
    <2>2. calls' = [calls EXCEPT ![c] = x]
      BY <1>20 DEF Session!Logout
    <2>3. /\ user' = FALSE /\ path' = "login" /\ calm' = FALSE
          /\ UNCHANGED <<account, token, creds, jar, refreshing>>
      BY <1>20 DEF Session!Logout
    <2> HIDE DEF x
    <2> QED
      BY <1>1, <2>1, <2>2, <2>3, CallMade DEF Scalars
  <1>21. ASSUME NEW c \in Call, Session!LoggedOut(c) PROVE <1>2!1
    BY <1>1, <1>7, <1>21 DEF Session!LoggedOut, Session!NoCookie, Scalars
  <1>22. CASE Session!SubsonicRefused
    <2>1. ~calm
      BY <1>1, <1>22 DEF Session!SubsonicRefused, Calm
    <2>2. /\ Session!SignedOut({"login"}, calls, refreshing)
          /\ UNCHANGED <<account, jar, calm>>
      BY <1>22 DEF Session!SubsonicRefused
    <2> QED
      BY <1>1, <2>1, <2>2, SigningOut DEF Scalars
  <1>23. CASE Session!Expire
    <2>1. \A c \in Call :
            calls'[c] = IF Session!Stage(c) = "sent" /\ calls[c].header = "live"
                          THEN [calls[c] EXCEPT !.header = "expired"] ELSE calls[c]
      BY <1>23 DEF Session!Expire
    <2>2. ASSUME NEW c \in Call
          PROVE  /\ calls'[c] \in Session!Exchange \cup {Idle}
                 /\ calls'[c] # Idle =>
                      /\ Honest(calls'[c]) /\ (calm => Accepted(calls'[c]))
                      /\ calls'[c].stage = "refreshing" =>
                           calls[c] # Idle /\ calls[c].stage = "refreshing"
      <3>1. CASE Session!Stage(c) = "sent" /\ calls[c].header = "live"
        <4>1. calls[c] \in Session!Exchange /\ calls[c].stage = "sent" /\ calls[c] # Idle
          BY <1>3, <3>1 DEF Session!Stage
        <4>2. calls[c].first \/ calls[c].kind = "login"
          BY <1>23, <4>1 DEF Session!Expire
        <4>3. calls'[c] = [calls[c] EXCEPT !.header = "expired"]
          BY <2>1, <3>1
        <4> QED
          BY <1>3, <4>1, <4>2, <4>3 DEF Session!Exchange, Honest, Accepted
      <3>2. CASE ~(Session!Stage(c) = "sent" /\ calls[c].header = "live")
        <4>1. calls'[c] = calls[c]
          BY <2>1, <3>2
        <4> QED
          BY <1>3, <4>1
      <3> QED
        BY <3>1, <3>2
    <2>3. DOMAIN calls' = Call /\ calls' = [c \in Call |-> calls'[c]]
      BY <1>23 DEF Session!Expire
    <2>4. /\ Typed(calls') /\ AllHonest(calls')
          /\ NoneWaits(calls) => NoneWaits(calls')
          /\ calm => AllAccepted(calls')
      BY <2>2, <2>3 DEF Typed, AllHonest, NoneWaits, AllAccepted
    <2>5. /\ token' = IF token = "live" THEN "expired" ELSE token
          /\ jar' = [jar EXCEPT !.access = FALSE]
          /\ UNCHANGED <<account, creds, path, user, refreshing, calm>>
      BY <1>23 DEF Session!Expire
    <2> QED
      BY <1>1, <2>4, <2>5 DEF Scalars, Calm
  <1>24. CASE Session!ExpireRefresh
    BY <1>1, <1>24 DEF Session!ExpireRefresh, Scalars
  <1>25. ASSUME NEW a \in {"second", "gone"}, Session!ChangeAccount(a) PROVE <1>2!1
    BY <1>1, <1>25 DEF Session!ChangeAccount, Scalars
  <1> QED
    BY <1>4, <1>5, <1>8, <1>9, <1>10, <1>11, <1>12, <1>13, <1>14, <1>15, <1>16, <1>17,
       <1>18, <1>19, <1>20, <1>21, <1>22, <1>23, <1>24, <1>25 DEF Session!Next

-----------------------------------------------------------------------------
(* The settings of the LAN.                                                *)

Setting == Url \cup {Empty}

Socket == [url : Url, next : Setting \cup {None}]

Sockets == [Advert -> {None} \cup Socket]

\* While no setting has changed during a stop, there is one advertiser with a
\* socket at most: the present one, that tells the URL that is set, or one that
\* is stopping and whose rebuild will go on with that URL.
Settled ==
  /\ advertised = lanUrl
  /\ advertiser = None <=> lanUrl = Empty
  /\ \A a \in Advert : adverts[a] # None => a = advertiser /\ adverts[a].next = None
  /\ advertiser # None => adverts[advertiser].url = lanUrl

Stopping ==
  /\ advertiser = None
  /\ \E a \in Advert :
       /\ adverts[a] # None /\ adverts[a].next = lanUrl
       /\ \A b \in Advert : adverts[b] # None => b = a

LanInv == Lan!TypeOK /\ (~hurried => Settled \/ Stopping)

LEMMA LanTypes ==
  Lan!TypeOK <=>
    /\ lanUrl \in Setting /\ enabled \in BOOLEAN
    /\ put \in {None} \cup [left : SUBSET Lan!Fields, lanUrl : Setting, enabled : BOOLEAN]
    /\ discovering \in BOOLEAN /\ advertised \in Setting
    /\ adverts \in Sockets /\ hurried \in BOOLEAN
    /\ advertiser # None =>
         advertiser \in Advert /\ adverts[advertiser] # None /\ adverts[advertiser].next = None
  BY DEF Lan!TypeOK, Lan!Announcing, Lan!Closing, Setting, Socket, Sockets

LEMMA LanTypesNext ==
  Lan!TypeOK' <=>
    /\ lanUrl' \in Setting /\ enabled' \in BOOLEAN
    /\ put' \in {None} \cup [left : SUBSET Lan!Fields, lanUrl : Setting, enabled : BOOLEAN]
    /\ discovering' \in BOOLEAN /\ advertised' \in Setting
    /\ adverts' \in Sockets /\ hurried' \in BOOLEAN
    /\ advertiser' # None =>
         advertiser' \in Advert /\ adverts'[advertiser'] # None
           /\ adverts'[advertiser'].next = None
  BY DEF Lan!TypeOK, Lan!Announcing, Lan!Closing, Setting, Socket, Sockets

LEMMA Opens ==
  ASSUME NEW u \in Url
  PROVE  /\ Lan!Open(u) \in Socket /\ Lan!Open(u) # None
         /\ Lan!Open(u).url = u /\ Lan!Open(u).next = None
  BY ClientsAssumption DEF Lan!Open, Socket, Setting, Lan!AdvertAssumption

\* A boot announces the setting, if there is one.
LEMMA Boots ==
  ASSUME lanUrl \in Setting,
         NEW a, a = Lan!FirstAdvertiser, NEW s, s = Lan!FirstAdverts
  PROVE  /\ s \in Sockets
         /\ a = None <=> lanUrl = Empty
         /\ \A b \in Advert : s[b] # None => b = a /\ s[b].next = None
         /\ a # None => a \in Advert /\ s[a] # None /\ s[a].url = lanUrl /\ s[a].next = None
  <1>1. None \notin Advert /\ Lan!First \in Advert
    BY ClientsAssumption DEF Lan!AdvertAssumption, Lan!First
  <1>2. CASE lanUrl = Empty
    BY <1>1, <1>2 DEF Lan!FirstAdvertiser, Lan!FirstAdverts, Sockets
  <1>3. CASE lanUrl # Empty
    BY <1>1, <1>3, Opens DEF Lan!FirstAdvertiser, Lan!FirstAdverts, Sockets, Setting
  <1> QED
    BY <1>2, <1>3

LEMMA LanStart == Lan!Init => LanInv
  <1> SUFFICES ASSUME Lan!Init PROVE LanInv
    OBVIOUS
  <1>1. lanUrl \in Setting
    BY DEF Lan!Init, Setting
  <1> QED
    BY <1>1, Boots, LanTypes DEF Lan!Init, LanInv, Settled

\* The end of a rebuild.
LEMMA Builds ==
  ASSUME NEW url \in Setting, NEW t \in Sockets, \E a \in Advert : t[a] = None,
         Lan!Build(url, t)
  PROVE  /\ advertised' = url
         /\ url = Empty => adverts' = t /\ advertiser' = advertiser
         /\ url # Empty => \E a \in Advert :
              t[a] = None /\ adverts' = [t EXCEPT ![a] = Lan!Open(url)] /\ advertiser' = a
  BY DEF Lan!Build

\* What a rebuild makes of the sockets, and of the present advertiser.
LEMMA BuildsTyped ==
  ASSUME NEW url \in Setting, NEW t \in Sockets, \E a \in Advert : t[a] = None,
         Lan!Build(url, t),
         advertiser # None =>
           advertiser \in Advert /\ t[advertiser] # None /\ t[advertiser].next = None
  PROVE  /\ advertised' = url /\ adverts' \in Sockets
         /\ advertiser' # None =>
              /\ advertiser' \in Advert /\ adverts'[advertiser'] # None
              /\ adverts'[advertiser'].next = None
         /\ advertiser = None /\ (\A b \in Advert : t[b] = None) =>
              /\ advertiser' = None <=> url = Empty
              /\ \A a \in Advert : adverts'[a] # None =>
                                     a = advertiser' /\ adverts'[a].next = None
              /\ advertiser' # None => adverts'[advertiser'].url = url
  <1>1. CASE url = Empty
    BY <1>1, Builds
  <1>2. CASE url # Empty
    <2>1. PICK a \in Advert :
            t[a] = None /\ adverts' = [t EXCEPT ![a] = Lan!Open(url)] /\ advertiser' = a
      BY <1>2, Builds
    <2>2. Lan!Open(url) \in Socket /\ Lan!Open(url) # None
          /\ Lan!Open(url).url = url /\ Lan!Open(url).next = None
      BY <1>2, Opens DEF Setting
    <2>3. a # None /\ advertised' = url
      BY Builds, ClientsAssumption DEF Lan!AdvertAssumption
    <2> QED
      BY <1>2, <2>1, <2>2, <2>3 DEF Sockets
  <1> QED
    BY <1>1, <1>2

LEMMA LanStep == LanInv /\ [Lan!Next]_lan => LanInv'
  <1> SUFFICES ASSUME LanInv, [Lan!Next]_lan PROVE LanInv'
    OBVIOUS
  <1>1. /\ lanUrl \in Setting /\ enabled \in BOOLEAN
        /\ put \in {None} \cup [left : SUBSET Lan!Fields, lanUrl : Setting, enabled : BOOLEAN]
        /\ discovering \in BOOLEAN /\ advertised \in Setting
        /\ adverts \in Sockets /\ hurried \in BOOLEAN
        /\ advertiser # None =>
             advertiser \in Advert /\ adverts[advertiser] # None /\ adverts[advertiser].next = None
    BY LanTypes DEF LanInv
  <1>2. ~hurried => Settled \/ Stopping
    BY DEF LanInv
  <1>3. None \notin Advert /\ None \notin Setting /\ Empty \notin Url
    BY ClientsAssumption DEF Lan!UrlAssumption, Lan!AdvertAssumption, Setting
  <1>4. CASE UNCHANGED lan
    BY <1>1, <1>2, <1>4, LanTypesNext DEF lan, LanInv, Settled, Stopping
  <1>5. ASSUME NEW fields \in SUBSET Lan!Fields, NEW u \in Setting, NEW e \in BOOLEAN,
               Lan!Put(fields, u, e)
        PROVE  LanInv'
    <2>1. put' \in [left : SUBSET Lan!Fields, lanUrl : Setting, enabled : BOOLEAN]
          /\ UNCHANGED <<lanUrl, enabled, discovering, advertiser, advertised, adverts, hurried>>
      BY <1>5 DEF Lan!Put
    <2> QED
      BY <1>1, <1>2, <2>1, LanTypesNext DEF LanInv, Settled, Stopping
  <1>6. CASE Lan!Crash
    <2>1. lanUrl' = lanUrl /\ enabled' = enabled /\ put' = None /\ hurried' = FALSE
          /\ discovering' = enabled /\ advertised' = lanUrl
          /\ advertiser' = Lan!FirstAdvertiser /\ adverts' = Lan!FirstAdverts
      BY <1>6 DEF Lan!Crash
    <2>2. /\ adverts' \in Sockets
          /\ advertiser' = None <=> lanUrl = Empty
          /\ \A b \in Advert : adverts'[b] # None => b = advertiser' /\ adverts'[b].next = None
          /\ advertiser' # None => advertiser' \in Advert /\ adverts'[advertiser'] # None
               /\ adverts'[advertiser'].url = lanUrl /\ adverts'[advertiser'].next = None
      BY <1>1, <2>1, Boots
    <2> QED
      BY <1>1, <2>1, <2>2, LanTypesNext DEF LanInv, Settled
  <1>7. ASSUME NEW i \in DOMAIN Lan!Field, Lan!Set(i) PROVE LanInv'
    <2>1. /\ put \in [left : SUBSET Lan!Fields, lanUrl : Setting, enabled : BOOLEAN]
          /\ \E a \in Advert : adverts[a] = None
      BY <1>1, <1>7 DEF Lan!Set, Lan!Spare
    <2>2. /\ lanUrl' \in Setting /\ enabled' \in BOOLEAN /\ discovering' \in BOOLEAN
      BY <1>1, <1>7, <2>1 DEF Lan!Set
    <2>3. put' \in {None} \cup [left : SUBSET Lan!Fields, lanUrl : Setting, enabled : BOOLEAN]
      BY <1>7, <2>1 DEF Lan!Set, Lan!Remaining
    <2>4. Lan!Rebuild(lanUrl') /\ hurried' = (hurried \/ Lan!Rebuilding)
      BY <1>7 DEF Lan!Set
    <2>5. hurried' \in BOOLEAN /\ (~hurried' => ~hurried /\ ~Lan!Rebuilding)
      BY <1>1, <2>4
    <2>6. ~hurried' => Settled
      <3>1. ASSUME Stopping PROVE Lan!Rebuilding
        BY <1>1, <1>3, <3>1 DEF Stopping, Lan!Rebuilding, Lan!Closing
      <3> QED
        BY <1>2, <2>5, <3>1
    <2>7. CASE lanUrl' = advertised
      <3>1. UNCHANGED <<advertiser, advertised, adverts>>
        BY <2>4, <2>7 DEF Lan!Rebuild
      <3> QED
        BY <1>1, <2>2, <2>3, <2>5, <2>6, <2>7, <3>1, LanTypesNext DEF LanInv, Settled
    <2>8. CASE lanUrl' # advertised /\ advertiser # None
      <3>1. /\ adverts' = [adverts EXCEPT ![advertiser] = [@ EXCEPT !.next = lanUrl']]
            /\ advertiser' = None /\ advertised' = advertised
        BY <2>4, <2>8 DEF Lan!Rebuild, Lan!Stopping
      <3>2. advertiser \in Advert /\ adverts[advertiser] \in Socket
        BY <1>1, <2>8 DEF Sockets
      <3> DEFINE s == [adverts[advertiser] EXCEPT !.next = lanUrl']
      <3>3. s \in Socket /\ s.next = lanUrl' /\ s # None
        <4>1. s \in Socket /\ s.next = lanUrl'
          BY <2>2, <3>2 DEF Socket
        <4> QED
          BY <4>1, ClientsAssumption DEF Lan!AdvertAssumption, Socket, Setting
      <3>4. adverts' = [adverts EXCEPT ![advertiser] = s]
        BY <3>1
      <3> HIDE DEF s
      <3>5. adverts' \in Sockets
        BY <1>1, <3>2, <3>3, <3>4 DEF Sockets
      <3>6. Settled => Stopping'
        BY <1>1, <3>1, <3>2, <3>3, <3>4 DEF Settled, Stopping, Sockets
      <3> QED
        BY <1>1, <2>2, <2>3, <2>5, <2>6, <3>1, <3>5, <3>6, LanTypesNext DEF LanInv
    <2>9. CASE lanUrl' # advertised /\ advertiser = None
      <3>1. Lan!Build(lanUrl', adverts)
        BY <2>4, <2>9 DEF Lan!Rebuild
      <3>2. Settled => \A b \in Advert : adverts[b] = None
        BY <1>3, <2>9 DEF Settled
      <3>3. /\ advertised' = lanUrl' /\ adverts' \in Sockets
            /\ advertiser' # None =>
                 /\ advertiser' \in Advert /\ adverts'[advertiser'] # None
                 /\ adverts'[advertiser'].next = None
            /\ Settled =>
                 /\ advertiser' = None <=> lanUrl' = Empty
                 /\ \A a \in Advert : adverts'[a] # None =>
                                        a = advertiser' /\ adverts'[a].next = None
                 /\ advertiser' # None => adverts'[advertiser'].url = lanUrl'
        BY <1>1, <2>1, <2>2, <2>9, <3>1, <3>2, BuildsTyped
      <3>4. Settled => Settled'
        BY <3>3 DEF Settled
      <3> QED
        BY <1>1, <2>2, <2>3, <2>5, <2>6, <3>3, <3>4, LanTypesNext DEF LanInv
    <2> QED
      BY <2>7, <2>8, <2>9
  <1>8. ASSUME NEW a \in Advert, Lan!Stopped(a) PROVE LanInv'
    <2> DEFINE lan0 == adverts[a].next
               t == [adverts EXCEPT ![a] = None]
    <2>1. adverts[a] \in Socket /\ lan0 \in Setting
      BY <1>1, <1>8 DEF Lan!Stopped, Lan!Closing, Sockets, Socket
    <2>2. t \in Sockets /\ t[a] = None
      BY <1>1 DEF Sockets
    <2>3. Lan!Build(lan0, t)
      BY <1>8 DEF Lan!Stopped, Lan!Rebuilt
    <2>4. UNCHANGED <<lanUrl, enabled, put, discovering, hurried>>
      BY <1>8 DEF Lan!Stopped
    <2>5. advertiser # None =>
            advertiser \in Advert /\ t[advertiser] # None /\ t[advertiser].next = None
      BY <1>1, <1>8 DEF Lan!Stopped, Lan!Closing, Sockets
    <2>6. ~hurried => Stopping
      BY <1>2, <1>8 DEF Settled, Lan!Stopped, Lan!Closing
    <2>7. Stopping => advertiser = None /\ lan0 = lanUrl /\ \A b \in Advert : t[b] = None
      BY <1>1, <1>8 DEF Stopping, Lan!Stopped, Lan!Closing, Sockets
    <2> HIDE DEF lan0, t
    <2>8. /\ advertised' = lan0 /\ adverts' \in Sockets
          /\ advertiser' # None =>
               /\ advertiser' \in Advert /\ adverts'[advertiser'] # None
               /\ adverts'[advertiser'].next = None
          /\ Stopping =>
               /\ advertiser' = None <=> lan0 = Empty
               /\ \A b \in Advert : adverts'[b] # None =>
                                      b = advertiser' /\ adverts'[b].next = None
               /\ advertiser' # None => adverts'[advertiser'].url = lan0
      BY <2>1, <2>2, <2>3, <2>5, <2>7, BuildsTyped
    <2>9. Stopping => Settled'
      BY <2>4, <2>7, <2>8 DEF Settled
    <2> QED
      BY <1>1, <2>1, <2>4, <2>6, <2>8, <2>9, LanTypesNext DEF LanInv
  <1> QED
    BY <1>4, <1>5, <1>6, <1>7, <1>8 DEF Lan!Next, Setting

\* At rest and unhurried, the one socket there is tells the URL that is set.
LEMMA LanIsTold == LanInv => Lan!AdvertisesUnhurriedSetting
  <1> SUFFICES ASSUME LanInv, ~Lan!Rebuilding, ~hurried PROVE Lan!Advertises
    BY DEF Lan!AdvertisesUnhurriedSetting
  <1>1. /\ adverts \in Sockets /\ lanUrl \in Setting
        /\ advertiser # None =>
             advertiser \in Advert /\ adverts[advertiser] # None /\ adverts[advertiser].next = None
    BY LanTypes DEF LanInv
  <1>2. None \notin Setting
    BY ClientsAssumption DEF Lan!UrlAssumption, Setting
  <1>3. Settled
    BY <1>1, <1>2 DEF LanInv, Stopping, Lan!Rebuilding, Lan!Closing
  <1>4. CASE lanUrl = Empty
    <2>1. Lan!Announcing = {}
      BY <1>3, <1>4, ClientsAssumption DEF Settled, Lan!Announcing, Lan!AdvertAssumption
    <2> QED
      BY <1>4, <2>1 DEF Lan!Advertises
  <1>5. CASE lanUrl # Empty
    <2>1. Lan!Announcing = {advertiser} /\ adverts[advertiser].url = lanUrl
      BY <1>1, <1>3, <1>5 DEF Settled, Lan!Announcing, Lan!Closing
    <2> QED
      BY <1>5, <2>1 DEF Lan!Advertises
  <1> QED
    BY <1>4, <1>5

-----------------------------------------------------------------------------
(* The count of a listen.                                                  *)

Track == Listening!Track
Maybe == Track \cup {None}
State == {"stopped", "playing", "paused"}

Store == [index : Track, playing : BOOLEAN, time : Nat, repeat : Repeats, casting : BOOLEAN]

Refs == [scrobbled : BOOLEAN, start : Int, base : Nat, transcoded : BOOLEAN,
         skip : Maybe, pending : Maybe]

Box == [track : Maybe, from : Listening!Place, at : Listening!Place, state : State, next : Maybe]

Plays == [op : {"play"}, track : Track, from : Nat, autoplay : BOOLEAN]
Asked == Plays \cup [op : {"answer"}, transcoded : BOOLEAN]

Reading == [at : Nat, track : Maybe, state : State, moved : BOOLEAN]

Loop == [read : Reading \cup {None}, sawUri : BOOLEAN, changed : BOOLEAN,
         wasPlaying : BOOLEAN, guarded : BOOLEAN, fresh : BOOLEAN]

Heard == [counted : Nat, reloads : Nat, sounded : BOOLEAN, over : BOOLEAN, excess : BOOLEAN]

\* The places that the speaker tells begin where its stream began.
InStream == speaker.from <= speaker.at /\ (speaker.track \in Transcoded \/ speaker.from = 0)

\* A report more than there were reloads is remembered in scrobbled, or the
\* element of the tab has come to its end and armed the next report.
Counts(l, scrobbled, casting) ==
  \/ l.counted <= l.reloads
  \/ scrobbled /\ l.counted <= 1 + l.reloads
  \/ l.over /\ ~casting /\ l.counted <= 1 + l.reloads

Player ==
  /\ store \in Store /\ refs \in Refs /\ audio \in 0 .. Listening!Over
  /\ speaker \in Box /\ requests \subseteq Asked /\ poll \in Loop

ListenInv ==
  /\ Player /\ InStream
  /\ listen \in Heard /\ budget \in 0 .. Steps
  /\ ~listen.excess /\ listen.reloads <= Steps - budget
  /\ Counts(listen, refs.scrobbled, store.casting)

LEMMA Sizes ==
  /\ Tracks \in Nat \ {0} /\ Transcoded \subseteq Track /\ None \notin Track
  /\ Ticks \in Nat \ {0} /\ Steps \in Nat
  /\ Track = 1 .. Tracks /\ Listening!Place = 0 .. Ticks /\ Listening!Over = Ticks + 1
  BY ClientsAssumption
     DEF Listening!TracksAssumption, Listening!TicksAssumption, Track, Listening!Track,
         Listening!Place, Listening!Over

LEMMA ListenIsTyped == ListenInv => Listening!TypeOK
  <1> SUFFICES ASSUME ListenInv PROVE Listening!TypeOK
    OBVIOUS
  <1>1. store \in [index : Track, playing : BOOLEAN, time : Int, repeat : Repeats,
                   casting : BOOLEAN]
    BY DEF ListenInv, Player, Store
  <1>2. refs \in [scrobbled : BOOLEAN, start : Int, base : Int, transcoded : BOOLEAN,
                  skip : Maybe, pending : Maybe]
    BY DEF ListenInv, Player, Refs
  <1>3. listen \in [counted : Nat, reloads : 0 .. Steps, sounded : BOOLEAN, over : BOOLEAN,
                    excess : BOOLEAN]
    BY Sizes DEF ListenInv, Heard
  <1> QED
    BY <1>1, <1>2, <1>3 DEF ListenInv, Player, Box, Listening!TypeOK, Track, Maybe, State

\* Listens.

LEMMA FirstListens ==
  /\ Listening!FirstListen \in Heard
  /\ Listening!FirstListen.counted = 0 /\ Listening!FirstListen.reloads = 0
  /\ ~Listening!FirstListen.over /\ ~Listening!FirstListen.excess
  BY DEF Listening!FirstListen, Heard

LEMMA Another ==
  ASSUME NEW l \in Heard, ~l.excess, l.counted <= 1 + l.reloads
  PROVE  /\ Listening!After(l) \in Heard
         /\ Listening!After(l).counted = 0 /\ Listening!After(l).reloads = 0
         /\ ~Listening!After(l).over /\ ~Listening!After(l).excess
  <1>1. Listening!Exceeds(l) = FALSE
    BY DEF Listening!Exceeds, Heard
  <1> QED
    BY <1>1, FirstListens DEF Listening!After, Listening!FirstListen, Heard

LEMMA Last ==
  ASSUME NEW l \in Heard, ~l.excess, l.counted <= 1 + l.reloads
  PROVE  /\ Listening!Lasting(l) \in Heard /\ ~Listening!Lasting(l).excess
         /\ ~Listening!Lasting(l).over
         /\ ~l.over => Listening!Lasting(l) = l
         /\ l.over => Listening!Lasting(l).counted = 0 /\ Listening!Lasting(l).reloads = 0
  BY Another DEF Listening!Lasting

LEMMA Submits ==
  ASSUME NEW l \in Heard, NEW k \in Listening!Submitted(l)
  PROVE  /\ k \in Heard /\ k.excess = l.excess /\ k.over = l.over /\ k.reloads = l.reloads
         /\ k.counted <= l.counted + 1
  BY DEF Listening!Submitted, Heard

\* The store.

LEMMA Jumps ==
  ASSUME NEW s \in Store, NEW i \in Track
  PROVE  Listening!JumpTo(s, i) \in Store /\ Listening!JumpTo(s, i).casting = s.casting
  BY DEF Listening!JumpTo, Store

LEMMA Follows ==
  ASSUME NEW s \in Store
  PROVE  Listening!Following(s) \in Store /\ Listening!Following(s).casting = s.casting
  <1>1. s.index \in Track /\ (s.index < Tracks => s.index + 1 \in Track) /\ 1 \in Track
    BY Sizes DEF Store
  <1>2. CASE s.repeat = "one"
    BY <1>2 DEF Listening!Following, Store
  <1>3. CASE s.repeat # "one" /\ s.index < Tracks
    BY <1>1, <1>3, Jumps DEF Listening!Following
  <1>4. CASE s.repeat # "one" /\ ~(s.index < Tracks) /\ s.repeat = "all"
    BY <1>1, <1>4, Jumps DEF Listening!Following
  <1>5. CASE s.repeat # "one" /\ ~(s.index < Tracks) /\ s.repeat # "all"
    BY <1>5 DEF Listening!Following, Store
  <1> QED
    BY <1>2, <1>3, <1>4, <1>5

LEMMA Peeks ==
  ASSUME NEW s \in Store
  PROVE  Listening!Peek(s) \in Maybe
  BY Follows DEF Listening!Peek, Store, Maybe

LEMMA Inside ==
  ASSUME NEW n \in Nat
  PROVE  Listening!Within(n) \in Listening!Place /\ Listening!Within(n) \in 0 .. Listening!Over
  BY Sizes DEF Listening!Within

LEMMA Loops ==
  ASSUME NEW g \in BOOLEAN
  PROVE  Listening!Polling(g) \in Loop
  BY DEF Listening!Polling, Loop

LEMMA Renews ==
  ASSUME NEW k \in Maybe
  PROVE  Listening!NewRefs(k) \in Refs /\ Listening!NewRefs(k).scrobbled = FALSE
  BY DEF Listening!NewRefs, Refs, Maybe

LEMMA Started ==
  ASSUME NEW r \in Refs, NEW n \in Nat
  PROVE  LET q == [r EXCEPT !.start = n, !.base = n]
         IN  q \in Refs /\ q.scrobbled = r.scrobbled
  <1>1. n \in Int
    OBVIOUS
  <1> QED
    BY <1>1 DEF Refs

\* The effects keep all types, and arm the report for another track only.
LEMMA Begins ==
  ASSUME Player, NEW s \in Store, NEW r \in Refs, Listening!Begin(s, r)
  PROVE  /\ refs' \in Refs /\ refs'.scrobbled = r.scrobbled
         /\ requests' \subseteq Asked /\ audio' \in 0 .. Listening!Over
  <1>1. /\ requests \subseteq Asked /\ audio \in 0 .. Listening!Over
        /\ s.time \in Nat /\ s.index \in Track /\ s.playing \in BOOLEAN
        /\ Listening!Peek(s) \in Maybe
    BY Peeks DEF Player, Store
  <1>2. CASE ~s.casting
    <2>1. refs' = [r EXCEPT !.start = s.time] /\ audio' = Listening!Within(s.time)
          /\ UNCHANGED requests
      BY <1>2 DEF Listening!Begin
    <2> QED
      BY <1>1, <2>1, Inside DEF Refs
  <1>3. CASE s.casting /\ r.skip = s.index
    <2>1. refs' = [r EXCEPT !.skip = None, !.pending = Listening!Peek(s)]
          /\ UNCHANGED <<requests, audio>>
      BY <1>3 DEF Listening!Begin
    <2> QED
      BY <1>1, <2>1 DEF Refs, Maybe
  <1>4. CASE s.casting /\ r.skip # s.index
    <2> DEFINE q == [r EXCEPT !.pending = Listening!Peek(s)]
    <2>1. q \in Refs /\ q.scrobbled = r.scrobbled
      BY <1>1 DEF Refs
    <2>2. /\ refs' = [q EXCEPT !.start = s.time, !.base = s.time]
          /\ requests' = requests \cup {Listening!PlayOf(s, s.time)}
          /\ UNCHANGED audio
      BY <1>4 DEF Listening!Begin, Listening!Issue
    <2>3. Listening!PlayOf(s, s.time) \in Asked
      BY <1>1 DEF Listening!PlayOf, Asked, Plays
    <2> HIDE DEF q
    <2>4. requests' \subseteq Asked /\ audio' \in 0 .. Listening!Over
      BY <1>1, <2>2, <2>3
    <2>5. refs' \in Refs /\ refs'.scrobbled = r.scrobbled
      BY <1>1, <2>1, <2>2, Started
    <2> QED
      BY <2>4, <2>5
  <1> QED
    BY <1>2, <1>3, <1>4

LEMMA Tells ==
  ASSUME Player, NEW s \in Store, NEW moved \in BOOLEAN
  PROVE  /\ Listening!Told(s, moved) \in Box
         /\ Listening!Told(s, moved).from = speaker.from
         /\ Listening!Told(s, moved).at = speaker.at
         /\ Listening!Told(s, moved).track = speaker.track
  <1> DEFINE toggles == s.casting /\ speaker.track # None
                          /\ (s.playing # store.playing \/ Listening!Switched(s))
             state == IF ~s.casting /\ store.casting THEN "stopped"
                      ELSE IF toggles THEN Listening!Commanded(s) ELSE speaker.state
             next == IF s.casting /\ moved THEN Listening!Peek(s) ELSE speaker.next
  <1>1. speaker \in Box /\ speaker.state \in State /\ speaker.next \in Maybe
    BY DEF Player, Box
  <1>2. state \in State
    BY <1>1 DEF Listening!Commanded, State
  <1>3. next \in Maybe
    BY <1>1, Peeks
  <1>4. Listening!Told(s, moved) = [speaker EXCEPT !.state = state, !.next = next]
    BY DEF Listening!Told
  <1> HIDE DEF state, next
  <1> QED
    BY <1>1, <1>2, <1>3, <1>4 DEF Box

LEMMA Affects ==
  ASSUME Player, NEW s \in Store, NEW r \in Refs, NEW p \in Loop, NEW mount \in BOOLEAN,
         Listening!Effects(s, r, p, mount)
  PROVE  /\ Player' /\ store' = s
         /\ refs'.scrobbled = (r.scrobbled /\ ~Listening!Moved(s))
         /\ speaker'.from = speaker.from /\ speaker'.at = speaker.at
         /\ speaker'.track = speaker.track
  <1> DEFINE moved == mount \/ Listening!Moved(s) \/ Listening!Switched(s)
             armed == [r EXCEPT !.scrobbled = @ /\ ~Listening!Rearmed(s)]
  <1>1. armed \in Refs /\ armed.scrobbled = (r.scrobbled /\ ~Listening!Moved(s))
    BY DEF Refs, Listening!Rearmed, Listening!Moved
  <1>2. /\ store' = s /\ speaker' = Listening!Told(s, moved)
        /\ moved => Listening!Begin(s, armed)
                      /\ poll' = Listening!Polling(p.guarded \/ requests' # requests)
        /\ ~moved => refs' = armed /\ poll' = p /\ audio' = Listening!Toggled(s)
                       /\ UNCHANGED requests
    BY DEF Listening!Effects
  <1>3. moved \in BOOLEAN
    BY DEF Listening!Moved, Listening!Switched
  <1> HIDE DEF moved, armed
  <1>4. /\ speaker' \in Box /\ speaker'.from = speaker.from /\ speaker'.at = speaker.at
        /\ speaker'.track = speaker.track
    BY <1>2, <1>3, Tells
  <1>5. CASE moved
    <2>1. Listening!Begin(s, armed)
      BY <1>2, <1>5
    <2>2. /\ refs' \in Refs /\ refs'.scrobbled = armed.scrobbled
          /\ requests' \subseteq Asked /\ audio' \in 0 .. Listening!Over
      BY <1>1, <2>1, Begins
    <2>3. p.guarded \in BOOLEAN
      BY DEF Loop
    <2>4. poll' \in Loop
      BY <1>2, <1>5, <2>3, Loops
    <2> QED
      BY <1>1, <1>2, <1>4, <2>2, <2>4 DEF Player
  <1>6. CASE ~moved
    <2>1. refs' = armed /\ poll' = p /\ requests' = requests
          /\ audio' = Listening!Toggled(s)
      BY <1>2, <1>6
    <2>2. audio' \in 0 .. Listening!Over
      BY <2>1, Sizes DEF Player, Listening!Toggled
    <2> QED
      BY <1>1, <1>2, <1>4, <2>1, <2>2 DEF Player
  <1> QED
    BY <1>5, <1>6

LEMMA ListenStart == Listening!Init => ListenInv
  <1> SUFFICES ASSUME Listening!Init PROVE ListenInv
    OBVIOUS
  <1>1. PICK m \in Repeats :
          store = [index |-> 1, playing |-> TRUE, time |-> 0, repeat |-> m, casting |-> FALSE]
    BY DEF Listening!Init
  <1>2. store \in Store
    BY <1>1, Sizes DEF Store
  <1>3. refs \in Refs /\ poll \in Loop
    BY Renews, Loops DEF Listening!Init, Maybe
  <1>4. speaker \in Box /\ InStream
    BY Sizes DEF Listening!Init, Box, Maybe, State, InStream
  <1>5. audio \in 0 .. Listening!Over /\ requests \subseteq Asked /\ budget \in 0 .. Steps
        /\ budget = Steps
    BY Sizes DEF Listening!Init
  <1>6. listen \in Heard /\ listen.counted = 0 /\ listen.reloads = 0 /\ ~listen.excess
    BY FirstListens DEF Listening!Init
  <1> QED
    BY <1>2, <1>3, <1>4, <1>5, <1>6, Sizes DEF ListenInv, Player, Counts

\* A listen that is not too often reported, nor while the report is not armed.
LEMMA Modest ==
  ASSUME ListenInv
  PROVE  /\ listen.counted \in Nat /\ listen.reloads \in Nat
         /\ listen.counted <= 1 + listen.reloads
         /\ ~refs.scrobbled /\ (store.casting \/ ~listen.over) =>
              listen.counted <= listen.reloads
  BY DEF ListenInv, Counts, Heard

\* What the user does to the store starts a listen or goes on with the one there is.
LEMMA Becoming ==
  ASSUME ListenInv, NEW s \in Store, Listening!Becomes(s)
  PROVE  /\ Player' /\ InStream'
         /\ listen' \in Heard /\ ~listen'.excess /\ listen'.reloads <= listen.reloads
         /\ Counts(listen', refs'.scrobbled, store'.casting)
  <1>1. Listening!Effects(s, refs, poll, FALSE)
        /\ listen' = IF Listening!Moved(s) THEN Listening!After(listen)
                     ELSE Listening!Lasting(listen)
    BY DEF Listening!Becomes
  <1>2. Player /\ refs \in Refs /\ poll \in Loop /\ InStream
        /\ listen \in Heard /\ ~listen.excess
        /\ Counts(listen, refs.scrobbled, store.casting)
    BY DEF ListenInv, Player
  <1>3. /\ Player' /\ store' = s
        /\ refs'.scrobbled = (refs.scrobbled /\ ~Listening!Moved(s))
        /\ speaker'.from = speaker.from /\ speaker'.at = speaker.at
        /\ speaker'.track = speaker.track
    BY <1>1, <1>2, Affects
  <1>4. InStream'
    BY <1>2, <1>3 DEF InStream
  <1>5. CASE Listening!Moved(s)
    BY <1>1, <1>2, <1>3, <1>4, <1>5, Modest, Another DEF Counts
  <1>6. CASE ~Listening!Moved(s) /\ listen.over
    BY <1>1, <1>2, <1>3, <1>4, <1>6, Modest, Last DEF Counts
  <1>7. CASE ~Listening!Moved(s) /\ ~listen.over
    <2>1. listen' = listen
      BY <1>1, <1>2, <1>7, Modest, Last
    <2>2. Counts(listen', refs'.scrobbled, store'.casting)
      BY <1>2, <1>3, <1>7, <2>1 DEF Counts
    <2> QED
      BY <1>2, <1>3, <1>4, <2>1, <2>2, Modest
  <1> QED
    BY <1>5, <1>6, <1>7

LEMMA Reporting ==
  ASSUME ListenInv, Listening!TimeUpdate
  PROVE  ListenInv'
  <1>1. /\ store \in Store /\ refs \in Refs /\ audio \in 0 .. Listening!Over /\ audio \in Nat
        /\ listen \in Heard /\ ~listen.excess /\ budget \in 0 .. Steps
        /\ listen.reloads <= Steps - budget
    BY Sizes DEF ListenInv, Player
  <1>2. /\ ~store.casting /\ store' = [store EXCEPT !.time = audio]
        /\ UNCHANGED <<audio, speaker, requests, poll, budget>>
    BY DEF Listening!TimeUpdate
  <1>3. store' \in Store /\ store'.casting = store.casting
    BY <1>1, <1>2 DEF Store
  <1>4. CASE ~Listening!Crosses(audio)
    <2>1. UNCHANGED <<refs, listen>>
      BY <1>4 DEF Listening!TimeUpdate
    <2> QED
      BY <1>2, <1>3, <2>1 DEF ListenInv, Player, InStream
  <1>5. CASE Listening!Crosses(audio)
    <2> DEFINE k == Listening!Lasting(listen)
    <2>1. PICK l \in Listening!Submitted(k) : listen' = [l EXCEPT !.sounded = TRUE]
      BY <1>5 DEF Listening!TimeUpdate
    <2>2. refs' = [refs EXCEPT !.scrobbled = TRUE] /\ ~refs.scrobbled
      BY <1>5 DEF Listening!TimeUpdate, Listening!Crosses
    <2>3. k \in Heard /\ ~k.excess /\ k.counted <= k.reloads /\ k.reloads <= listen.reloads
      BY <1>1, <2>2, Modest, Last
    <2>4. l \in Heard /\ ~l.excess /\ l.counted <= 1 + l.reloads /\ l.reloads <= listen.reloads
      <3> HIDE DEF k
      <3>1. k.counted \in Nat /\ k.reloads \in Nat /\ l.counted \in Nat /\ l.reloads \in Nat
        BY <2>3, Submits DEF Heard
      <3> QED
        BY <2>3, <3>1, Submits
    <2>5. listen' \in Heard /\ ~listen'.excess /\ listen'.counted <= 1 + listen'.reloads
          /\ listen'.reloads <= listen.reloads
      BY <2>1, <2>4 DEF Heard
    <2>6. refs' \in Refs /\ refs'.scrobbled
      BY <1>1, <2>2 DEF Refs
    <2>7. listen'.reloads <= Steps - budget
      BY <1>1, <2>5, Sizes DEF Heard
    <2> QED
      BY <1>2, <1>3, <2>5, <2>6, <2>7 DEF ListenInv, Player, InStream, Counts
  <1> QED
    BY <1>4, <1>5

LEMMA Ending ==
  ASSUME ListenInv, Listening!LocalEnds
  PROVE  ListenInv'
  <1> DEFINE s == Listening!Following(store)
             k == Listening!Lasting(listen)
  <1>1. /\ store \in Store /\ refs \in Refs
        /\ listen \in Heard /\ ~listen.excess /\ budget \in 0 .. Steps
        /\ listen.reloads <= Steps - budget
    BY DEF ListenInv, Player
  <1>2. s \in Store /\ s.casting = store.casting
    BY <1>1, Follows
  <1>3. /\ ~store.casting /\ store' = s
        /\ refs' = [refs EXCEPT !.scrobbled = FALSE,
                               !.start = IF Listening!Moved(s) THEN 0 ELSE @]
        /\ audio' = IF Listening!Moved(s) THEN 0 ELSE Listening!Over
        /\ UNCHANGED <<speaker, requests, poll, budget>>
    BY DEF Listening!LocalEnds
  <1>4. PICK l \in IF refs.scrobbled THEN {k} ELSE Listening!Submitted(k) :
          listen' = IF Listening!Moved(s) THEN Listening!After(l)
                    ELSE [l EXCEPT !.over = TRUE, !.sounded = TRUE]
    BY DEF Listening!LocalEnds
  <1>5. k \in Heard /\ ~k.excess /\ k.counted <= 1 + k.reloads /\ k.reloads <= listen.reloads
        /\ (~refs.scrobbled => k.counted <= k.reloads)
    BY <1>1, Modest, Last
  <1> HIDE DEF s, k
  <1>6. l \in Heard /\ ~l.excess /\ l.counted <= 1 + l.reloads /\ l.reloads <= listen.reloads
    <2>1. CASE refs.scrobbled
      BY <1>4, <1>5, <2>1
    <2>2. CASE ~refs.scrobbled
      <3>1. l \in Listening!Submitted(k)
        BY <1>4, <2>2
      <3>2. k.counted \in Nat /\ k.reloads \in Nat /\ l.counted \in Nat /\ l.reloads \in Nat
        BY <1>5, <3>1, Submits DEF Heard
      <3> QED
        BY <1>5, <2>2, <3>1, <3>2, Submits
    <2> QED
      BY <2>1, <2>2
  <1>7. /\ listen' \in Heard /\ ~listen'.excess /\ listen'.counted <= 1 + listen'.reloads
        /\ listen'.reloads <= listen.reloads /\ (listen'.over \/ listen'.counted = 0)
    <2>1. CASE Listening!Moved(s)
      BY <1>1, <1>4, <1>6, <2>1, Another DEF Heard
    <2>2. CASE ~Listening!Moved(s)
      <3>1. listen' = [l EXCEPT !.over = TRUE, !.sounded = TRUE]
        BY <1>4, <2>2
      <3> QED
        BY <1>6, <3>1 DEF Heard
    <2> QED
      BY <2>1, <2>2
  <1>8. refs' \in Refs
    <2> DEFINE n == IF Listening!Moved(s) THEN 0 ELSE refs.start
    <2>1. n \in Int
      BY <1>1 DEF Refs
    <2>2. refs' = [refs EXCEPT !.scrobbled = FALSE, !.start = n]
      BY <1>3
    <2> HIDE DEF n
    <2> QED
      BY <1>1, <2>1, <2>2 DEF Refs
  <1>9. audio' \in 0 .. Listening!Over
    BY <1>3, Sizes
  <1>10. listen'.reloads <= Steps - budget
    BY <1>1, <1>7, Sizes DEF Heard
  <1>11. Counts(listen', refs'.scrobbled, store'.casting)
    BY <1>2, <1>3, <1>7 DEF Counts, Heard
  <1> QED
    BY <1>2, <1>3, <1>7, <1>8, <1>9, <1>10, <1>11 DEF ListenInv, Player, InStream

LEMMA Serving ==
  ASSUME ListenInv, NEW r \in requests, Listening!Serve(r) \/ Listening!Answer(r)
  PROVE  ListenInv'
  <1>1. /\ refs \in Refs /\ poll \in Loop /\ speaker \in Box /\ requests \subseteq Asked
    BY DEF ListenInv, Player
  <1>2. CASE Listening!Serve(r)
    <2>1. r \in Plays
      BY <1>1, <1>2 DEF Listening!Serve, Asked
    <2>2. r.track \in Track /\ r.from \in Nat /\ r.autoplay \in BOOLEAN
      BY <2>1 DEF Plays
    <2> DEFINE at == Listening!Within(r.from)
               from == IF r.track \in Transcoded THEN at ELSE 0
               state == IF r.autoplay THEN "playing" ELSE "stopped"
    <2>3. at \in Listening!Place /\ from \in Listening!Place /\ from <= at
          /\ (r.track \in Transcoded \/ from = 0)
      <3>1. at \in 0 .. Ticks
        BY <2>2, Inside, Sizes
      <3> HIDE DEF at
      <3> QED
        BY <3>1, Sizes
    <2>4. state \in State
      BY DEF State
    <2>5. /\ speaker' = [speaker EXCEPT !.track = r.track, !.from = from, !.at = at,
                                       !.state = state]
          /\ poll' = [poll EXCEPT !.changed = TRUE]
          /\ requests' = (requests \ {r})
                 \cup {[op |-> "answer", transcoded |-> r.track \in Transcoded]}
          /\ UNCHANGED <<store, refs, audio, listen, budget>>
      BY <1>2 DEF Listening!Serve
    <2> HIDE DEF at, from, state
    <2>6. speaker' \in Box /\ InStream'
      BY <1>1, <2>2, <2>3, <2>4, <2>5 DEF Box, Maybe, InStream
    <2>7. poll' \in Loop
      BY <1>1, <2>5 DEF Loop
    <2>8. requests' \subseteq Asked
      <3>1. (r.track \in Transcoded) \in BOOLEAN
        OBVIOUS
      <3>2. [op |-> "answer", transcoded |-> r.track \in Transcoded] \in Asked
        BY <3>1 DEF Asked
      <3> QED
        BY <1>1, <2>5, <3>2
    <2> QED
      BY <2>5, <2>6, <2>7, <2>8 DEF ListenInv, Player
  <1>3. CASE Listening!Answer(r)
    <2>1. r \in [op : {"answer"}, transcoded : BOOLEAN]
      BY <1>1, <1>3 DEF Listening!Answer, Asked, Plays
    <2>2. r.transcoded \in BOOLEAN
      BY <2>1
    <2>3. /\ refs' = [refs EXCEPT !.transcoded = r.transcoded,
                                 !.base = IF r.transcoded THEN @ ELSE 0]
          /\ requests' = requests \ {r}
          /\ UNCHANGED <<store, audio, speaker, poll, listen, budget>>
      BY <1>3 DEF Listening!Answer
    <2>4. refs' \in Refs /\ refs'.scrobbled = refs.scrobbled
      BY <1>1, <2>2, <2>3 DEF Refs
    <2> QED
      BY <1>1, <2>3, <2>4 DEF ListenInv, Player, InStream
  <1> QED
    BY <1>2, <1>3

LEMMA SpeakerEnding ==
  ASSUME ListenInv, Listening!SpeakerEnds
  PROVE  ListenInv'
  <1>1. /\ poll \in Loop /\ speaker \in Box /\ listen \in Heard
    BY DEF ListenInv, Player
  <1>2. speaker' \in Box /\ InStream'
    <2>1. CASE speaker.next # None
      BY <1>1, <2>1, Sizes DEF Listening!SpeakerEnds, Box, Maybe, State, InStream
    <2>2. CASE speaker.next = None
      <3>1. speaker' = [speaker EXCEPT !.from = 0, !.at = 0, !.state = "stopped"]
        BY <2>2 DEF Listening!SpeakerEnds
      <3>2. 0 \in Listening!Place /\ 0 <= 0
        BY Sizes
      <3> QED
        BY <1>1, <3>1, <3>2 DEF Box, State, InStream
    <2> QED
      BY <2>1, <2>2
  <1>3. poll' \in Loop
    BY <1>1 DEF Listening!SpeakerEnds, Loop
  <1>4. UNCHANGED <<store, refs, audio, requests, budget>>
    BY DEF Listening!SpeakerEnds
  <1>5. /\ listen' \in Heard /\ listen'.excess = listen.excess /\ listen'.counted = listen.counted
        /\ listen'.reloads = listen.reloads /\ (~store.casting => listen' = listen)
        /\ (listen.over => listen'.over)
    BY <1>1 DEF Listening!SpeakerEnds, Heard
  <1>6. Counts(listen', refs'.scrobbled, store'.casting)
    BY <1>4, <1>5 DEF ListenInv, Counts
  <1> QED
    BY <1>2, <1>3, <1>4, <1>5, <1>6 DEF ListenInv, Player

LEMMA Reads ==
  ASSUME ListenInv, Listening!PollRead
  PROVE  ListenInv'
  <1>1. poll \in Loop /\ speaker \in Box /\ poll.changed \in BOOLEAN
    BY DEF ListenInv, Player, Loop
  <1> DEFINE n == speaker.at - speaker.from
             read == [at |-> n, track |-> speaker.track, state |-> speaker.state,
                      moved |-> poll.changed]
  <1>2. n \in Nat
    BY <1>1, Sizes DEF Box, ListenInv, InStream
  <1>3. read \in Reading
    <2> HIDE DEF n
    <2> QED
      BY <1>1, <1>2 DEF Box, Reading
  <1>4. poll' = [poll EXCEPT !.read = read, !.changed = FALSE]
        /\ UNCHANGED <<store, refs, audio, speaker, requests, listen, budget>>
    BY DEF Listening!PollRead
  <1> HIDE DEF read
  <1>5. poll' \in Loop
    BY <1>1, <1>3, <1>4 DEF Loop
  <1> QED
    BY <1>4, <1>5 DEF ListenInv, Player, InStream

LEMMA Ticking ==
  ASSUME ListenInv, Listening!Tick
  PROVE  ListenInv'
  <1>1. /\ audio \in 0 .. Ticks + 1 /\ speaker \in Box /\ poll \in Loop
        /\ listen \in Heard /\ ~listen.excess /\ budget \in 0 .. Steps
        /\ listen.reloads <= Steps - budget
        /\ Counts(listen, refs.scrobbled, store.casting)
    BY Sizes DEF ListenInv, Player
  <1>2. audio' \in 0 .. Listening!Over
    BY <1>1, Sizes DEF Listening!Tick
  <1>3. speaker' \in Box /\ InStream'
    <2>1. speaker.at \in 0 .. Ticks /\ speaker.from \in 0 .. Ticks
      BY <1>1, Sizes DEF Box
    <2>2. speaker.at < Ticks => speaker.at + 1 \in 0 .. Ticks
      BY <2>1, Sizes
    <2>3. CASE speaker.state = "playing" /\ speaker.at < Ticks
      <3> DEFINE n == speaker.at + 1
      <3>1. n \in 0 .. Ticks /\ speaker.from <= n
        BY <2>1, <2>2, <2>3, Sizes DEF ListenInv, InStream
      <3>2. speaker' = [speaker EXCEPT !.at = n]
        BY <2>3 DEF Listening!Tick
      <3> HIDE DEF n
      <3> QED
        BY <1>1, <3>1, <3>2, Sizes DEF Box, ListenInv, InStream
    <2>4. CASE ~(speaker.state = "playing" /\ speaker.at < Ticks)
      BY <1>1, <2>4 DEF Listening!Tick, ListenInv, InStream
    <2> QED
      BY <2>3, <2>4
  <1>4. poll' \in Loop
    BY <1>1 DEF Listening!Tick, Loop
  <1>5. UNCHANGED <<store, refs, requests, budget>>
    BY DEF Listening!Tick
  <1>6. CASE ~Listening!Sounds
    <2>1. listen' = listen
      BY <1>6 DEF Listening!Tick
    <2> QED
      BY <1>2, <1>3, <1>4, <1>5, <2>1 DEF ListenInv, Player
  <1>7. CASE Listening!Sounds
    <2> DEFINE k == Listening!Lasting(listen)
    <2>1. listen' = [k EXCEPT !.sounded = TRUE]
      BY <1>7 DEF Listening!Tick
    <2>2. k \in Heard /\ ~k.excess /\ k.reloads <= listen.reloads
          /\ Counts(k, refs.scrobbled, store.casting)
      BY <1>1, Modest, Last DEF Counts
    <2> HIDE DEF k
    <2>3. listen' \in Heard /\ ~listen'.excess /\ listen'.reloads = k.reloads
          /\ listen'.counted = k.counted /\ listen'.over = k.over
      BY <2>1, <2>2 DEF Heard
    <2>4. Counts(listen', refs.scrobbled, store.casting)
      BY <2>2, <2>3 DEF Counts
    <2>5. listen'.reloads <= Steps - budget
      BY <1>1, <2>2, <2>3, Sizes DEF Heard
    <2> QED
      BY <1>2, <1>3, <1>4, <1>5, <2>3, <2>4, <2>5 DEF ListenInv, Player
  <1> QED
    BY <1>6, <1>7

LEMMA Applying ==
  ASSUME ListenInv, Listening!PollApply
  PROVE  ListenInv'
  <1> DEFINE read == poll.read
             counts == read.state = "playing" /\ Listening!Crosses(Listening!PlaceRead(read))
             jumps == /\ read.moved /\ poll.sawUri /\ ~poll.guarded /\ read.track # None
                      /\ refs.pending # None
             ends == read.state = "stopped" /\ poll.wasPlaying /\ ~poll.guarded
             synced == Listening!Synced(read)
             reported == [refs EXCEPT !.scrobbled = @ \/ counts]
             s == IF jumps THEN Listening!JumpTo(synced, refs.pending)
                  ELSE IF ends THEN Listening!Following(synced) ELSE synced
             r == IF jumps THEN [reported EXCEPT !.base = 0, !.skip = refs.pending,
                                                 !.pending = None]
                  ELSE reported
             p == [poll EXCEPT !.read = None, !.sawUri = read.track # None,
                               !.wasPlaying = read.state = "playing", !.fresh = TRUE]
  <1>1. /\ Player /\ store \in Store /\ refs \in Refs /\ poll \in Loop /\ InStream
        /\ listen \in Heard /\ ~listen.excess /\ budget \in 0 .. Steps
        /\ listen.reloads <= Steps - budget
        /\ Counts(listen, refs.scrobbled, store.casting)
    BY DEF ListenInv, Player
  <1>2. store.casting /\ read # None /\ Listening!Effects(s, r, p, FALSE) /\ budget' = budget
    BY DEF Listening!PollApply
  <1>3. PICK l \in IF counts THEN Listening!Submitted(listen) ELSE {listen} :
          listen' = IF Listening!Moved(s) THEN Listening!After(l) ELSE l
    BY DEF Listening!PollApply
  <1>4. read \in Reading /\ read.at \in Nat /\ refs.base \in Nat
    BY <1>1, <1>2 DEF Loop, Refs, Reading
  <1>5. synced \in Store /\ synced.casting = store.casting
    <2> DEFINE n == Listening!PlaceRead(read)
               b == IF read.state = "stopped" THEN store.playing ELSE read.state = "playing"
    <2>1. n \in Nat
      BY <1>4 DEF Listening!PlaceRead
    <2>2. b \in BOOLEAN
      BY <1>1 DEF Store
    <2>3. synced = [store EXCEPT !.time = n, !.playing = b]
      BY DEF Listening!Synced
    <2> HIDE DEF n, b, synced
    <2> QED
      BY <1>1, <2>1, <2>2, <2>3 DEF Store
  <1>6. s \in Store /\ s.casting = store.casting
    <2> HIDE DEF synced, ends, read
    <2>1. jumps => refs.pending \in Track
      BY <1>1 DEF Refs, Maybe
    <2> QED
      BY <1>5, <2>1, Jumps, Follows
  <1>7. /\ counts \in BOOLEAN /\ (counts => ~refs.scrobbled)
    BY DEF Listening!Crosses
  <1> HIDE DEF counts
  <1>8. reported \in Refs /\ reported.scrobbled = (refs.scrobbled \/ counts)
    BY <1>1, <1>7 DEF Refs
  <1> HIDE DEF reported
  <1>9. r \in Refs /\ r.scrobbled = (refs.scrobbled \/ counts)
    <2>1. CASE jumps
      <3>1. refs.pending \in Maybe /\ None \in Maybe
        BY <1>1 DEF Refs, Maybe
      <3>2. r = [reported EXCEPT !.base = 0, !.skip = refs.pending, !.pending = None]
        BY <2>1
      <3> QED
        BY <1>8, <3>1, <3>2 DEF Refs
    <2>2. CASE ~jumps
      BY <1>8, <2>2
    <2> QED
      BY <2>1, <2>2
  <1>10. p \in Loop
    <2> DEFINE u == read.track # None
               w == read.state = "playing"
    <2>1. u \in BOOLEAN /\ w \in BOOLEAN
      OBVIOUS
    <2>2. p = [poll EXCEPT !.read = None, !.sawUri = u, !.wasPlaying = w, !.fresh = TRUE]
      OBVIOUS
    <2> HIDE DEF u, w, p
    <2> QED
      BY <1>1, <2>1, <2>2 DEF Loop
  <1> HIDE DEF s, r, p
  <1>11. /\ Player' /\ store' = s
         /\ refs'.scrobbled = (r.scrobbled /\ ~Listening!Moved(s))
         /\ speaker'.from = speaker.from /\ speaker'.at = speaker.at
         /\ speaker'.track = speaker.track
    BY <1>1, <1>2, <1>6, <1>9, <1>10, Affects
  <1>12. InStream'
    BY <1>1, <1>11 DEF InStream
  <1>13. /\ l \in Heard /\ ~l.excess /\ l.counted <= 1 + l.reloads /\ l.reloads = listen.reloads
         /\ l.counted <= l.reloads \/ r.scrobbled
    <2>1. CASE counts
      <3>1. l \in Listening!Submitted(listen)
        BY <1>3, <2>1
      <3>2. /\ listen.counted \in Nat /\ listen.reloads \in Nat
            /\ listen.counted <= listen.reloads
        BY <1>1, <1>2, <1>7, <2>1 DEF Heard, Counts
      <3>3. /\ l \in Heard /\ l.excess = listen.excess /\ l.reloads = listen.reloads
            /\ l.counted \in Nat /\ l.counted <= listen.counted + 1
        BY <1>1, <3>1, Submits DEF Heard
      <3>4. l.counted <= 1 + l.reloads
        BY <3>2, <3>3
      <3>5. r.scrobbled
        BY <1>9, <2>1
      <3> QED
        BY <1>1, <3>3, <3>4, <3>5
    <2>2. CASE ~counts
      <3>1. l = listen
        BY <1>3, <2>2
      <3> QED
        BY <1>1, <1>2, <1>9, <2>2, <3>1, Modest DEF Counts
    <2> QED
      BY <2>1, <2>2
  <1>14. CASE Listening!Moved(s)
    <2>1. /\ listen' \in Heard /\ listen'.counted = 0 /\ listen'.reloads = 0 /\ ~listen'.excess
      BY <1>3, <1>13, <1>14, Another
    <2> QED
      BY <1>1, <1>2, <1>11, <1>12, <2>1, Sizes DEF ListenInv, Counts
  <1>15. CASE ~Listening!Moved(s)
    <2>1. listen' = l
      BY <1>3, <1>15
    <2>2. Counts(listen', refs'.scrobbled, store'.casting)
      BY <1>11, <1>13, <1>15, <2>1 DEF Counts
    <2> QED
      BY <1>1, <1>2, <1>11, <1>12, <1>13, <2>1, <2>2 DEF ListenInv
  <1> QED
    BY <1>14, <1>15

LEMMA Seeking ==
  ASSUME ListenInv, NEW place \in Listening!Place, Listening!Seek(place)
  PROVE  /\ Player' /\ InStream'
         /\ listen' \in Heard /\ ~listen'.excess /\ listen'.reloads <= listen.reloads
         /\ Counts(listen', refs'.scrobbled, store'.casting)
  <1>1. /\ store \in Store /\ refs \in Refs /\ poll \in Loop /\ speaker \in Box
        /\ requests \subseteq Asked /\ audio \in 0 .. Listening!Over
        /\ listen \in Heard /\ ~listen.excess
        /\ Counts(listen, refs.scrobbled, store.casting)
    BY DEF ListenInv, Player
  <1>2. place \in Nat /\ place \in 0 .. Listening!Over /\ place \in 0 .. Ticks
    BY Sizes
  <1>3. store' = [store EXCEPT !.time = place] /\ listen' = Listening!Lasting(listen)
    BY DEF Listening!Seek
  <1>4. store' \in Store /\ store'.casting = store.casting
    BY <1>1, <1>2, <1>3 DEF Store
  <1>5. /\ refs' \in Refs /\ refs'.scrobbled = refs.scrobbled
        /\ poll' \in Loop /\ speaker' \in Box /\ InStream'
        /\ requests' \subseteq Asked /\ audio' \in 0 .. Listening!Over
    <2>1. CASE ~store.casting
      <3>1. audio' = place /\ UNCHANGED <<refs, requests, poll, speaker>>
        BY <2>1 DEF Listening!Seek
      <3> QED
        BY <1>1, <1>2, <3>1 DEF ListenInv, InStream
    <2>2. CASE store.casting /\ refs.transcoded
      <3>1. /\ refs' = [refs EXCEPT !.start = place, !.base = place]
            /\ requests' = requests \cup {Listening!PlayOf(store, place)}
            /\ poll' = [poll EXCEPT !.guarded = TRUE]
            /\ UNCHANGED <<audio, speaker>>
        BY <2>2 DEF Listening!Seek, Listening!Issue
      <3>2. Listening!PlayOf(store, place) \in Asked
        BY <1>1, <1>2 DEF Listening!PlayOf, Asked, Plays, Store
      <3>3. refs' \in Refs /\ refs'.scrobbled = refs.scrobbled
        BY <1>1, <1>2, <3>1, Started
      <3>4. poll' \in Loop
        BY <1>1, <3>1 DEF Loop
      <3> QED
        BY <1>1, <3>1, <3>2, <3>3, <3>4 DEF ListenInv, InStream
    <2>3. CASE store.casting /\ ~refs.transcoded
      <3>1. /\ speaker' \in Listening!Sought(place)
            /\ UNCHANGED <<audio, refs, requests, poll>>
        BY <2>3 DEF Listening!Seek
      <3>2. InStream /\ 0 \in Listening!Place
        BY Sizes DEF ListenInv
      <3>3. \/ speaker' = speaker
            \/ speaker' = [speaker EXCEPT !.from = 0, !.at = 0, !.state = "stopped"]
            \/ /\ speaker.track \in Transcoded /\ place \in speaker.from .. Ticks
               /\ speaker' = [speaker EXCEPT !.at = place]
            \/ /\ speaker.track \notin Transcoded
               /\ speaker' = [speaker EXCEPT !.at = place]
        BY <3>1 DEF Listening!Sought
      <3>4. ASSUME speaker' = speaker
            PROVE  speaker' \in Box /\ InStream'
        BY <1>1, <3>2, <3>4 DEF InStream
      <3>5. ASSUME speaker' = [speaker EXCEPT !.from = 0, !.at = 0, !.state = "stopped"]
            PROVE  speaker' \in Box /\ InStream'
        <4>1. /\ speaker'.from = 0 /\ speaker'.at = 0 /\ speaker'.track = speaker.track
              /\ speaker' \in Box
          BY <1>1, <3>2, <3>5 DEF Box, State
        <4> QED
          BY <4>1, Sizes DEF InStream
      <3>6. ASSUME speaker' = [speaker EXCEPT !.at = place],
                   speaker.track \notin Transcoded \/ place \in speaker.from .. Ticks
            PROVE  speaker' \in Box /\ InStream'
        <4>1. speaker.from <= place
          BY <1>1, <1>2, <3>2, <3>6, Sizes DEF InStream, Box
        <4> QED
          BY <1>1, <3>2, <3>6, <4>1 DEF Box, InStream
      <3>7. speaker' \in Box /\ InStream'
        BY <3>3, <3>4, <3>5, <3>6
      <3> QED
        BY <1>1, <3>1, <3>7
    <2> QED
      BY <1>1, <2>1, <2>2, <2>3 DEF Refs
  <1>6. listen' \in Heard /\ ~listen'.excess /\ listen'.reloads <= listen.reloads
        /\ Counts(listen', refs'.scrobbled, store'.casting)
    BY <1>1, <1>3, <1>4, <1>5, Modest, Last DEF Counts
  <1> QED
    BY <1>4, <1>5, <1>6 DEF Player

LEMMA Reloading ==
  ASSUME ListenInv, Listening!Reload
  PROVE  /\ Player' /\ InStream'
         /\ listen' \in Heard /\ ~listen'.excess /\ listen'.reloads <= listen.reloads + 1
         /\ Counts(listen', refs'.scrobbled, store'.casting)
  <1> DEFINE skip == IF store.casting THEN store.index ELSE None
             k == Listening!Lasting(listen)
  <1>1. /\ Player /\ store \in Store /\ InStream /\ listen \in Heard /\ ~listen.excess
    BY DEF ListenInv, Player
  <1>2. /\ Listening!Effects(store, Listening!NewRefs(skip), Listening!Polling(FALSE), TRUE)
        /\ listen' = [k EXCEPT !.reloads = @ + 1]
    BY DEF Listening!Reload
  <1>3. skip \in Maybe
    BY <1>1 DEF Store, Maybe
  <1>4. Listening!NewRefs(skip) \in Refs /\ Listening!NewRefs(skip).scrobbled = FALSE
        /\ Listening!Polling(FALSE) \in Loop
    BY <1>3, Renews, Loops
  <1>5. /\ Player' /\ store' = store
        /\ speaker'.from = speaker.from /\ speaker'.at = speaker.at
        /\ speaker'.track = speaker.track
    BY <1>1, <1>2, <1>4, Affects
  <1>6. k \in Heard /\ ~k.excess /\ k.reloads <= listen.reloads /\ k.counted <= 1 + k.reloads
    BY <1>1, Modest, Last
  <1> HIDE DEF k
  <1>7. /\ listen' \in Heard /\ ~listen'.excess /\ listen'.counted <= listen'.reloads
        /\ listen'.reloads = k.reloads + 1
    BY <1>2, <1>6 DEF Heard
  <1>8. listen'.reloads <= listen.reloads + 1
    BY <1>1, <1>6, <1>7 DEF Heard
  <1> QED
    BY <1>1, <1>5, <1>7, <1>8 DEF InStream, Counts

LEMMA Acting ==
  ASSUME ListenInv, Listening!User
  PROVE  ListenInv'
  <1>1. /\ store \in Store /\ budget \in 0 .. Steps /\ budget > 0 /\ budget' = budget - 1
        /\ listen \in Heard /\ listen.reloads <= Steps - budget
    BY DEF ListenInv, Player, Listening!User
  <1> DEFINE Goes == /\ Player' /\ InStream'
                     /\ listen' \in Heard /\ ~listen'.excess
                     /\ listen'.reloads <= listen.reloads + 1
                     /\ Counts(listen', refs'.scrobbled, store'.casting)
  <1>2. ASSUME NEW s \in Store, Listening!Becomes(s) PROVE Goes
    <2>1. /\ Player' /\ InStream'
          /\ listen' \in Heard /\ ~listen'.excess /\ listen'.reloads <= listen.reloads
          /\ Counts(listen', refs'.scrobbled, store'.casting)
      BY <1>2, Becoming
    <2>2. listen'.reloads <= listen.reloads + 1
      BY <1>1, <2>1 DEF Heard
    <2> QED
      BY <2>1, <2>2
  <1>3. ASSUME NEW i \in Track, Listening!Click(i) PROVE Goes
    <2>1. [store EXCEPT !.playing = ~@] \in Store /\ Listening!JumpTo(store, i) \in Store
      BY <1>1, Jumps DEF Store
    <2> HIDE DEF Goes
    <2> QED
      BY <1>2, <1>3, <2>1 DEF Listening!Click
  <1>4. ASSUME Listening!Skip PROVE Goes
    BY <1>1, <1>2, <1>4, Follows DEF Listening!Skip
  <1>5. ASSUME Listening!Back PROVE Goes
    <2> DEFINE n == IF store.time > 0 \/ store.index = 1 THEN store.index ELSE store.index - 1
    <2>1. n \in Track
      BY <1>1, Sizes DEF Store
    <2>2. Listening!Becomes([store EXCEPT !.time = 0, !.index = n])
      BY <1>5 DEF Listening!Back
    <2> HIDE DEF n
    <2>3. [store EXCEPT !.time = 0, !.index = n] \in Store
      BY <1>1, <2>1 DEF Store
    <2> HIDE DEF Goes
    <2> QED
      BY <1>2, <2>2, <2>3
  <1>6. ASSUME Listening!Switch PROVE Goes
    <2>1. [store EXCEPT !.casting = ~@] \in Store
      BY <1>1 DEF Store
    <2> HIDE DEF Goes
    <2> QED
      BY <1>2, <1>6, <2>1 DEF Listening!Switch
  <1>7. ASSUME NEW place \in Listening!Place, Listening!Seek(place) PROVE Goes
    <2>1. /\ Player' /\ InStream'
          /\ listen' \in Heard /\ ~listen'.excess /\ listen'.reloads <= listen.reloads
          /\ Counts(listen', refs'.scrobbled, store'.casting)
      BY <1>7, Seeking
    <2>2. listen'.reloads <= listen.reloads + 1
      BY <1>1, <2>1 DEF Heard
    <2> QED
      BY <2>1, <2>2
  <1>8. ASSUME Listening!Reload PROVE Goes
    BY <1>8, Reloading
  <1>9. Goes
    <2> HIDE DEF Goes
    <2> QED
      BY <1>3, <1>4, <1>5, <1>6, <1>7, <1>8 DEF Listening!User, Track
  <1>10. budget' \in 0 .. Steps /\ listen'.reloads <= Steps - budget'
    BY <1>1, <1>9, Sizes DEF Heard
  <1> QED
    BY <1>9, <1>10 DEF ListenInv

LEMMA ListenStep == ListenInv /\ [Listening!Next]_listening => ListenInv'
  <1> SUFFICES ASSUME ListenInv, [Listening!Next]_listening PROVE ListenInv'
    OBVIOUS
  <1>1. CASE UNCHANGED listening
    BY <1>1 DEF listening, ListenInv, Player, InStream
  <1> QED
    BY <1>1, Reporting, Ending, Serving, SpeakerEnding, Reads, Applying, Ticking, Acting
       DEF Listening!Next

-----------------------------------------------------------------------------
(* The readers of the catalog.                                             *)

\* What an instance calls by other names.
LEMMA BrowsingWords ==
  /\ \A S : Browsing!Cardinality(S) = Cardinality(S)
  /\ \A S : Browsing!IsFiniteSet(S) <=> IsFiniteSet(S)
  /\ \A f : Browsing!IsInjective(f) <=> IsInjective(f)
  <1>1. ASSUME NEW S PROVE Browsing!Cardinality(S) = Cardinality(S)
    BY DEF Browsing!Cardinality, Cardinality
  <1>2. ASSUME NEW f PROVE Browsing!IsInjective(f) <=> IsInjective(f)
    BY DEF Browsing!IsInjective, IsInjective
  <1>3. ASSUME NEW S PROVE Browsing!IsFiniteSet(S) <=> IsFiniteSet(S)
    BY DEF Browsing!IsFiniteSet, IsFiniteSet
  <1> QED
    BY <1>1, <1>2, <1>3

\* A row with the keys k comes before one with the keys l; n keys decide, then x and y.
Sooner(n, k, x, l, y) ==
  \/ k[1] < l[1]
  \/ n = 1 /\ k[1] = l[1] /\ x < y
  \/ n = 2 /\ k[1] = l[1] /\ k[2] < l[2]
  \/ n = 2 /\ k[1] = l[1] /\ k[2] = l[2] /\ x < y

\* This is the order of the keys, each with what decides between ties at the end.
LEMMA SoonerIsOrder ==
  ASSUME NEW n \in {1, 2}, NEW k \in Seq(Int), NEW l \in Seq(Int), NEW x \in Int, NEW y \in Int,
         Len(k) = n, Len(l) = n
  PROVE  LET p == Append(k, x)
             q == Append(l, y)
         IN  (\E i \in DOMAIN p : p[i] < q[i] /\ \A j \in 1 .. i - 1 : p[j] = q[j])
               <=> Sooner(n, k, x, l, y)
  <1> DEFINE p == Append(k, x)
             q == Append(l, y)
  <1>1. 1 .. 2 = {1, 2} /\ 1 .. 3 = {1, 2, 3}
        /\ 1 .. 1 - 1 = {} /\ 1 .. 2 - 1 = {1} /\ 1 .. 3 - 1 = {1, 2}
    OBVIOUS
  <1>2. CASE n = 1
    <2>0. Len(p) = 2 /\ p \in Seq(Int)
      BY <1>2
    <2>1. DOMAIN p = {1, 2} /\ p[1] = k[1] /\ p[2] = x /\ q[1] = l[1] /\ q[2] = y
      BY <1>1, <1>2, <2>0
    <2> HIDE DEF p, q
    <2>2. (\E i \in DOMAIN p : p[i] < q[i] /\ \A j \in 1 .. i - 1 : p[j] = q[j])
            <=> Sooner(n, k, x, l, y)
      BY <1>1, <1>2, <2>1 DEF Sooner
    <2> QED
      BY <2>2 DEF p, q
  <1>3. CASE n = 2
    <2>0. Len(p) = 3 /\ Len(q) = 3 /\ p \in Seq(Int)
      <3>1. Len(p) = Len(k) + 1 /\ Len(q) = Len(l) + 1 /\ p \in Seq(Int)
        OBVIOUS
      <3> QED
        BY <1>3, <3>1
    <2>1. DOMAIN p = {1, 2, 3} /\ p[1] = k[1] /\ p[2] = k[2] /\ p[3] = x
          /\ q[1] = l[1] /\ q[2] = l[2] /\ q[3] = y
      BY <1>1, <1>3, <2>0
    <2> HIDE DEF p, q
    <2>2. (\E i \in DOMAIN p : p[i] < q[i] /\ \A j \in 1 .. i - 1 : p[j] = q[j])
            <=> Sooner(n, k, x, l, y)
      BY <1>1, <1>3, <2>1 DEF Sooner
    <2> QED
      BY <2>2 DEF p, q
  <1> QED
    BY <1>2, <1>3

\* It is strict and total.
LEMMA SoonerIsStrict ==
  ASSUME NEW n \in {1, 2}, NEW k \in Seq(Int), NEW l \in Seq(Int), NEW m \in Seq(Int),
         NEW x \in Int, NEW y \in Int, NEW z \in Int,
         Len(k) = n, Len(l) = n, Len(m) = n
  PROVE  /\ ~Sooner(n, k, x, k, x)
         /\ Sooner(n, k, x, l, y) /\ Sooner(n, l, y, m, z) => Sooner(n, k, x, m, z)
         /\ x # y => Sooner(n, k, x, l, y) \/ Sooner(n, l, y, k, x)
         /\ Sooner(n, k, x, l, y) => k[1] <= l[1]
  <1>1. /\ k[1] \in Int /\ l[1] \in Int /\ m[1] \in Int
        /\ n = 2 => k[2] \in Int /\ l[2] \in Int /\ m[2] \in Int
    OBVIOUS
  <1> QED
    BY <1>1 DEF Sooner

\* The elements of s are those of S, each of them once.
Enumerates(s, S) ==
  s \in Seq(S) /\ IsInjective(s) /\ \A x \in S : \E i \in DOMAIN s : s[i] = x

\* What ORDER BY makes of rows: each of them once, the first key not falling.
LEMMA Ordered ==
  ASSUME NEW S, IsFiniteSet(S), NEW n \in {1, 2}, NEW keys, NEW last,
         \A x \in S : keys[x] \in Seq(Int) /\ Len(keys[x]) = n /\ last[x] \in Int,
         \A x, y \in S : last[x] = last[y] => x = y
  PROVE  LET s == Browsing!InOrder(S, keys, last)
         IN  /\ Enumerates(s, S)
             /\ \A i, j \in DOMAIN s : i < j => keys[s[i]][1] <= keys[s[j]][1]
  <1> DEFINE First(x, y) == Sooner(n, keys[x], last[x], keys[y], last[y])
             R == {p \in S \X S : First(p[1], p[2])}
             Precedes(k, l) == \E i \in DOMAIN k : k[i] < l[i] /\ \A j \in 1 .. i - 1 : k[j] = l[j]
             Before(x) == {y \in S : Precedes(Append(keys[y], last[y]), Append(keys[x], last[x]))}
             Rank(x) == Browsing!Cardinality(Before(x))
             m == Browsing!Cardinality(S)
             s == [i \in 1 .. m |-> CHOOSE x \in S : Rank(x) = i - 1]
  <1>1. /\ \A x \in S : ~First(x, x)
        /\ \A x, y, z \in S : First(x, y) /\ First(y, z) => First(x, z)
        /\ \A x, y \in S : x # y => First(x, y) \/ First(y, x)
        /\ \A x, y \in S : First(x, y) => keys[x][1] <= keys[y][1]
    <2>1. ASSUME NEW x \in S, NEW y \in S, NEW z \in S
          PROVE  /\ ~First(x, x)
                 /\ First(x, y) /\ First(y, z) => First(x, z)
                 /\ x # y => First(x, y) \/ First(y, x)
                 /\ First(x, y) => keys[x][1] <= keys[y][1]
      <3>1. last[x] \in Int /\ last[y] \in Int /\ last[z] \in Int /\ (last[x] = last[y] => x = y)
            /\ keys[x] \in Seq(Int) /\ keys[y] \in Seq(Int) /\ keys[z] \in Seq(Int)
            /\ Len(keys[x]) = n /\ Len(keys[y]) = n /\ Len(keys[z]) = n
        OBVIOUS
      <3> QED
        BY <3>1, SoonerIsStrict
    <2> HIDE DEF First
    <2> QED
      BY <2>1
  <1>2. \A x, y \in S : <<x, y>> \in R <=> First(x, y)
    OBVIOUS
  <1>3. Browsing!InOrder(S, keys, last) = s
    BY DEF Browsing!InOrder
  <1>4. ASSUME NEW x \in S PROVE Before(x) = {y \in S : <<y, x>> \in R}
    <2>1. ASSUME NEW y \in S
          PROVE  Precedes(Append(keys[y], last[y]), Append(keys[x], last[x])) <=> First(y, x)
      <3>1. last[x] \in Int /\ last[y] \in Int /\ keys[x] \in Seq(Int) /\ keys[y] \in Seq(Int)
            /\ Len(keys[x]) = n /\ Len(keys[y]) = n
        OBVIOUS
      <3> QED
        BY <3>1, SoonerIsOrder
    <2> HIDE DEF Precedes, First, R
    <2> QED
      BY <1>2, <2>1
  <1> HIDE DEF First, R, Before, m
  <1>5. /\ \A x, y \in S : <<x, y>> \in R => Rank(x) < Rank(y)
        /\ \A x, y \in S : Rank(x) = Rank(y) => x = y
        /\ \A i \in 1 .. m : \E x \in S : Rank(x) = i - 1
        /\ \A x \in S : Rank(x) \in 0 .. m - 1
    <2> DEFINE Below(x) == {y \in S : <<y, x>> \in R}
    <2>1. /\ \A x \in S : <<x, x>> \notin R
          /\ \A x, y, z \in S : <<x, y>> \in R /\ <<y, z>> \in R => <<x, z>> \in R
          /\ \A x, y \in S : x # y => <<x, y>> \in R \/ <<y, x>> \in R
      BY <1>1, <1>2
    <2>2. /\ \A x, y \in S : <<x, y>> \in R => Cardinality(Below(x)) < Cardinality(Below(y))
          /\ \A x, y \in S : Cardinality(Below(x)) = Cardinality(Below(y)) => x = y
          /\ \A i \in 1 .. Cardinality(S) : \E x \in S : Cardinality(Below(x)) = i - 1
          /\ \A x \in S : Cardinality(Below(x)) \in 0 .. Cardinality(S) - 1
      BY <2>1, Ranks
    <2>3. \A x \in S : Rank(x) = Cardinality(Below(x))
      BY <1>4, BrowsingWords
    <2>4. m = Cardinality(S)
      BY BrowsingWords DEF m
    <2> HIDE DEF Rank, Below
    <2> QED
      BY <2>2, <2>3, <2>4
  <1>6. m \in Nat
    BY FS_CardinalityType, BrowsingWords DEF m
  <1> HIDE DEF Rank
  <1>7. \A i \in 1 .. m : s[i] \in S /\ Rank(s[i]) = i - 1
    BY <1>5
  <1>8. s \in [1 .. m -> S]
    BY <1>5
  <1> HIDE DEF s
  <1>9. s \in Seq(S) /\ Len(s) = m /\ DOMAIN s = 1 .. m
    BY <1>6, <1>8
  <1>10. IsInjective(s)
    <2>1. ASSUME NEW i \in 1 .. m, NEW j \in 1 .. m, s[i] = s[j] PROVE i = j
      <3>1. Rank(s[i]) = i - 1 /\ Rank(s[i]) = j - 1
        BY <1>7, <2>1
      <3> QED
        BY <1>6, <3>1
    <2> QED
      BY <1>9, <2>1 DEF IsInjective
  <1>11. ASSUME NEW x \in S PROVE \E i \in DOMAIN s : s[i] = x
    <2> DEFINE i == Rank(x) + 1
    <2>1. i \in 1 .. m /\ i - 1 = Rank(x)
      BY <1>5, <1>6
    <2> HIDE DEF i
    <2>2. Rank(s[i]) = Rank(x) /\ s[i] \in S
      BY <1>7, <2>1
    <2> QED
      BY <1>5, <1>9, <2>1, <2>2
  <1>12. ASSUME NEW i \in DOMAIN s, NEW j \in DOMAIN s, i < j
         PROVE  keys[s[i]][1] <= keys[s[j]][1]
    <2>1. s[i] \in S /\ s[j] \in S /\ Rank(s[i]) = i - 1 /\ Rank(s[j]) = j - 1
          /\ i \in Int /\ j \in Int
      BY <1>6, <1>7, <1>9
    <2>2. Rank(s[i]) # Rank(s[j]) /\ ~(Rank(s[j]) < Rank(s[i]))
      BY <1>12, <2>1
    <2>3. s[i] # s[j] /\ <<s[j], s[i]>> \notin R
      BY <1>5, <2>1, <2>2
    <2>4. <<s[i], s[j]>> \in R
      BY <1>1, <1>2, <2>1, <2>3
    <2> QED
      BY <1>1, <1>2, <2>1, <2>4
  <1> QED
    BY <1>3, <1>9, <1>10, <1>11, <1>12 DEF Enumerates

-----------------------------------------------------------------------------
\* What a catalog is.
LEMMA CatalogIs ==
  ASSUME catalog \in Catalogs
  PROVE  /\ IsFiniteSet(DOMAIN catalog.letter) /\ DOMAIN catalog.letter \subseteq Int
         /\ IsFiniteSet(DOMAIN catalog.group) /\ DOMAIN catalog.group \subseteq Int
         /\ IsFiniteSet(DOMAIN catalog.release) /\ DOMAIN catalog.release \subseteq Int
         /\ \A a \in DOMAIN catalog.letter : catalog.letter[a] \in Int
         /\ \A g \in DOMAIN catalog.group :
              /\ catalog.group[g].artist \in DOMAIN catalog.letter
              /\ catalog.group[g].name \in Int /\ catalog.group[g].year \in Int
              /\ Browsing!ReleasesOf(g) # {}
              /\ catalog.scan[g] \in Int
         /\ \A g, h \in DOMAIN catalog.group : catalog.scan[g] = catalog.scan[h] => g = h
         /\ \A r \in DOMAIN catalog.release :
              /\ catalog.release[r].group \in DOMAIN catalog.group
              /\ catalog.release[r].tracks \in Nat /\ catalog.release[r].track_count \in Int
         /\ DOMAIN catalog.letter \subseteq Browsing!Artists
         /\ DOMAIN catalog.group \subseteq Browsing!Groups
  BY ClientsAssumption, BrowsingWords
     DEF Browsing!CatalogAssumption, Browsing!ReleasesOf, Browsing!Artists, Browsing!Groups

\* All rows of an album list.
AllRows(type, folder) ==
  LET found == Browsing!ListRows(type, folder)
  IN  Browsing!InOrder(found, [g \in found |-> Browsing!ListKeys(type, g)],
                       Browsing!TieBreak(type))

\* All there is to see of what is walked.
Children(what) ==
  CASE what[1] = "root" -> <<<<"music">>>>
    [] what[1] = "music" -> <<<<"artists">>, <<"albums">>>>
    [] what[1] = "artists" -> Browsing!Named("artist", Browsing!ArtistIndex)
    [] what[1] = "albums" ->
         Browsing!Named("album", AllRows("alphabeticalByName", Browsing!AnyFolder))
    [] what[1] = "artist" ->
         IF what[2] \in DOMAIN catalog.letter
           THEN Browsing!Named("album", Browsing!ArtistAlbums(what[2])) ELSE <<>>
    [] what[1] = "album" ->
         IF what[2] \in DOMAIN catalog.group THEN Browsing!AlbumTracks(what[2]) ELSE <<>>
    [] what[1] = "list" -> Browsing!Named("album", AllRows(what[2], what[3]))

LEMMA Enumerated ==
  ASSUME NEW S, NEW s, Enumerates(s, S)
  PROVE  {s[i] : i \in DOMAIN s} = S
  BY DEF Enumerates

\* They are as many as S has elements.
LEMMA Sized ==
  ASSUME NEW S, NEW s, Enumerates(s, S)
  PROVE  IsFiniteSet(S) /\ Cardinality(S) = Len(s)
  <1> DEFINE n == Len(s)
  <1>1. s \in [1 .. n -> S] /\ n \in Nat
    BY DEF Enumerates
  <1>2. s \in Bijection(1 .. n, S)
    BY <1>1 DEF Enumerates, IsInjective, Bijection, Injection, Surjection
  <1>3. ExistsBijection(1 .. n, S)
    BY <1>2 DEF ExistsBijection
  <1> HIDE DEF n
  <1>4. IsFiniteSet(1 .. n)
    BY <1>1, FS_Interval
  <1>5. IsFiniteSet(S)
    BY <1>3, <1>4, FS_Bijection
  <1> QED
    BY <1>1, <1>3, <1>5, FS_CountingElements DEF n

\* The keys of a list are one or two numbers.
LEMMA ListKeysAre ==
  ASSUME catalog \in Catalogs, plays \in Seq(Browsing!Groups),
         NEW type \in Browsing!Types, NEW folder
  PROVE  \E n \in {1, 2} : \A g \in Browsing!ListRows(type, folder) :
           Browsing!ListKeys(type, g) \in Seq(Int) /\ Len(Browsing!ListKeys(type, g)) = n
  <1>1. ASSUME NEW g, Browsing!Count(g) > 0
        PROVE  Browsing!Count(g) \in Int /\ Browsing!LastPlay(g) \in Int
    <2> DEFINE T == {i \in DOMAIN plays : plays[i] = g}
               R == {p \in Int \X Int : p[1] < p[2]}
    <2>1. IsFiniteSet(DOMAIN plays) /\ DOMAIN plays \subseteq Int
      <3>1. DOMAIN plays = 1 .. Len(plays) /\ 1 \in Int /\ Len(plays) \in Int
        OBVIOUS
      <3> QED
        BY <3>1, FS_Interval
    <2>2. IsFiniteSet(T) /\ T \subseteq Int
      BY <2>1, FS_Subset
    <2>3. Browsing!Count(g) = Cardinality(T) /\ Cardinality(T) \in Nat
      BY <2>2, FS_CardinalityType, BrowsingWords DEF Browsing!Count
    <2> HIDE DEF T
    <2>4. T # {}
      <3>1. Cardinality(T) # 0
        BY <1>1, <2>3
      <3>2. IsFiniteSet(T) => (Cardinality(T) = 0 <=> T = {})
        BY FS_EmptySet, Zenon
      <3> QED
        BY <2>2, <3>1, <3>2
    <2>0. \A a, b \in Int : <<a, b>> \in R <=> a < b
      OBVIOUS
    <2> HIDE DEF R
    <2>5. /\ \A x \in T : <<x, x>> \notin R
          /\ \A x, y, z \in T : <<x, y>> \in R /\ <<y, z>> \in R => <<x, z>> \in R
      BY <2>0, <2>2
    <2>6. \E x \in T : \A y \in T : <<x, y>> \notin R
      BY <2>2, <2>4, <2>5, MaximalElement
    <2>7. \E x \in T : \A y \in T : y <= x
      <3>1. PICK x \in T : \A y \in T : <<x, y>> \notin R
        BY <2>6
      <3>2. ASSUME NEW y \in T PROVE y <= x
        <4>1. x \in Int /\ y \in Int /\ <<x, y>> \notin R
          BY <2>2, <3>1, <3>2
        <4> QED
          BY <2>0, <4>1
      <3> QED
        BY <3>2
    <2>8. \E i \in DOMAIN plays : plays[i] = g /\ \A j \in DOMAIN plays : plays[j] = g => j <= i
      BY <2>7 DEF T
    <2>9. Browsing!LastPlay(g) \in DOMAIN plays
      BY <2>8 DEF Browsing!LastPlay
    <2> QED
      BY <2>1, <2>3, <2>9
  <1>2. \A g \in DOMAIN catalog.group :
          catalog.group[g].name \in Int /\ catalog.group[g].artist \in Int
    BY CatalogIs
  <1> DEFINE Ints(k, n) == k \in Seq(Int) /\ Len(k) = n
  <1>0. \A a, b \in Int : Ints(<<a>>, 1) /\ Ints(<<a, b>>, 2) /\ - a \in Int
    OBVIOUS
  <1> HIDE DEF Ints
  <1>3. CASE type \in {"alphabeticalByName", "starred"}
    <2>1. \A g \in Browsing!ListRows(type, folder) :
            Browsing!ListKeys(type, g) = <<catalog.group[g].name>> /\ g \in DOMAIN catalog.group
      BY <1>3 DEF Browsing!ListKeys, Browsing!ListRows
    <2>2. \A g \in Browsing!ListRows(type, folder) :
           Ints(Browsing!ListKeys(type, g), 1)
      BY <1>0, <1>2, <2>1
    <2> QED
      BY <2>2 DEF Ints
  <1>4. CASE type = "alphabeticalByArtist"
    <2>1. \A g \in Browsing!ListRows(type, folder) :
            Browsing!ListKeys(type, g) = <<catalog.group[g].artist, catalog.group[g].name>>
              /\ g \in DOMAIN catalog.group
      BY <1>4 DEF Browsing!ListKeys, Browsing!ListRows
    <2>2. \A g \in Browsing!ListRows(type, folder) :
           Ints(Browsing!ListKeys(type, g), 2)
      BY <1>0, <1>2, <2>1
    <2> QED
      BY <2>2 DEF Ints
  <1>5. CASE type = "frequent"
    <2>1. \A g \in Browsing!ListRows(type, folder) :
            Browsing!ListKeys(type, g) = <<- Browsing!Count(g), - Browsing!LastPlay(g)>>
              /\ Browsing!Count(g) > 0
      BY <1>5 DEF Browsing!ListKeys, Browsing!ListRows
    <2>2. \A g \in Browsing!ListRows(type, folder) :
           Ints(Browsing!ListKeys(type, g), 2)
      BY <1>0, <1>1, <2>1
    <2> QED
      BY <2>2 DEF Ints
  <1>6. CASE type = "recent"
    <2>1. \A g \in Browsing!ListRows(type, folder) :
            Browsing!ListKeys(type, g) = <<- Browsing!LastPlay(g)>> /\ Browsing!Count(g) > 0
      BY <1>6 DEF Browsing!ListKeys, Browsing!ListRows
    <2>2. \A g \in Browsing!ListRows(type, folder) :
           Ints(Browsing!ListKeys(type, g), 1)
      BY <1>0, <1>1, <2>1
    <2> QED
      BY <2>2 DEF Ints
  <1> QED
    BY <1>3, <1>4, <1>5, <1>6 DEF Browsing!Types

\* An album list has every row of its WHERE once.
LEMMA ListsAre ==
  ASSUME catalog \in Catalogs, plays \in Seq(Browsing!Groups),
         NEW type \in Browsing!Types, NEW folder
  PROVE  Enumerates(AllRows(type, folder), Browsing!ListRows(type, folder))
  <1> DEFINE found == Browsing!ListRows(type, folder)
             keys == [g \in found |-> Browsing!ListKeys(type, g)]
             last == Browsing!TieBreak(type)
  <1>1. found \in SUBSET DOMAIN catalog.group
    BY DEF Browsing!ListRows
  <1>2. found \in SUBSET Int /\ IsFiniteSet(found)
    BY <1>1, CatalogIs, FS_Subset
  <1>3. PICK n \in {1, 2} : \A g \in found :
          Browsing!ListKeys(type, g) \in Seq(Int) /\ Len(Browsing!ListKeys(type, g)) = n
    BY ListKeysAre
  <1>6. /\ \A g \in found : last[g] \in Int
        /\ \A g, h \in found : last[g] = last[h] => g = h
    BY <1>1, CatalogIs DEF Browsing!TieBreak, Browsing!ById
  <1> HIDE DEF found
  <1>4. \A g \in found : keys[g] \in Seq(Int) /\ Len(keys[g]) = n
    BY <1>3
  <1>5. AllRows(type, folder) = Browsing!InOrder(found, keys, last)
    BY DEF AllRows, found
  <1> HIDE DEF keys, last
  <1> QED
    BY <1>2, <1>3, <1>4, <1>5, <1>6, Ordered DEF found

\* The index has every artist of a release group once.
LEMMA IndexIs ==
  ASSUME catalog \in Catalogs
  PROVE  Enumerates(Browsing!ArtistIndex,
                    {a \in DOMAIN catalog.letter : Browsing!AlbumsBy(a) # {}})
  <1> DEFINE found == {a \in DOMAIN catalog.letter : Browsing!AlbumsBy(a) # {}}
             keys == [a \in found |-> <<IF catalog.letter[a] = 0 THEN 1 ELSE 0, catalog.letter[a]>>]
             last == Browsing!ById(found)
  <1>1. found \in SUBSET Int /\ IsFiniteSet(found)
    BY CatalogIs, FS_Subset
  <1>2. \A a \in found : catalog.letter[a] \in Int
    BY CatalogIs
  <1>3. Browsing!ArtistIndex = Browsing!InOrder(found, keys, last)
    BY DEF Browsing!ArtistIndex
  <1> HIDE DEF found
  <1>4. \A a \in found : keys[a] \in Seq(Int) /\ Len(keys[a]) = 2
    BY <1>2
  <1>5. \A a \in found : last[a] = a
    BY DEF Browsing!ById
  <1> HIDE DEF keys, last
  <1>6. /\ \A a \in found : last[a] \in Int
        /\ \A a, b \in found : last[a] = last[b] => a = b
    BY <1>1, <1>5
  <1> QED
    BY <1>1, <1>3, <1>4, <1>6, Ordered DEF found

\* An artist has each of their release groups once.
LEMMA AlbumsAre ==
  ASSUME catalog \in Catalogs, NEW a
  PROVE  Enumerates(Browsing!ArtistAlbums(a), Browsing!AlbumsBy(a))
  <1> DEFINE found == Browsing!AlbumsBy(a)
             keys == [g \in found |-> <<- catalog.group[g].year, catalog.group[g].name>>]
  <1>1. found \in SUBSET DOMAIN catalog.group
    BY DEF Browsing!AlbumsBy
  <1>2. found \in SUBSET Int /\ IsFiniteSet(found)
    BY <1>1, CatalogIs, FS_Subset
  <1>3. \A g \in found : - catalog.group[g].year \in Int /\ catalog.group[g].name \in Int
    BY <1>1, CatalogIs
  <1>4. Browsing!ArtistAlbums(a) = Browsing!InOrder(found, keys, catalog.scan)
    BY DEF Browsing!ArtistAlbums
  <1>6. /\ \A g \in found : catalog.scan[g] \in Int
        /\ \A g, h \in found : catalog.scan[g] = catalog.scan[h] => g = h
    BY <1>1, CatalogIs
  <1> HIDE DEF found
  <1>5. \A g \in found : keys[g] \in Seq(Int) /\ Len(keys[g]) = 2
    BY <1>3
  <1> HIDE DEF keys
  <1> QED
    BY <1>2, <1>4, <1>5, <1>6, Ordered DEF found

\* A release group shows a release of its own that none outnumbers by its row.
LEMMA BestIs ==
  ASSUME catalog \in Catalogs, NEW g \in DOMAIN catalog.group
  PROVE  /\ Browsing!BestRelease(g) \in Browsing!ReleasesOf(g)
         /\ \A q \in Browsing!ReleasesOf(g) :
              catalog.release[q].track_count <= catalog.release[Browsing!BestRelease(g)].track_count
  <1> DEFINE found == Browsing!ReleasesOf(g)
             keys == [r \in found |-> <<- catalog.release[r].track_count>>]
             last == Browsing!ById(found)
             s == Browsing!InOrder(found, keys, last)
  <1>1. found \in SUBSET DOMAIN catalog.release /\ found # {}
    BY CatalogIs DEF Browsing!ReleasesOf
  <1>2. found \in SUBSET Int /\ IsFiniteSet(found)
    BY <1>1, CatalogIs, FS_Subset
  <1>3. \A r \in found : catalog.release[r].track_count \in Int
    BY <1>1, CatalogIs
  <1>4. Browsing!BestRelease(g) = Head(s)
    BY DEF Browsing!BestRelease
  <1> HIDE DEF found
  <1>5. \A r \in found : keys[r] \in Seq(Int) /\ Len(keys[r]) = 1
                         /\ keys[r][1] = - catalog.release[r].track_count
    BY <1>3
  <1>9. \A r \in found : last[r] = r
    BY DEF Browsing!ById
  <1> HIDE DEF keys, last
  <1>10. /\ \A r \in found : last[r] \in Int
         /\ \A q, r \in found : last[q] = last[r] => q = r
    BY <1>2, <1>9
  <1>6. /\ s \in Seq(found)
        /\ \A x \in found : \E i \in DOMAIN s : s[i] = x
        /\ \A i, j \in DOMAIN s : i < j => keys[s[i]][1] <= keys[s[j]][1]
    <2>1. PICK n \in {1, 2} : \A r \in found : keys[r] \in Seq(Int) /\ Len(keys[r]) = n
      BY <1>5
    <2>2. /\ Enumerates(s, found)
          /\ \A i, j \in DOMAIN s : i < j => keys[s[i]][1] <= keys[s[j]][1]
      BY <1>2, <1>10, <2>1, Ordered
    <2> HIDE DEF s
    <2> QED
      BY <2>2 DEF Enumerates
  <1> HIDE DEF s
  <1>7. s # <<>> /\ 1 \in DOMAIN s /\ Head(s) = s[1] /\ s[1] \in found
    BY <1>1, <1>6
  <1>8. ASSUME NEW q \in found
        PROVE  catalog.release[q].track_count <= catalog.release[s[1]].track_count
    <2>1. PICK i \in DOMAIN s : s[i] = q
      BY <1>6
    <2>2. i = 1 \/ 1 < i
      BY <1>6
    <2>3. keys[s[1]][1] <= keys[q][1] \/ q = s[1]
      BY <1>6, <1>7, <2>1, <2>2
    <2>4. /\ keys[s[1]][1] = - catalog.release[s[1]].track_count
          /\ keys[q][1] = - catalog.release[q].track_count
      BY <1>5, <1>7
    <2>5. catalog.release[s[1]].track_count \in Int /\ catalog.release[q].track_count \in Int
      BY <1>3, <1>7
    <2> QED
      BY <2>3, <2>4, <2>5
  <1> QED
    BY <1>4, <1>7, <1>8 DEF found

\* What can be walked.
LEMMA Walkable ==
  ASSUME NEW what \in Browsing!Objects \cup Browsing!Lists
  PROVE  \/ what = <<"root">> \/ what = <<"music">> \/ what = <<"artists">> \/ what = <<"albums">>
         \/ \E a \in Browsing!Artists : what = <<"artist", a>>
         \/ \E g \in Browsing!Groups : what = <<"album", g>>
         \/ \E t \in Browsing!Types, f \in Folder \cup {Browsing!AnyFolder} :
              what = <<"list", t, f>>
  BY DEF Browsing!Objects, Browsing!Lists

\* A list of identifiers, each with its kind.
LEMMA NamedAre ==
  ASSUME NEW S, NEW s, Enumerates(s, S), NEW kind
  PROVE  /\ Enumerates(Browsing!Named(kind, s), {<<kind, x>> : x \in S})
         /\ Len(Browsing!Named(kind, s)) = Len(s)
  <1> DEFINE t == Browsing!Named(kind, s)
             T == {<<kind, x>> : x \in S}
  <1>1. s \in Seq(S) /\ IsInjective(s) /\ \A x \in S : \E i \in DOMAIN s : s[i] = x
    BY DEF Enumerates
  <1>2. t = [i \in 1 .. Len(s) |-> <<kind, s[i]>>] /\ Len(s) \in Nat /\ DOMAIN s = 1 .. Len(s)
    BY <1>1 DEF Browsing!Named
  <1> HIDE DEF t
  <1>3. \A i \in 1 .. Len(s) : t[i] = <<kind, s[i]>> /\ s[i] \in S
    BY <1>1, <1>2
  <1>4. t \in [1 .. Len(s) -> T]
    BY <1>2, <1>3
  <1>5. t \in Seq(T) /\ Len(t) = Len(s) /\ DOMAIN t = 1 .. Len(s)
    <2> DEFINE n == Len(s)
    <2>1. n \in Nat /\ t \in [1 .. n -> T]
      BY <1>2, <1>4
    <2> HIDE DEF T, n
    <2>2. t \in Seq(T) /\ Len(t) = n /\ DOMAIN t = 1 .. n
      BY <2>1
    <2> QED
      BY <2>2 DEF n
  <1>6. IsInjective(t)
    BY <1>1, <1>2, <1>3, <1>5 DEF IsInjective
  <1>7. \A y \in T : \E i \in DOMAIN t : t[i] = y
    BY <1>1, <1>2, <1>3, <1>5
  <1> QED
    BY <1>5, <1>6, <1>7 DEF Enumerates, t

\* A list of things of T that are those of S, each of them once.
Shows(s, S, T) ==
  s \in Seq(T) /\ IsInjective(s) /\ {s[i] : i \in DOMAIN s} = S

LEMMA Seen ==
  ASSUME NEW S, NEW T, NEW s, Enumerates(s, S), S \subseteq T
  PROVE  Shows(s, S, T)
  <1>1. s \in Seq(S) /\ IsInjective(s)
    BY DEF Enumerates
  <1>2. s \in Seq(T)
    BY <1>1
  <1> QED
    BY <1>1, <1>2, Enumerated DEF Shows

\* The tracks of the release that a release group shows.
LEMMA TracksAre ==
  ASSUME catalog \in Catalogs, NEW g \in DOMAIN catalog.group
  PROVE  LET r == Browsing!BestRelease(g)
             whole == Browsing!TracksOf(r)
         IN  Enumerates(Browsing!AlbumTracks(g), whole) /\ whole \subseteq Browsing!Songs
  <1> DEFINE r == Browsing!BestRelease(g)
             k == catalog.release[r].tracks
             whole == {<<"track", r, n>> : n \in 1 .. k}
             s == Browsing!AlbumTracks(g)
  <1>1. r \in DOMAIN catalog.release /\ k \in Nat
    <2>1. r \in DOMAIN catalog.release
      BY BestIs DEF Browsing!ReleasesOf
    <2> QED
      BY <2>1, CatalogIs
  <1>2. s = [n \in 1 .. k |-> <<"track", r, n>>]
    BY DEF Browsing!AlbumTracks
  <1>3. whole \subseteq Browsing!Songs
    BY <1>1 DEF Browsing!Songs
  <1> HIDE DEF r, k, s
  <1>4. s \in [1 .. k -> whole]
    BY <1>2
  <1>5. s \in Seq(whole) /\ DOMAIN s = 1 .. k
    <2> HIDE DEF whole
    <2> QED
      BY <1>1, <1>4
  <1>6. IsInjective(s)
    BY <1>2, <1>5 DEF IsInjective
  <1>7. \A x \in whole : \E i \in DOMAIN s : s[i] = x
    BY <1>2, <1>5
  <1>8. Enumerates(s, whole)
    BY <1>5, <1>6, <1>7 DEF Enumerates
  <1> QED
    BY <1>3, <1>8 DEF r, k, s, Browsing!TracksOf

\* The children of what is walked are all there is to see, each of them once.
LEMMA ChildrenAre ==
  ASSUME catalog \in Catalogs, plays \in Seq(Browsing!Groups),
         NEW what \in Browsing!Objects \cup Browsing!Lists
  PROVE  /\ Children(what) \in Seq(Browsing!Objects \cup Browsing!Songs)
         /\ IsInjective(Children(what))
         /\ Browsing!IsAllOf(what, {Children(what)[i] : i \in DOMAIN Children(what)})
  <1> DEFINE c == Children(what)
             V == Browsing!Objects \cup Browsing!Songs
             Goal == /\ c \in Seq(V) /\ IsInjective(c)
                     /\ Browsing!IsAllOf(what, {c[i] : i \in DOMAIN c})
  <1>1. ASSUME what = <<"root">> PROVE Goal
    <2>1. c = <<<<"music">>>>
      BY <1>1 DEF Children
    <2>2. <<"music">> \in V
      BY DEF Browsing!Objects
    <2> HIDE DEF c
    <2>3. c \in Seq(V) /\ IsInjective(c) /\ {c[i] : i \in DOMAIN c} = {<<"music">>}
      <3> HIDE DEF V
      <3> QED
        BY <2>1, <2>2 DEF IsInjective
    <2> QED
      BY <1>1, <2>3 DEF Browsing!IsAllOf, c
  <1>2. ASSUME what = <<"music">> PROVE Goal
    <2>1. c = <<<<"artists">>, <<"albums">>>>
      BY <1>2 DEF Children
    <2>2. <<"artists">> \in V /\ <<"albums">> \in V /\ <<"artists">> # <<"albums">>
      BY DEF Browsing!Objects
    <2> HIDE DEF c
    <2>3. /\ c \in Seq(V) /\ IsInjective(c)
          /\ {c[i] : i \in DOMAIN c} = {<<"artists">>, <<"albums">>}
      <3> HIDE DEF V
      <3> QED
        BY <2>1, <2>2 DEF IsInjective
    <2> QED
      BY <1>2, <2>3 DEF Browsing!IsAllOf, c
  <1>3. ASSUME what = <<"artists">> PROVE Goal
    <2> DEFINE A == {a \in DOMAIN catalog.letter : Browsing!AlbumsBy(a) # {}}
               S == {<<"artist", a>> : a \in A}
    <2>1. c = Browsing!Named("artist", Browsing!ArtistIndex)
      BY <1>3 DEF Children
    <2>2. Enumerates(c, S)
      BY <2>1, IndexIs, NamedAre
    <2>3. S \subseteq V
      BY CatalogIs DEF Browsing!Objects
    <2>4. A = {catalog.group[g].artist : g \in DOMAIN catalog.group}
      BY CatalogIs DEF Browsing!AlbumsBy
    <2>5. S = {<<"artist", catalog.group[g].artist>> : g \in DOMAIN catalog.group}
      <3> HIDE DEF A
      <3> QED
        BY <2>4
    <2>6. Browsing!IsAllOf(what, S)
      <3> HIDE DEF S
      <3> QED
        BY <1>3, <2>5 DEF Browsing!IsAllOf
    <2> HIDE DEF c, S, V
    <2>7. Shows(c, S, V)
      BY <2>2, <2>3, Seen
    <2> QED
      BY <2>6, <2>7 DEF Shows
  <1>4. ASSUME what = <<"albums">> PROVE Goal
    <2> DEFINE type == "alphabeticalByName"
               A == Browsing!ListRows(type, Browsing!AnyFolder)
               S == {<<"album", a>> : a \in A}
    <2>1. c = Browsing!Named("album", AllRows(type, Browsing!AnyFolder))
      BY <1>4 DEF Children
    <2>2. type \in Browsing!Types
      BY DEF Browsing!Types
    <2>3. Enumerates(c, S)
      BY <2>1, <2>2, ListsAre, NamedAre
    <2>4. A = DOMAIN catalog.group
      BY DEF Browsing!ListRows
    <2>5. S \subseteq V /\ S = {<<"album", g>> : g \in DOMAIN catalog.group}
      BY <2>4, CatalogIs DEF Browsing!Objects
    <2>6. Browsing!IsAllOf(what, S)
      <3> HIDE DEF S
      <3> QED
        BY <1>4, <2>5 DEF Browsing!IsAllOf
    <2> HIDE DEF c, S, V
    <2>7. Shows(c, S, V)
      BY <2>3, <2>5, Seen
    <2> QED
      BY <2>6, <2>7 DEF Shows
  <1>5. ASSUME NEW a \in Browsing!Artists, what = <<"artist", a>> PROVE Goal
    <2> DEFINE A == Browsing!AlbumsBy(a)
               S == {<<"album", g>> : g \in A}
    <2>1. Enumerates(c, S)
      <3>1. CASE a \in DOMAIN catalog.letter
        <4>1. c = Browsing!Named("album", Browsing!ArtistAlbums(a))
          BY <1>5, <3>1 DEF Children
        <4> QED
          BY <4>1, AlbumsAre, NamedAre
      <3>2. CASE a \notin DOMAIN catalog.letter
        <4>1. c = <<>>
          BY <1>5, <3>2 DEF Children
        <4>2. A = {}
          BY <3>2, CatalogIs DEF Browsing!AlbumsBy
        <4> QED
          BY <4>1, <4>2 DEF Enumerates, IsInjective
      <3> QED
        BY <3>1, <3>2
    <2>2. A \subseteq Browsing!Groups
      BY CatalogIs DEF Browsing!AlbumsBy
    <2>3. S \subseteq V
      BY <2>2 DEF Browsing!Objects
    <2>4. Browsing!IsAllOf(what, S)
      BY <1>5 DEF Browsing!IsAllOf
    <2> HIDE DEF c, S, V
    <2>5. Shows(c, S, V)
      BY <2>1, <2>3, Seen
    <2> QED
      BY <2>4, <2>5 DEF Shows
  <1>6. ASSUME NEW g \in Browsing!Groups, what = <<"album", g>> PROVE Goal
    <2>1. CASE g \in DOMAIN catalog.group
      <3> DEFINE r == Browsing!BestRelease(g)
                 S == Browsing!TracksOf(r)
      <3>1. c = Browsing!AlbumTracks(g)
        BY <1>6, <2>1 DEF Children
      <3>2. Enumerates(c, S) /\ S \subseteq V
        BY <2>1, <3>1, TracksAre
      <3>3. Browsing!IsAllOf(what, S)
        BY <1>6, <2>1, BestIs DEF Browsing!IsAllOf
      <3> HIDE DEF c, S, V
      <3>4. Shows(c, S, V)
        BY <3>2, Seen
      <3> QED
        BY <3>3, <3>4 DEF Shows
    <2>2. CASE g \notin DOMAIN catalog.group
      <3>1. c = <<>>
        BY <1>6, <2>2 DEF Children
      <3>2. Browsing!IsAllOf(what, {})
        BY <1>6, <2>2 DEF Browsing!IsAllOf
      <3> HIDE DEF c, V
      <3>3. c \in Seq(V) /\ IsInjective(c) /\ {c[i] : i \in DOMAIN c} = {}
        BY <3>1 DEF IsInjective
      <3> QED
        BY <3>2, <3>3
    <2> QED
      BY <2>1, <2>2
  <1>7. ASSUME NEW t \in Browsing!Types, NEW f, what = <<"list", t, f>> PROVE Goal
    <2> DEFINE A == Browsing!ListRows(t, f)
               S == {<<"album", g>> : g \in A}
    <2>1. c = Browsing!Named("album", AllRows(t, f))
      BY <1>7 DEF Children
    <2>2. Enumerates(c, S)
      BY <2>1, ListsAre, NamedAre
    <2>3. A \subseteq Browsing!Groups
      BY CatalogIs DEF Browsing!ListRows
    <2>4. S \subseteq V
      BY <2>3 DEF Browsing!Objects
    <2>5. Browsing!IsAllOf(what, S)
      BY <1>7 DEF Browsing!IsAllOf
    <2> HIDE DEF c, S, V
    <2>6. Shows(c, S, V)
      BY <2>2, <2>4, Seen
    <2> QED
      BY <2>5, <2>6 DEF Shows
  <1> QED
    <2> HIDE DEF Goal
    <2>1. Goal
      BY <1>1, <1>2, <1>3, <1>4, <1>5, <1>6, <1>7, Walkable
    <2> QED
      BY <2>1 DEF Goal

-----------------------------------------------------------------------------
\* What was seen is the beginning of what there is.
StartOf(seen, whole) == Len(seen) <= Len(whole) /\ seen = SubSeq(whole, 1, Len(seen))

\* A page of all, from a start, ends at a place; from within, it does not end before
\* its start, and a reader who stops after it has come to the end.
Ends(page, whole, start, to) ==
  /\ to \in 0 .. Len(whole)
  /\ page.items = SubSeq(whole, start + 1, to)
  /\ start <= Len(whole) =>
       /\ start <= to
       /\ page.items = <<>> \/ (page.total # 0 /\ to >= page.total) => to = Len(whole)

\* A part of a list.
LEMMA Cuts ==
  ASSUME NEW V, NEW whole \in Seq(V), NEW start \in Nat, NEW to \in 0 .. Len(whole)
  PROVE  LET s == SubSeq(whole, start + 1, to)
         IN  /\ s \in Seq(V)
             /\ Len(s) = IF start <= to THEN to - start ELSE 0
             /\ \A i \in 1 .. Len(s) : s[i] = whole[start + i]
  <1> DEFINE s == SubSeq(whole, start + 1, to)
             n == 1 + to - (start + 1)
  <1>1. s = [i \in 1 .. n |-> whole[i + (start + 1) - 1]] /\ n \in Int /\ n = to - start
    OBVIOUS
  <1>2. \A i \in 1 .. n : whole[i + (start + 1) - 1] = whole[start + i] /\ whole[start + i] \in V
    <2>1. ASSUME NEW i \in 1 .. n
          PROVE  i + (start + 1) - 1 = start + i /\ start + i \in 1 .. Len(whole)
      BY <1>1
    <2> QED
      BY <2>1
  <1>3. CASE start <= to
    <2>1. n \in Nat
      BY <1>1, <1>3
    <2> HIDE DEF s, n
    <2>2. s \in [1 .. n -> V]
      BY <1>1, <1>2
    <2>3. s \in Seq(V) /\ Len(s) = n
      BY <2>1, <2>2
    <2> QED
      BY <1>1, <1>2, <1>3, <2>3 DEF s
  <1>4. CASE ~(start <= to)
    <2>1. s = <<>>
      <3>1. 1 .. n = {}
        BY <1>1, <1>4
      <3> QED
        BY <1>1, <3>1
    <2> QED
      BY <1>4, <2>1
  <1> QED
    BY <1>3, <1>4

\* A page that goes on where a beginning ended makes a longer beginning.
LEMMA Continues ==
  ASSUME NEW V, NEW whole \in Seq(V), NEW seen \in Seq(V), StartOf(seen, whole),
         NEW to \in 0 .. Len(whole), Len(seen) <= to
  PROVE  LET s == seen \o SubSeq(whole, Len(seen) + 1, to)
         IN  s \in Seq(V) /\ StartOf(s, whole) /\ Len(s) = to /\ (to = Len(whole) => s = whole)
  <1> DEFINE start == Len(seen)
             p == SubSeq(whole, start + 1, to)
             s == seen \o p
  <1>1. start \in Nat /\ start <= to /\ to \in Nat /\ to <= Len(whole) /\ Len(whole) \in Nat
    BY DEF StartOf
  <1>2. /\ p \in Seq(V) /\ Len(p) = to - start
        /\ \A i \in 1 .. Len(p) : p[i] = whole[start + i]
    BY <1>1, Cuts
  <1>3. \A i \in 1 .. start : seen[i] = whole[i]
    BY <1>1 DEF StartOf
  <1> HIDE DEF p
  <1>4. /\ s \in Seq(V) /\ Len(s) = start + Len(p)
        /\ \A i \in 1 .. Len(s) : s[i] = IF i <= start THEN seen[i] ELSE p[i - start]
    <2>1. /\ seen \o p \in Seq(V) /\ Len(seen \o p) = Len(seen) + Len(p)
          /\ \A i \in 1 .. Len(seen) + Len(p) :
               (seen \o p)[i] = IF i <= Len(seen) THEN seen[i] ELSE p[i - Len(seen)]
      BY <1>2, ConcatProperties
    <2> QED
      BY <2>1
  <1> HIDE DEF start, s
  <1>5. Len(s) = to
    BY <1>1, <1>2, <1>4
  <1>6. ASSUME NEW i \in 1 .. to PROVE s[i] = whole[i]
    <2>1. CASE i <= start
      <3>1. i \in 1 .. start /\ s[i] = seen[i]
        BY <1>1, <1>4, <1>5, <2>1
      <3> QED
        BY <1>3, <3>1
    <2>2. CASE ~(i <= start)
      <3>1. i - start \in 1 .. Len(p) /\ start + (i - start) = i /\ s[i] = p[i - start]
        BY <1>1, <1>2, <1>4, <1>5, <2>2
      <3> QED
        BY <1>2, <3>1
    <2> QED
      BY <2>1, <2>2
  <1>7. s = SubSeq(whole, 1, to)
    <2>1. /\ SubSeq(whole, 0 + 1, to) \in Seq(V) /\ Len(SubSeq(whole, 0 + 1, to)) = to
          /\ \A i \in 1 .. to : SubSeq(whole, 0 + 1, to)[i] = whole[i]
      <3>1. 0 \in Nat /\ 0 <= to /\ to - 0 = to /\ \A i \in 1 .. to : 0 + i = i
        BY <1>1
      <3> QED
        BY <3>1, Cuts
    <2>2. 0 + 1 = 1
      OBVIOUS
    <2> QED
      BY <1>4, <1>5, <1>6, <2>1, <2>2, SeqEqual
  <1>8. to = Len(whole) => s = whole
    BY <1>4, <1>5, <1>6, SeqEqual
  <1>9. StartOf(s, whole)
    BY <1>1, <1>5, <1>7 DEF StartOf
  <1> QED
    BY <1>4, <1>5, <1>8, <1>9 DEF s, p, start

\* Array.slice ends its pages so.
LEMMA SlicesEnd ==
  ASSUME NEW V, NEW whole \in Seq(V), NEW start \in Nat, NEW count \in Nat
  PROVE  \E to : Ends(Browsing!Sliced(whole, start, count), whole, start, to)
  <1> DEFINE far == start + (IF count = 0 THEN Len(whole) ELSE count)
             to == IF far < Len(whole) THEN far ELSE Len(whole)
             page == Browsing!Sliced(whole, start, count)
  <1>1. far \in Nat /\ far >= start /\ Len(whole) \in Nat /\ to \in 0 .. Len(whole)
        /\ (far = start => Len(whole) = 0)
    OBVIOUS
  <1>2. page.items = SubSeq(whole, start + 1, to) /\ page.total = Len(whole)
    BY DEF Browsing!Sliced, Browsing!Page
  <1> HIDE DEF page, far
  <1>3. Len(page.items) = IF start <= to THEN to - start ELSE 0
    <2> DEFINE k == to
    <2>1. k \in 0 .. Len(whole) /\ page.items = SubSeq(whole, start + 1, k)
      BY <1>1, <1>2
    <2> HIDE DEF k
    <2>2. Len(page.items) = IF start <= k THEN k - start ELSE 0
      BY <2>1, Cuts
    <2> QED
      BY <2>2 DEF k
  <1>4. ASSUME start <= Len(whole)
        PROVE  /\ start <= to
               /\ page.items = <<>> \/ (page.total # 0 /\ to >= page.total) => to = Len(whole)
    <2>1. start <= to
      BY <1>1, <1>4
    <2>2. page.items = <<>> => to - start = 0
      BY <1>3, <2>1
    <2> QED
      BY <1>1, <1>2, <2>1, <2>2
  <1> QED
    BY <1>1, <1>2, <1>4 DEF Ends, page

\* An answer of getAlbumList2 is a page of its rows.
LEMMA AnswersEnd ==
  ASSUME catalog \in Catalogs, plays \in Seq(Browsing!Groups),
         NEW type \in Browsing!Types, NEW folder,
         NEW start \in Nat, NEW size \in 1 .. PageCap
  PROVE  LET whole == Browsing!Named("album", AllRows(type, folder))
             rows == Browsing!AlbumList(type, folder, size, start)
             to == IF start + size < Len(whole) THEN start + size ELSE Len(whole)
         IN  /\ Len(whole) \in Nat /\ to \in 0 .. Len(whole)
             /\ Browsing!Named("album", rows) = SubSeq(whole, start + 1, to)
             /\ Len(rows) = IF start <= to THEN to - start ELSE 0
             /\ Len(Browsing!Named("album", rows)) = Len(rows)
  <1> DEFINE found == AllRows(type, folder)
             whole == Browsing!Named("album", found)
             to == IF start + size < Len(found) THEN start + size ELSE Len(found)
             V == Browsing!ListRows(type, folder)
             rows == Browsing!AlbumList(type, folder, size, start)
  <1>1. found \in Seq(V) /\ Len(found) \in Nat
    BY ListsAre DEF Enumerates
  <1>2. Len(whole) = Len(found) /\ whole \in Seq({<<"album", x>> : x \in V})
    <2>1. Enumerates(found, V)
      BY ListsAre
    <2> HIDE DEF found, V
    <2>2. Enumerates(whole, {<<"album", x>> : x \in V}) /\ Len(whole) = Len(found)
      BY <2>1, NamedAre
    <2> HIDE DEF whole
    <2> QED
      BY <2>2 DEF Enumerates
  <1>3. (IF size < PageCap THEN size ELSE PageCap) = size /\ size \in Nat
    BY ClientsAssumption DEF Browsing!CapAssumption
  <1>4. rows = SubSeq(found, start + 1, to)
    BY <1>3 DEF Browsing!AlbumList, AllRows
  <1>5. to \in 0 .. Len(found)
    BY <1>1, <1>3
  <1> HIDE DEF found, to, V, rows
  <1>6. /\ rows \in Seq(V) /\ Len(rows) = IF start <= to THEN to - start ELSE 0
        /\ \A i \in 1 .. Len(rows) : rows[i] = found[start + i]
    BY <1>1, <1>4, <1>5, Cuts
  <1> DEFINE T == {<<"album", x>> : x \in V}
             p == SubSeq(whole, start + 1, to)
             q == Browsing!Named("album", rows)
  <1>7. /\ p \in Seq(T) /\ Len(p) = Len(rows)
        /\ \A i \in 1 .. Len(p) : p[i] = whole[start + i]
    <2> HIDE DEF whole, T
    <2> QED
      BY <1>2, <1>5, <1>6, Cuts DEF T
  <1>8. q = [i \in 1 .. Len(rows) |-> <<"album", rows[i]>>] /\ Len(rows) \in Nat
    BY <1>6 DEF Browsing!Named
  <1>9. \A i \in 1 .. Len(found) : whole[i] = <<"album", found[i]>>
    BY <1>1 DEF Browsing!Named
  <1>10. \A i \in 1 .. Len(rows) : start + i \in 1 .. Len(found)
    BY <1>1, <1>5, <1>6
  <1> HIDE DEF whole, p, q, T
  <1>11. \A i \in 1 .. Len(rows) : p[i] = <<"album", rows[i]>>
    BY <1>6, <1>7, <1>9, <1>10
  <1>12. q \in Seq(T) /\ Len(q) = Len(rows)
    <2>1. \A i \in 1 .. Len(rows) : <<"album", rows[i]>> \in T
      BY <1>6 DEF T
    <2> DEFINE n == Len(rows)
    <2>2. q \in [1 .. n -> T] /\ n \in Nat
      BY <1>8, <2>1
    <2> HIDE DEF n
    <2>3. q \in Seq(T) /\ Len(q) = n
      BY <2>2
    <2> QED
      BY <2>3 DEF n
  <1>13. q = p
    BY <1>7, <1>8, <1>11, <1>12, SeqEqual
  <1> QED
    BY <1>1, <1>2, <1>5, <1>6, <1>12, <1>13 DEF whole, p, q, to, found, rows

\* A page of BrowseDirectChildren ends somewhere in the children.
LEMMA PagesEnd ==
  ASSUME catalog \in Catalogs, plays \in Seq(Browsing!Groups),
         NEW what \in Browsing!Objects \cup Browsing!Lists, what[1] # "list",
         NEW start \in Nat, NEW count \in Nat
  PROVE  \E to : Ends(Browsing!BrowseChildren(what, start, count), Children(what), start, to)
  <1> DEFINE c == Children(what)
             V == Browsing!Objects \cup Browsing!Songs
             page == Browsing!BrowseChildren(what, start, count)
             Goal == \E to : Ends(page, c, start, to)
  <1>1. ASSUME page = Browsing!Sliced(c, start, count) PROVE Goal
    <2>1. c \in Seq(V)
      BY ChildrenAre
    <2> HIDE DEF c, V, page
    <2> QED
      BY <1>1, <2>1, SlicesEnd
  <1>2. ASSUME page = Browsing!Nothing, c = <<>> PROVE Goal
    <2>1. page.items = <<>> /\ page.total = 0
      BY <1>2 DEF Browsing!Nothing, Browsing!Page
    <2> HIDE DEF page, c
    <2>2. Len(c) = 0 /\ 0 \in 0 .. Len(c) /\ c \in Seq({})
      BY <1>2
    <2>3. SubSeq(c, start + 1, 0) = <<>>
      <3>1. SubSeq(c, start + 1, 0) \in Seq({}) /\ Len(SubSeq(c, start + 1, 0)) = 0
        BY <2>2, Cuts
      <3> QED
        BY <3>1
    <2>4. Ends(page, c, start, 0)
      BY <2>1, <2>2, <2>3 DEF Ends
    <2> QED
      BY <2>4
  <1>3. ASSUME what = <<"albums">> PROVE Goal
    <2> DEFINE type == "alphabeticalByName"
               size == IF count > 0 /\ count < PageCap THEN count ELSE PageCap
               rows == Browsing!AlbumList(type, Browsing!AnyFolder, size, start)
               to == IF start + size < Len(c) THEN start + size ELSE Len(c)
    <2>1. page = Browsing!Page(Browsing!Named("album", rows),
                               Browsing!TotalMatches(start, Len(rows), size))
      BY <1>3 DEF Browsing!BrowseChildren, Browsing!GlobalAlbums
    <2>2. c = Browsing!Named("album", AllRows(type, Browsing!AnyFolder))
      BY <1>3 DEF Children
    <2>3. type \in Browsing!Types /\ size \in 1 .. PageCap /\ size \in Nat /\ size > 0
      BY ClientsAssumption DEF Browsing!Types, Browsing!CapAssumption
    <2> HIDE DEF c, page, size, rows
    <2>4. /\ Len(c) \in Nat /\ to \in 0 .. Len(c)
          /\ Browsing!Named("album", rows) = SubSeq(c, start + 1, to)
          /\ Len(rows) = IF start <= to THEN to - start ELSE 0
          /\ Len(Browsing!Named("album", rows)) = Len(rows)
      BY <2>2, <2>3, AnswersEnd DEF rows
    <2>5. /\ page.items = Browsing!Named("album", rows)
          /\ page.total = IF Len(rows) < size THEN start + Len(rows) ELSE 0
      BY <2>1 DEF Browsing!Page, Browsing!TotalMatches
    <2>6. ASSUME start <= Len(c)
          PROVE  /\ start <= to
                 /\ page.items = <<>> \/ (page.total # 0 /\ to >= page.total) => to = Len(c)
      <3>1. start <= to /\ Len(rows) = to - start
        BY <2>3, <2>4, <2>6
      <3>2. page.items = <<>> => Len(rows) = 0
        BY <2>4, <2>5
      <3>3. Len(rows) < size => to = Len(c)
        BY <2>3, <2>4, <3>1
      <3> HIDE DEF to
      <3> QED
        BY <2>3, <2>5, <3>1, <3>2, <3>3
    <2> HIDE DEF to
    <2>7. Ends(page, c, start, to)
      BY <2>4, <2>5, <2>6 DEF Ends
    <2> QED
      BY <2>7
  <1>4. ASSUME what[1] \in {"root", "music", "artists"} PROVE Goal
    <2>1. page = Browsing!Sliced(c, start, count)
      BY <1>4 DEF Browsing!BrowseChildren, Children
    <2> QED
      BY <1>1, <2>1
  <1>5. ASSUME what[1] = "artist" PROVE Goal
    <2>1. \/ page = Browsing!Sliced(c, start, count)
          \/ page = Browsing!Nothing /\ c = <<>>
      BY <1>5 DEF Browsing!BrowseChildren, Children
    <2> HIDE DEF c, page
    <2> QED
      BY <1>1, <1>2, <2>1
  <1>6. ASSUME what[1] = "album" PROVE Goal
    <2>1. \/ page = Browsing!Sliced(c, start, count)
          \/ page = Browsing!Nothing /\ c = <<>>
      BY <1>6 DEF Browsing!BrowseChildren, Children
    <2> HIDE DEF c, page
    <2> QED
      BY <1>1, <1>2, <2>1
  <1>7. \/ what[1] \in {"root", "music", "artists", "artist", "album"}
        \/ what = <<"albums">>
    BY Walkable
  <1>8. Goal
    <2> HIDE DEF Goal
    <2> QED
      BY <1>3, <1>4, <1>5, <1>6, <1>7
  <1> QED
    BY <1>8

\* The metadata of an object tells how many children it has, if it tells anything.
LEMMA CountsAre ==
  ASSUME catalog \in Catalogs, plays \in Seq(Browsing!Groups),
         NEW what \in Browsing!Objects \cup Browsing!Lists
  PROVE  Browsing!ChildCount(what) \in {Browsing!Unknown, Len(Children(what))}
  <1>1. ASSUME NEW a \in Browsing!Artists, what = <<"artist", a>>, a \in DOMAIN catalog.letter
        PROVE  Len(Browsing!Named("album", Browsing!ArtistAlbums(a)))
                 = Len(Browsing!ArtistAlbums(a))
    BY AlbumsAre, NamedAre
  <1> QED
    BY <1>1, Walkable DEF Browsing!ChildCount, Children

\* The tracks of a release group can be counted, and if it has one release they are
\* those it shows.
LEMMA SongsAre ==
  ASSUME catalog \in Catalogs, NEW g \in DOMAIN catalog.group
  PROVE  /\ Browsing!SongCount(g) \in Nat
         /\ Browsing!Cardinality(Browsing!ReleasesOf(g)) > 1
              \/ Browsing!SongCount(g) = Len(Browsing!AlbumTracks(g))
  <1> DEFINE R == Browsing!ReleasesOf(g)
             best == Browsing!BestRelease(g)
             T == {Browsing!TracksOf(r) : r \in R}
             f == [r \in R |-> Browsing!TracksOf(r)]
  <1>1. IsFiniteSet(R) /\ R \subseteq DOMAIN catalog.release /\ best \in R
    <2>1. R \subseteq DOMAIN catalog.release
      BY DEF Browsing!ReleasesOf
    <2> QED
      BY <2>1, CatalogIs, BestIs, FS_Subset
  <1>2. ASSUME NEW r \in R PROVE IsFiniteSet(Browsing!TracksOf(r))
    <2> DEFINE k == catalog.release[r].tracks
               s == [n \in 1 .. k |-> <<"track", r, n>>]
    <2>1. k \in Nat
      BY <1>1, CatalogIs
    <2>2. Browsing!TracksOf(r) = {<<"track", r, n>> : n \in 1 .. k}
      BY DEF Browsing!TracksOf
    <2> HIDE DEF k
    <2>3. s \in Surjection(1 .. k, Browsing!TracksOf(r))
      BY <2>2 DEF Surjection
    <2>4. IsFiniteSet(1 .. k)
      BY <2>1, FS_Interval
    <2> QED
      BY <2>3, <2>4, FS_Surjection
  <1>3. IsFiniteSet(T)
    <2>1. f \in Surjection(R, T)
      BY DEF Surjection
    <2> QED
      BY <1>1, <2>1, FS_Surjection
  <1>4. IsFiniteSet(UNION T)
    BY <1>2, <1>3, FS_UNION
  <1>5. Browsing!SongCount(g) = Cardinality(UNION T)
    BY BrowsingWords DEF Browsing!SongCount
  <1>6. ASSUME ~(Browsing!Cardinality(R) > 1)
        PROVE  Browsing!SongCount(g) = Len(Browsing!AlbumTracks(g))
    <2>1. Cardinality(R) = 1
      <3>1. Cardinality(R) \in Nat /\ Cardinality(R) # 0
        BY <1>1, FS_CardinalityType, FS_EmptySet
      <3> QED
        BY <1>6, <3>1, BrowsingWords
    <2>2. R = {best}
      BY <1>1, <2>1, FS_Singleton
    <2>3. UNION T = Browsing!TracksOf(best)
      BY <2>2
    <2>4. Enumerates(Browsing!AlbumTracks(g), Browsing!TracksOf(best))
      BY TracksAre
    <2> QED
      BY <1>5, <2>3, <2>4, Sized
  <1> QED
    BY <1>4, <1>5, <1>6, FS_CardinalityType

\* So does the list in which it is found, but for an album of several releases.
LEMMA ListedAre ==
  ASSUME catalog \in Catalogs, plays \in Seq(Browsing!Groups),
         NEW what \in Browsing!Objects \cup Browsing!Lists
  PROVE  /\ Browsing!ListedCount(what) \in Nat \cup {Browsing!Unknown}
         /\ \/ Browsing!ListedCount(what) \in {Browsing!Unknown, Len(Children(what))}
            \/ Browsing!ManyReleases(what)
  <1>1. ASSUME NEW a \in Browsing!Artists, what = <<"artist", a>>, a \in DOMAIN catalog.letter
        PROVE  Browsing!ListedCount(what) = Len(Children(what)) /\ Len(Children(what)) \in Nat
    <2>1. /\ Children(what) = Browsing!Named("album", Browsing!ArtistAlbums(a))
          /\ Browsing!ListedCount(what) = Cardinality(Browsing!AlbumsBy(a))
      BY <1>1, BrowsingWords DEF Browsing!ListedCount, Children
    <2>2. Enumerates(Browsing!ArtistAlbums(a), Browsing!AlbumsBy(a))
      BY AlbumsAre
    <2>3. Len(Browsing!Named("album", Browsing!ArtistAlbums(a))) = Len(Browsing!ArtistAlbums(a))
      BY <2>2, NamedAre
    <2>4. /\ Len(Browsing!ArtistAlbums(a)) = Cardinality(Browsing!AlbumsBy(a))
          /\ IsFiniteSet(Browsing!AlbumsBy(a))
      BY <2>2, Sized
    <2>5. Cardinality(Browsing!AlbumsBy(a)) \in Nat
      BY <2>4, FS_CardinalityType
    <2> QED
      BY <2>1, <2>3, <2>4, <2>5
  <1>2. ASSUME NEW g \in Browsing!Groups, what = <<"album", g>>, g \in DOMAIN catalog.group
        PROVE  /\ Browsing!ListedCount(what) \in Nat
               /\ Browsing!ListedCount(what) = Len(Children(what)) \/ Browsing!ManyReleases(what)
    <2>1. /\ Children(what) = Browsing!AlbumTracks(g)
          /\ Browsing!ListedCount(what) = Browsing!SongCount(g)
      BY <1>2 DEF Browsing!ListedCount, Children
    <2>2. Browsing!ManyReleases(what) <=> Browsing!Cardinality(Browsing!ReleasesOf(g)) > 1
      BY <1>2 DEF Browsing!ManyReleases
    <2> QED
      BY <1>2, <2>1, <2>2, SongsAre
  <1>3. ASSUME what = <<"music">>
        PROVE  Browsing!ListedCount(what) = 2 /\ Len(Children(what)) = 2
    BY <1>3 DEF Browsing!ListedCount, Children
  <1>4. \/ \E a \in Browsing!Artists : what = <<"artist", a>> /\ a \in DOMAIN catalog.letter
        \/ \E g \in Browsing!Groups : what = <<"album", g>> /\ g \in DOMAIN catalog.group
        \/ what = <<"music">>
        \/ Browsing!ListedCount(what) = Browsing!Unknown
    BY Walkable DEF Browsing!ListedCount
  <1>5. \/ Browsing!ListedCount(what) \in Nat
           /\ (Browsing!ListedCount(what) = Len(Children(what)) \/ Browsing!ManyReleases(what))
        \/ Browsing!ListedCount(what) = Browsing!Unknown
    <2>1. CASE \E a \in Browsing!Artists : what = <<"artist", a>> /\ a \in DOMAIN catalog.letter
      BY <1>1, <2>1
    <2>2. CASE \E g \in Browsing!Groups : what = <<"album", g>> /\ g \in DOMAIN catalog.group
      BY <1>2, <2>2
    <2>3. CASE what = <<"music">>
      BY <1>3, <2>3
    <2> QED
      BY <1>4, <2>1, <2>2, <2>3
  <1> QED
    BY <1>5

-----------------------------------------------------------------------------
\* The inductive invariant: as long as nothing came between, the reader has seen
\* the beginning of what there is, and has come to the end if it stopped.
HasRead(what) ==
  /\ walk.metadata \in {Browsing!Unknown, Len(Children(what))}
  /\ walk.listing \in {Browsing!Unknown, Len(Children(what))} \/ Browsing!ManyReleases(what)
  /\ StartOf(walk.seen, Children(what))
  /\ walk.done => walk.seen = Children(what)

BrowsingInv == Browsing!TypeOK /\ (walk.calm => HasRead(walk.what))

LEMMA BrowsingStart == Browsing!Init => BrowsingInv
  <1> SUFFICES ASSUME Browsing!Init PROVE BrowsingInv
    OBVIOUS
  <1>1. walk \in [what : Browsing!Objects \cup Browsing!Lists,
                  count : Requested \cup {0, PageCap},
                  metadata : Nat \cup {Browsing!Unknown}, listing : Nat \cup {Browsing!Unknown},
                  seen : Seq(Browsing!Objects \cup Browsing!Songs),
                  done : BOOLEAN, calm : BOOLEAN]
    BY DEF Browsing!Init, Browsing!NoWalk, Browsing!Objects
  <1>2. plays = <<>> /\ Len(plays) = 0 /\ stars = {} /\ catalog \in Catalogs /\ ~walk.calm
    BY DEF Browsing!Init, Browsing!NoWalk
  <1> QED
    BY <1>1, <1>2, ClientsAssumption DEF BrowsingInv, Browsing!TypeOK, Browsing!CapAssumption

LEMMA Walking ==
  ASSUME BrowsingInv
  PROVE  /\ walk \in [what : Browsing!Objects \cup Browsing!Lists,
                      count : Requested \cup {0, PageCap},
                      metadata : Nat \cup {Browsing!Unknown}, listing : Nat \cup {Browsing!Unknown},
                      seen : Seq(Browsing!Objects \cup Browsing!Songs),
                      done : BOOLEAN, calm : BOOLEAN]
         /\ walk.count \in Nat
         /\ catalog \in Catalogs /\ plays \in Seq(Browsing!Groups)
         /\ walk.calm => HasRead(walk.what)
  <1>1. walk.count \in Requested \cup {0, PageCap}
    BY DEF BrowsingInv, Browsing!TypeOK
  <1>2. PageCap \in Nat /\ \A n \in Requested : n \in Nat
    BY ClientsAssumption DEF Browsing!CapAssumption
  <1>3. walk.count \in Nat
    BY <1>1, <1>2
  <1> QED
    BY <1>3 DEF BrowsingInv, Browsing!TypeOK

\* The children of an object change with the catalog only, an album list with the
\* stars or the plays that its type reads.
LEMMA ListsStay ==
  ASSUME catalog' = catalog, NEW type, NEW folder,
         stars' = stars \/ type # "starred",
         plays' = plays \/ type \notin {"frequent", "recent"}, type \in Browsing!Types
  PROVE  AllRows(type, folder)' = AllRows(type, folder)
  <1>1. Browsing!ListRows(type, folder)' = Browsing!ListRows(type, folder)
    BY DEF Browsing!ListRows, Browsing!Count
  <1>2. ASSUME NEW g PROVE Browsing!ListKeys(type, g)' = Browsing!ListKeys(type, g)
    BY DEF Browsing!ListKeys, Browsing!Count, Browsing!LastPlay, Browsing!Types
  <1>3. Browsing!TieBreak(type)' = Browsing!TieBreak(type)
    BY DEF Browsing!TieBreak, Browsing!ById
  <1> QED
    BY <1>1, <1>2, <1>3 DEF AllRows

LEMMA ChildrenStay ==
  ASSUME catalog' = catalog, NEW what \in Browsing!Objects \cup Browsing!Lists,
         what[1] = "list" => stars' = stars \/ what[2] # "starred",
         what[1] = "list" => plays' = plays \/ what[2] \notin {"frequent", "recent"}
  PROVE  /\ Children(what)' = Children(what)
         /\ Browsing!ManyReleases(what)' <=> Browsing!ManyReleases(what)
  <1>4. Browsing!ManyReleases(what)' <=> Browsing!ManyReleases(what)
    BY DEF Browsing!ManyReleases, Browsing!ReleasesOf
  <1>1. ASSUME what[1] = "list" PROVE Children(what)' = Children(what)
    <2>1. what[2] \in Browsing!Types
      BY <1>1, Walkable
    <2>2. AllRows(what[2], what[3])' = AllRows(what[2], what[3])
      BY <1>1, <2>1, ListsStay
    <2> QED
      BY <1>1, <2>2 DEF Children, Browsing!Named
  <1>2. ASSUME what = <<"albums">> PROVE Children(what)' = Children(what)
    <2>1. AllRows("alphabeticalByName", Browsing!AnyFolder)'
            = AllRows("alphabeticalByName", Browsing!AnyFolder)
      BY ListsStay DEF Browsing!Types
    <2> QED
      BY <1>2, <2>1 DEF Children, Browsing!Named
  <1>3. ASSUME what[1] \in {"root", "music", "artists", "artist", "album"}
        PROVE  Children(what)' = Children(what)
    BY <1>3 DEF Children, Browsing!ArtistIndex, Browsing!ArtistAlbums, Browsing!AlbumTracks,
                Browsing!AlbumsBy, Browsing!BestRelease, Browsing!ReleasesOf, Browsing!ById
  <1> QED
    BY <1>1, <1>2, <1>3, <1>4, Walkable

\* The types of a walk, without their names.
Walk == [what : Browsing!Objects \cup Browsing!Lists,
         count : Requested \cup {0, PageCap},
         metadata : Nat \cup {Browsing!Unknown}, listing : Nat \cup {Browsing!Unknown},
         seen : Seq(Browsing!Objects \cup Browsing!Songs),
         done : BOOLEAN, calm : BOOLEAN]

LEMMA Opening ==
  ASSUME BrowsingInv, NEW what \in Browsing!Objects \cup Browsing!Lists,
         NEW count \in Requested \cup {PageCap}, Browsing!Open(what, count)
  PROVE  BrowsingInv'
  <1>1. /\ walk' = [what |-> what, count |-> count, metadata |-> Browsing!ChildCount(what),
                    listing |-> Browsing!ListedCount(what),
                    seen |-> <<>>, done |-> FALSE, calm |-> TRUE]
        /\ catalog' = catalog /\ stars' = stars /\ plays' = plays
    BY DEF Browsing!Open
  <1>2. /\ Children(what)' = Children(what)
        /\ Browsing!ManyReleases(what)' <=> Browsing!ManyReleases(what)
    BY <1>1, ChildrenStay
  <1>3. /\ Children(what) \in Seq(Browsing!Objects \cup Browsing!Songs)
        /\ Browsing!ChildCount(what) \in {Browsing!Unknown, Len(Children(what))}
        /\ Browsing!ListedCount(what) \in Nat \cup {Browsing!Unknown}
        /\ \/ Browsing!ListedCount(what) \in {Browsing!Unknown, Len(Children(what))}
           \/ Browsing!ManyReleases(what)
    BY Walking, ChildrenAre, CountsAre, ListedAre
  <1>4. StartOf(<<>>, Children(what))
    BY <1>3 DEF StartOf
  <1>5. walk' \in Walk
    BY <1>1, <1>3 DEF Walk
  <1>6. Browsing!TypeOK'
    BY <1>1, <1>5 DEF BrowsingInv, Browsing!TypeOK, Walk
  <1>7. HasRead(what)'
    BY <1>1, <1>2, <1>3, <1>4 DEF HasRead
  <1>8. walk'.what = what
    BY <1>1
  <1> QED
    BY <1>6, <1>7, <1>8 DEF BrowsingInv

\* A walk after a change of what was seen, or of whether it is sure.
LEMMA Changed ==
  ASSUME NEW w \in Walk, NEW s, NEW d, NEW c
  PROVE  /\ [w EXCEPT !.seen = s, !.done = d]
              = [what |-> w.what, count |-> w.count,
                 metadata |-> w.metadata, listing |-> w.listing,
                 seen |-> s, done |-> d, calm |-> w.calm]
         /\ [w EXCEPT !.done = d, !.calm = c]
              = [what |-> w.what, count |-> w.count,
                 metadata |-> w.metadata, listing |-> w.listing,
                 seen |-> w.seen, done |-> d, calm |-> c]
         /\ [w EXCEPT !.calm = c]
              = [what |-> w.what, count |-> w.count,
                 metadata |-> w.metadata, listing |-> w.listing,
                 seen |-> w.seen, done |-> w.done, calm |-> c]
  <1> DEFINE W(seen, done, sure) == [what |-> w.what, count |-> w.count,
                                     metadata |-> w.metadata, listing |-> w.listing,
                                     seen |-> seen, done |-> done, calm |-> sure]
  <1>1. w = W(w.seen, w.done, w.calm)
    BY DEF Walk
  <1>2. ASSUME NEW v, NEW a, NEW b, NEW e, v = W(a, b, e)
        PROVE  /\ [v EXCEPT !.seen = s] = W(s, b, e)
               /\ [v EXCEPT !.done = d] = W(a, d, e)
               /\ [v EXCEPT !.calm = c] = W(a, b, c)
    BY <1>2
  <1> HIDE DEF W
  <1>3. /\ [w EXCEPT !.seen = s] = W(s, w.done, w.calm)
        /\ [w EXCEPT !.done = d] = W(w.seen, d, w.calm)
        /\ [w EXCEPT !.calm = c] = W(w.seen, w.done, c)
    BY <1>1, <1>2
  <1>4. PICK v : v = [w EXCEPT !.seen = s]
    OBVIOUS
  <1>5. PICK u : u = [w EXCEPT !.done = d]
    OBVIOUS
  <1>6. [v EXCEPT !.done = d] = W(s, d, w.calm) /\ [u EXCEPT !.calm = c] = W(w.seen, d, c)
    <2>1. v = W(s, w.done, w.calm) /\ u = W(w.seen, d, w.calm)
      BY <1>3, <1>4, <1>5, Zenon
    <2> QED
      BY <1>2, <2>1
  <1>7. /\ [w EXCEPT !.seen = s, !.done = d] = W(s, d, w.calm)
        /\ [w EXCEPT !.done = d, !.calm = c] = W(w.seen, d, c)
    BY <1>4, <1>5, <1>6, Zenon
  <1> QED
    BY <1>3, <1>7, Zenon DEF W

\* A read that ends its page at a place of the children.
LEMMA Turning ==
  ASSUME BrowsingInv, NEW to, NEW seen, NEW done \in BOOLEAN,
         catalog' = catalog, stars' = stars, plays' = plays,
         to \in 0 .. Len(Children(walk.what)),
         seen = walk.seen \o SubSeq(Children(walk.what), Len(walk.seen) + 1, to),
         walk' = [what |-> walk.what, count |-> walk.count,
                  metadata |-> walk.metadata, listing |-> walk.listing,
                  seen |-> seen, done |-> done, calm |-> walk.calm],
         walk.calm => Len(walk.seen) <= to /\ (done => to = Len(Children(walk.what)))
  PROVE  BrowsingInv'
  <1> DEFINE whole == Children(walk.what)
             V == Browsing!Objects \cup Browsing!Songs
             old == walk.seen
  <1>1. walk \in Walk /\ catalog \in Catalogs /\ plays \in Seq(Browsing!Groups)
    BY Walking DEF Walk
  <1>2. PICK what \in Browsing!Objects \cup Browsing!Lists : what = walk.what
    BY <1>1 DEF Walk
  <1>3. whole \in Seq(V) /\ old \in Seq(V) /\ Len(old) \in Nat
    <2>1. Children(what) \in Seq(V)
      BY <1>1, ChildrenAre
    <2>2. walk.seen \in Seq(V)
      BY <1>1 DEF Walk
    <2> HIDE DEF V
    <2> QED
      BY <1>2, <2>1, <2>2
  <1>4. seen \in Seq(V)
    <2>1. to \in 0 .. Len(whole) /\ seen = old \o SubSeq(whole, Len(old) + 1, to)
      OBVIOUS
    <2> HIDE DEF whole, V, old
    <2>2. SubSeq(whole, Len(old) + 1, to) \in Seq(V)
      BY <1>3, <2>1, Cuts
    <2> QED
      BY <1>3, <2>1, <2>2, ConcatProperties
  <1>5. walk' \in Walk
    BY <1>1, <1>4 DEF Walk
  <1>6. Browsing!TypeOK'
    BY <1>5 DEF BrowsingInv, Browsing!TypeOK, Walk
  <1>7. /\ walk'.what = what /\ walk'.calm = walk.calm
        /\ walk'.metadata = walk.metadata /\ walk'.listing = walk.listing
        /\ walk'.seen = seen /\ walk'.done = done
    BY <1>2
  <1>8. ASSUME walk.calm PROVE HasRead(what)'
    <2>1. HasRead(what)
      BY <1>2, <1>8, Walking
    <2>2. StartOf(seen, whole) /\ (done => seen = whole)
      <3>1. StartOf(old, whole) /\ Len(old) <= to /\ (done => to = Len(whole))
            /\ to \in 0 .. Len(whole) /\ seen = old \o SubSeq(whole, Len(old) + 1, to)
        BY <1>2, <1>8, <2>1 DEF HasRead
      <3> HIDE DEF whole, V, old
      <3>2. LET s == old \o SubSeq(whole, Len(old) + 1, to)
            IN  s \in Seq(V) /\ StartOf(s, whole) /\ Len(s) = to /\ (to = Len(whole) => s = whole)
        BY <1>3, <3>1, Continues
      <3> QED
        BY <3>1, <3>2
    <2>3. /\ Children(what)' = Children(what)
          /\ Browsing!ManyReleases(what)' <=> Browsing!ManyReleases(what)
      BY ChildrenStay
    <2> QED
      BY <1>2, <1>7, <2>1, <2>2, <2>3 DEF HasRead
  <1> QED
    BY <1>6, <1>7, <1>8 DEF BrowsingInv

LEMMA ReadingChildren == BrowsingInv /\ Browsing!ReadChildren => BrowsingInv'
  <1> SUFFICES ASSUME BrowsingInv, Browsing!ReadChildren PROVE BrowsingInv'
    OBVIOUS
  <1> DEFINE whole == Children(walk.what)
             V == Browsing!Objects \cup Browsing!Songs
             old == walk.seen
             start == Len(walk.seen)
             page == Browsing!BrowseChildren(walk.what, start, walk.count)
             seen == walk.seen \o page.items
             done == \/ page.items = <<>>
                     \/ page.total # 0 /\ Len(seen) >= page.total
  <1>1. /\ walk' = [walk EXCEPT !.seen = seen, !.done = done] /\ walk.what[1] # "list"
        /\ catalog' = catalog /\ stars' = stars /\ plays' = plays
    BY Zenon DEF Browsing!ReadChildren, Browsing!Listing
  <1>2. walk \in Walk /\ catalog \in Catalogs /\ plays \in Seq(Browsing!Groups)
        /\ walk.count \in Nat
    BY Walking DEF Walk
  <1>3. PICK what \in Browsing!Objects \cup Browsing!Lists : what = walk.what
    BY <1>2 DEF Walk
  <1>4. start = Len(old) /\ start \in Nat /\ old \in Seq(V) /\ whole \in Seq(V)
    <2>1. Children(what) \in Seq(V)
      BY <1>2, ChildrenAre
    <2>2. walk.seen \in Seq(V)
      BY <1>2 DEF Walk
    <2> HIDE DEF V
    <2> QED
      BY <1>3, <2>1, <2>2
  <1>5. PICK to : Ends(page, whole, start, to)
    <2>1. PICK count \in Nat : count = walk.count
      BY <1>2
    <2>2. what[1] # "list"
      BY <1>1, <1>3
    <2> HIDE DEF start
    <2>3. \E t : Ends(Browsing!BrowseChildren(what, start, count), Children(what), start, t)
      BY <1>2, <1>4, <2>2, PagesEnd
    <2> QED
      BY <1>3, <2>1, <2>3
  <1>6. to \in 0 .. Len(whole) /\ page.items = SubSeq(whole, start + 1, to)
    BY <1>5 DEF Ends
  <1>7. walk.calm => start <= to /\ (done => to = Len(whole))
    <2> SUFFICES ASSUME walk.calm PROVE start <= to /\ (done => to = Len(whole))
      OBVIOUS
    <2>1. StartOf(old, whole)
      BY Walking DEF HasRead
    <2>2. start <= Len(whole)
      BY <1>4, <2>1 DEF StartOf
    <2>3. start <= to
      <3> HIDE DEF whole, start, page
      <3> QED
        BY <1>5, <2>2 DEF Ends
    <2>4. Len(seen) = to
      <3>1. seen = old \o SubSeq(whole, Len(old) + 1, to) /\ Len(old) <= to
        BY <1>6, <2>3
      <3> HIDE DEF whole, V, old, start, page, seen
      <3>2. LET s == old \o SubSeq(whole, Len(old) + 1, to)
            IN  s \in Seq(V) /\ StartOf(s, whole) /\ Len(s) = to /\ (to = Len(whole) => s = whole)
        BY <1>4, <1>6, <2>1, <3>1, Continues
      <3> QED
        BY <3>1, <3>2
    <2> HIDE DEF whole, start, page, seen
    <2> QED
      BY <1>5, <2>2, <2>4 DEF Ends
  <1>8. done \in BOOLEAN
    OBVIOUS
  <1>9. seen = walk.seen \o SubSeq(Children(walk.what), Len(walk.seen) + 1, to)
    BY <1>6
  <1>10. /\ to \in 0 .. Len(Children(walk.what))
         /\ walk.calm => Len(walk.seen) <= to /\ (done => to = Len(Children(walk.what)))
    BY <1>6, <1>7
  <1> HIDE DEF whole, V, old, start, page, seen, done
  <1>11. walk' = [what |-> walk.what, count |-> walk.count,
                  metadata |-> walk.metadata, listing |-> walk.listing,
                  seen |-> seen, done |-> done, calm |-> walk.calm]
    BY <1>1, <1>2, Changed
  <1> QED
    BY <1>1, <1>8, <1>9, <1>10, <1>11, Turning

LEMMA ReadingList == BrowsingInv /\ Browsing!ReadList => BrowsingInv'
  <1> SUFFICES ASSUME BrowsingInv, Browsing!ReadList PROVE BrowsingInv'
    OBVIOUS
  <1> DEFINE whole == Children(walk.what)
             start == Len(walk.seen)
             rows == Browsing!AlbumList(walk.what[2], walk.what[3], PageCap, start)
             items == Browsing!Named("album", rows)
             seen == walk.seen \o items
             to == IF start + PageCap < Len(whole) THEN start + PageCap ELSE Len(whole)
             done == Len(rows) < PageCap
  <1>1. /\ walk' = [walk EXCEPT !.seen = seen, !.done = done] /\ walk.what[1] = "list"
        /\ catalog' = catalog /\ stars' = stars /\ plays' = plays
    BY Zenon DEF Browsing!ReadList, Browsing!Listing
  <1>2. walk \in Walk /\ start \in Nat /\ walk.what \in Browsing!Objects \cup Browsing!Lists
    BY Walking DEF Walk
  <1>3. /\ walk.what[2] \in Browsing!Types
        /\ whole = Browsing!Named("album", AllRows(walk.what[2], walk.what[3]))
    BY <1>1, <1>2, Walkable DEF Children
  <1>4. PageCap \in 1 .. PageCap /\ PageCap \in Nat
    BY ClientsAssumption DEF Browsing!CapAssumption
  <1>5. /\ Len(whole) \in Nat /\ to \in 0 .. Len(whole)
        /\ items = SubSeq(whole, start + 1, to)
        /\ Len(rows) = IF start <= to THEN to - start ELSE 0
    <2>1. catalog \in Catalogs /\ plays \in Seq(Browsing!Groups)
      BY Walking
    <2> HIDE DEF whole, start
    <2> QED
      BY <1>2, <1>3, <1>4, <2>1, AnswersEnd
  <1>6. walk.calm => start <= to /\ (done => to = Len(whole))
    <2> SUFFICES ASSUME walk.calm PROVE start <= to /\ (done => to = Len(whole))
      OBVIOUS
    <2>1. start <= Len(whole)
      BY Walking DEF HasRead, StartOf
    <2> HIDE DEF whole, start, rows
    <2> QED
      BY <1>2, <1>4, <1>5, <2>1
  <1>7. done \in BOOLEAN
    OBVIOUS
  <1>8. seen = walk.seen \o SubSeq(Children(walk.what), Len(walk.seen) + 1, to)
    BY <1>5
  <1>9. /\ to \in 0 .. Len(Children(walk.what))
        /\ walk.calm => Len(walk.seen) <= to /\ (done => to = Len(Children(walk.what)))
    BY <1>5, <1>6
  <1> HIDE DEF whole, start, rows, items, seen, to, done
  <1>10. walk' = [what |-> walk.what, count |-> walk.count,
                  metadata |-> walk.metadata, listing |-> walk.listing,
                  seen |-> seen, done |-> done, calm |-> walk.calm]
    BY <1>1, <1>2, Changed
  <1> QED
    BY <1>1, <1>7, <1>8, <1>9, <1>10, Turning

\* What changes under a reader who does not read it, or who is no longer sure of it.
LEMMA Changing ==
  ASSUME BrowsingInv, NEW sure \in BOOLEAN, NEW done \in BOOLEAN, catalog' \in Catalogs,
         stars' \subseteq Browsing!Groups, plays' \in Seq(Browsing!Groups), Len(plays') <= MaxPlays,
         walk' = [what |-> walk.what, count |-> walk.count,
                  metadata |-> walk.metadata, listing |-> walk.listing,
                  seen |-> walk.seen, done |-> done, calm |-> sure],
         sure => walk.calm /\ done = walk.done /\ catalog' = catalog
                  /\ (walk.what[1] = "list" =>
                        /\ stars' = stars \/ walk.what[2] # "starred"
                        /\ plays' = plays \/ walk.what[2] \notin {"frequent", "recent"})
  PROVE  BrowsingInv'
  <1>1. walk \in Walk
    BY Walking DEF Walk
  <1>2. walk' \in Walk
    BY <1>1 DEF Walk
  <1>3. Browsing!TypeOK'
    BY <1>2 DEF Browsing!TypeOK, Walk
  <1>4. PICK what \in Browsing!Objects \cup Browsing!Lists : what = walk.what
    BY <1>1 DEF Walk
  <1>5. /\ walk'.what = what /\ walk'.calm = sure
        /\ walk'.metadata = walk.metadata /\ walk'.listing = walk.listing
        /\ walk'.seen = walk.seen /\ walk'.done = done
    BY <1>4
  <1>6. ASSUME sure PROVE HasRead(what)'
    <2>1. /\ Children(what)' = Children(what)
          /\ Browsing!ManyReleases(what)' <=> Browsing!ManyReleases(what)
      BY <1>4, <1>6, ChildrenStay
    <2>2. HasRead(what)
      BY <1>4, <1>6, Walking
    <2> QED
      BY <1>5, <1>6, <2>1, <2>2 DEF HasRead
  <1> QED
    BY <1>3, <1>5, <1>6 DEF BrowsingInv

\* Every step of the readers, and of what goes on meanwhile.
LEMMA BrowsingStep == BrowsingInv /\ [Browsing!Next]_browsing => BrowsingInv'
  <1> SUFFICES ASSUME BrowsingInv, [Browsing!Next]_browsing PROVE BrowsingInv'
    OBVIOUS
  <1>1. walk \in Walk /\ catalog \in Catalogs /\ plays \in Seq(Browsing!Groups)
        /\ stars \subseteq Browsing!Groups /\ Len(plays) <= MaxPlays
    BY Walking DEF Walk, BrowsingInv, Browsing!TypeOK
  <1>2. walk.done \in BOOLEAN /\ walk.calm \in BOOLEAN
    BY <1>1 DEF Walk
  <1>3. ASSUME NEW o \in Browsing!Objects, NEW n \in Requested, Browsing!Open(o, n)
        PROVE  BrowsingInv'
    BY <1>3, Opening
  <1>4. ASSUME NEW l \in Browsing!Lists, Browsing!Open(l, PageCap) PROVE BrowsingInv'
    BY <1>4, Opening
  <1>5. ASSUME Browsing!ReadFails PROVE BrowsingInv'
    <2>1. walk' = [walk EXCEPT !.done = TRUE, !.calm = FALSE]
          /\ catalog' = catalog /\ stars' = stars /\ plays' = plays
      BY <1>5 DEF Browsing!ReadFails
    <2>2. walk' = [what |-> walk.what, count |-> walk.count,
                   metadata |-> walk.metadata, listing |-> walk.listing,
                   seen |-> walk.seen, done |-> TRUE, calm |-> FALSE]
      BY <1>1, <2>1, Changed
    <2> QED
      BY <1>1, <2>1, <2>2, Changing
  <1>6. ASSUME NEW c \in Catalogs, Browsing!Merge(c) PROVE BrowsingInv'
    <2>1. walk' = [walk EXCEPT !.calm = FALSE]
          /\ catalog' = c /\ stars' = stars /\ plays' = plays
      BY <1>6 DEF Browsing!Merge
    <2>2. walk' = [what |-> walk.what, count |-> walk.count,
                   metadata |-> walk.metadata, listing |-> walk.listing,
                   seen |-> walk.seen, done |-> walk.done, calm |-> FALSE]
      BY <1>1, <2>1, Changed
    <2> QED
      BY <1>1, <1>2, <2>1, <2>2, Changing
  <1>7. ASSUME NEW g \in Browsing!Groups, Browsing!Star(g) PROVE BrowsingInv'
    <2> DEFINE sure == walk.calm /\ ~(walk.what[1] = "list" /\ walk.what[2] \in {"starred"})
    <2>1. walk' = [walk EXCEPT !.calm = sure]
          /\ catalog' = catalog /\ stars' \subseteq Browsing!Groups /\ plays' = plays
      BY <1>1, <1>7 DEF Browsing!Star, Browsing!Disturbed, Browsing!Listing
    <2>2. sure \in BOOLEAN
          /\ (sure => walk.calm /\ (walk.what[1] = "list" => walk.what[2] # "starred"))
      OBVIOUS
    <2> HIDE DEF sure
    <2>3. walk' = [what |-> walk.what, count |-> walk.count,
                   metadata |-> walk.metadata, listing |-> walk.listing,
                   seen |-> walk.seen, done |-> walk.done, calm |-> sure]
      BY <1>1, <2>1, Changed
    <2> QED
      BY <1>1, <1>2, <2>1, <2>2, <2>3, Changing
  <1>8. ASSUME NEW g \in Browsing!Groups, Browsing!Play(g) PROVE BrowsingInv'
    <2> DEFINE sure == /\ walk.calm
                       /\ ~(walk.what[1] = "list" /\ walk.what[2] \in {"frequent", "recent"})
    <2>1. walk' = [walk EXCEPT !.calm = sure]
          /\ catalog' = catalog /\ stars' = stars /\ plays' = Append(plays, g)
          /\ Len(plays) < MaxPlays
      BY <1>8 DEF Browsing!Play, Browsing!Disturbed, Browsing!Listing
    <2>2. sure \in BOOLEAN
          /\ (sure => walk.calm
                      /\ (walk.what[1] = "list" => walk.what[2] \notin {"frequent", "recent"}))
      OBVIOUS
    <2>3. plays' \in Seq(Browsing!Groups) /\ Len(plays') <= MaxPlays
      <3>1. MaxPlays \in Nat /\ Len(plays) \in Nat
        BY <1>1, ClientsAssumption DEF Browsing!CapAssumption
      <3>2. plays' \in Seq(Browsing!Groups) /\ Len(plays') = Len(plays) + 1
        BY <1>1, <2>1, AppendProperties
      <3> QED
        BY <2>1, <3>1, <3>2
    <2> HIDE DEF sure
    <2>4. walk' = [what |-> walk.what, count |-> walk.count,
                   metadata |-> walk.metadata, listing |-> walk.listing,
                   seen |-> walk.seen, done |-> walk.done, calm |-> sure]
      BY <1>1, <2>1, Changed
    <2> QED
      BY <1>1, <1>2, <2>1, <2>2, <2>3, <2>4, Changing
  <1>9. ASSUME UNCHANGED browsing PROVE BrowsingInv'
    <2>1. catalog' = catalog /\ stars' = stars /\ plays' = plays /\ walk' = walk
      BY <1>9 DEF browsing
    <2>2. walk' = [what |-> walk.what, count |-> walk.count,
                   metadata |-> walk.metadata, listing |-> walk.listing,
                   seen |-> walk.seen, done |-> walk.done, calm |-> walk.calm]
      BY <1>1, <2>1 DEF Walk
    <2> QED
      BY <1>1, <1>2, <2>1, <2>2, Changing
  <1> QED
    BY <1>3, <1>4, <1>5, <1>6, <1>7, <1>8, <1>9, ReadingChildren, ReadingList DEF Browsing!Next

\* Who read all the children to the end has read each once.
LEMMA ReadersSeeAll == BrowsingInv => Browsing!PagingIsComplete
  <1> SUFFICES ASSUME BrowsingInv, walk.done, walk.calm
               PROVE  /\ Browsing!IsInjective(walk.seen)
                      /\ walk.metadata \in {Browsing!Unknown, Len(walk.seen)}
                      /\ \/ walk.listing \in {Browsing!Unknown, Len(walk.seen)}
                         \/ Browsing!ManyReleases(walk.what)
                      /\ Browsing!IsAllOf(walk.what, {walk.seen[i] : i \in DOMAIN walk.seen})
    BY DEF Browsing!PagingIsComplete, Browsing!Seen
  <1>1. walk \in Walk /\ catalog \in Catalogs /\ plays \in Seq(Browsing!Groups)
        /\ HasRead(walk.what)
    BY Walking DEF Walk
  <1>2. PICK what \in Browsing!Objects \cup Browsing!Lists : what = walk.what
    BY <1>1 DEF Walk
  <1>3. /\ walk.seen = Children(what) /\ walk.metadata \in {Browsing!Unknown, Len(Children(what))}
        /\ \/ walk.listing \in {Browsing!Unknown, Len(Children(what))}
           \/ Browsing!ManyReleases(what)
    BY <1>1, <1>2 DEF HasRead
  <1>4. /\ IsInjective(Children(what))
        /\ Browsing!IsAllOf(what, {Children(what)[i] : i \in DOMAIN Children(what)})
    BY <1>1, ChildrenAre
  <1> QED
    BY <1>2, <1>3, <1>4, BrowsingWords

-----------------------------------------------------------------------------
(* The whole.                                                              *)

ClientsInv == SessionInv /\ LanInv /\ ListenInv /\ BrowsingInv /\ UpgradeInv

LEMMA ClientsStart == Init => ClientsInv
  BY SessionStart, LanStart, ListenStart, BrowsingStart, UpgradeStart DEF Init, ClientsInv

\* The part in focus steps, the others rest.
LEMMA EachStepsOrRests ==
  ASSUME [Next]_all
  PROVE  /\ [Listening!Next]_listening /\ [Session!Next]_session /\ [Lan!Next]_lan
         /\ [Browsing!Next]_browsing /\ [Upgrade!Next]_upgrade
  <1>1. CASE UNCHANGED all
    BY <1>1 DEF all
  <1>2. CASE Next
    BY <1>2 DEF Next, OnListening, OnSession, OnLan, OnBrowsing, OnUpgrade
  <1> QED
    BY <1>1, <1>2

LEMMA ClientsStep == ClientsInv /\ [Next]_all => ClientsInv'
  <1> SUFFICES ASSUME ClientsInv, [Next]_all PROVE ClientsInv'
    OBVIOUS
  <1>1. /\ [Listening!Next]_listening /\ [Session!Next]_session /\ [Lan!Next]_lan
        /\ [Browsing!Next]_browsing /\ [Upgrade!Next]_upgrade
    BY EachStepsOrRests
  <1> QED
    BY <1>1, ListenStep, SessionStep, LanStep, BrowsingStep, UpgradeStep DEF ClientsInv

LEMMA ClientsKeepInv == Spec => []ClientsInv
  BY ClientsStart, ClientsStep, PTL DEF Spec

\* For queues, tracks and user sessions of any length, one listen is counted by
\* the hub once, and once more at most after each reload, however it crosses
\* between the tab and the speaker (PlayerBar.tsx, maybeScrobble and its refs).
THEOREM ListensCountOnce == Spec => []OncePerListen
  <1>1. ClientsInv => OncePerListen
    BY Modest DEF ClientsInv, ListenInv, Heard, OncePerListen, Listening!OncePerListen,
                  Listening!Exceeds
  <1> QED
    BY <1>1, ClientsKeepInv, PTL

\* However many calls a tab has under way, expiry alone does not sign it out:
\* the shared refresh and the retries leave it its token and its credentials
\* (lib/api.ts, refreshAccessToken and request).
THEOREM ExpirySignsNobodyOut == Spec => []RefreshIsSilent
  <1>1. ClientsInv => RefreshIsSilent
    BY DEF ClientsInv, SessionInv, Calm, Session!TypeOK, RefreshIsSilent,
           Session!RefreshIsSilent
  <1> QED
    BY <1>1, ClientsKeepInv, PTL

\* Whatever URLs are set, one after the other, and however many advertisers are
\* left behind, the hub at rest announces the URL that is set and no other,
\* unless a setting changed while an advertiser was stopping (server.ts, rebuild).
THEOREM RestingHubAdvertisesSetting == Spec => []AdvertisesUnhurriedSetting
  <1>1. ClientsInv => AdvertisesUnhurriedSetting
    BY LanIsTold DEF ClientsInv, AdvertisesUnhurriedSetting
  <1> QED
    BY <1>1, ClientsKeepInv, PTL

\* Whatever old database a hub boots on, and at whatever statements its boots
\* are cut short, a hub that comes up has the shape it expects, its playlists,
\* its peers with their keys and numbers, its owner and the settings the owner
\* set last, but for the two losses UpgradeKeepsData names (db/client.ts, createDatabase).
THEOREM BootsKeepData == Spec => []UpgradeKeepsData
  <1>1. ClientsInv => UpgradeKeepsData
    BY UpgradeKept DEF ClientsInv, UpgradeKeepsData
  <1> QED
    BY <1>1, ClientsKeepInv, PTL

\* Whatever the catalog holds, and whatever page size a reader asks for, one that
\* reads to the end has seen every child once, unless a call failed or what it reads
\* was changed meanwhile: as many as the metadata told, and as many as the list told,
\* but for an album of several releases, of which it sees one (routes/subsonic/browsing.ts
\* and services/dlna-objects.ts, the answers and the pages of Browse).
THEOREM PagesShowEverything == Spec => []PagingIsComplete
  <1>1. ClientsInv => PagingIsComplete
    BY ReadersSeeAll DEF ClientsInv, PagingIsComplete
  <1> QED
    BY <1>1, ClientsKeepInv, PTL

\* The state of every part keeps its types: what is shown of a walk are objects
\* and tracks of the catalog, what is played is a track of the queue.
THEOREM ClientsTypes == Spec => []TypeOK
  <1>1. ClientsInv => TypeOK
    <2> SUFFICES ASSUME ClientsInv PROVE TypeOK
      OBVIOUS
    <2>1. Listening!TypeOK
      BY ListenIsTyped DEF ClientsInv
    <2>2. Session!TypeOK /\ Lan!TypeOK /\ Browsing!TypeOK /\ Upgrade!TypeOK
      BY DEF ClientsInv, SessionInv, LanInv, BrowsingInv, UpgradeInv
    <2> QED
      BY <2>1, <2>2 DEF TypeOK
  <1> QED
    BY <1>1, ClientsKeepInv, PTL
=============================================================================
