------------------------------- MODULE Session -------------------------------
(***************************************************************************)
(* Being signed in (frontend/src/api/client.ts, authSlice.ts, the gateway's*)
(* auth.js and index.js): tabs of one browser share the stored session,    *)
(* send calls with its access token, and renew it when a call is refused.  *)
(***************************************************************************)
EXTENDS Identity

CONSTANTS
  Tabs,       \* tabs of one browser
  Calls,      \* calls of protected routes
  TabOf,      \* TabOf[c]: the tab that makes call c
  MaxTokens,  \* bound on the access tokens issued
  Nobody,     \* who is signed in when nobody is
  NoSession   \* local storage without an 'auth' item

ASSUME SessionFacts == TabOf \in [Calls -> Tabs] /\ MaxTokens \in Nat

VARIABLES
  stored,      \* the 'auth' item: [profile, access: [sub, nr], refresh], or NoSession
  shown,       \* shown[t]: the user in tab t's store, which the pages go by
  refreshing,  \* refreshing[t]: the session read by the refresh under way in t, or NoSession
  call,        \* call[c]: [step, token, retried]
  carried,     \* carried[c]: how often a service has carried out call c
  live,        \* the numbers of the access tokens that have not expired
  issued       \* the number of access tokens issued

sessionVars == <<stored, shown, refreshing, call, carried, live, issued>>

-----------------------------------------------------------------------------

NoToken == [sub |-> Nobody, nr |-> 0]

\* What a request is sent with: the interceptor reads the storage.
StoredToken(s) == IF s = NoSession THEN NoToken ELSE s.access

CallsOf(t, step) == {c \in Calls: TabOf[c] = t /\ call[c].step = step}

\* buildAuthResponse.
NewSession(profile, sub, nr) ==
  [profile |-> profile, access |-> [sub |-> sub, nr |-> nr], refresh |-> sub]

SessionInit ==
  /\ stored = NoSession
  /\ shown = [t \in Tabs |-> Nobody]
  /\ refreshing = [t \in Tabs |-> NoSession]
  /\ call = [c \in Calls |-> [step |-> "idle", token |-> NoToken, retried |-> FALSE]]
  /\ carried = [c \in Calls |-> 0]
  /\ live = {}
  /\ issued = 0

\* Issue one more access token.
Issue ==
  /\ issued < MaxTokens
  /\ issued' = issued + 1
  /\ live' = live \cup {issued + 1}

-----------------------------------------------------------------------------
(* Signing in and out.                                                     *)

\* login or register has answered: setCredentials writes store and storage.
SignIn(t, p) ==
  /\ p \in Accounts
  /\ Issue
  /\ stored' = NewSession(p, p, issued + 1)
  /\ shown' = [shown EXCEPT ![t] = p]
  /\ UNCHANGED <<refreshing, call, carried>>

LogOut(t) ==
  /\ shown[t] # Nobody
  /\ stored' = NoSession
  /\ shown' = [shown EXCEPT ![t] = Nobody]
  /\ UNCHANGED <<refreshing, call, carried, live, issued>>

\* The page is loaded, and the store taken from the storage. Calls of the old
\* page are given up, which does not stop those that are on their way.
Loaded(t, s) ==
  /\ shown' = [shown EXCEPT ![t] = IF s = NoSession THEN Nobody ELSE s.profile]
  /\ refreshing' = [refreshing EXCEPT ![t] = NoSession]
  /\ call' = [c \in Calls |->
       IF TabOf[c] # t \/ call[c].step \in {"idle", "done", "failed"} THEN call[c]
       ELSE [call[c] EXCEPT !.step = IF @ = "sent" THEN "adrift" ELSE "failed"]]

Reload(t) ==
  /\ Loaded(t, stored)
  /\ UNCHANGED <<stored, carried, live, issued>>

Expire ==
  /\ \E nr \in live: live' = live \ {nr}
  /\ UNCHANGED <<stored, shown, refreshing, call, carried, issued>>

-----------------------------------------------------------------------------
(* A call, the gateway, and the answer.                                    *)

\* ProtectedRoute shows its pages to users only.
StartCall(c) ==
  /\ call[c].step = "idle"
  /\ shown[TabOf[c]] # Nobody
  /\ call' = [call EXCEPT ![c].step = "sent", ![c].token = StoredToken(stored)]
  /\ UNCHANGED <<stored, shown, refreshing, carried, live, issued>>

\* attachUser and requireUser: without a valid token the call goes no further.
GatewayRefuses(c) ==
  /\ call[c].step = "sent"
  /\ call[c].token.nr \notin live
  /\ call' = [call EXCEPT ![c].step = "refused"]
  /\ UNCHANGED <<stored, shown, refreshing, carried, live, issued>>

\* The proxy passes it on. The service carries it out and its answer arrives;
\* or an error does, after a connection has broken on the way there or back.
GatewayProxies(c) ==
  /\ call[c].step \in {"sent", "adrift"}
  /\ call[c].token.nr \in live
  /\ \/ /\ carried' = [carried EXCEPT ![c] = @ + 1]
        /\ \E step \in IF call[c].step = "sent" THEN {"answered", "erred"} ELSE {"failed"}:
              call' = [call EXCEPT ![c].step = step]
     \/ /\ call' = [call EXCEPT ![c].step = IF @ = "sent" THEN "erred" ELSE "failed"]
        /\ UNCHANGED carried
  /\ UNCHANGED <<stored, shown, refreshing, live, issued>>

\* Variation: the interceptor replays after any error.
Replayed_AnyError(c) == call[c].step \in {"refused", "erred"} /\ ~call[c].retried

\* The interceptor replays a call after its first 401,
Replayed(c) == call[c].step = "refused" /\ ~call[c].retried

\* and lets anything else through.
Settled(c) ==
  /\ call[c].step \in {"answered", "erred", "refused"} /\ ~Replayed(c)
  /\ call' = [call EXCEPT ![c].step = IF @ = "answered" THEN "done" ELSE "failed"]
  /\ UNCHANGED <<stored, shown, refreshing, carried, live, issued>>

\* It waits for the refresh under way, or starts one with the session stored
\* by then; without one the browser goes to the login page.
AwaitRefresh(c) ==
  LET t == TabOf[c] IN
  /\ Replayed(c)
  /\ IF refreshing[t] = NoSession /\ stored = NoSession
     THEN Loaded(t, NoSession)
     ELSE /\ refreshing' = [refreshing EXCEPT ![t] = IF @ = NoSession THEN stored ELSE @]
          /\ call' = [call EXCEPT ![c].step = "waiting", ![c].retried = TRUE]
          /\ UNCHANGED shown
  /\ UNCHANGED <<stored, carried, live, issued>>

-----------------------------------------------------------------------------
(* refreshAccessToken. Those who wait for it go on in the same turn of the *)
(* event loop, in which the promise is forgotten.                          *)

\* The waiting calls are sent again, with what is stored now.
Resent(t, s) ==
  [c \in Calls |-> IF c \in CallsOf(t, "waiting")
                   THEN [call[c] EXCEPT !.step = "sent", !.token = StoredToken(s)]
                   ELSE call[c]]

\* Variation: the tokens are merged into the session stored by then.
RefreshSucceeds_Merged(t) ==
  LET old == refreshing[t]
      new == NewSession(IF stored = NoSession THEN old.profile ELSE stored.profile,
                        old.refresh, issued + 1) IN
  /\ old # NoSession
  /\ Issue
  /\ stored' = new
  /\ call' = Resent(t, new)
  /\ refreshing' = [refreshing EXCEPT ![t] = NoSession]
  /\ UNCHANGED <<shown, carried>>

\* The session read at the start is written with new tokens, over whatever a
\* logout or another login has stored since.
RefreshSucceeds(t) ==
  LET old == refreshing[t]
      new == NewSession(old.profile, old.refresh, issued + 1) IN
  /\ old # NoSession
  /\ Issue
  /\ stored' = new
  /\ call' = Resent(t, new)
  /\ refreshing' = [refreshing EXCEPT ![t] = NoSession]
  /\ UNCHANGED <<shown, carried>>

\* Any failure, of the network too, removes the session stored by then.
RefreshFails(t) ==
  /\ refreshing[t] # NoSession
  /\ stored' = NoSession
  /\ Loaded(t, NoSession)
  /\ UNCHANGED <<carried, live, issued>>

-----------------------------------------------------------------------------

SessionNext ==
  \/ (\E r \in Registrations: FindByEmail(r) \/ InsertUser(r)) /\ UNCHANGED sessionVars
  \/ /\ \/ \E t \in Tabs: \/ \E p \in Accounts: SignIn(t, p)
                          \/ LogOut(t) \/ Reload(t)
                          \/ RefreshSucceeds(t) \/ RefreshFails(t)
        \/ \E c \in Calls: \/ StartCall(c) \/ GatewayRefuses(c) \/ GatewayProxies(c)
                           \/ Settled(c) \/ AwaitRefresh(c)
        \/ Expire
     /\ UNCHANGED identityVars

-----------------------------------------------------------------------------
(* Properties.                                                             *)

\* A call that is replayed after a refresh has not been carried out before:
\* nothing is booked, paid or cancelled twice by one click.
CarriedOutOnce == \A c \in Calls: carried[c] <= 1

\* Whatever logins, logouts and refreshes of several tabs overlap, the profile
\* the pages go by after a reload, the access token and the refresh token that
\* are stored belong to one account.
StoredTogether ==
  stored # NoSession =>
    stored.profile \in Accounts /\ stored.access.sub = stored.profile /\ stored.refresh = stored.profile
=============================================================================
