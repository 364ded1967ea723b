---------------------------- MODULE ClientProofs -----------------------------
(***************************************************************************)
(* Theorems about Client for any number of registrations, tabs, calls and  *)
(* tokens, any services, opening hours and bookings.                       *)
(***************************************************************************)
EXTENDS Client, TLAPS

-----------------------------------------------------------------------------
(* Accounts.                                                               *)

\* The address in the row is the one asked for, in lower case: what the unique
\* column compares.
IdentityInv ==
  /\ \A u \in users: u.email = Lower[Email[u.id]]
  /\ \A u, v \in users: u.email = v.email => u = v

\* Nobody but a registration writes a user, and it adds one.
LEMMA IdentityStep ==
  ASSUME IdentityInv, [ClientNext]_clientVars
  PROVE  IdentityInv' /\ Accounts \subseteq Accounts'
<1>1. CASE \E r \in Registrations: InsertUser(r)
  <2>1. PICK r \in Registrations: InsertUser(r)
    BY <1>1
  <2>2. CASE \E u \in users: u.email = Lower[Email[r]]
    BY <2>1, <2>2 DEF InsertUser, IdentityInv, Accounts
  <2>3. CASE ~\E u \in users: u.email = Lower[Email[r]]
    <3>1. users' = users \cup {[id |-> r, email |-> Lower[Email[r]]]}
      BY <2>1, <2>3 DEF InsertUser
    <3>2. Accounts \subseteq Accounts'
      BY <3>1 DEF Accounts
    <3>3. IdentityInv'
      BY <2>3, <3>1 DEF IdentityInv
    <3> QED
      BY <3>2, <3>3
  <2> QED
    BY <2>2, <2>3
<1>2. CASE UNCHANGED users
  BY <1>2 DEF IdentityInv, Accounts
<1> QED
  BY <1>1, <1>2 DEF ClientNext, SessionNext, FindByEmail, identityVars, clientVars

\* Registrations that race over one address, in whatever spelling, leave it with
\* one account.
THEOREM OneAccount == ClientSpec => []OneAccountPerEmail
<1>1. ClientInit => IdentityInv
  BY DEF ClientInit, IdentityInit, IdentityInv
<1>2. IdentityInv /\ [ClientNext]_clientVars => IdentityInv'
  BY IdentityStep
<1>3. IdentityInv => OneAccountPerEmail
  BY DEF IdentityInv, OneAccountPerEmail
<1> QED
  BY <1>1, <1>2, <1>3, PTL DEF ClientSpec

-----------------------------------------------------------------------------
(* The stored session.                                                     *)

\* Profile and tokens are of one account.
OfOneAccount(s) ==
  s # NoSession => s.profile \in Accounts /\ s.access.sub = s.profile /\ s.refresh = s.profile

\* So is what a refresh has read, which it will write back.
SessionInv ==
  /\ DOMAIN refreshing = Tabs
  /\ OfOneAccount(stored)
  /\ \A t \in Tabs: OfOneAccount(refreshing[t])

\* Where nobody writes the storage or starts a refresh, nothing comes apart.
LEMMA SessionFrame ==
  ASSUME SessionInv, Accounts \subseteq Accounts',
         stored' \in {stored, NoSession},
         DOMAIN refreshing' = Tabs,
         \A t \in Tabs: refreshing'[t] \in {refreshing[t], stored, NoSession}
  PROVE  SessionInv'
BY DEF SessionInv, OfOneAccount

LEMMA SessionStep ==
  ASSUME IdentityInv, SessionInv, [ClientNext]_clientVars
  PROVE  SessionInv'
<1>0. Accounts \subseteq Accounts'
  BY IdentityStep
<1>1. CASE UNCHANGED sessionVars
  BY <1>0, <1>1, SessionFrame DEF sessionVars, SessionInv
<1>2. ASSUME NEW t \in Tabs, NEW p \in Accounts, SignIn(t, p)
      PROVE  SessionInv'
  <2>1. OfOneAccount(stored)'
    BY <1>0, <1>2 DEF SignIn, NewSession, OfOneAccount
  <2> QED
    BY <1>0, <1>2, <2>1 DEF SignIn, SessionInv, OfOneAccount
<1>3. ASSUME NEW t \in Tabs, LogOut(t)
      PROVE  SessionInv'
  BY <1>0, <1>3, SessionFrame DEF LogOut, SessionInv
<1>4. ASSUME NEW t \in Tabs, Reload(t)
      PROVE  SessionInv'
  BY <1>0, <1>4, SessionFrame DEF Reload, Loaded, SessionInv
<1>5. ASSUME NEW t \in Tabs, RefreshSucceeds(t)
      PROVE  SessionInv'
  <2>1. OfOneAccount(refreshing[t])
    BY DEF SessionInv
  <2>2. OfOneAccount(stored)'
    BY <1>0, <1>5, <2>1 DEF RefreshSucceeds, NewSession, OfOneAccount
  <2> QED
    BY <1>0, <1>5, <2>2 DEF RefreshSucceeds, SessionInv, OfOneAccount
<1>6. ASSUME NEW t \in Tabs, RefreshFails(t)
      PROVE  SessionInv'
  BY <1>0, <1>6, SessionFrame DEF RefreshFails, Loaded, SessionInv
<1>7. ASSUME NEW c \in Calls, StartCall(c) \/ GatewayRefuses(c) \/ GatewayProxies(c) \/ Settled(c)
      PROVE  SessionInv'
  BY <1>0, <1>7, SessionFrame DEF StartCall, GatewayRefuses, GatewayProxies, Settled, SessionInv
<1>8. ASSUME NEW c \in Calls, AwaitRefresh(c)
      PROVE  SessionInv'
  <2>1. UNCHANGED stored /\ DOMAIN refreshing' = Tabs
    BY <1>8 DEF AwaitRefresh, Loaded, SessionInv
  <2>2. \A t \in Tabs: refreshing'[t] \in {refreshing[t], stored, NoSession}
    BY <1>8 DEF AwaitRefresh, Loaded, SessionInv
  <2> QED
    BY <1>0, <2>1, <2>2, SessionFrame
<1>9. CASE Expire
  BY <1>0, <1>9, SessionFrame DEF Expire, SessionInv
<1> QED
  BY <1>1, <1>2, <1>3, <1>4, <1>5, <1>6, <1>7, <1>8, <1>9 DEF ClientNext, SessionNext, clientVars

\* Whatever logins, logouts and refreshes of any number of tabs overlap, the
\* profile and the tokens in the storage belong to one account.
THEOREM SessionOfOneAccount == ClientSpec => []StoredTogether
<1>1. ClientInit => IdentityInv /\ SessionInv
  BY DEF ClientInit, IdentityInit, SessionInit, IdentityInv, SessionInv, OfOneAccount
<1>2. IdentityInv /\ SessionInv /\ [ClientNext]_clientVars => (IdentityInv /\ SessionInv)'
  BY IdentityStep, SessionStep
<1>3. SessionInv => StoredTogether
  BY DEF SessionInv, OfOneAccount, StoredTogether
<1> QED
  BY <1>1, <1>2, <1>3, PTL DEF ClientSpec
-----------------------------------------------------------------------------
(* Calls.                                                                  *)

\* Only a call that was carried out at most once, or not at all if it may still
\* be sent: a call that is answered, or that broke on the way, is never replayed.
CallInv ==
  /\ DOMAIN call = Calls /\ DOMAIN carried = Calls
  /\ \A c \in Calls: DOMAIN call[c] = {"step", "token", "retried"}
  /\ \A c \in Calls: carried[c] \in {0, 1}
  /\ \A c \in Calls: carried[c] = 1 => call[c].step \in {"answered", "erred", "done", "failed"}

\* A call that is not carried out, and if it was before stays ended, keeps the
\* invariant.
LEMMA CallFrame ==
  ASSUME CallInv, UNCHANGED carried, DOMAIN call' = Calls,
         \A c \in Calls: DOMAIN call'[c] = {"step", "token", "retried"},
         \A c \in Calls: call[c].step \in {"answered", "erred", "done", "failed"} =>
                           call'[c].step \in {"answered", "erred", "done", "failed"}
  PROVE  CallInv'
BY DEF CallInv

\* A page that is loaded again sends nothing.
LEMMA LoadedCalls ==
  ASSUME CallInv, UNCHANGED carried, NEW t, NEW s, Loaded(t, s)
  PROVE  CallInv'
<1>1. DOMAIN call' = Calls
  BY DEF Loaded
<1>2. ASSUME NEW c \in Calls
      PROVE  /\ DOMAIN call'[c] = {"step", "token", "retried"}
             /\ call[c].step \in {"answered", "erred", "done", "failed"} =>
                  call'[c].step \in {"answered", "erred", "done", "failed"}
  <2>1. CASE TabOf[c] # t \/ call[c].step \in {"idle", "done", "failed"}
    BY <2>1 DEF Loaded, CallInv
  <2>2. CASE ~(TabOf[c] # t \/ call[c].step \in {"idle", "done", "failed"})
    <3>1. call'[c] = [call[c] EXCEPT !.step = IF call[c].step = "sent" THEN "adrift" ELSE "failed"]
      BY <2>2, Zenon DEF Loaded
    <3> QED
      BY <3>1 DEF CallInv
  <2> QED
    BY <2>1, <2>2
<1> QED
  BY <1>1, <1>2, CallFrame

\* One call takes its step.
LEMMA CallMoves ==
  ASSUME CallInv, NEW c \in Calls,
         StartCall(c) \/ GatewayRefuses(c) \/ GatewayProxies(c) \/ Settled(c) \/ AwaitRefresh(c)
  PROVE  CallInv'
<1>1. CASE StartCall(c)
  BY <1>1, CallFrame DEF StartCall, CallInv
<1>2. CASE GatewayRefuses(c)
  BY <1>2, CallFrame DEF GatewayRefuses, CallInv
<1>3. CASE GatewayProxies(c)
  <2>1. CASE UNCHANGED carried
    <3>1. PICK step \in {"erred", "failed"}: call' = [call EXCEPT ![c].step = step]
      BY <1>3, <2>1 DEF GatewayProxies, CallInv
    <3> QED
      BY <2>1, <3>1, CallFrame DEF CallInv
  <2>2. CASE carried' = [carried EXCEPT ![c] = @ + 1]
    <3>1. carried[c] = 0
      BY <1>3 DEF GatewayProxies, CallInv
    <3>2. PICK step \in {"answered", "erred", "failed"}: call' = [call EXCEPT ![c].step = step]
      BY <1>3 DEF GatewayProxies
    <3> QED
      BY <2>2, <3>1, <3>2 DEF CallInv
  <2> QED
    BY <1>3, <2>1, <2>2 DEF GatewayProxies
<1>4. CASE Settled(c)
  <2>1. PICK step \in {"done", "failed"}: call' = [call EXCEPT ![c].step = step]
    BY <1>4 DEF Settled
  <2> QED
    BY <1>4, <2>1, CallFrame DEF Settled, CallInv
<1>5. CASE AwaitRefresh(c)
  <2>1. CASE Loaded(TabOf[c], NoSession)
    BY <1>5, <2>1, LoadedCalls DEF AwaitRefresh
  <2>2. CASE call' = [call EXCEPT ![c].step = "waiting", ![c].retried = TRUE]
    BY <1>5, <2>2, CallFrame DEF AwaitRefresh, Replayed, CallInv
  <2> QED
    BY <1>5, <2>1, <2>2 DEF AwaitRefresh
<1> QED
  BY <1>1, <1>2, <1>3, <1>4, <1>5

LEMMA CallStep ==
  ASSUME CallInv, [ClientNext]_clientVars
  PROVE  CallInv'
<1>1. CASE UNCHANGED <<call, carried>>
  BY <1>1 DEF CallInv
<1>2. ASSUME NEW t \in Tabs, Reload(t) \/ RefreshFails(t)
      PROVE  CallInv'
  BY <1>2, LoadedCalls DEF Reload, RefreshFails
<1>3. ASSUME NEW t \in Tabs, RefreshSucceeds(t)
      PROVE  CallInv'
  <2>1. PICK s: call' = Resent(t, s)
    BY <1>3 DEF RefreshSucceeds
  <2>2. ASSUME NEW d \in Calls
        PROVE  /\ DOMAIN call'[d] = {"step", "token", "retried"}
               /\ call[d].step \in {"answered", "erred", "done", "failed"} =>
                    call'[d].step \in {"answered", "erred", "done", "failed"}
    <3>1. CASE d \in CallsOf(t, "waiting")
      <4>1. call'[d] = [call[d] EXCEPT !.step = "sent", !.token = StoredToken(s)]
        BY <2>1, <3>1, Zenon DEF Resent
      <4> QED
        BY <3>1, <4>1 DEF CallsOf, CallInv
    <3>2. CASE d \notin CallsOf(t, "waiting")
      BY <2>1, <3>2 DEF Resent, CallInv
    <3> QED
      BY <3>1, <3>2
  <2> QED
    BY <1>3, <2>1, <2>2, CallFrame DEF RefreshSucceeds, Resent
<1>4. ASSUME NEW c \in Calls,
             StartCall(c) \/ GatewayRefuses(c) \/ GatewayProxies(c) \/ Settled(c) \/ AwaitRefresh(c)
      PROVE  CallInv'
  BY <1>4, CallMoves
<1> QED
  BY <1>1, <1>2, <1>3, <1>4
  DEF ClientNext, SessionNext, SignIn, LogOut, Expire, sessionVars, clientVars

\* One click books, pays or cancels once, however many calls are refused at
\* once and share a refresh, and however often a token expires.
THEOREM CallsCarriedOutOnce == ClientSpec => []CarriedOutOnce
<1>1. ClientInit => CallInv
  BY DEF ClientInit, SessionInit, CallInv
<1>2. CallInv /\ [ClientNext]_clientVars => CallInv'
  BY CallStep
<1>3. CallInv => CarriedOutOnce
  BY DEF CallInv, CarriedOutOnce
<1> QED
  BY <1>1, <1>2, <1>3, PTL DEF ClientSpec
-----------------------------------------------------------------------------
(* The page.                                                               *)

\* Rows and what is picked are what the assumptions say of them, and a slot
\* picked is one that was available in the list it was picked from, on the date
\* and for the service that are still picked.
PageInv ==
  /\ rows \subseteq [start: Int, until: Int]
  /\ service # Unset => service \in Services
  /\ date \in Dates
  /\ list # Unset => list \subseteq [start: Int, until: Int]
  /\ slot # Unset => /\ service \in Services
                     /\ slot.seen \subseteq [start: Int, until: Int]
                     /\ P!Available(slot.seen, service, date, slot.start)

\* A click asks for what was picked, and its conflict is with what it met.
ClickInv ==
  /\ DOMAIN click = Clicks
  /\ \A k \in Clicks: click[k].step # "idle" =>
       /\ DOMAIN click[k] = {"step", "service", "date", "start", "seen", "met"}
       /\ click[k].service \in Services
       /\ click[k].date \in Dates
       /\ click[k].seen \subseteq [start: Int, until: Int]
       /\ P!Available(click[k].seen, click[k].service, click[k].date, click[k].start)
  /\ \A k \in Clicks: click[k].step = "taken" =>
       /\ click[k].met # {}
       /\ click[k].met \subseteq [start: Int, until: Int]
       /\ \A r \in click[k].met:
            P!Meets(r, click[k].start, P!BlockedUntil(click[k].service, click[k].start))

\* A start is a time, not before the beginning of its day.
LEMMA StartsWithinDay ==
  ASSUME NEW s \in Services, NEW d \in Dates, NEW t \in P!Starts(s, d)
  PROVE  t \in Int /\ P!BlockedUntil(s, t) \in Int /\ t >= d * Day
<1>1. PICK k \in 0..(Day \div Step): t = d * Day + Hours[d].open + k * Step
  BY DEF P!Starts
<1>2. Hours[d].open \in Nat /\ d * Day \in Nat
  BY PageFacts DEF P!Starts
<1>3. k \in Nat /\ k * Step \in Nat
  BY PageFacts
<1>4. t \in Int /\ t >= d * Day
  BY <1>1, <1>2, <1>3
<1>5. Duration[s] \in Nat /\ Buffer[s] \in Nat
  BY PageFacts
<1> QED
  BY <1>4, <1>5 DEF P!BlockedUntil

\* What is picked stays available in its list, whoever books meanwhile.
LEMMA PageStep ==
  ASSUME PageInv, ClickInv, [ClientNext]_clientVars
  PROVE  PageInv'
<1>1. CASE UNCHANGED pageVars
  BY <1>1 DEF pageVars, PageInv
<1>2. CASE P!OtherBooks \/ P!OtherCancels \/ P!SalonDecided \/ P!OtherLocks \/ P!LockGoes
  BY <1>2, PageFacts DEF P!OtherBooks, P!OtherCancels, P!SalonDecided, P!OtherLocks, P!LockGoes, PageInv
<1>3. CASE P!ListSlots
  BY <1>3 DEF P!ListSlots, PageInv
<1>4. CASE P!PickSlot
  BY <1>4 DEF P!PickSlot, PageInv
<1>5. ASSUME NEW s \in Services, P!PickService(s)
      PROVE  PageInv'
  BY <1>5 DEF P!PickService, PageInv
<1>6. ASSUME NEW d \in Dates, P!PickDate(d)
      PROVE  PageInv'
  BY <1>6 DEF P!PickDate, PageInv
<1>7. ASSUME NEW k \in Clicks, P!Book(k)
      PROVE  PageInv'
  BY <1>7 DEF P!Book, PageInv
<1>8. ASSUME NEW k \in Clicks, P!Create(k)
      PROVE  PageInv'
  <2> DEFINE start == click[k].start
             until == P!BlockedUntil(click[k].service, start)
  <2>1. start \in Int /\ until \in Int
    <3>1. click[k].step # "idle"
      BY <1>8 DEF P!Create
    <3>2. start \in P!Starts(click[k].service, click[k].date)
      BY <3>1 DEF ClickInv, P!Available
    <3> QED
      BY <3>1, <3>2, StartsWithinDay DEF ClickInv
  <2>2. rows' \subseteq rows \cup {[start |-> start, until |-> until]}
    BY <1>8 DEF P!Create
  <2>3. rows' \subseteq [start: Int, until: Int]
    BY <2>1, <2>2 DEF PageInv
  <2> QED
    BY <1>8, <2>3 DEF P!Create, PageInv
<1>9. ASSUME NEW k \in Clicks, P!SalonClosed(k) \/ P!SlotLocked(k)
      PROVE  PageInv'
  BY <1>9 DEF P!SalonClosed, P!SlotLocked, PageInv
<1> QED
  BY <1>1, <1>2, <1>3, <1>4, <1>5, <1>6, <1>7, <1>8, <1>9 DEF ClientNext, P!PageNext, clientVars

\* A click that ends without a conflict keeps what it asks for.
LEMMA EndKeepsClick ==
  ASSUME ClickInv, NEW k \in Clicks, click[k].step # "idle",
         NEW step, step # "taken", click' = [click EXCEPT ![k].step = step]
  PROVE  ClickInv'
<1>1. DOMAIN click' = Clicks /\ \A j \in Clicks \ {k}: click'[j] = click[j]
  BY DEF ClickInv
<1>2. /\ DOMAIN click'[k] = {"step", "service", "date", "start", "seen", "met"}
      /\ click'[k].step = step
      /\ click'[k].service = click[k].service /\ click'[k].date = click[k].date
      /\ click'[k].start = click[k].start /\ click'[k].seen = click[k].seen
  BY DEF ClickInv
<1> QED
  BY <1>1, <1>2 DEF ClickInv

\* A click keeps what it asks for, and its conflict is with what it meets.
LEMMA ClickStep ==
  ASSUME PageInv, ClickInv, [ClientNext]_clientVars
  PROVE  ClickInv'
<1>1. CASE UNCHANGED click
  BY <1>1 DEF ClickInv
<1>2. ASSUME NEW k \in Clicks, P!Book(k)
      PROVE  ClickInv'
  BY <1>2 DEF P!Book, PageInv, ClickInv
<1>3. ASSUME NEW k \in Clicks, P!Create(k)
      PROVE  ClickInv'
  <2> DEFINE met == {r \in rows: P!Meets(r, click[k].start,
                                        P!BlockedUntil(click[k].service, click[k].start))}
  <2>1. CASE met = {} /\ click' = [click EXCEPT ![k].step = "booked"]
    BY <1>3, <2>1, EndKeepsClick DEF P!Create
  <2>2. CASE met # {} /\ click' = [click EXCEPT ![k].step = "taken", ![k].met = met]
    <3>1. met \subseteq [start: Int, until: Int]
      BY DEF PageInv
    <3>2. click[k].step # "idle"
      BY <1>3 DEF P!Create
    <3>3. click'[k] = [click[k] EXCEPT !.step = "taken", !.met = met]
      BY <2>2 DEF ClickInv
    <3>4. /\ DOMAIN click' = Clicks
          /\ \A j \in Clicks \ {k}: click'[j] = click[j]
      BY <2>2 DEF ClickInv
    <3>5. /\ DOMAIN click'[k] = {"step", "service", "date", "start", "seen", "met"}
          /\ click'[k].step = "taken" /\ click'[k].met = met
          /\ click'[k].service = click[k].service /\ click'[k].date = click[k].date
          /\ click'[k].start = click[k].start /\ click'[k].seen = click[k].seen
      BY <3>2, <3>3 DEF ClickInv
    <3>6. \A r \in met: P!Meets(r, click[k].start, P!BlockedUntil(click[k].service, click[k].start))
      OBVIOUS
    <3> HIDE DEF met
    <3> QED
      BY <2>2, <3>1, <3>2, <3>4, <3>5, <3>6 DEF ClickInv
  <2> QED
    BY <1>3, <2>1, <2>2 DEF P!Create
<1>4. ASSUME NEW k \in Clicks, P!SalonClosed(k)
      PROVE  ClickInv'
  BY <1>4, EndKeepsClick DEF P!SalonClosed
<1>5. ASSUME NEW k \in Clicks, P!SlotLocked(k)
      PROVE  ClickInv'
  BY <1>5, EndKeepsClick DEF P!SlotLocked
<1> QED
  BY <1>1, <1>2, <1>3, <1>4, <1>5
  DEF ClientNext, P!PageNext, P!SalonDecided, P!OtherLocks, P!LockGoes, P!OtherBooks, P!OtherCancels,
      P!ListSlots, P!PickSlot, P!PickService, P!PickDate, pageVars, clientVars

LEMMA PageInvariant == ClientSpec => [](PageInv /\ ClickInv)
<1>1. ClientInit => PageInv /\ ClickInv
  BY PageFacts DEF ClientInit, P!PageInit, PageInv, ClickInv
<1>2. PageInv /\ ClickInv /\ [ClientNext]_clientVars => (PageInv /\ ClickInv)'
  BY PageStep, ClickStep
<1> QED
  BY <1>1, <1>2, PTL DEF ClientSpec

\* Whatever is picked and picked again, what the page books begins on the grid of
\* its day and ends by closing, for any services and opening hours.
THEOREM BooksWithinHours == ClientSpec => []BookedWithinHours
<1>1. ClickInv => BookedWithinHours
  BY DEF ClickInv, BookedWithinHours, P!BookedWithinHours, P!Available
<1> QED
  BY <1>1, PageInvariant, PTL

\* What availability computes of a list and what create's conflict check asks of
\* the rows agree, whatever the lengths of services and days, the grid and the
\* bookings of others, but for what was booked since the list was read and for
\* bookings that begin on a later day. create's other refusals are not meant.
THEOREM OffersMeetNoConflict == ClientSpec => []ConflictOnlyIfTakenSince
<1>1. ClickInv => ConflictOnlyIfTakenSince
  <2> SUFFICES ASSUME ClickInv, NEW k \in Clicks, click[k].step = "taken",
                      click[k].met \subseteq click[k].seen
               PROVE  \E r \in click[k].met: r.start >= (click[k].date + 1) * Day
    BY DEF ConflictOnlyIfTakenSince, P!ConflictOnlyIfTakenSince
  <2> DEFINE s == click[k].service
             d == click[k].date
             t == click[k].start
  <2>1. s \in Services /\ d \in Dates /\ P!Available(click[k].seen, s, d, t)
    BY DEF ClickInv
  <2>2. t \in Int /\ P!BlockedUntil(s, t) \in Int /\ t >= d * Day
    BY <2>1, StartsWithinDay DEF P!Available
  <2>3. PICK r \in click[k].met: r \in [start: Int, until: Int] /\ P!Meets(r, t, P!BlockedUntil(s, t))
    BY DEF ClickInv
  <2>4. r \in click[k].seen
    BY <2>3
  <2>5. ~P!Meets(r, d * Day, (d + 1) * Day)
    BY <2>1, <2>3, <2>4 DEF P!Available, P!Existing
  <2>6. d * Day \in Int /\ (d + 1) * Day \in Int
    <3>1. d \in Nat /\ Day \in Nat
      <4>1. d \in Dates
        BY <2>1
      <4> HIDE DEF d
      <4> QED
        BY <4>1, PageFacts
    <3>2. ASSUME NEW i \in Nat, NEW j \in Nat
          PROVE  i * j \in Int /\ (i + 1) * j \in Int
      OBVIOUS
    <3> QED
      BY <3>1, <3>2
  <2>7. r.until > d * Day
    BY <2>2, <2>3, <2>6 DEF P!Meets
  <2>8. r.start >= (d + 1) * Day
    BY <2>3, <2>5, <2>6, <2>7 DEF P!Meets
  <2> QED
    BY <2>3, <2>8
<1> QED
  BY <1>1, PageInvariant, PTL
=============================================================================
