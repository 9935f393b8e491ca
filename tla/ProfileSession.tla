---------------------------- MODULE ProfileSession ----------------------------
(***************************************************************************)
(* A signed-in profile: the hook of the shell that mints a short-lived     *)
(* token and mints it again shortly before it expires (useProfileSession), *)
(* the store every federated bundle reads it from (session.ts), and the    *)
(* auth server with its limit on how many sessions one address may ask for *)
(* in a minute.  Time is counted in ticks on the server's clock; the       *)
(* browser's differs from it by skew.  A request takes at most Latency     *)
(* ticks unless it is lost.                                                *)
(***************************************************************************)
EXTENDS Integers, Sequences, FiniteSets

CONSTANTS
  Profile,       \* the identities that can be selected
  TTL,           \* ticks a token lives (ttlSeconds)
  Margin,        \* ticks before its end that it is minted again
  Window,        \* ticks a window of the rate limit lasts
  Limit,         \* requests admitted per window (sessionRateLimit)
  Latency,       \* bound: ticks between a request and its answer
  Skews,         \* the differences of the browser's clock
  MaxNow,        \* bound: ticks
  MaxPicks,      \* bound: times the user selects a profile or none
  MaxElsewhere,  \* bound: sessions other browsers ask for from the address
  MaxMishaps     \* bound: lost requests and timers that fire late

None == "none"
NoSession == [id |-> None, exp |-> 0]
NoTimer == [id |-> None, at |-> 0]

ASSUME TimingType ==
  /\ None \notin Profile
  /\ {TTL, Margin, Window, Limit, Latency, MaxNow, MaxPicks, MaxElsewhere,
      MaxMishaps} \subseteq Nat
  /\ Skews \subseteq Int
  /\ Limit > 0

\* What the constants of the deployment (900 s, 30 s) leave room for.
ASSUME TimingSuffices ==
  /\ Latency < Margin
  /\ \A s \in Skews : Latency - s < Margin /\ Latency + s + Margin < TTL

VARIABLES
  now,      \* the server's clock
  skew,     \* what the browser's clock is ahead
  stored,   \* the session in sessionStorage, [id, exp]
  timer,    \* the pending re-mint, [id, at]
  calls,    \* createSession requests under way
  hits,     \* the counter of the address, [count, resetAt]
  granted,  \* history: when each request of the address was admitted
  choice,   \* history: the profile last selected, or None
  crossed,  \* history: a choice or a re-mint was made during another request
  troubled, \* history: a request was lost or refused, a timer late
  picks, elsewhere, mishaps, asked

browser == <<stored, timer, choice, crossed, picks>>
server == <<hits, granted, elsewhere>>
vars == <<now, skew, browser, server, calls, troubled, mishaps, asked>>

Browser == now + skew

Init ==
  /\ now = 0
  /\ skew \in Skews
  /\ stored = NoSession
  /\ timer = NoTimer
  /\ calls = {}
  /\ hits = [count |-> 0, resetAt |-> 0]
  /\ granted = << >>
  /\ choice = None
  /\ crossed = FALSE
  /\ troubled = FALSE
  /\ picks = 0 /\ elsewhere = 0 /\ mishaps = 0 /\ asked = 0

-----------------------------------------------------------------------------
(* The browser. *)

Latest(a, b) == IF a > b THEN a ELSE b

(* Mutant: the token is minted again when it ends, not before. *)
RemintsAtTheEnd(session) ==
  [id |-> session.id, at |-> Latest(session.exp, Browser)]

Remint(session) ==
  [id |-> session.id, at |-> Latest(session.exp - Margin, Browser)]

\* writeSession and the effect that depends on the session's id and expiry.
WriteSession(session) ==
  /\ stored' = session
  /\ timer' = IF session = NoSession THEN NoTimer
              ELSE IF session = stored THEN timer
              ELSE Remint(session)

CreateSession(id) ==
  /\ asked' = asked + 1
  /\ calls' = calls \cup {[n |-> asked, id |-> id, sent |-> now,
                             status |-> "sent", exp |-> 0]}

Select(id) ==
  /\ picks < MaxPicks
  /\ picks' = picks + 1
  /\ choice' = id
  /\ crossed' = (crossed \/ calls # {})
  /\ CreateSession(id)
  /\ UNCHANGED <<now, skew, stored, timer, server, troubled, mishaps>>

(* Mutant: selecting nobody is sent to the server like a profile. *)
AsksForNobody ==
  /\ picks < MaxPicks
  /\ picks' = picks + 1
  /\ choice' = None
  /\ crossed' = (crossed \/ calls # {})
  /\ CreateSession(None)
  /\ UNCHANGED <<now, skew, stored, timer, server, troubled, mishaps>>

SignOut ==
  /\ picks < MaxPicks
  /\ picks' = picks + 1
  /\ choice' = None
  /\ crossed' = (crossed \/ calls # {})
  /\ WriteSession(NoSession)
  /\ UNCHANGED <<now, skew, server, calls, troubled, mishaps, asked>>

TimerFires ==
  /\ timer # NoTimer
  /\ timer.at <= Browser
  /\ timer' = NoTimer
  /\ crossed' = (crossed \/ calls # {})
  /\ CreateSession(timer.id)
  /\ UNCHANGED <<now, skew, stored, choice, picks, server, troubled, mishaps>>

\* A render after the token's end reads no session and cancels the timer.
NoticeExpiry ==
  /\ stored # NoSession /\ timer # NoTimer
  /\ stored.exp <= Browser
  /\ timer' = NoTimer
  /\ UNCHANGED <<now, skew, stored, choice, crossed, picks, server, calls, troubled,
                 mishaps, asked>>

(* Mutant: an answer is stored only when no session is there yet. *)
KeepsSession(c) ==
  /\ c \in calls /\ c.status = "granted"
  /\ calls' = calls \ {c}
  /\ IF stored = NoSession THEN WriteSession([id |-> c.id, exp |-> c.exp])
     ELSE UNCHANGED <<stored, timer>>
  /\ UNCHANGED <<now, skew, choice, crossed, picks, server, troubled, mishaps, asked>>

SignedIn(c) ==
  /\ c \in calls /\ c.status = "granted"
  /\ calls' = calls \ {c}
  /\ WriteSession([id |-> c.id, exp |-> c.exp])
  /\ UNCHANGED <<now, skew, choice, crossed, picks, server, troubled, mishaps, asked>>

\* An answer other than 200 leaves the session as it is and is not retried.
Refused(c) ==
  /\ c \in calls /\ c.status = "refused"
  /\ calls' = calls \ {c}
  /\ troubled' = TRUE
  /\ UNCHANGED <<now, skew, browser, server, mishaps, asked>>

Lost(c) ==
  /\ c \in calls
  /\ mishaps < MaxMishaps
  /\ mishaps' = mishaps + 1
  /\ troubled' = TRUE
  /\ calls' = calls \ {c}
  /\ UNCHANGED <<now, skew, browser, server, asked>>

-----------------------------------------------------------------------------
(* The server. *)

Fresh == hits.resetAt <= now

(* Mutant: only the request that opens a window is counted. *)
CountsOnce ==
  IF Fresh THEN [count |-> 1, resetAt |-> now + Window]
  ELSE hits

Counted ==
  IF Fresh THEN [count |-> 1, resetAt |-> now + Window]
  ELSE [hits EXCEPT !.count = @ + 1]

Admitted == Fresh \/ hits.count + 1 <= Limit

RateLimit ==
  /\ hits' = Counted
  /\ granted' = IF Admitted THEN Append(granted, now) ELSE granted

\* The code floors exp to a whole second, which is at most a second earlier:
\* less than a tick, and within the slack TimingSuffices leaves.
Outcome(c) ==
  IF Admitted THEN [c EXCEPT !.status = "granted", !.exp = now + TTL]
  ELSE [c EXCEPT !.status = "refused"]

Handle(c) ==
  /\ c \in calls /\ c.status = "sent"
  /\ RateLimit
  /\ calls' = (calls \ {c}) \cup {Outcome(c)}
  /\ UNCHANGED <<now, skew, browser, elsewhere, troubled, mishaps, asked>>

\* Another browser behind the same address.
Elsewhere ==
  /\ elsewhere < MaxElsewhere
  /\ elsewhere' = elsewhere + 1
  /\ RateLimit
  /\ UNCHANGED <<now, skew, browser, calls, troubled, mishaps, asked>>

-----------------------------------------------------------------------------
\* Requests are answered within Latency, timers fire when they are due.
Tick ==
  /\ now < MaxNow
  /\ \A c \in calls : now - c.sent < Latency
  /\ timer # NoTimer => timer.at > Browser
  /\ now' = now + 1
  /\ UNCHANGED <<skew, browser, server, calls, troubled, mishaps, asked>>

\* The tab sleeps for some time: a timer that is due does not fire.
Oversleep ==
  /\ calls = {}
  /\ timer # NoTimer /\ timer.at <= Browser
  /\ mishaps < MaxMishaps
  /\ mishaps' = mishaps + 1
  /\ troubled' = TRUE
  /\ now' \in (now + 1)..MaxNow
  /\ UNCHANGED <<skew, browser, server, calls, asked>>

Next ==
  \/ \E id \in Profile : Select(id)
  \/ SignOut
  \/ TimerFires
  \/ NoticeExpiry
  \/ \E c \in calls : SignedIn(c) \/ Refused(c) \/ Lost(c) \/ Handle(c)
  \/ Elsewhere
  \/ Tick
  \/ Oversleep

Spec == Init /\ [][Next]_vars

-----------------------------------------------------------------------------
(* Type correctness: at most one re-mint is pending, and a request ends at  *)
(* most Latency ticks after it was sent.                                    *)
SessionTypeOK ==
  /\ now \in 0..MaxNow /\ skew \in Skews
  /\ stored # NoSession => stored \in [id : Profile, exp : Nat]
  /\ timer # NoTimer => timer \in [id : Profile, at : Int]
  /\ \A c \in calls : /\ c.id \in Profile
                      /\ c.status \in {"sent", "granted", "refused"}
                      /\ now - c.sent <= Latency
  /\ hits \in [count : Nat, resetAt : Nat]

(* useProfileSession.ts:49: the session keeps working.  Unless a request   *)
(* was lost or refused or a timer overslept, the token in the store is     *)
(* one the browser still sends and the servers still accept, whatever the  *)
(* difference of their clocks.                                             *)
SessionKeepsWorking ==
  stored # NoSession /\ ~troubled => stored.exp > now /\ stored.exp > Browser

(* The session is the one the user chose last, once nothing is under way   *)
(* and provided no choice was made during a request, nor a re-mint sent    *)
(* during a sign-in: an answer is written to the store whatever was chosen *)
(* since its request.                                                      *)
LastChoiceWins ==
  calls = {} /\ ~crossed /\ ~troubled =>
    IF choice = None THEN stored = NoSession
    ELSE stored # NoSession /\ stored.id = choice

\* The requests admitted from the i-th on, in the Window ticks that it opens.
Admissions(i) ==
  Cardinality({j \in i..Len(granted) : granted[j] < granted[i] + Window})

(* Fixed windows let through more than Limit requests in the length of     *)
(* one, at the seam of two, and never twice as many.                       *)
BurstIsBounded == \A i \in 1..Len(granted) : Admissions(i) <= 2 * Limit - 1
=============================================================================
