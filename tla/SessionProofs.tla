----------------------------- MODULE SessionProofs -----------------------------
(***************************************************************************)
(* Proofs about ProfileSession: for every lifetime, margin, latency and    *)
(* difference of clocks with TimingSuffices, and any number of requests,   *)
(* the session ends neither early nor with the wrong profile.              *)
(***************************************************************************)
EXTENDS ProfileSession, FiniteSetTheorems, TLAPS

(***************************************************************************)
(* A request in flight, and what the server promised in its answer.        *)
(***************************************************************************)
CallOK(c) ==
  /\ c \in [n : Nat, id : Profile, sent : Nat,
            status : {"sent", "granted", "refused"}, exp : Nat]
  /\ c.sent <= now /\ now - c.sent <= Latency
  /\ c.status = "granted" => c.exp >= c.sent + TTL

(***************************************************************************)
(* A pending re-mint is due Margin ticks before its session ends.          *)
(***************************************************************************)
TimerOK ==
  timer # NoTimer =>
    /\ stored # NoSession
    /\ timer.id = stored.id
    /\ timer.at = stored.exp - Margin

(***************************************************************************)
(* Without trouble, a session whose re-mint is not pending any more has a  *)
(* request under way that left the tick the re-mint was due.               *)
(***************************************************************************)
RemintOK ==
  stored # NoSession /\ ~troubled =>
    IF timer # NoTimer THEN Browser <= timer.at
    ELSE \E c \in calls : c.sent + skew = stored.exp - Margin

(***************************************************************************)
(* While requests do not cross, the one under way is for the last choice.  *)
(***************************************************************************)
ChoiceOK ==
  ~crossed /\ ~troubled =>
    /\ \A b, c \in calls : b = c
    /\ \A c \in calls : choice = c.id
    /\ calls = {} => IF choice = None THEN stored = NoSession
                     ELSE stored # NoSession /\ stored.id = choice

IInv ==
  /\ SessionTypeOK
  /\ asked \in Nat /\ troubled \in BOOLEAN /\ crossed \in BOOLEAN
  /\ \A c \in calls : CallOK(c)
  /\ TimerOK
  /\ RemintOK
  /\ ChoiceOK

LEMMA Timing ==
  /\ TTL \in Nat /\ Margin \in Nat /\ Latency \in Nat /\ Window \in Nat /\ Limit \in Nat
  /\ MaxNow \in Nat
  /\ skew \in Skews => skew \in Int
  /\ Latency < Margin
  /\ skew \in Skews => Latency - skew < Margin /\ Latency + skew + Margin < TTL
BY TimingType, TimingSuffices

LEMMA InvariantInit ==
  ASSUME Init
  PROVE  IInv
<1>1. now \in 0..MaxNow /\ skew \in Skews
  BY Timing DEF Init
<1>2. SessionTypeOK
  BY <1>1 DEF Init, SessionTypeOK
<1>. QED BY <1>2 DEF Init, IInv, TimerOK, RemintOK, ChoiceOK

(***************************************************************************)
(* The types the steps below rely on.                                      *)
(***************************************************************************)
LEMMA Types ==
  ASSUME IInv
  PROVE  /\ now \in 0..MaxNow /\ now \in Int /\ skew \in Skews /\ skew \in Int
         /\ Browser \in Int
         /\ stored # NoSession => stored \in [id : Profile, exp : Nat]
         /\ timer # NoTimer => timer \in [id : Profile, at : Int]
         /\ hits \in [count : Nat, resetAt : Nat]
BY Timing DEF IInv, SessionTypeOK, Browser

(***************************************************************************)
(* A token that arrives is minted again later than now, and Margin before  *)
(* its end.                                                                *)
(***************************************************************************)
LEMMA ArrivesEarly ==
  ASSUME IInv, NEW c \in calls, c.status = "granted",
         NEW s, s = [id |-> c.id, exp |-> c.exp]
  PROVE  /\ s \in [id : Profile, exp : Nat] /\ s # NoSession
         /\ Browser < s.exp - Margin
         /\ Remint(s) = [id |-> c.id, at |-> s.exp - Margin]
<1>1. CallOK(c)
  BY DEF IInv
<1>2. c.id \in Profile /\ c.exp \in Nat /\ c.sent \in Nat
  BY <1>1 DEF CallOK
<1>3. Browser < s.exp - Margin
  <2>1. c.exp >= c.sent + TTL /\ now - c.sent <= Latency
    BY <1>1 DEF CallOK
  <2>. QED BY <1>2, <2>1, Types, Timing DEF Browser
<1>4. Remint(s) = [id |-> c.id, at |-> s.exp - Margin]
  BY <1>2, <1>3, Types, Timing DEF Remint, Latest
<1>. QED BY <1>2, <1>3, <1>4, TimingType DEF NoSession

LEMMA SelectStep ==
  ASSUME IInv, NEW id \in Profile, Select(id)
  PROVE  IInv'
<1>. DEFINE new == [n |-> asked, id |-> id, sent |-> now, status |-> "sent", exp |-> 0]
<1>1. /\ calls' = calls \union {new} /\ asked' = asked + 1
      /\ choice' = id /\ crossed' = (crossed \/ calls # {})
      /\ UNCHANGED <<now, skew, stored, timer, hits, troubled>>
  BY DEF Select, CreateSession, server
<1>2. CallOK(new)
  BY Types, Timing DEF CallOK, IInv
<1>3. \A c \in calls' : CallOK(c)'
  BY <1>1, <1>2 DEF IInv, CallOK
<1>4. SessionTypeOK'
  BY <1>1, <1>3 DEF IInv, SessionTypeOK, CallOK
<1>5. TimerOK' /\ RemintOK'
  BY <1>1 DEF IInv, TimerOK, RemintOK, Browser
<1>6. ChoiceOK'
  <2>1. ~crossed' => calls' = {new}
    BY <1>1
  <2>2. new.id = id
    OBVIOUS
  <2>. HIDE DEF new
  <2>. QED BY <1>1, <2>1, <2>2 DEF ChoiceOK
<1>. QED BY <1>1, <1>3, <1>4, <1>5, <1>6 DEF IInv

LEMMA SignOutStep ==
  ASSUME IInv, SignOut
  PROVE  IInv'
<1>1. /\ stored' = NoSession /\ timer' = NoTimer
      /\ choice' = None /\ crossed' = (crossed \/ calls # {})
      /\ UNCHANGED <<now, skew, hits, calls, troubled, asked>>
  BY DEF SignOut, WriteSession, server
<1>2. SessionTypeOK' /\ TimerOK' /\ RemintOK' /\ ChoiceOK'
  BY <1>1 DEF IInv, SessionTypeOK, TimerOK, RemintOK, ChoiceOK
<1>. QED BY <1>1, <1>2 DEF IInv, CallOK

LEMMA TimerFiresStep ==
  ASSUME IInv, TimerFires
  PROVE  IInv'
<1>. DEFINE new == [n |-> asked, id |-> timer.id, sent |-> now, status |-> "sent", exp |-> 0]
<1>1. /\ timer # NoTimer /\ timer.at <= Browser /\ timer' = NoTimer
      /\ calls' = calls \union {new} /\ asked' = asked + 1
      /\ crossed' = (crossed \/ calls # {})
      /\ UNCHANGED <<now, skew, stored, choice, hits, troubled>>
  BY DEF TimerFires, CreateSession, server
<1>2. /\ timer \in [id : Profile, at : Int]
      /\ stored # NoSession /\ timer.id = stored.id /\ timer.at = stored.exp - Margin
  BY <1>1, Types DEF IInv, TimerOK
<1>3. CallOK(new)
  BY <1>2, Types, Timing DEF CallOK, IInv
<1>4. \A c \in calls' : CallOK(c)'
  BY <1>1, <1>3 DEF IInv, CallOK
<1>5. SessionTypeOK'
  BY <1>1, <1>4 DEF IInv, SessionTypeOK, CallOK
<1>6. ~troubled => new.sent + skew = stored.exp - Margin
  BY <1>1, <1>2, Types DEF IInv, RemintOK, Browser
<1>7. TimerOK' /\ RemintOK'
  BY <1>1, <1>6 DEF TimerOK, RemintOK
<1>8. ChoiceOK'
  <2>1. ASSUME ~crossed', ~troubled'
        PROVE  calls' = {new} /\ choice = timer.id
    BY <1>1, <1>2, <2>1 DEF IInv, ChoiceOK
  <2>2. new.id = timer.id
    OBVIOUS
  <2>. HIDE DEF new
  <2>. QED BY <1>1, <2>1, <2>2 DEF ChoiceOK
<1>. QED BY <1>1, <1>4, <1>5, <1>7, <1>8 DEF IInv

(***************************************************************************)
(* Until its re-mint is answered, an untroubled session has time left on   *)
(* both clocks.                                                            *)
(***************************************************************************)
LEMMA TimeLeft ==
  ASSUME IInv, stored # NoSession, ~troubled
  PROVE  stored.exp > now /\ stored.exp > Browser
<1>. stored.exp \in Nat
  BY Types
<1>1. CASE timer # NoTimer
  <2>1. Browser <= stored.exp - Margin
    BY <1>1 DEF IInv, TimerOK, RemintOK
  <2>. QED BY <2>1, Types, Timing DEF Browser
<1>2. CASE timer = NoTimer
  <2>1. PICK c \in calls : c.sent + skew = stored.exp - Margin
    BY <1>2 DEF IInv, RemintOK
  <2>2. c.sent \in Nat /\ now - c.sent <= Latency
    BY DEF IInv, CallOK
  <2>. QED BY <2>1, <2>2, Types, Timing DEF Browser
<1>. QED BY <1>1, <1>2

LEMMA NoticeExpiryStep ==
  ASSUME IInv, NoticeExpiry
  PROVE  IInv'
<1>1. /\ stored # NoSession /\ stored.exp <= Browser /\ timer' = NoTimer
      /\ UNCHANGED <<now, skew, stored, choice, crossed, hits, calls, troubled, asked>>
  BY DEF NoticeExpiry, server
<1>2. troubled
  BY <1>1, TimeLeft, Types
<1>3. SessionTypeOK' /\ TimerOK' /\ RemintOK' /\ ChoiceOK'
  BY <1>1, <1>2 DEF IInv, SessionTypeOK, TimerOK, RemintOK, ChoiceOK
<1>. QED BY <1>1, <1>3 DEF IInv, CallOK

LEMMA SignedInStep ==
  ASSUME IInv, NEW c \in calls, SignedIn(c)
  PROVE  IInv'
<1>. DEFINE s == [id |-> c.id, exp |-> c.exp]
<1>1. /\ c.status = "granted" /\ calls' = calls \ {c} /\ stored' = s
      /\ timer' = IF s = NoSession THEN NoTimer ELSE IF s = stored THEN timer ELSE Remint(s)
      /\ UNCHANGED <<now, skew, choice, crossed, hits, troubled, asked>>
  BY DEF SignedIn, WriteSession, server
<1>2. /\ s \in [id : Profile, exp : Nat] /\ s # NoSession
      /\ Browser < s.exp - Margin
      /\ Remint(s) = [id |-> c.id, at |-> s.exp - Margin]
  BY <1>1, ArrivesEarly
<1>3. s.id = c.id /\ s.exp = c.exp /\ CallOK(c)
  BY DEF IInv
<1>4. s.exp \in Nat /\ s.id \in Profile
  BY <1>2
<1>. HIDE DEF s
<1>5. Remint(s) \in [id : Profile, at : Int] /\ Remint(s) # NoTimer
      /\ Remint(s).id = s.id /\ Remint(s).at = s.exp - Margin
  BY <1>2, <1>3, <1>4, Timing, TimingType DEF NoTimer
<1>6. timer' = IF s = stored THEN timer ELSE Remint(s)
  BY <1>1, <1>2
<1>7. SessionTypeOK'
  BY <1>1, <1>2, <1>5, <1>6 DEF IInv, SessionTypeOK
<1>8. TimerOK'
  BY <1>1, <1>2, <1>5, <1>6 DEF IInv, TimerOK
<1>9. RemintOK'
  <2>1. CASE s = stored /\ timer = NoTimer /\ ~troubled
    <3>1. PICK b \in calls : b.sent + skew = s.exp - Margin
      BY <1>2, <2>1 DEF IInv, RemintOK
    <3>2. b # c
      <4>1. c.exp >= c.sent + TTL /\ c.sent \in Nat
        BY <1>1, <1>3 DEF CallOK
      <4>. QED BY <1>3, <1>4, <3>1, <4>1, Types, Timing
    <3>. QED BY <1>1, <1>6, <2>1, <3>1, <3>2 DEF RemintOK
  <2>2. CASE s = stored /\ timer # NoTimer /\ ~troubled
    BY <1>1, <1>6, <2>2 DEF IInv, RemintOK, Browser
  <2>3. CASE s # stored
    <3>1. timer' = Remint(s) /\ Browser' = Browser
      BY <1>1, <1>6, <2>3 DEF Browser
    <3>. QED BY <1>1, <1>2, <1>4, <1>5, <3>1, Types, Timing DEF RemintOK
  <2>4. CASE troubled
    BY <1>1, <2>4 DEF RemintOK
  <2>. QED BY <2>1, <2>2, <2>3, <2>4 DEF IInv
<1>10. ChoiceOK'
  <2>1. ~crossed /\ ~troubled => calls = {c} /\ choice = c.id
    BY DEF IInv, ChoiceOK
  <2>2. c.id # None
    BY <1>3, <1>4, TimingType
  <2>. QED BY <1>1, <1>2, <1>3, <2>1, <2>2 DEF ChoiceOK
<1>11. \A b \in calls' : CallOK(b)'
  BY <1>1 DEF IInv, CallOK
<1>. QED BY <1>1, <1>7, <1>8, <1>9, <1>10, <1>11 DEF IInv

LEMMA RefusedOrLostStep ==
  ASSUME IInv, NEW c \in calls, Refused(c) \/ Lost(c)
  PROVE  IInv'
<1>1. /\ calls' = calls \ {c} /\ troubled' = TRUE
      /\ UNCHANGED <<now, skew, stored, timer, choice, crossed, hits, asked>>
  BY DEF Refused, Lost, browser, server
<1>2. SessionTypeOK' /\ TimerOK' /\ RemintOK' /\ ChoiceOK'
  BY <1>1 DEF IInv, SessionTypeOK, TimerOK, RemintOK, ChoiceOK
<1>. QED BY <1>1, <1>2 DEF IInv, CallOK

LEMMA RateLimitType ==
  ASSUME IInv, RateLimit
  PROVE  hits' \in [count : Nat, resetAt : Nat]
<1>1. now + Window \in Nat
  BY Types, Timing
<1>. QED BY <1>1, Types DEF RateLimit, Counted

LEMMA HandleStep ==
  ASSUME IInv, NEW c \in calls, Handle(c)
  PROVE  IInv'
<1>. DEFINE answer == Outcome(c)
<1>1. /\ calls' = (calls \ {c}) \union {answer} /\ RateLimit
      /\ UNCHANGED <<now, skew, stored, timer, choice, crossed, troubled, asked>>
  BY DEF Handle, browser
<1>2. CallOK(c)
  BY DEF IInv
<1>3. CallOK(answer) /\ answer.sent = c.sent /\ answer.id = c.id
  <2>1. now + TTL \in Nat /\ now + TTL >= c.sent + TTL
    BY <1>2, Types, Timing DEF CallOK
  <2>2. /\ answer.n = c.n /\ answer.id = c.id /\ answer.sent = c.sent
        /\ \/ answer.status = "granted" /\ answer.exp = now + TTL
           \/ answer.status = "refused" /\ answer.exp = c.exp
        /\ answer \in [n : Nat, id : Profile, sent : Nat,
                       status : {"sent", "granted", "refused"}, exp : Nat]
    BY <1>2, <2>1 DEF CallOK, Outcome
  <2>. HIDE DEF answer
  <2>. QED BY <1>2, <2>1, <2>2 DEF CallOK
<1>. HIDE DEF answer
<1>4. \A b \in calls' : CallOK(b)'
  BY <1>1, <1>3 DEF IInv, CallOK
<1>5. SessionTypeOK'
  BY <1>1, <1>4, RateLimitType DEF IInv, SessionTypeOK, CallOK
<1>6. TimerOK'
  BY <1>1 DEF IInv, TimerOK
<1>7. RemintOK'
  BY <1>1, <1>3 DEF IInv, RemintOK, Browser
<1>8. ChoiceOK'
  <2>1. ~crossed /\ ~troubled => calls' = {answer} /\ choice = answer.id
    BY <1>1, <1>3 DEF IInv, ChoiceOK
  <2>. QED BY <1>1, <2>1 DEF ChoiceOK
<1>. QED BY <1>1, <1>4, <1>5, <1>6, <1>7, <1>8 DEF IInv

LEMMA ElsewhereStep ==
  ASSUME IInv, Elsewhere
  PROVE  IInv'
<1>1. /\ RateLimit
      /\ UNCHANGED <<now, skew, stored, timer, choice, crossed, calls, troubled, asked>>
  BY DEF Elsewhere, browser
<1>2. SessionTypeOK' /\ TimerOK' /\ RemintOK' /\ ChoiceOK'
  BY <1>1, RateLimitType DEF IInv, SessionTypeOK, TimerOK, RemintOK, ChoiceOK, Browser
<1>. QED BY <1>1, <1>2 DEF IInv, CallOK

LEMMA TickStep ==
  ASSUME IInv, Tick
  PROVE  IInv'
<1>1. /\ now < MaxNow /\ now' = now + 1
      /\ \A c \in calls : now - c.sent < Latency
      /\ timer # NoTimer => timer.at > Browser
      /\ UNCHANGED <<skew, stored, timer, choice, crossed, hits, calls, troubled, asked>>
  BY DEF Tick, browser, server
<1>2. \A c \in calls : CallOK(c)'
  <2>1. ASSUME NEW c \in calls
        PROVE  c.sent <= now' /\ now' - c.sent <= Latency
    <3>1. CallOK(c) /\ c.sent \in Nat
      BY DEF IInv, CallOK
    <3>. QED BY <1>1, <3>1, Types, Timing DEF CallOK
  <2>. QED BY <2>1 DEF IInv, CallOK
<1>3. SessionTypeOK'
  BY <1>1, <1>2, Types, Timing DEF IInv, SessionTypeOK, CallOK
<1>4. TimerOK' /\ ChoiceOK'
  BY <1>1 DEF IInv, TimerOK, ChoiceOK
<1>5. RemintOK'
  <2>1. timer # NoTimer => Browser' <= timer.at
    BY <1>1, Types DEF Browser
  <2>. QED BY <1>1, <2>1 DEF IInv, RemintOK
<1>. QED BY <1>1, <1>2, <1>3, <1>4, <1>5 DEF IInv

LEMMA OversleepStep ==
  ASSUME IInv, Oversleep
  PROVE  IInv'
<1>1. /\ calls = {} /\ troubled' = TRUE /\ now' \in (now + 1)..MaxNow
      /\ UNCHANGED <<skew, stored, timer, choice, crossed, hits, calls, asked>>
  BY DEF Oversleep, browser, server
<1>2. now' \in 0..MaxNow
  BY <1>1, Types, Timing
<1>3. SessionTypeOK' /\ TimerOK' /\ RemintOK' /\ ChoiceOK'
  BY <1>1, <1>2 DEF IInv, SessionTypeOK, TimerOK, RemintOK, ChoiceOK
<1>. QED BY <1>1, <1>3 DEF IInv

LEMMA InvariantStep ==
  ASSUME IInv, [Next]_vars
  PROVE  IInv'
<1>1. CASE UNCHANGED vars
  BY <1>1 DEF vars, browser, server, IInv, SessionTypeOK, TimerOK, RemintOK, ChoiceOK,
              CallOK, Browser
<1>. QED BY <1>1, SelectStep, SignOutStep, TimerFiresStep, NoticeExpiryStep, SignedInStep,
            RefusedOrLostStep, HandleStep, ElsewhereStep, TickStep, OversleepStep DEF Next

(***************************************************************************)
(* The inductive invariant.                                                *)
(***************************************************************************)
THEOREM SessionInvariant == Spec => []IInv
BY InvariantInit, InvariantStep, PTL DEF Spec

(***************************************************************************)
(* ProfileSession is type correct.                                         *)
(***************************************************************************)
THEOREM SessionTypeCorrect == Spec => []SessionTypeOK
BY SessionInvariant, PTL DEF IInv

(***************************************************************************)
(* Whatever the lifetime, the margin, the latency and the difference of    *)
(* the clocks, as long as TimingSuffices: a session that met no trouble is *)
(* valid on both clocks (useProfileSession.ts:49).                         *)
(***************************************************************************)
THEOREM MarginSuffices == Spec => []SessionKeepsWorking
<1>1. IInv => SessionKeepsWorking
  BY TimeLeft DEF SessionKeepsWorking
<1>. QED BY <1>1, SessionInvariant, PTL

(***************************************************************************)
(* Once nothing is under way the session is the one chosen last, provided  *)
(* no request crossed another.                                             *)
(***************************************************************************)
THEOREM ChoiceIsKept == Spec => []LastChoiceWins
<1>1. IInv => LastChoiceWins
  BY DEF IInv, ChoiceOK, LastChoiceWins
<1>. QED BY <1>1, SessionInvariant, PTL

-----------------------------------------------------------------------------
(***************************************************************************)
(* The rate limit.  The requests the current window admitted are the last  *)
(* ones of the log; the first of them opened it.                           *)
(***************************************************************************)
InWindow == IF hits.count < Limit THEN hits.count ELSE Limit
Opener == Len(granted) + 1 - InWindow

LogOK ==
  /\ granted \in Seq(Nat)
  /\ \A i \in 1..Len(granted) : granted[i] <= now
  /\ \A i, j \in 1..Len(granted) : i <= j => granted[i] <= granted[j]

(***************************************************************************)
(* A window opens at its first admission, and the one before it admitted   *)
(* at most Limit requests and had ended by then.                           *)
(***************************************************************************)
WindowOK ==
  /\ Len(granted) = 0 => hits.resetAt = 0
  /\ Len(granted) > 0 =>
       /\ hits.count > 0 /\ InWindow <= Len(granted)
       /\ hits.resetAt = granted[Opener] + Window
       /\ Opener > Limit => granted[Opener - Limit] + Window <= granted[Opener]

(***************************************************************************)
(* From any admission to the one 2 * Limit - 1 places later a window       *)
(* passes.                                                                 *)
(***************************************************************************)
SpacingOK ==
  \A i, j \in 1..Len(granted) :
    j = i + 2 * Limit - 1 => granted[i] + Window <= granted[j]

RateInv ==
  /\ IInv
  /\ LogOK
  /\ WindowOK
  /\ SpacingOK

LEMMA RateTypes ==
  ASSUME RateInv
  PROVE  /\ Len(granted) \in Nat /\ now \in Nat
         /\ Limit \in Nat /\ Limit > 0 /\ Window \in Nat
         /\ hits.count \in Nat /\ hits.resetAt \in Nat
         /\ \A i \in 1..Len(granted) : granted[i] \in Nat /\ granted[i] <= now
         /\ \A i, j \in 1..Len(granted) : i <= j => granted[i] <= granted[j]
<1>1. now \in Nat /\ hits \in [count : Nat, resetAt : Nat]
  BY Types DEF RateInv
<1>2. Limit \in Nat /\ Limit > 0 /\ Window \in Nat
  BY TimingType
<1>3. granted \in Seq(Nat)
  BY DEF RateInv, LogOK
<1>4. \A i \in 1..Len(granted) : granted[i] \in Nat
  BY <1>3
<1>. QED BY <1>1, <1>2, <1>3, <1>4 DEF RateInv, LogOK

(***************************************************************************)
(* A step is a request that reaches the limiter, or time may pass.         *)
(***************************************************************************)
LEMMA WhoAsks ==
  ASSUME IInv, [Next]_vars
  PROVE  \/ RateLimit /\ now' = now
         \/ UNCHANGED <<hits, granted>> /\ now <= now' /\ now' \in Nat
<1>. now \in Nat
  BY Types
<1>1. ASSUME \E id \in Profile : Select(id)
      PROVE  UNCHANGED <<hits, granted, now>>
  BY <1>1 DEF Select, server
<1>2. SignOut \/ TimerFires \/ NoticeExpiry => UNCHANGED <<hits, granted, now>>
  BY DEF SignOut, TimerFires, NoticeExpiry, server
<1>3. ASSUME NEW c \in calls, SignedIn(c) \/ Refused(c) \/ Lost(c)
      PROVE  UNCHANGED <<hits, granted, now>>
  BY <1>3 DEF SignedIn, Refused, Lost, server
<1>4. (\E c \in calls : Handle(c)) \/ Elsewhere => RateLimit /\ now' = now
  BY DEF Handle, Elsewhere
<1>5. Tick \/ Oversleep => UNCHANGED <<hits, granted>> /\ now <= now' /\ now' \in Nat
  BY Timing DEF Tick, Oversleep, server
<1>6. UNCHANGED vars => UNCHANGED <<hits, granted, now>>
  BY DEF vars, server
<1>. QED BY <1>1, <1>2, <1>3, <1>4, <1>5, <1>6 DEF Next

LEMMA LogStep ==
  ASSUME RateInv, RateLimit, now' = now
  PROVE  /\ LogOK'
         /\ ~Admitted => granted' = granted
         /\ Admitted => /\ Len(granted') = Len(granted) + 1
                        /\ granted'[Len(granted) + 1] = now
                        /\ \A i \in 1..Len(granted) : granted'[i] = granted[i]
<1>. /\ granted \in Seq(Nat) /\ Len(granted) \in Nat /\ now \in Nat
     /\ \A i \in 1..Len(granted) : granted[i] \in Nat /\ granted[i] <= now
     /\ \A i, j \in 1..Len(granted) : i <= j => granted[i] <= granted[j]
  BY Types DEF RateInv, LogOK
<1>1. CASE ~Admitted
  BY <1>1 DEF RateLimit, RateInv, LogOK
<1>2. CASE Admitted
  <2>1. granted' = Append(granted, now)
    BY <1>2 DEF RateLimit
  <2>2. /\ granted' \in Seq(Nat)
        /\ Len(granted') = Len(granted) + 1
        /\ granted'[Len(granted) + 1] = now
        /\ \A i \in 1..Len(granted) : granted'[i] = granted[i]
    BY <2>1
  <2>3. \A i \in 1..Len(granted') : i \in 1..Len(granted) \/ i = Len(granted) + 1
    BY <2>2
  <2>4. \A i \in 1..Len(granted') : granted'[i] \in Nat /\ granted'[i] <= now
    BY <2>2, <2>3
  <2>5. ASSUME NEW i \in 1..Len(granted'), NEW j \in 1..Len(granted'), i <= j
        PROVE  granted'[i] <= granted'[j]
    <3>1. CASE j = Len(granted) + 1
      BY <2>2, <2>4, <3>1
    <3>2. CASE j # Len(granted) + 1
      <4>1. i \in 1..Len(granted) /\ j \in 1..Len(granted)
        BY <2>2, <2>5, <3>2
      <4>. QED BY <2>2, <2>5, <4>1
    <3>. QED BY <3>1, <3>2
  <2>. QED BY <1>2, <2>2, <2>4, <2>5 DEF LogOK
<1>. QED BY <1>1, <1>2

(***************************************************************************)
(* The request that opens a window: the last one had opened, a whole       *)
(* Window ago, at most Limit admissions back.                              *)
(***************************************************************************)
LEMMA OpensWindow ==
  ASSUME RateInv, RateLimit, now' = now, Fresh
  PROVE  WindowOK' /\ SpacingOK'
<1>. DEFINE N == Len(granted)
<1>0. /\ N \in Nat /\ now \in Nat
      /\ Limit \in Nat /\ Limit > 0 /\ Window \in Nat
      /\ hits.count \in Nat /\ hits.resetAt \in Nat
      /\ \A i \in 1..N : granted[i] \in Nat /\ granted[i] <= now
      /\ \A i, j \in 1..N : i <= j => granted[i] <= granted[j]
  BY RateTypes
<1>1. /\ Len(granted') = N + 1 /\ granted'[N + 1] = now
      /\ \A i \in 1..N : granted'[i] = granted[i]
  BY LogStep DEF Admitted
<1>2. hits'.count = 1 /\ hits'.resetAt = now + Window
  BY DEF RateLimit, Counted
<1>3. InWindow' = 1 /\ Opener' = N + 1
  BY <1>0, <1>1, <1>2 DEF InWindow, Opener
<1>4. ASSUME NEW i \in 1..N, i <= N + 1 - Limit
      PROVE  granted[i] + Window <= now
  <2>1. N > 0
    OBVIOUS
  <2>2. Opener \in 1..N /\ i <= Opener /\ hits.resetAt = granted[Opener] + Window
    <3>1. /\ hits.count > 0 /\ InWindow <= N
          /\ hits.resetAt = granted[Opener] + Window
      BY <2>1 DEF RateInv, WindowOK
    <3>2. InWindow \in 1..Limit
      BY <1>0, <3>1 DEF InWindow
    <3>3. Opener = N + 1 - InWindow
      BY DEF Opener
    <3>. HIDE DEF N
    <3>4. Opener \in 1..N /\ i <= Opener
      BY <1>0, <1>4, <3>1, <3>2, <3>3
    <3>. QED BY <3>1, <3>4
  <2>3. granted[i] <= granted[Opener]
    BY <1>0, <2>2
  <2>. QED BY <1>0, <2>2, <2>3 DEF Fresh
<1>5. WindowOK'
  <2>1. ASSUME N + 1 > Limit
        PROVE  granted'[N + 1 - Limit] + Window <= now
    <3>1. N + 1 - Limit \in 1..N /\ N + 1 - Limit <= N + 1 - Limit
      BY <1>0, <2>1
    <3>. QED BY <1>1, <1>4, <3>1
  <2>2. /\ Len(granted') > 0 /\ ~(Len(granted') = 0) /\ hits'.count > 0
        /\ InWindow' <= Len(granted')
        /\ hits'.resetAt = granted'[Opener'] + Window
    BY <1>0, <1>1, <1>2, <1>3
  <2>3. Opener' > Limit => granted'[Opener' - Limit] + Window <= granted'[Opener']
    <3>1. Opener' - Limit = N + 1 - Limit
      BY <1>0, <1>3
    <3>2. granted'[Opener'] = now
      BY <1>1, <1>3
    <3>. QED BY <1>3, <2>1, <3>1, <3>2
  <2>. QED BY <2>2, <2>3 DEF WindowOK
<1>6. ASSUME NEW i \in 1..(N + 1), NEW j \in 1..(N + 1), j = i + 2 * Limit - 1
      PROVE  granted'[i] + Window <= granted'[j]
  <2>1. i \in 1..N /\ i < j
    BY <1>0, <1>6
  <2>2. CASE j = N + 1
    <3>1. i <= N + 1 - Limit
      BY <1>0, <1>6, <2>2
    <3>. QED BY <1>1, <1>4, <2>1, <2>2, <3>1
  <2>3. CASE j \in 1..N
    BY <1>1, <1>6, <2>1, <2>3 DEF RateInv, SpacingOK
  <2>. QED BY <2>2, <2>3
<1>. QED BY <1>1, <1>5, <1>6 DEF SpacingOK

(***************************************************************************)
(* A further admission of the window: what lies 2 * Limit - 1 places back  *)
(* is no later than the opener of the window before.                       *)
(***************************************************************************)
LEMMA StaysInWindow ==
  ASSUME RateInv, RateLimit, now' = now, ~Fresh, Admitted
  PROVE  WindowOK' /\ SpacingOK'
<1>. DEFINE N == Len(granted)
<1>0. /\ N \in Nat /\ now \in Nat
      /\ Limit \in Nat /\ Limit > 0 /\ Window \in Nat
      /\ hits.count \in Nat /\ hits.resetAt \in Nat
      /\ \A i \in 1..N : granted[i] \in Nat /\ granted[i] <= now
      /\ \A i, j \in 1..N : i <= j => granted[i] <= granted[j]
  BY RateTypes
<1>1. /\ Len(granted') = N + 1 /\ granted'[N + 1] = now
      /\ \A i \in 1..N : granted'[i] = granted[i]
  BY LogStep
<1>2. hits.count + 1 <= Limit /\ hits'.count = hits.count + 1 /\ hits'.resetAt = hits.resetAt
  BY Types DEF RateLimit, Counted, Admitted, RateInv
<1>3. N > 0
  BY <1>0 DEF RateInv, WindowOK, Fresh
<1>4. /\ hits.count > 0 /\ InWindow = hits.count /\ InWindow <= N
      /\ hits.resetAt = granted[Opener] + Window
      /\ Opener > Limit => granted[Opener - Limit] + Window <= granted[Opener]
  BY <1>0, <1>2, <1>3 DEF RateInv, WindowOK, InWindow
<1>5. /\ InWindow' = InWindow + 1 /\ Opener' = Opener /\ Opener = N + 1 - hits.count
      /\ Opener \in 1..N
  <2>1. InWindow' = hits.count + 1
    BY <1>0, <1>2 DEF InWindow
  <2>2. Opener' = N + 2 - (hits.count + 1) /\ Opener = N + 1 - hits.count
    <3>1. /\ Opener' = Len(granted') + 1 - (hits.count + 1)
          /\ Opener = N + 1 - hits.count
      BY <1>4, <2>1 DEF Opener
    <3>2. N \in Nat /\ hits.count \in Nat /\ Len(granted') = N + 1
      BY <1>0, <1>1
    <3>. HIDE DEF N, Opener
    <3>. QED BY <3>1, <3>2
  <2>3. Opener' = Opener
    BY <1>0, <2>2
  <2>4. Opener \in 1..N
    BY <1>0, <1>4, <2>2
  <2>. QED BY <1>4, <2>1, <2>2, <2>3, <2>4
<1>6. WindowOK'
  <2>1. Opener > Limit => granted'[Opener - Limit] + Window <= granted'[Opener]
    <3>1. Opener > Limit => Opener - Limit \in 1..N
      BY <1>0, <1>5
    <3>. QED BY <1>1, <1>4, <1>5, <3>1
  <2>2. /\ Len(granted') > 0 /\ ~(Len(granted') = 0) /\ hits'.count > 0
        /\ InWindow' <= Len(granted')
        /\ hits'.resetAt = granted'[Opener] + Window
    BY <1>0, <1>1, <1>2, <1>4, <1>5
  <2>3. /\ hits'.resetAt = granted'[Opener'] + Window
        /\ Opener' > Limit => granted'[Opener' - Limit] + Window <= granted'[Opener']
    BY <1>5, <2>1, <2>2
  <2>. QED BY <2>2, <2>3 DEF WindowOK
<1>7. ASSUME NEW i \in 1..(N + 1), NEW j \in 1..(N + 1), j = i + 2 * Limit - 1
      PROVE  granted'[i] + Window <= granted'[j]
  <2>1. i \in 1..N /\ i < j
    BY <1>0, <1>7
  <2>2. CASE j = N + 1
    <3>1. /\ i <= Opener - Limit /\ Opener > Limit
          /\ Opener - Limit \in 1..N
      <4>1. i = N + 2 - 2 * Limit
        BY <1>0, <1>7, <2>2
      <4>2. i <= Opener - Limit /\ Opener - Limit <= N
        BY <1>0, <1>2, <1>5, <4>1
      <4>3. i > 0 /\ i \in Int /\ Opener \in Int
        BY <1>5
      <4>. HIDE DEF N, Opener
      <4>. QED BY <1>0, <4>2, <4>3
    <3>2. granted[i] <= granted[Opener - Limit] /\ granted[Opener] <= now
      BY <1>0, <1>5, <2>1, <3>1
    <3>3. granted[i] \in Nat /\ granted[Opener] \in Nat /\ granted[Opener - Limit] \in Nat
      BY <1>0, <1>5, <2>1, <3>1
    <3>4. granted[Opener - Limit] + Window <= granted[Opener]
      BY <1>4, <3>1
    <3>5. granted[i] + Window <= now
      <4>1. now \in Nat /\ Window \in Nat
        BY <1>0
      <4>. QED BY <3>2, <3>3, <3>4, <4>1
    <3>. QED BY <1>1, <2>1, <2>2, <3>5
  <2>3. CASE j \in 1..N
    BY <1>1, <1>7, <2>1, <2>3 DEF RateInv, SpacingOK
  <2>. QED BY <2>2, <2>3
<1>. QED BY <1>1, <1>6, <1>7 DEF SpacingOK

LEMMA RateStep ==
  ASSUME RateInv, [Next]_vars
  PROVE  RateInv'
<1>1. IInv'
  BY InvariantStep DEF RateInv
<1>2. CASE RateLimit /\ now' = now /\ Admitted
  BY <1>1, <1>2, LogStep, OpensWindow, StaysInWindow DEF RateInv
<1>3. CASE RateLimit /\ now' = now /\ ~Admitted
  <2>1. granted' = granted /\ LogOK'
    BY <1>3, LogStep
  <2>2. ~Fresh /\ hits.count + 1 > Limit /\ hits.count \in Nat /\ hits.resetAt \in Nat
    BY <1>3, RateTypes DEF Admitted, Fresh
  <2>3. hits'.count = hits.count + 1 /\ hits'.resetAt = hits.resetAt
    BY <1>3, <2>2, Types DEF RateLimit, Counted, RateInv
  <2>4. InWindow' = InWindow
    BY <2>2, <2>3, TimingType DEF InWindow
  <2>5. Opener' = Opener
    BY <2>1, <2>4 DEF Opener
  <2>6. WindowOK'
    BY <2>1, <2>2, <2>3, <2>4, <2>5 DEF RateInv, WindowOK
  <2>. QED BY <1>1, <2>1, <2>6 DEF RateInv, SpacingOK
<1>4. CASE UNCHANGED <<hits, granted>> /\ now <= now' /\ now' \in Nat
  <2>1. LogOK'
    <3>1. ASSUME NEW i \in 1..Len(granted)
          PROVE  granted[i] <= now'
      BY <1>4, Types DEF RateInv, LogOK
    <3>. QED BY <1>4, <3>1 DEF RateInv, LogOK
  <2>2. WindowOK' /\ SpacingOK'
    BY <1>4 DEF RateInv, WindowOK, SpacingOK, InWindow, Opener
  <2>. QED BY <1>1, <2>1, <2>2 DEF RateInv
<1>. QED BY <1>2, <1>3, <1>4, WhoAsks DEF RateInv

(***************************************************************************)
(* The limiter's window and the log of what it admitted.                   *)
(***************************************************************************)
THEOREM RateInvariant == Spec => []RateInv
<1>1. Init => RateInv
  <2>1. ASSUME Init
        PROVE  LogOK /\ WindowOK /\ SpacingOK
    BY <2>1 DEF Init, LogOK, WindowOK, SpacingOK
  <2>. QED BY <2>1, InvariantInit DEF RateInv
<1>2. RateInv /\ [Next]_vars => RateInv'
  BY RateStep
<1>. QED BY <1>1, <1>2, PTL DEF Spec

(***************************************************************************)
(* Whatever the limit and the window, and however requests fall at the     *)
(* seam of two windows, the length of one admits fewer than 2 * Limit      *)
(* (createRateLimit, rateLimit.ts:4).                                      *)
(***************************************************************************)
THEOREM BurstsAreBounded == Spec => []BurstIsBounded
<1>1. RateInv => BurstIsBounded
  <2>. SUFFICES ASSUME RateInv, NEW i \in 1..Len(granted)
                PROVE  Admissions(i) <= 2 * Limit - 1
    BY DEF BurstIsBounded
  <2>. DEFINE burst == {j \in i..Len(granted) : granted[j] < granted[i] + Window}
              last == i + 2 * Limit - 2
  <2>. /\ Len(granted) \in Nat /\ Limit \in Nat /\ Limit > 0 /\ Window \in Nat /\ i \in Nat
       /\ last \in Int
       /\ \A j \in 1..Len(granted) : granted[j] \in Nat
       /\ \A j, k \in 1..Len(granted) : j <= k => granted[j] <= granted[k]
    BY RateTypes
  <2>1. ASSUME NEW j \in burst
        PROVE  j \in i..last
    <3>1. j \in i..Len(granted) /\ j \in 1..Len(granted) /\ granted[j] < granted[i] + Window
      OBVIOUS
    <3>2. CASE j > last
      <4>. DEFINE k == i + 2 * Limit - 1
      <4>1. k \in 1..Len(granted) /\ k <= j
        BY <3>1, <3>2
      <4>2. granted[i] + Window <= granted[k]
        BY <4>1 DEF RateInv, SpacingOK
      <4>3. granted[k] <= granted[j] /\ granted[k] \in Nat /\ granted[j] \in Nat /\ granted[i] \in Nat
        BY <3>1, <4>1
      <4>. HIDE DEF k
      <4>. QED BY <3>1, <4>2, <4>3
    <3>. QED BY <3>1, <3>2
  <2>2. IsFiniteSet(i..last) /\ Cardinality(i..last) = 2 * Limit - 1
    <3>1. i \in Int /\ last \in Int /\ ~(i > last) /\ last - i + 1 = 2 * Limit - 1
      OBVIOUS
    <3>. HIDE DEF last
    <3>. QED BY <3>1, FS_Interval
  <2>3. burst \in SUBSET (i..last)
    BY <2>1
  <2>. HIDE DEF burst
  <2>4. Cardinality(burst) <= 2 * Limit - 1
    BY <2>2, <2>3, FS_Subset
  <2>. QED BY <2>4 DEF Admissions, burst
<1>. QED BY <1>1, RateInvariant, PTL
=============================================================================
