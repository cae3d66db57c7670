-------------------------------- MODULE Throttle --------------------------------
(***************************************************************************)
(* llm/throttle.rs: one model's throttle.  A 429 pauses the model and      *)
(* halves the number of calls it may have in flight, a clean window of     *)
(* successes raises it by one, and a call waits for its permit in          *)
(* `acquire`: it registers with the Notify, looks under the lock, and      *)
(* sleeps until it is notified or the pause it saw ends.                   *)
(*                                                                         *)
(* Time is a clock of pause units; the provider's answers are external.    *)
(***************************************************************************)
EXTENDS Naturals, FiniteSets

CONSTANTS Callers,        \* concurrent calls to the model
          Ceiling,        \* ThrottleBounds::ceiling
          SuccessWindow,  \* success_window
          DefaultPause, MaxPause,  \* default_pause_ms and max_retry_after_ms, in clock units
          RetryAfters,    \* what a provider may ask for
          MaxTime, MaxWaves

ASSUME ThrottleAssumption ==
    /\ Ceiling \in Nat /\ SuccessWindow \in Nat /\ MaxPause \in Nat
    /\ IsFiniteSet(Callers)

VARIABLES model,   \* ModelState: until, waves, cap, flying, wins
          caller,  \* each call: [at, woken, timer]
          time

throttleVars == <<model, caller, time>>

Unpaused == 0
NoTimer  == 0
Larger(x, y)  == IF x > y THEN x ELSE y
Smaller(x, y) == IF x < y THEN x ELSE y

ThrottleInit ==
    /\ model = [until |-> Unpaused, waves |-> 0, cap |-> Larger(Ceiling, 1), flying |-> 0,
                wins |-> 0]
    /\ caller = [c \in Callers |-> [at |-> "idle", woken |-> FALSE, timer |-> NoTimer]]
    /\ time = 1

Paused == model.until > time

\* escalated_default: DefaultPause * 2^(wave - 1), the exponent and the product capped.
escalated_default(wave) ==
    Smaller(DefaultPause * 2 ^ Smaller(IF wave = 0 THEN 0 ELSE wave - 1, 20), MaxPause)

\* deferral_delay: how long an invocation the retry layer gave up on is put down.
delayAsAsked(asked) == IF asked = 0 THEN escalated_default(Larger(model.waves, 1)) ELSE asked
deferral_delay(asked) ==
    Larger(Larger(asked, escalated_default(Larger(model.waves, 1))),
           IF Paused THEN model.until - time ELSE 0)

--------------------------------------------------------------------------------
\* acquire.

\* One turn of acquire's loop: notified().enable(), so that no notification is
\* lost from here on; then the look, under the lock: a permit if the model is
\* not paused and has room.
Look(c) ==
    IF ~Paused /\ model.flying < model.cap
      THEN /\ model' = [model EXCEPT !.flying = @ + 1]
           /\ caller' = [caller EXCEPT ![c] = [at |-> "calling", woken |-> FALSE, timer |-> NoTimer]]
      ELSE /\ caller' = [caller EXCEPT ![c] = [at |-> "armed", woken |-> FALSE,
                                              timer |-> IF Paused THEN model.until ELSE NoTimer]]
           /\ UNCHANGED model

Ask(c) == caller[c].at = "idle" /\ Look(c) /\ UNCHANGED time

\* The select! is awaited.
Sleep(c) ==
    /\ caller[c].at = "armed"
    /\ caller' = [caller EXCEPT ![c].at = "asleep"]
    /\ UNCHANGED <<model, time>>

\* Notified, or the pause it saw is over: round the loop.
WakeCaller(c) ==
    /\ caller[c].at = "asleep"
    /\ caller[c].woken \/ (caller[c].timer # NoTimer /\ caller[c].timer <= time)
    /\ Look(c)
    /\ UNCHANGED time

--------------------------------------------------------------------------------
\* settle: the permit comes back and the verdict moves the model; everyone who
\* waits is notified.

LandedOnce(m) == [m EXCEPT !.flying = IF @ <= 1 THEN @ ELSE @ - 1]
Landed(m) == [m EXCEPT !.flying = IF @ = 0 THEN 0 ELSE @ - 1]

Succeeded(m) ==
    LET done == m.wins + 1 >= Larger(SuccessWindow, 1)
    IN  [m EXCEPT !.waves = 0,
                  !.wins = IF done THEN 0 ELSE m.wins + 1,
                  !.cap = IF done THEN Smaller(@ + 1, Larger(Ceiling, 1)) ELSE @]

\* One wave, one halving: a 429 that arrives while a pause is in force moves
\* neither.  asked = 0 stands for no Retry-After.
HalvedAlways(m, asked) ==
    [m EXCEPT !.waves = @ + 1, !.cap = Larger(@ \div 2, 1),
              !.until = Larger(@, time + (IF asked = 0 THEN escalated_default(m.waves + 1)
                                          ELSE asked)),
              !.wins = 0]
RateLimitedAnew(m, asked) ==
    LET fresh == ~Paused
        waves == IF fresh THEN m.waves + 1 ELSE m.waves
    IN  [m EXCEPT !.waves = waves,
                  !.cap = IF fresh THEN Larger(@ \div 2, 1) ELSE @,
                  !.until = time + (IF asked = 0 THEN escalated_default(waves) ELSE asked),
                  !.wins = 0]
RateLimited(m, asked) ==
    LET fresh == ~Paused
        waves == IF fresh THEN m.waves + 1 ELSE m.waves
    IN  [m EXCEPT !.waves = waves,
                  !.cap = IF fresh THEN Larger(@ \div 2, 1) ELSE @,
                  !.until = Larger(@, time + (IF asked = 0 THEN escalated_default(waves)
                                              ELSE asked)),
                  !.wins = 0]

Notify(c, ears) ==
    caller' = [d \in Callers |->
                 IF d = c THEN [caller[d] EXCEPT !.at = "idle"]
                 ELSE [caller[d] EXCEPT !.woken = @ \/ caller[d].at \in ears]]

SettleDeaf(c, verdict) ==
    caller[c].at = "calling" /\ model' = verdict /\ Notify(c, {"asleep"}) /\ UNCHANGED time
SettleCall(c, verdict) ==
    caller[c].at = "calling" /\ model' = verdict /\ Notify(c, {"armed", "asleep"}) /\ UNCHANGED time

CallSucceeds(c) == SettleCall(c, Succeeded(Landed(model)))
CallFails(c)    == SettleCall(c, Landed(model))  \* another error, or the call's future is dropped
CallLimited(c)  == /\ Paused \/ model.waves < MaxWaves
                   /\ \E asked \in RetryAfters : SettleCall(c, RateLimited(Landed(model), asked))

\* A waiting call's future may be dropped too; it holds no permit.
CallCancelled(c) ==
    /\ caller[c].at \in {"armed", "asleep"}
    /\ caller' = [caller EXCEPT ![c].at = "idle"]
    /\ UNCHANGED <<model, time>>

TimePasses ==
    /\ time < MaxTime
    /\ time' = time + 1
    /\ UNCHANGED <<model, caller>>

ThrottleNext ==
    \/ \E c \in Callers : Ask(c) \/ Sleep(c) \/ WakeCaller(c) \/ CallSucceeds(c) \/ CallFails(c)
                             \/ CallLimited(c) \/ CallCancelled(c)
    \/ TimePasses

ThrottleSpec == ThrottleInit /\ [][ThrottleNext]_throttleVars

--------------------------------------------------------------------------------
\* Properties.

\* No lost wakeup: a call that sleeps and has not been notified still has a
\* reason to.  Without a timer the model is full; with one, the pause it waits
\* out is the pause in force.
AsleepForCause ==
    \A c \in Callers :
        caller[c].at = "asleep" /\ ~caller[c].woken =>
            IF caller[c].timer = NoTimer THEN model.flying >= model.cap
            ELSE caller[c].timer = model.until

\* Permits are never lost or forged: the calls in flight are those at the
\* provider, and the cap stays between one and the ceiling, through every
\* order of verdicts, cancellations and waves.
PermitsTrue ==
    /\ model.flying = Cardinality({c \in Callers : caller[c].at = "calling"})
    /\ model.cap \in 1 .. Larger(Ceiling, 1)

\* However late and in whatever order the 429s of a wave are settled, the model
\* stays paused until the latest moment any of them asked for.
PauseOnlyExtends == [][model'.until >= model.until]_throttleVars

\* One wave, one halving: a burst of 429s that answers calls already out when
\* the pause began takes the cap down once.
OneHalvingPerWave ==
    [][model'.cap < model.cap => model'.waves = model.waves + 1 /\ ~Paused]_throttleVars

\* An invocation put down for a rate limit is never woken into the pause that
\* put it down, whichever of the three numbers was the largest.
DeferralOutlastsPause ==
    \A asked \in RetryAfters : time + deferral_delay(asked) >= model.until
================================================================================
