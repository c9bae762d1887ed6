------------------------------ MODULE BurnRate ------------------------------
(***************************************************************************)
(* BurnRateAnalyzer (app/engine/burn_rate_analyzer.py): every cycle        *)
(* compares each service's mean error rate over a fast and a slow window   *)
(* with its error budget and fires a page or a ticket through the rate     *)
(* limit of WebhookAlerter.fire (app/alerter/webhook.py), which knows a    *)
(* service's burn rate as one key whatever the severity.                   *)
(***************************************************************************)
EXTENDS Integers, Sequences, FiniteSets, Selection

CONSTANTS
    BurnServices,   \* the services in the order of the feature store
    ErrorRates,     \* error rates of a minute
    Budget,         \* 1 - SLO_TARGET, in units of error rate
    Page, Ticket,   \* _PAGE_BURN_RATE, _TICKET_BURN_RATE
    Fast, Slow,     \* _FAST_WINDOW_MINUTES, _SLOW_WINDOW_MINUTES
    BurnInterval,   \* interval_seconds, in minutes
    BurnCooldown,   \* cooldown_seconds, in minutes
    MaxCycle,       \* the longest a cycle takes, in minutes
    NoPoint,        \* a minute without a point
    BurnMaxNow, BurnMaxLate   \* bounds: the clock, how late a minute closes

ASSUME BurnAssumption ==
    /\ ErrorRates \subseteq Nat
    /\ {Budget, Page, Ticket, Fast, Slow, BurnInterval, BurnCooldown, MaxCycle, BurnMaxNow,
           BurnMaxLate} \subseteq Nat
    /\ 0 < Ticket /\ Ticket <= Page /\ Fast <= Slow /\ NoPoint \notin ErrorRates
    /\ BurnServices \in Seq(ToSet(BurnServices))

VARIABLES
    burnNow,     \* the clock, in minutes
    rates,       \* each service's error rate by age in minutes, as long as a cycle reads or alerts of it
    waiting,     \* services the cycle has still to analyse
    prediction,  \* the severity found for its first one; "none" before
    burnWake,    \* when the sleep ends; meaningless while a cycle runs
    cycleStart,  \* when the cycle began
    fired,       \* when the limit last let an alert of each service pass
    sent,        \* history: the last alert of each service that was sent
    calmAt       \* history: when each service was last not burning

burnVars == <<burnNow, rates, waiting, prediction, burnWake, cycleStart, fired, sent, calmAt>>

BurnService == ToSet(BurnServices)
BurnNever == -1
Ages == 0 .. Slow + MaxCycle

-----------------------------------------------------------------------------

\* The ages of the points of a window.
Points(s, width) == {age \in 0 .. width : rates[s][age] # NoPoint}

SumOver(s, ages) == MapThenSumSet(LAMBDA age : rates[s][age], ages)

\* The window's mean burns the budget at least at this rate.
Burns(s, width, rate) ==
    LET ages == Points(s, width)
    IN  Cardinality(ages) >= 2 /\ SumOver(s, ages) >= rate * Budget * Cardinality(ages)

\* Mutant: the slow window is enough.
BurnsAtSlow(s, rate) == Budget > 0 /\ Burns(s, Slow, rate)

\* Both windows burn at the rate.
BurnsAt(s, rate) == Budget > 0 /\ Burns(s, Fast, rate) /\ Burns(s, Slow, rate)

\* Mutant: tickets are forgotten.
ComputePagesOnly(s) == IF BurnsAt(s, Page) THEN "critical" ELSE "none"

\* _compute_burn_rate.
ComputeBurnRate(s) ==
    IF BurnsAt(s, Page) THEN "critical"
    ELSE IF BurnsAt(s, Ticket) THEN "warn"
    ELSE "none"

BurnInit ==
    /\ burnNow = 0
    /\ rates = [s \in BurnService |-> [age \in Ages |-> NoPoint]]
    /\ waiting = << >>
    /\ prediction = "none"
    /\ burnWake = 0
    /\ cycleStart = 0
    /\ fired = [s \in BurnService |-> BurnNever]
    /\ sent = fired
    /\ calmAt = [s \in BurnService |-> 0]

\* The history variable after the windows changed.
Calm(s) == ~ BurnsAt(s, Ticket)

\* The feature store closes a minute of a service, a late span's at any age.
ClosePoint ==
    /\ \E s \in BurnService, age \in Ages \cap 0 .. BurnMaxLate, rate \in ErrorRates :
          /\ rates[s][age] = NoPoint
          /\ rates' = [rates EXCEPT ![s][age] = rate]
          /\ calmAt' = [calmAt EXCEPT ![s] = IF Calm(s) \/ Calm(s)' THEN burnNow ELSE @]
    /\ UNCHANGED <<burnNow, waiting, prediction, burnWake, cycleStart, fired, sent>>

\* The services with a point, in the store's order.
BurnServicesSeen == Select(BurnServices, {s \in BurnService : Points(s, Slow) # {}})

\* A cycle begins; without a service it ends at once.
BurnCycle ==
    /\ waiting = << >>
    /\ burnNow >= burnWake
    /\ waiting' = BurnServicesSeen
    /\ cycleStart' = burnNow
    /\ burnWake' = IF waiting' = << >> THEN burnNow + BurnInterval ELSE burnWake
    /\ UNCHANGED <<burnNow, rates, prediction, fired, sent, calmAt>>

\* The cycle goes on with the next service, or sleeps.
NextService ==
    /\ prediction' = "none"
    /\ waiting' = Tail(waiting)
    /\ burnWake' = IF waiting' = << >> THEN burnNow + BurnInterval ELSE burnWake

\* The executor computes the first service's burn rate; none goes to the next.
Compute ==
    /\ waiting # << >>
    /\ prediction = "none"
    /\ LET found == ComputeBurnRate(Head(waiting))
       IN  \/ /\ found = "none"
              /\ NextService
           \/ /\ found # "none"
              /\ prediction' = found
              /\ UNCHANGED <<waiting, burnWake>>
    /\ UNCHANGED <<burnNow, rates, cycleStart, fired, sent, calmAt>>

\* Whether the alerter drops an alert of the service.
CoolingDown(s) == fired[s] # BurnNever /\ burnNow - fired[s] < BurnCooldown

\* What the alerter then remembers: a dropped alert leaves it.
FiredAfter(s) == IF CoolingDown(s) THEN fired[s] ELSE burnNow

\* fire, whose deliveries the cycle then waits for.
Fire ==
    /\ prediction # "none"
    /\ LET s == Head(waiting)
       IN  /\ fired' = [fired EXCEPT ![s] = FiredAfter(s)]
           /\ sent' = [sent EXCEPT ![s] = IF CoolingDown(s) THEN @ ELSE burnNow]
    /\ NextService
    /\ UNCHANGED <<burnNow, rates, cycleStart, calmAt>>

\* A minute passes: the loop wakes on time and a cycle ends within MaxCycle.
BurnTick ==
    /\ burnNow < BurnMaxNow
    /\ IF waiting = << >> THEN burnNow < burnWake ELSE burnNow < cycleStart + MaxCycle
    /\ burnNow' = burnNow + 1
    /\ rates' = [s \in BurnService |->
                    [age \in Ages |-> IF age = 0 THEN NoPoint ELSE rates[s][age - 1]]]
    /\ calmAt' = [s \in BurnService |-> IF Calm(s) \/ Calm(s)' THEN burnNow' ELSE calmAt[s]]
    /\ UNCHANGED <<waiting, prediction, burnWake, cycleStart, fired, sent>>

BurnNext ==
    \/ ClosePoint
    \/ BurnCycle
    \/ Compute
    \/ Fire
    \/ BurnTick

BurnSpec == BurnInit /\ [][BurnNext]_burnVars

-----------------------------------------------------------------------------
(* Properties.                                                             *)

\* Every variable has the type of the state it models.
BurnTypeOK ==
    /\ burnNow \in 0 .. BurnMaxNow
    /\ rates \in [BurnService -> [Ages -> ErrorRates \cup {NoPoint}]]
    /\ ToSet(waiting) \subseteq BurnService
    /\ prediction \in {"none", "warn", "critical"}
    /\ waiting = << >> => prediction = "none"
    /\ burnWake \in Nat /\ cycleStart \in 0 .. burnNow
    /\ {fired, sent} \subseteq [BurnService -> {BurnNever} \cup (0 .. burnNow)]
    /\ calmAt \in [BurnService -> 0 .. burnNow]

\* The longest from a moment to the end of the next analysis of a service.
Round == BurnInterval + 2 * MaxCycle

\* A service that has been burning for a whole round without a break has had an
\* alert no longer ago than the cooldown and a round: the limit spaces alerts of
\* a lasting burn out but never stops them, however slow the deliveries make the
\* cycles within MaxCycle.
BurningKeepsAlerting ==
    \A s \in BurnService :
        burnNow - calmAt[s] > Round =>
            sent[s] # BurnNever /\ burnNow - sent[s] <= BurnCooldown + Round

\* An alert about to be fired is about errors of the fast window as it was when
\* the cycle began or later, however long the deliveries before it took: a
\* service that recovered is not alerted once those minutes have left it.
AlertsAreRecent ==
    prediction # "none" =>
        \E age \in 0 .. Fast + burnNow - cycleStart :
            rates[Head(waiting)][age] \notin {NoPoint, 0}
=============================================================================
