----------------------------- MODULE TablesProofs -----------------------------
(***************************************************************************)
(* Theorems about parts of Tables, for every value of the constants. Each  *)
(* is about the behaviours that follow the part.                           *)
(***************************************************************************)
EXTENDS Tables, FiniteSetTheorems, WellFoundedInduction, TLAPS

-----------------------------------------------------------------------------
(* A part moves by itself or rests.                                          *)
LEMMA OneMoves ==
  ASSUME [Next]_vars
  PROVE  /\ Reports!Next \/ UNCHANGED statusVars
         /\ Subs!Next \/ UNCHANGED subscriptionsVars
         /\ Engine!Next \/ UNCHANGED engineVars
         /\ Influx!Next \/ UNCHANGED influxVars
         /\ Map!Next \/ UNCHANGED mapVars
         /\ TSN!Next \/ UNCHANGED streamsVars
         /\ DB!Next \/ UNCHANGED databasesVars
         /\ Client!Next \/ UNCHANGED clientVars
         /\ Sh!Next \/ UNCHANGED shellsVars
         /\ (Order!Next /\ Twin!Next) \/ UNCHANGED orderVars
<1>1. CASE Next /\ ~UNCHANGED vars
  BY <1>1 DEF Next
<1>2. CASE UNCHANGED vars
  BY <1>2 DEF vars
<1>3. QED BY <1>1, <1>2

-----------------------------------------------------------------------------
(* Status, Health and WaitState. What is kept of the Atom is the contract's   *)
(* promise that a mounted Atom serves all it has registered. What is kept of  *)
(* a call is that one moment of it, whichever, accounts for what the call has *)
(* been told so far: the operators below take the call k, its moments M and   *)
(* the Atom a as it is now.                                                   *)
States == {"created", "mounted", "running", "stopped", "failed"}

AtomOK ==
  /\ state \in States /\ registry \subseteq Components /\ serving \subseteq registry
  /\ state \in {"mounted", "running"} => serving = registry
  /\ state \notin {"mounted", "running"} => serving = {}

StatusFrom(k, m) ==
  /\ m[1] = k.found /\ m[2] = DOMAIN k.report
  /\ m[1] \in {"mounted", "running"} => m[3] = DOMAIN k.report
  /\ m[3] = {c \in DOMAIN k.report : k.report[c] = "mounted"}

(* The verdicts a component can get from a moment's state.                    *)
VerdictFrom(found, c, answer) ==
  /\ found = "created" => answer = "skipped"
  /\ found \in {"stopped", "failed"} => answer = "bad"
  /\ found \in {"mounted", "running"} =>
       /\ c \in HealthCheckers => answer \in {"ok", "bad"}
       /\ c \notin HealthCheckers => answer = "skipped"

CheckedFrom(k, m) ==
  /\ m[1] = k.found /\ m[1] \in States
  /\ m[1] \in {"mounted", "running"} => m[3] = m[2]
  /\ \A c \in DOMAIN k.report : VerdictFrom(m[1], c, k.report[c])

Checking(k, M) ==
  /\ k = [phase |-> "checking", found |-> k.found, todo |-> k.todo, report |-> k.report]
  /\ \E m \in M : CheckedFrom(k, m) /\ m[2] = k.todo \cup DOMAIN k.report

HealthFrom(k, m) ==
  /\ CheckedFrom(k, m) /\ m[2] = DOMAIN k.report
  /\ k.unhealthy = {c \in DOMAIN k.report : k.report[c] = "bad"}

Waiting(k) == k = [phase |-> k.phase, target |-> k.target, over |-> k.over]

Accounted(k, M, a) ==
  /\ k.phase \in {"idle", "checking", "look", "sleep", "status", "health", "reached", "timedOut"}
  /\ k.phase = "idle" => M = {}
  /\ k.phase # "idle" => a \in M
  /\ k.phase = "status" => \E m \in M : StatusFrom(k, m)
  /\ k.phase = "checking" => Checking(k, M)
  /\ k.phase = "health" => \E m \in M : HealthFrom(k, m)
  /\ k.phase \in {"look", "sleep"} => Waiting(k)
  /\ k.phase \in {"sleep", "timedOut"} => \E m \in M : m[1] # k.target
  /\ k.phase = "reached" => \E m \in M : m[1] = k.target

CallsAccounted ==
  /\ DOMAIN statusCall = Observers /\ DOMAIN moments = Observers
  /\ \A o \in Observers : Accounted(statusCall[o], moments[o], Reports!atom)

ReportsInductive == AtomOK /\ CallsAccounted

LEMMA AtomInit == Reports!Contract!Init => AtomOK
BY DEF Reports!Contract!Init, AtomOK, States

LEMMA AtomStep ==
  ASSUME AtomOK, Reports!Contract!Next
  PROVE  AtomOK'
<1> USE DEF AtomOK, States
<1>1. ASSUME NEW c \in Components, Reports!Contract!Register(c)
      PROVE  AtomOK'
  BY <1>1 DEF Reports!Contract!Register
<1>2. ASSUME NEW c \in Components, Reports!Contract!Unregister(c)
      PROVE  AtomOK'
  BY <1>2 DEF Reports!Contract!Unregister
<1>3. CASE Reports!Contract!Mount
  BY <1>3 DEF Reports!Contract!Mount
<1>4. CASE Reports!Contract!Run
  BY <1>4 DEF Reports!Contract!Run
<1>5. CASE Reports!Contract!ComeDown
  BY <1>5 DEF Reports!Contract!ComeDown
<1>6. CASE Reports!Contract!Reset
  BY <1>6 DEF Reports!Contract!Reset
<1>7. QED BY <1>1, <1>2, <1>3, <1>4, <1>5, <1>6 DEF Reports!Contract!Next

(* What time does to a call: the Atom goes on, and it lives to see it.        *)
LEMMA Later ==
  ASSUME NEW k, NEW M, NEW a, NEW b, Accounted(k, M, a), k.phase # "idle"
  PROVE  Accounted(k, M \cup {b}, b)
BY DEF Accounted, Checking

LEMMA Rests ==
  ASSUME NEW k, NEW M, NEW a, NEW b, Accounted(k, M, a), k.phase = "idle"
  PROVE  Accounted(k, {}, b)
BY DEF Accounted

LEMMA AtomSteps ==
  ASSUME ReportsInductive, Reports!AtomSteps
  PROVE  ReportsInductive'
<1>1. AtomOK'
  BY AtomStep DEF ReportsInductive, Reports!AtomSteps
<1>2. statusCall' = statusCall /\ DOMAIN moments' = Observers
  BY DEF Reports!AtomSteps
<1>3. ASSUME NEW o \in Observers
      PROVE  Accounted(statusCall'[o], moments'[o], Reports!atom')
  <2>1. Accounted(statusCall[o], moments[o], Reports!atom)
    BY DEF ReportsInductive, CallsAccounted
  <2>2. CASE statusCall[o].phase = "idle"
    <3>1. moments'[o] = {}
      BY <2>2 DEF Reports!AtomSteps
    <3>2. QED BY <1>2, <2>1, <2>2, <3>1, Rests
  <2>3. CASE statusCall[o].phase # "idle"
    <3>1. moments'[o] = moments[o] \cup {Reports!atom'}
      BY <2>3 DEF Reports!AtomSteps
    <3>2. QED BY <1>2, <2>1, <2>3, <3>1, Later
  <2>4. QED BY <2>2, <2>3
<1>4. QED BY <1>1, <1>2, <1>3 DEF ReportsInductive, CallsAccounted

(* What a step of one observer leaves to show.                                *)
LEMMA Observed ==
  ASSUME ReportsInductive, NEW o \in Observers, UNCHANGED Reports!atom,
         NEW k, statusCall' = [statusCall EXCEPT ![o] = k],
         DOMAIN moments' = Observers, \A p \in Observers \ {o} : moments'[p] = moments[p],
         Accounted(k, moments'[o], Reports!atom)
  PROVE  ReportsInductive'
<1>1. AtomOK'
  BY DEF ReportsInductive, AtomOK, Reports!atom
<1>2. DOMAIN statusCall' = Observers /\ DOMAIN moments' = Observers
  BY DEF ReportsInductive, CallsAccounted
<1>3. ASSUME NEW p \in Observers
      PROVE  Accounted(statusCall'[p], moments'[p], Reports!atom')
  <2>1. Accounted(statusCall[p], moments[p], Reports!atom)
    BY DEF ReportsInductive, CallsAccounted
  <2>2. p # o => statusCall'[p] = statusCall[p] /\ moments'[p] = moments[p]
    BY DEF ReportsInductive, CallsAccounted
  <2>3. statusCall'[o] = k
    BY DEF ReportsInductive, CallsAccounted
  <2>4. Reports!atom' = Reports!atom
    OBVIOUS
  <2>5. QED BY <2>1, <2>2, <2>3, <2>4
<1>4. QED BY <1>1, <1>2, <1>3 DEF ReportsInductive, CallsAccounted

(* A call begins in the moment it asks, and goes on among those it has.       *)
LEMMA Asked ==
  ASSUME ReportsInductive, NEW o \in Observers, NEW query, Reports!Asks(o, query),
         Accounted(query, {Reports!atom}, Reports!atom)
  PROVE  ReportsInductive'
<1>1. moments'[o] = {Reports!atom} /\ DOMAIN moments' = Observers
        /\ \A p \in Observers \ {o} : moments'[p] = moments[p]
  BY DEF Reports!Asks, ReportsInductive, CallsAccounted
<1>2. QED BY <1>1, Observed DEF Reports!Asks

LEMMA Gone ==
  ASSUME ReportsInductive, NEW o \in Observers, NEW reached, Reports!Goes(o, reached),
         Accounted(reached, moments[o], Reports!atom)
  PROVE  ReportsInductive'
<1>1. moments' = moments /\ DOMAIN moments = Observers
  BY DEF Reports!Goes, ReportsInductive, CallsAccounted
<1>2. QED BY <1>1, Observed DEF Reports!Goes

LEMMA Inquires ==
  ASSUME ReportsInductive, NEW o \in Observers
  PROVE  /\ Reports!Status(o) => ReportsInductive'
         /\ Reports!HealthBegins(o) => ReportsInductive'
         /\ \A target \in States : Reports!WaitBegins(o, target) => ReportsInductive'
<1> USE DEF ReportsInductive, AtomOK, Reports!atom
<1>1. ASSUME Reports!Status(o)
      PROVE  ReportsInductive'
  <2> DEFINE report == [c \in registry |-> IF c \in serving THEN "mounted" ELSE "registered"]
             query == [phase |-> "status", found |-> state, report |-> report]
  <2>1. StatusFrom(query, Reports!atom)
    <3>1. {c \in DOMAIN report : report[c] = "mounted"} = serving
      OBVIOUS
    <3>2. QED BY <3>1 DEF StatusFrom
  <2>2. Accounted(query, {Reports!atom}, Reports!atom)
    BY <2>1 DEF Accounted
  <2>3. QED BY <1>1, <2>2, Asked DEF Reports!Status
<1>2. ASSUME Reports!HealthBegins(o)
      PROVE  ReportsInductive'
  <2> DEFINE query == [phase |-> "checking", found |-> state, todo |-> registry, report |-> <<>>]
  <2>1. DOMAIN query.report = {}
    OBVIOUS
  <2>2. CheckedFrom(query, Reports!atom) /\ Reports!atom[2] = query.todo \cup DOMAIN query.report
    BY <2>1 DEF CheckedFrom
  <2>3. Accounted(query, {Reports!atom}, Reports!atom)
    BY <2>2 DEF Accounted, Checking
  <2>4. QED BY <1>2, <2>3, Asked DEF Reports!HealthBegins
<1>3. ASSUME NEW target \in States, Reports!WaitBegins(o, target)
      PROVE  ReportsInductive'
  <2>1. Accounted([phase |-> "look", target |-> target, over |-> FALSE],
                  {Reports!atom}, Reports!atom)
    BY DEF Accounted, Waiting
  <2>2. QED BY <1>3, <2>1, Asked DEF Reports!WaitBegins
<1>4. QED BY <1>1, <1>2, <1>3

(* An answer is one the state the call found allows.                          *)
LEMMA AnswersAllowed ==
  ASSUME NEW o, NEW c, statusCall[o].found \in States, NEW answer \in Reports!Answers(o, c)
  PROVE  VerdictFrom(statusCall[o].found, c, answer)
BY DEF Reports!Answers, Reports!StateFor, VerdictFrom, States

(* What the steps of a call make of its record.                               *)
LEMMA CheckedRecord ==
  ASSUME NEW k, NEW t, NEW r, NEW next, next = [k EXCEPT !.todo = t, !.report = r],
         k = [phase |-> "checking", found |-> k.found, todo |-> k.todo, report |-> k.report]
  PROVE  next = [phase |-> "checking", found |-> k.found, todo |-> t, report |-> r]
<1>1. PICK found, waiting, report : found = k.found /\ waiting = k.todo /\ report = k.report
  OBVIOUS
<1>2. k = [phase |-> "checking", found |-> found, todo |-> waiting, report |-> report]
  BY <1>1
<1>3. next = [phase |-> "checking", found |-> found, todo |-> t, report |-> r]
  BY <1>2
<1>4. QED BY <1>1, <1>3

LEMMA WaitRecords ==
  ASSUME NEW k, NEW p, Waiting(k)
  PROVE  /\ [k EXCEPT !.over = p] = [phase |-> k.phase, target |-> k.target, over |-> p]
         /\ [k EXCEPT !.phase = p] = [phase |-> p, target |-> k.target, over |-> k.over]
BY DEF Waiting

LEMMA CheckComponent ==
  ASSUME ReportsInductive, NEW o \in Observers, Reports!CheckComponent(o)
  PROVE  ReportsInductive'
<1> DEFINE k == statusCall[o]
           report(c, answer) == [d \in DOMAIN k.report \cup {c} |->
                                   IF d = c THEN answer ELSE k.report[d]]
<1>1. PICK c \in k.todo : \E answer \in Reports!Answers(o, c) :
        Reports!Goes(o, [k EXCEPT !.todo = @ \ {c}, !.report = report(c, answer)])
  BY DEF Reports!CheckComponent
<1>2. PICK answer \in Reports!Answers(o, c) :
        Reports!Goes(o, [k EXCEPT !.todo = @ \ {c}, !.report = report(c, answer)])
  BY <1>1
<1>3. Checking(k, moments[o]) /\ Accounted(k, moments[o], Reports!atom)
  BY DEF Reports!CheckComponent, ReportsInductive, CallsAccounted, Accounted
<1>4. PICK m \in moments[o] : CheckedFrom(k, m) /\ m[2] = k.todo \cup DOMAIN k.report
  BY <1>3 DEF Checking
<1>5. PICK next : next = [phase |-> "checking", found |-> k.found, todo |-> k.todo \ {c},
                          report |-> report(c, answer)]
  OBVIOUS
<1>6. [k EXCEPT !.todo = @ \ {c}, !.report = report(c, answer)] = next
  <2> HIDE DEF report, k
  <2>1. k = [phase |-> "checking", found |-> k.found, todo |-> k.todo, report |-> k.report]
    BY <1>3 DEF Checking
  <2>2. PICK n : n = [k EXCEPT !.todo = @ \ {c}, !.report = report(c, answer)]
    OBVIOUS
  <2>3. n = [phase |-> "checking", found |-> k.found, todo |-> k.todo \ {c},
             report |-> report(c, answer)]
    BY <2>1, <2>2, CheckedRecord
  <2>4. QED BY <1>5, <2>2, <2>3
<1>7. VerdictFrom(k.found, c, answer)
  BY <1>4, AnswersAllowed DEF CheckedFrom
<1>8. \A d \in DOMAIN report(c, answer) : VerdictFrom(m[1], d, report(c, answer)[d])
  BY <1>4, <1>7 DEF CheckedFrom
<1>9. CheckedFrom(next, m) /\ m[2] = next.todo \cup DOMAIN next.report
  BY <1>4, <1>5, <1>8 DEF CheckedFrom
<1>10. Accounted(next, moments[o], Reports!atom)
  <2>1. Checking(next, moments[o])
    BY <1>5, <1>9 DEF Checking
  <2>2. next.phase = "checking" /\ Reports!atom \in moments[o]
    BY <1>3, <1>5 DEF Accounted, Checking
  <2>3. QED BY <2>1, <2>2 DEF Accounted
<1>11. QED BY <1>2, <1>6, <1>10, Gone

LEMMA HealthReturns ==
  ASSUME ReportsInductive, NEW o \in Observers, Reports!HealthReturns(o)
  PROVE  ReportsInductive'
<1> DEFINE k == statusCall[o]
           next == [phase |-> "health", found |-> k.found, report |-> k.report,
                    unhealthy |-> Reports!Bad(k.report)]
<1>1. k.phase = "checking" /\ k.todo = {} /\ Accounted(k, moments[o], Reports!atom)
  BY DEF Reports!HealthReturns, ReportsInductive, CallsAccounted
<1>2. PICK m \in moments[o] : CheckedFrom(k, m) /\ m[2] = DOMAIN k.report
  BY <1>1 DEF Accounted, Checking
<1>3. HealthFrom(next, m)
  BY <1>2 DEF HealthFrom, CheckedFrom, Reports!Bad
<1>4. Accounted(next, moments[o], Reports!atom)
  BY <1>1, <1>3 DEF Accounted
<1>5. QED BY <1>4, Gone DEF Reports!HealthReturns

LEMMA Waits ==
  ASSUME ReportsInductive, NEW o \in Observers
  PROVE  /\ Reports!ContextEnds(o) => ReportsInductive'
         /\ Reports!Looks(o) => ReportsInductive'
         /\ Reports!Ticks(o) => ReportsInductive'
         /\ Reports!WaitTimesOut(o) => ReportsInductive'
<1> DEFINE k == statusCall[o]
<1>1. Accounted(k, moments[o], Reports!atom)
  BY DEF ReportsInductive, CallsAccounted
<1>2. ASSUME Reports!ContextEnds(o)
      PROVE  ReportsInductive'
  <2>1. k.phase \in {"look", "sleep"} /\ Waiting(k)
    BY <1>1, <1>2 DEF Reports!ContextEnds, Accounted
  <2>2. [k EXCEPT !.over = TRUE] = [phase |-> k.phase, target |-> k.target, over |-> TRUE]
    BY <2>1, WaitRecords
  <2>3. Accounted([phase |-> k.phase, target |-> k.target, over |-> TRUE], moments[o], Reports!atom)
    BY <1>1, <2>1 DEF Accounted, Waiting
  <2>4. QED BY <1>2, <2>2, <2>3, Gone DEF Reports!ContextEnds
<1>3. ASSUME NEW phase, k.phase \in {"look", "sleep"}
      PROVE  [k EXCEPT !.phase = phase] = [phase |-> phase, target |-> k.target, over |-> k.over]
  <2>1. Waiting(k)
    BY <1>1, <1>3 DEF Accounted
  <2>2. QED BY <2>1, WaitRecords
<1>4. ASSUME Reports!Looks(o)
      PROVE  ReportsInductive'
  <2>1. k.phase = "look" /\ Reports!atom \in moments[o]
    BY <1>1, <1>4 DEF Reports!Looks, Accounted
  <2> DEFINE outcome == IF state = k.target THEN "reached" ELSE "sleep"
  <2>2. Reports!atom[1] = state
    BY DEF Reports!atom
  <2>3. Accounted([phase |-> outcome, target |-> k.target, over |-> k.over], moments[o], Reports!atom)
    BY <2>1, <2>2 DEF Accounted, Waiting
  <2>4. QED BY <1>3, <1>4, <2>1, <2>3, Gone DEF Reports!Looks
<1>5. ASSUME Reports!Ticks(o)
      PROVE  ReportsInductive'
  <2>1. k.phase = "sleep" /\ Reports!atom \in moments[o]
    BY <1>1, <1>5 DEF Reports!Ticks, Accounted
  <2>2. Accounted([phase |-> "look", target |-> k.target, over |-> k.over], moments[o], Reports!atom)
    BY <2>1 DEF Accounted, Waiting
  <2>3. QED BY <1>3, <1>5, <2>1, <2>2, Gone DEF Reports!Ticks
<1>6. ASSUME Reports!WaitTimesOut(o)
      PROVE  ReportsInductive'
  <2>1. k.phase = "sleep"
    BY <1>6 DEF Reports!WaitTimesOut, Reports!GivesUp
  <2>2. Accounted([phase |-> "timedOut", target |-> k.target, over |-> k.over], moments[o], Reports!atom)
    BY <1>1, <2>1 DEF Accounted
  <2>3. QED BY <1>3, <1>6, <2>1, <2>2, Gone DEF Reports!WaitTimesOut
<1>7. QED BY <1>2, <1>4, <1>5, <1>6

LEMMA Returns ==
  ASSUME ReportsInductive, NEW o \in Observers, Reports!Return(o)
  PROVE  ReportsInductive'
<1>1. moments'[o] = {} /\ DOMAIN moments' = Observers
        /\ \A p \in Observers \ {o} : moments'[p] = moments[p]
  BY DEF Reports!Return, ReportsInductive, CallsAccounted
<1>2. Accounted(Reports!Idle, {}, Reports!atom)
  BY DEF Accounted, Reports!Idle
<1>3. QED BY <1>1, <1>2, Observed DEF Reports!Return

LEMMA ReportsInit == Reports!Init => ReportsInductive
<1> SUFFICES ASSUME Reports!Init PROVE ReportsInductive
  OBVIOUS
<1>1. AtomOK
  BY AtomInit DEF Reports!Init
<1>2. CallsAccounted
  BY DEF Reports!Init, Reports!Idle, CallsAccounted, Accounted
<1>3. QED BY <1>1, <1>2 DEF ReportsInductive

LEMMA ReportsStep == ReportsInductive /\ [Reports!Next]_(Reports!vars) => ReportsInductive'
<1> SUFFICES ASSUME ReportsInductive, [Reports!Next]_(Reports!vars)
             PROVE  ReportsInductive'
  OBVIOUS
<1>1. CASE Reports!AtomSteps
  BY <1>1, AtomSteps
<1>2. ASSUME NEW o \in Observers, Reports!Observe(o)
      PROVE  ReportsInductive'
  BY <1>2, Inquires, CheckComponent, HealthReturns, Waits, Returns DEF Reports!Observe, States
<1>3. CASE UNCHANGED Reports!vars
  BY <1>3 DEF ReportsInductive, AtomOK, CallsAccounted, Reports!vars, Reports!atom
<1>4. QED BY <1>1, <1>2, <1>3 DEF Reports!Next

LEMMA ReportsSound == ReportsInductive => Reports!TypeOK /\ Reports!ReportsHonest
<1>1. ReportsInductive => Reports!TypeOK
  <2> SUFFICES ASSUME ReportsInductive PROVE Reports!TypeOK
    OBVIOUS
  <2>1. serving \subseteq registry /\ registry \subseteq Components
    BY DEF ReportsInductive, AtomOK
  <2>2. ASSUME NEW o \in Observers
        PROVE  /\ statusCall[o].phase \in {"idle", "checking", "look", "sleep"} \cup Reports!Returned
               /\ statusCall[o].phase = "idle" <=> moments[o] = {}
    <3>1. Accounted(statusCall[o], moments[o], Reports!atom)
      BY DEF ReportsInductive, CallsAccounted
    <3>2. QED BY <3>1 DEF Accounted, Reports!Returned
  <2>3. QED BY <2>1, <2>2 DEF Reports!TypeOK
<1>2. ReportsInductive => Reports!ReportsHonest
  <2> SUFFICES ASSUME ReportsInductive, NEW o \in Observers
               PROVE  Reports!ReportsOneMoment(o) /\ Reports!WaitHonest(o)
    BY DEF Reports!ReportsHonest
  <2>1. Accounted(statusCall[o], moments[o], Reports!atom)
    BY DEF ReportsInductive, CallsAccounted
  <2>2. Reports!WaitHonest(o)
    BY <2>1 DEF Accounted, Reports!WaitHonest
  <2>3. CASE statusCall[o].phase = "status"
    <3>1. \E m \in moments[o] : Reports!Tells(statusCall[o], m)
      BY <2>1, <2>3 DEF Accounted, StatusFrom, Reports!Tells
    <3>2. QED BY <2>2, <3>1 DEF Reports!ReportsOneMoment
  <2>4. CASE statusCall[o].phase = "health"
    <3> DEFINE k == statusCall[o]
    <3>1. PICK m \in moments[o] : HealthFrom(k, m)
      BY <2>1, <2>4 DEF Accounted
    <3>2. \A c \in DOMAIN k.report : VerdictFrom(m[1], c, k.report[c])
      BY <3>1 DEF HealthFrom, CheckedFrom
    <3>3. /\ m[1] = k.found /\ m[2] = DOMAIN k.report
          /\ m[1] \in {"mounted", "running"} => m[3] = DOMAIN k.report
          /\ m[1] \in States
      BY <3>1 DEF HealthFrom, CheckedFrom
    <3>4. k.unhealthy = {c \in DOMAIN k.report : k.report[c] \notin {"ok", "skipped"}}
      BY <3>1, <3>2, <3>3 DEF HealthFrom, VerdictFrom, States
    <3>5. /\ m[1] = "created" => k.unhealthy = {}
          /\ m[1] \in {"stopped", "failed"} => k.unhealthy = m[2]
      BY <3>1, <3>2, <3>3 DEF HealthFrom, VerdictFrom
    <3>6. m[1] \in {"mounted", "running"} =>
            \A c \in m[2] : c \in HealthCheckers <=> k.report[c] # "skipped"
      BY <3>2, <3>3 DEF VerdictFrom
    <3>7. Reports!Tells(k, m)
      BY <2>4, <3>3, <3>4, <3>5, <3>6 DEF Reports!Tells
    <3>8. QED BY <2>2, <3>7 DEF Reports!ReportsOneMoment
  <2>5. QED BY <2>2, <2>3, <2>4 DEF Reports!ReportsOneMoment
<1>3. QED BY <1>1, <1>2

(* Whatever an Atom that keeps its contract does meanwhile, for any number of *)
(* observers and components: Status and Health tell of one moment of their    *)
(* call, WaitState returns nil only for a state the Atom has been in, and     *)
(* gives up only when it has been in another.                                *)
THEOREM ReportsHonestHolds == Spec => []ReportsHonest
<1>1. Init => ReportsInductive
  BY ReportsInit DEF Init, Rest
<1>2. ReportsInductive /\ [Next]_vars => ReportsInductive'
  <2>1. [Next]_vars => [Reports!Next]_(Reports!vars)
    BY OneMoves DEF statusVars, Reports!vars, Reports!atom
  <2>2. QED BY <2>1, ReportsStep
<1>3. ReportsInductive => ReportsHonest
  BY ReportsSound DEF ReportsHonest
<1>4. QED BY <1>1, <1>2, <1>3, PTL DEF Spec

-----------------------------------------------------------------------------
(* The queues of MQTTAbility. Every open queue has one owner: the table Q     *)
(* under one topic, one call that has taken it out and not closed it yet      *)
(* (H), or Unmount (T); and what has an owner is open (O).                    *)
Placed(Q, q) == \E t \in Topics : Q[t] = q
Carried(H, q) == \E c \in Clients : q \in H[c]

OneOwner(Q, H, T) ==
  /\ \A t, u \in Topics : Q[t] = Q[u] /\ Q[t] # 0 => t = u
  /\ \A c \in Clients : \A q \in H[c] :
       q \notin T /\ ~Placed(Q, q) /\ \A d \in Clients \ {c} : q \notin H[d]
  /\ \A q \in T : ~Placed(Q, q)

AllOwned(Q, H, T, O) ==
  \A q : q \in O <=> (q # 0 /\ Placed(Q, q)) \/ Carried(H, q) \/ q \in T

Owned(Q, H, T, O) == 0 \notin O /\ OneOwner(Q, H, T) /\ AllOwned(Q, H, T, O)

LEMMA QueuePlaced ==
  ASSUME NEW Q, NEW H, NEW T, NEW O, Owned(Q, H, T, O),
         NEW n, n \notin O, n # 0, NEW t \in Topics, Q[t] = 0,
         NEW Q2, \A u \in Topics \ {t} : Q2[u] = Q[u], Q2[t] = n
  PROVE  Owned(Q2, H, T, O \cup {n})
BY DEF Owned, OneOwner, AllOwned, Placed, Carried

LEMMA QueueDropped ==
  ASSUME NEW Q, NEW H, NEW T, NEW O, Owned(Q, H, T, O), NEW t \in Topics,
         NEW Q2, \A u \in Topics \ {t} : Q2[u] = Q[u], Q2[t] = 0
  PROVE  Owned(Q2, H, T, O \ {Q[t]})
BY DEF Owned, OneOwner, AllOwned, Placed, Carried

LEMMA QueueTaken ==
  ASSUME NEW Q, NEW H, NEW T, NEW O, Owned(Q, H, T, O), NEW t \in Topics, Q[t] # 0,
         NEW Q2, \A u \in Topics \ {t} : Q2[u] = Q[u], Q2[t] = 0,
         NEW c \in Clients, H[c] = {},
         NEW H2, \A d \in Clients \ {c} : H2[d] = H[d], H2[c] = {Q[t]}
  PROVE  Owned(Q2, H2, T, O)
BY DEF Owned, OneOwner, AllOwned, Placed, Carried

LEMMA TableTaken ==
  ASSUME NEW Q, NEW H, NEW T, NEW O, Owned(Q, H, T, O),
         NEW Q2, \A u \in Topics : Q2[u] = 0,
         NEW c \in Clients, H[c] = {},
         NEW H2, \A d \in Clients \ {c} : H2[d] = H[d],
         H2[c] = {Q[t] : t \in Topics} \ {0}
  PROVE  Owned(Q2, H2, T, O)
BY DEF Owned, OneOwner, AllOwned, Placed, Carried

LEMMA CallCloses ==
  ASSUME NEW Q, NEW H, NEW T, NEW O, Owned(Q, H, T, O), NEW c \in Clients,
         NEW H2, \A d \in Clients \ {c} : H2[d] = H[d], H2[c] = {}
  PROVE  Owned(Q, H2, T, O \ H[c])
BY DEF Owned, OneOwner, AllOwned, Placed, Carried

LEMMA UnmountTakes ==
  ASSUME NEW Q, NEW H, NEW O, Owned(Q, H, {}, O),
         NEW Q2, \A u \in Topics : Q2[u] = 0
  PROVE  Owned(Q2, H, {Q[t] : t \in Topics} \ {0}, O)
BY DEF Owned, OneOwner, AllOwned, Placed, Carried

LEMMA UnmountClosesTaken ==
  ASSUME NEW Q, NEW H, NEW T, NEW O, Owned(Q, H, T, O)
  PROVE  Owned(Q, H, {}, O \ T)
BY DEF Owned, OneOwner, AllOwned, Placed, Carried

LEMMA OnlyTheTable ==
  ASSUME NEW Q, NEW H, NEW O, Owned(Q, H, {}, O), \A c \in Clients : H[c] = {}
  PROVE  O = {Q[t] : t \in Topics} \ {0}
BY DEF Owned, AllOwned, Placed, Carried

Carrying == {"wireUnsubscribe", "disconnect", "closeQueues"}
Addressing == {"wireSubscribe", "undo", "wireRestore"}

Places ==
  /\ \A c \in Clients : held[c] # {} => pc[c] \in Carrying
  /\ \A c \in Clients : pc[c] \in Addressing => topic[c] \in Topics
  /\ taken # {} => unmount = "close"
  /\ unmount # "before" => closing
  /\ unmount \notin {"before", "swap"} => \A t \in Topics : queues[t] = 0

QueuesOwned == Owned(queues, held, taken, open)

Books == Subs!TablesOK /\ Subs!CallsOK /\ QueuesOwned /\ Places

(* A step of one call that leaves the queues where they are.                  *)
LEMMA CallMoves ==
  ASSUME Books, NEW c \in Clients, UNCHANGED <<Subs!table, Subs!teardown, held>>,
         NEW p \in Subs!ClientPhases, pc' = [pc EXCEPT ![c] = p],
         Subs!CallsOK',
         \A d \in Clients \ {c} : topic'[d] = topic[d],
         held[c] # {} => p \in Carrying,
         p \in Addressing => topic'[c] \in Topics
  PROVE  Books'
<1>1. Subs!TablesOK' /\ QueuesOwned'
  BY DEF Books, Subs!TablesOK, QueuesOwned, Subs!table, Subs!teardown, Subs!Queues
<1>2. Places'
  BY DEF Books, Places, Subs!CallsOK, Subs!table, Subs!teardown
<1>3. QED BY <1>1, <1>2 DEF Books

(* A call that ends with nothing in its hands.                                *)
LEMMA CallFinishes ==
  ASSUME Books, NEW c \in Clients, Subs!Finish(c), held[c] = {}
  PROVE  /\ held' = held /\ Subs!CallsOK' /\ pc' = [pc EXCEPT ![c] = "idle"]
         /\ \A d \in Clients \ {c} : topic'[d] = topic[d]
BY DEF Subs!Finish, Subs!Goto, Books, Subs!CallsOK, Subs!ClientPhases

LEMMA CallReturns ==
  ASSUME Books, NEW c \in Clients, Subs!Finish(c), held[c] = {},
         UNCHANGED <<Subs!table, Subs!teardown>>
  PROVE  Books'
<1>1. UNCHANGED <<Subs!table, Subs!teardown, held>>
  BY CallFinishes
<1>2. QED BY <1>1, CallFinishes, CallMoves DEF Subs!ClientPhases, Addressing

LEMMA EmptyHanded ==
  ASSUME Books, NEW c \in Clients, pc[c] \notin Carrying
  PROVE  held[c] = {}
BY DEF Books, Places

LEMMA MovingSteps ==
  ASSUME Books, NEW c \in Clients
  PROVE  /\ Subs!SubscribeOnWire(c) => Books'
         /\ Subs!SubscribeSucceeds(c) => Books'
         /\ Subs!SubscribeCancelled(c) => Books'
         /\ Subs!Withdraw(c) => Books'
         /\ Subs!Connect(c) => Books'
         /\ Subs!ConnectOnWire(c) => Books'
         /\ Subs!SnapshotTopics(c) => Books'
         /\ \A t \in Topics : Subs!RestoreTopic(c, t) => Books'
         /\ Subs!RestoreOnWire(c) => Books'
         /\ Subs!ConnectReturns(c) => Books'
         /\ Subs!Disconnect(c) => Books'
         /\ Subs!DisconnectOnWire(c) => Books'
<1> USE DEF Subs!ClientPhases, Carrying, Addressing, Subs!Goto
<1>0. Subs!CallsOK
  BY DEF Books
<1>1. ASSUME Subs!SubscribeOnWire(c) PROVE Books'
  <2>1. PICK p \in {"recheck", "undo"} : pc' = [pc EXCEPT ![c] = p]
    BY <1>1 DEF Subs!SubscribeOnWire
  <2>2. pc[c] = "wireSubscribe" /\ UNCHANGED <<Subs!table, topic, todo, held, Subs!teardown>>
    BY <1>1 DEF Subs!SubscribeOnWire
  <2>3. Subs!CallsOK'
    BY <1>0, <2>1, <2>2 DEF Subs!CallsOK
  <2>4. held[c] = {} /\ topic[c] \in Topics
    BY <2>2, EmptyHanded DEF Books, Places
  <2>5. QED BY <2>1, <2>2, <2>3, <2>4, CallMoves
<1>2. ASSUME Subs!SubscribeSucceeds(c) PROVE Books'
  BY <1>2, EmptyHanded, CallReturns DEF Subs!SubscribeSucceeds
<1>3. ASSUME Subs!SubscribeCancelled(c) PROVE Books'
  <2>1. Subs!CallsOK' /\ held[c] = {}
    BY <1>0, <1>3, EmptyHanded DEF Subs!SubscribeCancelled, Subs!CallsOK
  <2>2. QED BY <1>3, <2>1, CallMoves DEF Subs!SubscribeCancelled
<1>4. ASSUME Subs!Withdraw(c) PROVE Books'
  BY <1>4, EmptyHanded, CallReturns DEF Subs!Withdraw
<1>5. ASSUME Subs!Connect(c) PROVE Books'
  <2>1. Subs!CallsOK' /\ held[c] = {}
    BY <1>0, <1>5, EmptyHanded DEF Subs!Connect, Subs!CallsOK
  <2>2. QED BY <1>5, <2>1, CallMoves DEF Subs!Connect
<1>6. ASSUME Subs!ConnectOnWire(c) PROVE Books'
  <2>1. held[c] = {} /\ UNCHANGED <<Subs!table, Subs!teardown>>
    BY <1>6, EmptyHanded DEF Subs!ConnectOnWire
  <2>2. CASE Subs!Finish(c)
    BY <2>1, <2>2, CallReturns
  <2>3. CASE Subs!Goto(c, "snapshot") /\ UNCHANGED <<topic, todo, held>>
    <3>1. Subs!CallsOK'
      BY <1>0, <2>3 DEF Subs!CallsOK
    <3>2. QED BY <2>1, <2>3, <3>1, CallMoves
  <2>4. QED BY <1>6, <2>2, <2>3 DEF Subs!ConnectOnWire
<1>7. ASSUME Subs!SnapshotTopics(c) PROVE Books'
  <2>1. Subs!CallsOK' /\ held[c] = {}
    BY <1>0, <1>7, EmptyHanded DEF Subs!SnapshotTopics, Subs!CallsOK
  <2>2. QED BY <1>7, <2>1, CallMoves DEF Subs!SnapshotTopics
<1>8. ASSUME NEW t \in Topics, Subs!RestoreTopic(c, t) PROVE Books'
  <2>1. /\ held[c] = {} /\ UNCHANGED <<Subs!table, Subs!teardown, held>>
        /\ pc[c] = "restore" /\ todo' = [todo EXCEPT ![c] = @ \ {t}]
    BY <1>8, EmptyHanded DEF Subs!RestoreTopic
  <2>2. CASE topic' = [topic EXCEPT ![c] = t] /\ pc' = [pc EXCEPT ![c] = "wireRestore"]
    <3>1. Subs!CallsOK' /\ topic'[c] = t
      BY <1>0, <2>1, <2>2 DEF Subs!CallsOK
    <3>2. QED BY <1>0, <2>1, <2>2, <3>1, CallMoves DEF Subs!CallsOK
  <2>3. CASE UNCHANGED <<topic, pc>>
    <3>1. Subs!CallsOK' /\ pc' = [pc EXCEPT ![c] = "restore"]
      BY <1>0, <2>1, <2>3 DEF Subs!CallsOK
    <3>2. QED BY <2>1, <2>3, <3>1, CallMoves
  <2>4. QED BY <1>8, <2>2, <2>3 DEF Subs!RestoreTopic
<1>9. ASSUME Subs!RestoreOnWire(c) PROVE Books'
  <2>1. Subs!CallsOK' /\ held[c] = {}
    BY <1>0, <1>9, EmptyHanded DEF Subs!RestoreOnWire, Subs!CallsOK
  <2>2. QED BY <1>9, <2>1, CallMoves DEF Subs!RestoreOnWire
<1>10. ASSUME Subs!ConnectReturns(c) PROVE Books'
  BY <1>10, EmptyHanded, CallReturns DEF Subs!ConnectReturns
<1>11. ASSUME Subs!Disconnect(c) PROVE Books'
  <2>1. Subs!CallsOK' /\ held[c] = {}
    BY <1>0, <1>11, EmptyHanded DEF Subs!Disconnect, Subs!CallsOK
  <2>2. QED BY <1>11, <2>1, CallMoves DEF Subs!Disconnect
<1>12. ASSUME Subs!DisconnectOnWire(c) PROVE Books'
  <2>1. Subs!CallsOK'
    BY <1>0, <1>12 DEF Subs!DisconnectOnWire, Subs!CallsOK
  <2>2. QED BY <1>12, <2>1, CallMoves DEF Subs!DisconnectOnWire
<1>13. QED BY <1>1, <1>2, <1>3, <1>4, <1>5, <1>6, <1>7, <1>8, <1>9, <1>10, <1>11, <1>12

(* The steps that open, take out or close a queue.                            *)
LEMMA TableSteps ==
  ASSUME Subs!TableAssumption, Books, NEW c \in Clients
  PROVE  /\ \A t \in Topics : Subs!Subscribe(c, t) => Books'
         /\ Subs!SubscribeFails(c) => Books'
         /\ \A t \in Topics : Subs!Unsubscribe(c, t) => Books'
         /\ Subs!UnsubscribeOnWire(c) => Books'
         /\ Subs!DisconnectSwap(c) => Books'
         /\ Subs!DisconnectCloses(c) => Books'
<1> USE DEF Subs!ClientPhases, Carrying, Addressing, Subs!Goto
<1>0. Subs!TablesOK /\ Subs!CallsOK /\ QueuesOwned /\ Places /\ MaxQueues \in Nat
  BY DEF Books, Subs!TableAssumption
<1>1. ASSUME NEW t \in Topics, Subs!Subscribe(c, t) PROVE Books'
  <2>1. /\ pc[c] = "idle" /\ ~closing /\ queues[t] = 0 /\ created < MaxQueues
        /\ created' = created + 1 /\ queues' = [queues EXCEPT ![t] = created']
        /\ open' = open \cup {created'} /\ topic' = [topic EXCEPT ![c] = t]
        /\ pc' = [pc EXCEPT ![c] = "wireSubscribe"]
        /\ UNCHANGED <<closing, todo, held, taken, unmount>>
    BY <1>1 DEF Subs!Subscribe, Subs!MayPlace, Subs!teardown
  <2>2. Subs!TablesOK'
    BY <1>0, <2>1 DEF Subs!TablesOK
  <2>3. Subs!CallsOK'
    BY <1>0, <2>1 DEF Subs!CallsOK
  <2>4. QueuesOwned'
    <3>1. /\ created' \notin open /\ created' # 0 /\ queues'[t] = created'
          /\ \A u \in Topics \ {t} : queues'[u] = queues[u]
      BY <1>0, <2>1 DEF Subs!TablesOK
    <3>2. PICK n : n = created'
      OBVIOUS
    <3>3. Owned(queues', held, taken, open \cup {n})
      <4>1. queues[t] = 0 /\ Owned(queues, held, taken, open)
        BY <1>0, <2>1 DEF QueuesOwned
      <4>2. /\ t \in Topics /\ n \notin open /\ n # 0 /\ queues'[t] = n
            /\ \A u \in Topics \ {t} : queues'[u] = queues[u]
        BY <1>1, <3>1, <3>2
      <4>3. QED BY ONLY <4>1, <4>2, QueuePlaced
    <3>4. QED BY <2>1, <3>2, <3>3 DEF QueuesOwned
  <2>5. Places'
    <3>1. unmount = "before" /\ taken = {}
      BY <1>0, <2>1 DEF Places
    <3>2. held[c] = {}
      BY <2>1, EmptyHanded
    <3>3. QED BY <1>0, <2>1, <3>1, <3>2 DEF Places, Subs!CallsOK
  <2>6. QED BY <2>2, <2>3, <2>4, <2>5 DEF Books
<1>2. ASSUME Subs!SubscribeFails(c) PROVE Books'
  <2>1. /\ pc[c] = "undo" /\ queues' = [queues EXCEPT ![topic[c]] = 0]
        /\ open' = open \ {queues[topic[c]]} /\ Subs!Finish(c)
        /\ UNCHANGED <<closing, created, taken, unmount>>
    BY <1>2 DEF Subs!SubscribeFails, Subs!CloseQueue, Subs!teardown
  <2>2. topic[c] \in Topics /\ held[c] = {}
    BY <1>0, <2>1, EmptyHanded DEF Places
  <2>3. /\ held' = held /\ Subs!CallsOK' /\ pc' = [pc EXCEPT ![c] = "idle"]
        /\ \A d \in Clients \ {c} : topic'[d] = topic[d]
    BY <2>1, <2>2, CallFinishes
  <2>4. Subs!TablesOK'
    <3>1. 0 \in 0 .. created /\ queues \in [Topics -> 0 .. created]
      BY <1>0 DEF Subs!TablesOK
    <3>2. queues' \in [Topics -> 0 .. created]
      BY <2>1, <3>1
    <3>3. QED BY <1>0, <2>1, <3>2 DEF Subs!TablesOK
  <2>5. QueuesOwned'
    <3>1. \A u \in Topics \ {topic[c]} : queues'[u] = queues[u]
      BY <1>0, <2>1, <2>2 DEF Subs!TablesOK
    <3>2. queues'[topic[c]] = 0
      BY <1>0, <2>1, <2>2 DEF Subs!TablesOK
    <3>3. Owned(queues', held, taken, open \ {queues[topic[c]]})
      BY <1>0, <2>2, <3>1, <3>2, QueueDropped DEF QueuesOwned
    <3>4. QED BY <2>1, <2>3, <3>3 DEF QueuesOwned
  <2>6. Places'
    BY <1>0, <2>1, <2>2, <2>3 DEF Places, Subs!CallsOK, Subs!TablesOK
  <2>7. QED BY <2>3, <2>4, <2>5, <2>6 DEF Books
<1>3. ASSUME NEW t \in Topics, Subs!Unsubscribe(c, t) PROVE Books'
  <2>1. /\ pc[c] = "idle" /\ queues[t] # 0 /\ queues' = [queues EXCEPT ![t] = 0]
        /\ topic' = [topic EXCEPT ![c] = t] /\ held' = [held EXCEPT ![c] = {queues[t]}]
        /\ pc' = [pc EXCEPT ![c] = "wireUnsubscribe"]
        /\ UNCHANGED <<closing, created, open, todo, taken, unmount>>
    BY <1>3 DEF Subs!Unsubscribe, Subs!teardown
  <2>2. held[c] = {}
    BY <2>1, EmptyHanded
  <2>3. Subs!TablesOK'
    BY <1>0, <2>1 DEF Subs!TablesOK
  <2>4. Subs!CallsOK'
    <3>1. queues[t] \in Subs!Queues
      BY <1>0, <2>1 DEF Subs!TablesOK, Subs!Queues
    <3>2. QED BY <1>0, <2>1, <3>1 DEF Subs!CallsOK
  <2>5. QueuesOwned'
    <3>1. (\A u \in Topics \ {t} : queues'[u] = queues[u]) /\ queues'[t] = 0
      BY <1>0, <2>1 DEF Subs!TablesOK
    <3>2. (\A d \in Clients \ {c} : held'[d] = held[d]) /\ held'[c] = {queues[t]}
      BY <1>0, <2>1 DEF Subs!CallsOK
    <3>3. Owned(queues', held', taken, open)
      <4>1. queues[t] # 0 /\ Owned(queues, held, taken, open)
        BY <1>0, <2>1 DEF QueuesOwned
      <4>2. QED BY <2>2, <3>1, <3>2, <4>1, QueueTaken
    <3>4. QED BY <2>1, <3>3 DEF QueuesOwned
  <2>6. Places'
    BY <1>0, <2>1, <2>2 DEF Places, Subs!CallsOK, Subs!TablesOK
  <2>7. QED BY <2>3, <2>4, <2>5, <2>6 DEF Books
<1>4. ASSUME open' = open \ held[c], Subs!Finish(c), UNCHANGED <<closing, queues, created, taken, unmount>>
      PROVE  Books'
  <2>1. /\ pc' = [pc EXCEPT ![c] = "idle"] /\ held' = [held EXCEPT ![c] = {}]
        /\ topic' = [topic EXCEPT ![c] = Subs!NoTopic] /\ todo' = [todo EXCEPT ![c] = {}]
    BY <1>4 DEF Subs!Finish
  <2>2. Subs!TablesOK' /\ Subs!CallsOK'
    BY <1>0, <1>4, <2>1 DEF Subs!TablesOK, Subs!CallsOK
  <2>3. (\A d \in Clients \ {c} : held'[d] = held[d]) /\ held'[c] = {}
    BY <1>0, <2>1 DEF Subs!CallsOK
  <2>4. Owned(queues, held', taken, open \ held[c])
    BY <1>0, <2>3, CallCloses DEF QueuesOwned
  <2>5. QueuesOwned'
    BY <1>4, <2>4 DEF QueuesOwned
  <2>6. Places'
    BY <1>0, <1>4, <2>1, <2>3 DEF Places, Subs!CallsOK
  <2>7. QED BY <2>2, <2>5, <2>6 DEF Books
<1>5. Subs!UnsubscribeOnWire(c) => Books'
  BY <1>4 DEF Subs!UnsubscribeOnWire, Subs!teardown
<1>6. Subs!DisconnectCloses(c) => Books'
  BY <1>4 DEF Subs!DisconnectCloses, Subs!teardown
<1>7. ASSUME Subs!DisconnectSwap(c) PROVE Books'
  <2>1. /\ pc[c] = "swap" /\ held' = [held EXCEPT ![c] = Subs!InTable]
        /\ queues' = Subs!NoQueues /\ pc' = [pc EXCEPT ![c] = "disconnect"]
        /\ UNCHANGED <<closing, created, open, topic, todo, taken, unmount>>
    BY <1>7 DEF Subs!DisconnectSwap, Subs!teardown
  <2>2. held[c] = {}
    BY <2>1, EmptyHanded
  <2>3. Subs!TablesOK' /\ \A t \in Topics : queues'[t] = 0
    BY <1>0, <2>1 DEF Subs!TablesOK, Subs!NoQueues
  <2>4. Subs!CallsOK'
    <3>1. Subs!InTable \subseteq Subs!Queues
      BY <1>0 DEF Subs!TablesOK, Subs!InTable, Subs!Queues
    <3>2. QED BY <1>0, <2>1, <3>1 DEF Subs!CallsOK
  <2>5. QueuesOwned'
    <3>1. (\A d \in Clients \ {c} : held'[d] = held[d]) /\ held'[c] = Subs!InTable
      BY <1>0, <2>1 DEF Subs!CallsOK
    <3>2. Owned(queues', held', taken, open)
      BY <1>0, <2>2, <2>3, <3>1, TableTaken DEF QueuesOwned, Subs!InTable
    <3>3. QED BY <2>1, <3>2 DEF QueuesOwned
  <2>6. Places'
    BY <1>0, <2>1, <2>2, <2>3 DEF Places, Subs!CallsOK
  <2>7. QED BY <2>3, <2>4, <2>5, <2>6 DEF Books
<1>8. QED BY <1>1, <1>2, <1>3, <1>5, <1>6, <1>7

LEMMA UnmountSteps ==
  ASSUME Subs!TableAssumption, Books
  PROVE  Subs!Unmount => Books'
<1> USE DEF Subs!calls
<1>0. Subs!TablesOK /\ Subs!CallsOK /\ QueuesOwned /\ Places /\ MaxQueues \in Nat
  BY DEF Books, Subs!TableAssumption
<1>1. ASSUME Subs!calls' = Subs!calls PROVE Subs!CallsOK'
  BY <1>0, <1>1 DEF Subs!CallsOK
<1>2. ASSUME Subs!BeginShutdown PROVE Books'
  <2>1. Subs!TablesOK' /\ Subs!CallsOK' /\ QueuesOwned'
    BY <1>0, <1>1, <1>2 DEF Subs!BeginShutdown, Subs!TablesOK, QueuesOwned
  <2>2. Places'
    BY <1>0, <1>2 DEF Subs!BeginShutdown, Places
  <2>3. QED BY <2>1, <2>2 DEF Books
<1>3. ASSUME Subs!UnmountSwap PROVE Books'
  <2>1. /\ unmount = "swap" /\ unmount' = "close" /\ taken' = Subs!InTable
        /\ queues' = Subs!NoQueues /\ UNCHANGED <<closing, created, open, Subs!calls>>
    BY <1>3 DEF Subs!UnmountSwap, Subs!TakeTable
  <2>2. taken = {} /\ \A t \in Topics : queues'[t] = 0
    BY <1>0, <2>1 DEF Places, Subs!NoQueues
  <2>3. Subs!TablesOK'
    BY <1>0, <2>1 DEF Subs!TablesOK, Subs!InTable, Subs!NoQueues, Subs!Queues
  <2>4. QueuesOwned'
    <3>1. Owned(queues', held, Subs!InTable, open)
      BY <1>0, <2>2, UnmountTakes DEF QueuesOwned, Subs!InTable
    <3>2. QED BY <2>1, <3>1 DEF QueuesOwned
  <2>5. Places'
    BY <1>0, <2>1, <2>2 DEF Places
  <2>6. QED BY <1>1, <2>1, <2>3, <2>4, <2>5 DEF Books
<1>4. ASSUME Subs!UnmountCloses PROVE Books'
  <2>1. /\ unmount = "close" /\ unmount' = "disconnect" /\ taken' = {} /\ open' = open \ taken
        /\ UNCHANGED <<closing, queues, created, Subs!calls>>
    BY <1>4 DEF Subs!UnmountCloses
  <2>2. Subs!TablesOK'
    BY <1>0, <2>1 DEF Subs!TablesOK
  <2>3. QueuesOwned'
    <3>1. Owned(queues, held, {}, open \ taken)
      BY <1>0, UnmountClosesTaken DEF QueuesOwned
    <3>2. QED BY <2>1, <3>1 DEF QueuesOwned
  <2>4. Places'
    BY <1>0, <2>1 DEF Places
  <2>5. QED BY <1>1, <2>1, <2>2, <2>3, <2>4 DEF Books
<1>5. ASSUME NEW u \in {"late", "done", "failed"}, unmount \in {"disconnect", "late"}, unmount' = u,
             UNCHANGED <<Subs!table, Subs!calls, taken>>
      PROVE  Books'
  <2>1. UNCHANGED <<closing, queues, created, open, Subs!calls, taken>>
    BY <1>5 DEF Subs!table
  <2>2. Subs!TablesOK' /\ QueuesOwned'
    BY <1>0, <1>5, <2>1 DEF Subs!TablesOK, QueuesOwned
  <2>3. Places'
    BY <1>0, <1>5, <2>1 DEF Places
  <2>4. QED BY <1>1, <2>1, <2>2, <2>3 DEF Books
<1>6. Subs!UnmountOnWire \/ Subs!UnmountTimesOut \/ Subs!LateDisconnect => Books'
  BY <1>5 DEF Subs!UnmountOnWire, Subs!UnmountTimesOut, Subs!LateDisconnect
<1>7. QED BY <1>2, <1>3, <1>4, <1>6 DEF Subs!Unmount

LEMMA BooksUnchanged ==
  ASSUME Books, UNCHANGED <<Subs!table, Subs!calls, Subs!teardown>>
  PROVE  Books'
<1>1. Subs!TablesOK' /\ Subs!CallsOK' /\ QueuesOwned'
  BY DEF Books, Subs!TablesOK, Subs!CallsOK, QueuesOwned, Subs!table, Subs!calls, Subs!teardown
<1>2. Places'
  BY DEF Books, Places, Subs!table, Subs!calls, Subs!teardown
<1>3. QED BY <1>1, <1>2 DEF Books

LEMMA BooksStep ==
  ASSUME Subs!TableAssumption, Books, [Subs!Next]_(Subs!vars)
  PROVE  Books'
<1>1. ASSUME NEW c \in Clients, Subs!Client(c) PROVE Books'
  BY <1>1, MovingSteps, TableSteps DEF Subs!Client
<1>2. CASE Subs!ConnectionLost \/ Subs!Closed \/ UNCHANGED Subs!vars
  BY <1>2, BooksUnchanged DEF Subs!ConnectionLost, Subs!Closed, Subs!vars
<1>3. QED BY <1>1, <1>2, UnmountSteps DEF Subs!Next

(* The flags, which no queue depends on.                                      *)
LEMMA FlagsStep ==
  ASSUME Subs!FlagsOK, Books, [Subs!Next]_(Subs!vars)
  PROVE  Subs!FlagsOK'
<1> DEFINE SessionOK == connected \in BOOLEAN /\ wire \subseteq Topics /\ (wire # {} => connected)
                        /\ ghosts \subseteq Topics
<1>1. closing \in BOOLEAN /\ SessionOK /\ trouble \subseteq {"overlap", "refused"}
  BY DEF Subs!FlagsOK
<1>2. trouble' \subseteq {"overlap", "refused"}
  BY <1>1 DEF Subs!Next, Subs!History, Subs!vars
<1>3. ASSUME NEW t \in Topics,
             Subs!WireSubscribed(t) \/ Subs!WireUnanswered(t) \/ Subs!WireRefused
      PROVE  SessionOK'
  BY <1>1, <1>3 DEF Subs!WireSubscribed, Subs!WireUnanswered, Subs!WireRefused, Subs!broker
<1>4. ASSUME NEW t, Subs!WireUnsubscribed(t) \/ Subs!WireKept({t} \cap wire) PROVE SessionOK'
  BY <1>1, <1>4 DEF Subs!WireUnsubscribed, Subs!WireKept
<1>5. ASSUME NEW up \in BOOLEAN, NEW S \in SUBSET Topics,
             Subs!NewSession(up) \/ Subs!WireKept(S) \/ UNCHANGED Subs!broker
      PROVE  SessionOK'
  BY <1>1, <1>5 DEF Subs!NewSession, Subs!WireKept, Subs!broker
<1>6. ASSUME NEW c \in Clients, Subs!Client(c) PROVE closing' = closing /\ SessionOK'
  <2>1. CASE Subs!SubscribeOnWire(c) \/ Subs!RestoreOnWire(c)
    <3>1. topic[c] \in Topics
      BY <2>1 DEF Books, Places, Addressing, Subs!SubscribeOnWire, Subs!RestoreOnWire
    <3>2. QED BY <1>3, <2>1, <3>1 DEF Subs!SubscribeOnWire, Subs!RestoreOnWire, Subs!table
  <2>2. CASE Subs!Withdraw(c) \/ Subs!UnsubscribeOnWire(c)
    BY <1>4, <2>2 DEF Subs!Withdraw, Subs!UnsubscribeOnWire, Subs!table
  <2>3. CASE Subs!ConnectOnWire(c) \/ Subs!DisconnectOnWire(c)
    BY <1>1, <1>5, <2>3 DEF Subs!ConnectOnWire, Subs!DisconnectOnWire, Subs!table
  <2>4. CASE \/ \E t \in Topics : Subs!Subscribe(c, t) \/ Subs!Unsubscribe(c, t) \/ Subs!RestoreTopic(c, t)
             \/ Subs!SubscribeFails(c) \/ Subs!SubscribeSucceeds(c) \/ Subs!SubscribeCancelled(c)
    BY <1>5, <2>4 DEF Subs!Subscribe, Subs!Unsubscribe, Subs!RestoreTopic, Subs!SubscribeFails,
       Subs!SubscribeSucceeds, Subs!SubscribeCancelled, Subs!table
  <2>5. CASE \/ Subs!Connect(c) \/ Subs!SnapshotTopics(c) \/ Subs!ConnectReturns(c)
             \/ Subs!Disconnect(c) \/ Subs!DisconnectSwap(c) \/ Subs!DisconnectCloses(c)
    BY <1>5, <2>5 DEF Subs!Connect, Subs!SnapshotTopics, Subs!ConnectReturns, Subs!Disconnect,
       Subs!DisconnectSwap, Subs!DisconnectCloses, Subs!table
  <2>6. QED BY <1>6, <2>1, <2>2, <2>3, <2>4, <2>5 DEF Subs!Client
<1>7. ASSUME Subs!Unmount PROVE closing' \in BOOLEAN /\ SessionOK'
  BY <1>1, <1>5, <1>7 DEF Subs!Unmount, Subs!table, Subs!BeginShutdown, Subs!UnmountSwap,
     Subs!UnmountCloses, Subs!UnmountOnWire, Subs!UnmountTimesOut, Subs!LateDisconnect
<1>8. ASSUME Subs!ConnectionLost PROVE closing' = closing /\ SessionOK'
  BY <1>5, <1>8 DEF Subs!ConnectionLost, Subs!table
<1>9. CASE UNCHANGED Subs!vars
  BY <1>1, <1>2, <1>9 DEF Subs!FlagsOK, Subs!vars, Subs!table, Subs!broker
<1>10. QED BY <1>1, <1>2, <1>6, <1>7, <1>8, <1>9 DEF Subs!FlagsOK, Subs!Next, Subs!Closed

LEMMA SubsInit ==
  ASSUME Subs!TableAssumption, Subs!Init
  PROVE  Subs!FlagsOK /\ Books
<1>1. Subs!FlagsOK
  BY DEF Subs!Init, Subs!FlagsOK
<1>2. Subs!TablesOK
  BY DEF Subs!Init, Subs!TablesOK, Subs!NoQueues, Subs!TableAssumption
<1>3. Subs!CallsOK
  BY DEF Subs!Init, Subs!CallsOK, Subs!ClientPhases
<1>4. QueuesOwned
  BY DEF Subs!Init, Subs!NoQueues, QueuesOwned, Owned, OneOwner, AllOwned, Placed, Carried
<1>5. Places
  BY DEF Subs!Init, Places, Addressing, Carrying
<1>6. QED BY <1>1, <1>2, <1>3, <1>4, <1>5 DEF Books

LEMMA QueuesSound == Subs!FlagsOK /\ Books => Subs!TypeOK /\ Subs!QueuesClosed
<1> SUFFICES ASSUME Subs!FlagsOK, Books PROVE Subs!TypeOK /\ Subs!QueuesClosed
  OBVIOUS
<1>1. Subs!TypeOK
  BY DEF Books, Subs!TypeOK
<1>2. ASSUME Subs!AtRest PROVE open = Subs!InTable
  <2>1. taken = {} /\ \A c \in Clients : held[c] = {}
    BY <1>2 DEF Subs!AtRest, Books, Places, Carrying
  <2>2. Owned(queues, held, {}, open)
    BY <2>1 DEF Books, QueuesOwned
  <2>3. QED BY <2>1, <2>2, OnlyTheTable DEF Subs!InTable
<1>3. unmount \notin {"before", "swap"} => Subs!InTable = {}
  BY DEF Books, Places, Subs!InTable
<1>4. QED BY <1>1, <1>2, <1>3 DEF Subs!QueuesClosed

(* However the commands of any number of clients and Unmount overlap, a queue *)
(* that has left the table is closed once they have returned, and after       *)
(* Unmount has taken the table nothing is in it again.                        *)
THEOREM QueuesClosedHolds == Spec => []QueuesClosed
<1> USE PartsAssumption
<1>1. Init => Subs!FlagsOK /\ Books
  BY SubsInit DEF Init, Rest
<1>2. Subs!FlagsOK /\ Books /\ [Next]_vars => (Subs!FlagsOK /\ Books)'
  <2>1. [Next]_vars => [Subs!Next]_(Subs!vars)
    BY OneMoves DEF subscriptionsVars, Subs!vars, Subs!table, Subs!calls, Subs!teardown, Subs!broker
  <2>2. QED BY <2>1, FlagsStep, BooksStep
<1>3. Subs!FlagsOK /\ Books => QueuesClosed
  BY QueuesSound DEF QueuesClosed
<1>4. QED BY <1>1, <1>2, <1>3, PTL DEF Spec

-----------------------------------------------------------------------------
(* The tables of EKuiperAbility. Of an item i whose agreement is not at risk, *)
(* each call on it knows something of both tables, and where they differ a    *)
(* call that the engine has performed is about to record the difference.      *)
On(c, i) == engineCall[c].phase # "idle" /\ engineCall[c].item = i
Recording(c, i) == On(c, i) /\ engineCall[c].phase = "record"
Changing(c) == engineCall[c].act \in {"start", "stop"}
Target(act) == IF act = "start" THEN "running" ELSE "stopped"
Creating(i) == \E c \in Clients : On(c, i) /\ engineCall[c].act = "create"

Compatible(i) ==
  \A c, d \in Clients : On(c, i) /\ On(d, i) /\ c # d =>
    ~Engine!Conflict(engineCall[c].act, engineCall[d].act)

Creates(c, i) ==
  engineCall[c].act = "create" =>
    /\ table[i] = Engine!Absent
    /\ engineCall[c].phase = "engine" => engine[i] = Engine!Absent
    /\ engineCall[c].phase = "record" => engine[i] = Engine!Defined(i, engineCall[c].def)

Drops(c, i) ==
  engineCall[c].act = "drop" /\ engineCall[c].phase = "record" => engine[i] = Engine!Absent

Changes(c, i) ==
  Changing(c) =>
    /\ engineCall[c].live = TRUE => table[i] # Engine!Absent
    /\ engineCall[c].live = FALSE => table[i] = Engine!Absent
    /\ engineCall[c].phase = "record" /\ engine[i] # Engine!Absent =>
         engine[i].status = Target(engineCall[c].act)

Knows(c, i) == Creates(c, i) /\ Drops(c, i) /\ Changes(c, i)

Follows(i) ==
  ~Creating(i) =>
    /\ engine[i] # Engine!Absent =>
         /\ table[i] # Engine!Absent /\ table[i].def = engine[i].def
         /\ table[i].status = engine[i].status \/ \E c \in Clients : Recording(c, i) /\ Changing(c)
    /\ engine[i] = Engine!Absent =>
         \/ table[i] = Engine!Absent
         \/ \E c \in Clients : Recording(c, i) /\ engineCall[c].act = "drop"

Agreed(i) == Compatible(i) /\ Follows(i) /\ \A c \in Clients : On(c, i) => Knows(c, i)

EngineCalls ==
  [act : {"none", "create", "drop", "start", "stop"}, item : Engine!Items \cup {"none"},
   def : Queries \cup {"none"}, phase : {"idle", "engine", "record"}, live : BOOLEAN]

EngineTyped ==
  /\ table \in Engine!Tables /\ engine \in Engine!Tables
  /\ engineCall \in [Clients -> EngineCalls] /\ disturbed \subseteq Engine!Items
  /\ \A c \in Clients : engineCall[c].phase # "idle" =>
       engineCall[c].item \in Engine!Items /\ engineCall[c].act # "none"

EngineInductive == EngineTyped /\ \A i \in Engine!Items \ disturbed : Agreed(i)

(* What nothing is done to keeps to what was said of it.                      *)
Untouched(i) ==
  /\ table'[i] = table[i] /\ engine'[i] = engine[i]
  /\ \A d \in Clients :
       /\ On(d, i)' => On(d, i)
       /\ On(d, i) => On(d, i)' /\ engineCall'[d].act = engineCall[d].act
                      /\ engineCall'[d].phase = engineCall[d].phase
                      /\ engineCall'[d].def = engineCall[d].def
                      /\ engineCall'[d].live = engineCall[d].live

LEMMA UntouchedAgrees ==
  ASSUME NEW i, Agreed(i), Untouched(i)
  PROVE  Agreed(i)'
<1>1. Compatible(i)'
  BY DEF Agreed, Untouched, Compatible
<1>2. ASSUME NEW c \in Clients, On(c, i)' PROVE Knows(c, i)'
  BY <1>2 DEF Agreed, Untouched, Knows, Creates, Drops, Changes, Changing
<1>3. Follows(i)'
  <2>1. Creating(i)' <=> Creating(i)
    BY DEF Untouched, Creating
  <2>2. \A c \in Clients : Recording(c, i) => Recording(c, i)' /\ engineCall'[c].act = engineCall[c].act
    BY DEF Untouched, Recording
  <2>3. QED BY <2>1, <2>2 DEF Agreed, Follows, Untouched, Changing
<1>4. QED BY <1>1, <1>2, <1>3 DEF Agreed

LEMMA EngineInit == Engine!Init => EngineInductive
<1> SUFFICES ASSUME Engine!Init PROVE EngineInductive
  OBVIOUS
<1>1. Engine!Absent \in [def : Queries \cup {"none"}, status : {"none", "running", "stopped"}]
        /\ Engine!Idle \in EngineCalls
  BY DEF Engine!Absent, Engine!Idle, EngineCalls
<1>2. \A c \in Clients : engineCall[c].phase = "idle"
  BY DEF Engine!Init, Engine!Idle
<1>3. EngineTyped
  BY <1>1, <1>2 DEF Engine!Init, EngineTyped, Engine!Tables
<1>4. ASSUME NEW i \in Engine!Items PROVE Agreed(i)
  BY <1>2 DEF Engine!Init, Agreed, Compatible, Follows, On
<1>5. QED BY <1>3, <1>4 DEF EngineInductive

(* What a call leaves of itself, and of the others.                           *)
Others(c, i) ==
  \A d \in Clients \ {c} :
    /\ engineCall'[d].act = engineCall[d].act /\ engineCall'[d].item = engineCall[d].item
    /\ engineCall'[d].def = engineCall[d].def /\ engineCall'[d].phase = engineCall[d].phase
    /\ engineCall[d].item # i => engineCall'[d].live = engineCall[d].live

Own(c, i) ==
  /\ engineCall[c].phase # "idle" => engineCall[c].item = i
  /\ engineCall'[c].phase # "idle" => engineCall'[c].item = i

Elsewhere(i) == \A j \in Engine!Items \ {i} : table'[j] = table[j] /\ engine'[j] = engine[j]

LEMMA OneItem ==
  ASSUME EngineInductive, NEW c \in Clients, NEW i, Others(c, i), Own(c, i), Elsewhere(i),
         disturbed \subseteq disturbed',
         i \in Engine!Items \ disturbed' => Agreed(i)'
  PROVE  \A j \in Engine!Items \ disturbed' : Agreed(j)'
<1> SUFFICES ASSUME NEW j \in Engine!Items \ disturbed', j # i PROVE Agreed(j)'
  OBVIOUS
<1>1. Agreed(j)
  BY DEF EngineInductive
<1>2. Untouched(j)
  BY DEF Untouched, Others, Own, Elsewhere, On
<1>3. QED BY <1>1, <1>2, UntouchedAgrees

LEMMA Begins ==
  ASSUME EngineInductive, NEW c \in Clients, NEW i \in Engine!Items,
         NEW act \in {"create", "drop", "start", "stop"}, NEW q \in Queries \cup {"none"},
         Engine!Begin(c, act, i, q),
         act = "create" => table[i] = Engine!Absent,
         act # "create" => table[i] # Engine!Absent
  PROVE  EngineInductive'
<1>1. engineCall[c] = Engine!Idle /\ engineCall[c].phase = "idle" /\ UNCHANGED <<table, engine>>
  BY DEF Engine!Begin, Engine!Idle
<1>2. /\ engineCall'[c].act = act /\ engineCall'[c].item = i /\ engineCall'[c].def = q
      /\ engineCall'[c].phase = "engine" /\ engineCall'[c].live = TRUE
      /\ \A d \in Clients \ {c} : engineCall'[d] = engineCall[d]
  BY DEF Engine!Begin, EngineInductive, EngineTyped
<1>3. EngineTyped'
  <2>1. [act |-> act, item |-> i, def |-> q, phase |-> "engine", live |-> TRUE] \in EngineCalls
    BY DEF EngineCalls
  <2>2. engineCall' \in [Clients -> EngineCalls]
    BY <2>1 DEF Engine!Begin, EngineInductive, EngineTyped
  <2>3. disturbed' \subseteq Engine!Items
    BY DEF Engine!Begin, EngineInductive, EngineTyped
  <2>4. QED BY <1>1, <1>2, <2>2, <2>3 DEF EngineInductive, EngineTyped
<1>4. ASSUME i \notin disturbed' PROVE Agreed(i)'
  <2>1. Agreed(i)
    BY <1>4 DEF Engine!Begin, EngineInductive
  <2>2. \A d \in Clients : On(d, i) => d # c /\ ~Engine!Conflict(engineCall[d].act, act)
    BY <1>1, <1>4 DEF Engine!Begin, On
  <2>3. \A d \in Clients \ {c} : (On(d, i)' => On(d, i)) /\ (On(d, i) => On(d, i)')
    BY <1>2 DEF On
  <2>4. On(c, i)' /\ ~On(c, i)
    BY <1>1, <1>2 DEF On
  <2>5. Compatible(i)'
    BY <1>2, <2>1, <2>2, <2>3 DEF Agreed, Compatible, Engine!Conflict
  <2>6. Knows(c, i)'
    <3>1. ASSUME act = "create" PROVE engine[i] = Engine!Absent
      <4>1. \A d \in Clients : ~On(d, i)
        BY <3>1, <2>2 DEF Engine!Conflict
      <4>2. QED BY <3>1, <4>1, <2>1 DEF Agreed, Follows, Creating
    <3>2. QED BY <1>1, <1>2, <3>1 DEF Knows, Creates, Drops, Changes, Changing
  <2>7. ASSUME NEW d \in Clients, On(d, i)' PROVE Knows(d, i)'
    <3>1. CASE d = c
      BY <3>1, <2>6
    <3>2. CASE d # c
      BY <3>2, <2>1, <2>3, <2>7, <1>1, <1>2 DEF Agreed, Knows, Creates, Drops, Changes, Changing
    <3>3. QED BY <3>1, <3>2
  <2>8. Follows(i)'
    <3>1. Creating(i) => Creating(i)'
      BY <1>2, <2>3, <2>4 DEF Creating
    <3>2. \A d \in Clients : Recording(d, i) => Recording(d, i)' /\ engineCall'[d].act = engineCall[d].act
      BY <1>1, <1>2, <2>3 DEF Recording
    <3>3. QED BY <1>1, <2>1, <3>1, <3>2 DEF Agreed, Follows, Changing
  <2>9. QED BY <2>5, <2>7, <2>8 DEF Agreed
<1>5. Others(c, i) /\ Own(c, i) /\ Elsewhere(i) /\ disturbed \subseteq disturbed'
  BY <1>1, <1>2 DEF Others, Own, Elsewhere, Engine!Begin
<1>6. QED BY <1>3, <1>4, <1>5, OneItem DEF EngineInductive

(* What the engine does when it performs a call on i.                         *)
LEMMA EnginePerforms ==
  ASSUME EngineTyped, NEW c \in Clients, NEW i, engineCall[c].phase # "idle",
         i = engineCall[c].item, Engine!Performed(engineCall[c])
  PROVE  /\ engine' \in Engine!Tables
         /\ \A j \in Engine!Items \ {i} : engine'[j] = engine[j]
         /\ engineCall[c].act = "create" => engine'[i] = Engine!Defined(i, engineCall[c].def)
         /\ engineCall[c].act = "drop" => engine'[i] = Engine!Absent
         /\ Changing(c) => /\ engine[i] # Engine!Absent /\ engine'[i] # Engine!Absent
                           /\ engine'[i].status = Target(engineCall[c].act)
                           /\ engine'[i].def = engine[i].def
<1> DEFINE Entries == [def : Queries \cup {"none"}, status : {"none", "running", "stopped"}]
<1>1. /\ i \in Engine!Items /\ engine \in [Engine!Items -> Entries]
      /\ engineCall[c].act \in {"create", "drop", "start", "stop"}
      /\ engineCall[c].def \in Queries \cup {"none"}
  BY DEF EngineTyped, EngineCalls, Engine!Tables
<1>2. PICK x : x = engineCall[c]
  OBVIOUS
<1>3. x.act \in {"create", "drop", "start", "stop"} /\ i = x.item /\ Engine!Performed(x)
  BY <1>1, <1>2
<1>4. CASE x.act = "create"
  <2>1. engine' = [engine EXCEPT ![i] = Engine!Defined(i, x.def)]
    BY <1>3, <1>4 DEF Engine!Performed
  <2>2. Engine!Defined(i, x.def) \in Entries
    BY <1>1, <1>2 DEF Engine!Defined
  <2>3. engine' \in [Engine!Items -> Entries] /\ engine'[i] = Engine!Defined(i, x.def)
          /\ \A j \in Engine!Items \ {i} : engine'[j] = engine[j]
    BY <1>1, <2>1, <2>2
  <2>4. QED BY <1>2, <1>4, <2>3 DEF Engine!Tables, Changing
<1>5. CASE x.act = "drop"
  <2>1. engine' = [engine EXCEPT ![i] = Engine!Absent]
    BY <1>3, <1>5 DEF Engine!Performed
  <2>2. engine' \in [Engine!Items -> Entries] /\ engine'[i] = Engine!Absent
          /\ \A j \in Engine!Items \ {i} : engine'[j] = engine[j]
    BY <1>1, <2>1 DEF Engine!Absent
  <2>3. QED BY <1>2, <1>5, <2>2 DEF Engine!Tables, Changing
<1>6. CASE x.act \in {"start", "stop"}
  <2>1. engine[i] # Engine!Absent /\ engine' = [engine EXCEPT ![i].status = Target(x.act)]
    BY <1>3, <1>6 DEF Engine!Performed, Target
  <2>2. Target(x.act) \in {"running", "stopped"}
    BY DEF Target
  <2>3. /\ engine' \in [Engine!Items -> Entries] /\ engine'[i].status = Target(x.act)
        /\ engine'[i].def = engine[i].def /\ \A j \in Engine!Items \ {i} : engine'[j] = engine[j]
    BY <1>1, <2>1, <2>2
  <2>4. engine'[i] # Engine!Absent
    BY <2>2, <2>3 DEF Engine!Absent
  <2>5. QED BY <1>2, <1>6, <2>1, <2>3, <2>4 DEF Engine!Tables
<1>7. QED BY <1>3, <1>4, <1>5, <1>6

LEMMA EnginePerformed ==
  ASSUME EngineInductive, NEW c \in Clients, engineCall[c].phase = "engine",
         Engine!Performed(engineCall[c]),
         engineCall' = [engineCall EXCEPT ![c].phase = "record"],
         UNCHANGED <<table, disturbed>>
  PROVE  EngineInductive'
<1> DEFINE i == engineCall[c].item
<1>1. EngineTyped /\ i \in Engine!Items /\ i = engineCall[c].item
  BY DEF EngineInductive, EngineTyped
<1>2. /\ engine' \in Engine!Tables
      /\ \A j \in Engine!Items \ {i} : engine'[j] = engine[j]
      /\ engineCall[c].act = "create" => engine'[i] = Engine!Defined(i, engineCall[c].def)
      /\ engineCall[c].act = "drop" => engine'[i] = Engine!Absent
      /\ Changing(c) => /\ engine[i] # Engine!Absent /\ engine'[i] # Engine!Absent
                        /\ engine'[i].status = Target(engineCall[c].act)
                        /\ engine'[i].def = engine[i].def
  BY <1>1, EnginePerforms
<1>3. /\ engineCall' \in [Clients -> EngineCalls]
      /\ engineCall'[c].act = engineCall[c].act /\ engineCall'[c].item = i
      /\ engineCall'[c].def = engineCall[c].def /\ engineCall'[c].live = engineCall[c].live
      /\ engineCall'[c].phase = "record"
      /\ \A d \in Clients \ {c} : engineCall'[d] = engineCall[d]
  BY <1>1 DEF EngineTyped, EngineCalls
<1>4. EngineTyped'
  BY <1>1, <1>2, <1>3 DEF EngineTyped
<1> PICK item : item = i
  OBVIOUS
<1>5. ASSUME item \notin disturbed PROVE Agreed(item)'
  <2>1. Agreed(item)
    BY <1>1, <1>5 DEF EngineInductive
  <2>2. On(c, item) /\ On(c, item)' /\ Recording(c, item)' /\ (Changing(c)' <=> Changing(c))
    BY <1>1, <1>3 DEF On, Recording, Changing
  <2>3. \A d \in Clients : engineCall'[d].act = engineCall[d].act
    BY <1>3
  <2>4. \A d \in Clients : (On(d, item)' => On(d, item)) /\ (On(d, item) => On(d, item)')
    BY <1>3, <2>2 DEF On
  <2>5. Compatible(item)'
    BY <2>1, <2>3, <2>4 DEF Agreed, Compatible
  <2>6. Knows(c, item)'
    BY <1>1, <1>2, <1>3, <2>1, <2>2 DEF Agreed, Knows, Creates, Drops, Changes, Changing
  <2>7. ASSUME NEW d \in Clients \ {c}, On(d, item)' PROVE Knows(d, item)'
    <3>1. Knows(d, item) /\ ~Engine!Conflict(engineCall[d].act, engineCall[c].act)
      BY <2>1, <2>2, <2>4, <2>7 DEF Agreed, Compatible
    <3>2. /\ engineCall[d].act # "create" /\ engineCall[c].act # "create"
          /\ engineCall[c].act = "start" => engineCall[d].act # "stop"
          /\ engineCall[c].act = "stop" => engineCall[d].act # "start"
      BY <3>1 DEF Engine!Conflict
    <3>3. engineCall[c].act = "drop" \/ Changing(c)
      BY <1>1, <3>2 DEF EngineTyped, EngineCalls, Changing
    <3>4. engineCall'[d] = engineCall[d] /\ table' = table
      BY <1>3
    <3>5. Creates(d, item)' /\ Drops(d, item)'
      BY <1>2, <3>1, <3>2, <3>3, <3>4 DEF Knows, Creates, Drops
    <3>6. Changes(d, item)'
      BY <1>2, <3>1, <3>2, <3>3, <3>4 DEF Knows, Changes, Changing
    <3>7. QED BY <3>5, <3>6 DEF Knows
  <2>8. Follows(item)'
    <3>1. SUFFICES ASSUME ~Creating(item)' PROVE Follows(item)'
      BY DEF Follows
    <3>2. ~Creating(item) /\ engineCall[c].act # "create"
      BY <2>2, <2>3, <2>4, <3>1 DEF Creating
    <3>3. engineCall[c].act = "drop" \/ Changing(c)
      BY <1>1, <3>2 DEF EngineTyped, EngineCalls, Changing
    <3>4. QED BY <1>2, <2>1, <2>2, <2>3, <3>2, <3>3 DEF Agreed, Follows
  <2>9. QED BY <2>5, <2>6, <2>7, <2>8 DEF Agreed
<1>6. Others(c, item) /\ Own(c, item) /\ Elsewhere(item)
  BY <1>2, <1>3 DEF Others, Own, Elsewhere
<1>7. QED BY <1>4, <1>5, <1>6, OneItem DEF EngineInductive

(* A call that returns leaves nothing behind; what it held does not matter.   *)
LEMMA EngineReturns ==
  ASSUME EngineTyped, NEW c \in Clients, engineCall' = [engineCall EXCEPT ![c] = Engine!Idle]
  PROVE  /\ engineCall' \in [Clients -> EngineCalls] /\ engineCall'[c].phase = "idle"
         /\ \A d \in Clients \ {c} : engineCall'[d] = engineCall[d]
         /\ \A i : ~On(c, i)' /\ \A d \in Clients \ {c} : On(d, i)' = On(d, i)
BY DEF EngineTyped, EngineCalls, Engine!Idle, On

LEMMA EngineFails ==
  ASSUME EngineInductive, NEW c \in Clients, engineCall[c].phase = "engine",
         engineCall' = [engineCall EXCEPT ![c] = Engine!Idle],
         UNCHANGED <<table, engine, disturbed>>
  PROVE  EngineInductive'
<1> PICK i : i = engineCall[c].item
  OBVIOUS
<1>1. EngineTyped /\ i \in Engine!Items
  BY DEF EngineInductive, EngineTyped
<1>2. /\ engineCall' \in [Clients -> EngineCalls] /\ engineCall'[c].phase = "idle"
      /\ \A d \in Clients \ {c} : engineCall'[d] = engineCall[d]
      /\ ~On(c, i)' /\ \A d \in Clients \ {c} : On(d, i)' = On(d, i)
  BY <1>1, EngineReturns
<1>3. EngineTyped'
  BY <1>1, <1>2 DEF EngineTyped
<1>4. ASSUME i \notin disturbed PROVE Agreed(i)'
  <2>1. Agreed(i) /\ On(c, i)
    BY <1>1, <1>4 DEF EngineInductive, On
  <2>2. Compatible(i)'
    BY <1>2, <2>1 DEF Agreed, Compatible
  <2>3. \A d \in Clients : On(d, i)' => Knows(d, i)'
    BY <1>2, <2>1 DEF Agreed, Knows, Creates, Drops, Changes, Changing
  <2>4. Follows(i)'
    <3>1. CASE engineCall[c].act = "create"
      BY <2>1, <3>1 DEF Agreed, Knows, Creates, Follows
    <3>2. CASE engineCall[c].act # "create"
      <4>1. Creating(i) => Creating(i)'
        BY <1>2, <3>2 DEF Creating
      <4>2. \A d \in Clients : Recording(d, i) => Recording(d, i)' /\ engineCall'[d].act = engineCall[d].act
        BY <1>2 DEF Recording
      <4>3. QED BY <2>1, <4>1, <4>2 DEF Agreed, Follows, Changing
    <3>3. QED BY <3>1, <3>2
  <2>5. QED BY <2>2, <2>3, <2>4 DEF Agreed
<1>5. Others(c, i) /\ Own(c, i) /\ Elsewhere(i)
  BY <1>2 DEF Others, Own, Elsewhere
<1>6. QED BY <1>3, <1>4, <1>5, OneItem DEF EngineInductive

LEMMA EngineCallSteps ==
  ASSUME EngineInductive, NEW c \in Clients, Engine!CallEngine(c)
  PROVE  EngineInductive'
<1>1. engineCall[c].phase = "engine" /\ table' = table
  BY DEF Engine!CallEngine
<1>2. CASE /\ Engine!Performed(engineCall[c])
           /\ engineCall' = [engineCall EXCEPT ![c].phase = "record"] /\ UNCHANGED disturbed
  BY <1>1, <1>2, EnginePerformed
<1>3. CASE Engine!Fails(c) /\ UNCHANGED <<engine, disturbed>>
  BY <1>1, <1>3, EngineFails DEF Engine!Fails
<1>4. CASE /\ Engine!Performed(engineCall[c]) /\ Engine!Fails(c)
           /\ disturbed' = disturbed \cup {engineCall[c].item}
  <2> PICK i : i = engineCall[c].item
    OBVIOUS
  <2>1. EngineTyped /\ i \in Engine!Items
    BY <1>1 DEF EngineInductive, EngineTyped
  <2>2. engine' \in Engine!Tables /\ \A j \in Engine!Items \ {i} : engine'[j] = engine[j]
    BY <1>1, <1>4, <2>1, EnginePerforms
  <2>3. /\ engineCall' \in [Clients -> EngineCalls] /\ engineCall'[c].phase = "idle"
        /\ \A d \in Clients \ {c} : engineCall'[d] = engineCall[d]
    BY <1>4, <2>1, EngineReturns DEF Engine!Fails
  <2>4. EngineTyped'
    BY <1>1, <1>4, <2>1, <2>2, <2>3 DEF EngineTyped
  <2>5. Others(c, i) /\ Own(c, i) /\ Elsewhere(i)
    BY <1>1, <2>2, <2>3 DEF Others, Own, Elsewhere
  <2>6. QED BY <1>4, <2>4, <2>5, OneItem DEF EngineInductive
<1>5. QED BY <1>2, <1>3, <1>4 DEF Engine!CallEngine

(* Whoever replaces or deletes the entry ends the hold others have of it.     *)
LEMMA EngineOrphans ==
  ASSUME EngineTyped, NEW c \in Clients, Engine!Orphaned(c)
  PROVE  /\ engineCall' \in [Clients -> EngineCalls] /\ engineCall'[c].phase = "idle"
         /\ \A d \in Clients \ {c} :
              /\ engineCall'[d].act = engineCall[d].act /\ engineCall'[d].item = engineCall[d].item
              /\ engineCall'[d].def = engineCall[d].def
              /\ engineCall'[d].phase = engineCall[d].phase
              /\ engineCall[d].item = engineCall[c].item => engineCall'[d].live = FALSE
              /\ engineCall[d].item # engineCall[c].item => engineCall'[d].live = engineCall[d].live
<1>1. engineCall'[c] = Engine!Idle /\ DOMAIN engineCall' = Clients
        /\ engineCall' = [d \in Clients |-> engineCall'[d]]
  BY DEF Engine!Orphaned
<1>2. ASSUME NEW d \in Clients \ {c}
      PROVE  /\ engineCall'[d] \in EngineCalls
             /\ engineCall'[d].act = engineCall[d].act /\ engineCall'[d].item = engineCall[d].item
             /\ engineCall'[d].def = engineCall[d].def
             /\ engineCall'[d].phase = engineCall[d].phase
             /\ engineCall[d].item = engineCall[c].item => engineCall'[d].live = FALSE
             /\ engineCall[d].item # engineCall[c].item => engineCall'[d].live = engineCall[d].live
  <2>1. PICK hold \in BOOLEAN :
          /\ engineCall'[d] = [engineCall[d] EXCEPT !.live = hold]
          /\ engineCall[d].item = engineCall[c].item => hold = FALSE
          /\ engineCall[d].item # engineCall[c].item => hold = engineCall[d].live
    <3>1. engineCall[d].live \in BOOLEAN
      BY DEF EngineTyped, EngineCalls
    <3>2. engineCall'[d] = [engineCall[d] EXCEPT
                              !.live = @ /\ engineCall[d].item # engineCall[c].item]
      BY DEF Engine!Orphaned
    <3>3. CASE engineCall[d].item = engineCall[c].item
      BY <3>2, <3>3
    <3>4. CASE engineCall[d].item # engineCall[c].item
      BY <3>1, <3>2, <3>4
    <3>5. QED BY <3>3, <3>4
  <2>2. engineCall[d] \in EngineCalls
    BY DEF EngineTyped
  <2>3. QED BY <2>1, <2>2 DEF EngineCalls
<1>3. Engine!Idle \in EngineCalls /\ Engine!Idle.phase = "idle"
  BY DEF Engine!Idle, EngineCalls
<1>4. QED BY <1>1, <1>2, <1>3

(* The entry is replaced or deleted as the engine has it by now, and nobody   *)
(* on the item counts on another.                                             *)
LEMMA EngineReplaces ==
  ASSUME EngineInductive, NEW c \in Clients, Engine!Record(c), NEW entry,
         \/ engineCall[c].act = "create" /\ entry = Engine!Defined(engineCall[c].item, engineCall[c].def)
         \/ engineCall[c].act = "drop" /\ entry = Engine!Absent,
         table' = [table EXCEPT ![engineCall[c].item] = entry], Engine!Orphaned(c)
  PROVE  EngineInductive'
<1> PICK i : i = engineCall[c].item
  OBVIOUS
<1>1. /\ EngineTyped /\ i \in Engine!Items /\ Recording(c, i)
      /\ engine' = engine /\ disturbed' = disturbed
  BY DEF EngineInductive, EngineTyped, Engine!Record, Recording, On
<1>2. /\ engineCall' \in [Clients -> EngineCalls] /\ engineCall'[c].phase = "idle"
      /\ \A d \in Clients \ {c} :
           /\ engineCall'[d].act = engineCall[d].act /\ engineCall'[d].item = engineCall[d].item
           /\ engineCall'[d].def = engineCall[d].def
           /\ engineCall'[d].phase = engineCall[d].phase
           /\ engineCall[d].item = i => engineCall'[d].live = FALSE
           /\ engineCall[d].item # i => engineCall'[d].live = engineCall[d].live
  BY <1>1, EngineOrphans
<1>3. table' \in Engine!Tables /\ table'[i] = entry /\ \A j \in Engine!Items \ {i} : table'[j] = table[j]
  <2>1. entry \in [def : Queries \cup {"none"}, status : {"none", "running", "stopped"}]
    BY <1>1 DEF EngineTyped, EngineCalls, Engine!Defined, Engine!Absent
  <2>2. QED BY <1>1, <2>1 DEF EngineTyped, Engine!Tables
<1>4. EngineTyped'
  BY <1>1, <1>2, <1>3 DEF EngineTyped
<1>5. ASSUME i \notin disturbed PROVE Agreed(i)'
  <2>1. Agreed(i) /\ On(c, i) /\ Knows(c, i)
    BY <1>1, <1>5 DEF EngineInductive, Agreed, Recording
  <2>2. engine[i] = entry
    BY <1>1, <2>1 DEF Knows, Creates, Drops, Recording
  <2>3. ~On(c, i)' /\ \A d \in Clients \ {c} : (On(d, i)' => On(d, i))
    BY <1>2 DEF On
  <2>4. Compatible(i)'
    BY <1>2, <2>1, <2>3 DEF Agreed, Compatible
  <2>5. ASSUME NEW d \in Clients, On(d, i)' PROVE Knows(d, i)'
    <3>1. d # c /\ On(d, i) /\ Knows(d, i) /\ ~Engine!Conflict(engineCall[d].act, engineCall[c].act)
      BY <2>1, <2>3, <2>5 DEF Agreed, Compatible
    <3>2. engineCall[c].act = "drop" /\ engineCall[d].act # "create"
      BY <3>1 DEF Engine!Conflict
    <3>3. entry = Engine!Absent /\ engineCall'[d].live = FALSE /\ engineCall'[d].act = engineCall[d].act
      BY <1>2, <3>1, <3>2 DEF On
    <3>4. QED BY <1>1, <1>3, <2>2, <3>2, <3>3 DEF Knows, Creates, Drops, Changes
  <2>6. Follows(i)'
    BY <1>1, <1>3, <2>2 DEF Follows
  <2>7. QED BY <2>4, <2>5, <2>6 DEF Agreed
<1>6. Others(c, i) /\ Own(c, i) /\ Elsewhere(i)
  BY <1>1, <1>2, <1>3 DEF Others, Own, Elsewhere
<1>7. QED BY <1>1, <1>4, <1>5, <1>6, OneItem DEF EngineInductive

(* A status goes where the pointer leads: to the entry, or to what was one.   *)
LEMMA EngineSetsStatus ==
  ASSUME EngineInductive, NEW c \in Clients, Engine!Record(c), Engine!SetStatus(c)
  PROVE  EngineInductive'
<1> PICK i : i = engineCall[c].item
  OBVIOUS
<1> PICK target : target = Target(engineCall[c].act)
  OBVIOUS
<1>1. /\ EngineTyped /\ i \in Engine!Items /\ Recording(c, i) /\ Changing(c)
      /\ engine' = engine /\ disturbed' = disturbed /\ engineCall[c].act # "create"
  BY DEF EngineInductive, EngineTyped, Engine!Record, Engine!SetStatus, Recording, On, Changing
<1>2. /\ engineCall' \in [Clients -> EngineCalls] /\ engineCall'[c].phase = "idle"
      /\ \A d \in Clients \ {c} : engineCall'[d] = engineCall[d]
      /\ ~On(c, i)' /\ \A d \in Clients \ {c} : On(d, i)' = On(d, i)
  BY <1>1, EngineReturns DEF Engine!SetStatus
<1>3. engineCall[c].live \in BOOLEAN
  BY <1>1 DEF EngineTyped, EngineCalls
<1>4. engineCall[c].live = FALSE => table' = table
  BY DEF Engine!SetStatus, Engine!WriteStatus
<1>5. engineCall[c].live = TRUE => table' = [table EXCEPT ![i].status = target]
  BY <1>1 DEF Engine!SetStatus, Engine!WriteStatus, Target
<1>6. target \in {"running", "stopped"}
  BY DEF Target
<1>7. engineCall[c].live = TRUE =>
        /\ table' \in Engine!Tables /\ \A j \in Engine!Items \ {i} : table'[j] = table[j]
        /\ table'[i].status = target /\ table'[i].def = table[i].def
        /\ table'[i] # Engine!Absent
  <2>1. SUFFICES ASSUME engineCall[c].live = TRUE
                 PROVE  /\ table' \in Engine!Tables
                        /\ \A j \in Engine!Items \ {i} : table'[j] = table[j]
                        /\ table'[i].status = target /\ table'[i].def = table[i].def
                        /\ table'[i] # Engine!Absent
    OBVIOUS
  <2>2. /\ table' \in Engine!Tables /\ \A j \in Engine!Items \ {i} : table'[j] = table[j]
        /\ table'[i].status = target /\ table'[i].def = table[i].def
    BY <1>1, <1>5, <1>6, <2>1 DEF EngineTyped, Engine!Tables
  <2>3. QED BY <1>6, <2>2 DEF Engine!Absent
<1>8. EngineTyped'
  BY <1>1, <1>2, <1>3, <1>4, <1>7 DEF EngineTyped
<1>9. ASSUME i \notin disturbed PROVE Agreed(i)'
  <2>1. Agreed(i) /\ On(c, i) /\ Changes(c, i)
    BY <1>1, <1>9 DEF EngineInductive, Agreed, Knows, Recording
  <2>2. Compatible(i)'
    BY <1>2, <2>1 DEF Agreed, Compatible
  <2>3. (table'[i] = Engine!Absent) = (table[i] = Engine!Absent)
    BY <1>1, <1>3, <1>4, <1>7, <2>1 DEF Changes
  <2>4. ASSUME NEW d \in Clients, On(d, i)' PROVE Knows(d, i)'
    <3>1. d # c /\ On(d, i) /\ Knows(d, i)
      BY <1>2, <2>1, <2>4 DEF Agreed
    <3>2. engineCall'[d] = engineCall[d]
      BY <1>2, <3>1
    <3>3. QED BY <1>1, <2>3, <3>1, <3>2 DEF Knows, Creates, Drops, Changes, Changing
  <2>5. Follows(i)'
    <3>1. SUFFICES ASSUME ~Creating(i)' PROVE Follows(i)'
      BY DEF Follows
    <3>2. ~Creating(i)
      BY <1>1, <1>2, <3>1 DEF Creating
    <3>3. engine[i] # Engine!Absent =>
            /\ table[i] # Engine!Absent /\ table[i].def = engine[i].def /\ engine[i].status = target
      BY <1>1, <2>1, <3>2 DEF Agreed, Follows, Changes, Recording
    <3>4. engine[i] # Engine!Absent => engineCall[c].live = TRUE
      BY <1>1, <1>3, <2>1, <3>3 DEF Changes
    <3>5. \A d \in Clients : Recording(d, i) /\ engineCall[d].act = "drop" =>
            Recording(d, i)' /\ engineCall'[d].act = "drop"
      BY <1>1, <1>2 DEF Recording, Changing
    <3>6. QED BY <1>1, <1>7, <2>1, <2>3, <3>2, <3>3, <3>4, <3>5 DEF Agreed, Follows
  <2>6. QED BY <2>2, <2>4, <2>5 DEF Agreed
<1>10. Others(c, i) /\ Own(c, i) /\ Elsewhere(i)
  BY <1>1, <1>2, <1>3, <1>4, <1>7 DEF Others, Own, Elsewhere
<1>11. QED BY <1>1, <1>8, <1>9, <1>10, OneItem DEF EngineInductive

LEMMA EngineStep ==
  ASSUME EngineInductive, [Engine!Next]_(Engine!vars)
  PROVE  EngineInductive'
<1>1. ASSUME NEW c \in Clients, Engine!Command(c) PROVE EngineInductive'
  <2>1. ASSUME NEW i \in Engine!Items, Engine!Drop(c, i) \/ Engine!StartRule(c, i) \/ Engine!StopRule(c, i)
        PROVE  EngineInductive'
    BY <2>1, Begins DEF Engine!Drop, Engine!StartRule, Engine!StopRule, Engine!Exists
  <2>2. ASSUME NEW i \in Engine!Items, NEW q \in Queries, Engine!Create(c, i, q)
        PROVE  EngineInductive'
    BY <2>2, Begins DEF Engine!Create, Engine!Exists
  <2>3. CASE Engine!Record(c)
    <3>1. CASE Engine!Insert(c)
      BY <2>3, <3>1, EngineReplaces DEF Engine!Insert
    <3>2. CASE Engine!Delete(c)
      BY <2>3, <3>2, EngineReplaces DEF Engine!Delete
    <3>3. QED BY <2>3, <3>1, <3>2, EngineSetsStatus DEF Engine!Record
  <2>4. QED BY <1>1, <2>1, <2>2, <2>3, EngineCallSteps DEF Engine!Command
<1>2. CASE Engine!SetTransport \/ UNCHANGED Engine!vars
  <2>1. UNCHANGED <<table, engineCall, engine, disturbed>>
    BY <1>2 DEF Engine!SetTransport, Engine!vars
  <2>2. EngineTyped'
    BY <2>1 DEF EngineInductive, EngineTyped
  <2>3. ASSUME NEW i \in Engine!Items \ disturbed' PROVE Agreed(i)'
    BY <2>1, UntouchedAgrees DEF EngineInductive, Untouched, On
  <2>4. QED BY <2>2, <2>3 DEF EngineInductive
<1>3. QED BY <1>1, <1>2 DEF Engine!Next

LEMMA TransportStep ==
  ASSUME transport \in BOOLEAN, [Engine!Next]_(Engine!vars)
  PROVE  transport' \in BOOLEAN
BY DEF Engine!Next, Engine!vars, Engine!SetTransport, Engine!Command, Engine!Drop, Engine!StartRule,
   Engine!StopRule, Engine!Create, Engine!Begin, Engine!CallEngine, Engine!Record

LEMMA EngineSound ==
  ASSUME EngineInductive, transport \in BOOLEAN
  PROVE  Engine!TypeOK /\ Engine!EngineAgrees
<1>1. Engine!TypeOK
  BY DEF EngineInductive, EngineTyped, EngineCalls, Engine!TypeOK
<1>2. ASSUME NEW i \in Engine!Items \ disturbed, \A c \in Clients : engineCall[c].item # i
      PROVE  table[i] = engine[i]
  <2>1. Follows(i) /\ \A c \in Clients : ~On(c, i)
    BY <1>2 DEF EngineInductive, Agreed, On
  <2>2. CASE engine[i] = Engine!Absent
    BY <2>1, <2>2 DEF Follows, Creating, Recording
  <2>3. CASE engine[i] # Engine!Absent
    <3>1. table[i].def = engine[i].def /\ table[i].status = engine[i].status
      BY <2>1, <2>3 DEF Follows, Creating, Recording
    <3>2. QED BY <3>1 DEF EngineInductive, EngineTyped, Engine!Tables
  <2>4. QED BY <2>2, <2>3
<1>3. QED BY <1>1, <1>2 DEF Engine!EngineAgrees

(* Once the commands on a stream or rule have returned, the table says of it  *)
(* what the engine has, whatever was refused and however the commands of any  *)
(* number of clients overlapped, unless two of them did not commute or an     *)
(* answer was lost.                                                           *)
THEOREM EngineAgreesHolds == Spec => []EngineAgrees
<1>1. Init => transport \in BOOLEAN /\ EngineInductive
  BY EngineInit DEF Init, Rest, Engine!Init
<1>2. transport \in BOOLEAN /\ EngineInductive /\ [Next]_vars => (transport \in BOOLEAN /\ EngineInductive)'
  <2>1. [Next]_vars => [Engine!Next]_(Engine!vars)
    BY OneMoves DEF engineVars, Engine!vars
  <2>2. QED BY <2>1, TransportStep, EngineStep
<1>3. transport \in BOOLEAN /\ EngineInductive => EngineAgrees
  BY EngineSound DEF EngineAgrees
<1>4. QED BY <1>1, <1>2, <1>3, PTL DEF Spec

-----------------------------------------------------------------------------
(* The table of MQTTAbility and its broker, as long as commands come one by   *)
(* one. Of a topic on which the two differ, the command under way, or Unmount, *)
(* is still to tell the broker, or to delete the queue.                       *)
Pending == unmount \in {"close", "disconnect", "late"}

Withdrawing(c, t) ==
  \/ pc[c] = "disconnect"
  \/ topic[c] = t /\ pc[c] \in {"recheck", "withdraw", "wireUnsubscribe"}

Restoring(c, t) ==
  \/ pc[c] = "snapshot"
  \/ pc[c] \in {"restore", "wireRestore"} /\ t \in todo[c]
  \/ topic[c] = t /\ pc[c] \in Addressing

(* What a command knows of the topic it has come to.                          *)
Informed(c) ==
  /\ pc[c] \in {"wireSubscribe", "undo"} => topic[c] \notin wire \ ghosts
  /\ pc[c] = "wireRestore" => queues[topic[c]] # 0 \/ Pending \/ ~connected \/ topic[c] \in ghosts
  /\ pc[c] \in {"withdraw", "wireUnsubscribe"} => queues[topic[c]] = 0
  /\ pc[c] \in {"recheck", "withdraw", "wireUnsubscribe"} => topic[c] \in Topics

OneAtATime == \A c, d \in Clients : pc[c] # "idle" /\ pc[d] # "idle" => c = d

Ghostless ==
  \A t \in wire \ ghosts : queues[t] # 0 \/ Pending \/ \E c \in Clients : Withdrawing(c, t)

Lossless ==
  connected => \A t \in Topics : queues[t] # 0 => t \in wire \/ \E c \in Clients : Restoring(c, t)

OneByOne == OneAtATime /\ Ghostless /\ \A c \in Clients : Informed(c)

BrokerInductive ==
  /\ "overlap" \notin trouble => OneByOne
  /\ trouble = {} => Lossless

(* The same of the one command there is.                                      *)
Ghosts(c) == \A t \in wire \ ghosts : queues[t] # 0 \/ Pending \/ Withdrawing(c, t)
Losses(c) == connected => \A t \in Topics : queues[t] # 0 => t \in wire \/ Restoring(c, t)
Single(c) == \A d \in Clients \ {c} : pc[d] = "idle"

Consistent(c) == Ghosts(c) /\ Informed(c)

AsOne ==
  \A c \in Clients : Single(c) =>
    /\ (OneByOne => Consistent(c)) /\ (Consistent(c) => OneByOne)
    /\ (Lossless => Losses(c)) /\ (Losses(c) => Lossless)

LEMMA ByOne == AsOne
<1> SUFFICES ASSUME NEW c \in Clients, Single(c)
             PROVE  /\ (OneByOne => Consistent(c)) /\ (Consistent(c) => OneByOne)
                    /\ (Lossless => Losses(c)) /\ (Losses(c) => Lossless)
  BY DEF AsOne
<1>1. OneAtATime /\ \A d \in Clients \ {c} : Informed(d)
  BY DEF Single, OneAtATime, Informed
<1>2. \A d \in Clients \ {c} : \A t : ~Withdrawing(d, t) /\ ~Restoring(d, t)
  BY DEF Single, Withdrawing, Restoring, Addressing
<1>3. (Ghosts(c) => Ghostless) /\ (Ghostless => Ghosts(c))
  BY <1>2 DEF Ghosts, Ghostless
<1>4. (Losses(c) => Lossless) /\ (Lossless => Losses(c))
  BY <1>2 DEF Losses, Lossless
<1>5. QED BY <1>1, <1>3, <1>4 DEF OneByOne, Consistent

LEMMA ByOneNext == AsOne'
BY ByOne, PTL

(* A command that moves without having begun beside another is the only one.  *)
LEMMA MovesAlone ==
  ASSUME NEW c \in Clients, "overlap" \notin trouble', Subs!History, OneAtATime,
         \A d \in Clients \ {c} : pc'[d] = pc[d], pc[c] # "idle" \/ pc'[c] # "idle"
  PROVE  Single(c) /\ Single(c)'
<1>1. CASE pc[c] # "idle"
  BY <1>1 DEF OneAtATime, Single
<1>2. CASE pc[c] = "idle"
  <2>1. c \notin Subs!Overlapping
    BY DEF Subs!History
  <2>2. QED BY <1>2, <2>1 DEF Subs!Overlapping, Single
<1>3. QED BY <1>1, <1>2

LEMMA SubscribeMirrored ==
  ASSUME Books, NEW c \in Clients, Consistent(c)
  PROVE  /\ \A t \in Topics : Subs!Subscribe(c, t) => Consistent(c)' /\ (Losses(c) => Losses(c)')
         /\ Subs!SubscribeOnWire(c) => Consistent(c)' /\ (Losses(c) => Losses(c)')
         /\ Subs!SubscribeFails(c) => Consistent(c)' /\ (Losses(c) => Losses(c)')
         /\ Subs!SubscribeSucceeds(c) => Consistent(c)' /\ (Losses(c) => Losses(c)')
         /\ Subs!SubscribeCancelled(c) => Consistent(c)' /\ (Losses(c) => Losses(c)')
         /\ Subs!Withdraw(c) => Consistent(c)' /\ (Losses(c) => Losses(c)')
<1> USE DEF Consistent, Ghosts, Losses, Informed, Pending, Withdrawing, Restoring, Addressing,
            Subs!Goto, Subs!Finish, Subs!table, Subs!teardown, Subs!broker
<1>0. /\ Subs!TablesOK /\ Subs!CallsOK /\ Places
  BY DEF Books
<1>1. ASSUME NEW t \in Topics, Subs!Subscribe(c, t)
      PROVE  Consistent(c)' /\ (Losses(c) => Losses(c)')
  BY <1>0, <1>1 DEF Subs!Subscribe, Subs!MayPlace, Subs!TablesOK, Subs!CallsOK, Places
<1>2. ASSUME Subs!SubscribeOnWire(c)
      PROVE  Consistent(c)' /\ (Losses(c) => Losses(c)')
  <2>1. topic[c] \in Topics
    BY <1>0, <1>2 DEF Places, Subs!SubscribeOnWire
  <2>2. QED
    BY <1>0, <1>2, <2>1 DEF Subs!SubscribeOnWire, Subs!WireSubscribed, Subs!WireRefused,
     Subs!WireUnanswered, Subs!CallsOK
<1>3. ASSUME Subs!SubscribeFails(c)
      PROVE  Consistent(c)' /\ (Losses(c) => Losses(c)')
  BY <1>0, <1>3 DEF Subs!SubscribeFails, Subs!TablesOK, Subs!CallsOK, Places
<1>4. ASSUME Subs!SubscribeSucceeds(c)
      PROVE  Consistent(c)' /\ (Losses(c) => Losses(c)')
  BY <1>0, <1>4 DEF Subs!SubscribeSucceeds, Subs!CallsOK
<1>5. ASSUME Subs!SubscribeCancelled(c)
      PROVE  Consistent(c)' /\ (Losses(c) => Losses(c)')
  BY <1>0, <1>5 DEF Subs!SubscribeCancelled, Subs!CallsOK
<1>6. ASSUME Subs!Withdraw(c)
      PROVE  Consistent(c)' /\ (Losses(c) => Losses(c)')
  BY <1>0, <1>6 DEF Subs!Withdraw, Subs!WireUnsubscribed, Subs!WireKept, Subs!CallsOK
<1>7. QED BY <1>1, <1>2, <1>3, <1>4, <1>5, <1>6

LEMMA UnsubscribeMirrored ==
  ASSUME Books, NEW c \in Clients, Consistent(c)
  PROVE  /\ \A t \in Topics : Subs!Unsubscribe(c, t) => Consistent(c)' /\ (Losses(c) => Losses(c)')
         /\ Subs!UnsubscribeOnWire(c) => Consistent(c)' /\ (Losses(c) => Losses(c)')
<1> USE DEF Consistent, Ghosts, Losses, Informed, Pending, Withdrawing, Restoring, Addressing,
            Subs!Goto, Subs!Finish, Subs!table, Subs!teardown, Subs!broker
<1>0. Subs!TablesOK /\ Subs!CallsOK
  BY DEF Books
<1>1. ASSUME NEW t \in Topics, Subs!Unsubscribe(c, t)
      PROVE  Consistent(c)' /\ (Losses(c) => Losses(c)')
  BY <1>0, <1>1 DEF Subs!Unsubscribe, Subs!TablesOK, Subs!CallsOK
<1>2. ASSUME Subs!UnsubscribeOnWire(c)
      PROVE  Consistent(c)' /\ (Losses(c) => Losses(c)')
  BY <1>0, <1>2 DEF Subs!UnsubscribeOnWire, Subs!WireUnsubscribed, Subs!WireKept, Subs!CallsOK
<1>3. QED BY <1>1, <1>2

LEMMA ConnectMirrored ==
  ASSUME Books, NEW c \in Clients, Consistent(c)
  PROVE  /\ Subs!Connect(c) => Consistent(c)' /\ (Losses(c) => Losses(c)')
         /\ Subs!ConnectOnWire(c) => Consistent(c)' /\ (Losses(c) => Losses(c)')
         /\ Subs!SnapshotTopics(c) => Consistent(c)' /\ (Losses(c) => Losses(c)')
         /\ \A t \in Topics : Subs!RestoreTopic(c, t) => Consistent(c)' /\ (Losses(c) => Losses(c)')
         /\ Subs!ConnectReturns(c) => Consistent(c)' /\ (Losses(c) => Losses(c)')
<1> USE DEF Consistent, Ghosts, Losses, Informed, Pending, Withdrawing, Restoring, Addressing,
            Subs!Goto, Subs!Finish, Subs!table, Subs!teardown, Subs!broker
<1>0. Subs!CallsOK
  BY DEF Books
<1>1. ASSUME Subs!Connect(c)
      PROVE  Consistent(c)' /\ (Losses(c) => Losses(c)')
  BY <1>0, <1>1 DEF Subs!Connect, Subs!CallsOK
<1>2. ASSUME Subs!ConnectOnWire(c)
      PROVE  Consistent(c)' /\ (Losses(c) => Losses(c)')
  BY <1>0, <1>2 DEF Subs!ConnectOnWire, Subs!NewSession, Subs!CallsOK
<1>3. ASSUME Subs!SnapshotTopics(c)
      PROVE  Consistent(c)' /\ (Losses(c) => Losses(c)')
  BY <1>0, <1>3 DEF Subs!SnapshotTopics, Subs!CallsOK
<1>4. ASSUME NEW t \in Topics, Subs!RestoreTopic(c, t)
      PROVE  Consistent(c)' /\ (Losses(c) => Losses(c)')
  BY <1>0, <1>4 DEF Subs!RestoreTopic, Subs!StillThere, Subs!CallsOK
<1>5. ASSUME Subs!ConnectReturns(c)
      PROVE  Consistent(c)' /\ (Losses(c) => Losses(c)')
  BY <1>0, <1>5 DEF Subs!ConnectReturns, Subs!CallsOK
<1>6. QED BY <1>1, <1>2, <1>3, <1>4, <1>5

(* A refusal of the broker is recorded: what it refused is not claimed.       *)
LEMMA RestoreMirrored ==
  ASSUME Books, NEW c \in Clients, Consistent(c), Subs!RestoreOnWire(c), Subs!History
  PROVE  Consistent(c)' /\ (trouble' = {} /\ Losses(c) => Losses(c)')
<1> USE DEF Consistent, Ghosts, Losses, Informed, Pending, Withdrawing, Restoring, Addressing,
            Subs!Goto, Subs!table, Subs!teardown, Subs!broker
<1>0. Subs!CallsOK /\ topic[c] \in Topics
  BY DEF Books, Places, Subs!RestoreOnWire
<1>1. Consistent(c)'
  BY <1>0 DEF Subs!RestoreOnWire, Subs!WireSubscribed, Subs!WireRefused, Subs!CallsOK
<1>2. trouble' = {} => ~connected \/ topic[c] \in wire'
  BY <1>0 DEF Subs!History, Subs!Refused, Subs!RestoreOnWire, Subs!CallsOK
<1>3. ASSUME trouble' = {}, Losses(c) PROVE Losses(c)'
  BY <1>0, <1>2, <1>3 DEF Subs!RestoreOnWire, Subs!WireSubscribed, Subs!WireRefused, Subs!CallsOK
<1>4. QED BY <1>1, <1>3

LEMMA DisconnectMirrored ==
  ASSUME Books, NEW c \in Clients, Consistent(c)
  PROVE  /\ Subs!Disconnect(c) => Consistent(c)' /\ (Losses(c) => Losses(c)')
         /\ Subs!DisconnectSwap(c) => Consistent(c)' /\ (Losses(c) => Losses(c)')
         /\ Subs!DisconnectOnWire(c) => Consistent(c)' /\ (Losses(c) => Losses(c)')
         /\ Subs!DisconnectCloses(c) => Consistent(c)' /\ (Losses(c) => Losses(c)')
<1> USE DEF Consistent, Ghosts, Losses, Informed, Pending, Withdrawing, Restoring, Addressing,
            Subs!Goto, Subs!Finish, Subs!table, Subs!teardown, Subs!broker
<1>0. Subs!CallsOK
  BY DEF Books
<1>1. ASSUME Subs!Disconnect(c)
      PROVE  Consistent(c)' /\ (Losses(c) => Losses(c)')
  BY <1>0, <1>1 DEF Subs!Disconnect, Subs!CallsOK
<1>2. ASSUME Subs!DisconnectSwap(c)
      PROVE  Consistent(c)' /\ (Losses(c) => Losses(c)')
  BY <1>0, <1>2 DEF Subs!DisconnectSwap, Subs!NoQueues, Subs!CallsOK
<1>3. ASSUME Subs!DisconnectOnWire(c)
      PROVE  Consistent(c)' /\ (Losses(c) => Losses(c)')
  BY <1>0, <1>3 DEF Subs!DisconnectOnWire, Subs!NewSession, Subs!WireKept, Subs!CallsOK
<1>4. ASSUME Subs!DisconnectCloses(c)
      PROVE  Consistent(c)' /\ (Losses(c) => Losses(c)')
  BY <1>0, <1>4 DEF Subs!DisconnectCloses, Subs!CallsOK
<1>5. QED BY <1>1, <1>2, <1>3, <1>4

LEMMA CommandMoves ==
  ASSUME Books, NEW c \in Clients, Subs!Client(c)
  PROVE  (\A d \in Clients \ {c} : pc'[d] = pc[d]) /\ (pc[c] # "idle" \/ pc'[c] # "idle")
<1> USE DEF Subs!Goto, Subs!Finish, Subs!table, Subs!teardown, Subs!broker
<1>0. Subs!CallsOK
  BY DEF Books
<1>1. ASSUME NEW t \in Topics, Subs!Subscribe(c, t) \/ Subs!Unsubscribe(c, t) \/ Subs!RestoreTopic(c, t)
      PROVE  (\A d \in Clients \ {c} : pc'[d] = pc[d]) /\ (pc[c] # "idle" \/ pc'[c] # "idle")
  BY <1>0, <1>1 DEF Subs!Subscribe, Subs!Unsubscribe, Subs!RestoreTopic, Subs!CallsOK
<1>2. CASE \/ Subs!SubscribeOnWire(c) \/ Subs!SubscribeFails(c) \/ Subs!SubscribeSucceeds(c)
           \/ Subs!SubscribeCancelled(c) \/ Subs!Withdraw(c) \/ Subs!UnsubscribeOnWire(c)
  BY <1>0, <1>2 DEF Subs!SubscribeOnWire, Subs!SubscribeFails, Subs!SubscribeSucceeds,
     Subs!SubscribeCancelled, Subs!Withdraw, Subs!UnsubscribeOnWire, Subs!CallsOK
<1>3. CASE \/ Subs!Connect(c) \/ Subs!ConnectOnWire(c) \/ Subs!SnapshotTopics(c)
           \/ Subs!RestoreOnWire(c) \/ Subs!ConnectReturns(c)
  BY <1>0, <1>3 DEF Subs!Connect, Subs!ConnectOnWire, Subs!SnapshotTopics,
     Subs!RestoreOnWire, Subs!ConnectReturns, Subs!CallsOK
<1>4. CASE \/ Subs!Disconnect(c) \/ Subs!DisconnectSwap(c) \/ Subs!DisconnectOnWire(c)
           \/ Subs!DisconnectCloses(c)
  BY <1>0, <1>4 DEF Subs!Disconnect, Subs!DisconnectSwap, Subs!DisconnectOnWire,
     Subs!DisconnectCloses, Subs!CallsOK
<1>5. QED BY <1>1, <1>2, <1>3, <1>4 DEF Subs!Client

LEMMA CommandAgrees ==
  ASSUME Books, BrokerInductive, Subs!History, NEW c \in Clients, Subs!Client(c)
  PROVE  BrokerInductive'
<1>1. trouble \subseteq trouble'
  BY DEF Subs!History
<1>2. Consistent(c) => Consistent(c)' /\ (trouble' = {} /\ Losses(c) => Losses(c)')
  BY SubscribeMirrored, UnsubscribeMirrored, ConnectMirrored, RestoreMirrored,
     DisconnectMirrored DEF Subs!Client
<1>3. ASSUME "overlap" \notin trouble'
      PROVE  OneByOne' /\ (trouble' = {} => Lossless')
  <2>1. OneByOne /\ (trouble' = {} => Lossless)
    BY <1>1, <1>3 DEF BrokerInductive
  <2>2. Single(c) /\ Single(c)'
    BY <1>3, <2>1, CommandMoves, MovesAlone DEF OneByOne
  <2>3. Consistent(c) /\ (trouble' = {} => Losses(c))
    BY <2>1, <2>2, ByOne DEF AsOne
  <2>4. Consistent(c)' /\ (trouble' = {} => Losses(c)')
    BY <1>2, <2>3
  <2>5. QED BY <2>2, <2>4, ByOneNext DEF AsOne
<1>4. QED BY <1>3 DEF BrokerInductive

(* Unmount and a loss of the connection, in the middle of whatever command.   *)
LEMMA UnmountMirrored ==
  ASSUME Subs!FlagsOK, Books, Subs!Unmount
  PROVE  (OneByOne => OneByOne') /\ (Lossless => Lossless')
<1> USE DEF OneByOne, OneAtATime, Ghostless, Lossless, Informed, Pending, Withdrawing, Restoring,
            Addressing, Subs!table, Subs!calls, Subs!broker
<1>0. wire \subseteq Topics /\ \A c \in Clients : pc[c] \in Addressing => topic[c] \in Topics
  BY DEF Subs!FlagsOK, Books, Places
<1>1. CASE Subs!BeginShutdown
  BY <1>1 DEF Subs!BeginShutdown
<1>2. CASE Subs!UnmountSwap
  BY <1>2 DEF Subs!UnmountSwap, Subs!TakeTable, Subs!NoQueues
<1>3. CASE Subs!UnmountCloses
  BY <1>3 DEF Subs!UnmountCloses
<1>4. CASE Subs!UnmountOnWire
  BY <1>0, <1>4 DEF Subs!UnmountOnWire, Subs!NewSession, Subs!WireKept
<1>5. CASE Subs!UnmountTimesOut
  BY <1>5 DEF Subs!UnmountTimesOut
<1>6. CASE Subs!LateDisconnect
  BY <1>0, <1>6 DEF Subs!LateDisconnect, Subs!NewSession, Subs!WireKept
<1>7. QED BY <1>1, <1>2, <1>3, <1>4, <1>5, <1>6 DEF Subs!Unmount

LEMMA LossMirrored ==
  ASSUME Subs!ConnectionLost
  PROVE  (OneByOne => OneByOne') /\ (Lossless => Lossless')
BY DEF Subs!ConnectionLost, Subs!NewSession, OneByOne, OneAtATime, Ghostless, Lossless, Informed, Pending,
   Withdrawing, Restoring, Addressing, Subs!table, Subs!calls, Subs!teardown

LEMMA StutterMirrored ==
  ASSUME UNCHANGED Subs!vars
  PROVE  trouble' = trouble /\ (OneByOne => OneByOne') /\ (Lossless => Lossless')
BY DEF OneByOne, OneAtATime, Ghostless, Lossless, Informed, Pending, Withdrawing, Restoring,
   Addressing, Subs!vars, Subs!table, Subs!calls, Subs!teardown, Subs!broker

LEMMA BrokerStep ==
  ASSUME Subs!FlagsOK, Books, BrokerInductive, [Subs!Next]_(Subs!vars)
  PROVE  BrokerInductive'
<1>1. ASSUME trouble \subseteq trouble', (OneByOne => OneByOne') /\ (Lossless => Lossless')
      PROVE  BrokerInductive'
  BY <1>1 DEF BrokerInductive
<1>2. Subs!Next => trouble \subseteq trouble' /\ Subs!History
  BY DEF Subs!Next, Subs!History
<1>3. CASE Subs!Next /\ Subs!Unmount
  BY <1>1, <1>2, <1>3, UnmountMirrored
<1>4. CASE Subs!Next /\ Subs!ConnectionLost
  BY <1>1, <1>2, <1>4, LossMirrored
<1>5. CASE UNCHANGED Subs!vars
  BY <1>1, <1>5, StutterMirrored
<1>6. CASE Subs!Next /\ \E c \in Clients : Subs!Client(c)
  BY <1>2, <1>6, CommandAgrees
<1>7. QED BY <1>3, <1>4, <1>5, <1>6 DEF Subs!Next, Subs!Closed

LEMMA BrokerInit == Subs!Init => BrokerInductive
BY DEF Subs!Init, Subs!NoQueues, BrokerInductive, OneByOne, OneAtATime, Ghostless, Lossless, Informed

LEMMA BrokerSound == BrokerInductive => Subs!BrokerAgrees
<1> SUFFICES ASSUME BrokerInductive, Subs!AtRest PROVE Subs!BrokerAgrees
  BY DEF Subs!BrokerAgrees, Subs!NoGhost, Subs!NoSilentLoss
<1>1. ~Pending /\ \A c \in Clients : \A t : ~Withdrawing(c, t) /\ ~Restoring(c, t)
  BY DEF Subs!AtRest, Pending, Withdrawing, Restoring, Addressing
<1>2. Subs!NoGhost
  BY <1>1 DEF Subs!NoGhost, BrokerInductive, OneByOne, Ghostless
<1>3. Subs!NoSilentLoss
  BY <1>1 DEF Subs!NoSilentLoss, BrokerInductive, Lossless
<1>4. QED BY <1>2, <1>3 DEF Subs!BrokerAgrees

(* As long as commands come one by one, with an Unmount, refusals and losses  *)
(* of the connection at any moment: at rest the broker has no subscription    *)
(* without a queue but those that calls which failed left in this session,    *)
(* and unless it refused one to a reconnection, no queue is without its       *)
(* subscription while the session lasts, whatever else failed.                *)
THEOREM BrokerAgreesHolds == Spec => []BrokerAgrees
<1> USE PartsAssumption
<1>1. Init => Subs!FlagsOK /\ Books /\ BrokerInductive
  BY SubsInit, BrokerInit DEF Init, Rest
<1>2. Subs!FlagsOK /\ Books /\ BrokerInductive /\ [Next]_vars => (Subs!FlagsOK /\ Books /\ BrokerInductive)'
  <2>1. [Next]_vars => [Subs!Next]_(Subs!vars)
    BY OneMoves DEF subscriptionsVars, Subs!vars, Subs!table, Subs!calls, Subs!teardown, Subs!broker
  <2>2. QED BY <2>1, FlagsStep, BooksStep, BrokerStep
<1>3. BrokerInductive => BrokerAgrees
  BY BrokerSound DEF BrokerAgrees
<1>4. QED BY <1>1, <1>2, <1>3, PTL DEF Spec
-----------------------------------------------------------------------------
(* The credentials of InfluxDBData and InfluxAbility. A setter that has read  *)
(* the configuration holds d.mu until it writes it back, an operation holds a *)
(* copy of the token, and the ability remembers the revision of whatever its  *)
(* transport has served.                                                      *)
Settings == [phase : {"set"}, field : Influx!Fields, config : Influx!Configs]
Copies == [value : Tokens \cup {Influx!NoToken}, owned : {TRUE}]
OperationPhases == {"admit", "transport", "operate", "note"}
Operations ==
  [phase : OperationPhases, revision : 1 .. MaxRevision, token : Copies,
   wanted : Tokens \cup {Influx!NoToken}, points : SUBSET Measurements, transport : 0 .. MaxTransports]
Stores == [config : Influx!Configs, secret : Tokens \cup {Influx!NoToken}, revision : 0 .. MaxRevision]
InfluxCalls == {Influx!Idle} \cup Settings \cup Operations

InfluxTyped ==
  /\ store \in Stores /\ expected \in Influx!Configs
  /\ mu \in Clients \cup {Influx!Free} /\ influxTransport \in 0 .. MaxTransports
  /\ lastRevision \in 0 .. MaxRevision
  /\ influxCall \in [Clients -> InfluxCalls]
  /\ served \in [1 .. MaxTransports -> SUBSET (1 .. MaxRevision)]

(* Revisions count from 1 once there is an endpoint to operate with.          *)
Unnumbered == store.revision = 0 => \A f \in Influx!Fields : store.config[f] = Influx!Unset

(* What a setter is about to write is the configuration in force but for its  *)
(* field, since whoever else writes one waits for d.mu.                       *)
OneField(x) == x.config = [store.config EXCEPT ![x.field] = x.config[x.field]]
OneSetter == \A c \in Clients : influxCall[c].phase = "set" => mu = c /\ OneField(influxCall[c])

TokensKept == \A c \in Clients : influxCall[c].phase \in OperationPhases => influxCall[c].token.value = influxCall[c].wanted

Written ==
  /\ series \in SUBSET Measurements /\ series \subseteq written
  /\ Cardinality(series) <= influxMaxSeries
  /\ \A c \in Clients : influxCall[c].phase = "note" => influxCall[c].points \subseteq written

(* What an operation knows of the transport, and what the ability remembers   *)
(* of it between operations.                                                  *)
Serves(x) ==
  /\ x.phase \in {"operate", "note"} => x.transport = influxTransport /\ influxTransport # 0
  /\ x.phase \in {"transport", "operate", "note"} => lastRevision \in {0, x.revision}
  /\ x.phase = "note" => served[influxTransport] = {x.revision}

Remembers ==
  influxTransport # 0 =>
    /\ lastRevision = 0 => served[influxTransport] = {}
    /\ lastRevision # 0 => served[influxTransport] = {lastRevision}

Operates(c) == influxCall[c].phase \in OperationPhases
Served ==
  /\ \A t \in 1 .. MaxTransports : t > influxTransport => served[t] = {}
  /\ \A t \in 1 .. MaxTransports : \A r, q \in served[t] : r = q
  /\ influxTransport = 0 => lastRevision = 0

Faithful ==
  /\ \A c, d \in Clients : Operates(c) /\ Operates(d) => c = d
  /\ \A c \in Clients : Operates(c) => Serves(influxCall[c])
  /\ (\A c \in Clients : influxCall[c].phase # "note") => Remembers
  /\ Served

Overlapped == overlap \in BOOLEAN
InfluxBooks == InfluxTyped /\ Unnumbered /\ store.config = expected /\ OneSetter /\ TokensKept

LEMMA CredentialsInit ==
  ASSUME Influx!CredentialsAssumption, Influx!Init
  PROVE  InfluxBooks /\ Written /\ Faithful /\ Overlapped
<1>1. \A c \in Clients : influxCall[c] = Influx!Idle /\ influxCall[c].phase = "idle"
  BY DEF Influx!Init, Influx!Idle
<1>2. InfluxTyped
  BY DEF Influx!Init, Influx!CredentialsAssumption, InfluxTyped, Stores, InfluxCalls, Influx!Configs
<1>3. Unnumbered /\ store.config = expected
  BY DEF Influx!Init, Unnumbered
<1>4. OneSetter /\ TokensKept
  BY <1>1 DEF OneSetter, TokensKept, OperationPhases
<1>5. Written
  BY <1>1, FS_EmptySet DEF Influx!Init, Written, Influx!CredentialsAssumption
<1>6. Faithful /\ Overlapped
  BY <1>1 DEF Influx!Init, Faithful, Operates, OperationPhases, Remembers, Served, Overlapped
<1>7. QED BY <1>2, <1>3, <1>4, <1>5, <1>6 DEF InfluxBooks

(* Of what kind a call is.                                                    *)
LEMMA InfluxKinds ==
  ASSUME InfluxTyped, NEW c \in Clients
  PROVE  /\ influxCall[c].phase \in OperationPhases => influxCall[c] \in Operations
         /\ influxCall[c].phase = "set" => influxCall[c] \in Settings
         /\ influxCall[c].phase \notin OperationPhases \cup {"set"} => influxCall[c] = Influx!Idle
         /\ Influx!Idle.phase = "idle"
<1>1. influxCall[c] \in InfluxCalls
  BY DEF InfluxTyped
<1>2. Influx!Idle.phase = "idle" /\ \A x \in Settings : x.phase = "set"
  BY DEF Influx!Idle, Settings
<1>3. \A x \in Operations : x.phase \in OperationPhases
  BY DEF Operations
<1>4. QED BY <1>1, <1>2, <1>3 DEF InfluxCalls, OperationPhases

(* A step of one call to another state.                                       *)
LEMMA InfluxMoves ==
  ASSUME InfluxTyped, NEW c \in Clients, NEW next \in InfluxCalls, Influx!Goto(c, next)
  PROVE  /\ influxCall' \in [Clients -> InfluxCalls] /\ influxCall'[c] = next
         /\ \A d \in Clients \ {c} : influxCall'[d] = influxCall[d]
BY DEF InfluxTyped, Influx!Goto

Phased(x, p) == [x EXCEPT !.phase = p]
Bound(x, t) == [x EXCEPT !.phase = "operate", !.transport = t]

SameOperation(x, y) ==
  y.revision = x.revision /\ y.token = x.token /\ y.wanted = x.wanted /\ y.points = x.points

LEMMA OperationMoves ==
  ASSUME NEW x \in Operations
  PROVE  /\ \A p \in OperationPhases :
              /\ Phased(x, p) \in Operations /\ Phased(x, p).phase = p
              /\ Phased(x, p).transport = x.transport /\ SameOperation(x, Phased(x, p))
         /\ \A t \in 0 .. MaxTransports :
              /\ Bound(x, t) \in Operations /\ Bound(x, t).phase = "operate"
              /\ Bound(x, t).transport = t /\ SameOperation(x, Bound(x, t))
<1>1. PICK a \in OperationPhases, r \in 1 .. MaxRevision, k \in Copies, w \in Tokens \cup {Influx!NoToken},
           m \in SUBSET Measurements, n \in 0 .. MaxTransports :
        x = [phase |-> a, revision |-> r, token |-> k, wanted |-> w, points |-> m, transport |-> n]
  BY DEF Operations
<1>2. ASSUME NEW p \in OperationPhases
      PROVE  /\ Phased(x, p) \in Operations /\ Phased(x, p).phase = p
             /\ Phased(x, p).transport = x.transport /\ SameOperation(x, Phased(x, p))
  <2>1. Phased(x, p) =
          [phase |-> p, revision |-> r, token |-> k, wanted |-> w, points |-> m, transport |-> n]
    BY <1>1 DEF Phased
  <2>2. QED BY <1>1, <2>1 DEF SameOperation, Operations
<1>3. ASSUME NEW t \in 0 .. MaxTransports
      PROVE  /\ Bound(x, t) \in Operations /\ Bound(x, t).phase = "operate"
             /\ Bound(x, t).transport = t /\ SameOperation(x, Bound(x, t))
  <2>1. PICK y : y = Bound(x, t)
    OBVIOUS
  <2>2. y = [phase |-> "operate", revision |-> r, token |-> k, wanted |-> w, points |-> m, transport |-> t]
    BY <1>1, <2>1 DEF Bound
  <2>3. "operate" \in OperationPhases
    BY DEF OperationPhases
  <2>4. QED BY <1>1, <2>1, <2>2, <2>3 DEF SameOperation, Operations
<1>4. QED BY <1>2, <1>3

(* A step of an operation leaves the configuration alone.                     *)
LEMMA OperationBooks ==
  ASSUME InfluxBooks, NEW c \in Clients, NEW next \in {Influx!Idle} \cup Operations,
         influxCall[c].phase # "set", Influx!Goto(c, next),
         next.phase \in OperationPhases => next.token.value = next.wanted,
         store' = store, mu' = mu, expected' = expected, influxTransport' = influxTransport,
         lastRevision' \in 0 .. MaxRevision,
         served' \in [1 .. MaxTransports -> SUBSET (1 .. MaxRevision)]
  PROVE  InfluxBooks'
<1>1. /\ influxCall' \in [Clients -> InfluxCalls] /\ influxCall'[c] = next
      /\ \A d \in Clients \ {c} : influxCall'[d] = influxCall[d]
  BY InfluxMoves DEF InfluxBooks, InfluxCalls
<1>2. InfluxTyped'
  BY <1>1 DEF InfluxBooks, InfluxTyped, InfluxCalls, Settings, Operations, Stores, Copies
<1>3. next.phase # "set"
  BY DEF Influx!Idle, Operations, OperationPhases
<1>4. (store.config = expected)' /\ Unnumbered'
  BY DEF InfluxBooks, Unnumbered
<1>5. OneSetter'
  BY <1>1, <1>3 DEF InfluxBooks, OneSetter, OneField
<1>6. TokensKept'
  BY <1>1 DEF InfluxBooks, TokensKept
<1>7. QED BY <1>2, <1>4, <1>5, <1>6 DEF InfluxBooks

(* The steps of the store. What they leave alone of an operation is all of it. *)
NoOperation(x) == x.phase \in {"idle", "set"}
OperationsRest ==
  \A c \in Clients :
    \/ influxCall'[c] = influxCall[c]
    \/ NoOperation(influxCall[c]) /\ NoOperation(influxCall'[c])

Resting ==
  /\ OperationsRest
  /\ influxTransport' = influxTransport /\ lastRevision' = lastRevision
  /\ series' = series /\ served' = served /\ written' = written

LEMMA SecretSteps ==
  ASSUME InfluxBooks, Influx!CredentialsAssumption, NEW c \in Clients, NEW key \in Tokens \cup {Influx!NoToken}, Influx!SetSecret(c, key)
  PROVE  InfluxBooks' /\ Resting
<1>1. \A d \in Clients : d \in Influx!Operating => influxCall[d].token.owned
  BY InfluxKinds DEF InfluxBooks, Influx!Operating, OperationPhases, Operations, Copies
<1>2. influxCall' = influxCall
  BY <1>1 DEF Influx!SetSecret, Influx!Zeroes, InfluxBooks, InfluxTyped
<1>3. /\ store' = [config |-> store.config, secret |-> key, revision |-> store.revision + 1]
      /\ store.revision < MaxRevision
  BY DEF Influx!SetSecret, Influx!Revised, InfluxBooks, InfluxTyped, Stores
<1>4. /\ mu' = mu /\ expected' = expected /\ influxTransport' = influxTransport /\ lastRevision' = lastRevision
      /\ series' = series /\ served' = served /\ written' = written
  BY DEF Influx!SetSecret, Influx!ability, Influx!history
<1>5. store' \in Stores /\ store'.config = store.config /\ store'.revision # 0
  BY <1>3 DEF InfluxBooks, InfluxTyped, Stores, Influx!CredentialsAssumption
<1>6. InfluxBooks'
  BY <1>2, <1>4, <1>5
  DEF InfluxBooks, InfluxTyped, Unnumbered, OneSetter, OneField, TokensKept, Settings, Operations, Copies, InfluxCalls
<1>7. QED BY <1>2, <1>4, <1>6 DEF Resting, OperationsRest

LEMMA SetterSteps ==
  ASSUME InfluxBooks, Influx!CredentialsAssumption, NEW c \in Clients
  PROVE  /\ \A f \in Influx!Fields, v \in Values : Influx!SetterReads(c, f, v) => InfluxBooks' /\ Resting
         /\ Influx!SetterWrites(c) => InfluxBooks' /\ Resting
         /\ \A cfg \in [Influx!Fields -> Values] : Influx!ConfigureCommand(c, cfg) => InfluxBooks' /\ Resting
<1>1. c # Influx!Free
  BY DEF Influx!CredentialsAssumption, Influx!Free
<1>2. ASSUME NEW f \in Influx!Fields, NEW v \in Values, Influx!SetterReads(c, f, v)
      PROVE  InfluxBooks' /\ Resting
  <2> PICK fresh : fresh = [store.config EXCEPT ![f] = v]
    OBVIOUS
  <2> PICK next : next = [phase |-> "set", field |-> f, config |-> fresh]
    OBVIOUS
  <2>1. store.config \in Influx!Configs
    BY DEF InfluxBooks, InfluxTyped, Stores
  <2>2. fresh \in Influx!Configs /\ fresh[f] = v
    BY <2>1 DEF Influx!Configs
  <2>3. next \in Settings /\ next.phase = "set" /\ next.field = f /\ next.config = fresh
    BY <2>2 DEF Settings
  <2>4. /\ influxCall[c] = Influx!Idle /\ Influx!Goto(c, next) /\ mu = Influx!Free /\ mu' = c
        /\ store' = store /\ expected' = expected
        /\ influxTransport' = influxTransport /\ lastRevision' = lastRevision
        /\ series' = series /\ served' = served /\ written' = written
    BY <1>2 DEF Influx!SetterReads, Influx!LockForSetter, Influx!ability, Influx!history
  <2>5. /\ influxCall' \in [Clients -> InfluxCalls] /\ influxCall'[c] = next
        /\ \A d \in Clients \ {c} : influxCall'[d] = influxCall[d]
    BY <2>3, <2>4, InfluxMoves DEF InfluxBooks, InfluxCalls
  <2>6. InfluxTyped'
    BY <2>4, <2>5 DEF InfluxBooks, InfluxTyped, InfluxCalls, Settings, Operations, Stores, Copies
  <2>7. \A d \in Clients : influxCall[d].phase # "set"
    BY <1>1, <2>4, InfluxKinds DEF InfluxBooks, OneSetter, Influx!CredentialsAssumption, Influx!Free
  <2>8. OneField(next)'
    BY <2>2, <2>3, <2>4 DEF OneField
  <2>9. OneSetter'
    BY <2>3, <2>4, <2>5, <2>7, <2>8 DEF OneSetter
  <2>10. TokensKept'
    BY <2>3, <2>5 DEF InfluxBooks, TokensKept, OperationPhases
  <2>11. OperationsRest
    BY <2>3, <2>4, <2>5, InfluxKinds DEF OperationsRest, NoOperation, InfluxBooks
  <2>12. QED BY <2>4, <2>6, <2>9, <2>10, <2>11 DEF InfluxBooks, Unnumbered, Resting
<1>3. ASSUME Influx!SetterWrites(c) PROVE InfluxBooks' /\ Resting
  <2>1. PICK x : x = influxCall[c]
    OBVIOUS
  <2>2. /\ x \in Settings /\ x.phase = "set" /\ mu = c /\ OneField(x)
    BY <1>3, <2>1, InfluxKinds DEF Influx!SetterWrites, InfluxBooks, OneSetter
  <2>3. x.config \in Influx!Configs /\ x.field \in Influx!Fields
    BY <2>2 DEF Settings
  <2>4. /\ store' = [config |-> x.config, secret |-> store.secret, revision |-> store.revision + 1]
        /\ store.revision < MaxRevision
    BY <1>3, <2>1 DEF Influx!SetterWrites, Influx!Configured, Influx!Revised, InfluxBooks, InfluxTyped, Stores
  <2>5. expected' = [expected EXCEPT ![x.field] = x.config[x.field]]
    BY <1>3, <2>1 DEF Influx!SetterWrites
  <2>6. expected' = x.config
    BY <2>2, <2>5 DEF OneField, InfluxBooks
  <2>7. store' \in Stores /\ store'.config = x.config /\ store'.revision # 0
    BY <2>3, <2>4 DEF InfluxBooks, InfluxTyped, Stores, Influx!CredentialsAssumption
  <2>8. /\ Influx!Goto(c, Influx!Idle) /\ mu' = Influx!Free
        /\ influxTransport' = influxTransport /\ lastRevision' = lastRevision
        /\ series' = series /\ served' = served /\ written' = written
    BY <1>3 DEF Influx!SetterWrites, Influx!ability
  <2>9. /\ influxCall' \in [Clients -> InfluxCalls] /\ influxCall'[c] = Influx!Idle
        /\ \A d \in Clients \ {c} : influxCall'[d] = influxCall[d]
    BY <2>8, InfluxMoves DEF InfluxBooks, InfluxCalls
  <2>10. InfluxTyped'
    BY <2>3, <2>6, <2>7, <2>8, <2>9 DEF InfluxBooks, InfluxTyped, InfluxCalls, Settings, Operations, Stores, Copies
  <2>11. OneSetter'
    BY <1>1, <2>2, <2>9, InfluxKinds DEF InfluxBooks, OneSetter
  <2>12. TokensKept'
    BY <2>9, InfluxKinds DEF InfluxBooks, TokensKept, OperationPhases
  <2>13. OperationsRest
    BY <2>1, <2>2, <2>9, InfluxKinds DEF OperationsRest, NoOperation, InfluxBooks
  <2>14. QED BY <2>6, <2>7, <2>8, <2>10, <2>11, <2>12, <2>13 DEF InfluxBooks, Unnumbered, Resting
<1>4. ASSUME NEW cfg \in [Influx!Fields -> Values], Influx!ConfigureCommand(c, cfg)
      PROVE  InfluxBooks' /\ Resting
  <2>1. cfg \in Influx!Configs
    BY DEF Influx!Configs
  <2>2. /\ store' = [config |-> cfg, secret |-> store.secret, revision |-> store.revision + 1]
        /\ store.revision < MaxRevision
    BY <1>4 DEF Influx!ConfigureCommand, Influx!Configured, Influx!Revised, InfluxBooks, InfluxTyped, Stores
  <2>3. store' \in Stores /\ store'.config = cfg /\ store'.revision # 0
    BY <2>1, <2>2 DEF InfluxBooks, InfluxTyped, Stores, Influx!CredentialsAssumption
  <2>4. /\ mu = Influx!Free /\ mu' = mu /\ expected' = cfg /\ influxCall' = influxCall
        /\ influxTransport' = influxTransport /\ lastRevision' = lastRevision
        /\ series' = series /\ served' = served /\ written' = written
    BY <1>4 DEF Influx!ConfigureCommand, Influx!LockForCommand, Influx!ability
  <2>5. \A d \in Clients : influxCall[d].phase # "set"
    BY <2>4 DEF InfluxBooks, OneSetter, Influx!CredentialsAssumption, Influx!Free
  <2>6. InfluxTyped'
    BY <2>1, <2>3, <2>4 DEF InfluxBooks, InfluxTyped, InfluxCalls, Settings, Operations, Stores, Copies
  <2>7. OneSetter' /\ TokensKept'
    BY <2>4, <2>5 DEF InfluxBooks, OneSetter, TokensKept
  <2>8. QED BY <2>3, <2>4, <2>6, <2>7 DEF InfluxBooks, Unnumbered, Resting, OperationsRest
<1>5. QED BY <1>2, <1>3, <1>4

LEMMA RestingKeeps ==
  ASSUME Resting
  PROVE  (Written => Written') /\ (Faithful => Faithful')
<1>1. \A c \in Clients :
        influxCall'[c] = influxCall[c] \/ (~Operates(c) /\ ~Operates(c)' /\ influxCall'[c].phase # "note" /\ influxCall[c].phase # "note")
  BY DEF Resting, OperationsRest, NoOperation, Operates, OperationPhases
<1>2. Written => Written'
  BY <1>1 DEF Resting, Written
<1>3. Faithful => Faithful'
  BY <1>1 DEF Resting, Faithful, Served, Remembers, Serves, Operates
<1>4. QED BY <1>2, <1>3

(* A step of the only operation there is.                                     *)
LEMMA FaithfulMoves ==
  ASSUME Faithful, NEW c \in Clients, influxTransport' = influxTransport,
         \A d \in Clients \ {c} : influxCall'[d] = influxCall[d] /\ ~Operates(d),
         Operates(c)' => Serves(influxCall[c])',
         influxCall'[c].phase # "note" => Remembers',
         Served'
  PROVE  Faithful'
BY DEF Faithful, Operates

LEMMA OnlyOperation ==
  ASSUME Faithful, NEW c \in Clients, Operates(c)
  PROVE  Serves(influxCall[c]) /\ \A d \in Clients \ {c} : ~Operates(d)
BY DEF Faithful

LEMMA ConnectionStep ==
  ASSUME InfluxBooks, Written, Influx!CredentialsAssumption, NEW c \in Clients,
         NEW points \in Influx!Points, Influx!ConnectionMaterial(c, points)
  PROVE  InfluxBooks' /\ Written' /\ ((\A d \in Clients : ~Operates(d)) /\ Faithful => Faithful')
<1>1. PICK next : next = [phase |-> "admit", revision |-> store.revision, token |-> Influx!Copied(store.secret),
                          wanted |-> store.secret, points |-> points, transport |-> 0]
  OBVIOUS
<1>2. next.phase = "admit" /\ next.token.value = next.wanted
  BY <1>1 DEF Influx!Copied
<1>3. /\ influxCall[c] = Influx!Idle /\ Influx!Goto(c, next) /\ store.config["endpoint"] # Influx!Unset
      /\ store' = store /\ mu' = mu /\ expected' = expected
      /\ influxTransport' = influxTransport /\ lastRevision' = lastRevision
      /\ series' = series /\ served' = served /\ written' = written
  BY <1>1 DEF Influx!ConnectionMaterial, Influx!ability
<1>4. store.revision \in 1 .. MaxRevision
  <2>1. "endpoint" \in Influx!Fields
    BY DEF Influx!Fields
  <2>2. store.revision # 0 /\ store.revision \in 0 .. MaxRevision
    BY <1>3, <2>1 DEF InfluxBooks, Unnumbered, InfluxTyped, Stores
  <2>3. QED BY <2>2 DEF Influx!CredentialsAssumption
<1>5. next \in Operations
  <2>1. store.secret \in Tokens \cup {Influx!NoToken} /\ points \in SUBSET Measurements
    BY DEF InfluxBooks, InfluxTyped, Stores, Influx!Points
  <2>2. 0 \in 0 .. MaxTransports
    BY DEF Influx!CredentialsAssumption
  <2>3. Influx!Copied(store.secret) \in Copies
    BY <2>1 DEF Influx!Copied, Copies
  <2>4. QED BY <1>1, <1>4, <2>1, <2>2, <2>3 DEF Operations, OperationPhases
<1>6. /\ influxCall'[c] = next
      /\ \A d \in Clients \ {c} : influxCall'[d] = influxCall[d]
  BY <1>3, <1>5, InfluxMoves DEF InfluxBooks, InfluxCalls
<1>7. InfluxBooks'
  BY <1>2, <1>3, <1>5, InfluxKinds, OperationBooks DEF InfluxBooks, InfluxTyped
<1>8. Written'
  BY <1>2, <1>3, <1>6 DEF Written
<1>9. ASSUME \A d \in Clients : ~Operates(d), Faithful PROVE Faithful'
  <2>1. Serves(influxCall[c])'
    BY <1>2, <1>6 DEF Serves
  <2>2. Served' /\ Remembers'
    BY <1>3, <1>9 DEF Faithful, Served, Remembers, Operates, OperationPhases
  <2>3. QED BY <1>3, <1>6, <1>9, <2>1, <2>2, FaithfulMoves
<1>10. QED BY <1>7, <1>8, <1>9

(* Admit, and the look at the transport.                                      *)
LEMMA AdmissionSteps ==
  ASSUME InfluxBooks, Written, NEW c \in Clients,
         Influx!Admit(c) \/ Influx!GetTransport(c)
  PROVE  InfluxBooks' /\ Written' /\ (Faithful => Faithful')
<1>1. PICK x : x = influxCall[c]
  OBVIOUS
<1>2. x \in Operations /\ x.phase \in {"admit", "transport"} /\ Operates(c)
  BY <1>1, InfluxKinds DEF Influx!Admit, Influx!GetTransport, InfluxBooks, OperationPhases, Operates
<1>3. /\ store' = store /\ mu' = mu /\ expected' = expected
      /\ influxTransport' = influxTransport /\ lastRevision' = lastRevision
      /\ series' = series /\ served' = served /\ written' = written
  BY DEF Influx!Admit, Influx!GetTransport, Influx!ability, Influx!history
<1>4. PICK next \in {Influx!Idle} \cup Operations :
        /\ Influx!Goto(c, next)
        /\ \/ next = Influx!Idle
           \/ SameOperation(x, next) /\ next.phase = "transport" /\ lastRevision \in {0, x.revision}
           \/ /\ SameOperation(x, next) /\ next.phase = "operate" /\ x.phase = "transport"
              /\ next.transport = influxTransport /\ influxTransport # 0
  <2>1. CASE Influx!Admit(c)
    <3>1. Phased(x, "transport") \in Operations /\ Phased(x, "transport").phase = "transport"
          /\ SameOperation(x, Phased(x, "transport"))
      BY <1>2, OperationMoves DEF OperationPhases
    <3>2. CASE Influx!staleCredentials(x.revision)
      BY <1>1, <2>1, <3>2 DEF Influx!Admit
    <3>3. CASE ~Influx!staleCredentials(x.revision)
      <4>1. Influx!Goto(c, Phased(x, "transport"))
        BY <1>1, <2>1, <3>3 DEF Influx!Admit, Phased
      <4>2. lastRevision \in {0, x.revision}
        BY <3>3 DEF Influx!staleCredentials
      <4>3. QED BY <3>1, <4>1, <4>2
    <3>4. QED BY <3>2, <3>3
  <2>2. CASE Influx!GetTransport(c)
    <3>1. influxTransport \in 0 .. MaxTransports
      BY DEF InfluxBooks, InfluxTyped
    <3>2. PICK t : t = influxTransport
      OBVIOUS
    <3>3. Bound(x, t) \in Operations /\ Bound(x, t).phase = "operate" /\ Bound(x, t).transport = t
          /\ SameOperation(x, Bound(x, t))
      BY <1>2, <3>1, <3>2, OperationMoves
    <3>4. CASE influxTransport = 0
      BY <1>1, <2>2, <3>4 DEF Influx!GetTransport
    <3>5. CASE influxTransport # 0
      <4>1. Influx!Goto(c, Bound(x, t)) /\ x.phase = "transport"
        BY <1>1, <2>2, <3>2, <3>5 DEF Influx!GetTransport, Bound
      <4>2. QED BY <3>2, <3>3, <3>5, <4>1
    <3>6. QED BY <3>4, <3>5
  <2>3. QED BY <2>1, <2>2
<1>5. /\ influxCall'[c] = next
      /\ \A d \in Clients \ {c} : influxCall'[d] = influxCall[d]
  BY <1>4, InfluxMoves DEF InfluxBooks, InfluxCalls
<1>6. x.token.value = x.wanted
  BY <1>1, <1>2 DEF InfluxBooks, TokensKept, Operates
<1>7. next.phase \in OperationPhases => next.token.value = next.wanted
  BY <1>4, <1>6 DEF SameOperation, Influx!Idle, OperationPhases
<1>8. next.phase # "note"
  BY <1>4 DEF Influx!Idle
<1>9. InfluxBooks'
  <2>1. x.phase # "set"
    BY <1>2
  <2>2. lastRevision' \in 0 .. MaxRevision /\ served' \in [1 .. MaxTransports -> SUBSET (1 .. MaxRevision)]
    BY <1>3 DEF InfluxBooks, InfluxTyped
  <2>3. QED BY <1>1, <1>3, <1>4, <1>7, <2>1, <2>2, OperationBooks
<1>10. Written'
  BY <1>3, <1>5, <1>8 DEF Written
<1>11. ASSUME Faithful PROVE Faithful'
  <2>1. Serves(x) /\ \A d \in Clients \ {c} : ~Operates(d)
    BY <1>1, <1>2, <1>11, OnlyOperation
  <2>2. Serves(next)'
    BY <1>3, <1>4, <2>1 DEF Serves, SameOperation, Influx!Idle
  <2>3. Served' /\ Remembers'
    BY <1>1, <1>2, <1>3, <1>11, <2>1 DEF Faithful, Served, Remembers, Operates, OperationPhases
  <2>4. Serves(influxCall[c])'
    BY <1>5, <2>2 DEF Serves
  <2>5. QED BY <1>3, <1>5, <1>11, <2>1, <2>3, <2>4, FaithfulMoves
<1>12. QED BY <1>9, <1>10, <1>11

LEMMA InfluxCardinality == \A S : Influx!Cardinality(S) = Cardinality(S)
BY Zenon DEF Influx!Cardinality, Cardinality

LEMMA OperateStep ==
  ASSUME InfluxBooks, Written, NEW c \in Clients, Influx!Operate(c)
  PROVE  InfluxBooks' /\ Written' /\ (Faithful => Faithful')
<1>1. PICK x : x = influxCall[c]
  OBVIOUS
<1>2. x \in Operations /\ x.phase = "operate" /\ Operates(c)
  BY <1>1, InfluxKinds DEF Influx!Operate, InfluxBooks, OperationPhases, Operates
<1>3. /\ store' = store /\ mu' = mu /\ expected' = expected
      /\ influxTransport' = influxTransport /\ lastRevision' = lastRevision /\ series' = series
  BY DEF Influx!Operate, Influx!ability
<1>4. PICK next \in {Influx!Idle} \cup Operations :
        /\ Influx!Goto(c, next)
        /\ \/ next = Influx!Idle /\ served' = served /\ written' = written
           \/ /\ SameOperation(x, next) /\ next.phase = "note" /\ next.transport = x.transport
              /\ served' = [served EXCEPT ![x.transport] = @ \cup {x.revision}]
              /\ written' = written \cup x.points
  <2>1. Phased(x, "note") \in Operations /\ Phased(x, "note").phase = "note"
        /\ Phased(x, "note").transport = x.transport /\ SameOperation(x, Phased(x, "note"))
    BY <1>2, OperationMoves DEF OperationPhases
  <2>2. \/ /\ Influx!Goto(c, Phased(x, "note"))
           /\ served' = [served EXCEPT ![x.transport] = @ \cup {x.revision}]
           /\ written' = written \cup x.points
        \/ Influx!Goto(c, Influx!Idle) /\ served' = served /\ written' = written
    BY <1>1 DEF Influx!Operate, Phased
  <2>3. QED BY <2>1, <2>2
<1>5. /\ influxCall'[c] = next
      /\ \A d \in Clients \ {c} : influxCall'[d] = influxCall[d]
  BY <1>4, InfluxMoves DEF InfluxBooks, InfluxCalls
<1>6. InfluxBooks'
  <2>1. x.token.value = x.wanted
    BY <1>1, <1>2 DEF InfluxBooks, TokensKept, Operates
  <2>2. next.phase \in OperationPhases => next.token.value = next.wanted
    BY <1>4, <2>1 DEF SameOperation, Influx!Idle, OperationPhases
  <2>3. x.revision \in 1 .. MaxRevision
    BY <1>2 DEF Operations
  <2>4. served' \in [1 .. MaxTransports -> SUBSET (1 .. MaxRevision)]
    BY <1>4, <2>3 DEF InfluxBooks, InfluxTyped
  <2>5. lastRevision' \in 0 .. MaxRevision /\ x.phase # "set"
    BY <1>2, <1>3 DEF InfluxBooks, InfluxTyped
  <2>6. QED BY <1>1, <1>3, <1>4, <2>2, <2>4, <2>5, OperationBooks
<1>7. Written'
  <2>1. written \subseteq written' /\ (next.phase = "note" => next.points \subseteq written')
    BY <1>4 DEF SameOperation, Influx!Idle
  <2>2. QED BY <1>3, <1>5, <2>1 DEF Written
<1>8. ASSUME Faithful PROVE Faithful'
  <2>1. Serves(x) /\ \A d \in Clients \ {c} : ~Operates(d)
    BY <1>1, <1>2, <1>8, OnlyOperation
  <2>2. \A d \in Clients : influxCall[d].phase # "note"
    BY <1>1, <1>2, <2>1 DEF Operates, OperationPhases
  <2>3. Remembers /\ Served
    BY <1>8, <2>2 DEF Faithful
  <2>4. influxTransport \in 1 .. MaxTransports /\ x.transport = influxTransport /\ lastRevision \in {0, x.revision}
    BY <1>2, <2>1 DEF Serves, InfluxBooks, InfluxTyped
  <2>5. CASE next = Influx!Idle
    <3>1. served' = served /\ next.phase = "idle"
      BY <1>4, <2>5 DEF Influx!Idle
    <3>2. Served' /\ Remembers'
      BY <1>3, <2>3, <3>1 DEF Served, Remembers
    <3>3. ~Operates(c)'
      BY <1>5, <3>1 DEF Operates, OperationPhases
    <3>4. QED BY <1>3, <1>5, <1>8, <2>1, <3>2, <3>3, FaithfulMoves
  <2>6. CASE next # Influx!Idle
    <3>1. /\ next.phase = "note" /\ next.transport = x.transport /\ next.revision = x.revision
          /\ served' = [served EXCEPT ![influxTransport] = @ \cup {x.revision}]
      BY <1>4, <2>4, <2>6 DEF SameOperation
    <3>2. served[influxTransport] \in {{}, {x.revision}}
      BY <2>3, <2>4 DEF Remembers
    <3>3. served'[influxTransport] = {x.revision} /\ \A t \in 1 .. MaxTransports : t # influxTransport => served'[t] = served[t]
      BY <2>4, <3>1, <3>2 DEF InfluxBooks, InfluxTyped
    <3>4. Served'
      BY <1>3, <2>3, <2>4, <3>3 DEF Served
    <3>5. Serves(next)'
      BY <1>3, <2>4, <3>1, <3>3 DEF Serves
    <3>6. Serves(influxCall[c])' /\ influxCall'[c].phase = "note"
      BY <1>5, <3>1, <3>5 DEF Serves
    <3>7. QED BY <1>3, <1>5, <1>8, <2>1, <3>4, <3>6, FaithfulMoves
  <2>7. QED BY <2>5, <2>6
<1>9. QED BY <1>6, <1>7, <1>8

LEMMA NoteStep ==
  ASSUME InfluxBooks, Written, NEW c \in Clients, Influx!NoteRevision(c)
  PROVE  InfluxBooks' /\ Written' /\ (Faithful => Faithful')
<1>1. PICK x : x = influxCall[c]
  OBVIOUS
<1>2. x \in Operations /\ x.phase = "note" /\ Operates(c)
  BY <1>1, InfluxKinds DEF Influx!NoteRevision, InfluxBooks, OperationPhases, Operates
<1>3. /\ store' = store /\ mu' = mu /\ expected' = expected
      /\ influxTransport' = influxTransport /\ lastRevision' = x.revision
      /\ served' = served /\ written' = written /\ Influx!Goto(c, Influx!Idle)
  BY <1>1 DEF Influx!NoteRevision, Influx!history
<1>4. /\ influxCall'[c] = Influx!Idle /\ Influx!Idle.phase = "idle"
      /\ \A d \in Clients \ {c} : influxCall'[d] = influxCall[d]
  BY <1>3, InfluxMoves, InfluxKinds DEF InfluxBooks, InfluxCalls
<1>5. x.revision \in 1 .. MaxRevision /\ x.points \in SUBSET Measurements
  BY <1>2 DEF Operations
<1>6. InfluxBooks'
  <2>1. /\ lastRevision' \in 0 .. MaxRevision /\ x.phase # "set" /\ Influx!Idle.phase \notin OperationPhases
        /\ served' \in [1 .. MaxTransports -> SUBSET (1 .. MaxRevision)]
    BY <1>2, <1>3, <1>4, <1>5 DEF InfluxBooks, InfluxTyped, OperationPhases
  <2>2. QED BY <1>1, <1>3, <2>1, OperationBooks
<1>7. Written'
  <2>1. PICK s \in Influx!Recorded(x.points) : series' = series \cup s
    BY <1>1 DEF Influx!NoteRevision
  <2>2. s \subseteq x.points /\ Cardinality(series \cup s) <= influxMaxSeries
    BY <2>1, InfluxCardinality DEF Influx!Recorded
  <2>3. x.points \subseteq written
    BY <1>1, <1>2 DEF Written
  <2>4. QED BY <1>3, <1>4, <1>5, <2>1, <2>2, <2>3 DEF Written
<1>8. ASSUME Faithful PROVE Faithful'
  <2>1. Serves(x) /\ \A d \in Clients \ {c} : ~Operates(d)
    BY <1>1, <1>2, <1>8, OnlyOperation
  <2>2. Served' /\ Remembers'
    BY <1>2, <1>3, <1>5, <1>8, <2>1 DEF Faithful, Served, Remembers, Serves
  <2>3. ~Operates(c)'
    BY <1>4 DEF Operates, OperationPhases
  <2>4. QED BY <1>3, <1>4, <1>8, <2>1, <2>2, <2>3, FaithfulMoves
<1>9. QED BY <1>6, <1>7, <1>8

(* The two steps that belong to no client.                                    *)
LEMMA TransportReplaced ==
  ASSUME InfluxBooks, Written, Influx!CredentialsAssumption, Influx!SetTransport
  PROVE  InfluxBooks' /\ Written' /\ ((\A c \in Clients : ~Operates(c)) /\ Faithful => Faithful')
<1>1. /\ store' = store /\ mu' = mu /\ expected' = expected /\ influxCall' = influxCall
      /\ influxTransport' = influxTransport + 1 /\ lastRevision' = 0 /\ influxTransport < MaxTransports
      /\ series' = series /\ served' = served /\ written' = written
  BY DEF Influx!SetTransport
<1>2. influxTransport \in 0 .. MaxTransports /\ influxTransport' \in 1 .. MaxTransports /\ 0 \in 0 .. MaxRevision
  BY <1>1 DEF InfluxBooks, InfluxTyped, Influx!CredentialsAssumption
<1>3. InfluxBooks'
  <2>1. influxTransport' \in 0 .. MaxTransports /\ lastRevision' \in 0 .. MaxRevision
    BY <1>1, <1>2
  <2>2. store' = store /\ mu' = mu /\ expected' = expected /\ influxCall' = influxCall /\ served' = served
    BY <1>1
  <2>3. InfluxTyped'
    BY <2>1, <2>2 DEF InfluxBooks, InfluxTyped, InfluxCalls, Settings, Operations, Stores, Copies
  <2>4. QED BY <1>1, <2>3 DEF InfluxBooks, Unnumbered, OneSetter, OneField, TokensKept
<1>4. Written'
  BY <1>1 DEF Written
<1>5. ASSUME \A c \in Clients : ~Operates(c), Faithful PROVE Faithful'
  <2>1. \A c \in Clients : ~Operates(c)'
    BY <1>1, <1>5 DEF Operates
  <2>2. Served' /\ Remembers'
    BY <1>1, <1>2, <1>5 DEF Faithful, Served, Remembers
  <2>3. QED BY <2>1, <2>2 DEF Faithful
<1>6. QED BY <1>3, <1>4, <1>5

LEMMA SeriesDeleted ==
  ASSUME InfluxBooks, Written, Influx!CredentialsAssumption, NEW m \in Measurements, Influx!DeleteSeries(m)
  PROVE  InfluxBooks' /\ Written' /\ (Faithful => Faithful')
<1>1. /\ store' = store /\ mu' = mu /\ expected' = expected /\ influxCall' = influxCall
      /\ influxTransport' = influxTransport /\ lastRevision' = lastRevision /\ m \in series
      /\ series' = series \ {m} /\ served' = served /\ written' = written
  BY DEF Influx!DeleteSeries, Influx!history
<1>2. Cardinality(series') <= influxMaxSeries
  <2>1. IsFiniteSet(Measurements)
    BY Zenon DEF Influx!CredentialsAssumption, Influx!IsFiniteSet, IsFiniteSet
  <2>2. IsFiniteSet(series) /\ Cardinality(series) <= influxMaxSeries
    BY <2>1, FS_Subset DEF Written
  <2>3. Cardinality(series) \in Nat /\ Cardinality(series \ {m}) = Cardinality(series) - 1
    BY <1>1, <2>2, FS_CardinalityType, FS_RemoveElement
  <2>4. QED BY <1>1, <2>2, <2>3 DEF Influx!CredentialsAssumption
<1>3. InfluxBooks'
  <2>1. InfluxTyped'
    BY <1>1 DEF InfluxBooks, InfluxTyped, InfluxCalls, Settings, Operations, Stores, Copies
  <2>2. QED BY <1>1, <2>1 DEF InfluxBooks, Unnumbered, OneSetter, OneField, TokensKept
<1>4. Written'
  BY <1>1, <1>2 DEF Written
<1>5. ASSUME Faithful PROVE Faithful'
  BY <1>1, <1>5 DEF Faithful, Served, Remembers, Serves, Operates
<1>6. QED BY <1>3, <1>4, <1>5

LEMMA InfluxUnchanged ==
  ASSUME InfluxBooks, Written, UNCHANGED Influx!vars
  PROVE  InfluxBooks' /\ Written' /\ (Faithful => Faithful') /\ overlap' = overlap
<1>1. /\ store' = store /\ mu' = mu /\ expected' = expected /\ influxCall' = influxCall
      /\ influxTransport' = influxTransport /\ lastRevision' = lastRevision
      /\ series' = series /\ served' = served /\ written' = written /\ overlap' = overlap
  BY DEF Influx!vars
<1>2. InfluxTyped'
  BY <1>1 DEF InfluxBooks, InfluxTyped, InfluxCalls, Settings, Operations, Stores, Copies
<1>3. QED BY <1>1, <1>2 DEF InfluxBooks, Unnumbered, OneSetter, OneField, TokensKept, Written,
             Faithful, Served, Remembers, Serves, Operates

CredentialsInductive == InfluxBooks /\ Written /\ (overlap = FALSE => Faithful) /\ overlap \in BOOLEAN

(* What a step does to the history of overlaps.                               *)
LEMMA OverlapsNoted ==
  ASSUME Influx!Next, overlap \in BOOLEAN
  PROVE  /\ overlap' \in BOOLEAN /\ (overlap' = FALSE => overlap = FALSE)
         /\ Influx!SetTransport /\ overlap' = FALSE => \A d \in Clients : ~Operates(d)
         /\ \A c \in Clients : \A points \in Influx!Points :
              Influx!ConnectionMaterial(c, points) /\ overlap' = FALSE => \A d \in Clients : ~Operates(d)
<1>1. Influx!Operating = {} => \A d \in Clients : ~Operates(d)
  BY DEF Influx!Operating, Operates, OperationPhases
<1>2. CASE \/ Influx!SetTransport
           \/ \E c \in Clients : \E points \in Influx!Points : Influx!ConnectionMaterial(c, points)
  <2>1. overlap' = (overlap \/ Influx!Operating # {})
    BY <1>2 DEF Influx!SetTransport, Influx!ConnectionMaterial
  <2>2. QED BY <1>1, <2>1
<1>3. CASE ~ \/ Influx!SetTransport
             \/ \E c \in Clients : \E points \in Influx!Points : Influx!ConnectionMaterial(c, points)
  <2>1. overlap' = overlap
    BY <1>3 DEF Influx!Next, Influx!Client, Influx!Bounded, Influx!vars, Influx!history,
       Influx!SetterReads, Influx!SetterWrites, Influx!ConfigureCommand, Influx!SetToken,
       Influx!SetSecretCommand, Influx!ClearSecret, Influx!SetSecret, Influx!Admit,
       Influx!GetTransport, Influx!Operate, Influx!NoteRevision, Influx!DeleteSeries
  <2>2. QED BY <1>3, <2>1
<1>4. QED BY <1>2, <1>3

LEMMA CredentialsStep ==
  ASSUME CredentialsInductive, Influx!CredentialsAssumption, [Influx!Next]_(Influx!vars)
  PROVE  CredentialsInductive'
<1> USE DEF CredentialsInductive
<1>1. CASE UNCHANGED Influx!vars
  BY <1>1, InfluxUnchanged
<1>2. ASSUME Influx!Next, NEW c \in Clients, Influx!Client(c) PROVE CredentialsInductive'
  <2>1. overlap' \in BOOLEAN /\ (overlap' = FALSE => overlap = FALSE)
    BY <1>2, OverlapsNoted
  <2>2. ASSUME NEW f \in Influx!Fields, NEW v \in Values, Influx!SetterReads(c, f, v)
        PROVE  InfluxBooks' /\ Resting
    BY <2>2, SetterSteps
  <2>3. ASSUME NEW cfg \in [Influx!Fields -> Values], Influx!ConfigureCommand(c, cfg)
        PROVE  InfluxBooks' /\ Resting
    BY <2>3, SetterSteps
  <2>4. ASSUME NEW key \in Tokens, Influx!SetToken(c, key) \/ Influx!SetSecretCommand(c, key)
        PROVE  InfluxBooks' /\ Resting
    BY <2>4, SecretSteps DEF Influx!SetToken, Influx!SetSecretCommand
  <2>5. Influx!ClearSecret(c) => InfluxBooks' /\ Resting
    BY SecretSteps DEF Influx!ClearSecret
  <2>6. Influx!SetterWrites(c) => InfluxBooks' /\ Resting
    BY SetterSteps
  <2>7. ASSUME InfluxBooks', Resting PROVE CredentialsInductive'
    BY <2>1, <2>7, RestingKeeps
  <2>8. ASSUME NEW points \in Influx!Points, Influx!ConnectionMaterial(c, points)
        PROVE  CredentialsInductive'
    <3>1. overlap' = FALSE => \A d \in Clients : ~Operates(d)
      BY <1>2, <2>8, OverlapsNoted
    <3>2. QED BY <2>1, <2>8, <3>1, ConnectionStep
  <2>9. CASE Influx!Admit(c) \/ Influx!GetTransport(c)
    BY <2>1, <2>9, AdmissionSteps
  <2>10. CASE Influx!Operate(c)
    BY <2>1, <2>10, OperateStep
  <2>11. CASE Influx!NoteRevision(c)
    BY <2>1, <2>11, NoteStep
  <2>12. QED BY <1>2, <2>2, <2>3, <2>4, <2>5, <2>6, <2>7, <2>8, <2>9, <2>10, <2>11 DEF Influx!Client
<1>3. ASSUME Influx!Next, Influx!SetTransport PROVE CredentialsInductive'
  <2>1. /\ overlap' \in BOOLEAN /\ (overlap' = FALSE => overlap = FALSE)
        /\ overlap' = FALSE => \A d \in Clients : ~Operates(d)
    BY <1>3, OverlapsNoted
  <2>2. QED BY <1>3, <2>1, TransportReplaced
<1>4. ASSUME Influx!Next, NEW m \in Measurements, Influx!DeleteSeries(m) PROVE CredentialsInductive'
  <2>1. overlap' \in BOOLEAN /\ (overlap' = FALSE => overlap = FALSE)
    BY <1>4, OverlapsNoted
  <2>2. QED BY <1>4, <2>1, SeriesDeleted
<1>5. QED BY <1>1, <1>2, <1>3, <1>4 DEF Influx!Next, Influx!Bounded

LEMMA CredentialsSound == CredentialsInductive => CredentialsHold
<1> SUFFICES ASSUME CredentialsInductive PROVE Influx!TypeOK /\ Influx!CredentialsHold
  BY DEF CredentialsHold
<1> USE DEF CredentialsInductive
<1>1. Influx!TypeOK
  BY DEF InfluxBooks, InfluxTyped, Stores, Influx!TypeOK
<1>2. Influx!FieldsKept
  BY DEF InfluxBooks, Influx!FieldsKept
<1>3. Influx!TokensOwned
  BY DEF InfluxBooks, TokensKept, Influx!TokensOwned, Influx!Operating, OperationPhases
<1>4. Influx!SeriesWritten
  BY InfluxCardinality DEF Written, Influx!SeriesWritten
<1>5. ASSUME overlap = FALSE, NEW t \in 1 .. MaxTransports PROVE Influx!Cardinality(served[t]) <= 1
  <2>1. \A r, q \in served[t] : r = q
    BY <1>5 DEF Faithful, Served
  <2>2. CASE served[t] = {}
    BY <2>2, FS_EmptySet, InfluxCardinality
  <2>3. ASSUME NEW r \in served[t] PROVE Influx!Cardinality(served[t]) <= 1
    <3>1. served[t] = {r}
      BY <2>1, <2>3
    <3>2. Cardinality({r}) = 1
      BY FS_Singleton
    <3>3. QED BY <3>1, <3>2, InfluxCardinality
  <2>4. QED BY <2>2, <2>3
<1>6. ASSUME overlap = FALSE, Influx!Operating = {}, lastRevision # 0
      PROVE  served[influxTransport] = {lastRevision}
  <2>1. \A c \in Clients : influxCall[c].phase # "note"
    BY <1>6 DEF Influx!Operating
  <2>2. QED BY <1>6, <2>1 DEF Faithful, Served, Remembers
<1>7. Influx!OneRevision
  BY <1>5, <1>6 DEF Influx!OneRevision
<1>8. QED BY <1>1, <1>2, <1>3, <1>4, <1>7 DEF Influx!CredentialsHold

(* In every interleaving of setters, commands, rotations and operations: no   *)
(* field that was set is lost and no token changes in the hands of an         *)
(* operation; and while operations neither overlap nor meet a new transport,  *)
(* a transport performs none under a second revision and what refuses one is  *)
(* this transport's own past. The series keep to their limit.                 *)
THEOREM CredentialsAlwaysHold == Spec => []CredentialsHold
<1> USE PartsAssumption
<1>1. Init => CredentialsInductive
  BY CredentialsInit DEF Init, Rest, CredentialsInductive, Overlapped
<1>2. CredentialsInductive /\ [Next]_vars => CredentialsInductive'
  <2>1. [Next]_vars => [Influx!Next]_(Influx!vars)
    BY OneMoves DEF influxVars, Influx!vars
  <2>2. QED BY <2>1, CredentialsStep
<1>3. QED BY <1>1, <1>2, CredentialsSound, PTL DEF Spec

-----------------------------------------------------------------------------
(* The databases. What callers can write to is never the slice of the         *)
(* configuration, and a slice that a configure has validated holds what it    *)
(* held then until its caller writes to it.                                   *)
Contents == DatabaseAddresses \cup {DB!Nothing}
Statuses == [configured : BOOLEAN, revision : Nat]
Configures == [validated : Contents, changed : BOOLEAN]

DatabaseTyped ==
  /\ buffers \in [Buffers -> Contents] /\ handed \subseteq Buffers
  /\ config \in Buffers \cup {DB!NoBuffer} /\ status \in Statuses

ConfigOwned ==
  /\ config \notin handed
  /\ config # DB!NoBuffer => buffers[config] = accepted.validated

Fits(x, k) ==
  /\ x.changed \in BOOLEAN /\ (x.changed = TRUE => k \in DB!Sliced)
  /\ x.changed = FALSE => x.validated \notin Unusable

ConfigKnown == config # DB!NoBuffer => Fits(accepted, kind)

ConfiguredSays ==
  /\ config # DB!NoBuffer => status.configured = TRUE
  /\ config = DB!NoBuffer => status.configured = FALSE

CallsTyped == configuring \in [Buffers -> Configures]

UnderWay(b) ==
  configuring[b] # DB!NoCall =>
    /\ b \in handed /\ Fits(configuring[b], kind)
    /\ configuring[b].changed = FALSE => configuring[b].validated = buffers[b]

CallsKnown == CallsTyped /\ \A b \in Buffers : UnderWay(b)

DatabaseInductive == DatabaseTyped /\ ConfigOwned /\ ConfigKnown /\ ConfiguredSays /\ CallsKnown

LEMMA DatabaseInit == DB!DatabaseAssumption /\ DB!Init => DatabaseInductive
<1> SUFFICES ASSUME DB!DatabaseAssumption, DB!Init PROVE DatabaseInductive
  OBVIOUS
<1>1. DatabaseTyped /\ ConfigOwned /\ ConfigKnown /\ ConfiguredSays
  BY DEF DB!DatabaseAssumption, DB!Init, DatabaseTyped, Contents, ConfigOwned, ConfigKnown,
     ConfiguredSays, Statuses
<1>2. DB!NoCall \in Configures
  BY DEF DB!NoCall, Configures, Contents
<1>3. CallsKnown
  BY <1>2 DEF DB!Init, CallsKnown, CallsTyped, UnderWay
<1>4. QED BY <1>1, <1>3 DEF DatabaseInductive

LEMMA BufferWritten ==
  ASSUME DatabaseInductive, NEW b \in Buffers, b # config, NEW a \in Contents,
         buffers' = [buffers EXCEPT ![b] = a], UNCHANGED <<kind, config, status, accepted>>,
         handed' \subseteq Buffers, config \notin handed', CallsKnown'
  PROVE  DatabaseInductive'
<1>1. DatabaseTyped' /\ ConfigOwned'
  BY DEF DatabaseInductive, DatabaseTyped, ConfigOwned
<1>2. ConfigKnown' /\ ConfiguredSays'
  BY DEF DatabaseInductive, ConfigKnown, ConfiguredSays
<1>3. QED BY <1>1, <1>2 DEF DatabaseInductive

Changed(x) == [x EXCEPT !.changed = TRUE]

(* A slice nobody holds is in no call: what it becomes matters to none.       *)
LEMMA FreshKnown ==
  ASSUME DatabaseInductive, NEW b \in DB!Unused, NEW a,
         buffers' = [buffers EXCEPT ![b] = a], handed' = handed \cup {b},
         kind' = kind, configuring' = configuring
  PROVE  CallsKnown'
<1>1. CallsTyped' /\ \A d \in Buffers : UnderWay(d)
  BY DEF DatabaseInductive, CallsKnown, CallsTyped
<1>2. b \notin handed /\ buffers \in [Buffers -> Contents]
  BY DEF DB!Unused, DatabaseInductive, DatabaseTyped
<1>3. ASSUME NEW d \in Buffers PROVE UnderWay(d)'
  <2>1. CASE d = b
    BY <1>1, <1>2, <2>1 DEF UnderWay
  <2>2. CASE d # b
    BY <1>1, <1>2, <2>2 DEF UnderWay
  <2>3. QED BY <2>1, <2>2
<1>4. QED BY <1>1, <1>3 DEF CallsKnown

LEMMA ChangedRead ==
  ASSUME NEW x \in Configures
  PROVE  Changed(x) \in Configures /\ Changed(x).changed = TRUE
<1>1. PICK v \in Contents, q \in BOOLEAN : x = [validated |-> v, changed |-> q]
  BY DEF Configures
<1>2. PICK y : y = Changed(x)
  OBVIOUS
<1>3. y = [validated |-> v, changed |-> TRUE]
  BY <1>1, <1>2 DEF Changed
<1>4. y \in Configures /\ y.changed = TRUE
  BY <1>1, <1>3 DEF Configures
<1>5. QED BY <1>2, <1>4

LEMMA MutateKnown ==
  ASSUME DatabaseInductive, NEW b \in handed, NEW a,
         DB!Passed(b) => kind \in DB!Sliced,
         buffers' = [buffers EXCEPT ![b] = a], handed' = handed, kind' = kind,
         configuring' = IF DB!Passed(b) THEN [configuring EXCEPT ![b].changed = TRUE] ELSE configuring
  PROVE  CallsKnown'
<1>1. CallsTyped /\ (\A d \in Buffers : UnderWay(d)) /\ b \in Buffers
  BY DEF DatabaseInductive, CallsKnown, DatabaseTyped
<1>2. buffers \in [Buffers -> Contents]
  BY DEF DatabaseInductive, DatabaseTyped
<1>3. CASE ~DB!Passed(b)
  <2>1. configuring' = configuring /\ configuring[b] = DB!NoCall
    BY <1>3 DEF DB!Passed
  <2>2. ASSUME NEW d \in Buffers PROVE UnderWay(d)'
    <3>1. CASE d = b
      BY <2>1, <3>1 DEF UnderWay
    <3>2. CASE d # b
      BY <1>1, <1>2, <2>1, <3>2 DEF UnderWay
    <3>3. QED BY <3>1, <3>2
  <2>3. QED BY <1>1, <2>1, <2>2 DEF CallsKnown, CallsTyped
<1>4. CASE DB!Passed(b)
  <2>1. configuring[b] \in Configures
    BY <1>1 DEF CallsTyped
  <2>2. PICK x : x = Changed(configuring[b])
    OBVIOUS
  <2>4. x \in Configures /\ x.changed = TRUE
    BY <2>1, <2>2, ChangedRead
  <2>5. configuring' = [configuring EXCEPT ![b] = x]
    BY <1>4, <2>2 DEF Changed
  <2>6. Fits(x, kind)
    BY <1>4, <2>4 DEF Fits
  <2>7. ASSUME NEW d \in Buffers PROVE UnderWay(d)'
    <3>1. CASE d = b
      BY <1>1, <2>4, <2>5, <2>6, <3>1 DEF UnderWay, CallsTyped
    <3>2. CASE d # b
      BY <1>1, <1>2, <2>5, <3>2 DEF UnderWay, CallsTyped
    <3>3. QED BY <3>1, <3>2
  <2>8. CallsTyped'
    BY <1>1, <2>4, <2>5 DEF CallsTyped
  <2>9. QED BY <2>7, <2>8 DEF CallsKnown
<1>5. QED BY <1>3, <1>4

LEMMA CallersStep ==
  ASSUME DatabaseInductive, DB!Make \/ DB!Mutate \/ DB!Forget \/ DB!GetConfig
  PROVE  DatabaseInductive'
<1>1. DatabaseTyped /\ ConfigOwned
  BY DEF DatabaseInductive
<1>2. CASE DB!Make
  <2>1. PICK b \in DB!Unused, a \in DatabaseAddresses :
          /\ buffers' = [buffers EXCEPT ![b] = a] /\ handed' = handed \cup {b}
          /\ UNCHANGED <<kind, config, status, configuring, accepted>>
    BY <1>2 DEF DB!Make
  <2>2. b \in Buffers /\ b # config /\ a \in Contents
    BY <2>1 DEF DB!Unused, Contents
  <2>3. handed' \subseteq Buffers /\ config \notin handed'
    BY <1>1, <2>1, <2>2 DEF DatabaseTyped, ConfigOwned
  <2>4. CallsKnown'
    BY <2>1, FreshKnown
  <2>5. QED BY <2>1, <2>2, <2>3, <2>4, BufferWritten
<1>3. CASE DB!Mutate
  <2>1. PICK b \in handed, a \in DatabaseAddresses :
          /\ DB!Passed(b) => kind \in DB!Sliced
          /\ buffers' = [buffers EXCEPT ![b] = a]
          /\ configuring' = IF DB!Passed(b) THEN [configuring EXCEPT ![b].changed = TRUE] ELSE configuring
          /\ UNCHANGED <<kind, handed, config, status, accepted>>
    BY <1>3 DEF DB!Mutate
  <2>2. /\ b \in Buffers /\ b # config /\ a \in Contents
        /\ handed' \subseteq Buffers /\ config \notin handed'
    BY <1>1, <2>1 DEF DatabaseTyped, ConfigOwned, Contents
  <2>3. CallsKnown'
    BY <2>1, MutateKnown
  <2>4. QED BY <2>1, <2>2, <2>3, BufferWritten
<1>4. CASE DB!Forget
  <2>1. PICK b \in handed :
          /\ configuring[b] = DB!NoCall /\ handed' = handed \ {b}
          /\ UNCHANGED <<kind, buffers, config, status, configuring, accepted>>
    BY <1>4 DEF DB!Forget, DB!Passed
  <2>2. CallsKnown'
    BY <2>1 DEF DatabaseInductive, CallsKnown, CallsTyped, UnderWay
  <2>3. DatabaseTyped' /\ ConfigOwned' /\ ConfigKnown' /\ ConfiguredSays'
    BY <2>1 DEF DatabaseInductive, DatabaseTyped, ConfigOwned, ConfigKnown, ConfiguredSays
  <2>4. QED BY <2>2, <2>3 DEF DatabaseInductive
<1>5. CASE DB!GetConfig
  <2>1. PICK b \in Buffers :
          /\ config # DB!NoBuffer /\ b \in DB!Unused
          /\ buffers' = [buffers EXCEPT ![b] = buffers[config]] /\ handed' = handed \cup {b}
          /\ UNCHANGED <<kind, config, status, configuring, accepted>>
    BY <1>5 DEF DB!GetConfig, DB!Clone
  <2>2. b # config /\ buffers[config] \in Contents
    BY <1>1, <2>1 DEF DB!Unused, DatabaseTyped
  <2>3. handed' \subseteq Buffers /\ config \notin handed'
    BY <1>1, <2>1, <2>2 DEF DatabaseTyped, ConfigOwned
  <2>4. CallsKnown'
    BY <2>1, FreshKnown
  <2>5. QED BY <2>1, <2>2, <2>3, <2>4, BufferWritten
<1>6. QED BY <1>2, <1>3, <1>4, <1>5

LEMMA ValidateStep ==
  ASSUME DatabaseInductive, DB!Validate
  PROVE  DatabaseInductive'
<1>1. PICK b \in handed :
        /\ buffers[b] \notin Unusable
        /\ configuring' = [configuring EXCEPT ![b] = [validated |-> buffers[b], changed |-> FALSE]]
        /\ UNCHANGED <<kind, buffers, handed, config, status, accepted>>
  BY DEF DB!Validate, DB!ValidConfig
<1>2. PICK x : x = [validated |-> buffers[b], changed |-> FALSE]
  OBVIOUS
<1>3. b \in Buffers /\ buffers[b] \in Contents /\ CallsTyped /\ \A d \in Buffers : UnderWay(d)
  BY DEF DatabaseInductive, DatabaseTyped, CallsKnown
<1>4. x \in Configures /\ x.validated = buffers[b] /\ x.changed = FALSE
  BY <1>2, <1>3 DEF Configures
<1>5. Fits(x, kind)
  BY <1>1, <1>4 DEF Fits
<1>6. configuring' = [configuring EXCEPT ![b] = x]
  BY <1>1, <1>2
<1>7. CallsTyped'
  BY <1>3, <1>4, <1>6 DEF CallsTyped
<1>8. ASSUME NEW d \in Buffers PROVE UnderWay(d)'
  <2>1. CASE d = b
    BY <1>1, <1>3, <1>4, <1>5, <1>6, <2>1 DEF UnderWay, CallsTyped
  <2>2. CASE d # b
    BY <1>1, <1>3, <1>6, <2>2 DEF UnderWay, CallsTyped
  <2>3. QED BY <2>1, <2>2
<1>9. DatabaseTyped' /\ ConfigOwned' /\ ConfigKnown' /\ ConfiguredSays'
  BY <1>1 DEF DatabaseInductive, DatabaseTyped, ConfigOwned, ConfigKnown, ConfiguredSays
<1>10. QED BY <1>7, <1>8, <1>9 DEF DatabaseInductive, CallsKnown

LEMMA ConfigureStep ==
  ASSUME DB!DatabaseAssumption, DatabaseInductive, DB!Configure
  PROVE  DatabaseInductive'
<1>1. PICK b \in handed, fresh \in Buffers :
        /\ configuring[b] # DB!NoCall
        /\ fresh \in DB!Unused /\ buffers' = [buffers EXCEPT ![fresh] = buffers[b]]
        /\ config' = fresh /\ handed' = handed /\ kind' = kind
        /\ status' = [configured |-> TRUE, revision |-> status.revision + 1]
        /\ accepted' = IF configuring[b].changed THEN [validated |-> buffers[b], changed |-> TRUE]
                       ELSE configuring[b]
        /\ configuring' = [configuring EXCEPT ![b] = DB!NoCall]
  BY DEF DB!Configure, DB!Clone, DB!Passed
<1>2. /\ b \in Buffers /\ buffers \in [Buffers -> Contents] /\ CallsTyped
      /\ fresh \notin handed /\ handed \subseteq Buffers /\ status.revision \in Nat
      /\ \A d \in Buffers : UnderWay(d)
  BY <1>1 DEF DatabaseInductive, DatabaseTyped, CallsKnown, DB!Unused, Statuses
<1>3. Fits(configuring[b], kind)
      /\ (configuring[b].changed = FALSE => configuring[b].validated = buffers[b])
  BY <1>1, <1>2 DEF UnderWay
<1>4. accepted'.validated = buffers[b] /\ Fits(accepted', kind)
  <2>1. CASE configuring[b].changed = TRUE
    <3>1. PICK x : x = [validated |-> buffers[b], changed |-> TRUE]
      OBVIOUS
    <3>2. x.validated = buffers[b] /\ x.changed = TRUE /\ accepted' = x
      BY <1>1, <2>1, <3>1
    <3>3. Fits(x, kind)
      BY <1>3, <2>1, <3>2 DEF Fits
    <3>4. QED BY <3>2, <3>3
  <2>2. CASE configuring[b].changed = FALSE
    BY <1>1, <1>3, <2>2
  <2>3. QED BY <1>3, <2>1, <2>2 DEF Fits
<1>5. status' \in Statuses /\ status'.configured = TRUE
  BY <1>1, <1>2 DEF Statuses
<1>6. DatabaseTyped' /\ ConfigOwned'
  BY <1>1, <1>2, <1>4, <1>5 DEF DatabaseTyped, ConfigOwned
<1>7. ConfigKnown' /\ ConfiguredSays'
  BY <1>1, <1>4, <1>5 DEF ConfigKnown, ConfiguredSays, DB!DatabaseAssumption
<1>8. CallsTyped'
  <2>1. DB!NoCall \in Configures
    BY DEF DB!NoCall, Configures, Contents
  <2>2. QED BY <1>1, <1>2, <2>1 DEF CallsTyped
<1>9. ASSUME NEW d \in Buffers PROVE UnderWay(d)'
  <2>1. CASE d = b
    BY <1>1, <1>2, <2>1 DEF UnderWay, CallsTyped
  <2>2. CASE d = fresh
    BY <1>1, <1>2, <2>2 DEF UnderWay, CallsTyped
  <2>3. CASE d # b /\ d # fresh
    BY <1>1, <1>2, <2>3 DEF UnderWay, CallsTyped
  <2>4. QED BY <2>1, <2>2, <2>3
<1>10. QED BY <1>6, <1>7, <1>8, <1>9 DEF DatabaseInductive, CallsKnown

LEMMA DatabaseStep ==
  ASSUME DB!DatabaseAssumption, DatabaseInductive, [DB!Next]_(databasesVars)
  PROVE  DatabaseInductive'
<1>1. ASSUME UNCHANGED <<kind, buffers, handed, config, configuring, accepted>>,
             status' \in Statuses, status'.configured = status.configured
      PROVE  DatabaseInductive'
  <2>1. CallsKnown'
    BY <1>1 DEF DatabaseInductive, CallsKnown, CallsTyped, UnderWay
  <2>2. DatabaseTyped' /\ ConfigOwned' /\ ConfigKnown' /\ ConfiguredSays'
    BY <1>1 DEF DatabaseInductive, DatabaseTyped, ConfigOwned, ConfigKnown, ConfiguredSays
  <2>3. QED BY <2>1, <2>2 DEF DatabaseInductive
<1>2. CASE UNCHANGED databasesVars
  BY <1>1, <1>2 DEF databasesVars, DatabaseInductive, DatabaseTyped
<1>3. CASE DB!ChangeSecret
  <2>1. PICK n : n = status.revision + 1
    OBVIOUS
  <2>2. status' = [status EXCEPT !.revision = n] /\ n \in Nat
    BY <1>3, <2>1 DEF DB!ChangeSecret, DatabaseInductive, DatabaseTyped, Statuses
  <2>3. status' \in Statuses /\ status'.configured = status.configured
    BY <2>2 DEF DatabaseInductive, DatabaseTyped, Statuses
  <2>4. QED BY <1>1, <1>3, <2>3 DEF DB!ChangeSecret
<1>4. QED BY <1>2, <1>3, CallersStep, ValidateStep, ConfigureStep DEF DB!Next

LEMMA DatabaseSound == DatabaseInductive => DB!TypeOK /\ DB!StoreOwned
<1> SUFFICES ASSUME DatabaseInductive PROVE DB!TypeOK /\ DB!StoreOwned
  OBVIOUS
<1>1. DB!TypeOK
  BY DEF DatabaseInductive, DatabaseTyped, CallsKnown, CallsTyped, Statuses, Contents, Configures, DB!TypeOK
<1>2. status.configured <=> config # DB!NoBuffer
  BY DEF DatabaseInductive, DatabaseTyped, Statuses, ConfiguredSays
<1>3. ASSUME config # DB!NoBuffer
      PROVE  /\ buffers[config] = accepted.validated
             /\ IF accepted.changed THEN kind \in DB!Sliced ELSE accepted.validated \notin Unusable
  <2>1. buffers[config] = accepted.validated /\ Fits(accepted, kind)
    BY <1>3 DEF DatabaseInductive, ConfigOwned, ConfigKnown
  <2>2. CASE accepted.changed = TRUE
    BY <2>1, <2>2 DEF Fits
  <2>3. CASE accepted.changed = FALSE
    BY <2>1, <2>3 DEF Fits
  <2>4. QED BY <2>1, <2>2, <2>3 DEF Fits
<1>4. QED BY <1>1, <1>2, <1>3 DEF DB!StoreOwned

-----------------------------------------------------------------------------
(* Time-sensitive networking. The slice of the gate states is the ability's   *)
(* own; a set_interface that nothing overlaps has the name it wrote in force. *)
SliceOwned ==
  /\ timeAware = TSN!Own /\ memory[TSN!Own] = gates
  /\ DOMAIN memory = Clients \cup {TSN!Own} /\ \A b \in DOMAIN memory : memory[b] \in Gates \cup {TSN!None}

Answering(x, i) ==
  /\ x = [phase |-> x.phase, wrote |-> x.wrote, first |-> x.first, alone |-> x.alone]
  /\ x.phase \in {"pointer", "length", "answered"} /\ x.alone \in BOOLEAN
  /\ x.alone = TRUE /\ x.phase \in {"pointer", "length"} => i = x.wrote
  /\ x.alone = TRUE /\ x.phase \in {"length", "answered"} => x.first = x.wrote

(* A set_priority_map that has checked the map of its caller.                 *)
Setting(x) ==
  /\ x.phase = "map" /\ x.mappings \in TSN!Mappings /\ x.changed \in BOOLEAN
  /\ x = [phase |-> "map", mappings |-> x.mappings, changed |-> x.changed]
  /\ x.changed = FALSE => TSN!MappingsFit(x.mappings)

AnswerAhead == \A c \in Clients : tsnCall[c] = TSN!Idle \/ Setting(tsnCall[c]) \/ Answering(tsnCall[c], iface)

IfaceTyped == iface \in InterfaceNames \cup {TSN!None} /\ tsnCall = [c \in Clients |-> tsnCall[c]]
StreamsTyped == streams = [s \in StreamIDs |-> streams[s]] /\ granted = [s \in StreamIDs |-> granted[s]]

PrioritiesFit ==
  /\ prioMap \in TSN!Mappings /\ stirred \in BOOLEAN
  /\ stirred = FALSE => TSN!MappingsFit(prioMap)

StreamsInductive ==
  SliceOwned /\ IfaceTyped /\ AnswerAhead /\ StreamsTyped /\ TSN!OneRegistration /\ PrioritiesFit

LEMMA StreamsInit == TSN!StreamsAssumption /\ TSN!Init => StreamsInductive
<1> SUFFICES ASSUME TSN!StreamsAssumption, TSN!Init PROVE StreamsInductive
  OBVIOUS
<1>1. SliceOwned /\ IfaceTyped /\ StreamsTyped /\ TSN!OneRegistration
  BY DEF TSN!Init, SliceOwned, IfaceTyped, StreamsTyped, TSN!OneRegistration
<1>2. AnswerAhead
  BY DEF TSN!Init, AnswerAhead
<1>3. PrioritiesFit
  <2>1. PICK m : m = [p \in {TSN!maxPriority} |-> p]
    OBVIOUS
  <2>2. m \in [{7} -> TSN!Priorities] /\ DOMAIN m = {7} /\ m[7] = 7
    BY <2>1 DEF TSN!maxPriority, TSN!Priorities
  <2>3. m \in TSN!Mappings
    BY <2>2 DEF TSN!Mappings
  <2>4. TSN!MappingsFit(m)
    BY <2>2 DEF TSN!MappingsFit, TSN!maxPriority
  <2>5. prioMap = m /\ stirred = FALSE
    BY <2>1 DEF TSN!Init
  <2>6. QED BY <2>3, <2>4, <2>5 DEF PrioritiesFit
<1>4. QED BY <1>1, <1>2, <1>3 DEF StreamsInductive

(* What a set_interface has read next of the name.                            *)
Noting(x, p, f) == [x EXCEPT !.phase = p, !.first = f]

LEMMA NotingRead ==
  ASSUME NEW x, NEW p, NEW f,
         x = [phase |-> x.phase, wrote |-> x.wrote, first |-> x.first, alone |-> x.alone]
  PROVE  /\ Noting(x, p, f) = [phase |-> Noting(x, p, f).phase, wrote |-> Noting(x, p, f).wrote,
                               first |-> Noting(x, p, f).first, alone |-> Noting(x, p, f).alone]
         /\ Noting(x, p, f).phase = p /\ Noting(x, p, f).first = f
         /\ Noting(x, p, f).wrote = x.wrote /\ Noting(x, p, f).alone = x.alone
<1>1. PICK w : w = x.wrote
  OBVIOUS
<1>2. PICK b : b = x.alone
  OBVIOUS
<1>3. PICK q : q = x.phase
  OBVIOUS
<1>4. PICK g : g = x.first
  OBVIOUS
<1>5. x = [phase |-> q, wrote |-> w, first |-> g, alone |-> b]
  BY <1>1, <1>2, <1>3, <1>4
<1>6. PICK y : y = Noting(x, p, f)
  OBVIOUS
<1>7. y = [phase |-> p, wrote |-> w, first |-> f, alone |-> b]
  BY <1>5, <1>6 DEF Noting
<1>8. y.phase = p /\ y.wrote = w /\ y.first = f /\ y.alone = b
  BY <1>7
<1>9. QED BY <1>1, <1>2, <1>6, <1>7, <1>8

LEMMA PointerRead ==
  ASSUME NEW x, NEW i, Answering(x, i), x.phase = "pointer"
  PROVE  Answering(Noting(x, "length", i), i)
<1>1. PICK y : y = Noting(x, "length", i)
  OBVIOUS
<1>2. /\ y = [phase |-> y.phase, wrote |-> y.wrote, first |-> y.first, alone |-> y.alone]
      /\ y.phase = "length" /\ y.first = i /\ y.wrote = x.wrote /\ y.alone = x.alone
  BY <1>1, NotingRead DEF Answering
<1>3. y.alone \in BOOLEAN /\ (y.alone = TRUE => i = y.wrote)
  BY <1>2 DEF Answering
<1>4. QED BY <1>1, <1>2, <1>3 DEF Answering

LEMMA LengthRead ==
  ASSUME NEW x, NEW i, Answering(x, i), x.phase = "length",
         NEW f, f = IF i = x.first THEN x.first ELSE TSN!Torn
  PROVE  Answering(Noting(x, "answered", f), i)
<1>1. PICK y : y = Noting(x, "answered", f)
  OBVIOUS
<1>2. /\ y = [phase |-> y.phase, wrote |-> y.wrote, first |-> y.first, alone |-> y.alone]
      /\ y.phase = "answered" /\ y.first = f /\ y.wrote = x.wrote /\ y.alone = x.alone
  BY <1>1, NotingRead DEF Answering
<1>3. y.alone \in BOOLEAN /\ (y.alone = TRUE => f = y.wrote)
  BY <1>2 DEF Answering
<1>4. QED BY <1>1, <1>2, <1>3 DEF Answering

(* What a later set_interface leaves of it.                                   *)
Overlapping(x) == [x EXCEPT !.alone = FALSE]

LEMMA OverlappingRead ==
  ASSUME NEW x, NEW i, NEW j, Answering(x, i)
  PROVE  Answering(Overlapping(x), j)
<1>1. PICK p \in {"pointer", "length", "answered"} : p = x.phase
  BY DEF Answering
<1>2. PICK w : w = x.wrote
  OBVIOUS
<1>3. PICK g : g = x.first
  OBVIOUS
<1>4. PICK b : b = x.alone
  OBVIOUS
<1>5. x = [phase |-> p, wrote |-> w, first |-> g, alone |-> b]
  BY <1>1, <1>2, <1>3, <1>4 DEF Answering
<1>6. PICK y : y = Overlapping(x)
  OBVIOUS
<1>7. y = [phase |-> p, wrote |-> w, first |-> g, alone |-> FALSE]
  BY <1>5, <1>6 DEF Overlapping
<1>8. Answering(y, j)
  BY <1>7 DEF Answering
<1>9. QED BY <1>6, <1>8

LEMMA AnswerMoves ==
  ASSUME IfaceTyped, AnswerAhead, NEW c \in Clients, NEW x, Answering(x, iface) \/ Setting(x),
         iface' = iface, tsnCall' = [tsnCall EXCEPT ![c] = x]
  PROVE  IfaceTyped' /\ AnswerAhead'
BY DEF IfaceTyped, AnswerAhead

(* Which call it is shows in its phase.                                       *)
LEMMA CallsApart ==
  ASSUME AnswerAhead, NEW c \in Clients
  PROVE  /\ tsnCall[c].phase = "map" => Setting(tsnCall[c])
         /\ tsnCall[c].phase \in {"idle", "map"} => tsnCall[c] = TSN!Idle \/ Setting(tsnCall[c])
         /\ tsnCall[c].phase \notin {"idle", "map"} => Answering(tsnCall[c], iface)
<1>1. Setting(tsnCall[c]) => tsnCall[c].phase = "map"
  BY DEF Setting
<1>2. Answering(tsnCall[c], iface) => tsnCall[c].phase \in {"pointer", "length", "answered"}
  BY DEF Answering
<1>3. tsnCall[c] = TSN!Idle => tsnCall[c].phase = "idle"
  BY DEF TSN!Idle
<1>4. tsnCall[c] = TSN!Idle \/ Setting(tsnCall[c]) \/ Answering(tsnCall[c], iface)
  BY DEF AnswerAhead
<1>5. QED BY <1>1, <1>2, <1>3, <1>4

LEMMA InterfaceSteps ==
  ASSUME IfaceTyped, AnswerAhead, NEW c \in Clients,
         \/ \E name \in InterfaceNames : TSN!SetInterface(c, name)
         \/ TSN!ReadPointer(c) \/ TSN!Answer(c) \/ TSN!Return(c)
  PROVE  IfaceTyped' /\ AnswerAhead'
<1>1. ASSUME NEW name \in InterfaceNames, TSN!SetInterface(c, name) PROVE IfaceTyped' /\ AnswerAhead'
  <2>1. PICK own : own = [phase |-> "pointer", wrote |-> name, first |-> TSN!None, alone |-> TRUE]
    OBVIOUS
  <2>2. iface' = name /\ tsnCall' = [d \in Clients |->
                IF d = c THEN own
                ELSE IF tsnCall[d].phase \in {"idle", "map"} THEN tsnCall[d]
                ELSE Overlapping(tsnCall[d])]
    BY <1>1, <2>1 DEF TSN!SetInterface, Overlapping
  <2>3. IfaceTyped'
    BY <2>2 DEF IfaceTyped
  <2>4. Answering(own, name)
    BY <2>1 DEF Answering
  <2>5. ASSUME NEW d \in Clients 
        PROVE  tsnCall'[d] = TSN!Idle \/ Setting(tsnCall'[d]) \/ Answering(tsnCall'[d], name)
    <3>1. CASE d = c
      BY <2>2, <2>4, <3>1
    <3>2. CASE d # c /\ tsnCall[d].phase \notin {"idle", "map"}
      <4>1. Answering(tsnCall[d], iface)
        BY <3>2, CallsApart
      <4>2. Answering(Overlapping(tsnCall[d]), name)
        BY <4>1, OverlappingRead
      <4>3. QED BY <2>2, <3>2, <4>2
    <3>3. CASE d # c /\ tsnCall[d].phase \in {"idle", "map"}
      <4>1. tsnCall[d] = TSN!Idle \/ Setting(tsnCall[d])
        BY <3>3, CallsApart
      <4>2. QED BY <2>2, <3>3, <4>1
    <3>4. QED BY <3>1, <3>2, <3>3
  <2>6. QED BY <2>2, <2>3, <2>5 DEF AnswerAhead
<1>2. CASE TSN!ReadPointer(c)
  <2>1. /\ iface' = iface /\ tsnCall[c].phase = "pointer"
        /\ tsnCall' = [tsnCall EXCEPT ![c].phase = "length", ![c].first = iface]
    BY <1>2 DEF TSN!ReadPointer
  <2>2. Answering(tsnCall[c], iface)
    BY <2>1, CallsApart
  <2>3. tsnCall' = [tsnCall EXCEPT ![c] = Noting(tsnCall[c], "length", iface)]
    BY <2>1 DEF Noting
  <2>4. Answering(Noting(tsnCall[c], "length", iface), iface)
    BY <2>1, <2>2, PointerRead
  <2>5. QED BY <2>1, <2>3, <2>4, AnswerMoves
<1>3. CASE TSN!Answer(c)
  <2>1. PICK f : f = IF iface = tsnCall[c].first THEN tsnCall[c].first ELSE TSN!Torn
    OBVIOUS
  <2>2. /\ iface' = iface /\ tsnCall[c].phase = "length"
        /\ tsnCall' = [tsnCall EXCEPT ![c].phase = "answered", ![c].first = f]
    BY <1>3, <2>1 DEF TSN!Answer
  <2>3. Answering(tsnCall[c], iface)
    BY <2>2, CallsApart
  <2>4. tsnCall' = [tsnCall EXCEPT ![c] = Noting(tsnCall[c], "answered", f)]
    BY <2>2 DEF Noting
  <2>5. Answering(Noting(tsnCall[c], "answered", f), iface)
    BY <2>1, <2>2, <2>3, LengthRead
  <2>6. QED BY <2>2, <2>4, <2>5, AnswerMoves
<1>4. CASE TSN!Return(c)
  BY <1>4 DEF TSN!Return, IfaceTyped, AnswerAhead
<1>5. QED BY <1>1, <1>2, <1>3, <1>4

(* What its caller may make of the map in between.                            *)
Stirring(x, m) == [x EXCEPT !.mappings = m, !.changed = TRUE]

LEMMA StirringRead ==
  ASSUME NEW x, Setting(x), NEW m \in TSN!Mappings
  PROVE  Setting(Stirring(x, m))
<1>1. PICK n : n = x.mappings
  OBVIOUS
<1>2. PICK q : q = x.changed
  OBVIOUS
<1>3. x = [phase |-> "map", mappings |-> n, changed |-> q]
  BY <1>1, <1>2 DEF Setting
<1>4. PICK y : y = Stirring(x, m)
  OBVIOUS
<1>5. y = [phase |-> "map", mappings |-> m, changed |-> TRUE]
  BY <1>3, <1>4 DEF Stirring
<1>6. Setting(y)
  BY <1>5 DEF Setting
<1>7. QED BY <1>4, <1>6

LEMMA PrioritySteps ==
  ASSUME IfaceTyped, AnswerAhead, PrioritiesFit, NEW c \in Clients,
         \/ \E mappings \in TSN!Mappings : TSN!SetPriority(c, mappings) \/ TSN!Stir(c, mappings)
         \/ TSN!StorePriority(c)
  PROVE  IfaceTyped' /\ AnswerAhead' /\ PrioritiesFit'
<1>1. ASSUME NEW x, Setting(x), tsnCall' = [tsnCall EXCEPT ![c] = x],
             UNCHANGED <<iface, prioMap, stirred>>
      PROVE  IfaceTyped' /\ AnswerAhead' /\ PrioritiesFit'
  <2>1. IfaceTyped' /\ AnswerAhead'
    BY <1>1, AnswerMoves
  <2>2. QED BY <1>1, <2>1 DEF PrioritiesFit
<1>2. ASSUME NEW mappings \in TSN!Mappings, TSN!SetPriority(c, mappings)
      PROVE  IfaceTyped' /\ AnswerAhead' /\ PrioritiesFit'
  <2>1. PICK x : x = [phase |-> "map", mappings |-> mappings, changed |-> FALSE]
    OBVIOUS
  <2>2. tsnCall' = [tsnCall EXCEPT ![c] = x] /\ TSN!MappingsFit(mappings)
        /\ UNCHANGED <<iface, prioMap, stirred>>
    BY <1>2, <2>1 DEF TSN!SetPriority
  <2>3. Setting(x)
    BY <2>1, <2>2 DEF Setting
  <2>4. QED BY <1>1, <2>2, <2>3
<1>3. ASSUME NEW mappings \in TSN!Mappings, TSN!Stir(c, mappings)
      PROVE  IfaceTyped' /\ AnswerAhead' /\ PrioritiesFit'
  <2>1. /\ tsnCall[c].phase = "map" /\ UNCHANGED <<iface, prioMap, stirred>>
        /\ tsnCall' = [tsnCall EXCEPT ![c].mappings = mappings, ![c].changed = TRUE]
    BY <1>3 DEF TSN!Stir
  <2>2. Setting(tsnCall[c])
    BY <2>1, CallsApart
  <2>3. tsnCall' = [tsnCall EXCEPT ![c] = Stirring(tsnCall[c], mappings)]
    BY <2>1 DEF Stirring
  <2>4. Setting(Stirring(tsnCall[c], mappings))
    BY <2>2, StirringRead
  <2>5. QED BY <1>1, <2>1, <2>3, <2>4
<1>4. ASSUME TSN!StorePriority(c) PROVE IfaceTyped' /\ AnswerAhead' /\ PrioritiesFit'
  <2>1. /\ tsnCall[c].phase = "map" /\ tsnCall' = [tsnCall EXCEPT ![c] = TSN!Idle]
        /\ prioMap' = tsnCall[c].mappings /\ stirred' = tsnCall[c].changed /\ iface' = iface
    BY <1>4 DEF TSN!StorePriority
  <2>2. Setting(tsnCall[c])
    BY <2>1, CallsApart
  <2>3. PrioritiesFit'
    BY <2>1, <2>2 DEF PrioritiesFit, Setting
  <2>4. IfaceTyped' /\ AnswerAhead'
    BY <2>1 DEF IfaceTyped, AnswerAhead
  <2>5. QED BY <2>3, <2>4
<1>5. QED BY <1>2, <1>3, <1>4

LEMMA RegistrationSteps ==
  ASSUME StreamsTyped, TSN!OneRegistration, NEW s \in StreamIDs,
         \/ \E c \in Clients, direction \in {"talker", "listener"}, p \in TSN!Priorities, i \in {0, 1} :
              TSN!RegisterStream(c, s, direction, p, i)
         \/ TSN!Unregister(s)
  PROVE  StreamsTyped' /\ TSN!OneRegistration'
<1>1. ASSUME NEW c \in Clients, NEW direction \in {"talker", "listener"}, NEW p, NEW i,
             TSN!RegisterStream(c, s, direction, p, i)
      PROVE  StreamsTyped' /\ TSN!OneRegistration'
  <2>1. granted[s] = {}
    BY <1>1 DEF TSN!RegisterStream, TSN!Free, TSN!OneRegistration
  <2>2. PICK x : x = [by |-> c, direction |-> direction]
    OBVIOUS
  <2>3. x # TSN!NoStream /\ x.by = c /\ x.direction = direction
    BY <2>2 DEF TSN!NoStream, TSN!None
  <2>4. streams' = [streams EXCEPT ![s] = x] /\ granted' = [granted EXCEPT ![s] = {<<c, direction>>}]
    BY <1>1, <2>1, <2>2 DEF TSN!RegisterStream, StreamsTyped
  <2>5. QED BY <2>3, <2>4 DEF StreamsTyped, TSN!OneRegistration
<1>2. CASE TSN!Unregister(s)
  BY <1>2 DEF TSN!Unregister, StreamsTyped, TSN!OneRegistration
<1>3. QED BY <1>1, <1>2

LEMMA SliceSteps ==
  ASSUME TSN!StreamsAssumption, SliceOwned, NEW c \in Clients,
         \/ TSN!Scribble(c) \/ TSN!GetTimeAware(c)
         \/ \E cycle \in {-1, 0}, count \in TSN!GateCounts : TSN!SetTimeAware(c, cycle, count)
  PROVE  SliceOwned'
BY DEF TSN!StreamsAssumption, SliceOwned, TSN!Scribble, TSN!GetTimeAware, TSN!SetTimeAware, TSN!SliceCopied

LEMMA StreamsStep ==
  ASSUME TSN!StreamsAssumption, StreamsInductive, [TSN!Next]_(streamsVars)
  PROVE  StreamsInductive'
<1> USE DEF StreamsInductive
<1>1. CASE UNCHANGED streamsVars
  BY <1>1 DEF streamsVars, SliceOwned, IfaceTyped, AnswerAhead, StreamsTyped, TSN!OneRegistration, PrioritiesFit
<1>2. ASSUME NEW c \in Clients,
             \/ \E mappings \in TSN!Mappings : TSN!SetPriority(c, mappings) \/ TSN!Stir(c, mappings)
             \/ TSN!StorePriority(c)
      PROVE  StreamsInductive'
  <2>1. UNCHANGED <<streams, timeAware, memory, granted, gates>>
    BY <1>2 DEF TSN!SetPriority, TSN!Stir, TSN!StorePriority
  <2>2. IfaceTyped' /\ AnswerAhead' /\ PrioritiesFit'
    BY <1>2, PrioritySteps
  <2>3. QED BY <2>1, <2>2 DEF SliceOwned, StreamsTyped, TSN!OneRegistration
<1>3. ASSUME NEW c \in Clients,
             \/ \E name \in InterfaceNames : TSN!SetInterface(c, name)
             \/ TSN!ReadPointer(c) \/ TSN!Answer(c) \/ TSN!Return(c)
      PROVE  StreamsInductive'
  <2>1. UNCHANGED <<streams, prioMap, stirred, timeAware, memory, granted, gates>>
    BY <1>3 DEF TSN!SetInterface, TSN!ReadPointer, TSN!Answer, TSN!Return
  <2>2. IfaceTyped' /\ AnswerAhead'
    BY <1>3, InterfaceSteps
  <2>3. QED BY <2>1, <2>2 DEF SliceOwned, StreamsTyped, TSN!OneRegistration, PrioritiesFit
<1>4. ASSUME NEW s \in StreamIDs,
             \/ \E c \in Clients, direction \in {"talker", "listener"}, p \in TSN!Priorities, i \in {0, 1} :
                  TSN!RegisterStream(c, s, direction, p, i)
             \/ TSN!Unregister(s)
      PROVE  StreamsInductive'
  <2>1. UNCHANGED <<iface, prioMap, stirred, timeAware, memory, tsnCall, gates>>
    BY <1>4 DEF TSN!RegisterStream, TSN!Unregister
  <2>2. StreamsTyped' /\ TSN!OneRegistration'
    BY <1>4, RegistrationSteps
  <2>3. QED BY <2>1, <2>2 DEF SliceOwned, IfaceTyped, AnswerAhead, PrioritiesFit
<1>5. ASSUME NEW c \in Clients,
             \/ TSN!Scribble(c) \/ TSN!GetTimeAware(c)
             \/ \E cycle \in {-1, 0}, count \in TSN!GateCounts : TSN!SetTimeAware(c, cycle, count)
      PROVE  StreamsInductive'
  <2>1. UNCHANGED <<iface, streams, prioMap, stirred, tsnCall, granted>>
    BY <1>5 DEF TSN!Scribble, TSN!GetTimeAware, TSN!SetTimeAware
  <2>2. SliceOwned'
    BY <1>5, SliceSteps
  <2>3. QED BY <2>1, <2>2 DEF IfaceTyped, AnswerAhead, StreamsTyped, TSN!OneRegistration, PrioritiesFit
<1>6. QED BY <1>1, <1>2, <1>3, <1>4, <1>5 DEF TSN!Next, TSN!Client

LEMMA StreamsSound == StreamsInductive => TSN!TypeOK /\ TSN!StreamsHold
<1> SUFFICES ASSUME StreamsInductive PROVE TSN!TypeOK /\ TSN!StreamsHold
  OBVIOUS
<1>1. TSN!TypeOK /\ TSN!GatesOwned
  BY DEF StreamsInductive, SliceOwned, IfaceTyped, PrioritiesFit, TSN!TypeOK, TSN!GatesOwned
<1>2. TSN!OwnAnswer
  <2>1. SUFFICES ASSUME NEW c \in Clients, tsnCall[c].phase = "answered", tsnCall[c].alone
                 PROVE  tsnCall[c].first = tsnCall[c].wrote
    BY DEF TSN!OwnAnswer
  <2>3. Answering(tsnCall[c], iface)
    BY <2>1, CallsApart DEF StreamsInductive
  <2>4. tsnCall[c].alone = TRUE
    BY <2>1, <2>3 DEF Answering
  <2>5. QED BY <2>1, <2>3, <2>4 DEF Answering
<1>3. TSN!QueuesExist
  BY DEF StreamsInductive, PrioritiesFit, TSN!MappingsFit, TSN!QueuesExist, TSN!maxPriority
<1>4. QED BY <1>1, <1>2, <1>3 DEF StreamsInductive, TSN!StreamsHold

-----------------------------------------------------------------------------
(* The network map. What a topology has found of this node is so by itself;   *)
(* what is still to be found of the peers has all that stayed.                *)
PeerRecords == [address : Hosts, role : Roles]

MapTyped ==
  /\ system \in Map!Tables /\ interfaces \in Map!Tables /\ defaultIface \in Interfaces \cup {Map!None}
  /\ peers \in [Peers -> PeerRecords \cup {Map!NoPeer}] /\ mapCall = [c \in Observers |-> mapCall[c]]

DefaultThere ==
  scanned \in BOOLEAN /\ (scanned = TRUE => defaultIface \in Map!Present(interfaces) \cup {Map!None})

SelfWhole(s) ==
  /\ s.whole \in BOOLEAN
  /\ s.whole = TRUE => \/ s.defaultIface = Map!None /\ s.hosts = {}
                       \/ s.defaultIface \in s.present /\ s.hosts # {}

There == {p \in Peers : Map!Exists(p)}

Finding(x) ==
  /\ x = [phase |-> "found", peer |-> x.peer, stayed |-> x.stayed, answering |-> x.answering]
  /\ IF x.answering = {} THEN x.peer = Map!None ELSE x.peer \in x.answering
Surveying(x, T) ==
  /\ x = [phase |-> "peers", self |-> x.self, stayed |-> x.stayed]
  /\ SelfWhole(x.self) /\ x.stayed \subseteq T
Surveyed(x) ==
  /\ x = [phase |-> "topology", self |-> x.self, stayed |-> x.stayed, peers |-> x.peers]
  /\ SelfWhole(x.self) /\ x.stayed \subseteq x.peers

MapCall(x, T) == x = Map!Idle \/ Finding(x) \/ Surveying(x, T) \/ Surveyed(x)
MapCalls == \A c \in Observers : MapCall(mapCall[c], There)

MapInductive == MapTyped /\ DefaultThere /\ MapCalls /\ Map!UpdatesKept

LEMMA MapInit == Map!MapAssumption /\ Map!Init => MapInductive
<1> SUFFICES ASSUME Map!Init PROVE MapInductive
  OBVIOUS
<1>1. MapTyped /\ DefaultThere
  BY DEF Map!Init, MapTyped, DefaultThere, Map!Tables
<1>2. MapCalls /\ Map!UpdatesKept
  BY DEF Map!Init, MapCalls, MapCall, Map!UpdatesKept
<1>3. QED BY <1>1, <1>2 DEF MapInductive

LEMMA LocalSteps ==
  ASSUME MapInductive,
         Map!LinkChanges \/ Map!ListInterfaces \/ \E i \in Interfaces : Map!SetDefaultIface(i)
  PROVE  MapInductive'
<1>1. peers' = peers /\ declared' = declared /\ mapCall' = mapCall
  BY DEF Map!LinkChanges, Map!ListInterfaces, Map!SetDefaultIface, Map!remote
<1>2. MapCalls' /\ Map!UpdatesKept'
  BY <1>1 DEF MapInductive, MapCalls, There, Map!Exists, Map!UpdatesKept
<1>3. /\ system' \in Map!Tables /\ interfaces' \in Map!Tables
      /\ defaultIface' \in Interfaces \cup {Map!None} /\ DefaultThere'
  <2> USE DEF MapInductive, MapTyped, DefaultThere, Map!Tables
  <2>1. CASE Map!LinkChanges
    BY <2>1 DEF Map!LinkChanges, Map!local
  <2>2. CASE Map!ListInterfaces
    BY <2>2 DEF Map!ListInterfaces, Map!Scan, Map!DefaultIn, Map!Present
  <2>3. CASE \E i \in Interfaces : Map!SetDefaultIface(i)
    BY <2>3 DEF Map!SetDefaultIface, Map!Present
  <2>4. QED BY <2>1, <2>2, <2>3
<1>4. QED BY <1>1, <1>2, <1>3 DEF MapInductive, MapTyped

LEMMA PeersKept ==
  ASSUME MapInductive, There \subseteq There', mapCall' = mapCall
  PROVE  MapCalls'
BY DEF MapInductive, MapCalls, MapCall, Surveying

LEMMA PeerKnown ==
  ASSUME Map!MapAssumption, NEW r \in PeerRecords
  PROVE  r # Map!NoPeer
BY DEF Map!MapAssumption, PeerRecords, Map!NoPeer

LEMMA PeerSteps ==
  ASSUME Map!MapAssumption, MapInductive, NEW p \in Peers,
         \/ \E h \in Hosts, r \in Roles : Map!RegisterPeer(p, h, r)
         \/ \E h \in Hosts \cup {Map!Kept}, r \in Roles \cup {Map!Kept} : Map!UpdatePeer(p, h, r)
  PROVE  MapInductive'
<1>1. mapCall' = mapCall /\ system' = system /\ UNCHANGED Map!local
  BY DEF Map!RegisterPeer, Map!UpdatePeer
<1>2. PICK x \in PeerRecords : peers' = [peers EXCEPT ![p] = x] /\ declared' = [declared EXCEPT ![p] = x]
  <2>1. ASSUME NEW h \in Hosts, NEW r \in Roles, Map!RegisterPeer(p, h, r)
        PROVE  \E x \in PeerRecords :
                 peers' = [peers EXCEPT ![p] = x] /\ declared' = [declared EXCEPT ![p] = x]
    <3>1. PICK x : x = [address |-> h, role |-> r]
      OBVIOUS
    <3>2. QED BY <2>1, <3>1 DEF Map!RegisterPeer, PeerRecords
  <2>2. ASSUME NEW h \in Hosts \cup {Map!Kept}, NEW r \in Roles \cup {Map!Kept}, Map!UpdatePeer(p, h, r)
        PROVE  \E x \in PeerRecords :
                 peers' = [peers EXCEPT ![p] = x] /\ declared' = [declared EXCEPT ![p] = x]
    <3>1. peers[p] \in PeerRecords /\ peers = declared
      BY <2>2 DEF Map!UpdatePeer, Map!Exists, MapInductive, MapTyped, Map!UpdatesKept
    <3>2. PICK e \in PeerRecords : e = peers[p]
      BY <3>1
    <3>3. PICK x : x = Map!GivenFields(e, h, r)
      OBVIOUS
    <3>4. x \in PeerRecords
      BY <3>3 DEF Map!GivenFields, PeerRecords
    <3>5. x = [address |-> IF h # Map!Kept THEN h ELSE e.address, role |-> IF r # Map!Kept THEN r ELSE e.role]
      BY <3>3 DEF Map!GivenFields
    <3>6. peers' = [peers EXCEPT ![p] = x]
      BY <2>2, <3>2, <3>3 DEF Map!UpdatePeer
    <3>7. declared' = [declared EXCEPT ![p] = x]
      BY <2>2, <3>1, <3>2, <3>5 DEF Map!UpdatePeer
    <3>8. QED BY <3>4, <3>6, <3>7
  <2>3. QED BY <2>1, <2>2
<1>3. There \subseteq There'
  BY <1>2, PeerKnown DEF MapInductive, MapTyped, There, Map!Exists
<1>4. MapCalls'
  BY <1>1, <1>3, PeersKept
<1>5. Map!UpdatesKept'
  BY <1>2 DEF MapInductive, Map!UpdatesKept
<1>6. MapTyped' /\ DefaultThere'
  BY <1>1, <1>2 DEF MapInductive, MapTyped, DefaultThere, Map!local
<1>7. QED BY <1>4, <1>5, <1>6 DEF MapInductive

(* A peer that goes was not there all the while.                              *)
Without(x, p) == [x EXCEPT !.stayed = @ \ {p}]

LEMMA WithoutRead ==
  ASSUME NEW x, NEW p, NEW T, NEW U, MapCall(x, T), x # Map!Idle, T \ {p} \subseteq U
  PROVE  MapCall(Without(x, p), U)
<1>1. CASE Finding(x)
  <2>1. Without(x, p) = [phase |-> "found", peer |-> x.peer, stayed |-> x.stayed \ {p}, answering |-> x.answering]
    BY <1>1 DEF Finding, Without
  <2>2. QED BY <1>1, <2>1 DEF Finding, MapCall
<1>2. CASE Surveying(x, T)
  <2>1. Without(x, p) = [phase |-> "peers", self |-> x.self, stayed |-> x.stayed \ {p}]
    BY <1>2 DEF Surveying, Without
  <2>2. SelfWhole(x.self) /\ x.stayed \ {p} \subseteq U
    BY <1>2 DEF Surveying
  <2>3. QED BY <2>1, <2>2 DEF Surveying, MapCall
<1>3. CASE Surveyed(x)
  <2>1. Without(x, p) = [phase |-> "topology", self |-> x.self, stayed |-> x.stayed \ {p}, peers |-> x.peers]
    BY <1>3 DEF Surveyed, Without
  <2>2. SelfWhole(x.self) /\ x.stayed \ {p} \subseteq x.peers
    BY <1>3 DEF Surveyed
  <2>3. QED BY <2>1, <2>2 DEF Surveyed, MapCall
<1>4. QED BY <1>1, <1>2, <1>3 DEF MapCall

LEMMA UnregisterStep ==
  ASSUME MapInductive, NEW p \in Peers, Map!UnregisterPeer(p)
  PROVE  MapInductive'
<1>1. /\ peers' = [peers EXCEPT ![p] = Map!NoPeer] /\ declared' = [declared EXCEPT ![p] = Map!NoPeer]
      /\ system' = system /\ UNCHANGED Map!local
      /\ mapCall' = [c \in Observers |-> IF mapCall[c] = Map!Idle THEN Map!Idle ELSE Without(mapCall[c], p)]
  BY DEF Map!UnregisterPeer, Without
<1>2. There \ {p} \subseteq There'
  BY <1>1 DEF MapInductive, MapTyped, There, Map!Exists
<1>3. MapCalls'
  <2>1. SUFFICES ASSUME NEW c \in Observers PROVE MapCall(mapCall'[c], There')
    BY DEF MapCalls
  <2>2. MapCall(mapCall[c], There)
    BY DEF MapInductive, MapCalls
  <2>3. CASE mapCall[c] = Map!Idle
    BY <1>1, <2>3 DEF MapCall
  <2>4. CASE mapCall[c] # Map!Idle
    <3>1. MapCall(Without(mapCall[c], p), There')
      BY <1>2, <2>2, <2>4, WithoutRead
    <3>2. QED BY <1>1, <2>4, <3>1
  <2>5. QED BY <2>3, <2>4
<1>4. MapTyped' /\ DefaultThere' /\ Map!UpdatesKept'
  BY <1>1 DEF MapInductive, MapTyped, DefaultThere, Map!UpdatesKept, Map!local
<1>5. QED BY <1>3, <1>4 DEF MapInductive

LEMMA MapMoves ==
  ASSUME MapInductive, NEW c \in Observers, NEW x, MapCall(x, There), mapCall' = [mapCall EXCEPT ![c] = x],
         UNCHANGED <<system, Map!local, Map!remote>>
  PROVE  MapInductive'
<1>1. /\ system' = system /\ interfaces' = interfaces /\ defaultIface' = defaultIface /\ scanned' = scanned
      /\ peers' = peers /\ declared' = declared
  BY DEF Map!local, Map!remote
<1>2. There' = There
  BY <1>1 DEF There, Map!Exists
<1>3. \A d \in Observers : mapCall'[d] = IF d = c THEN x ELSE mapCall[d]
  BY DEF MapInductive, MapTyped
<1>4. MapCalls'
  BY <1>2, <1>3 DEF MapInductive, MapCalls
<1>5. MapTyped' /\ DefaultThere' /\ Map!UpdatesKept'
  BY <1>1 DEF MapInductive, MapTyped, DefaultThere, Map!UpdatesKept
<1>6. QED BY <1>4, <1>5 DEF MapInductive

LEMMA LookupStep ==
  ASSUME Map!MapAssumption, MapInductive, NEW c \in Observers, NEW n \in Peers \cup {Map!None},
         NEW h \in Hosts \cup {Map!None}, Map!Lookup(c, n, h)
  PROVE  MapInductive'
<1>1. PICK A : A = {q \in Peers : Map!Exists(q) /\ (q = n \/ peers[q].address = h)}
  OBVIOUS
<1>2. PICK F : F = Map!Found(n, h)
  OBVIOUS
<1>3. PICK p \in F \cup {Map!None} :
        /\ p = Map!None <=> F = {}
        /\ mapCall' = [mapCall EXCEPT ![c] = [phase |-> "found", peer |-> p, stayed |-> {}, answering |-> A]]
  BY <1>1, <1>2 DEF Map!Lookup
<1>4. F \subseteq A
  BY <1>1, <1>2 DEF Map!Found
<1>5. A # {} => F # {}
  <2>1. SUFFICES ASSUME NEW q \in A PROVE F # {}
    OBVIOUS
  <2>2. q \in Peers /\ Map!Exists(q) /\ q # Map!None /\ peers[q].address # Map!None
    BY <1>1, <2>1 DEF MapInductive, MapTyped, Map!Exists, PeerRecords, Map!MapAssumption
  <2>3. CASE q = n
    BY <1>2, <2>2, <2>3 DEF Map!Found
  <2>4. CASE q # n
    <3>1. peers[q].address = h
      BY <1>1, <2>1, <2>4
    <3>2. QED BY <1>2, <2>2, <3>1 DEF Map!Found
  <2>5. QED BY <2>3, <2>4
<1>6. PICK x : x = [phase |-> "found", peer |-> p, stayed |-> {}, answering |-> A]
  OBVIOUS
<1>7. MapCall(x, There)
  BY <1>3, <1>4, <1>5, <1>6 DEF MapCall, Finding
<1>8. UNCHANGED <<system, Map!local, Map!remote>>
  BY DEF Map!Lookup
<1>9. QED BY <1>3, <1>6, <1>7, <1>8, MapMoves

LEMMA TopologySteps ==
  ASSUME Map!MapAssumption, MapInductive, NEW c \in Observers,
         Map!TopologySelf(c) \/ Map!SnapshotPeers(c) \/ Map!Return(c)
  PROVE  MapInductive'
<1>1. UNCHANGED <<system, Map!local, Map!remote>>
  BY DEF Map!TopologySelf, Map!SnapshotPeers, Map!Return
<1>2. CASE Map!TopologySelf(c)
  <2>1. PICK s : s = Map!Snapshot
    OBVIOUS
  <2>2. /\ s.defaultIface = defaultIface /\ s.present = Map!Present(interfaces)
        /\ s.hosts = Map!HostAddresses /\ s.whole = scanned
    BY <2>1 DEF Map!Snapshot
  <2>3. SelfWhole(s)
    BY <2>2 DEF MapInductive, DefaultThere, SelfWhole, Map!HostAddresses, Map!Present, Map!MapAssumption
  <2>4. PICK x : x = [phase |-> "peers", self |-> s, stayed |-> There]
    OBVIOUS
  <2>5. MapCall(x, There)
    BY <2>3, <2>4 DEF MapCall, Surveying
  <2>6. mapCall' = [mapCall EXCEPT ![c] = x]
    BY <1>2, <2>1, <2>4 DEF Map!TopologySelf, There
  <2>7. QED BY <1>1, <2>5, <2>6, MapMoves
<1>3. CASE Map!SnapshotPeers(c)
  <2>1. PICK y : y = mapCall[c]
    OBVIOUS
  <2>2. Surveying(y, There)
    <3>1. MapCall(y, There) /\ y.phase = "peers"
      BY <1>3, <2>1 DEF Map!SnapshotPeers, MapInductive, MapCalls
    <3>2. y # Map!Idle /\ ~Finding(y) /\ ~Surveyed(y)
      BY <3>1 DEF Map!Idle, Finding, Surveyed
    <3>3. QED BY <3>1, <3>2 DEF MapCall
  <2>3. PICK x : x = [phase |-> "topology", self |-> y.self, stayed |-> y.stayed, peers |-> There]
    OBVIOUS
  <2>4. MapCall(x, There)
    BY <2>2, <2>3 DEF MapCall, Surveying, Surveyed
  <2>5. mapCall' = [mapCall EXCEPT ![c] = x]
    BY <1>3, <2>1, <2>3 DEF Map!SnapshotPeers, There
  <2>6. QED BY <1>1, <2>4, <2>5, MapMoves
<1>4. CASE Map!Return(c)
  BY <1>1, <1>4, MapMoves DEF Map!Return, MapCall
<1>5. QED BY <1>2, <1>3, <1>4

LEMMA MapStep ==
  ASSUME Map!MapAssumption, MapInductive, [Map!Next]_(mapVars)
  PROVE  MapInductive'
<1>1. CASE UNCHANGED mapVars
  BY <1>1 DEF mapVars, MapInductive, MapTyped, DefaultThere, MapCalls, There, Map!Exists, Map!UpdatesKept
<1>2. CASE Map!Next
  BY <1>2, LocalSteps, PeerSteps, UnregisterStep, LookupStep, TopologySteps DEF Map!Next
<1>3. QED BY <1>1, <1>2

LEMMA MapSound == MapInductive => Map!TypeOK /\ Map!MapHolds
<1> SUFFICES ASSUME MapInductive PROVE Map!TypeOK /\ Map!MapHolds
  OBVIOUS
<1>1. Map!TypeOK /\ Map!UpdatesKept
  BY DEF MapInductive, MapTyped, PeerRecords, Map!TypeOK
<1>2. ASSUME NEW c \in Observers
      PROVE  /\ mapCall[c].phase \in {"peers", "topology"} => SelfWhole(mapCall[c].self)
             /\ mapCall[c].phase = "topology" => mapCall[c].stayed \subseteq mapCall[c].peers
             /\ mapCall[c].phase = "found" => Finding(mapCall[c])
  <2>1. PICK x : x = mapCall[c]
    OBVIOUS
  <2>2. MapCall(x, There)
    BY <2>1 DEF MapInductive, MapCalls
  <2>3. QED BY <2>1, <2>2 DEF MapCall, Map!Idle, Finding, Surveying, Surveyed
<1>3. Map!TopologyWhole
  BY <1>2 DEF SelfWhole, Map!TopologyWhole
<1>4. Map!LookupFinds
  BY <1>2 DEF Finding, Map!LookupFinds
<1>5. QED BY <1>1, <1>3, <1>4 DEF Map!MapHolds

(* The tables of the network map, the streams and the databases: however      *)
(* commands overlap and whatever callers do to the slices they passed or were *)
(* given, what a table says is what was accepted last.                        *)
THEOREM TablesAlwaysHold == Spec => []TablesHold
<1> USE PartsAssumption
<1>1. Init => MapInductive /\ StreamsInductive /\ DatabaseInductive
  BY MapInit, StreamsInit, DatabaseInit DEF Init, Rest
<1>2. MapInductive /\ StreamsInductive /\ DatabaseInductive /\ [Next]_vars
        => (MapInductive /\ StreamsInductive /\ DatabaseInductive)'
  BY OneMoves, MapStep, StreamsStep, DatabaseStep
<1>3. MapInductive /\ StreamsInductive /\ DatabaseInductive => TablesHold
  BY MapSound, StreamsSound, DatabaseSound DEF TablesHold
<1>4. QED BY <1>1, <1>2, <1>3, PTL DEF Spec

-----------------------------------------------------------------------------
(* The client of the example. Of a kind of request that has never timed out,  *)
(* everything is accounted for: the request lies on one connection until the  *)
(* broker answers it, and then there is its one acknowledgement, which is in  *)
(* the network, with the loop or in the channel.                              *)
Has(s, T) == \E i \in 1 .. Len(s) : s[i] \in T
Once(s, T) == \A i, j \in 1 .. Len(s) : s[i] \in T /\ s[j] \in T => i = j

LEMMA HasAppended ==
  ASSUME NEW X, NEW s \in Seq(X), NEW e \in X, NEW T
  PROVE  /\ Has(Append(s, e), T) <=> Has(s, T) \/ e \in T
         /\ Once(s, T) /\ (~Has(s, T) \/ e \notin T) => Once(Append(s, e), T)
<1>1. /\ Len(s) \in Nat /\ Len(Append(s, e)) = Len(s) + 1 /\ Append(s, e)[Len(s) + 1] = e
      /\ \A i \in 1 .. Len(s) : Append(s, e)[i] = s[i]
  OBVIOUS
<1>2. \A i \in 1 .. Len(s) + 1 : i \in 1 .. Len(s) \/ i = Len(s) + 1
  BY <1>1
<1>3. \A i \in 1 .. Len(s) : i \in 1 .. Len(s) + 1
  BY <1>1
<1>4. Len(s) + 1 \in 1 .. Len(s) + 1
  BY <1>1
<1>5. QED BY <1>1, <1>2, <1>3, <1>4 DEF Has, Once

LEMMA HasFirst ==
  ASSUME NEW X, NEW s \in Seq(X), s # <<>>, NEW T
  PROVE  /\ Has(Tail(s), T) => Has(s, T)
         /\ Once(s, T) => Once(Tail(s), T)
         /\ Head(s) \in T => Has(s, T)
         /\ Once(s, T) /\ Head(s) \in T => ~Has(Tail(s), T)
<1>1. /\ Len(s) \in Nat \ {0} /\ Len(Tail(s)) = Len(s) - 1 /\ Head(s) = s[1]
      /\ \A i \in 1 .. Len(s) - 1 : Tail(s)[i] = s[i + 1]
  OBVIOUS
<1>2. /\ \A i \in 1 .. Len(s) - 1 : i + 1 \in 1 .. Len(s) /\ i + 1 # 1 /\ i \in Int
      /\ \A i, j \in Int : i + 1 = j + 1 => i = j
      /\ 1 \in 1 .. Len(s)
  BY <1>1
<1>3. QED BY <1>1, <1>2 DEF Has, Once

LEMMA HasNothing == \A T : ~Has(<<>>, T) /\ Once(<<>>, T)
BY DEF Has, Once

LEMMA HasKept ==
  ASSUME NEW X, NEW Y, NEW s \in Seq(X), NEW s2 \in Seq(Y), Len(s2) = Len(s), NEW T, NEW T2,
         \A i \in 1 .. Len(s) : s2[i] \in T2 <=> s[i] \in T
  PROVE  (Has(s2, T2) <=> Has(s, T)) /\ (Once(s, T) => Once(s2, T2))
BY DEF Has, Once

Requests == [op : Kinds, current : BOOLEAN]
Packets == [kind : Kinds] \cup {Client!Message(n) : n \in Lengths}
Links == [Client!Conns -> [state : {"none", "open", "lost", "closed"}, out : Seq(Requests), in : Seq(Packets)]]
Loops == [Client!Conns -> [phase : {"none", "next", "header", "body", "failed", "ended"},
                           at : 0 .. MaxConns, packet : Packets \cup {[kind |-> "none"]}]]

ClientTyped ==
  /\ conn \in 0 .. MaxConns /\ respCh \in Seq(Kinds) /\ Len(respCh) <= respCap
  /\ mqttCall \in {Client!NoCall} \cup [op : Kinds, phase : {"wait"}, done : BOOLEAN]
  /\ late \subseteq Kinds /\ loop \in Loops /\ link \in Links

\* What the next packets are read by.
Reading == {"header", "body", "failed"}

SoleReader ==
  /\ \A k \in Client!Conns :
       Client!Running(k) => k = conn /\ (loop[k].phase \in Reading => loop[k].at = conn)
  /\ online => conn # 0 /\ Client!Running(conn) /\ link[conn].state # "closed"

ClientFlags == honest /\ whole /\ (~early => SoleReader)

(* L is link, P loop, R respCh, c the call and X late.                         *)
Asking(K) == [op : {K}, current : BOOLEAN]
Stale(K) == [op : {K}, current : {FALSE}]
Answer(K) == [kind |-> K]
Asks(L, k, K) == Has(L[k].out, Asking(K))
Comes(L, k, K) == Has(L[k].in, {Answer(K)})
Reads(P, k, K) == P[k].phase = "body" /\ P[k].packet = Answer(K)
Keeps(R, K) == Has(R, {K})

NoRequest(L, K) == \A k \in Client!Conns : ~Asks(L, k, K)
OneRequest(L, K) ==
  /\ \A k \in Client!Conns : Once(L[k].out, Asking(K)) /\ ~Has(L[k].out, Stale(K))
  /\ \A j, k \in Client!Conns : Asks(L, j, K) /\ Asks(L, k, K) => j = k

NoAnswer(L, P, R, K) == ~Keeps(R, K) /\ \A k \in Client!Conns : ~Comes(L, k, K) /\ ~Reads(P, k, K)
OneAnswer(L, P, R, K) ==
  /\ Once(R, {K}) /\ \A k \in Client!Conns : Once(L[k].in, {Answer(K)})
  /\ \A j, k \in Client!Conns :
       /\ (Comes(L, j, K) /\ Comes(L, k, K)) \/ (Reads(P, j, K) /\ Reads(P, k, K)) => j = k
       /\ ~(Comes(L, j, K) /\ Reads(P, k, K))
  /\ Keeps(R, K) => \A k \in Client!Conns : ~Comes(L, k, K) /\ ~Reads(P, k, K)

Ledger(L, P, R, c, X, K) ==
  K \notin X =>
    /\ c.op # K => NoRequest(L, K) /\ NoAnswer(L, P, R, K)
    /\ c.op = K /\ c.done = FALSE => OneRequest(L, K) /\ NoAnswer(L, P, R, K)
    /\ c.op = K /\ c.done = TRUE => NoRequest(L, K) /\ OneAnswer(L, P, R, K)

Accounts == \A K \in Kinds : Ledger(link, loop, respCh, mqttCall, late, K)

CurrentIsCall ==
  \A k \in Client!Conns : \A i \in 1 .. Len(link[k].out) :
    link[k].out[i].current = TRUE => link[k].out[i].op = mqttCall.op

ClientInductive == ClientTyped /\ online \in BOOLEAN /\ ClientFlags /\ CurrentIsCall /\ Accounts

LEMMA ClientBounds ==
  ASSUME Client!ClientAssumption
  PROVE  respCap \in Nat /\ MaxConns \in Nat
BY DEF Client!ClientAssumption

LEMMA ClientTypes ==
  ASSUME Client!ClientAssumption
  PROVE  /\ \A K \in Kinds : K # "none" /\ K # "message"
         /\ \A p \in Packets : p.kind \in Kinds => p = Answer(p.kind)
         /\ \A n \in Lengths : Client!Message(n) \in Packets /\ Client!Message(n).kind = "message"
                               /\ \A K \in Kinds : Client!Message(n) # Answer(K)
         /\ \A p \in Packets : p.kind = "message" => \E n \in Lengths : p = Client!Message(n)
         /\ \A K \in Kinds : Answer(K) \in Packets
<1>1. \A K \in Kinds : K # "none" /\ K # "message"
  BY DEF Client!ClientAssumption
<1>2. QED BY <1>1 DEF Packets, Client!Message, Answer

LEMMA ReaderThere ==
  ASSUME ClientTyped, SoleReader, NEW k \in Client!Conns, Client!Running(k)
  PROVE  /\ k = conn /\ conn \in Client!Conns /\ loop[conn].phase \notin {"none", "ended"}
         /\ loop[k].phase \in Reading => loop[k].at = conn
BY DEF SoleReader, Client!Running

LEMMA ConnectedThere ==
  ASSUME ClientTyped, SoleReader, online
  PROVE  conn \in Client!Conns /\ Client!Running(conn) /\ link[conn].state # "closed"
BY DEF SoleReader, ClientTyped, Client!Conns

LEMMA OneLink ==
  ASSUME ClientTyped, NEW k \in Client!Conns
  PROVE  /\ link[k] \in [state : {"none", "open", "lost", "closed"}, out : Seq(Requests), in : Seq(Packets)]
         /\ loop[k] \in [phase : {"none", "next", "header", "body", "failed", "ended"},
                         at : 0 .. MaxConns, packet : Packets \cup {[kind |-> "none"]}]
         /\ link[k].out \in Seq(Requests) /\ link[k].in \in Seq(Packets)
         /\ loop[k].packet \in Packets \cup {[kind |-> "none"]}
BY DEF ClientTyped, Links, Loops

Rewritten(L, M, k, o, i) ==
  /\ M \in Links /\ M[k].out = o /\ M[k].in = i
  /\ \A j \in Client!Conns : j # k => M[j] = L[j]

LEMMA LinkParts ==
  ASSUME NEW L \in Links, NEW k \in Client!Conns
  PROVE  /\ DOMAIN L = Client!Conns /\ DOMAIN L[k] = {"state", "out", "in"}
         /\ L[k] = [state |-> L[k].state, out |-> L[k].out, in |-> L[k].in]
         /\ L[k].state \in {"none", "open", "lost", "closed"}
         /\ L[k].out \in Seq(Requests) /\ L[k].in \in Seq(Packets)
BY DEF Links

LEMMA LinkWritten ==
  ASSUME NEW L \in Links, NEW k \in Client!Conns, NEW st \in {"none", "open", "lost", "closed"},
         NEW o \in Seq(Requests), NEW i \in Seq(Packets),
         NEW M, M = [L EXCEPT ![k] = [state |-> st, out |-> o, in |-> i]]
  PROVE  Rewritten(L, M, k, o, i) /\ M[k].state = st
BY DEF Links, Rewritten

LEMMA OutWritten ==
  ASSUME NEW L \in Links, NEW k \in Client!Conns, NEW o \in Seq(Requests), NEW M, M = [L EXCEPT ![k].out = o]
  PROVE  Rewritten(L, M, k, o, L[k].in) /\ M[k].state = L[k].state
BY DEF Links, Rewritten

LEMMA InWritten ==
  ASSUME NEW L \in Links, NEW k \in Client!Conns, NEW i \in Seq(Packets), NEW M, M = [L EXCEPT ![k].in = i]
  PROVE  Rewritten(L, M, k, L[k].out, i) /\ M[k].state = L[k].state
BY DEF Links, Rewritten

LEMMA BothWritten ==
  ASSUME NEW L \in Links, NEW k \in Client!Conns, NEW o \in Seq(Requests), NEW i \in Seq(Packets),
         NEW M, M = [L EXCEPT ![k].out = o, ![k].in = i]
  PROVE  Rewritten(L, M, k, o, i) /\ M[k].state = L[k].state
BY DEF Links, Rewritten

LEMMA StateWritten ==
  ASSUME NEW L \in Links, NEW k \in Client!Conns, NEW st \in {"none", "open", "lost", "closed"},
         NEW M, M = [L EXCEPT ![k].state = st]
  PROVE  Rewritten(L, M, k, L[k].out, L[k].in) /\ M[k].state = st
BY DEF Links, Rewritten

LEMMA LossWritten ==
  ASSUME NEW L \in Links, NEW k \in Client!Conns, NEW o \in Seq(Requests),
         NEW M, M = [L EXCEPT ![k].state = "lost", ![k].out = o]
  PROVE  Rewritten(L, M, k, o, L[k].in) /\ M[k].state = "lost"
BY DEF Links, Rewritten

FewerRequests(L, M, K) ==
  \A k \in Client!Conns :
    /\ Asks(M, k, K) => Asks(L, k, K)
    /\ Once(L[k].out, Asking(K)) => Once(M[k].out, Asking(K))
    /\ Has(M[k].out, Stale(K)) => Has(L[k].out, Stale(K))

FewerAnswers(L, M, P, Q, R, S, K) ==
  /\ Keeps(S, K) => Keeps(R, K)
  /\ Once(R, {K}) => Once(S, {K})
  /\ \A k \in Client!Conns :
       /\ Comes(M, k, K) => Comes(L, k, K)
       /\ Once(L[k].in, {Answer(K)}) => Once(M[k].in, {Answer(K)})
       /\ Reads(Q, k, K) => Reads(P, k, K)

LEMMA LedgerFewer ==
  ASSUME NEW L, NEW M, NEW P, NEW Q, NEW R, NEW S, NEW c, NEW X, NEW Y, NEW K, X \subseteq Y,
         FewerRequests(L, M, K), FewerAnswers(L, M, P, Q, R, S, K), Ledger(L, P, R, c, X, K)
  PROVE  Ledger(M, Q, S, c, Y, K)
<1>1. NoRequest(L, K) => NoRequest(M, K)
  BY DEF NoRequest, FewerRequests
<1>2. OneRequest(L, K) => OneRequest(M, K)
  BY DEF OneRequest, FewerRequests
<1>3. NoAnswer(L, P, R, K) => NoAnswer(M, Q, S, K)
  BY DEF NoAnswer, FewerAnswers
<1>4. OneAnswer(L, P, R, K) => OneAnswer(M, Q, S, K)
  BY DEF OneAnswer, FewerAnswers
<1>5. QED BY <1>1, <1>2, <1>3, <1>4 DEF Ledger

LEMMA SameRequests ==
  ASSUME NEW L, NEW M, NEW K, \A k \in Client!Conns : M[k].out = L[k].out
  PROVE  FewerRequests(L, M, K)
BY DEF FewerRequests, Asks

LEMMA SameAnswers ==
  ASSUME NEW L, NEW M, NEW P, NEW Q, NEW R, NEW K, \A k \in Client!Conns : M[k].in = L[k].in,
         \A k \in Client!Conns : Reads(Q, k, K) => Reads(P, k, K)
  PROVE  FewerAnswers(L, M, P, Q, R, R, K)
BY DEF FewerAnswers, Comes

LEMMA RewrittenRequests ==
  ASSUME NEW L, NEW M, NEW k \in Client!Conns, NEW o, NEW i, Rewritten(L, M, k, o, i), NEW K,
         Has(o, Asking(K)) => Has(L[k].out, Asking(K)),
         Once(L[k].out, Asking(K)) => Once(o, Asking(K)), Has(o, Stale(K)) => Has(L[k].out, Stale(K))
  PROVE  FewerRequests(L, M, K)
BY DEF FewerRequests, Asks, Rewritten

LEMMA RewrittenAnswers ==
  ASSUME NEW L, NEW M, NEW k \in Client!Conns, NEW o, NEW i, Rewritten(L, M, k, o, i), NEW K,
         NEW P, NEW Q, NEW R, Has(i, {Answer(K)}) => Has(L[k].in, {Answer(K)}),
         Once(L[k].in, {Answer(K)}) => Once(i, {Answer(K)}),
         \A j \in Client!Conns : Reads(Q, j, K) => Reads(P, j, K)
  PROVE  FewerAnswers(L, M, P, Q, R, R, K)
BY DEF FewerAnswers, Comes, Rewritten

(* The packet a loop reads, and nothing else of it, matters to the accounts.   *)
LEMMA LoopMoves ==
  ASSUME NEW P \in Loops, NEW k \in Client!Conns, NEW p, p # "body", NEW Q, NEW K,
         Q = [P EXCEPT ![k].phase = p] \/ \E a : Q = [P EXCEPT ![k].phase = p, ![k].at = a]
  PROVE  \A j \in Client!Conns : Reads(Q, j, K) => Reads(P, j, K)
BY DEF Loops, Reads

(* What each action makes of a connection.                                     *)
LEMMA AnswerWritten ==
  ASSUME ClientTyped, NEW k \in Client!Conns, Client!BrokerAnswers(k), Client!ClientAssumption
  PROVE  /\ link[k].out # <<>> /\ Head(link[k].out) \in Requests
         /\ Rewritten(link, link', k, Tail(link[k].out), Append(link[k].in, Answer(Head(link[k].out).op)))
         /\ link'[k].state = link[k].state
<1>1. link \in Links /\ link[k].state \in {"none", "open", "lost", "closed"} /\ link[k].out # <<>>
      /\ link[k].out \in Seq(Requests) /\ link[k].in \in Seq(Packets)
  BY OneLink DEF ClientTyped, Client!BrokerAnswers
<1>2. Head(link[k].out) \in Requests /\ Tail(link[k].out) \in Seq(Requests)
  BY <1>1
<1>3. Answer(Head(link[k].out).op) \in Packets
  BY <1>2, ClientTypes DEF Requests
<1>4. Append(link[k].in, Answer(Head(link[k].out).op)) \in Seq(Packets)
  BY <1>1, <1>3
<1>5. link' = [link EXCEPT ![k].out = Tail(link[k].out), ![k].in = Append(link[k].in, Answer(Head(link[k].out).op))]
  BY <1>1 DEF Client!BrokerAnswers, Client!Answered, Answer, Links
<1>6. PICK o \in Seq(Requests), i \in Seq(Packets) :
        o = Tail(link[k].out) /\ i = Append(link[k].in, Answer(Head(link[k].out).op))
  BY <1>2, <1>4
<1>7. link' = [link EXCEPT ![k].out = o, ![k].in = i]
  BY <1>5, <1>6
<1>8. Rewritten(link, link', k, o, i) /\ link'[k].state = link[k].state
  BY <1>1, <1>6, <1>7 DEF Links, Rewritten
<1>9. QED BY <1>1, <1>2, <1>6, <1>8

LEMMA MessageWritten ==
  ASSUME ClientTyped, NEW k \in Client!Conns, NEW n \in Lengths, Client!BrokerSends(k, n), Client!ClientAssumption
  PROVE  /\ Rewritten(link, link', k, link[k].out, Append(link[k].in, Client!Message(n)))
         /\ link'[k].state = link[k].state
<1>1. link \in Links /\ link[k].state \in {"none", "open", "lost", "closed"}
      /\ link[k].out \in Seq(Requests) /\ link[k].in \in Seq(Packets)
  BY OneLink DEF ClientTyped
<1>2. Append(link[k].in, Client!Message(n)) \in Seq(Packets)
  BY <1>1, ClientTypes
<1>3. link' = [link EXCEPT ![k].in = Append(link[k].in, Client!Message(n))]
  BY <1>1 DEF Client!BrokerSends, Links
<1>4. PICK i \in Seq(Packets) : i = Append(link[k].in, Client!Message(n))
  BY <1>2
<1>5. link' = [link EXCEPT ![k].in = i]
  BY <1>3, <1>4
<1>6. Rewritten(link, link', k, link[k].out, i) /\ link'[k].state = link[k].state
  BY <1>1, <1>4, <1>5 DEF Links, Rewritten
<1>7. QED BY <1>4, <1>6

LEMMA ClosedWritten ==
  ASSUME ClientTyped, NEW k \in Client!Conns, Client!Closed(k)
  PROVE  Rewritten(link, link', k, <<>>, <<>>) /\ link'[k].state = "closed"
BY DEF Rewritten, Client!Closed, ClientTyped, Links

LEMMA LostWritten ==
  ASSUME ClientTyped, NEW k \in Client!Conns, Client!ConnectionLost(k)
  PROVE  Rewritten(link, link', k, <<>>, link[k].in) /\ link'[k].state = "lost"
<1>1. link \in Links /\ <<>> \in Seq(Requests)
  BY DEF ClientTyped
<1>2. link' = [link EXCEPT ![k].state = "lost", ![k].out = <<>>]
  BY DEF Client!ConnectionLost
<1>3. QED BY <1>1, <1>2, LossWritten

LEMMA RequestWritten ==
  ASSUME ClientTyped, conn \in Client!Conns, NEW op \in Kinds,
         link' = [link EXCEPT ![conn].out = Append(@, [op |-> op, current |-> TRUE])]
  PROVE  /\ Rewritten(link, link', conn, Append(link[conn].out, [op |-> op, current |-> TRUE]), link[conn].in)
         /\ link'[conn].state = link[conn].state
<1>1. link \in Links /\ link[conn].state \in {"none", "open", "lost", "closed"}
      /\ link[conn].out \in Seq(Requests) /\ link[conn].in \in Seq(Packets)
  BY OneLink DEF ClientTyped
<1>2. [op |-> op, current |-> TRUE] \in Requests
  BY DEF Requests
<1>3. Append(link[conn].out, [op |-> op, current |-> TRUE]) \in Seq(Requests)
  BY <1>1, <1>2
<1>4. link' = [link EXCEPT ![conn].out = Append(link[conn].out, [op |-> op, current |-> TRUE])]
  BY <1>1 DEF Links
<1>5. PICK o \in Seq(Requests) : o = Append(link[conn].out, [op |-> op, current |-> TRUE])
  BY <1>3
<1>6. /\ conn \in Client!Conns /\ o \in Seq(Requests)
      /\ link' = [link EXCEPT ![conn].out = o]
  BY <1>4, <1>5
<1>7. Rewritten(link, link', conn, o, link[conn].in) /\ link'[conn].state = link[conn].state
  BY ONLY <1>1, <1>5, <1>6 DEF Links, Rewritten
<1>8. QED BY <1>5, <1>7

LEMMA PacketTaken ==
  ASSUME ClientTyped, NEW k \in Client!Conns, NEW a \in Client!Conns, loop[k].at = a,
         Client!HeaderArrives(k)
  PROVE  /\ link[a].in # <<>> /\ Rewritten(link, link', a, link[a].out, Tail(link[a].in))
         /\ link'[a].state = link[a].state /\ Head(link[a].in) \in Packets
         /\ loop' = [loop EXCEPT ![k].phase = "body", ![k].packet = Head(link[a].in)]
<1>1. link \in Links /\ link[a].state \in {"none", "open", "lost", "closed"}
      /\ link[a].out \in Seq(Requests) /\ link[a].in \in Seq(Packets)
  BY OneLink DEF ClientTyped
<1>2. link[a].in # <<>> /\ loop' = [loop EXCEPT ![k].phase = "body", ![k].packet = Head(link[a].in)]
      /\ link' = [link EXCEPT ![a].in = Tail(@)]
  BY DEF Client!HeaderArrives
<1>3. Tail(link[a].in) \in Seq(Packets) /\ Head(link[a].in) \in Packets
  BY <1>1, <1>2
<1>4. link' = [link EXCEPT ![a].in = Tail(link[a].in)]
  BY <1>1, <1>2 DEF Links
<1>5. PICK i \in Seq(Packets) : i = Tail(link[a].in)
  BY <1>3
<1>6. link' = [link EXCEPT ![a].in = i]
  BY <1>4, <1>5
<1>7. Rewritten(link, link', a, link[a].out, i) /\ link'[a].state = link[a].state
  BY <1>1, <1>5, <1>6 DEF Links, Rewritten
<1>8. QED BY <1>2, <1>3, <1>5, <1>7

LEMMA PastWritten ==
  ASSUME ClientTyped, Client!Return
  PROVE  /\ link' \in Links /\ mqttCall' = Client!NoCall
         /\ \A k \in Client!Conns :
              /\ link'[k].state = link[k].state /\ link'[k].in = link[k].in
              /\ Len(link'[k].out) = Len(link[k].out)
              /\ \A i \in 1 .. Len(link[k].out) :
                   link'[k].out[i].op = link[k].out[i].op /\ link'[k].out[i].current = FALSE

<1>1. \A k \in Client!Conns :
        /\ Client!Past(link[k].out) \in Seq(Requests) /\ Len(Client!Past(link[k].out)) = Len(link[k].out)
        /\ \A i \in 1 .. Len(link[k].out) :
             /\ Client!Past(link[k].out)[i].op = link[k].out[i].op
             /\ Client!Past(link[k].out)[i].current = FALSE
  <2>1. TAKE k \in Client!Conns
  <2>2. link[k].out \in Seq(Requests)
    BY OneLink
  <2>3. PICK s \in Seq(Requests) : s = link[k].out
    BY <2>2
  <2>4. DOMAIN s = 1 .. Len(s) /\ Len(s) \in Nat /\ \A i \in 1 .. Len(s) : s[i] \in Requests
    OBVIOUS
  <2>5. \A r \in Requests : /\ [r EXCEPT !.current = FALSE] \in Requests
                            /\ [r EXCEPT !.current = FALSE].op = r.op
                            /\ [r EXCEPT !.current = FALSE].current = FALSE
    BY DEF Requests
  <2>6. Client!Past(s) = [i \in 1 .. Len(s) |-> [s[i] EXCEPT !.current = FALSE]]
    BY <2>4 DEF Client!Past
  <2>7. \A i \in 1 .. Len(s) : [s[i] EXCEPT !.current = FALSE] \in Requests
    BY <2>4, <2>5
  <2>8. Client!Past(s) \in Seq(Requests) /\ Len(Client!Past(s)) = Len(s)
    BY <2>4, <2>6, <2>7
  <2>9. \A i \in 1 .. Len(s) : Client!Past(s)[i].op = s[i].op /\ Client!Past(s)[i].current = FALSE
    <3>1. TAKE i \in 1 .. Len(s)
    <3>2. Client!Past(s)[i] = [s[i] EXCEPT !.current = FALSE] /\ s[i] \in Requests
      BY <2>4, <2>6
    <3>3. QED BY <2>5, <3>2
  <2>10. QED BY <2>3, <2>8, <2>9
<1>2. link' = [k \in Client!Conns |-> [link[k] EXCEPT !.out = Client!Past(link[k].out)]]
  BY OneLink DEF Client!Return
<1>3. \A k \in Client!Conns : link'[k] = [state |-> link[k].state, out |-> Client!Past(link[k].out), in |-> link[k].in]
  BY <1>2, OneLink
<1>4. link' \in Links
  BY <1>1, <1>2, <1>3, OneLink DEF Links
<1>5. mqttCall' = Client!NoCall
  BY DEF Client!Return
<1>6. ASSUME NEW k \in Client!Conns
      PROVE  /\ link'[k].state = link[k].state /\ link'[k].in = link[k].in
             /\ link'[k].out = Client!Past(link[k].out)
  <2>1. link'[k] = [state |-> link[k].state, out |-> Client!Past(link[k].out), in |-> link[k].in]
    BY <1>3, <1>6
  <2>2. QED BY ONLY <2>1
<1>7. QED BY <1>1, <1>4, <1>5, <1>6

(* The types.                                                                  *)
LEMMA LoopTyped ==
  ASSUME NEW P \in Loops, NEW k \in Client!Conns,
         NEW p \in {"none", "next", "header", "body", "failed", "ended"}, NEW a \in 0 .. MaxConns,
         NEW Q, Q = [P EXCEPT ![k].phase = p, ![k].at = a]
  PROVE  Q \in Loops
BY DEF Loops

LEMMA LoopReads ==
  ASSUME NEW P \in Loops, NEW k \in Client!Conns, NEW p \in Packets,
         NEW Q, Q = [P EXCEPT ![k].phase = "body", ![k].packet = p]
  PROVE  Q \in Loops
<1>1. /\ DOMAIN Q = Client!Conns /\ Q = [j \in Client!Conns |-> Q[j]]
      /\ \A j \in Client!Conns : j # k => Q[j] = P[j]
  BY DEF Loops
<1>2. Q[k] = [phase |-> "body", at |-> P[k].at, packet |-> p]
  BY DEF Loops
<1>3. P[k].at \in 0 .. MaxConns
  BY DEF Loops
<1>4. QED BY <1>1, <1>2, <1>3 DEF Loops

LEMMA ClientTypedStep ==
  ASSUME Client!ClientAssumption, ClientTyped, ~early => SoleReader, CurrentIsCall, Client!Next
  PROVE  ClientTyped'
<1> USE DEF ClientTyped
<1>1. CASE UNCHANGED Client!vars
  BY <1>1 DEF Client!vars, Client!client, Client!history
<1>2. ASSUME ~early, Client!Connect PROVE ClientTyped'
  <2>1. /\ conn' = conn + 1 /\ conn' \in 1 .. MaxConns /\ conn' \in Client!Conns
        /\ respCh' = respCh /\ mqttCall' = mqttCall /\ late' = late
    <3>1. conn' = conn + 1 /\ conn < MaxConns /\ respCh' = respCh /\ mqttCall' = mqttCall /\ late' = late
      BY <1>2 DEF Client!Connect
    <3>2. conn \in 0 .. MaxConns /\ MaxConns \in Nat
      BY ClientBounds
    <3>3. QED BY ONLY <3>1, <3>2 DEF Client!Conns
  <2>2. PICK n \in Client!Conns : n = conn'
    BY <2>1
  <2>3. loop' = loop \/ loop' = [loop EXCEPT ![n].phase = "next"]
    BY <1>2, <2>2 DEF Client!Connect
  <2>4. link' = [link EXCEPT ![n].state = "open"] \/ link' = [link EXCEPT ![n].state = "closed"]
    BY <1>2, <2>2 DEF Client!Connect
  <2>5. loop' \in Loops
    BY <2>2, <2>3 DEF Loops
  <2>6. link' \in Links
    BY <2>2, <2>4, StateWritten DEF Rewritten
  <2>7. QED BY <2>1, <2>5, <2>6
<1>3. ASSUME ~early, Client!Disconnect PROVE ClientTyped'
  <2>1. conn \in Client!Conns
    BY <1>3, ConnectedThere DEF Client!Disconnect
  <2>2. link' \in Links
    BY <1>3, <2>1, ClosedWritten DEF Client!Disconnect, Rewritten
  <2>3. QED BY <1>3, <2>2 DEF Client!Disconnect, Client!history
<1>4. ASSUME Client!AckArrives PROVE ClientTyped'
  <2>1. link' \in Links /\ mqttCall' \in {Client!NoCall} \cup [op : Kinds, phase : {"wait"}, done : BOOLEAN]
    BY <1>4, PastWritten DEF Client!AckArrives
  <2>2. respCh' = Tail(respCh) /\ respCh # <<>> /\ UNCHANGED <<conn, loop, late>>
    BY <1>4 DEF Client!AckArrives
  <2>3. respCh' \in Seq(Kinds) /\ Len(respCh') <= respCap
    <3>1. respCh \in Seq(Kinds) /\ Len(respCh) <= respCap /\ respCap \in Nat
      BY ClientBounds
    <3>2. QED BY ONLY <2>2, <3>1
  <2>4. QED BY <2>1, <2>2, <2>3
<1>5. ASSUME Client!AckTimesOut PROVE ClientTyped'
  <2>1. link' \in Links /\ mqttCall' = Client!NoCall /\ UNCHANGED <<conn, respCh, loop>>
    BY <1>5, PastWritten DEF Client!AckTimesOut, Client!client
  <2>2. mqttCall.op \in Kinds /\ late' = late \cup {mqttCall.op}
    BY <1>5 DEF Client!AckTimesOut, Client!NoCall
  <2>3. QED BY <2>1, <2>2
<1>6. ASSUME ~early, NEW op \in Kinds, Client!Request(op) PROVE ClientTyped'
  <2>1. conn \in Client!Conns
    BY <1>6, ConnectedThere DEF Client!Request
  <2>2. CASE UNCHANGED <<link, mqttCall>>
    BY <1>6, <2>2 DEF Client!Request, Client!client
  <2>3. CASE /\ link' = [link EXCEPT ![conn].out = Append(@, [op |-> op, current |-> TRUE])]
             /\ mqttCall' = [op |-> op, phase |-> "wait", done |-> FALSE]
    <3>1. link' \in Links
      BY <2>1, <2>3, RequestWritten DEF Rewritten
    <3>2. QED BY <1>6, <2>3, <3>1 DEF Client!Request, Client!client
  <2>4. QED BY <1>6, <2>2, <2>3 DEF Client!Request
<1>7. ASSUME ~early, NEW k \in Client!Conns, Client!Loop(k) PROVE ClientTyped'
  <2>1. CASE Client!ReadHeader(k)
    <3>1. loop' = [loop EXCEPT ![k].phase = "header", ![k].at = conn]
      BY <2>1 DEF Client!ReadHeader
    <3>2. loop' \in Loops
      BY <3>1, LoopTyped
    <3>3. QED BY <2>1, <3>2 DEF Client!ReadHeader, Client!client, Client!history
  <2>2. CASE Client!HeaderArrives(k)
    <3>1. loop[k].at = conn /\ conn \in Client!Conns
      BY <1>7, <2>2, ReaderThere DEF Client!HeaderArrives, Client!Running, Reading
    <3>2. PICK p \in Packets : p = Head(link[conn].in)
      BY <2>2, <3>1, PacketTaken
    <3>3. link' \in Links /\ loop' = [loop EXCEPT ![k].phase = "body", ![k].packet = p]
      BY <2>2, <3>1, <3>2, PacketTaken DEF Rewritten
    <3>4. loop' \in Loops
      BY <3>2, <3>3, LoopReads
    <3>5. QED BY <2>2, <3>3, <3>4 DEF Client!HeaderArrives, Client!client, Client!history
  <2>3. CASE Client!ReadFails(k) \/ Client!DeadlineFails(k) \/ Client!LoopFails(k) \/ Client!Deliver(k)
    <3>1. PICK p \in {"failed", "ended", "next"} : loop' = [loop EXCEPT ![k].phase = p]
      BY <2>3 DEF Client!ReadFails, Client!DeadlineFails, Client!LoopFails, Client!Deliver, Client!LoopGoto
    <3>2. loop' \in Loops
      BY <3>1 DEF Loops
    <3>3. UNCHANGED <<conn, respCh, mqttCall, link, late>>
      BY <2>3 DEF Client!ReadFails, Client!DeadlineFails, Client!LoopFails, Client!Deliver, Client!client, Client!history
    <3>4. QED BY <3>2, <3>3
  <2>4. CASE Client!MessageTooLong(k)
    <3>1. conn \in Client!Conns
      BY <1>7, <2>4, ReaderThere DEF Client!MessageTooLong, Client!Running
    <3>2. link' \in Links
      BY <2>4, <3>1, ClosedWritten DEF Client!MessageTooLong, Rewritten
    <3>3. loop' \in Loops
      BY <2>4 DEF Loops, Client!MessageTooLong, Client!LoopGoto
    <3>4. QED BY <2>4, <3>2, <3>3 DEF Client!MessageTooLong, Client!history
  <2>5. CASE Client!PassAck(k)
    <3>1. loop' \in Loops
      BY <2>5 DEF Loops, Client!PassAck, Client!LoopGoto
    <3>2. /\ loop[k].packet.kind \in Kinds
          /\ respCh' = IF Len(respCh) < respCap THEN Append(respCh, loop[k].packet.kind) ELSE respCh
          /\ UNCHANGED <<conn, mqttCall, link, late>>
      BY <2>5 DEF Client!PassAck, Client!history
    <3>3. respCh' \in Seq(Kinds) /\ Len(respCh') <= respCap
      <4>1. respCh \in Seq(Kinds) /\ Len(respCh) <= respCap /\ respCap \in Nat
        BY ClientBounds
      <4>2. QED BY ONLY <3>2, <4>1
    <3>4. QED BY <3>1, <3>2, <3>3
  <2>6. QED BY <1>7, <2>1, <2>2, <2>3, <2>4, <2>5 DEF Client!Loop
<1>8. ASSUME NEW k \in Client!Conns, Client!Broker(k) PROVE ClientTyped'
  <2>1. CASE Client!BrokerAnswers(k)
    <3>1. link' \in Links
      BY <2>1, AnswerWritten DEF Rewritten
    <3>2. mqttCall' = mqttCall \/ (mqttCall' = [mqttCall EXCEPT !.done = TRUE])
      BY <2>1 DEF Client!BrokerAnswers
    <3>3. mqttCall' = mqttCall \/ mqttCall # Client!NoCall
      <4>1. /\ link[k].out \in Seq(Requests) /\ link[k].out # <<>>
            /\ mqttCall' = IF Head(link[k].out).current THEN [mqttCall EXCEPT !.done = TRUE] ELSE mqttCall
        BY <2>1, OneLink DEF Client!BrokerAnswers
      <4>2. Head(link[k].out) = link[k].out[1] /\ 1 \in 1 .. Len(link[k].out) /\ link[k].out[1] \in Requests
        BY <4>1
      <4>3. link[k].out[1].current = TRUE => link[k].out[1].op = mqttCall.op
        BY <4>2 DEF CurrentIsCall
      <4>4. link[k].out[1].current = TRUE => mqttCall # Client!NoCall
        BY <4>2, <4>3, ClientTypes DEF Client!NoCall, Requests
      <4>5. link[k].out[1].current \in BOOLEAN
        BY <4>2 DEF Requests
      <4>6. QED BY <4>1, <4>2, <4>4, <4>5
    <3>4. mqttCall' \in {Client!NoCall} \cup [op : Kinds, phase : {"wait"}, done : BOOLEAN]
      BY <3>2, <3>3
    <3>5. QED BY <2>1, <3>1, <3>4 DEF Client!BrokerAnswers, Client!client, Client!history
  <2>2. CASE Client!ConnectionLost(k)
    BY <2>2, LostWritten DEF Client!ConnectionLost, Client!client, Client!history, Rewritten
  <2>3. ASSUME NEW n \in Lengths, Client!BrokerSends(k, n) PROVE ClientTyped'
    BY <2>3, MessageWritten DEF Client!BrokerSends, Client!client, Client!history, Rewritten
  <2>4. QED BY <1>8, <2>1, <2>2, <2>3 DEF Client!Broker
<1>9. QED BY <1>1, <1>2, <1>3, <1>4, <1>5, <1>6, <1>7, <1>8 DEF Client!Next

(* What the encoding of a length says is read back: the number is put together *)
(* again from its at most four digits.                                        *)
LEMMA LengthKept ==
  ASSUME NEW n \in Nat, ((n \div 128) \div 128) \div 128 < 128
  PROVE  Client!decodeRemainingLength(Client!encodeRemainingLength(n)) = n
<1> DEFINE a == n \div 128
           b == a \div 128
           c == b \div 128
           q == Client!Rest(n)
           last == CHOOSE i \in 1 .. 4 : q[i] < 128 /\ \A j \in 1 .. i - 1 : q[j] >= 128
           e == [i \in 1 .. last |-> (q[i] % 128) + (IF i < last THEN 128 ELSE 0)]
<1> HIDE DEF q, last, e
<1>1. \A m \in Nat : /\ m \div 128 \in Nat /\ m % 128 \in 0 .. 127 /\ m = (m % 128) + 128 * (m \div 128)
                    /\ m < 128 => m % 128 = m
  OBVIOUS
<1>2. a \in Nat /\ b \in Nat /\ c \in Nat /\ c < 128
  BY <1>1
<1>3. a = n \div 128 /\ b = a \div 128 /\ c = b \div 128
  BY DEF a, b, c
<1> HIDE DEF a, b, c
<1>4. /\ n \in Nat /\ a \in Nat /\ b \in Nat /\ c \in Nat /\ c < 128
      /\ n = (n % 128) + 128 * a /\ a = (a % 128) + 128 * b /\ b = (b % 128) + 128 * c
      /\ n % 128 \in 0 .. 127 /\ a % 128 \in 0 .. 127 /\ b % 128 \in 0 .. 127 /\ c % 128 = c
  BY <1>1, <1>2, <1>3
<1>5. q[1] = n /\ q[2] = a /\ q[3] = b /\ q[4] = c
  BY <1>3 DEF Client!Rest, q
<1>6. Client!encodeRemainingLength(n) = e
  BY DEF Client!encodeRemainingLength, e, last, q, a, b, c
<1>7. \E i \in 1 .. 4 : q[i] < 128 /\ \A j \in 1 .. i - 1 : q[j] >= 128
  <2>1. CASE n < 128
    <3> WITNESS 1 \in 1 .. 4
    <3> QED BY <1>4, <1>5, <2>1
  <2>2. CASE n >= 128 /\ a < 128
    <3> WITNESS 2 \in 1 .. 4
    <3> QED BY <1>4, <1>5, <2>2
  <2>3. CASE n >= 128 /\ a >= 128 /\ b < 128
    <3> WITNESS 3 \in 1 .. 4
    <3>1. \A j \in 1 .. 2 : j = 1 \/ j = 2 OBVIOUS
    <3> QED BY <1>4, <1>5, <2>3, <3>1
  <2>4. CASE n >= 128 /\ a >= 128 /\ b >= 128
    <3> WITNESS 4 \in 1 .. 4
    <3>1. \A j \in 1 .. 3 : j = 1 \/ j = 2 \/ j = 3 OBVIOUS
    <3> QED BY <1>4, <1>5, <2>4, <3>1
  <2>5. QED BY <1>4, <2>1, <2>2, <2>3, <2>4
<1>8. last \in 1 .. 4 /\ q[last] < 128 /\ \A j \in 1 .. last - 1 : q[j] >= 128
  BY <1>7 DEF last
<1>9. DOMAIN e = 1 .. last /\ \A i \in 1 .. last : e[i] = (q[i] % 128) + (IF i < last THEN 128 ELSE 0)
  BY DEF e
<1>10. CASE last = 1
  BY <1>6, <1>4, <1>5, <1>8, <1>9, <1>10 DEF Client!decodeRemainingLength, Client!Digit
<1>11. CASE last = 2
  BY <1>6, <1>4, <1>5, <1>8, <1>9, <1>11 DEF Client!decodeRemainingLength, Client!Digit
<1>12. CASE last = 3
  BY <1>6, <1>4, <1>5, <1>8, <1>9, <1>12 DEF Client!decodeRemainingLength, Client!Digit
<1>13. CASE last = 4
  BY <1>6, <1>4, <1>5, <1>8, <1>9, <1>13 DEF Client!decodeRemainingLength, Client!Digit
<1>14. QED BY <1>8, <1>10, <1>11, <1>12, <1>13

(* One loop reads each connection, and answers are honest.                    *)
LEMMA ReaderRests ==
  ASSUME ClientTyped, SoleReader, ClientTyped',
         UNCHANGED <<conn, online, loop>>,
         \A k \in Client!Conns : link'[k].state = "closed" => link[k].state = "closed"
  PROVE  SoleReader'
<1>1. \A k \in Client!Conns : Client!Running(k)' <=> Client!Running(k)
  BY DEF Client!Running
<1>2. conn # 0 => conn \in Client!Conns
  BY DEF ClientTyped, Client!Conns
<1>3. QED BY <1>1, <1>2 DEF SoleReader, Client!Running

LEMMA LoopsOn ==
  ASSUME ClientTyped, SoleReader, NEW k \in Client!Conns, k = conn,
         NEW p \in {"next", "header", "body", "failed"}, NEW a, a = conn \/ (a = loop[k].at /\ (p = "next" \/ loop[k].phase \in Reading)),
         loop' \in Loops, Client!Running(k), loop'[k].phase = p, loop'[k].at = a,
         \A j \in Client!Conns : j # k => loop'[j] = loop[j],
         UNCHANGED <<conn, online>>,
         \A j \in Client!Conns : link'[j].state = link[j].state
  PROVE  SoleReader'
<1>1. \A j \in Client!Conns : j # k => ~Client!Running(j) /\ ~Client!Running(j)'
  BY DEF SoleReader, Client!Running
<1>2. Client!Running(k)'
  BY DEF Client!Running
<1>3. p \in Reading => a = conn
  BY DEF SoleReader, Reading
<1>4. QED BY <1>1, <1>2, <1>3 DEF SoleReader

LEMMA LoopEnds ==
  ASSUME ClientTyped, SoleReader, NEW k \in Client!Conns, k = conn, conn' = conn, online' = FALSE,
         loop'[k].phase = "ended", \A j \in Client!Conns : j # k => loop'[j] = loop[j]
  PROVE  SoleReader'
<1>1. \A j \in Client!Conns : ~Client!Running(j)'
  BY DEF SoleReader, Client!Running
<1>2. QED BY <1>1 DEF SoleReader

LEMMA ReaderStep ==
  ASSUME Client!ClientAssumption, ClientTyped, ~early => SoleReader, ClientTyped', Client!Next
  PROVE  ~early' => SoleReader'
<1>1. CASE UNCHANGED Client!vars
  BY <1>1, ReaderRests DEF Client!vars, Client!client, Client!history
<1>2. ASSUME ~early, Client!Connect, ~early' PROVE SoleReader'
  <2>1. \A k \in Client!Conns : ~Client!Running(k)
    BY <1>2 DEF Client!Connect
  <2>2. conn' \in Client!Conns /\ conn' = conn + 1 /\ ~online
    BY <1>2, ClientBounds DEF Client!Connect, Client!Conns, ClientTyped
  <2>3. PICK n \in Client!Conns : n = conn'
    BY <2>2
  <2>4. CASE online' = TRUE /\ link' = [link EXCEPT ![n].state = "open"] /\ loop' = [loop EXCEPT ![n].phase = "next"]
    <3>1. loop'[n].phase = "next" /\ \A k \in Client!Conns : k # n => loop'[k] = loop[k]
      BY <2>3, <2>4 DEF ClientTyped, Loops
    <3>2. link'[n].state = "open"
      BY <2>3, <2>4 DEF ClientTyped, Links
    <3>3. \A k \in Client!Conns : k # n => ~Client!Running(k)'
      BY <2>1, <3>1 DEF Client!Running
    <3>4. n # 0
      BY DEF Client!Conns
    <3>5. Client!Running(n)'
      BY <3>1 DEF Client!Running
    <3>6. QED BY <2>3, <2>4, <3>1, <3>2, <3>3, <3>4, <3>5 DEF SoleReader, Reading
  <2>5. CASE online' = online /\ loop' = loop
    BY <2>1, <2>2, <2>5 DEF SoleReader, Client!Running
  <2>6. QED BY <1>2, <2>3, <2>4, <2>5 DEF Client!Connect
<1>3. ASSUME ~early, Client!Disconnect PROVE SoleReader'
  <2>1. online' = FALSE /\ loop' = loop /\ conn' = conn
    BY <1>3 DEF Client!Disconnect
  <2>2. QED BY <1>3, <2>1 DEF SoleReader, Client!Running
<1>4. ASSUME ~early, Client!AckArrives \/ Client!AckTimesOut PROVE SoleReader'
  <2>1. UNCHANGED <<conn, online, loop>> /\ \A k \in Client!Conns : link'[k].state = link[k].state
    BY <1>4, PastWritten DEF Client!AckArrives, Client!AckTimesOut, Client!client
  <2>2. QED BY <1>4, <2>1, ReaderRests
<1>5. ASSUME ~early, NEW op \in Kinds, Client!Request(op) PROVE SoleReader'
  <2>1. conn \in Client!Conns
    BY <1>5, ConnectedThere DEF Client!Request
  <2>2. UNCHANGED <<conn, online, loop>>
    BY <1>5 DEF Client!Request, Client!client
  <2>3. link' = link \/ link' = [link EXCEPT ![conn].out = Append(@, [op |-> op, current |-> TRUE])]
    BY <1>5 DEF Client!Request
  <2>4. \A k \in Client!Conns : link'[k].state = link[k].state
    BY <2>1, <2>3, RequestWritten DEF Rewritten
  <2>5. QED BY <1>5, <2>2, <2>4, ReaderRests
<1>6. ASSUME ~early, NEW k \in Client!Conns, Client!Loop(k) PROVE SoleReader'
  <2>1. Client!Running(k) /\ k = conn
    <3>1. Client!Running(k)
      BY <1>6 DEF Client!Loop, Client!ReadHeader, Client!HeaderArrives, Client!ReadFails, Client!DeadlineFails,
               Client!LoopFails, Client!MessageTooLong, Client!Deliver, Client!PassAck, Client!Running
    <3>2. QED BY <1>6, <3>1, ReaderThere
  <2>2. loop[k] \in [phase : {"none", "next", "header", "body", "failed", "ended"},
                     at : 0 .. MaxConns, packet : Packets \cup {[kind |-> "none"]}]
        /\ loop \in Loops /\ loop' \in Loops /\ SoleReader
    BY <1>6, OneLink DEF ClientTyped
  <2>3. CASE Client!ReadHeader(k)
    <3>1. loop' = [loop EXCEPT ![k].phase = "header", ![k].at = conn] /\ UNCHANGED <<conn, online, link>>
      BY <2>3 DEF Client!ReadHeader, Client!client
    <3>2. loop'[k].phase = "header" /\ loop'[k].at = conn /\ \A j \in Client!Conns : j # k => loop'[j] = loop[j]
      <4>1. k \in Client!Conns /\ DOMAIN loop = Client!Conns /\ DOMAIN loop[k] = {"phase", "at", "packet"}
        BY <2>2 DEF Loops
      <4>2. loop' = [loop EXCEPT ![k].phase = "header", ![k].at = conn]
        BY <3>1
      <4>3. QED BY ONLY <4>1, <4>2
    <3>3. QED BY <2>1, <2>2, <3>1, <3>2, LoopsOn
  <2>4. CASE Client!HeaderArrives(k)
    <3>1. loop[k].at = conn /\ conn \in Client!Conns
      BY <2>1, <2>2, <2>4, ReaderThere DEF Client!HeaderArrives, Reading
    <3>2. PICK q \in Packets : q = Head(link[conn].in)
      BY <2>4, <3>1, PacketTaken
    <3>3. loop' = [loop EXCEPT ![k].phase = "body", ![k].packet = q]
          /\ \A j \in Client!Conns : link'[j].state = link[j].state
      BY <2>4, <3>1, <3>2, PacketTaken DEF Rewritten
    <3>4. loop'[k].phase = "body" /\ loop'[k].at = conn /\ \A j \in Client!Conns : j # k => loop'[j] = loop[j]
      BY <2>2, <3>1, <3>3 DEF Loops
    <3>5. QED BY <2>1, <2>2, <2>4, <3>3, <3>4, LoopsOn DEF Client!HeaderArrives, Client!client
  <2>5. CASE Client!ReadFails(k) \/ Client!Deliver(k) \/ Client!PassAck(k)
    <3>1. PICK p \in {"failed", "next"} : loop' = [loop EXCEPT ![k].phase = p]
      BY <2>5 DEF Client!ReadFails, Client!Deliver, Client!PassAck, Client!LoopGoto
    <3>2. loop'[k].phase = p /\ loop'[k].at = loop[k].at /\ \A j \in Client!Conns : j # k => loop'[j] = loop[j]
      BY <2>2, <3>1 DEF Loops
    <3>3. loop[k].phase \in Reading /\ UNCHANGED <<conn, online, link>>
      BY <2>5 DEF Client!ReadFails, Client!Deliver, Client!PassAck, Client!client, Reading
    <3>4. QED BY <2>1, <2>2, <3>1, <3>2, <3>3, LoopsOn
  <2>6. CASE Client!DeadlineFails(k)
    <3>1. loop'[k].phase = "ended" /\ \A j \in Client!Conns : j # k => loop'[j] = loop[j]
      BY <2>2, <2>6 DEF Loops, Client!DeadlineFails, Client!LoopGoto
    <3>2. ~online
      BY <2>2, <2>6, ConnectedThere DEF Client!DeadlineFails
    <3>3. \A j \in Client!Conns : ~Client!Running(j)'
      BY <2>1, <2>2, <3>1 DEF SoleReader, Client!Running
    <3>4. ~online'
      BY <2>6, <3>2 DEF Client!DeadlineFails, Client!client
    <3>5. QED BY <3>3, <3>4 DEF SoleReader
  <2>7. CASE Client!LoopFails(k) \/ Client!MessageTooLong(k)
    <3>1. loop' = [loop EXCEPT ![k].phase = "ended"] /\ online' = FALSE /\ conn' = conn
      BY <2>7 DEF Client!LoopFails, Client!MessageTooLong, Client!LoopGoto, Client!NotesTheEnd
    <3>2. loop'[k].phase = "ended" /\ \A j \in Client!Conns : j # k => loop'[j] = loop[j]
      BY <2>2, <3>1 DEF Loops
    <3>3. QED BY <2>1, <2>2, <3>1, <3>2, LoopEnds
  <2>8. QED BY <1>6, <2>3, <2>4, <2>5, <2>6, <2>7 DEF Client!Loop
<1>7. ASSUME ~early, NEW k \in Client!Conns, Client!Broker(k) PROVE SoleReader'
  <2>1. UNCHANGED <<conn, online, loop>>
    BY <1>7 DEF Client!Broker, Client!BrokerAnswers, Client!BrokerSends, Client!ConnectionLost, Client!client
  <2>2. \A j \in Client!Conns : link'[j].state = "closed" => link[j].state = "closed"
    <3>1. CASE Client!BrokerAnswers(k)
      BY <3>1, AnswerWritten DEF Rewritten
    <3>2. CASE Client!ConnectionLost(k)
      BY <3>2, LostWritten DEF Rewritten
    <3>3. ASSUME NEW n \in Lengths, Client!BrokerSends(k, n)
          PROVE  \A j \in Client!Conns : link'[j].state = link[j].state
      BY <3>3, MessageWritten DEF Rewritten
    <3>4. QED BY <1>7, <3>1, <3>2, <3>3 DEF Client!Broker
  <2>3. QED BY <1>7, <2>1, <2>2, ReaderRests
<1>8. QED BY <1>1, <1>2, <1>3, <1>4, <1>5, <1>6, <1>7 DEF Client!Next

LEMMA WholeStep ==
  ASSUME Client!ClientAssumption, ClientTyped, whole, Client!Next
  PROVE  whole'
<1>1. ASSUME NEW k \in Client!Conns, Client!Deliver(k) PROVE whole'
  <2>1. loop[k].packet \in Packets
    BY <1>1, OneLink DEF Client!Deliver
  <2>2. PICK n \in Lengths : loop[k].packet = Client!Message(n)
    BY <1>1, <2>1, ClientTypes DEF Client!Deliver
  <2>3. n \in Nat /\ ((n \div 128) \div 128) \div 128 < 128
    BY <2>2 DEF Client!ClientAssumption
  <2>4. Client!decodeRemainingLength(Client!encodeRemainingLength(n)) = n
    BY <2>3, LengthKept
  <2>5. loop[k].packet.bytes = Client!encodeRemainingLength(n) /\ loop[k].packet.sent = n
    BY <2>2 DEF Client!Message
  <2>6. QED BY <1>1, <2>4, <2>5 DEF Client!Deliver
<1>2. CASE UNCHANGED whole
  BY <1>2
<1>3. CASE UNCHANGED Client!vars
  BY <1>3 DEF Client!vars, Client!history
<1>4. ASSUME NEW k \in Client!Conns, Client!Loop(k) \/ Client!Broker(k), ~Client!Deliver(k) PROVE UNCHANGED whole
  BY <1>4 DEF Client!Loop, Client!Broker, Client!ReadHeader, Client!HeaderArrives, Client!ReadFails,
     Client!DeadlineFails, Client!LoopFails, Client!MessageTooLong, Client!PassAck, Client!BrokerAnswers,
     Client!BrokerSends, Client!ConnectionLost, Client!history
<1>5. ASSUME Client!Connect \/ Client!Disconnect \/ Client!AckArrives \/ Client!AckTimesOut
             \/ \E op \in Kinds : Client!Request(op)
      PROVE  UNCHANGED whole
  BY <1>5 DEF Client!Connect, Client!Disconnect, Client!AckArrives, Client!AckTimesOut, Client!Request, Client!history
<1>6. QED BY <1>1, <1>2, <1>3, <1>4, <1>5 DEF Client!Next

(* The request in progress is the one marked as current.                       *)
LEMMA CurrentFewer ==
  ASSUME CurrentIsCall, NEW k \in Client!Conns, NEW o, NEW i, Rewritten(link, link', k, o, i),
         mqttCall'.op = mqttCall.op,
         \A j \in 1 .. Len(o) : o[j].current = TRUE => o[j].op = mqttCall.op
  PROVE  CurrentIsCall'
BY DEF CurrentIsCall, Rewritten

LEMMA CurrentEmptied ==
  ASSUME CurrentIsCall, NEW k \in Client!Conns, NEW i, Rewritten(link, link', k, <<>>, i), mqttCall' = mqttCall
  PROVE  CurrentIsCall'
<1>1. link'[k].out = <<>> /\ \A j \in Client!Conns : j # k => link'[j] = link[j]
  BY DEF Rewritten
<1>2. \A j \in 1 .. Len(<<>>) : FALSE
  OBVIOUS
<1>3. QED BY <1>1, <1>2 DEF CurrentIsCall

LEMMA CurrentSame ==
  ASSUME CurrentIsCall, mqttCall'.op = mqttCall.op, \A k \in Client!Conns : link'[k].out = link[k].out
  PROVE  CurrentIsCall'
BY DEF CurrentIsCall

\* What Connect makes of the connections.
LEMMA ConnectWritten ==
  ASSUME Client!ClientAssumption, ClientTyped, Client!Connect
  PROVE  /\ \A k \in Client!Conns : link'[k].out = link[k].out /\ link'[k].in = link[k].in
         /\ \A K : \A k \in Client!Conns : Reads(loop', k, K) => Reads(loop, k, K)
         /\ UNCHANGED <<mqttCall, respCh, late, honest>>
<1>1. /\ conn' = conn + 1 /\ conn' \in Client!Conns /\ UNCHANGED <<mqttCall, respCh, late, honest>>
  <2>1. conn' = conn + 1 /\ conn < MaxConns /\ UNCHANGED <<mqttCall, respCh, late, honest>>
    BY DEF Client!Connect
  <2>2. conn \in 0 .. MaxConns /\ MaxConns \in Nat
    BY ClientBounds DEF ClientTyped
  <2>3. QED BY ONLY <2>1, <2>2 DEF Client!Conns
<1>2. PICK n \in Client!Conns : n = conn'
  BY <1>1
<1>3. loop' = loop \/ loop' = [loop EXCEPT ![n].phase = "next"]
  BY <1>2 DEF Client!Connect
<1>4. link' = [link EXCEPT ![n].state = "open"] \/ link' = [link EXCEPT ![n].state = "closed"]
  BY <1>2 DEF Client!Connect
<1>5. \A k \in Client!Conns : link'[k].out = link[k].out /\ link'[k].in = link[k].in
  BY <1>2, <1>4, StateWritten DEF Rewritten, ClientTyped
<1>6. \A K : \A k \in Client!Conns : Reads(loop', k, K) => Reads(loop, k, K)
  <2>1. ASSUME NEW K PROVE \A k \in Client!Conns : Reads(loop', k, K) => Reads(loop, k, K)
    BY <1>2, <1>3, LoopMoves DEF ClientTyped
  <2>2. QED BY <2>1
<1>7. QED BY <1>1, <1>5, <1>6

\* What a request does.
LEMMA RequestMade ==
  ASSUME ClientTyped, SoleReader, NEW op \in Kinds, Client!Request(op)
  PROVE  /\ mqttCall = Client!NoCall /\ UNCHANGED <<respCh, loop, late, honest>> /\ conn \in Client!Conns
         /\ \/ UNCHANGED <<link, mqttCall>>
            \/ /\ Rewritten(link, link', conn, Append(link[conn].out, [op |-> op, current |-> TRUE]), link[conn].in)
               /\ mqttCall' = [op |-> op, phase |-> "wait", done |-> FALSE]
<1>1. conn \in Client!Conns
  BY ConnectedThere DEF Client!Request
<1>2. mqttCall = Client!NoCall /\ UNCHANGED <<respCh, loop, late, honest>>
  BY DEF Client!Request, Client!client
<1>3. CASE UNCHANGED <<link, mqttCall>>
  BY <1>1, <1>2, <1>3
<1>4. CASE /\ link' = [link EXCEPT ![conn].out = Append(@, [op |-> op, current |-> TRUE])]
           /\ mqttCall' = [op |-> op, phase |-> "wait", done |-> FALSE]
  BY <1>1, <1>2, <1>4, RequestWritten
<1>5. QED BY <1>3, <1>4 DEF Client!Request

\* What the broker answers, and whose call that is.
LEMMA AnswerMade ==
  ASSUME Client!ClientAssumption, ClientTyped, CurrentIsCall, NEW k \in Client!Conns, Client!BrokerAnswers(k)
  PROVE  \E h \in Requests :
           /\ link[k].out # <<>> /\ h = Head(link[k].out) /\ UNCHANGED <<respCh, loop, late, honest>>
           /\ Rewritten(link, link', k, Tail(link[k].out), Append(link[k].in, Answer(h.op)))
           /\ h.current = TRUE => /\ h.op = mqttCall.op /\ mqttCall'.op = mqttCall.op /\ mqttCall'.done = TRUE
           /\ h.current = FALSE => mqttCall' = mqttCall
<1>1. /\ link[k].out # <<>> /\ Head(link[k].out) \in Requests
      /\ Rewritten(link, link', k, Tail(link[k].out), Append(link[k].in, Answer(Head(link[k].out).op)))
  BY AnswerWritten
<1>2. PICK h \in Requests : h = Head(link[k].out)
  BY <1>1
<1>3. h = link[k].out[1] /\ 1 \in 1 .. Len(link[k].out)
  <2>1. link[k].out \in Seq(Requests)
    BY OneLink
  <2>2. QED BY <1>1, <1>2, <2>1
<1>4. h.current = TRUE => h.op = mqttCall.op
  BY <1>3 DEF CurrentIsCall
<1>5. h.op \in Kinds /\ h.current \in BOOLEAN
  BY <1>2 DEF Requests
<1>6. h.current = TRUE => mqttCall \in [op : Kinds, phase : {"wait"}, done : BOOLEAN]
  BY <1>4, <1>5, ClientTypes DEF ClientTyped, Client!NoCall
<1>7. /\ UNCHANGED <<respCh, loop, late, honest>>
      /\ mqttCall' = IF h.current THEN [mqttCall EXCEPT !.done = TRUE] ELSE mqttCall
  BY <1>2 DEF Client!BrokerAnswers, Client!client, Client!history
<1>8. h.current = TRUE => mqttCall'.op = mqttCall.op /\ mqttCall'.done = TRUE
  BY <1>6, <1>7
<1>9. h.current = FALSE => mqttCall' = mqttCall
  BY <1>7
<1>10. QED BY <1>1, <1>2, <1>4, <1>7, <1>8, <1>9

LEMMA CurrentStep ==
  ASSUME Client!ClientAssumption, ClientTyped, ~early => SoleReader, CurrentIsCall, Client!Next
  PROVE  CurrentIsCall'
<1>1. CASE UNCHANGED <<link, mqttCall>>
  BY <1>1 DEF CurrentIsCall
<1>2. ASSUME Client!Connect PROVE CurrentIsCall'
  BY <1>2, ConnectWritten, CurrentSame
<1>3. ASSUME NEW k \in Client!Conns, Client!Closed(k), mqttCall' = mqttCall PROVE CurrentIsCall'
  <2>1. Rewritten(link, link', k, <<>>, <<>>)
    BY <1>3, ClosedWritten
  <2>2. QED BY <1>3, <2>1, CurrentEmptied
<1>4. ASSUME Client!Return PROVE CurrentIsCall'
  <2>1. \A k \in Client!Conns : \A i \in 1 .. Len(link'[k].out) : link'[k].out[i].current = FALSE
    BY <1>4, PastWritten
  <2>2. QED BY <2>1 DEF CurrentIsCall
<1>5. ASSUME ~early, NEW op \in Kinds, Client!Request(op) PROVE CurrentIsCall'
  <2>1. CASE UNCHANGED <<link, mqttCall>>
    BY <1>1, <2>1
  <2>2. CASE /\ Rewritten(link, link', conn, Append(link[conn].out, [op |-> op, current |-> TRUE]), link[conn].in)
             /\ mqttCall' = [op |-> op, phase |-> "wait", done |-> FALSE]
    <3>1. conn \in Client!Conns /\ mqttCall.op = "none" /\ mqttCall'.op = op
      BY <1>5, <2>2, RequestMade DEF Client!NoCall
    <3>2. \A k \in Client!Conns : link[k].out \in Seq(Requests)
      BY OneLink
    <3>3. \A k \in Client!Conns : \A i \in 1 .. Len(link[k].out) : ~(link[k].out[i].current = TRUE)
      <4>1. \A s \in Seq(Requests) : \A i \in 1 .. Len(s) : s[i].op \in Kinds
        <5>1. \A s \in Seq(Requests) : \A i \in 1 .. Len(s) : s[i] \in Requests
          OBVIOUS
        <5>2. QED BY <5>1 DEF Requests
      <4>2. QED BY <3>1, <3>2, <4>1, ClientTypes DEF CurrentIsCall
    <3>4. PICK s \in Seq(Requests) : s = link[conn].out
      BY <3>1, <3>2
    <3>5. \A i \in 1 .. Len(Append(s, [op |-> op, current |-> TRUE])) :
            \/ i \in 1 .. Len(s) /\ Append(s, [op |-> op, current |-> TRUE])[i] = s[i]
            \/ Append(s, [op |-> op, current |-> TRUE])[i] = [op |-> op, current |-> TRUE]
      OBVIOUS
    <3>6. link'[conn].out = Append(s, [op |-> op, current |-> TRUE])
          /\ \A k \in Client!Conns : k # conn => link'[k] = link[k]
      BY <2>2, <3>4 DEF Rewritten
    <3>7. \A i \in 1 .. Len(link'[conn].out) : link'[conn].out[i].current = TRUE => link'[conn].out[i].op = op
      BY <3>1, <3>3, <3>4, <3>5, <3>6
    <3>8. QED BY <3>1, <3>3, <3>6, <3>7 DEF CurrentIsCall
  <2>3. QED BY <1>5, <2>1, <2>2, RequestMade
<1>6. ASSUME ~early, NEW k \in Client!Conns, Client!HeaderArrives(k) PROVE CurrentIsCall'
  <2>1. loop[k].at = conn /\ conn \in Client!Conns
    BY <1>6, ReaderThere DEF Client!HeaderArrives, Client!Running, Reading
  <2>2. \A j \in Client!Conns : link'[j].out = link[j].out
    BY <1>6, <2>1, PacketTaken DEF Rewritten
  <2>3. QED BY <1>6, <2>2, CurrentSame DEF Client!HeaderArrives
<1>7. ASSUME NEW k \in Client!Conns, Client!BrokerAnswers(k) PROVE CurrentIsCall'
  <2>1. PICK h \in Requests :
           /\ link[k].out # <<>> /\ h = Head(link[k].out)
           /\ Rewritten(link, link', k, Tail(link[k].out), Append(link[k].in, Answer(h.op)))
           /\ h.current = TRUE => mqttCall'.op = mqttCall.op
           /\ h.current = FALSE => mqttCall' = mqttCall
    BY <1>7, AnswerMade
  <2>2. mqttCall'.op = mqttCall.op
    BY <2>1 DEF Requests
  <2>3. PICK s \in Seq(Requests) : s = link[k].out
    BY OneLink
  <2>4. \A i \in 1 .. Len(Tail(s)) : i + 1 \in 1 .. Len(s) /\ Tail(s)[i] = s[i + 1]
    BY <2>1, <2>3
  <2>5. \A i \in 1 .. Len(Tail(s)) : Tail(s)[i].current = TRUE => Tail(s)[i].op = mqttCall.op
    BY <2>3, <2>4 DEF CurrentIsCall
  <2>6. QED BY <2>1, <2>2, <2>3, <2>5, CurrentFewer
<1>8. ASSUME NEW k \in Client!Conns, Client!ConnectionLost(k) PROVE CurrentIsCall'
  <2>1. Rewritten(link, link', k, <<>>, link[k].in)
    BY <1>8, LostWritten
  <2>2. QED BY <1>8, <2>1, CurrentEmptied DEF Client!ConnectionLost
<1>9. ASSUME NEW k \in Client!Conns, NEW n \in Lengths, Client!BrokerSends(k, n) PROVE CurrentIsCall'
  <2>1. \A j \in Client!Conns : link'[j].out = link[j].out
    BY <1>9, MessageWritten DEF Rewritten
  <2>2. QED BY <1>9, <2>1, CurrentSame DEF Client!BrokerSends
<1>10. ASSUME ~early, Client!Disconnect \/ \E k \in Client!Conns : Client!MessageTooLong(k)
       PROVE  \E k \in Client!Conns : Client!Closed(k) /\ mqttCall' = mqttCall
  <2>1. conn \in Client!Conns
    BY <1>10, ConnectedThere, ReaderThere DEF Client!Disconnect, Client!MessageTooLong, Client!Running
  <2>2. QED BY <1>10, <2>1 DEF Client!Disconnect, Client!MessageTooLong
<1>11. ASSUME Client!AckArrives \/ Client!AckTimesOut PROVE Client!Return \/ UNCHANGED <<link, mqttCall>>
  BY <1>11 DEF Client!AckArrives, Client!AckTimesOut
<1>12. ASSUME NEW k \in Client!Conns, Client!Loop(k), ~Client!HeaderArrives(k), ~Client!MessageTooLong(k)
       PROVE  UNCHANGED <<link, mqttCall>>
  BY <1>12 DEF Client!Loop, Client!ReadHeader, Client!ReadFails, Client!DeadlineFails, Client!LoopFails,
     Client!Deliver, Client!PassAck
<1>13. CASE UNCHANGED Client!vars
  BY <1>1, <1>13 DEF Client!vars
<1>14. QED BY <1>1, <1>2, <1>3, <1>4, <1>5, <1>6, <1>7, <1>8, <1>9, <1>10, <1>11, <1>12, <1>13
           DEF Client!Next, Client!Broker

LEMMA CallStates ==
  ASSUME Client!ClientAssumption, ClientTyped, NEW K \in Kinds
  PROVE  mqttCall.op # K \/ (mqttCall.op = K /\ mqttCall.done = FALSE) \/ (mqttCall.op = K /\ mqttCall.done = TRUE)
<1>1. CASE mqttCall = Client!NoCall
  BY <1>1, ClientTypes DEF Client!NoCall
<1>2. CASE mqttCall \in [op : Kinds, phase : {"wait"}, done : BOOLEAN]
  <2>1. mqttCall.done = FALSE \/ mqttCall.done = TRUE
    BY <1>2
  <2>2. CASE mqttCall.op = K
    BY <2>1, <2>2
  <2>3. QED BY <2>2
<1>3. QED BY <1>1, <1>2 DEF ClientTyped

(* The accounts.                                                               *)
LEMMA AccountsFewer ==
  ASSUME Accounts, late \subseteq late', mqttCall' = mqttCall,
         \A K \in Kinds : /\ FewerRequests(link, link', K)
                          /\ FewerAnswers(link, link', loop, loop', respCh, respCh', K)
  PROVE  Accounts'
<1>1. ASSUME NEW K \in Kinds PROVE Ledger(link', loop', respCh', mqttCall', late', K)
  <2>1. Ledger(link, loop, respCh, mqttCall, late, K)
    BY DEF Accounts
  <2>2. QED BY <2>1, LedgerFewer
<1>2. QED BY <1>1 DEF Accounts

LEMMA AccountsEmptied ==
  ASSUME Accounts, NEW k \in Client!Conns, NEW i, Rewritten(link, link', k, <<>>, i),
         i = link[k].in \/ i = <<>>, UNCHANGED <<mqttCall, respCh, late>>,
         \A K : \A j \in Client!Conns : Reads(loop', j, K) => Reads(loop, j, K)
  PROVE  Accounts'
<1>1. ASSUME NEW K \in Kinds
      PROVE  /\ FewerRequests(link, link', K)
             /\ FewerAnswers(link, link', loop, loop', respCh, respCh', K)
  <2>1. FewerRequests(link, link', K)
    BY HasNothing, RewrittenRequests
  <2>2. FewerAnswers(link, link', loop, loop', respCh, respCh, K)
    BY HasNothing, RewrittenAnswers
  <2>3. QED BY <2>1, <2>2
<1>2. QED BY <1>1, AccountsFewer

LEMMA AccountsRead ==
  ASSUME Accounts, UNCHANGED <<mqttCall, respCh, late>>,
         \A j \in Client!Conns : link'[j].out = link[j].out /\ link'[j].in = link[j].in,
         \A K : \A j \in Client!Conns : Reads(loop', j, K) => Reads(loop, j, K)
  PROVE  Accounts'
<1>1. ASSUME NEW K \in Kinds
      PROVE  /\ FewerRequests(link, link', K)
             /\ FewerAnswers(link, link', loop, loop', respCh, respCh', K)
  <2>1. FewerRequests(link, link', K)
    BY SameRequests
  <2>2. FewerAnswers(link, link', loop, loop', respCh, respCh, K)
    BY SameAnswers
  <2>3. QED BY <2>1, <2>2
<1>2. QED BY <1>1, AccountsFewer

LEMMA MessageAccounted ==
  ASSUME Client!ClientAssumption, ClientTyped, Accounts, NEW k \in Client!Conns, NEW n \in Lengths,
         Client!BrokerSends(k, n)
  PROVE  Accounts'
<1>1. UNCHANGED <<mqttCall, respCh, late, loop>>
  BY DEF Client!BrokerSends, Client!client, Client!history
<1>2. Rewritten(link, link', k, link[k].out, Append(link[k].in, Client!Message(n)))
  BY MessageWritten
<1>3. ASSUME NEW K \in Kinds
      PROVE  /\ FewerRequests(link, link', K)
             /\ FewerAnswers(link, link', loop, loop', respCh, respCh', K)
  <2>1. Client!Message(n) \in Packets /\ Client!Message(n) \notin {Answer(K)} /\ link[k].in \in Seq(Packets)
    BY ClientTypes, OneLink
  <2>2. FewerRequests(link, link', K)
    BY <1>2, RewrittenRequests
  <2>3. /\ Has(Append(link[k].in, Client!Message(n)), {Answer(K)}) => Has(link[k].in, {Answer(K)})
        /\ Once(link[k].in, {Answer(K)}) => Once(Append(link[k].in, Client!Message(n)), {Answer(K)})
    BY <2>1, HasAppended
  <2>4. FewerAnswers(link, link', loop, loop', respCh, respCh, K)
    BY <1>1, <1>2, <2>3, RewrittenAnswers
  <2>5. QED BY <1>1, <2>2, <2>4
<1>4. QED BY <1>1, <1>3, AccountsFewer

LEMMA RequestAccounted ==
  ASSUME Client!ClientAssumption, ClientTyped, SoleReader, Accounts, NEW op \in Kinds, Client!Request(op)
  PROVE  Accounts'
<1>1. mqttCall.op = "none" /\ UNCHANGED <<respCh, loop, late>> /\ conn \in Client!Conns
  <2>1. mqttCall = Client!NoCall /\ UNCHANGED <<respCh, loop, late>> /\ conn \in Client!Conns
    BY RequestMade
  <2>2. QED BY <2>1 DEF Client!NoCall
<1>2. CASE UNCHANGED <<link, mqttCall>>
  BY <1>1, <1>2 DEF Accounts
<1>3. CASE /\ Rewritten(link, link', conn, Append(link[conn].out, [op |-> op, current |-> TRUE]), link[conn].in)
           /\ mqttCall' = [op |-> op, phase |-> "wait", done |-> FALSE]
  <2>1. SUFFICES ASSUME NEW K \in Kinds, K \notin late
                 PROVE  Ledger(link', loop, respCh, mqttCall', late, K)
    BY <1>1 DEF Accounts, Ledger
  <2>2. mqttCall'.op = op /\ mqttCall'.done = FALSE /\ K # "none"
    BY <1>3, ClientTypes
  <2>3. NoRequest(link, K) /\ NoAnswer(link, loop, respCh, K)
    BY <1>1, <2>1, <2>2 DEF Accounts, Ledger
  <2>4. \A k \in Client!Conns : link'[k].in = link[k].in
    BY <1>3 DEF Rewritten
  <2>5. NoAnswer(link', loop, respCh, K)
    BY <2>3, <2>4 DEF NoAnswer, Comes
  <2>6. /\ link'[conn].out = Append(link[conn].out, [op |-> op, current |-> TRUE])
        /\ \A k \in Client!Conns : k # conn => link'[k].out = link[k].out
    BY <1>3 DEF Rewritten
  <2>7. link[conn].out \in Seq(Requests) /\ [op |-> op, current |-> TRUE] \in Requests
    BY <1>1, OneLink DEF Requests
  <2>8. ~Has(link[conn].out, Asking(K))
    BY <1>1, <2>3 DEF NoRequest, Asks
  <2>9. \A s, T : ~Has(s, T) => Once(s, T)
    BY DEF Has, Once
  <2>10. CASE K # op
    <3>1. [op |-> op, current |-> TRUE] \notin Asking(K)
      BY <2>10 DEF Asking
    <3>2. ~Has(link'[conn].out, Asking(K))
      BY <2>6, <2>7, <2>8, <3>1, HasAppended
    <3>3. NoRequest(link', K)
      BY <2>3, <2>6, <3>2 DEF NoRequest, Asks
    <3>4. QED BY <2>2, <2>5, <2>10, <3>3 DEF Ledger
  <2>11. CASE K = op
    <3>1. \A s : Has(s, Stale(K)) => Has(s, Asking(K))
      BY DEF Has, Stale, Asking
    <3>2. [op |-> op, current |-> TRUE] \notin Stale(K)
      BY DEF Stale
    <3>3. ~Has(link'[conn].out, Stale(K)) /\ Once(link'[conn].out, Asking(K))
      BY <2>6, <2>7, <2>8, <2>9, <3>1, <3>2, HasAppended
    <3>4. \A k \in Client!Conns : k # conn => ~Has(link'[k].out, Asking(K))
      BY <2>3, <2>6 DEF NoRequest, Asks
    <3>5. OneRequest(link', K)
      BY <2>9, <3>1, <3>3, <3>4 DEF OneRequest, Asks
    <3>6. QED BY <2>2, <2>5, <2>11, <3>5 DEF Ledger
  <2>12. QED BY <2>10, <2>11
<1>4. QED BY <1>2, <1>3, RequestMade

LEMMA AnswerAccounted ==
  ASSUME Client!ClientAssumption, ClientTyped, CurrentIsCall, Accounts, NEW k \in Client!Conns,
         Client!BrokerAnswers(k)
  PROVE  Accounts'
<1>1. PICK h \in Requests :
        /\ link[k].out # <<>> /\ h = Head(link[k].out) /\ UNCHANGED <<respCh, loop, late>>
        /\ Rewritten(link, link', k, Tail(link[k].out), Append(link[k].in, Answer(h.op)))
        /\ h.current = TRUE => /\ h.op = mqttCall.op /\ mqttCall'.op = mqttCall.op /\ mqttCall'.done = TRUE
        /\ h.current = FALSE => mqttCall' = mqttCall
  BY AnswerMade
<1>2. h.op \in Kinds /\ (h.current = TRUE \/ h.current = FALSE) /\ h \in Asking(h.op)
      /\ (h.current = FALSE => h \in Stale(h.op))
  BY DEF Requests, Asking, Stale
<1>3. link[k].out \in Seq(Requests) /\ link[k].in \in Seq(Packets) /\ Answer(h.op) \in Packets
  BY <1>2, OneLink, ClientTypes
<1>4. /\ link'[k].out = Tail(link[k].out) /\ link'[k].in = Append(link[k].in, Answer(h.op))
      /\ \A j \in Client!Conns : j # k => link'[j].out = link[j].out /\ link'[j].in = link[j].in
  BY <1>1 DEF Rewritten
<1>5. SUFFICES ASSUME NEW K \in Kinds, K \notin late
               PROVE  Ledger(link', loop, respCh, mqttCall', late, K)
  BY <1>1 DEF Accounts, Ledger
<1>6. Ledger(link, loop, respCh, mqttCall, late, K)
  BY DEF Accounts
<1>7. CASE K # h.op
  <2>1. \A T : /\ Has(Tail(link[k].out), T) => Has(link[k].out, T)
               /\ Once(link[k].out, T) => Once(Tail(link[k].out), T)
    BY <1>1, <1>3, HasFirst
  <2>2. FewerRequests(link, link', K)
    BY <1>1, <2>1, RewrittenRequests
  <2>3. Answer(h.op) \notin {Answer(K)}
    BY <1>7 DEF Answer
  <2>4. /\ Has(Append(link[k].in, Answer(h.op)), {Answer(K)}) => Has(link[k].in, {Answer(K)})
        /\ Once(link[k].in, {Answer(K)}) => Once(Append(link[k].in, Answer(h.op)), {Answer(K)})
    BY <1>3, <2>3, HasAppended
  <2>5. FewerAnswers(link, link', loop, loop, respCh, respCh, K)
    BY <1>1, <2>4, RewrittenAnswers
  <2>6. Ledger(link', loop, respCh, mqttCall, late, K)
    BY <1>6, <2>2, <2>5, LedgerFewer
  <2>7. mqttCall' = mqttCall \/ (mqttCall.op # K /\ mqttCall'.op # K)
    BY <1>1, <1>2, <1>7
  <2>8. QED BY <2>6, <2>7 DEF Ledger
<1>8. CASE K = h.op
  <2>1. Has(link[k].out, Asking(K)) /\ (h.current = FALSE => Has(link[k].out, Stale(K)))
    BY <1>1, <1>2, <1>3, <1>8, HasFirst
  <2>2. mqttCall.op # K \/ (mqttCall.op = K /\ mqttCall.done = FALSE) \/ (mqttCall.op = K /\ mqttCall.done = TRUE)
    BY <1>5, CallStates
  <2>3. mqttCall.op = K /\ OneRequest(link, K) /\ NoAnswer(link, loop, respCh, K)
    BY <1>5, <1>6, <2>1, <2>2 DEF Ledger, NoRequest, Asks
  <2>4. mqttCall'.op = K /\ mqttCall'.done = TRUE
    BY <1>1, <1>2, <2>1, <2>3 DEF OneRequest
  <2>5. ~Has(link'[k].out, Asking(K))
    BY <1>1, <1>2, <1>3, <1>4, <1>8, <2>3, HasFirst DEF OneRequest
  <2>6. \A j \in Client!Conns : j # k => ~Has(link'[j].out, Asking(K))
    BY <1>4, <2>1, <2>3 DEF OneRequest, Asks
  <2>7. NoRequest(link', K)
    BY <2>5, <2>6 DEF NoRequest, Asks
  <2>8. \A s, T : ~Has(s, T) => Once(s, T)
    BY DEF Has, Once
  <2>9. ~Has(link[k].in, {Answer(K)})
    BY <2>3 DEF NoAnswer, Comes
  <2>10. Once(link'[k].in, {Answer(K)})
    BY <1>3, <1>4, <2>8, <2>9, HasAppended
  <2>11. \A j \in Client!Conns : j # k => ~Has(link'[j].in, {Answer(K)})
    BY <1>4, <2>3 DEF NoAnswer, Comes
  <2>12. OneAnswer(link', loop, respCh, K)
    BY <2>3, <2>8, <2>10, <2>11 DEF OneAnswer, NoAnswer, Keeps, Comes
  <2>13. QED BY <2>4, <2>7, <2>12 DEF Ledger
<1>9. QED BY <1>7, <1>8

LEMMA PacketAccounted ==
  ASSUME Client!ClientAssumption, ClientTyped, SoleReader, Accounts, NEW k \in Client!Conns,
         Client!HeaderArrives(k)
  PROVE  Accounts'
<1>1. loop[k].at = conn /\ conn \in Client!Conns /\ loop[k].phase = "header"
  BY ReaderThere DEF Client!HeaderArrives, Client!Running, Reading
<1>2. PICK p \in Packets : p = Head(link[conn].in)
  BY <1>1, PacketTaken
<1>3. /\ link[conn].in # <<>> /\ Rewritten(link, link', conn, link[conn].out, Tail(link[conn].in))
      /\ loop' = [loop EXCEPT ![k].phase = "body", ![k].packet = p]
      /\ UNCHANGED <<mqttCall, respCh, late>>
  BY <1>1, <1>2, PacketTaken DEF Client!HeaderArrives, Client!client, Client!history
<1>4. link[conn].in \in Seq(Packets)
  BY <1>1, OneLink
<1>5. loop'[k].phase = "body" /\ loop'[k].packet = p /\ \A j \in Client!Conns : j # k => loop'[j] = loop[j]
  BY <1>3 DEF ClientTyped, Loops
<1>6. \A T : /\ Has(Tail(link[conn].in), T) => Has(link[conn].in, T)
             /\ Once(link[conn].in, T) => Once(Tail(link[conn].in), T)
             /\ p \in T => Has(link[conn].in, T)
             /\ Once(link[conn].in, T) /\ p \in T => ~Has(Tail(link[conn].in), T)
  BY <1>2, <1>3, <1>4, HasFirst
<1>7. SUFFICES ASSUME NEW K \in Kinds, K \notin late
               PROVE  Ledger(link', loop', respCh, mqttCall, late, K)
  BY <1>3 DEF Accounts, Ledger
<1>8. Ledger(link, loop, respCh, mqttCall, late, K)
  BY DEF Accounts
<1>9. FewerRequests(link, link', K)
  BY <1>1, <1>3, RewrittenRequests
<1>10. CASE p # Answer(K)
  <2>1. \A j \in Client!Conns : Reads(loop', j, K) => Reads(loop, j, K)
    BY <1>5, <1>10 DEF Reads
  <2>2. FewerAnswers(link, link', loop, loop', respCh, respCh, K)
    BY <1>1, <1>3, <1>6, <2>1, RewrittenAnswers
  <2>3. QED BY <1>8, <1>9, <2>2, LedgerFewer
<1>11. CASE p = Answer(K)
  <2>1. Comes(link, conn, K)
    BY <1>6, <1>11 DEF Comes
  <2>2. mqttCall.op # K \/ (mqttCall.op = K /\ mqttCall.done = FALSE) \/ (mqttCall.op = K /\ mqttCall.done = TRUE)
    BY <1>7, CallStates
  <2>3. mqttCall.op = K /\ mqttCall.done = TRUE /\ NoRequest(link, K) /\ OneAnswer(link, loop, respCh, K)
    BY <1>1, <1>7, <1>8, <2>1, <2>2 DEF Ledger, NoAnswer
  <2>4. NoRequest(link', K)
    BY <1>9, <2>3 DEF NoRequest, FewerRequests
  <2>5. ~Keeps(respCh, K) /\ \A j \in Client!Conns : ~Reads(loop, j, K) /\ (Comes(link, j, K) => j = conn)
    BY <1>1, <2>1, <2>3 DEF OneAnswer
  <2>6. \A j \in Client!Conns : Reads(loop', j, K) => j = k
    BY <1>5, <2>5 DEF Reads
  <2>7. ~Has(link'[conn].in, {Answer(K)})
    BY <1>1, <1>3, <1>6, <1>11, <2>3 DEF OneAnswer, Rewritten
  <2>8. \A j \in Client!Conns : ~Comes(link', j, K)
    BY <1>3, <2>5, <2>7 DEF Comes, Rewritten
  <2>9. \A s, T : ~Has(s, T) => Once(s, T)
    BY DEF Has, Once
  <2>10. OneAnswer(link', loop', respCh, K)
    BY <2>5, <2>6, <2>8, <2>9 DEF OneAnswer, Keeps, Comes
  <2>11. QED BY <2>3, <2>4, <2>10 DEF Ledger
<1>12. QED BY <1>10, <1>11

LEMMA AckAccounted ==
  ASSUME Client!ClientAssumption, ClientTyped, Accounts, NEW k \in Client!Conns, Client!PassAck(k)
  PROVE  Accounts'
<1>1. /\ loop[k].phase = "body" /\ loop[k].packet.kind \in Kinds
      /\ respCh' = IF Len(respCh) < respCap THEN Append(respCh, loop[k].packet.kind) ELSE respCh
      /\ loop' = [loop EXCEPT ![k].phase = "next"] /\ UNCHANGED <<mqttCall, link, late>>
  BY DEF Client!PassAck, Client!LoopGoto, Client!history
<1>2. PICK A \in Kinds : A = loop[k].packet.kind /\ loop[k].packet = Answer(A)
  <2>1. loop[k].packet \in Packets \cup {[kind |-> "none"]}
    BY OneLink
  <2>2. QED BY <1>1, <2>1, ClientTypes
<1>3. loop'[k].phase = "next" /\ \A j \in Client!Conns : j # k => loop'[j] = loop[j]
  BY <1>1 DEF ClientTyped, Loops
<1>4. respCh' = respCh \/ respCh' = Append(respCh, A)
  BY <1>1, <1>2
<1>5. \A T : respCh' = Append(respCh, A) =>
        /\ Has(respCh', T) <=> Has(respCh, T) \/ A \in T
        /\ Once(respCh, T) /\ (~Has(respCh, T) \/ A \notin T) => Once(respCh', T)
  BY HasAppended DEF ClientTyped
<1>6. SUFFICES ASSUME NEW K \in Kinds, K \notin late
               PROVE  Ledger(link, loop', respCh', mqttCall, late, K)
  BY <1>1 DEF Accounts, Ledger
<1>7. Ledger(link, loop, respCh, mqttCall, late, K)
  BY DEF Accounts
<1>8. \A j \in Client!Conns : Reads(loop', j, K) => Reads(loop, j, K) /\ j # k
  BY <1>3 DEF Reads
<1>9. FewerRequests(link, link, K) /\ FewerAnswers(link, link, loop, loop', respCh, respCh, K)
  BY <1>8, SameRequests, SameAnswers
<1>10. CASE respCh' = respCh
  BY <1>7, <1>9, <1>10, LedgerFewer
<1>11. CASE respCh' = Append(respCh, A) /\ K # A
  <2>1. (Keeps(respCh', K) => Keeps(respCh, K)) /\ (Once(respCh, {K}) => Once(respCh', {K}))
    BY <1>5, <1>11 DEF Keeps
  <2>2. FewerAnswers(link, link, loop, loop', respCh, respCh', K)
    BY <1>9, <2>1 DEF FewerAnswers
  <2>3. QED BY <1>7, <1>9, <2>2, LedgerFewer
<1>12. CASE respCh' = Append(respCh, A) /\ K = A
  <2>1. Reads(loop, k, K)
    BY <1>1, <1>2, <1>12 DEF Reads
  <2>2. mqttCall.op # K \/ (mqttCall.op = K /\ mqttCall.done = FALSE) \/ (mqttCall.op = K /\ mqttCall.done = TRUE)
    BY <1>6, CallStates
  <2>3. mqttCall.op = K /\ mqttCall.done = TRUE /\ NoRequest(link, K) /\ OneAnswer(link, loop, respCh, K)
    BY <1>6, <1>7, <2>1, <2>2 DEF Ledger, NoAnswer
  <2>4. /\ ~Keeps(respCh, K)
        /\ \A j \in Client!Conns : ~Comes(link, j, K) /\ ~Reads(loop', j, K) /\ Once(link[j].in, {Answer(K)})
    BY <1>8, <2>1, <2>3 DEF OneAnswer
  <2>5. Once(respCh', {K})
    BY <1>5, <1>12, <2>3, <2>4 DEF Keeps, OneAnswer
  <2>6. OneAnswer(link, loop', respCh', K)
    BY <2>4, <2>5 DEF OneAnswer
  <2>7. QED BY <2>3, <2>6 DEF Ledger
<1>13. QED BY <1>4, <1>10, <1>11, <1>12

(* A call returns: to the requests that are written it makes no difference.    *)
LEMMA ReturnKeeps ==
  ASSUME ClientTyped, Client!Return
  PROVE  /\ mqttCall' = Client!NoCall /\ \A k \in Client!Conns : link'[k].in = link[k].in
         /\ \A K : NoRequest(link, K) => NoRequest(link', K)
<1>1. /\ link' \in Links /\ mqttCall' = Client!NoCall
      /\ \A k \in Client!Conns :
           /\ link'[k].in = link[k].in /\ Len(link'[k].out) = Len(link[k].out)
           /\ \A i \in 1 .. Len(link[k].out) : link'[k].out[i].op = link[k].out[i].op
  BY PastWritten
<1>2. ASSUME NEW K, NEW k \in Client!Conns, Asks(link', k, K) PROVE Asks(link, k, K)
  <2>1. PICK s \in Seq(Requests), t \in Seq(Requests) : s = link[k].out /\ t = link'[k].out
    BY <1>1, OneLink DEF Links
  <2>2. Len(t) = Len(s) /\ \A i \in 1 .. Len(s) : t[i].op = s[i].op
    BY <1>1, <2>1
  <2>3. \A r \in Requests : r \in Asking(K) <=> r.op = K
    BY DEF Requests, Asking
  <2>4. \A i \in 1 .. Len(s) : s[i] \in Requests /\ t[i] \in Requests
    BY <2>1, <2>2
  <2>5. QED BY <1>2, <2>1, <2>2, <2>3, <2>4 DEF Asks, Has
<1>3. QED BY <1>1, <1>2 DEF NoRequest

LEMMA TimeoutAccounted ==
  ASSUME Client!ClientAssumption, ClientTyped, Accounts, Client!AckTimesOut
  PROVE  Accounts'
<1>1. Client!Return /\ late' = late \cup {mqttCall.op} /\ UNCHANGED <<respCh, loop>>
  BY DEF Client!AckTimesOut, Client!client
<1>2. SUFFICES ASSUME NEW K \in Kinds, K \notin late, K # mqttCall.op
               PROVE  Ledger(link', loop, respCh, mqttCall', late', K)
  BY <1>1 DEF Accounts, Ledger
<1>3. NoRequest(link, K) /\ NoAnswer(link, loop, respCh, K)
  BY <1>2 DEF Accounts, Ledger
<1>4. NoRequest(link', K) /\ NoAnswer(link', loop, respCh, K) /\ mqttCall' = Client!NoCall
  BY <1>1, <1>3, ReturnKeeps DEF NoAnswer, Comes
<1>5. mqttCall'.op # K
  BY <1>4, ClientTypes DEF Client!NoCall
<1>6. QED BY <1>4, <1>5, ClientTypes DEF Ledger

(* The acknowledgement a call takes of a kind that never was late is its own.  *)
LEMMA OwnAnswer ==
  ASSUME Client!ClientAssumption, ClientTyped, Accounts, NEW K \in Kinds, K \notin late, mqttCall.op = K, Keeps(respCh, K)
  PROVE  mqttCall.done = TRUE /\ NoRequest(link, K) /\ OneAnswer(link, loop, respCh, K)
<1>1. Ledger(link, loop, respCh, mqttCall, late, K)
  BY DEF Accounts
<1>2. QED BY <1>1, CallStates DEF Ledger, NoAnswer

LEMMA ReturnAccounted ==
  ASSUME Client!ClientAssumption, ClientTyped, Accounts, Client!AckArrives
  PROVE  Accounts' /\ (honest => honest')
<1>1. /\ respCh # <<>> /\ respCh' = Tail(respCh) /\ UNCHANGED <<loop, late>> /\ mqttCall.phase = "wait"
      /\ IF Head(respCh) = mqttCall.op
         THEN Client!Return /\ honest' = (mqttCall.done \/ mqttCall.op \in late)
         ELSE UNCHANGED <<mqttCall, link, honest>>
  BY DEF Client!AckArrives, Client!Wanted
<1>2. respCh \in Seq(Kinds) /\ Head(respCh) \in Kinds
  BY <1>1 DEF ClientTyped
<1>3. \A T : /\ Has(Tail(respCh), T) => Has(respCh, T)
             /\ Once(respCh, T) => Once(Tail(respCh), T)
             /\ Head(respCh) \in T => Has(respCh, T)
             /\ Once(respCh, T) /\ Head(respCh) \in T => ~Has(Tail(respCh), T)
  BY <1>1, <1>2, HasFirst
<1>4. CASE Head(respCh) = mqttCall.op
  <2>1. PICK A \in Kinds : A = Head(respCh) /\ mqttCall.op = A
    BY <1>2, <1>4
  <2>2. Client!Return /\ honest' = (mqttCall.done \/ A \in late)
    BY <1>1, <1>4, <2>1
  <2>3. Keeps(respCh, A)
    BY <1>3, <2>1 DEF Keeps
  <2>4. A \notin late => mqttCall.done = TRUE /\ NoRequest(link, A) /\ OneAnswer(link, loop, respCh, A)
    BY <2>1, <2>3, OwnAnswer
  <2>5. honest'
    BY <2>2, <2>4
  <2>6. SUFFICES ASSUME NEW K \in Kinds, K \notin late
                 PROVE  Ledger(link', loop, Tail(respCh), mqttCall', late, K)
    BY <1>1, <2>5 DEF Accounts, Ledger
  <2>7. NoRequest(link, K) /\ NoAnswer(link, loop, Tail(respCh), K)
    <3>1. CASE K = A
      <4>1. NoRequest(link, K) /\ OneAnswer(link, loop, respCh, K)
        BY <2>4, <2>6, <3>1
      <4>2. ~Has(Tail(respCh), {K})
        BY <1>3, <2>1, <3>1, <4>1 DEF OneAnswer
      <4>3. QED BY <2>3, <3>1, <4>1, <4>2 DEF OneAnswer, NoAnswer, Keeps
    <3>2. CASE K # A
      <4>1. NoRequest(link, K) /\ NoAnswer(link, loop, respCh, K)
        BY <2>1, <2>6, <3>2 DEF Accounts, Ledger
      <4>2. QED BY <1>3, <4>1 DEF NoAnswer, Keeps
    <3>3. QED BY <3>1, <3>2
  <2>8. NoRequest(link', K) /\ NoAnswer(link', loop, Tail(respCh), K) /\ mqttCall' = Client!NoCall
    BY <2>2, <2>7, ReturnKeeps DEF NoAnswer, Comes
  <2>9. mqttCall'.op # K
    BY <2>8, ClientTypes DEF Client!NoCall
  <2>10. QED BY <2>8, <2>9 DEF Ledger
<1>5. CASE Head(respCh) # mqttCall.op
  <2>1. UNCHANGED <<mqttCall, link, honest>>
    BY <1>1, <1>5
  <2>2. ASSUME NEW K \in Kinds
        PROVE  /\ FewerRequests(link, link', K)
               /\ FewerAnswers(link, link', loop, loop', respCh, respCh', K)
    <3>1. FewerRequests(link, link', K)
      BY <2>1, SameRequests
    <3>2. FewerAnswers(link, link', loop, loop', respCh, respCh', K)
      BY <1>1, <1>3, <2>1 DEF FewerAnswers, Keeps
    <3>3. QED BY <3>1, <3>2
  <2>3. Accounts'
    BY <1>1, <2>1, <2>2, AccountsFewer
  <2>4. QED BY <2>1, <2>3
<1>6. QED BY <1>4, <1>5

LEMMA AccountsStep ==
  ASSUME Client!ClientAssumption, ClientTyped, ~early => SoleReader, CurrentIsCall, Accounts, honest, Client!Next
  PROVE  Accounts' /\ honest'
<1> DEFINE Same(k) == \A K : Reads(loop', k, K) => Reads(loop, k, K)
<1>1. CASE UNCHANGED Client!vars
  BY <1>1 DEF Client!vars, Client!client, Client!history, Accounts
<1>2. CASE Client!Connect
  BY <1>2, ConnectWritten, AccountsRead
<1>3. ASSUME ~early, Client!Disconnect \/ \E k \in Client!Conns : Client!MessageTooLong(k) PROVE Accounts' /\ honest'
  <2>1. conn \in Client!Conns
    BY <1>3, ConnectedThere, ReaderThere DEF Client!Disconnect, Client!MessageTooLong, Client!Running
  <2>2. Rewritten(link, link', conn, <<>>, <<>>) /\ UNCHANGED <<mqttCall, respCh, late, honest>>
    BY <1>3, <2>1, ClosedWritten DEF Client!Disconnect, Client!MessageTooLong, Client!history
  <2>3. ASSUME NEW K PROVE \A j \in Client!Conns : Reads(loop', j, K) => Reads(loop, j, K)
    <3>1. loop' = loop \/ \E k \in Client!Conns : loop' = [loop EXCEPT ![k].phase = "ended"]
      BY <1>3 DEF Client!Disconnect, Client!MessageTooLong, Client!LoopGoto
    <3>2. QED BY <3>1, LoopMoves DEF ClientTyped
  <2>4. \A K : \A j \in Client!Conns : Reads(loop', j, K) => Reads(loop, j, K)
    BY <2>3
  <2>5. Accounts'
    BY <2>1, <2>2, <2>4, AccountsEmptied
  <2>6. QED BY <2>2, <2>5
<1>4. CASE Client!AckArrives
  BY <1>4, ReturnAccounted
<1>5. CASE Client!AckTimesOut
  BY <1>5, TimeoutAccounted DEF Client!AckTimesOut
<1>6. ASSUME ~early, NEW op \in Kinds, Client!Request(op) PROVE Accounts' /\ honest'
  BY <1>6, RequestAccounted DEF Client!Request
<1>7. ASSUME ~early, NEW k \in Client!Conns, Client!HeaderArrives(k) PROVE Accounts' /\ honest'
  BY <1>7, PacketAccounted DEF Client!HeaderArrives, Client!history
<1>8. ASSUME NEW k \in Client!Conns, Client!PassAck(k) PROVE Accounts' /\ honest'
  BY <1>8, AckAccounted DEF Client!PassAck, Client!history
<1>9. ASSUME NEW k \in Client!Conns, Client!Loop(k), ~Client!HeaderArrives(k), ~Client!MessageTooLong(k), ~Client!PassAck(k)
      PROVE  Accounts' /\ honest'
  <2>1. UNCHANGED <<mqttCall, respCh, late, link, honest>>
    BY <1>9 DEF Client!Loop, Client!ReadHeader, Client!ReadFails, Client!DeadlineFails, Client!LoopFails,
       Client!Deliver, Client!client, Client!history
  <2>2. \/ \E p \in {"failed", "ended", "next"} : loop' = [loop EXCEPT ![k].phase = p]
        \/ loop' = [loop EXCEPT ![k].phase = "header", ![k].at = conn]
    BY <1>9 DEF Client!Loop, Client!ReadHeader, Client!ReadFails, Client!DeadlineFails, Client!LoopFails,
       Client!Deliver, Client!LoopGoto
  <2>3. ASSUME NEW K PROVE \A j \in Client!Conns : Reads(loop', j, K) => Reads(loop, j, K)
    BY <2>2, LoopMoves DEF ClientTyped
  <2>4. \A K : \A j \in Client!Conns : Reads(loop', j, K) => Reads(loop, j, K)
    BY <2>3
  <2>5. QED BY <2>1, <2>4, AccountsRead
<1>10. ASSUME NEW k \in Client!Conns, Client!BrokerAnswers(k) PROVE Accounts' /\ honest'
  BY <1>10, AnswerAccounted DEF Client!BrokerAnswers, Client!history
<1>11. ASSUME NEW k \in Client!Conns, Client!ConnectionLost(k) PROVE Accounts' /\ honest'
  <2>1. Rewritten(link, link', k, <<>>, link[k].in) /\ UNCHANGED <<mqttCall, respCh, late, loop, honest>>
    BY <1>11, LostWritten DEF Client!ConnectionLost, Client!client, Client!history
  <2>2. QED BY <2>1, AccountsEmptied
<1>12. ASSUME NEW k \in Client!Conns, NEW n \in Lengths, Client!BrokerSends(k, n) PROVE Accounts' /\ honest'
  BY <1>12, MessageAccounted DEF Client!BrokerSends, Client!history
<1>13. QED BY <1>1, <1>2, <1>3, <1>4, <1>5, <1>6, <1>7, <1>8, <1>9, <1>10, <1>11, <1>12
           DEF Client!Next, Client!Broker

LEMMA OnlineStep ==
  ASSUME online \in BOOLEAN, Client!Next
  PROVE  online' \in BOOLEAN
BY DEF Client!Next, Client!vars, Client!client, Client!history, Client!Connect, Client!Disconnect,
   Client!AckArrives, Client!AckTimesOut, Client!Request, Client!Loop, Client!Broker, Client!ReadHeader,
   Client!HeaderArrives, Client!ReadFails, Client!DeadlineFails, Client!LoopFails, Client!NotesTheEnd,
   Client!MessageTooLong, Client!Deliver, Client!PassAck, Client!BrokerAnswers, Client!BrokerSends,
   Client!ConnectionLost

LEMMA ClientStep ==
  ASSUME Client!ClientAssumption, ClientInductive, Client!Next
  PROVE  ClientInductive'
<1>1. ClientTyped /\ (~early => SoleReader) /\ CurrentIsCall /\ Accounts /\ honest /\ whole
  BY DEF ClientInductive, ClientFlags
<1>2. ClientTyped' /\ CurrentIsCall' /\ Accounts' /\ honest' /\ whole'
  BY <1>1, ClientTypedStep, CurrentStep, AccountsStep, WholeStep
<1>3. ~early' => SoleReader'
  BY <1>1, <1>2, ReaderStep
<1>4. online' \in BOOLEAN
  BY OnlineStep DEF ClientInductive
<1>5. QED BY <1>2, <1>3, <1>4 DEF ClientInductive, ClientFlags

LEMMA ClientInit ==
  ASSUME Client!ClientAssumption, Client!Init
  PROVE  ClientInductive
<1> USE DEF Client!Init
<1>1. loop \in Loops
  <2>1. 0 \in 0 .. MaxConns
    BY ClientBounds
  <2>2. QED BY <2>1 DEF Loops, Client!NoLoop
<1>2. link \in Links
  BY DEF Links
<1>3. ClientTyped
  BY <1>1, <1>2, ClientBounds DEF ClientTyped
<1>4. \A k \in Client!Conns : loop[k].phase = "none" /\ link[k].out = <<>> /\ link[k].in = <<>>
  BY DEF Client!NoLoop
<1>5. SoleReader
  BY <1>4 DEF SoleReader, Client!Running
<1>6. CurrentIsCall
  <2>1. \A j \in 1 .. Len(<<>>) : FALSE
    OBVIOUS
  <2>2. QED BY <1>4, <2>1 DEF CurrentIsCall
<1>7. ASSUME NEW K \in Kinds PROVE Ledger(link, loop, respCh, mqttCall, late, K)
  <2>1. mqttCall.op # K
    BY ClientTypes DEF Client!NoCall
  <2>2. NoRequest(link, K) /\ NoAnswer(link, loop, respCh, K)
    BY <1>4, HasNothing DEF NoRequest, NoAnswer, Asks, Comes, Reads, Keeps
  <2>3. QED BY <2>1, <2>2 DEF Ledger
<1>8. QED BY <1>3, <1>5, <1>6, <1>7 DEF ClientInductive, ClientFlags, Accounts

LEMMA ClientSound ==
  ASSUME Client!ClientAssumption, ClientInductive
  PROVE  Client!TypeOK /\ Client!ClientHonest
<1>1. ClientTyped /\ honest /\ whole /\ (~early => SoleReader)
  BY DEF ClientInductive, ClientFlags
<1>2. mqttCall.op \in Kinds \cup {"none"}
  BY <1>1 DEF ClientTyped, Client!NoCall
<1>3. \A k \in Client!Conns : loop[k].phase \in {"none", "next", "header", "body", "failed", "ended"}
  BY <1>1, OneLink
<1>4. Client!OneReader
  BY <1>1 DEF Client!OneReader, SoleReader
<1>5. Client!TypeOK
  BY <1>1, <1>2, <1>3 DEF ClientInductive, ClientTyped, Client!TypeOK
<1>6. QED BY <1>1, <1>4, <1>5 DEF Client!ClientHonest, Client!AnswersHonest, Client!MessagesWhole

LEMMA ClientRests ==
  ASSUME ClientInductive, UNCHANGED Client!vars
  PROVE  ClientInductive'
<1>1. UNCHANGED <<conn, online, respCh, mqttCall, loop, link, late, early, honest, whole>>
  BY DEF Client!vars, Client!client, Client!history
<1>2. ClientTyped' /\ CurrentIsCall' /\ online' \in BOOLEAN
  BY <1>1 DEF ClientInductive, ClientTyped, CurrentIsCall
<1>3. ClientFlags'
  BY <1>1 DEF ClientInductive, ClientFlags, SoleReader, Client!Running
<1>4. Accounts'
  BY <1>1 DEF ClientInductive, Accounts
<1>5. QED BY <1>2, <1>3, <1>4 DEF ClientInductive

(* The client of the example: a request of a kind that never timed out and     *)
(* that succeeds was done by the broker, each connection is read by one loop   *)
(* as long as nobody connects beside a loop that still runs, and every message *)
(* is delivered with the length it was sent with, for every capacity of the    *)
(* channel and every number of connections, packets and requests.              *)
THEOREM ClientHonestHolds == Spec => []ClientHonest
<1> USE PartsAssumption
<1>1. Init => ClientInductive
  BY ClientInit DEF Init, Rest
<1>2. ClientInductive /\ [Next]_vars => ClientInductive'
  <2> SUFFICES ASSUME ClientInductive, [Next]_vars PROVE ClientInductive'
    OBVIOUS
  <2>1. Client!Next \/ UNCHANGED Client!vars
    BY OneMoves DEF clientVars, Client!vars, Client!client, Client!history
  <2>2. CASE UNCHANGED Client!vars
    BY <2>2, ClientRests
  <2>3. QED BY <2>1, <2>2, ClientStep
<1>3. ClientInductive => ClientHonest
  BY ClientSound DEF ClientHonest
<1>4. QED BY <1>1, <1>2, <1>3, PTL DEF Spec

-----------------------------------------------------------------------------
(* The shells. What the scan, the quoting and the reading of a text come to    *)
(* is shown by induction on how much of it has been read.                      *)
LEMMA UpFromZero ==
  ASSUME NEW S, 0 \in S, \A n \in Nat : n \in S => n + 1 \in S
  PROVE  \A n \in Nat : n \in S
<1> DEFINE Missing == {n \in Nat : n \notin S}
           Less == OpToRel(<, Nat)
<1>1. IsWellFoundedOn(Less, Nat)
  BY NatLessThanWellFounded DEF OpToRel
<1>2. \A m, n \in Nat : <<m, n>> \in Less <=> m < n
  BY DEF OpToRel
<1> HIDE DEF Less
<1>3. SUFFICES ASSUME Missing # {} PROVE FALSE
  OBVIOUS
<1>4. Missing \subseteq Nat
  OBVIOUS
<1> HIDE DEF Missing
<1>5. PICK n \in Missing : \A m \in Missing : ~(<<m, n>> \in Less)
  BY <1>1, <1>3, <1>4, WFMin
<1>6. n \in Nat /\ n # 0 /\ n \notin S
  BY <1>5 DEF Missing
<1>7. n - 1 \in Nat /\ n - 1 < n /\ (n - 1) + 1 = n
  BY <1>6
<1>8. n - 1 \in S
  BY <1>2, <1>5, <1>6, <1>7 DEF Missing
<1>9. QED BY <1>6, <1>7, <1>8

\* g holds what n steps along txt come to.
Along(g, n, start, step, txt) ==
  g[0] = start /\ \A i \in 1 .. n : g[i] = step[<<g[i - 1], txt[i]>>]

LEMMA AlongThere ==
  ASSUME NEW S, NEW C, NEW start \in S, NEW step \in [S \X C -> S], NEW txt \in Seq(C)
  PROVE  \E g \in [0 .. Len(txt) -> S] : Along(g, Len(txt), start, step, txt)
<1> DEFINE N == {n \in Nat : n <= Len(txt) => \E g \in [0 .. n -> S] : Along(g, n, start, step, txt)}
<1>1. 0 \in N
  <2>1. [i \in 0 .. 0 |-> start] \in [0 .. 0 -> S] /\ Along([i \in 0 .. 0 |-> start], 0, start, step, txt)
    BY DEF Along
  <2>2. QED BY <2>1
<1>2. ASSUME NEW n \in Nat, n \in N PROVE n + 1 \in N
  <2>1. SUFFICES ASSUME n + 1 <= Len(txt)
                 PROVE  \E g \in [0 .. n + 1 -> S] : Along(g, n + 1, start, step, txt)
    OBVIOUS
  <2>2. PICK h \in [0 .. n -> S] : Along(h, n, start, step, txt)
    BY <1>2, <2>1
  <2>3. h[n] \in S /\ txt[n + 1] \in C
    BY <2>1
  <2>4. PICK s \in S : s = step[<<h[n], txt[n + 1]>>]
    BY <2>3
  <2>5. PICK g : g = [i \in 0 .. n + 1 |-> IF i = n + 1 THEN s ELSE h[i]]
    OBVIOUS
  <2>6. g \in [0 .. n + 1 -> S] /\ g[n + 1] = s /\ \A i \in 0 .. n : g[i] = h[i]
    BY <2>5
  <2>7. ASSUME NEW i \in 1 .. n + 1 PROVE g[i] = step[<<g[i - 1], txt[i]>>]
    <3>1. CASE i = n + 1
      <4>1. g[i - 1] = h[n]
        BY <2>6, <3>1
      <4>2. QED BY <2>4, <2>6, <3>1, <4>1
    <3>2. CASE i \in 1 .. n
      <4>1. g[i] = h[i] /\ g[i - 1] = h[i - 1]
        BY <2>6, <3>2
      <4>2. QED BY <2>2, <3>2, <4>1 DEF Along
    <3>3. QED BY <3>1, <3>2
  <2>8. g[0] = start
    BY <2>2, <2>6 DEF Along
  <2>9. Along(g, n + 1, start, step, txt)
    BY <2>7, <2>8 DEF Along
  <2>10. QED BY <2>6, <2>9
<1>3. \A n \in Nat : n \in N
  <2> HIDE DEF N
  <2>1. QED BY <1>1, <1>2, UpFromZero
<1>4. QED BY <1>3

LEMMA AlongSame ==
  ASSUME NEW start, NEW step, NEW n \in Nat, NEW g, NEW h, NEW s, NEW t,
         Along(g, n, start, step, s), Along(h, n, start, step, t), \A i \in 1 .. n : s[i] = t[i]
  PROVE  g[n] = h[n]
<1> DEFINE N == {i \in Nat : i <= n => g[i] = h[i]}
<1>1. 0 \in N
  BY DEF Along
<1>2. ASSUME NEW i \in Nat, i \in N PROVE i + 1 \in N
  <2>1. SUFFICES ASSUME i + 1 <= n PROVE g[i + 1] = h[i + 1]
    OBVIOUS
  <2>2. i + 1 \in 1 .. n /\ (i + 1) - 1 = i /\ g[i] = h[i]
    BY <1>2, <2>1
  <2>3. g[i + 1] = step[<<g[i], s[i + 1]>>] /\ h[i + 1] = step[<<h[i], t[i + 1]>>]
    BY <2>2 DEF Along
  <2>4. s[i + 1] = t[i + 1]
    BY <2>2
  <2>5. QED BY ONLY <2>2, <2>3, <2>4
<1>3. \A i \in Nat : i \in N
  <2> HIDE DEF N
  <2>1. QED BY <1>1, <1>2, UpFromZero
<1>4. QED BY <1>3


Marks == {"no", "single", "double"}
ScanStates == [skip : BOOLEAN, quoted : Marks, found : BOOLEAN]
ReadStates == [skip : BOOLEAN, quoted : Marks, out : Seq(Sh!Chars \cup {"active"})]
ScanFirst == [skip |-> FALSE, quoted |-> "no", found |-> FALSE]
ReadFirst == [skip |-> FALSE, quoted |-> "no", out |-> <<>>]
ScanStep == [x \in ScanStates \X Sh!Chars |-> Sh!Scan(x[1], x[2])]
ReadStep == [x \in ReadStates \X Sh!Chars |-> Sh!Read(x[1], x[2])]
Extended(q, ch) == q \o Sh!QuotedChar(ch)
QuoteStep == [x \in Seq(Sh!Chars) \X Sh!Chars |-> Extended(x[1], x[2])]

LEMMA ScanStays == ASSUME NEW s \in ScanStates, NEW ch \in Sh!Chars PROVE Sh!Scan(s, ch) \in ScanStates
BY DEF ScanStates, Marks, Sh!Scan, Sh!Chars

LEMMA ReadStays == ASSUME NEW s \in ReadStates, NEW ch \in Sh!Chars PROVE Sh!Read(s, ch) \in ReadStates
<1>1. \A what \in Sh!Chars \cup {"active"} : [s EXCEPT !.out = Append(@, what), !.skip = FALSE] \in ReadStates
  <2>1. TAKE what \in Sh!Chars \cup {"active"}
  <2>2. Append(s.out, what) \in Seq(Sh!Chars \cup {"active"})
    BY DEF ReadStates
  <2>3. PICK o \in Seq(Sh!Chars \cup {"active"}) : o = Append(s.out, what)
    BY <2>2
  <2>4. [s EXCEPT !.out = o, !.skip = FALSE] \in ReadStates
    BY DEF ReadStates
  <2>5. QED BY <2>3, <2>4
<1>2. \A q \in Marks : [s EXCEPT !.quoted = q] \in ReadStates
  BY DEF ReadStates
<1>3. [s EXCEPT !.skip = TRUE] \in ReadStates /\ s.quoted \in Marks
  BY DEF ReadStates
<1>4. QED BY <1>1, <1>2, <1>3 DEF Marks, Sh!Read, Sh!Chars

LEMMA QuoteStays == ASSUME NEW ch \in Sh!Chars PROVE Sh!QuotedChar(ch) \in Seq(Sh!Chars)
<1>1. "single" \in Sh!Chars /\ "backslash" \in Sh!Chars
  BY DEF Sh!Chars
<1>2. <<ch>> \in Seq(Sh!Chars) /\ <<"single", "backslash", "single", "single">> \in Seq(Sh!Chars)
  BY <1>1
<1>3. QED BY <1>2 DEF Sh!QuotedChar

LEMMA AlongOnly ==
  ASSUME NEW n \in Nat, NEW g, NEW h, DOMAIN g = 0 .. n, DOMAIN h = 0 .. n, g = [i \in DOMAIN g |-> g[i]],
         h = [i \in DOMAIN h |-> h[i]], h[0] = g[0], \A i \in 1 .. n : h[i - 1] = g[i - 1] => h[i] = g[i]
  PROVE  h = g
<1> DEFINE N == {i \in Nat : i <= n => h[i] = g[i]}
<1>1. 0 \in N
  OBVIOUS
<1>2. ASSUME NEW i \in Nat, i \in N PROVE i + 1 \in N
  <2>1. SUFFICES ASSUME i + 1 <= n PROVE h[i + 1] = g[i + 1]
    OBVIOUS
  <2>2. i + 1 \in 1 .. n /\ (i + 1) - 1 = i /\ h[i] = g[i]
    BY <1>2, <2>1
  <2>3. QED BY <2>2
<1>3. \A i \in Nat : i \in N
  <2> HIDE DEF N
  <2>1. QED BY <1>1, <1>2, UpFromZero
<1>4. \A i \in 0 .. n : h[i] = g[i]
  BY <1>3
<1>5. QED BY <1>4

LEMMA ScannedSteps ==
  ASSUME NEW txt \in Seq(Sh!Chars)
  PROVE  /\ Sh!Scanned(txt) \in [0 .. Len(txt) -> ScanStates]
         /\ Along(Sh!Scanned(txt), Len(txt), ScanFirst, ScanStep, txt)
<1> DEFINE n == Len(txt)
           Turn(g, i) == IF i = 0 THEN ScanFirst ELSE Sh!Scan(g[i - 1], txt[i])
<1>1. PICK g \in [0 .. n -> ScanStates] : Along(g, n, ScanFirst, ScanStep, txt)
  <2>1. ScanFirst \in ScanStates
    BY DEF ScanFirst, ScanStates, Marks
  <2>2. ScanStep \in [ScanStates \X Sh!Chars -> ScanStates]
    BY ScanStays DEF ScanStep
  <2>3. QED BY <2>1, <2>2, AlongThere
<1>2. g[0] = ScanFirst /\ \A i \in 1 .. n : g[i] = Sh!Scan(g[i - 1], txt[i])
  <2>1. \A i \in 1 .. n : <<g[i - 1], txt[i]>> \in ScanStates \X Sh!Chars
    OBVIOUS
  <2>2. QED BY <1>1, <2>1 DEF Along, ScanStep
<1>3. g = [i \in 0 .. n |-> Turn(g, i)]
  <2>1. \A i \in 0 .. n : i = 0 \/ i \in 1 .. n
    OBVIOUS
  <2>2. \A i \in 0 .. n : g[i] = Turn(g, i)
    BY <1>2, <2>1
  <2>3. QED BY <2>2
<1>4. Sh!Scanned(txt) = CHOOSE h : h = [i \in 0 .. n |-> Turn(h, i)]
  BY DEF Sh!Scanned, ScanFirst
<1> HIDE DEF Turn
<1>5. PICK h : h = Sh!Scanned(txt) /\ h = [i \in 0 .. n |-> Turn(h, i)]
  BY <1>3, <1>4
<1>6. h[0] = ScanFirst /\ \A i \in 1 .. n : h[i] = Sh!Scan(h[i - 1], txt[i])
  <2>1. \A i \in 1 .. n : i \in 0 .. n /\ i # 0
    OBVIOUS
  <2>2. 0 \in 0 .. n
    OBVIOUS
  <2>3. \A i \in 0 .. n : h[i] = Turn(h, i)
    BY ONLY <1>5
  <2>4. QED BY <2>1, <2>2, <2>3 DEF Turn
<1>7. DOMAIN h = 0 .. n /\ DOMAIN g = 0 .. n /\ h = [i \in DOMAIN h |-> h[i]] /\ g = [i \in DOMAIN g |-> g[i]]
  BY <1>5
<1>8. n \in Nat /\ h[0] = g[0] /\ \A i \in 1 .. n : h[i - 1] = g[i - 1] => h[i] = g[i]
  BY <1>2, <1>6
<1>9. h = g
  BY <1>7, <1>8, AlongOnly
<1>10. QED BY <1>1, <1>5, <1>9

LEMMA ReadSteps ==
  ASSUME NEW txt \in Seq(Sh!Chars)
  PROVE  /\ Sh!ReadTo(txt) \in [0 .. Len(txt) -> ReadStates]
         /\ Along(Sh!ReadTo(txt), Len(txt), ReadFirst, ReadStep, txt)
<1> DEFINE n == Len(txt)
           Turn(g, i) == IF i = 0 THEN ReadFirst ELSE Sh!Read(g[i - 1], txt[i])
<1>1. PICK g \in [0 .. n -> ReadStates] : Along(g, n, ReadFirst, ReadStep, txt)
  <2>1. ReadFirst \in ReadStates
    BY DEF ReadFirst, ReadStates, Marks
  <2>2. ReadStep \in [ReadStates \X Sh!Chars -> ReadStates]
    BY ReadStays DEF ReadStep
  <2>3. QED BY <2>1, <2>2, AlongThere
<1>2. g[0] = ReadFirst /\ \A i \in 1 .. n : g[i] = Sh!Read(g[i - 1], txt[i])
  <2>1. \A i \in 1 .. n : <<g[i - 1], txt[i]>> \in ReadStates \X Sh!Chars
    OBVIOUS
  <2>2. QED BY <1>1, <2>1 DEF Along, ReadStep
<1>3. g = [i \in 0 .. n |-> Turn(g, i)]
  <2>1. \A i \in 0 .. n : i = 0 \/ i \in 1 .. n
    OBVIOUS
  <2>2. \A i \in 0 .. n : g[i] = Turn(g, i)
    BY <1>2, <2>1
  <2>3. QED BY <2>2
<1>4. Sh!ReadTo(txt) = CHOOSE h : h = [i \in 0 .. n |-> Turn(h, i)]
  BY DEF Sh!ReadTo, ReadFirst
<1> HIDE DEF Turn
<1>5. PICK h : h = Sh!ReadTo(txt) /\ h = [i \in 0 .. n |-> Turn(h, i)]
  BY <1>3, <1>4
<1>6. h[0] = ReadFirst /\ \A i \in 1 .. n : h[i] = Sh!Read(h[i - 1], txt[i])
  <2>1. \A i \in 1 .. n : i \in 0 .. n /\ i # 0
    OBVIOUS
  <2>2. 0 \in 0 .. n
    OBVIOUS
  <2>3. \A i \in 0 .. n : h[i] = Turn(h, i)
    BY ONLY <1>5
  <2>4. QED BY <2>1, <2>2, <2>3 DEF Turn
<1>7. DOMAIN h = 0 .. n /\ DOMAIN g = 0 .. n /\ h = [i \in DOMAIN h |-> h[i]] /\ g = [i \in DOMAIN g |-> g[i]]
  BY <1>5
<1>8. n \in Nat /\ h[0] = g[0] /\ \A i \in 1 .. n : h[i - 1] = g[i - 1] => h[i] = g[i]
  BY <1>2, <1>6
<1>9. h = g
  BY <1>7, <1>8, AlongOnly
<1>10. QED BY <1>1, <1>5, <1>9

LEMMA QuotedSteps ==
  ASSUME NEW txt \in Seq(Sh!Chars)
  PROVE  /\ Sh!Quoted(txt) \in [0 .. Len(txt) -> Seq(Sh!Chars)]
         /\ Along(Sh!Quoted(txt), Len(txt), <<"single">>, QuoteStep, txt)
<1> DEFINE n == Len(txt)
           Turn(g, i) == IF i = 0 THEN <<"single">> ELSE Extended(g[i - 1], txt[i])
<1>1. PICK g \in [0 .. n -> Seq(Sh!Chars)] : Along(g, n, <<"single">>, QuoteStep, txt)
  <2>1. <<"single">> \in Seq(Sh!Chars)
    BY DEF Sh!Chars
  <2>2. QuoteStep \in [Seq(Sh!Chars) \X Sh!Chars -> Seq(Sh!Chars)]
    BY QuoteStays DEF QuoteStep, Extended
  <2>3. QED BY <2>1, <2>2, AlongThere
<1>2. g[0] = <<"single">> /\ \A i \in 1 .. n : g[i] = Extended(g[i - 1], txt[i])
  <2>1. \A i \in 1 .. n : <<g[i - 1], txt[i]>> \in Seq(Sh!Chars) \X Sh!Chars
    OBVIOUS
  <2>2. QED BY <1>1, <2>1 DEF Along, QuoteStep
<1>3. g = [i \in 0 .. n |-> Turn(g, i)]
  <2>1. \A i \in 0 .. n : i = 0 \/ i \in 1 .. n
    OBVIOUS
  <2>2. \A i \in 0 .. n : g[i] = Turn(g, i)
    BY <1>2, <2>1
  <2>3. QED BY <2>2
<1>4. Sh!Quoted(txt) = CHOOSE h : h = [i \in 0 .. n |-> Turn(h, i)]
  BY DEF Sh!Quoted, Extended
<1> HIDE DEF Turn
<1>5. PICK h : h = Sh!Quoted(txt) /\ h = [i \in 0 .. n |-> Turn(h, i)]
  BY <1>3, <1>4
<1>6. h[0] = <<"single">> /\ \A i \in 1 .. n : h[i] = Extended(h[i - 1], txt[i])
  <2>1. \A i \in 1 .. n : i \in 0 .. n /\ i # 0
    OBVIOUS
  <2>2. 0 \in 0 .. n
    OBVIOUS
  <2>3. \A i \in 0 .. n : h[i] = Turn(h, i)
    BY ONLY <1>5
  <2>4. QED BY <2>1, <2>2, <2>3 DEF Turn
<1>7. DOMAIN h = 0 .. n /\ DOMAIN g = 0 .. n /\ h = [i \in DOMAIN h |-> h[i]] /\ g = [i \in DOMAIN g |-> g[i]]
  BY <1>5
<1>8. n \in Nat /\ h[0] = g[0] /\ \A i \in 1 .. n : h[i - 1] = g[i - 1] => h[i] = g[i]
  BY <1>2, <1>6
<1>9. h = g
  BY <1>7, <1>8, AlongOnly
<1>10. QED BY <1>1, <1>5, <1>9

ScanEnd(txt) == Sh!Scanned(txt)[Len(txt)]

LEMMA ScanAppended ==
  ASSUME NEW txt \in Seq(Sh!Chars)
  PROVE  /\ ScanEnd(<<>>) = ScanFirst /\ ScanEnd(txt) \in ScanStates
         /\ \A ch \in Sh!Chars : ScanEnd(Append(txt, ch)) = Sh!Scan(ScanEnd(txt), ch)
<1>1. ScanEnd(<<>>) = ScanFirst
  <2>1. <<>> \in Seq(Sh!Chars) /\ Len(<<>>) = 0
    OBVIOUS
  <2>2. QED BY <2>1, ScannedSteps DEF Along, ScanEnd
<1>2. PICK n \in Nat : n = Len(txt)
  OBVIOUS
<1>3. ScanEnd(txt) \in ScanStates
  BY <1>2, ScannedSteps DEF ScanEnd
<1>4. ASSUME NEW ch \in Sh!Chars PROVE ScanEnd(Append(txt, ch)) = Sh!Scan(ScanEnd(txt), ch)
  <2>1. PICK t \in Seq(Sh!Chars) : t = Append(txt, ch)
    <3>1. Append(txt, ch) \in Seq(Sh!Chars)
      BY <1>4
    <3>2. QED BY <3>1
  <2>2. Len(t) = n + 1 /\ t[n + 1] = ch /\ \A i \in 1 .. n : t[i] = txt[i]
    BY <1>2, <2>1
  <2>3. PICK g : g = Sh!Scanned(txt) /\ Along(g, n, ScanFirst, ScanStep, txt)
    BY <1>2, ScannedSteps
  <2>4. PICK h : h = Sh!Scanned(t) /\ Along(h, n + 1, ScanFirst, ScanStep, t)
    BY <2>2, ScannedSteps
  <2>5. Along(h, n, ScanFirst, ScanStep, t) /\ h[n + 1] = ScanStep[<<h[(n + 1) - 1], ch>>]
    BY <1>2, <2>2, <2>4 DEF Along
  <2>6. h[n] = g[n]
    BY <2>2, <2>3, <2>5, AlongSame
  <2>7. ScanEnd(txt) = g[n] /\ ScanEnd(t) = h[n + 1]
    BY <1>2, <2>2, <2>3, <2>4 DEF ScanEnd
  <2>8. h[n + 1] = ScanStep[<<g[n], ch>>]
    <3>1. (n + 1) - 1 = n
      BY <1>2
    <3>2. QED BY <2>5, <2>6, <3>1
  <2>9. QED BY <1>3, <1>4, <2>1, <2>7, <2>8 DEF ScanStep
<1>5. QED BY <1>1, <1>3, <1>4

LEMMA ReadAppended ==
  ASSUME NEW txt \in Seq(Sh!Chars)
  PROVE  /\ Sh!Reading(<<>>) = ReadFirst /\ Sh!Reading(txt) \in ReadStates
         /\ \A ch \in Sh!Chars : Sh!Reading(Append(txt, ch)) = Sh!Read(Sh!Reading(txt), ch)
<1>1. Sh!Reading(<<>>) = ReadFirst
  <2>1. <<>> \in Seq(Sh!Chars) /\ Len(<<>>) = 0
    OBVIOUS
  <2>2. QED BY <2>1, ReadSteps DEF Along, Sh!Reading
<1>2. PICK n \in Nat : n = Len(txt)
  OBVIOUS
<1>3. Sh!Reading(txt) \in ReadStates
  BY <1>2, ReadSteps DEF Sh!Reading
<1>4. ASSUME NEW ch \in Sh!Chars PROVE Sh!Reading(Append(txt, ch)) = Sh!Read(Sh!Reading(txt), ch)
  <2>1. PICK t \in Seq(Sh!Chars) : t = Append(txt, ch)
    <3>1. Append(txt, ch) \in Seq(Sh!Chars)
      BY <1>4
    <3>2. QED BY <3>1
  <2>2. Len(t) = n + 1 /\ t[n + 1] = ch /\ \A i \in 1 .. n : t[i] = txt[i]
    BY <1>2, <2>1
  <2>3. PICK g : g = Sh!ReadTo(txt) /\ Along(g, n, ReadFirst, ReadStep, txt)
    BY <1>2, ReadSteps
  <2>4. PICK h : h = Sh!ReadTo(t) /\ Along(h, n + 1, ReadFirst, ReadStep, t)
    BY <2>2, ReadSteps
  <2>5. Along(h, n, ReadFirst, ReadStep, t) /\ h[n + 1] = ReadStep[<<h[(n + 1) - 1], ch>>]
    BY <1>2, <2>2, <2>4 DEF Along
  <2>6. h[n] = g[n]
    BY <2>2, <2>3, <2>5, AlongSame
  <2>7. Sh!Reading(txt) = g[n] /\ Sh!Reading(t) = h[n + 1]
    BY <1>2, <2>2, <2>3, <2>4 DEF Sh!Reading
  <2>8. h[n + 1] = ReadStep[<<g[n], ch>>]
    <3>1. (n + 1) - 1 = n
      BY <1>2
    <3>2. QED BY <2>5, <2>6, <3>1
  <2>9. QED BY <1>3, <1>4, <2>1, <2>7, <2>8 DEF ReadStep
<1>5. QED BY <1>1, <1>3, <1>4

(* Scan and reader are in the same place of a text, and what the one has found *)
(* the other has seen.                                                         *)
Active(out) == \E i \in 1 .. Len(out) : out[i] = "active"
Agree(a, b) == a.skip = b.skip /\ a.quoted = b.quoted /\ (a.found = TRUE <=> Active(b.out))

Kept(b, what) == [b EXCEPT !.out = Append(@, what), !.skip = FALSE]

LEMMA OutKept ==
  ASSUME NEW b \in ReadStates, NEW what \in Sh!Chars \cup {"active"}
  PROVE  /\ Kept(b, what).skip = FALSE /\ Kept(b, what).quoted = b.quoted
         /\ Kept(b, what).out = Append(b.out, what)
         /\ Active(Kept(b, what).out) <=> Active(b.out) \/ what = "active"
<1>1. PICK o \in Seq(Sh!Chars \cup {"active"}) : o = b.out
  BY DEF ReadStates
<1>2. PICK e : e = Kept(b, what)
  OBVIOUS
<1>3. e.out = Append(o, what) /\ e.skip = FALSE /\ e.quoted = b.quoted
  BY <1>1, <1>2 DEF ReadStates, Kept
<1>4. Has(Append(o, what), {"active"}) <=> Has(o, {"active"}) \/ what \in {"active"}
  BY HasAppended
<1>5. Active(e.out) <=> Active(b.out) \/ what = "active"
  BY <1>1, <1>3, <1>4 DEF Active, Has
<1>6. QED BY <1>1, <1>2, <1>3, <1>5

LEMMA AgreeStep ==
  ASSUME NEW a \in ScanStates, NEW b \in ReadStates, Agree(a, b), NEW ch \in Sh!Chars
  PROVE  Agree(Sh!Scan(a, ch), Sh!Read(b, ch))
<1>1. PICK k : k = Kept(b, ch)
  OBVIOUS
<1>2. PICK l : l = Kept(b, "active")
  OBVIOUS
<1>3. /\ k.skip = FALSE /\ k.quoted = b.quoted /\ (Active(k.out) <=> Active(b.out))
      /\ l.skip = FALSE /\ l.quoted = b.quoted /\ Active(l.out)
  <2>1. ch # "active" /\ ch \in Sh!Chars \cup {"active"} /\ "active" \in Sh!Chars \cup {"active"}
    BY DEF Sh!Chars
  <2>2. QED BY <1>1, <1>2, <2>1, OutKept
<1>4. Sh!Read(b, ch) =
        IF b.skip THEN k
        ELSE CASE b.quoted = "single" -> IF ch = "single" THEN [b EXCEPT !.quoted = "no"] ELSE k
               [] b.quoted = "double" -> CASE ch = "backslash" -> [b EXCEPT !.skip = TRUE]
                                           [] ch = "double"    -> [b EXCEPT !.quoted = "no"]
                                           [] ch = "dollar"    -> l
                                           [] OTHER            -> k
               [] b.quoted = "no" -> CASE ch = "backslash"            -> [b EXCEPT !.skip = TRUE]
                                       [] ch \in {"single", "double"} -> [b EXCEPT !.quoted = ch]
                                       [] ch \in {"link", "dollar"}   -> l
                                       [] OTHER                       -> k
  BY <1>1, <1>2 DEF Sh!Read, Kept
<1>5. \A q : /\ [b EXCEPT !.quoted = q].skip = b.skip /\ [b EXCEPT !.quoted = q].quoted = q
             /\ [b EXCEPT !.quoted = q].out = b.out
  BY DEF ReadStates
<1>6. /\ [b EXCEPT !.skip = TRUE].skip = TRUE /\ [b EXCEPT !.skip = TRUE].quoted = b.quoted
      /\ [b EXCEPT !.skip = TRUE].out = b.out
  BY DEF ReadStates
<1>7. QED BY <1>3, <1>4, <1>5, <1>6 DEF Agree, Sh!Scan, ScanStates, ReadStates, Marks, Sh!Chars


LEMMA ScanAndReadAgree ==
  ASSUME NEW txt \in Seq(Sh!Chars)
  PROVE  Agree(ScanEnd(txt), Sh!Reading(txt))
<1> DEFINE N == {n \in Nat : \A t \in Seq(Sh!Chars) : Len(t) = n => Agree(ScanEnd(t), Sh!Reading(t))}
<1>1. 0 \in N
  <2>1. \A t \in Seq(Sh!Chars) : Len(t) = 0 => t = <<>>
    OBVIOUS
  <2>2. <<>> \in Seq(Sh!Chars)
    OBVIOUS
  <2>3. ScanEnd(<<>>) = ScanFirst /\ Sh!Reading(<<>>) = ReadFirst
    BY <2>2, ScanAppended, ReadAppended
  <2>4. Agree(ScanFirst, ReadFirst)
    BY DEF Agree, Active, ScanFirst, ReadFirst
  <2>5. QED BY <2>1, <2>3, <2>4
<1>2. ASSUME NEW n \in Nat, n \in N PROVE n + 1 \in N
  <2>1. SUFFICES ASSUME NEW t \in Seq(Sh!Chars), Len(t) = n + 1 PROVE Agree(ScanEnd(t), Sh!Reading(t))
    BY <1>2
  <2>2. PICK s \in Seq(Sh!Chars), ch \in Sh!Chars : t = Append(s, ch) /\ Len(s) = n
    <3>1. /\ SubSeq(t, 1, n) \in Seq(Sh!Chars) /\ Len(SubSeq(t, 1, n)) = n /\ t[n + 1] \in Sh!Chars
          /\ \A i \in 1 .. n : SubSeq(t, 1, n)[i] = t[i]
      BY <1>2, <2>1
    <3>2. t = Append(SubSeq(t, 1, n), t[n + 1])
      BY <1>2, <2>1, <3>1
    <3>3. QED BY <3>1, <3>2
  <2>3. Agree(ScanEnd(s), Sh!Reading(s))
    BY <1>2, <2>2
  <2>4. QED BY <2>2, <2>3, ScanAppended, ReadAppended, AgreeStep
<1>3. \A n \in Nat : n \in N
  <2> HIDE DEF N
  <2>1. QED BY <1>1, <1>2, UpFromZero
<1>4. Len(txt) \in N
  BY <1>3
<1>5. QED BY <1>4

LEMMA ScanOfQuote ==
  /\ Sh!Scan([skip |-> FALSE, quoted |-> "single", found |-> FALSE], "single") = ScanFirst
  /\ Sh!Scan(ScanFirst, "backslash") = [skip |-> TRUE, quoted |-> "no", found |-> FALSE]
  /\ Sh!Scan([skip |-> TRUE, quoted |-> "no", found |-> FALSE], "single") = ScanFirst
  /\ Sh!Scan(ScanFirst, "single") = [skip |-> FALSE, quoted |-> "single", found |-> FALSE]
BY DEF Sh!Scan, ScanFirst

LEMMA ReadOfQuote ==
  ASSUME NEW o
  PROVE  /\ Sh!Read([skip |-> FALSE, quoted |-> "single", out |-> o], "single") = [skip |-> FALSE, quoted |-> "no", out |-> o]
         /\ Sh!Read([skip |-> FALSE, quoted |-> "no", out |-> o], "backslash") = [skip |-> TRUE, quoted |-> "no", out |-> o]
         /\ Sh!Read([skip |-> TRUE, quoted |-> "no", out |-> o], "single")
              = [skip |-> FALSE, quoted |-> "no", out |-> Append(o, "single")]
         /\ Sh!Read([skip |-> FALSE, quoted |-> "no", out |-> o], "single") = [skip |-> FALSE, quoted |-> "single", out |-> o]
BY DEF Sh!Read

(* What a shell makes of the text up to its i-th character once it is quoted:   *)
(* a literal.                                                                 *)
Literal(q, txt, i) ==
  /\ q \in Seq(Sh!Chars) /\ ScanEnd(q) = [skip |-> FALSE, quoted |-> "single", found |-> FALSE]
  /\ Sh!Reading(q).skip = FALSE /\ Sh!Reading(q).quoted = "single"
  /\ Len(Sh!Reading(q).out) = i /\ \A j \in 1 .. i : Sh!Reading(q).out[j] = txt[j]

LEMMA LiteralFirst == \A txt : Literal(<<"single">>, txt, 0)
<1>1. "single" \in Sh!Chars /\ <<>> \in Seq(Sh!Chars) /\ <<"single">> = Append(<<>>, "single")
  BY DEF Sh!Chars
<1>2. ScanEnd(<<"single">>) = Sh!Scan(ScanFirst, "single") /\ Sh!Reading(<<"single">>) = Sh!Read(ReadFirst, "single")
  BY <1>1, ScanAppended, ReadAppended
<1>3. /\ Sh!Scan(ScanFirst, "single") = [skip |-> FALSE, quoted |-> "single", found |-> FALSE]
      /\ Sh!Read(ReadFirst, "single") = [skip |-> FALSE, quoted |-> "single", out |-> <<>>]
  BY DEF ScanFirst, ReadFirst, Sh!Scan, Sh!Read
<1>4. <<"single">> \in Seq(Sh!Chars)
  BY <1>1
<1>5. PICK r : r = Sh!Reading(<<"single">>) /\ r = [skip |-> FALSE, quoted |-> "single", out |-> <<>>]
  BY <1>2, <1>3
<1>6. r.skip = FALSE /\ r.quoted = "single" /\ Len(r.out) = 0
  BY <1>5
<1>7. ScanEnd(<<"single">>) = [skip |-> FALSE, quoted |-> "single", found |-> FALSE]
  BY <1>2, <1>3
<1>8. PICK q : q = <<"single">>
  OBVIOUS
<1>9. ASSUME NEW txt PROVE Literal(q, txt, 0)
  <2>1. \A j \in 1 .. 0 : r.out[j] = txt[j]
    OBVIOUS
  <2>2. QED BY <1>4, <1>5, <1>6, <1>7, <1>8, <2>1 DEF Literal
<1>10. QED BY <1>8, <1>9

\* One character more, as it is, or a quote between two others and a backslash.
LEMMA LiteralPlain ==
  ASSUME NEW txt \in Seq(Sh!Chars), NEW i \in Nat, i + 1 \in 1 .. Len(txt), txt[i + 1] # "single",
         NEW q, Literal(q, txt, i)
  PROVE  Literal(q \o <<txt[i + 1]>>, txt, i + 1)
<1>1. PICK ch \in Sh!Chars : ch = txt[i + 1] /\ ch # "single"
  OBVIOUS
<1>2. PICK r \in ReadStates : r = Sh!Reading(q)
  BY ReadAppended DEF Literal
<1>3. q \in Seq(Sh!Chars) /\ q \o <<ch>> = Append(q, ch)
  BY <1>1 DEF Literal
<1>4. Append(q, ch) \in Seq(Sh!Chars)
  BY <1>1, <1>3
<1>5. /\ ScanEnd(Append(q, ch)) = Sh!Scan(ScanEnd(q), ch)
      /\ Sh!Reading(Append(q, ch)) = Sh!Read(r, ch)
  BY <1>1, <1>2, <1>3, ScanAppended, ReadAppended
<1>6. Sh!Scan(ScanEnd(q), ch) = [skip |-> FALSE, quoted |-> "single", found |-> FALSE]
  BY <1>1 DEF Literal, Sh!Scan
<1>7. Sh!Read(r, ch) = Kept(r, ch)
  BY <1>1, <1>2 DEF Literal, Sh!Read, Kept
<1>8. Kept(r, ch).skip = FALSE /\ Kept(r, ch).quoted = "single" /\ Kept(r, ch).out = Append(r.out, ch)
  BY <1>1, <1>2, OutKept DEF Literal
<1>9. PICK o \in Seq(Sh!Chars \cup {"active"}) : o = r.out
  BY <1>2 DEF ReadStates
<1>10. Len(o) = i /\ \A j \in 1 .. i : o[j] = txt[j]
  BY <1>2, <1>9 DEF Literal
<1>11. Len(Append(o, ch)) = i + 1 /\ \A j \in 1 .. i + 1 : Append(o, ch)[j] = txt[j]
  BY <1>1, <1>9, <1>10
<1>12. PICK r2 : r2 = Sh!Reading(Append(q, ch)) /\ r2.skip = FALSE /\ r2.quoted = "single" /\ r2.out = Append(o, ch)
  BY <1>5, <1>7, <1>8, <1>9
<1>13. ScanEnd(Append(q, ch)) = [skip |-> FALSE, quoted |-> "single", found |-> FALSE]
  BY <1>5, <1>6
<1>14. Literal(Append(q, ch), txt, i + 1)
  BY <1>4, <1>11, <1>12, <1>13 DEF Literal
<1>15. QED BY <1>1, <1>3, <1>14

LEMMA LiteralQuote ==
  ASSUME NEW txt \in Seq(Sh!Chars), NEW i \in Nat, i + 1 \in 1 .. Len(txt), txt[i + 1] = "single",
         NEW q, Literal(q, txt, i)
  PROVE  Literal(q \o <<"single", "backslash", "single", "single">>, txt, i + 1)
<1>1. "single" \in Sh!Chars /\ "backslash" \in Sh!Chars /\ q \in Seq(Sh!Chars)
  BY DEF Sh!Chars, Literal
<1>2. PICK q1 \in Seq(Sh!Chars) : q1 = Append(q, "single")
  <2>1. Append(q, "single") \in Seq(Sh!Chars)
    BY <1>1
  <2>2. QED BY <2>1
<1>3. PICK q2 \in Seq(Sh!Chars) : q2 = Append(q1, "backslash")
  <2>1. Append(q1, "backslash") \in Seq(Sh!Chars)
    BY <1>1, <1>2
  <2>2. QED BY <2>1
<1>4. PICK q3 \in Seq(Sh!Chars) : q3 = Append(q2, "single")
  <2>1. Append(q2, "single") \in Seq(Sh!Chars)
    BY <1>1, <1>3
  <2>2. QED BY <2>1
<1>5. PICK q4 \in Seq(Sh!Chars) : q4 = Append(q3, "single")
  <2>1. Append(q3, "single") \in Seq(Sh!Chars)
    BY <1>1, <1>4
  <2>2. QED BY <2>1
<1>6. q \o <<"single", "backslash", "single", "single">> = q4
  BY <1>1, <1>2, <1>3, <1>4, <1>5
<1>7. PICK r \in ReadStates : r = Sh!Reading(q)
  BY ReadAppended DEF Literal
<1>8. PICK o \in Seq(Sh!Chars \cup {"active"}) : o = r.out
  BY <1>7 DEF ReadStates
<1>9. r = [skip |-> FALSE, quoted |-> "single", out |-> o] /\ Len(o) = i /\ \A j \in 1 .. i : o[j] = txt[j]
  BY <1>7, <1>8 DEF Literal, ReadStates
<1>10. /\ ScanEnd(q1) = Sh!Scan(ScanEnd(q), "single") /\ ScanEnd(q2) = Sh!Scan(ScanEnd(q1), "backslash")
       /\ ScanEnd(q3) = Sh!Scan(ScanEnd(q2), "single") /\ ScanEnd(q4) = Sh!Scan(ScanEnd(q3), "single")
  BY <1>1, <1>2, <1>3, <1>4, <1>5, ScanAppended
<1>11. /\ Sh!Reading(q1) = Sh!Read(r, "single") /\ Sh!Reading(q2) = Sh!Read(Sh!Reading(q1), "backslash")
       /\ Sh!Reading(q3) = Sh!Read(Sh!Reading(q2), "single") /\ Sh!Reading(q4) = Sh!Read(Sh!Reading(q3), "single")
  BY <1>1, <1>2, <1>3, <1>4, <1>5, <1>7, ReadAppended
<1>12. ScanEnd(q4) = [skip |-> FALSE, quoted |-> "single", found |-> FALSE]
  BY <1>10, ScanOfQuote DEF Literal
<1>13. Sh!Reading(q4) = [skip |-> FALSE, quoted |-> "single", out |-> Append(o, "single")]
  <2>1. Sh!Reading(q1) = [skip |-> FALSE, quoted |-> "no", out |-> o]
    BY <1>9, <1>11, ReadOfQuote
  <2>2. Sh!Reading(q2) = [skip |-> TRUE, quoted |-> "no", out |-> o]
    BY <1>11, <2>1, ReadOfQuote
  <2>3. Sh!Reading(q3) = [skip |-> FALSE, quoted |-> "no", out |-> Append(o, "single")]
    BY <1>11, <2>2, ReadOfQuote
  <2>4. PICK x : x = Append(o, "single")
    OBVIOUS
  <2>5. QED BY <1>11, <2>3, <2>4, ReadOfQuote
<1>14. Len(Append(o, "single")) = i + 1 /\ \A j \in 1 .. i + 1 : Append(o, "single")[j] = txt[j]
  BY <1>8, <1>9
<1>15. PICK r4 : r4 = Sh!Reading(q4) /\ r4.skip = FALSE /\ r4.quoted = "single" /\ r4.out = Append(o, "single")
  <2>1. PICK x : x = Append(o, "single")
    OBVIOUS
  <2>2. Sh!Reading(q4) = [skip |-> FALSE, quoted |-> "single", out |-> x]
    BY <1>13, <2>1
  <2>3. PICK y : y = [skip |-> FALSE, quoted |-> "single", out |-> x]
    OBVIOUS
  <2>4. y.skip = FALSE /\ y.quoted = "single" /\ y.out = x
    BY <2>3
  <2>5. QED BY <2>1, <2>2, <2>3, <2>4
<1>16. Literal(q4, txt, i + 1)
  BY <1>5, <1>12, <1>14, <1>15 DEF Literal
<1>17. QED BY <1>6, <1>16


LEMMA QuotedIsLiteral ==
  ASSUME NEW txt \in Seq(Sh!Chars)
  PROVE  Literal(Sh!Quoted(txt)[Len(txt)], txt, Len(txt))
<1> DEFINE N == {i \in Nat : i <= Len(txt) => Literal(Sh!Quoted(txt)[i], txt, i)}
<1>1. PICK g \in [0 .. Len(txt) -> Seq(Sh!Chars)] : g = Sh!Quoted(txt) /\ Along(g, Len(txt), <<"single">>, QuoteStep, txt)
  BY QuotedSteps
<1>2. 0 \in N
  BY <1>1, LiteralFirst DEF Along
<1>3. ASSUME NEW i \in Nat, i \in N PROVE i + 1 \in N
  <2>1. SUFFICES ASSUME i + 1 <= Len(txt) PROVE Literal(g[i + 1], txt, i + 1)
    BY <1>1, <1>3
  <2>2. i + 1 \in 1 .. Len(txt) /\ (i + 1) - 1 = i /\ txt[i + 1] \in Sh!Chars
    BY <1>3, <2>1
  <2>3. Literal(g[i], txt, i) /\ g[i] \in Seq(Sh!Chars)
    BY <1>1, <1>3, <2>1
  <2>4. g[i + 1] = QuoteStep[<<g[i], txt[i + 1]>>]
    BY <1>1, <2>2 DEF Along
  <2>5. g[i + 1] = Extended(g[i], txt[i + 1])
    BY <2>2, <2>3, <2>4 DEF QuoteStep
  <2>6. CASE txt[i + 1] = "single"
    <3>1. g[i + 1] = g[i] \o <<"single", "backslash", "single", "single">>
      BY <2>5, <2>6 DEF Extended, Sh!QuotedChar
    <3>2. QED BY <1>3, <2>2, <2>3, <2>6, <3>1, LiteralQuote
  <2>7. CASE txt[i + 1] # "single"
    <3>1. g[i + 1] = g[i] \o <<txt[i + 1]>>
      BY <2>5, <2>7 DEF Extended, Sh!QuotedChar
    <3>2. QED BY <1>3, <2>2, <2>3, <2>7, <3>1, LiteralPlain
  <2>8. QED BY <2>6, <2>7
<1>4. \A i \in Nat : i \in N
  <2> HIDE DEF N
  <2>1. QED BY <1>2, <1>3, UpFromZero
<1>5. Len(txt) \in N
  BY <1>4
<1>6. QED BY <1>5

(* What bash reads of a quoted text is the text, and the scan finds no chain    *)
(* in it.                                                                     *)
LEMMA QuoteSurvives ==
  ASSUME NEW txt \in Seq(Sh!Chars)
  PROVE  /\ Sh!shellQuote(txt) \in Seq(Sh!Chars) /\ Sh!hasShellChaining(Sh!shellQuote(txt)) = FALSE
         /\ Sh!Reading(Sh!shellQuote(txt)).out = txt /\ Sh!Reading(Sh!shellQuote(txt)).quoted = "no"
<1>1. PICK q : q = Sh!Quoted(txt)[Len(txt)] /\ Literal(q, txt, Len(txt))
  BY QuotedIsLiteral
<1>2. q \in Seq(Sh!Chars) /\ "single" \in Sh!Chars /\ Sh!shellQuote(txt) = Append(q, "single")
  BY <1>1 DEF Literal, Sh!shellQuote, Sh!Chars
<1>3. PICK r \in ReadStates : r = Sh!Reading(q)
  BY <1>2, ReadAppended
<1>4. PICK o \in Seq(Sh!Chars \cup {"active"}) : o = r.out
  BY <1>3 DEF ReadStates
<1>5. r = [skip |-> FALSE, quoted |-> "single", out |-> o]
  BY <1>1, <1>3, <1>4 DEF Literal, ReadStates
<1>6. o = txt
  BY <1>1, <1>3, <1>4 DEF Literal
<1>7. Append(q, "single") \in Seq(Sh!Chars)
  BY <1>2
<1>8. /\ ScanEnd(Append(q, "single")) = Sh!Scan(ScanEnd(q), "single")
      /\ Sh!Reading(Append(q, "single")) = Sh!Read(r, "single")
  BY <1>2, <1>3, ScanAppended, ReadAppended
<1>9. ScanEnd(Append(q, "single")) = ScanFirst
  BY <1>1, <1>8, ScanOfQuote DEF Literal
<1>10. Sh!Reading(Append(q, "single")) = [skip |-> FALSE, quoted |-> "no", out |-> o]
  BY <1>5, <1>8, ReadOfQuote
<1>11. Sh!hasShellChaining(Append(q, "single")) = FALSE
  BY <1>9 DEF ScanEnd, ScanFirst, Sh!hasShellChaining
<1>12. Sh!Reading(Append(q, "single")).out = o /\ Sh!Reading(Append(q, "single")).quoted = "no"
  BY <1>10
<1>13. QED BY <1>2, <1>6, <1>7, <1>11, <1>12

LEMMA ScanFinds ==
  ASSUME NEW txt \in Seq(Sh!Chars)
  PROVE  LET out == Sh!Reading(txt).out
         IN Sh!hasShellChaining(txt) <=> \E i \in DOMAIN out : out[i] = "active"
<1>1. Agree(ScanEnd(txt), Sh!Reading(txt))
  BY ScanAndReadAgree
<1>2. PICK o \in Seq(Sh!Chars \cup {"active"}) : o = Sh!Reading(txt).out
  BY ReadAppended DEF ReadStates
<1>3. ScanEnd(txt).found \in BOOLEAN
  BY ScanAppended DEF ScanStates
<1>4. DOMAIN o = 1 .. Len(o)
  BY <1>2
<1>5. Sh!hasShellChaining(txt) = ScanEnd(txt).found
  BY DEF Sh!hasShellChaining, ScanEnd
<1>6. (ScanEnd(txt).found = TRUE) <=> \E i \in DOMAIN o : o[i] = "active"
  BY <1>1, <1>2, <1>4 DEF Agree, Active
<1>7. QED BY <1>2, <1>3, <1>5, <1>6


(* The lists and the calls: s is shell, A allowlist, L listed, F shellCall and  *)
(* x a call. A run that is calm has no change of the lists beside it, so the   *)
(* lists are what they were when it began.                                     *)
SetCalls == [phase : {"sync", "refresh"}, shell : {"none"}] \cup [phase : {"list"}, shell : Names]
RunPhases == {"bash", "sh", "shell", "cmd", "started", "refused"}
RunCalls == [phase : RunPhases, user : {"bash", "sh"}, by : {"none", "bash", "sh", "cmd"}, word : Words,
             given : Seq(Sh!Chars), text : Seq(Sh!Chars), shell : Names \cup {"none"}, calm : BOOLEAN]

Wrapped(x) ==
  /\ x.phase = "bash" => x.text = x.given
  /\ x.user = "bash" /\ (x.phase \in {"sh", "shell", "cmd", "started"} \/ x.by \in {"sh", "cmd"}) =>
       x.word = "bash" /\ x.text = Sh!shellQuote(x.given)

Steady(x, s, A) ==
  x.calm = TRUE =>
    /\ x.phase = "cmd" => x.shell = s
    /\ x.phase = "refused" => x.by # "cmd" /\ (x.user = "bash" /\ x.by = "sh" => A # {} /\ "bash" \notin A)

RunCall(x, s, A) == x \in RunCalls /\ Wrapped(x) /\ Steady(x, s, A)
CallOK(x, s, A) == x = Sh!Idle \/ x \in SetCalls \/ RunCall(x, s, A)

Sets(x) == x.phase \in {"sync", "refresh", "list"}
Calm(x) == x \in RunCalls /\ x.calm = TRUE

ShellLists ==
  /\ shell \in Names /\ allowlist \subseteq Words /\ userlist \subseteq Words /\ listed \subseteq Names
  /\ text \in Seq(Sh!Chars)

ShellCalls(F, s, A) == F = [c \in Clients |-> F[c]] /\ \A c \in Clients : CallOK(F[c], s, A)

OneSets(F, s, L) ==
  /\ \A c, d \in Clients : Sets(F[c]) /\ Sets(F[d]) => c = d
  /\ (\A c \in Clients : ~Sets(F[c])) => L = {s}
  /\ \A c \in Clients : F[c].phase = "list" => F[c].shell = s

NoneSets(F, crossing) == (\E c \in Clients : Calm(F[c])) => ~crossing /\ \A c \in Clients : ~Sets(F[c])

ShellsInductive ==
  /\ crossed \in BOOLEAN /\ ShellLists /\ ShellCalls(shellCall, shell, allowlist)
  /\ ~crossed => OneSets(shellCall, shell, listed)
  /\ NoneSets(shellCall, crossed)

LEMMA KindsOfCall ==
  /\ ~Sets(Sh!Idle) /\ ~Calm(Sh!Idle) /\ Sh!Idle.phase # "list"
  /\ \A x \in SetCalls : Sets(x) /\ x # Sh!Idle /\ ~Calm(x)
  /\ \A x \in RunCalls : ~Sets(x) /\ x # Sh!Idle /\ x.phase # "list"
<1>1. Sh!Idle.phase = "idle"
  BY DEF Sh!Idle
<1>2. \A x \in SetCalls : x.phase \in {"sync", "refresh", "list"}
  BY DEF SetCalls
<1>3. \A x \in RunCalls : x.phase \in RunPhases
  BY DEF RunCalls
<1>4. QED BY <1>1, <1>2, <1>3 DEF Sets, Calm, RunPhases

LEMMA RunMoves ==
  ASSUME ShellsInductive, NEW c \in Clients, NEW x, CallOK(x, shell, allowlist),
         shellCall' = [shellCall EXCEPT ![c] = x], UNCHANGED <<shell, allowlist, userlist, listed, text, crossed>>,
         ~Sets(x), ~Sets(shellCall[c]),
         Calm(x) => Calm(shellCall[c]) \/ (~crossed /\ \A d \in Clients : ~Sets(shellCall[d]))
  PROVE  ShellsInductive'
<1>1. shellCall = [d \in Clients |-> shellCall[d]] /\ \A d \in Clients : CallOK(shellCall[d], shell, allowlist)
  BY DEF ShellsInductive, ShellCalls
<1>2. /\ shellCall' = [d \in Clients |-> shellCall'[d]] /\ shellCall'[c] = x
      /\ \A d \in Clients : d # c => shellCall'[d] = shellCall[d]
  BY <1>1
<1>3. ShellCalls(shellCall', shell', allowlist')
  BY <1>1, <1>2 DEF ShellCalls
<1>4. \A d \in Clients : Sets(shellCall'[d]) <=> Sets(shellCall[d])
  BY <1>2
<1>5. ~crossed => OneSets(shellCall', shell', listed')
  BY <1>2, <1>4 DEF ShellsInductive, OneSets, Sets
<1>6. NoneSets(shellCall', crossed)
  BY <1>2, <1>4 DEF ShellsInductive, NoneSets
<1>7. QED BY <1>3, <1>5, <1>6 DEF ShellsInductive, ShellLists

LEMMA SetBeginsStep ==
  ASSUME ShellsInductive, NEW c \in Clients, NEW phase \in {"sync", "refresh"}, Sh!SetBegins(c, phase), ShellLists'
  PROVE  ShellsInductive'
<1> DEFINE New == [phase |-> phase, shell |-> "none"]
           Old(d) == IF shellCall[d] = Sh!Idle \/ Sh!Setting(d) THEN shellCall[d] ELSE [shellCall[d] EXCEPT !.calm = FALSE]
<1>1. /\ shellCall' = [d \in Clients |-> IF d = c THEN New ELSE Old(d)]
      /\ crossed' = \E d \in Clients : Sh!Setting(d)
  BY DEF Sh!SetBegins
<1>2. New \in SetCalls
  BY DEF SetCalls
<1>3. ASSUME NEW d \in Clients
      PROVE  CallOK(Old(d), shell', allowlist') /\ ~Calm(Old(d)) /\ (Sets(Old(d)) => Sh!Setting(d))
  <2>1. CallOK(shellCall[d], shell, allowlist)
    BY DEF ShellsInductive, ShellCalls
  <2>2. CASE shellCall[d] = Sh!Idle \/ shellCall[d] \in SetCalls
    <3>1. Old(d) = shellCall[d]
      BY <2>2, KindsOfCall DEF Sh!Setting, Sets
    <3>2. QED BY <2>2, <3>1, KindsOfCall DEF CallOK, Sets, Sh!Setting
  <2>3. CASE RunCall(shellCall[d], shell, allowlist)
    <3>1. PICK x \in RunCalls : x = shellCall[d] /\ Wrapped(x)
      BY <2>3 DEF RunCall
    <3>2. PICK y : y = [x EXCEPT !.calm = FALSE]
      OBVIOUS
    <3>3. Old(d) = y
      BY <3>1, <3>2, KindsOfCall DEF Sh!Setting, Sets
    <3>4. y \in RunCalls /\ y.calm = FALSE /\ y.phase = x.phase /\ y.user = x.user /\ y.by = x.by
          /\ y.word = x.word /\ y.text = x.text /\ y.given = x.given
      BY <3>1, <3>2 DEF RunCalls
    <3>5. Wrapped(y) /\ Steady(y, shell', allowlist')
      BY <3>1, <3>4 DEF Wrapped, Steady
    <3>6. QED BY <3>3, <3>4, <3>5, KindsOfCall DEF CallOK, RunCall, Calm
  <2>4. QED BY <2>1, <2>2, <2>3 DEF CallOK
<1>4. /\ shellCall' = [d \in Clients |-> shellCall'[d]] /\ shellCall'[c] = New
      /\ \A d \in Clients : d # c => shellCall'[d] = Old(d)
  BY <1>1
<1> HIDE DEF New, Old
<1>5. ShellCalls(shellCall', shell', allowlist')
  BY <1>2, <1>3, <1>4 DEF ShellCalls, CallOK
<1>6. NoneSets(shellCall', crossed')
  BY <1>2, <1>3, <1>4, KindsOfCall DEF NoneSets
<1>7. ~crossed' => OneSets(shellCall', shell', listed')
  <2>1. SUFFICES ASSUME \A d \in Clients : ~Sh!Setting(d) PROVE OneSets(shellCall', shell', listed')
    BY <1>1
  <2>2. \A d \in Clients : Sets(shellCall'[d]) <=> d = c
    BY <1>2, <1>3, <1>4, <2>1, KindsOfCall
  <2>3. shellCall'[c].phase # "list"
    BY <1>4 DEF New
  <2>4. QED BY <2>2, <2>3 DEF OneSets, Sets
<1>8. crossed' \in BOOLEAN
  BY <1>1
<1>9. QED BY <1>5, <1>6, <1>7, <1>8 DEF ShellsInductive

\* No run is calm beside a change, so what the change writes is of no account to it.
LEMMA SetMoves ==
  ASSUME ShellsInductive, NEW c \in Clients, Sets(shellCall[c]), NEW x, x \in SetCalls \/ x = Sh!Idle,
         shellCall' = [shellCall EXCEPT ![c] = x], ShellLists', crossed' = crossed,
         ~crossed => OneSets(shellCall', shell', listed')
  PROVE  ShellsInductive'
<1>1. shellCall = [d \in Clients |-> shellCall[d]] /\ \A d \in Clients : CallOK(shellCall[d], shell, allowlist)
  BY DEF ShellsInductive, ShellCalls
<1>2. /\ shellCall' = [d \in Clients |-> shellCall'[d]] /\ shellCall'[c] = x
      /\ \A d \in Clients : d # c => shellCall'[d] = shellCall[d]
  BY <1>1
<1>3. \A d \in Clients : ~Calm(shellCall[d])
  BY DEF ShellsInductive, NoneSets
<1>4. \A d \in Clients : CallOK(shellCall[d], shell', allowlist')
  BY <1>1, <1>3 DEF CallOK, RunCall, Steady, Calm
<1>5. ShellCalls(shellCall', shell', allowlist')
  BY <1>2, <1>4 DEF ShellCalls, CallOK
<1>6. NoneSets(shellCall', crossed')
  BY <1>2, <1>3, KindsOfCall DEF NoneSets
<1>7. QED BY <1>5, <1>6 DEF ShellsInductive


LEMMA ChangeSteps ==
  ASSUME Sh!ShellAssumption, ShellsInductive, NEW c \in Clients
  PROVE  /\ \A name \in Names : Sh!SetShell(c, name) => ShellsInductive'
         /\ \A words \in SUBSET Words : Sh!SetAllowed(c, words) \/ Sh!BashSetAllowed(c, words) => ShellsInductive'
         /\ Sh!syncUnderlyingAllowlist(c) \/ Sh!RefreshReads(c) \/ Sh!SetAllowlist(c) => ShellsInductive'
<1>1. ASSUME NEW name \in Names, Sh!SetShell(c, name) PROVE ShellsInductive'
  BY <1>1, SetBeginsStep DEF Sh!SetShell, ShellsInductive, ShellLists
<1>2. ASSUME NEW words \in SUBSET Words, Sh!SetAllowed(c, words) \/ Sh!BashSetAllowed(c, words) PROVE ShellsInductive'
  BY <1>2, SetBeginsStep DEF Sh!SetAllowed, Sh!BashSetAllowed, ShellsInductive, ShellLists
<1>3. ASSUME Sh!syncUnderlyingAllowlist(c) \/ Sh!RefreshReads(c) \/ Sh!SetAllowlist(c) PROVE ShellsInductive'
  <2>1. shellCall[c].phase \in {"sync", "refresh", "list"} /\ Sets(shellCall[c])
    BY <1>3 DEF Sh!syncUnderlyingAllowlist, Sh!RefreshReads, Sh!SetAllowlist, Sets
  <2>2. CallOK(shellCall[c], shell, allowlist) /\ shellCall = [d \in Clients |-> shellCall[d]]
    BY DEF ShellsInductive, ShellCalls
  <2>3. PICK y \in SetCalls : y = shellCall[c]
    BY <2>1, <2>2, KindsOfCall DEF CallOK, RunCall
  <2>4. (y.phase \in {"sync", "refresh"} /\ y.shell = "none") \/ (y.phase = "list" /\ y.shell \in Names)
    BY <2>3 DEF SetCalls
  <2>5. CASE Sh!syncUnderlyingAllowlist(c)
    <3>1. PICK x : x = [phase |-> "refresh", shell |-> "none"]
      OBVIOUS
    <3>2. shellCall' = [shellCall EXCEPT ![c] = x]
      <4>1. shellCall' = [shellCall EXCEPT ![c].phase = "refresh"] /\ y.phase = "sync"
        BY <2>3, <2>5 DEF Sh!syncUnderlyingAllowlist, Sh!Goto
      <4>2. [y EXCEPT !.phase = "refresh"] = x
        BY <2>3, <2>4, <3>1, <4>1 DEF SetCalls
      <4>3. QED BY <2>2, <2>3, <4>1, <4>2
    <3>3. ShellLists' /\ UNCHANGED <<shell, listed, crossed>> /\ x \in SetCalls
      BY <2>5, <3>1 DEF Sh!syncUnderlyingAllowlist, ShellsInductive, ShellLists, Sh!ShellAssumption, SetCalls
    <3>4. ~crossed => OneSets(shellCall', shell, listed)
      <4>1. shellCall'[c] = x /\ \A d \in Clients : d # c => shellCall'[d] = shellCall[d]
        BY <2>2, <3>2
      <4>2. Sets(x) /\ x.phase # "list"
        BY <3>1 DEF Sets
      <4>3. QED BY <2>1, <4>1, <4>2 DEF ShellsInductive, OneSets
    <3>5. QED BY <2>1, <3>2, <3>3, <3>4, SetMoves
  <2>6. CASE Sh!RefreshReads(c)
    <3>1. PICK x : x = [phase |-> "list", shell |-> shell]
      OBVIOUS
    <3>2. shellCall' = [shellCall EXCEPT ![c] = x]
      <4>1. shellCall' = [shellCall EXCEPT ![c].phase = "list", ![c].shell = shell] /\ y.phase = "refresh"
        BY <2>3, <2>6 DEF Sh!RefreshReads
      <4>2. y \in [phase : {"sync", "refresh"}, shell : {"none"}]
        BY <2>3, <4>1 DEF SetCalls
      <4>3. [y EXCEPT !.phase = "list", !.shell = shell] = x
        <5>1. PICK s : s = shell
          OBVIOUS
        <5>2. [y EXCEPT !.phase = "list"] = [phase |-> "list", shell |-> "none"]
          BY ONLY <4>2
        <5>3. [[phase |-> "list", shell |-> "none"] EXCEPT !.shell = s] = [phase |-> "list", shell |-> s]
          OBVIOUS
        <5>4. [y EXCEPT !.phase = "list", !.shell = s] = [phase |-> "list", shell |-> s]
          BY ONLY <5>2, <5>3, Zenon
        <5>5. QED BY <3>1, <5>1, <5>4
      <4>4. QED BY <2>2, <2>3, <4>1, <4>3
    <3>3. ShellLists' /\ UNCHANGED <<shell, listed, crossed>> /\ x \in SetCalls
      BY <2>6, <3>1 DEF Sh!RefreshReads, Sh!lists, ShellsInductive, ShellLists, SetCalls
    <3>4. ~crossed => OneSets(shellCall', shell, listed)
      <4>1. shellCall'[c] = x /\ \A d \in Clients : d # c => shellCall'[d] = shellCall[d]
        BY <2>2, <3>2
      <4>2. Sets(x) /\ x.shell = shell
        BY <3>1 DEF Sets
      <4>3. QED BY <2>1, <4>1, <4>2 DEF ShellsInductive, OneSets
    <3>5. QED BY <2>1, <3>2, <3>3, <3>4, SetMoves
  <2>7. CASE Sh!SetAllowlist(c)
    <3>1. /\ shellCall' = [shellCall EXCEPT ![c] = Sh!Idle] /\ y.phase = "list" /\ y.shell \in Names
          /\ listed' = {y.shell} /\ UNCHANGED <<shell, allowlist, userlist, text, crossed>>
      BY <2>3, <2>4, <2>7 DEF Sh!SetAllowlist, Sh!Refreshed
    <3>2. ShellLists'
      BY <3>1 DEF ShellsInductive, ShellLists
    <3>3. ~crossed => OneSets(shellCall', shell, listed')
      <4>1. shellCall'[c] = Sh!Idle /\ \A d \in Clients : d # c => shellCall'[d] = shellCall[d]
        BY <2>2, <3>1
      <4>2. QED BY <2>1, <2>3, <3>1, <4>1, KindsOfCall DEF ShellsInductive, OneSets
    <3>4. QED BY <2>1, <3>1, <3>2, <3>3, SetMoves
  <2>8. QED BY <1>3, <2>5, <2>6, <2>7
<1>4. QED BY <1>1, <1>2, <1>3

\* The run of c is x before its step.
LEMMA RunUnderWay ==
  ASSUME ShellsInductive, NEW c \in Clients, shellCall[c].phase \in RunPhases
  PROVE  /\ shellCall[c] \in RunCalls /\ RunCall(shellCall[c], shell, allowlist) /\ ~Sets(shellCall[c])
         /\ shellCall = [d \in Clients |-> shellCall[d]]
<1>1. CallOK(shellCall[c], shell, allowlist) /\ shellCall = [d \in Clients |-> shellCall[d]]
  BY DEF ShellsInductive, ShellCalls
<1>2. shellCall[c] # Sh!Idle /\ shellCall[c] \notin SetCalls
  BY DEF SetCalls, Sh!Idle, RunPhases
<1>3. QED BY <1>1, <1>2, KindsOfCall DEF CallOK, RunCall

LEMMA RunBeginsStep ==
  ASSUME ShellsInductive, NEW c \in Clients, NEW user \in {"bash", "sh"}, NEW word \in Words,
         NEW given \in Seq(Sh!Chars), Sh!RunBegins(c, user, word, given)
  PROVE  ShellsInductive'
<1>1. PICK calm \in BOOLEAN : calm = (~crossed /\ \A d \in Clients : ~Sh!Setting(d))
  OBVIOUS
<1>2. PICK x : x = [phase |-> user, user |-> user, by |-> "none", word |-> word,
                    given |-> given, text |-> given, shell |-> "none", calm |-> calm]
  OBVIOUS
<1>3. shellCall[c] = Sh!Idle /\ shellCall' = [shellCall EXCEPT ![c] = x]
      /\ UNCHANGED <<shell, allowlist, userlist, listed, text, crossed>>
  BY <1>1, <1>2 DEF Sh!RunBegins, Sh!lists
<1>4. x \in RunCalls /\ x.phase = user /\ x.user = user /\ x.by = "none" /\ x.word = word /\ x.given = given /\ x.text = given
      /\ x.calm = calm
  BY <1>1, <1>2 DEF RunCalls, RunPhases
<1>5. CASE user = "bash"
  <2>1. Wrapped(x) /\ Steady(x, shell, allowlist)
    BY <1>4, <1>5 DEF Wrapped, Steady
  <2>2. CallOK(x, shell, allowlist) /\ ~Sets(x) /\ ~Sets(shellCall[c])
    BY <1>3, <1>4, <2>1, KindsOfCall DEF CallOK, RunCall
  <2>3. QED BY <1>1, <1>3, <1>4, <2>2, RunMoves DEF Calm, Sets, Sh!Setting
<1>6. CASE user = "sh"
  <2>1. Wrapped(x) /\ Steady(x, shell, allowlist)
    BY <1>4, <1>6 DEF Wrapped, Steady
  <2>2. CallOK(x, shell, allowlist) /\ ~Sets(x) /\ ~Sets(shellCall[c])
    BY <1>3, <1>4, <2>1, KindsOfCall DEF CallOK, RunCall
  <2>3. QED BY <1>1, <1>3, <1>4, <2>2, RunMoves DEF Calm, Sets, Sh!Setting
<1>7. QED BY <1>5, <1>6

\* A run goes on, with its calm.
LEMMA RunGoesOn ==
  ASSUME ShellsInductive, NEW c \in Clients, shellCall[c].phase \in RunPhases, NEW x, x \in RunCalls,
         x.calm = shellCall[c].calm, Wrapped(x), Steady(x, shell, allowlist),
         shellCall' = [shellCall EXCEPT ![c] = x], UNCHANGED Sh!lists, crossed' = crossed
  PROVE  ShellsInductive'
<1>1. shellCall[c] \in RunCalls /\ ~Sets(shellCall[c])
  BY RunUnderWay
<1>2. CallOK(x, shell, allowlist) /\ ~Sets(x) /\ (Calm(x) => Calm(shellCall[c]))
  BY <1>1, KindsOfCall DEF CallOK, RunCall, Calm
<1>3. QED BY <1>1, <1>2, RunMoves DEF Sh!lists

LEMMA RunSteps ==
  ASSUME Sh!ShellAssumption, ShellsInductive, NEW c \in Clients,
         Sh!checkInner(c) \/ Sh!matchInner(c) \/ Sh!ReadShell(c) \/ Sh!CmdCommand(c) \/ Sh!Return(c)
  PROVE  ShellsInductive'
<1>1. shellCall[c].phase \in RunPhases /\ UNCHANGED Sh!lists /\ crossed' = crossed
  BY DEF Sh!checkInner, Sh!matchInner, Sh!ReadShell, Sh!CmdCommand, Sh!Return, RunPhases
<1>2. PICK y \in RunCalls : y = shellCall[c] /\ RunCall(y, shell, allowlist) /\ ~Sets(y)
  BY <1>1, RunUnderWay
<1>3. Wrapped(y) /\ Steady(y, shell, allowlist) /\ shellCall = [d \in Clients |-> shellCall[d]]
  BY <1>1, <1>2, RunUnderWay DEF RunCall
<1>4. ASSUME NEW phase \in RunPhases, NEW x, x = [y EXCEPT !.phase = phase]
      PROVE  /\ x \in RunCalls /\ x.calm = y.calm /\ x.phase = phase /\ x.by = y.by /\ x.user = y.user
             /\ x.word = y.word /\ x.text = y.text /\ x.given = y.given /\ x.shell = y.shell
  BY <1>2, <1>4 DEF RunCalls
<1>5. ASSUME NEW by \in {"bash", "sh", "cmd"}, NEW x, x = [y EXCEPT !.phase = "refused", !.by = by]
      PROVE  /\ x \in RunCalls /\ x.calm = y.calm /\ x.phase = "refused" /\ x.by = by /\ x.user = y.user
             /\ x.word = y.word /\ x.text = y.text /\ x.given = y.given
  BY <1>2, <1>5 DEF RunCalls, RunPhases
<1>6. CASE Sh!checkInner(c)
  <2>1. y.phase = "bash" /\ y.text = y.given /\ y.given \in Seq(Sh!Chars)
    BY <1>2, <1>3, <1>6 DEF Sh!checkInner, Wrapped, RunCalls
  <2>2. CASE Sh!Refuse(c, "bash")
    <3>1. PICK x : x = [y EXCEPT !.phase = "refused", !.by = "bash"]
      OBVIOUS
    <3>2. shellCall' = [shellCall EXCEPT ![c] = x]
      BY <1>2, <1>3, <2>2, <3>1 DEF Sh!Refuse
    <3>3. Wrapped(x) /\ Steady(x, shell, allowlist)
      BY <1>5, <3>1 DEF Wrapped, Steady
    <3>4. x \in RunCalls /\ x.calm = y.calm
      BY <1>5, <3>1
    <3>5. QED BY <1>1, <1>2, <3>2, <3>3, <3>4, RunGoesOn
  <2>3. CASE shellCall' = [shellCall EXCEPT ![c].phase = "sh", ![c].word = "bash", ![c].text = Sh!shellQuote(@)]
    <3>1. PICK q \in Seq(Sh!Chars) : q = Sh!shellQuote(y.given)
      BY <2>1, QuoteSurvives
    <3>2. PICK x : x = [y EXCEPT !.phase = "sh", !.word = "bash", !.text = q]
      OBVIOUS
    <3>3. shellCall' = [shellCall EXCEPT ![c] = x]
      BY <1>2, <1>3, <2>1, <2>3, <3>1, <3>2
    <3>4. x \in RunCalls /\ x.calm = y.calm /\ x.phase = "sh" /\ x.word = "bash" /\ x.text = q /\ x.given = y.given
      BY <1>2, <3>1, <3>2 DEF RunCalls, RunPhases, Sh!ShellAssumption
    <3>5. Wrapped(x) /\ Steady(x, shell, allowlist)
      BY <3>1, <3>4 DEF Wrapped, Steady
    <3>6. QED BY <1>1, <1>2, <3>3, <3>4, <3>5, RunGoesOn
  <2>4. QED BY <1>6, <2>2, <2>3 DEF Sh!checkInner
<1>7. CASE Sh!matchInner(c)
  <2>1. y.phase = "sh"
    BY <1>2, <1>7 DEF Sh!matchInner
  <2>2. CASE Sh!Goto(c, "shell")
    <3>1. PICK x : x = [y EXCEPT !.phase = "shell"]
      OBVIOUS
    <3>2. shellCall' = [shellCall EXCEPT ![c] = x]
      BY <1>2, <1>3, <2>2, <3>1 DEF Sh!Goto
    <3>3. "shell" \in RunPhases
      BY DEF RunPhases
    <3>4. Wrapped(x) /\ Steady(x, shell, allowlist)
      BY <1>3, <1>4, <2>1, <3>1, <3>3 DEF Wrapped, Steady
    <3>5. x \in RunCalls /\ x.calm = y.calm
      BY <1>4, <3>1, <3>3
    <3>6. QED BY <1>1, <1>2, <3>2, <3>4, <3>5, RunGoesOn
  <2>3. CASE Sh!Refuse(c, "sh") /\ ~Sh!Admits(allowlist, y.word, y.text)
    <3>1. PICK x : x = [y EXCEPT !.phase = "refused", !.by = "sh"]
      OBVIOUS
    <3>2. shellCall' = [shellCall EXCEPT ![c] = x]
      BY <1>2, <1>3, <2>3, <3>1 DEF Sh!Refuse
    <3>3. y.user = "bash" => allowlist # {} /\ "bash" \notin allowlist
      <4>1. y.given \in Seq(Sh!Chars)
        BY <1>2 DEF RunCalls
      <4>2. y.user = "bash" => y.word = "bash" /\ y.text = Sh!shellQuote(y.given)
        BY <1>3, <2>1 DEF Wrapped
      <4>3. QED BY <2>3, <4>1, <4>2, QuoteSurvives DEF Sh!Admits
    <3>4. Wrapped(x)
      BY <1>3, <1>5, <2>1, <3>1 DEF Wrapped
    <3>5. Steady(x, shell, allowlist)
      BY <1>5, <3>1, <3>3 DEF Steady
    <3>6. x \in RunCalls /\ x.calm = y.calm
      BY <1>5, <3>1
    <3>7. QED BY <1>1, <1>2, <3>2, <3>4, <3>5, <3>6, RunGoesOn
  <2>4. QED BY <1>2, <1>7, <2>2, <2>3 DEF Sh!matchInner
<1>8. CASE Sh!ReadShell(c)
  <2>1. PICK x : x = [y EXCEPT !.phase = "cmd", !.shell = shell]
    OBVIOUS
  <2>2. shellCall' = [shellCall EXCEPT ![c] = x] /\ y.phase = "shell"
    BY <1>2, <1>3, <1>8, <2>1 DEF Sh!ReadShell
  <2>3. /\ x \in RunCalls /\ x.calm = y.calm /\ x.phase = "cmd" /\ x.by = y.by /\ x.user = y.user
        /\ x.word = y.word /\ x.text = y.text /\ x.given = y.given /\ x.shell = shell
    BY <1>2, <2>1 DEF RunCalls, RunPhases, ShellsInductive, ShellLists
  <2>4. Wrapped(x) /\ Steady(x, shell, allowlist)
    BY <1>3, <2>2, <2>3 DEF Wrapped, Steady
  <2>5. QED BY <1>1, <1>2, <2>2, <2>3, <2>4, RunGoesOn
<1>9. CASE Sh!CmdCommand(c)
  <2>1. y.phase = "cmd"
    BY <1>2, <1>9 DEF Sh!CmdCommand
  <2>2. CASE Sh!Goto(c, "started")
    <3>1. PICK x : x = [y EXCEPT !.phase = "started"]
      OBVIOUS
    <3>2. shellCall' = [shellCall EXCEPT ![c] = x]
      BY <1>2, <1>3, <2>2, <3>1 DEF Sh!Goto
    <3>3. "started" \in RunPhases
      BY DEF RunPhases
    <3>4. Wrapped(x) /\ Steady(x, shell, allowlist)
      BY <1>3, <1>4, <2>1, <3>1, <3>3 DEF Wrapped, Steady
    <3>5. x \in RunCalls /\ x.calm = y.calm
      BY <1>4, <3>1, <3>3
    <3>6. QED BY <1>1, <1>2, <3>2, <3>4, <3>5, RunGoesOn
  <2>3. CASE Sh!Refuse(c, "cmd") /\ y.shell \notin listed
    <3>1. PICK x : x = [y EXCEPT !.phase = "refused", !.by = "cmd"]
      OBVIOUS
    <3>2. shellCall' = [shellCall EXCEPT ![c] = x]
      BY <1>2, <1>3, <2>3, <3>1 DEF Sh!Refuse
    <3>3. ~(y.calm = TRUE)
      <4>1. SUFFICES ASSUME y.calm = TRUE PROVE FALSE
        OBVIOUS
      <4>2. y.shell = shell /\ Calm(shellCall[c])
        BY <1>2, <1>3, <2>1, <4>1 DEF Steady, Calm
      <4>3. ~crossed /\ \A d \in Clients : ~Sets(shellCall[d])
        BY <4>2 DEF ShellsInductive, NoneSets
      <4>4. listed = {shell}
        BY <4>3 DEF ShellsInductive, OneSets
      <4>5. QED BY <2>3, <4>2, <4>4
    <3>4. Wrapped(x)
      BY <1>3, <1>5, <2>1, <3>1 DEF Wrapped
    <3>5. Steady(x, shell, allowlist)
      BY <1>5, <3>1, <3>3 DEF Steady
    <3>6. x \in RunCalls /\ x.calm = y.calm
      BY <1>5, <3>1
    <3>7. QED BY <1>1, <1>2, <3>2, <3>4, <3>5, <3>6, RunGoesOn
  <2>4. QED BY <1>2, <1>9, <2>2, <2>3 DEF Sh!CmdCommand
<1>10. CASE Sh!Return(c)
  <2>1. shellCall' = [shellCall EXCEPT ![c] = Sh!Idle]
    BY <1>10 DEF Sh!Return
  <2>2. QED BY <1>1, <1>2, <2>1, KindsOfCall, RunMoves DEF Sh!lists, CallOK
<1>11. QED BY <1>6, <1>7, <1>8, <1>9, <1>10


LEMMA ShellsInit ==
  ASSUME Sh!ShellAssumption, Sh!Init
  PROVE  ShellsInductive
<1>1. /\ shell = "sh" /\ allowlist = {"bash"} /\ userlist = {} /\ listed = {"sh"} /\ crossed = FALSE
      /\ shellCall = [c \in Clients |-> Sh!Idle] /\ text \in Sh!Texts \cup {<<>>}
  BY DEF Sh!Init
<1>2. text \in Seq(Sh!Chars)
  <2>1. CASE text = <<>>
    BY <2>1
  <2>2. CASE text \in Sh!Texts
    <3>1. PICK n \in 1 .. MaxText : text \in [1 .. n -> Sh!Chars]
      BY <2>2 DEF Sh!Texts
    <3>2. n \in Nat
      BY <3>1 DEF Sh!ShellAssumption
    <3>3. QED BY <3>1, <3>2
  <2>3. QED BY <1>1, <2>1, <2>2
<1>3. ShellLists
  BY <1>1, <1>2 DEF ShellLists, Sh!ShellAssumption
<1>4. ShellCalls(shellCall, shell, allowlist)
  BY <1>1 DEF ShellCalls, CallOK
<1>5. OneSets(shellCall, shell, listed)
  BY <1>1, KindsOfCall DEF OneSets
<1>6. NoneSets(shellCall, crossed)
  BY <1>1, KindsOfCall DEF NoneSets
<1>7. QED BY <1>1, <1>3, <1>4, <1>5, <1>6 DEF ShellsInductive

LEMMA ShellsStep ==
  ASSUME Sh!ShellAssumption, ShellsInductive, Sh!Next
  PROVE  ShellsInductive'
<1>1. PICK c \in Clients : Sh!Client(c)
  BY DEF Sh!Next
<1>2. CASE \E user \in {"bash", "sh"}, word \in Words, given \in Sh!Usual \cup {text} : Sh!RunBegins(c, user, word, given)
  <2>1. PICK user \in {"bash", "sh"}, word \in Words, given \in Sh!Usual \cup {text} : Sh!RunBegins(c, user, word, given)
    BY <1>2
  <2>2. Sh!Usual \subseteq Seq(Sh!Chars)
    BY DEF Sh!Usual, Sh!Chars
  <2>3. given \in Seq(Sh!Chars)
    BY <2>1, <2>2 DEF ShellsInductive, ShellLists
  <2>4. QED BY <2>1, <2>3, RunBeginsStep
<1>3. CASE \E name \in Names : Sh!SetShell(c, name)
  BY <1>3, ChangeSteps
<1>4. CASE \E words \in SUBSET Words : Sh!SetAllowed(c, words) \/ Sh!BashSetAllowed(c, words)
  BY <1>4, ChangeSteps
<1>5. CASE Sh!syncUnderlyingAllowlist(c) \/ Sh!RefreshReads(c) \/ Sh!SetAllowlist(c)
  BY <1>5, ChangeSteps
<1>6. CASE Sh!checkInner(c) \/ Sh!matchInner(c) \/ Sh!ReadShell(c) \/ Sh!CmdCommand(c) \/ Sh!Return(c)
  BY <1>6, RunSteps
<1>7. QED BY <1>1, <1>2, <1>3, <1>4, <1>5, <1>6 DEF Sh!Client

LEMMA ShellsRest ==
  ASSUME ShellsInductive, UNCHANGED Sh!vars
  PROVE  ShellsInductive'
<1>1. UNCHANGED <<shell, allowlist, userlist, listed, text, shellCall, crossed>>
  BY DEF Sh!vars
<1>2. QED BY <1>1 DEF ShellsInductive, ShellLists

LEMMA ShellsSound ==
  ASSUME ShellsInductive
  PROVE  Sh!TypeOK /\ Sh!ShellsHold
<1>1. Sh!TypeOK
  BY DEF ShellsInductive, ShellLists, Sh!TypeOK
<1>2. Sh!ShellListed
  BY DEF ShellsInductive, OneSets, Sets, Sh!ShellListed, Sh!Setting
<1>3. ASSUME NEW c \in Clients, shellCall[c].phase \in RunPhases
      PROVE  shellCall[c] \in RunCalls /\ Wrapped(shellCall[c]) /\ Steady(shellCall[c], shell, allowlist)
  BY <1>3, RunUnderWay DEF RunCall
<1>4. Sh!AdmittedIsStarted
  <2>1. SUFFICES ASSUME NEW c \in Clients, shellCall[c].phase = "refused", shellCall[c].calm
                 PROVE  /\ shellCall[c].by # "cmd"
                        /\ shellCall[c].user = "bash" /\ shellCall[c].by = "sh" => allowlist # {} /\ "bash" \notin allowlist
    BY DEF Sh!AdmittedIsStarted
  <2>2. PICK x \in RunCalls : x = shellCall[c] /\ Steady(x, shell, allowlist)
    BY <1>3, <2>1 DEF RunPhases
  <2>3. x.calm \in BOOLEAN
    BY <2>2 DEF RunCalls
  <2>4. x.calm = TRUE
    BY <2>1, <2>2, <2>3
  <2>5. QED BY <2>1, <2>2, <2>4 DEF Steady
<1>5. Sh!TextSurvives
  <2>1. SUFFICES ASSUME NEW c \in Sh!Running, shellCall[c].user = "bash",
                        shellCall[c].phase \in {"sh", "shell", "cmd", "started"}
                 PROVE  /\ Sh!Reading(shellCall[c].text).out = shellCall[c].given
                        /\ Sh!Reading(shellCall[c].text).quoted = "no"
    BY DEF Sh!TextSurvives
  <2>2. c \in Clients /\ shellCall[c].phase \in RunPhases
    BY <2>1 DEF Sh!Running, RunPhases
  <2>3. PICK x \in RunCalls : x = shellCall[c] /\ Wrapped(x)
    BY <1>3, <2>2
  <2>4. x.text = Sh!shellQuote(x.given) /\ x.given \in Seq(Sh!Chars)
    BY <2>1, <2>3 DEF Wrapped, RunCalls
  <2>5. QED BY <2>3, <2>4, QuoteSurvives
<1>6. Sh!ScanAgrees
  <2>1. ASSUME NEW c \in Sh!Running PROVE shellCall[c].given \in Seq(Sh!Chars)
    <3>1. c \in Clients /\ shellCall[c].phase \in RunPhases
      BY <2>1 DEF Sh!Running, RunPhases
    <3>2. PICK x \in RunCalls : x = shellCall[c]
      BY <1>3, <3>1
    <3>3. QED BY <3>2 DEF RunCalls
  <2>2. QED BY <2>1, ScanFinds DEF Sh!ScanAgrees
<1>7. QED BY <1>1, <1>2, <1>4, <1>5, <1>6 DEF Sh!ShellsHold

(* Shells: with no change of a list under way the shell in force is the one   *)
(* CmdAbility starts; a run that no change disturbs is refused below Bash only *)
(* by a list of ShAbility that keeps bash out; and whatever the text, of any   *)
(* length, bash reads it as it was given and the scan finds a metacharacter    *)
(* just when a shell would see one outside quotes.                            *)
THEOREM ShellsAlwaysHold == Spec => []ShellsHold
<1> USE PartsAssumption
<1>1. Init => ShellsInductive
  BY ShellsInit DEF Init, Rest
<1>2. ShellsInductive /\ [Next]_vars => ShellsInductive'
  <2> SUFFICES ASSUME ShellsInductive, [Next]_vars PROVE ShellsInductive'
    OBVIOUS
  <2>1. Sh!Next \/ UNCHANGED Sh!vars
    BY OneMoves DEF shellsVars, Sh!vars
  <2>2. CASE UNCHANGED Sh!vars
    BY <2>2, ShellsRest
  <2>3. QED BY <2>1, <2>2, ShellsStep
<1>3. ShellsInductive => ShellsHold
  BY ShellsSound DEF ShellsHold
<1>4. QED BY <1>1, <1>2, <1>3, PTL DEF Spec

-----------------------------------------------------------------------------
(* dependencyOrder. S are the items and D what they depend on; L, R, M, K and *)
(* O are left, rest, mark, stack and ordered. What a visit has seen of a       *)
(* component's dependencies is ordered, but for the one it is visiting.        *)
WalkTyped(S, L, R, M, K, O) ==
  L \subseteq S /\ R \in [S -> SUBSET S] /\ M \in [S -> 0 .. 2] /\ K \in Seq(S) /\ O \in Seq(S)

In(s, k) == \E i \in 1 .. Len(s) : s[i] = k
NoTwice(s) == \A i, j \in 1 .. Len(s) : s[i] = s[j] => i = j

MarksTell(S, M, K, O) ==
  /\ \A k \in S : (M[k] = 1 <=> In(K, k)) /\ (M[k] = 2 <=> In(O, k))
  /\ NoTwice(K) /\ NoTwice(O)

PathOf(D, K) == \A i \in 1 .. Len(K) - 1 : K[i + 1] \in D[K[i]]
Behind(D, O) == \A i \in 1 .. Len(O) : \A d \in D[O[i]] : \E j \in 1 .. i - 1 : O[j] = d

SeenOf(D, R, M, K) ==
  \A i \in 1 .. Len(K) : \A d \in D[K[i]] \ R[K[i]] : M[d] = 2 \/ (i < Len(K) /\ K[i + 1] = d)

Walk(S, D, L, R, M, K, O) ==
  /\ WalkTyped(S, L, R, M, K, O) /\ MarksTell(S, M, K, O)
  /\ PathOf(D, K) /\ Behind(D, O) /\ SeenOf(D, R, M, K)
  /\ \A k \in S : M[k] = 0 => R[k] = D[k] /\ k \in L

(* k is taken out of the loop that runs.                                      *)
Taken(S, D, L, R, K, k, L2, R2) ==
  /\ k \in S /\ L2 \subseteq L /\ L \ L2 \subseteq {k} /\ R2 \in [S -> SUBSET S]
  /\ \A x \in S : R2[x] = R[x] \/ (Len(K) > 0 /\ x = K[Len(K)] /\ R2[x] = R[x] \ {k})
  /\ Len(K) > 0 => k \in D[K[Len(K)]]

LEMMA Lengthened ==
  ASSUME NEW S, NEW s \in Seq(S), NEW k \in S
  PROVE  /\ Append(s, k) \in Seq(S) /\ Len(s) \in Nat /\ Len(Append(s, k)) = Len(s) + 1
         /\ Append(s, k)[Len(s) + 1] = k /\ \A i \in 1 .. Len(s) : Append(s, k)[i] = s[i]
OBVIOUS

LEMMA InLengthened ==
  ASSUME NEW S, NEW s \in Seq(S), NEW k \in S
  PROVE  /\ \A x : In(Append(s, k), x) <=> In(s, x) \/ x = k
         /\ NoTwice(s) /\ ~In(s, k) => NoTwice(Append(s, k))
<1>1. /\ Len(s) \in Nat /\ Len(Append(s, k)) = Len(s) + 1 /\ Append(s, k)[Len(s) + 1] = k
      /\ \A i \in 1 .. Len(s) : Append(s, k)[i] = s[i]
  BY Lengthened
<1>2. \A i \in 1 .. Len(s) + 1 : i \in 1 .. Len(s) \/ i = Len(s) + 1
  BY <1>1
<1>3. \A i \in 1 .. Len(s) : i \in 1 .. Len(s) + 1
  BY <1>1
<1>4. Len(s) + 1 \in 1 .. Len(s) + 1
  BY <1>1
<1>5. \A x : In(Append(s, k), x) <=> In(s, x) \/ x = k
  BY <1>1, <1>2, <1>3, <1>4 DEF In
<1>6. NoTwice(s) /\ ~In(s, k) => NoTwice(Append(s, k))
  BY <1>1, <1>2, <1>3, <1>4 DEF In, NoTwice
<1>7. QED BY <1>5, <1>6

LEMMA WalkSkips ==
  ASSUME NEW S, NEW D \in [S -> SUBSET S], NEW L, NEW R, NEW M, NEW K, NEW O, Walk(S, D, L, R, M, K, O),
         NEW k, NEW L2, NEW R2, Taken(S, D, L, R, K, k, L2, R2), M[k] = 2
  PROVE  Walk(S, D, L2, R2, M, K, O)
<1>1. WalkTyped(S, L2, R2, M, K, O)
  BY DEF Walk, WalkTyped, Taken
<1>2. Len(K) \in Nat /\ \A i \in 1 .. Len(K) : K[i] \in S
  BY DEF Walk, WalkTyped
<1>3. SeenOf(D, R2, M, K)
  <2>1. SUFFICES ASSUME NEW i \in 1 .. Len(K), NEW d \in D[K[i]] \ R2[K[i]]
                 PROVE  M[d] = 2 \/ (i < Len(K) /\ K[i + 1] = d)
    BY DEF SeenOf
  <2>2. d \notin R[K[i]] \/ d = k
    BY <1>2, <2>1 DEF Taken
  <2>3. QED BY <2>1, <2>2 DEF Walk, SeenOf
<1>4. ASSUME NEW x \in S, M[x] = 0 PROVE R2[x] = D[x] /\ x \in L2
  <2>1. ~In(K, x) /\ x # k
    BY <1>4 DEF Walk, MarksTell, WalkTyped
  <2>2. Len(K) > 0 => x # K[Len(K)]
    BY <1>2, <2>1 DEF In
  <2>3. QED BY <1>4, <2>1, <2>2 DEF Walk, Taken
<1>5. QED BY <1>1, <1>3, <1>4 DEF Walk

LEMMA WalkEnters ==
  ASSUME NEW S, NEW D \in [S -> SUBSET S], NEW L, NEW R, NEW M, NEW K, NEW O, Walk(S, D, L, R, M, K, O),
         NEW k, NEW L2, NEW R2, Taken(S, D, L, R, K, k, L2, R2), M[k] = 0
  PROVE  Walk(S, D, L2, R2, [M EXCEPT ![k] = 1], Append(K, k), O)
<1>1. /\ L \subseteq S /\ M \in [S -> 0 .. 2] /\ K \in Seq(S) /\ O \in Seq(S) /\ k \in S
      /\ MarksTell(S, M, K, O) /\ PathOf(D, K) /\ SeenOf(D, R, M, K)
  BY DEF Walk, WalkTyped, Taken
<1>2. PICK N : N = [M EXCEPT ![k] = 1]
  OBVIOUS
<1>3. N \in [S -> 0 .. 2] /\ N[k] = 1 /\ \A x \in S \ {k} : N[x] = M[x]
  BY <1>1, <1>2
<1>4. PICK P \in Seq(S) : P = Append(K, k)
  BY <1>1, Lengthened
<1>5. /\ Len(K) \in Nat /\ Len(P) = Len(K) + 1 /\ P[Len(K) + 1] = k
      /\ \A i \in 1 .. Len(K) : P[i] = K[i] /\ K[i] \in S
  BY <1>1, <1>4, Lengthened
<1>6. ~In(K, k) /\ ~In(O, k)
  BY <1>1 DEF MarksTell
<1>7. WalkTyped(S, L2, R2, N, P, O)
  BY <1>1, <1>3, <1>4 DEF WalkTyped, Taken
<1>8. MarksTell(S, N, P, O)
  <2>1. (\A x : In(P, x) <=> In(K, x) \/ x = k) /\ NoTwice(P)
    BY <1>1, <1>4, <1>6, InLengthened DEF MarksTell
  <2>2. QED BY <1>1, <1>3, <1>6, <2>1 DEF MarksTell
<1>9. PathOf(D, P)
  <2>1. SUFFICES ASSUME NEW i \in 1 .. Len(K) PROVE P[i + 1] \in D[P[i]]
    BY <1>5 DEF PathOf
  <2>2. CASE i = Len(K)
    BY <1>5, <2>2 DEF Taken
  <2>3. CASE i # Len(K)
    <3>1. i \in 1 .. Len(K) - 1 /\ i + 1 \in 1 .. Len(K)
      BY <1>5, <2>1, <2>3
    <3>2. QED BY <1>1, <1>5, <2>1, <3>1 DEF PathOf
  <2>4. QED BY <2>2, <2>3
<1>10. SeenOf(D, R2, N, P)
  <2>1. SUFFICES ASSUME NEW i \in 1 .. Len(K) + 1, NEW d \in D[P[i]] \ R2[P[i]]
                 PROVE  N[d] = 2 \/ (i < Len(K) + 1 /\ P[i + 1] = d)
    BY <1>5 DEF SeenOf
  <2>2. CASE i = Len(K) + 1
    <3>1. R[k] = D[k]
      BY <1>1 DEF Walk
    <3>2. Len(K) > 0 => k # K[Len(K)]
      BY <1>5, <1>6 DEF In
    <3>3. R2[k] = R[k]
      BY <1>1, <3>2 DEF Taken
    <3>4. QED BY <1>5, <2>1, <2>2, <3>1, <3>3
  <2>3. CASE i \in 1 .. Len(K)
    <3>1. P[i] = K[i] /\ K[i] \in S
      BY <1>5, <2>3
    <3>2. d \in S
      BY <2>1, <3>1
    <3>3. CASE R2[K[i]] = R[K[i]]
      <4>1. M[d] = 2 \/ (i < Len(K) /\ K[i + 1] = d)
        BY <1>1, <2>1, <2>3, <3>1, <3>3 DEF SeenOf
      <4>2. CASE M[d] = 2
        BY <1>1, <1>3, <3>2, <4>2
      <4>3. CASE i < Len(K) /\ K[i + 1] = d
        <5>1. i + 1 \in 1 .. Len(K)
          BY <1>5, <2>3, <4>3
        <5>2. QED BY <1>5, <4>3, <5>1
      <4>4. QED BY <4>1, <4>2, <4>3
    <3>4. CASE Len(K) > 0 /\ K[i] = K[Len(K)] /\ R2[K[i]] = R[K[i]] \ {k}
      <4>1. i = Len(K)
        BY <1>1, <1>5, <2>3, <3>4 DEF MarksTell, NoTwice
      <4>2. d = k \/ d \in D[K[i]] \ R[K[i]]
        BY <2>1, <3>1, <3>4
      <4>3. CASE d = k
        BY <1>5, <2>3, <4>1, <4>3
      <4>4. CASE d \in D[K[i]] \ R[K[i]]
        <5>1. M[d] = 2
          BY <1>1, <1>5, <2>3, <4>1, <4>4 DEF SeenOf
        <5>2. QED BY <1>1, <1>3, <3>2, <5>1
      <4>5. QED BY <4>2, <4>3, <4>4
    <3>5. QED BY <3>1, <3>3, <3>4 DEF Taken
  <2>4. QED BY <1>5, <2>1, <2>2, <2>3
<1>11. ASSUME NEW x \in S, N[x] = 0 PROVE R2[x] = D[x] /\ x \in L2
  <2>1. x # k /\ M[x] = 0
    BY <1>3, <1>11
  <2>2. ~In(K, x)
    BY <1>1, <1>11, <2>1 DEF MarksTell
  <2>3. Len(K) > 0 => x # K[Len(K)]
    BY <1>5, <2>2 DEF In
  <2>4. QED BY <1>11, <2>1, <2>3 DEF Walk, Taken
<1>12. QED BY <1>2, <1>4, <1>7, <1>8, <1>9, <1>10, <1>11 DEF Walk

LEMMA EndsOf ==
  ASSUME NEW S, NEW s \in Seq(S), NEW a \in 1 .. Len(s)
  PROVE  /\ SubSeq(s, a, Len(s)) \in Seq(S) /\ Len(SubSeq(s, a, Len(s))) = Len(s) - a + 1
         /\ \A i \in 1 .. Len(s) - a + 1 : SubSeq(s, a, Len(s))[i] = s[a + i - 1]
         /\ SubSeq(s, 1, Len(s) - 1) \in Seq(S) /\ Len(SubSeq(s, 1, Len(s) - 1)) = Len(s) - 1
         /\ \A i \in 1 .. Len(s) - 1 : SubSeq(s, 1, Len(s) - 1)[i] = s[i]
<1>1. Len(s) \in Nat /\ a \in Nat /\ 1 <= a /\ a <= Len(s) /\ \A i \in 1 .. Len(s) : s[i] \in S
  OBVIOUS
<1>2. PICK n \in Nat : n = Len(s)
  BY <1>1
<1>3. SubSeq(s, a, n) = [i \in 1 .. n - a + 1 |-> s[a + i - 1]]
  BY <1>1, <1>2
<1>4. SubSeq(s, 1, n - 1) = [i \in 1 .. n - 1 |-> s[i]]
  BY <1>1, <1>2
<1>5. \A i \in 1 .. n - a + 1 : a + i - 1 \in 1 .. n
  BY <1>1, <1>2
<1>6. n - a + 1 \in Nat /\ n - 1 \in Nat
  BY <1>1, <1>2
<1>7. QED BY <1>1, <1>2, <1>3, <1>4, <1>5, <1>6


LEMMA WalkLeaves ==
  ASSUME NEW S, NEW D \in [S -> SUBSET S], NEW L, NEW R, NEW M, NEW K, NEW O, Walk(S, D, L, R, M, K, O),
         NEW t, K # <<>>, t = K[Len(K)], R[t] = {}
  PROVE  Walk(S, D, L, R, [M EXCEPT ![t] = 2], SubSeq(K, 1, Len(K) - 1), Append(O, t))
<1>1. /\ L \subseteq S /\ M \in [S -> 0 .. 2] /\ K \in Seq(S) /\ O \in Seq(S) /\ R \in [S -> SUBSET S]
      /\ MarksTell(S, M, K, O) /\ PathOf(D, K) /\ Behind(D, O) /\ SeenOf(D, R, M, K)
  BY DEF Walk, WalkTyped
<1>2. Len(K) \in Nat /\ Len(K) > 0 /\ (\A i \in 1 .. Len(K) : K[i] \in S) /\ t \in S
  BY <1>1
<1>3. PICK N : N = [M EXCEPT ![t] = 2]
  OBVIOUS
<1>4. N \in [S -> 0 .. 2] /\ N[t] = 2 /\ \A x \in S \ {t} : N[x] = M[x]
  BY <1>1, <1>2, <1>3
<1>5. PICK P \in Seq(S) : P = SubSeq(K, 1, Len(K) - 1)
  <2>1. 1 \in 1 .. Len(K)
    BY <1>2
  <2>2. SubSeq(K, 1, Len(K) - 1) \in Seq(S)
    BY <1>1, <2>1, EndsOf
  <2>3. QED BY <2>2
<1>6. Len(P) = Len(K) - 1 /\ \A i \in 1 .. Len(P) : P[i] = K[i]
  BY <1>1, <1>2, <1>5, EndsOf
<1>7. PICK Q \in Seq(S) : Q = Append(O, t)
  BY <1>1, <1>2, Lengthened
<1>8. /\ Len(O) \in Nat /\ Len(Q) = Len(O) + 1 /\ Q[Len(O) + 1] = t
      /\ \A i \in 1 .. Len(O) : Q[i] = O[i] /\ O[i] \in S
  BY <1>1, <1>2, <1>7, Lengthened
<1>9. Len(K) \in 1 .. Len(K) /\ \A i \in 1 .. Len(P) : i \in 1 .. Len(K) /\ i # Len(K)
  BY <1>2, <1>6
<1>10. In(K, t) /\ M[t] = 1 /\ ~In(O, t)
  BY <1>1, <1>2, <1>9 DEF In, MarksTell
<1>11. \A x : In(P, x) <=> In(K, x) /\ x # t
  <2>1. ASSUME NEW x, In(P, x) PROVE In(K, x) /\ x # t
    BY <1>1, <1>6, <1>9, <2>1 DEF In, MarksTell, NoTwice
  <2>2. ASSUME NEW x, In(K, x), x # t PROVE In(P, x)
    <3>1. PICK i \in 1 .. Len(K) : K[i] = x
      BY <2>2 DEF In
    <3>2. i \in 1 .. Len(P)
      BY <1>2, <1>6, <2>2, <3>1
    <3>3. QED BY <1>6, <3>1, <3>2 DEF In
  <2>3. QED BY <2>1, <2>2
<1>12. NoTwice(P)
  BY <1>1, <1>6, <1>9 DEF MarksTell, NoTwice
<1>13. (\A x : In(Q, x) <=> In(O, x) \/ x = t) /\ NoTwice(Q)
  BY <1>1, <1>2, <1>7, <1>10, InLengthened DEF MarksTell
<1>14. WalkTyped(S, L, R, N, P, Q)
  BY <1>1, <1>4, <1>5, <1>7 DEF WalkTyped
<1>15. MarksTell(S, N, P, Q)
  BY <1>1, <1>4, <1>10, <1>11, <1>12, <1>13 DEF MarksTell
<1>16. PathOf(D, P)
  <2>1. SUFFICES ASSUME NEW i \in 1 .. Len(P) - 1 PROVE P[i + 1] \in D[P[i]]
    BY DEF PathOf
  <2>2. i \in 1 .. Len(P) /\ i + 1 \in 1 .. Len(P) /\ i \in 1 .. Len(K) - 1
    BY <1>2, <1>6, <2>1
  <2>3. QED BY <1>1, <1>6, <2>2 DEF PathOf
<1>17. Behind(D, Q)
  <2>1. SUFFICES ASSUME NEW i \in 1 .. Len(O) + 1, NEW d \in D[Q[i]] PROVE \E j \in 1 .. i - 1 : Q[j] = d
    BY <1>8 DEF Behind
  <2>2. CASE i = Len(O) + 1
    <3>1. d \in D[K[Len(K)]] \ R[K[Len(K)]] /\ d \in S
      BY <1>2, <1>8, <2>1, <2>2
    <3>2. M[d] = 2
      <4>1. M[d] = 2 \/ Len(K) < Len(K)
        BY <1>1, <1>9, <3>1 DEF SeenOf
      <4>2. QED BY <1>2, <4>1
    <3>3. PICK j \in 1 .. Len(O) : O[j] = d
      BY <1>1, <3>1, <3>2 DEF MarksTell, In
    <3>4. j \in 1 .. i - 1
      BY <1>8, <2>2, <3>3
    <3>5. QED BY <1>8, <3>3, <3>4
  <2>3. CASE i \in 1 .. Len(O)
    <3>1. PICK j \in 1 .. i - 1 : O[j] = d
      BY <1>1, <1>8, <2>1, <2>3 DEF Behind
    <3>2. j \in 1 .. Len(O)
      BY <1>8, <2>3, <3>1
    <3>3. QED BY <1>8, <3>1, <3>2
  <2>4. QED BY <1>8, <2>1, <2>2, <2>3
<1>18. SeenOf(D, R, N, P)
  <2>1. SUFFICES ASSUME NEW i \in 1 .. Len(P), NEW d \in D[P[i]] \ R[P[i]]
                 PROVE  N[d] = 2 \/ (i < Len(P) /\ P[i + 1] = d)
    BY DEF SeenOf
  <2>2. i \in 1 .. Len(K) /\ P[i] = K[i] /\ d \in S
    BY <1>2, <1>6, <1>9, <2>1
  <2>3. M[d] = 2 \/ (i < Len(K) /\ K[i + 1] = d)
    BY <1>1, <2>1, <2>2 DEF SeenOf
  <2>4. CASE M[d] = 2
    BY <1>4, <2>2, <2>4
  <2>5. CASE i = Len(K) - 1 /\ K[i + 1] = d
    BY <1>2, <1>4, <2>5
  <2>6. CASE i < Len(K) - 1 /\ K[i + 1] = d
    <3>1. i + 1 \in 1 .. Len(P) /\ i < Len(P)
      BY <1>2, <1>6, <2>1, <2>6
    <3>2. QED BY <1>6, <2>6, <3>1
  <2>7. QED BY <1>2, <2>2, <2>3, <2>4, <2>5, <2>6
<1>19. \A x \in S : N[x] = 0 => R[x] = D[x] /\ x \in L
  BY <1>4 DEF Walk
<1>20. QED BY <1>3, <1>5, <1>7, <1>14, <1>15, <1>16, <1>17, <1>18, <1>19 DEF Walk

(* The path from where a component lies on the stack, and back to it.         *)
CyclePath(D, p) ==
  /\ Len(p) > 1 /\ p[1] = p[Len(p)]
  /\ \A i \in 1 .. Len(p) - 1 : p[i + 1] \in D[p[i]]
  /\ \A i, j \in 1 .. Len(p) - 1 : p[i] = p[j] => i = j

LEMMA WalkCloses ==
  ASSUME NEW S, NEW D \in [S -> SUBSET S], NEW L, NEW R, NEW M, NEW K, NEW O, Walk(S, D, L, R, M, K, O),
         NEW k, NEW L2, NEW R2, Taken(S, D, L, R, K, k, L2, R2), NEW a \in 1 .. Len(K), K[a] = k
  PROVE  /\ CyclePath(D, Append(SubSeq(K, a, Len(K)), k))
         /\ ~Order!Acyclic(S, D)
<1>1. K \in Seq(S) /\ Len(K) \in Nat /\ k \in S /\ PathOf(D, K) /\ NoTwice(K) /\ k \in D[K[Len(K)]]
  BY DEF Walk, WalkTyped, MarksTell, Taken
<1>2. PICK n \in Nat : n = Len(K) - a + 1 /\ n > 0
  <2>1. Len(K) \in Nat /\ a \in 1 .. Len(K)
    BY <1>1
  <2>2. Len(K) - a + 1 \in Nat /\ Len(K) - a + 1 > 0
    BY ONLY <2>1
  <2>3. QED BY ONLY <2>2
<1>3. PICK q \in Seq(S) : q = SubSeq(K, a, Len(K))
  BY <1>1, EndsOf
<1>4. Len(q) = n /\ \A i \in 1 .. n : q[i] = K[a + i - 1] /\ a + i - 1 \in 1 .. Len(K)
  <2>1. Len(q) = n /\ \A i \in 1 .. n : q[i] = K[a + i - 1]
    BY <1>1, <1>2, <1>3, EndsOf
  <2>2. \A i \in 1 .. n : a + i - 1 \in 1 .. Len(K)
    BY <1>1, <1>2
  <2>3. QED BY <2>1, <2>2
<1>5. PICK p \in Seq(S) : p = Append(q, k)
  BY <1>1, <1>3, Lengthened
<1>6. Len(p) = n + 1 /\ p[n + 1] = k /\ \A i \in 1 .. n : p[i] = K[a + i - 1]
  BY <1>1, <1>3, <1>4, <1>5, Lengthened
<1>7. 1 \in 1 .. n /\ n \in 1 .. n /\ a + 1 - 1 = a /\ a + n - 1 = Len(K)
  BY <1>1, <1>2
<1>8. p[1] = k /\ p[n] = K[Len(K)]
  BY <1>6, <1>7
<1>9. \A i \in 1 .. n : p[i + 1] \in D[p[i]]
  <2>1. SUFFICES ASSUME NEW i \in 1 .. n PROVE p[i + 1] \in D[p[i]]
    OBVIOUS
  <2>2. CASE i = n
    BY <1>1, <1>6, <1>8, <2>2
  <2>3. CASE i # n
    <3>1. PICK j \in 1 .. Len(K) - 1 : j = a + i - 1
      <4>1. i \in Nat /\ 1 <= i /\ i < n /\ a \in Nat /\ 1 <= a
        BY <1>1, <1>2, <2>1, <2>3
      <4>2. a + i - 1 \in 1 .. Len(K) - 1
        BY <1>1, <1>2, <4>1
      <4>3. QED BY <4>2
    <3>2. i + 1 \in 1 .. n
      <4>1. i \in Nat /\ 1 <= i /\ i < n
        BY <1>2, <2>1, <2>3
      <4>2. QED BY <1>2, <4>1
    <3>3. p[i] = K[j]
      BY <1>6, <2>1, <3>1
    <3>4. p[i + 1] = K[j + 1]
      <4>1. p[i + 1] = K[a + (i + 1) - 1]
        BY <1>6, <3>2
      <4>2. a + (i + 1) - 1 = j + 1
        BY <2>1, <3>1
      <4>3. QED BY <4>1, <4>2
    <3>5. QED BY <1>1, <3>1, <3>3, <3>4 DEF PathOf
  <2>4. QED BY <2>2, <2>3
<1>10. ASSUME NEW i \in 1 .. n, NEW j \in 1 .. n, p[i] = p[j] PROVE i = j
  <2>1. PICK u \in 1 .. Len(K) : u = a + i - 1 /\ p[i] = K[u]
    BY <1>4, <1>6, <1>10
  <2>2. PICK v \in 1 .. Len(K) : v = a + j - 1 /\ p[j] = K[v]
    BY <1>4, <1>6, <1>10
  <2>3. u = v
    BY <1>1, <1>10, <2>1, <2>2 DEF NoTwice
  <2>4. QED BY <1>10, <2>1, <2>2, <2>3
<1>11. CyclePath(D, p)
  <2>1. Len(p) > 1 /\ Len(p) - 1 = n /\ p[1] = p[Len(p)]
    BY <1>2, <1>6, <1>8
  <2>2. QED BY <1>9, <1>10, <2>1 DEF CyclePath
<1>12. ~Order!Acyclic(S, D)
  <2> DEFINE T == {p[i] : i \in 1 .. n}
  <2>1. T \subseteq S /\ T # {}
    BY <1>5, <1>6, <1>7
  <2>2. ASSUME NEW c \in T PROVE D[c] \cap T # {}
    <3>1. PICK i \in 1 .. n : c = p[i]
      BY <2>2
    <3>2. p[i + 1] \in D[c]
      BY <1>9, <3>1
    <3>3. p[i + 1] \in T
      <4>1. CASE i = n
        BY <1>6, <1>7, <1>8, <4>1
      <4>2. CASE i # n
        <5>1. n \in Nat /\ i \in 1 .. n
          BY <1>2, <3>1
        <5>2. i + 1 \in 1 .. n
          BY ONLY <4>2, <5>1
        <5>3. QED BY <5>2
      <4>3. QED BY <4>1, <4>2
    <3>4. QED BY <3>2, <3>3
  <2> HIDE DEF T
  <2>3. QED BY <2>1, <2>2 DEF Order!Acyclic
<1>13. QED BY <1>3, <1>5, <1>11, <1>12

LEMMA OneOrderCardinality == (\A T : Order!Cardinality(T) = Cardinality(T)) /\ \A T : Order!IsFiniteSet(T) = IsFiniteSet(T)
BY Zenon DEF Order!Cardinality, Cardinality, Order!IsFiniteSet, IsFiniteSet

LEMMA LeastOf ==
  ASSUME NEW T \in SUBSET Nat, T # {}
  PROVE  \E m \in T : \A i \in T : m <= i
<1>1. IsWellFoundedOn(OpToRel(<, Nat), Nat)
  BY NatLessThanWellFounded
<1>2. PICK x \in T : \A y \in T : <<y, x>> \notin OpToRel(<, Nat)
  BY <1>1, WFMin
<1>3. \A m, n \in Nat : <<m, n>> \in OpToRel(<, Nat) <=> m < n
  BY DEF OpToRel
<1>4. x \in Nat /\ \A y \in T : y \in Nat /\ ~(y < x)
  BY <1>2, <1>3
<1>5. \A y \in T : x <= y
  BY <1>4
<1>6. QED BY <1>2, <1>5

LEMMA WalkEnds ==
  ASSUME NEW S, NEW D \in [S -> SUBSET S], NEW L, NEW R, NEW M, NEW K, NEW O, Walk(S, D, L, R, M, K, O),
         K = <<>>, L = {}
  PROVE  Order!Mountable(S, D) /\ O \in Order!DependencyOrders(S, D)
<1>1. O \in Seq(S) /\ Len(O) \in Nat /\ (\A i \in 1 .. Len(O) : O[i] \in S) /\ NoTwice(O) /\ Behind(D, O)
  BY DEF Walk, WalkTyped, MarksTell
<1>2. ASSUME NEW c \in S PROVE \E i \in 1 .. Len(O) : O[i] = c
  <2>1. M[c] # 0 /\ M[c] \in 0 .. 2 /\ ~In(K, c)
    BY <1>2 DEF Walk, WalkTyped, In
  <2>2. M[c] = 2
    BY <1>2, <2>1 DEF Walk, MarksTell
  <2>3. QED BY <1>2, <2>2 DEF Walk, MarksTell, In
<1>3. Cardinality(S) = Len(O)
  <2>1. O \in [1 .. Len(O) -> S]
    BY <1>1
  <2>2. O \in Bijection(1 .. Len(O), S)
    <3>1. O \in Injection(1 .. Len(O), S)
      BY <1>1, <2>1 DEF NoTwice, Injection, IsInjective
    <3>2. O \in Surjection(1 .. Len(O), S)
      BY <1>2, <2>1 DEF Surjection
    <3>3. QED BY <3>1, <3>2 DEF Bijection
  <2>3. QED BY <1>1, <2>2, FS_CountingElements DEF ExistsBijection
<1>4. O \in Order!DependencyOrders(S, D)
  <2>1. Order!Cardinality(S) = Len(O) /\ O \in [1 .. Len(O) -> S]
    BY <1>1, <1>3, OneOrderCardinality
  <2>2. QED BY <1>1, <1>2, <2>1 DEF Order!DependencyOrders, NoTwice, Behind
<1>5. Order!Closed(S, D)
  BY DEF Order!Closed
<1>6. Order!Acyclic(S, D)
  <2>1. SUFFICES ASSUME NEW T \in (SUBSET S) \ {{}} PROVE \E c \in T : D[c] \cap T = {}
    BY DEF Order!Acyclic
  <2> DEFINE I == {i \in 1 .. Len(O) : O[i] \in T}
  <2>2. I \subseteq Nat /\ I # {}
    <3>1. PICK c \in T : c \in S
      OBVIOUS
    <3>2. PICK i \in 1 .. Len(O) : O[i] = c
      BY <1>2, <3>1
    <3>3. QED BY <3>1, <3>2
  <2> HIDE DEF I
  <2>3. PICK m \in I : \A i \in I : m <= i
    BY <2>2, LeastOf
  <2>4. O[m] \in T /\ m \in 1 .. Len(O)
    BY <2>3 DEF I
  <2>5. ASSUME NEW d \in D[O[m]], d \in T PROVE FALSE
    <3>1. PICK j \in 1 .. m - 1 : O[j] = d
      BY <1>1, <2>4, <2>5 DEF Behind
    <3>2. j \in I /\ j < m
      BY <1>1, <2>4, <2>5, <3>1 DEF I
    <3>3. QED BY <2>2, <2>3, <3>2
  <2>6. QED BY <2>4, <2>5
<1>7. QED BY <1>4, <1>5, <1>6 DEF Order!Mountable

LEMMA FirstIsThere ==
  ASSUME NEW list, NEW T, T \subseteq Keys, T # {}
  PROVE  Order!FirstOf(list, T) \in T
<1>1. \A k \in T : Rank[k] \in Nat
  BY PartsAssumption DEF Order!OrderAssumption
<1> DEFINE N == {Rank[k] : k \in T}
<1>2. N \subseteq Nat /\ N # {}
  BY <1>1
<1>3. PICK m \in N : \A i \in N : m <= i
  <2> HIDE DEF N
  <2>1. QED BY <1>2, LeastOf
<1>4. PICK k \in T : m = Rank[k]
  BY <1>3
<1>5. \A j \in T : Rank[k] <= Rank[j]
  BY <1>3, <1>4
<1>6. QED BY <1>5 DEF Order!FirstOf

LEMMA CycleStartIsThere ==
  ASSUME NEW S, stack \in Seq(S), NEW k, In(stack, k)
  PROVE  Order!CycleStart(k) \in 1 .. Len(stack) /\ stack[Order!CycleStart(k)] = k
<1> DEFINE N == {i \in 1 .. Len(stack) : stack[i] = k}
<1>1. Len(stack) \in Nat
  OBVIOUS
<1>2. N \subseteq Nat /\ N # {}
  BY <1>1 DEF In
<1>3. PICK m \in N : \A i \in N : m <= i
  <2> HIDE DEF N
  <2>1. QED BY <1>2, LeastOf
<1>4. m \in 1 .. Len(stack) /\ stack[m] = k
  BY <1>3
<1>5. \A j \in 1 .. m - 1 : stack[j] # k
  <2>1. SUFFICES ASSUME NEW j \in 1 .. m - 1, stack[j] = k PROVE FALSE
    OBVIOUS
  <2>2. j \in N
    BY <1>1, <1>4, <2>1
  <2>3. m <= j
    BY <1>3, <2>2
  <2>4. QED BY <1>1, <1>4, <2>1, <2>3
<1>6. QED BY <1>4, <1>5 DEF Order!CycleStart

(* The call follows a walk from the validation to its answer.                 *)
Items == Order!Listed(items)
Walking ==
  /\ Order!Deps \in [Items -> SUBSET Items] /\ Walk(Items, Order!Deps, left, rest, mark, stack, ordered)
  /\ \A c \in Items : rest[c] \subseteq Order!Deps[c]

OrderInductive ==
  /\ Items \subseteq Keys
  /\ result.kind = "none" => Order!Start
  /\ result.kind = "valid" => Walking
  /\ Order!AnswerSound

LEMMA AnsweredOrder ==
  ASSUME Order!Mountable(Items, Order!Deps), NEW o, o \in Order!DependencyOrders(Items, Order!Deps),
         UNCHANGED Order!input, result' = [kind |-> "order", order |-> o], Items \subseteq Keys
  PROVE  OrderInductive'
<1>1. Items' = Items /\ Order!Deps' = Order!Deps
  BY DEF Items, Order!Deps, Order!input, Order!Listed
<1>2. result'.kind = "order" /\ result'.order = o
  OBVIOUS
<1>3. Order!AnswerSound'
  BY <1>1, <1>2 DEF Order!AnswerSound, Order!OrdersMountable, Order!CycleIsReal, Items
<1>4. QED BY <1>1, <1>2, <1>3 DEF OrderInductive

LEMMA AnsweredCycle ==
  ASSUME ~Order!Mountable(Items, Order!Deps), NEW p, CyclePath(Order!Deps, p),
         UNCHANGED Order!input, result' = [kind |-> "cycle", path |-> p], Items \subseteq Keys
  PROVE  OrderInductive'
<1>1. Items' = Items /\ Order!Deps' = Order!Deps
  BY DEF Items, Order!Deps, Order!input, Order!Listed
<1>2. result'.kind = "cycle" /\ result'.path = p
  OBVIOUS
<1>3. Order!AnswerSound'
  BY <1>1, <1>2 DEF Order!AnswerSound, Order!OrdersMountable, Order!CycleIsReal, Items, CyclePath
<1>4. QED BY <1>1, <1>2, <1>3 DEF OrderInductive

LEMMA WalksOn ==
  ASSUME OrderInductive, result.kind = "valid", UNCHANGED <<Order!input, result>>,
         Walk(Items, Order!Deps, left', rest', mark', stack', ordered'),
         \A c \in Items : rest'[c] \subseteq Order!Deps[c]
  PROVE  OrderInductive'
<1>1. Items' = Items /\ Order!Deps' = Order!Deps /\ result' = result
  BY DEF Items, Order!Deps, Order!input, Order!Listed
<1>2. Order!Deps \in [Items -> SUBSET Items] /\ Items \subseteq Keys
  BY DEF OrderInductive, Walking
<1>3. Walking'
  BY <1>1, <1>2 DEF Walking
<1>4. Order!AnswerSound'
  BY <1>1 DEF Order!AnswerSound, Order!OrdersMountable, Order!CycleIsReal
<1>5. QED BY <1>1, <1>2, <1>3, <1>4 DEF OrderInductive

LEMMA PanickedKeeps ==
  ASSUME OrderInductive, Order!Panicked PROVE OrderInductive'
<1>1. Items' = Items /\ result'.kind = "panicked"
  BY DEF Items, Order!Panicked, Order!input, Order!Listed
<1>2. QED
  BY <1>1 DEF OrderInductive, Order!AnswerSound, Order!OrdersMountable, Order!CycleIsReal

LEMMA RejectedKeeps ==
  ASSUME OrderInductive, Order!Rejected PROVE OrderInductive'
<1>1. Items' = Items /\ Order!Deps' = Order!Deps /\ result'.kind = "invalid"
  BY DEF Items, Order!Deps, Order!Rejected, Order!input, Order!Listed
<1>2. ~Order!Closed(Items, Order!Deps)
  <2>1. PICK c \in Items : Order!ErrorsOf(c) # {}
    BY DEF Order!Rejected, Order!ValidationErrors, Items
  <2>2. PICK d \in Order!Deps[c] : Order!Missing(d)
    BY <2>1 DEF Order!ErrorsOf
  <2>3. QED BY <2>1, <2>2 DEF Order!Closed, Order!Missing, Items
<1>3. QED
  BY <1>1, <1>2 DEF OrderInductive, Order!AnswerSound, Order!OrdersMountable, Order!CycleIsReal, Order!Mountable, Items

LEMMA ValidatedKeeps ==
  ASSUME OrderInductive, Order!Validated PROVE OrderInductive'
<1>1. Items' = Items /\ Order!Deps' = Order!Deps /\ result'.kind = "valid" /\ Items \subseteq Keys
  BY DEF Items, Order!Deps, Order!Validated, Order!input, Order!Listed, OrderInductive
<1>2. /\ left' = Items /\ rest' = Order!Deps /\ mark' = [k \in Items |-> 0]
      /\ stack' = <<>> /\ ordered' = <<>>
  BY DEF OrderInductive, Order!Validated, Order!NotRun, Order!Start, Items
<1>3. Order!Deps \in [Items -> SUBSET Items]
  <2>1. \A c \in Items : Order!ErrorsOf(c) = {}
    BY DEF Order!Validated, Order!ValidationErrors, Items
  <2>2. \A c \in Items : \A d \in Order!Deps[c] : ~Order!Missing(d)
    BY <2>1 DEF Order!ErrorsOf
  <2>3. \A c \in Items : Order!Deps[c] \subseteq Items
    BY <2>2 DEF Order!Missing, Items
  <2>4. Order!Deps = [c \in Items |-> Order!Deps[c]]
    BY DEF Order!Deps, Items
  <2>5. QED BY <2>3, <2>4
<1>4. Walk(Items, Order!Deps, left', rest', mark', stack', ordered')
  <2>1. \A k : ~In(<<>>, k)
    BY DEF In
  <2>2. NoTwice(<<>>)
    BY DEF NoTwice
  <2>3. WalkTyped(Items, left', rest', mark', stack', ordered')
    BY <1>2, <1>3 DEF WalkTyped
  <2>4. MarksTell(Items, mark', stack', ordered')
    BY <1>2, <2>1, <2>2 DEF MarksTell
  <2>5. PathOf(Order!Deps, <<>>) /\ Behind(Order!Deps, <<>>) /\ SeenOf(Order!Deps, rest', mark', <<>>)
    BY DEF PathOf, Behind, SeenOf
  <2>6. \A k \in Items : rest'[k] = Order!Deps[k] /\ k \in left'
    BY <1>2
  <2>7. QED BY <1>2, <2>3, <2>4, <2>5, <2>6 DEF Walk
<1>5. Walking'
  BY <1>1, <1>2, <1>3, <1>4 DEF Walking
<1>6. QED
  BY <1>1, <1>5 DEF OrderInductive, Order!AnswerSound, Order!OrdersMountable, Order!CycleIsReal

LEMMA VisitKeeps ==
  ASSUME OrderInductive, result.kind = "valid", UNCHANGED Order!input, NEW k,
         Taken(Items, Order!Deps, left, rest, stack, k, left', rest'), Order!Visit(k),
         \A c \in Items : rest'[c] \subseteq Order!Deps[c]
  PROVE  OrderInductive'
<1>1. /\ Order!Deps \in [Items -> SUBSET Items] /\ Walk(Items, Order!Deps, left, rest, mark, stack, ordered)
      /\ Items \subseteq Keys
  BY DEF OrderInductive, Walking
<1>2. CASE mark[k] = 0 /\ mark' = [mark EXCEPT ![k] = 1] /\ stack' = Append(stack, k) /\ UNCHANGED <<ordered, result>>
  <2>1. Walk(Items, Order!Deps, left', rest', mark', stack', ordered')
    BY <1>1, <1>2, WalkEnters
  <2>2. QED BY <1>2, <2>1, WalksOn
<1>3. CASE mark[k] = 2 /\ UNCHANGED <<mark, stack, ordered, result>>
  <2>1. Walk(Items, Order!Deps, left', rest', mark', stack', ordered')
    BY <1>1, <1>3, WalkSkips
  <2>2. QED BY <1>3, <2>1, WalksOn
<1>4. CASE /\ mark[k] = 1
           /\ result' = [kind |-> "cycle", path |-> Append(SubSeq(stack, Order!CycleStart(k), Len(stack)), k)]
  <2>1. k \in Items /\ stack \in Seq(Items) /\ In(stack, k)
    BY <1>1, <1>4 DEF Taken, Walk, WalkTyped, MarksTell
  <2>2. PICK a \in 1 .. Len(stack) : a = Order!CycleStart(k) /\ stack[a] = k
    BY <2>1, CycleStartIsThere
  <2>3. /\ CyclePath(Order!Deps, Append(SubSeq(stack, a, Len(stack)), k))
        /\ ~Order!Acyclic(Items, Order!Deps)
    BY <1>1, <2>2, WalkCloses
  <2>4. ~Order!Mountable(Items, Order!Deps)
    BY <2>3 DEF Order!Mountable
  <2>5. QED BY <1>1, <1>4, <2>2, <2>3, <2>4, AnsweredCycle
<1>5. QED BY <1>2, <1>3, <1>4 DEF Order!Visit

LEMMA VisitItemKeeps ==
  ASSUME OrderInductive, Order!VisitItem PROVE OrderInductive'
<1>1. /\ Walking /\ Items \subseteq Keys /\ left \subseteq Items /\ rest \in [Items -> SUBSET Items]
      /\ result.kind = "valid"
  BY DEF OrderInductive, Order!VisitItem, Order!Visiting, Walking, Walk, WalkTyped
<1>2. PICK k : k = Order!FirstOf(items, left)
  OBVIOUS
<1>3. k \in left
  <2>1. left # {} /\ left \subseteq Keys
    BY <1>1 DEF Order!VisitItem
  <2>2. QED BY <1>2, <2>1, FirstIsThere
<1>4. /\ left' = left \ {k} /\ Order!Visit(k) /\ UNCHANGED Order!input /\ rest' = rest /\ stack = <<>>
  BY <1>2 DEF Order!VisitItem
<1>5. Taken(Items, Order!Deps, left, rest, stack, k, left', rest')
  BY <1>1, <1>3, <1>4 DEF Taken
<1>6. \A c \in Items : rest'[c] \subseteq Order!Deps[c]
  BY <1>1, <1>4 DEF Walking
<1>7. QED BY <1>1, <1>4, <1>5, <1>6, VisitKeeps

LEMMA VisitDependencyKeeps ==
  ASSUME OrderInductive, Order!VisitDependency PROVE OrderInductive'
<1>1. /\ Walking /\ Items \subseteq Keys /\ rest \in [Items -> SUBSET Items] /\ stack \in Seq(Items)
      /\ result.kind = "valid"
  BY DEF OrderInductive, Order!VisitDependency, Order!Visiting, Walking, Walk, WalkTyped
<1>2. stack # <<>> /\ Len(stack) \in Nat /\ Len(stack) > 0 /\ stack[Len(stack)] \in Items
  BY <1>1 DEF Order!VisitDependency
<1>3. PICK t \in Items : t = stack[Len(stack)] /\ t = Order!Top
  BY <1>2 DEF Order!Top
<1>4. PICK k : k = Order!FirstOf(dependencies[t], rest[t])
  OBVIOUS
<1>5. k \in rest[t] /\ k \in Items /\ k \in Order!Deps[t]
  <2>1. rest[t] # {} /\ rest[t] \subseteq Items /\ rest[t] \subseteq Order!Deps[t]
    BY <1>1, <1>3 DEF Order!VisitDependency, Walking
  <2>2. QED BY <1>1, <1>4, <2>1, FirstIsThere
<1>6. rest' = [rest EXCEPT ![t] = @ \ {k}] /\ Order!Visit(k) /\ UNCHANGED Order!input /\ left' = left
  BY <1>3, <1>4 DEF Order!VisitDependency
<1>7. rest' \in [Items -> SUBSET Items] /\ rest'[t] = rest[t] \ {k} /\ \A x \in Items \ {t} : rest'[x] = rest[x]
  BY <1>1, <1>3, <1>6
<1>8. Taken(Items, Order!Deps, left, rest, stack, k, left', rest')
  BY <1>2, <1>3, <1>5, <1>6, <1>7 DEF Taken
<1>9. \A c \in Items : rest'[c] \subseteq Order!Deps[c]
  BY <1>1, <1>7 DEF Walking
<1>10. QED BY <1>1, <1>6, <1>8, <1>9, VisitKeeps

LEMMA LeaveKeeps ==
  ASSUME OrderInductive, Order!Leave PROVE OrderInductive'
<1>1. /\ Walking /\ stack # <<>> /\ result.kind = "valid" /\ rest[stack[Len(stack)]] = {}
      /\ UNCHANGED <<Order!input, left, rest, result>>
  BY DEF OrderInductive, Order!Leave, Order!Visiting, Order!Top
<1>2. PICK t : t = stack[Len(stack)]
  OBVIOUS
<1>3. mark' = [mark EXCEPT ![t] = 2] /\ stack' = SubSeq(stack, 1, Len(stack) - 1) /\ ordered' = Append(ordered, t)
  BY <1>2 DEF Order!Leave, Order!Top, Order!Behind
<1>4. Walk(Items, Order!Deps, left, rest, [mark EXCEPT ![t] = 2], SubSeq(stack, 1, Len(stack) - 1), Append(ordered, t))
  BY <1>1, <1>2, WalkLeaves DEF Walking
<1>5. Walk(Items, Order!Deps, left', rest', mark', stack', ordered')
  BY <1>1, <1>3, <1>4
<1>6. \A c \in Items : rest'[c] \subseteq Order!Deps[c]
  BY <1>1 DEF Walking
<1>7. QED BY <1>1, <1>5, <1>6, WalksOn

LEMMA AnswerKeeps ==
  ASSUME OrderInductive, Order!Return PROVE OrderInductive'
<1>1. /\ Walking /\ Items \subseteq Keys /\ stack = <<>> /\ left = {} /\ UNCHANGED Order!input
      /\ result' = [kind |-> "order", order |-> ordered]
  BY DEF OrderInductive, Order!Return, Order!Visiting
<1>2. Order!Mountable(Items, Order!Deps) /\ ordered \in Order!DependencyOrders(Items, Order!Deps)
  BY <1>1, WalkEnds DEF Walking
<1>3. QED BY <1>1, <1>2, AnsweredOrder

LEMMA OrderInitInductive ==
  ASSUME Order!Init PROVE OrderInductive
<1>1. Order!Start /\ result = [kind |-> "none"]
  BY DEF Order!Init, Order!Start, Order!NotRun
<1>2. Items \subseteq Keys
  <2>1. PICK S \in SUBSET Keys : items \in Order!Listings(S)
    BY DEF Order!Init
  <2>2. PICK n : items \in [1 .. n -> S]
    BY <2>1 DEF Order!Listings
  <2>3. \A i \in DOMAIN items : items[i] \in S
    BY <2>2
  <2>4. QED BY <2>3 DEF Items, Order!Listed
<1>3. QED
  BY <1>1, <1>2 DEF OrderInductive, Order!AnswerSound, Order!OrdersMountable, Order!CycleIsReal

LEMMA OrderRests ==
  ASSUME OrderInductive, UNCHANGED <<items, dependencies, left, rest, mark, stack, ordered, result>>
  PROVE  OrderInductive'
<1>1. Items' = Items /\ Order!Deps' = Order!Deps
  BY DEF Items, Order!Deps, Order!Listed
<1>2. (Walking => Walking') /\ (Order!Start => Order!Start') /\ (Order!AnswerSound => Order!AnswerSound')
  BY <1>1 DEF Walking, Order!Start, Order!NotRun, Order!AnswerSound, Order!OrdersMountable, Order!CycleIsReal, Items
<1>3. QED BY <1>1, <1>2 DEF OrderInductive

LEMMA OrderSteps ==
  ASSUME OrderInductive, Order!Next PROVE OrderInductive'
BY PanickedKeeps, RejectedKeeps, ValidatedKeeps, VisitItemKeeps, VisitDependencyKeeps, LeaveKeeps, AnswerKeeps
   DEF Order!Next

LEMMA Turned ==
  ASSUME NEW d \in Declarations
  PROVE  Order!Listed(Backwards(d)) = Order!Listed(d) /\ Backwards(d) # Panics
<1>1. d \in Seq(Order!Listed(d)) /\ Panics \notin Seq(Order!Listed(d))
  BY PartsAssumption DEF Order!OrderAssumption
<1>2. PICK n \in Nat : n = Len(d) /\ DOMAIN d = 1 .. n /\ \A i \in 1 .. n : d[i] \in Order!Listed(d)
  BY <1>1
<1>3. \A i \in 1 .. n : n + 1 - i \in 1 .. n /\ n + 1 - (n + 1 - i) = i
  BY <1>2
<1>4. Backwards(d) = [i \in 1 .. n |-> d[n + 1 - i]]
  BY <1>2 DEF Backwards
<1>5. Backwards(d) \in Seq(Order!Listed(d))
  BY <1>2, <1>3, <1>4
<1>6. \A i \in 1 .. n : Backwards(d)[i] = d[n + 1 - i] /\ d[i] = Backwards(d)[n + 1 - i]
  BY <1>3, <1>4
<1>7. Order!Listed(Backwards(d)) = Order!Listed(d)
  <2>1. DOMAIN Backwards(d) = 1 .. n
    BY <1>4
  <2>2. \A x : x \in Order!Listed(d) <=> \E i \in 1 .. n : x = d[i]
    BY <1>2 DEF Order!Listed
  <2>3. \A x : x \in Order!Listed(Backwards(d)) <=> \E i \in 1 .. n : x = Backwards(d)[i]
    BY <2>1 DEF Order!Listed
  <2>4. \A x : x \in Order!Listed(Backwards(d)) <=> x \in Order!Listed(d)
    BY <1>3, <1>6, <2>2, <2>3
  <2>5. QED BY <2>4
<1>8. QED BY <1>1, <1>5, <1>7

(* The two calls run in lock-step on the same registry.                       *)
SameRegistry ==
  /\ Order!Listed(twinItems) = Items
  /\ \A c \in Items : /\ twinDependencies[c] = Panics <=> dependencies[c] = Panics
                      /\ dependencies[c] # Panics =>
                           Order!Listed(twinDependencies[c]) = Order!Listed(dependencies[c])

SameVisits ==
  /\ twinLeft = left /\ twinRest = rest /\ twinMark = mark /\ twinStack = stack
  /\ twinOrdered = ordered /\ twinResult = result

TwinAgrees == SameRegistry /\ SameVisits

LEMMA FiniteItems ==
  ASSUME NEW S \in SUBSET Keys
  PROVE  \E list : list \in Order!Listings(S)
<1>1. IsFiniteSet(S)
  <2>1. IsFiniteSet(Keys)
    BY PartsAssumption, OneOrderCardinality DEF Order!OrderAssumption
  <2>2. QED BY <2>1, FS_Subset
<1>2. PICK f \in Bijection(1 .. Cardinality(S), S) : TRUE
  BY <1>1, FS_CardinalityType DEF ExistsBijection
<1>3. f \in [1 .. Cardinality(S) -> S] /\ \A c \in S : \E i \in 1 .. Cardinality(S) : f[i] = c
  BY <1>2 DEF Bijection, Injection, Surjection
<1>4. QED BY <1>3, OneOrderCardinality DEF Order!Listings

LEMMA ListingLists ==
  ASSUME NEW S, NEW list \in Order!Listings(S)
  PROVE  Order!Listed(list) = S
<1>1. PICK n : list \in [1 .. n -> S]
  BY DEF Order!Listings
<1>2. QED BY <1>1 DEF Order!Listings, Order!Listed

LEMMA TwinsStart ==
  ASSUME Order!Init, Relisted, Twin!Start
  PROVE  TwinAgrees
<1>1. PICK S \in SUBSET Keys : items \in Order!Listings(S)
  BY DEF Order!Init
<1>2. Items = S
  BY <1>1, ListingLists DEF Items
<1>3. twinItems \in Order!Listings(Items)
  BY <1>1, <1>2, FiniteItems DEF Relisted, Items
<1>4. Order!Listed(twinItems) = Items
  BY <1>3, ListingLists
<1>5. ASSUME NEW c \in Items
      PROVE  /\ twinDependencies[c] = Panics <=> dependencies[c] = Panics
             /\ dependencies[c] # Panics => Order!Listed(twinDependencies[c]) = Order!Listed(dependencies[c])
  <2>1. twinDependencies[c] = IF dependencies[c] = Panics THEN Panics ELSE Backwards(dependencies[c])
    BY <1>5 DEF Relisted, Items
  <2>2. dependencies[c] \in Declarations \cup {Panics}
    BY <1>5 DEF Order!Init, Items
  <2>3. QED BY <2>1, <2>2, Turned
<1>6. SameVisits
  <2>1. Twin!Listed(twinItems) = Items
    BY <1>4 DEF Twin!Listed, Order!Listed
  <2>2. QED BY <2>1 DEF SameVisits, Order!Init, Order!Start, Twin!Start, Order!NotRun, Twin!NotRun, Items
<1>7. QED BY <1>4, <1>5, <1>6 DEF TwinAgrees, SameRegistry

LEMMA OneFirst ==
  ASSUME NEW l1, NEW l2, NEW T PROVE Twin!FirstOf(l1, T) = Order!FirstOf(l2, T)
BY Zenon DEF Twin!FirstOf, Order!FirstOf

LEMMA SameListed ==
  ASSUME NEW l PROVE Twin!Listed(l) = Order!Listed(l)
BY DEF Twin!Listed, Order!Listed

LEMMA SameInput ==
  ASSUME TwinAgrees
  PROVE  /\ Twin!Panicking = Order!Panicking
         /\ Order!Panicking = {} => /\ Twin!Deps = Order!Deps
                                    /\ Twin!ValidationErrors = Order!ValidationErrors
<1>1. Twin!Listed(twinItems) = Items
  BY SameListed DEF TwinAgrees, SameRegistry
<1>2. Twin!Panicking = Order!Panicking
  BY <1>1 DEF Twin!Panicking, Order!Panicking, TwinAgrees, SameRegistry, Items
<1>3. ASSUME Order!Panicking = {}
      PROVE  Twin!Deps = Order!Deps /\ Twin!ValidationErrors = Order!ValidationErrors
  <2>1. \A c \in Items : Twin!Listed(twinDependencies[c]) = Order!Listed(dependencies[c])
    BY <1>3, SameListed DEF Order!Panicking, TwinAgrees, SameRegistry, Items
  <2>2. Twin!Deps = Order!Deps
    BY <1>1, <2>1 DEF Twin!Deps, Order!Deps, Items
  <2>3. \A d : (Twin!Missing(d) <=> Order!Missing(d)) /\ (Twin!WrongType(d) <=> Order!WrongType(d))
    BY <1>1 DEF Twin!Missing, Order!Missing, Twin!WrongType, Order!WrongType, Items
  <2>4. \A c \in Items : Twin!ErrorsOf(c) = Order!ErrorsOf(c)
    BY <2>2, <2>3 DEF Twin!ErrorsOf, Order!ErrorsOf
  <2>5. Twin!ValidationErrors = Order!ValidationErrors
    BY <1>1, <2>4 DEF Twin!ValidationErrors, Order!ValidationErrors, Items
  <2>6. QED BY <2>2, <2>5
<1>4. QED BY <1>2, <1>3

LEMMA SameCycleStart ==
  ASSUME twinStack = stack, NEW S, stack \in Seq(S), NEW k, In(stack, k)
  PROVE  Twin!CycleStart(k) = Order!CycleStart(k)
<1> DEFINE First(i) == i \in 1 .. Len(stack) /\ stack[i] = k /\ \A j \in 1 .. i - 1 : stack[j] # k
<1>1. PICK a : a = Order!CycleStart(k)
  OBVIOUS
<1>2. PICK b : b = Twin!CycleStart(k)
  OBVIOUS
<1>3. \E i : First(i)
  <2> DEFINE N == {i \in 1 .. Len(stack) : stack[i] = k}
  <2>1. Len(stack) \in Nat
    OBVIOUS
  <2>2. N \subseteq Nat /\ N # {}
    BY <2>1 DEF In
  <2>3. PICK m \in N : \A i \in N : m <= i
    <3> HIDE DEF N
    <3>1. QED BY <2>2, LeastOf
  <2>4. m \in 1 .. Len(stack) /\ stack[m] = k
    BY <2>3
  <2>5. \A j \in 1 .. m - 1 : stack[j] # k
    <3>1. SUFFICES ASSUME NEW j \in 1 .. m - 1, stack[j] = k PROVE FALSE
      OBVIOUS
    <3>2. j \in N
      BY <2>1, <2>4, <3>1
    <3>3. m <= j
      BY <2>3, <3>2
    <3>4. QED BY <2>1, <2>4, <3>1, <3>3
  <2>6. QED BY <2>4, <2>5
<1>4. First(a)
  BY <1>1, <1>3 DEF Order!CycleStart
<1>5. First(b)
  BY <1>2, <1>3 DEF Twin!CycleStart
<1>6. a \in Nat /\ b \in Nat /\ Len(stack) \in Nat
  BY <1>4, <1>5
<1>7. ~(a < b) /\ ~(b < a)
  <2>1. ~(a < b)
    BY <1>4, <1>5, <1>6
  <2>2. ~(b < a)
    BY <1>4, <1>5, <1>6
  <2>3. QED BY <2>1, <2>2
<1>8. QED BY <1>1, <1>2, <1>6, <1>7

LEMMA SameVisit ==
  ASSUME OrderInductive, TwinAgrees, result.kind = "valid", NEW k \in Items, Order!Visit(k), Twin!Visit(k)
  PROVE  /\ twinMark' = mark' /\ twinStack' = stack' /\ twinOrdered' = ordered' /\ twinResult' = result'
<1>1. /\ twinMark = mark /\ twinStack = stack /\ twinOrdered = ordered /\ twinResult = result
  BY DEF TwinAgrees, SameVisits
<1>2. CASE mark[k] = 0
  <2>1. mark' = [mark EXCEPT ![k] = 1] /\ stack' = Append(stack, k) /\ ordered' = ordered /\ result' = result
    BY <1>2 DEF Order!Visit
  <2>2. /\ twinMark' = [twinMark EXCEPT ![k] = 1] /\ twinStack' = Append(twinStack, k)
        /\ twinOrdered' = twinOrdered /\ twinResult' = twinResult
    BY <1>1, <1>2 DEF Twin!Visit
  <2>3. QED BY <1>1, <2>1, <2>2
<1>3. CASE mark[k] = 2
  BY <1>1, <1>3 DEF Order!Visit, Twin!Visit
<1>4. CASE mark[k] = 1
  <2>1. stack \in Seq(Items) /\ In(stack, k)
    BY <1>4 DEF OrderInductive, Walking, Walk, WalkTyped, MarksTell
  <2>2. Twin!CycleStart(k) = Order!CycleStart(k)
    BY <1>1, <2>1, SameCycleStart
  <2>3. /\ result' = [kind |-> "cycle", path |-> Append(SubSeq(stack, Order!CycleStart(k), Len(stack)), k)]
        /\ mark' = mark /\ stack' = stack /\ ordered' = ordered
    <3>1. mark[k] # 0 /\ mark[k] # 2
      BY <1>4
    <3>2. QED BY <3>1, Zenon DEF Order!Visit
  <2>4. /\ twinResult' = [kind |-> "cycle",
                          path |-> Append(SubSeq(twinStack, Twin!CycleStart(k), Len(twinStack)), k)]
        /\ twinMark' = twinMark /\ twinStack' = twinStack /\ twinOrdered' = twinOrdered
    <3>1. twinMark[k] # 0 /\ twinMark[k] # 2
      BY <1>1, <1>4
    <3>2. QED BY <3>1, Zenon DEF Twin!Visit
  <2>5. QED BY <1>1, <2>2, <2>3, <2>4
<1>5. QED BY <1>2, <1>3, <1>4 DEF Order!Visit

(* Which step a call takes is told by its state.                              *)
OrderTurn(n) ==
  \/ n = 1 /\ Order!Panicked
  \/ n = 2 /\ Order!Rejected
  \/ n = 3 /\ Order!Validated
  \/ n = 4 /\ Order!VisitItem
  \/ n = 5 /\ Order!VisitDependency
  \/ n = 6 /\ Order!Leave
  \/ n = 7 /\ Order!Return
TwinTurn(n) ==
  \/ n = 1 /\ Twin!Panicked
  \/ n = 2 /\ Twin!Rejected
  \/ n = 3 /\ Twin!Validated
  \/ n = 4 /\ Twin!VisitItem
  \/ n = 5 /\ Twin!VisitDependency
  \/ n = 6 /\ Twin!Leave
  \/ n = 7 /\ Twin!Return
TurnTold(n) ==
  /\ n \in {1, 2, 3} <=> result = [kind |-> "none"]
  /\ n \in {4, 5, 6, 7} => result.kind = "valid"
  /\ n = 1 => Order!Panicking # {}
  /\ n \in {2, 3} => Order!Panicking = {}
  /\ n = 2 => Order!ValidationErrors # {}
  /\ n = 3 => Order!ValidationErrors = {}
  /\ n \in {4, 7} <=> result # [kind |-> "none"] /\ stack = <<>>
  /\ n = 4 => left # {}
  /\ n = 7 => left = {}
  /\ n = 5 => rest[stack[Len(stack)]] # {}
  /\ n = 6 => rest[stack[Len(stack)]] = {}

LEMMA OneTurn ==
  ASSUME TwinAgrees, NEW m \in 1 .. 7, OrderTurn(m), NEW n \in 1 .. 7, TwinTurn(n)
  PROVE  m = n
<1>1. TurnTold(m)
  BY DEF OrderTurn, TurnTold, Order!Panicked, Order!Rejected, Order!Validated, Order!VisitItem,
         Order!VisitDependency, Order!Leave, Order!Return, Order!NotRun, Order!Visiting, Order!Top
<1>2. TurnTold(n)
  <2>1. /\ twinLeft = left /\ twinRest = rest /\ twinStack = stack /\ twinResult = result
    BY DEF TwinAgrees, SameVisits
  <2>2. Twin!Panicking = Order!Panicking
        /\ (Order!Panicking = {} => Twin!ValidationErrors = Order!ValidationErrors)
    BY SameInput
  <2>3. QED
    BY <2>1, <2>2
       DEF TwinTurn, TurnTold, Twin!Panicked, Twin!Rejected, Twin!Validated, Twin!VisitItem,
         Twin!VisitDependency, Twin!Leave, Twin!Return, Twin!NotRun, Twin!Visiting, Twin!Top
<1>3. QED BY <1>1, <1>2 DEF TurnTold

LEMMA TwinSteps ==
  ASSUME OrderInductive, TwinAgrees, Order!Next, Twin!Next
  PROVE  TwinAgrees'
<1>1. PICK n \in 1 .. 7 : OrderTurn(n)
  <2>1. \/ OrderTurn(1) \/ OrderTurn(2) \/ OrderTurn(3) \/ OrderTurn(4) \/ OrderTurn(5) \/ OrderTurn(6) \/ OrderTurn(7)
    <3>1. Order!Next
      OBVIOUS
    <3>2. Order!Panicked => OrderTurn(1)
      BY DEF OrderTurn
    <3>3. Order!Rejected => OrderTurn(2)
      BY DEF OrderTurn
    <3>4. Order!Validated => OrderTurn(3)
      BY DEF OrderTurn
    <3>5. Order!VisitItem => OrderTurn(4)
      BY DEF OrderTurn
    <3>6. Order!VisitDependency => OrderTurn(5)
      BY DEF OrderTurn
    <3>7. Order!Leave => OrderTurn(6)
      BY DEF OrderTurn
    <3>8. Order!Return => OrderTurn(7)
      BY DEF OrderTurn
    <3>9. QED BY <3>1, <3>2, <3>3, <3>4, <3>5, <3>6, <3>7, <3>8, Zenon DEF Order!Next
  <2>2. {1, 2, 3, 4, 5, 6, 7} \subseteq 1 .. 7
    OBVIOUS
  <2>3. QED BY <2>1, <2>2
<1>2. PICK m \in 1 .. 7 : TwinTurn(m)
  <2>1. \/ TwinTurn(1) \/ TwinTurn(2) \/ TwinTurn(3) \/ TwinTurn(4) \/ TwinTurn(5) \/ TwinTurn(6) \/ TwinTurn(7)
    <3>1. Twin!Next
      OBVIOUS
    <3>2. Twin!Panicked => TwinTurn(1)
      BY DEF TwinTurn
    <3>3. Twin!Rejected => TwinTurn(2)
      BY DEF TwinTurn
    <3>4. Twin!Validated => TwinTurn(3)
      BY DEF TwinTurn
    <3>5. Twin!VisitItem => TwinTurn(4)
      BY DEF TwinTurn
    <3>6. Twin!VisitDependency => TwinTurn(5)
      BY DEF TwinTurn
    <3>7. Twin!Leave => TwinTurn(6)
      BY DEF TwinTurn
    <3>8. Twin!Return => TwinTurn(7)
      BY DEF TwinTurn
    <3>9. QED BY <3>1, <3>2, <3>3, <3>4, <3>5, <3>6, <3>7, <3>8, Zenon DEF Twin!Next
  <2>2. {1, 2, 3, 4, 5, 6, 7} \subseteq 1 .. 7
    OBVIOUS
  <2>3. QED BY <2>1, <2>2
<1>3. TwinTurn(n)
  BY <1>1, <1>2, OneTurn
<1>4. UNCHANGED <<items, dependencies>>
  BY DEF Order!Next, Order!Panicked, Order!Rejected, Order!Validated, Order!VisitItem,
         Order!VisitDependency, Order!Leave, Order!Return, Order!input
<1>5. UNCHANGED <<twinItems, twinDependencies>>
  BY DEF Twin!Next, Twin!Panicked, Twin!Rejected, Twin!Validated, Twin!VisitItem,
         Twin!VisitDependency, Twin!Leave, Twin!Return, Twin!input
<1>6. SameRegistry'
  <2>1. SameRegistry
    BY DEF TwinAgrees
  <2>2. Items' = Items /\ Order!Listed(twinItems)' = Order!Listed(twinItems)
    BY <1>4, <1>5 DEF Items, Order!Listed
  <2>3. \A c : /\ Order!Listed(twinDependencies[c])' = Order!Listed(twinDependencies[c])
               /\ Order!Listed(dependencies[c])' = Order!Listed(dependencies[c])
    BY <1>4, <1>5 DEF Order!Listed
  <2>4. QED BY <1>4, <1>5, <2>1, <2>2, <2>3 DEF SameRegistry
<1>7. /\ twinLeft = left /\ twinRest = rest /\ twinMark = mark /\ twinStack = stack
      /\ twinOrdered = ordered /\ twinResult = result
  BY DEF TwinAgrees, SameVisits
<1>8. CASE Order!Panicked /\ Twin!Panicked
  <2>1. Twin!FirstOf(twinItems, Twin!Panicking) = Order!FirstOf(items, Order!Panicking)
    BY SameInput, OneFirst
  <2>2. QED BY <1>6, <1>7, <1>8, <2>1
           DEF Order!Panicked, Twin!Panicked, Order!visits, Twin!visits, TwinAgrees, SameVisits
<1>9. CASE Order!Rejected /\ Twin!Rejected
  <2>1. Twin!ValidationErrors = Order!ValidationErrors
    BY <1>9, SameInput DEF Order!Rejected
  <2>2. QED BY <1>6, <1>7, <1>9, <2>1
           DEF Order!Rejected, Twin!Rejected, Order!visits, Twin!visits, TwinAgrees, SameVisits
<1>10. CASE Order!Validated /\ Twin!Validated
  <2>1. Twin!Deps = Order!Deps
    BY <1>10, SameInput DEF Order!Validated
  <2>2. QED BY <1>6, <1>7, <1>10, <2>1 DEF Order!Validated, Twin!Validated, TwinAgrees, SameVisits
<1>11. CASE Order!VisitItem /\ Twin!VisitItem
  <2>1. PICK k : k = Order!FirstOf(items, left)
    OBVIOUS
  <2>2. k = Twin!FirstOf(twinItems, twinLeft)
    BY <1>7, <2>1, OneFirst
  <2>3. result.kind = "valid" /\ k \in Items
    <3>1. result.kind = "valid" /\ left # {} /\ left \subseteq Items /\ left \subseteq Keys
      BY <1>11 DEF Order!VisitItem, Order!Visiting, OrderInductive, Walking, Walk, WalkTyped
    <3>2. QED BY <2>1, <3>1, FirstIsThere
  <2>4. left' = left \ {k} /\ rest' = rest /\ Order!Visit(k)
    BY <1>11, <2>1 DEF Order!VisitItem
  <2>5. twinLeft' = twinLeft \ {k} /\ twinRest' = twinRest /\ Twin!Visit(k)
    BY <1>11, <2>2 DEF Twin!VisitItem
  <2>6. /\ twinMark' = mark' /\ twinStack' = stack' /\ twinOrdered' = ordered' /\ twinResult' = result'
    BY <2>3, <2>4, <2>5, SameVisit
  <2>7. QED BY <1>6, <1>7, <2>4, <2>5, <2>6 DEF TwinAgrees, SameVisits
<1>12. CASE Order!VisitDependency /\ Twin!VisitDependency
  <2>1. PICK t : t = stack[Len(stack)] /\ t = Order!Top /\ t = Twin!Top
    BY <1>7 DEF Order!Top, Twin!Top
  <2>2. PICK k : k = Order!FirstOf(dependencies[t], rest[t])
    OBVIOUS
  <2>3. k = Twin!FirstOf(twinDependencies[t], twinRest[t])
    BY <1>7, <2>2, OneFirst
  <2>4. result.kind = "valid" /\ k \in Items
    <3>1. result.kind = "valid" /\ Items \subseteq Keys /\ stack # <<>> /\ stack \in Seq(Items)
          /\ rest \in [Items -> SUBSET Items] /\ rest[t] # {}
      BY <1>12, <2>1 DEF Order!VisitDependency, Order!Visiting, OrderInductive, Walking, Walk, WalkTyped
    <3>2. t \in Items
      <4>1. stack # <<>> /\ stack \in Seq(Items)
        BY <3>1
      <4>2. stack[Len(stack)] \in Items
        BY <4>1
      <4>3. QED BY <2>1, <4>2
    <3>3. rest[t] \subseteq Items /\ rest[t] \subseteq Keys
      BY <3>1, <3>2
    <3>4. QED BY <2>2, <3>1, <3>3, FirstIsThere
  <2>5. rest' = [rest EXCEPT ![t] = @ \ {k}] /\ left' = left /\ Order!Visit(k)
    BY <1>12, <2>1, <2>2 DEF Order!VisitDependency
  <2>6. twinRest' = [twinRest EXCEPT ![t] = @ \ {k}] /\ twinLeft' = twinLeft /\ Twin!Visit(k)
    BY <1>12, <2>1, <2>3 DEF Twin!VisitDependency
  <2>7. /\ twinMark' = mark' /\ twinStack' = stack' /\ twinOrdered' = ordered' /\ twinResult' = result'
    BY <2>4, <2>5, <2>6, SameVisit
  <2>8. QED BY <1>6, <1>7, <2>5, <2>6, <2>7 DEF TwinAgrees, SameVisits
<1>13. CASE Order!Leave /\ Twin!Leave
  BY <1>6, <1>7, <1>13
     DEF Order!Leave, Twin!Leave, Order!Top, Twin!Top, Order!Behind, Twin!Behind, TwinAgrees, SameVisits
<1>14. CASE Order!Return /\ Twin!Return
  BY <1>6, <1>7, <1>14 DEF Order!Return, Twin!Return, Order!visits, Twin!visits, TwinAgrees, SameVisits
<1>15. QED
  BY <1>1, <1>3, <1>8, <1>9, <1>10, <1>11, <1>12, <1>13, <1>14 DEF OrderTurn, TwinTurn

LEMMA TwinsRest ==
  ASSUME TwinAgrees, UNCHANGED orderVars
  PROVE  TwinAgrees'
<1>1. SameRegistry' /\ SameVisits'
  <2>1. Items' = Items /\ Order!Listed(twinItems)' = Order!Listed(twinItems)
    BY DEF Items, Order!Listed, orderVars
  <2>2. \A c : /\ Order!Listed(twinDependencies[c])' = Order!Listed(twinDependencies[c])
               /\ Order!Listed(dependencies[c])' = Order!Listed(dependencies[c])
    BY DEF Order!Listed, orderVars
  <2>3. UNCHANGED <<dependencies, twinDependencies>> /\ SameVisits'
    BY DEF TwinAgrees, SameVisits, orderVars
  <2>4. QED BY <2>1, <2>2, <2>3 DEF TwinAgrees, SameRegistry
<1>2. QED BY <1>1 DEF TwinAgrees

LEMMA OrderInvariant == Spec => [](OrderInductive /\ TwinAgrees)
<1>1. Init => OrderInductive /\ TwinAgrees
  BY OrderInitInductive, TwinsStart DEF Init, Rest
<1>2. OrderInductive /\ TwinAgrees /\ [Next]_vars => (OrderInductive /\ TwinAgrees)'
  <2> SUFFICES ASSUME OrderInductive, TwinAgrees, [Next]_vars PROVE OrderInductive' /\ TwinAgrees'
    OBVIOUS
  <2>1. (Order!Next /\ Twin!Next) \/ UNCHANGED orderVars
    BY OneMoves
  <2>2. CASE Order!Next /\ Twin!Next
    BY <2>2, OrderSteps, TwinSteps
  <2>3. CASE UNCHANGED orderVars
    <3>1. UNCHANGED <<items, dependencies, left, rest, mark, stack, ordered, result>>
      BY <2>3 DEF orderVars
    <3>2. QED BY <2>3, <3>1, OrderRests, TwinsRest
  <2>4. QED BY <2>1, <2>2, <2>3
<1>3. QED BY <1>1, <1>2, PTL DEF Spec

(* dependencyOrder: on any registry of any declared dependencies it answers   *)
(* with an order only if there is one, and then with one of them, and with an  *)
(* error only if there is none; the cycle it names is a path of declared       *)
(* dependencies that comes back to where it starts and nowhere before.         *)
THEOREM AnswersAreSound == Spec => []AnswerSound
<1>1. OrderInductive => AnswerSound
  BY DEF OrderInductive, AnswerSound
<1>2. QED BY <1>1, OrderInvariant, PTL

(* dependencyOrder: two calls on one registry are at every step in one state,  *)
(* whatever the order in which each finds the components and each component    *)
(* lists what it depends on, and answer alike.                                 *)
THEOREM OrderIsDeterministic == Spec => []Deterministic
<1>1. TwinAgrees => Deterministic
  BY DEF TwinAgrees, SameVisits, Deterministic
<1>2. QED BY <1>1, OrderInvariant, PTL
=============================================================================
