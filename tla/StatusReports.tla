---------------------------- MODULE StatusReports ----------------------------
(***************************************************************************)
(* What Atom.Status, Atom.Health and Atom.WaitState (types/status.go) tell *)
(* while the Atom goes on: Status is one section of the lock; Health takes *)
(* the state and the registry in one and then calls the components without *)
(* it; WaitState looks at the state once a millisecond. The Atom is any    *)
(* that keeps AtomContract, which AtomLifecycle is proved to implement.    *)
(***************************************************************************)
EXTENDS Integers, FiniteSets

CONSTANTS
  Components, Deps,  \* of AtomContract
  HealthCheckers,    \* the components that implement HealthChecker
  Observers,         \* goroutines that ask
  MaxMoments         \* bound on the moments a call lasts

VARIABLES
  state, registry, serving,  \* the Atom
  call,                      \* what each observer asks, and what it was told
  moments                    \* history: the Atom as it has been since it asked

atom == <<state, registry, serving>>
vars == <<atom, call, moments>>

Contract == INSTANCE AtomContract

Idle == [phase |-> "idle"]

Init ==
  /\ Contract!Init
  /\ call = [o \in Observers |-> Idle]
  /\ moments = [o \in Observers |-> {}]

Asks(o, query) ==
  /\ call[o].phase = "idle"
  /\ call' = [call EXCEPT ![o] = query]
  /\ moments' = [moments EXCEPT ![o] = {atom}]
  /\ UNCHANGED atom

Goes(o, reached) ==
  /\ call' = [call EXCEPT ![o] = reached]
  /\ UNCHANGED <<atom, moments>>

(* One step of the Atom, which every call under way lives to see.             *)
AtomSteps ==
  /\ \A o \in Observers : Cardinality(moments[o]) < MaxMoments
  /\ Contract!Next
  /\ moments' = [o \in Observers |->
                   IF call[o].phase = "idle" THEN {} ELSE moments[o] \cup {atom'}]
  /\ UNCHANGED call

-----------------------------------------------------------------------------
Status(o) ==
  Asks(o, [phase |-> "status", found |-> state,
           report |-> [c \in registry |-> IF c \in serving THEN "mounted" ELSE "registered"]])

HealthBegins(o) ==
  Asks(o, [phase |-> "checking", found |-> state, todo |-> registry, report |-> <<>>])

\* Variant: the state is read again for each component.
StateNow(o) == state

StateFor(o) == call[o].found

(* An error and a panic both count as "bad".                                  *)
Answers(o, c) ==
  CASE StateFor(o) = "created" -> {"skipped"}
    [] StateFor(o) \in {"mounted", "running"} ->
         IF c \in HealthCheckers THEN {"ok", "bad"} ELSE {"skipped"}
    [] OTHER -> {"bad"}

(* Outside the lock: the component may have been unmounted meanwhile.         *)
CheckComponent(o) ==
  /\ call[o].phase = "checking"
  /\ \E c \in call[o].todo : \E answer \in Answers(o, c) :
       Goes(o, [call[o] EXCEPT !.todo = @ \ {c},
                               !.report = [d \in DOMAIN @ \cup {c} |->
                                             IF d = c THEN answer ELSE @[d]]])

Bad(report) == {c \in DOMAIN report : report[c] = "bad"}

HealthReturns(o) ==
  /\ call[o].phase = "checking" /\ call[o].todo = {}
  /\ Goes(o, [phase |-> "health", found |-> call[o].found, report |-> call[o].report,
              unhealthy |-> Bad(call[o].report)])

-----------------------------------------------------------------------------
WaitBegins(o, target) == Asks(o, [phase |-> "look", target |-> target, over |-> FALSE])

ContextEnds(o) ==
  /\ call[o].phase \in {"look", "sleep"} /\ ~call[o].over
  /\ Goes(o, [call[o] EXCEPT !.over = TRUE])

\* Variant: the context is looked at before the state.
ContextFirst(o) == call[o].over

GivesUp(o) == call[o].phase = "sleep" /\ call[o].over

Looks(o) ==
  /\ call[o].phase = "look"
  /\ Goes(o, [call[o] EXCEPT !.phase = IF state = call[o].target THEN "reached" ELSE "sleep"])

(* The ticker; also when the context has ended, as select takes either.       *)
Ticks(o) == call[o].phase = "sleep" /\ Goes(o, [call[o] EXCEPT !.phase = "look"])

WaitTimesOut(o) ==
  /\ call[o].phase \in {"look", "sleep"} /\ GivesUp(o)
  /\ Goes(o, [call[o] EXCEPT !.phase = "timedOut"])

Returned == {"status", "health", "reached", "timedOut"}

Return(o) ==
  /\ call[o].phase \in Returned
  /\ call' = [call EXCEPT ![o] = Idle]
  /\ moments' = [moments EXCEPT ![o] = {}]
  /\ UNCHANGED atom

Observe(o) ==
  \/ Status(o) \/ HealthBegins(o) \/ CheckComponent(o) \/ HealthReturns(o)
  \/ \E target \in {"created", "mounted", "running", "stopped", "failed"} : WaitBegins(o, target)
  \/ ContextEnds(o) \/ Looks(o) \/ Ticks(o) \/ WaitTimesOut(o) \/ Return(o)

Next == AtomSteps \/ \E o \in Observers : Observe(o)

Spec == Init /\ [][Next]_vars
-----------------------------------------------------------------------------
TypeOK ==
  /\ serving \subseteq registry /\ registry \subseteq Components
  /\ \A o \in Observers :
       /\ call[o].phase \in {"idle", "checking", "look", "sleep"} \cup Returned
       /\ call[o].phase = "idle" <=> moments[o] = {}

(* A report tells of one moment of its call, however far the Atom has gone    *)
(* on: the components are those registered when the state was the one it      *)
(* says, in "mounted" and "running" all of them mounted. No verdict comes     *)
(* from another state than that, and the error names the bad ones.            *)
Tells(k, m) ==
  /\ m[1] = k.found /\ m[2] = DOMAIN k.report
  /\ m[1] \in {"mounted", "running"} => m[3] = DOMAIN k.report
  /\ k.phase = "status" => m[3] = {c \in DOMAIN k.report : k.report[c] = "mounted"}
  /\ k.phase = "health" =>
       /\ k.unhealthy = {c \in DOMAIN k.report : k.report[c] \notin {"ok", "skipped"}}
       /\ m[1] = "created" => k.unhealthy = {}
       /\ m[1] \in {"stopped", "failed"} => k.unhealthy = m[2]
       /\ m[1] \in {"mounted", "running"} =>
            \A c \in m[2] : c \in HealthCheckers <=> k.report[c] # "skipped"

ReportsOneMoment(o) ==
  call[o].phase \in {"status", "health"} => \E m \in moments[o] : Tells(call[o], m)

(* WaitState returns nil only for a state the Atom has been in, and gives up  *)
(* only if it has been in another: a state that holds is seen, also with a    *)
(* context that has ended.                                                    *)
WaitHonest(o) ==
  /\ call[o].phase = "reached" => \E m \in moments[o] : m[1] = call[o].target
  /\ call[o].phase = "timedOut" => \E m \in moments[o] : m[1] # call[o].target

ReportsHonest == \A o \in Observers : ReportsOneMoment(o) /\ WaitHonest(o)
=============================================================================
