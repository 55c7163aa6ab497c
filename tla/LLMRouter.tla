------------------------------- MODULE LLMRouter ------------------------------
(***************************************************************************)
(* The second opinion (llm.py): providers in order, each with a budget of  *)
(* requests a day that lives in memory.  The test button of the dashboard  *)
(* spends from the same budget without asking it.                          *)
(***************************************************************************)
EXTENDS Integers

CONSTANTS
    NProviders,         \* with a key, in the order of the configuration
    Budget,             \* daily_budget
    VetoBinding         \* llm_veto_binding

Providers == 1..NProviders

ASSUME RouterAssumption == NProviders \in Nat /\ Budget \in [Providers -> Nat] /\ VetoBinding \in BOOLEAN

VARIABLES
    today,              \* the day, in UTC
    day, used,          \* per provider: the day its counter is of, and the counter
    asking,             \* second_opinion at work
    asked,              \* history: requests of the cycle today, per provider
    launches, carried   \* history: processes that ran today; providers the cycle found
                        \* available yesterday and asked today

routerVars == <<today, day, used, asking, asked, launches, carried>>

Answers == {"agree", "veto", "none", "raised"}      \* raised: an exception that attempt lets through

NotAsking == [step |-> "idle", p |-> 0, answer |-> "none"]

RouterInit ==
    /\ today = 1
    /\ day = [p \in Providers |-> 0] /\ used = [p \in Providers |-> 0]
    /\ asking = NotAsking
    /\ asked = [p \in Providers |-> 0] /\ launches = 1 /\ carried = {}

-------------------------------------------------------------------------------
(* second_opinion *)

PassWrapped(p) == [asking EXCEPT !.step = "check", !.p = (p % NProviders) + 1]  \* mutant: starts over

\* On to the next provider; after the last the answer is none.
Pass(p) == IF p < NProviders THEN [asking EXCEPT !.step = "check", !.p = p + 1]
           ELSE [asking EXCEPT !.step = "done", !.answer = "none"]

\* Without a provider there is no answer either.
Consult == asking.step = "idle" /\ asking' = Pass(0)

\* available: the first question of a day resets the counter.
Check ==
    /\ asking.step = "check"
    /\ LET p == asking.p
           count == IF day[p] = today THEN used[p] ELSE 0
       IN  /\ day' = [day EXCEPT ![p] = today]
           /\ used' = [used EXCEPT ![p] = count]
           /\ asking' = IF count < Budget[p] THEN [asking EXCEPT !.step = "send"] ELSE Pass(p)
    /\ UNCHANGED <<today, asked, launches, carried>>

CountedLater(p)  == UNCHANGED used                  \* mutant: the counter is left alone
Counted(p)       == used' = [used EXCEPT ![p] = @ + 1]

\* The budget is spent before the request.
Send ==
    /\ asking.step = "send"
    /\ Counted(asking.p)
    /\ asked' = [asked EXCEPT ![asking.p] = @ + 1]
    /\ asking' = [asking EXCEPT !.step = "wait"]
    /\ UNCHANGED <<today, day, launches, carried>>

\* A verdict, a failure or a timeout, or an answer of a shape that attempt does not catch.
Answer ==
    /\ asking.step = "wait"
    /\ \/ \E a \in {"agree", "veto", "raised"} : asking' = [asking EXCEPT !.step = "done", !.answer = a]
       \/ asking' = Pass(asking.p)
    /\ UNCHANGED <<today, day, used, asked, launches, carried>>

(* Around it *)

\* The test button: no look at the budget, no look at the day.
Probe ==
    /\ \E p \in Providers : Counted(p)
    /\ UNCHANGED <<today, day, asking, asked, launches, carried>>

Midnight ==
    /\ today' = today + 1
    /\ asked' = [p \in Providers |-> 0] /\ launches' = 1
    /\ carried' = IF asking.step = "send" THEN {asking.p} ELSE {}
    /\ UNCHANGED <<day, used, asking>>

\* The counters are lost.
RouterRestart ==
    /\ day' = [p \in Providers |-> 0] /\ used' = [p \in Providers |-> 0]
    /\ asking' = NotAsking /\ launches' = launches + 1
    /\ UNCHANGED <<today, asked, carried>>

-------------------------------------------------------------------------------
(* Properties *)

\* The cycle asks a provider no more often in a day than its budget allows, once more for every
\* restart of that day, and by one when midnight fell between the question and the request.  The
\* test button can only take from the cycle, never give.
CycleWithinBudget ==
    \A p \in Providers : asked[p] <= launches * Budget[p] + (IF p \in carried THEN 1 ELSE 0)
===============================================================================
